------------------------------ MODULE AuditLog ------------------------------
(***************************************************************************)
(* The audit log: entries that are only ever added, and lists of the       *)
(* newest of them that match a filter.  An entry carries the moment the    *)
(* service read its clock, which two entries may share; the two kinds of   *)
(* store order such entries differently.  Actor, address and the rows      *)
(* before and after are left out.                                          *)
(***************************************************************************)
EXTENDS Naturals, Integers, FiniteSets, Sequences

CONSTANTS DefaultListLimit, MaxListLimit,
          Unset   \* a field of a filter that is left empty

ASSUME AuditLimits == DefaultListLimit \in Nat \ {0} /\ MaxListLimit \in Nat \ {0}

Entry(action, kind, id, at) ==
    [action |-> action, kind |-> kind, id |-> id, at |-> at]

ListFilter(action, kind, id, limit) ==
    [action |-> action, kind |-> kind, id |-> id, limit |-> limit]

\* Insert of both stores.
Insert(log, entry) == Append(log, entry)

ListLimit(f) == CASE f.limit <= 0            -> DefaultListLimit
                  [] f.limit > MaxListLimit  -> MaxListLimit
                  [] OTHER                   -> f.limit

Matching(log, f) == {k \in DOMAIN log : /\ f.action \in {Unset, log[k].action}
                                        /\ f.kind \in {Unset, log[k].kind}
                                        /\ f.id \in {Unset, log[k].id}}

\* The numbers of M, each after those that come before it.
InOrder(M, Before(_, _)) ==
    [n \in 1 .. Cardinality(M) |->
        CHOOSE k \in M : Cardinality({j \in M : Before(j, k)}) = n - 1]

Cut(seq, n) == SubSeq(seq, 1, IF Len(seq) < n THEN Len(seq) ELSE n)

\* The memory store sorts stably: of one moment, the oldest entry first.
MemList(log, f) ==
    LET Before(j, k) == \/ log[j].at > log[k].at
                        \/ log[j].at = log[k].at /\ j < k
        order == InOrder(Matching(log, f), Before)
    IN  Cut([k \in DOMAIN order |-> log[order[k]]], ListLimit(f))

\* ORDER BY created_at DESC, id DESC.
PgList(log, f) ==
    LET Before(j, k) == \/ log[j].at > log[k].at
                        \/ log[j].at = log[k].at /\ j > k
        order == InOrder(Matching(log, f), Before)
    IN  Cut([k \in DOMAIN order |-> log[order[k]]], ListLimit(f))
=============================================================================
