----------------------------- MODULE PanelPath -----------------------------
(***************************************************************************)
(* internal/panelcfg: the prefix under which the panel serves              *)
(* subscriptions beside the documented one.  A rotation is a transaction   *)
(* of READ COMMITTED: its UPDATE sees the rows active when it started,     *)
(* waits for those another transaction holds, and skips those that are no  *)
(* longer active then; its INSERT or upsert and its COMMIT follow.         *)
(* The router reads the active path once, when the process starts.         *)
(***************************************************************************)
EXTENDS Integers, FiniteSets

CONSTANTS Rotator,        \* concurrent requests that rotate or reset the path
          MaxRotations    \* bound: rotations and resets ever started

ASSUME PathAssumption == MaxRotations \in Nat

VARIABLES rows,       \* rows[r]: row r of panel_path_config
          tx,         \* tx[o]: the transaction of request o, and its step
          stamps,     \* clock_timestamp(): how often it was read for an insert
          rotations,  \* how many rotations were started
          mounted     \* the row whose path the running router serves

pathVars == <<rows, tx, stamps, rotations, mounted>>

Sentinel == 0                     \* the row of the empty default path
RowId == 0..MaxRotations
NoTx == [at |-> "none", reset |-> FALSE, seen |-> {}, held |-> {}, id |-> 0, stamp |-> 0]

PathRow == [active : BOOLEAN, created : Nat \cup {-1}]
Tx == [at : {"none", "lock", "insert", "commit"}, reset : BOOLEAN,
       seen : SUBSET RowId, held : SUBSET RowId, id : RowId, stamp : Nat]

PathTypeOK ==
  /\ rows \in [RowId -> PathRow]
  /\ tx \in [Rotator -> Tx]
  /\ stamps \in Nat
  /\ rotations \in 0..MaxRotations
  /\ mounted \in RowId

Active == {r \in RowId : rows[r].active}
HeldByOthers(o) == UNION {tx[p].held : p \in Rotator \ {o}}

\* GetActive: the newest of the active rows.
GetActive ==
  CHOOSE r \in Active : \A q \in Active : rows[q].created <= rows[r].created

\* Rotate, RotateTo and Reset start: the UPDATE takes its snapshot.
BeginRotation(o) ==
  /\ tx[o].at = "none" /\ rotations < MaxRotations
  /\ rotations' = rotations + 1
  /\ \E reset \in BOOLEAN :
       tx' = [tx EXCEPT ![o] = [NoTx EXCEPT
         !.at = "lock", !.reset = reset, !.seen = Active,
         !.id = IF reset THEN Sentinel ELSE rotations + 1]]
  /\ UNCHANGED <<rows, stamps, mounted>>

\* The UPDATE has the rows to itself and takes those that are still active.
Deactivate(o) ==
  /\ tx[o].at = "lock"
  /\ tx[o].seen \cap HeldByOthers(o) = {}
  /\ tx' = [tx EXCEPT ![o].at = "insert", ![o].held = tx[o].seen \cap Active]
  /\ UNCHANGED <<rows, stamps, rotations, mounted>>

\* Bug variant of Insert: the upsert leaves created_at of the sentinel row alone.
InsertKeepingStamp(o) ==
  /\ tx[o].at = "insert"
  /\ tx[o].id \notin HeldByOthers(o)
  /\ stamps' = stamps + 1
  /\ tx' = [tx EXCEPT ![o].at = "commit",
                      ![o].stamp = IF tx[o].reset THEN rows[Sentinel].created ELSE stamps + 1,
                      ![o].held = @ \cup {tx[o].id}]
  /\ UNCHANGED <<rows, rotations, mounted>>

\* INSERT of a new row, or upsert of the sentinel row, stamped with the clock.
Insert(o) ==
  /\ tx[o].at = "insert"
  /\ tx[o].id \notin HeldByOthers(o)
  /\ stamps' = stamps + 1
  /\ tx' = [tx EXCEPT ![o].at = "commit", ![o].stamp = stamps + 1,
                      ![o].held = @ \cup {tx[o].id}]
  /\ UNCHANGED <<rows, rotations, mounted>>

Commit(o) ==
  /\ tx[o].at = "commit"
  /\ rows' = [r \in RowId |->
       CASE r = tx[o].id      -> [active |-> TRUE, created |-> tx[o].stamp]
         [] r \in tx[o].held \ {tx[o].id} -> [rows[r] EXCEPT !.active = FALSE]
         [] OTHER             -> rows[r]]
  /\ tx' = [tx EXCEPT ![o] = NoTx]
  /\ UNCHANGED <<stamps, rotations, mounted>>

\* A statement or the commit fails, or the request is cut off: all is undone.
Rollback(o) ==
  /\ tx[o].at # "none"
  /\ tx' = [tx EXCEPT ![o] = NoTx]
  /\ UNCHANGED <<rows, stamps, rotations, mounted>>

\* The panel is started again and mounts the path that is active now.
RestartRouter ==
  /\ mounted' = GetActive
  /\ tx' = [o \in Rotator |-> NoTx]
  /\ UNCHANGED <<rows, stamps, rotations>>

PathInit ==
  /\ rows = [r \in RowId |-> [active |-> r = Sentinel, created |-> IF r = Sentinel THEN 0 ELSE -1]]
  /\ tx = [o \in Rotator |-> NoTx]
  /\ stamps = 0 /\ rotations = 0
  /\ mounted = Sentinel

PathNext ==
  \/ \E o \in Rotator : \/ BeginRotation(o) \/ Deactivate(o) \/ Insert(o)
                         \/ Commit(o) \/ Rollback(o)
  \/ RestartRouter

-----------------------------------------------------------------------------
\* There is always an active path, and GetActive never answers with one that a
\* later rotation or reset replaced, however their transactions interleave.
NewestRotationWins ==
  /\ Active # {}
  /\ \A r \in RowId : rows[r].created <= rows[GetActive].created
=============================================================================
