----------------------------- MODULE AccessSync -----------------------------
(***************************************************************************)
(* How an edit of the panel's database reaches the sing-box configuration  *)
(* of the nodes: the users, inbounds, hosts and credentials services, the  *)
(* per-node BatchedApplier, the builder's FlushFn and the agent call.      *)
(*                                                                         *)
(* A mutating request writes its row, and only then (after webhooks and    *)
(* audit, which leave this state alone) hands a delta to the appliers of   *)
(* the nodes it believes affected.  The FlushFn ignores the deltas and     *)
(* re-reads the database, in several queries, so a node is brought up to   *)
(* date by any later flush, and by nothing else.  lost is a history        *)
(* variable: the reasons, since a flush of the node last began to read,    *)
(* why no flush may be on its way although the node is out of date.        *)
(***************************************************************************)
EXTENDS BatchedApplier

CONSTANTS
    Users, Hosts, Inbounds,
    NodeOf,         \* NodeOf[i]: the node inbound i belongs to (never updated)
    InlineInbounds, \* inbounds whose params carry the Phase 1 uuid/password
    CredValues,     \* credential values
    NilKey,         \* uuid.Nil, the key of inbound deltas
    Rows,           \* user rows the operator writes
    Procs,          \* concurrent HTTP requests
    InitUsers, InitInbounds, InitEndpoints, \* the database at boot
    Ops,            \* kinds of edit the operator makes
    MaxOps, MaxFaults, MaxBoots  \* bounds on edits, failed calls and restarts

UserRow == [status : {"unborn", "active", "inactive", "deleted"},
            allow : SUBSET Hosts, block : SUBSET Hosts]

ASSUME AccessAssumption ==
    /\ NodeOf \in [Inbounds -> Nodes]
    /\ Keys = Users \cup {NilKey}
    /\ NilKey \notin Users
    /\ Users \cap Inbounds = {}
    /\ InlineInbounds \subseteq Inbounds
    /\ Rows \subseteq UserRow
    /\ \A r \in Rows : r.status \in {"active", "inactive"}
    /\ "none" \notin CredValues
    /\ InitUsers \subseteq Users
    /\ InitInbounds \subseteq Inbounds
    /\ InitEndpoints \in [Hosts -> SUBSET InitInbounds]

VARIABLES
    users,      \* users[u]: the users row, its two host lists included
    inbounds,   \* inbounds[i]: "unborn", "on", "off" (not Enabled) or "deleted"
    endpoints,  \* endpoints[h]: inbounds the endpoints of host h point at ({}: no such host)
    creds,      \* creds[i][u]: value of the user_inbound_credentials row, or "none"
    req,        \* req[p]: the request p is handling
    build,      \* build[n]: what the FlushFn of node n has read so far
    running,    \* running[n]: the configuration the node's sing-box runs
    lost,       \* lost[n]: why a flush for node n may not be coming
    ops, faults, boots

dbVars == <<users, inbounds, endpoints, creds>>
bounds == <<ops, faults, boots>>
vars == <<applierVars, dbVars, req, build, running, lost, bounds>>

-----------------------------------------------------------------------------
\* What the database says.

UserLive(u) == users[u].status \in {"active", "inactive"}
InboundLive(i) == inbounds[i] \in {"on", "off"}

NodesForHost(h) == {NodeOf[i] : i \in endpoints[h]}

\* expandHostsToNodes: a failed lookup (a host of failed) counts as no nodes.
NodesOf(hs, failed) == UNION {NodesForHost(h) : h \in hs \ failed}

\* The per-node filter shared by the fan-out and by AllowedUsersForNode.
Admits(row, n, failed) ==
    /\ row.block # {} => n \notin NodesOf(row.block, failed)
    /\ row.allow # {} => n \in NodesOf(row.allow, failed)

\* AllowedUsersForNode
AllowedUsersForNode(n, failed) ==
    {u \in Users : users[u].status = "active" /\ Admits(users[u], n, failed)}

\* The enabled inbounds ListByNode hands to the builder.
EnabledInbounds(n) == {i \in Inbounds : NodeOf[i] = n /\ inbounds[i] = "on"}

\* The credentials of inbound i left by the builder's filter.
KeptCreds(i, allowed) ==
    {<<i, u, creds[i][u]>> : u \in {v \in allowed : creds[i][v] # "none"}}

\* The inbounds of which no credential is left: the Phase 1 path.
Bare(inbs, kept) == {i \in inbs : \A e \in kept : e[1] # i}

\* RenderConfig on what was read: one entry per kept credential, and the
\* inline Phase 1 user where none was kept.
Rendered(inbs, kept) ==
    kept \cup {<<i, "inline", "inline">> : i \in Bare(inbs, kept) \cap InlineInbounds}

\* RenderConfig fails where the Phase 1 path finds no inline credential.
Renderable(inbs, kept) == Bare(inbs, kept) \subseteq InlineInbounds

\* The configuration a flush that reads the present database would produce.
CurrentCreds(inbs, allowed) == UNION {KeptCreds(i, allowed) : i \in inbs}
Current(n) ==
    Rendered(EnabledInbounds(n),
             CurrentCreds(EnabledInbounds(n), AllowedUsersForNode(n, {})))

Behind(n) == running[n] # Current(n)

-----------------------------------------------------------------------------
\* Requests.

NoRow == [status |-> "unborn", allow |-> {}, block |-> {}]
Idle == [pc |-> "idle", kind |-> "add", obj |-> NilKey, row |-> NoRow, todo |-> {}]
NoBuild == [pc |-> "start", inbs |-> {}, allowed |-> {}, todo |-> {}, kept |-> {}]

Wired == {n \in Nodes : loop[n] # "off"}

Live(obj) == IF obj \in Users THEN UserLive(obj) ELSE InboundLive(obj)

\* Record reason r for the nodes of ns a flush could leave out of date.
Lose(ns, r) ==
    lost' = [n \in Nodes |->
                IF n \in ns /\ (Behind(n)' \/ loop[n] = "flush")
                THEN lost[n] \cup {r} ELSE lost[n]]

Edit(op) ==
    /\ op \in Ops
    /\ ops < MaxOps
    /\ ops' = ops + 1
    /\ UNCHANGED <<faults, boots>>

Fault ==
    /\ faults < MaxFaults
    /\ faults' = faults + 1
    /\ UNCHANGED <<ops, boots>>

Serve(p, pc, kind, obj, row) ==
    /\ req[p] = Idle
    /\ ~stopping
    /\ req' = [req EXCEPT ![p] = [pc |-> pc, kind |-> kind, obj |-> obj,
                                  row |-> row, todo |-> {}]]

\* users.Service.Create: the row is written, then announced from memory.
CreateUser(p, u, row) ==
    /\ Edit("create_user")
    /\ users[u].status = "unborn"
    /\ users' = [users EXCEPT ![u] = row]
    /\ Serve(p, "announce", "add", u, row)
    /\ UNCHANGED <<applierVars, inbounds, endpoints, creds, build, running, lost>>

\* Bug variant of UpdateUser: only a change of status is announced.
UpdateUserStatusOnly(p, u, row, kind) ==
    /\ Edit("update_user")
    /\ UserLive(u)
    /\ users' = [users EXCEPT ![u] = row]
    /\ IF row.status # users[u].status
       THEN Serve(p, "reread", kind, u, row)
       ELSE ~stopping /\ UNCHANGED req
    /\ UNCHANGED <<applierVars, inbounds, endpoints, creds, build, running, lost>>

\* users.Service.Update (and RotateSubToken, which leaves these columns as it
\* read them): the whole row is overwritten, so whatever the request read
\* before, any row may result.  SetLimit is used when the quota is given.
UpdateUser(p, u, row, kind) ==
    /\ Edit("update_user")
    /\ UserLive(u)
    /\ users' = [users EXCEPT ![u] = row]
    /\ Serve(p, "reread", kind, u, row)
    /\ UNCHANGED <<applierVars, inbounds, endpoints, creds, build, running, lost>>

\* users.Service.Delete, up to its GetByID ...
BeginDeleteUser(p, u) ==
    /\ Edit("delete_user")
    /\ UserLive(u)
    /\ Serve(p, "delete", "remove", u, users[u])
    /\ UNCHANGED <<applierVars, dbVars, build, running, lost>>

\* ... and its store.Delete, which cascades to the credentials.  A row that
\* is gone by now fails the request.
DeleteUser(p) ==
    LET u == req[p].obj IN
    /\ req[p].pc = "delete"
    /\ IF UserLive(u)
       THEN /\ users' = [users EXCEPT ![u] = [NoRow EXCEPT !.status = "deleted"]]
            /\ creds' = [i \in Inbounds |-> [creds[i] EXCEPT ![u] = "none"]]
            /\ req' = [req EXCEPT ![p].pc = "announce"]
       ELSE /\ req' = [req EXCEPT ![p] = Idle]
            /\ UNCHANGED <<users, creds>>
    /\ UNCHANGED <<applierVars, inbounds, endpoints, build, running, lost, bounds>>

\* inbounds.Service.Create and Update: the row is written, then read back.
CreateInbound(p, i, state) ==
    /\ Edit("create_inbound")
    /\ inbounds[i] = "unborn"
    /\ inbounds' = [inbounds EXCEPT ![i] = state]
    /\ Serve(p, "reread", "add", i, NoRow)
    /\ UNCHANGED <<applierVars, users, endpoints, creds, build, running, lost>>

UpdateInbound(p, i, state) ==
    /\ Edit("update_inbound")
    /\ InboundLive(i)
    /\ inbounds' = [inbounds EXCEPT ![i] = state]
    /\ Serve(p, "reread", "add", i, NoRow)
    /\ UNCHANGED <<applierVars, users, endpoints, creds, build, running, lost>>

\* inbounds.Service.Delete: refused while a host endpoint points at it
\* (ON DELETE RESTRICT); the credentials go with the row.
DeleteInbound(p, i) ==
    /\ Edit("delete_inbound")
    /\ InboundLive(i)
    /\ \A h \in Hosts : i \notin endpoints[h]
    /\ inbounds' = [inbounds EXCEPT ![i] = "deleted"]
    /\ creds' = [creds EXCEPT ![i] = [u \in Users |-> "none"]]
    /\ Serve(p, "announce", "remove", i, NoRow)
    /\ UNCHANGED <<applierVars, users, endpoints, build, running, lost>>

\* The GetByID that Create and Update make after their write.  When the row
\* was deleted in between they return the error and announce nothing.
Reread(p) ==
    LET obj == req[p].obj IN
    /\ req[p].pc = "reread"
    /\ UNCHANGED <<applierVars, dbVars, build, running, bounds>>
    /\ IF Live(obj)
       THEN /\ req' = [req EXCEPT ![p] = [@ EXCEPT !.pc = "announce",
                            !.row = IF obj \in Users THEN users[obj] ELSE NoRow]]
            /\ UNCHANGED lost
       ELSE /\ req' = [req EXCEPT ![p] = Idle]
            /\ Lose(Nodes, "aborted")

\* The GetByID itself fails (the database, or the client has gone away).
RereadError(p) ==
    /\ req[p].pc = "reread"
    /\ Fault
    /\ req' = [req EXCEPT ![p] = Idle]
    /\ UNCHANGED <<applierVars, dbVars, build, running>>
    /\ Lose(Nodes, "aborted")

\* Bug variant of FanOut: nodes without an applier are not left out.
FanOutUnwired(p, failed) ==
    IF req[p].obj \in Users
    THEN {n \in Nodes : Admits(req[p].row, n, failed)}
    ELSE {NodeOf[req[p].obj]}

\* enqueueUserDelta / enqueueForNode choose the appliers to notify.
FanOut(p, failed) ==
    IF req[p].obj \in Users
    THEN {n \in Wired : Admits(req[p].row, n, failed)}
    ELSE {NodeOf[req[p].obj]} \cap Wired

Announce(p, failed) ==
    LET todo == FanOut(p, failed) IN
    /\ req[p].pc = "announce"
    /\ IF failed = {} THEN UNCHANGED bounds ELSE Fault
    /\ req' = [req EXCEPT ![p] = IF todo = {} THEN Idle
                                 ELSE [@ EXCEPT !.pc = "fanout", !.todo = todo]]
    /\ UNCHANGED <<applierVars, dbVars, build, running>>
    /\ Lose(Nodes \ todo, "skipped")

\* One Enqueue of the fan-out; it blocks while that channel is full.
Deliver(p, n) ==
    LET r == req[p] IN
    /\ r.pc = "fanout"
    /\ n \in r.todo
    /\ Enqueue(n, [kind |-> r.kind, key |-> IF r.obj \in Users THEN r.obj ELSE NilKey])
    /\ req' = [req EXCEPT ![p] = IF r.todo = {n} THEN Idle
                                 ELSE [r EXCEPT !.todo = r.todo \ {n}]]
    /\ UNCHANGED <<dbVars, build, running, lost, bounds>>

-----------------------------------------------------------------------------
\* Edits that no applier hears of.

\* credentials.Service.Create, Rotate and Delete
WriteCredential(i, u, c) ==
    /\ Edit("write_credential")
    /\ c # creds[i][u]
    /\ UserLive(u) /\ InboundLive(i)
    /\ creds' = [creds EXCEPT ![i][u] = c]
    /\ UNCHANGED <<applierVars, users, inbounds, endpoints, req, build, running>>
    /\ Lose(Nodes, "unannounced")

\* hosts.Service.Create, Update and Delete
WriteHost(h, eps) ==
    /\ Edit("write_host")
    /\ eps # endpoints[h]
    /\ \A i \in eps : InboundLive(i)
    /\ endpoints' = [endpoints EXCEPT ![h] = eps]
    /\ UNCHANGED <<applierVars, users, inbounds, creds, req, build, running>>
    /\ Lose(Nodes, "unannounced")

-----------------------------------------------------------------------------
\* The applier's loop, with the losses it causes.

AbsorbStep(n) ==
    /\ Absorb(n)
    /\ UNCHANGED <<dbVars, req, build, running, bounds>>
    /\ IF Cancels(pending[n][Head(queue[n]).key], Head(queue[n]).kind)
       THEN Lose({n}, "cancelled")
       ELSE UNCHANGED lost

LoopStep(n) ==
    /\ Tick(n) \/ StartDrain(n) \/ DrainOne(n) \/ DrainReturn(n)
    /\ UNCHANGED <<dbVars, req, build, running, lost, bounds>>

\* The FlushFn: BuildCoreConfigForNode lists the inbounds first ...
ReadInbounds(n) ==
    /\ loop[n] = "flush"
    /\ build[n].pc = "start"
    /\ build' = [build EXCEPT ![n] = [NoBuild EXCEPT !.pc = "inbounds",
                                                     !.inbs = EnabledInbounds(n)]]
    /\ lost' = [lost EXCEPT ![n] = {}]
    /\ UNCHANGED <<applierVars, dbVars, req, running, bounds>>

UsersRead(n, allowed) ==
    /\ loop[n] = "flush"
    /\ build[n].pc = "inbounds"
    /\ build' = [build EXCEPT ![n] = [pc |-> "users", inbs |-> @.inbs, allowed |-> allowed,
                                     todo |-> @.inbs, kept |-> {}]]
    /\ UNCHANGED <<applierVars, dbVars, req, running>>

\* ... then asks for the allowed users; failed host lookups are skipped ...
ReadUsers(n, failed) ==
    /\ UsersRead(n, AllowedUsersForNode(n, failed))
    /\ IF failed = {} THEN UNCHANGED <<lost, bounds>> ELSE Fault /\ Lose({n}, "degraded")

\* ... and when the users query itself fails, keeps every credential ...
ReadUsersError(n) ==
    /\ UsersRead(n, Users)
    /\ Fault
    /\ Lose({n}, "degraded")

CredsRead(n, i, kept) ==
    LET b == build[n] IN
    /\ loop[n] = "flush"
    /\ b.pc = "users"
    /\ i \in b.todo
    /\ build' = [build EXCEPT ![n] = [b EXCEPT !.todo = b.todo \ {i},
                                              !.kept = b.kept \cup kept]]
    /\ UNCHANGED <<applierVars, dbVars, req, running>>

\* ... then lists the credentials of one inbound after the other; a list that
\* fails counts as empty ...
ReadCreds(n, i) ==
    /\ CredsRead(n, i, KeptCreds(i, build[n].allowed))
    /\ UNCHANGED <<lost, bounds>>

ReadCredsError(n, i) ==
    /\ CredsRead(n, i, {})
    /\ Fault
    /\ Lose({n}, "degraded")

AllRead(n) == loop[n] = "flush" /\ build[n].pc = "users" /\ build[n].todo = {}

\* The FlushFn returns; an error is only logged.
FlushDone(n) ==
    /\ FlushReturn(n)
    /\ build' = [build EXCEPT ![n] = NoBuild]
    /\ UNCHANGED <<dbVars, req, running>>

RenderError(n) ==
    /\ AllRead(n)
    /\ ~Renderable(build[n].inbs, build[n].kept)
    /\ FlushDone(n)
    /\ UNCHANGED bounds
    /\ Lose({n}, "failed")

\* ... renders, and calls the agent, which takes the configuration ...
CallAgent(n) ==
    LET b == build[n] IN
    /\ AllRead(n)
    /\ Renderable(b.inbs, b.kept)
    /\ running' = [running EXCEPT ![n] = Rendered(b.inbs, b.kept)]
    /\ build' = [build EXCEPT ![n] = [b EXCEPT !.pc = "called"]]
    /\ UNCHANGED <<applierVars, dbVars, req, lost, bounds>>

\* ... or never hears of it.
CallLost(n) ==
    /\ AllRead(n)
    /\ Renderable(build[n].inbs, build[n].kept)
    /\ FlushDone(n)
    /\ Fault
    /\ Lose({n}, "failed")

\* The agent's answer ends the flush, and so does the lack of one.
CallReturns(n, ok) ==
    /\ loop[n] = "flush"
    /\ build[n].pc = "called"
    /\ FlushDone(n)
    /\ IF ok THEN UNCHANGED <<lost, bounds>> ELSE Fault /\ Lose({n}, "failed")

\* ListByNode fails: the flush is over before anything was sent.
ListInboundsError(n) ==
    /\ loop[n] = "flush"
    /\ build[n].pc = "start"
    /\ Fault
    /\ FlushReturn(n)
    /\ UNCHANGED <<dbVars, req, build, running>>
    /\ Lose({n}, "failed")

-----------------------------------------------------------------------------
\* The process.

Shutdown ==
    /\ boots < MaxBoots
    /\ Cancel
    /\ UNCHANGED <<dbVars, req, build, running, lost, bounds>>

\* A crash or an exit, then a boot: requests, channels and pending deltas are
\* gone, and nothing is enqueued for the nodes found online.
Restart(wired) ==
    /\ boots < MaxBoots
    /\ boots' = boots + 1
    /\ Boot(wired)
    /\ req' = [p \in Procs |-> Idle]
    /\ build' = [n \in Nodes |-> NoBuild]
    /\ lost' = [n \in Nodes |-> IF Behind(n) THEN lost[n] \cup {"restart"} ELSE lost[n]]
    /\ UNCHANGED <<dbVars, running, ops, faults>>

Init ==
    /\ ApplierInit
    /\ users = [u \in Users |-> IF u \in InitUsers
                                THEN [NoRow EXCEPT !.status = "active"] ELSE NoRow]
    /\ inbounds = [i \in Inbounds |-> IF i \in InitInbounds THEN "on" ELSE "unborn"]
    /\ endpoints = InitEndpoints
    /\ creds \in {[i \in Inbounds |-> [u \in Users |->
                     IF i \in InitInbounds /\ u \in InitUsers THEN c ELSE "none"]] :
                  c \in CredValues}
    /\ req = [p \in Procs |-> Idle]
    /\ build = [n \in Nodes |-> NoBuild]
    /\ running = [n \in Nodes |-> Current(n)]
    /\ lost = [n \in Nodes |-> {}]
    /\ ops = 0 /\ faults = 0 /\ boots = 0

RequestStep(p) ==
    \/ DeleteUser(p)
    \/ Reread(p)
    \/ RereadError(p)
    \/ \E failed \in SUBSET Hosts : Announce(p, failed)
    \/ \E n \in Nodes : Deliver(p, n)

NodeStep(n) ==
    \/ AbsorbStep(n)
    \/ LoopStep(n)
    \/ ReadInbounds(n)
    \/ \E failed \in SUBSET Hosts : ReadUsers(n, failed)
    \/ ReadUsersError(n)
    \/ \E i \in Inbounds : ReadCreds(n, i) \/ ReadCredsError(n, i)
    \/ RenderError(n)
    \/ CallAgent(n)
    \/ CallLost(n)
    \/ \E ok \in BOOLEAN : CallReturns(n, ok)
    \/ ListInboundsError(n)

OperatorStep(p) ==
    \/ \E u \in Users, row \in Rows : CreateUser(p, u, row)
    \/ \E u \in Users, row \in Rows, kind \in {"add", "setlimit"} :
          UpdateUser(p, u, row, kind)
    \/ \E u \in Users : BeginDeleteUser(p, u)
    \/ \E i \in Inbounds, state \in {"on", "off"} :
          CreateInbound(p, i, state) \/ UpdateInbound(p, i, state)
    \/ \E i \in Inbounds : DeleteInbound(p, i)

SilentEdit ==
    \/ \E i \in Inbounds, u \in Users, c \in CredValues \cup {"none"} :
          WriteCredential(i, u, c)
    \/ \E h \in Hosts, eps \in SUBSET Inbounds : WriteHost(h, eps)

Next ==
    \/ \E p \in Procs : OperatorStep(p) \/ RequestStep(p)
    \/ SilentEdit
    \/ \E n \in Nodes : NodeStep(n)
    \/ Shutdown
    \/ \E wired \in SUBSET Nodes : Restart(wired)

Spec == Init /\ [][Next]_vars

\* The goroutines of requests and appliers run; edits, failures, shutdowns and
\* restarts need not happen.
FairSpec ==
    /\ Spec
    /\ \A p \in Procs : WF_vars(RequestStep(p))
    /\ \A n \in Nodes : WF_vars(NodeStep(n))

-----------------------------------------------------------------------------
Entries == Inbounds \X (Users \cup {"inline"}) \X (CredValues \cup {"inline"})

Build ==
    [pc : {"start", "inbounds", "users", "called"}, inbs : SUBSET Inbounds,
     allowed : SUBSET Users, todo : SUBSET Inbounds,
     kept : SUBSET (Inbounds \X Users \X CredValues)]

Request ==
    [pc : {"idle", "delete", "reread", "announce", "fanout"}, kind : Kinds,
     obj : Users \cup Inbounds \cup {NilKey}, row : UserRow, todo : SUBSET Nodes]

Reasons == {"cancelled", "failed", "unannounced", "skipped", "aborted",
            "degraded", "restart"}

SyncTypeOK ==
    /\ users \in [Users -> UserRow]
    /\ inbounds \in [Inbounds -> {"unborn", "on", "off", "deleted"}]
    /\ endpoints \in [Hosts -> SUBSET Inbounds]
    /\ creds \in [Inbounds -> [Users -> CredValues \cup {"none"}]]
    /\ req \in [Procs -> Request]
    /\ build \in [Nodes -> Build]
    /\ running \in [Nodes -> SUBSET Entries]
    /\ lost \in [Nodes -> SUBSET Reasons]
    /\ ops \in Nat /\ faults \in Nat /\ boots \in Nat

\* Every variable, those of the appliers included, keeps its type.
TypeOK == ApplierTypeOK /\ SyncTypeOK

\* Request p has written something and may still announce it to node n.
Owes(p, n) ==
    \/ req[p].pc \in {"reread", "announce"}
    \/ req[p].pc = "fanout" /\ n \in req[p].todo

\* Work that will lead to a flush of n beginning after now: a delta in the
\* channel or in the map, a request that has written and still has to reach
\* n, or a flush that has not read anything yet.
Announced(n) ==
    \/ queue[n] # <<>>
    \/ pending[n] # NoPending
    \/ loop[n] = "flush" /\ build[n].pc = "start"
    \/ \E p \in Procs : Owes(p, n)

\* A node is out of date only while a flush of it is under way or on its way,
\* or for one of the recorded reasons: an Add/Remove pair cancelled, a flush
\* failed or read a degraded database, the fan-out passed the node over, the
\* edit belongs to a service that announces nothing, a request broke off after
\* its write, or the panel restarted.  No interleaving of requests, absorbs,
\* flushes and database reads loses an edit in any other way.
StaleNodeExplained ==
    \A n \in Nodes :
        Behind(n) => loop[n] = "flush" \/ Announced(n) \/ lost[n] # {} \/ stopping

\* The build record is in use only between the start and the end of a flush.
BuildOnlyInFlush ==
    \A n \in Nodes : loop[n] # "flush" \/ build[n].pc = "start" => build[n] = NoBuild

\* The allowed users, and the credentials of every inbound already asked for.
UsersHold(n) ==
    LET b == build[n] IN
    /\ b.allowed = AllowedUsersForNode(n, {})
    /\ b.todo \subseteq b.inbs
    /\ b.kept = CurrentCreds(b.inbs \ b.todo, b.allowed)

\* The inductive form: what a flush has read is what the database still says,
\* or else a further flush of the node is on its way or its loss is recorded.
ReadsHold(n) ==
    \/ Announced(n)
    \/ lost[n] # {}
    \/ stopping
    \/ /\ loop[n] # "flush"
       /\ ~Behind(n)
    \/ /\ loop[n] = "flush" /\ build[n].pc # "called"
       /\ build[n].inbs = EnabledInbounds(n)
       /\ build[n].pc = "users" => UsersHold(n)
    \/ /\ loop[n] = "flush" /\ build[n].pc = "called"
       /\ ~Behind(n)

FlushReadsHold == \A n \in Nodes : ReadsHold(n)

\* A node whose last applied configuration is out of date, for none of the
\* recorded reasons, is brought up to date (or a reason is met on the way, or
\* the panel shuts down): the window, the queue and the blocking sends delay
\* an edit but never hold it for ever; nor does a flush that failed before, as
\* the next one to begin reading forgets its reason.
StaleNodeRefreshed ==
    \A n \in Nodes :
        Behind(n) /\ lost[n] = {} ~> ~Behind(n) \/ lost[n] # {} \/ stopping

\* The appliers of all the nodes a request still has to reach have returned,
\* with their channels full: after SIGTERM nothing receives from them.
Stranded(p) ==
    /\ req[p].pc = "fanout"
    /\ \A n \in req[p].todo : loop[n] = "stopped" /\ Len(queue[n]) = MaxQueue

\* Every request that wrote something returns, however long its Enqueue waits
\* for a full channel behind a flush, and also when a shutdown stops the loops
\* below it; only one that no loop will ever receive from, as the channel has
\* filled up after its drain, is left until the process exits.
RequestsReturn == \A p \in Procs : req[p] # Idle ~> req[p] = Idle \/ Stranded(p)

=============================================================================
