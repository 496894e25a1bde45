-------------------------- MODULE AccessSyncProofs --------------------------
(* Proofs about the appliers alone, whatever their producers enqueue, and    *)
(* then about the composition of services, appliers and flushes.             *)
EXTENDS AccessSync, FiniteSetTheorems, TLAPS

(* --- the appliers ------------------------------------------------------ *)

\* The number of pending deltas is a number, whatever map is held: the map has
\* at most one entry per key (pendingLen of cores/batched.go).
LEMMA PendingLenType ==
    ASSUME NEW m
    PROVE  PendingLen(m) \in Nat
  <1>1. IsFiniteSet({k \in Keys : m[k] # "none"})
    BY KeysAssumption, FS_Subset
  <1> QED
    BY <1>1, FS_CardinalityType DEF PendingLen

\* The fresh map of a flush or a boot is empty (flush, NewBatchedApplier).
LEMMA NoPendingLen == PendingLen(NoPending) = 0
  <1>1. {k \in Keys : NoPending[k] # "none"} = {}
    BY DEF NoPending
  <1> QED
    BY <1>1, FS_EmptySet DEF PendingLen

\* absorb keeps the map a map: each key holds one kind or none.
LEMMA AbsorbIntoType ==
    ASSUME NEW m \in [Keys -> Kinds \cup {"none"}], NEW d \in Delta
    PROVE  AbsorbInto(m, d) \in [Keys -> Kinds \cup {"none"}]
  BY DEF AbsorbInto, Delta

\* Every channel, pending map and loop state is of its type in every
\* reachable state (the fields of the BatchedApplier struct).
THEOREM ApplierTypeCorrect == ApplierSpec => []ApplierTypeOK
  <1>0. <<>> \in Seq(Delta) /\ NoPending \in [Keys -> Kinds \cup {"none"}]
    BY DEF NoPending
  <1>1. ApplierInit => ApplierTypeOK
    BY <1>0 DEF ApplierInit, ApplierTypeOK, LoopStates
  <1>2. ApplierTypeOK /\ [ApplierNext]_applierVars => ApplierTypeOK'
    <2> SUFFICES ASSUME ApplierTypeOK, [ApplierNext]_applierVars
                 PROVE  ApplierTypeOK'
      OBVIOUS
    <2> USE DEF ApplierTypeOK
    <2>0. <<>> \in Seq(Delta) /\ NoPending \in [Keys -> Kinds \cup {"none"}]
      BY <1>0
    <2>1. ASSUME NEW n \in Nodes, NEW d \in Delta, Enqueue(n, d)
          PROVE  ApplierTypeOK'
      BY <2>1 DEF Enqueue
    <2>2. ASSUME NEW n \in Nodes, Absorb(n)
          PROVE  ApplierTypeOK'
      <3> DEFINE m == AbsorbInto(pending[n], Head(queue[n]))
      <3>1. queue[n] \in Seq(Delta) /\ queue[n] # <<>>
        BY <2>2 DEF Absorb
      <3>2. Head(queue[n]) \in Delta /\ Tail(queue[n]) \in Seq(Delta)
        BY <3>1
      <3>3. m \in [Keys -> Kinds \cup {"none"}]
        BY <3>2, AbsorbIntoType
      <3>4. queue' \in [Nodes -> Seq(Delta)] /\ stopping' \in BOOLEAN
        BY <2>2, <3>2 DEF Absorb
      <3>5. /\ pending' = [pending EXCEPT ![n] = NoPending]
               \/ pending' = [pending EXCEPT ![n] = m]
            /\ loop' = [loop EXCEPT ![n] = "flush"] \/ loop' = loop
        BY <2>2 DEF Absorb, BeginFlush
      <3> HIDE DEF m
      <3> QED
        BY <2>0, <3>3, <3>4, <3>5 DEF LoopStates
    <2>3. ASSUME NEW n \in Nodes, Tick(n)
          PROVE  ApplierTypeOK'
      BY <2>0, <2>3 DEF Tick, BeginFlush, LoopStates
    <2>4. ASSUME NEW n \in Nodes, FlushReturn(n)
          PROVE  ApplierTypeOK'
      BY <2>4 DEF FlushReturn, LoopStates
    <2>5. ASSUME NEW n \in Nodes, StartDrain(n)
          PROVE  ApplierTypeOK'
      BY <2>5 DEF StartDrain, LoopStates
    <2>6. ASSUME NEW n \in Nodes, DrainOne(n)
          PROVE  ApplierTypeOK'
      <3>1. Head(queue[n]) \in Delta /\ Tail(queue[n]) \in Seq(Delta)
        BY <2>6 DEF DrainOne
      <3>2. AbsorbInto(pending[n], Head(queue[n])) \in [Keys -> Kinds \cup {"none"}]
        BY <3>1, AbsorbIntoType
      <3> QED
        BY <2>6, <3>1, <3>2 DEF DrainOne
    <2>7. ASSUME NEW n \in Nodes, DrainReturn(n)
          PROVE  ApplierTypeOK'
      BY <2>7 DEF DrainReturn, LoopStates
    <2>8. CASE Cancel
      BY <2>8 DEF Cancel
    <2>9. ASSUME NEW wired \in SUBSET Nodes, Boot(wired)
          PROVE  ApplierTypeOK'
      BY <2>0, <2>9 DEF Boot, LoopStates
    <2>10. CASE UNCHANGED applierVars
      BY <2>10 DEF applierVars
    <2> QED
      BY <2>1, <2>2, <2>3, <2>4, <2>5, <2>6, <2>7, <2>8, <2>9, <2>10 DEF ApplierNext
  <1> QED
    BY <1>1, <1>2, PTL DEF ApplierSpec

\* However fast the services enqueue, the channel stays within its capacity
\* and Run returns to its select with fewer than maxQueue pending deltas; a
\* map is only left unflushed by a shutdown (Run and Enqueue).
THEOREM ApplierBounded == ApplierSpec => []BuffersBounded
  <1>1. ApplierInit => BuffersBounded
    BY NoPendingLen, MaxQueueAssumption DEF ApplierInit, BuffersBounded
  <1>2. ApplierTypeOK /\ BuffersBounded /\ [ApplierNext]_applierVars => BuffersBounded'
    <2> SUFFICES ASSUME ApplierTypeOK, BuffersBounded, [ApplierNext]_applierVars,
                        NEW n \in Nodes
                 PROVE  /\ Len(queue[n])' <= MaxQueue
                        /\ (loop[n] \in {"select", "flush"})' => PendingLen(pending[n])' < MaxQueue
                        /\ (loop[n] = "flush")' => (pending[n] = NoPending)'
                        /\ (loop[n] \in {"drain", "stopped"})' => stopping'
                        /\ (loop[n] = "off")' => (queue[n] = <<>>)' /\ (pending[n] = NoPending)'
      BY DEF BuffersBounded
    <2> DEFINE Goal == /\ Len(queue'[n]) <= MaxQueue
                       /\ loop'[n] \in {"select", "flush"} => PendingLen(pending'[n]) < MaxQueue
                       /\ loop'[n] = "flush" => pending'[n] = NoPending
                       /\ loop'[n] \in {"drain", "stopped"} => stopping'
                       /\ loop'[n] = "off" => queue'[n] = <<>> /\ pending'[n] = NoPending
    <2> SUFFICES Goal
      BY DEF PendingLen, NoPending
    <2>0. PendingLen(NoPending) < MaxQueue
      BY NoPendingLen, MaxQueueAssumption
    <2> USE MaxQueueAssumption DEF ApplierTypeOK, BuffersBounded
    <2>1. ASSUME NEW p \in Nodes, NEW d \in Delta, Enqueue(p, d)
          PROVE  Goal
      <3>1. p # n => UNCHANGED <<queue[n], pending[n], loop[n], stopping>>
        BY <2>1 DEF Enqueue
      <3>2. CASE p = n
        <4>1. /\ Len(queue'[n]) = Len(queue[n]) + 1
              /\ Len(queue[n]) < MaxQueue
              /\ loop'[n] # "off"
              /\ UNCHANGED <<pending, loop, stopping>>
          BY <2>1, <3>2 DEF Enqueue
        <4> QED
          BY <4>1
      <3> QED
        BY <3>1, <3>2
    <2>2. ASSUME NEW p \in Nodes, Absorb(p)
          PROVE  Goal
      <3> DEFINE m == AbsorbInto(pending[p], Head(queue[p]))
      <3>1. p # n => UNCHANGED <<queue[n], pending[n], loop[n], stopping>>
        BY <2>2 DEF Absorb, BeginFlush
      <3>2. CASE p = n
        <4>1. queue[n] \in Seq(Delta) /\ queue[n] # <<>> /\ loop[n] = "select"
          BY <2>2, <3>2 DEF Absorb
        <4>2. Len(queue'[n]) <= MaxQueue
          <5>1. queue'[n] = Tail(queue[n])
            BY <2>2, <3>2 DEF Absorb
          <5>2. Len(Tail(queue[n])) = Len(queue[n]) - 1 /\ Len(queue[n]) \in Nat
            BY <4>1
          <5> QED
            BY <5>1, <5>2
        <4>3. CASE PendingLen(m) >= MaxQueue
          <5>1. pending'[n] = NoPending /\ loop'[n] = "flush"
            BY <2>2, <3>2, <4>3 DEF Absorb, BeginFlush
          <5> QED
            BY <2>0, <4>2, <5>1
        <4>4. CASE ~(PendingLen(m) >= MaxQueue)
          <5>1. pending'[n] = m /\ loop'[n] = "select"
            BY <2>2, <3>2, <4>1, <4>4 DEF Absorb
          <5>2. PendingLen(m) < MaxQueue
            BY <4>4, PendingLenType
          <5> QED
            BY <4>2, <5>1, <5>2
        <4> QED
          BY <4>3, <4>4
      <3> QED
        BY <3>1, <3>2
    <2>3. ASSUME NEW p \in Nodes, Tick(p)
          PROVE  Goal
      BY <2>0, <2>3 DEF Tick, BeginFlush
    <2>4. ASSUME NEW p \in Nodes, FlushReturn(p)
          PROVE  Goal
      BY <2>0, <2>4 DEF FlushReturn
    <2>5. ASSUME NEW p \in Nodes, StartDrain(p)
          PROVE  Goal
      BY <2>5 DEF StartDrain
    <2>6. ASSUME NEW p \in Nodes, DrainOne(p)
          PROVE  Goal
      <3>1. queue[p] \in Seq(Delta) /\ queue[p] # <<>> /\ loop[p] = "drain" /\ stopping
        BY <2>6 DEF DrainOne
      <3>2. Len(Tail(queue[p])) = Len(queue[p]) - 1 /\ Len(queue[p]) \in Nat
        BY <3>1
      <3> QED
        BY <2>6, <3>1, <3>2 DEF DrainOne
    <2>7. ASSUME NEW p \in Nodes, DrainReturn(p)
          PROVE  Goal
      BY <2>7 DEF DrainReturn
    <2>8. CASE Cancel
      BY <2>8 DEF Cancel
    <2>9. ASSUME NEW wired \in SUBSET Nodes, Boot(wired)
          PROVE  Goal
      BY <2>0, <2>9 DEF Boot
    <2>10. CASE UNCHANGED applierVars
      BY <2>10 DEF applierVars
    <2> HIDE DEF Goal
    <2> QED
      BY <2>1, <2>2, <2>3, <2>4, <2>5, <2>6, <2>7, <2>8, <2>9, <2>10 DEF ApplierNext
  <1> QED
    BY <1>1, <1>2, ApplierTypeCorrect, PTL DEF ApplierSpec

(* --- the composition --------------------------------------------------- *)

\* The kept credentials are of the inbound asked for and of users the panel
\* knows (the filter of BuildCoreConfigForNode).
LEMMA KeptType ==
    ASSUME NEW i \in Inbounds, NEW allowed \in SUBSET Users,
           creds \in [Inbounds -> [Users -> CredValues \cup {"none"}]]
    PROVE  KeptCreds(i, allowed) \in SUBSET (Inbounds \X Users \X CredValues)
  <1> SUFFICES ASSUME NEW u \in allowed, creds[i][u] # "none"
               PROVE  <<i, u, creds[i][u]>> \in Inbounds \X Users \X CredValues
    BY DEF KeptCreds
  <1> QED
    OBVIOUS

\* A rendered configuration only has entries of known inbounds and users
\* (BuildCoreConfigForNode and RenderConfig).
LEMMA RenderedType ==
    ASSUME NEW inbs \in SUBSET Inbounds,
           NEW kept \in SUBSET (Inbounds \X Users \X CredValues)
    PROVE  Rendered(inbs, kept) \in SUBSET Entries
  <1>1. kept \in SUBSET Entries
    BY DEF Entries
  <1>2. {<<i, "inline", "inline">> : i \in Bare(inbs, kept) \cap InlineInbounds} \in SUBSET Entries
    BY DEF Entries, Bare
  <1> QED
    BY <1>1, <1>2 DEF Rendered

\* The configuration the database asks for is of the type of the one that runs.
LEMMA CurrentType ==
    ASSUME NEW n \in Nodes,
           creds \in [Inbounds -> [Users -> CredValues \cup {"none"}]]
    PROVE  Current(n) \in SUBSET Entries
  <1>1. EnabledInbounds(n) \in SUBSET Inbounds /\ AllowedUsersForNode(n, {}) \in SUBSET Users
    BY DEF EnabledInbounds, AllowedUsersForNode
  <1>2. \A i \in EnabledInbounds(n) :
           KeptCreds(i, AllowedUsersForNode(n, {})) \in SUBSET (Inbounds \X Users \X CredValues)
    BY <1>1, KeptType
  <1>3. CurrentCreds(EnabledInbounds(n), AllowedUsersForNode(n, {}))
           \in SUBSET (Inbounds \X Users \X CredValues)
    BY <1>2 DEF CurrentCreds
  <1> QED
    BY <1>1, <1>3, RenderedType DEF Current

\* The rows, requests, builds and configurations keep their types through
\* every handler, flush and restart.
LEMMA SyncTypeCorrect == Spec => []SyncTypeOK
  <1>1. Init => SyncTypeOK
    <2> SUFFICES ASSUME Init PROVE SyncTypeOK
      OBVIOUS
    <2> USE AccessAssumption DEF Init, SyncTypeOK
    <2>1. NoRow \in UserRow /\ [NoRow EXCEPT !.status = "active"] \in UserRow
      BY DEF NoRow, UserRow
    <2>2. Idle \in Request
      BY <2>1 DEF Idle, Request, Kinds
    <2>3. users \in [Users -> UserRow]
      BY <2>1
    <2>4. /\ inbounds \in [Inbounds -> {"unborn", "on", "off", "deleted"}]
          /\ endpoints \in [Hosts -> SUBSET Inbounds]
      OBVIOUS
    <2>5. creds \in [Inbounds -> [Users -> CredValues \cup {"none"}]]
      OBVIOUS
    <2>6. req \in [Procs -> Request]
      BY <2>2
    <2>7. build \in [Nodes -> Build]
      BY DEF NoBuild, Build
    <2>8. running \in [Nodes -> SUBSET Entries]
      BY <2>5, CurrentType
    <2>9. lost \in [Nodes -> SUBSET Reasons]
      OBVIOUS
    <2> QED
      BY <2>3, <2>4, <2>5, <2>6, <2>7, <2>8, <2>9
  <1>2. SyncTypeOK /\ [Next]_vars => SyncTypeOK'
    <2> SUFFICES ASSUME SyncTypeOK, [Next]_vars PROVE SyncTypeOK'
      OBVIOUS
    <2> USE AccessAssumption
    <2>0. /\ NoRow \in UserRow /\ [NoRow EXCEPT !.status = "deleted"] \in UserRow
          /\ Idle \in Request
          /\ NoBuild \in Build
      BY DEF NoRow, UserRow, Idle, Request, Kinds, NoBuild, Build
    <2>a. ASSUME NEW p \in Procs, OperatorStep(p) PROVE SyncTypeOK'
      <3>0. ASSUME NEW pc \in {"delete", "reread", "announce"}, NEW kind \in Kinds,
                   NEW obj \in Users \cup Inbounds, NEW row \in UserRow,
                   Serve(p, pc, kind, obj, row)
            PROVE  req' \in [Procs -> Request]
        BY <3>0 DEF Serve, Request, SyncTypeOK
      <3>1. ASSUME NEW u \in Users, NEW row \in Rows, CreateUser(p, u, row)
            PROVE  SyncTypeOK'
        <4>1. row \in UserRow
          OBVIOUS
        <4>2. req' \in [Procs -> Request]
          BY <3>1, <3>0, <4>1 DEF CreateUser, Kinds
        <4> QED
          BY <3>1, <4>1, <4>2 DEF CreateUser, Edit, SyncTypeOK
      <3>2. ASSUME NEW u \in Users, NEW row \in Rows, NEW kind \in {"add", "setlimit"},
                   UpdateUser(p, u, row, kind)
            PROVE  SyncTypeOK'
        <4>1. row \in UserRow
          OBVIOUS
        <4>2. req' \in [Procs -> Request]
          BY <3>2, <3>0, <4>1 DEF UpdateUser, Kinds
        <4> QED
          BY <3>2, <4>1, <4>2 DEF UpdateUser, Edit, SyncTypeOK
      <3>3. ASSUME NEW u \in Users, BeginDeleteUser(p, u)
            PROVE  SyncTypeOK'
        <4>1. users[u] \in UserRow
          BY DEF SyncTypeOK
        <4>2. req' \in [Procs -> Request]
          BY <3>3, <3>0, <4>1 DEF BeginDeleteUser, Kinds
        <4> QED
          BY <3>3, <4>2 DEF BeginDeleteUser, Edit, SyncTypeOK, dbVars
      <3>4. ASSUME NEW i \in Inbounds, NEW state \in {"on", "off"},
                   CreateInbound(p, i, state) \/ UpdateInbound(p, i, state)
            PROVE  SyncTypeOK'
        <4>1. req' \in [Procs -> Request]
          BY <3>4, <3>0, <2>0 DEF CreateInbound, UpdateInbound, Kinds
        <4>2. inbounds' \in [Inbounds -> {"unborn", "on", "off", "deleted"}]
          BY <3>4 DEF CreateInbound, UpdateInbound, SyncTypeOK
        <4>3. CASE CreateInbound(p, i, state)
          BY <4>3, <4>1, <4>2 DEF CreateInbound, Edit, SyncTypeOK
        <4>4. CASE UpdateInbound(p, i, state)
          BY <4>4, <4>1, <4>2 DEF UpdateInbound, Edit, SyncTypeOK
        <4> QED
          BY <3>4, <4>3, <4>4
      <3>5. ASSUME NEW i \in Inbounds, DeleteInbound(p, i)
            PROVE  SyncTypeOK'
        <4>1. req' \in [Procs -> Request]
          BY <3>5, <3>0, <2>0 DEF DeleteInbound, Kinds
        <4>2. creds' \in [Inbounds -> [Users -> CredValues \cup {"none"}]]
          BY <3>5 DEF DeleteInbound, SyncTypeOK
        <4> QED
          BY <3>5, <4>1, <4>2 DEF DeleteInbound, Edit, SyncTypeOK
      <3> QED
        BY <2>a, <3>1, <3>2, <3>3, <3>4, <3>5 DEF OperatorStep
    <2>i. ASSUME NEW n \in Nodes, NEW b \in Build, build' = [build EXCEPT ![n] = b]
          PROVE  build' \in [Nodes -> Build]
      BY <2>i DEF SyncTypeOK
    <2>l. ASSUME NEW ns, NEW r \in Reasons, Lose(ns, r)
          PROVE  lost' \in [Nodes -> SUBSET Reasons]
      BY <2>l DEF Lose, SyncTypeOK
    <2>f. ASSUME Fault PROVE ops' \in Nat /\ faults' \in Nat /\ boots' \in Nat
      BY <2>f DEF Fault, SyncTypeOK
    <2>b. ASSUME NEW p \in Procs, RequestStep(p) PROVE SyncTypeOK'
      <3>0. req[p] \in Request
        BY DEF SyncTypeOK
      <3>1. CASE DeleteUser(p)
        <4>1. req' \in [Procs -> Request]
          <5>1. [req[p] EXCEPT !.pc = "announce"] \in Request
            BY <3>0 DEF Request
          <5>2. \/ req' = [req EXCEPT ![p] = [req[p] EXCEPT !.pc = "announce"]]
                \/ req' = [req EXCEPT ![p] = Idle]
            BY <3>1 DEF DeleteUser
          <5> QED
            BY <2>0, <5>1, <5>2 DEF SyncTypeOK
        <4>2. users' \in [Users -> UserRow]
          BY <2>0, <3>1 DEF DeleteUser, SyncTypeOK
        <4>3. creds' \in [Inbounds -> [Users -> CredValues \cup {"none"}]]
          <5>1. \A i \in Inbounds : [creds[i] EXCEPT ![req[p].obj] = "none"]
                                        \in [Users -> CredValues \cup {"none"}]
            BY DEF SyncTypeOK
          <5>2. \/ creds' = [i \in Inbounds |-> [creds[i] EXCEPT ![req[p].obj] = "none"]]
                \/ UNCHANGED creds
            BY <3>1 DEF DeleteUser
          <5> QED
            BY <5>1, <5>2 DEF SyncTypeOK
        <4> QED
          BY <3>1, <4>1, <4>2, <4>3 DEF DeleteUser, SyncTypeOK, bounds
      <3>2. CASE Reread(p)
        <4> DEFINE row == IF req[p].obj \in Users THEN users[req[p].obj] ELSE NoRow
        <4>1. row \in UserRow
          BY <2>0 DEF SyncTypeOK
        <4>2. /\ req' = [req EXCEPT ![p] = [req[p] EXCEPT !.pc = "announce", !.row = row]]
                 \/ req' = [req EXCEPT ![p] = Idle]
              /\ lost' \in [Nodes -> SUBSET Reasons]
              /\ UNCHANGED <<dbVars, build, running, bounds>>
          BY <3>2, <2>l DEF Reread, SyncTypeOK, Reasons
        <4> HIDE DEF row
        <4>3. [req[p] EXCEPT !.pc = "announce", !.row = row] \in Request
          BY <3>0, <4>1 DEF Request
        <4>4. req' \in [Procs -> Request]
          BY <2>0, <4>2, <4>3 DEF SyncTypeOK
        <4> QED
          BY <4>2, <4>4 DEF SyncTypeOK, dbVars, bounds
      <3>3. ASSUME NEW failed \in SUBSET Hosts, Announce(p, failed) PROVE SyncTypeOK'
        <4>1. FanOut(p, failed) \in SUBSET Nodes
          BY DEF FanOut, Wired
        <4>2. [req[p] EXCEPT !.pc = "fanout", !.todo = FanOut(p, failed)] \in Request
          BY <3>0, <4>1 DEF Request
        <4>3. req' \in [Procs -> Request]
          BY <2>0, <3>3, <4>2 DEF Announce, SyncTypeOK
        <4>4. /\ ops' \in Nat /\ faults' \in Nat /\ boots' \in Nat
              /\ lost' \in [Nodes -> SUBSET Reasons]
          BY <2>f, <2>l, <3>3 DEF Announce, bounds, SyncTypeOK, Reasons
        <4> QED
          BY <3>3, <4>3, <4>4 DEF Announce, SyncTypeOK, dbVars
      <3>4. ASSUME NEW n \in Nodes, Deliver(p, n) PROVE SyncTypeOK'
        <4>1. [req[p] EXCEPT !.todo = req[p].todo \ {n}] \in Request
          BY <3>0 DEF Request
        <4>2. req' \in [Procs -> Request]
          BY <2>0, <3>4, <4>1 DEF Deliver, SyncTypeOK
        <4> QED
          BY <3>4, <4>2 DEF Deliver, SyncTypeOK, dbVars, bounds
      <3>5. CASE RereadError(p)
        <4>1. req' \in [Procs -> Request]
          BY <2>0, <3>5 DEF RereadError, SyncTypeOK
        <4>2. /\ ops' \in Nat /\ faults' \in Nat /\ boots' \in Nat
              /\ lost' \in [Nodes -> SUBSET Reasons]
          BY <2>f, <2>l, <3>5 DEF RereadError, Reasons
        <4> QED
          BY <3>5, <4>1, <4>2 DEF RereadError, SyncTypeOK, dbVars
      <3> QED
        BY <2>b, <3>1, <3>2, <3>3, <3>4, <3>5 DEF RequestStep
    <2>c. CASE SilentEdit
      <3>1. ASSUME NEW i \in Inbounds, NEW u \in Users, NEW c \in CredValues \cup {"none"},
                   WriteCredential(i, u, c)
            PROVE  SyncTypeOK'
        <4>1. creds' \in [Inbounds -> [Users -> CredValues \cup {"none"}]]
          BY <3>1 DEF WriteCredential, SyncTypeOK
        <4>2. lost' \in [Nodes -> SUBSET Reasons]
          BY <3>1, <2>l DEF WriteCredential, Reasons
        <4> QED
          BY <3>1, <4>1, <4>2 DEF WriteCredential, Edit, SyncTypeOK
      <3>2. ASSUME NEW h \in Hosts, NEW eps \in SUBSET Inbounds, WriteHost(h, eps)
            PROVE  SyncTypeOK'
        <4>1. lost' \in [Nodes -> SUBSET Reasons]
          BY <3>2, <2>l DEF WriteHost, Reasons
        <4> QED
          BY <3>2, <4>1 DEF WriteHost, Edit, SyncTypeOK
      <3> QED
        BY <2>c, <3>1, <3>2 DEF SilentEdit
    <2>d. ASSUME NEW n \in Nodes, NodeStep(n) PROVE SyncTypeOK'
      <3>1. CASE AbsorbStep(n)
        <4>1. lost' \in [Nodes -> SUBSET Reasons]
          BY <3>1, <2>l DEF AbsorbStep, Reasons, SyncTypeOK
        <4> QED
          BY <3>1, <4>1 DEF AbsorbStep, SyncTypeOK, dbVars, bounds
      <3>2. CASE LoopStep(n)
        BY <3>2 DEF LoopStep, SyncTypeOK, dbVars, bounds
      <3>a. build[n] \in Build
        BY DEF SyncTypeOK
      <3>3. CASE ReadInbounds(n)
        <4> DEFINE b == [NoBuild EXCEPT !.pc = "inbounds", !.inbs = EnabledInbounds(n)]
        <4>1. EnabledInbounds(n) \in SUBSET Inbounds
          BY DEF EnabledInbounds
        <4>2. b \in Build
          BY <4>1 DEF Build, NoBuild
        <4>3. build' = [build EXCEPT ![n] = b]
          BY <3>3 DEF ReadInbounds
        <4> HIDE DEF b
        <4>4. build' \in [Nodes -> Build]
          BY <2>i, <4>2, <4>3
        <4> QED
          BY <3>3, <4>4 DEF ReadInbounds, SyncTypeOK, dbVars, bounds
      <3>b. ASSUME NEW allowed \in SUBSET Users, UsersRead(n, allowed)
            PROVE  build' \in [Nodes -> Build] /\ UNCHANGED <<dbVars, req, running>>
        <4> DEFINE b == [pc |-> "users", inbs |-> build[n].inbs, allowed |-> allowed,
                         todo |-> build[n].inbs, kept |-> {}]
        <4>1. b \in Build
          BY <3>a DEF Build
        <4>2. build' = [build EXCEPT ![n] = b]
          BY <3>b DEF UsersRead
        <4> HIDE DEF b
        <4>3. build' \in [Nodes -> Build]
          BY <2>i, <4>1, <4>2
        <4> QED
          BY <3>b, <4>3 DEF UsersRead
      <3>4. ASSUME NEW failed \in SUBSET Hosts, ReadUsers(n, failed) PROVE SyncTypeOK'
        <4>1. AllowedUsersForNode(n, failed) \in SUBSET Users
          BY DEF AllowedUsersForNode
        <4>2. /\ ops' \in Nat /\ faults' \in Nat /\ boots' \in Nat
              /\ lost' \in [Nodes -> SUBSET Reasons]
          BY <3>4, <2>l, <2>f DEF ReadUsers, Reasons, SyncTypeOK, bounds
        <4>3. build' \in [Nodes -> Build] /\ UNCHANGED <<dbVars, req, running>>
          BY <3>b, <3>4, <4>1 DEF ReadUsers
        <4> QED
          BY <4>2, <4>3 DEF SyncTypeOK, dbVars
      <3>5. CASE ReadUsersError(n)
        <4>1. /\ ops' \in Nat /\ faults' \in Nat /\ boots' \in Nat
              /\ lost' \in [Nodes -> SUBSET Reasons]
          BY <3>5, <2>l, <2>f DEF ReadUsersError, Reasons
        <4>2. build' \in [Nodes -> Build] /\ UNCHANGED <<dbVars, req, running>>
          BY <3>b, <3>5 DEF ReadUsersError
        <4> QED
          BY <4>1, <4>2 DEF SyncTypeOK, dbVars
      <3>c. ASSUME NEW i \in Inbounds,
                   NEW kept \in SUBSET (Inbounds \X Users \X CredValues), CredsRead(n, i, kept)
            PROVE  build' \in [Nodes -> Build] /\ UNCHANGED <<dbVars, req, running>>
        <4> DEFINE b == [build[n] EXCEPT !.todo = build[n].todo \ {i},
                                         !.kept = build[n].kept \cup kept]
        <4>1. b \in Build
          BY <3>a DEF Build
        <4>2. build' = [build EXCEPT ![n] = b]
          BY <3>c DEF CredsRead
        <4> HIDE DEF b
        <4>3. build' \in [Nodes -> Build]
          BY <2>i, <4>1, <4>2
        <4> QED
          BY <3>c, <4>3 DEF CredsRead
      <3>6. ASSUME NEW i \in Inbounds, ReadCreds(n, i) PROVE SyncTypeOK'
        <4>1. KeptCreds(i, build[n].allowed) \in SUBSET (Inbounds \X Users \X CredValues)
          BY <3>a, KeptType DEF Build, SyncTypeOK
        <4>2. build' \in [Nodes -> Build] /\ UNCHANGED <<dbVars, req, running>>
          BY <3>6, <3>c, <4>1 DEF ReadCreds
        <4> QED
          BY <3>6, <4>2 DEF ReadCreds, SyncTypeOK, dbVars, bounds
      <3>7. ASSUME NEW i \in Inbounds, ReadCredsError(n, i) PROVE SyncTypeOK'
        <4>1. build' \in [Nodes -> Build] /\ UNCHANGED <<dbVars, req, running>>
          BY <3>7, <3>c DEF ReadCredsError
        <4>2. /\ ops' \in Nat /\ faults' \in Nat /\ boots' \in Nat
              /\ lost' \in [Nodes -> SUBSET Reasons]
          BY <3>7, <2>l, <2>f DEF ReadCredsError, Reasons
        <4> QED
          BY <4>1, <4>2 DEF SyncTypeOK, dbVars
      <3>d. ASSUME FlushDone(n)
            PROVE  build' \in [Nodes -> Build] /\ UNCHANGED <<dbVars, req, running>>
        BY <2>0, <2>i, <3>d DEF FlushDone
      <3>8. CASE RenderError(n)
        <4>1. lost' \in [Nodes -> SUBSET Reasons]
          BY <3>8, <2>l DEF RenderError, Reasons
        <4> QED
          BY <3>8, <3>d, <4>1 DEF RenderError, SyncTypeOK, dbVars, bounds
      <3>9. CASE CallAgent(n)
        <4> DEFINE b == [build[n] EXCEPT !.pc = "called"]
        <4>1. Rendered(build[n].inbs, build[n].kept) \in SUBSET Entries
          BY <3>a, RenderedType DEF Build
        <4>2. running' \in [Nodes -> SUBSET Entries]
          BY <3>9, <4>1 DEF CallAgent, SyncTypeOK
        <4>3. b \in Build
          BY <3>a DEF Build
        <4>4. build' = [build EXCEPT ![n] = b]
          BY <3>9 DEF CallAgent
        <4> HIDE DEF b
        <4>5. build' \in [Nodes -> Build]
          BY <2>i, <4>3, <4>4
        <4> QED
          BY <3>9, <4>2, <4>5 DEF CallAgent, SyncTypeOK, dbVars, bounds
      <3>10. CASE CallLost(n)
        <4>1. /\ ops' \in Nat /\ faults' \in Nat /\ boots' \in Nat
              /\ lost' \in [Nodes -> SUBSET Reasons]
          BY <3>10, <2>l, <2>f DEF CallLost, Reasons
        <4> QED
          BY <3>10, <3>d, <4>1 DEF CallLost, SyncTypeOK, dbVars
      <3>11. ASSUME NEW ok \in BOOLEAN, CallReturns(n, ok) PROVE SyncTypeOK'
        <4>1. /\ ops' \in Nat /\ faults' \in Nat /\ boots' \in Nat
              /\ lost' \in [Nodes -> SUBSET Reasons]
          BY <3>11, <2>l, <2>f DEF CallReturns, Reasons, SyncTypeOK, bounds
        <4> QED
          BY <3>11, <3>d, <4>1 DEF CallReturns, SyncTypeOK, dbVars
      <3>12. CASE ListInboundsError(n)
        <4>1. /\ ops' \in Nat /\ faults' \in Nat /\ boots' \in Nat
              /\ lost' \in [Nodes -> SUBSET Reasons]
          BY <3>12, <2>l, <2>f DEF ListInboundsError, Reasons
        <4> QED
          BY <3>12, <4>1 DEF ListInboundsError, SyncTypeOK, dbVars
      <3> QED
        BY <2>d, <3>1, <3>2, <3>3, <3>4, <3>5, <3>6, <3>7, <3>8, <3>9, <3>10, <3>11, <3>12
        DEF NodeStep
    <2>e. CASE Shutdown
      BY <2>e DEF Shutdown, SyncTypeOK, dbVars, bounds
    <2>g. ASSUME NEW wired \in SUBSET Nodes, Restart(wired) PROVE SyncTypeOK'
      <3>1. lost' \in [Nodes -> SUBSET Reasons]
        BY <2>g DEF Restart, SyncTypeOK, Reasons
      <3> QED
        BY <2>0, <2>g, <3>1 DEF Restart, SyncTypeOK, dbVars
    <2>h. CASE UNCHANGED vars
      BY <2>h DEF vars, dbVars, bounds, SyncTypeOK
    <2> QED
      BY <2>a, <2>b, <2>c, <2>d, <2>e, <2>g, <2>h DEF Next
  <1> QED
    BY <1>1, <1>2, PTL DEF Spec

-----------------------------------------------------------------------------
\* Every step of the composed system is a step of the appliers alone or leaves
\* them as they are: the services reach an applier only through Enqueue, the
\* FlushFn only by returning.
LEMMA StepIsApplierStep ==
    ASSUME SyncTypeOK, [Next]_vars
    PROVE  [ApplierNext]_applierVars
  <1>a. ASSUME NEW p \in Procs, OperatorStep(p) PROVE UNCHANGED applierVars
    BY <1>a DEF OperatorStep, CreateUser, UpdateUser, BeginDeleteUser,
                CreateInbound, UpdateInbound, DeleteInbound
  <1>b. ASSUME NEW p \in Procs, RequestStep(p)
        PROVE  \/ UNCHANGED applierVars
               \/ \E n \in Nodes, d \in Delta : Enqueue(n, d)
    <2>1. ASSUME NEW n \in Nodes, Deliver(p, n)
          PROVE  \E d \in Delta : Enqueue(n, d)
      <3> DEFINE d == [kind |-> req[p].kind,
                       key |-> IF req[p].obj \in Users THEN req[p].obj ELSE NilKey]
      <3>1. req[p] \in Request
        BY DEF SyncTypeOK
      <3>2. d \in Delta
        BY <3>1, AccessAssumption DEF Request, Delta
      <3>3. Enqueue(n, d)
        BY <2>1 DEF Deliver
      <3> QED
        BY <3>2, <3>3
    <2> QED
      BY <1>b, <2>1 DEF RequestStep, DeleteUser, Reread, RereadError, Announce
  <1>c. CASE SilentEdit
    BY <1>c DEF SilentEdit, WriteCredential, WriteHost
  <1>d. ASSUME NEW n \in Nodes, NodeStep(n)
        PROVE  \/ UNCHANGED applierVars
               \/ \/ Absorb(n) \/ Tick(n) \/ FlushReturn(n)
                  \/ StartDrain(n) \/ DrainOne(n) \/ DrainReturn(n)
    BY <1>d DEF NodeStep, AbsorbStep, LoopStep, ReadInbounds, UsersRead, ReadUsers,
                ReadUsersError, CredsRead, ReadCreds, ReadCredsError, FlushDone,
                RenderError, CallAgent, CallLost, CallReturns, ListInboundsError
  <1>e. CASE Shutdown
    BY <1>e DEF Shutdown, ApplierNext
  <1>f. ASSUME NEW wired \in SUBSET Nodes, Restart(wired) PROVE Boot(wired)
    BY <1>f DEF Restart
  <1>g. CASE UNCHANGED vars
    BY <1>g DEF vars
  <1> QED
    BY <1>a, <1>b, <1>c, <1>d, <1>e, <1>f, <1>g DEF Next, ApplierNext

\* The appliers of the composed system behave as BatchedApplier says, whatever
\* the services, the FlushFn and the process around them do.
THEOREM ApplierRefinement == Spec => ApplierSpec
  <1>1. Init => ApplierInit
    BY DEF Init
  <1>2. SyncTypeOK /\ [Next]_vars => [ApplierNext]_applierVars
    BY StepIsApplierStep
  <1> QED
    BY <1>1, <1>2, SyncTypeCorrect, PTL DEF Spec, ApplierSpec

\* Every variable of services, requests, flushes and appliers keeps its type.
THEOREM TypeCorrect == Spec => []TypeOK
  <1>1. ApplierTypeOK /\ SyncTypeOK => TypeOK
    BY DEF TypeOK
  <1> QED
    BY <1>1, SyncTypeCorrect, ApplierRefinement, ApplierTypeCorrect, PTL

\* The channel and the map of every applier stay within maxQueue in the whole
\* system: requests that meet a full channel wait in Enqueue.
THEOREM SystemBuffersBounded == Spec => []BuffersBounded
  BY ApplierRefinement, ApplierBounded, PTL

-----------------------------------------------------------------------------
\* What the builder would read depends on nothing but the database.
LEMMA CurrentFrame ==
    ASSUME UNCHANGED dbVars, NEW n \in Nodes
    PROVE  /\ EnabledInbounds(n)' = EnabledInbounds(n)
           /\ AllowedUsersForNode(n, {})' = AllowedUsersForNode(n, {})
           /\ \A inbs, allowed : CurrentCreds(inbs, allowed)' = CurrentCreds(inbs, allowed)
           /\ Current(n)' = Current(n)
  <1>1. UNCHANGED <<users, inbounds, endpoints, creds>>
    BY DEF dbVars
  <1>2. EnabledInbounds(n)' = EnabledInbounds(n)
    BY <1>1 DEF EnabledInbounds
  <1>3. AllowedUsersForNode(n, {})' = AllowedUsersForNode(n, {})
    <2>1. \A hs : NodesOf(hs, {})' = NodesOf(hs, {})
      BY <1>1 DEF NodesOf, NodesForHost
    <2> QED
      BY <1>1, <2>1 DEF AllowedUsersForNode, Admits
  <1>4. \A inbs, allowed : CurrentCreds(inbs, allowed)' = CurrentCreds(inbs, allowed)
    BY <1>1 DEF CurrentCreds, KeptCreds
  <1>5. Current(n)' = Current(n)
    BY <1>2, <1>3, <1>4 DEF Current, Rendered, Bare
  <1> QED
    BY <1>2, <1>3, <1>4, <1>5

\* A step that leaves the database, node n and the requests that owe it an
\* announcement alone leaves its explanation alone.
LEMMA ReadsHoldFrame ==
    ASSUME NEW n \in Nodes, ReadsHold(n), UNCHANGED dbVars,
           queue'[n] = queue[n], pending'[n] = pending[n], loop'[n] = loop[n],
           build'[n] = build[n], running'[n] = running[n],
           stopping => stopping',
           lost[n] # {} => lost'[n] # {},
           \A q \in Procs : Owes(q, n) => Owes(q, n)'
    PROVE  ReadsHold(n)'
  <1>1. Announced(n) => Announced(n)'
    BY DEF Announced
  <1>2. Behind(n)' <=> Behind(n)
    BY CurrentFrame DEF Behind
  <1>3. UsersHold(n) => UsersHold(n)'
    BY CurrentFrame DEF UsersHold
  <1> QED
    BY <1>1, <1>2, <1>3, CurrentFrame DEF ReadsHold

\* Recording a loss explains the node, unless the step starts its flush.
LEMMA LoseExplains ==
    ASSUME NEW ns, NEW r, Lose(ns, r), NEW n \in Nodes, n \in ns,
           loop[n] # "flush" => loop'[n] # "flush"
    PROVE  ReadsHold(n)'
  <1>1. CASE Behind(n)' \/ loop[n] = "flush"
    <2>1. lost'[n] = lost[n] \cup {r}
      BY <1>1 DEF Lose
    <2> QED
      BY <2>1 DEF ReadsHold
  <1>2. CASE ~Behind(n)' /\ loop[n] # "flush"
    BY <1>2 DEF ReadsHold
  <1> QED
    BY <1>1, <1>2

\* The inductive invariant behind StaleNodeExplained.
Explained == TypeOK /\ BuffersBounded /\ BuildOnlyInFlush /\ FlushReadsHold

\* Operator requests: whoever writes owes every node an announcement.
LEMMA OperatorExplained ==
    ASSUME Explained, NEW p \in Procs, OperatorStep(p), NEW n \in Nodes
    PROVE  ReadsHold(n)'
  <1>0. TypeOK /\ ReadsHold(n)
    BY DEF Explained, FlushReadsHold
  <1>1. ASSUME NEW pc \in {"reread", "announce"}, NEW kind, NEW obj, NEW row,
               Serve(p, pc, kind, obj, row)
        PROVE  ReadsHold(n)'
    <2>1. req'[p].pc = pc
      BY <1>0, <1>1 DEF Serve, TypeOK, SyncTypeOK
    <2> QED
      BY <2>1 DEF ReadsHold, Announced, Owes
  <1>2. ASSUME NEW u \in Users, BeginDeleteUser(p, u) PROVE ReadsHold(n)'
    <2>1. \A q \in Procs : Owes(q, n) => Owes(q, n)'
      <3>1. req[p] = Idle /\ \A q \in Procs \ {p} : req'[q] = req[q]
        BY <1>0, <1>2 DEF BeginDeleteUser, Serve, TypeOK, SyncTypeOK
      <3>2. ~Owes(p, n)
        BY <3>1 DEF Owes, Idle
      <3> QED
        BY <3>1, <3>2 DEF Owes
    <2> QED
      BY <1>0, <1>2, <2>1, ReadsHoldFrame DEF BeginDeleteUser, applierVars
  <1> QED
    BY <1>1, <1>2 DEF OperatorStep, CreateUser, UpdateUser, CreateInbound,
                      UpdateInbound, DeleteInbound

\* The rest of a request: every node is delivered a delta or has its loss recorded.
LEMMA RequestExplained ==
    ASSUME Explained, NEW p \in Procs, RequestStep(p), NEW n \in Nodes
    PROVE  ReadsHold(n)'
  <1>0. TypeOK /\ ReadsHold(n) /\ req \in [Procs -> Request]
    BY DEF Explained, FlushReadsHold, TypeOK, SyncTypeOK
  <1>1. CASE DeleteUser(p)
    <2>1. CASE UserLive(req[p].obj)
      <3>1. req'[p].pc = "announce"
        BY <1>0, <1>1, <2>1 DEF DeleteUser, Request
      <3> QED
        BY <3>1 DEF ReadsHold, Announced, Owes
    <2>2. CASE ~UserLive(req[p].obj)
      <3>1. req[p].pc = "delete" /\ \A q \in Procs \ {p} : req'[q] = req[q]
        BY <1>0, <1>1, <2>2 DEF DeleteUser
      <3>2. \A q \in Procs : Owes(q, n) => Owes(q, n)'
        BY <3>1 DEF Owes
      <3> QED
        BY <1>0, <1>1, <2>2, <3>2, ReadsHoldFrame DEF DeleteUser, applierVars, dbVars
    <2> QED
      BY <2>1, <2>2
  <1>2. CASE Reread(p)
    <2>1. CASE Live(req[p].obj)
      <3>1. req'[p].pc = "announce"
        BY <1>0, <1>2, <2>1 DEF Reread, Request
      <3> QED
        BY <3>1 DEF ReadsHold, Announced, Owes
    <2>2. CASE ~Live(req[p].obj)
      BY <1>2, <2>2, LoseExplains DEF Reread, applierVars
    <2> QED
      BY <2>1, <2>2
  <1>3. ASSUME NEW failed \in SUBSET Hosts, Announce(p, failed) PROVE ReadsHold(n)'
    <2> DEFINE todo == FanOut(p, failed)
    <2>1. CASE n \in todo
      <3>1. req' = [req EXCEPT ![p] = [req[p] EXCEPT !.pc = "fanout", !.todo = todo]]
        BY <1>3, <2>1 DEF Announce
      <3> HIDE DEF todo
      <3>2. req[p] \in Request
        BY <1>0
      <3>3. req'[p] = [req[p] EXCEPT !.pc = "fanout", !.todo = todo]
        BY <1>0, <3>1
      <3>4. req'[p].pc = "fanout" /\ req'[p].todo = todo
        BY <3>2, <3>3 DEF Request
      <3> QED
        BY <2>1, <3>4 DEF ReadsHold, Announced, Owes
    <2>2. CASE n \notin todo
      BY <1>3, <2>2, LoseExplains DEF Announce, applierVars
    <2> QED
      BY <2>1, <2>2
  <1>4. ASSUME NEW m \in Nodes, Deliver(p, m) PROVE ReadsHold(n)'
    <2> DEFINE d == [kind |-> req[p].kind,
                     key |-> IF req[p].obj \in Users THEN req[p].obj ELSE NilKey]
    <2>1. /\ queue' = [queue EXCEPT ![m] = Append(@, d)]
          /\ UNCHANGED <<pending, loop, stopping>>
      BY <1>4 DEF Deliver, Enqueue
    <2>2. queue \in [Nodes -> Seq(Delta)]
      BY <1>0 DEF TypeOK, ApplierTypeOK
    <2>3. CASE m = n
      <3>1. req[p] \in Request
        BY <1>0
      <3>2. d \in Delta
        BY <3>1, AccessAssumption DEF Request, Delta
      <3> HIDE DEF d
      <3>3. queue'[n] = Append(queue[n], d)
        BY <2>1, <2>2, <2>3
      <3>4. queue'[n] # <<>>
        BY <2>2, <3>2, <3>3
      <3> QED
        BY <3>4 DEF ReadsHold, Announced
    <2>4. CASE m # n
      <3>1. queue'[n] = queue[n]
        BY <2>1, <2>2, <2>4
      <3>2. \A q \in Procs : Owes(q, n) => Owes(q, n)'
        <4>1. \A q \in Procs \ {p} : req'[q] = req[q]
          BY <1>0, <1>4 DEF Deliver
        <4>2. ASSUME Owes(p, n) PROVE Owes(p, n)'
          <5>1. req[p].pc = "fanout" /\ n \in req[p].todo /\ req[p] \in Request
            BY <1>0, <1>4, <4>2 DEF Deliver, Owes
          <5>2. req' = [req EXCEPT ![p] = [req[p] EXCEPT !.todo = req[p].todo \ {m}]]
            BY <1>4, <2>4, <5>1 DEF Deliver
          <5>3. req'[p] = [req[p] EXCEPT !.todo = req[p].todo \ {m}]
            BY <1>0, <5>2
          <5>4. req'[p].pc = "fanout" /\ n \in req'[p].todo
            BY <2>4, <5>1, <5>3 DEF Request
          <5> QED
            BY <5>4 DEF Owes
        <4> QED
          BY <4>1, <4>2 DEF Owes
      <3> QED
        BY <1>0, <1>4, <2>1, <3>1, <3>2, ReadsHoldFrame DEF Deliver
    <2> QED
      BY <2>3, <2>4
  <1>5. CASE RereadError(p)
    BY <1>5, LoseExplains DEF RereadError, applierVars
  <1> QED
    BY <1>1, <1>2, <1>3, <1>4, <1>5 DEF RequestStep

\* One more credential list read adds the credentials kept of that inbound.
LEMMA CredsOfOneMore ==
    ASSUME NEW inbs, NEW i, NEW allowed
    PROVE  CurrentCreds(inbs \cup {i}, allowed)
              = CurrentCreds(inbs, allowed) \cup KeptCreds(i, allowed)
  BY DEF CurrentCreds

\* A step of another node.
LEMMA OtherNodeExplained ==
    ASSUME Explained, NEW m \in Nodes, NodeStep(m), NEW n \in Nodes, n # m
    PROVE  ReadsHold(n)'
  <1>0. ReadsHold(n) /\ ApplierTypeOK /\ SyncTypeOK
    BY DEF Explained, FlushReadsHold, TypeOK
  <1>1. UNCHANGED <<dbVars, req, stopping>>
    BY DEF NodeStep, AbsorbStep, LoopStep, ReadInbounds, UsersRead, ReadUsers, ReadUsersError,
           CredsRead, ReadCreds, ReadCredsError, FlushDone, RenderError, CallAgent,
           CallLost, CallReturns, ListInboundsError,
           applierVars, Absorb, Tick, StartDrain, DrainOne, DrainReturn, FlushReturn,
           BeginFlush
  <1>2. queue'[n] = queue[n] /\ pending'[n] = pending[n] /\ loop'[n] = loop[n]
    BY <1>0 DEF NodeStep, AbsorbStep, LoopStep, ReadInbounds, UsersRead, ReadUsers, ReadUsersError,
           CredsRead, ReadCreds, ReadCredsError, FlushDone, RenderError, CallAgent,
           CallLost, CallReturns, ListInboundsError,
           applierVars, Absorb, Tick, StartDrain, DrainOne, DrainReturn, FlushReturn,
           BeginFlush, ApplierTypeOK
  <1>3. build'[n] = build[n] /\ running'[n] = running[n]
    BY <1>0 DEF NodeStep, AbsorbStep, LoopStep, ReadInbounds, UsersRead, ReadUsers, ReadUsersError,
           CredsRead, ReadCreds, ReadCredsError, FlushDone, RenderError, CallAgent,
           CallLost, CallReturns, ListInboundsError,
           SyncTypeOK
  <1>4. lost'[n] = lost[n]
    BY <1>0, ZenonT(30) DEF NodeStep, AbsorbStep, LoopStep, ReadInbounds, UsersRead, ReadUsers, ReadUsersError,
           CredsRead, ReadCreds, ReadCredsError, FlushDone, RenderError, CallAgent,
           CallLost, CallReturns, ListInboundsError,
           SyncTypeOK, Lose
  <1>5. \A q \in Procs : Owes(q, n) => Owes(q, n)'
    BY <1>1 DEF Owes
  <1> QED
    BY <1>0, <1>1, <1>2, <1>3, <1>4, <1>5, ReadsHoldFrame

\* The absorbed delta stays in the map, starts the flush, or is recorded lost.
LEMMA AbsorbExplained ==
    ASSUME Explained, NEW n \in Nodes, AbsorbStep(n)
    PROVE  ReadsHold(n)'
  <1> DEFINE d == Head(queue[n])
             m == AbsorbInto(pending[n], d)
  <1>0. ApplierTypeOK /\ SyncTypeOK /\ BuildOnlyInFlush
    BY DEF Explained, TypeOK
  <1>1. loop[n] = "select" /\ build[n] = NoBuild /\ build' = build
    BY <1>0 DEF AbsorbStep, Absorb, BuildOnlyInFlush
  <1>2. CASE PendingLen(m) >= MaxQueue
    <2>1. loop'[n] = "flush" /\ build'[n].pc = "start"
      BY <1>0, <1>1, <1>2 DEF AbsorbStep, Absorb, BeginFlush, ApplierTypeOK, NoBuild
    <2> QED
      BY <2>1 DEF ReadsHold, Announced
  <1>3. CASE ~(PendingLen(m) >= MaxQueue)
    <2>1. loop' = loop /\ pending' = [pending EXCEPT ![n] = m]
      BY <1>3 DEF AbsorbStep, Absorb
    <2>2. CASE Cancels(pending[n][d.key], d.kind)
      BY <1>1, <2>1, <2>2, LoseExplains DEF AbsorbStep
    <2>3. CASE ~Cancels(pending[n][d.key], d.kind)
      <3>1. d \in Delta
        <4>1. queue[n] \in Seq(Delta) /\ queue[n] # <<>>
          BY <1>0 DEF AbsorbStep, Absorb, ApplierTypeOK
        <4> QED
          BY <4>1
      <3>2. pending[n] \in [Keys -> Kinds \cup {"none"}]
        BY <1>0 DEF ApplierTypeOK
      <3>3. m = [pending[n] EXCEPT ![d.key] = d.kind]
        BY <2>3 DEF AbsorbInto
      <3>4. d.key \in Keys /\ d.kind \in Kinds
        BY <3>1 DEF Delta
      <3> HIDE DEF d
      <3>5. m[d.key] # "none"
        BY <3>2, <3>3, <3>4 DEF Kinds
      <3>6. m # NoPending
        BY <3>4, <3>5 DEF NoPending
      <3> HIDE DEF m
      <3>7. pending'[n] # NoPending
        BY <1>0, <2>1, <3>6 DEF ApplierTypeOK
      <3> QED
        BY <3>7 DEF ReadsHold, Announced
    <2> QED
      BY <2>2, <2>3
  <1> QED
    BY <1>2, <1>3

\* The rest of the loop and the FlushFn, for the node itself.
LEMMA NodeExplained ==
    ASSUME Explained, NEW n \in Nodes, NodeStep(n)
    PROVE  ReadsHold(n)'
  <1>0. ApplierTypeOK /\ SyncTypeOK /\ BuildOnlyInFlush /\ BuffersBounded /\ ReadsHold(n)
    BY DEF Explained, TypeOK, FlushReadsHold
  <1>1. CASE AbsorbStep(n)
    BY <1>1, AbsorbExplained
  <1>2. CASE LoopStep(n)
    <2>1. CASE Tick(n)
      <3>1. build'[n] = NoBuild /\ loop'[n] = "flush"
        BY <1>0, <1>2, <2>1 DEF LoopStep, Tick, BeginFlush, BuildOnlyInFlush, ApplierTypeOK
      <3> QED
        BY <3>1 DEF ReadsHold, Announced, NoBuild
    <2>2. CASE StartDrain(n) \/ DrainOne(n) \/ DrainReturn(n)
      <3>1. stopping'
        BY <1>0, <2>2 DEF StartDrain, DrainOne, DrainReturn, BuffersBounded
      <3> QED
        BY <3>1 DEF ReadsHold
    <2> QED
      BY <1>2, <2>1, <2>2 DEF LoopStep
  <1>3. CASE ReadInbounds(n)
    <2>1. /\ loop'[n] = "flush" /\ UNCHANGED dbVars
          /\ build'[n] = [NoBuild EXCEPT !.pc = "inbounds", !.inbs = EnabledInbounds(n)]
      BY <1>0, <1>3 DEF ReadInbounds, SyncTypeOK, applierVars
    <2>2. build'[n].pc = "inbounds" /\ build'[n].inbs = EnabledInbounds(n)
      BY <2>1 DEF NoBuild
    <2> QED
      BY <2>1, <2>2, CurrentFrame DEF ReadsHold
  <1>r. ASSUME loop[n] = "flush", build[n].pc # "start",
               UNCHANGED <<queue, pending, stopping, req, lost>>,
               Announced(n) \/ lost[n] # {} \/ stopping
        PROVE  ReadsHold(n)'
    BY <1>r DEF ReadsHold, Announced, Owes
  <1>b. build[n] \in Build
    BY <1>0 DEF SyncTypeOK
  <1>4. ASSUME NEW failed \in SUBSET Hosts, ReadUsers(n, failed) PROVE ReadsHold(n)'
    <2>1. CASE failed # {}
      BY <1>4, <2>1, LoseExplains DEF ReadUsers, UsersRead, applierVars
    <2>2. CASE failed = {}
      <3>1. /\ loop[n] = "flush" /\ build[n].pc = "inbounds"
            /\ UNCHANGED <<queue, pending, loop, stopping, dbVars, req, lost>>
        BY <1>4, <2>2 DEF ReadUsers, UsersRead, applierVars
      <3>2. build'[n] = [pc |-> "users", inbs |-> build[n].inbs,
                         allowed |-> AllowedUsersForNode(n, {}),
                         todo |-> build[n].inbs, kept |-> {}]
        BY <1>0, <1>4, <2>2 DEF ReadUsers, UsersRead, SyncTypeOK
      <3>3. CASE build[n].inbs = EnabledInbounds(n)
        <4>1. AllowedUsersForNode(n, {})' = AllowedUsersForNode(n, {})
              /\ EnabledInbounds(n)' = EnabledInbounds(n)
          BY <3>1, CurrentFrame
        <4>2. CurrentCreds({}, AllowedUsersForNode(n, {}))' = {}
          BY DEF CurrentCreds
        <4>3. UsersHold(n)'
          BY <3>2, <4>1, <4>2 DEF UsersHold
        <4> QED
          BY <3>1, <3>2, <3>3, <4>1, <4>3 DEF ReadsHold
      <3> QED
        BY <1>0, <1>r, <3>1, <3>3 DEF ReadsHold
    <2> QED
      BY <2>1, <2>2
  <1>5. CASE ReadUsersError(n)
    BY <1>5, LoseExplains DEF ReadUsersError, UsersRead, applierVars
  <1>6. ASSUME NEW i \in Inbounds, ReadCreds(n, i) PROVE ReadsHold(n)'
    <2> DEFINE b == build[n]
    <2>1. /\ loop[n] = "flush" /\ b.pc = "users" /\ i \in b.todo
          /\ UNCHANGED <<queue, pending, loop, stopping, dbVars, req, lost>>
      BY <1>6 DEF ReadCreds, CredsRead, applierVars
    <2>2. build'[n] = [b EXCEPT !.todo = b.todo \ {i},
                                !.kept = b.kept \cup KeptCreds(i, b.allowed)]
      BY <1>0, <1>6 DEF ReadCreds, CredsRead, SyncTypeOK
    <2>3. /\ build'[n].pc = b.pc /\ build'[n].inbs = b.inbs /\ build'[n].allowed = b.allowed
          /\ build'[n].todo = b.todo \ {i}
          /\ build'[n].kept = b.kept \cup KeptCreds(i, b.allowed)
      BY <1>b, <2>2 DEF Build
    <2> HIDE DEF b
    <2>4. CASE b.inbs = EnabledInbounds(n) /\ UsersHold(n)
      <3>1. /\ AllowedUsersForNode(n, {})' = AllowedUsersForNode(n, {})
            /\ EnabledInbounds(n)' = EnabledInbounds(n)
            /\ \A inbs, allowed : CurrentCreds(inbs, allowed)' = CurrentCreds(inbs, allowed)
        BY <2>1, CurrentFrame
      <3>2. b.inbs \ (b.todo \ {i}) = (b.inbs \ b.todo) \cup {i}
        BY <2>1, <2>4 DEF UsersHold, b
      <3>3. CurrentCreds((b.inbs \ b.todo) \cup {i}, b.allowed)
               = CurrentCreds(b.inbs \ b.todo, b.allowed) \cup KeptCreds(i, b.allowed)
        BY CredsOfOneMore
      <3>4. UsersHold(n)'
        BY <2>3, <2>4, <3>1, <3>2, <3>3 DEF UsersHold, b
      <3> QED
        BY <2>1, <2>3, <2>4, <3>1, <3>4 DEF ReadsHold
    <2> QED
      BY <1>0, <1>r, <2>1, <2>4 DEF ReadsHold, b
  <1>7. ASSUME NEW i \in Inbounds, ReadCredsError(n, i) PROVE ReadsHold(n)'
    BY <1>7, LoseExplains DEF ReadCredsError, CredsRead, applierVars
  <1>d. ASSUME FlushDone(n) PROVE loop'[n] = "select"
    BY <1>0, <1>d DEF FlushDone, FlushReturn, ApplierTypeOK
  <1>8. CASE RenderError(n)
    BY <1>8, <1>d, LoseExplains DEF RenderError
  <1>9. CASE CallAgent(n)
    <2> DEFINE b == build[n]
    <2>1. /\ loop[n] = "flush" /\ b.pc = "users" /\ b.todo = {}
          /\ UNCHANGED <<queue, pending, loop, stopping, dbVars, req, lost>>
          /\ running'[n] = Rendered(b.inbs, b.kept)
      BY <1>0, <1>9 DEF CallAgent, AllRead, applierVars, SyncTypeOK
    <2>2. build'[n].pc = "called"
      BY <1>0, <1>9, <1>b DEF CallAgent, SyncTypeOK, Build
    <2>3. CASE b.inbs = EnabledInbounds(n) /\ UsersHold(n)
      <3>1. b.inbs \ b.todo = EnabledInbounds(n)
        BY <2>1, <2>3
      <3>2. running'[n] = Current(n)
        BY <2>1, <2>3, <3>1 DEF UsersHold, Current
      <3> QED
        BY <2>1, <2>2, <3>2, CurrentFrame DEF ReadsHold, Behind
    <2> QED
      BY <1>0, <1>r, <2>1, <2>3 DEF ReadsHold
  <1>10. CASE CallLost(n)
    BY <1>10, <1>d, LoseExplains DEF CallLost
  <1>11. ASSUME NEW ok \in BOOLEAN, CallReturns(n, ok) PROVE ReadsHold(n)'
    <2>0. loop'[n] = "select"
      BY <1>11, <1>d DEF CallReturns
    <2>1. CASE ~ok
      BY <1>11, <2>0, <2>1, LoseExplains DEF CallReturns
    <2>2. CASE ok
      <3>1. /\ loop[n] = "flush" /\ build[n].pc = "called"
            /\ UNCHANGED <<queue, pending, stopping, dbVars, req, running, lost>>
        BY <1>11, <2>2 DEF CallReturns, FlushDone, FlushReturn
      <3>2. CASE ~Behind(n)
        BY <2>0, <3>1, <3>2, CurrentFrame DEF ReadsHold, Behind
      <3> QED
        BY <1>0, <1>r, <3>1, <3>2 DEF ReadsHold
    <2> QED
      BY <2>1, <2>2
  <1>12. CASE ListInboundsError(n)
    <2>1. loop'[n] = "select"
      BY <1>0, <1>12 DEF ListInboundsError, FlushReturn, ApplierTypeOK
    <2> QED
      BY <1>12, <2>1, LoseExplains DEF ListInboundsError
  <1> QED
    BY <1>1, <1>2, <1>3, <1>4, <1>5, <1>6, <1>7, <1>8, <1>9, <1>10, <1>11, <1>12 DEF NodeStep

\* The edits no applier hears of, and the process as a whole.
LEMMA OtherExplained ==
    ASSUME Explained, NEW n \in Nodes,
           \/ SilentEdit
           \/ Shutdown
           \/ \E wired \in SUBSET Nodes : Restart(wired)
           \/ UNCHANGED vars
    PROVE  ReadsHold(n)'
  <1>1. CASE SilentEdit
    <2>1. /\ Lose(Nodes, "unannounced")
          /\ UNCHANGED loop
      BY <1>1 DEF SilentEdit, WriteCredential, WriteHost, applierVars
    <2> QED
      BY <2>1, LoseExplains
  <1>2. CASE Shutdown
    BY <1>2 DEF Shutdown, Cancel, ReadsHold
  <1>3. ASSUME NEW wired \in SUBSET Nodes, Restart(wired) PROVE ReadsHold(n)'
    <2>1. loop'[n] # "flush" /\ UNCHANGED <<dbVars, running>>
      BY <1>3 DEF Restart, Boot
    <2>2. Behind(n)' <=> Behind(n)
      BY <2>1, CurrentFrame DEF Behind
    <2>3. Behind(n) => lost'[n] # {}
      BY <1>3 DEF Restart
    <2> QED
      BY <2>1, <2>2, <2>3 DEF ReadsHold
  <1>4. CASE UNCHANGED vars
    <2>1. ReadsHold(n)
      BY DEF Explained, FlushReadsHold
    <2>2. \A q \in Procs : Owes(q, n) => Owes(q, n)'
      BY <1>4 DEF Owes, vars
    <2> QED
      BY <1>4, <2>1, <2>2, ReadsHoldFrame DEF vars, applierVars
  <1> QED
    BY <1>1, <1>2, <1>3, <1>4

\* Only a flush reads the database into its build, and it clears it at its end.
LEMMA BuildStep ==
    ASSUME TypeOK, BuildOnlyInFlush, [Next]_vars
    PROVE  BuildOnlyInFlush'
  <1>0. ApplierTypeOK /\ SyncTypeOK
    BY DEF TypeOK
  <1>1. CASE UNCHANGED <<loop, build>>
    BY <1>1 DEF BuildOnlyInFlush
  <1>2. ASSUME NEW n \in Nodes, NodeStep(n) PROVE BuildOnlyInFlush'
    <2> SUFFICES ASSUME NEW m \in Nodes, loop'[m] # "flush" \/ build'[m].pc = "start"
                 PROVE  build'[m] = NoBuild
      BY DEF BuildOnlyInFlush
    <2>1. CASE AbsorbStep(n) \/ LoopStep(n)
      <3>1. loop[n] # "flush" /\ build' = build
        BY <2>1 DEF AbsorbStep, LoopStep, Absorb, Tick, StartDrain, DrainOne, DrainReturn
      <3>2. m # n => loop'[m] = loop[m]
        BY <1>0, <2>1 DEF AbsorbStep, LoopStep, Absorb, Tick, BeginFlush, StartDrain,
                          DrainOne, DrainReturn, ApplierTypeOK
      <3> QED
        BY <3>1, <3>2 DEF BuildOnlyInFlush
    <2>b. build[n] \in Build
      BY <1>0 DEF SyncTypeOK
    <2>r. ASSUME loop[n] = "flush", loop' = loop, NEW b, build' = [build EXCEPT ![n] = b],
                 b.pc # "start"
          PROVE  build'[m] = NoBuild
      BY <1>0, <2>r DEF BuildOnlyInFlush, SyncTypeOK
    <2>2. CASE ReadInbounds(n)
      <3> DEFINE b == [NoBuild EXCEPT !.pc = "inbounds", !.inbs = EnabledInbounds(n)]
      <3>1. b.pc # "start"
        BY DEF NoBuild
      <3>2. loop[n] = "flush" /\ loop' = loop /\ build' = [build EXCEPT ![n] = b]
        BY <2>2 DEF ReadInbounds, applierVars
      <3> HIDE DEF b
      <3> QED
        BY <2>r, <3>1, <3>2
    <2>3. ASSUME NEW allowed, UsersRead(n, allowed) PROVE build'[m] = NoBuild
      <3> DEFINE b == [pc |-> "users", inbs |-> build[n].inbs, allowed |-> allowed,
                       todo |-> build[n].inbs, kept |-> {}]
      <3>1. b.pc # "start"
        OBVIOUS
      <3>2. loop[n] = "flush" /\ loop' = loop /\ build' = [build EXCEPT ![n] = b]
        BY <2>3 DEF UsersRead, applierVars
      <3> HIDE DEF b
      <3> QED
        BY <2>r, <3>1, <3>2
    <2>5. ASSUME NEW i, NEW kept, CredsRead(n, i, kept) PROVE build'[m] = NoBuild
      <3> DEFINE b == [build[n] EXCEPT !.todo = build[n].todo \ {i},
                                       !.kept = build[n].kept \cup kept]
      <3>1. b.pc # "start"
        BY <2>5, <2>b DEF CredsRead, Build
      <3>2. loop[n] = "flush" /\ loop' = loop /\ build' = [build EXCEPT ![n] = b]
        BY <2>5 DEF CredsRead, applierVars
      <3> HIDE DEF b
      <3> QED
        BY <2>r, <3>1, <3>2
    <2>6. CASE CallAgent(n)
      <3> DEFINE b == [build[n] EXCEPT !.pc = "called"]
      <3>1. b.pc # "start"
        BY <2>b DEF Build
      <3>2. loop[n] = "flush" /\ loop' = loop /\ build' = [build EXCEPT ![n] = b]
        BY <2>6 DEF CallAgent, AllRead, applierVars
      <3> HIDE DEF b
      <3> QED
        BY <2>r, <3>1, <3>2
    <2>7. CASE FlushDone(n)
      <3>1. build' = [build EXCEPT ![n] = NoBuild] /\ (m # n => loop'[m] = loop[m])
        BY <1>0, <2>7 DEF FlushDone, FlushReturn, ApplierTypeOK
      <3> QED
        BY <1>0, <3>1 DEF BuildOnlyInFlush, SyncTypeOK
    <2>4. CASE ListInboundsError(n)
      <3>1. build' = build /\ build[n].pc = "start" /\ (m # n => loop'[m] = loop[m])
        BY <1>0, <2>4 DEF ListInboundsError, FlushReturn, ApplierTypeOK
      <3> QED
        BY <3>1 DEF BuildOnlyInFlush
    <2> QED
      BY <1>2, <2>1, <2>2, <2>3, <2>4, <2>5, <2>6, <2>7
      DEF NodeStep, ReadUsers, ReadUsersError, ReadCreds, ReadCredsError, RenderError,
          CallLost, CallReturns
  <1>3. ASSUME NEW wired \in SUBSET Nodes, Restart(wired) PROVE BuildOnlyInFlush'
    BY <1>3 DEF Restart, BuildOnlyInFlush
  <1>4. ASSUME NEW p \in Procs, OperatorStep(p) \/ RequestStep(p)
        PROVE  UNCHANGED <<loop, build>>
    BY <1>4 DEF OperatorStep, CreateUser, UpdateUser, BeginDeleteUser, CreateInbound,
                UpdateInbound, DeleteInbound, RequestStep, DeleteUser, Reread, RereadError,
                Announce, Deliver, Enqueue, applierVars
  <1>5. SilentEdit \/ Shutdown \/ UNCHANGED vars => UNCHANGED <<loop, build>>
    BY DEF SilentEdit, WriteCredential, WriteHost, Shutdown, Cancel, applierVars, vars
  <1> QED
    BY <1>1, <1>2, <1>3, <1>4, <1>5 DEF Next

\* What a flush has read is still what the database says, unless a further flush
\* of the node is on its way or the loss is recorded: the inductive form of
\* StaleNodeExplained.
THEOREM FlushReadsCorrect == Spec => []FlushReadsHold
  <1>1. Init => BuildOnlyInFlush /\ FlushReadsHold
    BY DEF Init, ApplierInit, BuildOnlyInFlush, FlushReadsHold, ReadsHold, Behind
  <1>2. TypeOK /\ BuildOnlyInFlush /\ [Next]_vars => BuildOnlyInFlush'
    BY BuildStep
  <1>3. Explained /\ [Next]_vars => FlushReadsHold'
    <2> SUFFICES ASSUME Explained, [Next]_vars, NEW n \in Nodes
                 PROVE  ReadsHold(n)'
      BY DEF FlushReadsHold
    <2>1. ASSUME NEW p \in Procs, OperatorStep(p) \/ RequestStep(p) PROVE ReadsHold(n)'
      BY <2>1, OperatorExplained, RequestExplained
    <2>2. ASSUME NEW m \in Nodes, NodeStep(m) PROVE ReadsHold(n)'
      BY <2>2, NodeExplained, OtherNodeExplained
    <2> QED
      BY <2>1, <2>2, OtherExplained DEF Next
  <1>4. Explained <=> TypeOK /\ BuffersBounded /\ BuildOnlyInFlush /\ FlushReadsHold
    BY DEF Explained
  <1> QED
    BY <1>1, <1>2, <1>3, <1>4, TypeCorrect, SystemBuffersBounded, PTL DEF Spec

\* No interleaving of requests, absorbs, flushes, database reads, failures and
\* restarts leaves a node out of date without a flush on its way or a recorded
\* reason: for any number of nodes, users, hosts, inbounds and requests, any
\* maxQueue, and any number of edits.
THEOREM StaleExplained == Spec => []StaleNodeExplained
  <1>1. FlushReadsHold => StaleNodeExplained
    BY DEF FlushReadsHold, ReadsHold, StaleNodeExplained
  <1> QED
    BY <1>1, FlushReadsCorrect, PTL
=============================================================================
