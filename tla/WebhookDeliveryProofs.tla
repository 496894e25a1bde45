----------------------- MODULE WebhookDeliveryProofs -----------------------
(* Proofs about the delivery of webhooks: nothing owed is lost, each event   *)
(* has one chain of attempts, an accepted one is not sent again, and an      *)
(* operator's edit stays.                                                    *)
EXTENDS WebhookDelivery, FiniteSetTheorems, TLAPS

(* --- what a task is at -------------------------------------------------- *)

Delivering == {"post", "record", "snapshot", "arm"}
Written == {"snapshot", "arm"}
Pcs == {"idle", "next", "save", "dequeue"} \cup Delivering
Kinds == {"none", "dispatch", "test", "replay", "update", "retry"}
Answers == {"none", "2xx", "other"}
Attempts == 0..MaxAttempts
Events == 0..MaxOps
Jobs ==
  [pc : Pcs, kind : Kinds, todo : Seq(Endpoints \cup Nat), event : Events,
   ep : Endpoints \cup {"none"}, attempt : Attempts, copy : BOOLEAN,
   answer : Answers, row : Nat, old : Nat, expired : BOOLEAN]

\* What a request is at, by its kind.
RequestOk(r) ==
  /\ task[r].kind # "retry" /\ task[r].pc # "dequeue"
  /\ task[r].pc = "idle" => task[r].kind = "none"
  /\ task[r].pc = "next" => task[r].kind = "dispatch"
  /\ task[r].pc = "save" => task[r].kind = "update" /\ task[r].ep \in Endpoints
  /\ task[r].pc \in Delivering => task[r].kind \in {"dispatch", "test", "replay"}
  /\ task[r].kind = "dispatch" =>
       /\ task[r].todo \in Seq(Endpoints)
       /\ IsInjective(task[r].todo)
       /\ task[r].pc \in Delivering => task[r].ep \notin Range(task[r].todo)

\* The worker goes on from a row whose retry waits, or whose endpoint is gone.
WorkerOk ==
  /\ task[Worker].pc # "save"
  /\ IF task[Worker].pc = "idle" THEN task[Worker].kind = "none"
                                 ELSE task[Worker].kind = "retry"
  /\ IsInjective(task[Worker].todo)
  /\ \A d \in Range(task[Worker].todo) :
       /\ d \in DOMAIN rows /\ rows[d].attempt < MaxAttempts
       /\ Exists(d) => d \in Waiting
  /\ task[Worker].pc \in Delivering \cup {"dequeue"} =>
       LET old == task[Worker].old IN
       /\ old \in DOMAIN rows /\ NoticeOf(old) = Notice(Worker)
       /\ old \notin Range(task[Worker].todo)
       /\ Exists(old) => old \in Waiting

\* What t delivers is owed; once it is written, its row is of this attempt and
\* not yet armed; and a 2xx has been given.
DeliveryOk(t) ==
  /\ Undone(t) \subseteq owed
  /\ task[t].pc \in Delivering => task[t].ep \in Endpoints /\ task[t].attempt # 0
  /\ task[t].pc \in Written =>
       /\ task[t].row \in DOMAIN rows /\ NoticeOf(task[t].row) = Notice(t)
       /\ rows[task[t].row].attempt = task[t].attempt
       /\ task[t].row \notin Waiting
  /\ task[t].pc \in {"record", "snapshot"} /\ task[t].answer = "2xx" => Notice(t) \in accepted

OwnRows ==
  \A t, u \in Tasks :
    task[t].pc \in Written /\ task[u].pc \in Written /\ task[t].row = task[u].row => t = u

\* A retry waits once, and only while there are an endpoint and an attempt left.
QueueOk ==
  /\ IsInjective(due) /\ pending \cap Range(due) = {}
  /\ \A d \in Waiting : Exists(d) /\ rows[d].attempt < MaxAttempts

\* What is owed was called for at a time when its endpoint was there.
OwedOk ==
  /\ \A n \in owed : n.event <= ops /\ endpoint[n.ep].row # "none"
  /\ \A n \in owed : endpoint[n.ep].row = "deleted" => n \in missed
  /\ \A d \in DOMAIN rows : NoticeOf(d) \in owed

Work ==
  /\ \A r \in Requests : RequestOk(r)
  /\ WorkerOk
  /\ \A t \in Tasks : DeliveryOk(t)
  /\ OwnRows /\ QueueOk /\ OwedOk

WorkInv == TypeOK /\ Work

(* --- what becomes of an event ------------------------------------------- *)

Settled == accepted \cup missed \cup dlq

\* Before the worker removes the old row, the event goes on without it.
Handed ==
  At(Worker, "dequeue") /\ ~task[Worker].expired =>
    \/ Notice(Worker) \in Settled
    \/ \E d \in Waiting \ {task[Worker].old} : NoticeOf(d) = Notice(Worker)

KeepInv == NoEventLost /\ Handed

\* A request that is at an event is the only one to be, and no retry of it waits.
FirstAlone ==
  \A r \in Requests : \A n \in Undone(r) \ doubled :
    /\ \A d \in Waiting : NoticeOf(d) # n
    /\ \A t \in Tasks \ {r} : n \notin Undone(t)

\* While the worker is at an event, no other retry of it waits than the one it fired.
RetryAlone ==
  task[Worker].pc \in Delivering /\ Notice(Worker) \notin doubled =>
    \A d \in Waiting : NoticeOf(d) = Notice(Worker) => d = task[Worker].old

ChainInv == SingleChain /\ FirstAlone /\ RetryAlone

\* The worker has done with the row it fired but to remove it.
Removing(d) ==
  task[Worker].pc \in {"record", "snapshot", "dequeue"} /\ task[Worker].old = d

\* t has its 2xx for n, and nothing more to do for it.
Knows(t, n) ==
  /\ task[t].pc \in {"record", "snapshot"} /\ task[t].answer = "2xx" /\ Notice(t) = n
  /\ task[t].kind = "dispatch" => n.ep \notin Range(task[t].todo)

\* Of an event that was accepted nothing waits but the row the worker is about to remove.
AckedWaits ==
  \A n \in accepted \ doubled : \A d \in Waiting : NoticeOf(d) = n => Removing(d)

\* ... and who is at it has its answer.
AckedKnown ==
  \A n \in accepted \ doubled : \A t \in Tasks : n \in Undone(t) => Knows(t, n)

AckInv == AckedWaits /\ AckedKnown

\* The copy that t holds of e's row is of a row that is there, and says what it says.
CopyOk(t, e) ==
  HoldsCopy(t, e) =>
    /\ endpoint[e].row # "none"
    /\ e \notin overlapped =>
         /\ task[t].pc \in {"post", "record", "snapshot"} /\ task[t].ep = e
              => task[t].copy = endpoint[e].enabled
         /\ task[t].kind = "dispatch" /\ e \in Range(task[t].todo) => endpoint[e].enabled

CopiesHold == \A t \in Tasks : \A e \in Endpoints : CopyOk(t, e)

EditInv == EditsKept /\ CopiesHold
-----------------------------------------------------------------------------
(* Sequences: what is left of one, and the orders of a set.                  *)

\* What is left of the due retries when some are removed (DequeueRetry, and the
\* cascade of DeleteEndpoint): the others, each as often as before.
LEMMA WithoutRest ==
    ASSUME NEW T, NEW s \in Seq(T), NEW S
    PROVE  /\ Without(s, S) \in Seq(T)
           /\ Range(Without(s, S)) = Range(s) \ S
           /\ IsInjective(s) => IsInjective(Without(s, S))
  <1> DEFINE Kept == {i \in DOMAIN s : s[i] \notin S}
             UpTo(i) == {k \in Kept : k <= i}
             Rank(i) == Cardinality(UpTo(i))
             N == Cardinality(Kept)
             Place(n) == CHOOSE i \in Kept : Rank(i) = n
  <1>1. Kept \subseteq 1..Len(s) /\ Kept \subseteq Nat /\ IsFiniteSet(Kept) /\ N \in Nat
    <2>1. Len(s) \in Nat /\ DOMAIN s = 1..Len(s)
      OBVIOUS
    <2>2. IsFiniteSet(1..Len(s))
      BY <2>1, FS_Interval
    <2>3. IsFiniteSet(Kept)
      BY <2>1, <2>2, FS_Subset
    <2> QED
      BY <2>1, <2>3, FS_CardinalityType
  <1>2. ASSUME NEW i \in Kept
        PROVE  IsFiniteSet(UpTo(i)) /\ Rank(i) \in 1..N
    <2>1. IsFiniteSet(UpTo(i)) /\ Rank(i) <= N
      BY <1>1, FS_Subset
    <2>2. Rank(i) \in Nat
      BY <2>1, FS_CardinalityType
    <2>3. i \in UpTo(i)
      BY <1>1
    <2>4. Rank(i) # 0
      BY <2>1, <2>3, FS_EmptySet
    <2> QED
      BY <2>1, <2>2, <2>4, <1>1
  <1>3. ASSUME NEW i \in Kept, NEW k \in Kept, Rank(i) = Rank(k)
        PROVE  i = k
    <2>1. ASSUME NEW a \in Kept, NEW b \in Kept, Rank(a) = Rank(b), a < b
          PROVE  FALSE
      <3>1. UpTo(a) \subseteq UpTo(b)
        BY <2>1, <1>1
      <3>2. UpTo(a) = UpTo(b)
        BY <3>1, <2>1, <1>2, FS_Subset
      <3>3. b \in UpTo(b) /\ b \notin UpTo(a)
        BY <2>1, <1>1
      <3> QED
        BY <3>2, <3>3
    <2>2. ~(i < k) /\ ~(k < i)
      BY <2>1, <1>3
    <2> QED
      BY <2>2, <1>1
  <1> HIDE DEF Kept, UpTo
  <1>4. \A n \in 1..N : \E i \in Kept : Rank(i) = n
    <2> DEFINE f == [i \in Kept |-> Rank(i)]
    <2>1. f \in Injection(Kept, 1..N)
      <3>1. f \in [Kept -> 1..N]
        BY <1>2
      <3>2. IsInjective(f)
        BY <1>3 DEF IsInjective
      <3> QED
        BY <3>1, <3>2 DEF Injection
    <2>2. IsFiniteSet(1..N) /\ Cardinality(1..N) = N
      BY <1>1, FS_Interval
    <2>3. f \in Surjection(Kept, 1..N)
      BY <2>1, <2>2, FS_Injection
    <2> QED
      BY <2>3 DEF Surjection
  <1>5. \A n \in 1..N : Place(n) \in Kept /\ Rank(Place(n)) = n
    BY <1>4
  <1>6. \A i \in Kept : Place(Rank(i)) = i
    BY <1>2, <1>3, <1>5
  <1> HIDE DEF Place
  <1>7. Without(s, S) = [n \in 1..N |-> s[Place(n)]]
    BY DEF Without, Kept, UpTo, Place
  <1>8. \A i \in Kept : i \in DOMAIN s /\ s[i] \in T /\ s[i] \notin S
    BY DEF Kept
  <1>9. Without(s, S) \in Seq(T)
    <2>1. \A n \in 1..N : s[Place(n)] \in T
      BY <1>5, <1>8
    <2> HIDE DEF N, Rank
    <2> QED
      BY <1>1, <1>7, <2>1
  <1>10. Range(Without(s, S)) = Range(s) \ S
    <2>1. ASSUME NEW x \in Range(Without(s, S))
          PROVE  x \in Range(s) \ S
      BY <1>5, <1>7, <1>8 DEF Range
    <2>2. ASSUME NEW x \in Range(s) \ S
          PROVE  x \in Range(Without(s, S))
      <3>1. PICK i \in DOMAIN s : x = s[i]
        BY DEF Range
      <3>2. i \in Kept
        BY <3>1 DEF Kept
      <3>3. Rank(i) \in 1..N /\ s[Place(Rank(i))] = x
        BY <1>2, <1>6, <3>1, <3>2
      <3> QED
        BY <1>7, <3>3 DEF Range
    <2> QED
      BY <2>1, <2>2
  <1>11. ASSUME IsInjective(s)
         PROVE  IsInjective(Without(s, S))
    <2> SUFFICES ASSUME NEW m \in 1..N, NEW n \in 1..N, s[Place(m)] = s[Place(n)]
                 PROVE  m = n
      BY <1>7 DEF IsInjective
    <2>1. Place(m) = Place(n)
      BY <1>5, <1>8, <1>11 DEF IsInjective
    <2> QED
      BY <2>1, <1>5
  <1> QED
    BY <1>9, <1>10, <1>11

\* A dispatch goes through all its endpoints, each once (Dispatch).
LEMMA OrderOfAll ==
    ASSUME NEW S, IsFiniteSet(S), NEW order \in SetToSeqs(S)
    PROVE  order \in Seq(S) /\ IsInjective(order) /\ Range(order) = S
  <1> DEFINE N == Cardinality(S)
  <1>1. N \in Nat
    BY FS_CardinalityType
  <1>2. order \in [1..N -> S] /\ IsInjective(order)
    BY DEF SetToSeqs, IsInjective
  <1>3. order \in Injection(1..N, S)
    BY <1>2 DEF Injection
  <1>4. IsFiniteSet(1..N) /\ Cardinality(1..N) = N
    BY <1>1, FS_Interval
  <1>5. order \in Surjection(1..N, S)
    BY <1>3, <1>4, FS_Injection
  <1> HIDE DEF N
  <1>6. order \in Seq(S)
    BY <1>1, <1>2
  <1>7. Range(order) = S
    BY <1>2, <1>5 DEF Surjection, Range
  <1> QED
    BY <1>2, <1>6, <1>7

\* The first of a sequence and the rest.
LEMMA TailOf ==
    ASSUME NEW T, NEW s \in Seq(T), s # <<>>
    PROVE  /\ Tail(s) \in Seq(T) /\ Head(s) \in Range(s)
           /\ Range(s) = {Head(s)} \cup Range(Tail(s))
           /\ IsInjective(s) => IsInjective(Tail(s)) /\ Head(s) \notin Range(Tail(s))
  <1>1. /\ Len(s) \in Nat \ {0} /\ DOMAIN s = 1..Len(s)
        /\ Tail(s) \in Seq(T) /\ DOMAIN Tail(s) = 1..(Len(s) - 1)
        /\ Head(s) = s[1] /\ \A i \in 1..(Len(s) - 1) : Tail(s)[i] = s[i + 1]
    OBVIOUS
  <1>2. Range(s) = {Head(s)} \cup Range(Tail(s))
    <2>1. ASSUME NEW x \in Range(s)
          PROVE  x \in {Head(s)} \cup Range(Tail(s))
      <3>1. PICK i \in 1..Len(s) : x = s[i]
        BY <1>1 DEF Range
      <3>2. CASE i = 1
        BY <1>1, <3>1, <3>2
      <3>3. CASE i # 1
        <4>1. i - 1 \in 1..(Len(s) - 1) /\ Tail(s)[i - 1] = x
          BY <1>1, <3>1, <3>3
        <4> QED
          BY <1>1, <4>1 DEF Range
      <3> QED
        BY <3>2, <3>3
    <2>2. ASSUME NEW x \in Range(Tail(s))
          PROVE  x \in Range(s)
      <3>1. PICK i \in 1..(Len(s) - 1) : x = Tail(s)[i]
        BY <1>1 DEF Range
      <3>2. i + 1 \in 1..Len(s) /\ s[i + 1] = x
        BY <1>1, <3>1
      <3> QED
        BY <1>1, <3>2 DEF Range
    <2>3. Head(s) \in Range(s)
      BY <1>1 DEF Range
    <2> QED
      BY <2>1, <2>2, <2>3
  <1>3. ASSUME IsInjective(s)
        PROVE  IsInjective(Tail(s)) /\ Head(s) \notin Range(Tail(s))
    <2>1. ASSUME NEW i \in 1..(Len(s) - 1), NEW k \in 1..(Len(s) - 1), Tail(s)[i] = Tail(s)[k]
          PROVE  i = k
      <3>1. i + 1 \in 1..Len(s) /\ k + 1 \in 1..Len(s) /\ s[i + 1] = s[k + 1]
        BY <1>1, <2>1
      <3>2. i + 1 = k + 1
        BY <1>1, <1>3, <3>1 DEF IsInjective
      <3> QED
        BY <3>2
    <2>2. ASSUME NEW i \in 1..(Len(s) - 1), Head(s) = Tail(s)[i]
          PROVE  FALSE
      <3>1. 1 \in 1..Len(s) /\ i + 1 \in 1..Len(s) /\ s[1] = s[i + 1]
        BY <1>1, <2>2
      <3>2. 1 = i + 1
        BY <1>1, <1>3, <3>1 DEF IsInjective
      <3> QED
        BY <3>2
    <2> QED
      BY <1>1, <2>1, <2>2 DEF IsInjective, Range
  <1> QED
    BY <1>1, <1>2, <1>3

-----------------------------------------------------------------------------
(* What a step makes of the job of its task and of the others.              *)

TaskType == task \in [Tasks -> Jobs]

Others(t) == \A u \in Tasks \ {t} : task'[u] = task[u]

SameDelivery(t) ==
  /\ task'[t].kind = task[t].kind /\ task'[t].todo = task[t].todo
  /\ task'[t].event = task[t].event /\ task'[t].ep = task[t].ep
  /\ task'[t].old = task[t].old

\* t goes on with its delivery at pc.
Stays(t, pc) ==
  /\ Others(t) /\ SameDelivery(t)
  /\ task'[t].pc = pc
  /\ task'[t].attempt = task[t].attempt /\ task'[t].copy = task[t].copy

\* t is done with its delivery.
Leaves(t) ==
  /\ Others(t)
  /\ \/ /\ t = Worker
        /\ SameDelivery(t)
        /\ task'[t].pc = "dequeue" /\ task'[t].expired = task[t].expired
     \/ /\ t # Worker /\ task[t].kind = "dispatch"
        /\ task'[t].pc = "next" /\ task'[t].kind = "dispatch"
        /\ task'[t].todo = task[t].todo /\ task'[t].event = task[t].event
     \/ /\ t # Worker /\ task[t].kind # "dispatch"
        /\ task'[t] = Idle

\* The limits as the lemmas below use them.
LEMMA Limits ==
    /\ MaxAttempts \in Nat \ {0} /\ MaxOps \in Nat /\ Batch \in Nat \ {0}
    /\ Worker \in Tasks /\ Worker \notin Requests /\ Requests \subseteq Tasks
    /\ \A t \in Tasks : t # Worker => t \in Requests
    /\ IsFiniteSet(Endpoints)
  BY LimitsAssumption DEF Worker, Tasks

\* The sets that a job is made of, by their names.
LEMMA TaskIsJob == Task = Jobs
  <1>1. Pcs = {"idle", "next", "save", "post", "record", "snapshot", "arm", "dequeue"}
    BY DEF Pcs, Delivering
  <1> QED
    BY <1>1 DEF Task, Jobs, Kinds, Answers, Events, Attempts

\* What the fields of a job are set to below.
LEMMA Members ==
    /\ Delivering \subseteq Pcs /\ Written \subseteq Delivering
    /\ {"post", "record", "snapshot", "arm", "idle", "next", "save", "dequeue"} \subseteq Pcs
    /\ {"none", "dispatch", "test", "replay", "update", "retry"} \subseteq Kinds
    /\ "none" \in Answers /\ 0 \in Events /\ 0 \in Attempts /\ 1 \in Attempts
    /\ <<>> \in Seq(Endpoints \cup Nat)
  BY Limits DEF Pcs, Delivering, Written, Kinds, Answers, Events, Attempts

\* A task that is done is at rest, and so it starts.
LEMMA IdleIsJob == Idle \in Jobs
  BY Members DEF Idle, Jobs

\* Each row is of an attempt that was made.
LEMMA RowType ==
    ASSUME TypeOK, NEW d \in DOMAIN rows
    PROVE  /\ d \in Nat /\ d <= Len(rows)
           /\ rows[d] \in [event : 1..MaxOps, ep : Endpoints, attempt : 1..MaxAttempts]
  <1>1. PICK S : S = [event : 1..MaxOps, ep : Endpoints, attempt : 1..MaxAttempts]
    OBVIOUS
  <1>2. rows \in Seq(S)
    BY <1>1 DEF TypeOK
  <1>3. d \in 1..Len(rows) /\ rows[d] \in S
    BY <1>2
  <1> QED
    BY <1>1, <1>2, <1>3

\* A step that gives one task another job.
LEMMA SetJob ==
    ASSUME TaskType, NEW t \in Tasks, NEW j \in Jobs, task' = [task EXCEPT ![t] = j]
    PROVE  TaskType' /\ Others(t) /\ task'[t] = j
  BY DEF TaskType, Others

\* The end of deliverSync.
LEMMA DeliveredLeaves ==
    ASSUME TaskType, NEW t \in Tasks, task' = [task EXCEPT ![t] = Delivered(t)]
    PROVE  TaskType' /\ Leaves(t)
  <1>0. task[t] \in Jobs
    BY DEF TaskType
  <1>1. CASE t = Worker
    <2>0. PICK k : k = To(t, "dequeue")
      OBVIOUS
    <2>0a. /\ k \in Jobs /\ k.pc = "dequeue" /\ k.expired = task[t].expired
           /\ k.kind = task[t].kind /\ k.todo = task[t].todo /\ k.event = task[t].event
           /\ k.ep = task[t].ep /\ k.old = task[t].old
      BY <1>0, <2>0, Members DEF To, Jobs
    <2>1. PICK j : j = [k EXCEPT !.answer = "none", !.row = 0, !.attempt = 0]
      OBVIOUS
    <2>2. /\ j \in Jobs /\ j.pc = "dequeue" /\ j.expired = task[t].expired
          /\ j.kind = task[t].kind /\ j.todo = task[t].todo /\ j.event = task[t].event
          /\ j.ep = task[t].ep /\ j.old = task[t].old
      BY <2>0a, <2>1, Limits, Members DEF Jobs
    <2>3. TaskType' /\ Others(t) /\ task'[t] = j
      BY <1>1, <2>0, <2>1, <2>2, SetJob DEF Delivered
    <2> QED
      BY <1>1, <2>2, <2>3 DEF Leaves, SameDelivery
  <1>2. CASE t # Worker /\ task[t].kind = "dispatch"
    <2>1. PICK j : j = Onward(t)
      OBVIOUS
    <2>2. /\ j \in Jobs /\ j.pc = "next" /\ j.kind = task[t].kind /\ j.todo = task[t].todo
          /\ j.event = task[t].event
      BY <1>0, <1>2, <2>1, IdleIsJob, Members DEF Onward, Idle, Jobs
    <2>3. TaskType' /\ Others(t) /\ task'[t] = j
      BY <1>2, <2>1, <2>2, SetJob DEF Delivered
    <2> QED
      BY <1>2, <2>2, <2>3 DEF Leaves
  <1>3. CASE t # Worker /\ task[t].kind # "dispatch"
    <2>1. TaskType' /\ Others(t) /\ task'[t] = Idle
      BY <1>3, IdleIsJob, SetJob DEF Delivered
    <2> QED
      BY <1>3, <2>1 DEF Leaves
  <1> QED
    BY <1>1, <1>2, <1>3

\* The POST.
LEMMA PostEffect ==
    ASSUME TaskType, NEW t \in Tasks, NEW answer \in Answers, Post(t, answer)
    PROVE  /\ TaskType' /\ Stays(t, "record")
           /\ task'[t].answer = answer
  <1>0. task[t] \in Jobs
    BY DEF TaskType
  <1>1. PICK late \in BOOLEAN : late = (task[t].ep \in Slow /\ Deadline(t))
    OBVIOUS
  <1>2. PICK j : j = [task[t] EXCEPT !.pc = "record", !.answer = answer, !.expired = @ \/ late]
    OBVIOUS
  <1>3. /\ j \in Jobs /\ j.pc = "record" /\ j.answer = answer
        /\ j.kind = task[t].kind /\ j.todo = task[t].todo /\ j.event = task[t].event
        /\ j.ep = task[t].ep /\ j.old = task[t].old
        /\ j.attempt = task[t].attempt /\ j.copy = task[t].copy
    BY <1>0, <1>2, Members DEF Jobs
  <1>4. TaskType' /\ Others(t) /\ task'[t] = j
    BY <1>1, <1>2, <1>3, SetJob DEF Post
  <1> QED
    BY <1>3, <1>4 DEF Stays, SameDelivery

\* The context of t is over.
LEMMA ExpireEffect ==
    ASSUME TaskType, NEW t \in Tasks, Expire(t)
    PROVE  /\ TaskType' /\ Stays(t, task[t].pc)
           /\ task'[t].answer = task[t].answer /\ task'[t].row = task[t].row
           /\ task'[t].expired
  <1>0. task[t] \in Jobs
    BY DEF TaskType
  <1>1. PICK j : j = [task[t] EXCEPT !.expired = TRUE]
    OBVIOUS
  <1>2. /\ j \in Jobs /\ j.pc = task[t].pc /\ j.answer = task[t].answer /\ j.row = task[t].row
        /\ j.kind = task[t].kind /\ j.todo = task[t].todo /\ j.event = task[t].event
        /\ j.ep = task[t].ep /\ j.old = task[t].old
        /\ j.attempt = task[t].attempt /\ j.copy = task[t].copy /\ j.expired
    BY <1>0, <1>1 DEF Jobs
  <1>3. TaskType' /\ Others(t) /\ task'[t] = j
    BY <1>1, <1>2, SetJob DEF Expire, TaskType
  <1> QED
    BY <1>2, <1>3 DEF Stays, SameDelivery

\* The step of deliverSync from one write to the next.
LEMMA ToEffect ==
    ASSUME TaskType, NEW t \in Tasks, NEW pc \in Pcs, NEW row \in Nat,
           task' = [task EXCEPT ![t] = [To(t, pc) EXCEPT !.row = row]]
    PROVE  /\ TaskType' /\ Stays(t, pc)
           /\ task'[t].answer = task[t].answer /\ task'[t].row = row
           /\ task'[t].expired = task[t].expired
  <1>0. task[t] \in Jobs
    BY DEF TaskType
  <1>1. PICK j : j = [To(t, pc) EXCEPT !.row = row]
    OBVIOUS
  <1>2. /\ j \in Jobs /\ j.pc = pc /\ j.answer = task[t].answer /\ j.row = row
        /\ j.kind = task[t].kind /\ j.todo = task[t].todo /\ j.event = task[t].event
        /\ j.ep = task[t].ep /\ j.old = task[t].old /\ j.expired = task[t].expired
        /\ j.attempt = task[t].attempt /\ j.copy = task[t].copy
    BY <1>0, <1>1 DEF Jobs, To
  <1>3. TaskType' /\ Others(t) /\ task'[t] = j
    BY <1>1, <1>2, SetJob
  <1> QED
    BY <1>2, <1>3 DEF Stays, SameDelivery

\* CreateDelivery: the row is made, or deliverSync returns.
LEMMA RecordEffect ==
    ASSUME TypeOK, TaskType, NEW t \in Tasks, NEW ok \in BOOLEAN, Record(t, ok)
    PROVE  /\ TaskType'
           /\ \/ /\ ok /\ Live(task[t].ep)
                 /\ Stays(t, IF task[t].answer = "none" THEN "arm" ELSE "snapshot")
                 /\ task'[t].answer = task[t].answer /\ task'[t].row = Len(rows) + 1
                 /\ rows' = Append(rows, DeliveryOf(task[t])) /\ missed' = missed
              \/ ~(ok /\ Live(task[t].ep)) /\ Leaves(t) /\ rows' = rows /\ missed' = Lose(t)
  <1>1. CASE ok /\ Live(task[t].ep)
    <2>1. PICK pc \in Pcs : pc = IF task[t].answer = "none" THEN "arm" ELSE "snapshot"
      BY DEF Pcs, Delivering
    <2>2. Len(rows) + 1 \in Nat
      BY DEF TypeOK
    <2>3. task' = [task EXCEPT ![t] = [To(t, pc) EXCEPT !.row = Len(rows) + 1]]
      BY <1>1, <2>1 DEF Record
    <2>4. /\ TaskType' /\ Stays(t, pc)
          /\ task'[t].answer = task[t].answer /\ task'[t].row = Len(rows) + 1
      BY <2>2, <2>3, ToEffect
    <2>5. rows' = Append(rows, DeliveryOf(task[t])) /\ missed' = missed
      BY <1>1 DEF Record
    <2> QED
      BY <1>1, <2>1, <2>4, <2>5
  <1>2. CASE ~(ok /\ Live(task[t].ep))
    <2>1. task' = [task EXCEPT ![t] = Delivered(t)] /\ rows' = rows /\ missed' = Lose(t)
      BY <1>2 DEF Record
    <2> QED
      BY <1>2, <2>1, DeliveredLeaves
  <1> QED
    BY <1>1, <1>2

\* UpdateEndpoint with the status.
LEMMA SnapshotEffect ==
    ASSUME TaskType, NEW t \in Tasks, NEW ok \in BOOLEAN, Snapshot(t, ok)
    PROVE  /\ TaskType'
           /\ \/ /\ task[t].answer # "2xx" /\ Stays(t, "arm")
                 /\ task'[t].answer = task[t].answer /\ task'[t].row = task[t].row
              \/ task[t].answer = "2xx" /\ Leaves(t)
  <1>1. CASE task[t].answer = "2xx"
    <2>1. task' = [task EXCEPT ![t] = Delivered(t)]
      BY <1>1 DEF Snapshot
    <2> QED
      BY <1>1, <2>1, DeliveredLeaves
  <1>2. CASE task[t].answer # "2xx"
    <2>0. task[t] \in Jobs
      BY DEF TaskType
    <2>1. To(t, "arm") = [To(t, "arm") EXCEPT !.row = task[t].row]
      BY <2>0 DEF To, Jobs
    <2>2. task' = [task EXCEPT ![t] = [To(t, "arm") EXCEPT !.row = task[t].row]]
      BY <1>2, <2>1 DEF Snapshot
    <2>3. task[t].row \in Nat /\ "arm" \in Pcs
      BY <2>0, Members DEF Jobs
    <2> QED
      BY <1>2, <2>2, <2>3, ToEffect
  <1> QED
    BY <1>1, <1>2

\* EnqueueRetry and moveToDLQ.
LEMMA ArmEffect ==
    ASSUME TaskType, NEW t \in Tasks, NEW ok \in BOOLEAN, Arm(t, ok)
    PROVE  TaskType' /\ Leaves(t)
  BY DeliveredLeaves DEF Arm

\* The next endpoint of a Dispatch.
LEMMA NextTargetEffect ==
    ASSUME TaskType, NEW r \in Requests, RequestOk(r), NextTarget(r)
    PROVE  /\ TaskType' /\ Others(r)
           /\ task[r].todo # <<>>
           /\ task'[r].kind = "dispatch" /\ task'[r].pc = "post"
           /\ task'[r].event = task[r].event /\ task'[r].ep = Head(task[r].todo)
           /\ task'[r].todo = Tail(task[r].todo)
           /\ task'[r].attempt = 1 /\ task'[r].copy = TRUE
  <1>0. r \in Tasks /\ task[r] \in Jobs
    BY Limits DEF TaskType
  <1>1. task[r].kind = "dispatch" /\ task[r].todo \in Seq(Endpoints) /\ task[r].todo # <<>>
    BY DEF NextTarget, At, RequestOk
  <1>2. PICK rest : rest = Tail(task[r].todo)
    OBVIOUS
  <1>2a. PICK e : e = Head(task[r].todo)
    OBVIOUS
  <1>3. rest \in Seq(Endpoints \cup Nat) /\ e \in Endpoints
    <2>1. rest \in Seq(Endpoints) /\ e \in Endpoints
      BY <1>1, <1>2, <1>2a
    <2> QED
      BY <2>1
  <1>4. PICK j : j = [task[r] EXCEPT !.pc = "post", !.todo = rest, !.ep = e,
                         !.attempt = 1, !.copy = TRUE]
    OBVIOUS
  <1>5. /\ j \in Jobs /\ j.kind = task[r].kind /\ j.pc = "post" /\ j.event = task[r].event
        /\ j.ep = e /\ j.todo = rest /\ j.attempt = 1 /\ j.copy = TRUE
    BY <1>0, <1>3, <1>4, Limits, Members DEF Jobs
  <1>6. task' = [task EXCEPT ![r] = j]
    BY <1>2, <1>2a, <1>4 DEF NextTarget
  <1>7. TaskType' /\ Others(r) /\ task'[r] = j
    BY <1>0, <1>5, <1>6, SetJob
  <1> QED
    BY <1>1, <1>2, <1>2a, <1>5, <1>7

\* The end of a Dispatch, or of a tick.
LEMMA FinishEffect ==
    ASSUME TaskType, NEW t \in Tasks, Finish(t)
    PROVE  TaskType' /\ Others(t) /\ task'[t] = Idle
  BY IdleIsJob, SetJob DEF Finish

\* A tick begins.
LEMMA TickEffect ==
    ASSUME TypeOK, TaskType, Tick
    PROVE  /\ TaskType' /\ Others(Worker)
           /\ task'[Worker].kind = "retry" /\ task'[Worker].pc = "next"
           /\ task'[Worker].todo = DueRetries(Batch)
  <1>1. PICK todo : todo = DueRetries(Batch)
    OBVIOUS
  <1>2. todo \in Seq(Endpoints \cup Nat)
    <2>1. due \in Seq(Nat)
      BY DEF TypeOK
    <2> QED
      BY <2>1, <1>1, Limits DEF DueRetries
  <1>3. PICK j : j = [Idle EXCEPT !.pc = "next", !.kind = "retry", !.todo = todo]
    OBVIOUS
  <1>4. j \in Jobs /\ j.kind = "retry" /\ j.pc = "next" /\ j.todo = todo
    BY <1>2, <1>3, IdleIsJob, Members DEF Jobs
  <1>5. task' = [task EXCEPT ![Worker] = j]
    BY <1>1, <1>3 DEF Tick
  <1> QED
    BY <1>1, <1>4, <1>5, Limits, SetJob

\* RetryDelivery up to its POST: the row is skipped, or the attempt begins.
LEMMA FetchEffect ==
    ASSUME TypeOK, TaskType, WorkerOk, NEW ok \in BOOLEAN, Fetch(ok)
    PROVE  LET d == Head(task[Worker].todo) IN
           /\ TaskType' /\ Others(Worker)
           /\ task[Worker].todo # <<>>
           /\ task'[Worker].kind = "retry" /\ task'[Worker].todo = Tail(task[Worker].todo)
           /\ \/ task'[Worker].pc = "next"
              \/ /\ Exists(d)
                 /\ task'[Worker].pc = "post" /\ task'[Worker].event = rows[d].event
                 /\ task'[Worker].ep = rows[d].ep /\ task'[Worker].old = d
                 /\ task'[Worker].attempt = rows[d].attempt + 1
                 /\ task'[Worker].copy = CopyOf(rows[d].ep)
  <1>0. Worker \in Tasks /\ task[Worker] \in Jobs
    BY Limits DEF TaskType
  <1>1. task[Worker].kind = "retry" /\ task[Worker].todo # <<>>
    BY DEF Fetch, At, WorkerOk
  <1>2. PICK d : d = Head(task[Worker].todo)
    OBVIOUS
  <1>3. PICK rest : rest = Tail(task[Worker].todo)
    OBVIOUS
  <1>4. rest \in Seq(Endpoints \cup Nat) /\ d \in Range(task[Worker].todo)
    BY <1>0, <1>1, <1>2, <1>3 DEF Jobs, Range
  <1>5. d \in DOMAIN rows /\ d \in Nat /\ rows[d].attempt < MaxAttempts
    BY <1>4 DEF WorkerOk, TypeOK
  <1>6. PICK found \in BOOLEAN : found = (ok /\ Exists(d) /\ ~Buried(d))
    OBVIOUS
  <1>7. CASE ~found
    <2>1. PICK j : j = [task[Worker] EXCEPT !.todo = rest]
      OBVIOUS
    <2>2. j \in Jobs /\ j.kind = task[Worker].kind /\ j.pc = task[Worker].pc /\ j.todo = rest
      BY <1>0, <1>4, <2>1 DEF Jobs
    <2>3. task' = [task EXCEPT ![Worker] = j]
      BY <1>2, <1>3, <1>6, <1>7, <2>1 DEF Fetch
    <2>4. task[Worker].pc = "next"
      BY DEF Fetch, At
    <2> QED
      BY <1>0, <1>1, <1>2, <1>3, <2>2, <2>3, <2>4, SetJob
  <1>8. CASE found
    <2>1. PICK n : n = rows[d]
      OBVIOUS
    <2>2. /\ n.event \in Events /\ n.ep \in Endpoints /\ n.attempt + 1 \in Attempts
          /\ CopyOf(n.ep) \in BOOLEAN
      <3>1. n \in [event : 1..MaxOps, ep : Endpoints, attempt : 1..MaxAttempts]
        BY <1>5, <2>1, RowType
      <3>2. n.event \in Events /\ n.attempt + 1 \in Attempts
        <4>1. n.event \in 1..MaxOps /\ n.attempt \in 1..MaxAttempts
          BY <3>1
        <4>2. n.attempt < MaxAttempts
          BY <1>5, <2>1
        <4> QED
          BY <4>1, <4>2, Limits DEF Events, Attempts
      <3>3. CopyOf(n.ep) \in BOOLEAN
        BY <3>1 DEF CopyOf, TypeOK
      <3> QED
        BY <3>1, <3>2, <3>3
    <2>2a. PICK a : a = n.attempt + 1
      OBVIOUS
    <2>3. PICK j : j = [task[Worker] EXCEPT !.pc = "post", !.todo = rest, !.event = n.event,
                           !.ep = n.ep, !.attempt = a, !.old = d, !.copy = CopyOf(n.ep)]
      OBVIOUS
    <2>4. /\ j \in Jobs /\ j.kind = task[Worker].kind /\ j.pc = "post" /\ j.todo = rest
          /\ j.event = n.event /\ j.ep = n.ep /\ j.attempt = a /\ j.old = d
          /\ j.copy = CopyOf(n.ep)
      BY <1>0, <1>4, <1>5, <2>2, <2>2a, <2>3, Members DEF Jobs
    <2>5. task' = [task EXCEPT ![Worker] = j]
      <3>1. j = NextAttempt(d)
        BY <1>3, <2>1, <2>2a, <2>3 DEF NextAttempt
      <3> QED
        BY <1>2, <1>6, <1>8, <3>1 DEF Fetch
    <2> QED
      BY <1>0, <1>1, <1>2, <1>3, <1>6, <1>8, <2>1, <2>2a, <2>4, <2>5, SetJob
  <1> QED
    BY <1>7, <1>8

\* DequeueRetry.
LEMMA DequeueEffect ==
    ASSUME TaskType, WorkerOk, NEW ok \in BOOLEAN, Dequeue(ok)
    PROVE  /\ TaskType' /\ Others(Worker)
           /\ task'[Worker].pc = "next" /\ task'[Worker].kind = "retry"
           /\ task'[Worker].todo = task[Worker].todo
  <1>0. Worker \in Tasks /\ task[Worker] \in Jobs
    BY Limits DEF TaskType
  <1>1. PICK j : j = Onward(Worker)
    OBVIOUS
  <1>2. j \in Jobs /\ j.pc = "next" /\ j.kind = task[Worker].kind /\ j.todo = task[Worker].todo
    BY <1>0, <1>1, IdleIsJob, Members DEF Onward, Idle, Jobs
  <1>3. task' = [task EXCEPT ![Worker] = j]
    BY <1>1 DEF Dequeue
  <1>4. task[Worker].kind = "retry"
    BY DEF Dequeue, At, WorkerOk
  <1> QED
    BY <1>0, <1>2, <1>3, <1>4, SetJob

\* The write of an Update.
LEMMA SaveEffect ==
    ASSUME TaskType, NEW r \in Requests, NEW ok \in BOOLEAN, SaveEndpoint(r, ok)
    PROVE  TaskType' /\ Others(r) /\ task'[r] = Idle
  BY Limits, IdleIsJob, SetJob DEF SaveEndpoint

\* A request begins.
LEMMA BeginEffect ==
    ASSUME TaskType, NEW r \in Requests, NEW j \in Jobs, Begin(r, j)
    PROVE  TaskType' /\ Others(r) /\ task'[r] = j
  BY Limits, SetJob DEF Begin

\* A Dispatch begins.
LEMMA BeginDispatchEffect ==
    ASSUME TypeOK, TaskType, NEW r \in Requests, BeginDispatch(r)
    PROVE  /\ TaskType' /\ Others(r)
           /\ task'[r].kind = "dispatch" /\ task'[r].pc = "next" /\ task'[r].event = ops + 1
           /\ task'[r].todo \in Seq(Endpoints) /\ IsInjective(task'[r].todo)
           /\ Range(task'[r].todo) = {e \in Endpoints : Live(e) /\ endpoint[e].enabled}
           /\ ops' = ops + 1 /\ ops + 1 \in 1..MaxOps
  <1>1. PICK targets : targets = {e \in Endpoints : Live(e) /\ endpoint[e].enabled}
    OBVIOUS
  <1>2. PICK order \in SetToSeqs(targets) :
           Begin(r, [Idle EXCEPT !.pc = "next", !.kind = "dispatch", !.todo = order,
                                 !.event = ops + 1])
    BY <1>1 DEF BeginDispatch, Targets
  <1>3. IsFiniteSet(targets)
    BY <1>1, Limits, FS_Subset
  <1>4. order \in Seq(targets) /\ IsInjective(order) /\ Range(order) = targets
    BY <1>3, OrderOfAll
  <1>5. order \in Seq(Endpoints) /\ order \in Seq(Endpoints \cup Nat)
    BY <1>1, <1>4
  <1>6. ops' = ops + 1 /\ ops + 1 \in 1..MaxOps
    BY <1>2, Limits DEF Begin, TypeOK
  <1>7. PICK n : n = ops + 1
    OBVIOUS
  <1>6a. n \in Events
    BY <1>6, <1>7, Limits DEF Events
  <1>8. PICK j : j = [Idle EXCEPT !.pc = "next", !.kind = "dispatch", !.todo = order, !.event = n]
    OBVIOUS
  <1>9. j \in Jobs /\ j.pc = "next" /\ j.kind = "dispatch" /\ j.todo = order /\ j.event = n
    BY <1>5, <1>6a, <1>8, IdleIsJob, Members DEF Jobs
  <1>10. Begin(r, j)
    BY <1>2, <1>7, <1>8
  <1>11. TaskType' /\ Others(r) /\ task'[r] = j
    BY <1>9, <1>10, BeginEffect
  <1> QED
    BY <1>1, <1>4, <1>5, <1>6, <1>7, <1>9, <1>11

\* A test delivery or a replay begins.
LEMMA BeginPostEffect ==
    ASSUME TypeOK, TaskType, NEW r \in Requests, NEW e \in Endpoints, NEW event \in Events,
           NEW kind \in {"test", "replay"},
           Begin(r, [Idle EXCEPT !.pc = "post", !.kind = kind, !.event = event, !.ep = e,
                        !.attempt = 1, !.copy = CopyOf(e)])
    PROVE  /\ TaskType' /\ Others(r)
           /\ task'[r].kind = kind /\ task'[r].pc = "post" /\ task'[r].event = event
           /\ task'[r].ep = e /\ task'[r].attempt = 1 /\ task'[r].copy = endpoint[e].enabled
  <1>1. PICK copy : copy = CopyOf(e)
    OBVIOUS
  <1>2. copy \in BOOLEAN /\ copy = endpoint[e].enabled
    BY <1>1 DEF CopyOf, TypeOK
  <1>3. PICK j : j = [Idle EXCEPT !.pc = "post", !.kind = kind, !.event = event, !.ep = e,
                         !.attempt = 1, !.copy = copy]
    OBVIOUS
  <1>4. /\ j \in Jobs /\ j.pc = "post" /\ j.kind = kind /\ j.event = event /\ j.ep = e
        /\ j.attempt = 1 /\ j.copy = copy
    BY <1>2, <1>3, IdleIsJob, Limits, Members DEF Jobs
  <1>5. TaskType' /\ Others(r) /\ task'[r] = j
    BY <1>1, <1>3, <1>4, BeginEffect
  <1> QED
    BY <1>2, <1>4, <1>5

\* An Update begins.
LEMMA BeginUpdateEffect ==
    ASSUME TypeOK, TaskType, NEW r \in Requests, NEW e \in Endpoints, NEW patch \in Patches,
           BeginUpdate(r, e, patch)
    PROVE  /\ TaskType' /\ Others(r)
           /\ task'[r].kind = "update" /\ task'[r].pc = "save" /\ task'[r].ep = e
  <1>1. PICK copy : copy = IF patch = "keep" THEN CopyOf(e) ELSE patch = "on"
    OBVIOUS
  <1>2. copy \in BOOLEAN
    <2>1. endpoint[e].enabled \in BOOLEAN
      BY DEF TypeOK
    <2>2. CASE patch = "keep"
      BY <1>1, <2>1, <2>2 DEF CopyOf
    <2>3. CASE patch # "keep"
      BY <1>1, <2>3
    <2> QED
      BY <2>2, <2>3
  <1>3. PICK j : j = [Idle EXCEPT !.pc = "save", !.kind = "update", !.ep = e, !.copy = copy]
    OBVIOUS
  <1>4. j \in Jobs /\ j.pc = "save" /\ j.kind = "update" /\ j.ep = e
    BY <1>2, <1>3, IdleIsJob, Members DEF Jobs
  <1>5. Begin(r, j)
    BY <1>1, <1>3 DEF BeginUpdate
  <1> QED
    BY <1>4, <1>5, BeginEffect

\* The panel dies.
LEMMA CrashEffect ==
    ASSUME TaskType, Crash
    PROVE  TaskType' /\ \A t \in Tasks : task'[t] = Idle
  BY IdleIsJob DEF Crash, TaskType

-----------------------------------------------------------------------------
(* The jobs: what each task that goes on, leaves or is left alone is at.    *)

StoreType ==
  /\ endpoint \in [Endpoints -> [row : {"none", "live", "deleted"}, enabled : BOOLEAN]]
  /\ rows \in Seq([event : 1..MaxOps, ep : Endpoints, attempt : 1..MaxAttempts])
  /\ pending \subseteq DOMAIN rows /\ due \in Seq(DOMAIN rows)
  /\ dlq \subseteq owed /\ accepted \subseteq owed
  /\ missed \subseteq owed /\ doubled \subseteq owed
  /\ owed \subseteq [event : 1..MaxOps, ep : Endpoints]
  /\ intent \in [Endpoints -> BOOLEAN] /\ overlapped \subseteq Endpoints
  /\ ops \in 0..MaxOps /\ faults \in 0..MaxFaults

\* The types of the jobs and of all the rest.
LEMMA TypeSplit == TypeOK <=> TaskType /\ StoreType
  BY TaskIsJob DEF TypeOK, TaskType, StoreType

\* ... and the same of the next state.
LEMMA TypeSplitNext == TypeOK' <=> TaskType' /\ StoreType'
  BY TaskIsJob DEF TypeOK, TaskType, StoreType

\* Rows stay and what is owed stays owed.
RowsGrow ==
  /\ owed \subseteq owed' /\ accepted \subseteq accepted'
  /\ \A d \in DOMAIN rows : d \in DOMAIN rows' /\ rows'[d] = rows[d]

\* ... and no row comes back or stops waiting while its endpoint is there.
Grows ==
  /\ RowsGrow
  /\ \A d \in DOMAIN rows : Exists(d)' => Exists(d) /\ (d \in Waiting => d \in Waiting')

\* A request that takes up a job, and does not fail to list the endpoints.
Begins(r) ==
  \/ BeginDispatch(r)
  \/ \E e \in Endpoints : BeginTest(r, e)
  \/ \E n \in dlq : BeginReplay(r, n)
  \/ \E e \in Endpoints, patch \in Patches : BeginUpdate(r, e, patch)

\* What a request is at depends on its job alone.
LEMMA RequestFrame ==
    ASSUME NEW r \in Requests, RequestOk(r), task'[r] = task[r]
    PROVE  RequestOk(r)'
  BY DEF RequestOk

\* So does what it has still to deliver.
LEMMA UndoneFrame ==
    ASSUME NEW t \in Tasks, task'[t] = task[t]
    PROVE  Undone(t)' = Undone(t) /\ Notice(t)' = Notice(t)
  BY DEF Undone, Notice

\* A delivery is not disturbed by another that has a row of its own.
LEMMA DeliveryFrame ==
    ASSUME NEW t \in Tasks, DeliveryOk(t), RowsGrow, task'[t] = task[t],
           task[t].pc \in Written => task[t].row \notin Waiting'
    PROVE  DeliveryOk(t)'
  <1>1. Undone(t)' = Undone(t) /\ Notice(t)' = Notice(t)
    BY UndoneFrame
  <1> QED
    BY <1>1 DEF DeliveryOk, RowsGrow, NoticeOf

\* The worker is not disturbed by others.
LEMMA WorkerFrame ==
    ASSUME WorkerOk, Grows, task'[Worker] = task[Worker]
    PROVE  WorkerOk'
  BY DEF WorkerOk, Grows, RowsGrow, NoticeOf, Notice

\* All the tasks but t.
LEMMA OthersOk ==
    ASSUME Work, RowsGrow, NEW t \in Tasks, t # Worker => Grows, Others(t),
           \A u \in Tasks \ {t} : task[u].pc \in Written => task[u].row \notin Waiting'
    PROVE  /\ \A r \in Requests \ {t} : RequestOk(r)'
           /\ t # Worker => WorkerOk'
           /\ \A u \in Tasks \ {t} : DeliveryOk(u)'
  <1>1. ASSUME NEW r \in Requests \ {t}
        PROVE  RequestOk(r)'
    BY RequestFrame, Limits DEF Work, Others
  <1>2. t # Worker => WorkerOk'
    BY WorkerFrame, Limits DEF Work, Others
  <1>3. ASSUME NEW u \in Tasks \ {t}
        PROVE  DeliveryOk(u)'
    BY DeliveryFrame DEF Work, Others
  <1> QED
    BY <1>1, <1>2, <1>3

\* A task that goes on with its delivery.
LEMMA StaysOk ==
    ASSUME Work, Grows, NEW t \in Tasks, NEW pc \in Delivering, task[t].pc \in Delivering,
           Stays(t, pc)
    PROVE  /\ t = Worker => WorkerOk'
           /\ t # Worker => RequestOk(t)'
           /\ Undone(t)' = Undone(t) /\ Notice(t)' = Notice(t)
  <1>1. Undone(t)' = Undone(t) /\ Notice(t)' = Notice(t)
    BY DEF Undone, Notice, Stays, SameDelivery, Delivering
  <1>2. ASSUME t = Worker
        PROVE  WorkerOk'
    <2>1. WorkerOk
      BY DEF Work
    <2>2. pc # "save" /\ pc # "idle" /\ task[t].pc # "idle"
      BY DEF Delivering
    <2> QED
      BY <1>1, <1>2, <2>1, <2>2 DEF WorkerOk, Grows, RowsGrow, NoticeOf, Stays, SameDelivery
  <1>3. ASSUME t # Worker
        PROVE  RequestOk(t)'
    <2>1. RequestOk(t)
      BY <1>3, Limits DEF Work
    <2> QED
      BY <2>1 DEF RequestOk, Stays, SameDelivery, Delivering
  <1> QED
    BY <1>1, <1>2, <1>3

\* A task that is done with its delivery.
LEMMA LeavesOk ==
    ASSUME Work, Grows, NEW t \in Tasks, task[t].pc \in Delivering, Leaves(t)
    PROVE  /\ t = Worker => WorkerOk'
           /\ t # Worker => RequestOk(t)'
           /\ DeliveryOk(t)'
           /\ Undone(t)' = Undone(t) \ {Notice(t)}
           /\ t = Worker => Notice(t)' = Notice(t)
           /\ task'[t].pc \in {"idle", "next", "dequeue"}
  <1>1. CASE t = Worker
    <2>1. WorkerOk
      BY DEF Work
    <2>2. /\ SameDelivery(t) /\ task'[t].pc = "dequeue" /\ task[t].pc # "idle"
          /\ Notice(t)' = Notice(t)
      BY <1>1 DEF Leaves, SameDelivery, Delivering, Notice
    <2>3. WorkerOk'
      BY <1>1, <2>1, <2>2 DEF WorkerOk, Grows, RowsGrow, NoticeOf, SameDelivery
    <2>4. Undone(t) = {Notice(t)} /\ Undone(t)' = {}
      <3>1. task[t].kind = "retry" /\ task'[t].kind = "retry"
        BY <1>1, <2>1, <2>2 DEF WorkerOk, SameDelivery
      <3> QED
        BY <2>2, <3>1 DEF Undone, Delivering
    <2> QED
      BY <1>1, <2>2, <2>3, <2>4 DEF DeliveryOk, Delivering, Written
  <1>2. CASE t # Worker /\ task[t].kind = "dispatch"
    <2>1. RequestOk(t)
      BY <1>2, Limits DEF Work
    <2>2. /\ task'[t].pc = "next" /\ task'[t].kind = "dispatch"
          /\ task'[t].todo = task[t].todo /\ task'[t].event = task[t].event
      BY <1>2 DEF Leaves
    <2>3. RequestOk(t)'
      BY <1>2, <2>1, <2>2 DEF RequestOk, Delivering
    <2>4. task[t].ep \notin Range(task[t].todo)
      BY <1>2, <2>1 DEF RequestOk
    <2>5. Undone(t)' = {[event |-> task[t].event, ep |-> e] : e \in Range(task[t].todo)}
      BY <2>2 DEF Undone
    <2>6. Undone(t) = {[event |-> task[t].event, ep |-> e] : e \in Range(task[t].todo)}
                        \cup {Notice(t)}
      BY <1>2 DEF Undone, Delivering
    <2>7. Notice(t) \notin {[event |-> task[t].event, ep |-> e] : e \in Range(task[t].todo)}
      BY <2>4 DEF Notice
    <2>8. Undone(t)' = Undone(t) \ {Notice(t)}
      BY <2>5, <2>6, <2>7
    <2>9. Undone(t)' \subseteq owed'
      BY <2>8 DEF Work, DeliveryOk, Grows, RowsGrow
    <2> QED
      BY <1>2, <2>2, <2>3, <2>8, <2>9 DEF DeliveryOk, Delivering, Written
  <1>3. CASE t # Worker /\ task[t].kind # "dispatch"
    <2>1. task'[t] = Idle
      BY <1>3 DEF Leaves
    <2>2. Undone(t) = {Notice(t)} /\ Undone(t)' = {}
      BY <1>3, <2>1 DEF Undone, Idle, Delivering
    <2> QED
      BY <1>3, <2>1, <2>2 DEF RequestOk, DeliveryOk, Idle, Delivering, Written
  <1> QED
    BY <1>1, <1>2, <1>3

\* A request that is at rest.
LEMMA IdleOk ==
    ASSUME NEW r \in Requests, task'[r] = Idle
    PROVE  RequestOk(r)' /\ DeliveryOk(r)' /\ Undone(r)' = {}
  BY DEF RequestOk, DeliveryOk, Undone, Idle, Delivering, Written

\* The worker at rest.
LEMMA WorkerIdleOk ==
    ASSUME task'[Worker] = Idle
    PROVE  WorkerOk' /\ DeliveryOk(Worker)' /\ Undone(Worker)' = {}
  BY DEF WorkerOk, DeliveryOk, Undone, Idle, Delivering, Written, IsInjective, Range

-----------------------------------------------------------------------------
(* The jobs fit the rows and the retries: every step keeps it.              *)

EndpointType == endpoint \in [Endpoints -> [row : {"none", "live", "deleted"}, enabled : BOOLEAN]]
FaultType == faults \in 0..MaxFaults

\* A failing call is counted, up to the bound.
LEMMA FaultCounted ==
    ASSUME FaultType
    PROVE  /\ Fault => FaultType'
           /\ \A t \in Tasks, ok \in BOOLEAN : StoreCall(t, ok) => FaultType'
           /\ UNCHANGED faults => FaultType'
  BY LimitsAssumption DEF FaultType, Fault, StoreCall

\* UpdateEndpoint changes the flag of one endpoint at most, and no row goes or
\* comes back with it.
LEMMA ReplaceEffect ==
    ASSUME EndpointType, NEW e \in Endpoints, NEW copy \in BOOLEAN,
           ReplaceEndpoint(e, copy) \/ UNCHANGED endpoint
    PROVE  /\ EndpointType'
           /\ \A x \in Endpoints : endpoint'[x].row = endpoint[x].row
           /\ \A x \in Endpoints \ {e} : endpoint'[x] = endpoint[x]
           /\ endpoint'[e].enabled \in {endpoint[e].enabled, copy}
           /\ ReplaceEndpoint(e, copy) /\ Live(e) => endpoint'[e].enabled = copy
  <1>1. CASE UNCHANGED endpoint /\ ~(ReplaceEndpoint(e, copy) /\ Live(e))
    BY <1>1 DEF EndpointType
  <1>2. CASE ReplaceEndpoint(e, copy) /\ ~Live(e)
    BY <1>2 DEF ReplaceEndpoint, EndpointType
  <1>3. CASE ReplaceEndpoint(e, copy) /\ Live(e)
    <2>1. PICK x : x = [endpoint[e] EXCEPT !.enabled = copy]
      OBVIOUS
    <2>2. x \in [row : {"none", "live", "deleted"}, enabled : BOOLEAN]
          /\ x.row = endpoint[e].row /\ x.enabled = copy
      BY <2>1 DEF EndpointType
    <2>3. endpoint' = [endpoint EXCEPT ![e] = x]
      BY <1>3, <2>1 DEF ReplaceEndpoint, EndpointType
    <2> QED
      BY <2>2, <2>3 DEF EndpointType
  <1> QED
    BY <1>1, <1>2, <1>3

\* Steps that leave rows and retries alone.
LEMMA StillOk ==
    ASSUME WorkInv, UNCHANGED <<rows, pending, due, owed>>,
           \A x \in Endpoints : endpoint'[x].row = endpoint[x].row,
           accepted \subseteq accepted', missed \subseteq missed',
           ops' \in Nat, ops <= ops'
    PROVE  Waiting' = Waiting /\ RowsGrow /\ Grows /\ QueueOk' /\ OwedOk'
  <1>1. Waiting' = Waiting
    BY DEF Waiting
  <1>2. \A d \in DOMAIN rows : rows[d].ep \in Endpoints
    BY RowType DEF WorkInv
  <1>3. \A d \in DOMAIN rows : Exists(d)' <=> Exists(d)
    BY <1>2 DEF Exists, Live
  <1>4. Grows
    BY <1>1, <1>3 DEF Grows, RowsGrow
  <1>5. Waiting \subseteq DOMAIN rows
    BY DEF WorkInv, TypeOK, Waiting, Range
  <1>6. QueueOk'
    BY <1>1, <1>3, <1>5 DEF WorkInv, Work, QueueOk
  <1>7. \A n \in owed : n.ep \in Endpoints /\ n.event \in Nat
    BY Limits DEF WorkInv, TypeOK
  <1>8. OwedOk'
    <2>1. OwedOk /\ ops \in Nat
      BY Limits DEF WorkInv, Work, TypeOK
    <2> QED
      BY <1>7, <2>1 DEF OwedOk, NoticeOf
  <1> QED
    BY <1>1, <1>4, <1>6, <1>8 DEF Grows

\* The rows that are still to be armed are of different tasks.
LEMMA OwnRowsFrame ==
    ASSUME OwnRows, NEW t \in Tasks, Others(t),
           task'[t].pc \in Written =>
             \A u \in Tasks \ {t} : task[u].pc \in Written => task[u].row # task'[t].row
    PROVE  OwnRows'
  <1> SUFFICES ASSUME NEW u \in Tasks, NEW v \in Tasks,
                      task'[u].pc \in Written, task'[v].pc \in Written,
                      task'[u].row = task'[v].row, u # v
               PROVE  FALSE
    BY DEF OwnRows
  <1> QED
    BY DEF OwnRows, Others

\* All conjuncts together, after a step of t.
LEMMA StepOk ==
    ASSUME Work, RowsGrow, NEW t \in Tasks, t # Worker => Grows, Others(t),
           \A u \in Tasks \ {t} : task[u].pc \in Written => task[u].row \notin Waiting',
           t = Worker => WorkerOk', t # Worker => RequestOk(t)', DeliveryOk(t)',
           task'[t].pc \in Written =>
             \A u \in Tasks \ {t} : task[u].pc \in Written => task[u].row # task'[t].row,
           QueueOk', OwedOk'
    PROVE  Work'
  <1>1. /\ \A r \in Requests \ {t} : RequestOk(r)'
        /\ t # Worker => WorkerOk'
        /\ \A u \in Tasks \ {t} : DeliveryOk(u)'
    BY OthersOk
  <1>2. OwnRows'
    BY OwnRowsFrame DEF Work
  <1>3. \A r \in Requests : RequestOk(r)'
    BY <1>1, Limits
  <1>4. \A u \in Tasks : DeliveryOk(u)'
    BY <1>1
  <1>5. WorkerOk'
    BY <1>1
  <1> QED
    BY <1>2, <1>3, <1>4, <1>5 DEF Work

\* The POST keeps the delivery at the same event, with its answer.
LEMMA PostWork ==
    ASSUME WorkInv, NEW t \in Tasks, NEW answer \in Answers, Post(t, answer)
    PROVE  WorkInv'
  <1>0. TypeOK /\ Work /\ TaskType /\ StoreType
    BY TypeSplit DEF WorkInv
  <1>1. TaskType' /\ Stays(t, "record") /\ task'[t].answer = answer
    BY <1>0, PostEffect
  <1>2. task[t].pc \in Delivering /\ DeliveryOk(t)
    BY <1>0 DEF Post, At, Delivering, Work
  <1>3. Notice(t) \in owed
    BY <1>2 DEF DeliveryOk, Undone, Delivering
  <1>4. StoreType'
    BY <1>0, <1>3 DEF Post, StoreType, store
  <1>5. ops' = ops /\ ops \in Nat
    BY <1>0, Limits DEF Post, StoreType
  <1>6. Waiting' = Waiting /\ RowsGrow /\ Grows /\ QueueOk' /\ OwedOk'
    BY <1>5, StillOk DEF Post, store
  <1>7. /\ t = Worker => WorkerOk'
        /\ t # Worker => RequestOk(t)'
        /\ Undone(t)' = Undone(t) /\ Notice(t)' = Notice(t)
    BY <1>0, <1>1, <1>2, <1>6, StaysOk DEF Delivering
  <1>8. DeliveryOk(t)'
    BY <1>1, <1>2, <1>6, <1>7 DEF DeliveryOk, Stays, SameDelivery, RowsGrow, Delivering, Written, Post
  <1>9. \A u \in Tasks \ {t} : task[u].pc \in Written => task[u].row \notin Waiting'
    BY <1>0, <1>6 DEF Work, DeliveryOk
  <1>10. task'[t].pc \notin Written /\ Others(t)
    BY <1>1 DEF Stays, Written
  <1>11. Work'
    BY <1>0, <1>6, <1>7, <1>8, <1>9, <1>10, StepOk
  <1> QED
    BY <1>1, <1>4, <1>11, TypeSplitNext DEF WorkInv

\* A context that ends changes nothing of the job but that its calls fail.
LEMMA ExpireWork ==
    ASSUME WorkInv, NEW t \in Tasks, Expire(t)
    PROVE  WorkInv'
  <1>0. TypeOK /\ Work /\ TaskType /\ StoreType
    BY TypeSplit DEF WorkInv
  <1>1. /\ TaskType' /\ Stays(t, task[t].pc)
        /\ task'[t].answer = task[t].answer /\ task'[t].row = task[t].row
    BY <1>0, ExpireEffect
  <1>2. StoreType'
    <2>1. FaultType'
      BY <1>0, FaultCounted DEF Expire, StoreType, FaultType
    <2> QED
      BY <1>0, <2>1 DEF Expire, StoreType, FaultType, store, history
  <1>3. ops' = ops /\ ops \in Nat
    BY <1>0, Limits DEF Expire, StoreType
  <1>4. Waiting' = Waiting /\ RowsGrow /\ Grows /\ QueueOk' /\ OwedOk'
    BY <1>3, StillOk DEF Expire, store, history
  <1>5. Undone(t)' = Undone(t) /\ Notice(t)' = Notice(t)
    BY <1>1 DEF Undone, Notice, Stays, SameDelivery
  <1>6. DeliveryOk(t)'
    <2>1. DeliveryOk(t)
      BY <1>0 DEF Work
    <2> QED
      BY <1>1, <1>4, <1>5, <2>1 DEF DeliveryOk, Stays, RowsGrow, NoticeOf, SameDelivery
  <1>7. t # Worker => RequestOk(t)'
    BY <1>0, <1>1, Limits DEF Work, RequestOk, Stays, SameDelivery
  <1>8. t = Worker => WorkerOk'
    BY <1>0, <1>1, <1>4, <1>5 DEF Work, WorkerOk, Stays, SameDelivery, Grows, RowsGrow, NoticeOf
  <1>9. \A u \in Tasks \ {t} : task[u].pc \in Written => task[u].row \notin Waiting'
    BY <1>0, <1>4 DEF Work, DeliveryOk
  <1>10. /\ Others(t)
         /\ task'[t].pc \in Written =>
              \A u \in Tasks \ {t} : task[u].pc \in Written => task[u].row # task'[t].row
    BY <1>0, <1>1 DEF Stays, Work, OwnRows
  <1>11. Work'
    BY <1>0, <1>4, <1>6, <1>7, <1>8, <1>9, <1>10, StepOk
  <1> QED
    BY <1>1, <1>2, <1>11, TypeSplitNext DEF WorkInv

\* CreateDelivery adds one row, for the event at hand, which does not wait yet; or
\* deliverSync returns.
LEMMA RecordWork ==
    ASSUME WorkInv, NEW t \in Tasks, NEW ok \in BOOLEAN, Record(t, ok)
    PROVE  WorkInv'
  <1>0. TypeOK /\ Work /\ TaskType /\ StoreType
    BY TypeSplit DEF WorkInv
  <1>1. task[t].pc = "record" /\ task[t].pc \in Delivering /\ DeliveryOk(t)
    BY <1>0 DEF Record, At, Delivering, Work
  <1>2. Notice(t) \in owed
    BY <1>1 DEF DeliveryOk, Undone, Delivering
  <1>3. FaultType'
    BY <1>0, FaultCounted DEF Record, StoreType, FaultType
  <1>4. ops' = ops /\ ops \in Nat
    BY <1>0, Limits DEF Record, StoreType
  <1>5. CASE ok /\ Live(task[t].ep)
    <2>1. PICK pc \in Written : pc = IF task[t].answer = "none" THEN "arm" ELSE "snapshot"
      BY DEF Written
    <2>1a. PICK n : n = Len(rows) + 1
      OBVIOUS
    <2>2. /\ TaskType' /\ Stays(t, pc)
          /\ task'[t].answer = task[t].answer /\ task'[t].row = n
          /\ rows' = Append(rows, DeliveryOf(task[t])) /\ missed' = missed
      BY <1>0, <1>5, <2>1, <2>1a, RecordEffect
    <2>3. DeliveryOf(task[t]) \in [event : 1..MaxOps, ep : Endpoints, attempt : 1..MaxAttempts]
      <3>1. task[t].event \in 1..MaxOps /\ task[t].ep \in Endpoints
        BY <1>0, <1>2 DEF StoreType, Notice
      <3>2. task[t].attempt \in 1..MaxAttempts
        BY <1>0, <1>1, Limits DEF DeliveryOk, TaskType, Jobs, Attempts
      <3> QED
        BY <3>1, <3>2 DEF DeliveryOf
    <2>4. /\ \A d \in DOMAIN rows : d \in DOMAIN rows' /\ rows'[d] = rows[d]
          /\ n \in DOMAIN rows'
          /\ rows'[n] = DeliveryOf(task[t])
          /\ DOMAIN rows' = DOMAIN rows \cup {n}
          /\ \A d \in DOMAIN rows : d # n
      BY <1>0, <2>1a, <2>2 DEF StoreType
    <2>5. rows' \in Seq([event : 1..MaxOps, ep : Endpoints, attempt : 1..MaxAttempts])
      <3>1. PICK S : S = [event : 1..MaxOps, ep : Endpoints, attempt : 1..MaxAttempts]
        OBVIOUS
      <3>2. rows \in Seq(S) /\ DeliveryOf(task[t]) \in S
        BY <1>0, <2>3, <3>1 DEF StoreType
      <3>3. rows' \in Seq(S)
        BY <2>2, <3>2
      <3> QED
        BY <3>1, <3>3
    <2>6. StoreType'
      <3>1. pending' \subseteq DOMAIN rows'
        BY <1>0, <2>4 DEF StoreType, Record
      <3>2. due' \in Seq(DOMAIN rows')
        BY <1>0, <2>4 DEF StoreType, Record
      <3> QED
        BY <1>0, <1>3, <2>2, <2>5, <3>1, <3>2 DEF StoreType, FaultType, Record
    <2>7. Waiting' = Waiting /\ Waiting \subseteq DOMAIN rows
      BY <1>0 DEF Waiting, Record, StoreType, Range
    <2>8. RowsGrow /\ Grows
      BY <2>4, <2>7 DEF RowsGrow, Grows, Exists, Live, Record
    <2>9. QueueOk'
      BY <1>0, <2>4, <2>7 DEF Work, QueueOk, Exists, Live, Record
    <2>10. NoticeOf(n)' = Notice(t)
      BY <2>4 DEF NoticeOf, Notice, DeliveryOf
    <2>11. OwedOk'
      <3>1. OwedOk
        BY <1>0 DEF Work
      <3>2. \A d \in DOMAIN rows' : NoticeOf(d)' \in owed
        <4>1. ASSUME NEW d \in DOMAIN rows
              PROVE  NoticeOf(d)' \in owed
          BY <2>4, <3>1 DEF OwedOk, NoticeOf
        <4> QED
          BY <1>2, <2>4, <2>10, <4>1
      <3> QED
        BY <2>2, <3>1, <3>2 DEF OwedOk, Record
    <2>12. /\ t = Worker => WorkerOk'
           /\ t # Worker => RequestOk(t)'
           /\ Undone(t)' = Undone(t) /\ Notice(t)' = Notice(t)
      BY <1>0, <1>1, <2>2, <2>8, Members, StaysOk
    <2>13. DeliveryOk(t)'
      <3>1. task'[t].row \in DOMAIN rows' /\ NoticeOf(n)' = Notice(t)'
        BY <2>2, <2>4, <2>10, <2>12
      <3>2. rows'[task'[t].row].attempt = task'[t].attempt
        BY <2>2, <2>4 DEF DeliveryOf, Stays
      <3>3. task'[t].row \notin Waiting'
        BY <2>2, <2>4, <2>7
      <3>4. task'[t].ep \in Endpoints /\ task'[t].attempt # 0 /\ Undone(t)' \subseteq owed'
        BY <1>1, <2>2, <2>8, <2>12 DEF DeliveryOk, Stays, SameDelivery, RowsGrow
      <3>5. task'[t].answer = "2xx" => Notice(t)' \in accepted'
        BY <1>1, <2>2, <2>8, <2>12 DEF DeliveryOk, RowsGrow
      <3> QED
        BY <2>2, <3>1, <3>2, <3>3, <3>4, <3>5 DEF DeliveryOk, NoticeOf
    <2>14. \A u \in Tasks \ {t} : task[u].pc \in Written =>
             task[u].row \notin Waiting' /\ task[u].row # task'[t].row
      BY <1>0, <2>2, <2>4, <2>7 DEF Work, DeliveryOk
    <2>15. Work'
      BY <1>0, <2>2, <2>8, <2>9, <2>11, <2>12, <2>13, <2>14, StepOk DEF Stays
    <2> QED
      BY <2>2, <2>6, <2>15, TypeSplitNext DEF WorkInv
  <1>6. CASE ~(ok /\ Live(task[t].ep))
    <2>1. TaskType' /\ Leaves(t) /\ rows' = rows /\ missed' = Lose(t)
      BY <1>0, <1>6, RecordEffect
    <2>2. missed \subseteq missed' /\ missed' \subseteq owed
      BY <1>0, <1>2, <2>1 DEF Lose, StoreType
    <2>3. StoreType'
      BY <1>0, <1>3, <2>1, <2>2 DEF StoreType, FaultType, Record
    <2>4. Waiting' = Waiting /\ RowsGrow /\ Grows /\ QueueOk' /\ OwedOk'
      BY <1>4, <2>1, <2>2, StillOk DEF Record
    <2>5. /\ t = Worker => WorkerOk'
          /\ t # Worker => RequestOk(t)'
          /\ DeliveryOk(t)' /\ task'[t].pc \in {"idle", "next", "dequeue"}
      BY <1>0, <1>1, <2>1, <2>4, LeavesOk
    <2>6. \A u \in Tasks \ {t} : task[u].pc \in Written => task[u].row \notin Waiting'
      BY <1>0, <2>4 DEF Work, DeliveryOk
    <2>7. task'[t].pc \notin Written /\ Others(t)
      BY <2>1, <2>5 DEF Leaves, Written
    <2>8. Work'
      BY <1>0, <2>4, <2>5, <2>6, <2>7, StepOk
    <2> QED
      BY <2>1, <2>3, <2>8, TypeSplitNext DEF WorkInv
  <1> QED
    BY <1>5, <1>6

\* The update of the endpoint's status may write a flag back, and neither rows nor retries.
LEMMA SnapshotWork ==
    ASSUME WorkInv, NEW t \in Tasks, NEW ok \in BOOLEAN, Snapshot(t, ok)
    PROVE  WorkInv'
  <1>0. TypeOK /\ Work /\ TaskType /\ StoreType /\ EndpointType
    BY TypeSplit DEF WorkInv, StoreType, EndpointType
  <1>1. task[t].pc = "snapshot" /\ task[t].pc \in Delivering /\ DeliveryOk(t)
    BY <1>0 DEF Snapshot, At, Delivering, Work
  <1>2. task[t].ep \in Endpoints /\ task[t].copy \in BOOLEAN
    BY <1>0, <1>1 DEF DeliveryOk, TaskType, Jobs
  <1>3. EndpointType' /\ \A x \in Endpoints : endpoint'[x].row = endpoint[x].row
    <2>1. ReplaceEndpoint(task[t].ep, task[t].copy) \/ UNCHANGED endpoint
      BY DEF Snapshot
    <2> QED
      BY <1>0, <1>2, <2>1, ReplaceEffect
  <1>4. StoreType'
    <2>1. FaultType'
      BY <1>0, FaultCounted DEF Snapshot, StoreType, FaultType
    <2> QED
      BY <1>0, <1>3, <2>1 DEF StoreType, FaultType, EndpointType, Snapshot, history
  <1>5. ops' = ops /\ ops \in Nat
    BY <1>0, Limits DEF Snapshot, StoreType
  <1>6. Waiting' = Waiting /\ RowsGrow /\ Grows /\ QueueOk' /\ OwedOk'
    BY <1>3, <1>5, StillOk DEF Snapshot, history
  <1>7. \A u \in Tasks \ {t} : task[u].pc \in Written => task[u].row \notin Waiting'
    BY <1>0, <1>6 DEF Work, DeliveryOk
  <1>8. /\ TaskType'
        /\ \/ /\ Stays(t, "arm")
              /\ task'[t].answer = task[t].answer /\ task'[t].row = task[t].row
           \/ Leaves(t)
    BY <1>0, SnapshotEffect
  <1>9. CASE /\ Stays(t, "arm")
             /\ task'[t].answer = task[t].answer /\ task'[t].row = task[t].row
    <2>1. /\ t = Worker => WorkerOk'
          /\ t # Worker => RequestOk(t)'
          /\ Undone(t)' = Undone(t) /\ Notice(t)' = Notice(t)
      BY <1>0, <1>1, <1>6, <1>9, StaysOk DEF Delivering
    <2>2. DeliveryOk(t)'
      BY <1>1, <1>6, <1>9, <2>1 DEF DeliveryOk, Stays, SameDelivery, RowsGrow, NoticeOf,
           Delivering, Written
    <2>3. \A u \in Tasks \ {t} : task[u].pc \in Written => task[u].row # task'[t].row
      BY <1>0, <1>1, <1>9 DEF Work, OwnRows, Written
    <2>4. Work'
      BY <1>0, <1>6, <1>7, <1>9, <2>1, <2>2, <2>3, StepOk DEF Stays
    <2> QED
      BY <1>4, <1>8, <2>4, TypeSplitNext DEF WorkInv
  <1>10. CASE Leaves(t)
    <2>1. /\ t = Worker => WorkerOk'
          /\ t # Worker => RequestOk(t)'
          /\ DeliveryOk(t)' /\ task'[t].pc \in {"idle", "next", "dequeue"}
      BY <1>0, <1>1, <1>6, <1>10, LeavesOk
    <2>2. task'[t].pc \notin Written /\ Others(t)
      BY <1>10, <2>1 DEF Leaves, Written
    <2>3. Work'
      BY <1>0, <1>6, <1>7, <2>1, <2>2, StepOk
    <2> QED
      BY <1>4, <1>8, <2>3, TypeSplitNext DEF WorkInv
  <1> QED
    BY <1>8, <1>9, <1>10

\* EnqueueRetry, moveToDLQ: the new row waits when its endpoint is there and an attempt is left.
LEMMA ArmWork ==
    ASSUME WorkInv, NEW t \in Tasks, NEW ok \in BOOLEAN, Arm(t, ok)
    PROVE  WorkInv'
  <1>0. TypeOK /\ Work /\ TaskType /\ StoreType
    BY TypeSplit DEF WorkInv
  <1>1. task[t].pc = "arm" /\ task[t].pc \in Delivering /\ DeliveryOk(t)
    BY <1>0 DEF Arm, At, Delivering, Work
  <1>2. Notice(t) \in owed
    BY <1>1 DEF DeliveryOk, Undone, Delivering
  <1>3. /\ task[t].row \in DOMAIN rows /\ rows[task[t].row].attempt = task[t].attempt
        /\ task[t].row \notin Waiting
    BY <1>1 DEF DeliveryOk, Written
  <1>4. pending' = pending \/ /\ pending' = pending \cup {task[t].row}
                              /\ Exists(task[t].row) /\ task[t].attempt < MaxAttempts
    BY <1>0, Limits DEF Arm, LastAttempt, TaskType, Jobs, Attempts
  <1>5. missed \subseteq missed' /\ missed' \subseteq owed /\ dlq' \subseteq owed
    BY <1>0, <1>2 DEF Arm, Lose, DeadLetter, StoreType
  <1>6. StoreType'
    <2>1. FaultType'
      BY <1>0, FaultCounted DEF Arm, StoreType, FaultType
    <2>2. pending' \subseteq DOMAIN rows
      BY <1>0, <1>3, <1>4 DEF StoreType
    <2> QED
      BY <1>0, <1>5, <2>1, <2>2 DEF StoreType, FaultType, Arm
  <1>7. Waiting' = Waiting \/ /\ Waiting' = Waiting \cup {task[t].row}
                              /\ Exists(task[t].row) /\ task[t].attempt < MaxAttempts
    BY <1>4 DEF Waiting, Arm
  <1>8. RowsGrow /\ Grows
    BY <1>7 DEF RowsGrow, Grows, Exists, Live, Arm
  <1>9. QueueOk'
    <2>1. QueueOk
      BY <1>0 DEF Work
    <2>2. pending' \cap Range(due)' = {}
      BY <1>3, <1>4, <2>1 DEF QueueOk, Waiting, Arm
    <2>3. \A d \in Waiting' : Exists(d) /\ rows[d].attempt < MaxAttempts
      BY <1>3, <1>7, <2>1 DEF QueueOk
    <2> QED
      BY <2>1, <2>2, <2>3 DEF QueueOk, Exists, Live, Arm
  <1>10. OwedOk'
    BY <1>0, <1>5 DEF Work, OwedOk, NoticeOf, Arm
  <1>11. TaskType' /\ Leaves(t)
    BY <1>0, ArmEffect
  <1>12. /\ t = Worker => WorkerOk'
         /\ t # Worker => RequestOk(t)'
         /\ DeliveryOk(t)' /\ task'[t].pc \in {"idle", "next", "dequeue"}
    BY <1>0, <1>1, <1>8, <1>11, LeavesOk
  <1>13. \A u \in Tasks \ {t} : task[u].pc \in Written => task[u].row \notin Waiting'
    <2>1. ASSUME NEW u \in Tasks \ {t}, task[u].pc \in Written
          PROVE  task[u].row \notin Waiting /\ task[u].row # task[t].row
      BY <1>0, <1>1, <2>1 DEF Work, DeliveryOk, OwnRows, Written
    <2> QED
      BY <1>7, <2>1
  <1>14. task'[t].pc \notin Written /\ Others(t)
    BY <1>11, <1>12 DEF Leaves, Written
  <1>15. Work'
    BY <1>0, <1>8, <1>9, <1>10, <1>12, <1>13, <1>14, StepOk
  <1> QED
    BY <1>6, <1>11, <1>15, TypeSplitNext DEF WorkInv

\* DequeueRetry takes one row out of the retries, and leaves the rest as it was.
LEMMA DequeueQueue ==
    ASSUME TypeOK, Work, NEW ok \in BOOLEAN, Dequeue(ok)
    PROVE  /\ Waiting' = IF ok THEN Waiting \ {task[Worker].old} ELSE Waiting
           /\ due' \in Seq(DOMAIN rows) /\ IsInjective(due') /\ Range(due') \subseteq Range(due)
           /\ pending' \subseteq pending
  <1>1. due \in Seq(DOMAIN rows) /\ IsInjective(due)
    BY DEF TypeOK, Work, QueueOk
  <1>2. CASE ok
    <2>1. PICK S : S = {task[Worker].old}
      OBVIOUS
    <2>2. due' = Without(due, S) /\ pending' = pending \ S
      BY <1>2, <2>1 DEF Dequeue
    <2>3. /\ Without(due, S) \in Seq(DOMAIN rows)
          /\ Range(Without(due, S)) = Range(due) \ S
          /\ IsInjective(Without(due, S))
      BY <1>1, WithoutRest
    <2>4. Waiting' = pending' \cup Range(due')
      BY DEF Waiting
    <2>5. Waiting = pending \cup Range(due)
      BY DEF Waiting
    <2>6. Waiting' = Waiting \ S
      BY <2>2, <2>3, <2>4, <2>5
    <2> QED
      BY <1>2, <2>1, <2>2, <2>3, <2>6
  <1>3. CASE ~ok
    BY <1>1, <1>3 DEF Dequeue, Waiting
  <1> QED
    BY <1>2, <1>3

\* After DequeueRetry the worker goes on with the rest of its batch, which waits still.
LEMMA DequeueWork ==
    ASSUME WorkInv, NEW ok \in BOOLEAN, Dequeue(ok)
    PROVE  WorkInv'
  <1>0. TypeOK /\ Work /\ TaskType /\ StoreType /\ WorkerOk
    BY TypeSplit DEF WorkInv, Work
  <1>1. task[Worker].pc = "dequeue"
    BY DEF Dequeue, At
  <1>2. /\ task[Worker].old \in DOMAIN rows /\ NoticeOf(task[Worker].old) = Notice(Worker)
        /\ task[Worker].old \notin Range(task[Worker].todo)
    BY <1>0, <1>1 DEF WorkerOk
  <1>3. Notice(Worker) \in owed
    BY <1>0, <1>2 DEF Work, OwedOk
  <1>4. /\ Waiting' \subseteq Waiting /\ Waiting \ {task[Worker].old} \subseteq Waiting'
        /\ due' \in Seq(DOMAIN rows) /\ IsInjective(due') /\ Range(due') \subseteq Range(due)
        /\ pending' \subseteq pending
    BY <1>0, DequeueQueue
  <1>5. StoreType'
    <2>1. FaultType'
      BY <1>0, Limits, FaultCounted DEF Dequeue, StoreType, FaultType
    <2>2. doubled' \subseteq owed
      BY <1>0, <1>3 DEF Dequeue, StoreType
    <2> QED
      BY <1>0, <1>4, <2>1, <2>2 DEF StoreType, FaultType, Dequeue
  <1>6. /\ TaskType' /\ Others(Worker)
        /\ task'[Worker].pc = "next" /\ task'[Worker].kind = "retry"
        /\ task'[Worker].todo = task[Worker].todo
    BY <1>0, DequeueEffect
  <1>7. RowsGrow
    BY DEF RowsGrow, Dequeue
  <1>8. QueueOk'
    <2>1. QueueOk
      BY <1>0 DEF Work
    <2>2. pending' \cap Range(due)' = {}
      BY <1>4, <2>1 DEF QueueOk
    <2> QED
      BY <1>4, <2>1, <2>2 DEF QueueOk, Exists, Live, Dequeue
  <1>9. OwedOk'
    BY <1>0 DEF Work, OwedOk, NoticeOf, Dequeue
  <1>10. WorkerOk'
    <2>1. \A d \in Range(task[Worker].todo) : Exists(d) => d \in Waiting'
      BY <1>0, <1>2, <1>4 DEF WorkerOk
    <2> QED
      BY <1>0, <1>6, <2>1 DEF WorkerOk, Exists, Live, Delivering, Dequeue
  <1>11. DeliveryOk(Worker)'
    BY <1>6 DEF DeliveryOk, Undone, Delivering, Written
  <1>12. \A u \in Tasks \ {Worker} : task[u].pc \in Written => task[u].row \notin Waiting'
    BY <1>0, <1>4 DEF Work, DeliveryOk
  <1>13. task'[Worker].pc \notin Written
    BY <1>6 DEF Written
  <1>14. Work'
    BY <1>0, <1>6, <1>7, <1>8, <1>9, <1>10, <1>11, <1>12, <1>13, Limits, StepOk
  <1> QED
    BY <1>5, <1>6, <1>14, TypeSplitNext DEF WorkInv

\* RetryDelivery takes up an event that its row says is owed, with an attempt left.
LEMMA FetchWork ==
    ASSUME WorkInv, NEW ok \in BOOLEAN, Fetch(ok)
    PROVE  WorkInv'
  <1>0. TypeOK /\ Work /\ TaskType /\ StoreType /\ WorkerOk
    BY TypeSplit DEF WorkInv, Work
  <1>1. PICK d : d = Head(task[Worker].todo)
    OBVIOUS
  <1>2. PICK rest : rest = Tail(task[Worker].todo)
    OBVIOUS
  <1>3. /\ TaskType' /\ Others(Worker)
        /\ task[Worker].todo # <<>>
        /\ task'[Worker].kind = "retry" /\ task'[Worker].todo = rest
        /\ \/ task'[Worker].pc = "next"
           \/ /\ Exists(d)
              /\ task'[Worker].pc = "post" /\ task'[Worker].event = rows[d].event
              /\ task'[Worker].ep = rows[d].ep /\ task'[Worker].old = d
              /\ task'[Worker].attempt = rows[d].attempt + 1
    BY <1>0, <1>1, <1>2, FetchEffect
  <1>4. /\ Range(task[Worker].todo) = {d} \cup Range(rest)
        /\ IsInjective(rest) /\ d \notin Range(rest)
    <2>1. task[Worker].todo \in Seq(Endpoints \cup Nat)
      BY <1>0, Limits DEF TaskType, Jobs
    <2> QED
      BY <1>0, <1>1, <1>2, <1>3, <2>1, TailOf DEF WorkerOk
  <1>5. /\ d \in DOMAIN rows /\ rows[d].attempt < MaxAttempts
        /\ Exists(d) => d \in Waiting
    BY <1>0, <1>4 DEF WorkerOk
  <1>6. StoreType'
    <2>1. FaultType'
      BY <1>0, Limits, FaultCounted DEF Fetch, StoreType, FaultType
    <2> QED
      BY <1>0, <2>1 DEF StoreType, FaultType, Fetch, store, history
  <1>7. ops' = ops /\ ops \in Nat
    BY <1>0, Limits DEF Fetch, StoreType
  <1>8. Waiting' = Waiting /\ RowsGrow /\ Grows /\ QueueOk' /\ OwedOk'
    BY <1>7, StillOk DEF Fetch, store, history
  <1>9. WorkerOk'
    <2>1. \A x \in Range(rest) : x \in DOMAIN rows /\ rows[x].attempt < MaxAttempts
                                 /\ (Exists(x) => x \in Waiting)
      BY <1>0, <1>4 DEF WorkerOk
    <2>2. CASE task'[Worker].pc = "next"
      BY <1>3, <1>4, <1>8, <2>1, <2>2 DEF WorkerOk, Exists, Live, Delivering, Fetch, store
    <2>3. CASE task'[Worker].pc = "post"
      <3>1. /\ task'[Worker].old = d /\ NoticeOf(d) = Notice(Worker)'
        BY <1>3, <2>3 DEF NoticeOf, Notice
      <3>2. NoticeOf(d)' = NoticeOf(d) /\ Exists(d)' = Exists(d)
        BY DEF NoticeOf, Exists, Live, Fetch, store
      <3> QED
        BY <1>3, <1>4, <1>5, <1>8, <2>1, <2>3, <3>1, <3>2
           DEF WorkerOk, Exists, Live, NoticeOf, Fetch, store
    <2> QED
      BY <1>3, <2>2, <2>3
  <1>10. DeliveryOk(Worker)'
    <2>1. CASE task'[Worker].pc = "next"
      BY <1>3, <2>1 DEF DeliveryOk, Undone, Delivering, Written
    <2>2. CASE task'[Worker].pc = "post"
      <3>1. Notice(Worker)' = NoticeOf(d) /\ NoticeOf(d) \in owed /\ rows[d].ep \in Endpoints
        BY <1>0, <1>3, <1>5, <2>2, RowType DEF NoticeOf, Notice, Work, OwedOk
      <3>2. Undone(Worker)' = {Notice(Worker)'}
        BY <1>3, <2>2 DEF Undone, Notice
      <3>3. task'[Worker].attempt # 0
        BY <1>0, <1>3, <1>5, <2>2, RowType
      <3>4. owed' = owed
        BY DEF Fetch, history
      <3> QED
        BY <1>3, <2>2, <3>1, <3>2, <3>3, <3>4 DEF DeliveryOk, Written
    <2> QED
      BY <1>3, <2>1, <2>2
  <1>11. \A u \in Tasks \ {Worker} : task[u].pc \in Written => task[u].row \notin Waiting'
    BY <1>0, <1>8 DEF Work, DeliveryOk
  <1>12. task'[Worker].pc \notin Written
    BY <1>3 DEF Written
  <1>13. Work'
    BY <1>0, <1>3, <1>8, <1>9, <1>10, <1>11, <1>12, Limits, StepOk
  <1> QED
    BY <1>3, <1>6, <1>13, TypeSplitNext DEF WorkInv

\* A tick takes its batch from the due retries, each once.
LEMMA TickWork ==
    ASSUME WorkInv, Tick
    PROVE  WorkInv'
  <1>0. TypeOK /\ Work /\ TaskType /\ StoreType
    BY TypeSplit DEF WorkInv
  <1>1. PICK todo : todo = DueRetries(Batch)
    OBVIOUS
  <1>2. /\ TaskType' /\ Others(Worker)
        /\ task'[Worker].kind = "retry" /\ task'[Worker].pc = "next"
        /\ task'[Worker].todo = todo
    BY <1>0, <1>1, TickEffect
  <1>3. Range(todo) \subseteq Range(due) /\ IsInjective(todo)
    <2>1. due \in Seq(DOMAIN rows) /\ IsInjective(due)
      BY <1>0 DEF Work, QueueOk, StoreType
    <2>2. PICK n : n = IF Len(due) < Batch THEN Len(due) ELSE Batch
      OBVIOUS
    <2>3. Len(due) \in Nat /\ n \in Nat /\ n <= Len(due)
      BY <2>1, <2>2, Limits
    <2>4. todo = SubSeq(due, 1, n)
      BY <1>1, <2>2 DEF DueRetries
    <2>5. DOMAIN todo = 1..n /\ \A i \in 1..n : todo[i] = due[i] /\ i \in DOMAIN due
      BY <2>1, <2>3, <2>4
    <2> QED
      BY <2>1, <2>5 DEF IsInjective, Range
  <1>4. StoreType'
    BY <1>0 DEF StoreType, Tick, store, history
  <1>5. ops' = ops /\ ops \in Nat
    BY <1>0, Limits DEF Tick, StoreType
  <1>6. Waiting' = Waiting /\ RowsGrow /\ Grows /\ QueueOk' /\ OwedOk'
    BY <1>5, StillOk DEF Tick, store, history
  <1>7. WorkerOk'
    <2>1. \A d \in Range(todo) : d \in Waiting' /\ d \in DOMAIN rows' /\ rows'[d].attempt < MaxAttempts
      <3>1. Range(due) \subseteq Waiting /\ Range(due) \subseteq DOMAIN rows
        BY <1>0 DEF Waiting, StoreType, Range
      <3> QED
        BY <1>0, <1>3, <1>6, <3>1 DEF Work, QueueOk, Tick, store
    <2> QED
      BY <1>2, <1>3, <2>1 DEF WorkerOk, Delivering
  <1>8. DeliveryOk(Worker)'
    BY <1>2 DEF DeliveryOk, Undone, Delivering, Written
  <1>9. \A u \in Tasks \ {Worker} : task[u].pc \in Written => task[u].row \notin Waiting'
    BY <1>0, <1>6 DEF Work, DeliveryOk
  <1>10. task'[Worker].pc \notin Written
    BY <1>2 DEF Written
  <1>11. Work'
    BY <1>0, <1>2, <1>6, <1>7, <1>8, <1>9, <1>10, Limits, StepOk
  <1> QED
    BY <1>2, <1>4, <1>11, TypeSplitNext DEF WorkInv

\* A dispatch goes on to its next endpoint, and has still the same events to deliver.
LEMMA NextTargetWork ==
    ASSUME WorkInv, NEW r \in Requests, NextTarget(r)
    PROVE  WorkInv' /\ Undone(r)' = Undone(r)
  <1>0. TypeOK /\ Work /\ TaskType /\ StoreType /\ r \in Tasks /\ r # Worker
    BY TypeSplit, Limits DEF WorkInv
  <1>0a. RequestOk(r) /\ DeliveryOk(r)
    BY <1>0 DEF Work
  <1>1. PICK e : e = Head(task[r].todo)
    OBVIOUS
  <1>2. PICK rest : rest = Tail(task[r].todo)
    OBVIOUS
  <1>3. /\ TaskType' /\ Others(r)
        /\ task[r].todo # <<>>
        /\ task'[r].kind = "dispatch" /\ task'[r].pc = "post"
        /\ task'[r].event = task[r].event /\ task'[r].ep = e
        /\ task'[r].todo = rest /\ task'[r].attempt = 1
    BY <1>0, <1>0a, <1>1, <1>2, NextTargetEffect
  <1>4. task[r].kind = "dispatch" /\ task[r].pc = "next"
    BY <1>0a DEF NextTarget, At, RequestOk
  <1>5. /\ rest \in Seq(Endpoints) /\ IsInjective(rest) /\ e \notin Range(rest)
        /\ Range(task[r].todo) = {e} \cup Range(rest)
        /\ e \in Endpoints
    <2>1. task[r].todo \in Seq(Endpoints) /\ IsInjective(task[r].todo)
      BY <1>0a, <1>4 DEF RequestOk
    <2> QED
      BY <1>1, <1>2, <1>3, <2>1, TailOf
  <1>6. Undone(r)' = Undone(r)
    BY <1>3, <1>4, <1>5 DEF Undone, Notice
  <1>7. StoreType'
    BY <1>0 DEF StoreType, NextTarget, store, history
  <1>8. ops' = ops /\ ops \in Nat
    BY <1>0, Limits DEF NextTarget, StoreType
  <1>9. Waiting' = Waiting /\ RowsGrow /\ Grows /\ QueueOk' /\ OwedOk'
    BY <1>8, StillOk DEF NextTarget, store, history
  <1>10. RequestOk(r)'
    BY <1>3, <1>5 DEF RequestOk
  <1>11. DeliveryOk(r)'
    BY <1>0a, <1>3, <1>5, <1>6, <1>9 DEF DeliveryOk, RowsGrow, Written
  <1>12. \A u \in Tasks \ {r} : task[u].pc \in Written => task[u].row \notin Waiting'
    BY <1>0, <1>9 DEF Work, DeliveryOk
  <1>13. task'[r].pc \notin Written
    BY <1>3 DEF Written
  <1>14. Work'
    BY <1>0, <1>3, <1>9, <1>10, <1>11, <1>12, <1>13, StepOk
  <1> QED
    BY <1>3, <1>6, <1>7, <1>14, TypeSplitNext DEF WorkInv

\* A task that has nothing left to do is at rest.
LEMMA FinishWork ==
    ASSUME WorkInv, NEW t \in Tasks, Finish(t)
    PROVE  WorkInv' /\ Undone(t) = {} /\ Undone(t)' = {}
  <1>0. TypeOK /\ Work /\ TaskType /\ StoreType
    BY TypeSplit DEF WorkInv
  <1>1. TaskType' /\ Others(t) /\ task'[t] = Idle
    BY <1>0, FinishEffect
  <1>2. StoreType'
    BY <1>0 DEF StoreType, Finish, store, history
  <1>3. ops' = ops /\ ops \in Nat
    BY <1>0, Limits DEF Finish, StoreType
  <1>4. Waiting' = Waiting /\ RowsGrow /\ Grows /\ QueueOk' /\ OwedOk'
    BY <1>3, StillOk DEF Finish, store, history
  <1>5. \A u \in Tasks \ {t} : task[u].pc \in Written => task[u].row \notin Waiting'
    BY <1>0, <1>4 DEF Work, DeliveryOk
  <1>6. /\ t = Worker => WorkerOk'
        /\ t # Worker => RequestOk(t)'
        /\ DeliveryOk(t)' /\ Undone(t)' = {}
    BY <1>1, Limits, IdleOk, WorkerIdleOk
  <1>7. task'[t].pc \notin Written
    BY <1>1 DEF Idle, Written
  <1>8. Work'
    BY <1>0, <1>1, <1>4, <1>5, <1>6, <1>7, StepOk
  <1>9. Undone(t) = {}
    BY DEF Undone, Finish, At, Range
  <1> QED
    BY <1>1, <1>2, <1>6, <1>8, <1>9, TypeSplitNext DEF WorkInv

\* The write of an Update changes a flag at most.
LEMMA SaveWork ==
    ASSUME WorkInv, NEW r \in Requests, NEW ok \in BOOLEAN, SaveEndpoint(r, ok)
    PROVE  WorkInv' /\ Undone(r) = {} /\ Undone(r)' = {}
  <1>0. TypeOK /\ Work /\ TaskType /\ StoreType /\ EndpointType /\ r \in Tasks /\ r # Worker
    BY TypeSplit, Limits DEF WorkInv, StoreType, EndpointType
  <1>1. TaskType' /\ Others(r) /\ task'[r] = Idle
    BY <1>0, SaveEffect
  <1>2. /\ task[r].ep \in Endpoints /\ task[r].copy \in BOOLEAN
        /\ task[r].pc = "save" /\ task[r].kind = "update"
    BY <1>0 DEF TaskType, Jobs, Work, RequestOk, SaveEndpoint, At
  <1>3. EndpointType' /\ \A x \in Endpoints : endpoint'[x].row = endpoint[x].row
    <2>1. ReplaceEndpoint(task[r].ep, task[r].copy) \/ UNCHANGED endpoint
      BY DEF SaveEndpoint
    <2> QED
      BY <1>0, <1>2, <2>1, ReplaceEffect
  <1>4. StoreType'
    <2>1. FaultType'
      BY <1>0, FaultCounted DEF SaveEndpoint, StoreType, FaultType
    <2>2. intent' \in [Endpoints -> BOOLEAN]
      BY <1>0, <1>2 DEF SaveEndpoint, StoreType
    <2>3. overlapped' \subseteq Endpoints
      BY <1>0, <1>2 DEF SaveEndpoint, StoreType
    <2> QED
      BY <1>0, <1>3, <2>1, <2>2, <2>3 DEF StoreType, FaultType, EndpointType, SaveEndpoint
  <1>5. ops' = ops /\ ops \in Nat
    BY <1>0, Limits DEF SaveEndpoint, StoreType
  <1>6. Waiting' = Waiting /\ RowsGrow /\ Grows /\ QueueOk' /\ OwedOk'
    BY <1>3, <1>5, StillOk DEF SaveEndpoint
  <1>7. \A u \in Tasks \ {r} : task[u].pc \in Written => task[u].row \notin Waiting'
    BY <1>0, <1>6 DEF Work, DeliveryOk
  <1>8. RequestOk(r)' /\ DeliveryOk(r)' /\ Undone(r)' = {}
    BY <1>1, IdleOk
  <1>9. task'[r].pc \notin Written
    BY <1>1 DEF Idle, Written
  <1>10. Work'
    BY <1>0, <1>1, <1>6, <1>7, <1>8, <1>9, StepOk
  <1>11. Undone(r) = {}
    BY <1>2 DEF Undone
  <1> QED
    BY <1>1, <1>4, <1>8, <1>10, <1>11, TypeSplitNext DEF WorkInv

\* A request that begins changes what is owed, and nothing that is stored.
LEMMA BeginStore ==
    ASSUME WorkInv, NEW r \in Requests, NEW j, Begin(r, j), UNCHANGED <<accepted, missed>>,
           owed \subseteq owed', owed' \subseteq [event : 1..MaxOps, ep : Endpoints],
           doubled' \subseteq owed', UNCHANGED <<intent, overlapped>>,
           \A n \in owed' \ owed : n.event = ops + 1 /\ endpoint[n.ep].row = "live"
    PROVE  /\ StoreType'
           /\ Waiting' = Waiting /\ RowsGrow /\ Grows /\ QueueOk' /\ OwedOk'
           /\ Undone(r) = {}
           /\ \A n \in owed' \ owed : n.event = ops + 1 /\ \A m \in owed : m.event # n.event
  <1>0. TypeOK /\ Work /\ StoreType
    BY TypeSplit DEF WorkInv
  <1>1. ops \in Nat /\ ops' = ops + 1 /\ ops' \in 0..MaxOps
    BY <1>0, Limits DEF Begin, StoreType
  <1>2. StoreType'
    BY <1>0, <1>1 DEF StoreType, Begin, store
  <1>3. Waiting' = Waiting
    BY DEF Waiting, Begin, store
  <1>4. RowsGrow /\ Grows
    BY <1>3 DEF RowsGrow, Grows, Exists, Live, Begin, store
  <1>5. QueueOk'
    BY <1>0, <1>3 DEF Work, QueueOk, Exists, Live, Begin, store
  <1>6. OwedOk'
    <2>1. OwedOk /\ \A n \in owed : n.event \in Nat
      BY <1>0, Limits DEF Work, StoreType
    <2> QED
      BY <1>1, <2>1 DEF OwedOk, NoticeOf, Begin, store
  <1>7. Undone(r) = {}
    <2>1. task[r].pc = "idle" /\ task[r].kind = "none"
      BY <1>0 DEF Begin, At, Work, RequestOk
    <2> QED
      BY <2>1 DEF Undone
  <1>8. \A m \in owed : m.event \in Nat /\ m.event <= ops
    BY <1>0, Limits DEF Work, OwedOk, StoreType
  <1>9. \A n \in owed' \ owed : n.event = ops + 1 /\ \A m \in owed : m.event # n.event
    BY <1>1, <1>8
  <1> QED
    BY <1>2, <1>3, <1>4, <1>5, <1>6, <1>7, <1>9

\* A request that begins well disturbs no other task.
LEMMA BeginWork ==
    ASSUME Work, NEW r \in Requests, RowsGrow, Grows, Others(r), Waiting' = Waiting,
           RequestOk(r)', DeliveryOk(r)', task'[r].pc \notin Written, QueueOk', OwedOk'
    PROVE  Work'
  <1>1. r \in Tasks /\ r # Worker
    BY Limits
  <1>2. \A u \in Tasks \ {r} : task[u].pc \in Written => task[u].row \notin Waiting'
    BY DEF Work, DeliveryOk
  <1> QED
    BY <1>1, <1>2, StepOk

\* A Dispatch begins with one new event for each endpoint that is listed.
LEMMA BeginDispatchWork ==
    ASSUME WorkInv, NEW r \in Requests, BeginDispatch(r)
    PROVE  /\ WorkInv' /\ Waiting' = Waiting /\ Undone(r) = {}
           /\ Undone(r)' = owed' \ owed
           /\ \A n \in Undone(r)' : n.event = ops + 1 /\ \A m \in owed : m.event # n.event
  <1>0. TypeOK /\ Work /\ TaskType /\ StoreType /\ r \in Tasks
    BY TypeSplit, Limits DEF WorkInv
  <1>1. PICK targets : targets = {e \in Endpoints : Live(e) /\ endpoint[e].enabled}
    OBVIOUS
  <1>2. PICK event : event = ops + 1
    OBVIOUS
  <1>3. /\ TaskType' /\ Others(r)
        /\ task'[r].kind = "dispatch" /\ task'[r].pc = "next" /\ task'[r].event = event
        /\ task'[r].todo \in Seq(Endpoints) /\ IsInjective(task'[r].todo)
        /\ Range(task'[r].todo) = targets
        /\ event \in 1..MaxOps
    BY <1>0, <1>1, <1>2, BeginDispatchEffect
  <1>4. PICK new : new = {[event |-> event, ep |-> e] : e \in targets}
    OBVIOUS
  <1>5. /\ owed' = owed \cup new
        /\ UNCHANGED <<accepted, missed, doubled, intent, overlapped>>
        /\ \E j : Begin(r, j)
    BY <1>1, <1>2, <1>4 DEF BeginDispatch, Targets
  <1>6. /\ new \subseteq [event : 1..MaxOps, ep : Endpoints]
        /\ \A n \in new : n.event = ops + 1 /\ endpoint[n.ep].row = "live"
    BY <1>1, <1>2, <1>3, <1>4 DEF Live
  <1>7. /\ StoreType'
        /\ Waiting' = Waiting /\ RowsGrow /\ Grows /\ QueueOk' /\ OwedOk'
        /\ Undone(r) = {}
        /\ \A n \in owed' \ owed : n.event = ops + 1 /\ \A m \in owed : m.event # n.event
    <2>1. owed \subseteq owed' /\ owed' \subseteq [event : 1..MaxOps, ep : Endpoints]
          /\ doubled' \subseteq owed'
      BY <1>0, <1>5, <1>6 DEF StoreType
    <2>2. \A n \in owed' \ owed : n.event = ops + 1 /\ endpoint[n.ep].row = "live"
      BY <1>5, <1>6
    <2> QED
      BY <1>5, <2>1, <2>2, BeginStore
  <1>8. Undone(r)' = new
    BY <1>3, <1>4 DEF Undone
  <1>9. RequestOk(r)' /\ DeliveryOk(r)' /\ task'[r].pc \notin Written
    BY <1>3, <1>5, <1>8 DEF RequestOk, DeliveryOk, Delivering, Written
  <1>10. Work'
    BY <1>0, <1>3, <1>7, <1>9, BeginWork
  <1>11. new \cap owed = {}
    <2>1. \A m \in owed : m.event \in Nat /\ m.event <= ops /\ ops \in Nat
      BY <1>0, Limits DEF Work, OwedOk, StoreType
    <2> QED
      BY <1>6, <2>1
  <1> QED
    BY <1>3, <1>5, <1>7, <1>8, <1>10, <1>11, TypeSplitNext DEF WorkInv

\* A test delivery begins with a new event.
LEMMA BeginTestWork ==
    ASSUME WorkInv, NEW r \in Requests, NEW e \in Endpoints, BeginTest(r, e)
    PROVE  /\ WorkInv' /\ Waiting' = Waiting /\ Undone(r) = {}
           /\ Undone(r)' = owed' \ owed
           /\ \A n \in Undone(r)' : n.event = ops + 1 /\ \A m \in owed : m.event # n.event
  <1>0. TypeOK /\ Work /\ TaskType /\ StoreType /\ r \in Tasks
    BY TypeSplit, Limits DEF WorkInv
  <1>1. PICK event : event = ops + 1
    OBVIOUS
  <1>2. event \in 1..MaxOps /\ event \in Events
    BY <1>0, <1>1, Limits DEF BeginTest, Begin, StoreType, Events
  <1>3. PICK j : j = [Idle EXCEPT !.pc = "post", !.kind = "test", !.event = event, !.ep = e,
                        !.attempt = 1, !.copy = CopyOf(e)]
    OBVIOUS
  <1>4. Begin(r, j)
    BY <1>1, <1>3 DEF BeginTest
  <1>5. /\ TaskType' /\ Others(r)
        /\ task'[r].kind = "test" /\ task'[r].pc = "post" /\ task'[r].event = event
        /\ task'[r].ep = e /\ task'[r].attempt = 1
    BY <1>0, <1>2, <1>3, <1>4, BeginPostEffect
  <1>6. PICK n : n = [event |-> event, ep |-> e]
    OBVIOUS
  <1>7. /\ owed' = owed \cup {n} /\ n \in [event : 1..MaxOps, ep : Endpoints]
        /\ n.event = ops + 1 /\ endpoint[n.ep].row = "live"
        /\ UNCHANGED <<accepted, missed, doubled, intent, overlapped>>
    BY <1>1, <1>2, <1>6 DEF BeginTest, Live
  <1>8. /\ StoreType'
        /\ Waiting' = Waiting /\ RowsGrow /\ Grows /\ QueueOk' /\ OwedOk'
        /\ Undone(r) = {}
        /\ \A m \in owed' \ owed : m.event = ops + 1 /\ \A k \in owed : k.event # m.event
    <2>1. owed \subseteq owed' /\ owed' \subseteq [event : 1..MaxOps, ep : Endpoints]
          /\ doubled' \subseteq owed'
      BY <1>0, <1>7 DEF StoreType
    <2>2. \A m \in owed' \ owed : m.event = ops + 1 /\ endpoint[m.ep].row = "live"
      BY <1>7
    <2> QED
      BY <1>4, <1>7, <2>1, <2>2, BeginStore
  <1>9. Undone(r)' = {n}
    BY <1>5, <1>6 DEF Undone, Notice
  <1>10. RequestOk(r)' /\ DeliveryOk(r)' /\ task'[r].pc \notin Written
    BY <1>5, <1>7, <1>9 DEF RequestOk, DeliveryOk, Delivering, Written
  <1>11. Work'
    BY <1>0, <1>5, <1>8, <1>10, BeginWork
  <1>12. n \notin owed
    <2>1. \A m \in owed : m.event \in Nat /\ m.event <= ops /\ ops \in Nat
      BY <1>0, Limits DEF Work, OwedOk, StoreType
    <2> QED
      BY <1>7, <2>1
  <1> QED
    BY <1>5, <1>7, <1>8, <1>9, <1>11, <1>12, TypeSplitNext DEF WorkInv

\* A replay begins with an event of the DLQ, which is owed already.
LEMMA BeginReplayWork ==
    ASSUME WorkInv, NEW r \in Requests, NEW n \in dlq, BeginReplay(r, n)
    PROVE  WorkInv' /\ Waiting' = Waiting /\ Undone(r) = {} /\ Undone(r)' = {n}
  <1>0. TypeOK /\ Work /\ TaskType /\ StoreType /\ r \in Tasks
    BY TypeSplit, Limits DEF WorkInv
  <1>1. n \in owed /\ n \in [event : 1..MaxOps, ep : Endpoints]
    BY <1>0 DEF StoreType
  <1>2. PICK e : e = n.ep
    OBVIOUS
  <1>3. PICK event : event = n.event
    OBVIOUS
  <1>4. e \in Endpoints /\ event \in Events /\ n = [event |-> event, ep |-> e]
    BY <1>1, <1>2, <1>3, Limits DEF Events
  <1>5. PICK j : j = [Idle EXCEPT !.pc = "post", !.kind = "replay", !.event = event, !.ep = e,
                        !.attempt = 1, !.copy = CopyOf(e)]
    OBVIOUS
  <1>6. Begin(r, j) /\ UNCHANGED <<owed, accepted, missed, intent, overlapped>>
        /\ doubled' = doubled \cup {n}
    BY <1>2, <1>3, <1>5 DEF BeginReplay
  <1>7. /\ TaskType' /\ Others(r)
        /\ task'[r].kind = "replay" /\ task'[r].pc = "post" /\ task'[r].event = event
        /\ task'[r].ep = e /\ task'[r].attempt = 1
    BY <1>0, <1>4, <1>5, <1>6, BeginPostEffect
  <1>8. /\ StoreType'
        /\ Waiting' = Waiting /\ RowsGrow /\ Grows /\ QueueOk' /\ OwedOk'
        /\ Undone(r) = {}
    <2>1. owed \subseteq owed' /\ owed' \subseteq [event : 1..MaxOps, ep : Endpoints]
          /\ doubled' \subseteq owed'
      BY <1>0, <1>1, <1>6 DEF StoreType
    <2> QED
      BY <1>6, <2>1, BeginStore
  <1>9. Undone(r)' = {n}
    BY <1>4, <1>7 DEF Undone, Notice
  <1>10. RequestOk(r)' /\ DeliveryOk(r)' /\ task'[r].pc \notin Written
    BY <1>1, <1>4, <1>6, <1>7, <1>9 DEF RequestOk, DeliveryOk, Delivering, Written
  <1>11. Work'
    BY <1>0, <1>7, <1>8, <1>10, BeginWork
  <1> QED
    BY <1>7, <1>8, <1>9, <1>11, TypeSplitNext DEF WorkInv

\* An Update begins with no event.
LEMMA BeginUpdateWork ==
    ASSUME WorkInv, NEW r \in Requests, NEW e \in Endpoints, NEW patch \in Patches,
           BeginUpdate(r, e, patch)
    PROVE  WorkInv' /\ Waiting' = Waiting /\ Undone(r) = {} /\ Undone(r)' = {}
  <1>0. TypeOK /\ Work /\ TaskType /\ StoreType /\ r \in Tasks
    BY TypeSplit, Limits DEF WorkInv
  <1>1. /\ TaskType' /\ Others(r)
        /\ task'[r].kind = "update" /\ task'[r].pc = "save" /\ task'[r].ep = e
    BY <1>0, BeginUpdateEffect
  <1>2. UNCHANGED history /\ \E j : Begin(r, j)
    BY DEF BeginUpdate
  <1>3. /\ StoreType'
        /\ Waiting' = Waiting /\ RowsGrow /\ Grows /\ QueueOk' /\ OwedOk'
        /\ Undone(r) = {}
    <2>1. owed \subseteq owed' /\ owed' \subseteq [event : 1..MaxOps, ep : Endpoints]
          /\ doubled' \subseteq owed'
      BY <1>0, <1>2 DEF StoreType, history
    <2> QED
      BY <1>2, <2>1, BeginStore DEF history
  <1>4. Undone(r)' = {}
    BY <1>1 DEF Undone
  <1>5. RequestOk(r)' /\ DeliveryOk(r)' /\ task'[r].pc \notin Written
    BY <1>1, <1>4 DEF RequestOk, DeliveryOk, Delivering, Written
  <1>6. Work'
    BY <1>0, <1>1, <1>3, <1>5, BeginWork
  <1> QED
    BY <1>1, <1>3, <1>4, <1>6, TypeSplitNext DEF WorkInv

\* When no task moves, rows and retries are all there is to look at.
LEMMA AllStay ==
    ASSUME Work, Grows, UNCHANGED task, Waiting' \subseteq Waiting, QueueOk', OwedOk'
    PROVE  Work'
  <1>1. \A r \in Requests : RequestOk(r)'
    BY RequestFrame DEF Work
  <1>2. WorkerOk'
    BY WorkerFrame DEF Work
  <1>3. \A t \in Tasks : DeliveryOk(t)'
    <2> SUFFICES ASSUME NEW t \in Tasks
                 PROVE  DeliveryOk(t)'
      OBVIOUS
    <2>1. DeliveryOk(t) /\ (task[t].pc \in Written => task[t].row \notin Waiting')
      BY DEF Work, DeliveryOk
    <2> QED
      BY <2>1, DeliveryFrame DEF Grows
  <1>4. OwnRows'
    BY DEF Work, OwnRows
  <1> QED
    BY <1>1, <1>2, <1>3, <1>4 DEF Work

\* An endpoint is made for which nothing waits yet.
LEMMA CreateEndpointWork ==
    ASSUME WorkInv, NEW e \in Endpoints, NEW enabled \in BOOLEAN, CreateEndpoint(e, enabled)
    PROVE  WorkInv' /\ Waiting' = Waiting
  <1>0. TypeOK /\ Work /\ TaskType /\ StoreType
    BY TypeSplit DEF WorkInv
  <1>1. endpoint[e].row = "none" /\ UNCHANGED <<rows, pending, due, dlq, task, owed, accepted, missed, ops>>
    BY DEF CreateEndpoint
  <1>2. /\ endpoint' \in [Endpoints -> [row : {"none", "live", "deleted"}, enabled : BOOLEAN]]
        /\ endpoint'[e].row = "live"
        /\ \A x \in Endpoints \ {e} : endpoint'[x] = endpoint[x]
    BY <1>0 DEF CreateEndpoint, InsertEndpoint, StoreType
  <1>3. StoreType'
    <2>1. intent' \in [Endpoints -> BOOLEAN]
      BY <1>0 DEF CreateEndpoint, StoreType
    <2> QED
      BY <1>0, <1>2, <2>1 DEF CreateEndpoint, StoreType
  <1>4. OwedOk /\ \A n \in owed : n.ep \in Endpoints /\ n.ep # e
    BY <1>0, <1>1 DEF Work, OwedOk, StoreType
  <1>5. \A d \in DOMAIN rows : rows[d].ep \in Endpoints /\ rows[d].ep # e
    BY <1>4 DEF OwedOk, NoticeOf
  <1>6. Waiting' = Waiting
    BY <1>1 DEF Waiting
  <1>7. \A d \in DOMAIN rows : Exists(d)' <=> Exists(d)
    BY <1>1, <1>2, <1>5 DEF Exists, Live
  <1>8. Grows
    BY <1>1, <1>6, <1>7 DEF Grows, RowsGrow
  <1>9. QueueOk'
    <2>1. Waiting \subseteq DOMAIN rows
      BY <1>0 DEF StoreType, Waiting, Range
    <2> QED
      BY <1>0, <1>1, <1>6, <1>7, <2>1 DEF Work, QueueOk
  <1>10. OwedOk'
    BY <1>1, <1>2, <1>4 DEF OwedOk, NoticeOf
  <1>11. Work'
    BY <1>0, <1>1, <1>6, <1>8, <1>9, <1>10, AllStay
  <1> QED
    BY <1>0, <1>1, <1>3, <1>6, <1>11, TypeSplitNext DEF WorkInv, TaskType

\* The cascade takes the retries of one endpoint and no other.
LEMMA DeleteEndpointQueue ==
    ASSUME WorkInv, NEW e \in Endpoints, DeleteEndpoint(e)
    PROVE  /\ Waiting' = {d \in Waiting : rows[d].ep # e}
           /\ due' \in Seq(DOMAIN rows) /\ IsInjective(due') /\ Range(due') \subseteq Range(due)
           /\ pending' \subseteq pending
  <1>1. due \in Seq(DOMAIN rows) /\ IsInjective(due)
    BY DEF WorkInv, TypeOK, Work, QueueOk
  <1>2. PICK S : S = {d \in Range(due) : rows[d].ep = e}
    OBVIOUS
  <1>3. due' = Without(due, S) /\ pending' = {d \in pending : rows[d].ep # e}
    BY <1>2 DEF DeleteEndpoint
  <1>4. /\ Without(due, S) \in Seq(DOMAIN rows)
        /\ Range(Without(due, S)) = Range(due) \ S
        /\ IsInjective(Without(due, S))
    BY <1>1, WithoutRest
  <1>5. Waiting' = pending' \cup Range(due')
    BY DEF Waiting
  <1>6. Waiting = pending \cup Range(due)
    BY DEF Waiting
  <1>7. Waiting' = {d \in Waiting : rows[d].ep # e}
    BY <1>2, <1>3, <1>4, <1>5, <1>6
  <1> QED
    BY <1>3, <1>4, <1>7

\* After the cascade nothing waits for the endpoint; tasks at it find it gone.
LEMMA DeleteEndpointWork ==
    ASSUME WorkInv, NEW e \in Endpoints, DeleteEndpoint(e)
    PROVE  WorkInv'
  <1>0. TypeOK /\ Work /\ TaskType /\ StoreType
    BY TypeSplit DEF WorkInv
  <1>1. UNCHANGED <<rows, dlq, task, owed, accepted, doubled, intent, overlapped, faults>>
    BY DEF DeleteEndpoint
  <1>2. /\ endpoint' \in [Endpoints -> [row : {"none", "live", "deleted"}, enabled : BOOLEAN]]
        /\ endpoint'[e].row = "deleted"
        /\ \A x \in Endpoints \ {e} : endpoint'[x] = endpoint[x]
    <2>1. PICK x : x = [endpoint[e] EXCEPT !.row = "deleted"]
      OBVIOUS
    <2>2. x \in [row : {"none", "live", "deleted"}, enabled : BOOLEAN] /\ x.row = "deleted"
      BY <1>0, <2>1 DEF StoreType
    <2>3. endpoint' = [endpoint EXCEPT ![e] = x]
      BY <1>0, <2>1 DEF DeleteEndpoint, StoreType
    <2> QED
      BY <1>0, <2>2, <2>3 DEF StoreType
  <1>3. missed' = missed \cup {n \in owed : n.ep = e}
    BY DEF DeleteEndpoint
  <1>4. ops \in Nat /\ ops' = ops + 1 /\ ops' \in 0..MaxOps
    BY <1>0, Limits DEF DeleteEndpoint, StoreType
  <1>5. /\ Waiting' = {d \in Waiting : rows[d].ep # e}
        /\ due' \in Seq(DOMAIN rows) /\ IsInjective(due') /\ Range(due') \subseteq Range(due)
        /\ pending' \subseteq pending
    BY DeleteEndpointQueue
  <1>6. StoreType'
    BY <1>0, <1>1, <1>2, <1>3, <1>4, <1>5 DEF StoreType
  <1>7. \A d \in DOMAIN rows : rows[d].ep \in Endpoints
    BY <1>0, RowType
  <1>8. \A d \in DOMAIN rows : Exists(d)' <=> Exists(d) /\ rows[d].ep # e
    BY <1>1, <1>2, <1>7 DEF Exists, Live
  <1>9. Grows
    BY <1>1, <1>5, <1>8 DEF Grows, RowsGrow
  <1>10. QueueOk'
    <2>1. QueueOk /\ Waiting \subseteq DOMAIN rows
      BY <1>0 DEF Work, StoreType, Waiting, Range
    <2>2. pending' \cap Range(due)' = {}
      BY <1>5, <2>1 DEF QueueOk
    <2>3. \A d \in Waiting' : Exists(d)' /\ rows'[d].attempt < MaxAttempts
      BY <1>1, <1>5, <1>8, <2>1 DEF QueueOk
    <2> QED
      BY <1>5, <2>2, <2>3 DEF QueueOk
  <1>11. OwedOk'
    <2>1. OwedOk /\ \A n \in owed : n.ep \in Endpoints /\ n.event \in Nat
      BY <1>0, Limits DEF Work, StoreType
    <2> QED
      BY <1>1, <1>2, <1>3, <1>4, <2>1 DEF OwedOk, NoticeOf
  <1>12. Work'
    BY <1>0, <1>1, <1>5, <1>9, <1>10, <1>11, AllStay
  <1> QED
    BY <1>0, <1>1, <1>6, <1>12, TypeSplitNext DEF WorkInv, TaskType

\* The DLQ is of no concern to rows and retries.
LEMMA DeleteDLQWork ==
    ASSUME WorkInv, NEW n \in dlq, DeleteDLQ(n)
    PROVE  WorkInv' /\ Waiting' = Waiting
  <1>0. TypeOK /\ Work /\ TaskType /\ StoreType
    BY TypeSplit DEF WorkInv
  <1>1. UNCHANGED <<endpoint, rows, pending, due, task, owed, accepted, doubled, intent,
                    overlapped, ops, faults>>
    BY DEF DeleteDLQ
  <1>2. missed' = missed \cup {n} /\ dlq' = dlq \ {n} /\ n \in owed
    BY <1>0 DEF DeleteDLQ, StoreType
  <1>3. StoreType'
    BY <1>0, <1>1, <1>2 DEF StoreType
  <1>4. ops \in Nat
    BY <1>0, Limits DEF StoreType
  <1>5. Waiting' = Waiting /\ Grows /\ QueueOk' /\ OwedOk'
    BY <1>1, <1>2, <1>4, StillOk
  <1>6. Work'
    BY <1>0, <1>1, <1>5, AllStay
  <1> QED
    BY <1>0, <1>1, <1>3, <1>5, <1>6, TypeSplitNext DEF WorkInv, TaskType

\* A Dispatch that cannot list the endpoints has missed them all: what it owes is
\* new, and nobody is at it.
LEMMA UnlistedWork ==
    ASSUME WorkInv, NEW r \in Requests, DispatchUnlisted(r)
    PROVE  /\ WorkInv' /\ Waiting' = Waiting /\ RowsGrow
           /\ UNCHANGED <<endpoint, rows, pending, due, dlq, task, accepted, doubled, intent,
                          overlapped>>
           /\ missed \subseteq missed' /\ owed' \ owed \subseteq missed'
  <1>0. TypeOK /\ Work /\ TaskType /\ StoreType
    BY TypeSplit DEF WorkInv
  <1>1. PICK new : new = {[event |-> ops + 1, ep |-> e] : e \in Targets}
    OBVIOUS
  <1>2. /\ UNCHANGED <<endpoint, rows, pending, due, dlq, task, accepted, doubled, intent,
                       overlapped>>
        /\ owed' = owed \cup new /\ missed' = missed \cup new
        /\ ops < MaxOps /\ ops' = ops + 1 /\ Fault
    BY <1>1 DEF DispatchUnlisted, store
  <1>3. ops \in Nat /\ ops' \in 0..MaxOps /\ ops + 1 \in 1..MaxOps
    BY <1>0, <1>2, Limits DEF StoreType
  <1>4. /\ new \subseteq [event : 1..MaxOps, ep : Endpoints]
        /\ \A n \in new : n.event = ops + 1 /\ endpoint[n.ep].row = "live"
    BY <1>1, <1>3 DEF Targets, Live
  <1>5. faults' \in 0..MaxFaults
    BY <1>0, <1>2, FaultCounted DEF StoreType, FaultType
  <1>6. StoreType'
    BY <1>0, <1>2, <1>3, <1>4, <1>5 DEF StoreType
  <1>7. Waiting' = Waiting
    BY <1>2 DEF Waiting
  <1>8. RowsGrow /\ Grows
    BY <1>2, <1>7 DEF RowsGrow, Grows, Exists, Live
  <1>9. QueueOk'
    BY <1>0, <1>2, <1>7 DEF Work, QueueOk, Exists, Live
  <1>10. OwedOk'
    <2>1. OwedOk /\ \A n \in owed : n.event \in Nat
      BY <1>0, Limits DEF Work, StoreType
    <2> QED
      BY <1>2, <1>3, <1>4, <2>1 DEF OwedOk, NoticeOf
  <1>11. Work'
    BY <1>0, <1>2, <1>7, <1>8, <1>9, <1>10, AllStay
  <1> QED
    BY <1>0, <1>2, <1>6, <1>7, <1>8, <1>11, TypeSplitNext DEF WorkInv, TaskType

\* A retry whose time has come waits on, at the end of the due ones.
LEMMA ElapseWork ==
    ASSUME WorkInv, NEW d \in pending, Elapse(d)
    PROVE  WorkInv' /\ Waiting' = Waiting
  <1>0. TypeOK /\ Work /\ TaskType /\ StoreType /\ QueueOk
    BY TypeSplit DEF WorkInv, Work
  <1>1. /\ UNCHANGED <<endpoint, rows, dlq, task, history, ops, faults>>
        /\ pending' = pending \ {d} /\ due' = Append(due, d)
    BY DEF Elapse
  <1>2. due \in Seq(DOMAIN rows) /\ d \in DOMAIN rows /\ d \notin Range(due) /\ IsInjective(due)
    BY <1>0 DEF StoreType, QueueOk
  <1>3. /\ due' \in Seq(DOMAIN rows) /\ DOMAIN due' = DOMAIN due \cup {Len(due) + 1}
        /\ due'[Len(due) + 1] = d /\ \A i \in DOMAIN due : due'[i] = due[i]
    BY <1>1, <1>2
  <1>4. Range(due') = Range(due) \cup {d} /\ IsInjective(due')
    BY <1>2, <1>3 DEF Range, IsInjective
  <1>5. Waiting' = Waiting
    <2>1. Waiting' = pending' \cup Range(due')
      BY DEF Waiting
    <2> QED
      BY <1>1, <1>4, <2>1 DEF Waiting
  <1>6. StoreType'
    BY <1>0, <1>1, <1>3 DEF StoreType, history
  <1>7. Grows
    BY <1>1, <1>5 DEF Grows, RowsGrow, Exists, Live, history
  <1>8. QueueOk'
    <2>1. pending' \cap Range(due') = {}
      BY <1>0, <1>1, <1>4 DEF QueueOk
    <2> QED
      BY <1>0, <1>1, <1>4, <1>5, <2>1 DEF QueueOk, Exists, Live
  <1>9. OwedOk'
    BY <1>0, <1>1 DEF Work, OwedOk, NoticeOf, history
  <1>10. Work'
    BY <1>0, <1>1, <1>5, <1>7, <1>8, <1>9, AllStay
  <1> QED
    BY <1>0, <1>1, <1>5, <1>6, <1>10, TypeSplitNext DEF WorkInv, TaskType

\* A crash leaves the store, and no task at anything.
LEMMA CrashWork ==
    ASSUME WorkInv, Crash
    PROVE  WorkInv' /\ Waiting' = Waiting /\ \A t \in Tasks : task'[t] = Idle /\ Undone(t)' = {}
  <1>0. TypeOK /\ Work /\ TaskType /\ StoreType /\ WorkerOk
    BY TypeSplit DEF WorkInv, Work
  <1>1. TaskType' /\ \A t \in Tasks : task'[t] = Idle
    BY <1>0, CrashEffect
  <1>2. UNCHANGED <<store, owed, accepted, intent, overlapped, ops>>
    BY DEF Crash
  <1>3. missed' = missed \cup UNION {Undone(r) : r \in Requests}
    BY DEF Crash
  <1>4. missed \subseteq missed' /\ missed' \subseteq owed
    <2>1. \A r \in Requests : Undone(r) \subseteq owed
      BY <1>0, Limits DEF Work, DeliveryOk
    <2> QED
      BY <1>0, <1>3, <2>1 DEF StoreType
  <1>5. doubled' \subseteq owed
    <2>1. task[Worker].pc \in {"record", "snapshot", "arm", "dequeue"} => Notice(Worker) \in owed
      BY <1>0 DEF WorkerOk, Work, OwedOk, Delivering
    <2> QED
      BY <1>0, <2>1 DEF StoreType, Crash
  <1>6. StoreType'
    <2>1. FaultType'
      BY <1>0, FaultCounted DEF Crash, StoreType, FaultType
    <2> QED
      BY <1>0, <1>2, <1>4, <1>5, <2>1 DEF StoreType, FaultType, store
  <1>7. ops \in Nat
    BY <1>0, Limits DEF StoreType
  <1>8. Waiting' = Waiting /\ QueueOk' /\ OwedOk'
    BY <1>2, <1>4, <1>7, StillOk DEF store
  <1>9. \A r \in Requests : RequestOk(r)' /\ DeliveryOk(r)' /\ Undone(r)' = {}
    BY <1>1, IdleOk, Limits
  <1>10. WorkerOk' /\ DeliveryOk(Worker)' /\ Undone(Worker)' = {}
    BY <1>1, WorkerIdleOk, Limits
  <1>11. \A t \in Tasks : DeliveryOk(t)' /\ Undone(t)' = {}
    BY <1>9, <1>10, Limits
  <1>12. OwnRows'
    BY <1>1 DEF OwnRows, Idle, Written
  <1>13. Work'
    BY <1>8, <1>9, <1>10, <1>11, <1>12 DEF Work
  <1> QED
    BY <1>1, <1>6, <1>8, <1>11, <1>13, TypeSplitNext DEF WorkInv

\* Nothing is stored and nothing is done at the start.
LEMMA WorkInit == Init => WorkInv
  <1> SUFFICES ASSUME Init
               PROVE  WorkInv
    OBVIOUS
  <1>1. TaskType /\ \A t \in Tasks : task[t] = Idle
    BY IdleIsJob DEF Init, TaskType
  <1>2. StoreType
    BY LimitsAssumption DEF Init, StoreType
  <1>3. Waiting = {}
    BY DEF Init, Waiting, Range
  <1>4. \A r \in Requests : RequestOk(r)
    BY <1>1, Limits DEF RequestOk, Idle, Delivering
  <1>5. WorkerOk
    BY <1>1, Limits DEF WorkerOk, Idle, Delivering, IsInjective, Range
  <1>6. \A t \in Tasks : DeliveryOk(t)
    BY <1>1 DEF DeliveryOk, Undone, Idle, Delivering, Written
  <1>7. OwnRows
    BY <1>1 DEF OwnRows, Idle, Written
  <1>8. QueueOk
    BY <1>3 DEF QueueOk, Init, IsInjective
  <1>9. OwedOk
    BY DEF OwedOk, Init
  <1> QED
    BY <1>1, <1>2, <1>4, <1>5, <1>6, <1>7, <1>8, <1>9, TypeSplit DEF WorkInv, Work

\* No step, no change.
LEMMA WorkStutter ==
    ASSUME WorkInv, UNCHANGED vars
    PROVE  WorkInv'
  <1>0. TypeOK /\ Work /\ TaskType /\ StoreType
    BY TypeSplit DEF WorkInv
  <1>1. UNCHANGED <<endpoint, rows, pending, due, dlq, task, owed, accepted, missed, doubled,
                    intent, overlapped, ops, faults>>
    BY DEF vars, store, history
  <1>2. ops \in Nat
    BY <1>0, Limits DEF StoreType
  <1>3. Waiting' = Waiting /\ Grows /\ QueueOk' /\ OwedOk'
    BY <1>1, <1>2, StillOk
  <1>4. Work'
    BY <1>0, <1>1, <1>3, AllStay
  <1>5. TypeOK'
    BY <1>0, <1>1 DEF TypeOK
  <1> QED
    BY <1>4, <1>5 DEF WorkInv

\* Every step of the program keeps the jobs in line with rows and retries.
LEMMA WorkNext ==
    ASSUME WorkInv, [Next]_vars
    PROVE  WorkInv'
  <1>0. {"2xx", "other", "none"} = Answers
    BY DEF Answers
  <1>1. ASSUME NEW t \in Tasks, DeliverStep(t)
        PROVE  WorkInv'
    BY <1>0, <1>1, PostWork, RecordWork, SnapshotWork, ArmWork, FinishWork DEF DeliverStep
  <1>2. ASSUME NEW r \in Requests, Start(r) \/ RequestStep(r)
        PROVE  WorkInv'
    BY <1>1, <1>2, Limits, NextTargetWork, SaveWork, BeginDispatchWork, BeginTestWork,
       BeginReplayWork, BeginUpdateWork, UnlistedWork DEF Start, RequestStep
  <1>3. ASSUME WorkerStep
        PROVE  WorkInv'
    BY <1>1, <1>3, Limits, FetchWork, DequeueWork, TickWork DEF WorkerStep
  <1> QED
    BY <1>2, <1>3, ElapseWork, ExpireWork, CreateEndpointWork, DeleteEndpointWork,
       DeleteDLQWork, CrashWork, WorkStutter DEF Next

\* The store, the queue of retries and the jobs are of their types in every state:
\* no attempt exceeds its limit, however many requests, failures and crashes there are
\* (Service, Worker).
THEOREM WebhooksTypeCorrect == Spec => []TypeOK
  <1>1. Spec => []WorkInv
    BY WorkInit, WorkNext, PTL DEF Spec
  <1> QED
    BY <1>1, PTL DEF WorkInv

-----------------------------------------------------------------------------
(* Nothing is lost.                                                         *)

\* An event that the worker is at still waits by the row it fired, or its endpoint
\* is gone (RetryDelivery removes that row last).
LEMMA FiredStays ==
    ASSUME WorkInv, task[Worker].pc \in Delivering
    PROVE  \/ Notice(Worker) \in missed
           \/ /\ task[Worker].old \in Waiting /\ NoticeOf(task[Worker].old) = Notice(Worker)
              /\ Exists(task[Worker].old)
  <1>1. PICK d : d = task[Worker].old
    OBVIOUS
  <1>2. d \in DOMAIN rows /\ NoticeOf(d) = Notice(Worker) /\ (Exists(d) => d \in Waiting)
    BY <1>1 DEF WorkInv, Work, WorkerOk
  <1>3. CASE Exists(d)
    BY <1>1, <1>2, <1>3
  <1>4. CASE ~Exists(d)
    <2>1. NoticeOf(d) \in owed /\ NoticeOf(d).ep = rows[d].ep /\ rows[d].ep \in Endpoints
      BY <1>2, RowType DEF WorkInv, Work, OwedOk, NoticeOf
    <2>2. endpoint[rows[d].ep].row \in {"none", "live", "deleted"}
      BY <2>1 DEF WorkInv, TypeOK
    <2>3. endpoint[rows[d].ep].row = "deleted"
      BY <1>4, <2>1, <2>2 DEF Exists, Live, WorkInv, Work, OwedOk
    <2> QED
      BY <1>2, <2>1, <2>3 DEF WorkInv, Work, OwedOk
  <1> QED
    BY <1>3, <1>4

\* What is at hand is not lost if it stays at hand, waits or is settled.
LEMMA KeepFrame ==
    ASSUME WorkInv, NoEventLost, RowsGrow, Settled \subseteq Settled',
           \A n \in owed' \ owed : n \in Settled' \/ \E t \in Tasks : n \in Undone(t)',
           \A d \in Waiting : \/ d \in Waiting' \/ NoticeOf(d) \in Settled'
                              \/ \E x \in Waiting' : NoticeOf(x)' = NoticeOf(d),
           \A t \in Tasks : \A n \in Undone(t) :
             \/ n \in Undone(t)' \/ n \in Settled' \/ \E d \in Waiting' : NoticeOf(d)' = n
    PROVE  NoEventLost'
  <1> SUFFICES ASSUME NEW n \in owed'
               PROVE  \/ n \in Settled'
                      \/ \E d \in Waiting' : NoticeOf(d)' = n
                      \/ \E t \in Tasks : n \in Undone(t)'
    BY DEF NoEventLost, Settled
  <1>1. CASE n \notin owed
    BY <1>1
  <1>2. CASE n \in owed /\ n \in Settled
    BY <1>2
  <1>3. CASE \E t \in Tasks : n \in Undone(t)
    BY <1>3
  <1>4. CASE \E d \in Waiting : NoticeOf(d) = n
    <2>1. PICK d \in Waiting : NoticeOf(d) = n
      BY <1>4
    <2>2. d \in DOMAIN rows
      BY DEF WorkInv, TypeOK, Waiting, Range
    <2>3. NoticeOf(d)' = n
      BY <2>1, <2>2 DEF RowsGrow, NoticeOf
    <2> QED
      BY <2>1, <2>3
  <1> QED
    BY <1>1, <1>2, <1>3, <1>4 DEF NoEventLost, Settled

\* Nor is what the worker has handed on.
LEMMA HandedFrame ==
    ASSUME WorkInv, Handed, RowsGrow, Settled \subseteq Settled',
           task'[Worker] = task[Worker]
             \/ (task'[Worker].pc = "dequeue" => task'[Worker].expired),
           \A d \in Waiting : d \in Waiting' \/ NoticeOf(d) \in Settled'
    PROVE  Handed'
  <1>1. CASE task'[Worker].pc = "dequeue" => task'[Worker].expired
    BY <1>1 DEF Handed, At
  <1>2. CASE task'[Worker] = task[Worker] /\ At(Worker, "dequeue") /\ ~task[Worker].expired
    <2>1. Notice(Worker)' = Notice(Worker)
      BY <1>2 DEF Notice
    <2>2. CASE Notice(Worker) \in Settled
      BY <2>1, <2>2 DEF Handed
    <2>3. CASE \E d \in Waiting \ {task[Worker].old} : NoticeOf(d) = Notice(Worker)
      <3>1. PICK d \in Waiting \ {task[Worker].old} : NoticeOf(d) = Notice(Worker)
        BY <2>3
      <3>2. d \in DOMAIN rows
        BY DEF WorkInv, TypeOK, Waiting, Range
      <3>3. NoticeOf(d)' = NoticeOf(d)
        BY <3>2 DEF RowsGrow, NoticeOf
      <3>4. d \in Waiting' => Handed'
        BY <1>2, <2>1, <3>1, <3>3 DEF Handed
      <3>5. NoticeOf(d) \in Settled' => Handed'
        BY <2>1, <3>1 DEF Handed
      <3> QED
        BY <3>1, <3>4, <3>5
    <2> QED
      BY <1>2, <2>2, <2>3 DEF Handed
  <1>3. CASE task'[Worker] = task[Worker] /\ ~(At(Worker, "dequeue") /\ ~task[Worker].expired)
    BY <1>3 DEF Handed, At
  <1> QED
    BY <1>1, <1>2, <1>3

\* Steps that take nothing out of hand.
LEMMA KeepSame ==
    ASSUME WorkInv, KeepInv, RowsGrow, Settled \subseteq Settled', Waiting \subseteq Waiting',
           NEW t \in Tasks, Others(t), Undone(t) \subseteq Undone(t)',
           owed' \ owed \subseteq Undone(t)',
           t = Worker => (task'[t].pc = "dequeue" => task'[t].expired)
    PROVE  KeepInv'
  <1>1. \A u \in Tasks : Undone(u) \subseteq Undone(u)'
    BY UndoneFrame DEF Others
  <1>2. NoEventLost'
    BY <1>1, KeepFrame DEF KeepInv
  <1>3. task'[Worker] = task[Worker] \/ t = Worker
    BY Limits DEF Others
  <1>4. Handed'
    BY <1>3, HandedFrame DEF KeepInv
  <1> QED
    BY <1>2, <1>4 DEF KeepInv

\* The same when no task moves.
LEMMA KeepIdle ==
    ASSUME WorkInv, KeepInv, RowsGrow, Settled \subseteq Settled', UNCHANGED task,
           owed' \ owed \subseteq Settled',
           \A d \in Waiting : d \in Waiting' \/ NoticeOf(d) \in Settled'
    PROVE  KeepInv'
  <1>1. \A u \in Tasks : Undone(u)' = Undone(u)
    BY UndoneFrame
  <1>2. NoEventLost'
    BY <1>1, KeepFrame DEF KeepInv
  <1>3. Handed'
    BY HandedFrame DEF KeepInv
  <1> QED
    BY <1>2, <1>3 DEF KeepInv

\* A delivery that ends: its event is settled, waits by another row than the one the
\* worker fired, or, when the worker's context is over, by that one.
LEMMA KeepLeaves ==
    ASSUME WorkInv, KeepInv, RowsGrow, Grows, UNCHANGED owed, Settled \subseteq Settled',
           Waiting \subseteq Waiting', NEW t \in Tasks, task[t].pc \in Delivering, Leaves(t),
           \/ Notice(t) \in Settled'
           \/ \E d \in Waiting' : NoticeOf(d)' = Notice(t) /\ (t = Worker => d # task[t].old)
           \/ t = Worker /\ task[t].expired
    PROVE  KeepInv'
  <1>1. /\ Undone(t)' = Undone(t) \ {Notice(t)}
        /\ t = Worker => Notice(t)' = Notice(t)
    BY LeavesOk DEF WorkInv
  <1>2. \A u \in Tasks \ {t} : Undone(u)' = Undone(u)
    BY UndoneFrame DEF Leaves, Others
  <1>3. t = Worker => Notice(t) \in Settled' \/ \E d \in Waiting' : NoticeOf(d)' = Notice(t)
    <2>1. ASSUME t = Worker
          PROVE  Notice(t) \in Settled' \/ \E d \in Waiting' : NoticeOf(d)' = Notice(t)
      <3>1. CASE Notice(t) \in missed
        BY <3>1 DEF Settled
      <3>2. CASE task[t].old \in Waiting /\ NoticeOf(task[t].old) = Notice(t)
        <4>1. PICK d : d = task[t].old
          OBVIOUS
        <4>2. d \in DOMAIN rows
          BY <3>2, <4>1 DEF WorkInv, TypeOK, Waiting, Range
        <4>3. NoticeOf(d)' = NoticeOf(d)
          BY <4>2 DEF RowsGrow, NoticeOf
        <4> QED
          BY <3>2, <4>1, <4>3
      <3> QED
        BY <2>1, <3>1, <3>2, FiredStays
    <2> QED
      BY <2>1
  <1>4. NoEventLost'
    <2>1. \A u \in Tasks : \A n \in Undone(u) :
            n \in Undone(u)' \/ n \in Settled' \/ \E d \in Waiting' : NoticeOf(d)' = n
      BY <1>1, <1>2, <1>3
    <2> QED
      BY <2>1, KeepFrame DEF KeepInv
  <1>5. Handed'
    <2>1. CASE t = Worker
      <3>1. task'[t].old = task[t].old /\ task'[t].expired = task[t].expired
        BY <2>1 DEF Leaves, SameDelivery
      <3> QED
        BY <1>1, <2>1, <3>1 DEF Handed
    <2>2. CASE t # Worker
      <3>1. task'[Worker] = task[Worker]
        BY <2>2, Limits DEF Leaves, Others
      <3> QED
        BY <3>1, HandedFrame DEF KeepInv
    <2> QED
      BY <2>1, <2>2
  <1> QED
    BY <1>4, <1>5 DEF KeepInv

\* CreateDelivery, and what a failure of it does.
LEMMA RecordKeeps ==
    ASSUME WorkInv, KeepInv, NEW t \in Tasks, NEW ok \in BOOLEAN, Record(t, ok)
    PROVE  KeepInv'
  <1>0. TypeOK /\ Work /\ TaskType
    BY TypeSplit DEF WorkInv
  <1>1. task[t].pc = "record" /\ task[t].pc \in Delivering
    BY DEF Record, At, Delivering
  <1>2. RowsGrow /\ Waiting' = Waiting /\ Grows
    <2>1. Waiting' = Waiting
      BY DEF Record, Waiting
    <2>2. \A d \in DOMAIN rows : d \in DOMAIN rows' /\ rows'[d] = rows[d]
      <3>1. rows' = rows \/ rows' = Append(rows, DeliveryOf(task[t]))
        BY DEF Record
      <3>2. rows \in Seq(Range(rows))
        BY <1>0 DEF TypeOK, Range
      <3> QED
        BY <3>1, <3>2
    <2>3. RowsGrow
      BY <2>2 DEF RowsGrow, Record
    <2> QED
      BY <2>1, <2>2, <2>3 DEF Grows, Exists, Live, Record
  <1>3. Settled \subseteq Settled' /\ UNCHANGED owed
    BY DEF Settled, Record, Lose
  <1>4. PICK pc : pc = IF task[t].answer = "none" THEN "arm" ELSE "snapshot"
    OBVIOUS
  <1>5. Stays(t, pc) \/ (Leaves(t) /\ missed' = Lose(t))
    BY <1>0, <1>4, RecordEffect
  <1>6. CASE Stays(t, pc)
    <2>1. Undone(t)' = Undone(t) /\ pc \in Delivering
      BY <1>0, <1>1, <1>2, <1>4, <1>6, StaysOk DEF Delivering
    <2>2. Others(t) /\ task'[t].pc = pc
      BY <1>6 DEF Stays
    <2> QED
      BY <1>2, <1>3, <2>1, <2>2, KeepSame DEF Delivering
  <1>7. CASE Leaves(t) /\ missed' = Lose(t)
    <2>1. Notice(t) \in Settled' \/ (t = Worker /\ task[t].expired)
      BY <1>7 DEF Lose, Settled
    <2> QED
      BY <1>1, <1>2, <1>3, <1>7, <2>1, KeepLeaves
  <1> QED
    BY <1>5, <1>6, <1>7

\* EnqueueRetry, moveToDLQ, and what a failure of them does.
LEMMA ArmKeeps ==
    ASSUME WorkInv, KeepInv, NEW t \in Tasks, NEW ok \in BOOLEAN, Arm(t, ok)
    PROVE  KeepInv'
  <1>0. TypeOK /\ Work /\ TaskType /\ DeliveryOk(t)
    BY TypeSplit DEF WorkInv, Work
  <1>1. task[t].pc = "arm" /\ task[t].pc \in Delivering /\ Leaves(t)
    BY <1>0, ArmEffect DEF Arm, At, Delivering
  <1>2. PICK d : d = task[t].row
    OBVIOUS
  <1>3. d \in DOMAIN rows /\ NoticeOf(d) = Notice(t) /\ d \notin Waiting
    BY <1>0, <1>1, <1>2 DEF DeliveryOk, Written
  <1>4. Waiting \subseteq Waiting' /\ RowsGrow /\ Grows
    BY DEF Waiting, RowsGrow, Grows, Exists, Live, Arm
  <1>5. Settled \subseteq Settled' /\ UNCHANGED owed
    BY DEF Settled, Arm, Lose, DeadLetter
  <1>6. \/ Notice(t) \in Settled'
        \/ pending' = pending \cup {d} /\ Exists(d)
        \/ t = Worker /\ task[t].expired
    BY <1>2 DEF Arm, Lose, Settled, DeadLetter
  <1>7. ASSUME pending' = pending \cup {d}, Exists(d)
        PROVE  d \in Waiting' /\ NoticeOf(d)' = Notice(t) /\ (t = Worker => d # task[t].old)
    <2>1. d \in Waiting' /\ NoticeOf(d)' = Notice(t)
      BY <1>3, <1>7 DEF Waiting, NoticeOf, Arm
    <2>2. ASSUME t = Worker
          PROVE  d # task[t].old
      <3>1. /\ task[t].old \in DOMAIN rows /\ NoticeOf(task[t].old) = Notice(t)
            /\ Exists(task[t].old) => task[t].old \in Waiting
        BY <1>0, <1>1, <2>2 DEF Work, WorkerOk
      <3>2. Exists(task[t].old)
        BY <1>3, <1>7, <3>1 DEF NoticeOf, Exists
      <3> QED
        BY <1>3, <3>1, <3>2
    <2> QED
      BY <2>1, <2>2
  <1>8. \/ Notice(t) \in Settled'
        \/ \E x \in Waiting' : NoticeOf(x)' = Notice(t) /\ (t = Worker => x # task[t].old)
        \/ t = Worker /\ task[t].expired
    BY <1>6, <1>7
  <1> QED
    BY <1>1, <1>4, <1>5, <1>8, KeepLeaves

\* The worker removes the row it fired: the event waits by another, or is settled.
LEMMA DequeueKeeps ==
    ASSUME WorkInv, KeepInv, NEW ok \in BOOLEAN, Dequeue(ok)
    PROVE  KeepInv'
  <1>0. TypeOK /\ Work /\ TaskType /\ WorkerOk
    BY TypeSplit DEF WorkInv, Work
  <1>1. PICK old : old = task[Worker].old
    OBVIOUS
  <1>2. /\ Waiting' = IF ok THEN Waiting \ {old} ELSE Waiting
        /\ task'[Worker].pc = "next" /\ task'[Worker].kind = "retry" /\ Others(Worker)
        /\ RowsGrow
    BY <1>0, <1>1, DequeueQueue, DequeueEffect DEF RowsGrow, Dequeue
  <1>3. task[Worker].pc = "dequeue" /\ NoticeOf(old) = Notice(Worker) /\ task[Worker].kind = "retry"
    BY <1>0, <1>1 DEF WorkerOk, Dequeue, At
  <1>4. Settled' = Settled /\ UNCHANGED owed
    BY DEF Settled, Dequeue
  <1>5. ok => NoticeOf(old) \in Settled' \/ \E x \in Waiting' : NoticeOf(x)' = NoticeOf(old)
    <2> SUFFICES ASSUME ok
                 PROVE  NoticeOf(old) \in Settled' \/ \E x \in Waiting' : NoticeOf(x)' = NoticeOf(old)
      OBVIOUS
    <2>1. ~task[Worker].expired
      BY DEF Dequeue, StoreCall
    <2>2. Notice(Worker) \in Settled \/ \E d \in Waiting \ {old} : NoticeOf(d) = Notice(Worker)
      BY <1>1, <1>3, <2>1 DEF KeepInv, Handed, At
    <2>3. \A d : NoticeOf(d)' = NoticeOf(d)
      BY DEF NoticeOf, Dequeue
    <2> QED
      BY <1>2, <1>3, <1>4, <2>2, <2>3
  <1>6. Undone(Worker) = {}
    BY <1>3 DEF Undone
  <1>7. \A u \in Tasks \ {Worker} : Undone(u)' = Undone(u)
    BY <1>2, UndoneFrame DEF Others
  <1>8. NoEventLost'
    <2>1. \A d \in Waiting : \/ d \in Waiting' \/ NoticeOf(d) \in Settled'
                             \/ \E x \in Waiting' : NoticeOf(x)' = NoticeOf(d)
      BY <1>2, <1>5
    <2>2. \A t \in Tasks : \A n \in Undone(t) : n \in Undone(t)'
      BY <1>6, <1>7
    <2> QED
      BY <1>2, <1>4, <2>1, <2>2, KeepFrame DEF KeepInv
  <1>9. Handed'
    BY <1>2 DEF Handed, At
  <1> QED
    BY <1>8, <1>9 DEF KeepInv

\* A crash: what the requests were at is noted, what the worker was at still waits.
LEMMA CrashKeeps ==
    ASSUME WorkInv, KeepInv, Crash
    PROVE  KeepInv'
  <1>0. TypeOK /\ Work /\ TaskType /\ WorkerOk
    BY TypeSplit DEF WorkInv, Work
  <1>1. Waiting' = Waiting /\ \A t \in Tasks : task'[t] = Idle
    BY CrashWork
  <1>2. UNCHANGED <<rows, owed, accepted, dlq>>
        /\ missed' = missed \cup UNION {Undone(r) : r \in Requests}
    BY DEF Crash, store
  <1>3. RowsGrow /\ Settled \subseteq Settled' /\ \A d : NoticeOf(d)' = NoticeOf(d)
    BY <1>2 DEF RowsGrow, Settled, NoticeOf
  <1>4. \A r \in Requests : Undone(r) \subseteq Settled'
    BY <1>2 DEF Settled
  <1>5. ASSUME NEW n \in Undone(Worker)
        PROVE  n \in Settled' \/ \E d \in Waiting' : NoticeOf(d)' = n
    <2>1. task[Worker].kind # "dispatch"
      BY <1>0 DEF WorkerOk
    <2>2. task[Worker].pc \in Delivering /\ n = Notice(Worker)
      BY <1>5, <2>1 DEF Undone, Delivering
    <2>3. Notice(Worker) \in missed
            \/ (task[Worker].old \in Waiting /\ NoticeOf(task[Worker].old) = Notice(Worker))
      BY <2>2, FiredStays
    <2> QED
      BY <1>1, <1>3, <2>2, <2>3 DEF Settled
  <1>6. NoEventLost'
    <2>1. \A t \in Tasks : \A n \in Undone(t) :
            n \in Undone(t)' \/ n \in Settled' \/ \E d \in Waiting' : NoticeOf(d)' = n
      BY <1>4, <1>5, Limits
    <2> QED
      BY <1>1, <1>2, <1>3, <2>1, KeepFrame DEF KeepInv
  <1>7. Handed'
    BY <1>1, Limits DEF Handed, At, Idle
  <1> QED
    BY <1>6, <1>7 DEF KeepInv

\* Steps of one task that leave rows and retries alone.
LEMMA PlainStep ==
    ASSUME UNCHANGED <<rows, pending, due, endpoint>>, owed \subseteq owed', accepted \subseteq accepted'
    PROVE  RowsGrow /\ Grows /\ Waiting' = Waiting /\ \A d : NoticeOf(d)' = NoticeOf(d)
  BY DEF RowsGrow, Grows, Waiting, NoticeOf, Exists, Live

\* The POST takes nothing out of hand.
LEMMA PostKeeps ==
    ASSUME WorkInv, KeepInv, NEW t \in Tasks, NEW answer \in Answers, Post(t, answer)
    PROVE  KeepInv'
  <1>0. TaskType /\ Work
    BY TypeSplit DEF WorkInv
  <1>1. Stays(t, "record") /\ task[t].pc \in Delivering
    BY <1>0, PostEffect DEF Post, At, Delivering
  <1>2. RowsGrow /\ Grows /\ Waiting' = Waiting
    BY PlainStep DEF Post, store
  <1>3. Settled \subseteq Settled' /\ UNCHANGED owed
    BY DEF Settled, Post, store
  <1>4. Undone(t)' = Undone(t)
    BY <1>0, <1>1, <1>2, StaysOk DEF Delivering
  <1> QED
    BY <1>1, <1>2, <1>3, <1>4, KeepSame DEF Stays

\* Nor does the end of a context.
LEMMA ExpireKeeps ==
    ASSUME WorkInv, KeepInv, NEW t \in Tasks, Expire(t)
    PROVE  KeepInv'
  <1>0. TaskType
    BY TypeSplit DEF WorkInv
  <1>1. Stays(t, task[t].pc) /\ task'[t].expired
    BY <1>0, ExpireEffect
  <1>2. RowsGrow /\ Waiting' = Waiting
    BY PlainStep DEF Expire, store, history
  <1>3. Settled \subseteq Settled' /\ UNCHANGED owed
    BY DEF Settled, Expire, store, history
  <1>4. Undone(t)' = Undone(t)
    BY <1>1 DEF Undone, Notice, Stays, SameDelivery
  <1> QED
    BY <1>1, <1>2, <1>3, <1>4, KeepSame DEF Stays

\* Only a 2xx ends a delivery at the update of the endpoint's status.
LEMMA SnapshotKeeps ==
    ASSUME WorkInv, KeepInv, NEW t \in Tasks, NEW ok \in BOOLEAN, Snapshot(t, ok)
    PROVE  KeepInv'
  <1>0. TaskType /\ Work /\ TypeOK
    BY TypeSplit DEF WorkInv
  <1>1. task[t].pc = "snapshot" /\ task[t].pc \in Delivering /\ DeliveryOk(t) /\ task[t] \in Jobs
    BY <1>0 DEF Snapshot, At, Delivering, Work, TaskType
  <1>2. RowsGrow /\ Waiting' = Waiting /\ UNCHANGED owed /\ Settled' = Settled
    BY DEF RowsGrow, Waiting, Settled, Snapshot, history
  <1>3. Grows
    <2>1. ReplaceEndpoint(task[t].ep, task[t].copy) \/ UNCHANGED endpoint
      BY DEF Snapshot
    <2>2. \A x \in Endpoints : endpoint'[x].row = endpoint[x].row
      BY <1>0, <1>1, <2>1, ReplaceEffect DEF DeliveryOk, Jobs, TypeOK, EndpointType
    <2>3. \A d \in DOMAIN rows : Exists(d)' <=> Exists(d)
      BY <1>0, <2>2, RowType DEF Exists, Live, Snapshot
    <2> QED
      BY <1>2, <2>3 DEF Grows
  <1>4. CASE Stays(t, "arm")
    <2>1. Undone(t)' = Undone(t)
      BY <1>0, <1>1, <1>3, <1>4, StaysOk DEF Delivering
    <2> QED
      BY <1>2, <1>4, <2>1, KeepSame DEF Stays
  <1>5. CASE task[t].answer = "2xx" /\ Leaves(t)
    <2>1. Notice(t) \in Settled'
      BY <1>1, <1>2, <1>5 DEF DeliveryOk, Settled
    <2> QED
      BY <1>1, <1>2, <1>3, <1>5, <2>1, KeepLeaves
  <1> QED
    BY <1>0, <1>4, <1>5, SnapshotEffect

\* RetryDelivery takes an event up and leaves its row in place.
LEMMA FetchKeeps ==
    ASSUME WorkInv, KeepInv, NEW ok \in BOOLEAN, Fetch(ok)
    PROVE  KeepInv'
  <1>0. TypeOK /\ TaskType /\ WorkerOk
    BY TypeSplit DEF WorkInv, Work
  <1>1. Others(Worker) /\ task'[Worker].pc \in {"next", "post"}
    BY <1>0, FetchEffect
  <1>2. RowsGrow /\ Waiting' = Waiting
    BY PlainStep DEF Fetch, store, history
  <1>3. Settled \subseteq Settled' /\ UNCHANGED owed
    BY DEF Settled, Fetch, store, history
  <1>4. Undone(Worker) = {}
    BY <1>0 DEF Undone, WorkerOk, Fetch, At
  <1> QED
    BY <1>1, <1>2, <1>3, <1>4, Limits, KeepSame

\* A tick only looks at the due retries.
LEMMA TickKeeps ==
    ASSUME WorkInv, KeepInv, Tick
    PROVE  KeepInv'
  <1>0. TypeOK /\ TaskType /\ WorkerOk
    BY TypeSplit DEF WorkInv, Work
  <1>1. Others(Worker) /\ task'[Worker].pc = "next"
    BY <1>0, TickEffect
  <1>2. RowsGrow /\ Waiting' = Waiting
    BY PlainStep DEF Tick, store, history
  <1>3. Settled \subseteq Settled' /\ UNCHANGED owed
    BY DEF Settled, Tick, store, history
  <1>4. Undone(Worker) = {}
    BY <1>0 DEF Undone, WorkerOk, Tick, At
  <1> QED
    BY <1>1, <1>2, <1>3, <1>4, Limits, KeepSame

\* A dispatch has the same events at hand before and after.
LEMMA NextTargetKeeps ==
    ASSUME WorkInv, KeepInv, NEW r \in Requests, NextTarget(r)
    PROVE  KeepInv'
  <1>0. TaskType /\ RequestOk(r) /\ r \in Tasks /\ r # Worker
    BY TypeSplit, Limits DEF WorkInv, Work
  <1>1. Others(r)
    BY <1>0, NextTargetEffect
  <1>2. RowsGrow /\ Waiting' = Waiting
    BY PlainStep DEF NextTarget, store, history
  <1>3. Settled \subseteq Settled' /\ UNCHANGED owed
    BY DEF Settled, NextTarget, store, history
  <1>4. Undone(r)' = Undone(r)
    BY NextTargetWork
  <1> QED
    BY <1>0, <1>1, <1>2, <1>3, <1>4, KeepSame

\* A task that ends had nothing at hand.
LEMMA FinishKeeps ==
    ASSUME WorkInv, KeepInv, NEW t \in Tasks, Finish(t)
    PROVE  KeepInv'
  <1>0. TaskType
    BY TypeSplit DEF WorkInv
  <1>1. Others(t) /\ task'[t].pc = "idle"
    BY <1>0, FinishEffect DEF Idle
  <1>2. RowsGrow /\ Waiting' = Waiting
    BY PlainStep DEF Finish, store, history
  <1>3. Settled \subseteq Settled' /\ UNCHANGED owed
    BY DEF Settled, Finish, store, history
  <1>4. Undone(t) = {}
    BY FinishWork
  <1> QED
    BY <1>1, <1>2, <1>3, <1>4, KeepSame

\* Nor had an Update.
LEMMA SaveKeeps ==
    ASSUME WorkInv, KeepInv, NEW r \in Requests, NEW ok \in BOOLEAN, SaveEndpoint(r, ok)
    PROVE  KeepInv'
  <1>0. TaskType /\ r \in Tasks /\ r # Worker
    BY TypeSplit, Limits DEF WorkInv
  <1>1. Others(r)
    BY <1>0, SaveEffect
  <1>2. RowsGrow /\ Waiting' = Waiting
    BY DEF RowsGrow, Waiting, SaveEndpoint
  <1>3. Settled \subseteq Settled' /\ UNCHANGED owed
    BY DEF Settled, SaveEndpoint
  <1>4. Undone(r) = {}
    BY SaveWork
  <1> QED
    BY <1>0, <1>1, <1>2, <1>3, <1>4, KeepSame

\* A request that begins with an event of its own, a replay or an update.
LEMMA StartKeeps ==
    ASSUME WorkInv, KeepInv, NEW r \in Requests, Begins(r)
    PROVE  KeepInv'
  <1>0. TaskType /\ TypeOK /\ r \in Tasks /\ r # Worker
    BY TypeSplit, Limits DEF WorkInv
  <1>1. PICK j : Begin(r, j)
    BY DEF Begins, BeginDispatch, BeginTest, BeginReplay, BeginUpdate
  <1>2. Others(r)
    BY <1>0, <1>1 DEF Begin, TaskType, Others
  <1>3. owed \subseteq owed' /\ UNCHANGED <<accepted, missed>>
    BY DEF Begins, BeginDispatch, BeginTest, BeginReplay, BeginUpdate, history
  <1>4. RowsGrow /\ Settled \subseteq Settled'
    BY <1>1, <1>3, PlainStep DEF Settled, Begin, store
  <1>5. Waiting' = Waiting /\ Undone(r) = {} /\ owed' \ owed \subseteq Undone(r)'
    <2>1. CASE BeginDispatch(r)
      BY <2>1, BeginDispatchWork
    <2>2. CASE \E e \in Endpoints : BeginTest(r, e)
      BY <2>2, BeginTestWork
    <2>3. CASE \E n \in dlq : BeginReplay(r, n)
      <3>1. owed' = owed
        BY <2>3 DEF BeginReplay
      <3> QED
        BY <2>3, <3>1, BeginReplayWork
    <2>4. CASE \E e \in Endpoints, patch \in Patches : BeginUpdate(r, e, patch)
      <3>1. owed' = owed
        BY <2>4 DEF BeginUpdate, history
      <3> QED
        BY <2>4, <3>1, BeginUpdateWork
    <2> QED
      BY <2>1, <2>2, <2>3, <2>4 DEF Begins
  <1> QED
    BY <1>0, <1>2, <1>4, <1>5, KeepSame

\* The steps of the operator and of time, and no step.
LEMMA RestKeeps ==
    ASSUME WorkInv, KeepInv,
           \/ \E d \in pending : Elapse(d)
           \/ \E e \in Endpoints, enabled \in BOOLEAN : CreateEndpoint(e, enabled)
           \/ \E e \in Endpoints : DeleteEndpoint(e)
           \/ \E n \in dlq : DeleteDLQ(n)
           \/ \E r \in Requests : DispatchUnlisted(r)
           \/ UNCHANGED vars
    PROVE  KeepInv'
  <1>0. UNCHANGED <<rows, task, accepted>> /\ owed \subseteq owed' /\ owed' \ owed \subseteq missed'
    BY DEF Elapse, CreateEndpoint, DeleteEndpoint, DeleteDLQ, DispatchUnlisted, vars, store, history
  <1>1. UNCHANGED <<rows, task, accepted>> /\ owed \subseteq owed' /\ owed' \ owed \subseteq Settled'
    BY <1>0 DEF Settled
  <1>2. RowsGrow
    BY <1>1 DEF RowsGrow
  <1>3. Settled \subseteq Settled'
    BY DEF Elapse, CreateEndpoint, DeleteEndpoint, DeleteDLQ, DispatchUnlisted, vars, store, history, Settled
  <1>4. \A d \in Waiting : d \in Waiting' \/ NoticeOf(d) \in Settled'
    <2>1. ASSUME NEW e \in Endpoints, DeleteEndpoint(e), NEW d \in Waiting, rows[d].ep = e
          PROVE  NoticeOf(d) \in Settled'
      <3>1. d \in DOMAIN rows
        BY DEF WorkInv, TypeOK, Waiting, Range
      <3>2. NoticeOf(d) \in owed /\ NoticeOf(d).ep = e
        BY <2>1, <3>1 DEF WorkInv, Work, OwedOk, NoticeOf
      <3> QED
        BY <2>1, <3>2 DEF DeleteEndpoint, Settled
    <2>2. CASE \E e \in Endpoints : DeleteEndpoint(e)
      BY <2>1, <2>2, DeleteEndpointQueue
    <2>3. CASE UNCHANGED vars
      BY <2>3 DEF vars, store, Waiting
    <2> QED
      BY <2>2, <2>3, ElapseWork, CreateEndpointWork, DeleteDLQWork, UnlistedWork
  <1> QED
    BY <1>1, <1>2, <1>3, <1>4, KeepIdle

\* Every step keeps what is owed.
LEMMA KeepNext ==
    ASSUME WorkInv, KeepInv, [Next]_vars
    PROVE  KeepInv'
  <1>0. {"2xx", "other", "none"} = Answers
    BY DEF Answers
  <1>1. ASSUME NEW t \in Tasks, DeliverStep(t)
        PROVE  KeepInv'
    BY <1>0, <1>1, PostKeeps, RecordKeeps, SnapshotKeeps, ArmKeeps, FinishKeeps DEF DeliverStep
  <1>2. ASSUME NEW r \in Requests, Start(r) \/ RequestStep(r)
        PROVE  KeepInv'
    BY <1>1, <1>2, Limits, NextTargetKeeps, SaveKeeps, StartKeeps, RestKeeps
       DEF Start, Begins, RequestStep
  <1>3. ASSUME WorkerStep
        PROVE  KeepInv'
    BY <1>1, <1>3, Limits, FetchKeeps, DequeueKeeps, TickKeeps DEF WorkerStep
  <1> QED
    BY <1>2, <1>3, ExpireKeeps, CrashKeeps, RestKeeps DEF Next

\* For any endpoints, requests, failures, expiries and crashes, an event that was set
\* out for an endpoint is accepted, waits for a retry, is in the DLQ, is at hand, or was
\* lost for one of the named reasons: no crash and no expiry in the worker loses one
\* (deliverSync, RetryDelivery).
THEOREM NothingIsLost == Spec => []NoEventLost
  <1>1. Init => WorkInv /\ KeepInv
    BY WorkInit, Limits DEF Init, KeepInv, NoEventLost, Handed, At, Idle
  <1>2. WorkInv /\ KeepInv /\ [Next]_vars => (WorkInv /\ KeepInv)'
    BY WorkNext, KeepNext
  <1>3. Spec => [](WorkInv /\ KeepInv)
    BY <1>1, <1>2, PTL DEF Spec
  <1> QED
    BY <1>3, PTL DEF KeepInv

-----------------------------------------------------------------------------
(* One chain of attempts.                                                   *)

\* The worker is not at an event it was not at before, and does not leave the row it
\* fired behind.
WorkerCalm ==
  \/ /\ task[Worker].pc \in Delivering /\ task'[Worker].pc \in Delivering
     /\ Notice(Worker)' = Notice(Worker) /\ task'[Worker].old = task[Worker].old
  \/ /\ task[Worker].pc \in Delivering \cup {"dequeue"} /\ task'[Worker].pc = "dequeue"
     /\ task'[Worker].old = task[Worker].old
  \/ task[Worker].pc # "dequeue" /\ task'[Worker].pc \notin Delivering \cup {"dequeue"}

\* Steps that start nothing but what was doubled: no chain is begun twice by them.
LEMMA ChainFrame ==
    ASSUME WorkInv, ChainInv, RowsGrow, doubled \subseteq doubled', Waiting' \subseteq Waiting,
           \A t \in Tasks : Undone(t)' \ doubled' \subseteq Undone(t), WorkerCalm
    PROVE  ChainInv'
  <1>1. \A d \in Waiting' : d \in Waiting /\ NoticeOf(d)' = NoticeOf(d)
    <2>1. \A d \in Waiting : d \in DOMAIN rows
      BY DEF WorkInv, TypeOK, Waiting, Range
    <2>2. \A d \in DOMAIN rows : NoticeOf(d)' = NoticeOf(d)
      BY DEF RowsGrow, NoticeOf
    <2> QED
      BY <2>1, <2>2
  <1>2. SingleChain'
    <2> SUFFICES ASSUME NEW d1 \in Waiting', NEW d2 \in Waiting',
                        NoticeOf(d1)' = NoticeOf(d2)', d1 # d2, NoticeOf(d1)' \notin doubled'
                 PROVE  task'[Worker].pc = "dequeue" /\ task'[Worker].old \in {d1, d2}
      BY DEF SingleChain, At
    <2>1. /\ d1 \in Waiting /\ d2 \in Waiting /\ NoticeOf(d1) = NoticeOf(d2)
          /\ NoticeOf(d1) \notin doubled
      BY <1>1
    <2>2. task[Worker].pc = "dequeue" /\ task[Worker].old \in {d1, d2}
      BY <2>1 DEF ChainInv, SingleChain, At
    <2> QED
      BY <2>2 DEF WorkerCalm, Delivering
  <1>3. FirstAlone'
    <2> SUFFICES ASSUME NEW r \in Requests, NEW n \in Undone(r)' \ doubled'
                 PROVE  /\ \A d \in Waiting' : NoticeOf(d)' # n
                        /\ \A t \in Tasks \ {r} : n \notin Undone(t)'
      BY DEF FirstAlone
    <2>1. n \in Undone(r) \ doubled
      BY Limits
    <2> QED
      BY <1>1, <2>1 DEF ChainInv, FirstAlone
  <1>4. RetryAlone'
    <2> SUFFICES ASSUME task'[Worker].pc \in Delivering, Notice(Worker)' \notin doubled',
                        NEW d \in Waiting', NoticeOf(d)' = Notice(Worker)'
                 PROVE  d = task'[Worker].old
      BY DEF RetryAlone
    <2>1. /\ task[Worker].pc \in Delivering
          /\ Notice(Worker)' = Notice(Worker) /\ task'[Worker].old = task[Worker].old
      BY DEF WorkerCalm, Delivering
    <2>2. NoticeOf(d) = Notice(Worker) /\ d \in Waiting /\ Notice(Worker) \notin doubled
      BY <1>1, <2>1
    <2> QED
      BY <2>1, <2>2 DEF ChainInv, RetryAlone
  <1> QED
    BY <1>2, <1>3, <1>4 DEF ChainInv

\* A worker that is left alone stays with its event.
LEMMA CalmAside ==
    ASSUME task'[Worker] = task[Worker]
    PROVE  WorkerCalm
  BY DEF WorkerCalm, Notice, Delivering

\* A step of one task, or of none, that begins no delivery.
LEMMA ChainSame ==
    ASSUME WorkInv, ChainInv, RowsGrow, doubled \subseteq doubled', Waiting' \subseteq Waiting,
           NEW t \in Tasks, Others(t), Undone(t)' \ doubled' \subseteq Undone(t),
           t = Worker => WorkerCalm
    PROVE  ChainInv'
  <1>1. \A u \in Tasks \ {t} : Undone(u)' = Undone(u)
    BY UndoneFrame DEF Others
  <1>2. t # Worker => WorkerCalm
    BY CalmAside, Limits DEF Others
  <1> QED
    BY <1>1, <1>2, ChainFrame

\* deliverSync goes on with an event, or is done with it without a retry.
LEMMA DeliverChain ==
    ASSUME WorkInv, ChainInv, NEW t \in Tasks,
           \/ \E answer \in Answers : Post(t, answer)
           \/ \E ok \in BOOLEAN : Record(t, ok) \/ Snapshot(t, ok)
    PROVE  ChainInv'
  <1>0. TypeOK /\ TaskType /\ Work
    BY TypeSplit DEF WorkInv
  <1>1. task[t].pc \in Delivering /\ task[t] \in Jobs
    BY <1>0 DEF Post, Record, Snapshot, At, Delivering, TaskType
  <1>2. UNCHANGED <<pending, due, owed, doubled>> /\ accepted \subseteq accepted'
    BY DEF Post, Record, Snapshot, store, history
  <1>3. Waiting' = Waiting
    BY <1>2 DEF Waiting
  <1>4. RowsGrow
    <2>1. rows' = rows \/ rows' = Append(rows, DeliveryOf(task[t]))
      BY DEF Post, Record, Snapshot, store
    <2>2. rows \in Seq(Range(rows))
      BY <1>0 DEF TypeOK, Range
    <2>3. \A d \in DOMAIN rows : d \in DOMAIN rows' /\ rows'[d] = rows[d]
      BY <2>1, <2>2
    <2> QED
      BY <1>2, <2>3 DEF RowsGrow
  <1>5. Grows
    <2>1. \A x \in Endpoints : endpoint'[x].row = endpoint[x].row
      <3>1. CASE UNCHANGED endpoint
        BY <3>1
      <3>2. CASE \E ok \in BOOLEAN : Snapshot(t, ok)
        <4>1. ReplaceEndpoint(task[t].ep, task[t].copy) \/ UNCHANGED endpoint
          BY <3>2 DEF Snapshot
        <4> QED
          BY <1>0, <1>1, <4>1, ReplaceEffect DEF Work, DeliveryOk, Jobs, TypeOK, EndpointType
      <3> QED
        BY <3>1, <3>2 DEF Post, Record, store
    <2>2. \A d \in DOMAIN rows : Exists(d)' <=> Exists(d)
      BY <1>0, <1>4, <2>1, RowType DEF Exists, Live, RowsGrow
    <2> QED
      BY <1>3, <1>4, <2>2 DEF Grows
  <1>6. (\E pc \in Delivering : Stays(t, pc)) \/ Leaves(t)
    <2>1. ASSUME NEW answer \in Answers, Post(t, answer)
          PROVE  \E pc \in Delivering : Stays(t, pc)
      BY <1>0, <2>1, PostEffect DEF Delivering
    <2>2. ASSUME NEW ok \in BOOLEAN, Record(t, ok)
          PROVE  (\E pc \in Delivering : Stays(t, pc)) \/ Leaves(t)
      <3>1. (IF task[t].answer = "none" THEN "arm" ELSE "snapshot") \in Delivering
        BY DEF Delivering
      <3> QED
        BY <1>0, <2>2, <3>1, RecordEffect
    <2>3. ASSUME NEW ok \in BOOLEAN, Snapshot(t, ok)
          PROVE  (\E pc \in Delivering : Stays(t, pc)) \/ Leaves(t)
      BY <1>0, <2>3, SnapshotEffect DEF Delivering
    <2> QED
      BY <2>1, <2>2, <2>3
  <1>7. CASE \E pc \in Delivering : Stays(t, pc)
    <2>1. PICK pc \in Delivering : Stays(t, pc)
      BY <1>7
    <2>2. Undone(t)' = Undone(t) /\ Notice(t)' = Notice(t)
      BY <1>0, <1>1, <1>5, <2>1, StaysOk
    <2>3. t = Worker => WorkerCalm
      BY <1>1, <2>1, <2>2 DEF WorkerCalm, Stays, SameDelivery
    <2> QED
      BY <1>2, <1>3, <1>4, <2>1, <2>2, <2>3, ChainSame DEF Stays
  <1>8. CASE Leaves(t)
    <2>1. Undone(t)' \subseteq Undone(t)
      BY <1>0, <1>1, <1>5, <1>8, LeavesOk
    <2>2. t = Worker => WorkerCalm
      BY <1>1, <1>8 DEF WorkerCalm, Leaves, SameDelivery
    <2> QED
      BY <1>2, <1>3, <1>4, <1>8, <2>1, <2>2, ChainSame DEF Leaves
  <1> QED
    BY <1>6, <1>7, <1>8

\* The next row waits: it is the first, or the one after the row the worker fired.
LEMMA ArmChain ==
    ASSUME WorkInv, ChainInv, NEW t \in Tasks, NEW ok \in BOOLEAN, Arm(t, ok)
    PROVE  ChainInv'
  <1>0. TypeOK /\ TaskType /\ Work /\ DeliveryOk(t)
    BY TypeSplit DEF WorkInv, Work
  <1>1. task[t].pc = "arm" /\ task[t].pc \in Delivering /\ Leaves(t)
    BY <1>0, ArmEffect DEF Arm, At, Delivering
  <1>2. PICK d : d = task[t].row
    OBVIOUS
  <1>3. d \in DOMAIN rows /\ NoticeOf(d) = Notice(t)
    BY <1>0, <1>1, <1>2 DEF DeliveryOk, Written
  <1>4. UNCHANGED <<rows, owed, accepted, doubled>> /\ RowsGrow /\ Grows
        /\ Waiting' \subseteq Waiting \cup {d} /\ \A x : NoticeOf(x)' = NoticeOf(x)
    BY <1>2 DEF Waiting, RowsGrow, Grows, Exists, Live, NoticeOf, Arm
  <1>5. /\ Undone(t)' = Undone(t) \ {Notice(t)} /\ Notice(t) \in Undone(t)
        /\ t = Worker => Notice(t)' = Notice(t)
    BY <1>0, <1>1, <1>4, LeavesOk DEF Undone, Delivering
  <1>6. \A u \in Tasks \ {t} : task'[u] = task[u] /\ Undone(u)' = Undone(u) /\ Notice(u)' = Notice(u)
    BY <1>1, UndoneFrame DEF Leaves, Others
  <1>7. CASE t = Worker
    <2>1. /\ task'[t].pc = "dequeue" /\ task'[t].old = task[t].old
      BY <1>1, <1>7 DEF Leaves, SameDelivery
    <2>2. \A x \in Waiting : NoticeOf(x) = Notice(t) /\ Notice(t) \notin doubled => x = task[t].old
      BY <1>1, <1>7 DEF ChainInv, RetryAlone
    <2>3. \A x, y \in Waiting : NoticeOf(x) = NoticeOf(y) /\ x # y => NoticeOf(x) \in doubled
      BY <1>1, <1>7 DEF ChainInv, SingleChain, At
    <2>4. SingleChain'
      <3> SUFFICES ASSUME NEW x \in Waiting', NEW y \in Waiting', NoticeOf(x) = NoticeOf(y), x # y,
                          NoticeOf(x) \notin doubled
                   PROVE  task[t].old \in {x, y}
        BY <1>4, <1>7, <2>1 DEF SingleChain, At
      <3>1. ~(x \in Waiting /\ y \in Waiting)
        BY <2>3
      <3>2. CASE x = d /\ y \in Waiting
        BY <1>3, <2>2, <3>2
      <3>3. CASE y = d /\ x \in Waiting
        BY <1>3, <2>2, <3>3
      <3> QED
        BY <1>4, <3>1, <3>2, <3>3
    <2>5. FirstAlone'
      <3> SUFFICES ASSUME NEW r \in Requests, NEW n \in Undone(r) \ doubled
                   PROVE  /\ \A x \in Waiting' : NoticeOf(x) # n
                          /\ \A u \in Tasks \ {r} : n \notin Undone(u)'
        BY <1>4, <1>6, <1>7, Limits DEF FirstAlone
      <3>1. /\ \A x \in Waiting : NoticeOf(x) # n
            /\ \A u \in Tasks \ {r} : n \notin Undone(u)
        BY DEF ChainInv, FirstAlone
      <3>2. n # Notice(t)
        BY <1>5, <1>7, <3>1, Limits
      <3> QED
        BY <1>3, <1>4, <1>5, <1>6, <1>7, <3>1, <3>2
    <2>6. RetryAlone'
      BY <1>7, <2>1 DEF RetryAlone, Delivering
    <2> QED
      BY <2>4, <2>5, <2>6 DEF ChainInv
  <1>8. CASE t # Worker
    <2>0. t \in Requests /\ task'[Worker] = task[Worker] /\ Notice(Worker)' = Notice(Worker)
      BY <1>6, <1>8, Limits
    <2>1. Notice(t) \notin doubled =>
            /\ \A x \in Waiting : NoticeOf(x) # Notice(t)
            /\ \A u \in Tasks \ {t} : Notice(t) \notin Undone(u)
      BY <1>5, <2>0 DEF ChainInv, FirstAlone
    <2>2. SingleChain'
      <3> SUFFICES ASSUME NEW x \in Waiting', NEW y \in Waiting', NoticeOf(x) = NoticeOf(y), x # y,
                          NoticeOf(x) \notin doubled
                   PROVE  At(Worker, "dequeue") /\ task[Worker].old \in {x, y}
        BY <1>4, <2>0 DEF SingleChain, At
      <3>1. x \in Waiting /\ y \in Waiting
        BY <1>3, <1>4, <2>1
      <3> QED
        BY <3>1 DEF ChainInv, SingleChain
    <2>3. FirstAlone'
      <3> SUFFICES ASSUME NEW r \in Requests, NEW n \in Undone(r)' \ doubled
                   PROVE  /\ \A x \in Waiting' : NoticeOf(x) # n
                          /\ \A u \in Tasks \ {r} : n \notin Undone(u)'
        BY <1>4 DEF FirstAlone
      <3>1. n \in Undone(r)
        BY <1>5, <1>6, Limits
      <3>2. /\ \A x \in Waiting : NoticeOf(x) # n
            /\ \A u \in Tasks \ {r} : n \notin Undone(u)
        BY <3>1 DEF ChainInv, FirstAlone
      <3>3. n # Notice(t)
        BY <1>5, <3>2
      <3> QED
        BY <1>3, <1>4, <1>5, <1>6, <3>2, <3>3
    <2>4. RetryAlone'
      <3> SUFFICES ASSUME task[Worker].pc \in Delivering, Notice(Worker) \notin doubled,
                          NEW x \in Waiting', NoticeOf(x) = Notice(Worker)
                   PROVE  x = task[Worker].old
        BY <1>4, <2>0 DEF RetryAlone
      <3>1. Notice(Worker) \in Undone(Worker)
        BY DEF Undone, Delivering
      <3>2. Notice(Worker) # Notice(t)
        BY <1>8, <2>1, <3>1, Limits
      <3>3. x \in Waiting
        BY <1>3, <1>4, <3>2
      <3> QED
        BY <3>3 DEF ChainInv, RetryAlone
    <2> QED
      BY <2>2, <2>3, <2>4 DEF ChainInv
  <1> QED
    BY <1>7, <1>8

\* The worker takes up an event whose only row is the one that fired.
LEMMA FetchChain ==
    ASSUME WorkInv, ChainInv, NEW ok \in BOOLEAN, Fetch(ok)
    PROVE  ChainInv'
  <1>0. TypeOK /\ TaskType /\ Work /\ WorkerOk
    BY TypeSplit DEF WorkInv, Work
  <1>1. PICK d : d = Head(task[Worker].todo)
    OBVIOUS
  <1>2. /\ Others(Worker) /\ task[Worker].pc = "next"
        /\ task[Worker].todo # <<>> /\ task'[Worker].kind = "retry"
        /\ \/ task'[Worker].pc = "next"
           \/ /\ Exists(d)
              /\ task'[Worker].pc = "post" /\ task'[Worker].event = rows[d].event
              /\ task'[Worker].ep = rows[d].ep /\ task'[Worker].old = d
    BY <1>0, <1>1, FetchEffect DEF Fetch, At
  <1>3. /\ RowsGrow /\ Waiting' = Waiting /\ \A x : NoticeOf(x)' = NoticeOf(x)
        /\ UNCHANGED <<doubled, owed>>
    BY PlainStep DEF Fetch, store, history
  <1>4. CASE task'[Worker].pc = "next"
    <2>1. Undone(Worker)' = {}
      BY <1>2, <1>4 DEF Undone
    <2>2. WorkerCalm
      BY <1>2, <1>4 DEF WorkerCalm, Delivering
    <2> QED
      BY <1>2, <1>3, <2>1, <2>2, Limits, ChainSame
  <1>5. CASE task'[Worker].pc = "post"
    <2>1. Notice(Worker)' = NoticeOf(d) /\ Undone(Worker)' = {NoticeOf(d)} /\ task'[Worker].old = d
      BY <1>2, <1>5 DEF Notice, NoticeOf, Undone
    <2>2. d \in Waiting
      <3>1. task[Worker].todo \in Seq(Endpoints \cup Nat)
        BY <1>0, Limits DEF TaskType, Jobs
      <3>2. d \in Range(task[Worker].todo)
        BY <1>1, <1>2, <3>1, TailOf
      <3> QED
        BY <1>0, <1>2, <1>5, <3>2 DEF WorkerOk
    <2>3. \A x, y \in Waiting : NoticeOf(x) = NoticeOf(y) /\ x # y => NoticeOf(x) \in doubled
      BY <1>2 DEF ChainInv, SingleChain, At
    <2>4. SingleChain'
      BY <1>3, <2>3 DEF SingleChain
    <2>5. \A u \in Tasks \ {Worker} : Undone(u)' = Undone(u)
      BY <1>2, UndoneFrame DEF Others
    <2>6. FirstAlone'
      <3> SUFFICES ASSUME NEW r \in Requests, NEW n \in Undone(r) \ doubled
                   PROVE  /\ \A x \in Waiting : NoticeOf(x) # n
                          /\ \A u \in Tasks \ {r} : n \notin Undone(u)'
        BY <1>3, <2>5, Limits DEF FirstAlone
      <3>1. /\ \A x \in Waiting : NoticeOf(x) # n
            /\ \A u \in Tasks \ {r} : n \notin Undone(u)
        BY DEF ChainInv, FirstAlone
      <3> QED
        BY <2>1, <2>2, <2>5, <3>1
    <2>7. RetryAlone'
      BY <1>3, <2>1, <2>2, <2>3 DEF RetryAlone
    <2> QED
      BY <2>4, <2>6, <2>7 DEF ChainInv
  <1> QED
    BY <1>2, <1>4, <1>5

\* The row that fired is gone, or the event is noted as doubled.
LEMMA DequeueChain ==
    ASSUME WorkInv, ChainInv, NEW ok \in BOOLEAN, Dequeue(ok)
    PROVE  ChainInv'
  <1>0. TypeOK /\ TaskType /\ Work /\ WorkerOk
    BY TypeSplit DEF WorkInv, Work
  <1>1. PICK old : old = task[Worker].old
    OBVIOUS
  <1>2. /\ Waiting' = IF ok THEN Waiting \ {old} ELSE Waiting
        /\ task'[Worker].pc = "next" /\ task'[Worker].kind = "retry" /\ Others(Worker)
        /\ RowsGrow
    BY <1>0, <1>1, DequeueQueue, DequeueEffect DEF RowsGrow, Dequeue
  <1>3. task[Worker].pc = "dequeue" /\ NoticeOf(old) = Notice(Worker)
    BY <1>0, <1>1 DEF WorkerOk, Dequeue, At
  <1>4. /\ doubled' = IF ok THEN doubled ELSE doubled \cup {NoticeOf(old)}
        /\ \A x : NoticeOf(x)' = NoticeOf(x)
    BY <1>3 DEF Dequeue, NoticeOf
  <1>5. Undone(Worker)' = {}
    BY <1>2 DEF Undone
  <1>6. \A u \in Tasks \ {Worker} : Undone(u)' = Undone(u)
    BY <1>2, UndoneFrame DEF Others
  <1>7. SingleChain'
    <2> SUFFICES ASSUME NEW x \in Waiting', NEW y \in Waiting', NoticeOf(x) = NoticeOf(y), x # y,
                        NoticeOf(x) \notin doubled'
                 PROVE  FALSE
      BY <1>4 DEF SingleChain
    <2>1. x \in Waiting /\ y \in Waiting /\ NoticeOf(x) \notin doubled
      BY <1>2, <1>4
    <2>2. old \in {x, y}
      BY <1>1, <2>1 DEF ChainInv, SingleChain
    <2>3. CASE ok
      BY <1>2, <2>2, <2>3
    <2>4. CASE ~ok
      BY <1>4, <2>2, <2>4
    <2> QED
      BY <2>3, <2>4
  <1>8. FirstAlone'
    <2> SUFFICES ASSUME NEW r \in Requests, NEW n \in Undone(r) \ doubled
                 PROVE  /\ \A x \in Waiting : NoticeOf(x) # n
                        /\ \A u \in Tasks \ {r} : n \notin Undone(u)'
      BY <1>2, <1>4, <1>6, Limits DEF FirstAlone
    <2>1. /\ \A x \in Waiting : NoticeOf(x) # n
          /\ \A u \in Tasks \ {r} : n \notin Undone(u)
      BY DEF ChainInv, FirstAlone
    <2> QED
      BY <1>5, <1>6, <2>1
  <1>9. RetryAlone'
    BY <1>2 DEF RetryAlone, Delivering
  <1> QED
    BY <1>7, <1>8, <1>9 DEF ChainInv

\* A crash of the worker between its attempt and the removal of the old row is noted.
LEMMA CrashChain ==
    ASSUME WorkInv, ChainInv, Crash
    PROVE  ChainInv'
  <1>0. WorkerOk
    BY DEF WorkInv, Work
  <1>1. Waiting' = Waiting /\ \A t \in Tasks : task'[t] = Idle /\ Undone(t)' = {}
    BY CrashWork
  <1>2. \A d : NoticeOf(d)' = NoticeOf(d)
    BY DEF Crash, store, NoticeOf
  <1>3. /\ doubled \subseteq doubled'
        /\ task[Worker].pc = "dequeue" => Notice(Worker) \in doubled'
    BY DEF Crash
  <1>4. SingleChain'
    <2> SUFFICES ASSUME NEW x \in Waiting, NEW y \in Waiting, NoticeOf(x) = NoticeOf(y), x # y,
                        NoticeOf(x) \notin doubled'
                 PROVE  FALSE
      BY <1>1, <1>2 DEF SingleChain
    <2>1. task[Worker].pc = "dequeue" /\ task[Worker].old \in {x, y}
      BY <1>3 DEF ChainInv, SingleChain, At
    <2>2. NoticeOf(task[Worker].old) = Notice(Worker)
      BY <1>0, <2>1 DEF WorkerOk
    <2> QED
      BY <1>3, <2>1, <2>2
  <1>5. FirstAlone'
    BY <1>1, Limits DEF FirstAlone
  <1>6. RetryAlone'
    BY <1>1, Limits DEF RetryAlone, Idle, Delivering
  <1> QED
    BY <1>4, <1>5, <1>6 DEF ChainInv

\* The steps of one task between deliveries, and the end of its deadline.
LEMMA PlainChain ==
    ASSUME WorkInv, ChainInv, NEW t \in Tasks,
           \/ Expire(t) \/ Finish(t)
           \/ t \in Requests /\ NextTarget(t)
           \/ t = Worker /\ Tick
    PROVE  ChainInv'
  <1>0. TypeOK /\ TaskType /\ Work
    BY TypeSplit DEF WorkInv
  <1>1. RowsGrow /\ Waiting' = Waiting /\ UNCHANGED doubled
    BY PlainStep DEF Expire, Finish, NextTarget, Tick, store, history
  <1>2. CASE Expire(t)
    <2>1. Stays(t, task[t].pc)
      BY <1>0, <1>2, ExpireEffect
    <2>2. Undone(t)' = Undone(t) /\ Notice(t)' = Notice(t)
      BY <2>1 DEF Undone, Notice, Stays, SameDelivery
    <2>3. t = Worker => WorkerCalm
      BY <2>1, <2>2 DEF WorkerCalm, Stays, SameDelivery
    <2> QED
      BY <1>1, <2>1, <2>2, <2>3, ChainSame DEF Stays
  <1>3. CASE Finish(t)
    <2>0. Others(t) /\ task'[t] = Idle /\ Idle.pc = "idle" /\ Undone(t)' = {}
      BY <1>0, <1>3, FinishEffect, FinishWork DEF Idle
    <2>1. Others(t) /\ task'[t].pc = "idle" /\ task[t].pc = "next" /\ Undone(t)' = {}
      BY <1>3, <2>0 DEF Finish, At
    <2>2. t = Worker => WorkerCalm
      BY <2>1 DEF WorkerCalm, Delivering
    <2> QED
      BY <1>1, <2>1, <2>2, ChainSame
  <1>4. CASE t \in Requests /\ NextTarget(t)
    <2>1. RequestOk(t) /\ t # Worker
      BY <1>0, <1>4, Limits DEF Work
    <2>2. Others(t) /\ Undone(t)' = Undone(t)
      BY <1>0, <1>4, <2>1, NextTargetEffect, NextTargetWork
    <2> QED
      BY <1>1, <2>1, <2>2, ChainSame
  <1>5. CASE t = Worker /\ Tick
    <2>1. /\ Others(Worker) /\ task'[Worker].pc = "next" /\ task'[Worker].kind = "retry"
          /\ task[Worker].pc = "idle"
      BY <1>0, <1>5, TickEffect DEF Tick, At
    <2>2. Undone(Worker)' = {} /\ WorkerCalm
      BY <2>1 DEF Undone, WorkerCalm, Delivering
    <2> QED
      BY <1>1, <1>5, <2>1, <2>2, ChainSame
  <1> QED
    BY <1>2, <1>3, <1>4, <1>5

\* An Update, or the replay of a dead letter, which is noted as doubled.
LEMMA EditChain ==
    ASSUME WorkInv, ChainInv, NEW r \in Requests,
           \/ \E ok \in BOOLEAN : SaveEndpoint(r, ok)
           \/ \E n \in dlq : BeginReplay(r, n)
           \/ \E e \in Endpoints, patch \in Patches : BeginUpdate(r, e, patch)
    PROVE  ChainInv'
  <1>0. TaskType /\ r \in Tasks /\ r # Worker
    BY TypeSplit, Limits DEF WorkInv
  <1>1. \E j : task' = [task EXCEPT ![r] = j]
    BY DEF SaveEndpoint, BeginReplay, BeginUpdate, Begin
  <1>2. Others(r)
    BY <1>0, <1>1 DEF TaskType, Others
  <1>3. UNCHANGED <<rows, pending, due, owed, accepted>> /\ doubled \subseteq doubled'
    BY DEF SaveEndpoint, BeginReplay, BeginUpdate, Begin, store, history
  <1>4. RowsGrow /\ Waiting' = Waiting
    BY <1>3 DEF RowsGrow, Waiting
  <1>5. Undone(r)' \subseteq doubled'
    <2>1. CASE \E n \in dlq : BeginReplay(r, n)
      BY <2>1, BeginReplayWork DEF BeginReplay
    <2> QED
      BY <2>1, SaveWork, BeginUpdateWork
  <1> QED
    BY <1>0, <1>2, <1>3, <1>4, <1>5, ChainSame

\* A request that begins with an event that nobody has seen.
LEMMA FreshChain ==
    ASSUME WorkInv, ChainInv, NEW r \in Requests,
           \/ BeginDispatch(r)
           \/ \E e \in Endpoints : BeginTest(r, e)
    PROVE  ChainInv'
  <1>0. TypeOK /\ TaskType /\ Work /\ r \in Tasks /\ r # Worker
    BY TypeSplit, Limits DEF WorkInv
  <1>1. /\ Waiting' = Waiting
        /\ \A n \in Undone(r)' : \A m \in owed : m.event # n.event
    BY BeginDispatchWork, BeginTestWork
  <1>2. PICK j : Begin(r, j)
    BY DEF BeginDispatch, BeginTest
  <1>3. Others(r) /\ UNCHANGED <<rows, doubled>>
    BY <1>0, <1>2 DEF Begin, TaskType, Others, store, BeginDispatch, BeginTest
  <1>4. \A u \in Tasks \ {r} : task'[u] = task[u] /\ Undone(u)' = Undone(u) /\ Notice(u)' = Notice(u)
    BY <1>3, UndoneFrame DEF Others
  <1>5. \A d \in Waiting : d \in DOMAIN rows /\ NoticeOf(d) \in owed /\ NoticeOf(d)' = NoticeOf(d)
    <2>1. \A d \in Waiting : d \in DOMAIN rows
      BY <1>0 DEF TypeOK, Waiting, Range
    <2>2. \A d : NoticeOf(d)' = NoticeOf(d)
      BY <1>3 DEF NoticeOf
    <2> QED
      BY <1>0, <2>1, <2>2 DEF Work, OwedOk
  <1>6. \A u \in Tasks : Undone(u) \subseteq owed
    BY <1>0 DEF Work, DeliveryOk
  <1>7. SingleChain'
    BY <1>0, <1>1, <1>3, <1>4, <1>5, Limits DEF ChainInv, SingleChain, At
  <1>8. FirstAlone'
    <2> SUFFICES ASSUME NEW q \in Requests, NEW n \in Undone(q)' \ doubled
                 PROVE  /\ \A d \in Waiting : NoticeOf(d) # n
                        /\ \A t \in Tasks \ {q} : n \notin Undone(t)'
      BY <1>1, <1>3, <1>5 DEF FirstAlone
    <2>1. CASE q = r
      BY <1>1, <1>4, <1>5, <1>6, <2>1
    <2>2. CASE q # r
      <3>1. n \in Undone(q) /\ n \in owed
        BY <1>4, <1>6, <2>2, Limits
      <3>2. n \notin Undone(r)'
        BY <1>1, <3>1
      <3> QED
        BY <1>4, <3>1, <3>2 DEF ChainInv, FirstAlone
    <2> QED
      BY <2>1, <2>2
  <1>9. RetryAlone'
    <2>1. task'[Worker] = task[Worker] /\ Notice(Worker)' = Notice(Worker)
      BY <1>0, <1>4, Limits
    <2> QED
      BY <1>1, <1>3, <1>5, <2>1 DEF ChainInv, RetryAlone
  <1> QED
    BY <1>7, <1>8, <1>9 DEF ChainInv

\* The steps of the operator and of time, and no step.
LEMMA RestChain ==
    ASSUME WorkInv, ChainInv,
           \/ \E d \in pending : Elapse(d)
           \/ \E e \in Endpoints, enabled \in BOOLEAN : CreateEndpoint(e, enabled)
           \/ \E e \in Endpoints : DeleteEndpoint(e)
           \/ \E n \in dlq : DeleteDLQ(n)
           \/ \E r \in Requests : DispatchUnlisted(r)
           \/ UNCHANGED vars
    PROVE  ChainInv'
  <1>1. UNCHANGED <<rows, task, accepted, doubled>> /\ owed \subseteq owed'
    BY DEF Elapse, CreateEndpoint, DeleteEndpoint, DeleteDLQ, DispatchUnlisted, vars, store, history
  <1>2. RowsGrow /\ WorkerCalm
    BY <1>1, CalmAside DEF RowsGrow
  <1>3. \A t \in Tasks : Undone(t)' = Undone(t)
    BY <1>1, UndoneFrame
  <1>4. Waiting' \subseteq Waiting
    <2>1. CASE \E e \in Endpoints : DeleteEndpoint(e)
      BY <2>1, DeleteEndpointQueue
    <2>2. CASE UNCHANGED vars
      BY <2>2 DEF vars, store, Waiting
    <2> QED
      BY <2>1, <2>2, ElapseWork, CreateEndpointWork, DeleteDLQWork, UnlistedWork
  <1> QED
    BY <1>1, <1>2, <1>3, <1>4, ChainFrame

\* Every step keeps one chain of attempts per event.
LEMMA ChainNext ==
    ASSUME WorkInv, ChainInv, [Next]_vars
    PROVE  ChainInv'
  <1>0. {"2xx", "other", "none"} = Answers
    BY DEF Answers
  <1>1. ASSUME NEW t \in Tasks, DeliverStep(t)
        PROVE  ChainInv'
    BY <1>0, <1>1, DeliverChain, ArmChain, PlainChain DEF DeliverStep
  <1>2. ASSUME NEW r \in Requests, Start(r) \/ RequestStep(r)
        PROVE  ChainInv'
    BY <1>1, <1>2, Limits, PlainChain, EditChain, FreshChain, RestChain DEF Start, RequestStep
  <1>3. ASSUME WorkerStep
        PROVE  ChainInv'
    BY <1>1, <1>3, Limits, FetchChain, DequeueChain, PlainChain DEF WorkerStep
  <1> QED
    BY <1>2, <1>3, PlainChain, CrashChain, RestChain DEF Next

\* For any endpoints, requests, failures, expiries and crashes, at most one retry of an
\* event waits at an endpoint, but between the arming of the next and the removal of the
\* one that fired, and but for events replayed or whose old row could not be removed
\* (RetryDelivery).
THEOREM ChainsStaySingle == Spec => []SingleChain
  <1>1. Init => WorkInv /\ ChainInv
    <2>1. Init => Waiting = {} /\ \A t \in Tasks : task[t] = Idle /\ Undone(t) = {}
      BY DEF Init, Waiting, Range, Undone, Idle
    <2>2. ASSUME Init
          PROVE  ChainInv
      BY <2>1, <2>2, Limits DEF ChainInv, SingleChain, FirstAlone, RetryAlone
    <2> QED
      BY <2>2, WorkInit
  <1>2. WorkInv /\ ChainInv /\ [Next]_vars => (WorkInv /\ ChainInv)'
    BY WorkNext, ChainNext
  <1>3. Spec => [](WorkInv /\ ChainInv)
    BY <1>1, <1>2, PTL DEF Spec
  <1> QED
    BY <1>3, PTL DEF ChainInv

-----------------------------------------------------------------------------
(* An accepted event is not sent again.                                     *)

\* Steps in which nothing is accepted, and nothing that was is taken up.
LEMMA AckFrame ==
    ASSUME AckInv, accepted' = accepted, doubled \subseteq doubled',
           \A d \in Waiting' : NoticeOf(d)' \in accepted \ doubled' =>
             d \in Waiting /\ NoticeOf(d)' = NoticeOf(d) /\ (Removing(d) => Removing(d)'),
           \A t \in Tasks : \A n \in Undone(t)' : n \in accepted \ doubled' =>
             n \in Undone(t) /\ (Knows(t, n) => Knows(t, n)')
    PROVE  AckInv'
  <1>1. AckedWaits'
    BY DEF AckInv, AckedWaits, AckedKnown
  <1>2. AckedKnown'
    BY DEF AckInv, AckedWaits, AckedKnown
  <1> QED
    BY <1>1, <1>2 DEF AckInv

\* Steps of one task after which no more retries wait.
LEMMA AckSame ==
    ASSUME WorkInv, AckInv, RowsGrow, UNCHANGED accepted, doubled \subseteq doubled',
           Waiting' \subseteq Waiting, NEW t \in Tasks, Others(t),
           t = Worker => \A d \in Waiting' : NoticeOf(d) \in accepted \ doubled' /\ Removing(d) => Removing(d)',
           \A n \in Undone(t)' : n \in accepted \ doubled' =>
             n \in Undone(t) /\ (Knows(t, n) => Knows(t, n)')
    PROVE  AckInv'
  <1>1. \A d \in Waiting' : d \in Waiting /\ NoticeOf(d)' = NoticeOf(d)
    <2>1. \A d \in Waiting : d \in DOMAIN rows
      BY DEF WorkInv, TypeOK, Waiting, Range
    <2>2. \A d \in DOMAIN rows : NoticeOf(d)' = NoticeOf(d)
      BY DEF RowsGrow, NoticeOf
    <2> QED
      BY <2>1, <2>2
  <1>2. \A u \in Tasks \ {t} : task'[u] = task[u] /\ Undone(u)' = Undone(u) /\ Notice(u)' = Notice(u)
    BY UndoneFrame DEF Others
  <1>3. ASSUME t # Worker, NEW d
        PROVE  Removing(d)' <=> Removing(d)
    BY <1>2, <1>3, Limits DEF Removing
  <1>4. ASSUME NEW u \in Tasks \ {t}, NEW n
        PROVE  Knows(u, n)' <=> Knows(u, n)
    BY <1>2 DEF Knows
  <1>5. \A d \in Waiting' : NoticeOf(d)' \in accepted \ doubled' =>
          d \in Waiting /\ NoticeOf(d)' = NoticeOf(d) /\ (Removing(d) => Removing(d)')
    BY <1>1, <1>3
  <1>6. \A u \in Tasks : \A n \in Undone(u)' : n \in accepted \ doubled' =>
          n \in Undone(u) /\ (Knows(u, n) => Knows(u, n)')
    <2> TAKE u \in Tasks
    <2>1. CASE u = t
      BY <2>1
    <2>2. CASE u # t
      BY <1>2, <1>4, <2>2
    <2> QED
      BY <2>1, <2>2
  <1> QED
    BY <1>5, <1>6, AckFrame

\* What waits for the row the worker fired is at hand, and so its answer is known.
LEMMA AckedInHand ==
    ASSUME WorkInv, AckInv, task[Worker].pc \in Delivering, NEW d, Removing(d),
           NoticeOf(d) \in accepted \ doubled
    PROVE  task[Worker].answer = "2xx"
  <1>1. NoticeOf(d) = Notice(Worker)
    BY DEF WorkInv, Work, WorkerOk, Removing
  <1>2. Notice(Worker) \in Undone(Worker)
    BY DEF Undone, Delivering
  <1> QED
    BY <1>1, <1>2, Limits DEF AckInv, Knows, AckedWaits, AckedKnown
\* A 2xx is of the only attempt there is, and of the row that fired for it.
LEMMA PostAck ==
    ASSUME WorkInv, ChainInv, AckInv, NEW t \in Tasks, NEW answer \in Answers, Post(t, answer)
    PROVE  AckInv'
  <1>0. TypeOK /\ TaskType /\ Work
    BY TypeSplit DEF WorkInv
  <1>1. task[t].pc = "post" /\ task[t].pc \in Delivering /\ Stays(t, "record") /\ task'[t].answer = answer
    BY <1>0, PostEffect DEF Post, At, Delivering
  <1>2. /\ RowsGrow /\ Grows /\ Waiting' = Waiting /\ UNCHANGED doubled
        /\ \A d : NoticeOf(d)' = NoticeOf(d)
        /\ accepted' = IF answer = "2xx" THEN accepted \cup {Notice(t)} ELSE accepted
    BY PlainStep DEF Post, store
  <1>3. Undone(t)' = Undone(t) /\ Notice(t)' = Notice(t) /\ Notice(t) \in Undone(t)
    BY <1>0, <1>1, <1>2, StaysOk DEF Undone, Delivering
  <1>4. \A u \in Tasks \ {t} : task'[u] = task[u] /\ Undone(u)' = Undone(u) /\ Notice(u)' = Notice(u)
    BY <1>1, UndoneFrame DEF Stays, Others
  <1>5. \A n \in accepted \ doubled : n \notin Undone(t)
    BY <1>1 DEF AckInv, Knows, AckedWaits, AckedKnown
  <1>6. \A n \in accepted \ doubled : \A d \in Waiting' : NoticeOf(d)' = n => Removing(d)'
    <2> SUFFICES ASSUME NEW d \in Waiting, NoticeOf(d) \in accepted \ doubled
                 PROVE  Removing(d)'
      BY <1>2
    <2>1. Removing(d)
      BY DEF AckInv, AckedWaits, AckedKnown
    <2>2. t # Worker
      BY <1>1, <2>1 DEF Removing
    <2> QED
      BY <1>4, <2>1, <2>2, Limits DEF Removing
  <1>7. \A n \in accepted \ doubled : \A u \in Tasks : n \in Undone(u)' => Knows(u, n)'
    <2> SUFFICES ASSUME NEW n \in accepted \ doubled, NEW u \in Tasks, n \in Undone(u)'
                 PROVE  Knows(u, n)'
      OBVIOUS
    <2>1. u # t /\ n \in Undone(u)
      BY <1>3, <1>4, <1>5
    <2>2. Knows(u, n)
      BY <2>1 DEF AckInv, AckedWaits, AckedKnown
    <2> QED
      BY <1>4, <2>1, <2>2 DEF Knows
  <1>8. ASSUME answer = "2xx", Notice(t) \notin doubled
        PROVE  /\ \A d \in Waiting : NoticeOf(d) = Notice(t) => Removing(d)'
               /\ \A u \in Tasks \ {t} : Notice(t) \notin Undone(u)
               /\ Knows(t, Notice(t))'
    <2>1. \A d \in Waiting : NoticeOf(d) = Notice(t) => Removing(d)'
      <3> SUFFICES ASSUME NEW d \in Waiting, NoticeOf(d) = Notice(t)
                   PROVE  Removing(d)'
        OBVIOUS
      <3>1. t = Worker
        BY <1>3, <1>8, Limits DEF ChainInv, FirstAlone
      <3>2. d = task[Worker].old
        BY <1>1, <1>8, <3>1 DEF ChainInv, RetryAlone
      <3> QED
        BY <1>1, <3>1, <3>2 DEF Removing, Stays, SameDelivery
    <2>2. ASSUME NEW u \in Tasks \ {t}, Notice(t) \in Undone(u)
          PROVE  FALSE
      <3>1. t \in Requests \/ u \in Requests
        BY <2>2, Limits
      <3> QED
        BY <1>3, <1>8, <2>2, <3>1 DEF ChainInv, FirstAlone
    <2>3. task[t].kind = "dispatch" => task[t].ep \notin Range(task[t].todo)
      <3>1. t = Worker => task[t].kind = "retry"
        BY <1>0, <1>1 DEF Work, WorkerOk
      <3>2. t # Worker => RequestOk(t)
        BY <1>0, Limits DEF Work
      <3> QED
        BY <1>1, <3>1, <3>2 DEF RequestOk
    <2>4. Knows(t, Notice(t))'
      BY <1>1, <1>8, <2>3 DEF Knows, Notice, Stays, SameDelivery
    <2> QED
      BY <2>1, <2>2, <2>4
  <1>9. PICK n0 : n0 = Notice(t)
    OBVIOUS
  <1>10. accepted' \ doubled' \subseteq (accepted \ doubled) \cup {n0}
    BY <1>2, <1>9
  <1>11. n0 \in accepted' \ doubled' /\ n0 \notin accepted \ doubled => answer = "2xx" /\ n0 \notin doubled
    BY <1>2
  <1>12. AckedWaits'
    <2>1. ASSUME n0 \in accepted' \ doubled', n0 \notin accepted \ doubled
          PROVE  \A d \in Waiting' : NoticeOf(d)' = n0 => Removing(d)'
      BY <1>2, <1>8, <1>9, <1>11, <2>1
    <2> QED
      BY <1>6, <1>10, <2>1 DEF AckedWaits, AckedKnown
  <1>13. AckedKnown'
    <2>1. ASSUME n0 \in accepted' \ doubled', n0 \notin accepted \ doubled
          PROVE  \A u \in Tasks : n0 \in Undone(u)' => Knows(u, n0)'
      <3>1. answer = "2xx" /\ n0 \notin doubled
        BY <1>11, <2>1
      <3>2. \A u \in Tasks \ {t} : n0 \notin Undone(u)'
        BY <1>4, <1>8, <1>9, <3>1
      <3>3. Knows(t, n0)'
        BY <1>3, <1>8, <1>9, <3>1 DEF Knows
      <3> QED
        BY <3>2, <3>3
    <2> QED
      BY <1>7, <1>10, <2>1 DEF AckedWaits, AckedKnown
  <1> QED
    BY <1>12, <1>13 DEF AckInv

\* A delivery that stays stays with its answer, and one that leaves has it.
LEMMA DeliverAck ==
    ASSUME WorkInv, AckInv, NEW t \in Tasks, NEW ok \in BOOLEAN,
           Record(t, ok) \/ Snapshot(t, ok)
    PROVE  AckInv'
  <1>0. TypeOK /\ TaskType /\ Work
    BY TypeSplit DEF WorkInv
  <1>1. task[t].pc \in {"record", "snapshot"} /\ task[t].pc \in Delivering /\ task[t] \in Jobs
    BY <1>0 DEF Record, Snapshot, At, Delivering, TaskType
  <1>2. UNCHANGED <<pending, due, owed, doubled, accepted>> /\ Waiting' = Waiting
    BY DEF Record, Snapshot, history, Waiting
  <1>3. RowsGrow
    <2>1. rows' = rows \/ rows' = Append(rows, DeliveryOf(task[t]))
      BY DEF Record, Snapshot
    <2>2. rows \in Seq(Range(rows))
      BY <1>0 DEF TypeOK, Range
    <2>3. \A d \in DOMAIN rows : d \in DOMAIN rows' /\ rows'[d] = rows[d]
      BY <2>1, <2>2
    <2> QED
      BY <1>2, <2>3 DEF RowsGrow
  <1>4. \/ Stays(t, "arm") /\ task[t].answer # "2xx"
        \/ Stays(t, "snapshot") /\ task'[t].answer = task[t].answer
        \/ Leaves(t)
    <2>1. CASE Record(t, ok)
      BY <1>0, <2>1, RecordEffect
    <2>2. CASE Snapshot(t, ok)
      BY <1>0, <2>2, SnapshotEffect
    <2> QED
      BY <2>1, <2>2
  <1>5. ASSUME NEW d \in Waiting, NoticeOf(d) \in accepted \ doubled, Removing(d), t = Worker
        PROVE  task[t].answer = "2xx"
    BY <1>1, <1>5, AckedInHand
  <1>6. CASE Stays(t, "arm") /\ task[t].answer # "2xx"
    <2>1. Undone(t)' = Undone(t)
      BY <1>1, <1>6 DEF Undone, Notice, Stays, SameDelivery, Delivering
    <2>2. \A n : ~Knows(t, n)
      BY <1>6 DEF Knows
    <2> QED
      BY <1>2, <1>3, <1>5, <1>6, <2>1, <2>2, AckSame DEF Stays
  <1>7. CASE Stays(t, "snapshot") /\ task'[t].answer = task[t].answer
    <2>1. Undone(t)' = Undone(t)
      BY <1>1, <1>7 DEF Undone, Notice, Stays, SameDelivery, Delivering
    <2>2. \A n : Knows(t, n) => Knows(t, n)'
      BY <1>7 DEF Knows, Notice, Stays, SameDelivery
    <2>3. t = Worker => \A d : Removing(d) => Removing(d)'
      BY <1>7 DEF Removing, Stays, SameDelivery
    <2> QED
      BY <1>2, <1>3, <1>7, <2>1, <2>2, <2>3, AckSame DEF Stays
  <1>8. CASE Leaves(t)
    <2>2. ASSUME NEW n \in Undone(t)', n \in accepted \ doubled
          PROVE  FALSE
      <3>1. n \in Undone(t)
        BY <1>1, <1>8, <2>2 DEF Undone, Leaves, SameDelivery, Notice, Delivering, Idle
      <3>2. Notice(t) = n /\ (task[t].kind = "dispatch" => n.ep \notin Range(task[t].todo))
        BY <2>2, <3>1 DEF AckInv, Knows, AckedWaits, AckedKnown
      <3>3. \A e \in Range(task[t].todo) : task[t].kind = "dispatch" => n # [event |-> task[t].event, ep |-> e]
        BY <3>2
      <3>4. t = Worker => task[t].kind = "retry"
        BY <1>0, <1>1 DEF Work, WorkerOk
      <3> QED
        BY <1>8, <2>2, <3>3, <3>4 DEF Undone, Leaves, SameDelivery, Idle
    <2>3. t = Worker => \A d : Removing(d) => Removing(d)'
      BY <1>8 DEF Removing, Leaves, SameDelivery
    <2> QED
      BY <1>2, <1>3, <1>8, <2>2, <2>3, AckSame DEF Leaves
  <1> QED
    BY <1>4, <1>6, <1>7, <1>8

\* What is armed was not accepted.
LEMMA ArmAck ==
    ASSUME WorkInv, AckInv, NEW t \in Tasks, NEW ok \in BOOLEAN, Arm(t, ok)
    PROVE  AckInv'
  <1>0. TypeOK /\ TaskType /\ Work /\ DeliveryOk(t)
    BY TypeSplit DEF WorkInv, Work
  <1>1. task[t].pc = "arm" /\ task[t].pc \in Delivering /\ Leaves(t)
    BY <1>0, ArmEffect DEF Arm, At, Delivering
  <1>2. PICK d0 : d0 = task[t].row
    OBVIOUS
  <1>3. NoticeOf(d0) = Notice(t)
    BY <1>0, <1>1, <1>2 DEF DeliveryOk, Written
  <1>4. UNCHANGED <<rows, accepted, doubled, owed>> /\ RowsGrow /\ Grows
        /\ Waiting' \subseteq Waiting \cup {d0} /\ \A x : NoticeOf(x)' = NoticeOf(x)
    BY <1>2 DEF Waiting, RowsGrow, Grows, Exists, Live, NoticeOf, Arm
  <1>5. Undone(t)' = Undone(t) \ {Notice(t)} /\ Notice(t) \in Undone(t)
    BY <1>0, <1>1, <1>4, LeavesOk DEF Undone, Delivering
  <1>6. \A u \in Tasks \ {t} : task'[u] = task[u] /\ Undone(u)' = Undone(u) /\ Notice(u)' = Notice(u)
    BY <1>1, UndoneFrame DEF Leaves, Others
  <1>7. \A n \in accepted \ doubled : n \notin Undone(t)
    BY <1>1 DEF AckInv, Knows, AckedWaits, AckedKnown
  <1>8. ASSUME NEW d \in Waiting', NoticeOf(d) \in accepted \ doubled
        PROVE  d \in Waiting /\ (Removing(d) => Removing(d)')
    <2>1. d # d0
      BY <1>3, <1>5, <1>7, <1>8
    <2>2. Removing(d) => t # Worker
      BY <1>1 DEF Removing
    <2> QED
      BY <1>4, <1>6, <2>1, <2>2, Limits DEF Removing
  <1>9. ASSUME NEW u \in Tasks, NEW n \in Undone(u)', n \in accepted \ doubled
        PROVE  n \in Undone(u) /\ (Knows(u, n) => Knows(u, n)')
    <2>1. u # t
      BY <1>5, <1>7, <1>9
    <2> QED
      BY <1>6, <1>9, <2>1 DEF Knows
  <1> QED
    BY <1>4, <1>8, <1>9, AckFrame
\* The worker takes up only what was not accepted.
LEMMA FetchAck ==
    ASSUME WorkInv, AckInv, NEW ok \in BOOLEAN, Fetch(ok)
    PROVE  AckInv'
  <1>0. TypeOK /\ TaskType /\ Work /\ WorkerOk
    BY TypeSplit DEF WorkInv, Work
  <1>1. PICK d : d = Head(task[Worker].todo)
    OBVIOUS
  <1>2. /\ Others(Worker) /\ task[Worker].pc = "next"
        /\ task[Worker].todo # <<>> /\ task'[Worker].kind = "retry"
        /\ \/ task'[Worker].pc = "next"
           \/ /\ Exists(d)
              /\ task'[Worker].pc = "post" /\ task'[Worker].event = rows[d].event
              /\ task'[Worker].ep = rows[d].ep
    BY <1>0, <1>1, FetchEffect DEF Fetch, At
  <1>3. RowsGrow /\ Waiting' = Waiting /\ UNCHANGED <<doubled, accepted>>
    BY PlainStep DEF Fetch, store, history
  <1>4. \A x : ~Removing(x)
    BY <1>2 DEF Removing
  <1>5. \A x \in Waiting : NoticeOf(x) \notin accepted \ doubled
    BY <1>4 DEF AckInv, AckedWaits, AckedKnown
  <1>6. ASSUME NEW n \in Undone(Worker)'
        PROVE  n \notin accepted \ doubled
    <2>1. task'[Worker].pc = "post" /\ Exists(d) /\ n = NoticeOf(d)
      BY <1>2, <1>6 DEF Undone, Notice, NoticeOf
    <2>2. d \in Range(task[Worker].todo)
      <3>1. task[Worker].todo \in Seq(Endpoints \cup Nat)
        BY <1>0, Limits DEF TaskType, Jobs
      <3> QED
        BY <1>1, <1>2, <3>1, TailOf
    <2>3. d \in Waiting
      BY <1>0, <2>1, <2>2 DEF WorkerOk
    <2> QED
      BY <1>5, <2>1, <2>3
  <1> QED
    BY <1>2, <1>3, <1>4, <1>6, Limits, AckSame

\* The row that fired is gone, or the event is noted as doubled.
LEMMA DequeueAck ==
    ASSUME WorkInv, AckInv, NEW ok \in BOOLEAN, Dequeue(ok)
    PROVE  AckInv'
  <1>0. TypeOK /\ TaskType /\ Work /\ WorkerOk
    BY TypeSplit DEF WorkInv, Work
  <1>1. /\ Waiting' = IF ok THEN Waiting \ {task[Worker].old} ELSE Waiting
        /\ task'[Worker].pc = "next" /\ task'[Worker].kind = "retry" /\ Others(Worker)
    BY <1>0, DequeueQueue, DequeueEffect
  <1>2. /\ UNCHANGED <<rows, owed, accepted>> /\ RowsGrow
        /\ doubled' = IF ok THEN doubled ELSE doubled \cup {Notice(Worker)}
    BY DEF Dequeue, RowsGrow
  <1>3. NoticeOf(task[Worker].old) = Notice(Worker)
    BY <1>0 DEF WorkerOk, Dequeue, At
  <1>4. Undone(Worker)' = {}
    BY <1>1 DEF Undone
  <1>5. \A d \in Waiting' : ~(NoticeOf(d) \in accepted \ doubled' /\ Removing(d))
    <2>1. CASE ok
      BY <1>1, <2>1 DEF Removing
    <2>2. CASE ~ok
      BY <1>2, <1>3, <2>2 DEF Removing
    <2> QED
      BY <2>1, <2>2
  <1>6. doubled \subseteq doubled' /\ Waiting' \subseteq Waiting
    BY <1>1, <1>2
  <1> QED
    BY <1>1, <1>2, <1>4, <1>5, <1>6, Limits, AckSame

\* A crash of the worker before the removal of the old row is noted.
LEMMA CrashAck ==
    ASSUME WorkInv, AckInv, Crash
    PROVE  AckInv'
  <1>0. WorkerOk
    BY DEF WorkInv, Work
  <1>1. Waiting' = Waiting /\ \A t \in Tasks : task'[t] = Idle /\ Undone(t)' = {}
    BY CrashWork
  <1>2. \A d : NoticeOf(d)' = NoticeOf(d)
    BY DEF Crash, store, NoticeOf
  <1>3. /\ UNCHANGED accepted /\ doubled \subseteq doubled'
        /\ task[Worker].pc \in {"record", "snapshot", "dequeue"} => Notice(Worker) \in doubled'
    BY DEF Crash
  <1>4. \A d : Removing(d) => NoticeOf(d) \in doubled'
    BY <1>0, <1>3 DEF WorkerOk, Removing, Delivering
  <1> QED
    BY <1>1, <1>2, <1>3, <1>4, AckFrame

\* The steps of one task between deliveries, and the end of its deadline.
LEMMA PlainAck ==
    ASSUME WorkInv, AckInv, NEW t \in Tasks,
           \/ Expire(t) \/ Finish(t)
           \/ t \in Requests /\ NextTarget(t)
           \/ t = Worker /\ Tick
    PROVE  AckInv'
  <1>0. TypeOK /\ TaskType /\ Work
    BY TypeSplit DEF WorkInv
  <1>1. RowsGrow /\ Waiting' = Waiting /\ UNCHANGED <<doubled, accepted>>
    BY PlainStep DEF Expire, Finish, NextTarget, Tick, store, history
  <1>2. CASE Expire(t)
    <2>1. Stays(t, task[t].pc) /\ task'[t].answer = task[t].answer
      BY <1>0, <1>2, ExpireEffect
    <2>2. Undone(t)' = Undone(t)
      BY <2>1 DEF Undone, Notice, Stays, SameDelivery
    <2>3. \A n : Knows(t, n) => Knows(t, n)'
      BY <2>1 DEF Knows, Notice, Stays, SameDelivery
    <2>4. t = Worker => \A d : Removing(d) => Removing(d)'
      BY <2>1 DEF Removing, Stays, SameDelivery
    <2> QED
      BY <1>1, <2>1, <2>2, <2>3, <2>4, AckSame DEF Stays
  <1>3. CASE ~Expire(t)
    <2>1. task[t].pc \in {"idle", "next"} /\ Others(t)
      <3>1. CASE Finish(t)
        BY <1>0, <3>1, FinishEffect DEF Finish, At
      <3>2. CASE t \in Requests /\ NextTarget(t)
        BY <1>0, <3>2, NextTargetEffect DEF NextTarget, At, Work
      <3>3. CASE t = Worker /\ Tick
        BY <1>0, <3>3, TickEffect DEF Tick, At
      <3> QED
        BY <1>3, <3>1, <3>2, <3>3
    <2>2. Undone(t)' \subseteq Undone(t)
      <3>1. CASE Finish(t)
        BY <3>1, FinishWork
      <3>2. CASE t \in Requests /\ NextTarget(t)
        BY <3>2, NextTargetWork
      <3>3. CASE t = Worker /\ Tick
        <4>1. task'[t].pc = "next" /\ task'[t].kind = "retry"
          BY <1>0, <3>3, TickEffect
        <4> QED
          BY <4>1 DEF Undone
      <3> QED
        BY <1>3, <3>1, <3>2, <3>3
    <2>3. (\A n : ~Knows(t, n)) /\ (t = Worker => \A d : ~Removing(d))
      BY <2>1 DEF Knows, Removing
    <2> QED
      BY <1>1, <2>1, <2>2, <2>3, AckSame
  <1> QED
    BY <1>2, <1>3

\* A request that begins or ends: its event is new, or noted as doubled.
LEMMA RequestAck ==
    ASSUME WorkInv, AckInv, NEW r \in Requests,
           Begins(r) \/ \E ok \in BOOLEAN : SaveEndpoint(r, ok)
    PROVE  AckInv'
  <1>0. TaskType /\ TypeOK /\ r \in Tasks /\ r # Worker
    BY TypeSplit, Limits DEF WorkInv
  <1>1. \E j : task' = [task EXCEPT ![r] = j]
    BY DEF SaveEndpoint, Begins, BeginDispatch, BeginTest, BeginReplay, BeginUpdate, Begin
  <1>2. Others(r)
    BY <1>0, <1>1 DEF TaskType, Others
  <1>3. /\ UNCHANGED <<rows, pending, due, accepted>>
        /\ owed \subseteq owed' /\ doubled \subseteq doubled'
    BY DEF SaveEndpoint, Begins, BeginDispatch, BeginTest, BeginReplay, BeginUpdate, Begin, store, history
  <1>4. RowsGrow /\ Waiting' = Waiting
    BY <1>3 DEF RowsGrow, Waiting
  <1>5. ASSUME NEW n \in Undone(r)', n \in accepted \ doubled'
        PROVE  FALSE
    <2>1. n \in owed
      BY <1>0, <1>5 DEF TypeOK
    <2>2. CASE BeginDispatch(r) \/ \E e \in Endpoints : BeginTest(r, e)
      BY <1>5, <2>1, <2>2, BeginDispatchWork, BeginTestWork
    <2>3. CASE \E m \in dlq : BeginReplay(r, m)
      BY <1>5, <2>3, BeginReplayWork DEF BeginReplay
    <2> QED
      BY <1>5, <2>2, <2>3, SaveWork, BeginUpdateWork DEF Begins
  <1> QED
    BY <1>0, <1>2, <1>3, <1>4, <1>5, AckSame

\* The steps of the operator and of time, and no step.
LEMMA RestAck ==
    ASSUME WorkInv, AckInv,
           \/ \E d \in pending : Elapse(d)
           \/ \E e \in Endpoints, enabled \in BOOLEAN : CreateEndpoint(e, enabled)
           \/ \E e \in Endpoints : DeleteEndpoint(e)
           \/ \E n \in dlq : DeleteDLQ(n)
           \/ \E r \in Requests : DispatchUnlisted(r)
           \/ UNCHANGED vars
    PROVE  AckInv'
  <1>1. UNCHANGED <<rows, task, accepted, doubled>> /\ owed \subseteq owed'
    BY DEF Elapse, CreateEndpoint, DeleteEndpoint, DeleteDLQ, DispatchUnlisted, vars, store, history
  <1>2. RowsGrow /\ Others(Worker)
    BY <1>1 DEF RowsGrow, Others
  <1>3. Undone(Worker)' = Undone(Worker) /\ Notice(Worker)' = Notice(Worker)
    BY <1>1, UndoneFrame, Limits
  <1>4. \A d, n : (Removing(d) => Removing(d)') /\ (Knows(Worker, n) => Knows(Worker, n)')
    BY <1>1, <1>3 DEF Removing, Knows
  <1>5. Waiting' \subseteq Waiting
    <2>1. CASE \E e \in Endpoints : DeleteEndpoint(e)
      BY <2>1, DeleteEndpointQueue
    <2>2. CASE UNCHANGED vars
      BY <2>2 DEF vars, store, Waiting
    <2> QED
      BY <2>1, <2>2, ElapseWork, CreateEndpointWork, DeleteDLQWork, UnlistedWork
  <1> QED
    BY <1>1, <1>2, <1>3, <1>4, <1>5, Limits, AckSame

\* Every step keeps what is known of the events that were accepted.
LEMMA AckNext ==
    ASSUME WorkInv, ChainInv, AckInv, [Next]_vars
    PROVE  AckInv'
  <1>0. {"2xx", "other", "none"} = Answers
    BY DEF Answers
  <1>1. ASSUME NEW t \in Tasks, DeliverStep(t)
        PROVE  AckInv'
    BY <1>0, <1>1, PostAck, DeliverAck, ArmAck, PlainAck DEF DeliverStep
  <1>2. ASSUME NEW r \in Requests, Start(r) \/ RequestStep(r)
        PROVE  AckInv'
    BY <1>1, <1>2, Limits, PlainAck, RequestAck, RestAck DEF Start, Begins, RequestStep
  <1>3. ASSUME WorkerStep
        PROVE  AckInv'
    BY <1>1, <1>3, Limits, FetchAck, DequeueAck, PlainAck DEF WorkerStep
  <1> QED
    BY <1>2, <1>3, PlainAck, CrashAck, RestAck DEF Next

\* For any endpoints, requests, failures, expiries and crashes, an endpoint that answered
\* an event with 2xx is not sent it again, unless it was replayed or the worker's old row
\* outlived a failure or a crash (RetryDelivery, deliverSync).
THEOREM AcceptedIsNotSentAgain == Spec => AckedOnce
  <1>1. Init => WorkInv /\ ChainInv /\ AckInv
    <2>1. Init => /\ Waiting = {} /\ accepted = {}
                  /\ \A t \in Tasks : task[t] = Idle /\ Undone(t) = {}
      BY DEF Init, Waiting, Range, Undone, Idle
    <2>2. ASSUME Init
          PROVE  ChainInv /\ AckInv
      BY <2>1, <2>2, Limits DEF ChainInv, SingleChain, FirstAlone, RetryAlone, AckInv, AckedWaits, AckedKnown
    <2> QED
      BY <2>2, WorkInit
  <1>2. WorkInv /\ ChainInv /\ AckInv /\ [Next]_vars => (WorkInv /\ ChainInv /\ AckInv)'
    BY WorkNext, ChainNext, AckNext
  <1>3. Spec => [](WorkInv /\ ChainInv /\ AckInv)
    BY <1>1, <1>2, PTL DEF Spec
  <1>4. AckInv => \A t \in Tasks : At(t, "post") /\ Notice(t) \in accepted => Notice(t) \in doubled
    <2> SUFFICES ASSUME AckInv, NEW t \in Tasks, At(t, "post"), Notice(t) \in accepted, Notice(t) \notin doubled
                 PROVE  FALSE
      OBVIOUS
    <2>1. Notice(t) \in Undone(t)
      BY DEF Undone, At
    <2> QED
      BY <2>1 DEF AckInv, Knows, At, AckedWaits, AckedKnown
  <1>5. AckInv => [\A t \in Tasks :
                      At(t, "post") /\ task'[t].pc = "record" /\ Notice(t) \in accepted
                        => Notice(t) \in doubled]_vars
    BY <1>4
  <1> QED
    BY <1>3, <1>5, PTL DEF AckedOnce
-----------------------------------------------------------------------------
(* An operator's edit stays.                                                *)

\* No row goes, and no flag changes but of endpoints that were edited under a copy.
Unedited ==
  /\ overlapped \subseteq overlapped'
  /\ \A e \in Endpoints :
       /\ endpoint[e].row # "none" => endpoint'[e].row # "none"
       /\ e \notin overlapped' =>
            endpoint'[e].enabled = endpoint[e].enabled /\ intent'[e] = intent[e]

\* A task that is left alone keeps its copies.
LEMMA CopyStays ==
    ASSUME NEW t \in Tasks, NEW e \in Endpoints, CopyOk(t, e), Unedited, task'[t] = task[t]
    PROVE  CopyOk(t, e)'
  BY DEF CopyOk, Unedited, HoldsCopy

\* So does one that goes on with its delivery, ...
LEMMA CopyGoesOn ==
    ASSUME NEW t \in Tasks, NEW e \in Endpoints, CopyOk(t, e), Unedited, NEW pc, Stays(t, pc),
           pc \in {"post", "record", "snapshot"} => task[t].pc \in {"post", "record", "snapshot"},
           pc = "save" => task[t].pc = "save"
    PROVE  CopyOk(t, e)'
  <1>1. HoldsCopy(t, e)' => HoldsCopy(t, e)
    BY DEF HoldsCopy, Stays, SameDelivery
  <1> QED
    BY <1>1 DEF CopyOk, Unedited, Stays, SameDelivery

\* ... and one that is done with it, as to the rest of its dispatch.
LEMMA CopyLeaves ==
    ASSUME NEW t \in Tasks, NEW e \in Endpoints, CopyOk(t, e), Unedited, Leaves(t)
    PROVE  CopyOk(t, e)'
  <1>1. /\ task'[t].pc \notin {"post", "record", "snapshot", "save"}
        /\ task'[t].kind = "dispatch" => task[t].kind = "dispatch" /\ task'[t].todo = task[t].todo
    BY DEF Leaves, SameDelivery, Idle
  <1>2. HoldsCopy(t, e)' => task[t].kind = "dispatch" /\ e \in Range(task[t].todo)
    BY <1>1 DEF HoldsCopy
  <1> QED
    BY <1>1, <1>2 DEF CopyOk, Unedited, HoldsCopy

\* Steps of one task under which no flag changes.
LEMMA EditSame ==
    ASSUME EditInv, Unedited, NEW t \in Tasks, Others(t), \A e \in Endpoints : CopyOk(t, e)'
    PROVE  EditInv'
  <1>1. EditsKept'
    BY DEF EditInv, EditsKept, Unedited
  <1>2. \A u \in Tasks \ {t} : \A e \in Endpoints : CopyOk(u, e)'
    BY CopyStays DEF EditInv, Others, CopiesHold
  <1> QED
    BY <1>1, <1>2 DEF EditInv, CopiesHold

\* Steps of a task that goes on with its delivery or is done with it.
LEMMA DeliverEdit ==
    ASSUME WorkInv, EditInv, NEW t \in Tasks,
           \/ \E answer \in Answers : Post(t, answer)
           \/ \E ok \in BOOLEAN : Record(t, ok) \/ Snapshot(t, ok) \/ Arm(t, ok)
           \/ Expire(t)
    PROVE  EditInv'
  <1>0. TypeOK /\ TaskType /\ Work /\ EndpointType /\ \A e \in Endpoints : CopyOk(t, e)
    BY TypeSplit DEF WorkInv, EditInv, StoreType, EndpointType, CopiesHold
  <1>1. Unedited
    <2>1. UNCHANGED <<intent, overlapped>>
      BY DEF Post, Record, Snapshot, Arm, Expire, history
    <2>2. CASE UNCHANGED endpoint
      BY <2>1, <2>2 DEF Unedited
    <2>3. CASE \E ok \in BOOLEAN : Snapshot(t, ok)
      <3>1. /\ task[t].pc = "snapshot" /\ task[t].ep \in Endpoints /\ task[t].copy \in BOOLEAN
            /\ ReplaceEndpoint(task[t].ep, task[t].copy) \/ UNCHANGED endpoint
        BY <1>0, <2>3 DEF Snapshot, At, TaskType, Jobs, Work, DeliveryOk, Delivering
      <3>2. PICK x \in Endpoints : x = task[t].ep
        BY <3>1
      <3>3. x \notin overlapped => task[t].copy = endpoint[x].enabled
        BY <1>0, <3>1, <3>2 DEF CopyOk, HoldsCopy
      <3>4. /\ \A e \in Endpoints : endpoint'[e].row = endpoint[e].row
            /\ \A e \in Endpoints \ {x} : endpoint'[e] = endpoint[e]
            /\ endpoint'[x].enabled \in {endpoint[x].enabled, task[t].copy}
        BY <1>0, <3>1, <3>2, ReplaceEffect
      <3>5. \A e \in Endpoints : e \notin overlapped => endpoint'[e].enabled = endpoint[e].enabled
        BY <3>3, <3>4
      <3> QED
        BY <2>1, <3>4, <3>5 DEF Unedited
    <2> QED
      BY <2>2, <2>3 DEF Post, Record, Arm, Expire, store
  <1>2. \/ Leaves(t)
        \/ \E pc \in Pcs : /\ Stays(t, pc)
                           /\ pc \in {"post", "record", "snapshot"} => task[t].pc \in {"post", "record", "snapshot"}
                           /\ pc = "save" => task[t].pc = "save"
    <2>1. ASSUME NEW answer \in Answers, Post(t, answer)
          PROVE  Stays(t, "record") /\ task[t].pc = "post"
      BY <1>0, <2>1, PostEffect DEF Post, At
    <2>2. ASSUME NEW ok \in BOOLEAN, Record(t, ok)
          PROVE  (Stays(t, "arm") \/ Stays(t, "snapshot") \/ Leaves(t)) /\ task[t].pc = "record"
      <3>1. task[t].pc = "record"
        BY <2>2 DEF Record, At
      <3>2. Stays(t, "arm") \/ Stays(t, "snapshot") \/ Leaves(t)
        BY <1>0, <2>2, RecordEffect
      <3> QED
        BY <3>1, <3>2
    <2>3. ASSUME NEW ok \in BOOLEAN, Snapshot(t, ok)
          PROVE  Stays(t, "arm") \/ Leaves(t)
      BY <1>0, <2>3, SnapshotEffect
    <2>4. ASSUME NEW ok \in BOOLEAN, Arm(t, ok)
          PROVE  Leaves(t)
      BY <1>0, <2>4, ArmEffect
    <2>5. ASSUME Expire(t)
          PROVE  Stays(t, task[t].pc) /\ task[t].pc \in Pcs
      BY <1>0, <2>5, ExpireEffect DEF TaskType, Jobs
    <2>6. "record" \in Pcs /\ "snapshot" \in Pcs /\ "arm" \in Pcs
      BY Members
    <2> QED
      BY <2>1, <2>2, <2>3, <2>4, <2>5, <2>6
  <1>3. Others(t)
    BY <1>2 DEF Leaves, Stays
  <1>4. \A e \in Endpoints : CopyOk(t, e)'
    BY <1>0, <1>1, <1>2, CopyGoesOn, CopyLeaves
  <1> QED
    BY <1>1, <1>3, <1>4, EditSame

\* The next endpoint of a dispatch is one that was enabled when it was listed.
LEMMA NextTargetEdit ==
    ASSUME WorkInv, EditInv, NEW r \in Requests, NextTarget(r)
    PROVE  EditInv'
  <1>0. /\ TypeOK /\ TaskType /\ Work /\ RequestOk(r) /\ r \in Tasks
        /\ \A e \in Endpoints : CopyOk(r, e)
    BY TypeSplit, Limits DEF WorkInv, EditInv, Work, CopiesHold
  <1>1. /\ Others(r) /\ task[r].todo # <<>> /\ task'[r].kind = "dispatch"
        /\ task'[r].pc = "post" /\ task'[r].ep = Head(task[r].todo)
        /\ task'[r].todo = Tail(task[r].todo) /\ task'[r].copy = TRUE
    BY <1>0, NextTargetEffect
  <1>2. task[r].kind = "dispatch" /\ task[r].todo \in Seq(Endpoints)
    BY <1>0 DEF RequestOk, NextTarget, At
  <1>3. /\ task'[r].ep \in Range(task[r].todo)
        /\ \A e \in Range(task'[r].todo) : e \in Range(task[r].todo)
    BY <1>1, <1>2, TailOf
  <1>4. Unedited
    BY DEF Unedited, NextTarget, store, history
  <1>5. UNCHANGED <<endpoint, overlapped>>
    BY DEF NextTarget, store, history
  <1>6. ASSUME NEW e \in Endpoints
        PROVE  CopyOk(r, e)'
    <2>1. HoldsCopy(r, e)' => e \in Range(task[r].todo)
      BY <1>1, <1>3 DEF HoldsCopy
    <2>2. HoldsCopy(r, e)' => endpoint[e].row # "none" /\ (e \notin overlapped => endpoint[e].enabled)
      BY <1>0, <1>2, <2>1 DEF CopyOk, HoldsCopy
    <2>3. endpoint[e].enabled \in BOOLEAN
      BY <1>0 DEF TypeOK
    <2> QED
      BY <1>1, <1>5, <2>2, <2>3 DEF CopyOk
  <1> QED
    BY <1>0, <1>1, <1>4, <1>6, EditSame
\* The worker reads the row anew for each retry, of an endpoint that is there.
LEMMA FetchEdit ==
    ASSUME WorkInv, EditInv, NEW ok \in BOOLEAN, Fetch(ok)
    PROVE  EditInv'
  <1>0. TypeOK /\ TaskType /\ Work /\ WorkerOk
    BY TypeSplit DEF WorkInv, Work
  <1>1. PICK d : d = Head(task[Worker].todo)
    OBVIOUS
  <1>2. /\ Others(Worker) /\ task'[Worker].kind = "retry"
        /\ \/ task'[Worker].pc = "next"
           \/ /\ Exists(d)
              /\ task'[Worker].pc = "post" /\ task'[Worker].ep = rows[d].ep
              /\ task'[Worker].copy = CopyOf(rows[d].ep)
    BY <1>0, <1>1, FetchEffect
  <1>3. UNCHANGED <<endpoint, overlapped>> /\ Unedited
    BY DEF Fetch, store, history, Unedited
  <1>4. ASSUME NEW e \in Endpoints
        PROVE  CopyOk(Worker, e)'
    <2>1. HoldsCopy(Worker, e)' =>
            /\ task'[Worker].copy = endpoint[e].enabled /\ endpoint[e].row = "live"
      BY <1>2 DEF HoldsCopy, Exists, Live, CopyOf
    <2> QED
      BY <1>2, <1>3, <2>1 DEF CopyOk
  <1> QED
    BY <1>2, <1>3, <1>4, Limits, EditSame

\* Steps after which a task holds no copy.
LEMMA DoneEdit ==
    ASSUME WorkInv, EditInv, NEW t \in Tasks,
           \/ Finish(t)
           \/ t = Worker /\ (Tick \/ \E ok \in BOOLEAN : Dequeue(ok))
    PROVE  EditInv'
  <1>0. TypeOK /\ TaskType /\ Work /\ WorkerOk
    BY TypeSplit DEF WorkInv, Work
  <1>1. Unedited
    BY DEF Unedited, Finish, Tick, Dequeue, store, history
  <1>2. /\ Others(t) /\ task'[t].kind # "dispatch"
        /\ task'[t].pc \notin {"post", "record", "snapshot", "save"}
    <2>1. CASE Finish(t)
      <3>1. Others(t) /\ task'[t] = Idle
        BY <1>0, <2>1, FinishEffect
      <3> QED
        BY <3>1 DEF Idle
    <2>2. CASE t = Worker /\ Tick
      BY <1>0, <2>2, TickEffect
    <2>3. CASE t = Worker /\ \E ok \in BOOLEAN : Dequeue(ok)
      BY <1>0, <2>3, DequeueEffect
    <2> QED
      BY <2>1, <2>2, <2>3
  <1>3. \A e \in Endpoints : CopyOk(t, e)'
    BY <1>2 DEF CopyOk, HoldsCopy
  <1> QED
    BY <1>1, <1>2, <1>3, EditSame

\* A request begins with a copy of the row as it is.
LEMMA StartEdit ==
    ASSUME WorkInv, EditInv, NEW r \in Requests, Begins(r)
    PROVE  EditInv'
  <1>0. TypeOK /\ TaskType /\ r \in Tasks
    BY TypeSplit, Limits DEF WorkInv
  <1>1. PICK j0 : Begin(r, j0)
    BY DEF Begins, BeginDispatch, BeginTest, BeginReplay, BeginUpdate
  <1>2. UNCHANGED <<endpoint, intent, overlapped>> /\ Unedited
    BY <1>1 DEF Begins, BeginDispatch, BeginTest, BeginReplay, BeginUpdate, Begin, store, history, Unedited
  <1>3. Others(r)
    BY <1>0, <1>1 DEF Begin, TaskType, Others
  <1>4. ASSUME NEW e \in Endpoints
        PROVE  CopyOk(r, e)'
    <2>1. CASE BeginDispatch(r)
      <3>1. /\ task'[r].pc = "next"
            /\ Range(task'[r].todo) = {x \in Endpoints : Live(x) /\ endpoint[x].enabled}
        BY <1>0, <2>1, BeginDispatchEffect
      <3>2. HoldsCopy(r, e)' => endpoint[e].row = "live" /\ endpoint[e].enabled
        BY <3>1 DEF HoldsCopy, Live
      <3> QED
        BY <1>2, <3>1, <3>2 DEF CopyOk
    <2>2. CASE \E x \in Endpoints : BeginTest(r, x)
      <3>1. PICK x \in Endpoints : BeginTest(r, x)
        BY <2>2
      <3>2. PICK n : n = ops + 1
        OBVIOUS
      <3>3. n \in Events /\ Begin(r, [Idle EXCEPT !.pc = "post", !.kind = "test", !.event = n, !.ep = x,
                                         !.attempt = 1, !.copy = CopyOf(x)])
        BY <1>0, <3>1, <3>2, Limits DEF BeginTest, Begin, Events, TypeOK
      <3>4. /\ task'[r].kind = "test" /\ task'[r].ep = x /\ task'[r].copy = endpoint[x].enabled
        BY <1>0, <3>3, BeginPostEffect
      <3>5. endpoint[x].row = "live"
        BY <3>1 DEF BeginTest, Live
      <3> QED
        BY <1>2, <3>4, <3>5 DEF CopyOk, HoldsCopy
    <2>3. CASE \E n \in dlq : BeginReplay(r, n)
      <3>1. PICK n \in dlq : BeginReplay(r, n)
        BY <2>3
      <3>2. n \in [event : 1..MaxOps, ep : Endpoints]
        BY <1>0 DEF TypeOK
      <3>3. PICK x \in Endpoints, event \in Events : x = n.ep /\ event = n.event
        BY <3>2, Limits DEF Events
      <3>4. Begin(r, [Idle EXCEPT !.pc = "post", !.kind = "replay", !.event = event, !.ep = x,
                         !.attempt = 1, !.copy = CopyOf(x)])
        BY <3>1, <3>3 DEF BeginReplay
      <3>5. /\ task'[r].kind = "replay" /\ task'[r].ep = x /\ task'[r].copy = endpoint[x].enabled
        BY <1>0, <3>4, BeginPostEffect
      <3>6. endpoint[x].row = "live"
        BY <3>1, <3>3 DEF BeginReplay, Live
      <3> QED
        BY <1>2, <3>5, <3>6 DEF CopyOk, HoldsCopy
    <2>4. CASE \E x \in Endpoints, patch \in Patches : BeginUpdate(r, x, patch)
      <3>1. PICK x \in Endpoints, patch \in Patches : BeginUpdate(r, x, patch)
        BY <2>4
      <3>2. task'[r].kind = "update" /\ task'[r].pc = "save" /\ task'[r].ep = x
        BY <1>0, <3>1, BeginUpdateEffect
      <3>3. endpoint[x].row = "live"
        BY <3>1 DEF BeginUpdate, Live
      <3> QED
        BY <1>2, <3>2, <3>3 DEF CopyOk, HoldsCopy
    <2> QED
      BY <2>1, <2>2, <2>3, <2>4 DEF Begins
  <1> QED
    BY <1>0, <1>2, <1>3, <1>4, EditSame

\* An edit is what the operator last said; who holds a copy of the row is noted.
LEMMA SaveEdit ==
    ASSUME WorkInv, EditInv, NEW r \in Requests, NEW ok \in BOOLEAN, SaveEndpoint(r, ok)
    PROVE  EditInv'
  <1>0. /\ TypeOK /\ TaskType /\ Work /\ EndpointType /\ r \in Tasks
        /\ \A t \in Tasks : \A e \in Endpoints : CopyOk(t, e)
    BY TypeSplit, Limits DEF WorkInv, EditInv, StoreType, EndpointType, CopiesHold
  <1>1. Others(r) /\ task'[r] = Idle /\ task[r].ep \in Endpoints /\ task[r].copy \in BOOLEAN
    BY <1>0, SaveEffect DEF Work, RequestOk, SaveEndpoint, At, TaskType, Jobs
  <1>2. \A e \in Endpoints : CopyOk(r, e)'
    <2>1. task'[r].kind = "none" /\ task'[r].pc = "idle"
      BY <1>1 DEF Idle
    <2> QED
      BY <2>1 DEF CopyOk, HoldsCopy
  <1>3. PICK x \in Endpoints : x = task[r].ep
    BY <1>1
  <1>4. CASE ~(ok /\ Live(x))
    <2>1. Unedited
      BY <1>3, <1>4 DEF Unedited, SaveEndpoint, ReplaceEndpoint
    <2> QED
      BY <1>0, <1>1, <1>2, <2>1, EditSame
  <1>5. CASE ok /\ Live(x)
    <2>1. ReplaceEndpoint(x, task[r].copy)
      BY <1>3, <1>5 DEF SaveEndpoint
    <2>2. /\ \A e \in Endpoints : endpoint'[e].row = endpoint[e].row
          /\ \A e \in Endpoints \ {x} : endpoint'[e] = endpoint[e]
          /\ endpoint'[x].enabled = task[r].copy
      BY <1>0, <1>1, <1>5, <2>1, ReplaceEffect
    <2>3. /\ intent' = [intent EXCEPT ![x] = task[r].copy]
          /\ overlapped' = IF \E t \in Tasks \ {r} : HoldsCopy(t, x)
                           THEN overlapped \cup {x} ELSE overlapped
      BY <1>3, <1>5 DEF SaveEndpoint
    <2>4. EditsKept'
      <3> SUFFICES ASSUME NEW e \in Endpoints \ overlapped'
                   PROVE  endpoint'[e].enabled = intent'[e]
        BY DEF EditsKept
      <3>1. CASE e = x
        BY <1>0, <2>2, <2>3, <3>1 DEF TypeOK
      <3>2. CASE e # x
        <4>1. endpoint[e].enabled = intent[e]
          BY <2>3 DEF EditInv, EditsKept
        <4> QED
          BY <1>0, <2>2, <2>3, <3>2, <4>1 DEF TypeOK
      <3> QED
        BY <3>1, <3>2
    <2>5. ASSUME NEW t \in Tasks \ {r}, NEW e \in Endpoints
          PROVE  CopyOk(t, e)'
      <3>1. task'[t] = task[t] /\ (HoldsCopy(t, e)' <=> HoldsCopy(t, e)) /\ CopyOk(t, e)
        BY <1>0, <1>1 DEF Others, HoldsCopy
      <3>2. CASE e = x
        <4>1. HoldsCopy(t, e)' => e \in overlapped'
          BY <2>3, <3>1, <3>2
        <4> QED
          BY <2>2, <3>1, <4>1 DEF CopyOk
      <3>3. CASE e # x
        <4>1. endpoint'[e] = endpoint[e] /\ (e \in overlapped' <=> e \in overlapped)
          BY <2>2, <2>3, <3>3
        <4> QED
          BY <3>1, <4>1 DEF CopyOk
      <3> QED
        BY <3>2, <3>3
    <2> QED
      BY <1>2, <2>4, <2>5 DEF EditInv, CopiesHold
  <1> QED
    BY <1>4, <1>5

\* The other steps of the operator and of time, a crash, and no step.
LEMMA RestEdit ==
    ASSUME WorkInv, EditInv,
           \/ \E d \in pending : Elapse(d)
           \/ \E e \in Endpoints, enabled \in BOOLEAN : CreateEndpoint(e, enabled)
           \/ \E e \in Endpoints : DeleteEndpoint(e)
           \/ \E n \in dlq : DeleteDLQ(n)
           \/ \E r \in Requests : DispatchUnlisted(r)
           \/ Crash
           \/ UNCHANGED vars
    PROVE  EditInv'
  <1>0. /\ TypeOK /\ TaskType /\ EndpointType
        /\ \A t \in Tasks : \A e \in Endpoints : CopyOk(t, e)
    BY TypeSplit DEF WorkInv, EditInv, StoreType, EndpointType, CopiesHold
  <1>1. ASSUME Unedited, UNCHANGED task
        PROVE  EditInv'
    BY <1>0, <1>1, Limits, CopyStays, EditSame DEF Others
  <1>2. CASE \E d \in pending : Elapse(d)
    BY <1>1, <1>2 DEF Elapse, history, Unedited
  <1>3. CASE \E n \in dlq : DeleteDLQ(n)
    BY <1>1, <1>3 DEF DeleteDLQ, Unedited
  <1>8. CASE \E r \in Requests : DispatchUnlisted(r)
    BY <1>1, <1>8, UnlistedWork DEF Unedited
  <1>4. CASE UNCHANGED vars
    BY <1>1, <1>4 DEF vars, store, history, Unedited
  <1>5. ASSUME NEW x \in Endpoints, DeleteEndpoint(x)
        PROVE  EditInv'
    <2>1. /\ endpoint' = [endpoint EXCEPT ![x].row = "deleted"]
          /\ UNCHANGED <<task, intent, overlapped>>
      BY <1>5 DEF DeleteEndpoint
    <2>2. Unedited
      BY <1>0, <2>1 DEF Unedited, EndpointType
    <2> QED
      BY <1>1, <2>1, <2>2
  <1>6. CASE Crash
    <2>1. \A t \in Tasks : task'[t].kind = "none" /\ task'[t].pc = "idle"
      BY <1>0, <1>6, CrashEffect DEF Idle
    <2>2. EditsKept'
      BY <1>6 DEF EditInv, EditsKept, Crash, store
    <2>3. \A t \in Tasks : \A e \in Endpoints : CopyOk(t, e)'
      BY <2>1 DEF CopyOk, HoldsCopy
    <2> QED
      BY <2>2, <2>3 DEF EditInv, CopiesHold
  <1>7. ASSUME NEW x \in Endpoints, NEW enabled \in BOOLEAN, CreateEndpoint(x, enabled)
        PROVE  EditInv'
    <2>1. /\ endpoint' = [endpoint EXCEPT ![x] = [row |-> "live", enabled |-> enabled]]
          /\ intent' = [intent EXCEPT ![x] = enabled]
          /\ endpoint[x].row = "none" /\ UNCHANGED <<task, overlapped>>
      BY <1>7 DEF CreateEndpoint, InsertEndpoint
    <2>2. /\ endpoint'[x].enabled = enabled /\ intent'[x] = enabled
          /\ \A e \in Endpoints \ {x} : endpoint'[e] = endpoint[e] /\ intent'[e] = intent[e]
      BY <1>0, <2>1 DEF EndpointType, TypeOK
    <2>3. EditsKept'
      BY <2>1, <2>2 DEF EditInv, EditsKept
    <2>4. ASSUME NEW t \in Tasks, NEW e \in Endpoints
          PROVE  CopyOk(t, e)'
      <3>1. (HoldsCopy(t, e)' <=> HoldsCopy(t, e)) /\ CopyOk(t, e)
        BY <1>0, <2>1 DEF HoldsCopy
      <3>2. CASE e = x
        BY <2>1, <3>1, <3>2 DEF CopyOk
      <3>3. CASE e # x
        BY <2>1, <2>2, <3>1, <3>3 DEF CopyOk
      <3> QED
        BY <3>2, <3>3
    <2> QED
      BY <2>3, <2>4 DEF EditInv, CopiesHold
  <1> QED
    BY <1>2, <1>3, <1>4, <1>5, <1>6, <1>7, <1>8

\* Every step keeps the copies true and the edits.
LEMMA EditNext ==
    ASSUME WorkInv, EditInv, [Next]_vars
    PROVE  EditInv'
  <1>0. {"2xx", "other", "none"} = Answers
    BY DEF Answers
  <1>1. ASSUME NEW t \in Tasks, DeliverStep(t)
        PROVE  EditInv'
    BY <1>0, <1>1, DeliverEdit, DoneEdit DEF DeliverStep
  <1>2. ASSUME NEW r \in Requests, Start(r) \/ RequestStep(r)
        PROVE  EditInv'
    BY <1>1, <1>2, Limits, NextTargetEdit, StartEdit, SaveEdit, RestEdit
       DEF Start, Begins, RequestStep
  <1>3. ASSUME WorkerStep
        PROVE  EditInv'
    BY <1>1, <1>3, Limits, FetchEdit, DoneEdit DEF WorkerStep
  <1> QED
    BY <1>2, <1>3, DeliverEdit, RestEdit DEF Next

\* For any endpoints, requests, failures, expiries and crashes, an operator's change of
\* an endpoint stays though deliverSync writes the whole row back, unless it was saved
\* while a delivery or another update held a copy of the row.
THEOREM OperatorsEditsStay == Spec => []EditsKept
  <1>1. Init => WorkInv /\ EditInv
    <2>1. ASSUME Init
          PROVE  EditInv
      <3>1. \A t \in Tasks : task[t] = Idle
        BY <2>1 DEF Init
      <3>2. \A t \in Tasks : task[t].kind = "none" /\ task[t].pc = "idle"
        BY <3>1 DEF Idle
      <3>3. CopiesHold
        BY <3>2 DEF CopyOk, HoldsCopy, CopiesHold
      <3> QED
        BY <2>1, <3>3 DEF Init, EditInv, EditsKept
    <2> QED
      BY <2>1, WorkInit
  <1>2. WorkInv /\ EditInv /\ [Next]_vars => (WorkInv /\ EditInv)'
    BY WorkNext, EditNext
  <1>3. Spec => [](WorkInv /\ EditInv)
    BY <1>1, <1>2, PTL DEF Spec
  <1> QED
    BY <1>3, PTL DEF EditInv
=============================================================================
