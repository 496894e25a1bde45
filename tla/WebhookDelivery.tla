---------------------------- MODULE WebhookDelivery ----------------------------
(***************************************************************************)
(* Outbound webhooks: Dispatch (from the HTTP handlers, by MustDispatch),  *)
(* SendTestEvent, ReplayDLQEntry and the edits of an endpoint as           *)
(* concurrent requests, and the retry worker.  All of them end in          *)
(* deliverSync, whose POST and whose store calls are separate steps with   *)
(* no transaction around them; each store call may fail, the context of a  *)
(* dispatch or of a tick may expire, and the panel may crash in between.   *)
(*                                                                         *)
(* Time is abstracted: the wait before a retry ends at any moment          *)
(* (Elapse), and the due retries stand in the order of their time.         *)
(***************************************************************************)
EXTENDS Naturals, FiniteSets, Sequences, SequencesExt

CONSTANTS
    Endpoints,      \* the webhook endpoints
    Requests,       \* the concurrent HTTP requests
    Slow,           \* endpoints that answer later than a context lasts
    MaxAttempts,    \* POSTs of one event to one endpoint
    ListLimit,      \* delivery rows RetryDelivery looks through, the newest
    Batch,          \* retries of one tick
    MaxOps, MaxFaults, MaxRows  \* bounds on requests, on failures, on the ids in use

ASSUME LimitsAssumption ==
    /\ IsFiniteSet(Endpoints) /\ Slow \subseteq Endpoints
    /\ "worker" \notin Requests
    /\ MaxAttempts \in Nat \ {0} /\ ListLimit \in Nat \ {0} /\ Batch \in Nat \ {0}
    /\ MaxOps \in Nat /\ MaxFaults \in Nat /\ MaxRows \in Nat

VARIABLES
    endpoint,   \* webhook_endpoints: is the row there, is it enabled
    rows,       \* webhook_deliveries, one row per attempt, in order of creation
    pending,    \* ids in webhook_pending_retries whose time has not come
    due,        \* ids there whose time has come, in order of that time
    dlq,        \* webhook_dlq
    task,       \* task[t]: what request t, or the worker, is doing
    owed,       \* history: events a request set out to deliver, with the endpoint
    accepted,   \* history: events an endpoint answered with 2xx
    missed,     \* history: events a store failure, expiry, crash or operator lost
    doubled,    \* history: events whose chain of attempts was begun twice
    intent,     \* history: the enabled flag the operator last saved
    overlapped, \* history: endpoints edited while a copy of their row was held
    ops, faults

store == <<endpoint, rows, pending, due, dlq>>
history == <<owed, accepted, missed, doubled, intent, overlapped>>
vars == <<store, task, history, ops, faults>>

-----------------------------------------------------------------------------
Worker == "worker"
Tasks == Requests \cup {Worker}

\* An event at an endpoint: the unit of delivery.
Notices == [event : 0..MaxOps, ep : Endpoints]

\* A row past its ON DELETE CASCADE is not there.
Live(e) == endpoint[e].row = "live"
Exists(d) == Live(rows[d].ep)
NoticeOf(d) == [event |-> rows[d].event, ep |-> rows[d].ep]
Waiting == pending \cup Range(due)

\* A sequence without the members of a set.
Without(s, S) ==
    LET Kept == {i \in DOMAIN s : s[i] \notin S}
        Rank(i) == Cardinality({k \in Kept : k <= i})
    IN  [n \in 1..Cardinality(Kept) |-> s[CHOOSE i \in Kept : Rank(i) = n]]

\* ListDeliveriesByEndpoint with limit 0: only the newest ListLimit rows.
Buried(d) ==
    Cardinality({d2 \in DOMAIN rows : d2 > d /\ rows[d2].ep = rows[d].ep}) >= ListLimit

\* todo: the endpoints a Dispatch, or the retries a tick, has still to do.
Idle == [pc |-> "idle", kind |-> "none", todo |-> <<>>, event |-> 0, ep |-> "none",
         attempt |-> 0, copy |-> TRUE, answer |-> "none", row |-> 0, old |-> 0,
         expired |-> FALSE]

At(t, pc) == task[t].pc = pc
To(t, pc) == [task[t] EXCEPT !.pc = pc]
Notice(t) == [event |-> task[t].event, ep |-> task[t].ep]

\* t holds a copy of e's row that it will write back.
HoldsCopy(t, e) ==
    \/ task[t].ep = e /\ task[t].pc \in {"post", "record", "snapshot", "save"}
    \/ task[t].kind = "dispatch" /\ e \in Range(task[t].todo)

Fault == faults < MaxFaults /\ faults' = faults + 1

\* A store call in t fails for certain once its context expired, and
\* otherwise, at the cost of a fault, may.
StoreCall(t, ok) ==
    IF task[t].expired THEN ~ok /\ UNCHANGED faults
    ELSE IF ok THEN UNCHANGED faults ELSE Fault

-----------------------------------------------------------------------------
\* The store.

\* CreateEndpoint: the row, with the flag the operator gave.
InsertEndpoint(e, enabled) ==
    endpoint' = [endpoint EXCEPT ![e] = [row |-> "live", enabled |-> enabled]]

\* GetEndpoint hands out a copy of the row, of which the enabled flag matters.
CopyOf(e) == endpoint[e].enabled

\* UpdateEndpoint: the whole row, unless it is gone.
ReplaceEndpoint(e, copy) ==
    endpoint' = IF Live(e) THEN [endpoint EXCEPT ![e].enabled = copy] ELSE endpoint

\* The row CreateDelivery inserts for the attempt j has just made.
DeliveryOf(j) == [event |-> j.event, ep |-> j.ep, attempt |-> j.attempt]

\* ListDueRetries: those whose time has come, the oldest first, up to a limit.
DueRetries(limit) == SubSeq(due, 1, IF Len(due) < limit THEN Len(due) ELSE limit)

\* EnqueueDLQ: no foreign key ties the entry to its endpoint.
DeadLetter(n) == dlq \cup {n}

-----------------------------------------------------------------------------
\* Requests.

Begin(r, j) ==
    /\ At(r, "idle")
    /\ ops < MaxOps
    /\ ops' = ops + 1
    /\ task' = [task EXCEPT ![r] = j]
    /\ UNCHANGED <<store, faults>>

\* Create, with a new id: a deleted endpoint does not come back.
CreateEndpoint(e, enabled) ==
    /\ endpoint[e].row = "none"
    /\ InsertEndpoint(e, enabled)
    /\ intent' = [intent EXCEPT ![e] = enabled]
    /\ UNCHANGED <<rows, pending, due, dlq, task, owed, accepted, missed, doubled,
                   overlapped, ops, faults>>

\* Dispatch serves the endpoints that are enabled, ...
Targets == {e \in Endpoints : Live(e) /\ endpoint[e].enabled}

\* ... listed once, one after the other.
BeginDispatch(r) ==
    /\ Targets # {}
    /\ \E order \in SetToSeqs(Targets) :
          Begin(r, [Idle EXCEPT !.pc = "next", !.kind = "dispatch", !.todo = order,
                                !.event = ops + 1])
    /\ owed' = owed \cup {[event |-> ops + 1, ep |-> e] : e \in Targets}
    /\ UNCHANGED <<accepted, missed, doubled, intent, overlapped>>

\* When ListEndpoints fails, MustDispatch logs it and no endpoint gets the event.
DispatchUnlisted(r) ==
    LET notices == {[event |-> ops + 1, ep |-> e] : e \in Targets} IN
    /\ At(r, "idle")
    /\ Targets # {}
    /\ ops < MaxOps
    /\ ops' = ops + 1
    /\ Fault
    /\ owed' = owed \cup notices
    /\ missed' = missed \cup notices
    /\ UNCHANGED <<store, task, accepted, doubled, intent, overlapped>>

\* SendTestEvent posts to a disabled endpoint as well.
BeginTest(r, e) ==
    /\ Live(e)
    /\ Begin(r, [Idle EXCEPT !.pc = "post", !.kind = "test", !.event = ops + 1, !.ep = e,
                    !.attempt = 1, !.copy = CopyOf(e)])
    /\ owed' = owed \cup {[event |-> ops + 1, ep |-> e]}
    /\ UNCHANGED <<accepted, missed, doubled, intent, overlapped>>

\* ReplayDLQEntry: a first attempt again; the entry stays, and without an
\* endpoint there is no secret to sign with.
BeginReplay(r, n) ==
    /\ n \in dlq
    /\ Live(n.ep)
    /\ Begin(r, [Idle EXCEPT !.pc = "post", !.kind = "replay", !.event = n.event,
                    !.ep = n.ep, !.attempt = 1, !.copy = CopyOf(n.ep)])
    /\ doubled' = doubled \cup {n}
    /\ UNCHANGED <<owed, accepted, missed, intent, overlapped>>

\* What a request for an update says of the enabled flag.
Patches == {"on", "off", "keep"}

\* Update reads the row, patches enabled or leaves it alone, ...
BeginUpdate(r, e, patch) ==
    /\ Live(e)
    /\ Begin(r, [Idle EXCEPT !.pc = "save", !.kind = "update", !.ep = e,
                    !.copy = IF patch = "keep" THEN CopyOf(e) ELSE patch = "on"])
    /\ UNCHANGED history

\* ... and writes it back whole.
SaveEndpoint(r, ok) ==
    LET e == task[r].ep
        saved == ok /\ Live(e) IN
    /\ At(r, "save")
    /\ StoreCall(r, ok)
    /\ IF ok THEN ReplaceEndpoint(e, task[r].copy) ELSE UNCHANGED endpoint
    /\ intent' = IF saved THEN [intent EXCEPT ![e] = task[r].copy] ELSE intent
    /\ overlapped' = IF saved /\ \E t \in Tasks \ {r} : HoldsCopy(t, e)
                     THEN overlapped \cup {e} ELSE overlapped
    /\ task' = [task EXCEPT ![r] = Idle]
    /\ UNCHANGED <<rows, pending, due, dlq, owed, accepted, missed, doubled, ops>>

\* Delete cascades to the deliveries and from them to their pending retries.
DeleteEndpoint(e) ==
    /\ Live(e)
    /\ ops < MaxOps
    /\ ops' = ops + 1
    /\ endpoint' = [endpoint EXCEPT ![e].row = "deleted"]
    /\ pending' = {d \in pending : rows[d].ep # e}
    /\ due' = Without(due, {d \in Range(due) : rows[d].ep = e})
    /\ missed' = missed \cup {n \in owed : n.ep = e}
    /\ UNCHANGED <<rows, dlq, task, owed, accepted, doubled, intent, overlapped, faults>>

\* The operator clears an entry of the DLQ.
DeleteDLQ(n) ==
    /\ n \in dlq
    /\ dlq' = dlq \ {n}
    /\ missed' = missed \cup {n}
    /\ UNCHANGED <<endpoint, rows, pending, due, task, owed, accepted, doubled,
                   intent, overlapped, ops, faults>>

-----------------------------------------------------------------------------
\* The worker.

\* The wait before a retry is over.
Elapse(d) ==
    /\ d \in pending
    /\ pending' = pending \ {d}
    /\ due' = Append(due, d)
    /\ UNCHANGED <<endpoint, rows, dlq, task, history, ops, faults>>

\* tick, ProcessDueRetries: a fresh context and a batch of the due retries.
Tick ==
    /\ At(Worker, "idle")
    /\ due # <<>>
    /\ task' = [task EXCEPT ![Worker] =
                   [Idle EXCEPT !.pc = "next", !.kind = "retry",
                        !.todo = DueRetries(Batch)]]
    /\ UNCHANGED <<store, history, ops, faults>>

\* RetryDelivery goes on from the row of the last attempt.
NextAttempt(d) ==
    [task[Worker] EXCEPT !.pc = "post", !.todo = Tail(@), !.event = rows[d].event,
        !.ep = rows[d].ep, !.attempt = rows[d].attempt + 1, !.old = d,
        !.copy = CopyOf(rows[d].ep)]

\* Bug variant of Fetch: the retry row is removed before the new attempt.
FetchRemoves(ok) ==
    LET j == task[Worker]
        d == Head(j.todo)
        found == ok /\ Exists(d) /\ ~Buried(d) IN
    /\ At(Worker, "next")
    /\ j.todo # <<>>
    /\ StoreCall(Worker, ok)
    /\ due' = IF found THEN Without(due, {d}) ELSE due
    /\ task' = [task EXCEPT ![Worker] =
          IF found THEN NextAttempt(d) ELSE [j EXCEPT !.todo = Tail(@)]]
    /\ UNCHANGED <<endpoint, rows, pending, dlq, history, ops>>

\* Bug variant of Fetch: a delivery one short of the last attempt is an error.
FetchRefuses(ok) ==
    LET j == task[Worker]
        d == Head(j.todo)
        found == ok /\ Exists(d) /\ ~Buried(d) /\ rows[d].attempt + 1 < MaxAttempts IN
    /\ At(Worker, "next")
    /\ j.todo # <<>>
    /\ StoreCall(Worker, ok)
    /\ task' = [task EXCEPT ![Worker] =
          IF found THEN NextAttempt(d) ELSE [j EXCEPT !.todo = Tail(@)]]
    /\ UNCHANGED <<store, history, ops>>

\* RetryDelivery up to its POST: an error (an expired context, a row that is
\* gone or buried) skips the row, which stays due.
Fetch(ok) ==
    LET j == task[Worker]
        d == Head(j.todo)
        found == ok /\ Exists(d) /\ ~Buried(d) IN
    /\ At(Worker, "next")
    /\ j.todo # <<>>
    /\ StoreCall(Worker, ok)
    /\ task' = [task EXCEPT ![Worker] =
          IF found THEN NextAttempt(d) ELSE [j EXCEPT !.todo = Tail(@)]]
    /\ UNCHANGED <<store, history, ops>>

\* The next endpoint of a Dispatch.
NextTarget(r) ==
    LET j == task[r] IN
    /\ At(r, "next")
    /\ j.todo # <<>>
    /\ task' = [task EXCEPT ![r] = [j EXCEPT !.pc = "post", !.todo = Tail(@),
                    !.ep = Head(j.todo), !.attempt = 1, !.copy = TRUE]]
    /\ UNCHANGED <<store, history, ops, faults>>

Finish(t) ==
    /\ At(t, "next")
    /\ task[t].todo = <<>>
    /\ task' = [task EXCEPT ![t] = Idle]
    /\ UNCHANGED <<store, history, ops, faults>>

-----------------------------------------------------------------------------
\* deliverSync, and recordFailure for a POST without an answer.

Deadline(t) == task[t].kind \in {"dispatch", "retry"}

\* The 5s of a dispatch or of a tick are over.
Expire(t) ==
    /\ Deadline(t)
    /\ ~task[t].expired
    /\ Fault
    /\ task' = [task EXCEPT ![t].expired = TRUE]
    /\ UNCHANGED <<store, history, ops>>

\* After deliverSync: the worker removes the old retry row, a dispatch goes on
\* to its next endpoint, a test or a replay is over.
Onward(t) ==
    [Idle EXCEPT !.pc = "next", !.kind = task[t].kind, !.todo = task[t].todo,
                 !.event = IF t = Worker THEN 0 ELSE task[t].event,
                 !.expired = task[t].expired]

Delivered(t) ==
    IF t = Worker THEN [To(t, "dequeue") EXCEPT !.answer = "none", !.row = 0, !.attempt = 0]
    ELSE IF task[t].kind = "dispatch" THEN Onward(t) ELSE Idle

\* The POST: 2xx, another status, or no answer (a transport error, or the end
\* of the context).
Post(t, answer) ==
    LET j == task[t]
        late == j.ep \in Slow /\ Deadline(t) IN
    /\ At(t, "post")
    /\ late \/ j.expired => answer = "none"
    /\ task' = [task EXCEPT ![t] = [j EXCEPT !.pc = "record", !.answer = answer,
                    !.expired = @ \/ late]]
    /\ accepted' = IF answer = "2xx" THEN accepted \cup {Notice(t)} ELSE accepted
    /\ UNCHANGED <<store, owed, missed, doubled, intent, overlapped, ops, faults>>

\* A call without which the event is lost failed: in the worker only if it goes
\* on to remove the old row, which an expired context does not let it do.
Lose(t) ==
    IF t = Worker /\ task[t].expired THEN missed ELSE missed \cup {Notice(t)}

\* CreateDelivery; the foreign key refuses a row of a deleted endpoint.  On an
\* error deliverSync returns: no retry is armed and no entry made in the DLQ.
Record(t, ok) ==
    LET j == task[t]
        made == ok /\ Live(j.ep) IN
    /\ At(t, "record")
    /\ StoreCall(t, ok)
    /\ rows' = IF made THEN Append(rows, DeliveryOf(j)) ELSE rows
    /\ task' = [task EXCEPT ![t] =
          IF ~made THEN Delivered(t)
          ELSE [To(t, IF j.answer = "none" THEN "arm" ELSE "snapshot") EXCEPT !.row = Len(rows) + 1]]
    /\ missed' = IF made THEN missed ELSE Lose(t)
    /\ UNCHANGED <<endpoint, pending, due, dlq, owed, accepted, doubled, intent, overlapped, ops>>

\* Bug variant of Snapshot: the status of the answer is not looked at.
SnapshotArms(t, ok) ==
    LET j == task[t] IN
    /\ At(t, "snapshot")
    /\ StoreCall(t, ok)
    /\ IF ok THEN ReplaceEndpoint(j.ep, j.copy) ELSE UNCHANGED endpoint
    /\ task' = [task EXCEPT ![t] = To(t, "arm")]
    /\ UNCHANGED <<rows, pending, due, dlq, history, ops>>

\* Bug variant of Snapshot: enabled takes its default.
SnapshotEnables(t, ok) ==
    LET j == task[t] IN
    /\ At(t, "snapshot")
    /\ StoreCall(t, ok)
    /\ IF ok THEN ReplaceEndpoint(j.ep, TRUE) ELSE UNCHANGED endpoint
    /\ task' = [task EXCEPT ![t] = IF j.answer = "2xx" THEN Delivered(t) ELSE To(t, "arm")]
    /\ UNCHANGED <<rows, pending, due, dlq, history, ops>>

\* UpdateEndpoint with the status of this delivery, and with the whole row as
\* it was read before the POST; a failure is ignored.
Snapshot(t, ok) ==
    LET j == task[t] IN
    /\ At(t, "snapshot")
    /\ StoreCall(t, ok)
    /\ IF ok THEN ReplaceEndpoint(j.ep, j.copy) ELSE UNCHANGED endpoint
    /\ task' = [task EXCEPT ![t] = IF j.answer = "2xx" THEN Delivered(t) ELSE To(t, "arm")]
    /\ UNCHANGED <<rows, pending, due, dlq, history, ops>>

\* After attempt n the event is given up.
LastAttempt(n) == n >= MaxAttempts

\* EnqueueRetry, or moveToDLQ after the last attempt; an error is ignored.  The
\* foreign key refuses a retry of a deleted row, the DLQ has none.
Arm(t, ok) ==
    LET j == task[t]
        last == LastAttempt(j.attempt)
        made == ok /\ (last \/ Exists(j.row)) IN
    /\ At(t, "arm")
    /\ StoreCall(t, ok)
    /\ pending' = IF made /\ ~last THEN pending \cup {j.row} ELSE pending
    /\ dlq' = IF made /\ last THEN DeadLetter(Notice(t)) ELSE dlq
    /\ missed' = IF made THEN missed ELSE Lose(t)
    /\ task' = [task EXCEPT ![t] = Delivered(t)]
    /\ UNCHANGED <<endpoint, rows, due, owed, accepted, doubled, intent, overlapped, ops>>

\* Bug variant of Dequeue: the old row is left to the next tick.
DequeueForgotten(ok) ==
    /\ At(Worker, "dequeue")
    /\ StoreCall(Worker, ok)
    /\ doubled' = IF ok THEN doubled ELSE doubled \cup {Notice(Worker)}
    /\ task' = [task EXCEPT ![Worker] = Onward(Worker)]
    /\ UNCHANGED <<endpoint, rows, pending, due, dlq, owed, accepted, missed, intent,
                   overlapped, ops>>

\* RetryDelivery removes the retry row it fired, after the new attempt and its
\* own row are in place; an error is ignored.
Dequeue(ok) ==
    LET old == task[Worker].old IN
    /\ At(Worker, "dequeue")
    /\ StoreCall(Worker, ok)
    /\ pending' = IF ok THEN pending \ {old} ELSE pending
    /\ due' = IF ok THEN Without(due, {old}) ELSE due
    /\ doubled' = IF ok THEN doubled ELSE doubled \cup {Notice(Worker)}
    /\ task' = [task EXCEPT ![Worker] = Onward(Worker)]
    /\ UNCHANGED <<endpoint, rows, dlq, owed, accepted, missed, intent, overlapped, ops>>

-----------------------------------------------------------------------------
\* Notices a request is responsible for until they are armed or accepted.
Undone(t) ==
    LET j == task[t] IN
    (IF j.kind = "dispatch"
     THEN {[event |-> j.event, ep |-> e] : e \in Range(j.todo)} ELSE {})
    \cup (IF j.pc \in {"post", "record", "snapshot", "arm"} THEN {Notice(t)} ELSE {})

\* The panel dies; the database stays.
Crash ==
    /\ \E t \in Tasks : ~At(t, "idle")
    /\ Fault
    /\ missed' = missed \cup UNION {Undone(r) : r \in Requests}
    /\ doubled' = IF task[Worker].pc \in {"record", "snapshot", "arm", "dequeue"}
                  THEN doubled \cup {Notice(Worker)} ELSE doubled
    /\ task' = [t \in Tasks |-> Idle]
    /\ UNCHANGED <<store, owed, accepted, intent, overlapped, ops>>

Init ==
    /\ endpoint = [e \in Endpoints |-> [row |-> "none", enabled |-> TRUE]]
    /\ rows = <<>> /\ pending = {} /\ due = <<>> /\ dlq = {}
    /\ task = [t \in Tasks |-> Idle]
    /\ owed = {} /\ accepted = {} /\ missed = {} /\ doubled = {}
    /\ intent = [e \in Endpoints |-> TRUE] /\ overlapped = {}
    /\ ops = 0 /\ faults = 0

DeliverStep(t) ==
    \/ \E answer \in {"2xx", "other", "none"} : Post(t, answer)
    \/ \E ok \in BOOLEAN : Record(t, ok) \/ Snapshot(t, ok) \/ Arm(t, ok)
    \/ Finish(t)

RequestStep(r) ==
    \/ DeliverStep(r)
    \/ NextTarget(r)
    \/ \E ok \in BOOLEAN : SaveEndpoint(r, ok)

WorkerStep ==
    \/ DeliverStep(Worker)
    \/ \E ok \in BOOLEAN : Fetch(ok) \/ Dequeue(ok)
    \/ Tick

Start(r) ==
    \/ BeginDispatch(r) \/ DispatchUnlisted(r)
    \/ \E e \in Endpoints : BeginTest(r, e)
    \/ \E n \in dlq : BeginReplay(r, n)
    \/ \E e \in Endpoints, patch \in Patches : BeginUpdate(r, e, patch)

Next ==
    \/ \E r \in Requests : Start(r) \/ RequestStep(r)
    \/ WorkerStep
    \/ \E d \in pending : Elapse(d)
    \/ \E t \in Tasks : Expire(t)
    \/ \E e \in Endpoints, enabled \in BOOLEAN : CreateEndpoint(e, enabled)
    \/ \E e \in Endpoints : DeleteEndpoint(e)
    \/ \E n \in dlq : DeleteDLQ(n)
    \/ Crash

Spec == Init /\ [][Next]_vars

\* The worker's goroutine and the handlers run on, and timers run out.  No
\* request is ever sure to be made.
Fairness ==
    /\ WF_vars(WorkerStep)
    /\ \A r \in Requests : WF_vars(RequestStep(r))
    /\ \A d \in 1..MaxRows : WF_vars(Elapse(d))

FairSpec == Spec /\ Fairness

-----------------------------------------------------------------------------
Task ==
    [pc : {"idle", "next", "save", "post", "record", "snapshot", "arm", "dequeue"},
     kind : {"none", "dispatch", "test", "replay", "update", "retry"},
     todo : Seq(Endpoints \cup Nat), event : 0..MaxOps,
     ep : Endpoints \cup {"none"}, attempt : 0..MaxAttempts, copy : BOOLEAN,
     answer : {"none", "2xx", "other"}, row : Nat, old : Nat,
     expired : BOOLEAN]

TypeOK ==
    /\ endpoint \in [Endpoints -> [row : {"none", "live", "deleted"}, enabled : BOOLEAN]]
    /\ rows \in Seq([event : 1..MaxOps, ep : Endpoints, attempt : 1..MaxAttempts])
    /\ pending \subseteq DOMAIN rows /\ due \in Seq(DOMAIN rows)
    /\ task \in [Tasks -> Task]
    /\ dlq \subseteq owed /\ accepted \subseteq owed
    /\ missed \subseteq owed /\ doubled \subseteq owed
    /\ owed \subseteq [event : 1..MaxOps, ep : Endpoints]
    /\ intent \in [Endpoints -> BOOLEAN] /\ overlapped \subseteq Endpoints
    /\ ops \in 0..MaxOps /\ faults \in 0..MaxFaults

\* An event set out for an endpoint is accepted by it, waits for a retry, is in
\* the DLQ or is being worked on; it is gone only when a store call for it
\* failed, the context of its first dispatch ended, the panel died before the
\* first attempt was armed, or the operator deleted endpoint or DLQ entry.  In
\* particular no crash and no expiry in the worker loses one.
NoEventLost ==
    \A n \in owed :
        \/ n \in accepted \cup missed \cup dlq
        \/ \E d \in Waiting : NoticeOf(d) = n
        \/ \E t \in Tasks : n \in Undone(t)

\* At most one retry of an event waits at an endpoint, but for the moment in
\* which the worker has armed the next one and not yet removed the last, and
\* but for events replayed or whose old row the worker could not remove.
SingleChain ==
    \A d1, d2 \in Waiting :
        NoticeOf(d1) = NoticeOf(d2) /\ d1 # d2 =>
            \/ NoticeOf(d1) \in doubled
            \/ At(Worker, "dequeue") /\ task[Worker].old \in {d1, d2}

\* An endpoint that answered an event with 2xx is not sent it again, unless it
\* was replayed or the worker's old row outlived a failure or a crash.
AckedOnce ==
    [][\A t \in Tasks :
          At(t, "post") /\ task'[t].pc = "record" /\ Notice(t) \in accepted
              => Notice(t) \in doubled]_vars

\* deliverSync writes back the row of the endpoint it read before its POST, and
\* still an operator's change of it stays, unless it was saved while some
\* delivery or update held such a copy.
EditsKept == \A e \in Endpoints \ overlapped : endpoint[e].enabled = intent[e]

\* A whole batch of rows that no tick can find, which stay due for ever.
Starved == Cardinality({d \in Waiting : Buried(d)}) >= Batch

\* d is, or is due behind, a row of an endpoint that answers later than a tick
\* lasts: its POST uses up the time of the tick, nothing of it can be recorded,
\* and it comes first again at the next tick.
Choked(d) ==
    \E i, k \in DOMAIN due :
        i <= k /\ due[k] = d /\ rows[due[i]].ep \in Slow /\ ~Buried(due[i])

\* Every retry is fired and its row removed, or finds its endpoint deleted,
\* whatever fails and however many are due at once.  There are three kinds of
\* exception, and a retry that is none of them for good does fire: its delivery
\* is no longer among the newest ListLimit of its endpoint, a whole batch of such
\* rows is due, or a slow receiver's row is due before it.
RetryFires ==
    \A d \in 1..MaxRows :
        \/ []<>(d \notin Waiting)
        \/ <>[](d \in Waiting /\ (Buried(d) \/ Starved \/ Choked(d)))
=============================================================================
