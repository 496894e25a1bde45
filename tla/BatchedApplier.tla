--------------------------- MODULE BatchedApplier ---------------------------
(***************************************************************************)
(* The per-node delta coalescer of backend/internal/cores/batched.go and   *)
(* the way internal/app starts and stops it.                               *)
(*                                                                         *)
(* Every wired node has one applier: a bounded channel (queue), the map    *)
(* that the select loop folds the channel into (pending), and one          *)
(* goroutine (loop).  A flush takes the whole map and calls the FlushFn    *)
(* synchronously, so nothing is absorbed while a flush is under way.  The  *)
(* FlushFn itself is left open here; AccessSync says what it does.         *)
(***************************************************************************)
EXTENDS Naturals, Sequences, FiniteSets

CONSTANTS
    Nodes,      \* VPN nodes known to the panel
    Keys,       \* Delta.UserID values: user ids, and uuid.Nil for inbound edits
    MaxQueue    \* maxQueue: capacity of the channel and flush threshold

ASSUME MaxQueueAssumption == MaxQueue \in Nat \ {0}
ASSUME KeysAssumption == IsFiniteSet(Keys)

VARIABLES
    queue,      \* queue[n]: the channel of node n's applier
    pending,    \* pending[n][k]: the delta kind held for key k, or "none"
    loop,       \* loop[n]: where Run stands ("off": the node has no applier)
    stopping    \* the context every applier was started with is cancelled

applierVars == <<queue, pending, loop, stopping>>

-----------------------------------------------------------------------------
Kinds == {"add", "remove", "setlimit"}

Delta == [kind : Kinds, key : Keys]

NoPending == [k \in Keys |-> "none"]

\* pendingLen
PendingLen(m) == Cardinality({k \in Keys : m[k] # "none"})

\* The Add/Remove pair that absorb drops on both sides.
Cancels(held, kind) ==
    \/ held = "add" /\ kind = "remove"
    \/ held = "remove" /\ kind = "add"

\* absorb: an opposite pair annihilates, otherwise the latest kind wins.
AbsorbInto(m, d) ==
    [m EXCEPT ![d.key] = IF Cancels(m[d.key], d.kind) THEN "none" ELSE d.kind]

-----------------------------------------------------------------------------
\* Only the nodes that are online when the panel boots get an applier.
ApplierInit ==
    /\ queue = [n \in Nodes |-> <<>>]
    /\ pending = [n \in Nodes |-> NoPending]
    /\ loop \in [Nodes -> {"off", "select"}]
    /\ stopping = FALSE

\* A blocking channel send: a full channel disables it.
Enqueue(n, d) ==
    /\ loop[n] # "off"
    /\ Len(queue[n]) < MaxQueue
    /\ queue' = [queue EXCEPT ![n] = Append(@, d)]
    /\ UNCHANGED <<pending, loop, stopping>>

\* Snapshot the map m of node n, empty it and enter the FlushFn.
BeginFlush(n) ==
    /\ pending' = [pending EXCEPT ![n] = NoPending]
    /\ loop' = [loop EXCEPT ![n] = "flush"]

\* Bug variant of Absorb: the threshold flush is forgotten.
AbsorbNoThreshold(n) ==
    /\ loop[n] = "select"
    /\ queue[n] # <<>>
    /\ queue' = [queue EXCEPT ![n] = Tail(@)]
    /\ pending' = [pending EXCEPT ![n] = AbsorbInto(@, Head(queue[n]))]
    /\ UNCHANGED <<loop, stopping>>

\* case d := <-b.queue
Absorb(n) ==
    LET m == AbsorbInto(pending[n], Head(queue[n])) IN
    /\ loop[n] = "select"
    /\ queue[n] # <<>>
    /\ queue' = [queue EXCEPT ![n] = Tail(@)]
    /\ IF PendingLen(m) >= MaxQueue
       THEN BeginFlush(n)
       ELSE /\ pending' = [pending EXCEPT ![n] = m]
            /\ UNCHANGED loop
    /\ UNCHANGED stopping

\* Bug variant of Tick: the window flushes only a full map.
TickFullOnly(n) ==
    /\ loop[n] = "select"
    /\ PendingLen(pending[n]) >= MaxQueue
    /\ BeginFlush(n)
    /\ UNCHANGED <<queue, stopping>>

\* case <-ticker.C: an empty map makes flush return at once.
Tick(n) ==
    /\ loop[n] = "select"
    /\ pending[n] # NoPending
    /\ BeginFlush(n)
    /\ UNCHANGED <<queue, stopping>>

\* Bug variant of FlushReturn: what arrived during the flush is thrown away.
FlushReturnDropsQueue(n) ==
    /\ loop[n] = "flush"
    /\ loop' = [loop EXCEPT ![n] = "select"]
    /\ queue' = [queue EXCEPT ![n] = <<>>]
    /\ UNCHANGED <<pending, stopping>>

\* The FlushFn returned; flush only logs its error.
FlushReturn(n) ==
    /\ loop[n] = "flush"
    /\ loop' = [loop EXCEPT ![n] = "select"]
    /\ UNCHANGED <<queue, pending, stopping>>

\* SIGTERM cancels the boot context, hence every applier's context.
Cancel ==
    /\ ~stopping
    /\ stopping' = TRUE
    /\ UNCHANGED <<queue, pending, loop>>

\* case <-ctx.Done()
StartDrain(n) ==
    /\ stopping
    /\ loop[n] = "select"
    /\ loop' = [loop EXCEPT ![n] = "drain"]
    /\ UNCHANGED <<queue, pending, stopping>>

\* drain: absorb what is left in the channel, without the flush threshold.
DrainOne(n) ==
    /\ loop[n] = "drain"
    /\ queue[n] # <<>>
    /\ queue' = [queue EXCEPT ![n] = Tail(@)]
    /\ pending' = [pending EXCEPT ![n] = AbsorbInto(@, Head(queue[n]))]
    /\ UNCHANGED <<loop, stopping>>

\* Run returns; what pending holds is never flushed.
DrainReturn(n) ==
    /\ loop[n] = "drain"
    /\ queue[n] = <<>>
    /\ loop' = [loop EXCEPT ![n] = "stopped"]
    /\ UNCHANGED <<queue, pending, stopping>>

\* A new process: fresh appliers for the nodes of wired, nothing enqueued.
Boot(wired) ==
    /\ queue' = [n \in Nodes |-> <<>>]
    /\ pending' = [n \in Nodes |-> NoPending]
    /\ loop' = [n \in Nodes |-> IF n \in wired THEN "select" ELSE "off"]
    /\ stopping' = FALSE

ApplierNext ==
    \/ \E n \in Nodes :
          \/ \E d \in Delta : Enqueue(n, d)
          \/ Absorb(n)
          \/ Tick(n)
          \/ FlushReturn(n)
          \/ StartDrain(n)
          \/ DrainOne(n)
          \/ DrainReturn(n)
    \/ Cancel
    \/ \E wired \in SUBSET Nodes : Boot(wired)

ApplierSpec == ApplierInit /\ [][ApplierNext]_applierVars

-----------------------------------------------------------------------------
LoopStates == {"off", "select", "flush", "drain", "stopped"}

ApplierTypeOK ==
    /\ queue \in [Nodes -> Seq(Delta)]
    /\ pending \in [Nodes -> [Keys -> Kinds \cup {"none"}]]
    /\ loop \in [Nodes -> LoopStates]
    /\ stopping \in BOOLEAN

\* The buffers stay within maxQueue, and the loop never goes back to its
\* select holding a full map (the threshold flush of Run's queue case):
\* only the drain of a shutdown may fill the map further.
BuffersBounded ==
    \A n \in Nodes :
        /\ Len(queue[n]) <= MaxQueue
        /\ loop[n] \in {"select", "flush"} => PendingLen(pending[n]) < MaxQueue
        /\ loop[n] = "flush" => pending[n] = NoPending
        /\ loop[n] \in {"drain", "stopped"} => stopping
        /\ loop[n] = "off" => queue[n] = <<>> /\ pending[n] = NoPending
=============================================================================
