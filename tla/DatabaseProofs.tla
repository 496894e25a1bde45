--------------------------- MODULE DatabaseProofs ---------------------------
(* Proofs about the panel's database as a whole: its dumps and their index,  *)
(* and the migrations that shape it.                                         *)
(*                                                                           *)
(* Backups: what an ok row promises, where the files are listed, and what    *)
(* retention leaves.  Migrator: whatever files there are and however runs of *)
(* Up and Down meet, the journal follows the schema.                         *)
EXTENDS Backups, Migrator, FiniteSetTheorems, WellFoundedInduction, TLAPS

-----------------------------------------------------------------------------
(* Backups.                                                                *)

(* --- what the workers are at ------------------------------------------- *)

MakeSteps == {"insert", "open", "dump", "hash", "sum", "ok", "failed"}
CreateSteps == MakeSteps \cup {"list"}
RemoveSteps == {"file", "sidecar", "row"}
DropSteps == {"get"} \cup RemoveSteps
Steps == {"idle"} \cup CreateSteps \cup DropSteps

Works == [at : Steps, id : 0..MaxBackups, drop : SUBSET Backup, view : Index \cup {NoIndex}]

\* A worker that makes a backup is a Create with an id of its own; one that
\* removes backups has some left, and has announced the one it removes.
WorkerOk(w) ==
  /\ work[w].at \in CreateSteps => w[2] = "create" /\ work[w].id \in 1..made
  /\ work[w].at \notin CreateSteps => work[w].id = 0
  /\ work[w].at \in DropSteps => work[w].drop # {} /\ work[w].drop \subseteq 1..made
  /\ work[w].at \notin DropSteps => work[w].drop = {}
  /\ Holds(w) => work[w].at \in IndexOps
  /\ work[w].at \in RemoveSteps => Target(w) \in dropped

OwnIds ==
  \A w, v \in Worker :
    work[w].at \in CreateSteps /\ work[v].at \in CreateSteps /\ work[w].id = work[v].id => w = v

\* Nothing is there of a backup whose Create has not been called.
Unmade ==
  \A b \in Backup : b > made =>
    /\ index[b] = "none" /\ dump[b] = "none" /\ ~sidecar[b]
    /\ \A w \in Worker : Holds(w) => work[w].view[b] = "none"

WorkInv == TypeOK /\ (\A w \in Worker : WorkerOk(w)) /\ OwnIds /\ Unmade

-----------------------------------------------------------------------------
(* A set of backups has a largest one.                                      *)

\* The newest of some backups is one of them (the pass of Cleanup goes through
\* the rows one by one).
LEMMA MaxIsIn ==
    ASSUME NEW n \in Nat, NEW S, S \subseteq 1..n, S # {}
    PROVE  Max(S) \in S
  <1> DEFINE Below == {n - x : x \in S}
  <1>0. \A x \in S : x \in Nat /\ n - x \in Nat
    OBVIOUS
  <1>1. Below \subseteq Nat /\ Below # {}
    BY <1>0
  <1> DEFINE R == OpToRel(<, Nat)
  <1>2. IsWellFoundedOn(R, Nat)
    BY NatLessThanWellFounded
  <1> HIDE DEF R, Below
  <1>2a. \E m \in Below : \A y \in Below : <<y, m>> \notin R
    BY <1>1, <1>2, WFMin
  <1>2b. PICK m \in Below : \A y \in Below : <<y, m>> \notin R
    BY <1>2a
  <1>3. \A y \in Below : ~(y < m)
    BY <1>1, <1>2b DEF R, OpToRel
  <1> USE DEF Below
  <1>4. PICK x \in S : m = n - x
    BY <1>2
  <1>5. \A y \in S : x >= y
    <2> SUFFICES ASSUME NEW y \in S
                 PROVE  x >= y
      OBVIOUS
    <2>1. n - y \in Below
      OBVIOUS
    <2>2. ~(n - y < n - x)
      BY <1>3, <1>4, <2>1
    <2> QED
      BY <2>2
  <1> QED
    BY <1>4, <1>5 DEF Max

\* The backup that a removal is at is one of those it removes (Delete).
LEMMA TargetIsIn ==
    ASSUME TypeOK, NEW w \in Worker, work[w].drop # {}
    PROVE  Target(w) \in work[w].drop /\ Target(w) \in Backup
  <1>1. work[w].drop \subseteq Backup
    BY DEF TypeOK
  <1>2. MaxBackups \in Nat
    BY BackupsAssumption
  <1>3. Max(work[w].drop) \in work[w].drop
    BY <1>1, <1>2, MaxIsIn DEF Backup
  <1> QED
    BY <1>1, <1>3 DEF Target

-----------------------------------------------------------------------------
(* What a step makes of the work of its worker and of the others.           *)

Keeps(w) == \A v \in Worker \ {w} : work'[v] = work[v]
Ends(w) == Keeps(w) /\ work'[w] = Idle
To(w, at) ==
  /\ Keeps(w)
  /\ work'[w].at = at /\ work'[w].view = NoIndex
  /\ work'[w].id = work[w].id /\ work'[w].drop = work[w].drop
Rests(w) ==
  /\ Keeps(w)
  /\ work'[w].at = "get" /\ work'[w].view = NoIndex
  /\ work'[w].id = work[w].id
  /\ work'[w].drop # {} /\ work'[w].drop \subseteq work[w].drop

WorkType == work \in [Worker -> Works]

\* The record of a worker is of its type (the locals of Create and Delete).
LEMMA WorkTypes ==
    ASSUME TypeOK
    PROVE  WorkType
  <1>1. {"idle", "insert", "open", "dump", "hash", "sum", "ok", "failed",
         "list", "get", "file", "sidecar", "row"} = Steps
    BY DEF Steps, CreateSteps, MakeSteps, DropSteps, RemoveSteps
  <1> QED
    BY <1>1 DEF TypeOK, WorkType, Works

\* The worker that is done is at rest, and so it starts (Service).
LEMMA IdleType == Idle \in Works
  <1>1. 0 \in 0..MaxBackups
    BY BackupsAssumption
  <1>2. "idle" \in Steps /\ {} \in SUBSET Backup /\ NoIndex \in Index \cup {NoIndex}
    BY DEF Steps
  <1> QED
    BY <1>1, <1>2 DEF Idle, Works

\* One step after another within Create or Delete.
LEMMA GotoSteps ==
    ASSUME WorkType, NEW w \in Worker, NEW at \in Steps, Goto(w, at)
    PROVE  WorkType' /\ To(w, at)
  <1>1. work[w] \in Works
    BY DEF WorkType
  <1>2. PICK r : r = [work[w] EXCEPT !.at = at, !.view = NoIndex]
    OBVIOUS
  <1>3. r \in Works /\ r.at = at /\ r.view = NoIndex /\ r.id = work[w].id /\ r.drop = work[w].drop
    BY <1>1, <1>2 DEF Works
  <1>4. work' = [work EXCEPT ![w] = r]
    BY <1>2 DEF Goto, WorkType
  <1> QED
    BY <1>3, <1>4 DEF WorkType, To, Keeps

\* The end of Create and of Delete.
LEMMA IdleSteps ==
    ASSUME WorkType, NEW w \in Worker, work' = [work EXCEPT ![w] = Idle]
    PROVE  WorkType' /\ Ends(w)
  BY IdleType DEF WorkType, Ends, Keeps

\* A removal ends or goes on with the next backup (the loop of Cleanup).
LEMMA NextDropSteps ==
    ASSUME WorkType, NEW w \in Worker, NextDrop(w)
    PROVE  WorkType' /\ (Ends(w) \/ Rests(w))
  <1> DEFINE rest == work[w].drop \ {Target(w)}
  <1>1. work[w] \in Works
    BY DEF WorkType
  <1>2. CASE rest = {}
    <2>1. work' = [work EXCEPT ![w] = Idle]
      BY <1>2 DEF NextDrop, WorkType
    <2> QED
      BY <2>1, IdleSteps
  <1>3. CASE rest # {}
    <2>1. PICK r : r = [work[w] EXCEPT !.at = "get", !.drop = rest, !.view = NoIndex]
      OBVIOUS
    <2>2. r \in Works /\ r.at = "get" /\ r.view = NoIndex /\ r.id = work[w].id /\ r.drop = rest
      BY <1>1, <2>1 DEF Works, Steps, DropSteps
    <2>3. work' = [work EXCEPT ![w] = r]
      BY <1>3, <2>1 DEF NextDrop, WorkType
    <2> QED
      BY <1>3, <2>2, <2>3 DEF WorkType, Rests, Keeps
  <1> QED
    BY <1>2, <1>3

\* An access to the index that fails ends Create or the removal of this
\* backup, or marks the new backup failed (Insert, Update, Delete of the store).
LEMMA FailedSteps ==
    ASSUME WorkType, NEW w \in Worker, IndexFailed(w)
    PROVE  /\ WorkType'
           /\ \/ Ends(w)
              \/ work[w].at = "row" /\ Rests(w)
              \/ work[w].at = "ok" /\ To(w, "failed")
  <1>1. CASE work[w].at = "ok"
    <2>1. Goto(w, "failed") /\ "failed" \in Steps
      BY <1>1 DEF IndexFailed, Steps, CreateSteps, MakeSteps
    <2> QED
      BY <1>1, <2>1, GotoSteps
  <1>2. CASE work[w].at = "row"
    <2>1. NextDrop(w)
      BY <1>2 DEF IndexFailed
    <2> QED
      BY <1>2, <2>1, NextDropSteps
  <1>3. CASE work[w].at # "ok" /\ work[w].at # "row"
    <2>1. work' = [work EXCEPT ![w] = Idle]
      BY <1>3 DEF IndexFailed
    <2> QED
      BY <2>1, IdleSteps
  <1> QED
    BY <1>1, <1>2, <1>3

\* An access to the index that succeeds.
LEMMA DoneSteps ==
    ASSUME WorkType, NEW w \in Worker, IndexDone(w), work[w].at \in IndexOps
    PROVE  /\ WorkType'
           /\ \/ work[w].at = "insert" /\ To(w, "open")
              \/ work[w].at = "ok" /\ To(w, "list")
              \/ work[w].at = "failed" /\ Ends(w)
              \/ work[w].at = "row" /\ (Ends(w) \/ Rests(w))
  <1>0. {"open", "list"} \subseteq Steps
    BY DEF Steps, CreateSteps, MakeSteps
  <1>1. CASE work[w].at = "insert"
    <2>1. Goto(w, "open")
      BY <1>1 DEF IndexDone
    <2> QED
      BY <1>0, <1>1, <2>1, GotoSteps
  <1>2. CASE work[w].at = "ok"
    <2>1. Goto(w, "list")
      BY <1>2 DEF IndexDone
    <2> QED
      BY <1>0, <1>2, <2>1, GotoSteps
  <1>3. CASE work[w].at = "failed"
    <2>1. work' = [work EXCEPT ![w] = Idle]
      BY <1>3 DEF IndexDone
    <2> QED
      BY <1>3, <2>1, IdleSteps
  <1>4. CASE work[w].at = "row"
    <2>1. NextDrop(w)
      BY <1>4 DEF IndexDone
    <2> QED
      BY <1>4, <2>1, NextDropSteps
  <1> QED
    BY <1>1, <1>2, <1>3, <1>4 DEF IndexOps

-----------------------------------------------------------------------------
(* The ways a step of a worker goes.                                        *)

\* From one step of Create or of the removal to the next one.
Goes ==
  {<<"insert", "open">>, <<"open", "dump">>, <<"dump", "hash">>, <<"hash", "sum">>,
   <<"sum", "ok">>, <<"ok", "list">>, <<"file", "sidecar">>, <<"sidecar", "row">>}
  \cup {<<at, "failed">> : at \in {"open", "dump", "hash", "sum", "ok"}}

Reads(w) ==
  /\ work[w].at \in IndexOps /\ MutexFree(w)
  /\ Keeps(w)
  /\ work'[w].at = work[w].at /\ work'[w].view = index
  /\ work'[w].id = work[w].id /\ work'[w].drop = work[w].drop
GoesOn(w) == \E at \in Steps : <<work[w].at, at>> \in Goes /\ To(w, at)
Announces(w) == work[w].at = "get" /\ To(w, "file") /\ Target(w) \in dropped'
Prunes(w) ==
  /\ work[w].at = "list" /\ Keeps(w)
  /\ work'[w].at = "get" /\ work'[w].view = NoIndex /\ work'[w].id = 0
  /\ work'[w].drop # {} /\ work'[w].drop \subseteq Rows(index)

Moves(w) ==
  \/ Reads(w)
  \/ Ends(w)
  \/ work[w].at \in DropSteps /\ Rests(w)
  \/ GoesOn(w)
  \/ Announces(w)
  \/ Prunes(w)

\* From one step to another, in the words of Moves.
LEMMA GotoMoves ==
    ASSUME WorkType, NEW w \in Worker, NEW at \in Steps, Goto(w, at),
           <<work[w].at, at>> \in Goes
    PROVE  WorkType' /\ Moves(w)
  BY GotoSteps DEF Moves, GoesOn

\* An access to the index that fails, in the words of Moves.
LEMMA FailedMoves ==
    ASSUME WorkType, NEW w \in Worker, IndexFailed(w)
    PROVE  WorkType' /\ Moves(w)
  <1>1. <<"ok", "failed">> \in Goes /\ "failed" \in Steps /\ "row" \in DropSteps
    BY DEF Goes, Steps, CreateSteps, MakeSteps, DropSteps, RemoveSteps
  <1> QED
    BY <1>1, FailedSteps DEF Moves, GoesOn

\* The next removal or the end, in the words of Moves.
LEMMA NextDropMoves ==
    ASSUME WorkType, NEW w \in Worker, NextDrop(w), work[w].at \in DropSteps
    PROVE  WorkType' /\ Moves(w)
  BY NextDropSteps DEF Moves

\* ReadIndex is the only step that takes the mutex.
LEMMA ReadMoves ==
    ASSUME TypeOK, WorkType, NEW w \in Worker, ReadIndex(w)
    PROVE  WorkType' /\ Reads(w)
  <1>1. work[w] \in Works /\ index \in Index
    BY DEF WorkType, TypeOK
  <1>2. PICK r : r = [work[w] EXCEPT !.view = index]
    OBVIOUS
  <1>3. r \in Works /\ r.at = work[w].at /\ r.view = index /\ r.id = work[w].id /\ r.drop = work[w].drop
    BY <1>1, <1>2 DEF Works
  <1>4. work' = [work EXCEPT ![w] = r]
    BY <1>2 DEF ReadIndex, WorkType
  <1>5. work[w].at \in IndexOps /\ MutexFree(w)
    BY DEF ReadIndex
  <1> QED
    BY <1>3, <1>4, <1>5 DEF WorkType, Reads, Keeps

\* WriteIndex, after which the mutex is free again.
LEMMA WriteMoves ==
    ASSUME WorkType, NEW w \in Worker, WorkerOk(w), WriteIndex(w)
    PROVE  WorkType' /\ Moves(w)
  <1>1. work[w].at \in IndexOps /\ IndexDone(w)
    BY DEF WriteIndex, WorkerOk
  <1>2. <<"insert", "open">> \in Goes /\ <<"ok", "list">> \in Goes
    BY DEF Goes
  <1>3. "open" \in Steps /\ "list" \in Steps /\ "row" \in DropSteps
    BY DEF Steps, CreateSteps, MakeSteps, DropSteps, RemoveSteps
  <1> QED
    BY <1>1, <1>2, <1>3, DoneSteps DEF Moves, GoesOn

\* Create between its accesses to the index.
LEMMA MakeMoves ==
    ASSUME WorkType, NEW w \in Worker,
           OpenDump(w) \/ DumpEnds(w) \/ HashFile(w) \/ WriteSidecar(w)
    PROVE  WorkType' /\ Moves(w)
  <1>0. {"dump", "hash", "sum", "ok", "failed"} \subseteq Steps
    BY DEF Steps, CreateSteps, MakeSteps
  <1>1. CASE OpenDump(w)
    <2>1. \E at \in {"dump", "failed"} : Goto(w, at) /\ <<work[w].at, at>> \in Goes
      BY <1>1 DEF OpenDump, Goes
    <2> QED
      BY <1>0, <2>1, GotoMoves
  <1>2. CASE DumpEnds(w)
    <2>1. \E at \in {"hash", "failed"} : Goto(w, at) /\ <<work[w].at, at>> \in Goes
      BY <1>2 DEF DumpEnds, Goes
    <2> QED
      BY <1>0, <2>1, GotoMoves
  <1>3. CASE HashFile(w)
    <2>1. \E at \in {"sum", "failed"} : Goto(w, at) /\ <<work[w].at, at>> \in Goes
      BY <1>3 DEF HashFile, Goes
    <2> QED
      BY <1>0, <2>1, GotoMoves
  <1>4. CASE WriteSidecar(w)
    <2>1. \E at \in {"ok", "failed"} : Goto(w, at) /\ <<work[w].at, at>> \in Goes
      BY <1>4 DEF WriteSidecar, Goes
    <2> QED
      BY <1>0, <2>1, GotoMoves
  <1> QED
    BY <1>1, <1>2, <1>3, <1>4

\* Cleanup ends or starts to remove rows that it has read.
LEMMA CleanupMoves ==
    ASSUME WorkType, NEW w \in Worker, Cleanup(w)
    PROVE  WorkType' /\ (Ends(w) \/ Prunes(w))
  <1>1. CASE work' = [work EXCEPT ![w] = Idle]
    BY <1>1, IdleSteps
  <1>2. CASE work' # [work EXCEPT ![w] = Idle]
    <2>1. PICK drop : /\ drop # {} /\ drop \subseteq Rows(index)
                      /\ work' = [work EXCEPT ![w] = [Idle EXCEPT !.at = "get", !.drop = drop]]
      BY <1>2 DEF Cleanup, Surplus
    <2>2. PICK r : r = [Idle EXCEPT !.at = "get", !.drop = drop]
      OBVIOUS
    <2>3. r.at = "get" /\ r.drop = drop /\ r.id = 0 /\ r.view = NoIndex
      BY <2>2 DEF Idle
    <2>4. r \in Works
      <3>1. Idle \in Works /\ drop \in SUBSET Backup /\ "get" \in Steps
        BY <2>1, IdleType DEF Rows, Steps, DropSteps
      <3> QED
        BY <2>2, <3>1 DEF Works
    <2>5. work' = [work EXCEPT ![w] = r] /\ work[w].at = "list"
      BY <2>1, <2>2 DEF Cleanup
    <2> QED
      BY <2>1, <2>3, <2>4, <2>5 DEF WorkType, Prunes, Keeps
  <1> QED
    BY <1>1, <1>2

\* The steps of a removal before its row.
LEMMA RemoveMoves ==
    ASSUME WorkType, NEW w \in Worker,
           GetRow(w) \/ RemoveDump(w) \/ RemoveSidecar(w)
    PROVE  WorkType' /\ Moves(w)
  <1>0. {"file", "sidecar", "row"} \subseteq Steps /\ {"get", "file", "sidecar"} \subseteq DropSteps
    BY DEF Steps, DropSteps, RemoveSteps
  <1>1. CASE GetRow(w)
    <2>1. work[w].at = "get"
      BY <1>1 DEF GetRow
    <2>2. CASE Goto(w, "file") /\ dropped' = dropped \cup {Target(w)}
      BY <1>0, <2>1, <2>2, GotoSteps DEF Moves, Announces
    <2>3. CASE NextDrop(w)
      BY <1>0, <2>1, <2>3, NextDropMoves
    <2> QED
      BY <1>1, <2>2, <2>3 DEF GetRow
  <1>2. CASE RemoveDump(w)
    <2>1. work[w].at \in DropSteps /\ (Goto(w, "sidecar") \/ NextDrop(w)) /\ <<work[w].at, "sidecar">> \in Goes
      BY <1>0, <1>2 DEF RemoveDump, Goes
    <2> QED
      BY <1>0, <2>1, GotoMoves, NextDropMoves
  <1>3. CASE RemoveSidecar(w)
    <2>1. work[w].at \in DropSteps /\ (Goto(w, "row") \/ NextDrop(w)) /\ <<work[w].at, "row">> \in Goes
      BY <1>0, <1>3 DEF RemoveSidecar, Goes
    <2> QED
      BY <1>0, <2>1, GotoMoves, NextDropMoves
  <1> QED
    BY <1>1, <1>2, <1>3

\* A step of a worker, whatever it is, moves it along Create or the removal.
LEMMA StepMoves ==
    ASSUME TypeOK, WorkType, NEW w \in Worker, WorkerOk(w), Step(w)
    PROVE  WorkType' /\ Moves(w)
  <1>1. CASE ReadIndex(w)
    BY <1>1, ReadMoves DEF Moves
  <1>2. CASE RowMissing(w) \/ ReadFails(w) \/ WriteFails(w)
    <2>1. IndexFailed(w)
      BY <1>2 DEF RowMissing, ReadFails, WriteFails, IndexFailed
    <2> QED
      BY <2>1, FailedMoves
  <1>3. CASE WriteIndex(w)
    BY <1>3, WriteMoves
  <1>4. CASE Cleanup(w)
    BY <1>4, CleanupMoves DEF Moves
  <1> QED
    BY <1>1, <1>2, <1>3, <1>4, MakeMoves, RemoveMoves DEF Step

-----------------------------------------------------------------------------
(* The workers stay in order: types, mutex and own ids.                     *)

Mutex == \A w, v \in Worker : w[1] = v[1] /\ Holds(w) /\ Holds(v) => w = v

\* A worker that another one's step leaves alone stays in order.
LEMMA WorkerKept ==
    ASSUME TypeOK, NEW v \in Worker, WorkerOk(v), work'[v] = work[v],
           made' \in Nat, made <= made', dropped \subseteq dropped'
    PROVE  WorkerOk(v)' /\ Holds(v)' = Holds(v)
  <1>1. Holds(v)' = Holds(v) /\ Target(v)' = Target(v)
    BY DEF Holds, Target
  <1>2. 1..made \subseteq 1..made'
    BY DEF TypeOK
  <1> QED
    BY <1>1, <1>2 DEF WorkerOk

\* So does one that ends.
LEMMA WorkerEnded ==
    ASSUME NEW v \in Worker, work'[v] = Idle
    PROVE  WorkerOk(v)' /\ ~Holds(v)'
  <1>1. work'[v].at = "idle" /\ work'[v].id = 0 /\ work'[v].drop = {} /\ work'[v].view = NoIndex
    BY DEF Idle
  <1>2. ~Holds(v)'
    BY <1>1 DEF Holds
  <1> QED
    BY <1>1, <1>2 DEF WorkerOk, CreateSteps, MakeSteps, DropSteps, RemoveSteps

\* The rows of the index are of backups that have been asked for.
LEMMA RowsMade ==
    ASSUME TypeOK, Unmade
    PROVE  Rows(index) \subseteq 1..made
  BY BackupsAssumption DEF TypeOK, Unmade, Rows, Backup

\* A worker stays in order by its own steps.
LEMMA WorkerMoved ==
    ASSUME TypeOK, Unmade, NEW w \in Worker, WorkerOk(w), Moves(w), made' = made,
           dropped \subseteq dropped'
    PROVE  WorkerOk(w)'
  <1> USE DEF CreateSteps, MakeSteps, DropSteps, RemoveSteps
  <1>1. CASE Reads(w)
    <2>1. Target(w)' = Target(w)
      BY <1>1 DEF Reads, Target
    <2> QED
      BY <1>1, <2>1 DEF Reads, WorkerOk
  <1>2. CASE Ends(w)
    BY <1>2, WorkerEnded DEF Ends
  <1>3. CASE work[w].at \in DropSteps /\ Rests(w)
    <2>1. ~Holds(w)'
      BY <1>3 DEF Rests, Holds
    <2> QED
      BY <1>3, <2>1 DEF Rests, WorkerOk
  <1>4. CASE GoesOn(w)
    <2>1. PICK at \in Steps : <<work[w].at, at>> \in Goes /\ To(w, at)
      BY <1>4 DEF GoesOn
    <2>2. ~Holds(w)' /\ Target(w)' = Target(w)
      BY <2>1 DEF To, Holds, Target
    <2>3. /\ work[w].at \in CreateSteps <=> at \in CreateSteps
          /\ work[w].at \in DropSteps <=> at \in DropSteps
          /\ at \in RemoveSteps => work[w].at \in RemoveSteps
      BY <2>1 DEF Goes
    <2> QED
      BY <2>1, <2>2, <2>3 DEF To, WorkerOk
  <1>5. CASE Announces(w)
    <2>1. ~Holds(w)' /\ Target(w)' = Target(w)
      BY <1>5 DEF Announces, To, Holds, Target
    <2> QED
      BY <1>5, <2>1 DEF Announces, To, WorkerOk
  <1>6. CASE Prunes(w)
    <2>1. ~Holds(w)'
      BY <1>6 DEF Prunes, Holds
    <2> QED
      BY <1>6, <2>1, RowsMade DEF Prunes, WorkerOk
  <1> QED
    BY <1>1, <1>2, <1>3, <1>4, <1>5, <1>6 DEF Moves

\* A step takes its worker's mutex only when it is free.
LEMMA MutexMoved ==
    ASSUME Mutex, NEW w \in Worker, Moves(w)
    PROVE  Mutex'
  <1>1. \A v \in Worker \ {w} : Holds(v)' = Holds(v)
    BY DEF Moves, Reads, Ends, Rests, GoesOn, Announces, Prunes, To, Keeps, Holds
  <1>2. Holds(w)' => MutexFree(w)
    <2>1. Reads(w) \/ work'[w].view = NoIndex
      <3>1. CASE Ends(w)
        BY <3>1 DEF Ends, Idle
      <3>2. CASE Rests(w) \/ Prunes(w)
        BY <3>2 DEF Rests, Prunes
      <3>3. CASE GoesOn(w) \/ Announces(w)
        BY <3>3 DEF GoesOn, Announces, To
      <3> QED
        BY <3>1, <3>2, <3>3 DEF Moves
    <2> QED
      BY <2>1 DEF Reads, Holds
  <1> QED
    BY <1>1, <1>2 DEF Mutex, MutexFree

\* A step of Create keeps the id it has.
LEMMA OwnIdsMoved ==
    ASSUME OwnIds, NEW w \in Worker, WorkerOk(w), Moves(w)
    PROVE  OwnIds'
  <1> USE DEF CreateSteps, MakeSteps, DropSteps, RemoveSteps
  <1>1. Keeps(w)
    BY DEF Moves, Reads, Ends, Rests, GoesOn, Announces, Prunes, To
  <1>2. work'[w].at \in CreateSteps => work[w].at \in CreateSteps /\ work'[w].id = work[w].id
    <2>1. CASE Reads(w)
      BY <2>1 DEF Reads
    <2>2. CASE Ends(w)
      BY <2>2 DEF Ends, Idle
    <2>3. CASE Rests(w)
      BY <2>3 DEF Rests
    <2>4. CASE GoesOn(w)
      BY <2>4 DEF GoesOn, Goes, To
    <2>5. CASE Announces(w) \/ Prunes(w)
      BY <2>5 DEF Announces, Prunes, To
    <2> QED
      BY <2>1, <2>2, <2>3, <2>4, <2>5 DEF Moves
  <1>3. \A v \in Worker : work'[v].at \in CreateSteps =>
          work[v].at \in CreateSteps /\ work'[v].id = work[v].id
    BY <1>1, <1>2 DEF Keeps
  <1> HIDE DEF CreateSteps
  <1> QED
    BY <1>3 DEF OwnIds

-----------------------------------------------------------------------------
(* What the operations make of the index and of the files.                  *)

\* An operation on the index changes one row of it, the one that it is for.
LEMMA ChangedRows ==
    ASSUME TypeOK, NEW w \in Worker, WorkerOk(w), Holds(w)
    PROVE  /\ work[w].view \in Index
           /\ Changed(w, work[w].view) \in Index
           /\ \/ /\ work[w].at = "row" /\ Target(w) \in Backup
                 /\ Changed(w, work[w].view) = [work[w].view EXCEPT ![Target(w)] = "none"]
              \/ /\ work[w].at \in {"ok", "failed"} /\ work[w].id \in 1..made
                 /\ Changed(w, work[w].view) = [work[w].view EXCEPT ![work[w].id] = work[w].at]
              \/ /\ work[w].at = "insert" /\ work[w].id \in 1..made
                 /\ Changed(w, work[w].view) = [work[w].view EXCEPT ![work[w].id] = "running"]
  <1> USE DEF CreateSteps, MakeSteps, DropSteps, RemoveSteps
  <1>1. work[w].view \in Index /\ work[w].at \in IndexOps
    BY WorkTypes DEF WorkType, Works, Holds, WorkerOk
  <1>2. CASE work[w].at = "row"
    <2>1. Target(w) \in Backup
      BY <1>2, TargetIsIn DEF WorkerOk
    <2>2. Changed(w, work[w].view) = [work[w].view EXCEPT ![Target(w)] = "none"]
      BY <1>2 DEF Changed
    <2> QED
      BY <1>1, <1>2, <2>1, <2>2 DEF Index
  <1>3. CASE work[w].at \in {"ok", "failed"}
    <2>1. Changed(w, work[w].view) = [work[w].view EXCEPT ![work[w].id] = work[w].at]
      BY <1>3 DEF Changed
    <2> QED
      BY <1>1, <1>3, <2>1 DEF Index, WorkerOk
  <1>4. CASE work[w].at = "insert"
    <2>1. Changed(w, work[w].view) = [work[w].view EXCEPT ![work[w].id] = "running"]
      BY <1>4 DEF Changed
    <2> QED
      BY <1>1, <1>4, <2>1 DEF Index, WorkerOk
  <1> QED
    BY <1>1, <1>2, <1>3, <1>4 DEF IndexOps

\* The index changes only by being written, and by being torn.
Writes(w) == Holds(w) /\ Written(w)

\* A step that does not write the index leaves it as it is or tears it.
LEMMA IndexSteps ==
    ASSUME NEW w \in Worker, Step(w), ~Writes(w)
    PROVE  clash' = clash /\ (UNCHANGED <<index, torn>> \/ Torn)
  BY DEF Step, ReadIndex, RowMissing, ReadFails, WriteIndex, WriteFails, OpenDump, DumpEnds, HashFile,
         WriteSidecar, Cleanup, GetRow, RemoveDump, RemoveSidecar, history, Writes

\* No row is none of the index's.
LEMMA NoRowsType == NoRows \in Index /\ \A b \in Backup : NoRows[b] = "none"
  BY DEF NoRows, Index

-----------------------------------------------------------------------------
(* The steps that start and end a worker from outside.                      *)

\* What each worker holds of the index it held before, or has just read.
Seen ==
  \A v \in Worker :
    Holds(v)' => \/ Holds(v) /\ work'[v].view = work[v].view
                 \/ work'[v].view = index

\* Only reading the index changes what a worker holds of it.
LEMMA ViewsMoved ==
    ASSUME NEW w \in Worker, Moves(w)
    PROVE  Seen
  <1>1. \A v \in Worker \ {w} : work'[v] = work[v]
    BY DEF Moves, Reads, Ends, Rests, GoesOn, Announces, Prunes, To, Keeps
  <1>2. work'[w].view = index \/ work'[w].view = NoIndex
    <2>1. CASE Ends(w)
      BY <2>1 DEF Ends, Idle
    <2>2. CASE Rests(w) \/ Prunes(w) \/ Reads(w)
      BY <2>2 DEF Rests, Prunes, Reads
    <2>3. CASE GoesOn(w) \/ Announces(w)
      BY <2>3 DEF GoesOn, Announces, To
    <2> QED
      BY <2>1, <2>2, <2>3 DEF Moves
  <1> QED
    BY <1>1, <1>2 DEF Seen, Holds

\* A Create begins with an id no other has.
LEMMA CreateMoves ==
    ASSUME TypeOK, WorkType, NEW w \in Worker, WorkerOk(w), Create(w)
    PROVE  /\ WorkType' /\ Keeps(w) /\ w[2] = "create" /\ work[w].at = "idle"
           /\ made' = made + 1 /\ made' \in 1..MaxBackups
           /\ work'[w].at = "insert" /\ work'[w].id = made' /\ work'[w].drop = {}
           /\ ~Holds(w) /\ ~Holds(w)'
  <1>1. work[w].at = "idle" /\ w[2] = "create"
    BY DEF Create, Admits
  <1>2. ~Holds(w) /\ work[w].drop = {} /\ work[w] \in Works
    BY <1>1 DEF WorkerOk, IndexOps, DropSteps, RemoveSteps, WorkType
  <1>3. made' = made + 1 /\ made' \in 1..MaxBackups /\ made' \in 0..MaxBackups
    BY BackupsAssumption DEF Create, TypeOK
  <1>4. PICK r : r = [work[w] EXCEPT !.at = "insert", !.id = made']
    OBVIOUS
  <1>5. /\ r.at = "insert" /\ r.id = made' /\ r.drop = work[w].drop /\ r.view = work[w].view
        /\ r \in Works
    BY <1>2, <1>3, <1>4 DEF Works, Steps, CreateSteps, MakeSteps
  <1>6. work' = [work EXCEPT ![w] = r]
    BY <1>3, <1>4 DEF Create, WorkType
  <1> QED
    BY <1>1, <1>2, <1>3, <1>5, <1>6 DEF WorkType, Keeps, Holds

\* A Delete begins with the backup it was asked to remove.
LEMMA DeleteMoves ==
    ASSUME TypeOK, WorkType, NEW w \in Worker, WorkerOk(w), Delete(w)
    PROVE  /\ WorkType' /\ Keeps(w) /\ w[2] = "delete" /\ work[w].at = "idle"
           /\ work'[w].at = "get" /\ work'[w].id = 0
           /\ work'[w].drop # {} /\ work'[w].drop \subseteq 1..made
           /\ ~Holds(w) /\ ~Holds(w)'
  <1>1. work[w].at = "idle" /\ w[2] = "delete"
    BY DEF Delete, Admits
  <1>2. ~Holds(w) /\ work[w].id = 0 /\ work[w] \in Works
    BY <1>1 DEF WorkerOk, IndexOps, CreateSteps, MakeSteps, WorkType
  <1>3. PICK b \in 1..made : work' = [work EXCEPT ![w].at = "get", ![w].drop = {b}]
    BY DEF Delete
  <1>4. {b} \in SUBSET Backup
    BY BackupsAssumption DEF TypeOK, Backup
  <1>5. PICK r : r = [work[w] EXCEPT !.at = "get", !.drop = {b}]
    OBVIOUS
  <1>6. /\ r.at = "get" /\ r.id = work[w].id /\ r.drop = {b} /\ r.view = work[w].view
        /\ r \in Works
    BY <1>2, <1>4, <1>5 DEF Works, Steps, DropSteps
  <1>7. work' = [work EXCEPT ![w] = r]
    BY <1>3, <1>5 DEF WorkType
  <1> QED
    BY <1>1, <1>2, <1>6, <1>7 DEF WorkType, Keeps, Holds

\* A killed process's workers are gone, the others go on.
LEMMA KillMoves ==
    ASSUME WorkType, NEW p \in Process, Kill(p)
    PROVE  WorkType' /\ \A v \in Worker : work'[v] = Idle \/ work'[v] = work[v]
  BY IdleType DEF Kill, WorkType

\* None of the three changes what a worker holds of the index.
LEMMA ViewsOutside ==
    ASSUME TypeOK, WorkType, \A v \in Worker : WorkerOk(v),
           \/ \E w \in Worker : Create(w) \/ Delete(w)
           \/ \E p \in Process : Kill(p)
    PROVE  Seen
  <1>1. CASE \E w \in Worker : Create(w) \/ Delete(w)
    BY <1>1, CreateMoves, DeleteMoves DEF Seen, Holds, Keeps
  <1>2. CASE \E p \in Process : Kill(p)
    BY <1>2, KillMoves, WorkerEnded DEF Seen, Holds
  <1> QED
    BY <1>1, <1>2

-----------------------------------------------------------------------------
(* WorkInv holds throughout.                                                *)

\* The files stay files (runDumpToFile, writeSidecar, removeIfExists).
LEMMA FileTypes ==
    ASSUME TypeOK, NEW w \in Worker, Step(w)
    PROVE  dump' \in [Backup -> {"none", "partial", "short", "whole"}] /\ sidecar' \in [Backup -> BOOLEAN]
  <1>0. dump \in [Backup -> {"none", "partial", "short", "whole"}] /\ sidecar \in [Backup -> BOOLEAN]
    BY DEF TypeOK
  <1>1. CASE OpenDump(w) \/ HashFile(w)
    BY <1>0, <1>1 DEF OpenDump, HashFile
  <1>2. CASE DumpEnds(w)
    <2>1. sidecar' = sidecar
      BY <1>2 DEF DumpEnds
    <2>2. PICK f : /\ f \in {"none", "short", "whole"}
                   /\ dump' = [dump EXCEPT ![work[w].id] = f]
      BY <1>2 DEF DumpEnds
    <2> QED
      BY <1>0, <2>1, <2>2
  <1>3. CASE WriteSidecar(w)
    BY <1>0, <1>3 DEF WriteSidecar
  <1>4. CASE RemoveDump(w) \/ RemoveSidecar(w)
    BY <1>0, <1>4 DEF RemoveDump, RemoveSidecar
  <1>5. CASE UNCHANGED files
    BY <1>0, <1>5 DEF files
  <1> QED
    BY <1>1, <1>2, <1>3, <1>4, <1>5
    DEF Step, ReadIndex, RowMissing, ReadFails, WriteIndex, WriteFails, Cleanup, GetRow

\* Everything but the work of the workers and the index stays of its type.
LEMMA HistoryTypes ==
    ASSUME TypeOK, NEW w \in Worker, WorkerOk(w), Step(w)
    PROVE  /\ torn' \in BOOLEAN /\ UNCHANGED counts
           /\ byHand' \subseteq dropped' /\ cut' \subseteq dropped' /\ dropped' \subseteq 1..made
           /\ dropped \subseteq dropped' /\ cut \subseteq cut'
           /\ overlap' = overlap /\ clash' \in BOOLEAN /\ unsure' \in BOOLEAN
           /\ unsure => unsure'
  <1> USE DEF TypeOK
  <1>1. CASE GetRow(w)
    <2>1. Target(w) \in 1..made
      BY <1>1, TargetIsIn DEF GetRow, WorkerOk, DropSteps
    <2> QED
      BY <1>1, <2>1 DEF GetRow
  <1>2. CASE WriteIndex(w) \/ WriteFails(w)
    <2>1. torn' \in BOOLEAN /\ clash' \in BOOLEAN
      BY <1>2 DEF WriteIndex, WriteFails, Written, Torn
    <2>2. unsure' \in BOOLEAN /\ (unsure => unsure')
      BY <1>2 DEF WriteIndex, WriteFails
    <2> QED
      BY <1>2, <2>1, <2>2 DEF WriteIndex, WriteFails
  <1>3. CASE UNCHANGED <<torn, counts, history>>
    BY <1>3 DEF history
  <1> QED
    BY <1>1, <1>2, <1>3
    DEF Step, ReadIndex, RowMissing, ReadFails, OpenDump, DumpEnds, HashFile, WriteSidecar,
        Cleanup, RemoveDump, RemoveSidecar, history

\* The index stays an index, and a step that does not write it leaves it be.
LEMMA IndexTypes ==
    ASSUME TypeOK, NEW w \in Worker, WorkerOk(w), Step(w)
    PROVE  index' \in Index
  <1>1. CASE Writes(w)
    BY <1>1, ChangedRows DEF Writes, Written
  <1>2. CASE ~Writes(w)
    BY <1>2, IndexSteps, NoRowsType DEF TypeOK, Torn
  <1> QED
    BY <1>1, <1>2

\* The files a step changes are those of the backup its worker is at.
LEMMA FileEffects ==
    ASSUME TypeOK, NEW w \in Worker, Step(w)
    PROVE  \/ UNCHANGED files
           \/ /\ work[w].at \in {"open", "dump", "hash", "sum"}
              /\ \A b \in Backup \ {work[w].id} : dump'[b] = dump[b] /\ sidecar'[b] = sidecar[b]
           \/ /\ work[w].at = "file" /\ UNCHANGED sidecar
              /\ dump' = [dump EXCEPT ![Target(w)] = "none"]
           \/ /\ work[w].at = "sidecar" /\ UNCHANGED dump
              /\ sidecar' = [sidecar EXCEPT ![Target(w)] = FALSE]
  <1> USE DEF TypeOK, files
  <1>1. CASE OpenDump(w)
    BY <1>1 DEF OpenDump
  <1>2. CASE DumpEnds(w)
    <2>1. work[w].at = "dump" /\ UNCHANGED sidecar
      BY <1>2 DEF DumpEnds
    <2>2. \E f : dump' = [dump EXCEPT ![work[w].id] = f]
      BY <1>2 DEF DumpEnds
    <2> QED
      BY <2>1, <2>2
  <1>3. CASE HashFile(w)
    BY <1>3 DEF HashFile
  <1>4. CASE WriteSidecar(w)
    BY <1>4 DEF WriteSidecar
  <1>5. CASE RemoveDump(w) \/ RemoveSidecar(w)
    BY <1>5 DEF RemoveDump, RemoveSidecar
  <1>6. CASE UNCHANGED files
    BY <1>6
  <1> QED
    BY <1>1, <1>2, <1>3, <1>4, <1>5, <1>6
    DEF Step, ReadIndex, RowMissing, ReadFails, WriteIndex, WriteFails, Cleanup, GetRow

\* The parts of the type invariant, put together.
LEMMA TypesAfter ==
    ASSUME WorkType', Mutex', \A w \in Worker : WorkerOk(w)',
           index' \in Index, torn' \in BOOLEAN,
           dump' \in [Backup -> {"none", "partial", "short", "whole"}], sidecar' \in [Backup -> BOOLEAN],
           made' \in 0..MaxBackups, deletes' \in 0..MaxDeletes, kills' \in 0..MaxKills,
           byHand' \subseteq dropped', cut' \subseteq dropped', dropped' \subseteq 1..made',
           overlap' \in BOOLEAN, clash' \in BOOLEAN, unsure' \in BOOLEAN
    PROVE  TypeOK'
  <1>1. {"idle", "insert", "open", "dump", "hash", "sum", "ok", "failed",
         "list", "get", "file", "sidecar", "row"} = Steps
    BY DEF Steps, CreateSteps, MakeSteps, DropSteps, RemoveSteps
  <1>2. {"get", "file", "sidecar", "row"} = DropSteps
    BY DEF DropSteps, RemoveSteps
  <1>3. work' \in [Worker ->
       [at : {"idle", "insert", "open", "dump", "hash", "sum", "ok", "failed",
              "list", "get", "file", "sidecar", "row"},
        id : 0..MaxBackups, drop : SUBSET Backup, view : Index \cup {NoIndex}]]
    BY <1>1 DEF WorkType, Works
  <1>4. \A w \in Worker : work'[w].at \in {"get", "file", "sidecar", "row"} => work'[w].drop # {}
    BY <1>2 DEF WorkerOk
  <1> QED
    BY <1>3, <1>4 DEF TypeOK, Mutex

\* A step of a worker keeps the types.
LEMMA StepTypes ==
    ASSUME WorkInv, NEW w \in Worker, Step(w)
    PROVE  TypeOK' /\ (\A v \in Worker : WorkerOk(v)') /\ OwnIds'
  <1>1. WorkType
    BY WorkTypes DEF WorkInv
  <1>2. WorkType' /\ Moves(w)
    BY <1>1, StepMoves DEF WorkInv
  <1>3. made' = made /\ deletes' = deletes /\ kills' = kills /\ dropped \subseteq dropped'
    BY HistoryTypes DEF WorkInv, counts
  <1>4. WorkerOk(w)'
    BY <1>2, <1>3, WorkerMoved DEF WorkInv
  <1>5. \A v \in Worker \ {w} : WorkerOk(v)'
    <2>1. made' \in Nat /\ made <= made'
      BY <1>3 DEF WorkInv, TypeOK
    <2>2. \A v \in Worker \ {w} : work'[v] = work[v]
      BY <1>2 DEF Moves, Reads, Ends, Rests, GoesOn, Announces, Prunes, To, Keeps
    <2> QED
      BY <1>3, <2>1, <2>2, WorkerKept DEF WorkInv
  <1>6. OwnIds'
    BY <1>2, OwnIdsMoved DEF WorkInv
  <1>7. Mutex'
    BY <1>2, MutexMoved DEF WorkInv, TypeOK, Mutex
  <1>8. TypeOK'
    <2>1. TypeOK /\ WorkerOk(w)
      BY DEF WorkInv
    <2>2. /\ index' \in Index /\ torn' \in BOOLEAN
          /\ dump' \in [Backup -> {"none", "partial", "short", "whole"}] /\ sidecar' \in [Backup -> BOOLEAN]
      BY <2>1, FileTypes, HistoryTypes, IndexTypes
    <2>3. /\ made' \in 0..MaxBackups /\ deletes' \in 0..MaxDeletes /\ kills' \in 0..MaxKills
      BY <1>3, <2>1 DEF TypeOK
    <2>4. /\ byHand' \subseteq dropped' /\ cut' \subseteq dropped' /\ dropped' \subseteq 1..made'
          /\ overlap' \in BOOLEAN /\ clash' \in BOOLEAN /\ unsure' \in BOOLEAN
      BY <1>3, <2>1, HistoryTypes DEF TypeOK
    <2> QED
      BY <1>2, <1>4, <1>5, <1>7, <2>2, <2>3, <2>4, TypesAfter
  <1> QED
    BY <1>4, <1>5, <1>6, <1>8

\* A step of a worker leaves nothing of a backup not asked for.
LEMMA StepUnmade ==
    ASSUME WorkInv, NEW w \in Worker, Step(w)
    PROVE  Unmade'
  <1>0. TypeOK /\ WorkerOk(w) /\ Unmade
    BY DEF WorkInv
  <1>1. made' = made /\ Seen
    <2>1. Moves(w)
      BY <1>0, WorkTypes, StepMoves
    <2> QED
      BY <1>0, <2>1, HistoryTypes, ViewsMoved DEF counts
  <1> SUFFICES ASSUME NEW b \in Backup, b > made
               PROVE  /\ index'[b] = "none" /\ dump'[b] = "none" /\ ~sidecar'[b]
                      /\ \A v \in Worker : Holds(v)' => work'[v].view[b] = "none"
    BY <1>1 DEF Unmade
  <1>2. /\ index[b] = "none" /\ dump[b] = "none" /\ ~sidecar[b]
        /\ \A v \in Worker : Holds(v) => work[v].view[b] = "none"
    BY <1>0 DEF Unmade
  <1>3. work[w].at \in CreateSteps => work[w].id # b
    BY <1>0 DEF WorkerOk, TypeOK, Backup
  <1>4. index'[b] = "none"
    <2>1. CASE Writes(w)
      <3>1. work[w].at \in {"insert", "ok", "failed"} => work[w].id # b
        BY <1>3 DEF CreateSteps, MakeSteps
      <3>2. work[w].view[b] = "none" /\ Holds(w)
        BY <1>2, <2>1 DEF Writes
      <3>3. index' = Changed(w, work[w].view)
        BY <2>1 DEF Writes, Written
      <3> QED
        BY <1>0, <3>1, <3>2, <3>3, ChangedRows DEF Index
    <2> QED
      BY <1>2, <2>1, IndexSteps, NoRowsType DEF Torn
  <1>5. dump'[b] = "none" /\ ~sidecar'[b]
    <2>1. work[w].at \in {"open", "dump", "hash", "sum"} => work[w].id # b
      BY <1>3 DEF CreateSteps, MakeSteps
    <2>2. CASE UNCHANGED files
      BY <1>2, <2>2 DEF files
    <2> QED
      BY <1>0, <1>2, <2>1, <2>2, FileEffects DEF TypeOK
  <1>6. \A v \in Worker : Holds(v)' => work'[v].view[b] = "none"
    BY <1>1, <1>2 DEF Seen
  <1> QED
    BY <1>4, <1>5, <1>6

\* Create, Delete and Kill leave the files and what has been begun to be
\* removed as they are, and the index too, unless a kill tears it.
LEMMA OutsideSteps ==
    ASSUME \/ \E w \in Worker : Create(w) \/ Delete(w)
           \/ \E p \in Process : Kill(p)
    PROVE  /\ UNCHANGED <<dump, sidecar, dropped, cut, byHand, clash, unsure>>
           /\ UNCHANGED <<index, torn>> \/ Torn
  BY DEF Create, Delete, Kill, files, history

\* A new Create is in order.
LEMMA CreateTypes ==
    ASSUME WorkInv, NEW w \in Worker, Create(w)
    PROVE  WorkInv'
  <1>0. TypeOK /\ WorkType /\ WorkerOk(w) /\ OwnIds /\ Unmade
    BY WorkTypes DEF WorkInv
  <1>1. /\ WorkType' /\ Keeps(w) /\ w[2] = "create" /\ work[w].at = "idle"
        /\ made' = made + 1 /\ made' \in 1..MaxBackups
        /\ work'[w].at = "insert" /\ work'[w].id = made' /\ work'[w].drop = {}
        /\ ~Holds(w) /\ ~Holds(w)'
    BY <1>0, CreateMoves
  <1>2. /\ UNCHANGED <<index, dump, sidecar, dropped, cut, byHand, clash, unsure>>
        /\ UNCHANGED <<torn, deletes, kills>> /\ overlap' \in BOOLEAN
    BY <1>0, OutsideSteps DEF Create, TypeOK
  <1>3. made \in Nat /\ made' \in 0..MaxBackups /\ dropped' \subseteq 1..made' /\ made' \in 1..made'
    BY <1>0, <1>1, <1>2, BackupsAssumption DEF TypeOK
  <1>4. WorkerOk(w)'
    BY <1>1, <1>3 DEF WorkerOk, CreateSteps, MakeSteps, DropSteps, RemoveSteps
  <1>5. \A v \in Worker \ {w} : WorkerOk(v)' /\ Holds(v)' = Holds(v)
    BY <1>0, <1>1, <1>2, <1>3, WorkerKept DEF WorkInv, Keeps
  <1>6. Mutex'
    BY <1>0, <1>1, <1>5 DEF Mutex, TypeOK
  <1>7. OwnIds'
    <2>1. \A v \in Worker \ {w} : work'[v].at \in CreateSteps =>
            work'[v] = work[v] /\ work'[v].id # made'
      <3>1. \A v \in Worker \ {w} : work[v].at \in CreateSteps => work[v].id \in 1..made
        BY DEF WorkInv, WorkerOk
      <3> QED
        BY <1>1, <1>3, <3>1 DEF Keeps
    <2> QED
      BY <1>0, <1>1, <2>1 DEF OwnIds
  <1>8. Unmade'
    <2>1. Seen
      BY <1>0, ViewsOutside DEF WorkInv
    <2> QED
      BY <1>0, <1>1, <1>2, <1>3, <2>1 DEF Unmade, Seen, Backup
  <1>9. TypeOK'
    BY <1>0, <1>1, <1>2, <1>3, <1>4, <1>5, <1>6, TypesAfter DEF TypeOK
  <1> QED
    BY <1>4, <1>5, <1>7, <1>8, <1>9 DEF WorkInv

\* A new Delete is in order.
LEMMA DeleteTypes ==
    ASSUME WorkInv, NEW w \in Worker, Delete(w)
    PROVE  WorkInv'
  <1>0. TypeOK /\ WorkType /\ WorkerOk(w) /\ OwnIds /\ Unmade
    BY WorkTypes DEF WorkInv
  <1>1. /\ WorkType' /\ Keeps(w) /\ w[2] = "delete" /\ work[w].at = "idle"
        /\ work'[w].at = "get" /\ work'[w].id = 0
        /\ work'[w].drop # {} /\ work'[w].drop \subseteq 1..made
        /\ ~Holds(w) /\ ~Holds(w)'
    BY <1>0, DeleteMoves
  <1>2. /\ UNCHANGED <<index, dump, sidecar, dropped, cut, byHand, clash, unsure>>
        /\ UNCHANGED <<torn, made, kills, overlap>>
    BY OutsideSteps DEF Delete, history
  <1>3. made \in Nat /\ deletes' \in 0..MaxDeletes
    BY <1>0, BackupsAssumption DEF TypeOK, Delete
  <1>4. WorkerOk(w)'
    BY <1>1, <1>2 DEF WorkerOk, CreateSteps, MakeSteps, DropSteps, RemoveSteps
  <1>5. \A v \in Worker \ {w} : WorkerOk(v)' /\ Holds(v)' = Holds(v)
    BY <1>0, <1>1, <1>2, <1>3, WorkerKept DEF WorkInv, Keeps
  <1>6. Mutex'
    BY <1>0, <1>1, <1>5 DEF Mutex, TypeOK
  <1>7. OwnIds'
    <2>1. work'[w].at \notin CreateSteps
      BY <1>1 DEF CreateSteps, MakeSteps
    <2> QED
      BY <1>0, <1>1, <2>1 DEF OwnIds, Keeps
  <1>8. Unmade'
    <2>1. Seen
      BY <1>0, ViewsOutside DEF WorkInv
    <2> QED
      BY <1>0, <1>2, <2>1 DEF Unmade, Seen
  <1>9. TypeOK'
    BY <1>0, <1>1, <1>2, <1>3, <1>4, <1>5, <1>6, TypesAfter DEF TypeOK
  <1> QED
    BY <1>4, <1>5, <1>7, <1>8, <1>9 DEF WorkInv

\* The workers that a kill leaves are in order.
LEMMA KillTypes ==
    ASSUME WorkInv, NEW p \in Process, Kill(p)
    PROVE  WorkInv'
  <1>0. TypeOK /\ WorkType /\ OwnIds /\ Unmade
    BY WorkTypes DEF WorkInv
  <1>1. WorkType' /\ \A v \in Worker : work'[v] = Idle \/ work'[v] = work[v]
    BY <1>0, KillMoves
  <1>2. /\ UNCHANGED <<dump, sidecar, dropped, cut, byHand, clash, unsure>>
        /\ UNCHANGED <<made, deletes, overlap>> /\ torn' \in BOOLEAN
        /\ index' \in Index /\ \A b \in Backup : index[b] = "none" => index'[b] = "none"
    <2>1. UNCHANGED <<dump, sidecar, dropped, cut, byHand, clash, unsure>>
      BY OutsideSteps
    <2>2. UNCHANGED <<made, deletes, overlap>>
      BY DEF Kill, history
    <2>3. UNCHANGED <<index, torn>> \/ Torn
      BY OutsideSteps
    <2> QED
      BY <1>0, <2>1, <2>2, <2>3, NoRowsType DEF Torn, TypeOK
  <1>3. made \in Nat /\ kills' \in 0..MaxKills
    BY <1>0, BackupsAssumption DEF TypeOK, Kill
  <1>4. \A v \in Worker : WorkerOk(v)' /\ (Holds(v)' => Holds(v))
    BY <1>0, <1>1, <1>2, <1>3, WorkerKept, WorkerEnded DEF WorkInv
  <1>5. Mutex'
    BY <1>0, <1>4 DEF Mutex, TypeOK
  <1>6. OwnIds'
    <2>1. Idle.at \notin CreateSteps
      BY DEF Idle, CreateSteps, MakeSteps
    <2> QED
      BY <1>0, <1>1, <2>1 DEF OwnIds
  <1>7. Unmade'
    <2>1. Seen
      BY <1>0, ViewsOutside DEF WorkInv
    <2> QED
      BY <1>0, <1>2, <2>1 DEF Unmade, Seen
  <1>8. TypeOK'
    BY <1>0, <1>1, <1>2, <1>3, <1>4, <1>5, TypesAfter DEF TypeOK
  <1> QED
    BY <1>4, <1>6, <1>7, <1>8 DEF WorkInv

\* At first there are no backups and no one is at work.
LEMMA WorkInit == Init => WorkInv
  <1> SUFFICES ASSUME Init PROVE WorkInv
    OBVIOUS
  <1>1. \A w \in Worker : work[w].at = "idle" /\ work[w].id = 0 /\ work[w].drop = {} /\ ~Holds(w)
    BY DEF Init, Idle, Holds
  <1>2. (\A w \in Worker : WorkerOk(w)) /\ OwnIds
    BY <1>1 DEF WorkerOk, OwnIds, CreateSteps, MakeSteps, DropSteps, RemoveSteps
  <1>3. Unmade
    BY <1>1, NoRowsType DEF Init, Unmade
  <1>4. WorkType
    BY IdleType DEF Init, WorkType
  <1>5. {"idle", "insert", "open", "dump", "hash", "sum", "ok", "failed",
         "list", "get", "file", "sidecar", "row"} = Steps
    BY DEF Steps, CreateSteps, MakeSteps, DropSteps, RemoveSteps
  <1>6. work \in [Worker ->
       [at : {"idle", "insert", "open", "dump", "hash", "sum", "ok", "failed",
              "list", "get", "file", "sidecar", "row"},
        id : 0..MaxBackups, drop : SUBSET Backup, view : Index \cup {NoIndex}]]
    BY <1>4, <1>5 DEF WorkType, Works
  <1>7. /\ 0 \in 0..MaxBackups /\ 0 \in 0..MaxDeletes /\ 0 \in 0..MaxKills
        /\ NoRows \in Index
    BY BackupsAssumption, NoRowsType
  <1>8. TypeOK
    BY <1>1, <1>6, <1>7 DEF Init, TypeOK
  <1> QED
    BY <1>2, <1>3, <1>8 DEF WorkInv

\* Nothing happens to the work when nothing happens at all.
LEMMA WorkSame ==
    ASSUME WorkInv, UNCHANGED vars
    PROVE  WorkInv'
  <1>1. /\ UNCHANGED <<index, torn, dump, sidecar, made, deletes, kills, work>>
        /\ UNCHANGED <<dropped, cut, byHand, overlap, clash, unsure>>
    BY DEF vars, files, counts, history
  <1>2. TypeOK' /\ OwnIds'
    BY <1>1 DEF WorkInv, TypeOK, OwnIds, Holds
  <1>3. \A w \in Worker : WorkerOk(w)'
    BY <1>1 DEF WorkInv, WorkerOk, Holds, Target
  <1>4. Unmade'
    BY <1>1 DEF WorkInv, Unmade, Holds
  <1> QED
    BY <1>2, <1>3, <1>4 DEF WorkInv

\* Every step keeps the workers in order.
LEMMA WorkNext ==
    ASSUME WorkInv, [Next]_vars
    PROVE  WorkInv'
  <1>1. CASE \E w \in Worker : Step(w)
    BY <1>1, StepTypes, StepUnmade DEF WorkInv
  <1> QED
    BY <1>1, CreateTypes, DeleteTypes, KillTypes, WorkSame DEF Next

\* Index, files, history and the record of every worker are of their types,
\* one worker of a process at most holds its mutex, and only backups asked for
\* are being removed (backups.Service, the store and its index).
THEOREM BackupsTypeCorrect == Spec => []TypeOK
  <1>1. WorkInv => TypeOK
    BY DEF WorkInv
  <1> QED
    BY <1>1, WorkInit, WorkNext, PTL DEF Spec

-----------------------------------------------------------------------------
(* What an ok row promises.                                                 *)

Ended(b) == dump[b] \in {"short", "whole"}
Whole(b) == Ended(b) /\ sidecar[b]

\* No index says that b is ok, neither the one on disk nor one that is held.
NotOk(b) == index[b] # "ok" /\ \A v \in Worker : Holds(v) => work[v].view[b] # "ok"

\* The backup a worker makes is listed as ok by its last step only, and its
\* files are what the steps before have left.  If that step reports a failure
\* the index may list the backup while its row is about to be marked failed.
MakingOk(w) ==
  /\ work[w].at \in MakeSteps /\ (work[w].at = "failed" => ~unsure) => NotOk(work[w].id)
  /\ work[w].at = "dump" /\ work[w].id \notin dropped => dump[work[w].id] = "partial"
  /\ work[w].at \in {"hash", "sum", "ok"} /\ work[w].id \notin dropped => Ended(work[w].id)
  /\ work[w].at = "ok" /\ work[w].id \notin dropped => sidecar[work[w].id]

Promises == \A b \in Backup \ dropped : ~NotOk(b) => Whole(b)

RestoreInv == WorkInv /\ Promises /\ \A w \in Worker : MakingOk(w)

\* What a step of a worker is, in the terms of the invariants.
LEMMA StepFacts ==
    ASSUME WorkInv, NEW w \in Worker, Step(w)
    PROVE  /\ TypeOK /\ WorkType /\ WorkerOk(w) /\ Moves(w) /\ Keeps(w) /\ Seen
           /\ made' = made /\ overlap' = overlap
           /\ dropped \subseteq dropped' /\ cut \subseteq cut' /\ (unsure => unsure')
  <1>1. TypeOK /\ WorkType /\ WorkerOk(w)
    BY WorkTypes DEF WorkInv
  <1>2. Moves(w)
    BY <1>1, StepMoves
  <1>3. Keeps(w)
    BY <1>2 DEF Moves, Reads, Ends, Rests, GoesOn, Announces, Prunes, To
  <1> QED
    BY <1>1, <1>2, <1>3, ViewsMoved, HistoryTypes DEF counts

\* Only the last step of Create lists a backup as ok.
LEMMA NotOkStays ==
    ASSUME WorkInv, NEW w \in Worker, Step(w), NEW b \in Backup, NotOk(b),
           ~(work[w].at = "ok" /\ work[w].id = b /\ Writes(w))
    PROVE  NotOk(b)'
  <1>1. TypeOK /\ WorkerOk(w) /\ Seen
    BY StepFacts
  <1>2. \A v \in Worker : Holds(v)' => work'[v].view[b] # "ok"
    BY <1>1 DEF Seen, NotOk
  <1>3. index'[b] # "ok"
    <2>1. CASE Writes(w)
      <3>1. Holds(w) /\ index' = Changed(w, work[w].view)
        BY <2>1 DEF Writes, Written
      <3>2. work[w].view[b] # "ok"
        BY <3>1 DEF NotOk
      <3> QED
        BY <1>1, <2>1, <3>1, <3>2, ChangedRows DEF Index
    <2> QED
      BY <2>1, IndexSteps, NoRowsType DEF NotOk, Torn
  <1> QED
    BY <1>2, <1>3 DEF NotOk

\* The files of a backup are changed by the worker that makes it and by the
\* workers that have announced to remove it.
LEMMA FilesStay ==
    ASSUME WorkInv, NEW w \in Worker, Step(w), NEW b \in Backup, b \notin dropped,
           work[w].at \in MakeSteps \ {"ok", "failed"} => work[w].id # b
    PROVE  dump'[b] = dump[b] /\ sidecar'[b] = sidecar[b]
  <1>1. TypeOK /\ WorkerOk(w)
    BY StepFacts
  <1>2. work[w].at \in {"file", "sidecar"} => Target(w) # b
    BY <1>1 DEF WorkerOk, RemoveSteps
  <1>3. work[w].at \in {"open", "dump", "hash", "sum"} => work[w].id # b
    BY DEF MakeSteps
  <1>4. CASE UNCHANGED files
    BY <1>4 DEF files
  <1> QED
    BY <1>1, <1>2, <1>3, <1>4, FileEffects DEF TypeOK

\* What is listed as ok after a step is whole after it.
LEMMA PromisesKept ==
    ASSUME RestoreInv, NEW w \in Worker, Step(w)
    PROVE  Promises'
  <1>0. WorkInv /\ TypeOK /\ WorkerOk(w) /\ Seen /\ dropped \subseteq dropped' /\ MakingOk(w)
    BY StepFacts DEF RestoreInv
  <1> SUFFICES ASSUME NEW b \in Backup, b \notin dropped', ~NotOk(b)'
               PROVE  Whole(b)'
    BY DEF Promises
  <1>1. b \notin dropped
    BY <1>0
  <1>2. CASE NotOk(b)
    <2>1. work[w].at = "ok" /\ work[w].id = b /\ Writes(w)
      BY <1>0, <1>2, NotOkStays
    <2>2. Ended(b) /\ sidecar[b]
      BY <1>0, <1>1, <2>1 DEF MakingOk
    <2>3. dump'[b] = dump[b] /\ sidecar'[b] = sidecar[b]
      BY <1>0, <1>1, <2>1, FilesStay
    <2> QED
      BY <2>2, <2>3 DEF Ended, Whole
  <1>3. CASE ~NotOk(b)
    <2>1. Whole(b)
      BY <1>1, <1>3 DEF RestoreInv, Promises
    <2>2. work[w].at \in MakeSteps \ {"ok", "failed"} => work[w].id # b
      BY <1>0, <1>3 DEF MakingOk
    <2>3. dump'[b] = dump[b] /\ sidecar'[b] = sidecar[b]
      BY <1>0, <1>1, <2>2, FilesStay
    <2> QED
      BY <2>1, <2>3 DEF Whole, Ended
  <1> QED
    BY <1>2, <1>3

\* A step leaves the backups that other workers make as they have them.
LEMMA OthersMaking ==
    ASSUME RestoreInv, NEW w \in Worker, Step(w), NEW v \in Worker \ {w}
    PROVE  MakingOk(v)'
  <1>0. WorkInv /\ MakingOk(v) /\ WorkerOk(v) /\ OwnIds /\ WorkerOk(w)
    BY DEF RestoreInv, WorkInv
  <1>1. work'[v] = work[v] /\ dropped \subseteq dropped' /\ (unsure => unsure')
    BY <1>0, StepFacts DEF Keeps
  <1>2. CASE work[v].at \in MakeSteps
    <2> DEFINE b == work[v].id
    <2>1. b \in Backup
      BY <1>0, <1>2, BackupsAssumption DEF WorkInv, TypeOK, WorkerOk, CreateSteps, Backup
    <2>2. work[w].at \in MakeSteps => work[w].id # b
      BY <1>0, <1>2 DEF OwnIds, CreateSteps
    <2>3. PICK c : c = work[v].id
      OBVIOUS
    <2>4. (work[v].at = "failed" => ~unsure) => NotOk(c)'
      BY <1>0, <1>2, <2>1, <2>2, <2>3, NotOkStays DEF MakingOk, MakeSteps
    <2>5. c \notin dropped' => dump'[c] = dump[c] /\ sidecar'[c] = sidecar[c]
      BY <1>0, <1>1, <2>1, <2>2, <2>3, FilesStay
    <2>6. (work[v].at = "failed" => ~unsure) => NotOk(work[v].id)'
      BY <1>1, <2>3, <2>4 DEF NotOk
    <2>7. c \notin dropped' /\ Ended(c) => Ended(c)'
      BY <2>5 DEF Ended
    <2>8. Ended(work[v].id)' <=> Ended(c)'
      BY <1>1, <2>3 DEF Ended
    <2> QED
      BY <1>0, <1>1, <2>3, <2>5, <2>6, <2>7, <2>8 DEF MakingOk
  <1>3. CASE work[v].at \notin MakeSteps
    BY <1>1, <1>3 DEF MakingOk, MakeSteps
  <1> QED
    BY <1>2, <1>3

\* A step that goes on with making a backup goes on with the same one.
LEMMA SameBackup ==
    ASSUME NEW w \in Worker, WorkerOk(w), Moves(w), work'[w].at \in MakeSteps
    PROVE  work[w].at \in MakeSteps /\ work'[w].id = work[w].id
  <1> USE DEF MakeSteps, DropSteps, RemoveSteps
  <1>1. CASE Reads(w)
    BY <1>1 DEF Reads
  <1>2. CASE Ends(w)
    BY <1>2 DEF Ends, Idle
  <1>3. CASE Rests(w) \/ Prunes(w)
    BY <1>3 DEF Rests, Prunes
  <1>4. CASE GoesOn(w)
    BY <1>4 DEF GoesOn, Goes, To
  <1>5. CASE Announces(w)
    BY <1>5 DEF Announces, To
  <1> QED
    BY <1>1, <1>2, <1>3, <1>4, <1>5 DEF Moves

\* The files are, after each step of Create, what the next one counts on.
LEMMA OwnFiles ==
    ASSUME RestoreInv, NEW w \in Worker, Step(w), NEW c \in Backup, c = work[w].id,
           c \notin dropped', work[w].at \in MakeSteps
    PROVE  /\ work'[w].at = "dump" => dump'[c] = "partial"
           /\ work'[w].at \in {"hash", "sum", "ok"} => Ended(c)'
           /\ work'[w].at = "ok" => sidecar'[c]
  <1> USE DEF Ended
  <1>0. TypeOK /\ WorkType /\ WorkerOk(w) /\ c \notin dropped /\ MakingOk(w) /\ Moves(w)
    BY StepFacts DEF RestoreInv
  <1>g. \A at \in Steps : Goto(w, at) => work'[w].at = at
    BY <1>0, GotoSteps DEF To
  <1>s. {"dump", "hash", "sum", "ok", "failed"} \subseteq Steps
    BY DEF Steps, CreateSteps, MakeSteps
  <1>1. CASE ReadIndex(w)
    <2>1. work'[w].at = work[w].at /\ UNCHANGED files /\ work[w].at \in IndexOps
      BY <1>0, <1>1, ReadMoves DEF ReadIndex, Reads
    <2> QED
      BY <1>0, <2>1 DEF files, MakingOk, IndexOps
  <1>2. CASE RowMissing(w) \/ ReadFails(w) \/ WriteFails(w)
    <2>1. IndexFailed(w)
      BY <1>2 DEF RowMissing, ReadFails, WriteFails, IndexFailed
    <2>2. work'[w].at \in {"idle", "failed", "get"}
      BY <1>0, <2>1, FailedSteps DEF Ends, Rests, To, Idle
    <2> QED
      BY <2>2
  <1>3. CASE WriteIndex(w)
    <2>1. work[w].at \in IndexOps /\ IndexDone(w)
      BY <1>0, <1>3 DEF WriteIndex, WorkerOk
    <2>2. work'[w].at \in {"open", "list", "idle", "get"}
      BY <1>0, <2>1, DoneSteps DEF Ends, Rests, To, Idle
    <2> QED
      BY <2>2
  <1>4. CASE OpenDump(w)
    <2>1. \/ dump' = [dump EXCEPT ![c] = "partial"] /\ work'[w].at = "dump"
          \/ work'[w].at = "failed"
      BY <1>4, <1>g, <1>s DEF OpenDump
    <2> QED
      BY <1>0, <2>1 DEF TypeOK
  <1>5. CASE DumpEnds(w)
    <2>1. dump[c] = "partial"
      BY <1>0, <1>5 DEF DumpEnds, MakingOk
    <2>2. \/ /\ \E size \in {"short", "whole"} : dump' = [dump EXCEPT ![c] = size]
             /\ work'[w].at = "hash"
          \/ work'[w].at = "failed"
      BY <1>5, <1>g, <1>s, <2>1 DEF DumpEnds
    <2> QED
      BY <1>0, <2>2 DEF TypeOK
  <1>6. CASE HashFile(w)
    <2>1. Ended(c)
      BY <1>0, <1>6 DEF HashFile, MakingOk
    <2>2. \/ dump' = dump /\ work'[w].at = "sum"
          \/ work'[w].at = "failed"
      BY <1>6, <1>g, <1>s DEF HashFile
    <2> QED
      BY <2>1, <2>2
  <1>7. CASE WriteSidecar(w)
    <2>1. Ended(c)
      BY <1>0, <1>7 DEF WriteSidecar, MakingOk
    <2>2. \/ /\ dump' = dump /\ work'[w].at = "ok"
             /\ sidecar' = [sidecar EXCEPT ![c] = TRUE]
          \/ work'[w].at = "failed"
      BY <1>7, <1>g, <1>s DEF WriteSidecar
    <2> QED
      BY <1>0, <2>1, <2>2 DEF TypeOK
  <1>8. CASE Cleanup(w) \/ GetRow(w) \/ RemoveDump(w) \/ RemoveSidecar(w)
    BY <1>8 DEF Cleanup, GetRow, RemoveDump, RemoveSidecar, MakeSteps
  <1> QED
    BY <1>1, <1>2, <1>3, <1>4, <1>5, <1>6, <1>7, <1>8 DEF Step

\* A step of Create leaves the backup it makes as the next one needs it.
LEMMA OwnMaking ==
    ASSUME RestoreInv, NEW w \in Worker, Step(w)
    PROVE  MakingOk(w)'
  <1>0. WorkInv /\ TypeOK /\ WorkType /\ WorkerOk(w) /\ MakingOk(w) /\ Moves(w)
    BY StepFacts DEF RestoreInv
  <1>1. CASE work'[w].at \in MakeSteps
    <2>1. work[w].at \in MakeSteps /\ work'[w].id = work[w].id
      BY <1>0, <1>1, SameBackup
    <2>2. PICK c \in Backup : c = work[w].id
      BY <1>0, <2>1, BackupsAssumption DEF TypeOK, WorkerOk, CreateSteps, Backup
    <2>3. ASSUME work'[w].at = "failed" => ~unsure'
          PROVE  NotOk(c)'
      <3>1. (work[w].at = "failed" => ~unsure) /\ NotOk(c)
        <4>1. work[w].at = "failed" => work'[w].at = "failed"
          BY <1>0, <1>1 DEF Moves, Reads, Ends, Idle, Rests, GoesOn, Goes, To, Announces, Prunes, MakeSteps,
             DropSteps, RemoveSteps
        <4>2. unsure => unsure'
          BY <1>0, StepFacts
        <4> QED
          BY <1>0, <2>1, <2>2, <2>3, <4>1, <4>2 DEF MakingOk
      <3>2. ~(work[w].at = "ok" /\ Writes(w))
        <4> SUFFICES ASSUME work[w].at = "ok", Writes(w) PROVE FALSE
          OBVIOUS
        <4>1. Holds(w)
          BY DEF Writes
        <4>2. WriteIndex(w) \/ WriteFails(w)
          BY <4>1 DEF Step, ReadIndex, RowMissing, ReadFails, MutexFree, OpenDump, DumpEnds, HashFile,
             WriteSidecar, Cleanup, GetRow, RemoveDump, RemoveSidecar
        <4>3. CASE WriteIndex(w)
          <5>1. IndexDone(w) /\ work[w].at \in IndexOps
            BY <4>3 DEF WriteIndex, IndexOps
          <5>2. work'[w].at = "list"
            BY <1>0, <5>1, DoneSteps DEF To
          <5> QED
            BY <1>1, <5>2 DEF MakeSteps
        <4>4. CASE WriteFails(w)
          <5>1. IndexFailed(w) /\ (index' = index \/ Torn \/ unsure')
            BY <4>4 DEF WriteFails
          <5>2. work'[w].at = "failed"
            BY <1>0, <1>1, <5>1, FailedSteps DEF To, Ends, Idle, MakeSteps
          <5>3. index'[c] = "ok"
            BY <1>0, <2>2, <4>1, ChangedRows DEF Writes, Written, Index
          <5> QED
            BY <2>3, <3>1, <5>1, <5>2, <5>3, NoRowsType DEF Torn, NotOk
        <4> QED
          BY <4>2, <4>3, <4>4
      <3> QED
        BY <1>0, <2>2, <3>1, <3>2, NotOkStays
    <2>4. /\ work'[w].at = "dump" /\ c \notin dropped' => dump'[c] = "partial"
          /\ work'[w].at \in {"hash", "sum", "ok"} /\ c \notin dropped' => Ended(c)'
          /\ work'[w].at = "ok" /\ c \notin dropped' => sidecar'[c]
      BY <2>1, <2>2, OwnFiles
    <2>5. /\ (work'[w].at = "failed" => ~unsure') => NotOk(work[w].id)'
          /\ Ended(work[w].id)' <=> Ended(c)'
      BY <2>1, <2>2, <2>3 DEF NotOk, Ended
    <2> QED
      BY <2>1, <2>2, <2>4, <2>5 DEF MakingOk
  <1>2. CASE work'[w].at \notin MakeSteps
    BY <1>2 DEF MakingOk, MakeSteps
  <1> QED
    BY <1>1, <1>2

\* The steps from outside promise nothing and touch no file.
LEMMA RestoreOutside ==
    ASSUME RestoreInv,
           \/ \E w \in Worker : Create(w) \/ Delete(w)
           \/ \E p \in Process : Kill(p)
    PROVE  Promises' /\ \A w \in Worker : MakingOk(w)'
  <1>0. WorkInv /\ TypeOK /\ WorkType /\ (\A v \in Worker : WorkerOk(v)) /\ Unmade
    BY WorkTypes DEF RestoreInv, WorkInv
  <1>1. UNCHANGED <<dump, sidecar, dropped, unsure>> /\ (UNCHANGED index \/ Torn) /\ Seen
    BY <1>0, OutsideSteps, ViewsOutside
  <1>2. \A b \in Backup : NotOk(b) => NotOk(b)'
    BY <1>1, NoRowsType DEF NotOk, Seen, Torn
  <1>3. Promises'
    BY <1>1, <1>2 DEF RestoreInv, Promises, Whole, Ended
  <1>4. ASSUME NEW v \in Worker, work'[v] = work[v] \/ work'[v].at \notin MakeSteps
        PROVE  MakingOk(v)'
    <2>1. CASE work'[v] = work[v]
      <3>1. MakingOk(v) /\ (work[v].at \in MakeSteps => work[v].id \in Backup)
        BY <1>0, BackupsAssumption DEF RestoreInv, TypeOK, WorkerOk, CreateSteps, Backup
      <3>2. PICK c : c = work[v].id
        OBVIOUS
      <3>3. work[v].at \in MakeSteps => (NotOk(c) => NotOk(c)')
        BY <1>2, <3>1, <3>2
      <3>4. NotOk(work[v].id)' = NotOk(c)' /\ Ended(work[v].id)' = Ended(c)
        BY <1>1, <2>1, <3>2 DEF NotOk, Ended
      <3> QED
        BY <1>1, <2>1, <3>1, <3>2, <3>3, <3>4 DEF MakingOk, MakeSteps
    <2>2. CASE work'[v].at \notin MakeSteps
      BY <2>2 DEF MakingOk, MakeSteps
    <2> QED
      BY <1>4, <2>1, <2>2
  <1>5. ASSUME NEW w \in Worker, Create(w)
        PROVE  MakingOk(w)'
    <2>1. made' = made + 1 /\ made' \in 1..MaxBackups /\ work'[w].at = "insert" /\ work'[w].id = made'
      BY <1>0, <1>5, CreateMoves
    <2>2. PICK c \in Backup : c = made'
      BY <2>1 DEF Backup
    <2>3. NotOk(c)
      <3>1. c > made
        BY <1>0, <2>1, <2>2 DEF TypeOK
      <3> QED
        BY <1>0, <3>1 DEF Unmade, NotOk
    <2>4. NotOk(c)'
      BY <1>2, <2>3
    <2>5. NotOk(work[w].id)'
      BY <2>1, <2>2, <2>4 DEF NotOk
    <2> QED
      BY <2>1, <2>5 DEF MakingOk
  <1>6. CASE \E w \in Worker : Create(w)
    <2>1. PICK w \in Worker : Create(w)
      BY <1>6
    <2>2. \A v \in Worker \ {w} : work'[v] = work[v]
      BY <1>0, <2>1, CreateMoves DEF Keeps
    <2> QED
      BY <1>3, <1>4, <1>5, <2>1, <2>2
  <1>7. CASE \E w \in Worker : Delete(w)
    <2>1. PICK w \in Worker : Delete(w)
      BY <1>7
    <2>2. (\A v \in Worker \ {w} : work'[v] = work[v]) /\ work'[w].at \notin MakeSteps
      BY <1>0, <2>1, DeleteMoves DEF Keeps, MakeSteps
    <2> QED
      BY <1>3, <1>4, <2>2
  <1>8. CASE \E p \in Process : Kill(p)
    <2>1. \A v \in Worker : work'[v] = work[v] \/ work'[v].at \notin MakeSteps
      BY <1>0, <1>8, KillMoves DEF Idle, MakeSteps
    <2> QED
      BY <1>3, <1>4, <2>1
  <1> QED
    BY <1>6, <1>7, <1>8

\* Every step keeps the promises of the index.
LEMMA RestoreNext ==
    ASSUME RestoreInv, [Next]_vars
    PROVE  RestoreInv'
  <1>0. WorkInv'
    BY WorkNext DEF RestoreInv
  <1>1. CASE \E w \in Worker : Step(w)
    <2>1. PICK w \in Worker : Step(w)
      BY <1>1
    <2>2. \A v \in Worker : MakingOk(v)'
      BY <2>1, OthersMaking, OwnMaking
    <2> QED
      BY <1>0, <2>1, <2>2, PromisesKept DEF RestoreInv
  <1>2. CASE (\E w \in Worker : Create(w) \/ Delete(w)) \/ \E p \in Process : Kill(p)
    BY <1>0, <1>2, RestoreOutside DEF RestoreInv
  <1>3. CASE UNCHANGED vars
    <2>1. UNCHANGED <<index, dump, sidecar, dropped, work, unsure>>
      BY <1>3 DEF vars, files, history
    <2> QED
      BY <1>0, <2>1 DEF RestoreInv, Promises, NotOk, Whole, Ended, MakingOk, Holds
  <1> QED
    BY <1>1, <1>2, <1>3 DEF Next

\* At first nothing is promised.
LEMMA RestoreInit == Init => RestoreInv
  <1> SUFFICES ASSUME Init PROVE RestoreInv
    OBVIOUS
  <1>1. \A w \in Worker : work[w].at = "idle" /\ ~Holds(w)
    BY DEF Init, Idle, Holds
  <1>2. Promises
    BY <1>1, NoRowsType DEF Init, Promises, NotOk
  <1> QED
    BY <1>1, <1>2, WorkInit DEF RestoreInv, MakingOk, MakeSteps

\* A backup listed as ok has its dump with the checksum beside it, unless a
\* Delete has begun to remove it: Create writes ok last, and after every crash
\* and every failure, and with an index torn or written over by the other
\* process, no row says more than the files hold.  The dump is all of it but
\* for an error in closing it, which Create passes over (Create, store.Update).
THEOREM OkRowsAreRestorable == Spec => []OkIsRestorable
  <1>1. RestoreInv => OkIsRestorable
    BY DEF RestoreInv, Promises, NotOk, Whole, Ended, OkIsRestorable
  <1> QED
    BY <1>1, RestoreInit, RestoreNext, PTL DEF Spec

-----------------------------------------------------------------------------
(* Where the files are listed.                                              *)

\* A removal that did not overtake the making of its backup leaves no files.
Removing(w) ==
  work[w].at \in RemoveSteps /\ Target(w) \notin cut =>
    /\ ~Making(Target(w))
    /\ work[w].at \in {"sidecar", "row"} => dump[Target(w)] = "none"
    /\ work[w].at = "row" => ~sidecar[Target(w)]

\* Create has a row before it has a file.
Rowed(w) ==
  work[w].at \in {"open", "dump", "hash", "sum"} /\ work[w].id \notin cut =>
    index[work[w].id] # "none"

\* Rows have been lost: the index is torn or was written over.
RowsLost == torn \/ clash

ListInv ==
  /\ WorkInv
  /\ \A w \in Worker : Removing(w)
  /\ RowsLost \/ \A w \in Worker : Rowed(w)
  /\ FilesAreListed

\* What is lost stays lost: a torn index is only replaced by an older one.
LEMMA LostStays ==
    ASSUME NEW w \in Worker, Step(w), RowsLost
    PROVE  RowsLost'
  <1>1. CASE Writes(w)
    BY <1>1 DEF Writes, Written, RowsLost
  <1>2. CASE ~Writes(w)
    BY <1>2, IndexSteps DEF Torn, RowsLost
  <1> QED
    BY <1>1, <1>2

\* A step of a worker does not begin to make a backup.
LEMMA MakingEnds ==
    ASSUME WorkInv, NEW w \in Worker, Step(w), NEW b \in Backup, ~Making(b)
    PROVE  ~Making(b)'
  <1>1. Moves(w) /\ Keeps(w) /\ WorkerOk(w) /\ b # 0
    BY StepFacts DEF Backup
  <1>2. work'[w].id = work[w].id \/ work'[w].id = 0
    <2>1. CASE Ends(w)
      BY <2>1 DEF Ends, Idle
    <2>2. CASE Reads(w) \/ Rests(w) \/ Prunes(w)
      BY <2>2 DEF Reads, Rests, Prunes
    <2>3. CASE GoesOn(w) \/ Announces(w)
      BY <2>3 DEF GoesOn, Announces, To
    <2> QED
      BY <1>1, <2>1, <2>2, <2>3 DEF Moves
  <1> QED
    BY <1>1, <1>2 DEF Making, Keeps

\* The files of a backup that nobody makes can only go.
LEMMA GoneStays ==
    ASSUME WorkInv, NEW w \in Worker, Step(w), NEW b \in Backup, ~Making(b)
    PROVE  /\ dump[b] = "none" => dump'[b] = "none"
           /\ ~sidecar[b] => ~sidecar'[b]
  <1>1. TypeOK /\ WorkerOk(w)
    BY StepFacts
  <1>2. work[w].at \in {"open", "dump", "hash", "sum"} => work[w].id # b
    BY <1>1 DEF WorkerOk, Making, CreateSteps, MakeSteps
  <1>3. CASE UNCHANGED files
    BY <1>3 DEF files
  <1> QED
    BY <1>1, <1>2, <1>3, FileEffects DEF TypeOK

\* Another worker's step does not disturb a removal.
LEMMA OthersRemoving ==
    ASSUME ListInv, NEW w \in Worker, Step(w), NEW v \in Worker \ {w}
    PROVE  Removing(v)'
  <1>0. WorkInv /\ TypeOK /\ WorkerOk(v) /\ Removing(v)
    BY DEF ListInv, WorkInv
  <1>1. work'[v] = work[v] /\ cut \subseteq cut'
    BY <1>0, StepFacts DEF Keeps
  <1>2. PICK t : t = Target(v)
    OBVIOUS
  <1>3. Target(v)' = t
    BY <1>1, <1>2 DEF Target
  <1>4. Making(Target(v))' <=> Making(t)'
    BY <1>3 DEF Making
  <1>5. CASE work[v].at \in RemoveSteps /\ t \notin cut
    <2>1. t \in Backup
      BY <1>0, <1>2, <1>5, TargetIsIn DEF WorkerOk, DropSteps
    <2>2. ~Making(t)
      BY <1>0, <1>2, <1>5 DEF Removing
    <2>3. ~Making(t)'
      BY <1>0, <2>1, <2>2, MakingEnds
    <2>4. /\ dump[t] = "none" => dump'[t] = "none"
          /\ ~sidecar[t] => ~sidecar'[t]
      BY <1>0, <2>1, <2>2, GoneStays
    <2> QED
      BY <1>0, <1>1, <1>2, <1>3, <1>4, <1>5, <2>3, <2>4 DEF Removing
  <1>6. CASE ~(work[v].at \in RemoveSteps /\ t \notin cut)
    BY <1>1, <1>3, <1>6 DEF Removing
  <1> QED
    BY <1>5, <1>6

\* The steps of a removal: the dump goes, then the sidecar, then the row.
LEMMA OwnRemoving ==
    ASSUME ListInv, NEW w \in Worker, Step(w)
    PROVE  Removing(w)'
  <1>0. WorkInv /\ TypeOK /\ WorkType /\ WorkerOk(w) /\ Removing(w)
    BY StepFacts DEF ListInv
  <1>1. Moves(w) /\ cut \subseteq cut'
    BY <1>0, StepFacts
  <1> SUFFICES ASSUME work'[w].at \in RemoveSteps
               PROVE  Removing(w)'
    BY DEF Removing
  <1>2. /\ work[w].at \in DropSteps /\ work'[w].drop = work[w].drop
        /\ \/ work[w].at = "row" /\ work'[w].at = "row"
           \/ work[w].at = "get" /\ work'[w].at = "file"
           \/ work[w].at = "file" /\ work'[w].at = "sidecar"
           \/ work[w].at = "sidecar" /\ work'[w].at = "row"
    <2> USE DEF RemoveSteps, DropSteps
    <2>1. CASE Reads(w)
      BY <2>1 DEF Reads, IndexOps
    <2>2. CASE Ends(w)
      BY <2>2 DEF Ends, Idle
    <2>3. CASE Rests(w) \/ Prunes(w)
      BY <2>3 DEF Rests, Prunes
    <2>4. CASE GoesOn(w)
      BY <2>4 DEF GoesOn, Goes, To
    <2>5. CASE Announces(w)
      BY <2>5 DEF Announces, To
    <2> QED
      BY <1>1, <2>1, <2>2, <2>3, <2>4, <2>5 DEF Moves
  <1>3. PICK t : t = Target(w)
    OBVIOUS
  <1>4. t \in Backup /\ Target(w)' = t
    BY <1>0, <1>2, <1>3, TargetIsIn DEF WorkerOk, Target
  <1>5. Making(Target(w))' <=> Making(t)'
    BY <1>4 DEF Making
  <1>6. ~Making(t) => ~Making(t)'
    BY <1>0, <1>4, MakingEnds
  <1>7. ~Making(t) => (dump[t] = "none" => dump'[t] = "none") /\ (~sidecar[t] => ~sidecar'[t])
    BY <1>0, <1>4, GoneStays
  <1>8. CASE work[w].at = "row"
    BY <1>0, <1>1, <1>2, <1>3, <1>4, <1>5, <1>6, <1>7, <1>8 DEF Removing, RemoveSteps
  <1>9. CASE work[w].at = "get"
    <2>1. GetRow(w) /\ work'[w].at = "file"
      BY <1>0, <1>2, <1>9 DEF Step, ReadIndex, RowMissing, ReadFails, WriteIndex, WriteFails, OpenDump,
           DumpEnds, HashFile, WriteSidecar, Cleanup, RemoveDump, RemoveSidecar, IndexOps, WorkerOk
    <2>2. Making(t) => t \in cut'
      <3>1. CASE NextDrop(w)
        <4>1. work'[w].at \in {"idle", "get"}
          BY <1>0, <3>1, NextDropSteps DEF Ends, Rests, Idle
        <4> QED
          BY <2>1, <4>1
      <3> QED
        BY <1>3, <2>1, <3>1 DEF GetRow
    <2> QED
      BY <1>4, <1>5, <1>6, <2>1, <2>2 DEF Removing
  <1>10. CASE work[w].at = "file"
    <2>1. RemoveDump(w) /\ work'[w].at = "sidecar"
      BY <1>0, <1>2, <1>10 DEF Step, ReadIndex, RowMissing, ReadFails, WriteIndex, WriteFails, OpenDump,
           DumpEnds, HashFile, WriteSidecar, Cleanup, GetRow, RemoveSidecar, IndexOps, WorkerOk
    <2>2. dump'[t] = "none"
      <3>1. CASE NextDrop(w)
        <4>1. work'[w].at \in {"idle", "get"}
          BY <1>0, <3>1, NextDropSteps DEF Ends, Rests, Idle
        <4> QED
          BY <2>1, <4>1
      <3> QED
        BY <1>0, <1>3, <1>4, <2>1, <3>1 DEF RemoveDump, TypeOK
    <2>3. t \notin cut => ~Making(t)
      BY <1>0, <1>3, <1>10 DEF Removing, RemoveSteps
    <2> QED
      BY <1>1, <1>4, <1>5, <1>6, <2>1, <2>2, <2>3 DEF Removing
  <1>11. CASE work[w].at = "sidecar"
    <2>1. RemoveSidecar(w) /\ work'[w].at = "row"
      BY <1>0, <1>2, <1>11 DEF Step, ReadIndex, RowMissing, ReadFails, WriteIndex, WriteFails, OpenDump,
           DumpEnds, HashFile, WriteSidecar, Cleanup, GetRow, RemoveDump, IndexOps, WorkerOk
    <2>2. ~sidecar'[t] /\ dump'[t] = dump[t]
      <3>1. CASE NextDrop(w)
        <4>1. work'[w].at \in {"idle", "get"}
          BY <1>0, <3>1, NextDropSteps DEF Ends, Rests, Idle
        <4> QED
          BY <2>1, <4>1
      <3> QED
        BY <1>0, <1>3, <1>4, <2>1, <3>1 DEF RemoveSidecar, TypeOK
    <2>3. t \notin cut => ~Making(t) /\ dump[t] = "none"
      BY <1>0, <1>3, <1>11 DEF Removing, RemoveSteps
    <2> QED
      BY <1>1, <1>4, <1>5, <1>6, <2>1, <2>2, <2>3 DEF Removing
  <1> QED
    BY <1>2, <1>8, <1>9, <1>10, <1>11

\* An index that is not torn and written over nobody else's loses at most the
\* row of a removal.
LEMMA RowsStay ==
    ASSUME WorkInv, NEW w \in Worker, Step(w), ~RowsLost', NEW b \in Backup,
           index[b] # "none" \/ (work[w].at = "insert" /\ work[w].id = b /\ Writes(w)),
           index'[b] = "none"
    PROVE  Writes(w) /\ work[w].at = "row" /\ Target(w) = b
  <1>1. TypeOK /\ WorkerOk(w)
    BY StepFacts
  <1>2. Writes(w)
    BY IndexSteps DEF Torn, RowsLost
  <1>3. Holds(w) /\ index = work[w].view /\ index' = Changed(w, work[w].view)
    BY <1>2 DEF Writes, Written, RowsLost
  <1> QED
    BY <1>1, <1>2, <1>3, ChangedRows DEF Index

\* The row of a backup that is being made stays, unless the backup is cut.
LEMMA RowedStays ==
    ASSUME ListInv, NEW w \in Worker, Step(w), ~RowsLost'
    PROVE  \A v \in Worker : Rowed(v)'
  <1>0. WorkInv /\ TypeOK /\ WorkType /\ WorkerOk(w) /\ Removing(w) /\ Moves(w) /\ Keeps(w) /\ cut \subseteq cut'
    BY StepFacts DEF ListInv
  <1>1. ~RowsLost
    BY LostStays
  <1> SUFFICES ASSUME NEW v \in Worker, work'[v].at \in {"open", "dump", "hash", "sum"},
                      work'[v].id \notin cut', index'[work'[v].id] = "none"
               PROVE  FALSE
    BY DEF Rowed
  <1>2. /\ work[v].at \in MakeSteps /\ work'[v].id = work[v].id
        /\ \/ work[v].at \in {"open", "dump", "hash", "sum"}
           \/ work[v].at = "insert" /\ v = w
    <2>1. CASE v # w
      BY <1>0, <2>1 DEF Keeps, MakeSteps
    <2>2. CASE v = w
      <3>1. work[w].at \in MakeSteps /\ work'[w].id = work[w].id
        BY <1>0, <2>2, SameBackup DEF MakeSteps
      <3>2. CASE Reads(w)
        BY <2>2, <3>1, <3>2 DEF Reads, IndexOps
      <3>3. CASE GoesOn(w)
        BY <2>2, <3>1, <3>3 DEF GoesOn, Goes, To, MakeSteps
      <3>4. CASE Ends(w) \/ Rests(w) \/ Announces(w) \/ Prunes(w)
        BY <2>2, <3>4 DEF Ends, Idle, Rests, Announces, Prunes, To
      <3> QED
        BY <1>0, <2>2, <3>1, <3>2, <3>3, <3>4 DEF Moves
    <2> QED
      BY <2>1, <2>2
  <1>3. PICK b \in Backup : b = work[v].id
    <2>1. WorkerOk(v)
      BY <1>0 DEF WorkInv
    <2> QED
      BY <1>0, <1>2, <2>1, BackupsAssumption DEF TypeOK, WorkerOk, CreateSteps, Backup
  <1>4. Making(b) /\ b \notin cut /\ index'[b] = "none"
    <2>1. v[2] = "create"
      BY <1>0, <1>2 DEF WorkInv, WorkerOk, CreateSteps
    <2> QED
      BY <1>0, <1>2, <1>3, <2>1 DEF Making
  <1>5. index[b] # "none" \/ (work[w].at = "insert" /\ work[w].id = b /\ Writes(w))
    <2>1. CASE work[v].at \in {"open", "dump", "hash", "sum"}
      BY <1>1, <1>3, <1>4, <2>1 DEF ListInv, Rowed
    <2>2. CASE work[v].at = "insert" /\ v = w
      <3>1. CASE ReadIndex(w)
        BY <1>0, <2>2, <3>1, ReadMoves DEF Reads
      <3>2. CASE RowMissing(w) \/ ReadFails(w) \/ WriteFails(w)
        <4>1. IndexFailed(w)
          BY <3>2 DEF RowMissing, ReadFails, WriteFails, IndexFailed
        <4> QED
          BY <1>0, <2>2, <4>1, FailedSteps DEF Ends, Idle
      <3> QED
        BY <1>3, <2>2, <3>1, <3>2 DEF Writes, Step, WriteIndex, OpenDump, DumpEnds, HashFile, WriteSidecar,
           Cleanup, GetRow, RemoveDump, RemoveSidecar
    <2> QED
      BY <1>2, <2>1, <2>2
  <1>6. Writes(w) /\ work[w].at = "row" /\ Target(w) = b
    BY <1>0, <1>4, <1>5, RowsStay
  <1> QED
    BY <1>0, <1>4, <1>6 DEF Removing, RemoveSteps

\* The files that are there after a step have a row after it.
LEMMA ListedStays ==
    ASSUME ListInv, NEW w \in Worker, Step(w), ~RowsLost'
    PROVE  FilesAreListed'
  <1>0. WorkInv /\ TypeOK /\ WorkerOk(w) /\ Removing(w) /\ cut \subseteq cut'
    BY StepFacts DEF ListInv
  <1>1. ~RowsLost
    BY LostStays
  <1> SUFFICES ASSUME NEW b \in Backup, b \notin cut', dump'[b] # "none" \/ sidecar'[b],
                      index'[b] = "none"
               PROVE  FALSE
    BY DEF FilesAreListed, RowsLost
  <1>2. CASE work[w].at \in {"open", "dump", "hash", "sum"} /\ work[w].id = b
    <2>1. index[b] # "none"
      BY <1>0, <1>1, <1>2 DEF ListInv, Rowed
    <2>2. Writes(w) /\ work[w].at = "row"
      BY <1>0, <2>1, RowsStay
    <2> QED
      BY <1>2, <2>2
  <1>3. CASE ~(work[w].at \in {"open", "dump", "hash", "sum"} /\ work[w].id = b)
    <2>1. dump[b] # "none" \/ sidecar[b]
      <3>1. CASE UNCHANGED files
        BY <3>1 DEF files
      <3> QED
        BY <1>0, <1>3, <3>1, FileEffects DEF TypeOK
    <2>2. index[b] # "none"
      BY <1>0, <1>1, <2>1 DEF ListInv, FilesAreListed, RowsLost
    <2>3. Writes(w) /\ work[w].at = "row" /\ Target(w) = b
      BY <1>0, <2>2, RowsStay
    <2> QED
      BY <1>0, <2>1, <2>3 DEF Removing, RemoveSteps
  <1> QED
    BY <1>2, <1>3

\* The steps from outside make no file and remove no row.
LEMMA ListOutside ==
    ASSUME ListInv,
           \/ \E w \in Worker : Create(w) \/ Delete(w)
           \/ \E p \in Process : Kill(p)
    PROVE  ListInv'
  <1>0. WorkInv /\ TypeOK /\ WorkType /\ \A v \in Worker : WorkerOk(v)
    BY WorkTypes DEF ListInv, WorkInv
  <1>1. /\ UNCHANGED <<dump, sidecar, dropped, cut, byHand, clash>>
        /\ UNCHANGED <<index, torn>> \/ torn'
    BY OutsideSteps DEF Torn
  <1>2. WorkInv' /\ FilesAreListed'
    <2>1. [Next]_vars
      BY DEF Next
    <2> QED
      BY <1>0, <1>1, <2>1, WorkNext DEF ListInv, FilesAreListed
  <1> DEFINE Enters == \A v \in Worker : \/ work'[v] = work[v]
                                        \/ work'[v].at \in {"idle", "insert", "get"}
             NoneRevived == \A b \in 1..made : ~Making(b) => ~Making(b)'
  <1>3. Enters /\ NoneRevived
    <2>1. ASSUME NEW w \in Worker, Create(w)
          PROVE  Enters /\ NoneRevived
      <3>1. Keeps(w) /\ made' = made + 1 /\ work'[w].at = "insert" /\ work'[w].id = made'
        BY <1>0, <2>1, CreateMoves
      <3>2. \A b \in 1..made : b # made'
        BY <1>0, <3>1 DEF TypeOK
      <3> QED
        BY <3>1, <3>2 DEF Keeps, Making
    <2>2. ASSUME NEW w \in Worker, Delete(w)
          PROVE  Enters /\ NoneRevived
      <3>1. Keeps(w) /\ work'[w].at = "get" /\ work'[w].id = 0
        BY <1>0, <2>2, DeleteMoves
      <3> QED
        BY <3>1 DEF Keeps, Making
    <2>3. ASSUME NEW p \in Process, Kill(p)
          PROVE  Enters /\ NoneRevived
      <3>1. \A v \in Worker : work'[v] = Idle \/ work'[v] = work[v]
        BY <1>0, <2>3, KillMoves
      <3>2. Idle.at = "idle" /\ Idle.id = 0
        BY DEF Idle
      <3> QED
        BY <3>1, <3>2 DEF Making
    <2> QED
      BY <2>1, <2>2, <2>3
  <1>4. \A v \in Worker : Removing(v)'
    <2> SUFFICES ASSUME NEW v \in Worker, work'[v].at \in RemoveSteps
                 PROVE  Removing(v)'
      BY DEF Removing
    <2>1. work'[v] = work[v]
      BY <1>3 DEF RemoveSteps
    <2>2. PICK t \in 1..made : t = Target(v)
      BY <1>0, <2>1, TargetIsIn DEF WorkerOk, DropSteps
    <2>3. Target(v)' = t
      BY <2>1, <2>2 DEF Target
    <2>4. Making(Target(v))' <=> Making(t)'
      BY <2>3 DEF Making
    <2> QED
      BY <1>1, <1>3, <2>1, <2>2, <2>3, <2>4 DEF ListInv, Removing
  <1>5. RowsLost' \/ \A v \in Worker : Rowed(v)'
    BY <1>1, <1>3 DEF ListInv, Rowed, RowsLost
  <1> QED
    BY <1>2, <1>4, <1>5 DEF ListInv

\* Every step keeps the files listed.
LEMMA ListNext ==
    ASSUME ListInv, [Next]_vars
    PROVE  ListInv'
  <1>1. CASE \E w \in Worker : Step(w)
    <2>1. PICK w \in Worker : Step(w)
      BY <1>1
    <2>2. WorkInv' /\ \A v \in Worker : Removing(v)'
      BY <2>1, WorkNext, OthersRemoving, OwnRemoving DEF ListInv
    <2>3. RowsLost' \/ (FilesAreListed' /\ \A v \in Worker : Rowed(v)')
      BY <2>1, RowedStays, ListedStays
    <2> QED
      BY <2>2, <2>3 DEF ListInv, FilesAreListed, RowsLost
  <1>2. CASE (\E w \in Worker : Create(w) \/ Delete(w)) \/ \E p \in Process : Kill(p)
    BY <1>2, ListOutside
  <1>3. CASE UNCHANGED vars
    <2>1. UNCHANGED <<index, torn, dump, sidecar, cut, clash, work>>
      BY <1>3 DEF vars, files, history
    <2>2. WorkInv'
      BY WorkNext DEF ListInv
    <2> QED
      BY <2>1, <2>2 DEF ListInv, FilesAreListed, RowsLost, Removing, Rowed, Target, Making
  <1> QED
    BY <1>1, <1>2, <1>3 DEF Next

\* At first there are no files.
LEMMA ListInit == Init => ListInv
  <1> SUFFICES ASSUME Init PROVE ListInv
    OBVIOUS
  <1>1. \A w \in Worker : work[w].at = "idle"
    BY DEF Init, Idle
  <1>2. FilesAreListed
    BY DEF Init, FilesAreListed
  <1> QED
    BY <1>1, <1>2, WorkInit DEF ListInv, Removing, Rowed, RemoveSteps

\* Every file has a row, by which it can be found and deleted: Create inserts
\* the row before it opens the file, Delete removes the row after the files.
\* The exceptions are a backup removed while it was being made, an index written
\* over that of the other process, and one torn by a kill or a failed write, on
\* which no row can be read again (Service.Create, Service.Delete, writeIndex).
THEOREM FilesHaveRows == Spec => []FilesAreListed
  <1>1. ListInv => FilesAreListed
    BY DEF ListInv
  <1> QED
    BY <1>1, ListInit, ListNext, PTL DEF Spec

-----------------------------------------------------------------------------
(* What retention leaves.                                                   *)

Quiet == ~overlap /\ ~RowsLost /\ ~unsure /\ byHand = {}
Busy(w) == w[2] = "create" /\ work[w].at # "idle"

\* Unless two processes make backups at once, one Create is at work at most.
Alone == ~overlap => \A w, v \in Worker : Busy(w) /\ Busy(v) => w = v

\* That Create makes the newest backup, and its retention pass, which starts
\* once the new one is ok, has a good one to leave.
Kept(w) ==
  w[2] = "create" =>
    /\ work[w].at \in CreateSteps => work[w].id = made /\ made \notin dropped
    /\ work[w].at = "list" => index[made] = "ok"
    /\ work[w].at \in DropSteps => Good \ work[w].drop # {}

GoodInv == RestoreInv /\ Alone /\ (Quiet => \A w \in Worker : Kept(w))

\* What was noted stays noted.
LEMMA QuietBefore ==
    ASSUME WorkInv, NEW w \in Worker, Step(w), Quiet'
    PROVE  Quiet
  <1>1. overlap' = overlap
    BY StepFacts
  <1>2. (RowsLost => RowsLost') /\ (unsure => unsure')
    BY LostStays, StepFacts
  <1>3. byHand \subseteq byHand'
    BY DEF Step, ReadIndex, RowMissing, ReadFails, WriteIndex, WriteFails, OpenDump, DumpEnds,
         HashFile, WriteSidecar, Cleanup, GetRow, RemoveDump, RemoveSidecar, history
  <1> QED
    BY <1>1, <1>2, <1>3 DEF Quiet

\* A backup is announced by no one but the worker at it, and unless it is by
\* hand, by a retention pass.
LEMMA Announced ==
    ASSUME WorkInv, NEW w \in Worker, Step(w)
    PROVE  \/ dropped' = dropped
           \/ /\ work[w].at = "get" /\ dropped' = dropped \cup {Target(w)}
              /\ byHand' = {} => w[2] = "create"
  <1>1. CASE GetRow(w)
    <2>1. w[2] \in {"create", "delete"}
      BY DEF Worker
    <2> QED
      BY <1>1, <2>1 DEF GetRow
  <1>2. CASE ~GetRow(w)
    BY <1>2 DEF Step, ReadIndex, RowMissing, ReadFails, WriteIndex, WriteFails, OpenDump, DumpEnds,
         HashFile, WriteSidecar, Cleanup, RemoveDump, RemoveSidecar, history
  <1> QED
    BY <1>1, <1>2

\* A good backup stays good until it is announced.
LEMMA GoodRows ==
    ASSUME RestoreInv, NEW w \in Worker, Step(w), ~RowsLost', ~unsure',
           NEW b \in Good, b \notin dropped'
    PROVE  b \in Good'
  <1>0. WorkInv /\ TypeOK /\ WorkerOk(w) /\ MakingOk(w) /\ ~unsure
    BY StepFacts DEF RestoreInv
  <1>1. index[b] = "ok" /\ b \in Backup \ dropped
    BY DEF Good
  <1>2. index'[b] = "ok"
    <2>1. CASE Writes(w)
      <3>1. Holds(w) /\ index = work[w].view /\ index' = Changed(w, work[w].view)
        BY <2>1 DEF Writes, Written, RowsLost
      <3>2. work[w].at \in {"insert", "ok", "failed"} => work[w].id # b
        BY <1>0, <1>1 DEF MakingOk, MakeSteps, NotOk
      <3>3. work[w].at = "row" => Target(w) # b
        BY <1>0, <1>1 DEF WorkerOk, RemoveSteps
      <3> QED
        BY <1>0, <1>1, <3>1, <3>2, <3>3, ChangedRows DEF Index
    <2> QED
      BY <1>1, <2>1, IndexSteps DEF Torn, RowsLost
  <1> QED
    BY <1>1, <1>2 DEF Good

\* A worker at a step is not idle.
LEMMA StepBusy ==
    ASSUME WorkInv, NEW w \in Worker, Step(w)
    PROVE  work[w].at # "idle"
  <1>1. WorkerOk(w)
    BY DEF WorkInv
  <1> QED
    BY <1>1 DEF Step, ReadIndex, RowMissing, ReadFails, WriteIndex, WriteFails, OpenDump, DumpEnds,
         HashFile, WriteSidecar, Cleanup, GetRow, RemoveDump, RemoveSidecar, IndexOps, WorkerOk

\* The retention pass spares the backup it follows: none is newer, and it is
\* younger than any limit.
LEMMA PruneSpares ==
    ASSUME WorkInv, NEW w \in Worker, Cleanup(w), work[w].id = made, Prunes(w)
    PROVE  made \notin work'[w].drop
  <1>0. TypeOK /\ WorkType /\ Unmade /\ made \in Nat
    BY WorkTypes DEF WorkInv, TypeOK
  <1>1. work' # [work EXCEPT ![w] = Idle]
    BY <1>0 DEF Prunes, WorkType, Idle
  <1>2. PICK aged \in 0..made - 1 :
          LET drop == IF w[1] # Panel THEN {}
                      ELSE (IF MaxCount > 0 THEN Surplus(MaxCount) ELSE {})
                           \cup {b \in Rows(index) : b <= aged}
          IN work' = [work EXCEPT ![w] = [Idle EXCEPT !.at = "get", !.drop = drop]]
    BY <1>1 DEF Cleanup
  <1>3. PICK drop : /\ drop \subseteq (IF MaxCount > 0 THEN Surplus(MaxCount) ELSE {})
                                      \cup {b \in Rows(index) : b <= aged}
                    /\ work' = [work EXCEPT ![w] = [Idle EXCEPT !.at = "get", !.drop = drop]]
    BY <1>2
  <1>4. work'[w].drop = drop
    <2>1. PICK r : r = [Idle EXCEPT !.at = "get", !.drop = drop]
      OBVIOUS
    <2>2. r.drop = drop /\ work' = [work EXCEPT ![w] = r]
      BY <1>3, <2>1 DEF Idle
    <2> QED
      BY <1>0, <2>2 DEF WorkType
  <1>5. MaxCount > 0 => made \notin Surplus(MaxCount)
    <2>1. {c \in Rows(index) : c > made} = {}
      BY <1>0, RowsMade
    <2>2. Cardinality({c \in Rows(index) : c > made}) = 0
      BY <2>1, FS_EmptySet
    <2> QED
      BY <2>2, BackupsAssumption DEF Surplus
  <1>6. ~(made <= aged)
    BY <1>0, <1>2
  <1> QED
    BY <1>3, <1>4, <1>5, <1>6

\* A step leaves the other Create, which is idle, and the one at work its good
\* backup.
LEMMA OthersKept ==
    ASSUME GoodInv, NEW w \in Worker, Step(w), Quiet', NEW v \in Worker \ {w}
    PROVE  Kept(v)'
  <1>0. WorkInv /\ TypeOK /\ RestoreInv /\ Quiet /\ Kept(v) /\ made' = made /\ work'[v] = work[v]
    <2>1. WorkInv /\ RestoreInv
      BY DEF GoodInv, RestoreInv
    <2>2. Quiet /\ TypeOK /\ made' = made /\ Keeps(w)
      BY <2>1, QuietBefore, StepFacts
    <2> QED
      BY <2>1, <2>2 DEF GoodInv, Keeps
  <1> SUFFICES ASSUME v[2] = "create", work[v].at # "idle"
               PROVE  Kept(v)'
    BY <1>0 DEF Kept, CreateSteps, MakeSteps, DropSteps, RemoveSteps
  <1>1. dropped' = dropped
    <2>1. w[2] # "create"
      BY <1>0, StepBusy DEF GoodInv, Alone, Busy, Quiet
    <2> QED
      BY <1>0, <2>1, Announced DEF Quiet
  <1>2. Good \subseteq Good'
    BY <1>0, <1>1, GoodRows DEF Good, Quiet
  <1>3. work[v].at = "list" => index'[made] = "ok"
    <2>1. ASSUME work[v].at = "list"
          PROVE  made \in Good
      <3>1. work[v].id = made /\ made \notin dropped /\ index[made] = "ok"
        BY <1>0, <2>1 DEF Kept, CreateSteps
      <3>2. made \in Backup
        BY <1>0, <2>1, <3>1, BackupsAssumption DEF WorkInv, WorkerOk, CreateSteps, TypeOK, Backup
      <3> QED
        BY <3>1, <3>2 DEF Good
    <2> QED
      BY <1>2, <2>1 DEF Good
  <1> QED
    BY <1>0, <1>1, <1>2, <1>3 DEF Kept

\* So does the step of the Create that is at work.
LEMMA OwnKept ==
    ASSUME GoodInv, NEW w \in Worker, Step(w), Quiet'
    PROVE  Kept(w)'
  <1>0. WorkInv /\ RestoreInv /\ Quiet /\ Kept(w)
    <2>1. WorkInv /\ RestoreInv
      BY DEF GoodInv, RestoreInv
    <2>2. Quiet
      BY <2>1, QuietBefore
    <2> QED
      BY <2>1, <2>2 DEF GoodInv
  <1>1. TypeOK /\ WorkType /\ WorkerOk(w) /\ Moves(w) /\ made' = made
    BY <1>0, StepFacts
  <1> SUFFICES ASSUME w[2] = "create"
               PROVE  Kept(w)'
    BY DEF Kept
  <1>2. work[w].at # "get" => dropped' = dropped
    BY <1>0, Announced
  <1>3. ASSUME work'[w].at \in CreateSteps
        PROVE  /\ work[w].at \in CreateSteps /\ work'[w].id = made' /\ made' \notin dropped'
               /\ work'[w].at = "list" => index'[made'] = "ok"
    <2>1. work[w].at \in CreateSteps /\ work'[w].id = work[w].id
          /\ (work'[w].at = "list" => work[w].at = "ok")
      <3> USE DEF CreateSteps, MakeSteps, DropSteps, RemoveSteps
      <3>1. CASE Reads(w)
        BY <1>3, <3>1 DEF Reads, IndexOps
      <3>2. CASE Ends(w)
        BY <1>3, <3>2 DEF Ends, Idle
      <3>3. CASE Rests(w) \/ Prunes(w)
        BY <1>3, <3>3 DEF Rests, Prunes
      <3>4. CASE GoesOn(w)
        BY <1>3, <3>4 DEF GoesOn, Goes, To
      <3>5. CASE Announces(w)
        BY <1>3, <3>5 DEF Announces, To
      <3> QED
        BY <1>1, <3>1, <3>2, <3>3, <3>4, <3>5 DEF Moves
    <2>2. work[w].id = made /\ made \notin dropped /\ work[w].at # "get"
      BY <1>0, <2>1 DEF Kept, CreateSteps, MakeSteps
    <2>3. ASSUME work'[w].at = "list"
          PROVE  index'[made] = "ok"
      <3>1. work[w].at = "ok"
        BY <2>1, <2>3
      <3>2. CASE ReadIndex(w)
        BY <1>1, <2>3, <3>1, <3>2, ReadMoves DEF Reads
      <3>3. CASE RowMissing(w) \/ ReadFails(w) \/ WriteFails(w)
        <4>1. IndexFailed(w)
          BY <3>1, <3>3 DEF RowMissing, ReadFails, WriteFails
        <4> QED
          BY <1>1, <2>3, <3>1, <4>1, FailedSteps DEF Ends, To, Idle
      <3>4. CASE WriteIndex(w)
        <4>1. Holds(w) /\ index' = Changed(w, work[w].view)
          BY <3>4 DEF WriteIndex, Written
        <4>2. made \in Backup
          BY <1>1, <2>1, <2>2, BackupsAssumption DEF WorkerOk, TypeOK, Backup
        <4>3. /\ work[w].view \in Index
              /\ Changed(w, work[w].view) = [work[w].view EXCEPT ![made] = "ok"]
          BY <1>1, <2>2, <3>1, <4>1, ChangedRows
        <4> QED
          BY <4>1, <4>2, <4>3 DEF Index
      <3> QED
        BY <3>1, <3>2, <3>3, <3>4 DEF Step, OpenDump, DumpEnds, HashFile, WriteSidecar,
           Cleanup, GetRow, RemoveDump, RemoveSidecar
    <2> QED
      BY <1>1, <1>2, <2>1, <2>2, <2>3
  <1>4. ASSUME work'[w].at \in DropSteps
        PROVE  Good' \ work'[w].drop # {}
    <2>1. CASE work[w].at \in DropSteps /\ work'[w].drop \subseteq work[w].drop
      <3>1. PICK g \in Good : g \notin work[w].drop
        BY <1>0, <2>1 DEF Kept
      <3>2. Target(w) \in work[w].drop
        BY <1>1, <2>1, TargetIsIn DEF WorkerOk
      <3>3. g \notin dropped'
        BY <1>0, <3>1, <3>2, Announced DEF Good
      <3>4. g \in Good'
        BY <1>0, <3>1, <3>3, GoodRows DEF Quiet
      <3> QED
        BY <2>1, <3>1, <3>4
    <2>2. CASE Prunes(w)
      <3>1. work[w].at = "list"
        BY <2>2 DEF Prunes
      <3>2. work[w].id = made /\ made \notin dropped /\ index[made] = "ok"
        BY <1>0, <3>1 DEF Kept, CreateSteps
      <3>3. made \in Good
        BY <1>1, <3>1, <3>2, BackupsAssumption DEF WorkerOk, CreateSteps, TypeOK, Backup, Good
      <3>4. made \in Good'
        BY <1>0, <1>2, <3>1, <3>2, <3>3, GoodRows DEF Quiet
      <3>5. Cleanup(w)
        BY <1>1, <3>1 DEF Step, ReadIndex, RowMissing, ReadFails, WriteIndex, WriteFails, OpenDump,
             DumpEnds, HashFile, WriteSidecar, GetRow, RemoveDump, RemoveSidecar, IndexOps, WorkerOk
      <3>6. made \notin work'[w].drop
        BY <1>0, <2>2, <3>2, <3>5, PruneSpares
      <3> QED
        BY <3>4, <3>6
    <2>3. (work[w].at \in DropSteps /\ work'[w].drop \subseteq work[w].drop) \/ Prunes(w)
      <3> USE DEF DropSteps, RemoveSteps
      <3>1. CASE Reads(w)
        BY <1>4, <3>1 DEF Reads
      <3>2. CASE Ends(w)
        BY <1>4, <3>2 DEF Ends, Idle
      <3>3. CASE work[w].at \in DropSteps /\ Rests(w)
        BY <3>3 DEF Rests
      <3>4. CASE GoesOn(w)
        BY <1>4, <3>4 DEF GoesOn, Goes, To
      <3>5. CASE Announces(w)
        BY <3>5 DEF Announces, To
      <3> QED
        BY <1>1, <3>1, <3>2, <3>3, <3>4, <3>5 DEF Moves
    <2> QED
      BY <2>1, <2>2, <2>3
  <1>5. work'[w].at = "list" => work'[w].at \in CreateSteps
    BY DEF CreateSteps
  <1> QED
    BY <1>3, <1>4, <1>5 DEF Kept

\* A step of a worker makes no second Create busy.
LEMMA AloneStays ==
    ASSUME WorkInv, Alone, NEW w \in Worker, Step(w)
    PROVE  Alone'
  <1>1. overlap' = overlap /\ Keeps(w) /\ work[w].at # "idle"
    BY StepFacts, StepBusy
  <1>2. \A v \in Worker : Busy(v)' => Busy(v)
    BY <1>1 DEF Busy, Keeps
  <1> QED
    BY <1>1, <1>2 DEF Alone

\* A new Create makes the newest backup; a second one at once is noted.
LEMMA CreateKept ==
    ASSUME GoodInv, NEW w \in Worker, Create(w)
    PROVE  Alone' /\ (Quiet' => \A v \in Worker : Kept(v)')
  <1>0. WorkInv /\ TypeOK /\ WorkType /\ WorkerOk(w)
    BY WorkTypes DEF GoodInv, RestoreInv, WorkInv
  <1>1. /\ Keeps(w) /\ w[2] = "create" /\ work[w].at = "idle"
        /\ made' = made + 1
        /\ work'[w].at = "insert" /\ work'[w].id = made'
    BY <1>0, CreateMoves
  <1>2. /\ overlap \/ (\E v \in Worker \ {w} : Busy(v)) => overlap'
        /\ UNCHANGED <<dropped, byHand>>
    BY OutsideSteps DEF Create, Busy
  <1>3. ~overlap' => \A v \in Worker \ {w} : ~Busy(v) /\ work'[v] = work[v]
    BY <1>1, <1>2 DEF Keeps
  <1>4. Alone'
    BY <1>3 DEF Alone, Busy
  <1>5. made' \notin dropped'
    BY <1>0, <1>1, <1>2 DEF TypeOK
  <1>6. Kept(w)'
    BY <1>1, <1>5 DEF Kept, DropSteps, RemoveSteps
  <1>7. ~overlap' => \A v \in Worker \ {w} : Kept(v)'
    BY <1>3 DEF Kept, Busy, CreateSteps, MakeSteps, DropSteps, RemoveSteps
  <1> QED
    BY <1>4, <1>6, <1>7 DEF Quiet

\* A Delete and a kill leave the Create at work its good backup.
LEMMA DeleteKillKept ==
    ASSUME GoodInv, (\E w \in Worker : Delete(w)) \/ (\E p \in Process : Kill(p))
    PROVE  Alone' /\ (Quiet' => \A v \in Worker : Kept(v)')
  <1>0. TypeOK /\ WorkType /\ \A v \in Worker : WorkerOk(v)
    BY WorkTypes DEF GoodInv, RestoreInv, WorkInv
  <1>1. UNCHANGED <<dropped, byHand, clash, unsure>> /\ (torn' \/ UNCHANGED <<index, torn>>)
    BY OutsideSteps DEF Torn
  <1>2. UNCHANGED <<made, overlap>>
    BY DEF Delete, Kill, history
  <1>3. \A v \in Worker : v[2] = "create" => work'[v] = work[v] \/ work'[v].at = "idle"
    <2>1. CASE \E w \in Worker : Delete(w)
      BY <1>0, <2>1, DeleteMoves DEF Keeps
    <2>2. CASE \E p \in Process : Kill(p)
      BY <1>0, <2>2, KillMoves DEF Idle
    <2> QED
      BY <2>1, <2>2
  <1>4. Alone'
    BY <1>2, <1>3 DEF GoodInv, Alone, Busy
  <1>5. ASSUME Quiet', NEW v \in Worker
        PROVE  Kept(v)'
    <2>1. Kept(v)
      BY <1>1, <1>2, <1>5 DEF GoodInv, Quiet, RowsLost
    <2>2. CASE work'[v] = work[v]
      BY <1>1, <1>2, <1>5, <2>1, <2>2 DEF Kept, Good, Quiet, RowsLost
    <2>3. CASE work'[v].at = "idle"
      BY <2>3 DEF Kept, CreateSteps, MakeSteps, DropSteps, RemoveSteps
    <2> QED
      BY <1>3, <2>2, <2>3 DEF Kept
  <1> QED
    BY <1>4, <1>5

\* Every step leaves a retention pass its good backup.
LEMMA GoodNext ==
    ASSUME GoodInv, [Next]_vars
    PROVE  GoodInv'
  <1>0. RestoreInv' /\ WorkInv
    BY RestoreNext DEF GoodInv, RestoreInv
  <1>1. CASE \E w \in Worker : Step(w)
    <2>1. PICK w \in Worker : Step(w)
      BY <1>1
    <2>2. Alone'
      BY <1>0, <2>1, AloneStays DEF GoodInv
    <2>3. Quiet' => \A v \in Worker : Kept(v)'
      BY <2>1, OthersKept, OwnKept
    <2> QED
      BY <1>0, <2>2, <2>3 DEF GoodInv
  <1>2. CASE \E w \in Worker : Create(w) \/ Delete(w)
    BY <1>0, <1>2, CreateKept, DeleteKillKept DEF GoodInv
  <1>3. CASE \E p \in Process : Kill(p)
    BY <1>0, <1>3, DeleteKillKept DEF GoodInv
  <1>4. CASE UNCHANGED vars
    <2>1. UNCHANGED <<index, torn, made, dropped, byHand, overlap, clash, unsure, work>>
      BY <1>4 DEF vars, counts, history
    <2> QED
      BY <1>0, <2>1 DEF GoodInv, Alone, Busy, Quiet, RowsLost, Kept, Good
  <1> QED
    BY <1>1, <1>2, <1>3, <1>4 DEF Next

\* At first no one is at work.
LEMMA GoodInit == Init => GoodInv
  <1> SUFFICES ASSUME Init PROVE GoodInv
    OBVIOUS
  <1>1. \A w \in Worker : work[w].at = "idle"
    BY DEF Init, Idle
  <1> QED
    BY <1>1, RestoreInit DEF GoodInv, Alone, Busy, Kept, CreateSteps, MakeSteps, DropSteps, RemoveSteps

\* A step that removes a good backup without an operator leaves another.
LEMMA GoodLeft ==
    ASSUME GoodInv, [Next]_vars, Good # {}, Quiet'
    PROVE  Good' # {}
  <1>0. WorkInv /\ RestoreInv
    BY DEF GoodInv, RestoreInv
  <1>1. CASE \E w \in Worker : Step(w)
    <2>1. PICK w \in Worker : Step(w)
      BY <1>1
    <2>2. PICK g \in Good : g \notin dropped'
      <3>1. CASE dropped' = dropped
        BY <3>1 DEF Good
      <3>2. CASE dropped' # dropped
        <4>1. w[2] = "create" /\ work[w].at = "get" /\ dropped' = dropped \cup {Target(w)}
          BY <1>0, <2>1, <3>2, Announced DEF Quiet
        <4>2. Kept(w)
          BY <1>0, <2>1, QuietBefore DEF GoodInv
        <4>3. TypeOK /\ WorkerOk(w)
          BY <1>0 DEF WorkInv
        <4>4. Target(w) \in work[w].drop
          BY <4>1, <4>3, TargetIsIn DEF WorkerOk, DropSteps
        <4>5. PICK g \in Good : g \notin work[w].drop
          BY <4>1, <4>2 DEF Kept, DropSteps
        <4> QED
          BY <4>1, <4>4, <4>5 DEF Good
      <3> QED
        BY <3>1, <3>2
    <2>3. g \in Good'
      BY <1>0, <2>1, <2>2, GoodRows DEF Quiet
    <2> QED
      BY <2>3
  <1>2. CASE (\E w \in Worker : Create(w) \/ Delete(w)) \/ \E p \in Process : Kill(p)
    BY <1>2, OutsideSteps DEF Good, Quiet, RowsLost, Torn
  <1>3. CASE UNCHANGED vars
    BY <1>3 DEF vars, history, Good
  <1> QED
    BY <1>1, <1>2, <1>3 DEF Next

\* Retention leaves a good backup: while the processes do not make backups at
\* once or write over each other's index, no write of the index fails once it
\* has begun or is cut short by a kill, and no operator removes a backup, a list
\* with a good backup keeps one, although failed rows count towards MaxCount:
\* the pass follows a success, and the new backup is the newest row (Cleanup).
THEOREM RetentionKeepsGood == Spec => GoodIsKept
  <1>1. GoodInv /\ [Next]_vars =>
          [Good # {} /\ ~overlap' /\ ~clash' /\ ~torn' /\ ~unsure' /\ byHand' = {} => Good' # {}]_vars
    BY GoodLeft DEF Quiet, RowsLost
  <1> QED
    BY <1>1, GoodInit, GoodNext, PTL DEF Spec, GoodIsKept

-----------------------------------------------------------------------------
(* Migrations.                                                             *)

\* What a run in progress may rely on.  A Down has a file, an Up still
\* has its open file before it.
RunsKnowTheirFile ==
  \A p \in Runner :
    /\ job[p].at \in {"record", "commit"} => job[p].file \in job[p].todo
    /\ job[p].at \in {"unrecord", "settle"} =>
         job[p].file \in File

\* Between the halves of a Down its tables are gone, or it is halved.
HalfwayIsGone ==
  \A p \in Runner, f \in File : Halfway(p, f) => f \notin schema \/ f \in halved

\* What an Up still means to run was recorded, if at all, behind its back.
TodoIsNew ==
  \A p \in Runner : job[p].at \in {"next", "record", "commit"} =>
    \A f \in job[p].todo : f \in recorded => f \in crossed

\* What an Up has passed over or done is in the journal, unless a Down came.
PassedIsRecorded ==
  \A p \in Runner :
    /\ job[p].at = "list" => Embedded \subseteq job[p].todo
    /\ job[p].at \in {"next", "record", "commit", "ok"} =>
         \A f \in Embedded \ (job[p].todo \cup job[p].undone) : f \in recorded
    /\ job[p].at = "ok" => job[p].todo = {}

MigrateInv == /\ MigrateTypeOK /\ RunsKnowTheirFile /\ HalfwayIsGone /\ JournalMatches
        /\ TodoIsNew /\ PassedIsRecorded /\ NoRowsLost

LEMMA MigrateStarts == MigrateInit => MigrateInv
  BY FileAssumption, RunsAssumption
  DEF MigrateInit, MigrateInv, MigrateTypeOK, Job, NoCall, RunsKnowTheirFile, HalfwayIsGone,
      JournalMatches, TodoIsNew, PassedIsRecorded, NoRowsLost, Halfway

\* The record of a call stays one when a field of it changes.
LEMMA JobFields ==
  ASSUME NEW j \in Job
  PROVE  /\ \A a \in {"list", "next", "record", "commit", "unrecord", "settle", "ok"} :
              [j EXCEPT !.at = a] \in Job
         /\ \A t \in SUBSET File : [j EXCEPT !.todo = t] \in Job
         /\ \A f \in File \cup {0} : [j EXCEPT !.file = f] \in Job
         /\ \A u \in SUBSET File : [j EXCEPT !.undone = u] \in Job
  BY DEF Job

LEMMA NoCallIsJob == NoCall \in Job
  BY DEF NoCall, Job

LEMMA UndoIsJobs ==
  ASSUME NEW j \in [Runner -> Job], NEW f \in File
  PROVE  Undo(j, f) \in [Runner -> Job]
  <1> SUFFICES ASSUME NEW q \in Runner
               PROVE  [j[q] EXCEPT !.undone = @ \cup {f}] \in Job
    BY DEF Undo
  <1> QED
    BY DEF Job

LEMMA MigrateSteps == MigrateInv /\ [MigrateNext]_migrateVars => MigrateInv'
  <1> SUFFICES ASSUME MigrateInv, [MigrateNext]_migrateVars PROVE MigrateInv'
    OBVIOUS
  <1> USE FileAssumption, RunsAssumption DEF MigrateInv
  <1>1. ASSUME NEW p \in Runner, BeginUp(p) PROVE MigrateInv'
    <2> USE <1>1 DEF BeginUp, NoCall, Source, Complete
    <2>1. MigrateTypeOK'
      <3>1. Source(dir) \in SUBSET File
        BY DEF MigrateTypeOK, Source
      <3>2. [NoCall EXCEPT !.at = "list", !.todo = Source(dir)] \in Job
        BY <3>1 DEF Job
      <3> QED
        BY <3>2 DEF MigrateTypeOK
    <2>2. RunsKnowTheirFile'
      BY DEF RunsKnowTheirFile, MigrateTypeOK, Job
    <2>3. HalfwayIsGone'
      BY DEF HalfwayIsGone, Halfway, MigrateTypeOK, Job, RunsKnowTheirFile
    <2>4. JournalMatches'
      BY DEF JournalMatches, HalfwayIsGone, Halfway, RunsKnowTheirFile, MigrateTypeOK, Job
    <2>5. TodoIsNew'
      BY DEF TodoIsNew, RunsKnowTheirFile, MigrateTypeOK, Job
    <2>6. PassedIsRecorded'
      BY DEF PassedIsRecorded, RunsKnowTheirFile, MigrateTypeOK, Job
    <2>7. NoRowsLost'
      BY DEF NoRowsLost, JournalMatches, HalfwayIsGone, Halfway, TodoIsNew, RunsKnowTheirFile,
             MigrateTypeOK, Job
    <2> QED
      BY <2>1, <2>2, <2>3, <2>4, <2>5, <2>6, <2>7
  <1>2. ASSUME NEW p \in Runner, ReadApplied(p) PROVE MigrateInv'
    <2> USE <1>2 DEF ReadApplied, NoCall, Unapplied
    <2>1. MigrateTypeOK'
      <3>1. [job[p] EXCEPT !.at = "next", !.todo = Unapplied(job[p].todo)] \in Job
        BY DEF MigrateTypeOK, Job
      <3> QED
        BY <3>1 DEF MigrateTypeOK
    <2>2. RunsKnowTheirFile'
      BY DEF RunsKnowTheirFile, MigrateTypeOK, Job
    <2>3. HalfwayIsGone'
      BY DEF HalfwayIsGone, Halfway, MigrateTypeOK, Job, RunsKnowTheirFile
    <2>4. JournalMatches'
      BY DEF JournalMatches, HalfwayIsGone, Halfway, RunsKnowTheirFile, MigrateTypeOK, Job
    <2>5. TodoIsNew'
      BY DEF TodoIsNew, RunsKnowTheirFile, MigrateTypeOK, Job
    <2>6. PassedIsRecorded'
      BY DEF PassedIsRecorded, RunsKnowTheirFile, MigrateTypeOK, Job
    <2>7. NoRowsLost'
      BY DEF NoRowsLost, JournalMatches, HalfwayIsGone, Halfway, TodoIsNew, RunsKnowTheirFile,
             MigrateTypeOK, Job
    <2> QED
      BY <2>1, <2>2, <2>3, <2>4, <2>5, <2>6, <2>7
  <1>3. ASSUME NEW p \in Runner, ApplyUp(p) PROVE MigrateInv'
    <2> USE <1>3 DEF ApplyUp, NoCall
    <2>1. MigrateTypeOK'
      <3> PICK f \in job[p].todo : job' = [job EXCEPT ![p].at = "record", ![p].file = f]
        OBVIOUS
      <3>1. job[p] \in Job /\ f \in File
        BY DEF MigrateTypeOK, Job
      <3>2. [job[p] EXCEPT !.at = "record", !.file = f] \in Job
        BY <3>1 DEF Job
      <3> QED
        BY <3>2 DEF MigrateTypeOK
    <2>2. RunsKnowTheirFile'
      BY DEF RunsKnowTheirFile, MigrateTypeOK, Job
    <2>3. HalfwayIsGone'
      BY DEF HalfwayIsGone, Halfway, MigrateTypeOK, Job, RunsKnowTheirFile
    <2>4. JournalMatches'
      BY DEF JournalMatches, HalfwayIsGone, Halfway, RunsKnowTheirFile, MigrateTypeOK, Job
    <2>5. TodoIsNew'
      BY DEF TodoIsNew, RunsKnowTheirFile, MigrateTypeOK, Job
    <2>6. PassedIsRecorded'
      BY DEF PassedIsRecorded, RunsKnowTheirFile, MigrateTypeOK, Job
    <2>7. NoRowsLost'
      BY DEF NoRowsLost, JournalMatches, HalfwayIsGone, Halfway, TodoIsNew, RunsKnowTheirFile,
             MigrateTypeOK, Job
    <2> QED
      BY <2>1, <2>2, <2>3, <2>4, <2>5, <2>6, <2>7
  <1>4. ASSUME NEW p \in Runner, RecordUp(p) PROVE MigrateInv'
    <2> USE <1>4 DEF RecordUp, NoCall
    <2>1. MigrateTypeOK'
      BY DEF MigrateTypeOK, Job
    <2>2. RunsKnowTheirFile'
      BY DEF RunsKnowTheirFile, MigrateTypeOK, Job
    <2>3. HalfwayIsGone'
      BY DEF HalfwayIsGone, Halfway, MigrateTypeOK, Job, RunsKnowTheirFile
    <2>4. JournalMatches'
      BY DEF JournalMatches, HalfwayIsGone, Halfway, RunsKnowTheirFile, MigrateTypeOK, Job
    <2>5. TodoIsNew'
      BY DEF TodoIsNew, RunsKnowTheirFile, MigrateTypeOK, Job
    <2>6. PassedIsRecorded'
      BY DEF PassedIsRecorded, RunsKnowTheirFile, MigrateTypeOK, Job
    <2>7. NoRowsLost'
      BY DEF NoRowsLost, JournalMatches, HalfwayIsGone, Halfway, TodoIsNew, RunsKnowTheirFile,
             MigrateTypeOK, Job
    <2> QED
      BY <2>1, <2>2, <2>3, <2>4, <2>5, <2>6, <2>7
  <1>5. ASSUME NEW p \in Runner, CommitUp(p) PROVE MigrateInv'
    <2> USE <1>5 DEF CommitUp, NoCall, TablesOf, RowOf
    <2>1. MigrateTypeOK'
      <3>1. job[p] \in Job /\ job[p].file \in File
        BY DEF MigrateTypeOK, Job, RunsKnowTheirFile
      <3>2. [job[p] EXCEPT !.at = "next", !.todo = job[p].todo \ {job[p].file}, !.file = 0] \in Job
        BY <3>1 DEF Job
      <3> QED
        BY <3>1, <3>2 DEF MigrateTypeOK
    <2>2. RunsKnowTheirFile'
      BY DEF RunsKnowTheirFile, MigrateTypeOK, Job
    <2>3. HalfwayIsGone'
      BY DEF HalfwayIsGone, Halfway, MigrateTypeOK, Job, RunsKnowTheirFile
    <2>4. JournalMatches'
      BY DEF JournalMatches, HalfwayIsGone, Halfway, RunsKnowTheirFile, MigrateTypeOK, Job
    <2>5. TodoIsNew'
      BY DEF TodoIsNew, RunsKnowTheirFile, MigrateTypeOK, Job
    <2>6. PassedIsRecorded'
      BY DEF PassedIsRecorded, RunsKnowTheirFile, MigrateTypeOK, Job
    <2>7. NoRowsLost'
      BY DEF NoRowsLost, JournalMatches, HalfwayIsGone, Halfway, TodoIsNew, RunsKnowTheirFile,
             MigrateTypeOK, Job
    <2> QED
      BY <2>1, <2>2, <2>3, <2>4, <2>5, <2>6, <2>7
  <1>6. ASSUME NEW p \in Runner, UpReturns(p) PROVE MigrateInv'
    <2> USE <1>6 DEF UpReturns, NoCall
    <2>1. MigrateTypeOK'
      BY DEF MigrateTypeOK, Job
    <2>2. RunsKnowTheirFile'
      BY DEF RunsKnowTheirFile, MigrateTypeOK, Job
    <2>3. HalfwayIsGone'
      BY DEF HalfwayIsGone, Halfway, MigrateTypeOK, Job, RunsKnowTheirFile
    <2>4. JournalMatches'
      BY DEF JournalMatches, HalfwayIsGone, Halfway, RunsKnowTheirFile, MigrateTypeOK, Job
    <2>5. TodoIsNew'
      BY DEF TodoIsNew, RunsKnowTheirFile, MigrateTypeOK, Job
    <2>6. PassedIsRecorded'
      BY DEF PassedIsRecorded, RunsKnowTheirFile, MigrateTypeOK, Job
    <2>7. NoRowsLost'
      BY DEF NoRowsLost, JournalMatches, HalfwayIsGone, Halfway, TodoIsNew, RunsKnowTheirFile,
             MigrateTypeOK, Job
    <2> QED
      BY <2>1, <2>2, <2>3, <2>4, <2>5, <2>6, <2>7
  <1>7. ASSUME NEW p \in Runner, Leave(p) PROVE MigrateInv'
    <2> USE <1>7 DEF Leave, NoCall
    <2>1. MigrateTypeOK'
      BY DEF MigrateTypeOK, Job
    <2>2. RunsKnowTheirFile'
      BY DEF RunsKnowTheirFile, MigrateTypeOK, Job
    <2>3. HalfwayIsGone'
      BY DEF HalfwayIsGone, Halfway, MigrateTypeOK, Job, RunsKnowTheirFile
    <2>4. JournalMatches'
      BY DEF JournalMatches, HalfwayIsGone, Halfway, RunsKnowTheirFile, MigrateTypeOK, Job
    <2>5. TodoIsNew'
      BY DEF TodoIsNew, RunsKnowTheirFile, MigrateTypeOK, Job
    <2>6. PassedIsRecorded'
      BY DEF PassedIsRecorded, RunsKnowTheirFile, MigrateTypeOK, Job
    <2>7. NoRowsLost'
      BY DEF NoRowsLost, JournalMatches, HalfwayIsGone, Halfway, TodoIsNew, RunsKnowTheirFile,
             MigrateTypeOK, Job
    <2> QED
      BY <2>1, <2>2, <2>3, <2>4, <2>5, <2>6, <2>7
  <1>8. ASSUME NEW p \in Runner, ApplyDown(p) PROVE MigrateInv'
    <2> USE <1>8 DEF ApplyDown, NoCall
    <2>1. MigrateTypeOK'
      <3> PICK f \in dir :
            job' = [job EXCEPT ![p] = [NoCall EXCEPT !.at = "unrecord", !.file = f]]
        OBVIOUS
      <3>1. f \in File
        BY DEF MigrateTypeOK
      <3>2. [NoCall EXCEPT !.at = "unrecord", !.file = f] \in Job
        BY <3>1 DEF Job
      <3> QED
        BY <3>2 DEF MigrateTypeOK
    <2>2. RunsKnowTheirFile'
      BY DEF RunsKnowTheirFile, MigrateTypeOK, Job
    <2>3. HalfwayIsGone'
      BY DEF HalfwayIsGone, Halfway, MigrateTypeOK, Job, RunsKnowTheirFile
    <2>4. JournalMatches'
      BY DEF JournalMatches, HalfwayIsGone, Halfway, RunsKnowTheirFile, MigrateTypeOK, Job
    <2>5. TodoIsNew'
      BY DEF TodoIsNew, RunsKnowTheirFile, MigrateTypeOK, Job
    <2>6. PassedIsRecorded'
      BY DEF PassedIsRecorded, RunsKnowTheirFile, MigrateTypeOK, Job
    <2>7. NoRowsLost'
      BY DEF NoRowsLost, JournalMatches, HalfwayIsGone, Halfway, TodoIsNew, RunsKnowTheirFile,
             MigrateTypeOK, Job
    <2> QED
      BY <2>1, <2>2, <2>3, <2>4, <2>5, <2>6, <2>7
  <1>9. ASSUME NEW p \in Runner, Unrecord(p) PROVE MigrateInv'
    <2> USE <1>9 DEF Unrecord, NoCall, Undo
    <2>1. MigrateTypeOK'
      <3> HIDE DEF Undo
      <3>1. job[p].file \in File
        BY DEF RunsKnowTheirFile
      <3>2. [job EXCEPT ![p].at = "settle"] \in [Runner -> Job]
        BY JobFields DEF MigrateTypeOK
      <3>3. Undo([job EXCEPT ![p].at = "settle"], job[p].file) \in [Runner -> Job]
        BY <3>1, <3>2, UndoIsJobs
      <3>4. job' \in [Runner -> Job]
        BY <3>2, <3>3
      <3>5. recorded' \subseteq File /\ schema' \subseteq File
        BY DEF MigrateTypeOK
      <3> QED
        BY <3>4, <3>5 DEF MigrateTypeOK
    <2>2. RunsKnowTheirFile'
      BY DEF RunsKnowTheirFile, MigrateTypeOK, Job
    <2>3. HalfwayIsGone'
      BY DEF HalfwayIsGone, Halfway, MigrateTypeOK, Job, RunsKnowTheirFile
    <2>4. JournalMatches'
      BY DEF JournalMatches, HalfwayIsGone, Halfway, RunsKnowTheirFile, MigrateTypeOK, Job
    <2>5. TodoIsNew'
      BY DEF TodoIsNew, RunsKnowTheirFile, MigrateTypeOK, Job
    <2>6. PassedIsRecorded'
      BY DEF PassedIsRecorded, RunsKnowTheirFile, MigrateTypeOK, Job
    <2>7. NoRowsLost'
      BY DEF NoRowsLost, JournalMatches, HalfwayIsGone, Halfway, TodoIsNew, RunsKnowTheirFile,
             MigrateTypeOK, Job
    <2> QED
      BY <2>1, <2>2, <2>3, <2>4, <2>5, <2>6, <2>7
  <1>10. ASSUME NEW p \in Runner, CommitDown(p) PROVE MigrateInv'
    <2> USE <1>10 DEF CommitDown, NoCall, Undo
    <2>1. MigrateTypeOK'
      <3> HIDE DEF Undo
      <3>1. job[p].file \in File
        BY DEF RunsKnowTheirFile
      <3>2. [job EXCEPT ![p] = NoCall] \in [Runner -> Job]
        BY NoCallIsJob DEF MigrateTypeOK
      <3>3. Undo([job EXCEPT ![p] = NoCall], job[p].file) \in [Runner -> Job]
        BY <3>1, <3>2, UndoIsJobs
      <3>4. job' \in [Runner -> Job]
        BY <3>2, <3>3
      <3>5. recorded' \subseteq File /\ schema' \subseteq File
        BY DEF MigrateTypeOK
      <3> QED
        BY <3>4, <3>5 DEF MigrateTypeOK
    <2>2. RunsKnowTheirFile'
      BY DEF RunsKnowTheirFile, MigrateTypeOK, Job
    <2>3. HalfwayIsGone'
      BY DEF HalfwayIsGone, Halfway, MigrateTypeOK, Job, RunsKnowTheirFile
    <2>4. JournalMatches'
      BY DEF JournalMatches, HalfwayIsGone, Halfway, RunsKnowTheirFile, MigrateTypeOK, Job
    <2>5. TodoIsNew'
      BY DEF TodoIsNew, RunsKnowTheirFile, MigrateTypeOK, Job
    <2>6. PassedIsRecorded'
      BY DEF PassedIsRecorded, RunsKnowTheirFile, MigrateTypeOK, Job
    <2>7. NoRowsLost'
      BY DEF NoRowsLost, JournalMatches, HalfwayIsGone, Halfway, TodoIsNew, RunsKnowTheirFile,
             MigrateTypeOK, Job
    <2> QED
      BY <2>1, <2>2, <2>3, <2>4, <2>5, <2>6, <2>7
  <1>11. ASSUME NEW p \in Runner, Stop(p) PROVE MigrateInv'
    <2> USE <1>11 DEF Stop, NoCall
    <2>1. MigrateTypeOK'
      <3>1. [job EXCEPT ![p] = NoCall] \in [Runner -> Job]
        BY NoCallIsJob DEF MigrateTypeOK
      <3> QED
        BY <3>1 DEF MigrateTypeOK, Stop
    <2>2. RunsKnowTheirFile'
      BY DEF RunsKnowTheirFile, MigrateTypeOK, Job
    <2>3. HalfwayIsGone'
      BY DEF HalfwayIsGone, Halfway, MigrateTypeOK, Job, RunsKnowTheirFile
    <2>4. JournalMatches'
      BY DEF JournalMatches, HalfwayIsGone, Halfway, RunsKnowTheirFile, MigrateTypeOK, Job
    <2>5. TodoIsNew'
      BY DEF TodoIsNew, RunsKnowTheirFile, MigrateTypeOK, Job
    <2>6. PassedIsRecorded'
      BY DEF PassedIsRecorded, RunsKnowTheirFile, MigrateTypeOK, Job
    <2>7. NoRowsLost'
      BY DEF NoRowsLost, JournalMatches, HalfwayIsGone, Halfway, TodoIsNew, RunsKnowTheirFile,
             MigrateTypeOK, Job
    <2> QED
      BY <2>1, <2>2, <2>3, <2>4, <2>5, <2>6, <2>7
  <1>12. CASE CopyFile
    BY <1>12 DEF CopyFile, MigrateTypeOK, RunsKnowTheirFile, HalfwayIsGone, Halfway,
       JournalMatches, TodoIsNew, PassedIsRecorded, NoRowsLost
  <1>13. CASE UNCHANGED migrateVars
    BY <1>13 DEF migrateVars, MigrateTypeOK, RunsKnowTheirFile, HalfwayIsGone, Halfway,
       JournalMatches, TodoIsNew, PassedIsRecorded, NoRowsLost
  <1> QED
    BY <1>1, <1>2, <1>3, <1>4, <1>5, <1>6, <1>7, <1>8, <1>9, <1>10, <1>11, <1>12,
       <1>13 DEF MigrateNext

LEMMA MigrateInductive == MigrateSpec => []MigrateInv
  BY MigrateStarts, MigrateSteps, PTL DEF MigrateSpec

\* Type correctness, for any files, processes and number of runs.
THEOREM MigratorTypeCorrect == MigrateSpec => []MigrateTypeOK
  BY MigrateInductive, PTL DEF MigrateInv

\* The journal and the schema agree but for halved files (Up, Down, applyBody).
THEOREM JournalFollowsSchema == MigrateSpec => []JournalMatches
  BY MigrateInductive, PTL DEF MigrateInv

\* No Up drops rows it should have left alone (Up, appliedMigrations).
THEOREM RowsAreKept == MigrateSpec => []NoRowsLost
  BY MigrateInductive, PTL DEF MigrateInv

\* An Up that returns nil leaves the tables the binary needs, but for those that
\* a Down removed during the run, is removing, or left removed and recorded
\* when it stopped or met an Up halfway (Up, Down, resolveSource).
THEOREM BootsWithItsSchema == MigrateSpec => []UpIsComplete
  <1>1. MigrateInv => UpIsComplete
    BY FileAssumption
    DEF MigrateInv, UpIsComplete, JournalMatches, PassedIsRecorded, MigrateTypeOK, Job
  <1> QED
    BY <1>1, MigrateInductive, PTL
=============================================================================
