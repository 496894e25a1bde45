------------------------------ MODULE Backups ------------------------------
(***************************************************************************)
(* internal/backups: database dumps in a directory beside their index, a   *)
(* file that is read, changed and written again as a whole.                *)
(*                                                                         *)
(* The panel and the tool aegis-pg-backup are two processes with the same  *)
(* directory.  In each, one Create runs at a time, Delete runs next to it, *)
(* and a mutex serialises the accesses to the index; between processes     *)
(* nothing does.  Either may be killed at any step, and every access to    *)
(* the disk may fail.                                                      *)
(***************************************************************************)
EXTENDS Naturals, FiniteSets, FiniteSetsExt

CONSTANTS Process,      \* the processes that use the directory
          Panel,        \* the one with a retention policy
          MaxCount,     \* AEGIS_BACKUPS_MAX_COUNT of the panel; 0: no limit
          MaxBackups,   \* bound: calls of Create
          MaxDeletes,   \* bound: calls of Delete
          MaxKills      \* bound: processes killed

ASSUME BackupsAssumption ==
  /\ Panel \in Process
  /\ MaxCount \in Nat
  /\ MaxBackups \in Nat \ {0}
  /\ MaxDeletes \in Nat /\ MaxKills \in Nat

VARIABLES index,     \* index[b]: the status of row b in the index
          torn,      \* the index was truncated and not written: no row can be read
          dump,      \* dump[b]: the file b.dump.gz
          sidecar,   \* sidecar[b]: is b.dump.gz.sha256 there
          made,      \* calls of Create so far; b is made by the b-th
          work,      \* work[w]: what worker w does, and its step
          deletes, kills,
          dropped,   \* history: backups a Delete has begun to remove
          cut,       \* history: those removed while they were being made
          byHand,    \* history: those removed by an operator
          overlap,   \* history: two processes have made backups at once
          clash,     \* history: an index was written over another process's
          unsure     \* history: an index was written and its write reported as failed

files == <<dump, sidecar>>
counts == <<made, deletes, kills>>
history == <<dropped, cut, byHand, overlap, clash, unsure>>
vars == <<index, torn, files, counts, work, history>>

Backup == 1..MaxBackups
Index == [Backup -> {"none", "running", "ok", "failed"}]
Worker == Process \X {"create", "delete"}
NoRows == [b \in Backup |-> "none"]
NoIndex == [b \in {} |-> "none"]
Idle == [at |-> "idle", id |-> 0, drop |-> {}, view |-> NoIndex]

Holds(w) == work[w].view # NoIndex
MutexFree(w) == \A v \in Worker : v[1] = w[1] => ~Holds(v)
Rows(ix) == {b \in Backup : ix[b] # "none"}
Making(b) == \E w \in Worker : w[2] = "create" /\ work[w].id = b

TypeOK ==
  /\ index \in Index /\ torn \in BOOLEAN
  /\ dump \in [Backup -> {"none", "partial", "short", "whole"}]
  /\ sidecar \in [Backup -> BOOLEAN]
  /\ made \in 0..MaxBackups /\ deletes \in 0..MaxDeletes /\ kills \in 0..MaxKills
  /\ work \in [Worker ->
       [at : {"idle", "insert", "open", "dump", "hash", "sum", "ok", "failed",
              "list", "get", "file", "sidecar", "row"},
        id : 0..MaxBackups, drop : SUBSET Backup, view : Index \cup {NoIndex}]]
  /\ \A w, v \in Worker : w[1] = v[1] /\ Holds(w) /\ Holds(v) => w = v
  /\ \A w \in Worker : work[w].at \in {"get", "file", "sidecar", "row"} => work[w].drop # {}
  /\ byHand \subseteq dropped /\ cut \subseteq dropped /\ dropped \subseteq 1..made
  /\ overlap \in BOOLEAN /\ clash \in BOOLEAN /\ unsure \in BOOLEAN

Goto(w, at) == work' = [work EXCEPT ![w].at = at, ![w].view = NoIndex]

\* The backup that Delete is at, and the next one of a retention pass.
Target(w) == Max(work[w].drop)
NextDrop(w) ==
  LET rest == work[w].drop \ {Target(w)} IN
  work' = [work EXCEPT ![w] = IF rest = {} THEN Idle
             ELSE [@ EXCEPT !.at = "get", !.drop = rest, !.view = NoIndex]]

-----------------------------------------------------------------------------
(* The index.                                                              *)

IndexOps == {"insert", "ok", "failed", "row"}

\* What the operation of w makes of the index it has read.
Changed(w, ix) ==
  CASE work[w].at = "insert" -> [ix EXCEPT ![work[w].id] = "running"]
    [] work[w].at = "row"    -> [ix EXCEPT ![Target(w)] = "none"]
    [] OTHER                 -> [ix EXCEPT ![work[w].id] = work[w].at]

\* The row that an Update or a Delete is for.
Sought(w) == IF work[w].at = "row" THEN Target(w) ELSE work[w].id

IndexDone(w) ==
  CASE work[w].at = "insert" -> Goto(w, "open")
    [] work[w].at = "ok"     -> Goto(w, "list")
    [] work[w].at = "failed" -> work' = [work EXCEPT ![w] = Idle]
    [] work[w].at = "row"    -> NextDrop(w)

\* A failed update to ok is followed by one to failed, whose failure is ignored.
IndexFailed(w) ==
  CASE work[w].at = "ok"  -> Goto(w, "failed")
    [] work[w].at = "row" -> NextDrop(w)
    [] OTHER              -> work' = [work EXCEPT ![w] = Idle]

\* Bug variant of ReadIndex: the index is read before the mutex is taken.
ReadIndexUnlocked(w) ==
  /\ work[w].at \in IndexOps /\ ~Holds(w)
  /\ ~torn
  /\ work[w].at = "insert" \/ index[Sought(w)] # "none"
  /\ work' = [work EXCEPT ![w].view = index]
  /\ UNCHANGED <<index, torn, files, counts, history>>

\* The mutex is taken and the index read.
ReadIndex(w) ==
  /\ work[w].at \in IndexOps /\ MutexFree(w)
  /\ ~torn
  /\ work[w].at = "insert" \/ index[Sought(w)] # "none"
  /\ work' = [work EXCEPT ![w].view = index]
  /\ UNCHANGED <<index, torn, files, counts, history>>

\* There is no such row: Update fails, Delete is content.
RowMissing(w) ==
  /\ work[w].at \in IndexOps \ {"insert"} /\ MutexFree(w)
  /\ ~torn /\ index[Sought(w)] = "none"
  /\ IF work[w].at = "row" THEN NextDrop(w) ELSE IndexFailed(w)
  /\ UNCHANGED <<index, torn, files, counts, history>>

\* The index cannot be read, as it never can when it is torn.
ReadFails(w) ==
  /\ work[w].at \in IndexOps /\ MutexFree(w)
  /\ IndexFailed(w)
  /\ UNCHANGED <<index, torn, files, counts, history>>

\* The index is truncated and written, whatever has become of it meanwhile.
Written(w) ==
  /\ index' = Changed(w, work[w].view)
  /\ torn' = FALSE
  /\ clash' = (clash \/ torn \/ index # work[w].view)

\* It is truncated in place and not written: the rows are lost.
Torn == index' = NoRows /\ torn' = TRUE

WriteIndex(w) ==
  /\ Holds(w)
  /\ Written(w)
  /\ IndexDone(w)
  /\ UNCHANGED <<files, counts, dropped, cut, byHand, overlap, unsure>>

\* The index cannot be opened, or it is truncated and then not written, or it
\* is written and closing it fails.
WriteFails(w) ==
  /\ Holds(w)
  /\ \/ UNCHANGED <<index, torn, clash, unsure>>
     \/ Torn /\ UNCHANGED <<clash, unsure>>
     \/ Written(w) /\ unsure' = TRUE
  /\ IndexFailed(w)
  /\ UNCHANGED <<files, counts, dropped, cut, byHand, overlap>>

-----------------------------------------------------------------------------
(* Create.                                                                 *)

\* The panel serves several requests, the tool runs one command and ends.
Admits(w) == \A v \in Worker : v[1] = w[1] /\ (v = w \/ w[1] # Panel) => work[v].at = "idle"

\* TryLock: another Create of this process is refused meanwhile.
Create(w) ==
  /\ w[2] = "create" /\ Admits(w) /\ made < MaxBackups
  /\ made' = made + 1
  /\ work' = [work EXCEPT ![w].at = "insert", ![w].id = made + 1]
  /\ overlap' = (overlap \/ \E v \in Worker \ {w} : v[2] = "create" /\ work[v].at # "idle")
  /\ UNCHANGED <<index, torn, files, deletes, kills, dropped, cut, byHand, clash, unsure>>

\* runDumpToFile opens the file.
OpenDump(w) ==
  /\ work[w].at = "open"
  /\ \/ /\ dump' = [dump EXCEPT ![work[w].id] = "partial"]
        /\ Goto(w, "dump")
     \/ UNCHANGED dump /\ Goto(w, "failed")
  /\ UNCHANGED <<index, torn, sidecar, counts, history>>

\* Bug variant of DumpEnds: the exit status of pg_dump is not looked at.
DumpEndsUnchecked(w) ==
  /\ work[w].at = "dump"
  /\ dump' \in {dump, [dump EXCEPT ![work[w].id] = IF @ = "none" THEN @ ELSE "whole"]}
  /\ Goto(w, "hash")
  /\ UNCHANGED <<index, torn, sidecar, counts, history>>

\* pg_dump ends with success, or it fails, is cancelled or times out, and the
\* file is removed.  A file that was deleted meanwhile stays away.  After a
\* success the file is short when closing it failed, which is only logged.
DumpEnds(w) ==
  /\ work[w].at = "dump"
  /\ \/ /\ \E size \in {"short", "whole"} :
              dump' = [dump EXCEPT ![work[w].id] = IF @ = "none" THEN @ ELSE size]
        /\ Goto(w, "hash")
     \/ /\ dump' = [dump EXCEPT ![work[w].id] = "none"]
        /\ Goto(w, "failed")
  /\ UNCHANGED <<index, torn, sidecar, counts, history>>

\* The file is looked up and hashed; it is removed if that fails.
HashFile(w) ==
  /\ work[w].at = "hash"
  /\ \/ dump[work[w].id] # "none" /\ UNCHANGED dump /\ Goto(w, "sum")
     \/ /\ dump' = [dump EXCEPT ![work[w].id] = "none"]
        /\ Goto(w, "failed")
  /\ UNCHANGED <<index, torn, sidecar, counts, history>>

\* The sidecar is written; the dump is removed if that fails.
WriteSidecar(w) ==
  /\ work[w].at = "sum"
  /\ \/ /\ sidecar' = [sidecar EXCEPT ![work[w].id] = TRUE]
        /\ UNCHANGED dump
        /\ Goto(w, "ok")
     \/ /\ sidecar' \in {sidecar, [sidecar EXCEPT ![work[w].id] = TRUE]}
        /\ dump' = [dump EXCEPT ![work[w].id] = "none"]
        /\ Goto(w, "failed")
  /\ UNCHANGED <<index, torn, counts, history>>

-----------------------------------------------------------------------------
(* Cleanup and Delete.                                                     *)

\* Bug variant of Surplus: the rows in the order of the index file, which has
\* the oldest first.
SurplusOldestFirst(n) == {b \in Rows(index) : Cardinality({c \in Rows(index) : c < b}) >= n}

\* The rows behind the n newest ones, of whatever status.
Surplus(n) == {b \in Rows(index) : Cardinality({c \in Rows(index) : c > b}) >= n}

\* Cleanup, after a successful Create: the rows beyond MaxCount, and those
\* older than the retention period, all of which are older than the new one.
\* The tool has no retention policy.
Cleanup(w) ==
  /\ work[w].at = "list" /\ MutexFree(w)
  /\ \/ /\ ~torn
        /\ \E aged \in 0..work[w].id - 1 :
             LET drop == IF w[1] # Panel THEN {}
                         ELSE (IF MaxCount > 0 THEN Surplus(MaxCount) ELSE {})
                              \cup {b \in Rows(index) : b <= aged}
             IN work' = [work EXCEPT ![w] = IF drop = {} THEN Idle
                           ELSE [Idle EXCEPT !.at = "get", !.drop = drop]]
     \/ work' = [work EXCEPT ![w] = Idle]      \* the index cannot be read
  /\ UNCHANGED <<index, torn, files, counts, history>>

\* DELETE /backups/{id} or `aegis-pg-backup delete <id>`.
Delete(w) ==
  /\ w[2] = "delete" /\ Admits(w) /\ deletes < MaxDeletes
  /\ deletes' = deletes + 1
  /\ \E b \in 1..made : work' = [work EXCEPT ![w].at = "get", ![w].drop = {b}]
  /\ UNCHANGED <<index, torn, files, made, kills, history>>

\* The row is looked up; nothing is left to do without one.
GetRow(w) ==
  /\ work[w].at = "get" /\ MutexFree(w)
  /\ LET b == Target(w) IN
     \/ /\ ~torn /\ index[b] # "none"
        /\ Goto(w, "file")
        /\ dropped' = dropped \cup {b}
        /\ cut' = IF Making(b) THEN cut \cup {b} ELSE cut
        /\ byHand' = IF w[2] = "delete" THEN byHand \cup {b} ELSE byHand
     \/ NextDrop(w) /\ UNCHANGED <<dropped, cut, byHand>>
  /\ UNCHANGED <<index, torn, files, counts, overlap, clash, unsure>>

\* Bug variant of RemoveDump: a dump that cannot be removed is passed over.
RemoveDumpIfPossible(w) ==
  /\ work[w].at = "file"
  /\ dump' \in {dump, [dump EXCEPT ![Target(w)] = "none"]}
  /\ Goto(w, "sidecar")
  /\ UNCHANGED <<index, torn, sidecar, counts, history>>

\* The dump is removed; if that fails, all else stays.
RemoveDump(w) ==
  /\ work[w].at = "file"
  /\ \/ /\ dump' = [dump EXCEPT ![Target(w)] = "none"]
        /\ Goto(w, "sidecar")
     \/ UNCHANGED dump /\ NextDrop(w)
  /\ UNCHANGED <<index, torn, sidecar, counts, history>>

\* Then the sidecar, and after it the row.
RemoveSidecar(w) ==
  /\ work[w].at = "sidecar"
  /\ \/ /\ sidecar' = [sidecar EXCEPT ![Target(w)] = FALSE]
        /\ Goto(w, "row")
     \/ UNCHANGED sidecar /\ NextDrop(w)
  /\ UNCHANGED <<index, torn, dump, counts, history>>

-----------------------------------------------------------------------------
\* Process p is killed: its files stay as they are, and the index is torn if it
\* was being written.
Kill(p) ==
  LET mine == {w \in Worker : w[1] = p} IN
  /\ kills < MaxKills
  /\ kills' = kills + 1
  /\ \/ UNCHANGED <<index, torn>>
     \/ (\E w \in mine : Holds(w)) /\ Torn
  /\ work' = [w \in Worker |-> IF w \in mine THEN Idle ELSE work[w]]
  /\ UNCHANGED <<files, made, deletes, history>>

Init ==
  /\ index = NoRows /\ torn = FALSE
  /\ dump = [b \in Backup |-> "none"] /\ sidecar = [b \in Backup |-> FALSE]
  /\ made = 0 /\ deletes = 0 /\ kills = 0
  /\ work = [w \in Worker |-> Idle]
  /\ dropped = {} /\ cut = {} /\ byHand = {}
  /\ overlap = FALSE /\ clash = FALSE /\ unsure = FALSE

Step(w) ==
  \/ ReadIndex(w) \/ RowMissing(w) \/ ReadFails(w) \/ WriteIndex(w) \/ WriteFails(w)
  \/ OpenDump(w) \/ DumpEnds(w) \/ HashFile(w) \/ WriteSidecar(w)
  \/ Cleanup(w) \/ GetRow(w) \/ RemoveDump(w) \/ RemoveSidecar(w)

Next ==
  \/ \E w \in Worker : Create(w) \/ Delete(w) \/ Step(w)
  \/ \E p \in Process : Kill(p)

Spec == Init /\ [][Next]_vars

-----------------------------------------------------------------------------
\* A backup listed as ok has its dump and the checksum beside it, for as long
\* as no one has begun to remove it: the output of pg_dump to its end, but for
\* what an error in closing the file, which Create passes over, has cut off.
OkIsRestorable ==
  \A b \in Backup \ dropped :
    index[b] = "ok" => dump[b] \in {"short", "whole"} /\ sidecar[b]

\* Every file has a row, by which it can be found and deleted, whatever step
\* fails and whoever is killed, but in three cases.  A kill or a failure while
\* the index is written, in place, tears it: then no file has a row.  An index
\* written over that of the other process, or over a torn one, may lack rows.
\* And a backup removed while it is being made leaves files without one.
FilesAreListed ==
  torn \/ clash \/ \A b \in Backup \ cut : dump[b] # "none" \/ sidecar[b] => index[b] # "none"

\* Retention leaves a good backup: with one on the list, there is one until an
\* operator removes it, although failed backups count towards the limit.  Only
\* a backup made by two processes at once is not safe from that, nor one whose
\* index is torn, written over, or written by a write that reports an error.
Good == {b \in Backup \ dropped : index[b] = "ok"}
GoodIsKept ==
  [][Good # {} /\ ~overlap' /\ ~clash' /\ ~torn' /\ ~unsure' /\ byHand' = {} => Good' # {}]_vars
=============================================================================
