------------------------------ MODULE Migrator ------------------------------
(***************************************************************************)
(* internal/migrations: Up, which every boot of the panel and `aegis       *)
(* migrate up` run, and Down, which rolls one file back.  Nothing keeps    *)
(* two of them from running at once on one database.                       *)
(*                                                                         *)
(* A file stands for what its Up section creates.  The effect of an open   *)
(* transaction is private to it until its commit; a second transaction     *)
(* that touches the same file's tables waits for the first, or fails.      *)
(***************************************************************************)
EXTENDS Integers

CONSTANTS File,         \* the files, in lexical order
          Embedded,     \* the files built into the binary
          Recreating,   \* files whose Up drops their tables before creating them
          Tolerant,     \* files whose Up says IF NOT EXISTS throughout
          Committing,   \* files whose Down section ends with a COMMIT of its own
          OneWay,       \* files without a Down section
          Runner,       \* panels that boot and runs of `aegis migrate`
          MaxRuns       \* bound: calls of Up and Down

ASSUME FileAssumption ==
  /\ File \subseteq Nat
  /\ Embedded \subseteq File /\ Recreating \subseteq File /\ Tolerant \subseteq File
  /\ Committing \subseteq File /\ OneWay \subseteq File \ (Committing \cup Recreating)
ASSUME RunsAssumption == MaxRuns \in Nat

VARIABLES schema,     \* the files whose tables exist
          recorded,   \* the names in schema_migrations
          dir,        \* the files in the mounted directory
          job,        \* job[p]: the call process p is in, and its step
          runs,       \* calls so far
          halved,     \* history: files whose Down has committed its body and
                      \* then stopped, or met an Up, before the journal's DELETE
          crossed,    \* history: files recorded while another Up meant to run them
          lost        \* history: files whose rows an Up has dropped

migrateVars == <<schema, recorded, dir, job, runs, halved, crossed, lost>>

NoCall == [at |-> "idle", todo |-> {}, file |-> 0, undone |-> {}]

Job ==
  [at : {"idle", "list", "next", "record", "commit", "unrecord", "settle", "ok"},
   todo : SUBSET File, file : File \cup {0}, undone : SUBSET File]

MigrateTypeOK ==
  /\ schema \subseteq File /\ recorded \subseteq File /\ dir \subseteq File
  /\ job \in [Runner -> Job]
  /\ runs \in 0..MaxRuns
  /\ halved \subseteq File /\ crossed \subseteq File /\ lost \subseteq File

MigrateInit ==
  /\ schema = {} /\ recorded = {}
  /\ dir \in SUBSET File
  /\ job = [p \in Runner |-> NoCall]
  /\ runs = 0
  /\ halved = {} /\ crossed = {} /\ lost = {}

\* Bug variant of Complete: any mounted directory with a file in it will do.
AnyMount(d) == TRUE

\* resolveSource: a mounted directory must hold every embedded file.
Complete(d) == Embedded \subseteq d

Source(d) == IF d = {} THEN Embedded ELSE d

\* The process whose open transaction has changed the tables of file f.
Touches(p, f) ==
  /\ job[p].file = f
  /\ \/ job[p].at \in {"record", "commit"}
     \/ job[p].at \in {"unrecord", "settle"} /\ f \notin Committing

\* Process p is between the two halves of a Down that has committed its own body.
Halfway(p, f) == job[p].at = "unrecord" /\ job[p].file = f /\ f \in Committing

Free(f) == \A p \in Runner : ~Touches(p, f)

-----------------------------------------------------------------------------
\* Up starts: it picks its source, or refuses, and makes sure of the journal.
BeginUp(p) ==
  /\ job[p].at = "idle" /\ runs < MaxRuns
  /\ dir = {} \/ Complete(dir)
  /\ runs' = runs + 1
  /\ job' = [job EXCEPT ![p] = [NoCall EXCEPT !.at = "list", !.todo = Source(dir)]]
  /\ UNCHANGED <<schema, recorded, dir, halved, crossed, lost>>

\* Bug variant of Unapplied: the journal is not consulted.
UnappliedAll(names) == names

\* The files of a source that are not in the journal.
Unapplied(names) == names \ recorded

\* appliedMigrations: the journal is read once, before the first file.
ReadApplied(p) ==
  /\ job[p].at = "list"
  /\ job' = [job EXCEPT ![p].at = "next", ![p].todo = Unapplied(job[p].todo)]
  /\ UNCHANGED <<schema, recorded, dir, runs, halved, crossed, lost>>

\* applyOne: the body of the next file runs in a transaction that stays open.
\* It fails, which Stop covers, if the tables exist and the file does not allow it.
ApplyUp(p) ==
  /\ job[p].at = "next"
  /\ \E f \in job[p].todo :
       /\ \A g \in job[p].todo : f <= g
       /\ Free(f)
       /\ f \in schema => f \in Recreating \cup Tolerant
       /\ job' = [job EXCEPT ![p].at = "record", ![p].file = f]
  /\ UNCHANGED <<schema, recorded, dir, runs, halved, crossed, lost>>

\* The tables of file f become visible: for a Down between its two halves this
\* comes too late.
TablesOf(f) ==
  /\ schema' = schema \cup {f}
  /\ lost' = IF f \in schema \cap Recreating THEN lost \cup {f} ELSE lost
  /\ halved' = IF \E q \in Runner : Halfway(q, f)
               THEN halved \cup {f} ELSE halved

\* The journal row of file f, and the other runs that still mean to apply it.
RowOf(p, f) ==
  /\ recorded' = recorded \cup {f}
  /\ crossed' = IF \E q \in Runner \ {p} : f \in job[q].todo /\ job[q].at # "list"
                THEN crossed \cup {f} ELSE crossed

\* Bug variant of RecordUp: the body is committed on its own, as before v0.8.32.2.
RecordUpAfterCommit(p) ==
  /\ job[p].at = "record"
  /\ TablesOf(job[p].file)
  /\ job' = [job EXCEPT ![p].at = "commit"]
  /\ UNCHANGED <<recorded, dir, runs, crossed>>

\* recordMigrationInTx: INSERT ... ON CONFLICT DO NOTHING in the same transaction.
RecordUp(p) ==
  /\ job[p].at = "record"
  /\ job' = [job EXCEPT ![p].at = "commit"]
  /\ UNCHANGED <<schema, recorded, dir, runs, halved, crossed, lost>>

\* Commit: the tables and their journal row appear together.
CommitUp(p) ==
  /\ job[p].at = "commit"
  /\ LET f == job[p].file IN
       /\ TablesOf(f) /\ RowOf(p, f)
       /\ job' = [job EXCEPT ![p].at = "next", ![p].todo = @ \ {f}, ![p].file = 0]
  /\ UNCHANGED <<dir, runs>>

\* Up returns nil and the panel goes on booting.
UpReturns(p) ==
  /\ job[p].at = "next" /\ job[p].todo = {}
  /\ job' = [job EXCEPT ![p].at = "ok"]
  /\ UNCHANGED <<schema, recorded, dir, runs, halved, crossed, lost>>

Leave(p) ==
  /\ job[p].at = "ok"
  /\ job' = [job EXCEPT ![p] = NoCall]
  /\ UNCHANGED <<schema, recorded, dir, runs, halved, crossed, lost>>

-----------------------------------------------------------------------------
\* Down: the Down section of a file of the directory runs in a transaction; a
\* COMMIT at its end makes the change visible there and then, and what follows
\* runs outside of any transaction.  A file without the section changes nothing.
ApplyDown(p) ==
  /\ job[p].at = "idle" /\ runs < MaxRuns
  /\ runs' = runs + 1
  /\ \E f \in dir :
       /\ Free(f)
       /\ schema' = IF f \in Committing THEN schema \ {f} ELSE schema
       /\ job' = [job EXCEPT ![p] = [NoCall EXCEPT !.at = "unrecord", !.file = f]]
  /\ UNCHANGED <<recorded, dir, halved, crossed, lost>>

\* Every run in progress misses file f from now on.
Undo(j, f) ==
  [p \in Runner |-> IF j[p].at = "idle" THEN j[p] ELSE [j[p] EXCEPT !.undone = @ \cup {f}]]

\* unrecordMigrationInTx: outside a transaction its DELETE takes effect at once.
Unrecord(p) ==
  /\ job[p].at = "unrecord"
  /\ LET f == job[p].file IN
       IF f \in Committing
       THEN /\ recorded' = recorded \ {f}
            /\ job' = Undo([job EXCEPT ![p].at = "settle"], f)
       ELSE /\ job' = [job EXCEPT ![p].at = "settle"]
            /\ UNCHANGED recorded
  /\ UNCHANGED <<schema, dir, runs, halved, crossed, lost>>

\* The last Commit of Down: with the transaction already over it does nothing.
CommitDown(p) ==
  /\ job[p].at = "settle"
  /\ LET f == job[p].file IN
       IF f \in Committing
       THEN /\ job' = [job EXCEPT ![p] = NoCall]
            /\ UNCHANGED <<schema, recorded>>
       ELSE /\ schema' = IF f \in OneWay THEN schema ELSE schema \ {f}
            /\ recorded' = recorded \ {f}
            /\ job' = Undo([job EXCEPT ![p] = NoCall], f)
  /\ UNCHANGED <<dir, runs, halved, crossed, lost>>

-----------------------------------------------------------------------------
\* A statement fails, or the process or its connection dies: an open
\* transaction is rolled back, and what was committed stays.
Stop(p) ==
  /\ job[p].at \notin {"idle", "ok"}
  /\ job' = [job EXCEPT ![p] = NoCall]
  /\ halved' = halved \cup {f \in File : Halfway(p, f)}
  /\ UNCHANGED <<schema, recorded, dir, runs, crossed, lost>>

\* The operator copies a file into the mounted directory.
CopyFile ==
  /\ \E f \in File \ dir : dir' = dir \cup {f}
  /\ UNCHANGED <<schema, recorded, job, runs, halved, crossed, lost>>

MigrateNext ==
  \/ \E p \in Runner :
       \/ BeginUp(p) \/ ReadApplied(p) \/ ApplyUp(p) \/ RecordUp(p) \/ CommitUp(p)
       \/ UpReturns(p) \/ Leave(p)
       \/ ApplyDown(p) \/ Unrecord(p) \/ CommitDown(p)
       \/ Stop(p)
  \/ CopyFile

MigrateSpec == MigrateInit /\ [][MigrateNext]_migrateVars

-----------------------------------------------------------------------------
\* The journal says what the schema is: a file is recorded exactly if its tables
\* exist.  A Down whose body ends with COMMIT leaves a gap before the journal's
\* DELETE, which a crash or a concurrent Up makes permanent (halved), and a file
\* without a Down section is unrecorded with its tables in place.
JournalMatches ==
  \A f \in File \ halved :
    (\A p \in Runner : ~Halfway(p, f)) =>
      /\ f \in recorded => f \in schema
      /\ f \in schema \ OneWay => f \in recorded

\* When Up returns to a booting panel, every file built into the binary has its
\* tables, whatever the mounted directory holds, but for those a Down has taken:
\* one that removed them since this Up began (undone), one that is between its
\* body and the journal's DELETE, and one that stopped or met an Up there
\* (halved), so that the journal vouches for tables that are gone.
UpIsComplete ==
  \A p \in Runner : job[p].at = "ok" =>
    \A f \in Embedded \ (halved \cup job[p].undone) :
      f \in schema \/ \E q \in Runner : Halfway(q, f)

\* No run of Up drops the rows of tables that an earlier run created, unless
\* two runs overlapped, or a Down left the journal behind the schema.
NoRowsLost == lost \subseteq crossed \cup halved
=============================================================================
