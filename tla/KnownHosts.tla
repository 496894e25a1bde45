------------------------------ MODULE KnownHosts ------------------------------
(***************************************************************************)
(* The panel's known_hosts file, which the jobs on every node share, and   *)
(* the trust on first use that appends to it.                              *)
(*                                                                         *)
(* An append reads the whole file, writes it with one more line to a       *)
(* temporary file and renames that over the old one, without a lock: of    *)
(* two that overlap, the later rename drops the line of the earlier.  The  *)
(* line names the address the connection went to, while a lookup uses the  *)
(* address the panel dialled; they differ when a node has a host name.     *)
(***************************************************************************)
EXTENDS Naturals, FiniteSets

CONSTANT Writers    \* who may append: jobs on our node, and one on another

VARIABLES
    known,  \* the lines of the file
    draft   \* draft[w]: what w has read, with its line, and not yet renamed; or {}

knownVars == <<known, draft>>

\* Our node's key under its IP address and under its host name; another's line.
Lines == {"ip", "name", "other"}

NoDraft == [w \in Writers |-> {}]

\* EnsureKnownHosts at boot leaves a file that exists as it is: it may be
\* empty, or hold what an operator put there for the address dialled.
InitKnown(dialled) ==
    /\ known \in {{}, {dialled}}
    /\ draft = NoDraft

\* hostKeyCallback: a line of the file is enough; without one the policy
\* decides: TofuReject refuses, and accept-and-append takes a key the request
\* pinned, that is, whose fingerprint it gave rightly.
HostKeyAccepted(dialled, pinned) == dialled \in known \/ pinned

\* Connect goes on to appendKnownHosts only for a key it took on first use.
FirstUse(dialled) == dialled \notin known

\* appendKnownHosts reads the file and adds its line ...
ReadKnown(w, line) ==
    /\ draft' = [draft EXCEPT ![w] = known \cup {line}]
    /\ UNCHANGED known

\* ... and renames the result over it, or fails, which is only logged.
WriteKnown(w, done) ==
    /\ known' = IF done THEN draft[w] ELSE known
    /\ draft' = [draft EXCEPT ![w] = {}]

\* Another append has read the file and not yet replaced it.
Overlaps(w) == \E v \in Writers \ {w} : draft[v] # {}
=============================================================================
