------------------------- MODULE NodeProvisioningProofs -------------------------
(* Proofs about the jobs on one node, for any number of processes, jobs and      *)
(* failures: an online node answers the bearer of its row, the stored key opens  *)
(* the node, and a rotation of the transport stays, outside the named races.     *)
EXTENDS NodeProvisioning, TLAPS

-----------------------------------------------------------------------------
(* Types.                                                                  *)

LEMMA Numbers ==
  /\ MaxMints \in Nat /\ MaxOps \in Nat /\ MaxFaults \in Nat
  /\ None \in Tokens /\ Tokens \subseteq 0..Garbage /\ Garbage \notin Tokens
  /\ None \in 0..Garbage /\ Garbage \in 0..Garbage /\ Garbage # None
  BY BoundsAssumption DEF None, Tokens, Garbage

\* What else a job is, besides its type: its kind goes with its place, only a
\* provision pins a host key, and it carries its bearer until the row has it.
Fits(j) ==
  /\ j.pc = "idle" => j.kind = "none"
  /\ j.pc \in {"read_known", "write_known", "upload_agent", "write_env", "restart", "verify"}
        => j.kind = "provision"
  /\ j.pc \in {"persist", "upload", "append"} => j.kind \in {"provision", "rotate"}
  /\ j.pc = "connect" => j.kind \in {"provision", "rotate", "refresh"}
  /\ j.pc = "read_env" => j.kind = "refresh"
  /\ j.pc = "set_bearer" => j.kind \in {"provision", "refresh"}
  /\ j.pc \in {"read_row", "write_row"} => j.kind \in {"provision", "update"}
  /\ j.pc \in {"recheck", "set_transport"} => j.kind = "transport"
  /\ j.kind = "provision" /\ j.pc \in {"read_row", "write_row"} => j.target # "keep"
  /\ j.pc = "write_row" => j.target # "keep"
  /\ j.kind = "provision" /\ j.pc \notin {"read_row", "write_row"} => j.bearer # None
  /\ j.kind # "provision" => ~j.pinned

Jobs == {j \in Job : Fits(j)}

Types == TypeOK /\ job \in [Procs -> Jobs]

Recovery == [Idle EXCEPT !.pc = "read_row", !.kind = "provision", !.target = "offline"]

LEMMA JobRecords ==
  /\ Idle \in Jobs /\ Recovery \in Jobs
  /\ \A j \in Jobs : AfterFailure(j) \in Jobs
  <1>1. Idle \in Jobs /\ Recovery \in Jobs
    BY Numbers DEF Idle, Recovery, Job, Places, Seals, NodeStates, Transports, Jobs, Fits
  <1>2. \A j \in Jobs : AfterFailure(j) \in Jobs
    BY <1>1 DEF AfterFailure, Recovery
  <1> QED
    BY <1>1, <1>2

LEMMA ContinueTypes ==
  ASSUME Types, NEW p \in Procs, NEW ok \in BOOLEAN, NEW j, ok => j \in Jobs,
         Continue(p, ok, j)
  PROVE  job' \in [Procs -> Jobs] /\ faults' \in 0..MaxFaults
  <1>1. AfterFailure(job[p]) \in Jobs
    BY JobRecords DEF Types
  <1>2. job' \in [Procs -> Jobs]
    BY <1>1 DEF Types, Continue
  <1>3. faults' \in 0..MaxFaults
    BY Numbers DEF Types, TypeOK, Continue, Fault
  <1> QED
    BY <1>2, <1>3

LEMMA JobsAreTyped == [Procs -> Jobs] \subseteq [Procs -> Job]
  BY DEF Jobs

\* A job that begins as j.
LEMMA BeginTypes ==
  ASSUME Types, NEW p \in Procs, NEW j \in Jobs, Begin(p, j), minted' \in Tokens
  PROVE  Types'
  <1>1. job' \in [Procs -> Jobs] /\ ops' \in 0..MaxOps
    BY Numbers DEF Types, TypeOK, Begin
  <1>2. races' \subseteq {"pairing", "transport", "unreported"}
    BY DEF Types, TypeOK, Begin
  <1> QED
    BY <1>1, <1>2, JobsAreTyped DEF Types, TypeOK, Begin, hostVars, nodeVars, keyVars

\* Every job begins at one of three places; a provision, on a node that is new
\* or offline.
Begins(p) ==
  /\ minted' \in Tokens
  /\ \E j \in Jobs :
        /\ Begin(p, j)
        /\ j.pc \in {"connect", "read_row", "recheck"}
        /\ j.kind = "provision" => j.pc = "connect" /\ row.state \in {"new", "offline"}

LEMMA Starts ==
  ASSUME Types, NEW p \in Procs, Start(p)
  PROVE  Begins(p)
  <1>a. row \in NodeRow /\ minted \in Tokens
    BY DEF Types, TypeOK
  <1>b. row.stored \in Tokens /\ (minted < MaxMints => minted + 1 \in Tokens \ {None})
    BY <1>a, Numbers DEF NodeRow, Tokens, None
  <1>1. ASSUME NEW r \in ProvisionRequests, BeginProvision(p, r) PROVE Begins(p)
    <2> DEFINE j == [Idle EXCEPT !.pc = "connect", !.kind = "provision", !.pinned = r.pinned,
                       !.auth = IF row.stored # None THEN "stored" ELSE r.auth,
                       !.had = row.stored, !.bearer = minted + 1]
    <2>1. minted + 1 \in Tokens \ {None} /\ minted' = minted + 1 /\ Begin(p, j)
      BY <1>1, <1>b DEF BeginProvision
    <2>2. row.state \in {"new", "offline"} /\ r.pinned \in BOOLEAN /\ r.auth \in {"password", "key"}
      BY <1>1 DEF BeginProvision, ProvisionRequests
    <2>3. Idle \in Job /\ "connect" \in Places
      BY JobRecords DEF Jobs, Places
    <2>4. PICK auth \in {"operator", "password", "key", "stored"} :
             auth = IF row.stored # None THEN "stored" ELSE r.auth
      BY <2>2
    <2>5. /\ j = [Idle EXCEPT !.pc = "connect", !.kind = "provision", !.pinned = r.pinned,
                     !.auth = auth, !.had = row.stored, !.bearer = minted + 1]
      BY <2>4
    <2> HIDE DEF j
    <2>6. j \in Job /\ j.pc = "connect" /\ j.kind = "provision" /\ j.bearer = minted + 1
      BY <1>b, <2>1, <2>2, <2>3, <2>5 DEF Job
    <2>7. Fits(j)
      BY <2>1, <2>6 DEF Fits
    <2> QED
      BY <2>1, <2>2, <2>6, <2>7 DEF Begins, Jobs
  <1>2. ASSUME NEW cli \in BOOLEAN, NEW seal \in Seals 
        PROVE /\ RotateJob(cli, seal) \in Jobs
              /\ RotateJob(cli, seal).pc = "connect" /\ RotateJob(cli, seal).kind = "rotate"
    BY <1>b, Numbers DEF RotateJob, Idle, Job, Places, Seals, NodeStates, Transports, Jobs, Fits
  <1>3. CASE BeginRotate(p)
    <2>1. Begin(p, RotateJob(FALSE, "age")) /\ minted' = minted /\ "age" \in Seals
      BY <1>3 DEF BeginRotate, Seals
    <2> QED
      BY <2>1, <1>a, <1>2 DEF Begins
  <1>4. ASSUME NEW seal \in Seals, BeginRotateCLI(p, seal) PROVE Begins(p)
    <2>1. Begin(p, RotateJob(TRUE, seal)) /\ minted' = minted
      BY <1>4 DEF BeginRotateCLI
    <2> QED
      BY <2>1, <1>a, <1>2 DEF Begins
  <1>5. CASE BeginRefresh(p)
    <2>1. RefreshJob \in Jobs /\ RefreshJob.pc = "connect" /\ RefreshJob.kind = "refresh"
      BY <1>b, Numbers
         DEF RefreshJob, Idle, Job, Places, Seals, NodeStates, Transports, Jobs, Fits
    <2>2. Begin(p, RefreshJob) /\ minted' = minted
      BY <1>5 DEF BeginRefresh
    <2> QED
      BY <2>1, <2>2, <1>a DEF Begins
  <1>6. ASSUME NEW target \in Targets, BeginUpdate(p, target) PROVE Begins(p)
    <2> DEFINE j == [Idle EXCEPT !.pc = "read_row", !.kind = "update", !.target = target]
    <2>1. j \in Jobs /\ j.pc = "read_row" /\ j.kind = "update"
      BY TargetsAssumption, Numbers
         DEF Idle, Job, Places, Seals, NodeStates, Transports, Jobs, Fits
    <2>2. Begin(p, j) /\ minted' = minted
      BY <1>6 DEF BeginUpdate
    <2> HIDE DEF j
    <2> QED
      BY <2>1, <2>2, <1>a DEF Begins
  <1>7. ASSUME NEW t \in Transports, BeginTransport(p, t) PROVE Begins(p)
    <2> DEFINE j == [Idle EXCEPT !.pc = "recheck", !.kind = "transport", !.cli = TRUE,
                       !.transport = t]
    <2>1. j \in Jobs /\ j.pc = "recheck" /\ j.kind = "transport"
      BY Numbers DEF Idle, Job, Places, Seals, NodeStates, Transports, Jobs, Fits
    <2>2. Begin(p, j) /\ minted' = minted
      BY <1>7 DEF BeginTransport
    <2> HIDE DEF j
    <2> QED
      BY <2>1, <2>2, <1>a DEF Begins
  <1> QED
    BY <1>1, <1>3, <1>4, <1>5, <1>6, <1>7 DEF Start

LEMMA StartTypes ==
  ASSUME Types, NEW p \in Procs, Start(p)
  PROVE  Types'
  <1>1. minted' \in Tokens
    BY Starts DEF Begins
  <1>2. PICK j \in Jobs : Begin(p, j)
    BY Starts DEF Begins
  <1> QED
    BY <1>1, <1>2, BeginTypes

-----------------------------------------------------------------------------
\* The steps of a job, up to the restart of the agent.
LEMMA InstallTypes ==
  ASSUME Types, NEW p \in Procs,
         \/ LearnRead(p)
         \/ \E done \in BOOLEAN : LearnWrite(p, done)
         \/ \E ok \in BOOLEAN : Connect(p, ok) \/ UploadAgent(p, ok)
         \/ \E content \in 0..MaxMints, ok \in BOOLEAN : WriteEnv(p, content, ok)
         \/ \E done, ok \in BOOLEAN : RestartUnit(p, done, ok)
  PROVE  Types'
  <1>t. TypeOK /\ p \in Writers /\ job[p] \in Jobs /\ job \in [Procs -> Jobs]
    BY WritersAssumption DEF Types
  <1>1. CASE LearnRead(p)
    <2>1. job' \in [Procs -> Jobs]
      <3>1. [job[p] EXCEPT !.pc = "write_known"] \in Jobs
        BY <1>1, <1>t DEF LearnRead, At, Jobs, Job, Fits, Places
      <3> QED
        BY <1>1, <1>t, <3>1 DEF LearnRead
    <2>2. draft' \in [Writers -> SUBSET Lines] /\ known' = known
      BY <1>1, <1>t DEF LearnRead, ReadKnown, TypeOK, Lines
    <2> QED
      BY <1>1, <1>t, <2>1, <2>2, JobsAreTyped DEF Types, TypeOK, LearnRead, nodeVars, keyVars
  <1>2. ASSUME NEW done \in BOOLEAN, LearnWrite(p, done) PROVE Types'
    <2>1. job' \in [Procs -> Jobs]
      <3>1. [job[p] EXCEPT !.pc = "upload_agent"] \in Jobs
        BY <1>2, <1>t DEF LearnWrite, At, Jobs, Job, Fits, Places
      <3> QED
        BY <1>2, <1>t, <3>1 DEF LearnWrite
    <2>2. draft' \in [Writers -> SUBSET Lines] /\ known' \subseteq Lines
      BY <1>2, <1>t DEF LearnWrite, WriteKnown, TypeOK
    <2>3. faults' \in 0..MaxFaults
      BY <1>2, <1>t, Numbers DEF LearnWrite, Fault, TypeOK
    <2> QED
      BY <1>2, <1>t, <2>1, <2>2, <2>3, JobsAreTyped
         DEF Types, TypeOK, LearnWrite, nodeVars, keyVars
  <1>3. ASSUME NEW ok \in BOOLEAN, Connect(p, ok) PROVE Types'
    <2> DEFINE next == [provision |-> IF FirstUse(site.dialled) THEN "read_known"
                                                                ELSE "upload_agent",
                        rotate |-> "persist", refresh |-> "read_env"]
               j == [To(p, next[job[p].kind]) EXCEPT !.pinned = FALSE, !.had = None]
    <2>1. j \in Jobs
      <3>1. job[p].kind \in {"provision", "rotate", "refresh"} /\ job[p].pc = "connect"
        BY <1>3, <1>t DEF Connect, At, Jobs, Fits
      <3>2. /\ next[job[p].kind] \in Places
            /\ job[p].kind = "provision" => next[job[p].kind] \in {"read_known", "upload_agent"}
            /\ job[p].kind = "rotate" => next[job[p].kind] = "persist"
            /\ job[p].kind = "refresh" => next[job[p].kind] = "read_env"
        BY <3>1 DEF Places
      <3> HIDE DEF next
      <3> QED
        BY <3>1, <3>2, <1>t, Numbers DEF To, Jobs, Job, Fits
    <2>2. job' \in [Procs -> Jobs] /\ faults' \in 0..MaxFaults
      <3>1. CASE Continue(p, ok, j)
        <4> HIDE DEF j
        <4> QED
          BY <3>1, <2>1, ContinueTypes
      <3>2. CASE job' = [job EXCEPT ![p] = AfterFailure(job[p])] /\ faults' = faults
        BY <3>2, <1>t, JobRecords DEF TypeOK
      <3> HIDE DEF j
      <3> QED
        BY <1>3, <3>1, <3>2 DEF Connect, j
    <2> QED
      BY <1>3, <1>t, <2>2, JobsAreTyped DEF Types, TypeOK, Connect, hostVars, nodeVars, keyVars
  <1>4. ASSUME NEW ok \in BOOLEAN, UploadAgent(p, ok) PROVE Types'
    <2>1. To(p, "write_env") \in Jobs
      BY <1>4, <1>t DEF UploadAgent, At, To, Jobs, Job, Fits, Places
    <2>2. job' \in [Procs -> Jobs] /\ faults' \in 0..MaxFaults
      BY <1>4, <2>1, ContinueTypes DEF UploadAgent
    <2> QED
      BY <1>4, <1>t, <2>2, JobsAreTyped
         DEF Types, TypeOK, UploadAgent, hostVars, nodeVars, keyVars, history
  <1>5. ASSUME NEW content \in 0..MaxMints, NEW ok \in BOOLEAN, WriteEnv(p, content, ok)
        PROVE Types'
    <2>1. To(p, "restart") \in Jobs
      BY <1>5, <1>t DEF WriteEnv, At, To, Jobs, Job, Fits, Places
    <2>2. job' \in [Procs -> Jobs] /\ faults' \in 0..MaxFaults
      <3>1. CASE Continue(p, ok, To(p, "restart"))
        BY <3>1, <2>1, ContinueTypes
      <3>2. CASE Fault /\ job' = [job EXCEPT ![p].pc = "restart"]
        BY <3>2, <1>t, <2>1, Numbers DEF To, Fault, TypeOK
      <3> QED
        BY <1>5, <3>1, <3>2 DEF WriteEnv
    <2>3. races' \subseteq {"pairing", "transport", "unreported"} /\ env' \in Tokens
      BY <1>5, <1>t DEF WriteEnv, TypeOK, Tokens
    <2> QED
      BY <1>5, <1>t, <2>2, <2>3, JobsAreTyped DEF Types, TypeOK, WriteEnv, hostVars, keyVars
  <1>6. ASSUME NEW done \in BOOLEAN, NEW ok \in BOOLEAN, RestartUnit(p, done, ok) PROVE Types'
    <2> DEFINE pc == IF job[p].auth = "password" /\ site.envelope THEN "persist" ELSE "verify"
               j == [To(p, pc) EXCEPT !.auth = "operator"]
    <2>1. j \in Jobs
      <3>1. pc \in {"persist", "verify"} /\ job[p].pc = "restart"
        BY <1>6 DEF RestartUnit, At
      <3> HIDE DEF pc
      <3> QED
        BY <1>t, <3>1 DEF To, Jobs, Job, Fits, Places
    <2>2. Continue(p, ok, j)
      BY <1>6 DEF RestartUnit
    <2> HIDE DEF j
    <2>3. job' \in [Procs -> Jobs] /\ faults' \in 0..MaxFaults
      BY <2>1, <2>2, ContinueTypes
    <2>4. agent' \in Tokens /\ unit' \in BOOLEAN
      BY <1>6, <1>t DEF RestartUnit, TypeOK
    <2> QED
      BY <1>6, <1>t, <2>3, <2>4, JobsAreTyped
         DEF Types, TypeOK, RestartUnit, hostVars, keyVars, history
  <1> QED
    BY <1>1, <1>2, <1>3, <1>4, <1>5, <1>6

\* The push of a key, which a provision ends with verify and a rotation with
\* nothing more, and the steps that write and read the bearer.
LEMMA PushTypes ==
  ASSUME Types, NEW p \in Procs,
         \/ \E content \in 0..Garbage, ok \in BOOLEAN : UploadKey(p, content, ok)
         \/ \E done, ok \in BOOLEAN : \/ PersistKey(p, done, ok)
                                      \/ AppendKey(p, done, ok)
                                      \/ SetBearer(p, done, ok)
         \/ \E ok \in BOOLEAN : Verify(p, ok) \/ ReadEnv(p, ok)
  PROVE  Types'
  <1>t. TypeOK /\ job[p] \in Jobs /\ job \in [Procs -> Jobs]
    BY DEF Types
  <1>1. ASSUME NEW content \in 0..Garbage, NEW ok \in BOOLEAN, UploadKey(p, content, ok)
        PROVE Types'
    <2>1. [To(p, "append") EXCEPT !.key = None] \in Jobs
      BY <1>1, <1>t, Numbers DEF UploadKey, At, To, Jobs, Job, Fits, Places
    <2>2. job' \in [Procs -> Jobs] /\ faults' \in 0..MaxFaults
      BY <1>1, <2>1, ContinueTypes DEF UploadKey
    <2>3. pubfile' \in 0..Garbage /\ keyTrouble' \subseteq {"broken", "overlap", "glued", "hosts", "sealed"}
      BY <1>1, <1>t DEF UploadKey, TypeOK
    <2> QED
      BY <1>1, <1>t, <2>2, <2>3, JobsAreTyped
         DEF Types, TypeOK, UploadKey, hostVars, nodeVars
  <1>2. ASSUME NEW done \in BOOLEAN, NEW ok \in BOOLEAN, PersistKey(p, done, ok) PROVE Types'
    <2>0. minted + 1 \in Tokens /\ minted' \in Tokens
      BY <1>2, <1>t, Numbers DEF PersistKey, TypeOK, Tokens
    <2>1. [To(p, "upload") EXCEPT !.key = minted + 1] \in Jobs
      BY <1>2, <1>t, <2>0 DEF PersistKey, At, To, Jobs, Job, Fits, Places
    <2>2. job' \in [Procs -> Jobs] /\ faults' \in 0..MaxFaults
      BY <1>2, <2>1, ContinueTypes DEF PersistKey
    <2>3. row' \in NodeRow
      BY <1>2, <1>t, <2>0 DEF PersistKey, TypeOK, NodeRow, Jobs, Job
    <2>4. keyTrouble' \subseteq {"broken", "overlap", "glued", "hosts", "sealed"}
      BY <1>2, <1>t DEF PersistKey, TypeOK
    <2> QED
      BY <1>2, <1>t, <2>0, <2>2, <2>3, <2>4, JobsAreTyped
         DEF Types, TypeOK, PersistKey, hostVars, nodeVars, keyVars
  <1>3. ASSUME NEW done \in BOOLEAN, NEW ok \in BOOLEAN, AppendKey(p, done, ok) PROVE Types'
    <2> DEFINE j == IF job[p].kind = "rotate" THEN Idle ELSE To(p, "verify")
    <2>1. j \in Jobs
      BY <1>3, <1>t, JobRecords DEF AppendKey, At, To, Jobs, Job, Fits, Places
    <2>2. Continue(p, ok, j)
      BY <1>3 DEF AppendKey
    <2> HIDE DEF j
    <2>3. job' \in [Procs -> Jobs] /\ faults' \in 0..MaxFaults
      BY <2>1, <2>2, ContinueTypes
    <2>4. pubfile' \in 0..Garbage /\ keyTrouble' \subseteq {"broken", "overlap", "glued", "hosts", "sealed"}
      BY <1>3, <1>t, Numbers DEF AppendKey, TypeOK
    <2>5. authorised' \subseteq 1..MaxMints /\ openLine' \in 0..Garbage
      <3>1. CASE Append(pubfile) /\ pubfile # None
        <4>1. {pubfile} \ {Garbage} \subseteq 1..MaxMints
          BY <3>1, <1>t, Numbers DEF TypeOK, Garbage, None
        <4> QED
          BY <3>1, <4>1, <1>t, Numbers DEF Append, TypeOK
      <3> QED
        BY <1>3, <1>t, <3>1 DEF AppendKey, TypeOK
    <2> QED
      BY <1>3, <1>t, <2>3, <2>4, <2>5, JobsAreTyped
         DEF Types, TypeOK, AppendKey, hostVars, nodeVars
  <1>4. ASSUME NEW done \in BOOLEAN, NEW ok \in BOOLEAN, SetBearer(p, done, ok) PROVE Types'
    <2> DEFINE j == IF job[p].kind = "provision"
                    THEN [To(p, "read_row") EXCEPT !.target = "online", !.bearer = None]
                    ELSE Idle
    <2>1. j \in Jobs
      <3>1. job[p].pc = "set_bearer"
        BY <1>4 DEF SetBearer, At
      <3>2. CASE job[p].kind = "provision"
        <4>0. /\ job[p] \in Job /\ "read_row" \in Places
              /\ "online" \in NodeStates /\ None \in Tokens
          BY <1>t, Numbers DEF Jobs, Places, NodeStates
        <4>1. [To(p, "read_row") EXCEPT !.target = "online", !.bearer = None] \in Job
          BY <4>0 DEF To, Job
        <4>2. Fits([To(p, "read_row") EXCEPT !.target = "online", !.bearer = None])
          BY <1>t, <3>1, <3>2 DEF To, Jobs, Job, Fits
        <4> QED
          BY <3>2, <4>1, <4>2 DEF Jobs
      <3> QED
        BY <3>2, JobRecords
    <2>2. Continue(p, ok, j)
      BY <1>4 DEF SetBearer
    <2> HIDE DEF j
    <2>3. job' \in [Procs -> Jobs] /\ faults' \in 0..MaxFaults
      BY <2>1, <2>2, ContinueTypes
    <2>4. row' \in NodeRow
      BY <1>4, <1>t DEF SetBearer, TypeOK, NodeRow, Jobs, Job
    <2> QED
      BY <1>4, <1>t, <2>3, <2>4, JobsAreTyped
         DEF Types, TypeOK, SetBearer, hostVars, nodeVars, keyVars, history
  <1>5. ASSUME NEW ok \in BOOLEAN, Verify(p, ok) PROVE Types'
    <2>1. To(p, "set_bearer") \in Jobs
      BY <1>5, <1>t DEF Verify, At, To, Jobs, Job, Fits, Places
    <2>2. job' \in [Procs -> Jobs] /\ faults' \in 0..MaxFaults
      BY <1>5, <2>1, ContinueTypes DEF Verify
    <2> QED
      BY <1>5, <1>t, <2>2, JobsAreTyped
         DEF Types, TypeOK, Verify, hostVars, nodeVars, keyVars, history
  <1>6. ASSUME NEW ok \in BOOLEAN, ReadEnv(p, ok) PROVE Types'
    <2>1. [To(p, "set_bearer") EXCEPT !.bearer = env] \in Jobs
      BY <1>6, <1>t DEF ReadEnv, At, To, Jobs, Job, Fits, Places, TypeOK
    <2>2. job' \in [Procs -> Jobs] /\ faults' \in 0..MaxFaults
      <3>1. CASE Continue(p, ok, [To(p, "set_bearer") EXCEPT !.bearer = env])
        BY <3>1, <2>1, ContinueTypes
      <3>2. CASE job' = [job EXCEPT ![p] = Idle] /\ faults' = faults
        BY <3>2, <1>t, JobRecords DEF TypeOK
      <3> QED
        BY <1>6, <3>1, <3>2 DEF ReadEnv
    <2> QED
      BY <1>6, <1>t, <2>2, JobsAreTyped
         DEF Types, TypeOK, ReadEnv, hostVars, nodeVars, keyVars, history
  <1> QED
    BY <1>1, <1>2, <1>3, <1>4, <1>5, <1>6

\* The steps on the row.
LEMMA RowTypes ==
  ASSUME Types, NEW p \in Procs,
         \/ \E ok \in BOOLEAN : ReadRow(p, ok) \/ Recheck(p, ok)
         \/ \E done, ok \in BOOLEAN : WriteRow(p, done, ok) \/ SetTransport(p, done, ok)
  PROVE  Types'
  <1>t. TypeOK /\ job[p] \in Jobs /\ job \in [Procs -> Jobs] /\ row \in NodeRow
    BY DEF Types, TypeOK
  <1>1. ASSUME NEW ok \in BOOLEAN, ReadRow(p, ok) PROVE Types'
    <2> DEFINE j == Patched(To(p, "write_row"))
    <2>1. ok => j \in Jobs
      <3> SUFFICES ASSUME ok PROVE j \in Jobs
        OBVIOUS
      <3>1. job[p].pc = "read_row" /\ row.state \in NodeStates /\ row.transport \in Transports
        BY <1>1, <1>t DEF ReadRow, At, NodeRow
      <3>2. j = [job[p] EXCEPT !.pc = "write_row",
                     !.target = IF job[p].target = "keep" THEN row.state ELSE job[p].target,
                     !.transport = row.transport]
        BY <1>t DEF Patched, To, Jobs, Job
      <3>3. PICK target \in NodeStates : j = [job[p] EXCEPT !.pc = "write_row", !.target = target,
                                                 !.transport = row.transport]
        BY <3>1, <3>2, <1>t DEF Jobs, Job
      <3>4a. target # "keep" /\ "write_row" \in Places
        BY DEF NodeStates, Places
      <3>4b. job[p] \in Job
        BY <1>t DEF Jobs
      <3>4c. j \in Job
        BY <3>1, <3>3, <3>4a, <3>4b DEF Job
      <3>4. j \in Job /\ target # "keep"
        BY <3>4a, <3>4c
      <3>5. Fits(j)
        BY <3>1, <3>3, <3>4, <1>t DEF Jobs, Job, Fits
      <3> HIDE DEF j
      <3> QED
        BY <3>4, <3>5 DEF Jobs
    <2>2. Continue(p, ok, j)
      BY <1>1 DEF ReadRow
    <2> HIDE DEF j
    <2>3. job' \in [Procs -> Jobs] /\ faults' \in 0..MaxFaults
      BY <2>1, <2>2, ContinueTypes
    <2> QED
      BY <1>1, <1>t, <2>3, JobsAreTyped
         DEF Types, TypeOK, ReadRow, hostVars, nodeVars, keyVars, history
  <1>2. ASSUME NEW ok \in BOOLEAN, Recheck(p, ok) PROVE Types'
    <2> DEFINE j == IF row.transport = job[p].transport THEN Idle ELSE To(p, "set_transport")
    <2>1. j \in Jobs
      BY <1>2, <1>t, JobRecords DEF Recheck, At, To, Jobs, Job, Fits, Places
    <2>2. Continue(p, ok, j)
      BY <1>2 DEF Recheck
    <2> HIDE DEF j
    <2>3. job' \in [Procs -> Jobs] /\ faults' \in 0..MaxFaults
      BY <2>1, <2>2, ContinueTypes
    <2> QED
      BY <1>2, <1>t, <2>3, JobsAreTyped
         DEF Types, TypeOK, Recheck, hostVars, nodeVars, keyVars, history
  <1>3. ASSUME NEW done \in BOOLEAN, NEW ok \in BOOLEAN, WriteRow(p, done, ok) PROVE Types'
    <2>1. job' \in [Procs -> Jobs] /\ faults' \in 0..MaxFaults
      BY <1>3, JobRecords, ContinueTypes DEF WriteRow
    <2>2. row' \in NodeRow
      <3>1. job[p].target \in NodeStates /\ job[p].transport \in Transports
        BY <1>3, <1>t DEF WriteRow, At, Jobs, Job, Fits
      <3> QED
        BY <1>3, <1>t, <3>1 DEF WriteRow, NodeRow
    <2>3. forced' \in BOOLEAN
      BY <1>3, <1>t DEF WriteRow, TypeOK
    <2> QED
      BY <1>3, <1>t, <2>1, <2>2, <2>3, JobsAreTyped
         DEF Types, TypeOK, WriteRow, hostVars, nodeVars, keyVars
  <1>4. ASSUME NEW done \in BOOLEAN, NEW ok \in BOOLEAN, SetTransport(p, done, ok) PROVE Types'
    <2>1. job' \in [Procs -> Jobs] /\ faults' \in 0..MaxFaults
      BY <1>4, JobRecords, ContinueTypes DEF SetTransport
    <2>2. row' \in NodeRow /\ intent' \in Transports
      <3>1. job[p].transport \in Transports
        BY <1>t DEF Jobs, Job
      <3> QED
        BY <1>4, <1>t, <3>1 DEF SetTransport, NodeRow, TypeOK
    <2>3. races' \subseteq {"pairing", "transport", "unreported"}
      BY <1>4, <1>t DEF SetTransport, TypeOK
    <2> QED
      BY <1>4, <1>t, <2>1, <2>2, <2>3, JobsAreTyped
         DEF Types, TypeOK, SetTransport, hostVars, nodeVars, keyVars
  <1> QED
    BY <1>1, <1>2, <1>3, <1>4

LEMMA StepTypes ==
  ASSUME Types, NEW p \in Procs, Step(p)
  PROVE  Types'
  BY InstallTypes, PushTypes, RowTypes DEF Step

\* What is no job's step on the node.
LEMMA OtherTypes ==
  ASSUME Types,
         \/ Delete \/ AgentRestart \/ ElsewhereReads \/ ElsewhereWrites
         \/ \E dead \in Procs \cup {"panel"} : Crash(dead)
  PROVE  Types'
  <1>t. TypeOK /\ job \in [Procs -> Jobs] /\ Elsewhere \in Writers
    BY WritersAssumption DEF Types
  <1>1. CASE Delete
    <2>1. row' \in NodeRow /\ ops' \in 0..MaxOps
      BY <1>1, <1>t, Numbers DEF Delete, TypeOK, NodeRow
    <2> QED
      BY <1>1, <1>t, <2>1 DEF Types, TypeOK, Delete, hostVars, nodeVars, keyVars, history
  <1>2. CASE AgentRestart
    BY <1>2, <1>t DEF Types, TypeOK, AgentRestart, hostVars, keyVars, history
  <1>3. CASE ElsewhereReads
    <2>1. draft' \in [Writers -> SUBSET Lines] /\ known' = known
      BY <1>3, <1>t DEF ElsewhereReads, ReadKnown, TypeOK, Lines
    <2>2. ops' \in 0..MaxOps
      BY <1>3, <1>t, Numbers DEF ElsewhereReads, TypeOK
    <2> QED
      BY <1>3, <1>t, <2>1, <2>2 DEF Types, TypeOK, ElsewhereReads, nodeVars, keyVars
  <1>4. CASE ElsewhereWrites
    <2>1. draft' \in [Writers -> SUBSET Lines] /\ known' \subseteq Lines
      BY <1>4, <1>t DEF ElsewhereWrites, WriteKnown, TypeOK
    <2> QED
      BY <1>4, <1>t, <2>1 DEF Types, TypeOK, ElsewhereWrites, nodeVars, keyVars, history
  <1>5. ASSUME NEW dead \in Procs \cup {"panel"}, Crash(dead) PROVE Types'
    <2>1. job' \in [Procs -> Jobs] /\ faults' \in 0..MaxFaults
      BY <1>5, <1>t, JobRecords, Numbers DEF Crash, Fault, TypeOK
    <2>2. draft' \in [Writers -> SUBSET Lines]
      BY <1>5, <1>t DEF Crash, TypeOK
    <2>3. keyTrouble' \subseteq {"broken", "overlap", "glued", "hosts", "sealed"}
      BY <1>5, <1>t DEF Crash, TypeOK
    <2> QED
      BY <1>5, <1>t, <2>1, <2>2, <2>3, JobsAreTyped DEF Types, TypeOK, Crash, nodeVars, keyVars
  <1> QED
    BY <1>1, <1>2, <1>3, <1>4, <1>5

LEMMA InitTypes == Init => Types
  <1> SUFFICES ASSUME Init PROVE Types
    OBVIOUS
  <1>1. job \in [Procs -> Jobs]
    BY JobRecords DEF Init
  <1>2. known \subseteq Lines /\ draft \in [Writers -> SUBSET Lines]
    BY DEF Init, InitKnown, NoDraft, Lines, Sites
  <1>3. row \in NodeRow
    BY Numbers DEF Init, NodeRow, NodeStates, Seals, Transports
  <1>4. minted \in Tokens /\ ops \in 0..MaxOps /\ faults \in 0..MaxFaults
    BY Numbers DEF Init, Tokens
  <1>5. env \in Tokens /\ agent \in Tokens /\ openLine \in 0..Garbage /\ pubfile \in 0..Garbage
    BY Numbers DEF Init
  <1>6. unit \in BOOLEAN /\ forced \in BOOLEAN /\ intent \in Transports
    BY DEF Init, Transports
  <1>7. /\ site \in Sites /\ authorised \subseteq 1..MaxMints
        /\ races \subseteq {"pairing", "transport", "unreported"}
        /\ keyTrouble \subseteq {"broken", "overlap", "glued", "hosts", "sealed"}
    BY DEF Init
  <1> QED
    BY <1>1, <1>2, <1>3, <1>4, <1>5, <1>6, <1>7, JobsAreTyped DEF Types, TypeOK

LEMMA NextTypes == Types /\ [Next]_vars => Types'
  <1> SUFFICES ASSUME Types, [Next]_vars PROVE Types'
    OBVIOUS
  <1>1. CASE UNCHANGED vars
    BY <1>1 DEF Types, TypeOK, vars, hostVars, nodeVars, keyVars, history
  <1> QED
    BY <1>1, StartTypes, StepTypes, OtherTypes DEF Next

\* The variables keep their types: among them, a job at write_row always has a
\* state to write, and known_hosts and authorized_keys hold whole lines.
THEOREM TypeCorrect == Spec => []TypeOK
  <1>1. Types => TypeOK
    BY DEF Types
  <1> QED
    BY <1>1, InitTypes, NextTypes, PTL DEF Spec

-----------------------------------------------------------------------------
(* The transport.  Every job about to write the row back holds the       *)
(* transport that the row has, until a rotation comes in between.        *)

Undisturbed ==
  "transport" \notin races =>
     /\ row.transport = intent
     /\ \A p \in Procs : At(p, "write_row") => job[p].transport = row.transport

\* A step that neither reads the row for writing nor writes its transport.
KeepsTransport ==
  /\ row'.transport = row.transport /\ intent' = intent
  /\ "transport" \in races => "transport" \in races'
  /\ \A p \in Procs : At(p, "write_row")' =>
        At(p, "write_row") /\ job'[p].transport = job[p].transport

LEMMA KeptUndisturbed ==
  ASSUME Undisturbed, KeepsTransport
  PROVE  Undisturbed'
  BY DEF Undisturbed, KeepsTransport, At

\* Nothing but ReadRow leads to write_row.
LEMMA NotToWriteRow ==
  ASSUME Types, NEW p \in Procs, NEW k, k.pc # "write_row",
         job' = [job EXCEPT ![p] = k],
         row'.transport = row.transport, intent' = intent, races \subseteq races'
  PROVE  KeepsTransport
  <1>1. \A q \in Procs : job'[q] = IF q = p THEN k ELSE job[q]
    BY DEF Types
  <1>2. \A q \in Procs : At(q, "write_row")' => job'[q] = job[q]
    BY <1>1 DEF At
  <1>3. \A q \in Procs : At(q, "write_row")' =>
          At(q, "write_row") /\ job'[q].transport = job[q].transport
    BY <1>2 DEF At
  <1> QED
    BY <1>3 DEF KeepsTransport

LEMMA ContinueKeepsTransport ==
  ASSUME Types, NEW p \in Procs, NEW ok \in BOOLEAN, NEW j, j.pc # "write_row",
         Continue(p, ok, j),
         row'.transport = row.transport, intent' = intent, races \subseteq races'
  PROVE  KeepsTransport
  <1>1. AfterFailure(job[p]).pc # "write_row"
    BY DEF AfterFailure, Idle
  <1> DEFINE k == IF ok THEN j ELSE AfterFailure(job[p])
  <1>2. job' = [job EXCEPT ![p] = k] /\ k.pc # "write_row"
    BY <1>1 DEF Continue
  <1> HIDE DEF k
  <1> QED
    BY <1>2, NotToWriteRow

LEMMA StartKeepsTransport ==
  ASSUME Types, NEW p \in Procs, Start(p)
  PROVE  KeepsTransport
  <1>1. PICK j \in Jobs : Begin(p, j) /\ j.pc \in {"connect", "read_row", "recheck"}
    BY Starts DEF Begins
  <1>2. job' = [job EXCEPT ![p] = j] /\ j.pc # "write_row"
    BY <1>1 DEF Begin
  <1>3. row'.transport = row.transport /\ intent' = intent /\ races \subseteq races'
    BY <1>1 DEF Begin
  <1> QED
    BY <1>2, <1>3, NotToWriteRow

\* A step of a job other than those three.
LEMMA StepKeepsTransport ==
  ASSUME Types, NEW p \in Procs, Step(p),
         \A ok \in BOOLEAN : ~ReadRow(p, ok),
         \A done, ok \in BOOLEAN : ~WriteRow(p, done, ok) /\ ~SetTransport(p, done, ok)
  PROVE  KeepsTransport
  <1>t. job \in [Procs -> Jobs] /\ job[p] \in Job /\ row \in NodeRow
    BY DEF Types, TypeOK
  <1>p. \A pc \in Places : To(p, pc).pc = pc /\ To(p, pc) \in Job
    BY <1>t DEF To, Job
  <1>i. Idle.pc # "write_row"
    BY DEF Idle
  <1>1. CASE LearnRead(p) \/ \E done \in BOOLEAN : LearnWrite(p, done)
    <2>1. PICK pc \in {"write_known", "upload_agent"} : job' = [job EXCEPT ![p] = To(p, pc)]
      BY <1>1 DEF LearnRead, LearnWrite, To
    <2>2. To(p, pc).pc # "write_row"
      BY <1>p, <2>1 DEF Places
    <2>3. row'.transport = row.transport /\ intent' = intent /\ races \subseteq races'
      BY <1>1 DEF LearnRead, LearnWrite
    <2> QED
      BY <2>1, <2>2, <2>3, NotToWriteRow
  <1>2. ASSUME NEW ok \in BOOLEAN, Connect(p, ok) PROVE KeepsTransport
    <2> DEFINE next == [provision |-> IF FirstUse(site.dialled) THEN "read_known"
                                                                ELSE "upload_agent",
                        rotate |-> "persist", refresh |-> "read_env"]
               j == [To(p, next[job[p].kind]) EXCEPT !.pinned = FALSE, !.had = None]
    <2>1. j.pc # "write_row"
      <3>1. next[job[p].kind] \in Places \ {"write_row"}
        BY <1>2, <1>t DEF Connect, At, Jobs, Fits, Places
      <3> HIDE DEF next
      <3> QED
        BY <1>p, <3>1 DEF Job
    <2>2. row'.transport = row.transport /\ intent' = intent /\ races \subseteq races'
      BY <1>2 DEF Connect
    <2>3. Continue(p, ok, j) \/ job' = [job EXCEPT ![p] = AfterFailure(job[p])]
      BY <1>2 DEF Connect
    <2>4. AfterFailure(job[p]).pc # "write_row"
      BY DEF AfterFailure, Idle
    <2> HIDE DEF j
    <2> QED
      BY <2>1, <2>2, <2>3, <2>4, NotToWriteRow, ContinueKeepsTransport
  <1>3. ASSUME NEW ok \in BOOLEAN, UploadAgent(p, ok) \/ Verify(p, ok)
        PROVE  KeepsTransport
    <2>1. PICK pc \in {"write_env", "set_bearer"} : Continue(p, ok, To(p, pc))
      BY <1>3 DEF UploadAgent, Verify
    <2>2. To(p, pc).pc # "write_row"
      BY <1>p, <2>1 DEF Places
    <2>3. row'.transport = row.transport /\ intent' = intent /\ races \subseteq races'
      BY <1>3 DEF UploadAgent, Verify, history
    <2> QED
      BY <2>1, <2>2, <2>3, ContinueKeepsTransport
  <1>4. ASSUME NEW ok \in BOOLEAN, Recheck(p, ok) PROVE KeepsTransport
    <2> DEFINE j == IF row.transport = job[p].transport THEN Idle ELSE To(p, "set_transport")
    <2>1. j.pc # "write_row"
      BY <1>p, <1>i DEF Places
    <2>2. Continue(p, ok, j)
      BY <1>4 DEF Recheck
    <2>3. row'.transport = row.transport /\ intent' = intent /\ races \subseteq races'
      BY <1>4 DEF Recheck, history
    <2> HIDE DEF j
    <2> QED
      BY <2>1, <2>2, <2>3, ContinueKeepsTransport
  <1>5. ASSUME NEW ok \in BOOLEAN, ReadEnv(p, ok) PROVE KeepsTransport
    <2> DEFINE j == [To(p, "set_bearer") EXCEPT !.bearer = env]
    <2>1. j.pc # "write_row"
      BY <1>p DEF Places, Job
    <2>2. Continue(p, ok, j) \/ job' = [job EXCEPT ![p] = Idle]
      BY <1>5 DEF ReadEnv
    <2>3. row'.transport = row.transport /\ intent' = intent /\ races \subseteq races'
      BY <1>5 DEF ReadEnv, history
    <2> HIDE DEF j
    <2> QED
      BY <1>i, <2>1, <2>2, <2>3, NotToWriteRow, ContinueKeepsTransport
  <1>6. ASSUME NEW content \in 0..MaxMints, NEW ok \in BOOLEAN, WriteEnv(p, content, ok)
        PROVE KeepsTransport
    <2>1. To(p, "restart").pc # "write_row"
      BY <1>p DEF Places
    <2>2. Continue(p, ok, To(p, "restart")) \/ job' = [job EXCEPT ![p] = To(p, "restart")]
      BY <1>6 DEF WriteEnv, To
    <2>3. row'.transport = row.transport /\ intent' = intent /\ races \subseteq races'
      BY <1>6 DEF WriteEnv
    <2> QED
      BY <2>1, <2>2, <2>3, NotToWriteRow, ContinueKeepsTransport
  <1>7. ASSUME NEW content \in 0..Garbage, NEW ok \in BOOLEAN, UploadKey(p, content, ok)
        PROVE KeepsTransport
    <2> DEFINE j == [To(p, "append") EXCEPT !.key = None]
    <2>1. j.pc # "write_row"
      BY <1>p DEF Places, Job
    <2>2. Continue(p, ok, j) /\ row' = row /\ intent' = intent /\ races' = races
      BY <1>7 DEF UploadKey
    <2> HIDE DEF j
    <2> QED
      BY <2>1, <2>2, ContinueKeepsTransport
  <1>8. ASSUME NEW done \in BOOLEAN, NEW ok \in BOOLEAN, RestartUnit(p, done, ok)
        PROVE KeepsTransport
    <2> DEFINE pc == IF job[p].auth = "password" /\ site.envelope THEN "persist" ELSE "verify"
               j == [To(p, pc) EXCEPT !.auth = "operator"]
    <2>1. j.pc # "write_row"
      <3>1. pc \in {"persist", "verify"}
        OBVIOUS
      <3> HIDE DEF pc
      <3> QED
        BY <1>p, <3>1 DEF Places, Job
    <2>2. Continue(p, ok, j) /\ row' = row /\ intent' = intent /\ races' = races
      BY <1>8 DEF RestartUnit, history
    <2> HIDE DEF j
    <2> QED
      BY <2>1, <2>2, ContinueKeepsTransport
  <1>9. ASSUME NEW done \in BOOLEAN, NEW ok \in BOOLEAN, PersistKey(p, done, ok)
        PROVE KeepsTransport
    <2> DEFINE j == [To(p, "upload") EXCEPT !.key = minted + 1]
    <2>1. j.pc # "write_row"
      BY <1>p DEF Places, Job
    <2>2. Continue(p, ok, j) /\ intent' = intent /\ races' = races
      BY <1>9 DEF PersistKey
    <2>3. row'.transport = row.transport
      BY <1>9, <1>t DEF PersistKey, NodeRow
    <2> HIDE DEF j
    <2> QED
      BY <2>1, <2>2, <2>3, ContinueKeepsTransport
  <1>10. ASSUME NEW done \in BOOLEAN, NEW ok \in BOOLEAN, AppendKey(p, done, ok)
         PROVE KeepsTransport
    <2> DEFINE j == IF job[p].kind = "rotate" THEN Idle ELSE To(p, "verify")
    <2>1. j.pc # "write_row"
      BY <1>p, <1>i DEF Places
    <2>2. Continue(p, ok, j) /\ row' = row /\ intent' = intent /\ races' = races
      BY <1>10 DEF AppendKey
    <2> HIDE DEF j
    <2> QED
      BY <2>1, <2>2, ContinueKeepsTransport
  <1>11. ASSUME NEW done \in BOOLEAN, NEW ok \in BOOLEAN, SetBearer(p, done, ok)
         PROVE KeepsTransport
    <2> DEFINE j == IF job[p].kind = "provision"
                    THEN [To(p, "read_row") EXCEPT !.target = "online", !.bearer = None]
                    ELSE Idle
    <2>1. j.pc # "write_row"
      BY <1>p, <1>i DEF Places, Job
    <2>2. Continue(p, ok, j) /\ intent' = intent /\ races' = races
      BY <1>11 DEF SetBearer, history
    <2>3. row'.transport = row.transport
      BY <1>11, <1>t DEF SetBearer, NodeRow
    <2> HIDE DEF j
    <2> QED
      BY <2>1, <2>2, <2>3, ContinueKeepsTransport
  <1> QED
    BY <1>1, <1>2, <1>3, <1>4, <1>5, <1>6, <1>7, <1>8, <1>9, <1>10, <1>11 DEF Step

LEMMA OtherKeepsTransport ==
  ASSUME Types,
         \/ Delete \/ AgentRestart \/ ElsewhereReads \/ ElsewhereWrites
         \/ \E dead \in Procs \cup {"panel"} : Crash(dead)
  PROVE  KeepsTransport
  <1>1. CASE Delete
    BY <1>1 DEF Delete, KeepsTransport, At, Types, TypeOK, NodeRow, history
  <1>2. CASE AgentRestart \/ ElsewhereReads \/ ElsewhereWrites
    BY <1>2 DEF AgentRestart, ElsewhereReads, ElsewhereWrites, KeepsTransport, At, history
  <1>3. ASSUME NEW dead \in Procs \cup {"panel"}, Crash(dead) PROVE KeepsTransport
    BY <1>3 DEF Crash, KeepsTransport, At, Idle
  <1> QED
    BY <1>1, <1>2, <1>3

LEMMA NextUndisturbed == Types /\ Undisturbed /\ [Next]_vars => Undisturbed'
  <1> SUFFICES ASSUME Types, Undisturbed, [Next]_vars PROVE Undisturbed'
    OBVIOUS
  <1>t. job \in [Procs -> Jobs] /\ row \in NodeRow
    BY DEF Types, TypeOK
  <1>1. ASSUME NEW p \in Procs, NEW ok \in BOOLEAN, ReadRow(p, ok) PROVE Undisturbed'
    <2> DEFINE j == IF ok THEN Patched(To(p, "write_row")) ELSE AfterFailure(job[p])
    <2>1. j.pc = "write_row" => j.transport = row.transport
      <3>1. Patched(To(p, "write_row")).transport = row.transport
        BY <1>t DEF Patched, To, Jobs, Job
      <3>2. AfterFailure(job[p]).pc # "write_row"
        BY DEF AfterFailure, Idle
      <3> QED
        BY <3>1, <3>2
    <2>2. job' = [job EXCEPT ![p] = j]
      BY <1>1 DEF ReadRow, Continue
    <2>3. row' = row /\ intent' = intent /\ races' = races
      BY <1>1 DEF ReadRow, history
    <2> HIDE DEF j
    <2>4. \A q \in Procs : job'[q] = IF q = p THEN j ELSE job[q]
      BY <2>2, <1>t
    <2> QED
      BY <2>1, <2>3, <2>4 DEF Undisturbed, At
  <1>2. ASSUME NEW p \in Procs, NEW done \in BOOLEAN, NEW ok \in BOOLEAN, WriteRow(p, done, ok)
        PROVE Undisturbed'
    <2>1. job' = [job EXCEPT ![p] = Idle]
      BY <1>2 DEF WriteRow, Continue, AfterFailure, At
    <2>2. "transport" \notin races => row'.transport = row.transport
      BY <1>2, <1>t DEF WriteRow, Undisturbed, NodeRow
    <2> QED
      BY <1>2, <2>1, <2>2, <1>t DEF WriteRow, Undisturbed, At, Idle
  <1>3. ASSUME NEW p \in Procs, NEW done \in BOOLEAN, NEW ok \in BOOLEAN,
               SetTransport(p, done, ok)
        PROVE Undisturbed'
    <2>1. job' = [job EXCEPT ![p] = Idle]
      BY <1>3, <1>t DEF SetTransport, Continue, AfterFailure, At, Jobs, Fits
    <2>2. CASE done
      BY <1>3, <2>1, <2>2, <1>t DEF SetTransport, Undisturbed, At, Idle, NodeRow
    <2>3. CASE ~done
      BY <1>3, <2>1, <2>3, <1>t DEF SetTransport, Undisturbed, At, Idle
    <2> QED
      BY <2>2, <2>3
  <1>4. CASE UNCHANGED vars
    BY <1>4 DEF Undisturbed, At, vars, history
  <1> QED
    BY <1>1, <1>2, <1>3, <1>4, KeptUndisturbed, StartKeepsTransport, StepKeepsTransport,
       OtherKeepsTransport DEF Next

\* The row keeps the transport last set by a rotation, whatever updates and
\* provisions write the row back whole, unless the rotation came between the
\* read and the write of one of them.
THEOREM RotationStays == Spec => []TransportKept
  <1>1. Init => Undisturbed
    BY DEF Init, Undisturbed, At, Idle
  <1>2. Undisturbed => TransportKept
    BY DEF Undisturbed, TransportKept
  <1> QED
    BY <1>1, <1>2, InitTypes, NextTypes, NextUndisturbed, PTL DEF Spec

-----------------------------------------------------------------------------
(* The bearers.  While no provision overlaps a job that touches the bearer *)
(* or the state, each place of a provision fixes how far the new bearer    *)
(* has come: into agent.env, into the agent, into the row.                 *)

Paired(j) ==
  /\ j.kind = "provision" => row.state # "online"
  /\ j.pc = "restart" => env = j.bearer
  /\ j.kind = "provision" /\ j.pc \in {"persist", "upload", "append", "verify", "set_bearer"}
        => env = j.bearer /\ agent = j.bearer
  /\ j.kind = "provision" /\ j.pc \in {"read_row", "write_row"} /\ j.target = "online"
        => row.bearer = env /\ agent = env /\ env # None
  /\ j.kind = "refresh" /\ j.pc = "set_bearer" => j.bearer = env /\ env # None

NoClash == \A p, q \in Procs : p # q => ~Clash(job[p].kind, job[q].kind)

Matched == row.state = "online" /\ ~forced => row.bearer = env /\ agent = env /\ env # None

Pairing == NoClash /\ Matched /\ \A p \in Procs : Paired(job[p])

Clean == races \subseteq {"transport"}

PairInv == Clean => Pairing

LEMMA FailedPair ==
  ASSUME NEW j, Paired(j)
  PROVE  Paired(AfterFailure(j)) /\ AfterFailure(j).kind \in {j.kind, "none"}
  BY DEF Paired, AfterFailure, Idle

LEMMA IdlePair == Paired(Idle) /\ Idle.kind = "none"
  BY DEF Paired, Idle

\* A job that goes on as k without touching the bearers or the state.
LEMMA PairStep ==
  ASSUME Types, PairInv, NEW p \in Procs, NEW k, job' = [job EXCEPT ![p] = k],
         Clean => k.kind \in {job[p].kind, "none"} /\ Paired(k),
         env' = env, agent' = agent, forced' = forced,
         row'.bearer = row.bearer, row'.state = row.state, races \subseteq races'
  PROVE  PairInv'
  <1> SUFFICES ASSUME Clean' PROVE Pairing'
    BY DEF PairInv
  <1>1. Clean /\ Pairing /\ Paired(k) /\ k.kind \in {job[p].kind, "none"}
    BY DEF PairInv, Clean
  <1>2. \A q \in Procs : job'[q] = IF q = p THEN k ELSE job[q]
    BY DEF Types
  <1>3. \A q \in Procs : Paired(job[q])'
    BY <1>1, <1>2 DEF Pairing, Paired
  <1>4. NoClash'
    <2>1. \A q \in Procs : job'[q].kind \in {job[q].kind, "none"}
      BY <1>1, <1>2
    <2> QED
      BY <1>1, <2>1 DEF Pairing, NoClash, Clash
  <1>5. Matched'
    BY <1>1 DEF Pairing, Matched
  <1> QED
    BY <1>3, <1>4, <1>5 DEF Pairing

LEMMA PairContinue ==
  ASSUME Types, PairInv, NEW p \in Procs, NEW ok \in BOOLEAN, NEW j, Continue(p, ok, j),
         Clean => j.kind \in {job[p].kind, "none"} /\ (ok => Paired(j)),
         env' = env, agent' = agent, forced' = forced,
         row'.bearer = row.bearer, row'.state = row.state, races \subseteq races'
  PROVE  PairInv'
  <1> DEFINE k == IF ok THEN j ELSE AfterFailure(job[p])
  <1>1. job' = [job EXCEPT ![p] = k]
    BY DEF Continue
  <1>2. Clean => Paired(job[p])
    BY DEF PairInv, Pairing
  <1>3. Clean => k.kind \in {job[p].kind, "none"} /\ Paired(k)
    BY <1>2, FailedPair
  <1> HIDE DEF k
  <1> QED
    BY <1>1, <1>3, PairStep

LEMMA StartPair ==
  ASSUME Types, PairInv, NEW p \in Procs, Start(p)
  PROVE  PairInv'
  <1> SUFFICES ASSUME Clean' PROVE Pairing'
    BY DEF PairInv
  <1>1. PICK j \in Jobs : /\ Begin(p, j)
                          /\ j.pc \in {"connect", "read_row", "recheck"}
                          /\ j.kind = "provision" =>
                               j.pc = "connect" /\ row.state \in {"new", "offline"}
    BY Starts DEF Begins
  <1>2. /\ races \subseteq races'
        /\ (\E q \in Procs : Clash(j.kind, job[q].kind)) => "pairing" \in races'
    BY <1>1 DEF Begin
  <1>3. Pairing /\ \A q \in Procs : ~Clash(j.kind, job[q].kind)
    BY <1>2 DEF PairInv, Clean
  <1>4. \A q \in Procs : job'[q] = IF q = p THEN j ELSE job[q]
    BY <1>1 DEF Begin, Types
  <1>5. row' = row /\ env' = env /\ agent' = agent /\ forced' = forced
    BY <1>1 DEF Begin, nodeVars
  <1>6. Paired(j)
    BY <1>1 DEF Paired
  <1>7. \A q \in Procs : Paired(job[q])'
    BY <1>3, <1>4, <1>5, <1>6 DEF Pairing, Paired
  <1>8. NoClash'
    BY <1>3, <1>4 DEF Pairing, NoClash, Clash
  <1>9. Matched'
    BY <1>3, <1>5 DEF Pairing, Matched
  <1> QED
    BY <1>7, <1>8, <1>9 DEF Pairing

\* A provision, or a refresh about to write the row, is alone with the pair.
LEMMA Alone ==
  ASSUME Types, Pairing, NEW p \in Procs, job[p].kind = "provision",
         NEW q \in Procs \ {p}
  PROVE  job[q].kind \notin {"provision", "refresh", "update"} /\ job[q].pc # "restart"
  <1>1. job[q].kind \notin {"provision", "refresh", "update"}
    BY DEF Pairing, NoClash, Clash
  <1>2. job[q] \in Jobs
    BY DEF Types
  <1> QED
    BY <1>1, <1>2 DEF Jobs, Fits

\* The steps of a provision on agent.env and on the agent.
LEMMA InstallPair ==
  ASSUME Types, PairInv, NEW p \in Procs,
         \/ \E content \in 0..MaxMints, ok \in BOOLEAN : WriteEnv(p, content, ok)
         \/ \E done, ok \in BOOLEAN : RestartUnit(p, done, ok)
  PROVE  PairInv'
  <1> SUFFICES ASSUME Clean' PROVE Pairing'
    BY DEF PairInv
  <1>t. job[p] \in Jobs /\ job[p] \in Job
    BY DEF Types, Jobs
  <1>1. races \subseteq races' /\ row' = row /\ forced' = forced
    BY DEF WriteEnv, RestartUnit, history
  <1>2. Pairing /\ Paired(job[p])
    BY <1>1 DEF PairInv, Clean, Pairing
  <1>3. job[p].kind = "provision"
    BY <1>t DEF WriteEnv, RestartUnit, At, Jobs, Fits
  <1>4. row.state # "online"
    BY <1>2, <1>3 DEF Paired
  <1>5. ASSUME NEW k, job' = [job EXCEPT ![p] = k], k.kind \in {"provision", "none"}, Paired(k)'
        PROVE  Pairing'
    <2>1. \A q \in Procs : job'[q] = IF q = p THEN k ELSE job[q]
      BY <1>5 DEF Types
    <2>2. \A q \in Procs \ {p} : Paired(job[q])'
      BY <1>2, <1>3, <2>1, Alone DEF Paired
    <2>3. NoClash'
      <3>1. \A q \in Procs : job'[q].kind \in {job[q].kind, "none"}
        BY <1>3, <1>5, <2>1
      <3> QED
        BY <1>2, <3>1 DEF Pairing, NoClash, Clash
    <2>4. Matched'
      BY <1>1, <1>4 DEF Matched
    <2>5. Paired(job[p])'
      BY <1>5, <2>1 DEF Paired
    <2> QED
      BY <2>2, <2>3, <2>4, <2>5 DEF Pairing
  <1>6. ASSUME NEW content \in 0..MaxMints, NEW ok \in BOOLEAN, WriteEnv(p, content, ok)
        PROVE Pairing'
    <2>1. ok => content = job[p].bearer
      <3>1. ok /\ content # job[p].bearer => "unreported" \in races'
        BY <1>6 DEF WriteEnv
      <3> QED
        BY <3>1 DEF Clean
    <2>2. job[p].pc = "write_env" /\ env' = content
      BY <1>6 DEF WriteEnv, At
    <2>3. CASE ok
      <3>1. job' = [job EXCEPT ![p] = To(p, "restart")]
        BY <1>6, <2>1, <2>3 DEF WriteEnv, Continue
      <3>2. /\ To(p, "restart").pc = "restart" /\ To(p, "restart").kind = "provision"
            /\ To(p, "restart").bearer = job[p].bearer
        BY <1>3, <1>t DEF To, Job
      <3>3. PICK k : k = To(p, "restart")
        OBVIOUS
      <3>4. Paired(k)'
        BY <1>1, <1>4, <2>1, <2>2, <2>3, <3>2, <3>3 DEF Paired
      <3> QED
        BY <1>5, <3>1, <3>2, <3>3, <3>4
    <2>4. CASE ~ok
      <3>1. job' = [job EXCEPT ![p] = Recovery]
        BY <1>3, <1>6, <2>2, <2>4 DEF WriteEnv, Continue, AfterFailure, Recovery
      <3>2. Recovery.kind = "provision" /\ Paired(Recovery)'
        BY <1>1, <1>4 DEF Paired, Recovery, Idle
      <3> HIDE DEF Recovery
      <3> QED
        BY <1>5, <3>1, <3>2
    <2> QED
      BY <2>3, <2>4
  <1>7. ASSUME NEW done \in BOOLEAN, NEW ok \in BOOLEAN, RestartUnit(p, done, ok)
        PROVE Pairing'
    <2>1. /\ job[p].pc = "restart" /\ env' = env /\ (ok => done)
          /\ agent' = IF done THEN env ELSE agent
      BY <1>7 DEF RestartUnit, At
    <2>2. env = job[p].bearer
      BY <1>2, <2>1 DEF Paired
    <2>3. CASE ok
      <3> DEFINE pc == IF job[p].auth = "password" /\ site.envelope THEN "persist" ELSE "verify"
                 j == [To(p, pc) EXCEPT !.auth = "operator"]
      <3>1. job' = [job EXCEPT ![p] = j]
        BY <1>7, <2>3 DEF RestartUnit, Continue
      <3>2. j.pc \in {"persist", "verify"} /\ j.kind = "provision" /\ j.bearer = job[p].bearer
        <4>1. pc \in {"persist", "verify"}
          OBVIOUS
        <4> HIDE DEF pc
        <4> QED
          BY <1>3, <1>t, <4>1 DEF To, Job
      <3> HIDE DEF j
      <3>3. PICK k : k = j
        OBVIOUS
      <3>4. Paired(k)'
        BY <1>1, <1>4, <2>1, <2>2, <2>3, <3>2, <3>3 DEF Paired
      <3> QED
        BY <1>5, <3>1, <3>2, <3>3, <3>4
    <2>4. CASE ~ok
      <3>1. job' = [job EXCEPT ![p] = Recovery]
        BY <1>3, <1>7, <2>1, <2>4 DEF RestartUnit, Continue, AfterFailure, Recovery
      <3>2. Recovery.kind = "provision" /\ Paired(Recovery)'
        BY <1>1, <1>4 DEF Paired, Recovery, Idle
      <3> HIDE DEF Recovery
      <3> QED
        BY <1>5, <3>1, <3>2
    <2> QED
      BY <2>3, <2>4
  <1> QED
    BY <1>6, <1>7

\* SetBearer, by a provision or a refresh, brings the row in step.
LEMMA SetBearerPair ==
  ASSUME Types, PairInv, NEW p \in Procs, NEW done \in BOOLEAN, NEW ok \in BOOLEAN,
         SetBearer(p, done, ok)
  PROVE  PairInv'
  <1> SUFFICES ASSUME Clean' PROVE Pairing'
    BY DEF PairInv
  <1>t. job[p] \in Jobs /\ job[p] \in Job /\ row \in NodeRow
    BY DEF Types, TypeOK, Jobs
  <1>1. races' = races /\ forced' = forced /\ env' = env /\ agent' = agent
    BY DEF SetBearer, history, nodeVars
  <1>2. Pairing /\ Paired(job[p])
    BY <1>1 DEF PairInv, Clean, Pairing
  <1>3. /\ job[p].pc = "set_bearer" /\ job[p].kind \in {"provision", "refresh"}
        /\ job[p].kind = "provision" => job[p].bearer # None
        /\ ok => done
    BY <1>t DEF SetBearer, At, Jobs, Fits
  <1>4. /\ job[p].bearer = env /\ env # None
        /\ job[p].kind = "provision" => agent = env /\ row.state # "online"
    BY <1>2, <1>3 DEF Paired
  <1>5. row'.state = row.state /\ row'.bearer = IF done THEN env ELSE row.bearer
    BY <1>t, <1>4 DEF SetBearer, NodeRow
  <1>6. ASSUME NEW k, job' = [job EXCEPT ![p] = k], k.kind \in {job[p].kind, "none"}, Paired(k)'
        PROVE  Pairing'
    <2>1. \A q \in Procs : job'[q] = IF q = p THEN k ELSE job[q]
      BY <1>6 DEF Types
    <2>2. \A q \in Procs \ {p} : job[q].kind # "provision"
      BY <1>2, <1>3 DEF Pairing, NoClash, Clash
    <2>3. \A q \in Procs \ {p} : Paired(job[q])'
      <3>1. \A q \in Procs \ {p} : Paired(job[q])
        BY <1>2 DEF Pairing
      <3> QED
        BY <1>1, <2>1, <2>2, <3>1 DEF Paired
    <2>4. NoClash'
      <3>1. \A q \in Procs : job'[q].kind \in {job[q].kind, "none"}
        BY <1>6, <2>1
      <3> QED
        BY <1>2, <3>1 DEF Pairing, NoClash, Clash
    <2>5. Matched'
      BY <1>1, <1>2, <1>5 DEF Pairing, Matched
    <2>6. Paired(job[p])'
      BY <1>6, <2>1 DEF Paired
    <2> QED
      BY <2>3, <2>4, <2>5, <2>6 DEF Pairing
  <1>7. CASE ok /\ job[p].kind = "provision"
    <2> DEFINE j == [To(p, "read_row") EXCEPT !.target = "online", !.bearer = None]
    <2>1. job' = [job EXCEPT ![p] = j]
      BY <1>7 DEF SetBearer, Continue
    <2>2. j.pc = "read_row" /\ j.kind = "provision"
      BY <1>7, <1>t DEF To, Job
    <2> HIDE DEF j
    <2>3. PICK k : k = j
      OBVIOUS
    <2>4. Paired(k)'
      BY <1>1, <1>3, <1>4, <1>5, <1>7, <2>2, <2>3 DEF Paired
    <2> QED
      BY <1>6, <1>7, <2>1, <2>2, <2>3, <2>4
  <1>8. CASE ~ok /\ job[p].kind = "provision"
    <2>1. job' = [job EXCEPT ![p] = Recovery]
      BY <1>3, <1>8 DEF SetBearer, Continue, AfterFailure, Recovery
    <2>2. Recovery.kind = "provision" /\ Paired(Recovery)'
      BY <1>4, <1>5, <1>8 DEF Paired, Recovery, Idle
    <2> HIDE DEF Recovery
    <2> QED
      BY <1>6, <1>8, <2>1, <2>2
  <1>9. CASE job[p].kind # "provision"
    <2>1. job' = [job EXCEPT ![p] = Idle]
      BY <1>9 DEF SetBearer, Continue, AfterFailure
    <2>2. Idle.kind = "none" /\ Paired(Idle)'
      BY DEF Paired, Idle
    <2> QED
      BY <1>6, <2>1, <2>2
  <1> QED
    BY <1>7, <1>8, <1>9

\* WriteRow, by a provision or an update, sets the state.
LEMMA WriteRowPair ==
  ASSUME Types, PairInv, NEW p \in Procs, NEW done \in BOOLEAN, NEW ok \in BOOLEAN,
         WriteRow(p, done, ok)
  PROVE  PairInv'
  <1> SUFFICES ASSUME Clean' PROVE Pairing'
    BY DEF PairInv
  <1>t. job[p] \in Jobs /\ job \in [Procs -> Jobs] /\ row \in NodeRow
    BY DEF Types, TypeOK
  <1>1. races' = races /\ env' = env /\ agent' = agent
    BY DEF WriteRow, nodeVars
  <1>2. Pairing /\ Paired(job[p])
    BY <1>1 DEF PairInv, Clean, Pairing
  <1>3. job[p].pc = "write_row" /\ job[p].kind \in {"provision", "update"}
    BY <1>t DEF WriteRow, At, Jobs, Fits
  <1>4. /\ row'.bearer = row.bearer
        /\ row'.state = IF done THEN job[p].target ELSE row.state
        /\ forced' = (forced \/ (job[p].kind = "update" /\ done
                                 /\ job[p].target = "online" /\ row.state # "online"))
    BY <1>t DEF WriteRow, NodeRow
  <1>5. \A q \in Procs : job'[q] = IF q = p THEN Idle ELSE job[q]
    BY <1>3, <1>t DEF WriteRow, Continue, AfterFailure
  <1>6. \A q \in Procs \ {p} : job[q].kind # "provision"
    BY <1>2, <1>3 DEF Pairing, NoClash, Clash
  <1>7. \A q \in Procs \ {p} : Paired(job[q])'
    <2>1. \A q \in Procs \ {p} : Paired(job[q])
      BY <1>2 DEF Pairing
    <2> QED
      BY <1>1, <1>4, <1>5, <1>6, <2>1 DEF Paired
  <1>8. Paired(job[p])'
    BY <1>5 DEF Paired, Idle
  <1>9. NoClash'
    BY <1>2, <1>5, IdlePair DEF Pairing, NoClash, Clash
  <1>10. Matched'
    <2>1. CASE job[p].kind = "provision"
      BY <1>1, <1>2, <1>3, <1>4, <2>1 DEF Pairing, Matched, Paired
    <2>2. CASE job[p].kind = "update"
      BY <1>1, <1>2, <1>4, <2>2 DEF Pairing, Matched
    <2> QED
      BY <1>3, <2>1, <2>2
  <1> QED
    BY <1>7, <1>8, <1>9, <1>10 DEF Pairing

\* The other steps of a job leave the pair alone.
LEMMA StepPair ==
  ASSUME Types, PairInv, NEW p \in Procs, Step(p)
  PROVE  PairInv'
  <1>t. job[p] \in Jobs /\ job[p] \in Job /\ row \in NodeRow
    BY DEF Types, TypeOK, Jobs
  <1>p. \A pc \in Places : /\ To(p, pc) \in Job /\ To(p, pc).pc = pc
                           /\ To(p, pc).kind = job[p].kind
                           /\ To(p, pc).bearer = job[p].bearer
                           /\ To(p, pc).target = job[p].target
    BY <1>t DEF To, Job
  <1>o. Clean => Paired(job[p])
    BY DEF PairInv, Pairing
  <1>i. Idle.kind = "none" /\ Paired(Idle)
    BY IdlePair
  <1>1. CASE LearnRead(p) \/ \E done \in BOOLEAN : LearnWrite(p, done)
    <2>1. PICK pc \in {"write_known", "upload_agent"} : job' = [job EXCEPT ![p] = To(p, pc)]
      BY <1>1 DEF LearnRead, LearnWrite, To
    <2>2. Clean => Paired(To(p, pc)) /\ To(p, pc).kind = job[p].kind
      BY <1>p, <1>o, <2>1 DEF Places, Paired
    <2>3. /\ env' = env /\ agent' = agent /\ forced' = forced /\ row' = row
          /\ races \subseteq races'
      BY <1>1 DEF LearnRead, LearnWrite, nodeVars
    <2> QED
      BY <2>1, <2>2, <2>3, PairStep
  <1>2. ASSUME NEW ok \in BOOLEAN, Connect(p, ok) PROVE PairInv'
    <2> DEFINE next == [provision |-> IF FirstUse(site.dialled) THEN "read_known"
                                                                ELSE "upload_agent",
                        rotate |-> "persist", refresh |-> "read_env"]
               j == [To(p, next[job[p].kind]) EXCEPT !.pinned = FALSE, !.had = None]
    <2>1. Clean => j.kind = job[p].kind /\ Paired(j)
      <3>1. job[p].kind \in {"provision", "rotate", "refresh"}
        BY <1>2, <1>t DEF Connect, At, Jobs, Fits
      <3>2. /\ next[job[p].kind] \in Places
            /\ job[p].kind = "provision" => next[job[p].kind] \in {"read_known", "upload_agent"}
            /\ job[p].kind = "rotate" => next[job[p].kind] = "persist"
            /\ job[p].kind = "refresh" => next[job[p].kind] = "read_env"
        BY <3>1 DEF Places
      <3> HIDE DEF next
      <3>3. j.pc = next[job[p].kind] /\ j.kind = job[p].kind
        BY <1>p, <3>2 DEF Job
      <3> HIDE DEF j
      <3> QED
        BY <1>o, <3>1, <3>2, <3>3 DEF Paired
    <2>2. /\ env' = env /\ agent' = agent /\ forced' = forced /\ row' = row /\ races' = races
          /\ \/ Continue(p, ok, j)
             \/ job' = [job EXCEPT ![p] = AfterFailure(job[p])]
      BY <1>2 DEF Connect, nodeVars
    <2>3. /\ Clean => Paired(AfterFailure(job[p]))
          /\ AfterFailure(job[p]).kind \in {job[p].kind, "none"}
      <3>1. AfterFailure(job[p]).kind \in {job[p].kind, "none"}
        BY DEF AfterFailure, Idle
      <3> QED
        BY <1>o, <3>1, FailedPair
    <2> HIDE DEF j
    <2> QED
      BY <2>1, <2>2, <2>3, PairStep, PairContinue
  <1>3. ASSUME NEW ok \in BOOLEAN, UploadAgent(p, ok) \/ Verify(p, ok) PROVE PairInv'
    <2>1. PICK pc \in {"write_env", "set_bearer"} :
             /\ Continue(p, ok, To(p, pc)) /\ job[p].kind = "provision"
             /\ pc = "set_bearer" => job[p].pc = "verify"
      BY <1>3, <1>t DEF UploadAgent, Verify, At, Jobs, Fits
    <2>2. Clean => Paired(To(p, pc)) /\ To(p, pc).kind = job[p].kind
      BY <1>p, <1>o, <2>1 DEF Places, Paired
    <2>3. /\ env' = env /\ agent' = agent /\ forced' = forced /\ row' = row /\ races' = races
      BY <1>3 DEF UploadAgent, Verify, nodeVars, history
    <2> QED
      BY <2>1, <2>2, <2>3, PairContinue
  <1>4. ASSUME NEW ok \in BOOLEAN, ReadEnv(p, ok) PROVE PairInv'
    <2> DEFINE j == [To(p, "set_bearer") EXCEPT !.bearer = env]
    <2>1. Clean => j.kind = job[p].kind /\ (Parses(env) => Paired(j))
      <3>1. j.kind = job[p].kind /\ j.bearer = env /\ job[p].kind = "refresh"
            /\ j.pc = "set_bearer"
        BY <1>4, <1>p, <1>t DEF ReadEnv, At, Jobs, Fits, Job, Places
      <3> HIDE DEF j
      <3> QED
        BY <3>1 DEF Paired, Parses
    <2>2. /\ env' = env /\ agent' = agent /\ forced' = forced /\ row' = row /\ races' = races
          /\ \/ Continue(p, ok, j) /\ Parses(env)
             \/ job' = [job EXCEPT ![p] = Idle]
      BY <1>4 DEF ReadEnv, nodeVars, history
    <2> HIDE DEF j
    <2> QED
      BY <1>i, <2>1, <2>2, PairStep, PairContinue
  <1>5. ASSUME NEW content \in 0..Garbage, NEW ok \in BOOLEAN, UploadKey(p, content, ok)
        PROVE PairInv'
    <2> DEFINE j == [To(p, "append") EXCEPT !.key = None]
    <2>1. Clean => j.kind = job[p].kind /\ Paired(j)
      <3>1. j.kind = job[p].kind /\ j.bearer = job[p].bearer /\ j.pc = "append"
            /\ job[p].pc = "upload" /\ job[p].kind \in {"provision", "rotate"}
        BY <1>5, <1>p, <1>t DEF UploadKey, At, Jobs, Fits, Job, Places
      <3> HIDE DEF j
      <3> QED
        BY <1>o, <3>1 DEF Paired
    <2>2. /\ env' = env /\ agent' = agent /\ forced' = forced /\ row' = row /\ races' = races
          /\ Continue(p, ok, j)
      BY <1>5 DEF UploadKey, nodeVars
    <2> HIDE DEF j
    <2> QED
      BY <2>1, <2>2, PairContinue
  <1>6. ASSUME NEW done \in BOOLEAN, NEW ok \in BOOLEAN, PersistKey(p, done, ok)
        PROVE PairInv'
    <2> DEFINE j == [To(p, "upload") EXCEPT !.key = minted + 1]
    <2>1. Clean => j.kind = job[p].kind /\ Paired(j)
      <3>1. j.kind = job[p].kind /\ j.bearer = job[p].bearer /\ j.pc = "upload"
            /\ job[p].pc = "persist" /\ job[p].kind \in {"provision", "rotate"}
        BY <1>6, <1>p, <1>t DEF PersistKey, At, Jobs, Fits, Job, Places
      <3> HIDE DEF j
      <3> QED
        BY <1>o, <3>1 DEF Paired
    <2>2. /\ env' = env /\ agent' = agent /\ forced' = forced /\ races' = races
          /\ Continue(p, ok, j)
      BY <1>6 DEF PersistKey, nodeVars
    <2>3. row'.bearer = row.bearer /\ row'.state = row.state
      BY <1>6, <1>t DEF PersistKey, NodeRow
    <2> HIDE DEF j
    <2> QED
      BY <2>1, <2>2, <2>3, PairContinue
  <1>7. ASSUME NEW done \in BOOLEAN, NEW ok \in BOOLEAN, AppendKey(p, done, ok)
        PROVE PairInv'
    <2> DEFINE j == IF job[p].kind = "rotate" THEN Idle ELSE To(p, "verify")
    <2>1. Clean => j.kind \in {job[p].kind, "none"} /\ Paired(j)
      <3>1. job[p].pc = "append" /\ job[p].kind \in {"provision", "rotate"}
        BY <1>7, <1>t DEF AppendKey, At, Jobs, Fits
      <3>2. CASE job[p].kind = "rotate"
        BY <1>i, <3>2
      <3>3. CASE job[p].kind = "provision"
        BY <1>o, <1>p, <3>1, <3>3 DEF Places, Paired
      <3> HIDE DEF j
      <3> QED
        BY <3>1, <3>2, <3>3
    <2>2. /\ env' = env /\ agent' = agent /\ forced' = forced /\ row' = row /\ races' = races
          /\ Continue(p, ok, j)
      BY <1>7 DEF AppendKey, nodeVars
    <2> HIDE DEF j
    <2> QED
      BY <2>1, <2>2, PairContinue
  <1>8. ASSUME NEW ok \in BOOLEAN, ReadRow(p, ok) PROVE PairInv'
    <2> DEFINE j == Patched(To(p, "write_row"))
    <2>1. Clean => j.kind = job[p].kind /\ Paired(j)
      <3>1. job[p].pc = "read_row" /\ job[p].kind \in {"provision", "update"}
            /\ (job[p].kind = "provision" => job[p].target # "keep")
        BY <1>8, <1>t DEF ReadRow, At, Jobs, Fits
      <3>2. j.kind = job[p].kind /\ j.pc = "write_row"
            /\ (job[p].kind = "provision" => j.target = job[p].target)
        BY <1>p, <3>1 DEF Patched, Job, Places
      <3> HIDE DEF j
      <3> QED
        BY <1>o, <3>1, <3>2 DEF Paired
    <2>2. /\ env' = env /\ agent' = agent /\ forced' = forced /\ row' = row /\ races' = races
          /\ Continue(p, ok, j)
      BY <1>8 DEF ReadRow, nodeVars, history
    <2> HIDE DEF j
    <2> QED
      BY <2>1, <2>2, PairContinue
  <1>9. ASSUME NEW ok \in BOOLEAN, Recheck(p, ok) PROVE PairInv'
    <2> DEFINE j == IF row.transport = job[p].transport THEN Idle ELSE To(p, "set_transport")
    <2>1. j.kind \in {job[p].kind, "none"} /\ Paired(j)
      <3>1. job[p].kind = "transport"
        BY <1>9, <1>t DEF Recheck, At, Jobs, Fits
      <3>2. Paired(To(p, "set_transport")) /\ To(p, "set_transport").kind = job[p].kind
        BY <1>p, <3>1 DEF Places, Paired
      <3> QED
        BY <1>i, <3>2
    <2>2. /\ env' = env /\ agent' = agent /\ forced' = forced /\ row' = row /\ races' = races
          /\ Continue(p, ok, j)
      BY <1>9 DEF Recheck, nodeVars, history
    <2> HIDE DEF j
    <2> QED
      BY <2>1, <2>2, PairContinue
  <1>10. ASSUME NEW done \in BOOLEAN, NEW ok \in BOOLEAN, SetTransport(p, done, ok)
         PROVE PairInv'
    <2>1. /\ env' = env /\ agent' = agent /\ forced' = forced /\ races \subseteq races'
          /\ Continue(p, ok, Idle)
      BY <1>10 DEF SetTransport, nodeVars
    <2>2. row'.bearer = row.bearer /\ row'.state = row.state
      BY <1>10, <1>t DEF SetTransport, NodeRow
    <2> QED
      BY <1>i, <2>1, <2>2, PairContinue
  <1> QED
    BY <1>1, <1>2, <1>3, <1>4, <1>5, <1>6, <1>7, <1>8, <1>9, <1>10, InstallPair,
       SetBearerPair, WriteRowPair DEF Step

LEMMA OtherPair ==
  ASSUME Types, PairInv,
         \/ Delete \/ AgentRestart \/ ElsewhereReads \/ ElsewhereWrites
         \/ \E dead \in Procs \cup {"panel"} : Crash(dead)
         \/ UNCHANGED vars
  PROVE  PairInv'
  <1> SUFFICES ASSUME Clean' PROVE Pairing'
    BY DEF PairInv
  <1>1. races' = races /\ forced' = forced
    BY DEF Delete, AgentRestart, ElsewhereReads, ElsewhereWrites, Crash, vars, history
  <1>2. Pairing
    BY <1>1 DEF PairInv, Clean
  <1>3. CASE Delete
    <2>1. row'.state = "gone" /\ row'.bearer = row.bearer
      BY <1>3 DEF Delete, Types, TypeOK, NodeRow
    <2>2. job' = job /\ env' = env /\ agent' = agent
      BY <1>3 DEF Delete, nodeVars
    <2> QED
      BY <1>1, <1>2, <2>1, <2>2 DEF Pairing, NoClash, Matched, Paired
  <1>4. CASE AgentRestart
    <2>1. job' = job /\ row' = row /\ env' = env /\ agent' = env
      BY <1>4 DEF AgentRestart
    <2> QED
      BY <1>1, <1>2, <2>1 DEF Pairing, NoClash, Matched, Paired
  <1>5. CASE ElsewhereReads \/ ElsewhereWrites \/ UNCHANGED vars
    <2>1. job' = job /\ row' = row /\ env' = env /\ agent' = agent
      BY <1>5 DEF ElsewhereReads, ElsewhereWrites, vars, nodeVars
    <2> QED
      BY <1>1, <1>2, <2>1 DEF Pairing, NoClash, Matched, Paired
  <1>6. ASSUME NEW dead \in Procs \cup {"panel"}, Crash(dead) PROVE Pairing'
    <2>1. row' = row /\ env' = env /\ agent' = agent
      BY <1>6 DEF Crash, nodeVars
    <2>2. \A p \in Procs : job'[p] \in {job[p], Idle}
      BY <1>6 DEF Crash
    <2>3. \A p \in Procs : Paired(job[p])'
      BY <1>2, <2>1, <2>2, IdlePair DEF Pairing, Paired
    <2>4. NoClash'
      BY <1>2, <2>2, IdlePair DEF Pairing, NoClash, Clash
    <2> QED
      BY <1>1, <1>2, <2>1, <2>3, <2>4 DEF Pairing, Matched
  <1> QED
    BY <1>3, <1>4, <1>5, <1>6

\* A node shown as online serves the bearer of its row, whatever failed and
\* wherever the panel crashed, for any number of jobs: unless two of them were
\* at the pair at once, a write of agent.env failed unreported, or an operator
\* set the state by hand.
THEOREM OnlineIsPaired == Spec => []OnlinePaired
  <1>1. Init => PairInv
    BY DEF Init, PairInv, Pairing, NoClash, Clash, Matched, Paired, Idle
  <1>2. Types /\ PairInv /\ [Next]_vars => PairInv'
    BY StartPair, StepPair, OtherPair DEF Next
  <1>3. PairInv => OnlinePaired
    BY DEF PairInv, Pairing, Matched, Clean, OnlinePaired
  <1> QED
    BY <1>1, <1>2, <1>3, InitTypes, NextTypes, PTL DEF Spec

-----------------------------------------------------------------------------
(* The stored key.  While nothing of keyTrouble has happened, one job at a *)
(* time appends to known_hosts and one pushes a key, and each place of     *)
(* such a job fixes how far the host key and the public key have come.     *)

Trusts(p, j) ==
  /\ j.pc = "read_known" => site.dialled = "ip"
  /\ j.pc = "write_known" => site.dialled \in draft[p]
  /\ j.pc \in {"upload_agent", "write_env", "restart", "persist"} => site.dialled \in known

Pushes(j) ==
  /\ j.pc = "upload" => j.key = row.stored /\ row.stored # None
  /\ j.pc = "append" => pubfile = row.stored /\ row.stored # None

OneDraft ==
  /\ \A v, w \in Writers : draft[v] # {} /\ draft[w] # {} => v = w
  /\ \A w \in Writers : draft[w] # {} => known \subseteq draft[w]

OnePush == \A p, q \in Procs : Pushing(p) /\ Pushing(q) => p = q

Usable ==
  row.stored # None =>
     /\ Decrypts /\ site.dialled \in known
     /\ (\A p \in Procs : ~Pushing(p)) => row.stored \in authorised

KeyOK ==
  /\ OneDraft /\ OnePush /\ Usable
  /\ \A p \in Procs : Trusts(p, job[p]) /\ Pushes(job[p])

KeyInv == keyTrouble = {} => KeyOK

PushPlaces == {"upload", "append"}

LEMMA FailedKey ==
  ASSUME NEW p, NEW j
  PROVE  AfterFailure(j).pc \notin PushPlaces /\ Trusts(p, AfterFailure(j))
  BY DEF AfterFailure, Idle, PushPlaces, Trusts

\* A job that goes on as k, outside a push, without touching the files.
LEMMA KeyStep ==
  ASSUME Types, KeyInv, NEW p \in Procs, NEW k, job' = [job EXCEPT ![p] = k],
         job[p].pc \notin PushPlaces, k.pc \notin PushPlaces,
         keyTrouble' = {} => keyTrouble = {} /\ Trusts(p, k),
         site' = site, known' = known, draft' = draft,
         authorised' = authorised, pubfile' = pubfile,
         row'.stored = row.stored, row'.seal = row.seal
  PROVE  KeyInv'
  <1> SUFFICES ASSUME keyTrouble' = {} PROVE KeyOK'
    BY DEF KeyInv
  <1>1. KeyOK /\ Trusts(p, k)
    BY DEF KeyInv
  <1>2. \A q \in Procs : job'[q] = IF q = p THEN k ELSE job[q]
    BY DEF Types
  <1>3. \A q \in Procs : Pushing(q)' <=> Pushing(q)
    BY <1>2 DEF Pushing, PushPlaces
  <1>4. OneDraft'
    BY <1>1 DEF KeyOK, OneDraft
  <1>5. OnePush'
    BY <1>1, <1>3 DEF KeyOK, OnePush
  <1>6. Usable'
    BY <1>1, <1>3 DEF KeyOK, Usable, Decrypts
  <1>7. \A q \in Procs : Trusts(q, job[q])'
    BY <1>1, <1>2 DEF KeyOK, Trusts
  <1>8. \A q \in Procs : Pushes(job[q])'
    BY <1>1, <1>2 DEF KeyOK, Pushes, PushPlaces
  <1> QED
    BY <1>4, <1>5, <1>6, <1>7, <1>8 DEF KeyOK

LEMMA KeyContinue ==
  ASSUME Types, KeyInv, NEW p \in Procs, NEW ok \in BOOLEAN, NEW j, Continue(p, ok, j),
         job[p].pc \notin PushPlaces, j.pc \notin PushPlaces,
         keyTrouble' = {} => keyTrouble = {} /\ (ok => Trusts(p, j)),
         site' = site, known' = known, draft' = draft,
         authorised' = authorised, pubfile' = pubfile,
         row'.stored = row.stored, row'.seal = row.seal
  PROVE  KeyInv'
  <1> DEFINE k == IF ok THEN j ELSE AfterFailure(job[p])
  <1>1. job' = [job EXCEPT ![p] = k]
    BY DEF Continue
  <1>2. k.pc \notin PushPlaces /\ (keyTrouble' = {} => Trusts(p, k))
    BY FailedKey
  <1> HIDE DEF k
  <1> QED
    BY <1>1, <1>2, KeyStep

LEMMA StartKey ==
  ASSUME Types, KeyInv, NEW p \in Procs, Start(p)
  PROVE  KeyInv'
  <1>1. PICK j \in Jobs : Begin(p, j) /\ j.pc \in {"connect", "read_row", "recheck"}
    BY Starts DEF Begins
  <1>2. job' = [job EXCEPT ![p] = j] /\ job[p].pc = "idle" /\ keyTrouble' = keyTrouble
    BY <1>1 DEF Begin, Busy
  <1>3. j.pc \notin PushPlaces /\ job[p].pc \notin PushPlaces /\ Trusts(p, j)
    BY <1>1, <1>2 DEF PushPlaces, Trusts
  <1>4. /\ site' = site /\ known' = known /\ draft' = draft
        /\ authorised' = authorised /\ pubfile' = pubfile /\ row' = row
    BY <1>1 DEF Begin, hostVars, keyVars
  <1> QED
    BY <1>2, <1>3, <1>4, KeyStep

\* The steps that learn a host key.
LEMMA LearnKey ==
  ASSUME Types, KeyInv, NEW p \in Procs,
         LearnRead(p) \/ \E done \in BOOLEAN : LearnWrite(p, done)
  PROVE  KeyInv'
  <1> SUFFICES ASSUME keyTrouble' = {} PROVE KeyOK'
    BY DEF KeyInv
  <1>t. /\ job[p] \in Job /\ job \in [Procs -> Jobs] /\ draft \in [Writers -> SUBSET Lines]
        /\ p \in Writers /\ Procs \subseteq Writers
    BY WritersAssumption DEF Types, TypeOK, Jobs
  <1>p. \A pc \in Places : To(p, pc).pc = pc
    BY <1>t DEF To, Job
  <1>1. /\ site' = site /\ row' = row /\ authorised' = authorised /\ pubfile' = pubfile
        /\ keyTrouble = {} /\ job[p].pc \in {"read_known", "write_known"}
    BY DEF LearnRead, LearnWrite, keyVars, At
  <1>2. KeyOK /\ Trusts(p, job[p])
    BY <1>1 DEF KeyInv, KeyOK
  <1>3. ASSUME NEW pc \in {"write_known", "upload_agent"},
               job' = [job EXCEPT ![p] = To(p, pc)], OneDraft', known \subseteq known',
               Trusts(p, job[p])', \A q \in Procs \ {p} : draft'[q] = draft[q]
        PROVE  KeyOK'
    <2>1. \A q \in Procs : job'[q] = IF q = p THEN To(p, pc) ELSE job[q]
      BY <1>3, <1>t
    <2>2. To(p, pc).pc = pc
      BY <1>p DEF Places
    <2>3. \A q \in Procs : Pushing(q)' <=> Pushing(q)
      BY <1>1, <2>1, <2>2 DEF Pushing
    <2>4. OnePush' /\ Usable'
      BY <1>1, <1>2, <1>3, <2>3 DEF KeyOK, OnePush, Usable, Decrypts
    <2>5. \A q \in Procs : Pushes(job[q])'
      BY <1>1, <1>2, <2>1, <2>2 DEF KeyOK, Pushes
    <2>6. \A q \in Procs \ {p} : Trusts(q, job[q])'
      BY <1>1, <1>2, <1>3, <2>1 DEF KeyOK, Trusts
    <2> QED
      BY <1>3, <2>4, <2>5, <2>6 DEF KeyOK
  <1>4. CASE LearnRead(p)
    <2>1. /\ known' = known /\ job[p].pc = "read_known" /\ ~Overlaps(p)
          /\ draft' = [draft EXCEPT ![p] = known \cup {"ip"}]
      BY <1>4 DEF LearnRead, ReadKnown, At
    <2>2. \A w \in Writers \ {p} : draft[w] = {}
      BY <2>1 DEF Overlaps
    <2>3. OneDraft'
      BY <1>t, <2>1, <2>2 DEF OneDraft
    <2>4. job' = [job EXCEPT ![p] = To(p, "write_known")]
      BY <1>4 DEF LearnRead, To
    <2>5. To(p, "write_known").pc = "write_known"
      BY <1>p DEF Places
    <2>6. Trusts(p, job[p])'
      BY <1>1, <1>2, <1>t, <2>1, <2>4, <2>5 DEF Trusts
    <2> QED
      BY <1>3, <1>t, <2>1, <2>3, <2>4, <2>6
  <1>5. ASSUME NEW done \in BOOLEAN, LearnWrite(p, done) PROVE KeyOK'
    <2>1. /\ done /\ known' = draft[p] /\ draft' = [draft EXCEPT ![p] = {}]
          /\ job[p].pc = "write_known"
      BY <1>5 DEF LearnWrite, WriteKnown, At
    <2>2. site.dialled \in draft[p]
      BY <1>2, <2>1 DEF Trusts
    <2>3. known \subseteq draft[p] /\ \A w \in Writers \ {p} : draft[w] = {}
      BY <1>2, <1>t, <2>2 DEF KeyOK, OneDraft
    <2>4. OneDraft'
      BY <1>t, <2>1, <2>3 DEF OneDraft
    <2>5. job' = [job EXCEPT ![p] = To(p, "upload_agent")]
      BY <1>5 DEF LearnWrite, To
    <2>6. To(p, "upload_agent").pc = "upload_agent"
      BY <1>p DEF Places
    <2>7. Trusts(p, job[p])'
      BY <1>1, <1>t, <2>1, <2>2, <2>5, <2>6 DEF Trusts
    <2> QED
      BY <1>3, <1>t, <2>1, <2>3, <2>4, <2>5, <2>7
  <1> QED
    BY <1>4, <1>5

\* The three steps of a push.
LEMMA PushKey ==
  ASSUME Types, KeyInv, NEW p \in Procs,
         \/ \E content \in 0..Garbage, ok \in BOOLEAN : UploadKey(p, content, ok)
         \/ \E done, ok \in BOOLEAN : PersistKey(p, done, ok) \/ AppendKey(p, done, ok)
  PROVE  KeyInv'
  <1> SUFFICES ASSUME keyTrouble' = {} PROVE KeyOK'
    BY DEF KeyInv
  <1>t. /\ job[p] \in Job /\ job[p] \in Jobs /\ job \in [Procs -> Jobs]
        /\ row \in NodeRow /\ minted \in Tokens
    BY DEF Types, TypeOK, Jobs
  <1>p. \A pc \in Places : To(p, pc).pc = pc /\ To(p, pc) \in Job /\ To(p, pc).key = job[p].key
    BY <1>t DEF To, Job
  <1>1. /\ site' = site /\ known' = known /\ draft' = draft /\ keyTrouble = {}
    BY DEF UploadKey, PersistKey, AppendKey, hostVars
  <1>2. KeyOK /\ Trusts(p, job[p]) /\ Pushes(job[p])
    BY <1>1 DEF KeyInv, KeyOK
  \* When the others push nothing, before or after.
  <1>3. ASSUME NEW k, job' = [job EXCEPT ![p] = k], \A q \in Procs \ {p} : ~Pushing(q),
               Usable', Trusts(p, k), Pushes(job[p])'
        PROVE  KeyOK'
    <2>1. \A q \in Procs : job'[q] = IF q = p THEN k ELSE job[q]
      BY <1>3, <1>t
    <2>2. \A q \in Procs \ {p} : ~Pushing(q)'
      BY <1>3, <2>1 DEF Pushing
    <2>3. OneDraft' /\ OnePush'
      BY <1>1, <1>2, <2>2 DEF KeyOK, OneDraft, OnePush
    <2>4. \A q \in Procs : Trusts(q, job[q])'
      BY <1>1, <1>2, <1>3, <2>1 DEF KeyOK, Trusts
    <2>5. \A q \in Procs : Pushes(job[q])'
      BY <1>3, <2>2 DEF Pushing, Pushes
    <2> QED
      BY <1>3, <2>3, <2>4, <2>5 DEF KeyOK
  <1>4. ASSUME NEW done \in BOOLEAN, NEW ok \in BOOLEAN, PersistKey(p, done, ok) PROVE KeyOK'
    <2>1. /\ job[p].pc = "persist" /\ (ok => done) /\ (done => ok)
          /\ done => site.envelope /\ job[p].seal = "age"
          /\ \A q \in Procs \ {p} : ~Pushing(q)
          /\ authorised' = authorised /\ pubfile' = pubfile
      BY <1>4 DEF PersistKey, At, keyVars
    <2>2. site.dialled \in known
      BY <1>2, <2>1 DEF Trusts
    <2>3. CASE ok
      <3> DEFINE j == [To(p, "upload") EXCEPT !.key = minted + 1]
      <3>1. job' = [job EXCEPT ![p] = j]
        BY <1>4, <2>3 DEF PersistKey, Continue
      <3>2. j.pc = "upload" /\ j.key = minted + 1
        BY <1>p DEF Job, Places
      <3>3. row'.stored = minted + 1 /\ row'.seal = "age" /\ minted + 1 # None
        BY <1>4, <1>t, <2>1, <2>3, Numbers DEF PersistKey, NodeRow, Tokens, None
      <3> HIDE DEF j
      <3>4. job'[p] = j
        BY <1>t, <3>1
      <3>5. Usable'
        BY <1>1, <2>1, <2>2, <2>3, <3>2, <3>3, <3>4 DEF Usable, Decrypts, Pushing
      <3>6. Trusts(p, j) /\ Pushes(job[p])'
        BY <3>2, <3>3, <3>4 DEF Trusts, Pushes
      <3> QED
        BY <1>3, <2>1, <3>1, <3>5, <3>6
    <2>4. CASE ~ok
      <3>1. job' = [job EXCEPT ![p] = AfterFailure(job[p])] /\ row' = row
        BY <1>4, <2>1, <2>4 DEF PersistKey, Continue
      <3>2. job'[p] = AfterFailure(job[p])
        BY <1>t, <3>1
      <3>3. Trusts(p, AfterFailure(job[p])) /\ Pushes(job[p])'
        BY <3>2, FailedKey DEF Pushes, PushPlaces
      <3>4. ~Pushing(p)
        BY <2>1 DEF Pushing
      <3>5. Usable'
        BY <1>1, <1>2, <2>1, <3>1, <3>4 DEF KeyOK, Usable, Decrypts
      <3> QED
        BY <1>3, <2>1, <3>1, <3>3, <3>5
    <2> QED
      BY <2>3, <2>4
  <1>5. ASSUME NEW content \in 0..Garbage, NEW ok \in BOOLEAN, UploadKey(p, content, ok)
        PROVE KeyOK'
    <2>1. /\ ok /\ job[p].pc = "upload" /\ pubfile' = job[p].key
          /\ row' = row /\ authorised' = authorised
      BY <1>5 DEF UploadKey, At
    <2>2. \A q \in Procs \ {p} : ~Pushing(q)
      BY <1>2, <2>1 DEF KeyOK, OnePush, Pushing
    <2> DEFINE j == [To(p, "append") EXCEPT !.key = None]
    <2>3. job' = [job EXCEPT ![p] = j]
      BY <1>5, <2>1 DEF UploadKey, Continue
    <2>4. j.pc = "append"
      BY <1>p DEF Job, Places
    <2> HIDE DEF j
    <2>5. job'[p] = j
      BY <1>t, <2>3
    <2>6. Trusts(p, j) /\ Pushes(job[p])'
      BY <1>2, <2>1, <2>4, <2>5 DEF Trusts, Pushes
    <2>7. Usable'
      BY <1>1, <1>2, <2>1, <2>4, <2>5 DEF KeyOK, Usable, Decrypts, Pushing
    <2> QED
      BY <1>3, <2>2, <2>3, <2>6, <2>7
  <1>6. ASSUME NEW done \in BOOLEAN, NEW ok \in BOOLEAN, AppendKey(p, done, ok) PROVE KeyOK'
    <2>1. ok /\ done /\ job[p].pc = "append" /\ row' = row
      BY <1>6 DEF AppendKey, At
    <2>2. pubfile = row.stored /\ row.stored # None /\ pubfile # Garbage
      BY <1>2, <1>t, <2>1, Numbers DEF Pushes, NodeRow
    <2>3. \A q \in Procs \ {p} : ~Pushing(q)
      BY <1>2, <2>1 DEF KeyOK, OnePush, Pushing
    <2>4. row.stored \in authorised'
      <3>1. pubfile \notin authorised => Append(pubfile) /\ openLine = None
        BY <1>6, <2>1, <2>2 DEF AppendKey
      <3>2. pubfile \in authorised => authorised' = authorised
        BY <1>6 DEF AppendKey
      <3> QED
        BY <2>2, <3>1, <3>2 DEF Append
    <2> DEFINE j == IF job[p].kind = "rotate" THEN Idle ELSE To(p, "verify")
    <2>5. job' = [job EXCEPT ![p] = j]
      BY <1>6, <2>1 DEF AppendKey, Continue
    <2>6. j.pc \in {"idle", "verify"}
      BY <1>p DEF Places, Idle
    <2> HIDE DEF j
    <2>7. job'[p] = j
      BY <1>t, <2>5
    <2>8. Trusts(p, j) /\ Pushes(job[p])'
      BY <2>6, <2>7 DEF Trusts, Pushes
    <2>9. Usable'
      BY <1>1, <1>2, <2>1, <2>4 DEF KeyOK, Usable, Decrypts
    <2> QED
      BY <1>3, <2>3, <2>5, <2>8, <2>9
  <1> QED
    BY <1>4, <1>5, <1>6

\* Connect takes on first use only a key pinned by a provision; otherwise the
\* address dialled has a line in known_hosts.
LEMMA ConnectKey ==
  ASSUME Types, KeyInv, NEW p \in Procs, NEW ok \in BOOLEAN, Connect(p, ok)
  PROVE  KeyInv'
  <1>t. job[p] \in Job /\ job[p] \in Jobs
    BY DEF Types, Jobs
  <1>u. /\ site' = site /\ known' = known /\ draft' = draft
        /\ authorised' = authorised /\ pubfile' = pubfile /\ row' = row
    BY DEF Connect, hostVars, keyVars
  <1>1. /\ job[p].pc = "connect" /\ job[p].kind \in {"provision", "rotate", "refresh"}
        /\ job[p].kind # "provision" => ~job[p].pinned
    BY <1>t DEF Connect, At, Jobs, Fits
  <1>2. job[p].pc \notin PushPlaces
    BY <1>1 DEF PushPlaces
  <1>3. keyTrouble' = {} =>
          /\ keyTrouble = {}
          /\ ok /\ site.dialled \notin known => site.dialled = "ip"
    BY DEF Connect, FirstUse
  <1>4. ok => site.dialled \in known \/ job[p].pinned
    BY DEF Connect, HostKeyAccepted
  <1> DEFINE next == [provision |-> IF FirstUse(site.dialled) THEN "read_known"
                                                              ELSE "upload_agent",
                      rotate |-> "persist", refresh |-> "read_env"]
             j == [To(p, next[job[p].kind]) EXCEPT !.pinned = FALSE, !.had = None]
  <1>5. /\ job[p].kind = "provision" => next[job[p].kind] =
             IF site.dialled \notin known THEN "read_known" ELSE "upload_agent"
        /\ job[p].kind = "rotate" => next[job[p].kind] = "persist"
        /\ job[p].kind = "refresh" => next[job[p].kind] = "read_env"
    BY DEF FirstUse
  <1>6. Continue(p, ok, j) \/ job' = [job EXCEPT ![p] = AfterFailure(job[p])]
    BY DEF Connect
  <1> HIDE DEF next
  <1>7. j.pc = next[job[p].kind]
    BY <1>t DEF To, Job
  <1> HIDE DEF j
  <1>8. j.pc \notin PushPlaces
    BY <1>1, <1>5, <1>7 DEF PushPlaces
  <1>9. keyTrouble' = {} => keyTrouble = {} /\ (ok => Trusts(p, j))
    BY <1>1, <1>3, <1>4, <1>5, <1>7 DEF Trusts
  <1>10. CASE Continue(p, ok, j)
    BY <1>u, <1>2, <1>8, <1>9, <1>10, KeyContinue
  <1>11. CASE job' = [job EXCEPT ![p] = AfterFailure(job[p])]
    BY <1>u, <1>2, <1>3, <1>11, FailedKey, KeyStep
  <1> QED
    BY <1>6, <1>10, <1>11

LEMMA StepKey ==
  ASSUME Types, KeyInv, NEW p \in Procs, Step(p)
  PROVE  KeyInv'
  <1>t. job[p] \in Job /\ job[p] \in Jobs /\ row \in NodeRow
    BY DEF Types, TypeOK, Jobs
  <1>p. \A pc \in Places : To(p, pc).pc = pc /\ To(p, pc) \in Job
    BY <1>t DEF To, Job
  <1>i. Idle.pc = "idle"
    BY DEF Idle
  <1>o. keyTrouble = {} => Trusts(p, job[p])
    BY DEF KeyInv, KeyOK
  <1>1. ASSUME NEW ok \in BOOLEAN, UploadAgent(p, ok) \/ Verify(p, ok) PROVE KeyInv'
    <2>1. PICK pc \in {"write_env", "set_bearer"} :
             /\ Continue(p, ok, To(p, pc))
             /\ pc = "write_env" => job[p].pc = "upload_agent"
             /\ job[p].pc \in {"upload_agent", "verify"}
      BY <1>1 DEF UploadAgent, Verify, At
    <2>2. To(p, pc).pc = pc
      BY <1>p, <2>1 DEF Places
    <2>3. job[p].pc \notin PushPlaces /\ To(p, pc).pc \notin PushPlaces
      BY <2>1, <2>2 DEF PushPlaces
    <2>4. keyTrouble = {} => Trusts(p, To(p, pc))
      BY <1>o, <2>1, <2>2 DEF Trusts
    <2>5. /\ site' = site /\ known' = known /\ draft' = draft /\ keyTrouble' = keyTrouble
          /\ authorised' = authorised /\ pubfile' = pubfile /\ row' = row
      BY <1>1 DEF UploadAgent, Verify, hostVars, keyVars, history
    <2> QED
      BY <2>1, <2>3, <2>4, <2>5, KeyContinue
  <1>2. ASSUME NEW content \in 0..MaxMints, NEW ok \in BOOLEAN, WriteEnv(p, content, ok)
        PROVE KeyInv'
    <2>1. /\ job[p].pc = "write_env"
          /\ \/ Continue(p, ok, To(p, "restart"))
             \/ job' = [job EXCEPT ![p] = To(p, "restart")]
      BY <1>2 DEF WriteEnv, At, To
    <2>2. To(p, "restart").pc = "restart"
      BY <1>p DEF Places
    <2>3. /\ job[p].pc \notin PushPlaces /\ To(p, "restart").pc \notin PushPlaces
          /\ keyTrouble = {} => Trusts(p, To(p, "restart"))
      BY <1>o, <2>1, <2>2 DEF PushPlaces, Trusts
    <2>4. /\ site' = site /\ known' = known /\ draft' = draft /\ keyTrouble' = keyTrouble
          /\ authorised' = authorised /\ pubfile' = pubfile /\ row' = row
      BY <1>2 DEF WriteEnv, hostVars, keyVars
    <2>5. CASE Continue(p, ok, To(p, "restart"))
      BY <2>3, <2>4, <2>5, KeyContinue
    <2>6. CASE job' = [job EXCEPT ![p] = To(p, "restart")]
      BY <2>3, <2>4, <2>6, KeyStep
    <2> QED
      BY <2>1, <2>5, <2>6
  <1>3. ASSUME NEW done \in BOOLEAN, NEW ok \in BOOLEAN, RestartUnit(p, done, ok)
        PROVE KeyInv'
    <2> DEFINE pc == IF job[p].auth = "password" /\ site.envelope THEN "persist" ELSE "verify"
               j == [To(p, pc) EXCEPT !.auth = "operator"]
    <2>1. j.pc \in {"persist", "verify"}
      <3>1. pc \in {"persist", "verify"}
        OBVIOUS
      <3> HIDE DEF pc
      <3> QED
        BY <1>p, <3>1 DEF Job, Places
    <2>2. job[p].pc = "restart" /\ Continue(p, ok, j)
      BY <1>3 DEF RestartUnit, At
    <2> HIDE DEF j
    <2>3. /\ job[p].pc \notin PushPlaces /\ j.pc \notin PushPlaces
          /\ keyTrouble = {} => Trusts(p, j)
      BY <1>o, <2>1, <2>2 DEF PushPlaces, Trusts
    <2>4. /\ site' = site /\ known' = known /\ draft' = draft /\ keyTrouble' = keyTrouble
          /\ authorised' = authorised /\ pubfile' = pubfile /\ row' = row
      BY <1>3 DEF RestartUnit, hostVars, keyVars, history
    <2> QED
      BY <2>2, <2>3, <2>4, KeyContinue
  \* The other places ask for nothing.
  <1>4. ASSUME NEW ok \in BOOLEAN, NEW j, Continue(p, ok, j),
               j.pc \in {"idle", "set_bearer", "read_row", "write_row", "set_transport"},
               job[p].pc \notin PushPlaces, keyTrouble' = keyTrouble,
               site' = site, known' = known, draft' = draft,
               authorised' = authorised, pubfile' = pubfile,
               row'.stored = row.stored, row'.seal = row.seal
        PROVE  KeyInv'
    <2>1. j.pc \notin PushPlaces /\ Trusts(p, j)
      BY <1>4 DEF PushPlaces, Trusts
    <2> QED
      BY <1>4, <2>1, KeyContinue
  <1>5. ASSUME NEW ok \in BOOLEAN, ReadEnv(p, ok) PROVE KeyInv'
    <2> DEFINE j == [To(p, "set_bearer") EXCEPT !.bearer = env]
    <2>1. j.pc = "set_bearer"
      BY <1>p DEF Job, Places
    <2>2. /\ job[p].pc = "read_env"
          /\ Continue(p, ok, j) \/ job' = [job EXCEPT ![p] = Idle]
      BY <1>5 DEF ReadEnv, At
    <2>3. /\ site' = site /\ known' = known /\ draft' = draft /\ keyTrouble' = keyTrouble
          /\ authorised' = authorised /\ pubfile' = pubfile /\ row' = row
      BY <1>5 DEF ReadEnv, hostVars, keyVars, history
    <2> HIDE DEF j
    <2>4. job[p].pc \notin PushPlaces
      BY <2>2 DEF PushPlaces
    <2>5. CASE Continue(p, ok, j)
      BY <1>4, <2>1, <2>3, <2>4, <2>5
    <2>6. CASE job' = [job EXCEPT ![p] = Idle]
      <3>1. Idle.pc \notin PushPlaces /\ Trusts(p, Idle)
        BY <1>i DEF PushPlaces, Trusts
      <3> QED
        BY <2>3, <2>4, <2>6, <3>1, KeyStep
    <2> QED
      BY <2>2, <2>5, <2>6
  <1>6. ASSUME NEW done \in BOOLEAN, NEW ok \in BOOLEAN, SetBearer(p, done, ok) PROVE KeyInv'
    <2> DEFINE j == IF job[p].kind = "provision"
                    THEN [To(p, "read_row") EXCEPT !.target = "online", !.bearer = None]
                    ELSE Idle
    <2>1. j.pc \in {"idle", "read_row"}
      BY <1>p, <1>i DEF Job, Places
    <2>2. Continue(p, ok, j) /\ job[p].pc \notin PushPlaces
      BY <1>6 DEF SetBearer, At, PushPlaces
    <2>3. /\ site' = site /\ known' = known /\ draft' = draft /\ keyTrouble' = keyTrouble
          /\ authorised' = authorised /\ pubfile' = pubfile
      BY <1>6 DEF SetBearer, hostVars, keyVars, history
    <2>4. row'.stored = row.stored /\ row'.seal = row.seal
      BY <1>6, <1>t DEF SetBearer, NodeRow
    <2> HIDE DEF j
    <2> QED
      BY <1>4, <2>1, <2>2, <2>3, <2>4
  <1>7. ASSUME NEW ok \in BOOLEAN, ReadRow(p, ok) PROVE KeyInv'
    <2> DEFINE j == Patched(To(p, "write_row"))
    <2>1. j.pc = "write_row"
      BY <1>p DEF Patched, Job, Places
    <2>2. Continue(p, ok, j) /\ job[p].pc \notin PushPlaces
      BY <1>7 DEF ReadRow, At, PushPlaces
    <2>3. /\ site' = site /\ known' = known /\ draft' = draft /\ keyTrouble' = keyTrouble
          /\ authorised' = authorised /\ pubfile' = pubfile /\ row' = row
      BY <1>7 DEF ReadRow, hostVars, keyVars, history
    <2> HIDE DEF j
    <2> QED
      BY <1>4, <2>1, <2>2, <2>3
  <1>8. ASSUME NEW done \in BOOLEAN, NEW ok \in BOOLEAN, WriteRow(p, done, ok) PROVE KeyInv'
    <2>1. Continue(p, ok, Idle) /\ job[p].pc \notin PushPlaces
      BY <1>8 DEF WriteRow, At, PushPlaces
    <2>2. /\ site' = site /\ known' = known /\ draft' = draft /\ keyTrouble' = keyTrouble
          /\ authorised' = authorised /\ pubfile' = pubfile
      BY <1>8 DEF WriteRow, hostVars, keyVars
    <2>3. row'.stored = row.stored /\ row'.seal = row.seal
      BY <1>8, <1>t DEF WriteRow, NodeRow
    <2> QED
      BY <1>4, <1>i, <2>1, <2>2, <2>3
  <1>9. ASSUME NEW ok \in BOOLEAN, Recheck(p, ok) PROVE KeyInv'
    <2> DEFINE j == IF row.transport = job[p].transport THEN Idle ELSE To(p, "set_transport")
    <2>1. j.pc \in {"idle", "set_transport"}
      BY <1>p, <1>i DEF Places
    <2>2. Continue(p, ok, j) /\ job[p].pc \notin PushPlaces
      BY <1>9 DEF Recheck, At, PushPlaces
    <2>3. /\ site' = site /\ known' = known /\ draft' = draft /\ keyTrouble' = keyTrouble
          /\ authorised' = authorised /\ pubfile' = pubfile /\ row' = row
      BY <1>9 DEF Recheck, hostVars, keyVars, history
    <2> HIDE DEF j
    <2> QED
      BY <1>4, <2>1, <2>2, <2>3
  <1>10. ASSUME NEW done \in BOOLEAN, NEW ok \in BOOLEAN, SetTransport(p, done, ok)
         PROVE KeyInv'
    <2>1. Continue(p, ok, Idle) /\ job[p].pc \notin PushPlaces
      BY <1>10 DEF SetTransport, At, PushPlaces
    <2>2. /\ site' = site /\ known' = known /\ draft' = draft /\ keyTrouble' = keyTrouble
          /\ authorised' = authorised /\ pubfile' = pubfile
      BY <1>10 DEF SetTransport, hostVars, keyVars
    <2>3. row'.stored = row.stored /\ row'.seal = row.seal
      BY <1>10, <1>t DEF SetTransport, NodeRow
    <2> QED
      BY <1>4, <1>i, <2>1, <2>2, <2>3
  <1> QED
    BY <1>1, <1>2, <1>3, <1>5, <1>6, <1>7, <1>8, <1>9, <1>10, ConnectKey, LearnKey, PushKey
       DEF Step

LEMMA OtherKey ==
  ASSUME Types, KeyInv,
         \/ Delete \/ AgentRestart \/ ElsewhereReads \/ ElsewhereWrites
         \/ \E dead \in Procs \cup {"panel"} : Crash(dead)
         \/ UNCHANGED vars
  PROVE  KeyInv'
  <1> SUFFICES ASSUME keyTrouble' = {} PROVE KeyOK'
    BY DEF KeyInv
  <1>t. /\ draft \in [Writers -> SUBSET Lines] /\ Elsewhere \in Writers
        /\ Procs = Writers \ {Elsewhere} /\ row \in NodeRow
    BY WritersAssumption DEF Types, TypeOK
  <1>1. keyTrouble = {} /\ site' = site /\ authorised' = authorised /\ pubfile' = pubfile
    BY DEF Delete, AgentRestart, ElsewhereReads, ElsewhereWrites, Crash, vars, history,
           hostVars, keyVars
  <1>2. KeyOK
    BY <1>1 DEF KeyInv
  <1>3. CASE Delete \/ AgentRestart \/ UNCHANGED vars
    <2>1. row'.stored = row.stored /\ row'.seal = row.seal
      BY <1>3, <1>t DEF Delete, AgentRestart, vars, NodeRow
    <2>2. job' = job /\ known' = known /\ draft' = draft
      BY <1>3 DEF Delete, AgentRestart, vars, hostVars
    <2>3. OneDraft' /\ OnePush' /\ Usable'
      BY <1>1, <1>2, <2>1, <2>2 DEF KeyOK, OneDraft, OnePush, Usable, Decrypts, Pushing
    <2>4. \A p \in Procs : Trusts(p, job[p])' /\ Pushes(job[p])'
      BY <1>1, <1>2, <2>1, <2>2 DEF KeyOK, Trusts, Pushes
    <2> QED
      BY <2>3, <2>4 DEF KeyOK
  <1>4. CASE ElsewhereReads
    <2>1. /\ job' = job /\ row' = row /\ known' = known /\ ~Overlaps(Elsewhere)
          /\ draft' = [draft EXCEPT ![Elsewhere] = known \cup {"other"}]
      BY <1>4 DEF ElsewhereReads, ReadKnown
    <2>2. \A p \in Procs : draft[p] = {} /\ draft'[p] = {}
      BY <1>t, <2>1 DEF Overlaps
    <2>3. OneDraft'
      BY <1>t, <2>1, <2>2 DEF OneDraft
    <2>4. OnePush' /\ Usable'
      BY <1>1, <1>2, <2>1 DEF KeyOK, OnePush, Usable, Decrypts, Pushing
    <2>5. \A p \in Procs : Trusts(p, job[p])' /\ Pushes(job[p])'
      BY <1>1, <1>2, <2>1, <2>2 DEF KeyOK, Trusts, Pushes
    <2> QED
      BY <2>3, <2>4, <2>5 DEF KeyOK
  <1>5. CASE ElsewhereWrites
    <2>1. /\ job' = job /\ row' = row /\ draft[Elsewhere] # {} /\ known' = draft[Elsewhere]
          /\ draft' = [draft EXCEPT ![Elsewhere] = {}]
      BY <1>5 DEF ElsewhereWrites, WriteKnown
    <2>2. known \subseteq known' /\ \A p \in Procs : draft[p] = {} /\ draft'[p] = {}
      BY <1>2, <1>t, <2>1 DEF KeyOK, OneDraft
    <2>3. OneDraft'
      BY <1>t, <2>1, <2>2 DEF OneDraft
    <2>4. OnePush' /\ Usable'
      BY <1>1, <1>2, <2>1, <2>2 DEF KeyOK, OnePush, Usable, Decrypts, Pushing
    <2>5. \A p \in Procs : Trusts(p, job[p])' /\ Pushes(job[p])'
      BY <1>1, <1>2, <2>1, <2>2 DEF KeyOK, Trusts, Pushes
    <2> QED
      BY <2>3, <2>4, <2>5 DEF KeyOK
  <1>6. ASSUME NEW dead \in Procs \cup {"panel"}, Crash(dead) PROVE KeyOK'
    <2> DEFINE ends == IF dead = "panel" THEN {p \in Procs : Busy(p) /\ ~job[p].cli}
                       ELSE {p \in {dead} : job[p].cli}
    <2>1. /\ job' = [p \in Procs |-> IF p \in ends THEN Idle ELSE job[p]]
          /\ draft' = [w \in Writers |-> IF w \in ends THEN {} ELSE draft[w]]
          /\ row' = row /\ known' = known
          /\ \A p \in ends : ~Pushing(p)
      BY <1>6 DEF Crash
    <2> HIDE DEF ends
    <2>2. \A p \in Procs : \/ job'[p] = Idle /\ ~Pushing(p)
                           \/ job'[p] = job[p] /\ draft'[p] = draft[p]
      BY <1>t, <2>1
    <2>3. \A p \in Procs : Pushing(p)' <=> Pushing(p)
      BY <2>2 DEF Pushing, Idle
    <2>4. \A w \in Writers : draft'[w] \in {{}, draft[w]}
      BY <2>1
    <2>5. OneDraft'
      BY <1>2, <2>1, <2>4 DEF KeyOK, OneDraft
    <2>6. OnePush' /\ Usable'
      BY <1>1, <1>2, <2>1, <2>3 DEF KeyOK, OnePush, Usable, Decrypts
    <2>7. \A p \in Procs : Trusts(p, job[p])' /\ Pushes(job[p])'
      BY <1>1, <1>2, <2>1, <2>2 DEF KeyOK, Trusts, Pushes, Idle
    <2> QED
      BY <2>5, <2>6, <2>7 DEF KeyOK
  <1> QED
    BY <1>3, <1>4, <1>5, <1>6

\* The key in the row opens the node for the panel, whatever jobs ran, for any
\* number of them: unless one of the named accidents, of a push or of an append
\* to known_hosts, has happened.
THEOREM KeyStaysUsable == Spec => []StoredKeyUsable
  <1>1. Init => KeyInv
    BY DEF Init, InitKnown, NoDraft, KeyInv, KeyOK, OneDraft, OnePush, Pushing, Usable,
           Trusts, Pushes, Idle
  <1>2. Types /\ KeyInv /\ [Next]_vars => KeyInv'
    BY StartKey, StepKey, OtherKey DEF Next
  <1>3. KeyInv => StoredKeyUsable
    BY DEF KeyInv, KeyOK, Usable, StoredKeyUsable
  <1> QED
    BY <1>1, <1>2, <1>3, InitTypes, NextTypes, PTL DEF Spec
=============================================================================
