--------------------------- MODULE NodeProvisioning ---------------------------
(***************************************************************************)
(* The operations of the panel and of its admin CLI on one node (nodes     *)
(* share only known_hosts): Provision, RotatePanelKey, RefreshAgentBearer, *)
(* nodes.Update, Delete and RotateTransport, as concurrent jobs, most of   *)
(* which talk over SSH to the node.                                        *)
(*                                                                         *)
(* Three pairs must stay in step although nothing locks them: the bearer   *)
(* of the nodes row with the one in /etc/aegis/agent.env and the one the   *)
(* running agent loaded from it; the SSH key sealed in the row with the    *)
(* node's authorized_keys, the panel's envelope and known_hosts; and the   *)
(* row itself with the copy a read-modify-write Update holds.  Each remote *)
(* command or database call of a job is a step that may fail, with or      *)
(* without having had its effect, and the panel may crash between any two. *)
(***************************************************************************)
EXTENDS KnownHosts

NodeStates == {"new", "online", "offline", "draining", "disabled"}

CONSTANTS
    Procs,          \* concurrent HTTP requests and CLI invocations
    Elsewhere,      \* a job on another node
    Targets,        \* what a nodes.Update does to the state: sets it, or "keep"
    MaxMints,       \* bound on the bearers and keys generated
    MaxOps, MaxFaults  \* bounds on jobs begun and on failures

ASSUME WritersAssumption == Writers = Procs \cup {Elsewhere} /\ Elsewhere \notin Procs
ASSUME TargetsAssumption == Targets \subseteq NodeStates \cup {"keep"}
ASSUME BoundsAssumption == MaxMints \in Nat /\ MaxOps \in Nat /\ MaxFaults \in Nat

VARIABLES
    site,       \* how the panel was set up: an envelope, the address it dials
    row,        \* the nodes row: state, bearer, stored and seal (the key), transport
    env,        \* the bearer in agent.env
    agent,      \* the bearer the running agent loaded
    unit,       \* the systemd unit is installed
    authorised, \* keys that stand on a line of their own in authorized_keys
    openLine,   \* what its last line holds when it has no newline, else None
    pubfile,    \* the key in /tmp/.aegis-pubkey
    job,        \* job[p]: the operation p runs
    minted,     \* bearers and keys generated so far
    intent,     \* the transport last set by RotateTransport
    races, keyTrouble, forced, \* history: overlaps, what spoils a key, a state put by hand
    ops, faults

nodeVars == <<env, agent, unit>>
hostVars == <<site, known, draft>>
keyVars == <<authorised, openLine, pubfile>>
history == <<races, keyTrouble, forced>>
vars == <<hostVars, row, nodeVars, keyVars, job, minted, intent, history, ops, faults>>

-----------------------------------------------------------------------------
\* Bearers and keys are numbered in the order they are generated.
None == 0
Garbage == MaxMints + 1     \* a truncated key, or several run together

Transports == {"http", "grpc"}

Idle == [pc |-> "idle", kind |-> "none", cli |-> FALSE, pinned |-> FALSE,
         auth |-> "operator", had |-> None, key |-> None, seal |-> "age",
         bearer |-> None, target |-> "keep", transport |-> "http"]

Busy(p) == job[p].pc # "idle"

\* The stored key decrypts: GetStoredKeyForUse, and the same in Provision.  A
\* key sealed by the CLI without an envelope lies in the row in the clear.
Decrypts == site.envelope /\ row.seal = "age"

\* Between the write of the sealed key and the append to authorized_keys.
Pushing(p) == job[p].pc \in {"upload", "append"}

\* A provision in flight together with a job that reads or writes the bearer
\* or the state: a race for the pairing of node and row.
Clash(k1, k2) ==
    /\ {k1, k2} \subseteq {"provision", "refresh", "update"}
    /\ "provision" \in {k1, k2}

Begin(p, j) ==
    /\ ~Busy(p)
    /\ row.state # "gone"
    /\ ops < MaxOps
    /\ ops' = ops + 1
    /\ job' = [job EXCEPT ![p] = j]
    /\ races' = IF \E q \in Procs : Clash(j.kind, job[q].kind)
                THEN races \cup {"pairing"} ELSE races
    /\ UNCHANGED <<hostVars, row, nodeVars, keyVars, intent, keyTrouble, forced, faults>>

\* What HandleProvision lets through: a password or a key, and either
\* accept-and-append with the right fingerprint, or a policy that refuses.
ProvisionRequests == [auth : {"password", "key"}, pinned : BOOLEAN]

\* Provision: the row is read, the start state checked, the bearer minted; a
\* stored key wins over the operator's key or password, and one that does not
\* decrypt ends the request.
BeginProvision(p, r) ==
    /\ row.state \in {"new", "offline"}
    /\ row.stored # None => Decrypts
    /\ minted < MaxMints
    /\ minted' = minted + 1
    /\ Begin(p, [Idle EXCEPT !.pc = "connect", !.kind = "provision", !.pinned = r.pinned,
                    !.auth = IF row.stored # None THEN "stored" ELSE r.auth,
                    !.had = row.stored, !.bearer = minted + 1])

\* RotatePanelKey over a connection opened with the operator's key, without
\* trust on first use; the new key is sealed as seal says.
RotateJob(cli, seal) ==
    [Idle EXCEPT !.pc = "connect", !.kind = "rotate", !.cli = cli,
                 !.had = row.stored, !.seal = seal]

\* HandleRotatePanelKey: in any state of the node.
BeginRotate(p) ==
    /\ site.envelope
    /\ Begin(p, RotateJob(FALSE, "age"))
    /\ UNCHANGED minted

\* How the CLI seals: with the envelope of its own environment, for which that
\* of the panel is assumed, or, where there is none, not at all.
Seals == {"age", "plain"}

\* The same from the CLI.
BeginRotateCLI(p, seal) ==
    /\ Begin(p, RotateJob(TRUE, seal))
    /\ UNCHANGED minted

\* RefreshAgentBearer opens the node with the key it has stored.
RefreshJob ==
    [Idle EXCEPT !.pc = "connect", !.kind = "refresh", !.auth = "stored", !.had = row.stored]

\* Called by the operator, or by Apply on a 401: refused without a stored key,
\* or with one that does not decrypt.
BeginRefresh(p) ==
    /\ row.stored # None /\ Decrypts
    /\ Begin(p, RefreshJob)
    /\ UNCHANGED minted

\* nodes.Update, with a new state or leaving it alone.
BeginUpdate(p, target) ==
    /\ Begin(p, [Idle EXCEPT !.pc = "read_row", !.kind = "update", !.target = target])
    /\ UNCHANGED minted

\* The CLI's rotate-transport lists the nodes, leaves out those on target ...
BeginTransport(p, t) ==
    /\ row.transport # t
    /\ Begin(p, [Idle EXCEPT !.pc = "recheck", !.kind = "transport", !.cli = TRUE,
                    !.transport = t])
    /\ UNCHANGED minted

Delete ==
    /\ row.state # "gone"
    /\ ops < MaxOps
    /\ ops' = ops + 1
    /\ row' = [row EXCEPT !.state = "gone"]
    /\ UNCHANGED <<hostVars, nodeVars, keyVars, job, minted, intent, history, faults>>

-----------------------------------------------------------------------------
\* How a job goes on.  A failed Provision still writes its state, "offline".

AfterFailure(j) ==
    IF j.kind = "provision" /\ j.pc # "read_row" /\ j.pc # "write_row"
    THEN [Idle EXCEPT !.pc = "read_row", !.kind = "provision", !.target = "offline"]
    ELSE Idle

Fault == faults < MaxFaults /\ faults' = faults + 1

\* The steps that need the row, and fail once it is deleted.
RowSteps == {"recheck", "persist", "set_bearer", "read_row", "write_row", "set_transport"}

\* p continues as j, or its present step fails.  A remote command goes on when
\* the wait for it is cancelled, so that a step that fails may have been done.
Continue(p, ok, j) ==
    IF ok THEN /\ job' = [job EXCEPT ![p] = j]
               /\ UNCHANGED faults
          ELSE /\ job' = [job EXCEPT ![p] = AfterFailure(job[p])]
               /\ IF row.state = "gone" /\ job[p].pc \in RowSteps
                  THEN UNCHANGED faults ELSE Fault

At(p, pc) == job[p].pc = pc
To(p, pc) == [job[p] EXCEPT !.pc = pc]

\* What a file holds after an upload, which truncates it first and streams.
Uploaded(old, new) == {old, Garbage, new}

\* Connect: the host key must be accepted, and a stored key opens the node only
\* if authorised.  A key taken on first use is then appended to known_hosts.
Connect(p, ok) ==
    LET j == job[p]
        opens == /\ HostKeyAccepted(site.dialled, j.pinned)
                 /\ j.auth = "stored" => j.had \in authorised
        first == FirstUse(site.dialled)
        next == [provision |-> IF first THEN "read_known" ELSE "upload_agent",
                 rotate |-> "persist", refresh |-> "read_env"]
    IN
    /\ At(p, "connect")
    /\ ok => opens
    /\ IF opens THEN Continue(p, ok, [To(p, next[j.kind]) EXCEPT
                                         !.pinned = FALSE, !.had = None])
       ELSE /\ job' = [job EXCEPT ![p] = AfterFailure(j)]
            /\ UNCHANGED faults
    /\ keyTrouble' = IF ok /\ first /\ site.dialled # "ip"
                     THEN keyTrouble \cup {"hosts"} ELSE keyTrouble
    /\ UNCHANGED <<hostVars, row, nodeVars, keyVars, minted, intent, races, forced, ops>>

\* The append of our node's line: it is best effort.
LearnRead(p) ==
    /\ At(p, "read_known")
    /\ ReadKnown(p, "ip")
    /\ job' = [job EXCEPT ![p].pc = "write_known"]
    /\ keyTrouble' = IF Overlaps(p) THEN keyTrouble \cup {"hosts"} ELSE keyTrouble
    /\ UNCHANGED <<site, row, nodeVars, keyVars, minted, intent, races, forced, ops, faults>>

LearnWrite(p, done) ==
    /\ At(p, "write_known")
    /\ WriteKnown(p, done)
    /\ job' = [job EXCEPT ![p].pc = "upload_agent"]
    /\ IF done THEN UNCHANGED <<faults, keyTrouble>>
       ELSE Fault /\ keyTrouble' = keyTrouble \cup {"hosts"}
    /\ UNCHANGED <<site, row, nodeVars, keyVars, minted, intent, races, forced, ops>>

\* uploadAgent: the rename of UploadAndSwap leaves the old binary or the whole
\* new one, also under a running agent, so that only its failure matters here.
UploadAgent(p, ok) ==
    /\ At(p, "upload_agent")
    /\ Continue(p, ok, To(p, "write_env"))
    /\ UNCHANGED <<hostVars, row, nodeVars, keyVars, minted, intent, history, ops>>

\* writeAgentEnv: a failure may leave the old file, an empty one or the new one,
\* and goes unreported when the last command of the script, chmod, succeeds.
WriteEnv(p, content, ok) ==
    LET unreported == ok /\ content # job[p].bearer IN
    /\ At(p, "write_env")
    /\ content \in {env, None, job[p].bearer}
    /\ env' = content
    /\ IF unreported
       THEN /\ Fault
            /\ job' = [job EXCEPT ![p].pc = "restart"]
            /\ races' = races \cup {"unreported"}
       ELSE /\ Continue(p, ok, To(p, "restart"))
            /\ UNCHANGED races
    /\ UNCHANGED <<hostVars, row, agent, unit, keyVars, minted, intent, keyTrouble, forced, ops>>

\* writeMTLSCerts and installSystemdUnit, which restarts the agent; then the
\* post-install hook of a password install, if there is an envelope, or verify.
RestartUnit(p, done, ok) ==
    LET hook == job[p].auth = "password" /\ site.envelope IN
    /\ At(p, "restart")
    /\ ok => done
    /\ agent' = IF done THEN env ELSE agent
    /\ unit' = (unit \/ done)
    /\ Continue(p, ok, [To(p, IF hook THEN "persist" ELSE "verify") EXCEPT !.auth = "operator"])
    /\ UNCHANGED <<hostVars, row, env, keyVars, minted, intent, history, ops>>

\* generateAndPushKey: the sealed key is written to the row first ...
PersistKey(p, done, ok) ==
    LET seal == job[p].seal IN
    /\ At(p, "persist")
    /\ ok => done
    /\ done => row.state # "gone"
    /\ minted < MaxMints
    /\ minted' = minted + 1
    /\ row' = IF done THEN [row EXCEPT !.stored = minted + 1, !.seal = seal] ELSE row
    /\ Continue(p, ok, [To(p, "upload") EXCEPT !.key = minted + 1])
    /\ keyTrouble' = keyTrouble
           \cup (IF done /\ ~ok THEN {"broken"} ELSE {})
           \cup (IF done /\ ~(site.envelope /\ seal = "age") THEN {"sealed"} ELSE {})
           \cup (IF \E q \in Procs \ {p} : Pushing(q) THEN {"overlap"} ELSE {})
    /\ UNCHANGED <<hostVars, nodeVars, keyVars, intent, races, forced, ops>>

\* ... then the public key is uploaded to a fixed path, without a newline ...
UploadKey(p, content, ok) ==
    /\ At(p, "upload")
    /\ content \in Uploaded(pubfile, job[p].key)
    /\ ok => content = job[p].key
    /\ pubfile' = content
    /\ Continue(p, ok, [To(p, "append") EXCEPT !.key = None])
    /\ keyTrouble' = IF ok THEN keyTrouble ELSE keyTrouble \cup {"broken"}
    /\ UNCHANGED <<hostVars, row, nodeVars, authorised, openLine, minted, intent, races,
                   forced, ops>>

\* cat file >> authorized_keys: it runs on from a last line without newline,
\* and then neither key is on a line of its own.
Append(k) ==
    IF openLine = None
    THEN authorised' = authorised \cup ({k} \ {Garbage}) /\ openLine' = k
    ELSE authorised' = authorised \ {openLine} /\ openLine' = Garbage

\* Bug variant of AppendKey: the file is removed before it is appended.
AppendKeyRemoved(p, done, ok) ==
    /\ At(p, "append")
    /\ ok => done
    /\ pubfile' = IF done THEN None ELSE pubfile
    /\ Continue(p, ok, IF job[p].kind = "rotate" THEN Idle ELSE To(p, "verify"))
    /\ UNCHANGED <<hostVars, row, nodeVars, authorised, openLine, minted, intent, history, ops>>

\* ... and a constant command appends whatever is at that path and removes
\* it.  A file that is not there is no error.
AppendKey(p, done, ok) ==
    LET new == done /\ pubfile # None /\ pubfile \notin authorised IN
    /\ At(p, "append")
    /\ ok => done
    /\ IF new THEN Append(pubfile) ELSE UNCHANGED <<authorised, openLine>>
    /\ pubfile' = IF done THEN None ELSE pubfile
    /\ Continue(p, ok, IF job[p].kind = "rotate" THEN Idle ELSE To(p, "verify"))
    /\ keyTrouble' = keyTrouble
           \cup (IF ok THEN {} ELSE {"broken"})
           \cup (IF new /\ openLine # None THEN {"glued"} ELSE {})
    /\ UNCHANGED <<hostVars, row, nodeVars, minted, intent, races, forced, ops>>

\* verify: systemctl reports the agent active, as it does of one that has just
\* been started and is about to give up for lack of a bearer.
Verify(p, ok) ==
    /\ At(p, "verify")
    /\ Continue(p, ok, To(p, "set_bearer"))
    /\ UNCHANGED <<hostVars, row, nodeVars, keyVars, minted, intent, history, ops>>

\* parseAgentEnvBearer: an empty value is an error.
Parses(content) == content # None

\* RefreshAgentBearer: cat agent.env.
ReadEnv(p, ok) ==
    /\ At(p, "read_env")
    /\ ok => Parses(env)
    /\ IF Parses(env) THEN Continue(p, ok, [To(p, "set_bearer") EXCEPT !.bearer = env])
       ELSE /\ job' = [job EXCEPT ![p] = Idle]
            /\ UNCHANGED faults
    /\ UNCHANGED <<hostVars, row, nodeVars, keyVars, minted, intent, history, ops>>

\* Bug variant of SetBearer: Provision goes on to "online" when it fails.
SetBearerIgnored(p, done, ok) ==
    /\ At(p, "set_bearer")
    /\ ok => done
    /\ done => row.state # "gone"
    /\ row' = IF done THEN [row EXCEPT !.bearer = job[p].bearer] ELSE row
    /\ IF ok THEN UNCHANGED faults ELSE Fault
    /\ job' = [job EXCEPT ![p] = IF @.kind = "provision"
                 THEN [@ EXCEPT !.pc = "read_row", !.target = "online"] ELSE Idle]
    /\ UNCHANGED <<hostVars, nodeVars, keyVars, minted, intent, history, ops>>

\* SetAgentBearer: a single-column write; Provision is "online" if it succeeds.
SetBearer(p, done, ok) ==
    /\ At(p, "set_bearer")
    /\ ok => done
    /\ done => row.state # "gone"
    /\ row' = IF done THEN [row EXCEPT !.bearer = job[p].bearer] ELSE row
    /\ Continue(p, ok, IF job[p].kind = "provision"
                       THEN [To(p, "read_row") EXCEPT !.target = "online", !.bearer = None]
                       ELSE Idle)
    /\ UNCHANGED <<hostVars, nodeVars, keyVars, minted, intent, history, ops>>

\* Bug variant of ReadRow: the transport takes its default.
ReadRowDefaults(p, ok) ==
    /\ At(p, "read_row")
    /\ Continue(p, ok, [To(p, "write_row") EXCEPT
                !.target = IF @ = "keep" THEN row.state ELSE @, !.transport = "http"])
    /\ ok => row.state # "gone"
    /\ UNCHANGED <<hostVars, row, nodeVars, keyVars, minted, intent, history, ops>>

\* nodes.Update reads the row and patches it in memory: a state left alone is
\* the one just read ...
Patched(j) == [j EXCEPT !.target = IF @ = "keep" THEN row.state ELSE @,
                        !.transport = row.transport]

\* ... for Provision through BootstrapNodeProvider.Update, which gives it the
\* new state alone ...
ReadRow(p, ok) ==
    /\ At(p, "read_row")
    /\ ok => row.state # "gone"
    /\ Continue(p, ok, Patched(To(p, "write_row")))
    /\ UNCHANGED <<hostVars, row, nodeVars, keyVars, minted, intent, history, ops>>

\* ... and the row is written back whole, except for the bearer and the key.  Provision
\* asks the state machine first and ignores its answer.
WriteRow(p, done, ok) ==
    LET j == job[p] IN
    /\ At(p, "write_row")
    /\ ok => done
    /\ done => row.state # "gone"
    /\ row' = IF done THEN [row EXCEPT !.state = j.target, !.transport = j.transport] ELSE row
    /\ forced' = (forced \/ (j.kind = "update" /\ done
                             /\ j.target = "online" /\ row.state # "online"))
    /\ Continue(p, ok, Idle)
    /\ UNCHANGED <<hostVars, nodeVars, keyVars, minted, intent, races, keyTrouble, ops>>

\* ... and for each of the others reads the row twice more, in rotateOne and
\* RotateTransport, and does nothing if it is on target by now.
Recheck(p, ok) ==
    /\ At(p, "recheck")
    /\ ok => row.state # "gone"
    /\ Continue(p, ok, IF row.transport = job[p].transport THEN Idle
                       ELSE To(p, "set_transport"))
    /\ UNCHANGED <<hostVars, row, nodeVars, keyVars, minted, intent, history, ops>>

\* SetAgentTransport: a single-column write.
SetTransport(p, done, ok) ==
    LET t == job[p].transport IN
    /\ At(p, "set_transport")
    /\ ok => done
    /\ done => row.state # "gone"
    /\ row' = IF done THEN [row EXCEPT !.transport = t] ELSE row
    /\ intent' = IF done THEN t ELSE intent
    /\ races' = IF done /\ \E q \in Procs : At(q, "write_row")
                THEN races \cup {"transport"} ELSE races
    /\ Continue(p, ok, Idle)
    /\ UNCHANGED <<hostVars, nodeVars, keyVars, minted, keyTrouble, forced, ops>>

-----------------------------------------------------------------------------
\* systemd restarts a crashed agent, which loads agent.env anew.
AgentRestart ==
    /\ unit
    /\ agent # env
    /\ agent' = env
    /\ UNCHANGED <<hostVars, row, env, unit, keyVars, job, minted, intent, history, ops, faults>>

\* The panel dies, and its jobs end where they stand; or a command does.
Crash(dead) ==
    LET ends == IF dead = "panel" THEN {p \in Procs : Busy(p) /\ ~job[p].cli}
                ELSE {p \in {dead} : job[p].cli}
        learning == {p \in ends : job[p].pc \in {"read_known", "write_known"}}
    IN
    /\ ends # {}
    /\ Fault
    /\ job' = [p \in Procs |-> IF p \in ends THEN Idle ELSE job[p]]
    /\ draft' = [w \in Writers |-> IF w \in ends THEN {} ELSE draft[w]]
    /\ keyTrouble' = keyTrouble
           \cup (IF \E p \in ends : Pushing(p) THEN {"broken"} ELSE {})
           \cup (IF learning # {} THEN {"hosts"} ELSE {})
    /\ UNCHANGED <<site, known, row, nodeVars, keyVars, minted, intent, races, forced, ops>>

\* A provision of another node appends to known_hosts.
ElsewhereReads ==
    /\ draft[Elsewhere] = {} /\ "other" \notin known
    /\ ops < MaxOps
    /\ ops' = ops + 1
    /\ ReadKnown(Elsewhere, "other")
    /\ keyTrouble' = IF Overlaps(Elsewhere) THEN keyTrouble \cup {"hosts"} ELSE keyTrouble
    /\ UNCHANGED <<site, row, nodeVars, keyVars, job, minted, intent, races, forced, faults>>

ElsewhereWrites ==
    /\ draft[Elsewhere] # {}
    /\ WriteKnown(Elsewhere, TRUE)
    /\ UNCHANGED <<site, row, nodeVars, keyVars, job, minted, intent, history, ops, faults>>

\* NewClientFactory dials the node's address and SSH port, which is an IP address
\* or a host name; without its settings there is no envelope.
Sites == [envelope : BOOLEAN, dialled : {"ip", "name"}]

\* A node just created, on a host whose authorized_keys may lack a last newline.
Init ==
    /\ site \in Sites
    /\ InitKnown(site.dialled)
    /\ row = [state |-> "new", bearer |-> None, stored |-> None, seal |-> "age",
              transport |-> "http"]
    /\ env = None /\ agent = None /\ unit = FALSE
    /\ authorised = {}
    /\ openLine \in {None, Garbage}
    /\ pubfile = None
    /\ job = [p \in Procs |-> Idle]
    /\ minted = 0
    /\ intent = "http"
    /\ races = {} /\ keyTrouble = {} /\ forced = FALSE
    /\ ops = 0 /\ faults = 0

Start(p) ==
    \/ \E r \in ProvisionRequests : BeginProvision(p, r)
    \/ BeginRotate(p)
    \/ \E seal \in Seals : BeginRotateCLI(p, seal)
    \/ BeginRefresh(p)
    \/ \E target \in Targets : BeginUpdate(p, target)
    \/ \E t \in Transports : BeginTransport(p, t)

Step(p) ==
    \/ LearnRead(p)
    \/ \E done \in BOOLEAN : LearnWrite(p, done)
    \/ \E ok \in BOOLEAN :
          \/ Connect(p, ok)
          \/ UploadAgent(p, ok)
          \/ Verify(p, ok)
          \/ ReadEnv(p, ok)
          \/ ReadRow(p, ok)
          \/ Recheck(p, ok)
    \/ \E content \in 0..MaxMints, ok \in BOOLEAN : WriteEnv(p, content, ok)
    \/ \E content \in 0..Garbage, ok \in BOOLEAN : UploadKey(p, content, ok)
    \/ \E done, ok \in BOOLEAN :
          \/ RestartUnit(p, done, ok)
          \/ PersistKey(p, done, ok)
          \/ AppendKey(p, done, ok)
          \/ SetBearer(p, done, ok)
          \/ WriteRow(p, done, ok)
          \/ SetTransport(p, done, ok)

Next ==
    \/ \E p \in Procs : Start(p) \/ Step(p)
    \/ Delete
    \/ AgentRestart
    \/ \E dead \in Procs \cup {"panel"} : Crash(dead)
    \/ ElsewhereReads
    \/ ElsewhereWrites

Spec == Init /\ [][Next]_vars

-----------------------------------------------------------------------------
Tokens == 0..MaxMints

NodeRow == [state : NodeStates \cup {"gone"}, bearer : Tokens, stored : Tokens,
            seal : Seals, transport : Transports]

Places == {"idle", "connect", "read_known", "write_known", "upload_agent", "write_env",
           "restart", "persist", "upload", "append", "verify", "read_env", "set_bearer",
           "read_row", "write_row", "recheck", "set_transport"}

Job ==
    [pc : Places,
     kind : {"none", "provision", "rotate", "refresh", "update", "transport"},
     cli : BOOLEAN, pinned : BOOLEAN,
     auth : {"operator", "password", "key", "stored"},
     had : Tokens, key : Tokens, seal : Seals, bearer : Tokens,
     target : NodeStates \cup {"keep"}, transport : Transports]

TypeOK ==
    /\ site \in Sites
    /\ known \subseteq Lines /\ draft \in [Writers -> SUBSET Lines]
    /\ row \in NodeRow
    /\ env \in Tokens /\ agent \in Tokens /\ unit \in BOOLEAN
    /\ authorised \subseteq 1..MaxMints
    /\ openLine \in 0..Garbage /\ pubfile \in 0..Garbage
    /\ job \in [Procs -> Job]
    /\ minted \in Tokens
    /\ intent \in Transports
    /\ races \subseteq {"pairing", "transport", "unreported"}
    /\ keyTrouble \subseteq {"broken", "overlap", "glued", "hosts", "sealed"}
    /\ forced \in BOOLEAN
    /\ ops \in 0..MaxOps /\ faults \in 0..MaxFaults

\* A node the panel shows as online serves the bearer of its row: whatever
\* steps of Provision or RefreshAgentBearer failed, and wherever the panel
\* crashed, the state becomes "online" only with the three copies of the bearer
\* equal, and they stay so until a next Provision.  Overlapping provisions and
\* a write of agent.env that failed unreported (races), and a state put by hand
\* (forced), are the only exceptions.
OnlinePaired ==
    row.state = "online" /\ races \subseteq {"transport"} /\ ~forced
        => row.bearer = env /\ agent = env /\ env # None

\* The panel can come back to a node with the key it has stored, which is what
\* the next Provision and RefreshAgentBearer do: the key decrypts, the node
\* accepts it, and known_hosts has the node's host key under the address
\* dialled.  Unless a push of a key broke off after the row was written,
\* overlapped another push, or was appended to a line that had no newline; the
\* CLI stored the key unsealed; or the host key was trusted on first use under
\* a host name, or its append failed or overlapped another one.
StoredKeyUsable ==
    row.stored # None /\ keyTrouble = {} /\ (\A p \in Procs : ~Pushing(p))
        => row.stored \in authorised /\ Decrypts /\ site.dialled \in known

\* A RotateTransport is undone by the whole-row write of Update or Provision
\* only if it came between that write and its read.
TransportKept == "transport" \notin races => row.transport = intent
=============================================================================
