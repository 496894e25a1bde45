----------------------------- MODULE AgentLink -----------------------------
(***************************************************************************)
(* The panel and the agent of one node: the calls of the node's applier    *)
(* over internal/agentgrpc, with HTTP or gRPC as AEGIS_AGENT_TRANSPORT     *)
(* says, and the provisioning of the node, as far as the certificate and   *)
(* the bearer go (NodeProvisioning has the rest of it).                    *)
(*                                                                         *)
(* A call is answered 401 when the row's bearer is not the one the agent   *)
(* was started with; the panel then reads agent.env over SSH and tries     *)
(* once more.  Over gRPC the call asks for the node's certificate too, and *)
(* may be the one who issues it; no such call arrives (see Reached).       *)
(***************************************************************************)
EXTENDS AgentCA, AgentApply

CONSTANTS MaxProvisions,  \* bound: provisionings of the node
          MaxFaults       \* bound: failures of any kind

ASSUME AgentLinkAssumption == MaxProvisions \in Nat /\ MaxFaults \in Nat

VARIABLES transport,  \* AEGIS_AGENT_TRANSPORT
          online,     \* the state of the nodes row is online
          wired,      \* the node was online when the panel started
          rowBearer,  \* nodes.agent_bearer
          call,       \* the call of the applier
          calls,      \* calls so far; the present one sends that configuration
          prov,       \* prov[j]: the j-th provisioning; it mints bearer j
          faults,
          acked,      \* history: the last configuration reported as applied
          moved,      \* history: in this call the agent's bearer was not agent.env's
          fresh,      \* history: the node was provisioned since the panel started
          broken,     \* history: a push of certificate files has broken off
          mintRace    \* history: two have asked for the certificate at once

linkVars == <<transport, online, wired, rowBearer, call, calls, prov, faults,
              acked, moved, fresh, broken, mintRace>>
vars == <<caVars, agentVars, linkVars>>

Job == 1..MaxProvisions
ByHand == MaxProvisions + 1
Bearer == 0..ByHand
NoCall == [pc |-> "idle", tries |-> 0, bearer |-> None, verdict |-> "none"]
NotBegun == [pc |-> "none", cert |-> NoCert]
Ended == {"none", "ok", "failed"}
Pushing(j) == prov[j].pc \in {"key", "ca"}

Fault == faults < MaxFaults /\ faults' = faults + 1
Failing(ok) == IF ok THEN UNCHANGED faults ELSE Fault
Over(verdict) == call' = [call EXCEPT !.pc = "idle", !.verdict = verdict]

\* Somebody is between the question for the certificate and the answer.
Issuing == call.pc = "issue" \/ \E j \in Job : prov[j].pc = "issue"

-----------------------------------------------------------------------------
(* The call: httpTransport.Apply and grpcTransport.Apply.                  *)

BeginCall ==
  /\ Up(Panel) /\ wired /\ call.pc = "idle" /\ calls < MaxCalls
  /\ calls' = calls + 1
  /\ call' = [NoCall EXCEPT !.pc = IF transport = "grpc" THEN "dial" ELSE "send", !.tries = 1]
  /\ moved' = (agent.bearer # env)
  /\ UNCHANGED <<caVars, agentVars, transport, online, wired, rowBearer, prov, faults,
                 acked, fresh, broken, mintRace>>

\* LoadMTLS looks the certificate up ...
Dial ==
  /\ call.pc = "dial"
  /\ CASE Lookup = "found"   -> call' = [call EXCEPT !.pc = "send"] /\ UNCHANGED mintRace
       [] Lookup = "missing" -> /\ call' = [call EXCEPT !.pc = "issue"]
                                /\ mintRace' = (mintRace \/ Issuing)
       [] Lookup = "error"   -> Over("failed") /\ UNCHANGED mintRace
  /\ UNCHANGED <<caVars, agentVars, transport, online, wired, rowBearer, calls, prov,
                 faults, acked, moved, fresh, broken>>

\* ... and issues it when there is none.
IssueForCall ==
  /\ call.pc = "issue"
  /\ Issue
  /\ call' = [call EXCEPT !.pc = "send"]
  /\ UNCHANGED <<agentVars, transport, online, wired, rowBearer, calls, prov,
                 faults, acked, moved, fresh, broken, mintRace>>

\* GetBearer reads the row for the first attempt.
Send ==
  /\ call.pc = "send"
  /\ req' = [req EXCEPT ![calls] =
       [at |-> "transit", left |-> FALSE,
        bearer |-> IF call.tries = 1 THEN rowBearer ELSE call.bearer,
        grpc |-> transport = "grpc"]]
  /\ call' = [call EXCEPT !.pc = "wait"]
  /\ UNCHANGED <<caVars, files, env, agent, disk, running, crossed, transport, online,
                 wired, rowBearer, calls, prov, faults, acked, moved, fresh, broken, mintRace>>

Answer ==
  LET at == req[calls].at IN
  /\ call.pc = "wait"
  /\ at \in {"done", "failed", "refused", "denied"}
  /\ CASE at = "done"                      -> Over("ok")
       [] at = "denied" /\ call.tries = 1  -> call' = [call EXCEPT !.pc = "refresh"]
       [] at = "denied" /\ call.tries = 2  -> Over("stale")
       [] OTHER                            -> Over("failed")
  /\ acked' = IF at = "done" THEN calls ELSE acked
  /\ UNCHANGED <<caVars, agentVars, transport, online, wired, rowBearer, calls, prov,
                 faults, moved, fresh, broken, mintRace>>

\* The connection breaks or, on gRPC, the 30 seconds are over.
HangUp ==
  /\ call.pc = "wait"
  /\ Fault
  /\ Over("failed")
  /\ req' = [req EXCEPT ![calls].left = TRUE]
  /\ UNCHANGED <<caVars, files, env, agent, disk, running, crossed, transport, online,
                 wired, rowBearer, calls, prov, acked, moved, fresh, broken, mintRace>>

\* Bug variant of Refresh: the bearer of the row is taken for the node's.
RefreshFromRow(ok) ==
  /\ call.pc = "refresh"
  /\ Failing(ok)
  /\ IF ok /\ env # None THEN call' = [call EXCEPT !.pc = "store", !.bearer = rowBearer]
     ELSE Over("failed")
  /\ UNCHANGED <<caVars, agentVars, transport, online, wired, rowBearer, calls, prov,
                 acked, moved, fresh, broken, mintRace>>

\* RefreshAgentBearer: agent.env is read over SSH; an empty value is an error ...
Refresh(ok) ==
  /\ call.pc = "refresh"
  /\ Failing(ok)
  /\ IF ok /\ env # None THEN call' = [call EXCEPT !.pc = "store", !.bearer = env]
     ELSE Over("failed")
  /\ UNCHANGED <<caVars, agentVars, transport, online, wired, rowBearer, calls, prov,
                 acked, moved, fresh, broken, mintRace>>

\* ... and written to the row, and the call is made again.
StoreBearer(ok) ==
  /\ call.pc = "store"
  /\ Failing(ok)
  /\ rowBearer' = IF ok THEN call.bearer ELSE rowBearer
  /\ IF ok THEN call' = [call EXCEPT !.pc = "send", !.tries = 2] ELSE Over("failed")
  /\ UNCHANGED <<caVars, agentVars, transport, online, wired, calls, prov,
                 acked, moved, fresh, broken, mintRace>>

-----------------------------------------------------------------------------
(* Provision and Install.                                                  *)

\* mintMTLSCerts asks for the certificate; its failure is swallowed.
BeginProvision(j) ==
  /\ Up(Panel) /\ ~online
  /\ prov[j].pc = "none"
  /\ \A i \in Job : i < j => prov[i].pc # "none"
  /\ prov' = [prov EXCEPT ![j] =
       CASE Lookup = "found"   -> [pc |-> "env", cert |-> certRow]
         [] Lookup = "missing" -> [pc |-> "issue", cert |-> NoCert]
         [] Lookup = "error"   -> [pc |-> "env", cert |-> NoCert]]
  /\ mintRace' = (mintRace \/ (Lookup = "missing" /\ Issuing))
  /\ UNCHANGED <<caVars, agentVars, transport, online, wired, rowBearer, call, calls,
                 faults, acked, moved, fresh, broken>>

IssueForNode(j) ==
  /\ prov[j].pc = "issue"
  /\ Issue
  /\ prov' = [prov EXCEPT ![j] = [pc |-> "env", cert |-> NewCert]]
  /\ UNCHANGED <<agentVars, transport, online, wired, rowBearer, call, calls,
                 faults, acked, moved, fresh, broken, mintRace>>

\* A step of j ends; after a failed one the node is to be put offline.
Then(j, ok, pc) ==
  /\ Failing(ok)
  /\ prov' = [prov EXCEPT ![j].pc = IF ok THEN pc ELSE "offline"]
  /\ UNCHANGED online

NoteMove == moved' = (moved \/ env' # env \/ agent'.bearer # agent.bearer)

\* Connect, uploadAgent and writeAgentEnv; without a certificate no file follows.
WriteEnv(j, done, ok) ==
  /\ prov[j].pc = "env"
  /\ ok => done
  /\ env' = IF done THEN j ELSE env
  /\ Then(j, ok, IF prov[j].cert = NoCert THEN "unit" ELSE "crt")
  /\ UNCHANGED <<caVars, files, agent, req, disk, running, crossed, transport, wired,
                 rowBearer, call, calls, acked, fresh, broken, mintRace>>
  /\ NoteMove

\* Bug variant of PushFile: a key that is there is left.
PushFileKeyOnce(j, done, ok) ==
  LET c == prov[j].cert
      content == [crt |-> c, key |-> c.pair, ca |-> c.root]
      next == [crt |-> "key", key |-> "ca", ca |-> "unit"]
      part == prov[j].pc
  IN
  /\ part \in {"crt", "key", "ca"}
  /\ ok => done
  /\ files' = IF done /\ (part # "key" \/ files.key = None)
              THEN [files EXCEPT ![part] = content[part]] ELSE files
  /\ Then(j, ok, next[part])
  /\ broken' = (broken \/ ~ok)
  /\ UNCHANGED <<caVars, env, agent, req, disk, running, crossed, transport, wired,
                 rowBearer, call, calls, acked, moved, fresh, mintRace>>

\* writeMTLSCerts: each file is uploaded and renamed into place.
PushFile(j, done, ok) ==
  LET c == prov[j].cert
      content == [crt |-> c, key |-> c.pair, ca |-> c.root]
      next == [crt |-> "key", key |-> "ca", ca |-> "unit"]
      part == prov[j].pc
  IN
  /\ part \in {"crt", "key", "ca"}
  /\ ok => done
  /\ files' = IF done THEN [files EXCEPT ![part] = content[part]] ELSE files
  /\ Then(j, ok, next[part])
  /\ broken' = (broken \/ ~ok)
  /\ UNCHANGED <<caVars, env, agent, req, disk, running, crossed, transport, wired,
                 rowBearer, call, calls, acked, moved, fresh, mintRace>>

\* Bug variant of RestartAgent: an agent that runs is left running.
RestartAgentIfDown(j, done, ok) ==
  /\ prov[j].pc = "unit"
  /\ ok => done
  /\ IF done /\ agent.state \in {"none", "failed"} THEN Exec ELSE UNCHANGED <<agent, req>>
  /\ Then(j, ok, "verify")
  /\ UNCHANGED <<caVars, files, env, disk, running, crossed, transport, wired,
                 rowBearer, call, calls, acked, fresh, broken, mintRace>>
  /\ NoteMove

\* installSystemdUnit restarts the agent.
RestartAgent(j, done, ok) ==
  /\ prov[j].pc = "unit"
  /\ ok => done
  /\ IF done THEN Exec ELSE UNCHANGED <<agent, req>>
  /\ Then(j, ok, "verify")
  /\ UNCHANGED <<caVars, files, env, disk, running, crossed, transport, wired,
                 rowBearer, call, calls, acked, fresh, broken, mintRace>>
  /\ NoteMove

\* verify: the unit is active from the moment its process is forked.
Verify(j, ok) ==
  /\ prov[j].pc = "verify"
  /\ ok => agent.state \in {"starting", "serving"}
  /\ IF ok \/ agent.state # "serving" THEN UNCHANGED faults ELSE Fault
  /\ prov' = [prov EXCEPT ![j].pc = IF ok THEN "bearer" ELSE "offline"]
  /\ UNCHANGED <<caVars, agentVars, transport, online, wired, rowBearer, call, calls,
                 acked, moved, fresh, broken, mintRace>>

\* SetAgentBearer, when the installation was a success ...
SetBearer(j, done, ok) ==
  /\ prov[j].pc = "bearer"
  /\ ok => done
  /\ Then(j, ok, "online")
  /\ rowBearer' = IF done THEN j ELSE rowBearer
  /\ UNCHANGED <<caVars, agentVars, transport, wired, call, calls,
                 acked, moved, fresh, broken, mintRace>>

\* ... and the state of the row, after a failure too.
SetState(j, done, ok) ==
  /\ prov[j].pc \in {"online", "offline"}
  /\ ok => done
  /\ Failing(ok)
  /\ online' = IF done THEN prov[j].pc = "online" ELSE online
  /\ prov' = [prov EXCEPT ![j].pc = IF ok /\ @ = "online" THEN "ok" ELSE "failed"]
  /\ fresh' = (fresh \/ (ok /\ prov[j].pc = "online" /\ prov[j].cert # NoCert))
  /\ UNCHANGED <<caVars, agentVars, transport, wired, rowBearer, call, calls,
                 acked, moved, broken, mintRace>>

\* The operator puts the node offline, as a new provisioning requires.
PutOffline ==
  /\ online
  /\ online' = FALSE
  /\ UNCHANGED <<caVars, agentVars, transport, wired, rowBearer, call, calls, prov, faults,
                 acked, moved, fresh, broken, mintRace>>

-----------------------------------------------------------------------------
\* The panel starts: an applier for the node if it is online now.
StartPanel ==
  /\ ReadRoot(Panel)
  /\ wired' = online
  /\ UNCHANGED <<agentVars, transport, online, rowBearer, call, calls, prov, faults,
                 acked, moved, fresh, broken, mintRace>>

\* The panel stops or dies: what it was doing ends where it stands.
StopPanel ==
  /\ StopProcess(Panel)
  /\ call' = IF call.pc = "idle" THEN call ELSE [call EXCEPT !.pc = "idle", !.verdict = "failed"]
  /\ req' = IF call.pc = "wait" THEN [req EXCEPT ![calls].left = TRUE] ELSE req
  /\ broken' = (broken \/ \E j \in Job : Pushing(j))
  /\ prov' = [j \in Job |-> IF prov[j].pc \in Ended THEN prov[j]
                            ELSE [prov[j] EXCEPT !.pc = "failed"]]
  /\ fresh' = FALSE
  /\ UNCHANGED <<files, env, agent, disk, running, crossed, transport, online, wired,
                 rowBearer, calls, faults, acked, moved, mintRace>>

OtherPanel(p) ==
  /\ ReadRoot(p) \/ CreateRoot(p) \/ StopProcess(p)
  /\ UNCHANGED <<agentVars, linkVars>>

Init ==
  /\ CAInit /\ AgentInit
  /\ transport \in {"http", "grpc"}
  /\ online = FALSE /\ wired = FALSE /\ rowBearer = None
  /\ call = NoCall /\ calls = 0
  /\ prov = [j \in Job |-> NotBegun]
  /\ faults = 0 /\ acked = 0
  /\ moved = FALSE /\ fresh = FALSE /\ broken = FALSE /\ mintRace = FALSE

CallStep ==
  \/ BeginCall \/ Dial \/ IssueForCall \/ Send \/ Answer \/ HangUp
  \/ \E ok \in BOOLEAN : Refresh(ok) \/ StoreBearer(ok)

ProvisionStep(j) ==
  \/ BeginProvision(j) \/ IssueForNode(j)
  \/ \E ok \in BOOLEAN : Verify(j, ok)
  \/ \E done, ok \in BOOLEAN :
       WriteEnv(j, done, ok) \/ PushFile(j, done, ok) \/ RestartAgent(j, done, ok)
         \/ SetBearer(j, done, ok) \/ SetState(j, done, ok)

\* What happens on the node by itself.
NodeStep ==
  /\ \/ /\ \/ Load \/ Respawn
           \/ \E v \in Version : Accept(v) \/ Vanish(v) \/ Write(v) \/ Reload(v)
           \/ \E v \in Version, read \in BOOLEAN : req[v].left /\ ReloadFailed(v, read)
        /\ UNCHANGED faults
     \/ /\ Fault
        /\ \/ AgentCrash \/ Reboot \/ Regenerate(ByHand)
           \/ \E v \in Version : WriteFailed(v)
           \/ \E v \in Version, read \in BOOLEAN : ReloadFailed(v, read)
  /\ UNCHANGED <<caVars, transport, online, wired, rowBearer, call, calls, prov,
                 acked, fresh, broken, mintRace>>
  /\ NoteMove

Next ==
  \/ CallStep
  \/ \E j \in Job : ProvisionStep(j)
  \/ PutOffline
  \/ NodeStep
  \/ StartPanel \/ StopPanel
  \/ CreateRoot(Panel) /\ UNCHANGED <<agentVars, linkVars>>
  \/ \E p \in PanelProcess \ {Panel} : OtherPanel(p)

Spec == Init /\ [][Next]_vars

-----------------------------------------------------------------------------
TypeOK ==
  /\ CATypeOK
  /\ files \in [crt : Cert, key : Mint, ca : Mint]
  /\ env \in Bearer /\ rowBearer \in Bearer
  /\ agent \in [state : {"none", "starting", "serving", "failed"}, bearer : Bearer, cert : Cert]
  /\ agent.state = "serving" => agent.cert # NoCert
  /\ req \in [Version ->
       [at : {"none", "transit", "refused", "denied", "accepted", "written", "done", "failed"},
        bearer : Bearer, grpc : BOOLEAN, left : BOOLEAN]]
  /\ disk \in Config /\ running \in Config /\ acked \in Config /\ calls \in Config
  /\ transport \in {"http", "grpc"}
  /\ call \in [pc : {"idle", "dial", "issue", "send", "wait", "refresh", "store"},
               tries : 0..2, bearer : Bearer, verdict : {"none", "ok", "stale", "failed"}]
  /\ prov \in [Job -> [pc : {"none", "issue", "env", "crt", "key", "ca", "unit", "verify",
                             "bearer", "online", "offline", "ok", "failed"}, cert : Cert]]
  /\ {online, wired, moved, fresh, broken, mintRace, crossed} \subseteq BOOLEAN
  /\ faults \in 0..MaxFaults

\* What the agent reported as applied stays applied: neither sing-box nor the
\* file it starts from goes back to an older configuration, whatever fails or
\* is restarted, unless a call the panel had given up was still under way at
\* the agent when a later one came in.
AckedStays == ~crossed => disk >= acked /\ running >= acked

\* A call ends with ErrAgentStaleBearer only if the agent's bearer was not the
\* one in agent.env at some time during it: otherwise the bearer read over SSH
\* is the right one, whoever writes the row meanwhile.
StaleOnlyIfMoved == call.verdict = "stale" => moved

\* Certificate and key on the node belong together whenever nobody is pushing
\* them, however many provisionings ran side by side, unless one broke off or
\* two callers of EnsureNodeCerts had both found no certificate.
FilesMatch ==
  (\A j \in Job : ~Pushing(j)) /\ ~broken /\ ~mintRace => files.crt.pair = files.key

\* After a provisioning that reported success, an agent that serves presents a
\* certificate of the root the running panel trusts, until the panel restarts.
ServesTrusted ==
  fresh /\ agent.state = "serving" => agent.cert.root = cached[Panel]

\* Every panel process holds the root of the store, unless two of them looked
\* for it at the same time before there was one.
RootsAgree ==
  ~rootRace => \A p \in PanelProcess : Up(p) => cached[p] = rootRow
=============================================================================
