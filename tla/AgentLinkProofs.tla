-------------------------- MODULE AgentLinkProofs --------------------------
(***************************************************************************)
(* Proofs about the link between the panel and the agent of a node, for    *)
(* any numbers of panel processes, calls, provisionings and failures.      *)
(***************************************************************************)
EXTENDS AgentLink, TLAPS

-----------------------------------------------------------------------------
(* Types.                                                                  *)

Files == [crt : Cert, key : Mint, ca : Mint]
Process == [state : {"none", "starting", "serving", "failed"}, bearer : Bearer, cert : Cert]
Request == [at : {"none", "transit", "refused", "denied", "accepted", "written", "done", "failed"},
            bearer : Bearer, grpc : BOOLEAN, left : BOOLEAN]
Tries == 0..2
Call == [pc : {"idle", "dial", "issue", "send", "wait", "refresh", "store"},
         tries : Tries, bearer : Bearer, verdict : {"none", "ok", "stale", "failed"}]
Provision == [pc : {"none", "issue", "env", "crt", "key", "ca", "unit", "verify",
                    "bearer", "online", "offline", "ok", "failed"}, cert : Cert]

NodeTypes ==
  /\ files \in Files /\ env \in Bearer
  /\ agent \in Process
  /\ agent.state = "serving" => agent.cert # NoCert
  /\ req \in [Version -> Request]
  /\ disk \in Config /\ running \in Config
  /\ crossed \in BOOLEAN

PanelTypes ==
  /\ rowBearer \in Bearer /\ transport \in {"http", "grpc"}
  /\ call \in Call /\ calls \in Config /\ acked \in Config
  /\ prov \in [Job -> Provision]
  /\ online \in BOOLEAN /\ wired \in BOOLEAN /\ moved \in BOOLEAN
  /\ fresh \in BOOLEAN /\ broken \in BOOLEAN /\ mintRace \in BOOLEAN
  /\ faults \in 0..MaxFaults

LEMMA TypeParts == TypeOK <=> CATypeOK /\ NodeTypes /\ PanelTypes
  BY DEF TypeOK, NodeTypes, PanelTypes, Files, Process, Request, Call, Provision, Tries

LEMMA Bounds ==
  /\ MaxMints \in Nat /\ MaxBoots \in Nat /\ MaxCalls \in Nat
  /\ MaxProvisions \in Nat /\ MaxFaults \in Nat /\ Panel \in PanelProcess
  /\ 0 \in Mint /\ 0 \in Config /\ 0 \in Bearer /\ NoCert \in Cert /\ Blank = NoCert
  /\ Absent = None /\ None = 0
  /\ Job \subseteq Bearer /\ ByHand \in Bearer
  /\ Version \subseteq Config
  <1>1. /\ MaxMints \in Nat /\ MaxBoots \in Nat /\ MaxCalls \in Nat
        /\ MaxProvisions \in Nat /\ MaxFaults \in Nat /\ Panel \in PanelProcess
    BY AgentCAAssumption, AgentApplyAssumption, AgentLinkAssumption
  <1>2. 0 \in Mint /\ 0 \in Config
    BY <1>1 DEF Mint, Config
  <1>3. 0 \in Bearer /\ Job \subseteq Bearer /\ ByHand \in Bearer
    BY <1>1 DEF Bearer, Job, ByHand
  <1>4. NoCert \in Cert /\ Blank = NoCert
    BY <1>2 DEF NoCert, Cert, Blank, Absent, None
  <1>5. Version \subseteq Config
    BY <1>1 DEF Version, Config
  <1>6. Absent = None /\ None = 0
    BY DEF Absent, None
  <1> QED
    BY <1>1, <1>2, <1>3, <1>4, <1>5, <1>6

-----------------------------------------------------------------------------
(* The root and the certificate.                                           *)

LEMMA CAInitTypes == CAInit => CATypeOK
  <1> SUFFICES ASSUME CAInit PROVE CATypeOK
    OBVIOUS
  <1>1. rootRow \in Mint /\ certRow \in Cert /\ minted \in Mint
    BY Bounds DEF CAInit
  <1>2. boots \in 0..MaxBoots
    BY Bounds DEF CAInit
  <1>3. cached \in [PanelProcess -> Mint]
    BY Bounds DEF CAInit
  <1>4. \A p \in PanelProcess : boot[p] = "down" /\ cached[p] = None
    BY DEF CAInit
  <1> QED
    BY <1>1, <1>2, <1>3, <1>4 DEF CAInit, CATypeOK, Up

LEMMA ReadRootTypes ==
  ASSUME CATypeOK, NEW p \in PanelProcess, ReadRoot(p)
  PROVE  CATypeOK'
  <1>1. boots' \in 0..MaxBoots
    BY Bounds DEF CATypeOK, ReadRoot
  <1>2. /\ boot' \in [PanelProcess -> {"down", "creating", "up"}]
        /\ cached' \in [PanelProcess -> Mint]
    BY DEF CATypeOK, ReadRoot
  <1>3. \A q \in PanelProcess : boot'[q] = "up" <=> cached'[q] # None
    <2> SUFFICES ASSUME NEW q \in PanelProcess PROVE boot'[q] = "up" <=> cached'[q] # None
      OBVIOUS
    <2>1. CASE q = p
      BY <2>1 DEF CATypeOK, ReadRoot
    <2>2. CASE q # p
      BY <2>2 DEF CATypeOK, ReadRoot, Up
    <2> QED
      BY <2>1, <2>2
  <1>4. rootRace' \in BOOLEAN
    BY DEF CATypeOK, ReadRoot
  <1> QED
    BY <1>1, <1>2, <1>3, <1>4 DEF CATypeOK, ReadRoot, Up

LEMMA CreateRootTypes ==
  ASSUME CATypeOK, NEW p \in PanelProcess, CreateRoot(p)
  PROVE  CATypeOK'
  <1>1. minted + 1 \in Mint /\ minted + 1 # None
    BY Bounds DEF CATypeOK, CreateRoot, Mint
  <1>2. /\ boot' \in [PanelProcess -> {"down", "creating", "up"}]
        /\ cached' \in [PanelProcess -> Mint]
    BY <1>1 DEF CATypeOK, CreateRoot
  <1>3. \A q \in PanelProcess : boot'[q] = "up" <=> cached'[q] # None
    BY <1>1 DEF CATypeOK, CreateRoot, Up
  <1> QED
    BY <1>1, <1>2, <1>3 DEF CATypeOK, CreateRoot, SaveRoot, Up

LEMMA StopTypes ==
  ASSUME CATypeOK, NEW p \in PanelProcess, StopProcess(p)
  PROVE  CATypeOK'
  <1>1. /\ boot' \in [PanelProcess -> {"down", "creating", "up"}]
        /\ cached' \in [PanelProcess -> Mint]
    BY Bounds DEF CATypeOK, StopProcess
  <1>2. \A q \in PanelProcess : boot'[q] = "up" <=> cached'[q] # None
    BY DEF CATypeOK, StopProcess, Up
  <1>3. rootRow' \in Mint /\ certRow' \in Cert
    BY Bounds DEF CATypeOK, StopProcess
  <1> QED
    BY <1>1, <1>2, <1>3 DEF CATypeOK, StopProcess, Up

LEMMA IssueTypes ==
  ASSUME CATypeOK, Issue
  PROVE  CATypeOK' /\ NewCert \in Cert /\ NewCert # NoCert /\ certRow' = NewCert
  <1>1. minted + 1 \in Mint /\ minted + 1 # None
    BY Bounds DEF CATypeOK, Issue, Mint
  <1>2. NewCert \in Cert /\ NewCert # NoCert
    BY <1>1, Bounds DEF CATypeOK, NewCert, Cert, NoCert
  <1> QED
    BY <1>1, <1>2 DEF CATypeOK, Issue, SaveNodeCerts, Up

LEMMA CAFrame == CATypeOK /\ UNCHANGED caVars => CATypeOK'
  BY DEF CATypeOK, caVars, Up

-----------------------------------------------------------------------------
(* The node.                                                               *)

LEMMA AgentInitTypes == AgentInit => NodeTypes
  <1> SUFFICES ASSUME AgentInit PROVE NodeTypes
    OBVIOUS
  <1>1. NoRequest \in Request
    BY Bounds DEF NoRequest, Request
  <1>2. files \in Files
    BY Bounds DEF AgentInit, Files
  <1>3. agent \in Process /\ agent.state = "none"
    BY Bounds DEF AgentInit, Process
  <1> QED
    BY <1>1, <1>2, <1>3, Bounds DEF AgentInit, NodeTypes

\* One field of a request at a time.
LEMMA Requests ==
  ASSUME NodeTypes, NEW v \in Version
  PROVE  /\ req[v] \in Request
         /\ \A at \in {"transit", "refused", "denied", "accepted", "written", "done", "failed"} : \A new :
              new = [req EXCEPT ![v].at = at] => new \in [Version -> Request]
         /\ \A new : new = [req EXCEPT ![v].left = TRUE] => new \in [Version -> Request]
  <1>1. req \in [Version -> Request]
    BY DEF NodeTypes
  <1>2. ASSUME NEW at \in {"transit", "refused", "denied", "accepted", "written", "done", "failed"},
               NEW new, new = [req EXCEPT ![v].at = at]
        PROVE  new \in [Version -> Request]
    <2>1. [req[v] EXCEPT !.at = at] \in Request
      BY <1>1 DEF Request
    <2>2. new = [req EXCEPT ![v] = [req[v] EXCEPT !.at = at]]
      BY <1>1, <1>2
    <2> QED
      BY <1>1, <2>1, <2>2
  <1>3. ASSUME NEW new, new = [req EXCEPT ![v].left = TRUE]
        PROVE  new \in [Version -> Request]
    <2>1. [req[v] EXCEPT !.left = TRUE] \in Request
      BY <1>1 DEF Request
    <2>2. new = [req EXCEPT ![v] = [req[v] EXCEPT !.left = TRUE]]
      BY <1>1, <1>3
    <2> QED
      BY <1>1, <2>1, <2>2
  <1> QED
    BY <1>1, <1>2, <1>3

LEMMA DroppedTypes ==
  ASSUME NodeTypes
  PROVE  /\ Dropped \in [Version -> Request]
         /\ \A v \in Version : /\ Dropped[v].bearer = req[v].bearer
                               /\ Dropped[v].at = IF req[v].at \in Handled THEN "failed"
                                                                           ELSE req[v].at
  <1>1. ASSUME NEW v \in Version
        PROVE  /\ Dropped[v] \in Request
               /\ Dropped[v].bearer = req[v].bearer
               /\ Dropped[v].at = IF req[v].at \in Handled THEN "failed" ELSE req[v].at
    <2>1. req[v] \in Request
      BY Requests
    <2>2. CASE req[v].at \in Handled
      <3>1. Dropped[v] = [req[v] EXCEPT !.at = "failed"]
        BY <2>2 DEF Dropped
      <3> QED
        BY <2>1, <2>2, <3>1 DEF Request
    <2>3. CASE req[v].at \notin Handled
      BY <2>1, <2>3 DEF Dropped
    <2> QED
      BY <2>2, <2>3
  <1>2. Dropped = [v \in Version |-> Dropped[v]]
    BY DEF Dropped
  <1> QED
    BY <1>1, <1>2

LEMMA ExecTypes ==
  ASSUME NodeTypes, Exec, UNCHANGED <<files, env, disk, crossed>>, running' \in Config
  PROVE  NodeTypes'
  <1>1. agent' \in Process /\ agent'.state = "starting"
    BY Bounds DEF Exec, Process, NodeTypes
  <1>2. req' \in [Version -> Request]
    BY DroppedTypes DEF Exec
  <1> QED
    BY <1>1, <1>2 DEF NodeTypes

\* What happens on the node by itself.
LEMMA LoadTypes ==
  ASSUME NodeTypes, Load
  PROVE  NodeTypes'
  <1>1. files.crt \in Cert /\ agent \in Process /\ files \in Files
    BY DEF NodeTypes, Files
  <1>2. CASE Loadable
    <2>1. files.crt # NoCert
      BY <1>2, Bounds DEF Loadable, NoCert
    <2>2. agent' = [agent EXCEPT !.state = "serving", !.cert = files.crt] /\ UNCHANGED req
      BY <1>2 DEF Load
    <2>3. agent' \in Process /\ agent'.cert = files.crt
      BY <1>1, <2>2 DEF Process
    <2> QED
      BY <2>1, <2>2, <2>3 DEF Load, NodeTypes
  <1>3. CASE ~Loadable
    <2>1. agent' = [agent EXCEPT !.state = "failed"] /\ req' = Dropped
      BY <1>3 DEF Load
    <2>2. agent' \in Process /\ agent'.state = "failed"
      BY <1>1, <2>1 DEF Process
    <2> QED
      BY <2>1, <2>2, DroppedTypes DEF Load, NodeTypes
  <1> QED
    BY <1>2, <1>3

LEMMA CrashTypes ==
  ASSUME NodeTypes, AgentCrash
  PROVE  NodeTypes'
  <1>1. agent' \in Process /\ agent'.state = "failed"
    BY DEF AgentCrash, Process, NodeTypes
  <1>2. req' \in [Version -> Request]
    BY DroppedTypes DEF AgentCrash
  <1> QED
    BY <1>1, <1>2 DEF AgentCrash, NodeTypes

LEMMA RequestTypes ==
  ASSUME NodeTypes, NEW v \in Version, NEW read \in BOOLEAN,
         Accept(v) \/ Vanish(v) \/ Write(v) \/ Reload(v) \/ WriteFailed(v) \/ ReloadFailed(v, read)
  PROVE  NodeTypes'
  <1>1. req' \in [Version -> Request]
    <2>1. PICK at \in {"transit", "refused", "denied", "accepted", "written", "done", "failed"} :
            req' = [req EXCEPT ![v].at = at]
      <3>1. Verdict(req[v]) \in {"refused", "denied", "accepted"}
        BY DEF Verdict
      <3>2. CASE Accept(v)
        BY <3>1, <3>2 DEF Accept
      <3>3. CASE ~Accept(v)
        BY <3>3 DEF Vanish, Write, Reload, WriteFailed, ReloadFailed
      <3> QED
        BY <3>2, <3>3
    <2> QED
      BY <2>1, Requests
  <1>2. disk' \in Config /\ running' \in Config
    BY Bounds DEF NodeTypes, Accept, Vanish, Write, Reload, WriteFailed, ReloadFailed
  <1>3. crossed' \in BOOLEAN
    BY DEF NodeTypes, Accept, Vanish, Write, Reload, WriteFailed, ReloadFailed
  <1>4. UNCHANGED <<files, env, agent>>
    BY DEF Accept, Vanish, Write, Reload, WriteFailed, ReloadFailed
  <1> QED
    BY <1>1, <1>2, <1>3, <1>4 DEF NodeTypes

LEMMA NodeFrame == NodeTypes /\ UNCHANGED agentVars => NodeTypes'
  BY DEF NodeTypes, agentVars

-----------------------------------------------------------------------------
(* The call.                                                               *)

Types == CATypeOK /\ NodeTypes /\ PanelTypes

LEMMA FaultTypes ==
  ASSUME PanelTypes
  PROVE  /\ Fault => faults' \in 0..MaxFaults
         /\ \A ok \in BOOLEAN : Failing(ok) => faults' \in 0..MaxFaults
  <1>1. Fault => faults' \in 0..MaxFaults
    BY Bounds DEF PanelTypes, Fault
  <1>2. \A ok \in BOOLEAN : Failing(ok) => faults' \in 0..MaxFaults
    BY <1>1 DEF PanelTypes, Failing
  <1> QED
    BY <1>1, <1>2

\* The call at its next step, and when it is over.
LEMMA CallRecords ==
  ASSUME PanelTypes
  PROVE  /\ call \in Call /\ NoCall \in Call
         /\ \A pc \in {"dial", "send"} : [NoCall EXCEPT !.pc = pc, !.tries = 1] \in Call
         /\ \A pc \in {"issue", "send", "wait", "refresh"} : [call EXCEPT !.pc = pc] \in Call
         /\ \A b \in Bearer : [call EXCEPT !.pc = "store", !.bearer = b] \in Call
         /\ [call EXCEPT !.pc = "send", !.tries = 2] \in Call
         /\ \A verdict \in {"ok", "stale", "failed"} : Over(verdict) => call' \in Call
  <1>1. call \in Call
    BY DEF PanelTypes
  <1>2. 0 \in Tries /\ 1 \in Tries /\ 2 \in Tries
    BY DEF Tries
  <1>3. NoCall \in Call
    BY <1>2, Bounds DEF NoCall, Call
  <1>4. \A c \in Call, t \in Tries, pc \in {"dial", "send"} :
          [c EXCEPT !.pc = pc, !.tries = t] \in Call
    BY DEF Call
  <1>5. \A c \in Call, pc \in {"issue", "send", "wait", "refresh"} : [c EXCEPT !.pc = pc] \in Call
    BY DEF Call
  <1>6. \A c \in Call, b \in Bearer : [c EXCEPT !.pc = "store", !.bearer = b] \in Call
    BY DEF Call
  <1>7. \A c \in Call, verdict \in {"ok", "stale", "failed"} :
          [c EXCEPT !.pc = "idle", !.verdict = verdict] \in Call
    BY DEF Call
  <1>8. \A verdict \in {"ok", "stale", "failed"} : Over(verdict) => call' \in Call
    BY <1>1, <1>7 DEF Over
  <1> QED
    BY <1>1, <1>2, <1>3, <1>4, <1>5, <1>6, <1>8

LEMMA BeginCallTypes ==
  ASSUME Types, BeginCall
  PROVE  Types'
  <1>1. call' \in Call /\ moved' \in BOOLEAN
    BY CallRecords DEF Types, BeginCall
  <1>2. calls' \in Config
    BY Bounds DEF Types, PanelTypes, BeginCall, Config
  <1>3. PanelTypes'
    BY <1>1, <1>2 DEF Types, PanelTypes, BeginCall
  <1> QED
    BY <1>3, CAFrame, NodeFrame DEF Types, BeginCall

LEMMA DialTypes ==
  ASSUME Types, Dial
  PROVE  Types'
  <1>1. call' \in Call /\ mintRace' \in BOOLEAN
    <2>1. Lookup \in {"found", "missing", "error"}
      BY DEF Lookup
    <2>2. CASE Lookup = "found"
      BY <2>2, CallRecords DEF Types, PanelTypes, Dial
    <2>3. CASE Lookup = "missing"
      BY <2>3, CallRecords DEF Types, PanelTypes, Dial
    <2>4. CASE Lookup = "error"
      BY <2>4, CallRecords DEF Types, PanelTypes, Dial
    <2> QED
      BY <2>1, <2>2, <2>3, <2>4
  <1>2. PanelTypes'
    BY <1>1 DEF Types, PanelTypes, Dial
  <1> QED
    BY <1>2, CAFrame, NodeFrame DEF Types, Dial

LEMMA IssueForCallTypes ==
  ASSUME Types, IssueForCall
  PROVE  Types'
  <1>1. call' \in Call
    BY CallRecords DEF Types, IssueForCall
  <1>2. PanelTypes'
    BY <1>1 DEF Types, PanelTypes, IssueForCall
  <1> QED
    BY <1>2, IssueTypes, NodeFrame DEF Types, IssueForCall

\* A call that is under way has been counted.
CallCounted == call.pc # "idle" => calls \in Version

LEMMA SendTypes ==
  ASSUME Types, CallCounted, Send
  PROVE  /\ Types'
         /\ req'[calls].at = "transit"
         /\ req'[calls].bearer = IF call.tries = 1 THEN rowBearer ELSE call.bearer
         /\ \A v \in Version : v # calls => req'[v] = req[v]
  <1> DEFINE r == [at |-> "transit", left |-> FALSE,
                   bearer |-> IF call.tries = 1 THEN rowBearer ELSE call.bearer,
                   grpc |-> transport = "grpc"]
  <1>1. req' = [req EXCEPT ![calls] = r] /\ calls \in Version
    BY DEF Send, CallCounted
  <1>2. r \in Request
    <2>1. (transport = "grpc") \in BOOLEAN
      OBVIOUS
    <2>2. rowBearer \in Bearer /\ call.bearer \in Bearer
      BY DEF Types, PanelTypes, Call
    <2> QED
      BY <2>1, <2>2 DEF Request
  <1>3. /\ r.at = "transit"
        /\ r.bearer = IF call.tries = 1 THEN rowBearer ELSE call.bearer
    OBVIOUS
  <1> HIDE DEF r
  <1>4. req \in [Version -> Request]
    BY DEF Types, NodeTypes
  <1>5. req' \in [Version -> Request]
    BY <1>1, <1>2, <1>4
  <1>6. NodeTypes'
    BY <1>5 DEF Types, NodeTypes, Send
  <1>7. call' \in Call
    BY CallRecords DEF Types, Send
  <1>8. PanelTypes'
    BY <1>7 DEF Types, PanelTypes, Send
  <1>9. Types'
    BY <1>6, <1>8, CAFrame DEF Types, Send
  <1> QED
    BY <1>1, <1>3, <1>4, <1>9

LEMMA AnswerTypes ==
  ASSUME Types, Answer
  PROVE  Types'
  <1> DEFINE at == req[calls].at
  <1>1. call' \in Call
    <2>1. CASE at = "done"
      BY <2>1, CallRecords DEF Types, Answer
    <2>2. CASE at = "denied" /\ call.tries = 1
      BY <2>2, CallRecords DEF Types, Answer
    <2>3. CASE at = "denied" /\ call.tries = 2
      BY <2>3, CallRecords DEF Types, Answer
    <2>4. CASE at # "done" /\ ~(at = "denied" /\ call.tries \in {1, 2})
      BY <2>4, CallRecords DEF Types, Answer
    <2> QED
      BY <2>1, <2>2, <2>3, <2>4
  <1>2. PanelTypes'
    BY <1>1 DEF Types, PanelTypes, Answer
  <1> QED
    BY <1>2, CAFrame, NodeFrame DEF Types, Answer

LEMMA HangUpTypes ==
  ASSUME Types, CallCounted, HangUp
  PROVE  Types'
  <1>1. calls \in Version
    BY DEF HangUp, CallCounted
  <1>2. req' \in [Version -> Request]
    BY <1>1, Requests DEF HangUp, Types
  <1>3. NodeTypes'
    BY <1>2 DEF Types, NodeTypes, HangUp
  <1>4. call' \in Call /\ faults' \in 0..MaxFaults
    BY CallRecords, FaultTypes DEF Types, HangUp
  <1>5. PanelTypes'
    BY <1>4 DEF Types, PanelTypes, HangUp
  <1> QED
    BY <1>3, <1>5, CAFrame DEF Types, HangUp

LEMMA RefreshTypes ==
  ASSUME Types, NEW ok \in BOOLEAN, Refresh(ok) \/ StoreBearer(ok)
  PROVE  Types'
  <1>1. call' \in Call
    BY CallRecords DEF Types, NodeTypes, Refresh, StoreBearer
  <1>2. rowBearer' \in Bearer
    <2>1. rowBearer \in Bearer /\ call.bearer \in Bearer
      BY DEF Types, PanelTypes, Call
    <2>2. rowBearer' \in {rowBearer, call.bearer}
      BY DEF Refresh, StoreBearer
    <2> QED
      BY <2>1, <2>2
  <1>3. faults' \in 0..MaxFaults
    BY FaultTypes DEF Types, Refresh, StoreBearer
  <1>4. PanelTypes'
    BY <1>1, <1>2, <1>3 DEF Types, PanelTypes, Refresh, StoreBearer
  <1> QED
    BY <1>4, CAFrame, NodeFrame DEF Types, Refresh, StoreBearer

-----------------------------------------------------------------------------
(* The provisionings.                                                      *)

Steps == {"none", "issue", "env", "crt", "key", "ca", "unit", "verify", "bearer", "online", "offline", "ok", "failed"}

LEMMA ProvRecords ==
  ASSUME PanelTypes, NEW j \in Job
  PROVE  prov[j] \in Provision /\ prov[j].pc \in Steps /\ prov[j].cert \in Cert
  <1>1. prov[j] \in Provision
    BY DEF PanelTypes
  <1> QED
    BY <1>1 DEF Provision, Steps

\* A provisioning is at its next step, or begins.
LEMMA ProvStep ==
  ASSUME PanelTypes, NEW j \in Job, NEW pc \in Steps,
         prov' = [prov EXCEPT ![j].pc = pc]
  PROVE  /\ prov' \in [Job -> Provision]
         /\ prov'[j].pc = pc /\ prov'[j].cert = prov[j].cert
         /\ \A i \in Job : i # j => prov'[i] = prov[i]
  <1>1. prov \in [Job -> Provision] /\ prov[j] \in Provision
    BY DEF PanelTypes
  <1>2. prov' = [prov EXCEPT ![j] = [prov[j] EXCEPT !.pc = pc]]
    BY <1>1
  <1>3. PICK r : r = [prov[j] EXCEPT !.pc = pc]
    OBVIOUS
  <1>4. r \in Provision /\ r.pc = pc /\ r.cert = prov[j].cert
    BY <1>1, <1>3 DEF Provision, Steps
  <1> QED
    BY <1>1, <1>2, <1>3, <1>4

LEMMA ProvBegin ==
  ASSUME PanelTypes, NEW j \in Job, NEW pc \in Steps, NEW cert \in Cert,
         prov' = [prov EXCEPT ![j] = [pc |-> pc, cert |-> cert]]
  PROVE  /\ prov' \in [Job -> Provision]
         /\ prov'[j].pc = pc /\ prov'[j].cert = cert
         /\ \A i \in Job : i # j => prov'[i] = prov[i]
  <1>1. prov \in [Job -> Provision]
    BY DEF PanelTypes
  <1>2. PICK r : r = [pc |-> pc, cert |-> cert]
    OBVIOUS
  <1>3. r \in Provision /\ r.pc = pc /\ r.cert = cert
    BY <1>2 DEF Provision, Steps
  <1> QED
    BY <1>1, <1>2, <1>3

\* The step of a provisioning that calls Then.
LEMMA ThenTypes ==
  ASSUME PanelTypes, NEW j \in Job, NEW ok \in BOOLEAN, NEW pc \in Steps, Then(j, ok, pc)
  PROVE  /\ prov' \in [Job -> Provision] /\ online' \in BOOLEAN /\ faults' \in 0..MaxFaults
         /\ prov'[j].pc = (IF ok THEN pc ELSE "offline") /\ prov'[j].cert = prov[j].cert
         /\ \A i \in Job : i # j => prov'[i] = prov[i]
  <1>1. faults' \in 0..MaxFaults /\ online' \in BOOLEAN
    BY FaultTypes DEF Then, PanelTypes
  <1>2. "offline" \in Steps
    BY DEF Steps
  <1>3. PICK q \in Steps : q = IF ok THEN pc ELSE "offline"
    BY <1>2
  <1>4. prov' = [prov EXCEPT ![j].pc = q]
    BY <1>3 DEF Then
  <1>5. prov' \in [Job -> Provision] /\ prov'[j].pc = q /\ prov'[j].cert = prov[j].cert
        /\ \A i \in Job : i # j => prov'[i] = prov[i]
    BY <1>4, ProvStep
  <1> QED
    BY <1>1, <1>3, <1>5

LEMMA BeginProvisionTypes ==
  ASSUME Types, NEW j \in Job, BeginProvision(j)
  PROVE  /\ Types'
         /\ \A i \in Job : i # j => prov'[i] = prov[i]
         /\ \/ /\ Lookup = "found" /\ prov'[j].pc = "env" /\ prov'[j].cert = certRow
            \/ /\ Lookup = "missing" /\ prov'[j].pc = "issue" /\ prov'[j].cert = NoCert
            \/ /\ Lookup = "error" /\ prov'[j].pc = "env" /\ prov'[j].cert = NoCert
  <1>1. Lookup \in {"found", "missing", "error"}
    BY DEF Lookup
  <1>2. certRow \in Cert /\ NoCert \in Cert /\ "env" \in Steps /\ "issue" \in Steps
    BY Bounds DEF Types, CATypeOK, Steps
  <1>3. PICK pc \in Steps, cert \in Cert :
          /\ prov' = [prov EXCEPT ![j] = [pc |-> pc, cert |-> cert]]
          /\ \/ Lookup = "found" /\ pc = "env" /\ cert = certRow
             \/ Lookup = "missing" /\ pc = "issue" /\ cert = NoCert
             \/ Lookup = "error" /\ pc = "env" /\ cert = NoCert
    <2>1. CASE Lookup = "found"
      BY <1>2, <2>1 DEF BeginProvision
    <2>2. CASE Lookup = "missing"
      BY <1>2, <2>2 DEF BeginProvision
    <2>3. CASE Lookup = "error"
      BY <1>2, <2>3 DEF BeginProvision
    <2> QED
      BY <1>1, <2>1, <2>2, <2>3
  <1>4. /\ prov' \in [Job -> Provision] /\ prov'[j].pc = pc /\ prov'[j].cert = cert
        /\ \A i \in Job : i # j => prov'[i] = prov[i]
    BY <1>3, ProvBegin DEF Types
  <1>5. mintRace' \in BOOLEAN
    BY DEF BeginProvision, Types, PanelTypes
  <1>6. PanelTypes'
    BY <1>4, <1>5 DEF BeginProvision, Types, PanelTypes
  <1> QED
    BY <1>3, <1>4, <1>6, CAFrame, NodeFrame DEF Types, BeginProvision

LEMMA IssueForNodeTypes ==
  ASSUME Types, NEW j \in Job, IssueForNode(j)
  PROVE  /\ Types'
         /\ prov'[j].pc = "env" /\ prov'[j].cert = NewCert
         /\ \A i \in Job : i # j => prov'[i] = prov[i]
  <1>1. "env" \in Steps
    BY DEF Steps
  <1>2. CATypeOK' /\ NewCert \in Cert
    BY IssueTypes DEF Types, IssueForNode
  <1>3. PICK cert \in Cert : cert = NewCert
    BY <1>2
  <1>4. prov' = [prov EXCEPT ![j] = [pc |-> "env", cert |-> cert]]
    BY <1>3 DEF IssueForNode
  <1>5. /\ prov' \in [Job -> Provision] /\ prov'[j].pc = "env" /\ prov'[j].cert = cert
        /\ \A i \in Job : i # j => prov'[i] = prov[i]
    BY <1>1, <1>4, ProvBegin DEF Types
  <1>6. PanelTypes'
    BY <1>5 DEF IssueForNode, Types, PanelTypes
  <1> QED
    BY <1>2, <1>3, <1>5, <1>6, NodeFrame DEF Types, IssueForNode

LEMMA WriteEnvTypes ==
  ASSUME Types, NEW j \in Job, NEW done \in BOOLEAN, NEW ok \in BOOLEAN, WriteEnv(j, done, ok)
  PROVE  Types'
  <1>1. PICK pc \in Steps : Then(j, ok, pc)
    BY DEF WriteEnv, Steps
  <1>2. env' \in Bearer /\ moved' \in BOOLEAN
    BY Bounds DEF WriteEnv, NoteMove, Types, NodeTypes
  <1>3. prov' \in [Job -> Provision] /\ online' \in BOOLEAN /\ faults' \in 0..MaxFaults
    BY <1>1, ThenTypes DEF Types
  <1>4. PanelTypes'
    BY <1>2, <1>3 DEF WriteEnv, Types, PanelTypes
  <1>5. NodeTypes'
    BY <1>2 DEF WriteEnv, Types, NodeTypes
  <1> QED
    BY <1>4, <1>5, CAFrame DEF Types, WriteEnv

\* Which file is pushed, and what follows.
LEMMA PushFileParts ==
  ASSUME Types, NEW j \in Job, NEW done \in BOOLEAN, NEW ok \in BOOLEAN, PushFile(j, done, ok)
  PROVE  /\ files' \in Files
         /\ \/ /\ prov[j].pc = "crt" /\ Then(j, ok, "key")
               /\ files' = IF done THEN [files EXCEPT !.crt = prov[j].cert] ELSE files
            \/ /\ prov[j].pc = "key" /\ Then(j, ok, "ca")
               /\ files' = IF done THEN [files EXCEPT !.key = prov[j].cert.pair] ELSE files
            \/ /\ prov[j].pc = "ca" /\ Then(j, ok, "unit")
               /\ files' = IF done THEN [files EXCEPT !.ca = prov[j].cert.root] ELSE files
  <1>1. files \in Files /\ prov[j].cert \in Cert
    BY ProvRecords DEF Types, NodeTypes, Provision
  <1>2. prov[j].cert.pair \in Mint /\ prov[j].cert.root \in Mint
    BY <1>1 DEF Cert
  <1>3. prov[j].pc \in {"crt", "key", "ca"}
    BY DEF PushFile
  <1>4. CASE prov[j].pc = "crt"
    <2>1. Then(j, ok, "key") /\ files' = IF done THEN [files EXCEPT !.crt = prov[j].cert] ELSE files
      BY <1>4 DEF PushFile
    <2>2. files' \in Files
      BY <1>1, <2>1 DEF Files
    <2> QED
      BY <1>4, <2>1, <2>2
  <1>5. CASE prov[j].pc = "key"
    <2>1. Then(j, ok, "ca") /\ files' = IF done THEN [files EXCEPT !.key = prov[j].cert.pair] ELSE files
      BY <1>5 DEF PushFile
    <2>2. files' \in Files
      BY <1>1, <1>2, <2>1 DEF Files
    <2> QED
      BY <1>5, <2>1, <2>2
  <1>6. CASE prov[j].pc = "ca"
    <2>1. Then(j, ok, "unit") /\ files' = IF done THEN [files EXCEPT !.ca = prov[j].cert.root] ELSE files
      BY <1>6 DEF PushFile
    <2>2. files' \in Files
      BY <1>1, <1>2, <2>1 DEF Files
    <2> QED
      BY <1>6, <2>1, <2>2
  <1> QED
    BY <1>3, <1>4, <1>5, <1>6

LEMMA PushFileTypes ==
  ASSUME Types, NEW j \in Job, NEW done \in BOOLEAN, NEW ok \in BOOLEAN, PushFile(j, done, ok)
  PROVE  Types'
  <1>1. files' \in Files /\ \E pc \in Steps : Then(j, ok, pc)
    BY PushFileParts DEF Steps
  <1>2. prov' \in [Job -> Provision] /\ online' \in BOOLEAN /\ faults' \in 0..MaxFaults
    BY <1>1, ThenTypes DEF Types
  <1>3. broken' \in BOOLEAN
    BY DEF PushFile, Types, PanelTypes
  <1>4. PanelTypes'
    BY <1>2, <1>3 DEF PushFile, Types, PanelTypes
  <1>5. NodeTypes'
    BY <1>1 DEF PushFile, Types, NodeTypes
  <1> QED
    BY <1>4, <1>5, CAFrame DEF Types, PushFile

LEMMA RestartAgentTypes ==
  ASSUME Types, NEW j \in Job, NEW done \in BOOLEAN, NEW ok \in BOOLEAN, RestartAgent(j, done, ok)
  PROVE  Types'
  <1>1. Then(j, ok, "verify") /\ "verify" \in Steps
    BY DEF RestartAgent, Steps
  <1>2. prov' \in [Job -> Provision] /\ online' \in BOOLEAN /\ faults' \in 0..MaxFaults
    BY <1>1, ThenTypes DEF Types
  <1>3. moved' \in BOOLEAN
    BY DEF RestartAgent, NoteMove, Types, PanelTypes
  <1>4. PanelTypes'
    BY <1>2, <1>3 DEF RestartAgent, Types, PanelTypes
  <1>5. NodeTypes'
    <2>1. CASE done
      BY <2>1, ExecTypes DEF RestartAgent, Types, NodeTypes
    <2>2. CASE ~done
      BY <2>2, NodeFrame DEF RestartAgent, Types, agentVars
    <2> QED
      BY <2>1, <2>2
  <1> QED
    BY <1>4, <1>5, CAFrame DEF Types, RestartAgent

LEMMA VerifyTypes ==
  ASSUME Types, NEW j \in Job, NEW ok \in BOOLEAN, Verify(j, ok)
  PROVE  /\ Types'
         /\ prov'[j].pc = (IF ok THEN "bearer" ELSE "offline") /\ prov'[j].cert = prov[j].cert
         /\ \A i \in Job : i # j => prov'[i] = prov[i]
  <1>1. PICK pc \in Steps : pc = IF ok THEN "bearer" ELSE "offline"
    BY DEF Steps
  <1>2. prov' = [prov EXCEPT ![j].pc = pc]
    BY <1>1 DEF Verify
  <1>3. /\ prov' \in [Job -> Provision] /\ prov'[j].pc = pc /\ prov'[j].cert = prov[j].cert
        /\ \A i \in Job : i # j => prov'[i] = prov[i]
    BY <1>2, ProvStep DEF Types
  <1>4. faults' \in 0..MaxFaults
    BY FaultTypes DEF Types, PanelTypes, Verify
  <1>5. online' \in BOOLEAN
    BY DEF Types, PanelTypes, Verify
  <1>6. PanelTypes'
    BY <1>3, <1>4, <1>5 DEF Types, PanelTypes, Verify
  <1> QED
    BY <1>1, <1>3, <1>6, CAFrame, NodeFrame DEF Types, Verify

LEMMA SetBearerTypes ==
  ASSUME Types, NEW j \in Job, NEW done \in BOOLEAN, NEW ok \in BOOLEAN, SetBearer(j, done, ok)
  PROVE  /\ Types'
         /\ prov'[j].pc = (IF ok THEN "online" ELSE "offline") /\ prov'[j].cert = prov[j].cert
         /\ \A i \in Job : i # j => prov'[i] = prov[i]
  <1>1. Then(j, ok, "online") /\ "online" \in Steps
    BY DEF SetBearer, Steps
  <1>2. /\ prov' \in [Job -> Provision] /\ online' \in BOOLEAN /\ faults' \in 0..MaxFaults
        /\ prov'[j].pc = (IF ok THEN "online" ELSE "offline") /\ prov'[j].cert = prov[j].cert
        /\ \A i \in Job : i # j => prov'[i] = prov[i]
    BY <1>1, ThenTypes DEF Types
  <1>3. rowBearer' \in Bearer
    BY Bounds DEF Types, PanelTypes, SetBearer
  <1>4. PanelTypes'
    BY <1>2, <1>3 DEF Types, PanelTypes, SetBearer
  <1> QED
    BY <1>2, <1>4, CAFrame, NodeFrame DEF Types, SetBearer

LEMMA SetStateTypes ==
  ASSUME Types, NEW j \in Job, NEW done \in BOOLEAN, NEW ok \in BOOLEAN, SetState(j, done, ok)
  PROVE  /\ Types'
         /\ prov'[j].pc \in {"ok", "failed"} /\ prov'[j].cert = prov[j].cert
         /\ \A i \in Job : i # j => prov'[i] = prov[i]
  <1>1. PICK pc \in {"ok", "failed"} : pc = IF ok /\ prov[j].pc = "online" THEN "ok" ELSE "failed"
    OBVIOUS
  <1>2. prov' = [prov EXCEPT ![j].pc = pc] /\ pc \in Steps
    BY <1>1 DEF SetState, Steps
  <1>3. /\ prov' \in [Job -> Provision] /\ prov'[j].pc = pc /\ prov'[j].cert = prov[j].cert
        /\ \A i \in Job : i # j => prov'[i] = prov[i]
    BY <1>2, ProvStep DEF Types
  <1>4. faults' \in 0..MaxFaults
    BY FaultTypes DEF Types, SetState
  <1>5. online' \in BOOLEAN /\ fresh' \in BOOLEAN
    BY DEF Types, PanelTypes, SetState
  <1>6. PanelTypes'
    BY <1>3, <1>4, <1>5 DEF Types, PanelTypes, SetState
  <1> QED
    BY <1>3, <1>6, CAFrame, NodeFrame DEF Types, SetState

-----------------------------------------------------------------------------
(* The processes, and the node by itself.                                  *)

LEMMA PutOfflineTypes ==
  ASSUME Types, PutOffline
  PROVE  Types'
  <1>1. PanelTypes'
    BY DEF Types, PanelTypes, PutOffline
  <1> QED
    BY <1>1, CAFrame, NodeFrame DEF Types, PutOffline

LEMMA StartPanelTypes ==
  ASSUME Types, StartPanel
  PROVE  Types'
  <1>1. PanelTypes'
    BY DEF Types, PanelTypes, StartPanel
  <1> QED
    BY <1>1, Bounds, ReadRootTypes, NodeFrame DEF Types, StartPanel

LEMMA StopPanelTypes ==
  ASSUME Types, CallCounted, StopPanel
  PROVE  /\ Types'
         /\ \A j \in Job : /\ prov'[j].pc = IF prov[j].pc \in Ended THEN prov[j].pc ELSE "failed"
                           /\ prov'[j].cert = prov[j].cert
  <1>1. call' \in Call
    <2>1. call \in Call
      BY CallRecords DEF Types
    <2>2. \A c \in Call : [c EXCEPT !.pc = "idle", !.verdict = "failed"] \in Call
      BY DEF Call
    <2> QED
      BY <2>1, <2>2 DEF StopPanel
  <1>2. req' \in [Version -> Request]
    <2>1. CASE call.pc = "wait"
      BY <2>1, Requests DEF StopPanel, CallCounted, Types
    <2>2. CASE call.pc # "wait"
      BY <2>2 DEF StopPanel, Types, NodeTypes
    <2> QED
      BY <2>1, <2>2
  <1>3. ASSUME NEW j \in Job
        PROVE  /\ prov'[j] \in Provision
               /\ prov'[j].pc = IF prov[j].pc \in Ended THEN prov[j].pc ELSE "failed"
               /\ prov'[j].cert = prov[j].cert
    <2>1. prov[j] \in Provision
      BY ProvRecords DEF Types
    <2>2. prov'[j] = IF prov[j].pc \in Ended THEN prov[j] ELSE [prov[j] EXCEPT !.pc = "failed"]
      BY DEF StopPanel
    <2> QED
      BY <2>1, <2>2 DEF Provision
  <1>4. prov' \in [Job -> Provision]
    <2>1. prov' = [j \in Job |-> prov'[j]]
      BY DEF StopPanel
    <2> QED
      BY <2>1, <1>3
  <1>5. broken' \in BOOLEAN /\ fresh' \in BOOLEAN
    BY DEF StopPanel, Types, PanelTypes
  <1>6. PanelTypes'
    BY <1>1, <1>4, <1>5 DEF Types, PanelTypes, StopPanel
  <1>7. NodeTypes'
    BY <1>2 DEF Types, NodeTypes, StopPanel
  <1> QED
    BY <1>3, <1>6, <1>7, Bounds, StopTypes DEF Types, StopPanel

LEMMA CreateTypes ==
  ASSUME Types, CreateRoot(Panel), UNCHANGED <<agentVars, linkVars>>
  PROVE  Types'
  <1>1. PanelTypes'
    BY DEF Types, PanelTypes, linkVars
  <1> QED
    BY <1>1, Bounds, CreateRootTypes, NodeFrame DEF Types

LEMMA OtherTypes ==
  ASSUME Types, NEW p \in PanelProcess, OtherPanel(p)
  PROVE  Types'
  <1>1. PanelTypes'
    BY DEF Types, PanelTypes, OtherPanel, linkVars
  <1> QED
    BY <1>1, ReadRootTypes, CreateRootTypes, StopTypes, NodeFrame DEF Types, OtherPanel

\* The steps of the node.
LEMMA NodeSteps ==
  ASSUME NodeStep
  PROVE  /\ \/ Load \/ Respawn \/ AgentCrash \/ Reboot \/ Regenerate(ByHand)
            \/ \E v \in Version : Accept(v) \/ Vanish(v) \/ Write(v) \/ Reload(v) \/ WriteFailed(v)
            \/ \E v \in Version, read \in BOOLEAN : ReloadFailed(v, read)
         /\ Fault \/ UNCHANGED faults
         /\ UNCHANGED <<caVars, transport, online, wired, rowBearer, call, calls, prov,
                        acked, fresh, broken, mintRace>>
         /\ NoteMove
  BY DEF NodeStep

LEMMA NodeStepTypes ==
  ASSUME Types, NodeStep
  PROVE  Types'
  <1>1. NodeTypes
    BY DEF Types
  <1>2. NodeTypes'
    <2>1. CASE Load \/ AgentCrash
      BY <1>1, <2>1, LoadTypes, CrashTypes
    <2>2. CASE Respawn \/ Reboot
      <3>1. Exec /\ UNCHANGED <<files, env, disk, crossed>> /\ running' \in Config
        BY <1>1, <2>2 DEF Respawn, Reboot, NodeTypes
      <3> QED
        BY <1>1, <3>1, ExecTypes
    <2>3. CASE Regenerate(ByHand)
      BY <1>1, <2>3, Bounds DEF Regenerate, NodeTypes
    <2>4. CASE \E v \in Version : Accept(v) \/ Vanish(v) \/ Write(v) \/ Reload(v) \/ WriteFailed(v)
      <3>1. TRUE \in BOOLEAN
        OBVIOUS
      <3> QED
        BY <1>1, <2>4, <3>1, RequestTypes
    <2>5. CASE \E v \in Version, read \in BOOLEAN : ReloadFailed(v, read)
      BY <1>1, <2>5, RequestTypes
    <2> QED
      BY <2>1, <2>2, <2>3, <2>4, <2>5, NodeSteps
  <1>3. faults' \in 0..MaxFaults
    BY NodeSteps, FaultTypes DEF Types, PanelTypes
  <1>4. moved' \in BOOLEAN
    BY NodeSteps DEF NoteMove, Types, PanelTypes
  <1>5. PanelTypes'
    BY <1>3, <1>4, NodeSteps DEF Types, PanelTypes
  <1> QED
    BY <1>2, <1>5, NodeSteps, CAFrame DEF Types

LEMMA StutterTypes == Types /\ UNCHANGED vars => Types'
  BY CAFrame, NodeFrame DEF Types, vars, linkVars, PanelTypes

-----------------------------------------------------------------------------
LEMMA InitTypes == Init => Types /\ CallCounted
  <1> SUFFICES ASSUME Init PROVE Types /\ CallCounted
    OBVIOUS
  <1>1. CATypeOK /\ NodeTypes
    BY CAInitTypes, AgentInitTypes DEF Init
  <1>2. call \in Call /\ call.pc = "idle"
    <2>1. 0 \in Tries
      BY DEF Tries
    <2> QED
      BY <2>1, Bounds DEF Init, NoCall, Call
  <1>3. prov \in [Job -> Provision]
    BY Bounds DEF Init, NotBegun, Provision
  <1>4. rowBearer \in Bearer /\ calls \in Config /\ acked \in Config /\ faults \in 0..MaxFaults
    BY Bounds DEF Init
  <1>5. PanelTypes
    BY <1>2, <1>3, <1>4 DEF Init, PanelTypes
  <1> QED
    BY <1>1, <1>2, <1>5 DEF Types, CallCounted

TypeInv == Types /\ CallCounted

LEMMA CountStep == TypeInv /\ [Next]_vars => CallCounted'
  <1> SUFFICES ASSUME TypeInv, [Next]_vars PROVE CallCounted'
    OBVIOUS
  <1>1. call \in Call
    BY CallRecords DEF TypeInv, Types
  <1>2. CASE BeginCall
    <2>1. calls' \in Version
      BY <1>2, Bounds DEF BeginCall, TypeInv, Types, PanelTypes, Config, Version
    <2> QED
      BY <2>1 DEF CallCounted
  <1>3. CASE UNCHANGED calls /\ (call'.pc # "idle" => call.pc # "idle")
    BY <1>3 DEF TypeInv, CallCounted
  <1>4. CASE UNCHANGED <<calls, call>>
    BY <1>4 DEF TypeInv, CallCounted
  <1>5. ASSUME Dial \/ IssueForCall \/ Send \/ Answer \/ HangUp PROVE CallCounted'
    <2>1. UNCHANGED calls /\ call.pc # "idle"
      BY <1>5 DEF Dial, IssueForCall, Send, Answer, HangUp
    <2> QED
      BY <1>3, <2>1
  <1>6. ASSUME NEW ok \in BOOLEAN, Refresh(ok) \/ StoreBearer(ok) PROVE CallCounted'
    <2>1. UNCHANGED calls /\ call.pc # "idle"
      BY <1>6 DEF Refresh, StoreBearer
    <2> QED
      BY <1>3, <2>1
  <1>7. ASSUME NEW j \in Job, ProvisionStep(j) PROVE CallCounted'
    <2>1. UNCHANGED <<calls, call>>
      BY <1>7 DEF ProvisionStep, BeginProvision, IssueForNode, Verify, WriteEnv, PushFile,
        RestartAgent, SetBearer, SetState
    <2> QED
      BY <1>4, <2>1
  <1>8. CASE StopPanel
    <2>1. call'.pc = "idle"
      BY <1>1, <1>8 DEF StopPanel, Call
    <2> QED
      BY <2>1 DEF CallCounted
  <1>9. CASE PutOffline \/ NodeStep \/ StartPanel
    BY <1>4, <1>9, NodeSteps DEF PutOffline, StartPanel
  <1>10. CASE UNCHANGED linkVars
    BY <1>4, <1>10 DEF linkVars
  <1> QED
    BY <1>2, <1>5, <1>6, <1>7, <1>8, <1>9, <1>10 DEF Next, CallStep, OtherPanel, vars

LEMMA TypeStep == TypeInv /\ [Next]_vars => TypeInv'
  <1> SUFFICES ASSUME TypeInv, [Next]_vars PROVE Types'
    BY CountStep DEF TypeInv
  <1>1. Types /\ CallCounted
    BY DEF TypeInv
  <1>2. CASE CallStep
    BY <1>1, <1>2, BeginCallTypes, DialTypes, IssueForCallTypes, SendTypes, AnswerTypes,
      HangUpTypes, RefreshTypes DEF CallStep
  <1>3. ASSUME NEW j \in Job, ProvisionStep(j) PROVE Types'
    BY <1>1, <1>3, BeginProvisionTypes, IssueForNodeTypes, VerifyTypes, WriteEnvTypes,
      PushFileTypes, RestartAgentTypes, SetBearerTypes, SetStateTypes DEF ProvisionStep
  <1>4. CASE PutOffline \/ NodeStep \/ StartPanel \/ StopPanel
    BY <1>1, <1>4, PutOfflineTypes, NodeStepTypes, StartPanelTypes, StopPanelTypes
  <1>5. CASE CreateRoot(Panel) /\ UNCHANGED <<agentVars, linkVars>>
    BY <1>1, <1>5, CreateTypes
  <1>6. ASSUME NEW p \in PanelProcess, OtherPanel(p) PROVE Types'
    BY <1>1, <1>6, OtherTypes
  <1>7. CASE UNCHANGED vars
    BY <1>1, <1>7, StutterTypes
  <1> QED
    BY <1>2, <1>3, <1>4, <1>5, <1>6, <1>7 DEF Next

\* The panel processes, the agent and its requests, the call and the provisionings
\* keep their types, and an agent that serves has a certificate, for any numbers
\* of processes, calls and provisionings.
THEOREM TypeCorrect == Spec => []TypeOK
  <1>1. Init => TypeInv
    BY InitTypes DEF TypeInv
  <1>2. TypeInv => TypeOK
    BY TypeParts DEF TypeInv, Types
  <1> QED
    BY <1>1, <1>2, TypeStep, PTL DEF Spec

-----------------------------------------------------------------------------
(* One root.                                                               *)

\* Who creates the root found none, and creates it alone; then nobody is up.
RootInv ==
  /\ backend = "memory" => \A p \in PanelProcess \ {Panel} : boot[p] = "down"
  /\ ~rootRace =>
       /\ \A p \in PanelProcess : boot[p] = "up" => cached[p] = rootRow
       /\ \A p, q \in PanelProcess : boot[p] = "creating" /\ boot[q] = "creating" => p = q
       /\ \A p \in PanelProcess : boot[p] = "creating" => rootRow = None

LEMMA RootFrame == RootInv /\ UNCHANGED <<backend, boot, cached, rootRow, rootRace>> => RootInv'
  BY DEF RootInv

LEMMA ReadRootKeeps ==
  ASSUME CATypeOK, RootInv, NEW p \in PanelProcess, ReadRoot(p)
  PROVE  RootInv'
  <1>1. \A q \in PanelProcess :
          /\ boot'[q] = IF q # p THEN boot[q] ELSE IF rootRow = None THEN "creating" ELSE "up"
          /\ cached'[q] = IF q # p THEN cached[q] ELSE rootRow
    BY DEF CATypeOK, ReadRoot
  <1>2. UNCHANGED <<backend, rootRow>> /\ (p = Panel \/ backend = "pg")
    BY DEF ReadRoot
  <1>3. backend = "memory" => \A q \in PanelProcess \ {Panel} : boot'[q] = "down"
    BY <1>1, <1>2 DEF RootInv
  <1>4. ASSUME ~rootRace'
        PROVE  /\ \A q \in PanelProcess : boot'[q] = "up" => cached'[q] = rootRow
               /\ \A q, r \in PanelProcess : boot'[q] = "creating" /\ boot'[r] = "creating" => q = r
               /\ \A q \in PanelProcess : boot'[q] = "creating" => rootRow = None
    <2>1. ~rootRace /\ (rootRow = None => \A q \in PanelProcess \ {p} : boot[q] # "creating")
      BY <1>4 DEF ReadRoot
    <2> QED
      BY <2>1, <1>1 DEF RootInv
  <1> QED
    BY <1>2, <1>3, <1>4 DEF RootInv

LEMMA CreateRootKeeps ==
  ASSUME CATypeOK, RootInv, NEW p \in PanelProcess, CreateRoot(p)
  PROVE  RootInv'
  <1>1. \A q \in PanelProcess :
          /\ boot'[q] = IF q # p THEN boot[q] ELSE "up"
          /\ cached'[q] = IF q # p THEN cached[q] ELSE minted + 1
    BY DEF CATypeOK, CreateRoot
  <1>2. UNCHANGED <<backend, rootRace>> /\ rootRow' = minted + 1 /\ boot[p] = "creating"
    BY DEF CreateRoot, SaveRoot
  <1>3. backend = "memory" => \A q \in PanelProcess \ {Panel} : boot'[q] = "down"
    BY <1>1, <1>2 DEF RootInv
  <1>4. ASSUME ~rootRace
        PROVE  \A q \in PanelProcess \ {p} : boot[q] = "down"
    <2>1. rootRow = None
      BY <1>2, <1>4 DEF RootInv
    <2>2. \A q \in PanelProcess : boot[q] # "up"
      BY <2>1, <1>4 DEF RootInv, CATypeOK, Up
    <2>3. \A q \in PanelProcess \ {p} : boot[q] # "creating"
      BY <1>2, <1>4 DEF RootInv
    <2> QED
      BY <2>2, <2>3 DEF CATypeOK
  <1> QED
    BY <1>1, <1>2, <1>3, <1>4 DEF RootInv

LEMMA StopKeeps ==
  ASSUME CATypeOK, RootInv, NEW p \in PanelProcess, StopProcess(p)
  PROVE  RootInv'
  <1>1. \A q \in PanelProcess :
          /\ boot'[q] = IF q # p THEN boot[q] ELSE "down"
          /\ cached'[q] = IF q # p THEN cached[q] ELSE None
    BY DEF CATypeOK, StopProcess
  <1>2. UNCHANGED <<backend, rootRace>> /\ boot[p] # "down"
        /\ rootRow' = IF backend = "pg" THEN rootRow ELSE None
    BY DEF StopProcess
  <1>3. CASE backend = "pg"
    BY <1>1, <1>2, <1>3 DEF RootInv
  <1>4. CASE backend = "memory"
    <2>1. \A q \in PanelProcess : boot'[q] = "down"
      BY <1>1, <1>2, <1>4 DEF RootInv
    <2> QED
      BY <2>1, <1>2 DEF RootInv
  <1> QED
    BY <1>3, <1>4 DEF CATypeOK

LEMMA RootStep == TypeInv /\ RootInv /\ [Next]_vars => RootInv'
  <1> SUFFICES ASSUME TypeInv, RootInv, [Next]_vars PROVE RootInv'
    OBVIOUS
  <1>1. CATypeOK
    BY DEF TypeInv, Types
  <1>2. CASE CallStep
    BY <1>2, RootFrame DEF CallStep, BeginCall, Dial, IssueForCall, Issue, Send, Answer, HangUp,
      Refresh, StoreBearer, caVars
  <1>3. ASSUME NEW j \in Job, ProvisionStep(j) PROVE RootInv'
    BY <1>3, RootFrame DEF ProvisionStep, BeginProvision, IssueForNode, Issue, Verify, WriteEnv,
      PushFile, RestartAgent, SetBearer, SetState, caVars
  <1>4. CASE PutOffline \/ NodeStep \/ UNCHANGED vars
    BY <1>4, RootFrame, NodeSteps DEF PutOffline, caVars, vars
  <1>5. CASE StartPanel \/ StopPanel \/ CreateRoot(Panel)
    BY <1>1, <1>5, Bounds, ReadRootKeeps, StopKeeps, CreateRootKeeps DEF StartPanel, StopPanel
  <1>6. ASSUME NEW p \in PanelProcess, OtherPanel(p) PROVE RootInv'
    BY <1>1, <1>6, ReadRootKeeps, StopKeeps, CreateRootKeeps DEF OtherPanel
  <1> QED
    BY <1>2, <1>3, <1>4, <1>5, <1>6 DEF Next

\* For any number of panel processes that start, create a root and stop in any
\* order, those that are up hold the root of the store, unless two looked for it
\* at the same time before there was one.
THEOREM OneRoot == Spec => []RootsAgree
  <1>1. Init => TypeInv /\ RootInv
    <2>1. Init => RootInv
      BY DEF Init, CAInit, RootInv
    <2> QED
      BY <2>1, InitTypes DEF TypeInv
  <1>2. RootInv => RootsAgree
    BY DEF RootInv, RootsAgree, Up
  <1> QED
    BY <1>1, <1>2, TypeStep, RootStep, PTL DEF Spec

-----------------------------------------------------------------------------
(* What was acknowledged stays applied.                                    *)

Open == Handled \cup {"transit"}

\* As long as no request has come in beside another, a request that is open is
\* newer than what was acknowledged, what is on the disk and what runs, and a
\* request is handled only while the other open ones are newer.
AckInv ==
  /\ \A v \in Version : v > calls => req[v].at = "none"
  /\ call.pc \in {"dial", "issue", "send", "refresh", "store"} => req[calls].at \in {"none", "denied"}
  /\ call.pc # "idle" => acked < calls
  /\ acked <= calls /\ disk <= calls /\ running <= calls
  /\ ~crossed =>
       /\ \A v, w \in Version :
            v # w /\ req[v].at \in Handled \cup {"done"} /\ req[w].at \in Open => v < w
       /\ \A v \in Version : req[v].at = "written" => disk = v
       /\ \A v \in Version : req[v].at = "done" => v <= disk /\ v <= running
       /\ \A w \in Version : req[w].at \in Open => acked < w /\ disk <= w /\ running <= w
       /\ acked <= disk /\ acked <= running

LEMMA AckFrame ==
  AckInv /\ UNCHANGED <<calls, call, acked, disk, running, crossed, req>> => AckInv'
  BY DEF AckInv

\* The call is at another step, and sends nothing.
LEMMA AckCallFrame ==
  ASSUME AckInv, UNCHANGED <<calls, acked, disk, running, crossed, req>>,
         call'.pc # "idle" => call.pc # "idle",
         call'.pc \in {"dial", "issue", "send", "refresh", "store"} =>
           req[calls].at \in {"none", "denied"}
  PROVE  AckInv'
  BY DEF AckInv

\* One field of one request changes.
LEMMA AtChange ==
  ASSUME NodeTypes, NEW v \in Version, NEW at, req' = [req EXCEPT ![v].at = at]
  PROVE  \A w \in Version : /\ req'[w].at = IF w = v THEN at ELSE req[w].at
                            /\ req'[w].bearer = req[w].bearer
  <1>1. req \in [Version -> Request]
    BY DEF NodeTypes
  <1>2. req' = [req EXCEPT ![v] = [req[v] EXCEPT !.at = at]]
    BY <1>1
  <1>3. PICK r : r = [req[v] EXCEPT !.at = at]
    OBVIOUS
  <1>4. r.at = at /\ r.bearer = req[v].bearer
    BY <1>1, <1>3 DEF Request
  <1> QED
    BY <1>1, <1>2, <1>3, <1>4

LEMMA LeftChange ==
  ASSUME NodeTypes, NEW v \in Version, req' = [req EXCEPT ![v].left = TRUE]
  PROVE  \A w \in Version : req'[w].at = req[w].at /\ req'[w].bearer = req[w].bearer
  <1>1. req \in [Version -> Request]
    BY DEF NodeTypes
  <1>2. req' = [req EXCEPT ![v] = [req[v] EXCEPT !.left = TRUE]]
    BY <1>1
  <1>3. PICK r : r = [req[v] EXCEPT !.left = TRUE]
    OBVIOUS
  <1>4. r.at = req[v].at /\ r.bearer = req[v].bearer
    BY <1>1, <1>3 DEF Request
  <1> QED
    BY <1>1, <1>2, <1>3, <1>4

\* The numbers that AckInv compares.
LEMMA Numbers ==
  ASSUME Types
  PROVE  /\ calls \in Nat /\ acked \in Nat /\ disk \in Nat /\ running \in Nat
         /\ \A v \in Version : v \in Nat
  BY Bounds DEF Types, PanelTypes, NodeTypes, Config, Version

\* Requests fail or are answered without effect, perhaps after sing-box has read
\* the disk.
LEMMA AckFailures ==
  ASSUME TypeInv, AckInv, UNCHANGED <<calls, call, acked, disk, crossed>>,
         running' \in {running, disk},
         \A v \in Version : \/ req'[v].at = req[v].at
                            \/ req[v].at \in Open /\ req'[v].at \in {"failed", "refused", "denied"}
  PROVE  AckInv'
  <1>1. \A v \in Version : v > calls => req'[v].at = "none"
    BY DEF AckInv, Open, Handled
  <1>2. call.pc \in {"dial", "issue", "send", "refresh", "store"} =>
          req'[calls].at \in {"none", "denied"}
    BY DEF AckInv, Open, Handled, TypeInv, CallCounted
  <1>3. \A v \in Version : /\ req'[v].at \in Open => req[v].at \in Open
                           /\ req'[v].at \in Handled \cup {"done"} => req'[v].at = req[v].at
    BY DEF Open, Handled
  <1>4. running' <= calls
    BY DEF AckInv
  <1>5. ASSUME ~crossed
        PROVE  /\ \A v, w \in Version :
                    v # w /\ req'[v].at \in Handled \cup {"done"} /\ req'[w].at \in Open => v < w
               /\ \A v \in Version : req'[v].at = "written" => disk = v
               /\ \A v \in Version : req'[v].at = "done" => v <= disk /\ v <= running'
               /\ \A w \in Version : req'[w].at \in Open => acked < w /\ disk <= w /\ running' <= w
               /\ acked <= disk /\ acked <= running'
    BY <1>3, <1>5, Numbers DEF AckInv, Handled, TypeInv
  <1> QED
    BY <1>1, <1>2, <1>4, <1>5 DEF AckInv

\* A request is sent, for a call that was not answered.
LEMMA AckSend ==
  ASSUME TypeInv, AckInv, Send
  PROVE  AckInv'
  <1>1. /\ calls \in Version /\ req'[calls].at = "transit"
        /\ \A v \in Version : v # calls => req'[v] = req[v]
    BY SendTypes DEF TypeInv, Send, CallCounted
  <1>2. UNCHANGED <<calls, acked, disk, running, crossed>> /\ call.pc = "send"
    BY DEF Send
  <1>3. call'.pc = "wait"
    BY DEF Send, TypeInv, Types, PanelTypes, Call
  <1>4. \A v \in Version : v > calls => req'[v].at = "none"
    BY <1>1, Numbers DEF AckInv, TypeInv
  <1>5. \A v \in Version : req[v].at # "none" /\ v # calls => v < calls
    BY <1>1, Numbers DEF AckInv, TypeInv
  <1>6. "transit" \notin Handled \cup {"done", "none", "written"}
    BY DEF Handled
  <1>7. ASSUME ~crossed
        PROVE  /\ \A v, w \in Version :
                    v # w /\ req'[v].at \in Handled \cup {"done"} /\ req'[w].at \in Open => v < w
               /\ \A v \in Version : req'[v].at = "written" => disk = v
               /\ \A v \in Version : req'[v].at = "done" => v <= disk /\ v <= running
               /\ \A w \in Version : req'[w].at \in Open => acked < w /\ disk <= w /\ running <= w
               /\ acked <= disk /\ acked <= running
    <2>1. ASSUME NEW v \in Version, NEW w \in Version,
                 v # w, req'[v].at \in Handled \cup {"done"}, req'[w].at \in Open
          PROVE  v < w
      <3>1. v # calls /\ req'[v] = req[v] /\ req[v].at # "none"
        BY <1>1, <1>6, <2>1 DEF Handled
      <3>2. CASE w = calls
        BY <1>5, <3>1, <3>2
      <3>3. CASE w # calls
        BY <1>1, <1>7, <2>1, <3>1, <3>3 DEF AckInv
      <3> QED
        BY <3>2, <3>3
    <2>2. \A v \in Version : req'[v].at = "written" => disk = v
      BY <1>1, <1>7 DEF AckInv
    <2>3. \A v \in Version : req'[v].at = "done" => v <= disk /\ v <= running
      BY <1>1, <1>7 DEF AckInv
    <2>4. \A w \in Version : req'[w].at \in Open => acked < w /\ disk <= w /\ running <= w
      BY <1>1, <1>2, <1>7 DEF AckInv
    <2>5. acked <= disk /\ acked <= running
      BY <1>7 DEF AckInv
    <2> QED
      BY <2>1, <2>2, <2>3, <2>4, <2>5
  <1> QED
    BY <1>2, <1>3, <1>4, <1>7 DEF AckInv

\* A call is answered: what it carried is applied, and no older request is open.
LEMMA AckAnswer ==
  ASSUME TypeInv, AckInv, Answer
  PROVE  AckInv'
  <1> DEFINE at == req[calls].at
  <1>1. /\ UNCHANGED <<calls, disk, running, crossed, req>> /\ call.pc = "wait"
        /\ acked' = IF at = "done" THEN calls ELSE acked
    BY DEF Answer, agentVars
  <1>2. calls \in Version /\ calls \in Nat
    BY <1>1, Numbers DEF TypeInv, CallCounted
  <1>3. call \in Call
    BY CallRecords DEF TypeInv, Types
  <1>4. call'.pc = "idle" \/ (call'.pc = "refresh" /\ at = "denied")
    <2>1. CASE at = "done"
      BY <2>1, <1>3 DEF Answer, Over, Call
    <2>2. CASE at = "denied" /\ call.tries = 1
      BY <2>2, <1>3 DEF Answer, Over, Call
    <2>3. CASE at = "denied" /\ call.tries = 2
      BY <2>3, <1>3 DEF Answer, Over, Call
    <2>4. CASE at # "done" /\ ~(at = "denied" /\ call.tries \in {1, 2})
      BY <2>4, <1>3 DEF Answer, Over, Call
    <2> QED
      BY <2>1, <2>2, <2>3, <2>4
  <1>5. CASE at # "done"
    BY <1>1, <1>4, <1>5, AckCallFrame
  <1>6. CASE at = "done"
    <2>1. call'.pc = "idle" /\ acked' = calls
      BY <1>1, <1>4, <1>6
    <2>2. ASSUME ~crossed
          PROVE  /\ \A w \in Version : req[w].at \in Open => calls < w
                 /\ calls <= disk /\ calls <= running
      <3>1. \A w \in Version : req[w].at \in Open => w # calls
        BY <1>6 DEF Open, Handled
      <3> QED
        BY <1>2, <1>6, <2>2, <3>1 DEF AckInv
    <2>3. calls <= calls
      BY <1>2
    <2> QED
      BY <1>1, <2>1, <2>2, <2>3 DEF AckInv
  <1> QED
    BY <1>5, <1>6

LEMMA AckCallStep ==
  ASSUME TypeInv, AckInv, CallStep
  PROVE  AckInv'
  <1>1. call \in Call /\ req \in [Version -> Request]
    BY CallRecords DEF TypeInv, Types, NodeTypes
  <1>2. CASE BeginCall
    <2>1. /\ calls' = calls + 1 /\ calls + 1 \in Version
          /\ UNCHANGED <<acked, disk, running, crossed, req>>
      BY <1>2, Bounds DEF BeginCall, agentVars, TypeInv, Types, PanelTypes, Config, Version
    <2>2. calls < calls + 1 /\ calls \in Nat
      BY Numbers DEF TypeInv
    <2>3. req[calls + 1].at = "none" /\ acked < calls + 1
      BY <2>1, <2>2, Numbers DEF AckInv, TypeInv
    <2>4. \A v \in Version : v > calls + 1 => req[v].at = "none"
      BY <2>2, Numbers DEF AckInv, TypeInv
    <2>5. acked <= calls + 1 /\ disk <= calls + 1 /\ running <= calls + 1
      BY <2>2, Numbers DEF AckInv, TypeInv
    <2> QED
      BY <2>1, <2>3, <2>4, <2>5 DEF AckInv
  <1>3. CASE Dial
    <2>1. call.pc = "dial" /\ UNCHANGED <<calls, acked, disk, running, crossed, req>>
      BY <1>3 DEF Dial, agentVars
    <2>2. req[calls].at \in {"none", "denied"}
      BY <2>1 DEF AckInv
    <2> QED
      BY <2>1, <2>2, AckCallFrame
  <1>4. CASE IssueForCall
    <2>1. call.pc = "issue" /\ UNCHANGED <<calls, acked, disk, running, crossed, req>>
      BY <1>4 DEF IssueForCall, agentVars
    <2>2. req[calls].at \in {"none", "denied"}
      BY <2>1 DEF AckInv
    <2> QED
      BY <2>1, <2>2, AckCallFrame
  <1>5. CASE Send
    BY <1>5, AckSend
  <1>6. CASE Answer
    BY <1>6, AckAnswer
  <1>7. CASE HangUp
    <2>1. calls \in Version
      BY <1>7 DEF HangUp, TypeInv, CallCounted
    <2>2. req' = [req EXCEPT ![calls].left = TRUE]
          /\ UNCHANGED <<calls, acked, disk, running, crossed>>
      BY <1>7 DEF HangUp
    <2>3. \A w \in Version : req'[w].at = req[w].at
      BY <2>1, <2>2, LeftChange DEF TypeInv, Types
    <2>4. call'.pc = "idle"
      BY <1>1, <1>7 DEF HangUp, Over, Call
    <2> QED
      BY <2>2, <2>3, <2>4 DEF AckInv
  <1>8. ASSUME NEW ok \in BOOLEAN, Refresh(ok) \/ StoreBearer(ok)
        PROVE  AckInv'
    <2>1. /\ call.pc \in {"refresh", "store"}
          /\ UNCHANGED <<calls, acked, disk, running, crossed, req>>
      BY <1>8 DEF Refresh, StoreBearer, agentVars
    <2>2. req[calls].at \in {"none", "denied"}
      BY <2>1 DEF AckInv
    <2> QED
      BY <2>1, <2>2, AckCallFrame
  <1> QED
    BY <1>2, <1>3, <1>4, <1>5, <1>6, <1>7, <1>8 DEF CallStep

\* A request comes in and is let in beside no other, or is not let in.
LEMMA AckAccept ==
  ASSUME TypeInv, AckInv, NEW v \in Version, Accept(v),
         UNCHANGED <<calls, call, acked>>
  PROVE  AckInv'
  <1>1. PICK at : /\ at = Verdict(req[v]) /\ at \in {"refused", "denied", "accepted"}
    BY DEF Verdict
  <1>2. \A w \in Version : /\ req'[w].at = IF w = v THEN at ELSE req[w].at
                           /\ req'[w].bearer = req[w].bearer
    <2>1. req' = [req EXCEPT ![v].at = at]
      BY <1>1 DEF Accept
    <2>2. NodeTypes
      BY DEF TypeInv, Types
    <2> QED
      BY <2>1, <2>2, AtChange
  <1>3. req[v].at = "transit" /\ UNCHANGED <<disk, running>>
        /\ crossed' = (crossed \/ (at = "accepted" /\
                         \E w \in Version \ {v} : req[w].at \in Open))
    BY <1>1 DEF Accept, Open
  <1>4. CASE at # "accepted"
    <2>1. crossed' = crossed
      BY <1>3, <1>4 DEF TypeInv, Types, NodeTypes
    <2>2. \A w \in Version : \/ req'[w].at = req[w].at
                             \/ req[w].at \in Open /\ req'[w].at \in {"failed", "refused", "denied"}
      BY <1>1, <1>2, <1>3, <1>4 DEF Open
    <2> QED
      BY <1>3, <2>1, <2>2, AckFailures
  <1>5. CASE at = "accepted"
    <2>1. \A w \in Version : w > calls => req'[w].at = "none"
      BY <1>2, <1>3 DEF AckInv
    <2>2. call.pc \in {"dial", "issue", "send", "refresh", "store"} => req'[calls].at \in {"none", "denied"}
      BY <1>2, <1>3 DEF AckInv, TypeInv, CallCounted
    <2>3. ASSUME ~crossed'
          PROVE  /\ \A u, w \in Version :
                      u # w /\ req'[u].at \in Handled \cup {"done"} /\ req'[w].at \in Open => u < w
                 /\ \A u \in Version : req'[u].at = "written" => disk = u
                 /\ \A u \in Version : req'[u].at = "done" => u <= disk /\ u <= running
                 /\ \A w \in Version : req'[w].at \in Open => acked < w /\ disk <= w /\ running <= w
                 /\ acked <= disk /\ acked <= running
      <3>1. ~crossed /\ \A w \in Version \ {v} : req[w].at \notin Open
        BY <1>3, <1>5, <2>3
      <3>2. \A w \in Version : req'[w].at \in Open => w = v
        BY <1>2, <3>1
      <3>3. req[v].at \in Open
        BY <1>3 DEF Open
      <3>4. \A u \in Version : u # v /\ req[u].at = "done" => u < v
        BY <3>1, <3>3 DEF AckInv
      <3>5. \A u \in Version : u # v /\ req'[u].at \in Handled \cup {"done"} => u < v
        BY <1>2, <3>1, <3>4 DEF Open
      <3>6. \A u \in Version : req'[u].at \in {"written", "done"} => req'[u].at = req[u].at
        BY <1>2, <1>5
      <3> QED
        BY <3>1, <3>2, <3>3, <3>5, <3>6 DEF AckInv
    <2> QED
      BY <1>3, <2>1, <2>2, <2>3 DEF AckInv
  <1> QED
    BY <1>4, <1>5

LEMMA AckWrite ==
  ASSUME TypeInv, AckInv, NEW v \in Version, Write(v), UNCHANGED <<calls, call, acked>>
  PROVE  AckInv'
  <1>1. \A w \in Version : /\ req'[w].at = IF w = v THEN "written" ELSE req[w].at
                           /\ req'[w].bearer = req[w].bearer
    <2>1. req' = [req EXCEPT ![v].at = "written"]
      BY DEF Write
    <2>2. NodeTypes
      BY DEF TypeInv, Types
    <2> QED
      BY <2>1, <2>2, AtChange
  <1>2. req[v].at = "accepted" /\ disk' = v /\ UNCHANGED <<running, crossed>>
    BY DEF Write
  <1>3. v <= calls
    BY <1>2, Numbers DEF AckInv, TypeInv
  <1>4. \A w \in Version : w > calls => req'[w].at = "none"
    BY <1>1, <1>2 DEF AckInv
  <1>5. call.pc \in {"dial", "issue", "send", "refresh", "store"} => req'[calls].at \in {"none", "denied"}
    BY <1>1, <1>2 DEF AckInv, TypeInv, CallCounted
  <1>6. ASSUME ~crossed
        PROVE  /\ \A u, w \in Version :
                    u # w /\ req'[u].at \in Handled \cup {"done"} /\ req'[w].at \in Open => u < w
               /\ \A u \in Version : req'[u].at = "written" => v = u
               /\ \A u \in Version : req'[u].at = "done" => u <= v /\ u <= running
               /\ \A w \in Version : req'[w].at \in Open => acked < w /\ v <= w /\ running <= w
               /\ acked <= v /\ acked <= running
    <2>1. \A u \in Version : /\ req'[u].at \in Open <=> req[u].at \in Open
                             /\ req'[u].at \in Handled <=> req[u].at \in Handled
                             /\ req'[u].at = "done" <=> req[u].at = "done"
      BY <1>1, <1>2 DEF Open, Handled
    <2>2. req[v].at \in Open /\ req[v].at \in Handled
      BY <1>2 DEF Open, Handled
    <2>3. \A u, w \in Version :
             u # w /\ req[u].at \in Handled \cup {"done"} /\ req[w].at \in Open => u < w
      BY <1>6 DEF AckInv
    <2>4. \A u, w \in Version :
             u # w /\ req'[u].at \in Handled \cup {"done"} /\ req'[w].at \in Open => u < w
      BY <2>1, <2>3
    <2>5. ASSUME NEW u \in Version, req'[u].at = "written" PROVE v = u
      <3>1. req[u].at \in Handled /\ req[u].at \in Open
        BY <2>1, <2>5 DEF Handled, Open
      <3> QED
        BY <3>1, <2>2, <2>3, Numbers DEF TypeInv
    <2>6. ASSUME NEW u \in Version, req'[u].at = "done" PROVE u <= v /\ u <= running
      <3>1. req[u].at = "done" /\ u # v
        BY <2>1, <2>6, <1>1
      <3>2. u < v /\ u <= running
        BY <3>1, <2>2, <2>3, <1>6 DEF AckInv
      <3> QED
        BY <3>2, Numbers DEF TypeInv
    <2>7. ASSUME NEW w \in Version, req'[w].at \in Open
          PROVE  acked < w /\ v <= w /\ running <= w
      <3>1. acked < w /\ running <= w
        BY <2>1, <2>7, <1>6 DEF AckInv
      <3>2. v = w \/ v < w
        BY <2>1, <2>2, <2>3, <2>7
      <3> QED
        BY <3>1, <3>2, Numbers DEF TypeInv
    <2>8. acked <= v /\ acked <= running
      BY <2>2, <1>6, Numbers DEF AckInv, TypeInv
    <2> QED
      BY <2>4, <2>5, <2>6, <2>7, <2>8
  <1> QED
    BY <1>2, <1>3, <1>4, <1>5, <1>6 DEF AckInv

LEMMA AckReload ==
  ASSUME TypeInv, AckInv, NEW v \in Version, Reload(v), UNCHANGED <<calls, call, acked>>
  PROVE  AckInv'
  <1>1. \A w \in Version : /\ req'[w].at = IF w = v THEN "done" ELSE req[w].at
                           /\ req'[w].bearer = req[w].bearer
    <2>1. req' = [req EXCEPT ![v].at = "done"]
      BY DEF Reload
    <2>2. NodeTypes
      BY DEF TypeInv, Types
    <2> QED
      BY <2>1, <2>2, AtChange
  <1>2. req[v].at = "written" /\ running' = disk /\ UNCHANGED <<disk, crossed>>
    BY DEF Reload
  <1>3. disk <= calls
    BY DEF AckInv
  <1>4. \A w \in Version : w > calls => req'[w].at = "none"
    BY <1>1, <1>2 DEF AckInv
  <1>5. call.pc \in {"dial", "issue", "send", "refresh", "store"} => req'[calls].at \in {"none", "denied"}
    BY <1>1, <1>2 DEF AckInv, TypeInv, CallCounted
  <1>6. ASSUME ~crossed
        PROVE  /\ \A u, w \in Version :
                    u # w /\ req'[u].at \in Handled \cup {"done"} /\ req'[w].at \in Open => u < w
               /\ \A u \in Version : req'[u].at = "written" => disk = u
               /\ \A u \in Version : req'[u].at = "done" => u <= disk
               /\ \A w \in Version : req'[w].at \in Open => acked < w /\ disk <= w
               /\ acked <= disk
    <2>1. \A u \in Version : /\ req'[u].at \in Open => req[u].at \in Open
                             /\ req'[u].at \in Handled \cup {"done"} => req[u].at \in Handled \cup {"done"}
                             /\ req'[u].at = "written" => req[u].at = "written"
      BY <1>1, <1>2 DEF Open, Handled
    <2>2. disk = v
      BY <1>2, <1>6 DEF AckInv
    <2>3. \A u \in Version : req'[u].at = "done" => u = v \/ req[u].at = "done"
      BY <1>1
    <2> QED
      BY <2>1, <2>2, <2>3, <1>6, Numbers DEF AckInv, TypeInv
  <1> QED
    BY <1>2, <1>3, <1>4, <1>5, <1>6 DEF AckInv

LEMMA AckExec ==
  ASSUME TypeInv, AckInv, req' = Dropped, running' \in {running, disk},
         UNCHANGED <<calls, call, acked, disk, crossed>>
  PROVE  AckInv'
  <1>1. \A v \in Version : req'[v].at = IF req[v].at \in Handled THEN "failed" ELSE req[v].at
    BY DroppedTypes DEF TypeInv, Types
  <1>2. \A v \in Version : \/ req'[v].at = req[v].at
                           \/ req[v].at \in Open /\ req'[v].at \in {"failed", "refused", "denied"}
    BY <1>1 DEF Open
  <1> QED
    BY <1>2, AckFailures

LEMMA AckNodeStep ==
  ASSUME TypeInv, AckInv, NodeStep
  PROVE  AckInv'
  <1>1. UNCHANGED <<calls, call, acked>>
    BY NodeSteps
  <1>2. CASE Load
    <2>1. UNCHANGED <<disk, running, crossed>> /\ (req' = req \/ req' = Dropped)
      BY <1>2 DEF Load
    <2> QED
      BY <1>1, <2>1, AckFrame, AckExec
  <1>3. CASE Respawn \/ AgentCrash \/ Reboot
    <2>1. req' = Dropped /\ running' \in {running, disk} /\ UNCHANGED <<disk, crossed>>
      BY <1>3 DEF Respawn, AgentCrash, Reboot, Exec
    <2> QED
      BY <1>1, <2>1, AckExec
  <1>4. CASE Regenerate(ByHand)
    BY <1>1, <1>4, AckFrame DEF Regenerate
  <1>5. ASSUME NEW v \in Version, Accept(v) \/ Write(v) \/ Reload(v) PROVE AckInv'
    BY <1>1, <1>5, AckAccept, AckWrite, AckReload
  <1>6. ASSUME NEW v \in Version, NEW read \in BOOLEAN,
               Vanish(v) \/ WriteFailed(v) \/ ReloadFailed(v, read)
        PROVE  AckInv'
    <2>1. /\ req' = [req EXCEPT ![v].at = "failed"] /\ req[v].at \in Open
          /\ running' \in {running, disk} /\ UNCHANGED <<disk, crossed>>
      BY <1>6 DEF Vanish, WriteFailed, ReloadFailed, Open, Handled
    <2>2. \A w \in Version : /\ req'[w].at = IF w = v THEN "failed" ELSE req[w].at
                             /\ req'[w].bearer = req[w].bearer
      <3>1. NodeTypes
        BY DEF TypeInv, Types
      <3> QED
        BY <2>1, <3>1, AtChange
    <2> QED
      BY <1>1, <2>1, <2>2, AckFailures
  <1>7. TRUE \in BOOLEAN
    OBVIOUS
  <1> QED
    BY <1>2, <1>3, <1>4, <1>5, <1>6, <1>7, NodeSteps

LEMMA AckStep == TypeInv /\ AckInv /\ [Next]_vars => AckInv'
  <1> SUFFICES ASSUME TypeInv, AckInv, [Next]_vars PROVE AckInv'
    OBVIOUS
  <1>1. ASSUME NEW j \in Job, ProvisionStep(j) PROVE AckInv'
    <2>1. ASSUME NEW done \in BOOLEAN, NEW ok \in BOOLEAN, RestartAgent(j, done, ok)
          PROVE  AckInv'
      <3>1. UNCHANGED <<calls, call, acked, disk, running, crossed>>
            /\ (req' = req \/ req' = Dropped)
        BY <2>1 DEF RestartAgent, Exec
      <3> QED
        BY <3>1, AckFrame, AckExec
    <2>2. ASSUME BeginProvision(j) \/ IssueForNode(j) \/ \E ok \in BOOLEAN : Verify(j, ok)
          PROVE  AckInv'
      BY <2>2, AckFrame DEF BeginProvision, IssueForNode, Verify, agentVars
    <2>3. ASSUME NEW done \in BOOLEAN, NEW ok \in BOOLEAN,
                 WriteEnv(j, done, ok) \/ PushFile(j, done, ok) \/ SetBearer(j, done, ok)
                   \/ SetState(j, done, ok)
          PROVE  AckInv'
      BY <2>3, AckFrame DEF WriteEnv, PushFile, SetBearer, SetState, agentVars
    <2> QED
      BY <1>1, <2>1, <2>2, <2>3 DEF ProvisionStep
  <1>2. CASE StopPanel
    <2>1. UNCHANGED <<calls, acked, disk, running, crossed>>
      BY <1>2 DEF StopPanel
    <2>2. call'.pc = "idle"
      <3>1. call \in Call
        BY DEF TypeInv, Types, PanelTypes
      <3>2. call' = IF call.pc = "idle" THEN call ELSE [call EXCEPT !.pc = "idle", !.verdict = "failed"]
        BY <1>2 DEF StopPanel
      <3> QED
        BY <3>1, <3>2 DEF Call
    <2>3. \A w \in Version : req'[w].at = req[w].at
      BY <1>2, LeftChange DEF StopPanel, TypeInv, Types, CallCounted
    <2> QED
      BY <2>1, <2>2, <2>3 DEF AckInv
  <1>3. CASE PutOffline \/ StartPanel
    BY <1>3, AckFrame DEF PutOffline, StartPanel, agentVars
  <1>4. CASE UNCHANGED <<agentVars, linkVars>>
    BY <1>4, AckFrame DEF agentVars, linkVars
  <1> QED
    BY <1>1, <1>2, <1>3, <1>4, AckCallStep, AckNodeStep DEF Next, OtherPanel, vars

\* For any number of calls, with requests that are given up, arrive late or never,
\* fail halfway or are dropped by a restart or a reboot, what the agent reported
\* as applied stays on the disk and running, as long as no request was let in
\* while another was open.
THEOREM AppliedStays == Spec => []AckedStays
  <1>1. Init => TypeInv /\ AckInv
    <2>1. Init => AckInv
      BY DEF Init, AgentInit, AckInv, NoRequest, NoCall, Open, Handled
    <2> QED
      BY <2>1, InitTypes DEF TypeInv
  <1>2. TypeInv /\ AckInv => AckedStays
    <2> SUFFICES ASSUME TypeInv, AckInv, ~crossed PROVE disk >= acked /\ running >= acked
      BY DEF AckedStays
    <2> QED
      BY Numbers DEF AckInv, TypeInv
  <1> QED
    BY <1>1, <1>2, TypeStep, AckStep, PTL DEF Spec

-----------------------------------------------------------------------------
(* The stale bearer.                                                       *)

\* While the agent's bearer has been agent.env's for the whole call, the bearer
\* of the second attempt is that one, and the attempt is not denied.
StaleInv ==
  /\ call.verdict = "stale" => moved
  /\ call.pc # "idle" => call.verdict = "none"
  /\ call.pc \in {"dial", "issue"} => call.tries = 1
  /\ call.pc # "idle" /\ ~moved => agent.bearer = env
  /\ call.pc = "store" /\ ~moved => call.bearer = env
  /\ call.pc \in {"send", "wait"} /\ call.tries = 2 /\ ~moved => call.bearer = env
  /\ call.pc = "wait" /\ call.tries = 2 /\ ~moved =>
       req[calls].bearer = env /\ req[calls].at # "denied"

LEMMA StaleFrame ==
  StaleInv /\ UNCHANGED <<call, calls, agent, env, req, moved>> => StaleInv'
  BY DEF StaleInv

\* A step of another than the call.
LEMMA StaleMove ==
  ASSUME TypeInv, StaleInv, UNCHANGED <<call, calls>>, NoteMove,
         \A v \in Version : /\ req'[v].bearer = req[v].bearer
                            /\ req'[v].at = "denied" =>
                                 req[v].at = "denied" \/ req[v].bearer # agent.bearer
  PROVE  StaleInv'
  <1>1. moved \in BOOLEAN
    BY DEF TypeInv, Types, PanelTypes
  <1>2. moved' => moved \/ env' # env \/ agent'.bearer # agent.bearer
    BY <1>1 DEF NoteMove
  <1>3. ~moved' => ~moved /\ env' = env /\ agent'.bearer = agent.bearer
    BY <1>1 DEF NoteMove
  <1>4. moved => moved'
    BY <1>1 DEF NoteMove
  <1>5. call.pc = "wait" => calls \in Version
    BY DEF TypeInv, CallCounted
  <1>6. call.pc = "wait" /\ call.tries = 2 /\ ~moved' =>
          req'[calls].bearer = env /\ req'[calls].at # "denied"
    BY <1>3, <1>5 DEF StaleInv
  <1> QED
    BY <1>3, <1>4, <1>6 DEF StaleInv

\* The call is over.
LEMMA StaleOver ==
  ASSUME call \in Call, NEW verdict \in {"ok", "stale", "failed"}, Over(verdict),
         verdict = "stale" => moved, UNCHANGED moved
  PROVE  StaleInv'
  <1>1. call'.pc = "idle" /\ call'.verdict = verdict
    BY DEF Over, Call
  <1> QED
    BY <1>1 DEF StaleInv

LEMMA StaleCallStep ==
  ASSUME TypeInv, StaleInv, CallStep
  PROVE  StaleInv'
  <1>1. call \in Call /\ req \in [Version -> Request]
    BY DEF TypeInv, Types, NodeTypes, PanelTypes
  <1>2. CASE BeginCall
    <2>1. /\ call'.pc \in {"dial", "send"} /\ call'.tries = 1 /\ call'.verdict = "none"
          /\ moved' = (agent.bearer # env) /\ UNCHANGED <<agent, env>>
      BY <1>2 DEF BeginCall, NoCall, agentVars
    <2>2. /\ call'.verdict # "stale" /\ call'.pc \notin {"store", "wait"}
          /\ call'.tries = 1 /\ call'.tries # 2
      BY <2>1
    <2>3. ~moved' => agent'.bearer = env'
      BY <2>1
    <2> QED
      BY <2>1, <2>2, <2>3 DEF StaleInv
  <1>3. CASE Dial
    <2>1. UNCHANGED <<agent, env, moved, calls, req>> /\ call.pc = "dial"
      BY <1>3 DEF Dial, agentVars
    <2>2. CASE Lookup = "error"
      BY <1>1, <1>3, <2>1, <2>2, StaleOver DEF Dial
    <2>3. CASE Lookup # "error"
      <3>1. PICK pc \in {"issue", "send"} : call' = [call EXCEPT !.pc = pc]
        <4>1. CASE Lookup = "found"
          BY <1>3, <4>1 DEF Dial
        <4>2. CASE Lookup = "missing"
          BY <1>3, <4>2 DEF Dial
        <4> QED
          BY <2>3, <4>1, <4>2 DEF Lookup
      <3>2. /\ call'.pc = pc /\ call'.tries = call.tries /\ call'.verdict = call.verdict
            /\ call'.bearer = call.bearer
        BY <1>1, <3>1 DEF Call
      <3> QED
        BY <2>1, <3>2 DEF StaleInv
    <2> QED
      BY <2>2, <2>3
  <1>4. CASE IssueForCall
    <2>1. UNCHANGED <<agent, env, moved, calls, req>> /\ call.pc = "issue"
      BY <1>4 DEF IssueForCall, agentVars
    <2>2. /\ call'.pc = "send" /\ call'.tries = call.tries /\ call'.verdict = call.verdict
          /\ call'.bearer = call.bearer
      BY <1>1, <1>4 DEF IssueForCall, Call
    <2> QED
      BY <2>1, <2>2 DEF StaleInv
  <1>5. CASE Send
    <2>1. UNCHANGED <<agent, env, moved, calls>> /\ call.pc = "send"
      BY <1>5 DEF Send
    <2>2. /\ call'.pc = "wait" /\ call'.tries = call.tries /\ call'.verdict = call.verdict
          /\ call'.bearer = call.bearer
      BY <1>1, <1>5 DEF Send, Call
    <2>3. /\ req'[calls].at = "transit"
          /\ req'[calls].bearer = IF call.tries = 1 THEN rowBearer ELSE call.bearer
      BY <1>5, SendTypes DEF TypeInv
    <2> QED
      BY <2>1, <2>2, <2>3 DEF StaleInv
  <1>6. CASE Answer
    <2>1. UNCHANGED <<agent, env, moved, calls, req>> /\ call.pc = "wait"
      BY <1>6 DEF Answer, agentVars
    <2>2. CASE req[calls].at = "denied" /\ call.tries = 1
      <3>1. call' = [call EXCEPT !.pc = "refresh"]
        BY <1>6, <2>2 DEF Answer
      <3>2. call'.pc = "refresh" /\ call'.verdict = call.verdict
        BY <1>1, <3>1 DEF Call
      <3> QED
        BY <2>1, <3>2 DEF StaleInv
    <2>3. CASE req[calls].at = "denied" /\ call.tries = 2
      <3>1. Over("stale")
        BY <1>6, <2>3 DEF Answer
      <3>2. moved
        BY <2>1, <2>3 DEF StaleInv
      <3> QED
        BY <1>1, <2>1, <3>1, <3>2, StaleOver
    <2>4. CASE ~(req[calls].at = "denied" /\ call.tries \in {1, 2})
      <3>1. Over("ok") \/ Over("failed")
        BY <1>6, <2>4 DEF Answer
      <3> QED
        BY <1>1, <2>1, <3>1, StaleOver
    <2> QED
      BY <2>2, <2>3, <2>4
  <1>7. CASE HangUp
    BY <1>1, <1>7, StaleOver DEF HangUp
  <1>8. ASSUME NEW ok \in BOOLEAN, Refresh(ok)
        PROVE  StaleInv'
    <2>1. UNCHANGED <<agent, env, moved, calls, req>> /\ call.pc = "refresh"
      BY <1>8 DEF Refresh, agentVars
    <2>2. CASE ok /\ env # None
      <3>1. call' = [call EXCEPT !.pc = "store", !.bearer = env]
        BY <1>8, <2>2 DEF Refresh
      <3>2. call'.pc = "store" /\ call'.bearer = env /\ call'.verdict = call.verdict
        BY <1>1, <3>1 DEF Call
      <3> QED
        BY <2>1, <3>2 DEF StaleInv
    <2>3. CASE ~(ok /\ env # None)
      BY <1>1, <1>8, <2>1, <2>3, StaleOver DEF Refresh
    <2> QED
      BY <2>2, <2>3
  <1>9. ASSUME NEW ok \in BOOLEAN, StoreBearer(ok)
        PROVE  StaleInv'
    <2>1. UNCHANGED <<agent, env, moved, calls, req>> /\ call.pc = "store"
      BY <1>9 DEF StoreBearer, agentVars
    <2>2. CASE ok
      <3>1. call' = [call EXCEPT !.pc = "send", !.tries = 2]
        BY <1>9, <2>2 DEF StoreBearer
      <3>2. call'.pc = "send" /\ call'.bearer = call.bearer /\ call'.verdict = call.verdict
        BY <1>1, <3>1 DEF Call
      <3> QED
        BY <2>1, <3>2 DEF StaleInv
    <2>3. CASE ~ok
      BY <1>1, <1>9, <2>1, <2>3, StaleOver DEF StoreBearer
    <2> QED
      BY <2>2, <2>3
  <1> QED
    BY <1>2, <1>3, <1>4, <1>5, <1>6, <1>7, <1>8, <1>9 DEF CallStep

\* A process that ends fails its requests and denies none.
LEMMA StaleDropped ==
  ASSUME TypeInv, StaleInv, UNCHANGED <<call, calls>>, NoteMove, req' = req \/ req' = Dropped
  PROVE  StaleInv'
  <1>1. \A v \in Version : /\ req'[v].bearer = req[v].bearer
                           /\ req'[v].at = "denied" => req[v].at = "denied"
    BY DroppedTypes DEF TypeInv, Types
  <1> QED
    BY <1>1, StaleMove

LEMMA StaleNodeStep ==
  ASSUME TypeInv, StaleInv, NodeStep
  PROVE  StaleInv'
  <1>1. UNCHANGED <<call, calls>> /\ NoteMove
    BY NodeSteps
  <1>2. CASE Load \/ Respawn \/ AgentCrash \/ Reboot \/ Regenerate(ByHand)
    <2>1. req' = req \/ req' = Dropped
      BY <1>2 DEF Load, Respawn, AgentCrash, Reboot, Regenerate, Exec
    <2> QED
      BY <1>1, <2>1, StaleDropped
  <1>3. ASSUME NEW v \in Version, NEW read \in BOOLEAN,
               Vanish(v) \/ Write(v) \/ Reload(v) \/ WriteFailed(v) \/ ReloadFailed(v, read)
        PROVE  StaleInv'
    <2>1. PICK at \in {"written", "done", "failed"} : req' = [req EXCEPT ![v].at = at]
      BY <1>3 DEF Vanish, Write, Reload, WriteFailed, ReloadFailed
    <2>2. \A w \in Version : /\ req'[w].at = IF w = v THEN at ELSE req[w].at
                             /\ req'[w].bearer = req[w].bearer
      <3>1. NodeTypes
        BY DEF TypeInv, Types
      <3> QED
        BY <2>1, <3>1, AtChange
    <2> QED
      BY <1>1, <2>2, StaleMove
  <1>4. ASSUME NEW v \in Version, Accept(v) PROVE StaleInv'
    <2>1. PICK at \in {"refused", "denied", "accepted"} :
            at = Verdict(req[v]) /\ (at = "denied" => req[v].bearer # agent.bearer)
      BY DEF Verdict
    <2>2. req' = [req EXCEPT ![v].at = at]
      BY <1>4, <2>1 DEF Accept
    <2>3. \A w \in Version : /\ req'[w].at = IF w = v THEN at ELSE req[w].at
                             /\ req'[w].bearer = req[w].bearer
      <3>1. NodeTypes
        BY DEF TypeInv, Types
      <3> QED
        BY <2>2, <3>1, AtChange
    <2> QED
      BY <1>1, <2>1, <2>3, StaleMove
  <1>5. TRUE \in BOOLEAN
    OBVIOUS
  <1> QED
    BY <1>2, <1>3, <1>4, <1>5, NodeSteps

LEMMA StaleStep == TypeInv /\ StaleInv /\ [Next]_vars => StaleInv'
  <1> SUFFICES ASSUME TypeInv, StaleInv, [Next]_vars PROVE StaleInv'
    OBVIOUS
  <1>1. ASSUME NEW j \in Job, ProvisionStep(j) PROVE StaleInv'
    <2>1. ASSUME BeginProvision(j) \/ IssueForNode(j) \/ \E ok \in BOOLEAN : Verify(j, ok)
          PROVE  StaleInv'
      BY <2>1, StaleFrame DEF BeginProvision, IssueForNode, Verify, agentVars
    <2>2. ASSUME NEW done \in BOOLEAN, NEW ok \in BOOLEAN,
                 PushFile(j, done, ok) \/ SetBearer(j, done, ok) \/ SetState(j, done, ok)
          PROVE  StaleInv'
      BY <2>2, StaleFrame DEF PushFile, SetBearer, SetState, agentVars
    <2>3. ASSUME NEW done \in BOOLEAN, NEW ok \in BOOLEAN,
                 WriteEnv(j, done, ok) \/ RestartAgent(j, done, ok)
          PROVE  StaleInv'
      <3>1. UNCHANGED <<call, calls>> /\ NoteMove /\ (req' = req \/ req' = Dropped)
        BY <2>3 DEF WriteEnv, RestartAgent, Exec
      <3> QED
        BY <3>1, StaleDropped
    <2> QED
      BY <1>1, <2>1, <2>2, <2>3 DEF ProvisionStep
  <1>2. CASE StopPanel
    <2>1. call \in Call
      BY DEF TypeInv, Types, PanelTypes
    <2>2. CASE call.pc = "idle"
      BY <1>2, <2>2 DEF StopPanel, StaleInv
    <2>3. CASE call.pc # "idle"
      <3>1. Over("failed") /\ UNCHANGED moved
        <4>1. call' = [call EXCEPT !.pc = "idle", !.verdict = "failed"]
          BY <1>2, <2>3 DEF StopPanel
        <4> QED
          BY <1>2, <4>1 DEF StopPanel, Over
      <3> QED
        BY <2>1, <3>1, StaleOver
    <2> QED
      BY <2>2, <2>3
  <1>3. CASE PutOffline \/ StartPanel
    BY <1>3, StaleFrame DEF PutOffline, StartPanel, agentVars
  <1>4. CASE UNCHANGED <<agentVars, linkVars>>
    BY <1>4, StaleFrame DEF agentVars, linkVars
  <1> QED
    BY <1>1, <1>2, <1>3, <1>4, StaleCallStep, StaleNodeStep DEF Next, OtherPanel, vars

\* For any number of provisionings that write agent.env and the row while calls
\* are made, and with every failure: a call ends with ErrAgentStaleBearer only if
\* the agent's bearer was not agent.env's at some time during it.
THEOREM StaleMeansMoved == Spec => []StaleOnlyIfMoved
  <1>1. Init => TypeInv /\ StaleInv
    <2>1. Init => call.pc = "idle" /\ call.verdict = "none"
      BY DEF Init, NoCall
    <2> QED
      BY <2>1, InitTypes DEF TypeInv, StaleInv
  <1>2. StaleInv => StaleOnlyIfMoved
    BY DEF StaleInv, StaleOnlyIfMoved
  <1> QED
    BY <1>1, <1>2, TypeStep, StaleStep, PTL DEF Spec

-----------------------------------------------------------------------------
(* The certificate and the root.                                           *)

Pushed == {"key", "ca", "unit", "verify", "bearer", "online"}
Restarted == {"verify", "bearer", "online"}

\* Whatever is under way holds a certificate of the panel's root, and so do the
\* node's files and its agent once they are pushed and the agent is restarted.
TrustInv ==
  /\ call.pc # "idle" \/ fresh => boot[Panel] = "up"
  /\ call.pc = "issue" => backend = "memory"
  /\ certRow # NoCert =>
       boot[Panel] = "up" /\ backend = "memory" /\ certRow.root = cached[Panel]
  /\ \A j \in Job :
       /\ prov[j].pc \notin Ended => boot[Panel] = "up"
       /\ prov[j].pc = "issue" => backend = "memory" /\ prov[j].cert = NoCert
       /\ prov[j].pc \in {"crt", "key", "ca"} => prov[j].cert # NoCert
       /\ prov[j].cert # NoCert =>
            /\ prov[j].pc \notin Ended => prov[j].cert.root = cached[Panel]
            /\ prov[j].pc \in Pushed => files.crt.root = cached[Panel]
            /\ prov[j].pc \in Restarted /\ agent.state = "serving" =>
                 agent.cert.root = cached[Panel]
  /\ fresh => files.crt.root = cached[Panel]
  /\ fresh /\ agent.state = "serving" => agent.cert.root = cached[Panel]

LEMMA TrustFrame ==
  ASSUME TrustInv, UNCHANGED <<backend, files, agent, prov, fresh>>,
         boot'[Panel] = boot[Panel], cached'[Panel] = cached[Panel],
         certRow' = certRow \/ certRow' = NoCert,
         call'.pc # "idle" => boot[Panel] = "up",
         call'.pc = "issue" => backend = "memory"
  PROVE  TrustInv'
  BY DEF TrustInv

\* While the panel is not up there is nothing to trust.
LEMMA TrustDown ==
  ASSUME TrustInv, boot[Panel] # "up", UNCHANGED <<backend, certRow, call, prov, fresh>>
  PROVE  TrustInv'
  <1>1. call.pc = "idle" /\ ~fresh /\ certRow = NoCert
    BY DEF TrustInv
  <1>2. \A j \in Job : prov[j].pc \in Ended
    BY DEF TrustInv
  <1>3. \A j \in Job : /\ prov[j].pc \notin Pushed \cup Restarted
                       /\ prov[j].pc \notin {"issue", "crt", "key", "ca"}
    BY <1>2 DEF Pushed, Restarted, Ended
  <1>4. "issue" # "idle"
    OBVIOUS
  <1> QED
    BY <1>1, <1>2, <1>3 DEF TrustInv

\* The agent serves what it served, or what is in the files.
LEMMA TrustNode ==
  ASSUME TrustInv, UNCHANGED <<backend, boot, cached, certRow, call, files, prov, fresh>>,
         agent'.state = "serving" =>
           \/ agent.state = "serving" /\ agent'.cert = agent.cert
           \/ agent'.cert = files.crt
  PROVE  TrustInv'
  <1>1. Restarted \subseteq Pushed
    BY DEF Restarted, Pushed
  <1> QED
    BY <1>1 DEF TrustInv

\* A step of provisioning j that leaves it with its certificate.
LEMMA TrustJob ==
  ASSUME TrustInv, NEW j \in Job, UNCHANGED <<backend, boot, cached, certRow, call>>,
         prov[j].pc \notin Ended, prov'[j].pc # "issue",
         prov'[j].cert = prov[j].cert, \A i \in Job : i # j => prov'[i] = prov[i],
         prov'[j].pc \in {"crt", "key", "ca"} => prov[j].cert # NoCert,
         files'.crt.root = files.crt.root \/ files'.crt.root = cached[Panel],
         prov[j].cert # NoCert /\ prov'[j].pc \in Pushed => files'.crt.root = cached[Panel],
         agent'.state = "serving" => agent' = agent,
         prov[j].cert # NoCert /\ prov'[j].pc \in Restarted =>
           agent'.state # "serving" \/ prov[j].pc \in Restarted,
         fresh' => fresh \/ (prov[j].pc = "online" /\ prov[j].cert # NoCert)
  PROVE  TrustInv'
  <1>1. boot[Panel] = "up"
    BY DEF TrustInv
  <1>2. ASSUME NEW i \in Job
        PROVE  /\ prov'[i].pc \notin Ended => boot[Panel] = "up"
               /\ prov'[i].pc = "issue" => backend = "memory" /\ prov'[i].cert = NoCert
               /\ prov'[i].pc \in {"crt", "key", "ca"} => prov'[i].cert # NoCert
               /\ prov'[i].cert # NoCert =>
                    /\ prov'[i].pc \notin Ended => prov'[i].cert.root = cached[Panel]
                    /\ prov'[i].pc \in Pushed => files'.crt.root = cached[Panel]
                    /\ prov'[i].pc \in Restarted /\ agent'.state = "serving" =>
                         agent'.cert.root = cached[Panel]
    <2>1. CASE i = j
      BY <1>1, <2>1 DEF TrustInv
    <2>2. CASE i # j
      BY <2>2 DEF TrustInv
    <2> QED
      BY <2>1, <2>2
  <1>3. ASSUME fresh'
        PROVE  /\ files'.crt.root = cached[Panel]
               /\ agent'.state = "serving" => agent'.cert.root = cached[Panel]
    <2>1. CASE fresh
      BY <2>1 DEF TrustInv
    <2>2. CASE prov[j].pc = "online" /\ prov[j].cert # NoCert
      BY <2>2 DEF TrustInv, Pushed, Restarted
    <2> QED
      BY <1>3, <2>1, <2>2
  <1> QED
    BY <1>1, <1>2, <1>3 DEF TrustInv

LEMMA TrustBegin ==
  ASSUME TypeInv, TrustInv, NEW j \in Job, BeginProvision(j)
  PROVE  TrustInv'
  <1>1. /\ boot[Panel] = "up"
        /\ UNCHANGED <<backend, boot, cached, certRow, call, files, agent, fresh>>
    BY DEF BeginProvision, Up, caVars, agentVars
  <1>2. /\ \A i \in Job : i # j => prov'[i] = prov[i]
        /\ \/ prov'[j].pc = "env" /\ prov'[j].cert = certRow
           \/ prov'[j].pc = "issue" /\ prov'[j].cert = NoCert /\ Lookup = "missing"
           \/ prov'[j].pc = "env" /\ prov'[j].cert = NoCert
    BY BeginProvisionTypes DEF TypeInv
  <1>3. Lookup = "missing" => backend = "memory"
    BY DEF Lookup, TypeInv, Types, CATypeOK
  <1>4. "env" \notin Ended \cup Pushed \cup Restarted \cup {"issue", "crt", "key", "ca"}
        /\ "issue" \notin Ended \cup Pushed \cup Restarted \cup {"crt", "key", "ca"}
    BY DEF Ended, Pushed, Restarted
  <1>5. ASSUME NEW i \in Job
        PROVE  /\ prov'[i].pc = "issue" => backend = "memory" /\ prov'[i].cert = NoCert
               /\ prov'[i].pc \in {"crt", "key", "ca"} => prov'[i].cert # NoCert
               /\ prov'[i].cert # NoCert =>
                    /\ prov'[i].pc \notin Ended => prov'[i].cert.root = cached[Panel]
                    /\ prov'[i].pc \in Pushed => files.crt.root = cached[Panel]
                    /\ prov'[i].pc \in Restarted /\ agent.state = "serving" =>
                         agent.cert.root = cached[Panel]
    <2>1. CASE i = j
      BY <1>2, <1>3, <1>4, <2>1 DEF TrustInv
    <2>2. CASE i # j
      BY <1>2, <2>2 DEF TrustInv
    <2> QED
      BY <2>1, <2>2
  <1> QED
    BY <1>1, <1>5 DEF TrustInv

LEMMA TrustIssue ==
  ASSUME TypeInv, TrustInv, NEW j \in Job, IssueForNode(j)
  PROVE  TrustInv'
  <1>1. boot[Panel] = "up" /\ backend = "memory"
    BY DEF IssueForNode, TrustInv, Ended
  <1>2. UNCHANGED <<backend, boot, cached, call, files, agent, fresh>>
    BY DEF IssueForNode, Issue, agentVars
  <1>3. certRow' = NewCert /\ NewCert.root = cached[Panel]
    BY DEF IssueForNode, Issue, SaveNodeCerts, NewCert
  <1>4. /\ prov'[j].pc = "env" /\ prov'[j].cert = NewCert
        /\ \A i \in Job : i # j => prov'[i] = prov[i]
    BY IssueForNodeTypes DEF TypeInv
  <1>5. "env" \notin Ended \cup Pushed \cup Restarted \cup {"issue", "crt", "key", "ca"}
    BY DEF Ended, Pushed, Restarted
  <1>6. ASSUME NEW i \in Job
        PROVE  /\ prov'[i].pc = "issue" => backend = "memory" /\ prov'[i].cert = NoCert
               /\ prov'[i].pc \in {"crt", "key", "ca"} => prov'[i].cert # NoCert
               /\ prov'[i].cert # NoCert =>
                    /\ prov'[i].pc \notin Ended => prov'[i].cert.root = cached[Panel]
                    /\ prov'[i].pc \in Pushed => files.crt.root = cached[Panel]
                    /\ prov'[i].pc \in Restarted /\ agent.state = "serving" =>
                         agent.cert.root = cached[Panel]
    <2>1. CASE i = j
      BY <1>3, <1>4, <1>5, <2>1
    <2>2. CASE i # j
      BY <1>4, <2>2 DEF TrustInv
    <2> QED
      BY <2>1, <2>2
  <1> QED
    BY <1>1, <1>2, <1>3, <1>6 DEF TrustInv

\* The node serves a certificate only once it has loaded it.
LEMMA TrustNodeStep ==
  ASSUME TypeInv, TrustInv, NodeStep
  PROVE  TrustInv'
  <1>1. UNCHANGED <<backend, boot, cached, certRow, call, prov, fresh>>
    BY NodeSteps DEF caVars
  <1>2. agent \in Process
    BY DEF TypeInv, Types, NodeTypes
  <1>3. CASE Load
    <2>1. CASE Loadable
      BY <1>1, <1>2, <1>3, <2>1, TrustNode DEF Load, Process
    <2>2. CASE ~Loadable
      <3>1. agent'.state = "failed"
        BY <1>2, <1>3, <2>2 DEF Load, Process
      <3> QED
        BY <1>1, <1>3, <3>1, TrustNode DEF Load
    <2> QED
      BY <2>1, <2>2
  <1>4. CASE Respawn \/ Reboot
    BY <1>1, <1>4, TrustNode DEF Respawn, Reboot, Exec
  <1>5. CASE AgentCrash
    <2>1. agent'.state = "failed"
      BY <1>2, <1>5 DEF AgentCrash, Process
    <2> QED
      BY <1>1, <1>5, <2>1, TrustNode DEF AgentCrash
  <1>6. CASE Regenerate(ByHand)
    BY <1>1, <1>6, TrustNode DEF Regenerate
  <1>7. CASE \/ \E v \in Version : Accept(v) \/ Vanish(v) \/ Write(v) \/ Reload(v) \/ WriteFailed(v)
             \/ \E v \in Version, read \in BOOLEAN : ReloadFailed(v, read)
    BY <1>1, <1>7, TrustNode DEF Accept, Vanish, Write, Reload, WriteFailed, ReloadFailed
  <1> QED
    BY <1>3, <1>4, <1>5, <1>6, <1>7, NodeSteps

LEMMA TrustCallStep ==
  ASSUME TypeInv, TrustInv, CallStep
  PROVE  TrustInv'
  <1>1. call \in Call /\ backend \in {"memory", "pg"}
    BY DEF TypeInv, Types, CATypeOK, PanelTypes
  <1>2. call.pc # "idle" => boot[Panel] = "up"
    BY DEF TrustInv
  <1>3. CASE BeginCall
    <2>1. boot[Panel] = "up" /\ UNCHANGED <<caVars, files, agent, prov, fresh>>
      BY <1>3 DEF BeginCall, Up, agentVars
    <2>2. call'.pc # "issue"
      BY <1>3 DEF BeginCall, NoCall
    <2> QED
      BY <2>1, <2>2, TrustFrame DEF caVars
  <1>4. CASE Dial
    <2>1. call.pc = "dial" /\ UNCHANGED <<caVars, files, agent, prov, fresh>>
      BY <1>4 DEF Dial, agentVars
    <2>2. call'.pc = "issue" => backend = "memory"
      <3>1. CASE Lookup = "missing"
        BY <1>1, <3>1 DEF Lookup
      <3>2. CASE Lookup = "found"
        BY <1>1, <1>4, <3>2 DEF Dial, Call
      <3>3. CASE Lookup = "error"
        BY <1>1, <1>4, <3>3 DEF Dial, Over, Call
      <3> QED
        BY <3>1, <3>2, <3>3 DEF Lookup
    <2> QED
      BY <1>2, <2>1, <2>2, TrustFrame DEF caVars
  <1>5. CASE IssueForCall
    <2>1. boot[Panel] = "up" /\ backend = "memory"
      BY <1>5 DEF IssueForCall, TrustInv
    <2>2. UNCHANGED <<backend, boot, cached, files, agent, prov, fresh>>
      BY <1>5 DEF IssueForCall, Issue, agentVars
    <2>3. certRow' = NewCert /\ NewCert.root = cached[Panel]
      BY <1>5 DEF IssueForCall, Issue, SaveNodeCerts, NewCert
    <2>4. call'.pc = "send"
      BY <1>1, <1>5 DEF IssueForCall, Call
    <2> QED
      BY <2>1, <2>2, <2>3, <2>4 DEF TrustInv
  <1>6. CASE Send \/ Answer \/ HangUp \/ \E ok \in BOOLEAN : Refresh(ok) \/ StoreBearer(ok)
    <2>1. call.pc \notin {"idle", "dial", "issue"} /\ UNCHANGED <<caVars, files, agent, prov, fresh>>
      BY <1>6 DEF Send, Answer, HangUp, Refresh, StoreBearer, agentVars
    <2>2. call'.pc # "issue"
      <3>1. CASE Send
        BY <1>1, <3>1 DEF Send, Call
      <3>2. CASE HangUp
        BY <1>1, <3>2 DEF HangUp, Over, Call
      <3>3. CASE Answer
        <4>1. call'.pc \in {"idle", "refresh", "wait"}
          <5>1. CASE req[calls].at = "denied" /\ call.tries = 1
            BY <1>1, <3>3, <5>1 DEF Answer, Call
          <5>2. CASE ~(req[calls].at = "denied" /\ call.tries = 1)
            <6>1. Over("ok") \/ Over("stale") \/ Over("failed")
              BY <3>3, <5>2 DEF Answer
            <6> QED
              BY <1>1, <6>1 DEF Over, Call
          <5> QED
            BY <5>1, <5>2
        <4> QED
          BY <4>1
      <3>4. ASSUME NEW ok \in BOOLEAN, Refresh(ok) PROVE call'.pc # "issue"
        BY <1>1, <3>4 DEF Refresh, Over, Call
      <3>5. ASSUME NEW ok \in BOOLEAN, StoreBearer(ok) PROVE call'.pc # "issue"
        BY <1>1, <3>5 DEF StoreBearer, Over, Call
      <3> QED
        BY <1>6, <3>1, <3>2, <3>3, <3>4, <3>5
    <2> QED
      BY <1>2, <2>1, <2>2, TrustFrame DEF caVars
  <1> QED
    BY <1>3, <1>4, <1>5, <1>6 DEF CallStep

LEMMA TrustPushFile ==
  ASSUME TypeInv, TrustInv, NEW j \in Job, NEW done \in BOOLEAN, NEW ok \in BOOLEAN,
         PushFile(j, done, ok)
  PROVE  TrustInv'
  <1>1. UNCHANGED <<backend, boot, cached, certRow, call, agent, fresh>> /\ (ok => done)
    BY DEF PushFile, caVars
  <1>2. files \in Files /\ prov[j].cert # NoCert /\ prov[j].cert.root = cached[Panel]
        /\ prov[j].pc \notin Ended \cup Restarted
    BY DEF TypeInv, Types, NodeTypes, TrustInv, PushFile, Ended, Restarted
  <1>3. PICK pc \in Steps :
          /\ Then(j, ok, pc) /\ pc \in {"key", "ca", "unit"}
          /\ files'.crt \in {files.crt, prov[j].cert}
          /\ prov[j].pc \in Pushed \/ (ok => files'.crt = prov[j].cert)
    <2>1. {"key", "ca", "unit"} \subseteq Steps
      BY DEF Steps
    <2>2. CASE prov[j].pc = "crt"
      <3>1. Then(j, ok, "key") /\ files' = IF done THEN [files EXCEPT !.crt = prov[j].cert] ELSE files
        BY <2>2, PushFileParts DEF TypeInv
      <3>2. files'.crt = IF done THEN prov[j].cert ELSE files.crt
        BY <1>2, <3>1 DEF Files
      <3> QED
        BY <1>1, <2>1, <3>1, <3>2
    <2>3. CASE prov[j].pc = "key"
      <3>1. Then(j, ok, "ca") /\ files' = IF done THEN [files EXCEPT !.key = prov[j].cert.pair] ELSE files
        BY <2>3, PushFileParts DEF TypeInv
      <3>2. files'.crt = files.crt
        BY <1>2, <3>1 DEF Files
      <3> QED
        BY <2>1, <2>3, <3>1, <3>2 DEF Pushed
    <2>4. CASE prov[j].pc = "ca"
      <3>1. Then(j, ok, "unit") /\ files' = IF done THEN [files EXCEPT !.ca = prov[j].cert.root] ELSE files
        BY <2>4, PushFileParts DEF TypeInv
      <3>2. files'.crt = files.crt
        BY <1>2, <3>1 DEF Files
      <3> QED
        BY <2>1, <2>4, <3>1, <3>2 DEF Pushed
    <2> QED
      BY <2>2, <2>3, <2>4 DEF PushFile
  <1>4. /\ prov'[j].pc = (IF ok THEN pc ELSE "offline") /\ prov'[j].cert = prov[j].cert
        /\ \A i \in Job : i # j => prov'[i] = prov[i]
    BY <1>3, ThenTypes DEF TypeInv, Types
  <1>5. files'.crt.root = files.crt.root \/ files'.crt.root = cached[Panel]
    BY <1>2, <1>3
  <1>6. prov'[j].pc \in Pushed => files'.crt.root = cached[Panel]
    <2>1. CASE ok
      BY <1>2, <1>3, <1>5, <2>1 DEF TrustInv
    <2>2. CASE ~ok
      BY <1>4, <2>2 DEF Pushed
    <2> QED
      BY <2>1, <2>2
  <1>7. prov'[j].pc \notin Restarted /\ prov'[j].pc # "issue"
    BY <1>3, <1>4 DEF Restarted
  <1> QED
    BY <1>1, <1>2, <1>4, <1>5, <1>6, <1>7, TrustJob

LEMMA TrustJobStep ==
  ASSUME TypeInv, TrustInv, NEW j \in Job, ProvisionStep(j)
  PROVE  TrustInv'
  <1>1. ASSUME NEW done \in BOOLEAN, NEW ok \in BOOLEAN, WriteEnv(j, done, ok)
        PROVE  TrustInv'
    <2>1. UNCHANGED <<backend, boot, cached, certRow, call, files, agent, fresh>>
          /\ prov[j].pc = "env"
      BY <1>1 DEF WriteEnv, caVars
    <2>2. PICK pc \in Steps : /\ Then(j, ok, pc)
                              /\ pc = IF prov[j].cert = NoCert THEN "unit" ELSE "crt"
      BY <1>1 DEF WriteEnv, Steps
    <2>3. /\ prov'[j].pc = (IF ok THEN pc ELSE "offline") /\ prov'[j].cert = prov[j].cert
          /\ \A i \in Job : i # j => prov'[i] = prov[i]
      BY <2>2, ThenTypes DEF TypeInv, Types
    <2>4. /\ prov[j].pc \notin Ended
          /\ prov'[j].pc \notin Restarted /\ prov'[j].pc # "issue"
          /\ prov[j].cert # NoCert => prov'[j].pc \notin Pushed
          /\ prov'[j].pc \in {"crt", "key", "ca"} => prov[j].cert # NoCert
      BY <2>1, <2>2, <2>3 DEF Ended, Restarted, Pushed
    <2> QED
      BY <2>1, <2>3, <2>4, TrustJob
  <1>2. ASSUME NEW done \in BOOLEAN, NEW ok \in BOOLEAN, RestartAgent(j, done, ok)
        PROVE  TrustInv'
    <2>1. /\ UNCHANGED <<backend, boot, cached, certRow, call, files, fresh>>
          /\ prov[j].pc = "unit" /\ (ok => done) /\ Then(j, ok, "verify") /\ "verify" \in Steps
      BY <1>2 DEF RestartAgent, caVars, Steps
    <2>2. /\ prov'[j].pc = (IF ok THEN "verify" ELSE "offline") /\ prov'[j].cert = prov[j].cert
          /\ \A i \in Job : i # j => prov'[i] = prov[i]
      BY <2>1, ThenTypes DEF TypeInv, Types
    <2>3. /\ agent'.state = "serving" => agent' = agent
          /\ ok => agent'.state # "serving"
      BY <1>2 DEF RestartAgent, Exec
    <2>4. /\ prov[j].pc \notin Ended /\ prov[j].pc \in Pushed
          /\ prov'[j].pc \notin {"issue", "crt", "key", "ca"}
          /\ prov'[j].pc \in Restarted => ok
      BY <2>1, <2>2 DEF Ended, Pushed, Restarted
    <2>5. prov[j].cert # NoCert => files.crt.root = cached[Panel]
      BY <2>4 DEF TrustInv
    <2> QED
      BY <2>1, <2>2, <2>3, <2>4, <2>5, TrustJob
  <1>3. ASSUME NEW ok \in BOOLEAN, Verify(j, ok)
        PROVE  TrustInv'
    <2>1. UNCHANGED <<backend, boot, cached, certRow, call, files, agent, fresh>>
          /\ prov[j].pc = "verify"
      BY <1>3 DEF Verify, caVars, agentVars
    <2>2. /\ prov'[j].pc = (IF ok THEN "bearer" ELSE "offline") /\ prov'[j].cert = prov[j].cert
          /\ \A i \in Job : i # j => prov'[i] = prov[i]
      BY <1>3, VerifyTypes DEF TypeInv
    <2>3. /\ prov[j].pc \notin Ended /\ prov[j].pc \in Pushed /\ prov[j].pc \in Restarted
          /\ prov'[j].pc \notin {"issue", "crt", "key", "ca"}
      BY <2>1, <2>2 DEF Ended, Pushed, Restarted
    <2>4. prov[j].cert # NoCert => files.crt.root = cached[Panel]
      BY <2>3 DEF TrustInv
    <2> QED
      BY <2>1, <2>2, <2>3, <2>4, TrustJob
  <1>4. ASSUME NEW done \in BOOLEAN, NEW ok \in BOOLEAN, SetBearer(j, done, ok)
        PROVE  TrustInv'
    <2>1. UNCHANGED <<backend, boot, cached, certRow, call, files, agent, fresh>>
          /\ prov[j].pc = "bearer"
      BY <1>4 DEF SetBearer, caVars, agentVars
    <2>2. /\ prov'[j].pc = (IF ok THEN "online" ELSE "offline") /\ prov'[j].cert = prov[j].cert
          /\ \A i \in Job : i # j => prov'[i] = prov[i]
      BY <1>4, SetBearerTypes DEF TypeInv
    <2>3. /\ prov[j].pc \notin Ended /\ prov[j].pc \in Pushed /\ prov[j].pc \in Restarted
          /\ prov'[j].pc \notin {"issue", "crt", "key", "ca"}
      BY <2>1, <2>2 DEF Ended, Pushed, Restarted
    <2>4. prov[j].cert # NoCert => files.crt.root = cached[Panel]
      BY <2>3 DEF TrustInv
    <2> QED
      BY <2>1, <2>2, <2>3, <2>4, TrustJob
  <1>5. ASSUME NEW done \in BOOLEAN, NEW ok \in BOOLEAN, SetState(j, done, ok)
        PROVE  TrustInv'
    <2>1. UNCHANGED <<backend, boot, cached, certRow, call, files, agent>>
          /\ prov[j].pc \in {"online", "offline"}
          /\ (fresh' => fresh \/ (prov[j].pc = "online" /\ prov[j].cert # NoCert))
      BY <1>5 DEF SetState, caVars, agentVars
    <2>2. /\ prov'[j].pc \in {"ok", "failed"} /\ prov'[j].cert = prov[j].cert
          /\ \A i \in Job : i # j => prov'[i] = prov[i]
      BY <1>5, SetStateTypes DEF TypeInv
    <2>3. /\ prov[j].pc \notin Ended /\ prov'[j].pc \notin Pushed /\ prov'[j].pc \notin Restarted
          /\ prov'[j].pc \notin {"issue", "crt", "key", "ca"}
      BY <2>1, <2>2 DEF Ended, Pushed, Restarted
    <2> QED
      BY <2>1, <2>2, <2>3, TrustJob
  <1> QED
    BY <1>1, <1>2, <1>3, <1>4, <1>5, TrustBegin, TrustIssue, TrustPushFile DEF ProvisionStep

LEMMA TrustStopPanel ==
  ASSUME TypeInv, TrustInv, StopPanel
  PROVE  TrustInv'
  <1>1. certRow' = NoCert
    BY DEF TypeInv, Types, CATypeOK, TrustInv, StopPanel, StopProcess
  <1>2. call'.pc = "idle" /\ ~fresh'
    <2>1. call \in Call
      BY DEF TypeInv, Types, PanelTypes
    <2>2. call' = IF call.pc = "idle" THEN call ELSE [call EXCEPT !.pc = "idle", !.verdict = "failed"]
      BY DEF StopPanel
    <2> QED
      BY <2>1, <2>2 DEF StopPanel, Call
  <1>3. ASSUME NEW j \in Job
        PROVE  /\ prov'[j].pc \in Ended
               /\ prov'[j].pc \notin Pushed \cup Restarted
               /\ prov'[j].pc \notin {"issue", "crt", "key", "ca"}
    <2>1. prov'[j].pc = IF prov[j].pc \in Ended THEN prov[j].pc ELSE "failed"
      BY StopPanelTypes DEF TypeInv
    <2> QED
      BY <2>1 DEF Ended, Pushed, Restarted
  <1> QED
    BY <1>1, <1>2, <1>3 DEF TrustInv

LEMMA TrustStep == TypeInv /\ TrustInv /\ [Next]_vars => TrustInv'
  <1> SUFFICES ASSUME TypeInv, TrustInv, [Next]_vars PROVE TrustInv'
    OBVIOUS
  <1>1. call.pc = "issue" => backend = "memory"
    BY DEF TrustInv
  <1>2. call.pc # "idle" => boot[Panel] = "up"
    BY DEF TrustInv
  <1>3. CASE PutOffline \/ UNCHANGED vars
    <2>1. UNCHANGED <<caVars, files, agent, prov, fresh, call>>
      BY <1>3 DEF PutOffline, agentVars, linkVars, vars
    <2> QED
      BY <1>1, <1>2, <2>1, TrustFrame DEF caVars
  <1>4. CASE StartPanel \/ (CreateRoot(Panel) /\ UNCHANGED <<agentVars, linkVars>>)
    <2>1. boot[Panel] # "up" /\ UNCHANGED <<backend, certRow, call, prov, fresh>>
      BY <1>4 DEF StartPanel, ReadRoot, CreateRoot, linkVars
    <2> QED
      BY <2>1, TrustDown
  <1>5. ASSUME NEW p \in PanelProcess \ {Panel}, OtherPanel(p) PROVE TrustInv'
    <2>1. /\ UNCHANGED <<backend, files, agent, prov, fresh, call>>
          /\ certRow' = certRow \/ certRow' = NoCert
      BY <1>5 DEF OtherPanel, agentVars, linkVars, ReadRoot, CreateRoot, StopProcess
    <2>2. boot'[Panel] = boot[Panel] /\ cached'[Panel] = cached[Panel]
      BY <1>5, Bounds DEF OtherPanel, ReadRoot, CreateRoot, StopProcess, TypeInv, Types, CATypeOK
    <2> QED
      BY <1>1, <1>2, <2>1, <2>2, TrustFrame
  <1> QED
    BY <1>3, <1>4, <1>5, TrustCallStep, TrustJobStep, TrustNodeStep, TrustStopPanel DEF Next

\* Whatever fails and whatever restarts, and with any number of provisionings side
\* by side: after one that reported success, an agent that serves presents a
\* certificate of the root the running panel trusts.
THEOREM ServesTheTrustedRoot == Spec => []ServesTrusted
  <1>1. Init => TypeInv /\ TrustInv
    <2> SUFFICES ASSUME Init PROVE TrustInv
      BY InitTypes DEF TypeInv
    <2>1. call.pc = "idle" /\ ~fresh /\ certRow = NoCert
      BY DEF Init, NoCall, CAInit
    <2>2. \A j \in Job : prov[j].pc = "none" /\ prov[j].cert = NoCert
      BY DEF Init, NotBegun
    <2> QED
      BY <2>1, <2>2 DEF TrustInv, Ended
  <1>2. TrustInv => ServesTrusted
    BY DEF TrustInv, ServesTrusted
  <1> QED
    BY <1>1, <1>2, TypeStep, TrustStep, PTL DEF Spec

-----------------------------------------------------------------------------
(* The pair on the node.                                                   *)

\* As long as no two have asked for the certificate at once, there is one, the
\* row's, and files differ only between the push of the certificate and of its key.
MatchInv ==
  ~mintRace =>
    /\ call.pc = "issue" => certRow = NoCert
    /\ \A j \in Job : prov[j].pc = "issue" => certRow = NoCert /\ call.pc # "issue"
    /\ \A i, j \in Job : prov[i].pc = "issue" /\ prov[j].pc = "issue" => i = j
    /\ \A j \in Job : prov[j].pc \notin Ended /\ prov[j].cert # NoCert => prov[j].cert = certRow
    /\ ~broken =>
         /\ \A j \in Job : prov[j].pc = "key" => files.crt = prov[j].cert
         /\ files.crt.pair = files.key \/ \E j \in Job : prov[j].pc = "key"

LEMMA MatchFrame ==
  ASSUME MatchInv, UNCHANGED <<certRow, files, prov, broken, mintRace>>,
         call'.pc = "issue" => call.pc = "issue"
  PROVE  MatchInv'
  BY DEF MatchInv

\* A step of provisioning j that pushes no file.
LEMMA MatchJob ==
  ASSUME MatchInv, NEW j \in Job, UNCHANGED <<certRow, call, files, broken, mintRace>>,
         prov[j].pc \notin Ended, prov[j].pc # "key", prov'[j].pc \notin {"issue", "key"},
         prov'[j].cert = prov[j].cert, \A i \in Job : i # j => prov'[i] = prov[i]
  PROVE  MatchInv'
  <1>1. \A i \in Job : /\ prov'[i].cert = prov[i].cert
                       /\ prov'[i].pc = "issue" => prov[i].pc = "issue"
                       /\ prov'[i].pc = "key" <=> prov[i].pc = "key"
                       /\ prov'[i].pc \notin Ended => prov[i].pc \notin Ended
    OBVIOUS
  <1> QED
    BY <1>1 DEF MatchInv

LEMMA MatchBegin ==
  ASSUME TypeInv, MatchInv, NEW j \in Job, BeginProvision(j)
  PROVE  MatchInv'
  <1>1. /\ prov[j].pc = "none" /\ UNCHANGED <<certRow, call, files, broken>>
        /\ mintRace' = (mintRace \/ (Lookup = "missing" /\ Issuing))
    BY DEF BeginProvision, caVars, agentVars
  <1>2. /\ \A i \in Job : i # j => prov'[i] = prov[i]
        /\ \/ prov'[j].pc = "env" /\ prov'[j].cert = certRow
           \/ prov'[j].pc = "issue" /\ prov'[j].cert = NoCert /\ Lookup = "missing"
           \/ prov'[j].pc = "env" /\ prov'[j].cert = NoCert
    BY BeginProvisionTypes DEF TypeInv
  <1>3. Lookup = "missing" => certRow = NoCert
    BY DEF Lookup
  <1> SUFFICES ASSUME ~mintRace'
               PROVE  /\ call.pc = "issue" => certRow = NoCert
                      /\ \A i \in Job : prov'[i].pc = "issue" => certRow = NoCert /\ call.pc # "issue"
                      /\ \A h, i \in Job : prov'[h].pc = "issue" /\ prov'[i].pc = "issue" => h = i
                      /\ \A i \in Job : prov'[i].pc \notin Ended /\ prov'[i].cert # NoCert =>
                           prov'[i].cert = certRow
                      /\ ~broken =>
                           /\ \A i \in Job : prov'[i].pc = "key" => files.crt = prov'[i].cert
                           /\ files.crt.pair = files.key \/ \E i \in Job : prov'[i].pc = "key"
    BY <1>1 DEF MatchInv
  <1>4. ~mintRace /\ (Lookup = "missing" => call.pc # "issue" /\ \A i \in Job : prov[i].pc # "issue")
    BY <1>1 DEF TypeInv, Types, PanelTypes, Issuing
  <1>5. \A i \in Job : prov'[i].pc = "key" <=> prov[i].pc = "key" /\ i # j
    BY <1>1, <1>2
  <1>6. \A i \in Job : prov'[i].pc = "issue" =>
          (i # j /\ prov[i].pc = "issue") \/ (i = j /\ Lookup = "missing")
    BY <1>2
  <1>7. \A i \in Job : prov'[i].pc = "issue" => certRow = NoCert /\ call.pc # "issue"
    BY <1>3, <1>4, <1>6 DEF MatchInv
  <1>8. \A h, i \in Job : prov'[h].pc = "issue" /\ prov'[i].pc = "issue" => h = i
    BY <1>4, <1>6 DEF MatchInv
  <1>9. \A i \in Job : prov'[i].pc \notin Ended /\ prov'[i].cert # NoCert => prov'[i].cert = certRow
    BY <1>2, <1>4 DEF MatchInv
  <1>10. ASSUME ~broken
         PROVE  /\ \A i \in Job : prov'[i].pc = "key" => files.crt = prov'[i].cert
                /\ files.crt.pair = files.key \/ \E i \in Job : prov'[i].pc = "key"
    BY <1>1, <1>2, <1>4, <1>5, <1>10 DEF MatchInv
  <1> QED
    BY <1>4, <1>7, <1>8, <1>9, <1>10 DEF MatchInv

\* Who issues is alone, and nobody holds a certificate yet.
LEMMA MatchIssue ==
  ASSUME TypeInv, MatchInv, NEW j \in Job, IssueForNode(j)
  PROVE  MatchInv'
  <1>1. prov[j].pc = "issue" /\ UNCHANGED <<call, files, broken, mintRace>> /\ certRow' = NewCert
    BY DEF IssueForNode, Issue, SaveNodeCerts, agentVars
  <1>2. /\ prov'[j].pc = "env" /\ prov'[j].cert = NewCert
        /\ \A i \in Job : i # j => prov'[i] = prov[i]
    BY IssueForNodeTypes DEF TypeInv
  <1> SUFFICES ASSUME ~mintRace
               PROVE  /\ call.pc # "issue" /\ \A i \in Job : prov'[i].pc # "issue"
                      /\ \A i \in Job : prov'[i].pc \notin Ended /\ prov'[i].cert # NoCert =>
                           prov'[i].cert = NewCert
                      /\ ~broken =>
                           /\ \A i \in Job : prov'[i].pc = "key" => files.crt = prov'[i].cert
                           /\ files.crt.pair = files.key \/ \E i \in Job : prov'[i].pc = "key"
    BY <1>1 DEF MatchInv
  <1>3. certRow = NoCert /\ call.pc # "issue" /\ \A i \in Job : i # j => prov[i].pc # "issue"
    BY <1>1 DEF MatchInv
  <1>4. \A i \in Job : prov[i].pc \notin Ended => prov[i].cert = NoCert
    BY <1>3 DEF MatchInv
  <1>5. \A i \in Job : prov'[i].pc = "key" <=> prov[i].pc = "key"
    BY <1>1, <1>2
  <1>6. \A i \in Job : prov'[i].pc = "key" => prov'[i] = prov[i]
    BY <1>2
  <1>7. ~broken => /\ \A i \in Job : prov'[i].pc = "key" => files.crt = prov'[i].cert
                   /\ files.crt.pair = files.key \/ \E i \in Job : prov'[i].pc = "key"
    BY <1>5, <1>6 DEF MatchInv
  <1> QED
    BY <1>2, <1>3, <1>4, <1>7

\* Whoever pushes pushes the same certificate.
LEMMA MatchPushFile ==
  ASSUME TypeInv, TrustInv, MatchInv, NEW j \in Job, NEW done \in BOOLEAN, NEW ok \in BOOLEAN,
         PushFile(j, done, ok)
  PROVE  MatchInv'
  <1>1. /\ UNCHANGED <<certRow, call, mintRace>> /\ (ok => done)
        /\ broken' = (broken \/ ~ok)
    BY DEF PushFile, caVars
  <1>2. /\ files \in Files /\ prov[j].cert # NoCert /\ prov[j].pc \notin Ended
        /\ broken \in BOOLEAN /\ prov[j].pc \in {"crt", "key", "ca"}
    BY DEF TypeInv, Types, NodeTypes, PanelTypes, TrustInv, PushFile, Ended
  <1>3. PICK pc \in Steps : Then(j, ok, pc) /\ pc = (CASE prov[j].pc = "crt" -> "key"
                                                       [] prov[j].pc = "key" -> "ca"
                                                       [] prov[j].pc = "ca" -> "unit")
    <2>1. "key" \in Steps /\ "ca" \in Steps /\ "unit" \in Steps
      BY DEF Steps
    <2>2. CASE prov[j].pc = "crt"
      BY <2>1, <2>2, PushFileParts DEF TypeInv
    <2>3. CASE prov[j].pc = "key"
      BY <2>1, <2>3, PushFileParts DEF TypeInv
    <2>4. CASE prov[j].pc = "ca"
      BY <2>1, <2>4, PushFileParts DEF TypeInv
    <2> QED
      BY <1>2, <2>2, <2>3, <2>4
  <1>4. /\ prov'[j].pc = (IF ok THEN pc ELSE "offline") /\ prov'[j].cert = prov[j].cert
        /\ \A i \in Job : i # j => prov'[i] = prov[i]
    BY <1>3, ThenTypes DEF TypeInv, Types
  <1>5. prov'[j].pc # "issue" /\ pc # "issue"
    BY <1>2, <1>3, <1>4
  <1>6. \A i \in Job : /\ prov'[i].cert = prov[i].cert
                       /\ prov'[i].pc = "issue" => prov[i].pc = "issue"
                       /\ prov'[i].pc \notin Ended => prov[i].pc \notin Ended
    BY <1>2, <1>4, <1>5
  <1> SUFFICES ASSUME ~mintRace, ~broken, ok
               PROVE  /\ \A i \in Job : prov'[i].pc = "key" => files'.crt = prov'[i].cert
                      /\ files'.crt.pair = files'.key \/ \E i \in Job : prov'[i].pc = "key"
    BY <1>1, <1>6 DEF MatchInv
  <1>7. done /\ prov'[j].pc = pc
    BY <1>1, <1>4
  <1>8. \A i \in Job : prov[i].pc = "key" => prov[i].cert = prov[j].cert /\ files.crt = prov[j].cert
    <2> SUFFICES ASSUME NEW i \in Job, prov[i].pc = "key"
                 PROVE  prov[i].cert = prov[j].cert /\ files.crt = prov[j].cert
      OBVIOUS
    <2>1. prov[i].cert # NoCert /\ prov[i].pc \notin Ended
      BY DEF TrustInv, Ended
    <2> QED
      BY <1>2, <2>1 DEF MatchInv
  <1>9. CASE prov[j].pc = "crt"
    <2>1. files' = [files EXCEPT !.crt = prov[j].cert]
      BY <1>7, <1>9, PushFileParts DEF TypeInv
    <2>2. files'.crt = prov[j].cert
      BY <1>2, <2>1 DEF Files
    <2>3. prov'[j].pc = "key"
      BY <1>3, <1>7, <1>9
    <2> QED
      BY <1>4, <1>8, <2>2, <2>3
  <1>10. CASE prov[j].pc = "key"
    <2>1. files' = [files EXCEPT !.key = prov[j].cert.pair]
      BY <1>7, <1>10, PushFileParts DEF TypeInv
    <2>2. files'.crt = files.crt /\ files'.key = prov[j].cert.pair
      BY <1>2, <2>1 DEF Files
    <2>3. prov'[j].pc = "ca"
      BY <1>3, <1>7, <1>10
    <2> QED
      BY <1>4, <1>8, <1>10, <2>2, <2>3
  <1>11. CASE prov[j].pc = "ca"
    <2>1. files' = [files EXCEPT !.ca = prov[j].cert.root]
      BY <1>7, <1>11, PushFileParts DEF TypeInv
    <2>2. files'.crt = files.crt /\ files'.key = files.key
      BY <1>2, <2>1 DEF Files
    <2>3. prov'[j].pc = "unit"
      BY <1>3, <1>7, <1>11
    <2>4. \A i \in Job : prov'[i].pc = "key" <=> prov[i].pc = "key"
      BY <1>4, <1>11, <2>3
    <2> QED
      BY <1>6, <2>2, <2>4 DEF MatchInv
  <1> QED
    BY <1>2, <1>9, <1>10, <1>11

LEMMA MatchCallStep ==
  ASSUME TypeInv, MatchInv, CallStep
  PROVE  MatchInv'
  <1>1. call \in Call /\ UNCHANGED <<files, prov, broken>>
    BY DEF TypeInv, Types, PanelTypes, CallStep, BeginCall, Dial, IssueForCall, Send, Answer, HangUp,
      Refresh, StoreBearer, agentVars
  <1>2. CASE Dial
    <2>1. certRow' = certRow
      BY <1>2 DEF Dial, caVars
    <2>2. CASE Lookup = "missing"
      <3>1. certRow = NoCert /\ mintRace' = (mintRace \/ Issuing)
        BY <1>2, <2>2 DEF Dial, Lookup
      <3>2. ~mintRace' => ~mintRace /\ \A j \in Job : prov[j].pc # "issue"
        BY <3>1 DEF TypeInv, Types, PanelTypes, Issuing
      <3> QED
        BY <1>1, <2>1, <3>1, <3>2 DEF MatchInv
    <2>3. CASE Lookup # "missing"
      <3>1. mintRace' = mintRace /\ call'.pc \in {"send", "idle"}
        <4>1. CASE Lookup = "found"
          BY <1>1, <1>2, <4>1 DEF Dial, Call
        <4>2. CASE Lookup = "error"
          BY <1>1, <1>2, <4>2 DEF Dial, Over, Call
        <4> QED
          BY <2>3, <4>1, <4>2 DEF Lookup
      <3> QED
        BY <1>1, <2>1, <3>1, MatchFrame
    <2> QED
      BY <2>2, <2>3
  <1>3. CASE IssueForCall
    <2>1. call.pc = "issue" /\ mintRace' = mintRace /\ certRow' = NewCert
      BY <1>3 DEF IssueForCall, Issue, SaveNodeCerts
    <2>2. call'.pc = "send"
      BY <1>1, <1>3 DEF IssueForCall, Call
    <2>3. ~mintRace => /\ \A j \in Job : prov[j].pc # "issue"
                       /\ \A j \in Job : prov[j].pc \notin Ended => prov[j].cert = NoCert
      BY <2>1 DEF MatchInv
    <2> QED
      BY <1>1, <2>1, <2>2, <2>3 DEF MatchInv
  <1>4. CASE ~Dial /\ ~IssueForCall
    <2>1. UNCHANGED <<certRow, mintRace>>
      BY <1>4 DEF CallStep, BeginCall, Send, Answer, HangUp, Refresh, StoreBearer, caVars
    <2>2. call'.pc # "issue"
      <3>1. CASE BeginCall
        BY <3>1 DEF BeginCall, NoCall
      <3>2. CASE Send \/ HangUp
        BY <1>1, <3>2 DEF Send, HangUp, Over, Call
      <3>3. CASE Answer
        <4>1. CASE req[calls].at = "denied" /\ call.tries = 1
          BY <1>1, <3>3, <4>1 DEF Answer, Call
        <4>2. CASE ~(req[calls].at = "denied" /\ call.tries = 1)
          <5>1. Over("ok") \/ Over("stale") \/ Over("failed")
            BY <3>3, <4>2 DEF Answer
          <5> QED
            BY <1>1, <5>1 DEF Over, Call
        <4> QED
          BY <4>1, <4>2
      <3>4. ASSUME NEW ok \in BOOLEAN, Refresh(ok) PROVE call'.pc # "issue"
        BY <1>1, <3>4 DEF Refresh, Over, Call
      <3>5. ASSUME NEW ok \in BOOLEAN, StoreBearer(ok) PROVE call'.pc # "issue"
        BY <1>1, <3>5 DEF StoreBearer, Over, Call
      <3> QED
        BY <1>4, <3>1, <3>2, <3>3, <3>4, <3>5 DEF CallStep
    <2> QED
      BY <1>1, <2>1, <2>2, MatchFrame
  <1> QED
    BY <1>2, <1>3, <1>4

LEMMA MatchJobStep ==
  ASSUME TypeInv, TrustInv, MatchInv, NEW j \in Job, ProvisionStep(j)
  PROVE  MatchInv'
  <1>1. ASSUME NEW done \in BOOLEAN, NEW ok \in BOOLEAN,
               WriteEnv(j, done, ok) \/ RestartAgent(j, done, ok)
        PROVE  MatchInv'
    <2>1. UNCHANGED <<certRow, call, files, broken, mintRace>> /\ prov[j].pc \in {"env", "unit"}
      BY <1>1 DEF WriteEnv, RestartAgent, caVars
    <2>2. PICK pc \in Steps : Then(j, ok, pc) /\ pc \in {"unit", "crt", "verify"}
      BY <1>1 DEF WriteEnv, RestartAgent, Steps
    <2>3. /\ prov'[j].pc = (IF ok THEN pc ELSE "offline") /\ prov'[j].cert = prov[j].cert
          /\ \A i \in Job : i # j => prov'[i] = prov[i]
      BY <2>2, ThenTypes DEF TypeInv, Types
    <2>4. prov[j].pc \notin Ended /\ prov[j].pc # "key" /\ prov'[j].pc \notin {"issue", "key"}
      BY <2>1, <2>2, <2>3 DEF Ended
    <2> QED
      BY <2>1, <2>3, <2>4, MatchJob
  <1>2. ASSUME NEW ok \in BOOLEAN, Verify(j, ok)
        PROVE  MatchInv'
    <2>1. UNCHANGED <<certRow, call, files, broken, mintRace>> /\ prov[j].pc = "verify"
      BY <1>2 DEF Verify, caVars, agentVars
    <2>2. /\ prov'[j].pc = (IF ok THEN "bearer" ELSE "offline") /\ prov'[j].cert = prov[j].cert
          /\ \A i \in Job : i # j => prov'[i] = prov[i]
      BY <1>2, VerifyTypes DEF TypeInv
    <2>3. prov[j].pc \notin Ended /\ prov[j].pc # "key" /\ prov'[j].pc \notin {"issue", "key"}
      BY <2>1, <2>2 DEF Ended
    <2> QED
      BY <2>1, <2>2, <2>3, MatchJob
  <1>3. ASSUME NEW done \in BOOLEAN, NEW ok \in BOOLEAN, SetBearer(j, done, ok)
        PROVE  MatchInv'
    <2>1. UNCHANGED <<certRow, call, files, broken, mintRace>> /\ prov[j].pc = "bearer"
      BY <1>3 DEF SetBearer, caVars, agentVars
    <2>2. /\ prov'[j].pc = (IF ok THEN "online" ELSE "offline") /\ prov'[j].cert = prov[j].cert
          /\ \A i \in Job : i # j => prov'[i] = prov[i]
      BY <1>3, SetBearerTypes DEF TypeInv
    <2>3. prov[j].pc \notin Ended /\ prov[j].pc # "key" /\ prov'[j].pc \notin {"issue", "key"}
      BY <2>1, <2>2 DEF Ended
    <2> QED
      BY <2>1, <2>2, <2>3, MatchJob
  <1>4. ASSUME NEW done \in BOOLEAN, NEW ok \in BOOLEAN, SetState(j, done, ok)
        PROVE  MatchInv'
    <2>1. UNCHANGED <<certRow, call, files, broken, mintRace>> /\ prov[j].pc \in {"online", "offline"}
      BY <1>4 DEF SetState, caVars, agentVars
    <2>2. /\ prov'[j].pc \in {"ok", "failed"} /\ prov'[j].cert = prov[j].cert
          /\ \A i \in Job : i # j => prov'[i] = prov[i]
      BY <1>4, SetStateTypes DEF TypeInv
    <2>3. prov[j].pc \notin Ended /\ prov[j].pc # "key" /\ prov'[j].pc \notin {"issue", "key"}
      BY <2>1, <2>2 DEF Ended
    <2> QED
      BY <2>1, <2>2, <2>3, MatchJob
  <1> QED
    BY <1>1, <1>2, <1>3, <1>4, MatchBegin, MatchIssue, MatchPushFile DEF ProvisionStep

LEMMA MatchStopPanel ==
  ASSUME TypeInv, MatchInv, StopPanel
  PROVE  MatchInv'
  <1>1. UNCHANGED <<files, mintRace>> /\ broken' = (broken \/ \E j \in Job : Pushing(j))
    BY DEF StopPanel
  <1>2. call'.pc = "idle"
    <2>1. call \in Call
      BY DEF TypeInv, Types, PanelTypes
    <2>2. call' = IF call.pc = "idle" THEN call ELSE [call EXCEPT !.pc = "idle", !.verdict = "failed"]
      BY DEF StopPanel
    <2> QED
      BY <2>1, <2>2 DEF Call
  <1>3. \A j \in Job : prov'[j].pc \in Ended /\ prov'[j].pc \notin {"issue", "key"}
    <2>1. \A j \in Job : prov'[j].pc = IF prov[j].pc \in Ended THEN prov[j].pc ELSE "failed"
      BY StopPanelTypes DEF TypeInv
    <2> QED
      BY <2>1 DEF Ended
  <1>4. ~broken' => ~broken /\ \A j \in Job : prov[j].pc # "key"
    BY <1>1 DEF TypeInv, Types, PanelTypes, Pushing
  <1>5. ~mintRace /\ ~broken' => files.crt.pair = files.key
    BY <1>4 DEF MatchInv
  <1> QED
    BY <1>1, <1>2, <1>3, <1>5 DEF MatchInv

LEMMA MatchStep == TypeInv /\ RootInv /\ TrustInv /\ MatchInv /\ [Next]_vars => MatchInv'
  <1> SUFFICES ASSUME TypeInv, RootInv, TrustInv, MatchInv, [Next]_vars PROVE MatchInv'
    OBVIOUS
  <1>1. CASE PutOffline \/ UNCHANGED vars
    BY <1>1, MatchFrame DEF PutOffline, caVars, agentVars, linkVars, vars
  <1>2. CASE NodeStep
    <2>1. UNCHANGED <<certRow, call, prov, broken, mintRace>>
      BY <1>2, NodeSteps DEF caVars
    <2>2. files' = files
      BY <1>2, NodeSteps DEF Load, Respawn, AgentCrash, Reboot, Regenerate, Accept, Vanish, Write,
        Reload, WriteFailed, ReloadFailed
    <2> QED
      BY <2>1, <2>2, MatchFrame
  <1>3. CASE StartPanel \/ (CreateRoot(Panel) /\ UNCHANGED <<agentVars, linkVars>>)
    BY <1>3, MatchFrame DEF StartPanel, ReadRoot, CreateRoot, agentVars, linkVars
  <1>4. ASSUME NEW p \in PanelProcess \ {Panel}, OtherPanel(p) PROVE MatchInv'
    <2>1. certRow' = certRow
      BY <1>4 DEF OtherPanel, ReadRoot, CreateRoot, StopProcess, RootInv, TypeInv, Types, CATypeOK
    <2> QED
      BY <1>4, <2>1, MatchFrame DEF OtherPanel, agentVars, linkVars
  <1> QED
    BY <1>1, <1>2, <1>3, <1>4, MatchCallStep, MatchJobStep, MatchStopPanel DEF Next

\* For any number of provisionings side by side: certificate and key on the node
\* belong together whenever nobody is pushing them, unless a push broke off or two
\* had both found no certificate.
THEOREM PairOnTheNode == Spec => []FilesMatch
  <1>1. Init => TypeInv /\ RootInv /\ TrustInv /\ MatchInv
    <2> SUFFICES ASSUME Init PROVE RootInv /\ TrustInv /\ MatchInv
      BY InitTypes DEF TypeInv
    <2>1. call.pc = "idle" /\ ~fresh /\ certRow = NoCert /\ RootInv
      BY DEF Init, NoCall, CAInit, RootInv
    <2>2. \A j \in Job : prov[j].pc = "none" /\ prov[j].cert = NoCert
      BY DEF Init, NotBegun
    <2>3. files.crt.pair = files.key
      BY DEF Init, AgentInit, Blank, Absent
    <2> QED
      BY <2>1, <2>2, <2>3 DEF TrustInv, MatchInv, Ended
  <1>2. MatchInv => FilesMatch
    BY DEF MatchInv, FilesMatch, Pushing
  <1> QED
    BY <1>1, <1>2, TypeStep, RootStep, TrustStep, MatchStep, PTL DEF Spec

=============================================================================
