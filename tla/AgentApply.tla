----------------------------- MODULE AgentApply -----------------------------
(***************************************************************************)
(* cmd/aegis-agent on one node.  The agent loads its certificate when it   *)
(* starts and ends when it cannot, and systemd starts it again.  A request *)
(* to apply a configuration is checked, the file is replaced, and sing-box *)
(* is told to reload it.  The handlers run side by side and nothing orders *)
(* the write of one with the reload of another; a client that leaves does  *)
(* not stop the write.                                                     *)
(***************************************************************************)
EXTENDS Naturals

CONSTANT MaxCalls     \* bound: configurations sent, numbered in that order

ASSUME AgentApplyAssumption == MaxCalls \in Nat

VARIABLES files,      \* agent.crt, agent.key and agent-ca.pem
          env,        \* the bearer in agent.env
          agent,      \* the process: its state, bearer and certificate
          req,        \* req[v]: the request with configuration v
          disk,       \* the configuration in sing-box's config.json
          running,    \* the one sing-box runs
          crossed     \* history: a request came in before another was over

agentVars == <<files, env, agent, req, disk, running, crossed>>

Absent == 0
Blank == [root |-> Absent, pair |-> Absent]
Version == 1..MaxCalls
Config == 0..MaxCalls
NoRequest == [at |-> "none", bearer |-> Absent, grpc |-> FALSE, left |-> FALSE]
Handled == {"accepted", "written"}

AgentInit ==
  /\ files = [crt |-> Blank, key |-> Absent, ca |-> Absent]
  /\ env = Absent
  /\ agent = [state |-> "none", bearer |-> Absent, cert |-> Blank]
  /\ req = [v \in Version |-> NoRequest]
  /\ disk = 0 /\ running = 0 /\ crossed = FALSE

-----------------------------------------------------------------------------
(* The process.                                                            *)

\* The handlers end with the process.
Dropped == [v \in Version |->
              IF req[v].at \in Handled THEN [req[v] EXCEPT !.at = "failed"] ELSE req[v]]

\* systemd starts the unit with the environment of agent.env.
Exec ==
  /\ agent' = [state |-> "starting", bearer |-> env, cert |-> Blank]
  /\ req' = Dropped

\* loadMTLSConfig: the pair must match and all three files be there.
Loadable == files.key # Absent /\ files.ca # Absent /\ files.crt.pair = files.key

\* runGRPC: the listener is up, or run returns its error.
Load ==
  /\ agent.state = "starting"
  /\ IF Loadable
     THEN /\ agent' = [agent EXCEPT !.state = "serving", !.cert = files.crt]
          /\ UNCHANGED req
     ELSE /\ agent' = [agent EXCEPT !.state = "failed"]
          /\ req' = Dropped
  /\ UNCHANGED <<files, env, disk, running, crossed>>

\* Restart=always.
Respawn ==
  /\ agent.state = "failed"
  /\ Exec
  /\ UNCHANGED <<files, env, disk, running, crossed>>

AgentCrash ==
  /\ agent.state \in {"starting", "serving"}
  /\ agent' = [agent EXCEPT !.state = "failed"]
  /\ req' = Dropped
  /\ UNCHANGED <<files, env, disk, running, crossed>>

\* The node is rebooted: sing-box reads what is on the disk.
Reboot ==
  /\ agent.state # "none"
  /\ Exec
  /\ running' = disk
  /\ UNCHANGED <<files, env, disk, crossed>>

\* The operator replaces the secret in agent.env by hand.
Regenerate(b) ==
  /\ env \notin {Absent, b}
  /\ env' = b
  /\ UNCHANGED <<files, agent, req, disk, running, crossed>>

-----------------------------------------------------------------------------
(* A request, over HTTP or gRPC.                                           *)

\* HTTP listens at once.  Over gRPC no call arrives: the panel dials the target
\* "passthrough://" with the address, which has no endpoint, and gives no dialer
\* of its own (mtls_smoke_test.go:302-309 says what becomes of such a target).
Reached(r) == ~r.grpc /\ agent.state \in {"starting", "serving"}

\* requireBearer and bearerUnaryInterceptor, after a connection is made.
Verdict(r) ==
  IF ~Reached(r) \/ agent.bearer = Absent THEN "refused"
  ELSE IF r.bearer # agent.bearer THEN "denied" ELSE "accepted"

Accept(v) ==
  /\ req[v].at = "transit"
  /\ req' = [req EXCEPT ![v].at = Verdict(req[v])]
  /\ crossed' = (crossed \/ (Verdict(req[v]) = "accepted" /\
                   \E w \in Version \ {v} : req[w].at \in Handled \cup {"transit"}))
  /\ UNCHANGED <<files, env, agent, disk, running>>

\* The request of a client that left may never arrive.
Vanish(v) ==
  /\ req[v].at = "transit" /\ req[v].left
  /\ req' = [req EXCEPT ![v].at = "failed"]
  /\ UNCHANGED <<files, env, agent, disk, running, crossed>>

\* writeAtomic replaces the file, whether or not the client is still there.
Write(v) ==
  /\ req[v].at = "accepted"
  /\ disk' = v
  /\ req' = [req EXCEPT ![v].at = "written"]
  /\ UNCHANGED <<files, env, agent, running, crossed>>

WriteFailed(v) ==
  /\ req[v].at = "accepted"
  /\ req' = [req EXCEPT ![v].at = "failed"]
  /\ UNCHANGED <<files, env, agent, disk, running, crossed>>

\* Bug variant of Reload: the request is answered before the reload is over.
ReloadLater(v) ==
  /\ req[v].at = "written"
  /\ req' = [req EXCEPT ![v].at = "done"]
  /\ UNCHANGED <<files, env, agent, disk, running, crossed>>

\* runReload: sing-box reads the file that is there now.
Reload(v) ==
  /\ req[v].at = "written"
  /\ running' = disk
  /\ req' = [req EXCEPT ![v].at = "done"]
  /\ UNCHANGED <<files, env, agent, disk, crossed>>

\* The command fails, takes too long or is killed because the client left,
\* perhaps after it had its effect.
ReloadFailed(v, read) ==
  /\ req[v].at = "written"
  /\ running' = IF read THEN disk ELSE running
  /\ req' = [req EXCEPT ![v].at = "failed"]
  /\ UNCHANGED <<files, env, agent, disk, crossed>>
=============================================================================
