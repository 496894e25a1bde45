-------------------------- MODULE SubscriptionGate --------------------------
(***************************************************************************)
(* The way of a subscription request through router.go and the start of    *)
(* subscription/handler.go: its prefix must be the documented one or the   *)
(* one mounted at start, and then the limiter, which both mounts share and *)
(* which a restart of the process empties, must let the token pass.        *)
(***************************************************************************)
EXTENDS RateLimiter, PanelPath

gateVars == <<limiterVars, pathVars>>

\* The prefixes the router serves; the default one is mounted once.
Served == {Sentinel, mounted}

\* GET /<path>/sub/<token>, or GET /api/v1/sub/<token> for the default path.
Get(path, k) ==
  /\ path \in Served
  /\ Allow(k)
  /\ UNCHANGED pathVars

\* The process starts again: the path is read anew, the limiter is empty.
Restart ==
  /\ RestartRouter
  /\ tracked' = {}
  /\ UNCHANGED <<now, tokens, lastRefill, lastSeen, grants>>

GateInit == LimiterInit /\ PathInit

GateNext ==
  \/ \E path \in RowId, k \in Key : Get(path, k)
  \/ Elapse /\ UNCHANGED pathVars
  \/ \E o \in Rotator :
       /\ BeginRotation(o) \/ Deactivate(o) \/ Insert(o) \/ Commit(o) \/ Rollback(o)
       /\ UNCHANGED limiterVars
  \/ Restart

GateSpec == GateInit /\ [][GateNext]_gateVars
=============================================================================
