---------------------------- MODULE MCAgentLink ----------------------------
(***************************************************************************)
(* A panel and a second process on its database, two provisionings and two *)
(* calls, started anew once, with one failure.                             *)
(***************************************************************************)
EXTENDS AgentLink
=============================================================================
