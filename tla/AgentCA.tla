------------------------------ MODULE AgentCA ------------------------------
(***************************************************************************)
(* internal/agentca: the certificate authority of the panel.  Each process *)
(* reads the root from the store when it starts, creates it when there is  *)
(* none, and keeps it in memory.  The certificate of the node is issued by *)
(* whoever asks for it first.                                              *)
(*                                                                         *)
(* With the memory backend the store dies with the process.  With pg it    *)
(* outlives the process and is shared, but the columns of a node that has  *)
(* no certificate are NULL, which GetNodeCerts cannot scan: it fails, and  *)
(* does not say ErrNotFound.                                               *)
(***************************************************************************)
EXTENDS Naturals

CONSTANTS PanelProcess,   \* panel processes on one database
          Panel,          \* the one that works with the node
          MaxMints,       \* bound: roots and key pairs generated
          MaxBoots        \* bound: processes started

ASSUME AgentCAAssumption ==
  Panel \in PanelProcess /\ MaxMints \in Nat /\ MaxBoots \in Nat

VARIABLES backend,    \* AEGIS_AGENTCA_BACKEND
          rootRow,    \* the root in the store
          certRow,    \* the certificate of the node in the store
          boot,       \* boot[p]: where process p is
          cached,     \* cached[p]: the root that p holds in memory
          minted,     \* roots and pairs generated so far, which number them
          boots,
          rootRace    \* history: two processes have looked for a root at once

caVars == <<backend, rootRow, certRow, boot, cached, minted, boots, rootRace>>

None == 0
Mint == 0..MaxMints
NoCert == [root |-> None, pair |-> None]
Cert == [root : Mint, pair : Mint]
Up(p) == boot[p] = "up"

CATypeOK ==
  /\ backend \in {"memory", "pg"}
  /\ rootRow \in Mint /\ certRow \in Cert
  /\ boot \in [PanelProcess -> {"down", "creating", "up"}]
  /\ cached \in [PanelProcess -> Mint]
  /\ \A p \in PanelProcess : Up(p) <=> cached[p] # None
  /\ minted \in Mint /\ boots \in 0..MaxBoots /\ rootRace \in BOOLEAN

CAInit ==
  /\ backend \in {"memory", "pg"}
  /\ rootRow = None /\ certRow = NoCert
  /\ boot = [p \in PanelProcess |-> "down"]
  /\ cached = [p \in PanelProcess |-> None]
  /\ minted = 0 /\ boots = 0 /\ rootRace = FALSE

-----------------------------------------------------------------------------
\* EnsureRoot as app.Build calls it: the root is read ...
ReadRoot(p) ==
  /\ boot[p] = "down" /\ boots < MaxBoots
  /\ p = Panel \/ backend = "pg"
  /\ boots' = boots + 1
  /\ boot' = [boot EXCEPT ![p] = IF rootRow = None THEN "creating" ELSE "up"]
  /\ cached' = [cached EXCEPT ![p] = rootRow]
  /\ rootRace' = (rootRace \/ (rootRow = None
                               /\ \E q \in PanelProcess \ {p} : boot[q] = "creating"))
  /\ UNCHANGED <<backend, rootRow, certRow, minted>>

\* Either overwrites what is there, the root with ON CONFLICT DO UPDATE.
SaveRoot(root) == rootRow' = root
SaveNodeCerts(cert) == certRow' = cert

\* Bug variant of CreateRoot: the root is kept in memory and not saved.
CreateRootUnsaved(p) ==
  /\ boot[p] = "creating" /\ minted < MaxMints
  /\ minted' = minted + 1
  /\ cached' = [cached EXCEPT ![p] = minted + 1]
  /\ boot' = [boot EXCEPT ![p] = "up"]
  /\ UNCHANGED <<backend, rootRow, certRow, boots, rootRace>>

\* ... or generated and saved over whatever is there by then.
CreateRoot(p) ==
  /\ boot[p] = "creating" /\ minted < MaxMints
  /\ minted' = minted + 1
  /\ SaveRoot(minted + 1)
  /\ cached' = [cached EXCEPT ![p] = minted + 1]
  /\ boot' = [boot EXCEPT ![p] = "up"]
  /\ UNCHANGED <<backend, certRow, boots, rootRace>>

\* The process ends, and with it a store in memory.
StopProcess(p) ==
  LET kept == backend = "pg" IN
  /\ boot[p] # "down"
  /\ boot' = [boot EXCEPT ![p] = "down"]
  /\ cached' = [cached EXCEPT ![p] = None]
  /\ rootRow' = IF kept THEN rootRow ELSE None
  /\ certRow' = IF kept THEN certRow ELSE NoCert
  /\ UNCHANGED <<backend, minted, boots, rootRace>>

\* EnsureNodeCerts: what the store answers ...
Lookup ==
  IF certRow # NoCert THEN "found" ELSE IF backend = "pg" THEN "error" ELSE "missing"

NewCert == [root |-> cached[Panel], pair |-> minted + 1]

\* ... and, when there is none, the certificate issued and saved over
\* whatever is there by then.
Issue ==
  /\ minted < MaxMints
  /\ minted' = minted + 1
  /\ SaveNodeCerts(NewCert)
  /\ UNCHANGED <<backend, rootRow, boot, cached, boots, rootRace>>
=============================================================================
