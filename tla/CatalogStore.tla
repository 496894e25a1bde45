---------------------------- MODULE CatalogStore ----------------------------
(***************************************************************************)
(* What the stores of the panel's catalog have in common.  Nodes, inbound  *)
(* templates, inbounds, hosts, plans, users and credentials are each kept  *)
(* by a store that comes in two kinds: PostgreSQL tables ("pg"), whose     *)
(* UNIQUE and FOREIGN KEY constraints refuse a write, and maps under a     *)
(* mutex ("memory"), with an index per unique key that the code keeps      *)
(* beside the rows.                                                        *)
(*                                                                         *)
(* db holds the rows of every store and, for the memory kind, its indexes; *)
(* a store operation is an operator from db to an outcome: the error it    *)
(* returns and the db it leaves.                                           *)
(***************************************************************************)
EXTENDS Naturals, FiniteSets, Sequences

CONSTANTS NodeIds, TemplateIds, InboundIds, HostIds, PlanIds,
          UserIds, CredentialIds,
          Names,      \* names a validator accepts
          BadName,    \* a name it refuses
          Ports, Protocols,
          None

Stores == {"pg", "memory"}
Ops == {"create", "update", "delete"}
Kinds == {"node", "template", "inbound", "host", "plan", "user", "credential"}

Ids(kind) == CASE kind = "node"     -> NodeIds
               [] kind = "template" -> TemplateIds
               [] kind = "inbound"  -> InboundIds
               [] kind = "host"     -> HostIds
               [] kind = "plan"     -> PlanIds
               [] kind = "user"     -> UserIds
               [] kind = "credential" -> CredentialIds

\* Errors: none; invalid (a ValidationError); notfound and duplicate, the
\* stores' sentinels; other, whatever the database refused besides; failed, a
\* query that broke off or whose context ended.
Errors == {"none", "invalid", "notfound", "duplicate", "other", "failed"}

Ok(db) == [err |-> "none", db |-> db]
Refused(db, err) == [err |-> err, db |-> db]

\* The rows of a table that are there, and whether one of them but id
\* satisfies a key.
Live(rows) == {id \in DOMAIN rows : rows[id] # None}
NameTaken(rows, id, name) ==
    \E other \in Live(rows) \ {id} : rows[other].name = name

\* A db without rows.
NoRows == [nodes     |-> [id \in NodeIds |-> None],
           templates |-> [id \in TemplateIds |-> None],
           inbounds  |-> [id \in InboundIds |-> None],
           hosts     |-> [id \in HostIds |-> None],
           endpoints |-> [id \in HostIds |-> << >>],
           plans     |-> [id \in PlanIds |-> None],
           users     |-> [id \in UserIds |-> None],
           credentials |-> [id \in CredentialIds |-> None],
           nodeByName     |-> [name \in Names |-> None],
           templateByName |-> [name \in Names |-> None],
           inboundByName  |-> [key \in NodeIds \X Names |-> None],
           inboundByPort  |-> [key \in NodeIds \X Ports |-> None],
           hostByRemark   |-> [name \in Names |-> None],
           planByName     |-> [name \in Names |-> None],
           userByName     |-> [name \in Names |-> None],
           credsOfUser    |-> [id \in UserIds |-> {}],
           credsOfInbound |-> [id \in InboundIds |-> {}]]

\* The foreign keys of user_inbound_credentials, ON DELETE CASCADE, when these
\* users and inbounds are deleted.
WithoutCredentials(db, users, inbounds) ==
    [db EXCEPT !.credentials = [id \in CredentialIds |->
        IF id \in Live(@) /\ (@[id].user \in users \/ @[id].inbound \in inbounds)
        THEN None ELSE @[id]]]

\* The status an HTTP handler answers an error with.
StatusOf(err) == CASE err = "none"      -> 200
                   [] err = "invalid"   -> 400
                   [] err = "notfound"  -> 404
                   [] err = "duplicate" -> 409
                   [] err \in {"other", "failed"} -> 500
=============================================================================
