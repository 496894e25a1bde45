---------------------------- MODULE CatalogNodes ----------------------------
(***************************************************************************)
(* Nodes as the catalog sees them: rows with a unique name that inbounds   *)
(* and host endpoints point at.  Their state, keys and certificates are    *)
(* NodeProvisioning's and AgentLink's.                                     *)
(***************************************************************************)
EXTENDS CatalogStore

\* A body a client may send; a field that is None is left out.
NodeInput == [name : Names \cup {BadName, None}]

NodeRow == [name : Names]

\* validateName, validateRegion, validateAddress and validateState.
ValidNode(row) == row.name \in Names

NodeFrom(in) == in
PatchedNode(row, in) == IF in.name = None THEN row ELSE [name |-> in.name]

\* What the panel serves of a node: the row with its tags joined to it.
ReadNode(db, id) == db.nodes[id]

(* --- memory store ------------------------------------------------------ *)
MemCreateNode(db, id, row) ==
    IF db.nodeByName[row.name] # None \/ db.nodes[id] # None
    THEN Refused(db, "duplicate")
    ELSE Ok([db EXCEPT !.nodes[id] = row, !.nodeByName[row.name] = id])

\* Bug variant of MemUpdateNode: the old name keeps its place in the index.
MemUpdateNodeKeepsOldName(db, id, row) ==
    CASE db.nodes[id] = None -> Refused(db, "notfound")
      [] db.nodes[id] # None /\ db.nodes[id].name # row.name
                             /\ db.nodeByName[row.name] # None ->
            Refused(db, "duplicate")
      [] OTHER -> Ok([db EXCEPT !.nodes[id] = row,
                                !.nodeByName[row.name] = id])

MemUpdateNode(db, id, row) ==
    CASE db.nodes[id] = None -> Refused(db, "notfound")
      [] db.nodes[id] # None /\ db.nodes[id].name # row.name
                             /\ db.nodeByName[row.name] # None ->
            Refused(db, "duplicate")
      [] OTHER -> Ok([db EXCEPT !.nodes[id] = row,
                                !.nodeByName[db.nodes[id].name] = None,
                                !.nodeByName[row.name] = id])

\* Nothing else is touched: a memory store knows no references.
MemDeleteNode(db, id) ==
    IF db.nodes[id] = None THEN Refused(db, "notfound")
    ELSE Ok([db EXCEPT !.nodes[id] = None,
                       !.nodeByName[db.nodes[id].name] = None])

(* --- pg store ---------------------------------------------------------- *)
\* The row and its tags, in one transaction.
PgCreateNode(db, id, row) ==
    IF db.nodes[id] # None \/ NameTaken(db.nodes, id, row.name)
    THEN Refused(db, "duplicate")
    ELSE Ok([db EXCEPT !.nodes[id] = row])

PgUpdateNode(db, id, row) ==
    CASE db.nodes[id] = None -> Refused(db, "notfound")
      [] db.nodes[id] # None /\ NameTaken(db.nodes, id, row.name) ->
            Refused(db, "duplicate")
      [] OTHER -> Ok([db EXCEPT !.nodes[id] = row])

InboundsOf(db, id) ==
    {inb \in Live(db.inbounds) : db.inbounds[inb].node = id}

\* Bug variant of UsedByHost: the endpoints go with the node.
NeverUsed(db, id) == FALSE

\* host_endpoints.node_id and .inbound_id are ON DELETE RESTRICT, and the
\* node's inbounds go with it, and their credentials (ON DELETE CASCADE).
UsedByHost(db, id) ==
    \E host \in HostIds : \E k \in DOMAIN db.endpoints[host] :
        LET ep == db.endpoints[host][k] IN
        ep.node = id \/ ep.inbound \in InboundsOf(db, id)

PgDeleteNode(db, id) ==
    CASE db.nodes[id] = None -> Refused(db, "notfound")
      [] db.nodes[id] # None /\ UsedByHost(db, id) -> Refused(db, "other")
      [] OTHER -> Ok([WithoutCredentials(db, {}, InboundsOf(db, id))
                        EXCEPT !.nodes[id] = None,
                        !.inbounds = [inb \in InboundIds |->
                            IF inb \in InboundsOf(db, id) THEN None
                            ELSE db.inbounds[inb]]])

(* --- service ----------------------------------------------------------- *)
\* Create looks nothing up: it validates the body and writes the row.
CreateNode(in) == [valid |-> ValidNode(NodeFrom(in)),
                   row |-> NodeFrom(in), lookups |-> << >>]

\* Update patches the row it read and writes all of it back.
UpdateNode(row, in) == [valid |-> ValidNode(PatchedNode(row, in)),
                        row |-> PatchedNode(row, in), lookups |-> << >>]

WriteNode(store, db, op, id, row) ==
    CASE store = "memory" /\ op = "create" -> MemCreateNode(db, id, row)
      [] store = "memory" /\ op = "update" -> MemUpdateNode(db, id, row)
      [] store = "memory" /\ op = "delete" -> MemDeleteNode(db, id)
      [] store = "pg" /\ op = "create"     -> PgCreateNode(db, id, row)
      [] store = "pg" /\ op = "update"     -> PgUpdateNode(db, id, row)
      [] store = "pg" /\ op = "delete"     -> PgDeleteNode(db, id)
=============================================================================
