-------------------------- MODULE CatalogInbounds ---------------------------
(***************************************************************************)
(* Inbounds: a listener of a node, with a name and a port that are unique  *)
(* on the node, a protocol, and a template it may take parameters from.    *)
(***************************************************************************)
EXTENDS CatalogStore

CONSTANT Clear   \* the zero UUID in a patch: drop the template

\* A create carries every field and, in its path, the node.  A patch carries
\* some, and the node in its path is not looked at.
InboundInput == [node : NodeIds, name : Names \cup {BadName}, port : Ports,
                 protocol : Protocols, template : TemplateIds \cup {None}]
InboundPatch == [name : Names \cup {BadName, None}, port : Ports \cup {None},
                 protocol : Protocols \cup {None},
                 template : TemplateIds \cup {None, Clear}]

InboundRow == [node : NodeIds, name : Names, port : Ports,
               protocol : Protocols, template : TemplateIds \cup {None}]

\* The checks of a body: name, protocol, port, address, extra ports, tags.
ValidInbound(row) == row.name # BadName

NodeThere(db, id) == db.nodes[id] # None

\* validateTemplateID: the template is there and speaks the protocol.
TemplateFits(db, id, protocol) ==
    db.templates[id] # None /\ db.templates[id].protocol = protocol

Keep(old, new) == IF new = None THEN old ELSE new

\* The node is not part of a patch.
PatchedInbound(row, in) ==
    [node     |-> row.node,
     name     |-> Keep(row.name, in.name),
     port     |-> Keep(row.port, in.port),
     protocol |-> Keep(row.protocol, in.protocol),
     template |-> IF in.template = Clear THEN None
                  ELSE Keep(row.template, in.template)]

ReadInbound(db, id) == db.inbounds[id]

NameKey(row) == <<row.node, row.name>>
PortKey(row) == <<row.node, row.port>>

(* --- memory store ------------------------------------------------------ *)
MemCreateInbound(db, id, row) ==
    IF \/ db.inboundByName[NameKey(row)] # None
       \/ db.inboundByPort[PortKey(row)] # None
       \/ db.inbounds[id] # None
    THEN Refused(db, "duplicate")
    ELSE Ok([db EXCEPT !.inbounds[id] = row,
                       !.inboundByName[NameKey(row)] = id,
                       !.inboundByPort[PortKey(row)] = id])

\* db with the name of old in the index replaced by the name of new.
Renamed(db, id, old, new) ==
    IF NameKey(new) = NameKey(old) THEN db
    ELSE [db EXCEPT !.inboundByName[NameKey(old)] = None,
                    !.inboundByName[NameKey(new)] = id]

\* The name moves in the index before the port is looked at, and stays there
\* when the port is taken.
MemUpdateInbound(db, id, row) ==
    LET old == db.inbounds[id]
        nameTaken == /\ NameKey(row) # NameKey(old)
                     /\ db.inboundByName[NameKey(row)] # None
        portTaken == /\ PortKey(row) # PortKey(old)
                     /\ db.inboundByPort[PortKey(row)] # None
    IN  CASE old = None -> Refused(db, "notfound")
          [] old # None /\ nameTaken -> Refused(db, "duplicate")
          [] old # None /\ ~nameTaken /\ portTaken ->
                Refused(Renamed(db, id, old, row), "duplicate")
          [] OTHER ->
                Ok([Renamed(db, id, old, row) EXCEPT
                      !.inbounds[id] = row,
                      !.inboundByPort[PortKey(old)] = None,
                      !.inboundByPort[PortKey(row)] = id])

MemDeleteInbound(db, id) ==
    IF db.inbounds[id] = None THEN Refused(db, "notfound")
    ELSE Ok([db EXCEPT !.inbounds[id] = None,
                       !.inboundByName[NameKey(db.inbounds[id])] = None,
                       !.inboundByPort[PortKey(db.inbounds[id])] = None])

(* --- pg store ---------------------------------------------------------- *)
\* UNIQUE (node_id, name) and UNIQUE (node_id, listen_port).
KeyTaken(db, id, row) ==
    \E other \in Live(db.inbounds) \ {id} :
        \/ NameKey(db.inbounds[other]) = NameKey(row)
        \/ PortKey(db.inbounds[other]) = PortKey(row)

\* No statement of the store names the column template_id.
PgInbound(row) == [row EXCEPT !.template = None]

PgCreateInbound(db, id, row) ==
    CASE db.inbounds[id] # None \/ KeyTaken(db, id, row) ->
            Refused(db, "duplicate")
      [] db.inbounds[id] = None /\ ~KeyTaken(db, id, row)
                                /\ db.nodes[row.node] = None ->
            Refused(db, "other")
      [] OTHER -> Ok([db EXCEPT !.inbounds[id] = PgInbound(row)])

PgUpdateInbound(db, id, row) ==
    CASE db.inbounds[id] = None -> Refused(db, "notfound")
      [] db.inbounds[id] # None /\ KeyTaken(db, id, row) ->
            Refused(db, "duplicate")
      [] OTHER -> Ok([db EXCEPT !.inbounds[id] = PgInbound(row)])

\* host_endpoints.inbound_id is ON DELETE RESTRICT, the credentials' CASCADE.
PgDeleteInbound(db, id) ==
    CASE db.inbounds[id] = None -> Refused(db, "notfound")
      [] db.inbounds[id] # None /\ (\E host \in HostIds :
              \E k \in DOMAIN db.endpoints[host] :
                  db.endpoints[host][k].inbound = id) -> Refused(db, "other")
      [] OTHER -> Ok([WithoutCredentials(db, {}, {id})
                        EXCEPT !.inbounds[id] = None])

(* --- service ----------------------------------------------------------- *)
NodeLookup(id) == << [what |-> "node", id |-> id] >>
TemplateLookup(id, protocol) ==
    IF id \in {None, Clear} THEN << >>
    ELSE << [what |-> "template", id |-> id, protocol |-> protocol] >>

CreateInbound(in) ==
    [valid |-> ValidInbound(in), row |-> in,
     lookups |-> NodeLookup(in.node) \o TemplateLookup(in.template, in.protocol)]

\* The template is checked when the patch names one, against the protocol
\* the patch leaves; a patch of the protocol alone checks nothing.
UpdateInbound(row, in) ==
    LET new == PatchedInbound(row, in) IN
    [valid |-> ValidInbound(new), row |-> new,
     lookups |-> TemplateLookup(in.template, new.protocol)]

WriteInbound(store, db, op, id, row) ==
    CASE store = "memory" /\ op = "create" -> MemCreateInbound(db, id, row)
      [] store = "memory" /\ op = "update" -> MemUpdateInbound(db, id, row)
      [] store = "memory" /\ op = "delete" -> MemDeleteInbound(db, id)
      [] store = "pg" /\ op = "create"     -> PgCreateInbound(db, id, row)
      [] store = "pg" /\ op = "update"     -> PgUpdateInbound(db, id, row)
      [] store = "pg" /\ op = "delete"     -> PgDeleteInbound(db, id)
=============================================================================
