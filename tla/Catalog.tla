------------------------------ MODULE Catalog -------------------------------
(***************************************************************************)
(* The admin API of the catalog: requests that create, change and delete   *)
(* nodes, inbound templates, inbounds, hosts, plans, users and their       *)
(* credentials, several at a time, over one kind of store.  No service     *)
(* holds a lock or a transaction over a request: it reads the row, looks   *)
(* up what the new row refers to, one read after another, writes the whole *)
(* row back, and reads it again for the answer; what it read may be gone   *)
(* by the next step.  The only guards that hold at the moment of the write *)
(* are the store's own.                                                    *)
(***************************************************************************)
EXTENDS CatalogNodes, CatalogTemplates, CatalogInbounds, CatalogHosts,
        CatalogPlans, CatalogUsers, CatalogCredentials, AuditLog

CONSTANTS Requests,      \* the requests that may be under way at a time
          MaxRequests,   \* bound: requests in all
          Seeds,         \* the catalogs a run may start from, per store
          NodeBodies, TemplateBodies, InboundBodies, InboundPatches,
          HostBodies, PlanBodies, UserBodies, CredentialBodies,
          CredentialPatches

ASSUME CatalogInputs == /\ NodeBodies \subseteq NodeInput
                        /\ TemplateBodies \subseteq TemplateInput
                        /\ InboundBodies \subseteq InboundInput
                        /\ InboundPatches \subseteq InboundPatch
                        /\ HostBodies \subseteq HostInput
                        /\ PlanBodies \subseteq PlanInput
                        /\ UserBodies \subseteq UserInput
                        /\ CredentialBodies \subseteq CredentialInput
                        /\ CredentialPatches \subseteq CredentialPatch
                        /\ MaxRequests \in Nat

(* --- what a catalog is ------------------------------------------------- *)
Table(ids, row) == [ids -> row \cup {None}]

Db(s) == [nodes       : Table(NodeIds, NodeRow),
          templates   : Table(TemplateIds, TemplateRow),
          inbounds    : Table(InboundIds, InboundRow),
          hosts       : Table(HostIds, StoredHost(s)),
          endpoints   : [HostIds -> Seq(Endpoint)],
          plans       : Table(PlanIds, StoredPlan(s)),
          users       : Table(UserIds, UserRow),
          credentials : Table(CredentialIds, CredentialRow),
          nodeByName     : Table(Names, NodeIds),
          templateByName : Table(Names, TemplateIds),
          inboundByName  : Table(NodeIds \X Names, InboundIds),
          inboundByPort  : Table(NodeIds \X Ports, InboundIds),
          hostByRemark   : Table(Names, HostIds),
          planByName     : Table(Names, PlanIds),
          userByName     : Table(Names, UserIds),
          credsOfUser    : [UserIds -> SUBSET CredentialIds],
          credsOfInbound : [InboundIds -> SUBSET CredentialIds]]

\* None is no row, and the id of none.
ASSUME NoneIsNothing ==
    /\ None \notin NodeRow /\ None \notin TemplateRow /\ None \notin InboundRow
    /\ None \notin HostRow /\ None \notin StoredHost("pg")
    /\ None \notin PlanRow /\ None \notin StoredPlan("pg")
    /\ None \notin UserRow /\ None \notin CredentialRow
    /\ None \notin NodeIds \cup TemplateIds \cup InboundIds \cup HostIds
                   \cup PlanIds \cup UserIds

\* No two rows of a kind share a name.
OneRowPerName(rows) == \A a, b \in Live(rows) :
                          rows[a].name = rows[b].name => a = b

\* An index of the memory store is the inverse of the rows.
Inverts(index, rows, KeyOf(_)) ==
    \A key \in DOMAIN index :
        \/ index[key] = None /\ \A id \in Live(rows) : KeyOf(rows[id]) # key
        \/ index[key] \in Live(rows) /\ KeyOf(rows[index[key]]) = key

NameOf(row) == row.name
RemarkOf(row) == row.remark

NamesHold(s, rows, index) ==
    OneRowPerName(rows) /\ (s = "memory" => Inverts(index, rows, NameOf))

RemarksHold(s, d) ==
    /\ \A a, b \in Live(d.hosts) : d.hosts[a].remark = d.hosts[b].remark => a = b
    /\ s = "memory" => Inverts(d.hostByRemark, d.hosts, RemarkOf)

\* The name index of the memory store of inbounds is not an inverse: an
\* update that is refused for its port has moved the name already.
InboundKeysHold(s, d) ==
    /\ \A a, b \in Live(d.inbounds) :
          PortKey(d.inbounds[a]) = PortKey(d.inbounds[b]) => a = b
    /\ s = "pg" => \A a, b \in Live(d.inbounds) :
          NameKey(d.inbounds[a]) = NameKey(d.inbounds[b]) => a = b
    /\ s = "memory" => Inverts(d.inboundByPort, d.inbounds, PortKey)

PairsHold(s, d) ==
    /\ \A a, b \in Live(d.credentials) :
          PairKey(d.credentials[a]) = PairKey(d.credentials[b]) => a = b
    /\ s = "memory" =>
          \A id \in CredentialIds, u \in UserIds, inb \in InboundIds :
              LET is == d.credentials[id] # None IN
              /\ id \in d.credsOfUser[u] <=> is /\ d.credentials[id].user = u
              /\ id \in d.credsOfInbound[inb]
                    <=> is /\ d.credentials[id].inbound = inb

KeysHold(s, d) ==
    /\ NamesHold(s, d.nodes, d.nodeByName)
    /\ NamesHold(s, d.templates, d.templateByName)
    /\ NamesHold(s, d.plans, d.planByName)
    /\ NamesHold(s, d.users, d.userByName)
    /\ RemarksHold(s, d)
    /\ InboundKeysHold(s, d)
    /\ PairsHold(s, d)

Endpoints(s, d, h) == ReadHost(s, d, h).endpoints

\* An endpoint names an inbound of the node it names, if it is there.
EndpointsAgree(s, d) ==
    \A h \in Live(d.hosts) : \A k \in DOMAIN Endpoints(s, d, h) :
        LET ep == Endpoints(s, d, h)[k] IN
        d.inbounds[ep.inbound] # None => d.inbounds[ep.inbound].node = ep.node

EndpointsThere(s, d) ==
    \A h \in Live(d.hosts) : \A k \in DOMAIN Endpoints(s, d, h) :
        LET ep == Endpoints(s, d, h)[k] IN
        d.inbounds[ep.inbound] # None /\ d.nodes[ep.node] # None

NodesThere(d) == \A i \in Live(d.inbounds) : d.nodes[d.inbounds[i].node] # None

PairsThere(d) == \A c \in Live(d.credentials) :
                    /\ d.users[d.credentials[c].user] # None
                    /\ d.inbounds[d.credentials[c].inbound] # None

ReferencesHold(s, d) ==
    /\ EndpointsAgree(s, d)
    /\ s = "pg" => EndpointsThere(s, d) /\ NodesThere(d) /\ PairsThere(d)

\* A run starts from a catalog that nothing was deleted from.
ASSUME SeedsAreCatalogs ==
    \A s \in DOMAIN Seeds :
        /\ s \in Stores
        /\ \A d \in Seeds[s] : /\ d \in Db(s)
                               /\ KeysHold(s, d)
                               /\ ReferencesHold(s, d)
                               /\ EndpointsThere(s, d)

VARIABLES store,     \* "pg" or "memory": what the panel was started with
          db,        \* the rows and indexes of the stores
          reqs,      \* the requests under way
          made,      \* how many requests there have been
          log,       \* the audit log
          deleted,   \* ghost: the <<kind, id>> of rows that are gone
          carried,   \* ghost: those that went with another row
          unlogged   \* ghost: the <<op, kind, id>> of entries the database refused,
                     \* and of writes whose answer was lost

ghosts == <<deleted, carried, unlogged>>
vars == <<store, db, reqs, made, log, ghosts>>

Idle == [pc |-> "idle", kind |-> None, op |-> None, id |-> None, in |-> None,
         row |-> None, lookups |-> << >>, err |-> "none", wrote |-> FALSE,
         announced |-> FALSE]

Init == /\ store \in DOMAIN Seeds
        /\ db \in Seeds[store]
        /\ reqs = [r \in Requests |-> Idle]
        /\ made = 0
        /\ log = << >>
        /\ deleted = {}
        /\ carried = {}
        /\ unlogged = {}

ReadRow(kind, id) == CASE kind = "node"     -> ReadNode(db, id)
                       [] kind = "template" -> ReadTemplate(db, id)
                       [] kind = "inbound"  -> ReadInbound(db, id)
                       [] kind = "host"     -> ReadHost(store, db, id)
                       [] kind = "plan"     -> ReadPlan(store, db, id)
                       [] kind = "user"     -> ReadUser(db, id)
                       [] kind = "credential" -> ReadCredential(db, id)

Create(kind, in) == CASE kind = "node"     -> CreateNode(in)
                      [] kind = "template" -> CreateTemplate(in)
                      [] kind = "inbound"  -> CreateInbound(in)
                      [] kind = "host"     -> CreateHost(in)
                      [] kind = "plan"     -> CreatePlan(in)
                      [] kind = "user"     -> CreateUser(in)
                      [] kind = "credential" -> CreateCredential(in)

Update(kind, row, in) == CASE kind = "node"     -> UpdateNode(row, in)
                           [] kind = "template" -> UpdateTemplate(row, in)
                           [] kind = "inbound"  -> UpdateInbound(row, in)
                           [] kind = "host"     -> UpdateHost(row, in)
                           [] kind = "plan"     -> UpdatePlan(row, in)
                           [] kind = "user"     -> UpdateUser(row, in)
                           [] kind = "credential" -> RotateCredential(row, in)

Outcome(q) ==
    CASE q.kind = "node"     -> WriteNode(store, db, q.op, q.id, q.row)
      [] q.kind = "template" -> WriteTemplate(store, db, q.op, q.id, q.row)
      [] q.kind = "inbound"  -> WriteInbound(store, db, q.op, q.id, q.row)
      [] q.kind = "host"     -> WriteHost(store, db, q.op, q.id, q.row)
      [] q.kind = "plan"     -> WritePlan(store, db, q.op, q.id, q.row)
      [] q.kind = "user"     -> WriteUser(store, db, q.op, q.id, q.row)
      [] q.kind = "credential" -> WriteCredential(store, db, q.op, q.id, q.row)

Rows(d, kind) == CASE kind = "node"     -> d.nodes
                   [] kind = "template" -> d.templates
                   [] kind = "inbound"  -> d.inbounds
                   [] kind = "host"     -> d.hosts
                   [] kind = "plan"     -> d.plans
                   [] kind = "user"     -> d.users
                   [] kind = "credential" -> d.credentials

(* --- requests ---------------------------------------------------------- *)
\* A request that has validated program: on to its lookups, or refused.
Validated(q, program) ==
    IF program.valid
    THEN [q EXCEPT !.pc = IF program.lookups = << >> THEN "write" ELSE "lookup",
                   !.row = program.row, !.lookups = program.lookups]
    ELSE [q EXCEPT !.pc = "done", !.err = "invalid"]

Accepts(r) == reqs[r].pc \in {"idle", "done"} /\ made < MaxRequests

\* Bound: no UUID stands for two rows, whether a caller sends it (all kinds
\* but plans let it) or the service mints it.
Fresh(kind, id) == /\ <<kind, id>> \notin deleted
                   /\ Rows(db, kind)[id] = None
                   /\ \A r \in Requests : reqs[r].pc \notin {"idle", "done"} =>
                                            <<reqs[r].kind, reqs[r].id>> # <<kind, id>>

\* Create begins with the checks of the body.
BeginCreate(r, kind, id, in) ==
    /\ Accepts(r)
    /\ Fresh(kind, id)
    /\ reqs' = [reqs EXCEPT ![r] =
          Validated([Idle EXCEPT !.kind = kind, !.op = "create", !.id = id,
                                 !.in = in],
                    Create(kind, in))]
    /\ made' = made + 1
    /\ UNCHANGED <<store, db, log, ghosts>>

\* Update and Delete begin by reading the row.
BeginChange(r, kind, op, id, in) ==
    /\ Accepts(r)
    /\ reqs' = [reqs EXCEPT ![r] =
          [Idle EXCEPT !.pc = "load", !.kind = kind, !.op = op, !.id = id,
                       !.in = in]]
    /\ made' = made + 1
    /\ UNCHANGED <<store, db, log, ghosts>>

BeginNode(r) == \E id \in NodeIds :
    \/ \E in \in NodeBodies : BeginCreate(r, "node", id, in)
    \/ \E in \in NodeBodies : BeginChange(r, "node", "update", id, in)
    \/ BeginChange(r, "node", "delete", id, None)

BeginTemplate(r) == \E id \in TemplateIds :
    \/ \E in \in TemplateBodies : BeginCreate(r, "template", id, in)
    \/ \E in \in TemplateBodies : BeginChange(r, "template", "update", id, in)
    \/ BeginChange(r, "template", "delete", id, None)

BeginInbound(r) == \E id \in InboundIds :
    \/ \E in \in InboundBodies : BeginCreate(r, "inbound", id, in)
    \/ \E in \in InboundPatches : BeginChange(r, "inbound", "update", id, in)
    \/ BeginChange(r, "inbound", "delete", id, None)

BeginHost(r) == \E id \in HostIds :
    \/ \E in \in HostBodies : BeginCreate(r, "host", id, in)
    \/ \E in \in HostBodies : BeginChange(r, "host", "update", id, in)
    \/ BeginChange(r, "host", "delete", id, None)

BeginPlan(r) == \E id \in PlanIds :
    \/ \E in \in PlanBodies : BeginCreate(r, "plan", id, in)
    \/ \E in \in PlanBodies : BeginChange(r, "plan", "update", id, in)
    \/ BeginChange(r, "plan", "delete", id, None)

BeginUser(r) == \E id \in UserIds :
    \/ \E in \in UserBodies : BeginCreate(r, "user", id, in)
    \/ \E in \in UserBodies : BeginChange(r, "user", "update", id, in)
    \/ BeginChange(r, "user", "delete", id, None)

BeginCredential(r) == \E id \in CredentialIds :
    \/ \E in \in CredentialBodies : BeginCreate(r, "credential", id, in)
    \/ \E in \in CredentialPatches : BeginChange(r, "credential", "update", id, in)
    \/ BeginChange(r, "credential", "delete", id, None)

\* GetByID; an update then patches its copy of the row.
Load(r) ==
    LET q == reqs[r]
        row == ReadRow(q.kind, q.id)
    IN  /\ q.pc = "load"
        /\ reqs' = [reqs EXCEPT ![r] =
              CASE row = None -> [q EXCEPT !.pc = "done", !.err = "notfound"]
                [] row # None /\ q.op = "update" ->
                      Validated(q, Update(q.kind, row, q.in))
                [] OTHER -> [q EXCEPT !.pc = "write"]]
        /\ UNCHANGED <<store, db, made, log, ghosts>>

Found(l) == CASE l.what = "node"     -> NodeThere(db, l.id)
              [] l.what = "template" -> TemplateFits(db, l.id, l.protocol)
              [] l.what = "inbound"  -> InboundOnNode(db, l.id, l.node)

\* One read of another service's row; what it finds is not held on to.
Lookup(r) ==
    LET q == reqs[r] IN
    /\ q.pc = "lookup"
    /\ reqs' = [reqs EXCEPT ![r] =
          IF ~Found(Head(q.lookups))
          THEN [q EXCEPT !.pc = "done", !.err = "invalid", !.lookups = << >>]
          ELSE [q EXCEPT !.pc = IF Len(q.lookups) = 1 THEN "write" ELSE @,
                         !.lookups = Tail(@)]]
    /\ UNCHANGED <<store, db, made, log, ghosts>>

GoneBetween(before, after) ==
    UNION {{<<kind, id>> : id \in Live(Rows(before, kind))
                                  \ Live(Rows(after, kind))} : kind \in Kinds}

\* Bug variant of AnswersUnread: the row of a delete is read once more.
AnswersUnreadPlansOnly(q) == q.kind = "plan" /\ q.op = "create"

\* A create of a plan or a user answers with the row it built, a write of a
\* credential with the row the write returns, a delete with no row.
AnswersUnread(q) == \/ q.op = "delete" \/ q.kind = "credential"
                    \/ q.kind \in {"plan", "user"} /\ q.op = "create"

\* A query of PostgreSQL fails, or the request's context ends: the request is
\* over, with nothing done at this step.  What was written stays written, and
\* nobody is told of it.  A failed look at a node or an inbound counts as one
\* that finds none.
QueryFails(r) ==
    LET q == reqs[r]
        err == IF q.pc = "lookup" /\ Head(q.lookups).what # "template"
               THEN "invalid" ELSE "failed"
    IN  /\ store = "pg"
        /\ q.pc \in {"load", "lookup", "write", "reread"}
        /\ reqs' = [reqs EXCEPT ![r] =
              [q EXCEPT !.pc = "done", !.err = err, !.lookups = << >>]]
        /\ UNCHANGED <<store, db, made, log, ghosts>>

\* The store's own operation, under its lock or in its transaction.
Write(r) ==
    LET q == reqs[r]
        out == Outcome(q)
        gone == GoneBetween(db, out.db)
    IN  /\ q.pc = "write"
        /\ db' = out.db
        /\ deleted' = deleted \cup gone
        /\ carried' = carried \cup (gone \ {<<q.kind, q.id>>})
        /\ reqs' = [reqs EXCEPT ![r] =
              CASE out.err # "none" -> [q EXCEPT !.pc = "done", !.err = out.err]
                [] out.err = "none" /\ AnswersUnread(q) ->
                      [q EXCEPT !.pc = "record", !.wrote = TRUE]
                [] OTHER -> [q EXCEPT !.pc = "reread", !.wrote = TRUE]]
        /\ UNCHANGED <<store, made, log, unlogged>>

\* The write is done and its answer lost: the context ends meanwhile, or the
\* store of hosts cannot read back the times the database gave the row.
WriteUnheard(r) ==
    LET q == reqs[r]
        out == Outcome(q)
        gone == GoneBetween(db, out.db)
    IN  /\ store = "pg"
        /\ q.pc = "write" /\ out.err = "none"
        /\ db' = out.db
        /\ deleted' = deleted \cup gone
        /\ carried' = carried \cup (gone \ {<<q.kind, q.id>>})
        /\ reqs' = [reqs EXCEPT ![r] =
              [q EXCEPT !.pc = "done", !.wrote = TRUE, !.err = "failed"]]
        /\ unlogged' = unlogged \cup {<<q.op, q.kind, q.id>>}
        /\ UNCHANGED <<store, made, log>>

\* The row is read once more: it is what the event, the audit entry and the
\* answer carry.
Reread(r) ==
    LET q == reqs[r] IN
    /\ q.pc = "reread"
    /\ reqs' = [reqs EXCEPT ![r] =
          IF ReadRow(q.kind, q.id) = None
          THEN [q EXCEPT !.pc = "done", !.err = "notfound"]
          ELSE [q EXCEPT !.pc = "record"]]
    /\ UNCHANGED <<store, db, made, log, ghosts>>

\* The event is dispatched, the entry recorded, the answer sent.  A database
\* that refuses the entry is not heard of.
Record(r) ==
    LET q == reqs[r] IN
    /\ q.pc = "record"
    /\ reqs' = [reqs EXCEPT ![r].pc = "done", ![r].announced = TRUE]
    /\ \/ /\ log' = Insert(log, Entry(q.op, q.kind, q.id, made))
          /\ UNCHANGED unlogged
       \/ /\ store = "pg"
          /\ unlogged' = unlogged \cup {<<q.op, q.kind, q.id>>}
          /\ UNCHANGED log
    /\ UNCHANGED <<store, db, made, deleted, carried>>

Next == \E r \in Requests :
    \/ BeginNode(r) \/ BeginTemplate(r) \/ BeginInbound(r) \/ BeginHost(r)
    \/ BeginPlan(r) \/ BeginUser(r) \/ BeginCredential(r)
    \/ Load(r) \/ Lookup(r) \/ Write(r) \/ Reread(r) \/ Record(r)
    \/ QueryFails(r) \/ WriteUnheard(r)

Spec == Init /\ [][Next]_vars

(* --- properties -------------------------------------------------------- *)
\* Each field of a request has its type; what it holds at which step is left
\* to the proofs.
Request ==
    [pc : {"idle", "load", "lookup", "write", "reread", "record", "done"},
     kind : Kinds \cup {None}, op : Ops \cup {None},
     id : (UNION {Ids(kind) : kind \in Kinds}) \cup {None},
     in : NodeInput \cup TemplateInput \cup InboundInput \cup InboundPatch
            \cup HostInput \cup PlanInput \cup UserInput
            \cup CredentialInput \cup CredentialPatch \cup {None},
     row : NodeRow \cup TemplateRow \cup InboundRow \cup HostRow \cup PlanRow
             \cup UserRow \cup CredentialRow \cup {None},
     lookups : Seq([what : {"node"}, id : NodeIds]
                   \cup [what : {"template"}, id : TemplateIds,
                         protocol : Protocols]
                   \cup [what : {"inbound"}, id : InboundIds, node : NodeIds]),
     err : Errors, wrote : BOOLEAN, announced : BOOLEAN]

RowName == UNION {{kind} \X Ids(kind) : kind \in Kinds}

Logged == UNION {[action : Ops, kind : {kind}, id : Ids(kind),
                  at : 0 .. MaxRequests] : kind \in Kinds}

TypeOK == /\ store \in Stores
          /\ db \in Db(store)
          /\ reqs \in [Requests -> Request]
          /\ made \in 0 .. MaxRequests
          /\ log \in Seq(Logged)
          /\ carried \subseteq deleted
          /\ deleted \subseteq RowName
          /\ \A lost \in unlogged :
                lost[1] \in Ops /\ <<lost[2], lost[3]>> \in RowName

\* Names, ports, remarks and pairs stay unique under concurrent creates,
\* renames and deletes, and the indexes a memory store keeps say just what its
\* rows say: a name that a row gave up is free, one that a row has is taken.
KeysNameOneRow == KeysHold(store, db)

\* An endpoint names an inbound of the node it names, although the check that
\* says so was made before the write.  With PostgreSQL both are there as
\* well, an inbound's node is, and so are the user and the inbound of a
\* credential; a memory store deletes under its readers.
ReferencesResolve == ReferencesHold(store, db)

\* A request that answers a success has changed the catalog and announced it.
\* One that answers an error has changed nothing, but in two cases: another
\* request deleted the row before it could be read back, and then the answer is
\* a 404; or a query failed when the row had been written, and then it is a 500
\* that does not tell whether the change was made.  And a row that was deleted
\* stays so, although requests that read it earlier still write.
AnswersAreTrue ==
    /\ \A r \in Requests : reqs[r].pc = "done" =>
          IF StatusOf(reqs[r].err) = 200
          THEN reqs[r].wrote /\ reqs[r].announced
          ELSE reqs[r].wrote =>
                 \/ reqs[r].err = "notfound" /\ <<reqs[r].kind, reqs[r].id>> \in deleted
                 \/ reqs[r].err = "failed" /\ store = "pg"
    /\ \A gone \in deleted : Rows(db, gone[1])[gone[2]] = None

List(f) == IF store = "pg" THEN PgList(log, f) ELSE MemList(log, f)

\* Whoever asks the audit log what became of a row that is gone finds its
\* deletion, once no request is still about to record it: but for a row that
\* went with another one, which no service hears of, an entry that the database
\* refused, and a deletion whose answer was lost.
DeletionsAreLogged ==
    \A gone \in deleted \ carried :
        \/ <<"delete", gone[1], gone[2]>> \in unlogged
        \/ List(ListFilter("delete", gone[1], gone[2], 1)) # << >>
        \/ \E r \in Requests : /\ reqs[r].pc = "record"
                               /\ reqs[r].op = "delete"
                               /\ <<reqs[r].kind, reqs[r].id>> = gone
=============================================================================
