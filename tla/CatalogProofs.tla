---------------------------- MODULE CatalogProofs ----------------------------
(***************************************************************************)
(* Proofs about the catalog: for any rows, requests and bodies, keys stay  *)
(* unique and the indexes of a memory store true, references resolve,      *)
(* answers tell what happened, and deletions are found in the audit log.   *)
(*                                                                         *)
(* The argument has two halves.  What a store makes of a catalog, whoever  *)
(* calls it: one lemma per kind of row, each with the facts of the other   *)
(* services the call has to bring.  And what a request may still rely on   *)
(* at each of its steps, although others write between them.               *)
(***************************************************************************)
EXTENDS Catalog, FiniteSetTheorems, SequenceTheorems, TLAPS

(* --- what a request holds on to ----------------------------------------- *)

RowsFor(kind) == CASE kind = "node"     -> NodeRow
                   [] kind = "template" -> TemplateRow
                   [] kind = "inbound"  -> InboundRow
                   [] kind = "host"     -> HostRow
                   [] kind = "plan"     -> PlanRow
                   [] kind = "user"     -> UserRow
                   [] kind = "credential" -> CredentialRow

Creates(kind) == CASE kind = "node"     -> NodeInput
                   [] kind = "template" -> TemplateInput
                   [] kind = "inbound"  -> InboundInput
                   [] kind = "host"     -> HostInput
                   [] kind = "plan"     -> PlanInput
                   [] kind = "user"     -> UserInput
                   [] kind = "credential" -> CredentialInput

Updates(kind) == CASE kind = "inbound"    -> InboundPatch
                   [] kind = "credential" -> CredentialPatch
                   [] OTHER               -> Creates(kind)

InputOf(q) == CASE q.op = "create" -> q.in \in Creates(q.kind)
                [] q.op = "update" -> q.in \in Updates(q.kind)
                [] q.op = "delete" -> q.in = None

There(d, kind, id) == Rows(d, kind)[id] # None

\* Its program is made and its write is still to come.
Pending(q) == q.pc \in {"lookup", "write"}

Addressed(q) == q.pc # "idle" => /\ <<q.kind, q.id>> \in RowName
                                 /\ q.op \in Ops
                                 /\ InputOf(q)

Built(q) == Pending(q) /\ q.op # "delete" => q.row \in RowsFor(q.kind)

InStep(q) ==
    /\ q.pc = "load" => q.op # "create"
    /\ q.pc = "lookup" <=> q.lookups # << >>
    /\ q.pc \in {"lookup", "reread"} => q.op # "delete"
    /\ q.pc \in {"idle", "load", "lookup", "write"} => ~q.wrote
    /\ q.pc \in {"reread", "record"} => q.wrote
    /\ q.pc # "done" => q.err = "none"
    /\ q.pc = "done" /\ q.err = "none" => q.wrote /\ q.announced

\* The row it read is there, or was deleted.
RowOrGone(d, del, q) ==
    q.pc = "reread" \/ (Pending(q) /\ q.op # "create") =>
        There(d, q.kind, q.id) \/ <<q.kind, q.id>> \in del

\* Nobody has used its new identifier.
RowIsNew(d, del, q) ==
    Pending(q) /\ q.op = "create" =>
        ~There(d, q.kind, q.id) /\ <<q.kind, q.id>> \notin del

\* An update of an inbound leaves it on its node.
NodeKept(d, q) ==
    Pending(q) /\ q.op = "update" /\ q.kind = "inbound" /\ There(d, "inbound", q.id) =>
        q.row.node = d.inbounds[q.id].node

\* The inbound of an endpoint is on the endpoint's node, or was deleted.
Sound(d, del, ep) == IF d.inbounds[ep.inbound] # None
                     THEN d.inbounds[ep.inbound].node = ep.node
                     ELSE <<"inbound", ep.inbound>> \in del

InboundLookup(ep) == [what |-> "inbound", id |-> ep.inbound, node |-> ep.node]

\* An endpoint a host is about to be written with is sound, or still to be
\* looked up.
EndpointsSeen(d, del, q) ==
    Pending(q) /\ q.op # "delete" /\ q.kind = "host" =>
        \A k \in DOMAIN q.row.endpoints :
            \/ Sound(d, del, q.row.endpoints[k])
            \/ \E j \in DOMAIN q.lookups :
                  q.lookups[j] = InboundLookup(q.row.endpoints[k])

AnswerOk(del, q) ==
    q.pc = "done" /\ q.err # "none" /\ q.wrote =>
        \/ q.err = "notfound" /\ <<q.kind, q.id>> \in del
        \/ q.err = "failed"

RequestOk(d, del, q) ==
    /\ Addressed(q) /\ Built(q) /\ InStep(q)
    /\ RowOrGone(d, del, q) /\ RowIsNew(d, del, q) /\ NodeKept(d, q)
    /\ EndpointsSeen(d, del, q) /\ AnswerOk(del, q)

HostsSound(s, d, del) ==
    \A h \in Live(d.hosts) : \A k \in DOMAIN Endpoints(s, d, h) :
        Sound(d, del, Endpoints(s, d, h)[k])

DeletedIsGone(d, del) == \A gone \in del : ~There(d, gone[1], gone[2])

\* No two requests are about to create the same row.
OneCreator ==
    \A r, o \in Requests :
        /\ Pending(reqs[r]) /\ reqs[r].op = "create"
        /\ Pending(reqs[o]) /\ reqs[o].op = "create"
        /\ <<reqs[r].kind, reqs[r].id>> = <<reqs[o].kind, reqs[o].id>>
        => r = o

CatalogInv ==
    /\ TypeOK
    /\ KeysNameOneRow
    /\ ReferencesResolve
    /\ DeletedIsGone(db, deleted)
    /\ HostsSound(store, db, deleted)
    /\ \A r \in Requests : RequestOk(db, deleted, reqs[r])
    /\ OneCreator

\* Only a query of PostgreSQL fails.
FailuresOfPg == \A r \in Requests : reqs[r].err = "failed" => store = "pg"

\* What became of a row that is gone, and no other took with it, is recorded,
\* about to be, was refused by the database, or its answer was lost.
Explained(gone) ==
    \/ <<"delete", gone[1], gone[2]>> \in unlogged
    \/ \E k \in DOMAIN log : /\ log[k].action = "delete"
                             /\ log[k].kind = gone[1] /\ log[k].id = gone[2]
    \/ \E r \in Requests : /\ reqs[r].pc = "record" /\ reqs[r].op = "delete"
                           /\ <<reqs[r].kind, reqs[r].id>> = gone

AuditInv == CatalogInv /\ \A gone \in deleted \ carried : Explained(gone)

-----------------------------------------------------------------------------
(* What a write may make of a catalog.                                     *)

ForeignKeysHold(s, d) == s = "pg" => EndpointsThere(s, d) /\ NodesThere(d) /\ PairsThere(d)

CatalogOk(s, d) == d \in Db(s) /\ KeysHold(s, d) /\ ForeignKeysHold(s, d)

\* A row comes by a create of it alone, and goes by a delete.
RowEffect(d, e, kind, op, id, err) ==
    /\ err # "none" => \A K \in Kinds : Rows(e, K) = Rows(d, K)
    /\ err = "none" => /\ There(d, kind, id) <=> op # "create"
                       /\ There(e, kind, id) <=> op # "delete"
    /\ \A K \in Kinds : \A i \in Ids(K) :
          /\ There(e, K, i) => There(d, K, i) \/ <<K, i>> = <<kind, id>>
          /\ There(d, K, i) => There(e, K, i) \/ op = "delete"

InboundsStay(d, e) ==
    \A i \in InboundIds : There(d, "inbound", i) /\ There(e, "inbound", i) =>
                              e.inbounds[i].node = d.inbounds[i].node

\* A host keeps its endpoints, but for the one that is written.
HostEffect(s, d, e, kind, op, id, row) ==
    \A h \in Live(e.hosts) :
        \/ h \in Live(d.hosts) /\ Endpoints(s, e, h) = Endpoints(s, d, h)
        \/ /\ kind = "host" /\ op # "delete" /\ h = id
           /\ Endpoints(s, e, h) = row.endpoints

\* A store answers for itself; a query that fails is another step.
StoreErrors == Errors \ {"failed"}

WriteOk(s, d, kind, op, id, row, out) ==
    /\ CatalogOk(s, out.db)
    /\ out.err \in StoreErrors
    /\ RowEffect(d, out.db, kind, op, id, out.err)
    /\ InboundsStay(d, out.db)
    /\ HostEffect(s, d, out.db, kind, op, id, row)

LEMMA DbFields ==
  ASSUME NEW s, NEW d \in Db(s)
  PROVE  /\ d.nodes \in Table(NodeIds, NodeRow)
         /\ d.templates \in Table(TemplateIds, TemplateRow)
         /\ d.inbounds \in Table(InboundIds, InboundRow)
         /\ d.hosts \in Table(HostIds, StoredHost(s))
         /\ d.endpoints \in [HostIds -> Seq(Endpoint)]
         /\ d.plans \in Table(PlanIds, StoredPlan(s))
         /\ d.users \in Table(UserIds, UserRow)
         /\ d.credentials \in Table(CredentialIds, CredentialRow)
         /\ d.nodeByName \in Table(Names, NodeIds)
         /\ d.templateByName \in Table(Names, TemplateIds)
         /\ d.inboundByName \in Table(NodeIds \X Names, InboundIds)
         /\ d.inboundByPort \in Table(NodeIds \X Ports, InboundIds)
         /\ d.hostByRemark \in Table(Names, HostIds)
         /\ d.planByName \in Table(Names, PlanIds)
         /\ d.userByName \in Table(Names, UserIds)
         /\ d.credsOfUser \in [UserIds -> SUBSET CredentialIds]
         /\ d.credsOfInbound \in [InboundIds -> SUBSET CredentialIds]
BY DEF Db

\* A row may be put into a table, and taken out of it.
LEMMA TableEntries ==
  ASSUME NEW Id, NEW Row, NEW rows \in Table(Id, Row), NEW id
  PROVE  /\ \A row \in Row : [rows EXCEPT ![id] = row] \in Table(Id, Row)
         /\ [rows EXCEPT ![id] = None] \in Table(Id, Row)
BY DEF Table

-----------------------------------------------------------------------------
(* Tables with a unique name.                                              *)

LEMMA NameInserted ==
  ASSUME NEW Id, NEW Row, None \notin Id, None \notin Row, \A row \in Row : row.name \in Names,
         NEW s \in Stores, NEW rows \in Table(Id, Row), NEW index \in Table(Names, Id),
         NamesHold(s, rows, index),
         NEW id \in Id, NEW row \in Row, rows[id] = None,
         s = "memory" => index[row.name] = None,
         s = "pg" => ~NameTaken(rows, id, row.name),
         NEW index2, s = "memory" => index2 = [index EXCEPT ![row.name] = id]
  PROVE  NamesHold(s, [rows EXCEPT ![id] = row], index2)
  <1> DEFINE new == [rows EXCEPT ![id] = row]
  <1>1. /\ new \in Table(Id, Row)
        /\ new[id] = row
        /\ \A i \in Id : i # id => new[i] = rows[i]
        /\ Live(new) = Live(rows) \cup {id}
        /\ id \notin Live(rows) /\ Live(rows) \subseteq Id
    BY DEF Table, Live
  <1>2. \A i \in Live(rows) : rows[i].name # row.name
    <2>1. CASE s = "memory"
      BY <2>1 DEF NamesHold, Inverts, NameOf, Table, Live
    <2>2. CASE s = "pg"
      BY <2>2, <1>1 DEF NameTaken
    <2> QED BY <2>1, <2>2 DEF Stores
  <1> HIDE DEF new
  <1>3. OneRowPerName(new)
    BY <1>1, <1>2 DEF NamesHold, OneRowPerName
  <1>4. s = "memory" => Inverts(index2, new, NameOf)
    BY <1>1, <1>2 DEF NamesHold, Inverts, NameOf, Table
  <1> QED BY <1>3, <1>4 DEF NamesHold, new

LEMMA NameMoved ==
  ASSUME NEW Id, NEW Row, None \notin Id, None \notin Row, \A row \in Row : row.name \in Names,
         NEW s \in Stores, NEW rows \in Table(Id, Row), NEW index \in Table(Names, Id),
         NamesHold(s, rows, index),
         NEW id \in Id, NEW row \in Row, rows[id] # None,
         s = "memory" => row.name = rows[id].name \/ index[row.name] = None,
         s = "pg" => ~NameTaken(rows, id, row.name),
         NEW index2, s = "memory" => index2 = [index EXCEPT ![rows[id].name] = None,
                                                            ![row.name] = id]
  PROVE  NamesHold(s, [rows EXCEPT ![id] = row], index2)
  <1> DEFINE new == [rows EXCEPT ![id] = row]
  <1>1. /\ new \in Table(Id, Row)
        /\ new[id] = row
        /\ \A i \in Id : i # id => new[i] = rows[i]
        /\ Live(new) = Live(rows)
        /\ id \in Live(rows) /\ Live(rows) \subseteq Id
        /\ \A i \in Live(rows) : rows[i] \in Row
    BY DEF Table, Live
  <1>2. \A i \in Live(rows) \ {id} : rows[i].name # row.name
    <2>1. CASE s = "memory"
      BY <2>1, <1>1 DEF NamesHold, Inverts, NameOf, OneRowPerName, Table
    <2>2. CASE s = "pg"
      BY <2>2, <1>1 DEF NameTaken
    <2> QED BY <2>1, <2>2 DEF Stores
  <1> HIDE DEF new
  <1>3. OneRowPerName(new)
    BY <1>1, <1>2 DEF NamesHold, OneRowPerName
  <1>4. ASSUME s = "memory" PROVE Inverts(index2, new, NameOf)
    <2>1. index2 = [index EXCEPT ![rows[id].name] = None, ![row.name] = id]
      BY <1>4
    <2>2. rows[id].name \in Names /\ row.name \in Names
      BY <1>1
    <2>3. Inverts(index, rows, NameOf) /\ OneRowPerName(rows)
      BY <1>4 DEF NamesHold
    <2>4. SUFFICES ASSUME NEW key \in Names
                   PROVE  \/ index2[key] = None /\ \A i \in Live(new) : new[i].name # key
                          \/ index2[key] \in Live(new) /\ new[index2[key]].name = key
      BY <2>1 DEF Inverts, NameOf, Table
    <2>5. CASE key = row.name
      BY <2>5, <2>1, <2>2, <1>1 DEF Table
    <2>6. CASE key # row.name /\ key = rows[id].name
      BY <2>6, <2>1, <2>2, <2>3, <1>1 DEF Table, OneRowPerName
    <2>7. CASE key # row.name /\ key # rows[id].name
      BY <2>7, <2>1, <2>2, <2>3, <1>1 DEF Table, Inverts, NameOf
    <2> QED BY <2>5, <2>6, <2>7
  <1> QED BY <1>3, <1>4 DEF NamesHold, new

LEMMA NameRemoved ==
  ASSUME NEW Id, NEW Row, None \notin Id, None \notin Row, \A row \in Row : row.name \in Names,
         NEW s \in Stores, NEW rows \in Table(Id, Row), NEW index \in Table(Names, Id),
         NamesHold(s, rows, index),
         NEW id \in Id, rows[id] # None,
         NEW index2, s = "memory" => index2 = [index EXCEPT ![rows[id].name] = None]
  PROVE  NamesHold(s, [rows EXCEPT ![id] = None], index2)
  <1> DEFINE new == [rows EXCEPT ![id] = None]
  <1>1. /\ new \in Table(Id, Row)
        /\ \A i \in Id : i # id => new[i] = rows[i]
        /\ Live(new) = Live(rows) \ {id}
        /\ id \in Live(rows) /\ Live(rows) \subseteq Id
        /\ \A i \in Live(rows) : rows[i] \in Row
    BY DEF Table, Live
  <1> HIDE DEF new
  <1>2. OneRowPerName(new)
    BY <1>1 DEF NamesHold, OneRowPerName
  <1>3. ASSUME s = "memory" PROVE Inverts(index2, new, NameOf)
    <2>1. /\ index2 = [index EXCEPT ![rows[id].name] = None]
          /\ Inverts(index, rows, NameOf) /\ OneRowPerName(rows)
          /\ rows[id].name \in Names
      BY <1>1, <1>3 DEF NamesHold
    <2> QED BY <2>1, <1>1 DEF Inverts, NameOf, Table, OneRowPerName
  <1> QED BY <1>2, <1>3 DEF NamesHold, new

-----------------------------------------------------------------------------
(* The kinds of row, one at a time.                                        *)

\* A store that refuses leaves the catalog as it was.
LEMMA RefusedIsOk ==
  ASSUME NEW s \in Stores, NEW d, CatalogOk(s, d), NEW err \in StoreErrors \ {"none"},
         NEW kind, NEW op, NEW id, NEW row
  PROVE  WriteOk(s, d, kind, op, id, row, Refused(d, err))
  <1>1. Refused(d, err).db = d /\ Refused(d, err).err = err
    BY DEF Refused
  <1>2. RowEffect(d, d, kind, op, id, err)
    BY DEF RowEffect
  <1> QED BY <1>1, <1>2 DEF WriteOk, InboundsStay, HostEffect

\* A write of one row: what it leaves alone, and what it does to that row.
LEMMA OneRowEffect ==
  ASSUME NEW kind \in Kinds, NEW id, NEW op, NEW d, NEW e,
         \A K \in Kinds \ {kind} : Rows(e, K) = Rows(d, K),
         \A i \in Ids(kind) : i # id => Rows(e, kind)[i] = Rows(d, kind)[i],
         There(d, kind, id) <=> op # "create",
         There(e, kind, id) <=> op # "delete"
  PROVE  RowEffect(d, e, kind, op, id, "none")
BY DEF RowEffect, There

\* A catalog in which only these fields differ.
SameBut(d, e, fields) == \A f \in DOMAIN d \ fields : e[f] = d[f]

LEMMA RowsOfKinds ==
  ASSUME NEW d
  PROVE  /\ Rows(d, "node") = d.nodes /\ Rows(d, "template") = d.templates
         /\ Rows(d, "inbound") = d.inbounds /\ Rows(d, "host") = d.hosts
         /\ Rows(d, "plan") = d.plans /\ Rows(d, "user") = d.users
         /\ Rows(d, "credential") = d.credentials
         /\ Ids("node") = NodeIds /\ Ids("template") = TemplateIds
         /\ Ids("inbound") = InboundIds /\ Ids("host") = HostIds
         /\ Ids("plan") = PlanIds /\ Ids("user") = UserIds
         /\ Ids("credential") = CredentialIds
BY DEF Rows, Ids

\* Tables that are left alone keep what they refer to.
LEMMA HostsLeft ==
  ASSUME NEW s, NEW d, NEW e, NEW kind, NEW op, NEW id, NEW row,
         e.hosts = d.hosts, e.endpoints = d.endpoints
  PROVE  /\ HostEffect(s, d, e, kind, op, id, row)
         /\ \A h \in Live(d.hosts) : Endpoints(s, e, h) = Endpoints(s, d, h)
BY DEF HostEffect, Endpoints, ReadHost, Live

LEMMA RemarksLeft ==
  ASSUME NEW s, NEW d, NEW e, RemarksHold(s, d),
         e.hosts = d.hosts, e.hostByRemark = d.hostByRemark
  PROVE  RemarksHold(s, e)
BY DEF RemarksHold, Inverts, RemarkOf

LEMMA PortsLeft ==
  ASSUME NEW s, NEW d, NEW e, InboundKeysHold(s, d),
         e.inbounds = d.inbounds, e.inboundByPort = d.inboundByPort
  PROVE  InboundKeysHold(s, e)
BY DEF InboundKeysHold, Inverts, PortKey

LEMMA PairsLeft ==
  ASSUME NEW s, NEW d, NEW e, PairsHold(s, d), e.credentials = d.credentials,
         e.credsOfUser = d.credsOfUser, e.credsOfInbound = d.credsOfInbound
  PROVE  PairsHold(s, e)
BY DEF PairsHold

LEMMA EndpointTypes ==
  ASSUME NEW s \in Stores, NEW d \in Db(s), NEW h \in Live(d.hosts)
  PROVE  /\ Endpoints(s, d, h) \in Seq(Endpoint)
         /\ \A k \in DOMAIN Endpoints(s, d, h) :
               /\ Endpoints(s, d, h)[k].node \in NodeIds
               /\ Endpoints(s, d, h)[k].inbound \in InboundIds
  <1>1. d.hosts \in Table(HostIds, StoredHost(s)) /\ d.endpoints \in [HostIds -> Seq(Endpoint)]
    BY DbFields
  <1>2. h \in HostIds /\ d.hosts[h] # None /\ d.hosts[h] \in StoredHost(s)
    BY <1>1 DEF Live, Table
  <1>3. s = "memory" => Endpoints(s, d, h) \in Seq(Endpoint)
    BY <1>2 DEF Endpoints, ReadHost, StoredHost, HostRow
  <1>4. s = "pg" => Endpoints(s, d, h) \in Seq(Endpoint)
    BY <1>1, <1>2 DEF Endpoints, ReadHost
  <1>5. Endpoints(s, d, h) \in Seq(Endpoint)
    BY <1>3, <1>4 DEF Stores
  <1>6. \A eps \in Seq(Endpoint) : \A k \in DOMAIN eps : eps[k] \in Endpoint
    OBVIOUS
  <1> QED BY <1>5, <1>6 DEF Endpoint

\* A write of a row that no foreign key of the others needs.
LEMMA TableWritten ==
  ASSUME NEW s \in Stores, NEW d, CatalogOk(s, d),
         NEW kind \in {"node", "template", "plan", "user"}, NEW id, NEW op, NEW row,
         NEW e \in Db(s), KeysHold(s, e),
         e.inbounds = d.inbounds, e.hosts = d.hosts, e.endpoints = d.endpoints,
         e.credentials = d.credentials,
         kind # "node" => e.nodes = d.nodes, kind # "template" => e.templates = d.templates,
         kind # "plan" => e.plans = d.plans, kind # "user" => e.users = d.users,
         \A i \in Ids(kind) : i # id => Rows(e, kind)[i] = Rows(d, kind)[i],
         There(d, kind, id) <=> op # "create",
         There(e, kind, id) <=> op # "delete",
         s = "pg" /\ kind \in {"node", "user"} => op # "delete"
  PROVE  WriteOk(s, d, kind, op, id, row, Ok(e))
  <1>1. d \in Db(s) /\ ForeignKeysHold(s, d)
    BY DEF CatalogOk
  <1>2. RowEffect(d, e, kind, op, id, "none")
    <2>1. \A K \in Kinds \ {kind} : Rows(e, K) = Rows(d, K)
      BY DEF Kinds, Rows
    <2> QED BY <2>1, OneRowEffect DEF Kinds
  <1>3. ForeignKeysHold(s, e)
    <2> SUFFICES ASSUME s = "pg"
                 PROVE  EndpointsThere(s, e) /\ NodesThere(e) /\ PairsThere(e)
      BY DEF ForeignKeysHold
    <2>1. EndpointsThere(s, d) /\ NodesThere(d) /\ PairsThere(d)
      BY <1>1 DEF ForeignKeysHold
    <2>2. \A i \in NodeIds : d.nodes[i] # None => e.nodes[i] # None
      BY RowsOfKinds DEF There
    <2>3. \A i \in UserIds : d.users[i] # None => e.users[i] # None
      BY RowsOfKinds DEF There
    <2>4. EndpointsThere(s, e)
      <3>1. \A h \in Live(d.hosts) : /\ Endpoints(s, e, h) = Endpoints(s, d, h)
                                     /\ \A k \in DOMAIN Endpoints(s, d, h) :
                                          Endpoints(s, d, h)[k].node \in NodeIds
        BY <1>1, HostsLeft, EndpointTypes
      <3> QED BY <2>1, <2>2, <3>1 DEF EndpointsThere
    <2>5. NodesThere(e)
      <3>1. \A i \in Live(d.inbounds) : d.inbounds[i].node \in NodeIds
        BY <1>1, DbFields DEF Table, Live, InboundRow
      <3> QED BY <2>1, <2>2, <3>1 DEF NodesThere
    <2>6. PairsThere(e)
      <3>1. \A c \in Live(d.credentials) : d.credentials[c].user \in UserIds
        BY <1>1, DbFields DEF Table, Live, CredentialRow
      <3> QED BY <2>1, <2>3, <3>1 DEF PairsThere
    <2> QED BY <2>4, <2>5, <2>6
  <1>4. InboundsStay(d, e) /\ HostEffect(s, d, e, kind, op, id, row)
    BY HostsLeft DEF InboundsStay
  <1> QED BY <1>2, <1>3, <1>4 DEF WriteOk, CatalogOk, Ok, Errors, StoreErrors

(* --- the kinds with a name ------------------------------------------------ *)
NamedTables == {<<"node", "nodes", "nodeByName">>,
                <<"template", "templates", "templateByName">>,
                <<"plan", "plans", "planByName">>,
                <<"user", "users", "userByName">>}

StoredRow(s, kind) == CASE kind = "node"     -> NodeRow
                        [] kind = "template" -> TemplateRow
                        [] kind = "plan"     -> StoredPlan(s)
                        [] kind = "user"     -> UserRow

LEMMA NamedTypes ==
  ASSUME NEW s \in Stores, NEW d, CatalogOk(s, d), NEW kind, NEW f, NEW g,
         <<kind, f, g>> \in NamedTables
  PROVE  /\ None \notin Ids(kind) /\ None \notin StoredRow(s, kind)
         /\ \A row \in StoredRow(s, kind) : row.name \in Names
         /\ d \in Db(s)
         /\ d[f] \in Table(Ids(kind), StoredRow(s, kind))
         /\ d[g] \in Table(Names, Ids(kind))
         /\ d[f] = Rows(d, kind)
         /\ NamesHold(s, d[f], d[g])
         /\ kind \in {"node", "template", "plan", "user"}
  <1>1. /\ \A row \in NodeRow : row.name \in Names
        /\ \A row \in TemplateRow : row.name \in Names
        /\ \A row \in StoredPlan(s) : row.name \in Names
        /\ \A row \in UserRow : row.name \in Names
    BY DEF NodeRow, TemplateRow, StoredPlan, PlanRow, PlanColumns, UserRow
  <1>2. None \notin StoredPlan(s)
    BY NoneIsNothing DEF StoredPlan
  <1>3. d \in Db(s) /\ KeysHold(s, d)
    BY DEF CatalogOk
  <1>4. CASE kind = "node" /\ f = "nodes" /\ g = "nodeByName"
    BY <1>1, <1>3, <1>4, DbFields, NoneIsNothing DEF Ids, Rows, StoredRow, KeysHold
  <1>5. CASE kind = "template" /\ f = "templates" /\ g = "templateByName"
    BY <1>1, <1>3, <1>5, DbFields, NoneIsNothing DEF Ids, Rows, StoredRow, KeysHold
  <1>6. CASE kind = "plan" /\ f = "plans" /\ g = "planByName"
    BY <1>1, <1>2, <1>3, <1>6, DbFields, NoneIsNothing DEF Ids, Rows, StoredRow, KeysHold
  <1>7. CASE kind = "user" /\ f = "users" /\ g = "userByName"
    BY <1>1, <1>3, <1>7, DbFields, NoneIsNothing DEF Ids, Rows, StoredRow, KeysHold
  <1> QED BY <1>4, <1>5, <1>6, <1>7 DEF NamedTables

LEMMA NamedWritten ==
  ASSUME NEW s \in Stores, NEW d, CatalogOk(s, d), NEW kind, NEW f, NEW g,
         <<kind, f, g>> \in NamedTables,
         NEW id \in Ids(kind), NEW op, NEW row,
         NEW e \in Db(s), SameBut(d, e, {f, g}), NamesHold(s, e[f], e[g]),
         \A i \in Ids(kind) : i # id => e[f][i] = d[f][i],
         d[f][id] # None <=> op # "create",
         e[f][id] # None <=> op # "delete",
         s = "pg" /\ kind \in {"node", "user"} => op # "delete"
  PROVE  WriteOk(s, d, kind, op, id, row, Ok(e))
  <1>1. d \in Db(s) /\ KeysHold(s, d)
    BY DEF CatalogOk
  <1>2. /\ e.inbounds = d.inbounds /\ e.hosts = d.hosts
        /\ e.endpoints = d.endpoints /\ e.credentials = d.credentials
        /\ e.inboundByPort = d.inboundByPort /\ e.hostByRemark = d.hostByRemark
        /\ e.credsOfUser = d.credsOfUser /\ e.credsOfInbound = d.credsOfInbound
    BY <1>1 DEF Db, SameBut, NamedTables
  <1>3. /\ kind # "node" => e.nodes = d.nodes /\ e.nodeByName = d.nodeByName
        /\ kind # "template" => e.templates = d.templates /\ e.templateByName = d.templateByName
        /\ kind # "plan" => e.plans = d.plans /\ e.planByName = d.planByName
        /\ kind # "user" => e.users = d.users /\ e.userByName = d.userByName
    BY <1>1 DEF Db, SameBut, NamedTables
  <1>4. /\ kind = "node" => f = "nodes" /\ g = "nodeByName"
        /\ kind = "template" => f = "templates" /\ g = "templateByName"
        /\ kind = "plan" => f = "plans" /\ g = "planByName"
        /\ kind = "user" => f = "users" /\ g = "userByName"
        /\ kind \in {"node", "template", "plan", "user"}
    BY DEF NamedTables
  <1>5. KeysHold(s, e)
    <2>1. RemarksHold(s, e) /\ InboundKeysHold(s, e) /\ PairsHold(s, e)
      BY <1>1, <1>2, RemarksLeft, PortsLeft, PairsLeft DEF KeysHold
    <2>2. /\ NamesHold(s, e.nodes, e.nodeByName)
          /\ NamesHold(s, e.templates, e.templateByName)
          /\ NamesHold(s, e.plans, e.planByName)
          /\ NamesHold(s, e.users, e.userByName)
      BY <1>1, <1>3, <1>4 DEF KeysHold
    <2> QED BY <2>1, <2>2 DEF KeysHold
  <1>6. Rows(d, kind) = d[f] /\ Rows(e, kind) = e[f]
    BY <1>4 DEF Rows
  <1>7. /\ \A i \in Ids(kind) : i # id => Rows(e, kind)[i] = Rows(d, kind)[i]
        /\ There(d, kind, id) <=> op # "create"
        /\ There(e, kind, id) <=> op # "delete"
    BY <1>6 DEF There
  <1> QED BY <1>2, <1>3, <1>4, <1>5, <1>7, TableWritten

LEMMA NamedCreated ==
  ASSUME NEW s \in Stores, NEW d, CatalogOk(s, d), NEW kind, NEW f, NEW g,
         <<kind, f, g>> \in NamedTables,
         NEW id \in Ids(kind), NEW row, NEW new \in StoredRow(s, kind),
         d[f][id] = None,
         s = "memory" => d[g][new.name] = None,
         s = "pg" => ~NameTaken(d[f], id, new.name),
         NEW e \in Db(s), SameBut(d, e, {f, g}),
         e[f] = [d[f] EXCEPT ![id] = new],
         s = "memory" => e[g] = [d[g] EXCEPT ![new.name] = id]
  PROVE  WriteOk(s, d, kind, "create", id, row, Ok(e))
  <1>1. /\ None \notin Ids(kind) /\ None \notin StoredRow(s, kind)
        /\ \A r \in StoredRow(s, kind) : r.name \in Names
        /\ d[f] \in Table(Ids(kind), StoredRow(s, kind))
        /\ d[g] \in Table(Names, Ids(kind))
        /\ NamesHold(s, d[f], d[g])
    BY NamedTypes
  <1>2. NamesHold(s, e[f], e[g])
    BY <1>1, NameInserted
  <1>3. e[f][id] # None /\ \A i \in Ids(kind) : i # id => e[f][i] = d[f][i]
    BY <1>1 DEF Table
  <1> QED BY <1>2, <1>3, NamedWritten

LEMMA NamedUpdated ==
  ASSUME NEW s \in Stores, NEW d, CatalogOk(s, d), NEW kind, NEW f, NEW g,
         <<kind, f, g>> \in NamedTables,
         NEW id \in Ids(kind), NEW row, NEW new \in StoredRow(s, kind),
         d[f][id] # None,
         s = "memory" => new.name = d[f][id].name \/ d[g][new.name] = None,
         s = "pg" => ~NameTaken(d[f], id, new.name),
         NEW e \in Db(s), SameBut(d, e, {f, g}),
         e[f] = [d[f] EXCEPT ![id] = new],
         s = "memory" => e[g] = [d[g] EXCEPT ![d[f][id].name] = None, ![new.name] = id]
  PROVE  WriteOk(s, d, kind, "update", id, row, Ok(e))
  <1>1. /\ None \notin Ids(kind) /\ None \notin StoredRow(s, kind)
        /\ \A r \in StoredRow(s, kind) : r.name \in Names
        /\ d[f] \in Table(Ids(kind), StoredRow(s, kind))
        /\ d[g] \in Table(Names, Ids(kind))
        /\ NamesHold(s, d[f], d[g])
    BY NamedTypes
  <1>2. NamesHold(s, e[f], e[g])
    BY <1>1, NameMoved
  <1>3. e[f][id] # None /\ \A i \in Ids(kind) : i # id => e[f][i] = d[f][i]
    BY <1>1 DEF Table
  <1> QED BY <1>2, <1>3, NamedWritten

LEMMA NamedDeleted ==
  ASSUME NEW s \in Stores, NEW d, CatalogOk(s, d), NEW kind, NEW f, NEW g,
         <<kind, f, g>> \in NamedTables, s = "pg" => kind \notin {"node", "user"},
         NEW id \in Ids(kind), NEW row, d[f][id] # None,
         NEW e \in Db(s), SameBut(d, e, {f, g}),
         e[f] = [d[f] EXCEPT ![id] = None],
         s = "memory" => e[g] = [d[g] EXCEPT ![d[f][id].name] = None]
  PROVE  WriteOk(s, d, kind, "delete", id, row, Ok(e))
  <1>1. /\ None \notin Ids(kind) /\ None \notin StoredRow(s, kind)
        /\ \A r \in StoredRow(s, kind) : r.name \in Names
        /\ d[f] \in Table(Ids(kind), StoredRow(s, kind))
        /\ d[g] \in Table(Names, Ids(kind))
        /\ NamesHold(s, d[f], d[g])
    BY NamedTypes
  <1>2. NamesHold(s, e[f], e[g])
    BY <1>1, NameRemoved
  <1>3. e[f][id] = None /\ \A i \in Ids(kind) : i # id => e[f][i] = d[f][i]
    BY <1>1 DEF Table
  <1> QED BY <1>2, <1>3, NamedWritten

(* --- nodes ----------------------------------------------------------- *)
LEMMA NodeCreateOk ==
  ASSUME NEW s \in Stores, NEW d, CatalogOk(s, d), NEW id \in NodeIds, NEW row \in NodeRow
  PROVE  WriteOk(s, d, "node", "create", id, row, WriteNode(s, d, "create", id, row))
  <1> DEFINE out == WriteNode(s, d, "create", id, row)
  <1>1. /\ d \in Db(s) /\ d.nodes \in Table(NodeIds, NodeRow)
        /\ d.nodeByName \in Table(Names, NodeIds) /\ row.name \in Names
    BY DbFields DEF CatalogOk, NodeRow
  <1>2. <<"node", "nodes", "nodeByName">> \in NamedTables /\ Ids("node") = NodeIds
        /\ StoredRow(s, "node") = NodeRow
    BY DEF NamedTables, Ids, StoredRow
  <1>3. CASE s = "memory" /\ d.nodeByName[row.name] = None /\ d.nodes[id] = None
    <2> DEFINE e == [d EXCEPT !.nodes[id] = row, !.nodeByName[row.name] = id]
    <2>1. out = Ok(e)
      BY <1>3 DEF WriteNode, MemCreateNode
    <2>2. /\ e \in Db(s) /\ e.nodes = [d.nodes EXCEPT ![id] = row]
          /\ e.nodeByName = [d.nodeByName EXCEPT ![row.name] = id]
          /\ SameBut(d, e, {"nodes", "nodeByName"})
      BY <1>1 DEF Db, SameBut, Table
    <2> HIDE DEF e
    <2>3. WriteOk(s, d, "node", "create", id, row, Ok(e))
      BY <1>2, <1>3, <2>2, NamedCreated
    <2> QED BY <2>1, <2>3
  <1>4. CASE s = "pg" /\ d.nodes[id] = None /\ ~NameTaken(d.nodes, id, row.name)
    <2> DEFINE e == [d EXCEPT !.nodes[id] = row]
    <2>1. out = Ok(e)
      BY <1>4 DEF WriteNode, PgCreateNode
    <2>2. /\ e \in Db(s) /\ e.nodes = [d.nodes EXCEPT ![id] = row]
          /\ SameBut(d, e, {"nodes", "nodeByName"})
      BY <1>1 DEF Db, SameBut, Table
    <2> HIDE DEF e
    <2>3. WriteOk(s, d, "node", "create", id, row, Ok(e))
      BY <1>2, <1>4, <2>2, NamedCreated
    <2> QED BY <2>1, <2>3
  <1>5. CASE ~(s = "memory" /\ d.nodeByName[row.name] = None /\ d.nodes[id] = None)
             /\ ~(s = "pg" /\ d.nodes[id] = None /\ ~NameTaken(d.nodes, id, row.name))
    <2>1. out = Refused(d, "duplicate")
      BY <1>5 DEF WriteNode, MemCreateNode, PgCreateNode, Stores
    <2> QED BY <2>1, RefusedIsOk DEF Errors, StoreErrors
  <1> QED BY <1>3, <1>4, <1>5

LEMMA NodeUpdateOk ==
  ASSUME NEW s \in Stores, NEW d, CatalogOk(s, d), NEW id \in NodeIds, NEW row \in NodeRow
  PROVE  WriteOk(s, d, "node", "update", id, row, WriteNode(s, d, "update", id, row))
  <1> DEFINE out == WriteNode(s, d, "update", id, row)
             Free == \/ s = "memory" /\ (d.nodes[id].name = row.name \/ d.nodeByName[row.name] = None)
                     \/ s = "pg" /\ ~NameTaken(d.nodes, id, row.name)
  <1>1. /\ d \in Db(s) /\ d.nodes \in Table(NodeIds, NodeRow)
        /\ d.nodeByName \in Table(Names, NodeIds) /\ row.name \in Names
    BY DbFields DEF CatalogOk, NodeRow
  <1>2. <<"node", "nodes", "nodeByName">> \in NamedTables /\ Ids("node") = NodeIds
        /\ StoredRow(s, "node") = NodeRow
    BY DEF NamedTables, Ids, StoredRow
  <1>3. CASE s = "memory" /\ d.nodes[id] # None /\ Free
    <2> DEFINE e == [d EXCEPT !.nodes[id] = row, !.nodeByName[d.nodes[id].name] = None,
                              !.nodeByName[row.name] = id]
    <2>1. out = Ok(e)
      BY <1>3 DEF WriteNode, MemUpdateNode, Stores
    <2>2. /\ e \in Db(s) /\ e.nodes = [d.nodes EXCEPT ![id] = row]
          /\ e.nodeByName = [d.nodeByName EXCEPT ![d.nodes[id].name] = None, ![row.name] = id]
          /\ SameBut(d, e, {"nodes", "nodeByName"})
      BY <1>1 DEF Db, SameBut, Table
    <2>3. row.name = d.nodes[id].name \/ d.nodeByName[row.name] = None
      BY <1>3 DEF Stores
    <2> HIDE DEF e
    <2>4. WriteOk(s, d, "node", "update", id, row, Ok(e))
      BY <1>2, <1>3, <2>2, <2>3, NamedUpdated
    <2> QED BY <2>1, <2>4
  <1>4. CASE s = "pg" /\ d.nodes[id] # None /\ Free
    <2> DEFINE e == [d EXCEPT !.nodes[id] = row]
    <2>1. out = Ok(e)
      BY <1>4 DEF WriteNode, PgUpdateNode
    <2>2. /\ e \in Db(s) /\ e.nodes = [d.nodes EXCEPT ![id] = row]
          /\ SameBut(d, e, {"nodes", "nodeByName"})
      BY <1>1 DEF Db, SameBut, Table
    <2> HIDE DEF e
    <2>3. WriteOk(s, d, "node", "update", id, row, Ok(e))
      BY <1>2, <1>4, <2>2, NamedUpdated
    <2> QED BY <2>1, <2>3
  <1>5. CASE d.nodes[id] = None \/ ~Free
    <2>1. PICK err \in {"notfound", "duplicate"} : out = Refused(d, err)
      BY <1>5 DEF WriteNode, MemUpdateNode, PgUpdateNode, Stores
    <2> QED BY <2>1, RefusedIsOk DEF Errors, StoreErrors
  <1> QED BY <1>3, <1>4, <1>5 DEF Stores

LEMMA NodeMemDeleteOk ==
  ASSUME NEW d, CatalogOk("memory", d), NEW id \in NodeIds, NEW row
  PROVE  WriteOk("memory", d, "node", "delete", id, row, WriteNode("memory", d, "delete", id, row))
  <1> DEFINE s == "memory"
             out == WriteNode(s, d, "delete", id, row)
  <1>1. /\ d \in Db(s) /\ d.nodes \in Table(NodeIds, NodeRow)
        /\ d.nodeByName \in Table(Names, NodeIds)
    BY DbFields DEF CatalogOk
  <1>2. <<"node", "nodes", "nodeByName">> \in NamedTables /\ Ids("node") = NodeIds /\ s \in Stores
    BY DEF NamedTables, Ids, Stores
  <1>3. CASE d.nodes[id] # None
    <2> DEFINE e == [d EXCEPT !.nodes[id] = None, !.nodeByName[d.nodes[id].name] = None]
    <2>1. out = Ok(e)
      BY <1>3 DEF WriteNode, MemDeleteNode
    <2>2. /\ e \in Db(s) /\ e.nodes = [d.nodes EXCEPT ![id] = None]
          /\ e.nodeByName = [d.nodeByName EXCEPT ![d.nodes[id].name] = None]
          /\ SameBut(d, e, {"nodes", "nodeByName"})
      BY <1>1 DEF Db, SameBut, Table
    <2> HIDE DEF e, s
    <2>3. WriteOk(s, d, "node", "delete", id, row, Ok(e))
      BY <1>2, <1>3, <2>2, NamedDeleted DEF s
    <2> QED BY <2>1, <2>3 DEF s
  <1>4. CASE d.nodes[id] = None
    <2>1. out = Refused(d, "notfound")
      BY <1>4 DEF WriteNode, MemDeleteNode
    <2> QED BY <1>2, <2>1, RefusedIsOk DEF Errors, StoreErrors
  <1> QED BY <1>3, <1>4

(* --- templates ------------------------------------------------------- *)
LEMMA TemplateCreateOk ==
  ASSUME NEW s \in Stores, NEW d, CatalogOk(s, d), NEW id \in TemplateIds, NEW row \in TemplateRow
  PROVE  WriteOk(s, d, "template", "create", id, row, WriteTemplate(s, d, "create", id, row))
  <1> DEFINE out == WriteTemplate(s, d, "create", id, row)
  <1>1. /\ d \in Db(s) /\ d.templates \in Table(TemplateIds, TemplateRow)
        /\ d.templateByName \in Table(Names, TemplateIds) /\ row.name \in Names
    BY DbFields DEF CatalogOk, TemplateRow
  <1>2. <<"template", "templates", "templateByName">> \in NamedTables /\ Ids("template") = TemplateIds
        /\ StoredRow(s, "template") = TemplateRow
    BY DEF NamedTables, Ids, StoredRow
  <1>3. CASE s = "memory" /\ d.templateByName[row.name] = None /\ d.templates[id] = None
    <2> DEFINE e == [d EXCEPT !.templates[id] = row, !.templateByName[row.name] = id]
    <2>1. out = Ok(e)
      BY <1>3 DEF WriteTemplate, MemCreateTemplate
    <2>2. /\ e \in Db(s) /\ e.templates = [d.templates EXCEPT ![id] = row]
          /\ e.templateByName = [d.templateByName EXCEPT ![row.name] = id]
          /\ SameBut(d, e, {"templates", "templateByName"})
      BY <1>1 DEF Db, SameBut, Table
    <2> HIDE DEF e
    <2>3. WriteOk(s, d, "template", "create", id, row, Ok(e))
      BY <1>2, <1>3, <2>2, NamedCreated
    <2> QED BY <2>1, <2>3
  <1>4. CASE s = "pg" /\ d.templates[id] = None /\ ~NameTaken(d.templates, id, row.name)
    <2> DEFINE e == [d EXCEPT !.templates[id] = row]
    <2>1. out = Ok(e)
      BY <1>4 DEF WriteTemplate, PgCreateTemplate
    <2>2. /\ e \in Db(s) /\ e.templates = [d.templates EXCEPT ![id] = row]
          /\ SameBut(d, e, {"templates", "templateByName"})
      BY <1>1 DEF Db, SameBut, Table
    <2> HIDE DEF e
    <2>3. WriteOk(s, d, "template", "create", id, row, Ok(e))
      BY <1>2, <1>4, <2>2, NamedCreated
    <2> QED BY <2>1, <2>3
  <1>5. CASE ~(s = "memory" /\ d.templateByName[row.name] = None /\ d.templates[id] = None)
             /\ ~(s = "pg" /\ d.templates[id] = None /\ ~NameTaken(d.templates, id, row.name))
    <2>1. out = Refused(d, "duplicate")
      BY <1>5 DEF WriteTemplate, MemCreateTemplate, PgCreateTemplate, Stores
    <2> QED BY <2>1, RefusedIsOk DEF Errors, StoreErrors
  <1> QED BY <1>3, <1>4, <1>5

LEMMA TemplateUpdateOk ==
  ASSUME NEW s \in Stores, NEW d, CatalogOk(s, d), NEW id \in TemplateIds, NEW row \in TemplateRow
  PROVE  WriteOk(s, d, "template", "update", id, row, WriteTemplate(s, d, "update", id, row))
  <1> DEFINE out == WriteTemplate(s, d, "update", id, row)
             Free == \/ s = "memory" /\ (d.templates[id].name = row.name \/ d.templateByName[row.name] = None)
                     \/ s = "pg" /\ ~NameTaken(d.templates, id, row.name)
  <1>1. /\ d \in Db(s) /\ d.templates \in Table(TemplateIds, TemplateRow)
        /\ d.templateByName \in Table(Names, TemplateIds) /\ row.name \in Names
    BY DbFields DEF CatalogOk, TemplateRow
  <1>2. <<"template", "templates", "templateByName">> \in NamedTables /\ Ids("template") = TemplateIds
        /\ StoredRow(s, "template") = TemplateRow
    BY DEF NamedTables, Ids, StoredRow
  <1>3. CASE s = "memory" /\ d.templates[id] # None /\ Free
    <2> DEFINE e == [d EXCEPT !.templates[id] = row, !.templateByName[d.templates[id].name] = None,
                              !.templateByName[row.name] = id]
    <2>1. out = Ok(e)
      BY <1>3 DEF WriteTemplate, MemUpdateTemplate, Stores
    <2>2. /\ e \in Db(s) /\ e.templates = [d.templates EXCEPT ![id] = row]
          /\ e.templateByName = [d.templateByName EXCEPT ![d.templates[id].name] = None, ![row.name] = id]
          /\ SameBut(d, e, {"templates", "templateByName"})
      BY <1>1 DEF Db, SameBut, Table
    <2>3. row.name = d.templates[id].name \/ d.templateByName[row.name] = None
      BY <1>3 DEF Stores
    <2> HIDE DEF e
    <2>4. WriteOk(s, d, "template", "update", id, row, Ok(e))
      BY <1>2, <1>3, <2>2, <2>3, NamedUpdated
    <2> QED BY <2>1, <2>4
  <1>4. CASE s = "pg" /\ d.templates[id] # None /\ Free
    <2> DEFINE e == [d EXCEPT !.templates[id] = row]
    <2>1. out = Ok(e)
      BY <1>4 DEF WriteTemplate, PgUpdateTemplate
    <2>2. /\ e \in Db(s) /\ e.templates = [d.templates EXCEPT ![id] = row]
          /\ SameBut(d, e, {"templates", "templateByName"})
      BY <1>1 DEF Db, SameBut, Table
    <2> HIDE DEF e
    <2>3. WriteOk(s, d, "template", "update", id, row, Ok(e))
      BY <1>2, <1>4, <2>2, NamedUpdated
    <2> QED BY <2>1, <2>3
  <1>5. CASE d.templates[id] = None \/ ~Free
    <2>1. PICK err \in {"notfound", "duplicate"} : out = Refused(d, err)
      BY <1>5 DEF WriteTemplate, MemUpdateTemplate, PgUpdateTemplate, Stores
    <2> QED BY <2>1, RefusedIsOk DEF Errors, StoreErrors
  <1> QED BY <1>3, <1>4, <1>5 DEF Stores

LEMMA TemplateMemDeleteOk ==
  ASSUME NEW d, CatalogOk("memory", d), NEW id \in TemplateIds, NEW row
  PROVE  WriteOk("memory", d, "template", "delete", id, row, WriteTemplate("memory", d, "delete", id, row))
  <1> DEFINE s == "memory"
             out == WriteTemplate(s, d, "delete", id, row)
  <1>1. /\ d \in Db(s) /\ d.templates \in Table(TemplateIds, TemplateRow)
        /\ d.templateByName \in Table(Names, TemplateIds)
    BY DbFields DEF CatalogOk
  <1>2. <<"template", "templates", "templateByName">> \in NamedTables /\ Ids("template") = TemplateIds /\ s \in Stores
    BY DEF NamedTables, Ids, Stores
  <1>3. CASE d.templates[id] # None
    <2> DEFINE e == [d EXCEPT !.templates[id] = None, !.templateByName[d.templates[id].name] = None]
    <2>1. out = Ok(e)
      BY <1>3 DEF WriteTemplate, MemDeleteTemplate
    <2>2. /\ e \in Db(s) /\ e.templates = [d.templates EXCEPT ![id] = None]
          /\ e.templateByName = [d.templateByName EXCEPT ![d.templates[id].name] = None]
          /\ SameBut(d, e, {"templates", "templateByName"})
      BY <1>1 DEF Db, SameBut, Table
    <2> HIDE DEF e, s
    <2>3. WriteOk(s, d, "template", "delete", id, row, Ok(e))
      BY <1>2, <1>3, <2>2, NamedDeleted DEF s
    <2> QED BY <2>1, <2>3 DEF s
  <1>4. CASE d.templates[id] = None
    <2>1. out = Refused(d, "notfound")
      BY <1>4 DEF WriteTemplate, MemDeleteTemplate
    <2> QED BY <1>2, <2>1, RefusedIsOk DEF Errors, StoreErrors
  <1> QED BY <1>3, <1>4

\* A duration becomes an INTERVAL, and back.
LEMMA Intervals ==
  /\ \A ns \in Nat : DurationToInterval(ns) \in [days : Nat, micros : Nat]
  /\ \A iv \in [days : Nat, micros : Nat] : IntervalToDuration(iv) \in Nat
  <1>1. NsPerDay \in Nat \ {0}
    BY PlanUnits, SMT DEF NsPerDay
  <1>2. NsPerMicro \in Nat \ {0}
    BY PlanUnits
  <1>3. \A a \in Nat, b \in Nat \ {0} : a \div b \in Nat /\ a % b \in Nat
    BY SMT
  <1>4. \A ns \in Nat : DurationToInterval(ns) \in [days : Nat, micros : Nat]
    BY <1>1, <1>2, <1>3 DEF DurationToInterval
  <1>5. \A a, b, x, y \in Nat : a * x + b * y \in Nat
    BY SMT
  <1>6. \A iv \in [days : Nat, micros : Nat] : IntervalToDuration(iv) \in Nat
    BY <1>1, <1>2, <1>5 DEF IntervalToDuration
  <1> QED BY <1>4, <1>6

LEMMA PlanStored ==
  ASSUME NEW row \in PlanRow
  PROVE  /\ PgPlan(row) \in PlanColumns /\ PgPlan(row).name = row.name
         /\ StoredPlan("pg") = PlanColumns /\ StoredPlan("memory") = PlanRow
BY Intervals DEF PgPlan, PlanColumns, PlanRow, StoredPlan

(* --- plans ----------------------------------------------------------- *)
LEMMA PlanCreateOk ==
  ASSUME NEW s \in Stores, NEW d, CatalogOk(s, d), NEW id \in PlanIds, NEW row \in PlanRow
  PROVE  WriteOk(s, d, "plan", "create", id, row, WritePlan(s, d, "create", id, row))
  <1> DEFINE out == WritePlan(s, d, "create", id, row)
  <1>1. /\ d \in Db(s) /\ d.plans \in Table(PlanIds, StoredPlan(s))
        /\ d.planByName \in Table(Names, PlanIds) /\ row.name \in Names
    BY DbFields DEF CatalogOk, PlanRow
  <1>2. <<"plan", "plans", "planByName">> \in NamedTables /\ Ids("plan") = PlanIds
        /\ StoredRow(s, "plan") = StoredPlan(s)
    BY DEF NamedTables, Ids, StoredRow
  <1>3. CASE s = "memory" /\ d.planByName[row.name] = None /\ d.plans[id] = None
    <2> DEFINE e == [d EXCEPT !.plans[id] = row, !.planByName[row.name] = id]
    <2>1. out = Ok(e)
      BY <1>3 DEF WritePlan, MemCreatePlan
    <2>4. row \in StoredPlan(s)
      BY <1>3, PlanStored
    <2>2. /\ e \in Db(s) /\ e.plans = [d.plans EXCEPT ![id] = row]
          /\ e.planByName = [d.planByName EXCEPT ![row.name] = id]
          /\ SameBut(d, e, {"plans", "planByName"})
      BY <1>1, <2>4 DEF Db, SameBut, Table
    <2> HIDE DEF e
    <2>3. WriteOk(s, d, "plan", "create", id, row, Ok(e))
      BY <1>2, <1>3, <2>4, <2>2, NamedCreated
    <2> QED BY <2>1, <2>3
  <1>4. CASE s = "pg" /\ d.plans[id] = None /\ ~NameTaken(d.plans, id, row.name)
    <2> DEFINE e == [d EXCEPT !.plans[id] = PgPlan(row)]
    <2>1. out = Ok(e)
      BY <1>4 DEF WritePlan, PgCreatePlan
    <2>4. PgPlan(row) \in StoredPlan(s) /\ PgPlan(row).name = row.name
      BY <1>4, PlanStored
    <2>2. /\ e \in Db(s) /\ e.plans = [d.plans EXCEPT ![id] = PgPlan(row)]
          /\ SameBut(d, e, {"plans", "planByName"})
      BY <1>1, <2>4 DEF Db, SameBut, Table
    <2> HIDE DEF e
    <2>3. WriteOk(s, d, "plan", "create", id, row, Ok(e))
      BY <1>2, <1>4, <2>4, <2>2, NamedCreated
    <2> QED BY <2>1, <2>3
  <1>5. CASE ~(s = "memory" /\ d.planByName[row.name] = None /\ d.plans[id] = None)
             /\ ~(s = "pg" /\ d.plans[id] = None /\ ~NameTaken(d.plans, id, row.name))
    <2>1. out = Refused(d, "duplicate")
      BY <1>5 DEF WritePlan, MemCreatePlan, PgCreatePlan, Stores
    <2> QED BY <2>1, RefusedIsOk DEF Errors, StoreErrors
  <1> QED BY <1>3, <1>4, <1>5

LEMMA PlanUpdateOk ==
  ASSUME NEW s \in Stores, NEW d, CatalogOk(s, d), NEW id \in PlanIds, NEW row \in PlanRow
  PROVE  WriteOk(s, d, "plan", "update", id, row, WritePlan(s, d, "update", id, row))
  <1> DEFINE out == WritePlan(s, d, "update", id, row)
             Free == \/ s = "memory" /\ (d.plans[id].name = row.name \/ d.planByName[row.name] = None)
                     \/ s = "pg" /\ ~NameTaken(d.plans, id, row.name)
  <1>1. /\ d \in Db(s) /\ d.plans \in Table(PlanIds, StoredPlan(s))
        /\ d.planByName \in Table(Names, PlanIds) /\ row.name \in Names
    BY DbFields DEF CatalogOk, PlanRow
  <1>2. <<"plan", "plans", "planByName">> \in NamedTables /\ Ids("plan") = PlanIds
        /\ StoredRow(s, "plan") = StoredPlan(s)
    BY DEF NamedTables, Ids, StoredRow
  <1>3. CASE s = "memory" /\ d.plans[id] # None /\ Free
    <2> DEFINE e == [d EXCEPT !.plans[id] = row, !.planByName[d.plans[id].name] = None,
                              !.planByName[row.name] = id]
    <2>1. out = Ok(e)
      BY <1>3 DEF WritePlan, MemUpdatePlan, Stores
    <2>4. row \in StoredPlan(s)
      BY <1>3, PlanStored
    <2>2. /\ e \in Db(s) /\ e.plans = [d.plans EXCEPT ![id] = row]
          /\ e.planByName = [d.planByName EXCEPT ![d.plans[id].name] = None, ![row.name] = id]
          /\ SameBut(d, e, {"plans", "planByName"})
      BY <1>1, <2>4 DEF Db, SameBut, Table
    <2>3. row.name = d.plans[id].name \/ d.planByName[row.name] = None
      BY <1>3 DEF Stores
    <2> HIDE DEF e
    <2>5. WriteOk(s, d, "plan", "update", id, row, Ok(e))
      BY <1>2, <1>3, <2>4, <2>2, <2>3, NamedUpdated, ZenonT(40)
    <2> QED BY <2>1, <2>5
  <1>4. CASE s = "pg" /\ d.plans[id] # None /\ Free
    <2> DEFINE e == [d EXCEPT !.plans[id] = PgPlan(row)]
    <2>1. out = Ok(e)
      BY <1>4 DEF WritePlan, PgUpdatePlan
    <2>4. PgPlan(row) \in StoredPlan(s) /\ PgPlan(row).name = row.name
      BY <1>4, PlanStored
    <2>2. /\ e \in Db(s) /\ e.plans = [d.plans EXCEPT ![id] = PgPlan(row)]
          /\ SameBut(d, e, {"plans", "planByName"})
      BY <1>1, <2>4 DEF Db, SameBut, Table
    <2> HIDE DEF e
    <2>3. WriteOk(s, d, "plan", "update", id, row, Ok(e))
      BY <1>2, <1>4, <2>4, <2>2, NamedUpdated
    <2> QED BY <2>1, <2>3
  <1>5. CASE d.plans[id] = None \/ ~Free
    <2>1. PICK err \in {"notfound", "duplicate"} : out = Refused(d, err)
      BY <1>5 DEF WritePlan, MemUpdatePlan, PgUpdatePlan, Stores
    <2> QED BY <2>1, RefusedIsOk DEF Errors, StoreErrors
  <1> QED BY <1>3, <1>4, <1>5 DEF Stores

LEMMA PlanMemDeleteOk ==
  ASSUME NEW d, CatalogOk("memory", d), NEW id \in PlanIds, NEW row
  PROVE  WriteOk("memory", d, "plan", "delete", id, row, WritePlan("memory", d, "delete", id, row))
  <1> DEFINE s == "memory"
             out == WritePlan(s, d, "delete", id, row)
  <1>1. /\ d \in Db(s) /\ d.plans \in Table(PlanIds, StoredPlan(s))
        /\ d.planByName \in Table(Names, PlanIds)
    BY DbFields DEF CatalogOk
  <1>2. <<"plan", "plans", "planByName">> \in NamedTables /\ Ids("plan") = PlanIds /\ s \in Stores
    BY DEF NamedTables, Ids, Stores
  <1>3. CASE d.plans[id] # None
    <2> DEFINE e == [d EXCEPT !.plans[id] = None, !.planByName[d.plans[id].name] = None]
    <2>1. out = Ok(e)
      BY <1>3 DEF WritePlan, MemDeletePlan
    <2>2. /\ e \in Db(s) /\ e.plans = [d.plans EXCEPT ![id] = None]
          /\ e.planByName = [d.planByName EXCEPT ![d.plans[id].name] = None]
          /\ SameBut(d, e, {"plans", "planByName"})
      BY <1>1 DEF Db, SameBut, Table
    <2> HIDE DEF e, s
    <2>3. WriteOk(s, d, "plan", "delete", id, row, Ok(e))
      BY <1>2, <1>3, <2>2, NamedDeleted DEF s
    <2> QED BY <2>1, <2>3 DEF s
  <1>4. CASE d.plans[id] = None
    <2>1. out = Refused(d, "notfound")
      BY <1>4 DEF WritePlan, MemDeletePlan
    <2> QED BY <1>2, <2>1, RefusedIsOk DEF Errors, StoreErrors
  <1> QED BY <1>3, <1>4

LEMMA PlanPgDeleteOk ==
  ASSUME NEW d, CatalogOk("pg", d), NEW id \in PlanIds, NEW row
  PROVE  WriteOk("pg", d, "plan", "delete", id, row, WritePlan("pg", d, "delete", id, row))
  <1> DEFINE s == "pg"
             out == WritePlan(s, d, "delete", id, row)
  <1>1. d \in Db(s) /\ d.plans \in Table(PlanIds, StoredPlan(s))
    BY DbFields DEF CatalogOk
  <1>2. <<"plan", "plans", "planByName">> \in NamedTables /\ Ids("plan") = PlanIds /\ s \in Stores
    BY DEF NamedTables, Ids, Stores
  <1>3. CASE d.plans[id] # None
    <2> DEFINE e == [d EXCEPT !.plans[id] = None]
    <2>1. out = Ok(e)
      BY <1>3 DEF WritePlan, PgDeletePlan
    <2>2. /\ e \in Db(s) /\ e.plans = [d.plans EXCEPT ![id] = None]
          /\ SameBut(d, e, {"plans", "planByName"})
      BY <1>1 DEF Db, SameBut, Table
    <2> HIDE DEF e, s
    <2>3. WriteOk(s, d, "plan", "delete", id, row, Ok(e))
      BY <1>2, <1>3, <2>2, NamedDeleted DEF s
    <2> QED BY <2>1, <2>3 DEF s
  <1>4. CASE d.plans[id] = None
    <2>1. out = Refused(d, "notfound")
      BY <1>4 DEF WritePlan, PgDeletePlan
    <2> QED BY <1>2, <2>1, RefusedIsOk DEF Errors, StoreErrors
  <1> QED BY <1>3, <1>4

(* --- users ----------------------------------------------------------- *)
LEMMA UserCreateOk ==
  ASSUME NEW s \in Stores, NEW d, CatalogOk(s, d), NEW id \in UserIds, NEW row \in UserRow
  PROVE  WriteOk(s, d, "user", "create", id, row, WriteUser(s, d, "create", id, row))
  <1> DEFINE out == WriteUser(s, d, "create", id, row)
  <1>1. /\ d \in Db(s) /\ d.users \in Table(UserIds, UserRow)
        /\ d.userByName \in Table(Names, UserIds) /\ row.name \in Names
    BY DbFields DEF CatalogOk, UserRow
  <1>2. <<"user", "users", "userByName">> \in NamedTables /\ Ids("user") = UserIds
        /\ StoredRow(s, "user") = UserRow
    BY DEF NamedTables, Ids, StoredRow
  <1>3. CASE s = "memory" /\ d.userByName[row.name] = None /\ d.users[id] = None
    <2> DEFINE e == [d EXCEPT !.users[id] = row, !.userByName[row.name] = id]
    <2>1. out = Ok(e)
      BY <1>3 DEF WriteUser, MemCreateUser
    <2>2. /\ e \in Db(s) /\ e.users = [d.users EXCEPT ![id] = row]
          /\ e.userByName = [d.userByName EXCEPT ![row.name] = id]
          /\ SameBut(d, e, {"users", "userByName"})
      BY <1>1 DEF Db, SameBut, Table
    <2> HIDE DEF e
    <2>3. WriteOk(s, d, "user", "create", id, row, Ok(e))
      BY <1>2, <1>3, <2>2, NamedCreated
    <2> QED BY <2>1, <2>3
  <1>4. CASE s = "pg" /\ d.users[id] = None /\ ~NameTaken(d.users, id, row.name)
    <2> DEFINE e == [d EXCEPT !.users[id] = row]
    <2>1. out = Ok(e)
      BY <1>4 DEF WriteUser, PgCreateUser
    <2>2. /\ e \in Db(s) /\ e.users = [d.users EXCEPT ![id] = row]
          /\ SameBut(d, e, {"users", "userByName"})
      BY <1>1 DEF Db, SameBut, Table
    <2> HIDE DEF e
    <2>3. WriteOk(s, d, "user", "create", id, row, Ok(e))
      BY <1>2, <1>4, <2>2, NamedCreated
    <2> QED BY <2>1, <2>3
  <1>5. CASE ~(s = "memory" /\ d.userByName[row.name] = None /\ d.users[id] = None)
             /\ ~(s = "pg" /\ d.users[id] = None /\ ~NameTaken(d.users, id, row.name))
    <2>1. out = Refused(d, "duplicate")
      BY <1>5 DEF WriteUser, MemCreateUser, PgCreateUser, Stores
    <2> QED BY <2>1, RefusedIsOk DEF Errors, StoreErrors
  <1> QED BY <1>3, <1>4, <1>5

LEMMA UserUpdateOk ==
  ASSUME NEW s \in Stores, NEW d, CatalogOk(s, d), NEW id \in UserIds, NEW row \in UserRow
  PROVE  WriteOk(s, d, "user", "update", id, row, WriteUser(s, d, "update", id, row))
  <1> DEFINE out == WriteUser(s, d, "update", id, row)
             Free == \/ s = "memory" /\ (d.users[id].name = row.name \/ d.userByName[row.name] = None)
                     \/ s = "pg" /\ ~NameTaken(d.users, id, row.name)
  <1>1. /\ d \in Db(s) /\ d.users \in Table(UserIds, UserRow)
        /\ d.userByName \in Table(Names, UserIds) /\ row.name \in Names
    BY DbFields DEF CatalogOk, UserRow
  <1>2. <<"user", "users", "userByName">> \in NamedTables /\ Ids("user") = UserIds
        /\ StoredRow(s, "user") = UserRow
    BY DEF NamedTables, Ids, StoredRow
  <1>3. CASE s = "memory" /\ d.users[id] # None /\ Free
    <2> DEFINE e == [d EXCEPT !.users[id] = row, !.userByName[d.users[id].name] = None,
                              !.userByName[row.name] = id]
    <2>1. out = Ok(e)
      BY <1>3 DEF WriteUser, MemUpdateUser, Stores
    <2>2. /\ e \in Db(s) /\ e.users = [d.users EXCEPT ![id] = row]
          /\ e.userByName = [d.userByName EXCEPT ![d.users[id].name] = None, ![row.name] = id]
          /\ SameBut(d, e, {"users", "userByName"})
      BY <1>1 DEF Db, SameBut, Table
    <2>3. row.name = d.users[id].name \/ d.userByName[row.name] = None
      BY <1>3 DEF Stores
    <2> HIDE DEF e
    <2>4. WriteOk(s, d, "user", "update", id, row, Ok(e))
      BY <1>2, <1>3, <2>2, <2>3, NamedUpdated
    <2> QED BY <2>1, <2>4
  <1>4. CASE s = "pg" /\ d.users[id] # None /\ Free
    <2> DEFINE e == [d EXCEPT !.users[id] = row]
    <2>1. out = Ok(e)
      BY <1>4 DEF WriteUser, PgUpdateUser
    <2>2. /\ e \in Db(s) /\ e.users = [d.users EXCEPT ![id] = row]
          /\ SameBut(d, e, {"users", "userByName"})
      BY <1>1 DEF Db, SameBut, Table
    <2> HIDE DEF e
    <2>3. WriteOk(s, d, "user", "update", id, row, Ok(e))
      BY <1>2, <1>4, <2>2, NamedUpdated
    <2> QED BY <2>1, <2>3
  <1>5. CASE d.users[id] = None \/ ~Free
    <2>1. PICK err \in {"notfound", "duplicate"} : out = Refused(d, err)
      BY <1>5 DEF WriteUser, MemUpdateUser, PgUpdateUser, Stores
    <2> QED BY <2>1, RefusedIsOk DEF Errors, StoreErrors
  <1> QED BY <1>3, <1>4, <1>5 DEF Stores

LEMMA UserMemDeleteOk ==
  ASSUME NEW d, CatalogOk("memory", d), NEW id \in UserIds, NEW row
  PROVE  WriteOk("memory", d, "user", "delete", id, row, WriteUser("memory", d, "delete", id, row))
  <1> DEFINE s == "memory"
             out == WriteUser(s, d, "delete", id, row)
  <1>1. /\ d \in Db(s) /\ d.users \in Table(UserIds, UserRow)
        /\ d.userByName \in Table(Names, UserIds)
    BY DbFields DEF CatalogOk
  <1>2. <<"user", "users", "userByName">> \in NamedTables /\ Ids("user") = UserIds /\ s \in Stores
    BY DEF NamedTables, Ids, Stores
  <1>3. CASE d.users[id] # None
    <2> DEFINE e == [d EXCEPT !.users[id] = None, !.userByName[d.users[id].name] = None]
    <2>1. out = Ok(e)
      BY <1>3 DEF WriteUser, MemDeleteUser
    <2>2. /\ e \in Db(s) /\ e.users = [d.users EXCEPT ![id] = None]
          /\ e.userByName = [d.userByName EXCEPT ![d.users[id].name] = None]
          /\ SameBut(d, e, {"users", "userByName"})
      BY <1>1 DEF Db, SameBut, Table
    <2> HIDE DEF e, s
    <2>3. WriteOk(s, d, "user", "delete", id, row, Ok(e))
      BY <1>2, <1>3, <2>2, NamedDeleted DEF s
    <2> QED BY <2>1, <2>3 DEF s
  <1>4. CASE d.users[id] = None
    <2>1. out = Refused(d, "notfound")
      BY <1>4 DEF WriteUser, MemDeleteUser
    <2> QED BY <1>2, <2>1, RefusedIsOk DEF Errors, StoreErrors
  <1> QED BY <1>3, <1>4

(* --- deletes that take other rows with them ------------------------------- *)
\* A delete in PostgreSQL leaves some of the rows, as they were.
LEMMA PgShrunk ==
  ASSUME NEW d, CatalogOk("pg", d), NEW e \in Db("pg"),
         NEW kind \in Kinds, NEW id \in Ids(kind), NEW row,
         There(d, kind, id), ~There(e, kind, id),
         \A i \in Live(e.nodes) : i \in Live(d.nodes) /\ e.nodes[i] = d.nodes[i],
         \A i \in Live(e.templates) : i \in Live(d.templates) /\ e.templates[i] = d.templates[i],
         \A i \in Live(e.users) : i \in Live(d.users) /\ e.users[i] = d.users[i],
         \A i \in Live(e.inbounds) :
            /\ i \in Live(d.inbounds) /\ e.inbounds[i].node = d.inbounds[i].node
            /\ e.inbounds[i].name = d.inbounds[i].name /\ e.inbounds[i].port = d.inbounds[i].port,
         \A i \in Live(e.credentials) :
            i \in Live(d.credentials) /\ e.credentials[i] = d.credentials[i],
         e.plans = d.plans, e.hosts = d.hosts, e.endpoints = d.endpoints,
         EndpointsThere("pg", e), NodesThere(e), PairsThere(e)
  PROVE  WriteOk("pg", d, kind, "delete", id, row, Ok(e))
  <1>1. d \in Db("pg") /\ KeysHold("pg", d) /\ "pg" # "memory"
    BY DEF CatalogOk
  <1>2. KeysHold("pg", e)
    <2>1. /\ OneRowPerName(e.nodes) /\ OneRowPerName(e.templates)
          /\ OneRowPerName(e.plans) /\ OneRowPerName(e.users)
      BY <1>1 DEF KeysHold, NamesHold, OneRowPerName
    <2>2. RemarksHold("pg", e)
      BY <1>1 DEF KeysHold, RemarksHold
    <2>3. InboundKeysHold("pg", e)
      BY <1>1, ZenonT(40) DEF KeysHold, InboundKeysHold, PortKey, NameKey
    <2>4. PairsHold("pg", e)
      BY <1>1 DEF KeysHold, PairsHold, PairKey
    <2> QED BY <1>1, <2>1, <2>2, <2>3, <2>4 DEF KeysHold, NamesHold
  <1>3. ForeignKeysHold("pg", e)
    BY DEF ForeignKeysHold
  <1>4. \A K \in Kinds : \A i \in Ids(K) : There(e, K, i) => There(d, K, i)
    <2>1. /\ d.nodes \in Table(NodeIds, NodeRow) /\ e.nodes \in Table(NodeIds, NodeRow)
          /\ d.templates \in Table(TemplateIds, TemplateRow)
          /\ e.templates \in Table(TemplateIds, TemplateRow)
          /\ d.inbounds \in Table(InboundIds, InboundRow)
          /\ e.inbounds \in Table(InboundIds, InboundRow)
          /\ d.users \in Table(UserIds, UserRow) /\ e.users \in Table(UserIds, UserRow)
          /\ d.credentials \in Table(CredentialIds, CredentialRow)
          /\ e.credentials \in Table(CredentialIds, CredentialRow)
      BY <1>1, DbFields
    <2>2. /\ \A i \in NodeIds : e.nodes[i] # None => d.nodes[i] # None
          /\ \A i \in TemplateIds : e.templates[i] # None => d.templates[i] # None
          /\ \A i \in InboundIds : e.inbounds[i] # None => d.inbounds[i] # None
          /\ \A i \in UserIds : e.users[i] # None => d.users[i] # None
          /\ \A i \in CredentialIds : e.credentials[i] # None => d.credentials[i] # None
      BY <2>1 DEF Table, Live
    <2> QED BY <2>2 DEF There, Rows, Ids, Kinds
  <1>5. RowEffect(d, e, kind, "delete", id, "none")
    BY <1>4 DEF RowEffect
  <1>6. InboundsStay(d, e)
    <2>1. e.inbounds \in Table(InboundIds, InboundRow)
      BY DbFields
    <2> QED BY <2>1 DEF InboundsStay, There, Rows, Live, Table
  <1>7. HostEffect("pg", d, e, kind, "delete", id, row)
    BY HostsLeft
  <1> QED BY <1>2, <1>3, <1>5, <1>6, <1>7 DEF WriteOk, CatalogOk, Ok, Errors, StoreErrors

LEMMA TemplatePgDeleteOk ==
  ASSUME NEW d, CatalogOk("pg", d), NEW id \in TemplateIds, NEW row
  PROVE  WriteOk("pg", d, "template", "delete", id, row,
                 WriteTemplate("pg", d, "delete", id, row))
  <1> DEFINE out == WriteTemplate("pg", d, "delete", id, row)
             inbounds == [inb \in InboundIds |->
                            IF d.inbounds[inb] # None /\ d.inbounds[inb].template = id
                            THEN [d.inbounds[inb] EXCEPT !.template = None]
                            ELSE d.inbounds[inb]]
             e == [d EXCEPT !.templates[id] = None, !.inbounds = inbounds]
  <1>1. /\ d \in Db("pg") /\ d.templates \in Table(TemplateIds, TemplateRow)
        /\ d.inbounds \in Table(InboundIds, InboundRow)
        /\ EndpointsThere("pg", d) /\ NodesThere(d) /\ PairsThere(d)
    BY DbFields DEF CatalogOk, ForeignKeysHold
  <1>2. CASE d.templates[id] = None
    <2>1. out = Refused(d, "notfound")
      BY <1>2 DEF WriteTemplate, PgDeleteTemplate
    <2> QED BY <2>1, RefusedIsOk DEF Errors, StoreErrors, Stores
  <1>3. CASE d.templates[id] # None
    <2>1. out = Ok(e)
      BY <1>3 DEF WriteTemplate, PgDeleteTemplate
    <2>2. /\ inbounds \in Table(InboundIds, InboundRow)
          /\ Live(inbounds) = Live(d.inbounds)
          /\ \A i \in Live(inbounds) : /\ inbounds[i].node = d.inbounds[i].node
                                       /\ inbounds[i].name = d.inbounds[i].name
                                       /\ inbounds[i].port = d.inbounds[i].port
          /\ \A i \in InboundIds : inbounds[i] # None <=> d.inbounds[i] # None
      <3>1. \A i \in InboundIds :
               /\ d.inbounds[i] # None =>
                    /\ inbounds[i] \in InboundRow
                    /\ inbounds[i].node = d.inbounds[i].node
                    /\ inbounds[i].name = d.inbounds[i].name
                    /\ inbounds[i].port = d.inbounds[i].port
               /\ d.inbounds[i] = None => inbounds[i] = None
        BY <1>1 DEF Table, InboundRow
      <3> HIDE DEF inbounds
      <3>2. DOMAIN inbounds = InboundIds /\ inbounds = [i \in InboundIds |-> inbounds[i]]
        BY DEF inbounds
      <3> QED BY <1>1, <3>1, <3>2, NoneIsNothing DEF Table, Live
    <2> HIDE DEF inbounds
    <2>3. /\ e \in Db("pg") /\ e.templates = [d.templates EXCEPT ![id] = None]
          /\ e.inbounds = inbounds
          /\ SameBut(d, e, {"templates", "inbounds"})
      BY <1>1, <2>2 DEF Db, SameBut, Table
    <2>4. /\ e.nodes = d.nodes /\ e.users = d.users /\ e.credentials = d.credentials
          /\ e.plans = d.plans /\ e.hosts = d.hosts /\ e.endpoints = d.endpoints
      BY <1>1, <2>3 DEF Db, SameBut
    <2> HIDE DEF e
    <2>5. /\ \A i \in Live(e.templates) : i \in Live(d.templates)
                                          /\ e.templates[i] = d.templates[i]
          /\ There(d, "template", id) /\ ~There(e, "template", id)
      BY <1>1, <1>3, <2>3 DEF Live, Table, There, Rows
    <2>6. EndpointsThere("pg", e)
      <3>1. \A h \in Live(d.hosts) : /\ Endpoints("pg", e, h) = Endpoints("pg", d, h)
                                     /\ \A k \in DOMAIN Endpoints("pg", d, h) :
                                          Endpoints("pg", d, h)[k].inbound \in InboundIds
        BY <1>1, <2>4, HostsLeft, EndpointTypes DEF Stores
      <3> QED BY <1>1, <2>2, <2>3, <2>4, <3>1 DEF EndpointsThere
    <2>7. NodesThere(e)
      BY <1>1, <2>2, <2>3, <2>4 DEF NodesThere
    <2>8. PairsThere(e)
      <3>1. \A c \in Live(d.credentials) : d.credentials[c].inbound \in InboundIds
        BY <1>1, DbFields DEF Table, Live, CredentialRow
      <3> QED BY <1>1, <2>2, <2>3, <2>4, <3>1 DEF PairsThere
    <2>9. "template" \in Kinds /\ id \in Ids("template")
      BY DEF Kinds, Ids
    <2>10. WriteOk("pg", d, "template", "delete", id, row, Ok(e))
      BY <2>2, <2>3, <2>4, <2>5, <2>6, <2>7, <2>8, <2>9, PgShrunk
    <2> QED BY <2>1, <2>10
  <1> QED BY <1>2, <1>3

\* What is left when the credentials of users and inbounds are gone.
LEMMA CredentialsLeft ==
  ASSUME NEW d \in Db("pg"), NEW users, NEW inbounds
  PROVE  LET e == WithoutCredentials(d, users, inbounds) IN
         /\ e \in Db("pg") /\ SameBut(d, e, {"credentials"})
         /\ \A c \in Live(e.credentials) :
               /\ c \in Live(d.credentials) /\ e.credentials[c] = d.credentials[c]
               /\ d.credentials[c].user \notin users /\ d.credentials[c].inbound \notin inbounds
  <1> DEFINE left == [id \in CredentialIds |->
                        IF id \in Live(d.credentials)
                             /\ (d.credentials[id].user \in users
                                   \/ d.credentials[id].inbound \in inbounds)
                        THEN None ELSE d.credentials[id]]
             e == [d EXCEPT !.credentials = left]
  <1>1. WithoutCredentials(d, users, inbounds) = e
    BY DEF WithoutCredentials
  <1>2. d.credentials \in Table(CredentialIds, CredentialRow)
    BY DbFields
  <1>3. /\ left \in Table(CredentialIds, CredentialRow)
        /\ \A c \in Live(left) :
               /\ c \in Live(d.credentials) /\ left[c] = d.credentials[c]
               /\ d.credentials[c].user \notin users /\ d.credentials[c].inbound \notin inbounds
    BY <1>2 DEF Table, Live
  <1> HIDE DEF left
  <1>4. e \in Db("pg") /\ SameBut(d, e, {"credentials"}) /\ e.credentials = left
    BY <1>3 DEF Db, SameBut
  <1> HIDE DEF e
  <1> QED BY <1>1, <1>3, <1>4

LEMMA UserPgDeleteOk ==
  ASSUME NEW d, CatalogOk("pg", d), NEW id \in UserIds, NEW row
  PROVE  WriteOk("pg", d, "user", "delete", id, row, WriteUser("pg", d, "delete", id, row))
  <1> DEFINE out == WriteUser("pg", d, "delete", id, row)
             w == WithoutCredentials(d, {id}, {})
             e == [w EXCEPT !.users[id] = None]
  <1>1. /\ d \in Db("pg") /\ d.users \in Table(UserIds, UserRow)
        /\ EndpointsThere("pg", d) /\ NodesThere(d) /\ PairsThere(d)
    BY DbFields DEF CatalogOk, ForeignKeysHold
  <1>2. CASE d.users[id] = None
    <2>1. out = Refused(d, "notfound")
      BY <1>2 DEF WriteUser, PgDeleteUser
    <2> QED BY <2>1, RefusedIsOk DEF Errors, StoreErrors, Stores
  <1>3. CASE d.users[id] # None
    <2>1. out = Ok(e)
      BY <1>3 DEF WriteUser, PgDeleteUser
    <2>2. /\ w \in Db("pg") /\ SameBut(d, w, {"credentials"})
          /\ \A c \in Live(w.credentials) :
                /\ c \in Live(d.credentials) /\ w.credentials[c] = d.credentials[c]
                /\ d.credentials[c].user # id
      BY <1>1, CredentialsLeft
    <2> HIDE DEF w
    <2>3. /\ e \in Db("pg") /\ e.users = [d.users EXCEPT ![id] = None]
          /\ e.nodes = d.nodes /\ e.templates = d.templates /\ e.inbounds = d.inbounds
          /\ e.plans = d.plans /\ e.hosts = d.hosts /\ e.endpoints = d.endpoints
          /\ e.credentials = w.credentials
      BY <1>1, <2>2, ZenonT(40) DEF Db, SameBut, Table
    <2> HIDE DEF e
    <2>4. /\ \A i \in Live(e.users) : i \in Live(d.users) /\ e.users[i] = d.users[i]
          /\ There(d, "user", id) /\ ~There(e, "user", id)
      BY <1>1, <1>3, <2>3 DEF Live, Table, There, Rows
    <2>5. EndpointsThere("pg", e) /\ NodesThere(e)
      BY <1>1, <2>3, HostsLeft DEF EndpointsThere, NodesThere
    <2>6. PairsThere(e)
      BY <1>1, <2>2, <2>3 DEF PairsThere, Table
    <2>7. "user" \in Kinds /\ id \in Ids("user")
      BY DEF Kinds, Ids
    <2>8. WriteOk("pg", d, "user", "delete", id, row, Ok(e))
      BY <2>2, <2>3, <2>4, <2>5, <2>6, <2>7, PgShrunk, ZenonT(40)
    <2> QED BY <2>1, <2>8
  <1> QED BY <1>2, <1>3


LEMMA NodePgDeleteOk ==
  ASSUME NEW d, CatalogOk("pg", d), NEW id \in NodeIds, NEW row
  PROVE  WriteOk("pg", d, "node", "delete", id, row, WriteNode("pg", d, "delete", id, row))
  <1> DEFINE out == WriteNode("pg", d, "delete", id, row)
             gone == InboundsOf(d, id)
             w == WithoutCredentials(d, {}, gone)
             left == [inb \in InboundIds |-> IF inb \in gone THEN None ELSE d.inbounds[inb]]
             e == [w EXCEPT !.nodes[id] = None, !.inbounds = left]
  <1>1. /\ d \in Db("pg") /\ d.nodes \in Table(NodeIds, NodeRow)
        /\ d.inbounds \in Table(InboundIds, InboundRow)
        /\ d.endpoints \in [HostIds -> Seq(Endpoint)]
        /\ d.hosts \in Table(HostIds, StoredHost("pg"))
        /\ EndpointsThere("pg", d) /\ NodesThere(d) /\ PairsThere(d)
    BY DbFields DEF CatalogOk, ForeignKeysHold
  <1>2. CASE d.nodes[id] = None
    <2>1. out = Refused(d, "notfound")
      BY <1>2 DEF WriteNode, PgDeleteNode
    <2> QED BY <2>1, RefusedIsOk DEF Errors, StoreErrors, Stores
  <1>3. CASE d.nodes[id] # None /\ UsedByHost(d, id)
    <2>1. out = Refused(d, "other")
      BY <1>3 DEF WriteNode, PgDeleteNode
    <2> QED BY <2>1, RefusedIsOk DEF Errors, StoreErrors, Stores
  <1>4. CASE d.nodes[id] # None /\ ~UsedByHost(d, id)
    <2>1. out = Ok(e)
      BY <1>4 DEF WriteNode, PgDeleteNode
    <2>2. /\ w \in Db("pg") /\ SameBut(d, w, {"credentials"})
          /\ \A c \in Live(w.credentials) :
                /\ c \in Live(d.credentials) /\ w.credentials[c] = d.credentials[c]
                /\ d.credentials[c].inbound \notin gone
      BY <1>1, CredentialsLeft
    <2>3. \A i \in InboundIds : d.inbounds[i] # None =>
              (i \in gone <=> d.inbounds[i].node = id)
      BY <1>1 DEF InboundsOf, Live, Table
    <2>4. /\ left \in Table(InboundIds, InboundRow)
          /\ \A i \in Live(left) : i \in Live(d.inbounds) /\ left[i] = d.inbounds[i]
                                     /\ d.inbounds[i].node # id
          /\ \A i \in InboundIds : d.inbounds[i] # None /\ i \notin gone => left[i] # None
      BY <1>1, <2>3 DEF Table, Live
    <2> HIDE DEF w, left
    <2>5. /\ e \in Db("pg") /\ e.nodes = [d.nodes EXCEPT ![id] = None] /\ e.inbounds = left
          /\ e.templates = d.templates /\ e.users = d.users /\ e.plans = d.plans
          /\ e.hosts = d.hosts /\ e.endpoints = d.endpoints
          /\ e.credentials = w.credentials
      BY <1>1, <2>2, <2>4, ZenonT(40) DEF Db, SameBut, Table
    <2> HIDE DEF e
    <2>6. /\ \A i \in Live(e.nodes) : i \in Live(d.nodes) /\ e.nodes[i] = d.nodes[i]
          /\ \A i \in NodeIds : i # id /\ d.nodes[i] # None => e.nodes[i] # None
          /\ There(d, "node", id) /\ ~There(e, "node", id)
      BY <1>1, <1>4, <2>5 DEF Live, Table, There, Rows
    <2>7. EndpointsThere("pg", e)
      <3>1. \A h \in Live(d.hosts) :
               Endpoints("pg", d, h) = d.endpoints[h] /\ h \in HostIds
        BY <1>1 DEF Endpoints, ReadHost, Live, Table
      <3>2. \A h \in Live(d.hosts) : \A k \in DOMAIN Endpoints("pg", d, h) :
               /\ Endpoints("pg", d, h)[k].node # id
               /\ Endpoints("pg", d, h)[k].inbound \notin gone
        BY <1>4, <3>1 DEF UsedByHost
      <3>3. \A h \in Live(d.hosts) : Endpoints("pg", e, h) = Endpoints("pg", d, h)
        BY <2>5, HostsLeft
      <3>4. \A h \in Live(d.hosts) : \A k \in DOMAIN Endpoints("pg", d, h) :
               /\ Endpoints("pg", d, h)[k].node \in NodeIds
               /\ Endpoints("pg", d, h)[k].inbound \in InboundIds
        BY <1>1, EndpointTypes DEF Stores
      <3> QED BY <1>1, <2>4, <2>5, <2>6, <3>2, <3>3, <3>4 DEF EndpointsThere
    <2>8. NodesThere(e)
      <3>1. \A i \in Live(d.inbounds) : d.inbounds[i].node \in NodeIds
        BY <1>1 DEF Table, Live, InboundRow
      <3> QED BY <1>1, <2>4, <2>5, <2>6, <3>1 DEF NodesThere
    <2>9. PairsThere(e)
      <3>1. \A c \in Live(d.credentials) : d.credentials[c].inbound \in InboundIds
        BY <1>1, DbFields DEF Table, Live, CredentialRow
      <3> QED BY <1>1, <2>2, <2>4, <2>5, <3>1 DEF PairsThere
    <2>10. "node" \in Kinds /\ id \in Ids("node")
      BY DEF Kinds, Ids
    <2>11. /\ \A i \in Live(e.inbounds) :
                 /\ i \in Live(d.inbounds) /\ e.inbounds[i].node = d.inbounds[i].node
                 /\ e.inbounds[i].name = d.inbounds[i].name /\ e.inbounds[i].port = d.inbounds[i].port
           /\ \A c \in Live(e.credentials) :
                 c \in Live(d.credentials) /\ e.credentials[c] = d.credentials[c]
      BY <2>2, <2>4, <2>5
    <2>12. WriteOk("pg", d, "node", "delete", id, row, Ok(e))
      BY <2>5, <2>6, <2>7, <2>8, <2>9, <2>10, <2>11, PgShrunk
    <2> QED BY <2>1, <2>12
  <1> QED BY <1>2, <1>3, <1>4

(* --- inbounds ---------------------------------------------------------- *)
LEMMA InboundPgDeleteOk ==
  ASSUME NEW d, CatalogOk("pg", d), NEW id \in InboundIds, NEW row
  PROVE  WriteOk("pg", d, "inbound", "delete", id, row, WriteInbound("pg", d, "delete", id, row))
  <1> DEFINE out == WriteInbound("pg", d, "delete", id, row)
             Used == \E h \in HostIds : \E k \in DOMAIN d.endpoints[h] :
                        d.endpoints[h][k].inbound = id
             w == WithoutCredentials(d, {}, {id})
             e == [w EXCEPT !.inbounds[id] = None]
  <1>1. /\ d \in Db("pg") /\ d.inbounds \in Table(InboundIds, InboundRow)
        /\ d.endpoints \in [HostIds -> Seq(Endpoint)]
        /\ d.hosts \in Table(HostIds, StoredHost("pg"))
        /\ EndpointsThere("pg", d) /\ NodesThere(d) /\ PairsThere(d)
    BY DbFields DEF CatalogOk, ForeignKeysHold
  <1>2. CASE d.inbounds[id] = None \/ Used
    <2>1. PICK err \in {"notfound", "other"} : out = Refused(d, err)
      BY <1>2 DEF WriteInbound, PgDeleteInbound
    <2> QED BY <2>1, RefusedIsOk DEF Errors, StoreErrors, Stores
  <1>3. CASE d.inbounds[id] # None /\ ~Used
    <2>1. out = Ok(e)
      BY <1>3 DEF WriteInbound, PgDeleteInbound
    <2>2. /\ w \in Db("pg") /\ SameBut(d, w, {"credentials"})
          /\ \A c \in Live(w.credentials) :
                /\ c \in Live(d.credentials) /\ w.credentials[c] = d.credentials[c]
                /\ d.credentials[c].inbound # id
      BY <1>1, CredentialsLeft
    <2> HIDE DEF w
    <2>3. /\ e \in Db("pg") /\ e.inbounds = [d.inbounds EXCEPT ![id] = None]
          /\ e.nodes = d.nodes /\ e.templates = d.templates /\ e.users = d.users
          /\ e.plans = d.plans /\ e.hosts = d.hosts /\ e.endpoints = d.endpoints
          /\ e.credentials = w.credentials
      BY <1>1, <2>2, ZenonT(40) DEF Db, SameBut, Table
    <2> HIDE DEF e
    <2>4. /\ \A i \in Live(e.inbounds) : i \in Live(d.inbounds) /\ e.inbounds[i] = d.inbounds[i]
          /\ \A i \in InboundIds : i # id /\ d.inbounds[i] # None => e.inbounds[i] # None
          /\ There(d, "inbound", id) /\ ~There(e, "inbound", id)
      BY <1>1, <1>3, <2>3 DEF Live, Table, There, Rows
    <2>5. EndpointsThere("pg", e)
      <3>1. \A h \in Live(d.hosts) :
               Endpoints("pg", d, h) = d.endpoints[h] /\ h \in HostIds
        BY <1>1 DEF Endpoints, ReadHost, Live, Table
      <3>2. \A h \in Live(d.hosts) : \A k \in DOMAIN Endpoints("pg", d, h) :
               Endpoints("pg", d, h)[k].inbound # id
        BY <1>3, <3>1
      <3>3. \A h \in Live(d.hosts) : Endpoints("pg", e, h) = Endpoints("pg", d, h)
        BY <2>3, HostsLeft
      <3>4. \A h \in Live(d.hosts) : \A k \in DOMAIN Endpoints("pg", d, h) :
               Endpoints("pg", d, h)[k].inbound \in InboundIds
        BY <1>1, EndpointTypes DEF Stores
      <3> QED BY <1>1, <2>3, <2>4, <3>2, <3>3, <3>4 DEF EndpointsThere
    <2>6. NodesThere(e)
      BY <1>1, <2>3, <2>4 DEF NodesThere
    <2>7. PairsThere(e)
      <3>1. \A c \in Live(d.credentials) : d.credentials[c].inbound \in InboundIds
        BY <1>1, DbFields DEF Table, Live, CredentialRow
      <3> QED BY <1>1, <2>2, <2>3, <2>4, <3>1 DEF PairsThere
    <2>8. "inbound" \in Kinds /\ id \in Ids("inbound")
      BY DEF Kinds, Ids
    <2>9. WriteOk("pg", d, "inbound", "delete", id, row, Ok(e))
      <3>1. /\ \A i \in Live(e.nodes) : i \in Live(d.nodes) /\ e.nodes[i] = d.nodes[i]
            /\ \A i \in Live(e.templates) :
                  i \in Live(d.templates) /\ e.templates[i] = d.templates[i]
            /\ \A i \in Live(e.users) : i \in Live(d.users) /\ e.users[i] = d.users[i]
        BY <2>3
      <3>2. \A i \in Live(e.credentials) :
               i \in Live(d.credentials) /\ e.credentials[i] = d.credentials[i]
        BY <2>2, <2>3
      <3>3. \A i \in Live(e.inbounds) :
               /\ i \in Live(d.inbounds) /\ e.inbounds[i].node = d.inbounds[i].node
               /\ e.inbounds[i].name = d.inbounds[i].name
               /\ e.inbounds[i].port = d.inbounds[i].port
        BY <2>4
      <3>4. /\ e \in Db("pg") /\ There(d, "inbound", id) /\ ~There(e, "inbound", id)
            /\ e.plans = d.plans /\ e.hosts = d.hosts /\ e.endpoints = d.endpoints
        BY <2>3, <2>4
      <3> QED BY <2>5, <2>6, <2>7, <2>8, <3>1, <3>2, <3>3, <3>4, PgShrunk, ZenonT(40)
    <2> QED BY <2>1, <2>9
  <1> QED BY <1>2, <1>3

LEMMA PortTypes ==
  ASSUME NEW s \in Stores, NEW d \in Db(s)
  PROVE  /\ d.inbounds \in Table(InboundIds, InboundRow)
         /\ d.inboundByPort \in Table(NodeIds \X Ports, InboundIds)
         /\ None \notin InboundIds /\ None \notin InboundRow
         /\ Live(d.inbounds) \subseteq InboundIds
         /\ \A i \in Live(d.inbounds) : d.inbounds[i] \in InboundRow
         /\ \A row \in InboundRow : PortKey(row) \in NodeIds \X Ports
  <1>1. /\ d.inbounds \in Table(InboundIds, InboundRow)
        /\ d.inboundByPort \in Table(NodeIds \X Ports, InboundIds)
    BY DbFields
  <1>2. \A row \in InboundRow : PortKey(row) \in NodeIds \X Ports
    BY DEF InboundRow, PortKey
  <1> QED BY <1>1, <1>2, NoneIsNothing DEF Table, Live

LEMMA PortInserted ==
  ASSUME NEW s \in Stores, NEW d \in Db(s), InboundKeysHold(s, d),
         NEW id \in InboundIds, NEW new \in InboundRow, d.inbounds[id] = None,
         s = "memory" => d.inboundByPort[PortKey(new)] = None,
         s = "pg" => ~KeyTaken(d, id, new),
         NEW e \in Db(s), e.inbounds = [d.inbounds EXCEPT ![id] = new],
         s = "memory" => e.inboundByPort = [d.inboundByPort EXCEPT ![PortKey(new)] = id]
  PROVE  InboundKeysHold(s, e)
  <1>1. /\ d.inbounds \in Table(InboundIds, InboundRow)
        /\ d.inboundByPort \in Table(NodeIds \X Ports, InboundIds)
        /\ None \notin InboundIds /\ None \notin InboundRow
        /\ Live(d.inbounds) \subseteq InboundIds
        /\ \A i \in Live(d.inbounds) : d.inbounds[i] \in InboundRow
        /\ \A row \in InboundRow : PortKey(row) \in NodeIds \X Ports
    BY PortTypes
  <1>2. /\ e.inbounds[id] = new
        /\ \A i \in InboundIds : i # id => e.inbounds[i] = d.inbounds[i]
        /\ Live(e.inbounds) = Live(d.inbounds) \cup {id}
        /\ id \notin Live(d.inbounds)
    BY <1>1 DEF Table, Live
  <1>3. \A i \in Live(d.inbounds) : PortKey(d.inbounds[i]) # PortKey(new)
    <2>1. CASE s = "memory"
      BY <2>1, <1>1 DEF InboundKeysHold, Inverts, Table
    <2>2. CASE s = "pg"
      BY <2>2, <1>2 DEF KeyTaken
    <2> QED BY <2>1, <2>2 DEF Stores
  <1>4. s = "pg" => \A i \in Live(d.inbounds) : NameKey(d.inbounds[i]) # NameKey(new)
    BY <1>2 DEF KeyTaken
  <1>5. \A a, b \in Live(e.inbounds) : PortKey(e.inbounds[a]) = PortKey(e.inbounds[b]) => a = b
    BY <1>1, <1>2, <1>3 DEF InboundKeysHold
  <1>6. s = "pg" => \A a, b \in Live(e.inbounds) :
                       NameKey(e.inbounds[a]) = NameKey(e.inbounds[b]) => a = b
    BY <1>1, <1>2, <1>4 DEF InboundKeysHold
  <1>7. s = "memory" => Inverts(e.inboundByPort, e.inbounds, PortKey)
    BY <1>1, <1>2, <1>3 DEF InboundKeysHold, Inverts, Table
  <1> QED BY <1>5, <1>6, <1>7 DEF InboundKeysHold

LEMMA PortMoved ==
  ASSUME NEW s \in Stores, NEW d \in Db(s), InboundKeysHold(s, d),
         NEW id \in InboundIds, NEW new \in InboundRow, d.inbounds[id] # None,
         s = "memory" => \/ PortKey(new) = PortKey(d.inbounds[id])
                         \/ d.inboundByPort[PortKey(new)] = None,
         s = "pg" => ~KeyTaken(d, id, new),
         NEW e \in Db(s), e.inbounds = [d.inbounds EXCEPT ![id] = new],
         s = "memory" => e.inboundByPort = [d.inboundByPort EXCEPT
                              ![PortKey(d.inbounds[id])] = None, ![PortKey(new)] = id]
  PROVE  InboundKeysHold(s, e)
  <1>1. /\ d.inbounds \in Table(InboundIds, InboundRow)
        /\ d.inboundByPort \in Table(NodeIds \X Ports, InboundIds)
        /\ None \notin InboundIds /\ None \notin InboundRow
        /\ Live(d.inbounds) \subseteq InboundIds
        /\ \A i \in Live(d.inbounds) : d.inbounds[i] \in InboundRow
        /\ \A row \in InboundRow : PortKey(row) \in NodeIds \X Ports
    BY PortTypes
  <1>2. /\ e.inbounds[id] = new
        /\ \A i \in InboundIds : i # id => e.inbounds[i] = d.inbounds[i]
        /\ Live(e.inbounds) = Live(d.inbounds)
        /\ id \in Live(d.inbounds)
    BY <1>1 DEF Table, Live
  <1>3. \A i \in Live(d.inbounds) \ {id} : PortKey(d.inbounds[i]) # PortKey(new)
    <2>1. CASE s = "memory"
      <3>1. Inverts(d.inboundByPort, d.inbounds, PortKey)
        BY <2>1 DEF InboundKeysHold
      <3>2. CASE PortKey(new) = PortKey(d.inbounds[id])
        BY <3>2, <1>2 DEF InboundKeysHold
      <3>3. CASE d.inboundByPort[PortKey(new)] = None
        BY <3>1, <3>3, <1>1 DEF Inverts, Table
      <3> QED BY <2>1, <3>2, <3>3
    <2>2. CASE s = "pg"
      BY <2>2 DEF KeyTaken
    <2> QED BY <2>1, <2>2 DEF Stores
  <1>4. s = "pg" => \A i \in Live(d.inbounds) \ {id} : NameKey(d.inbounds[i]) # NameKey(new)
    BY DEF KeyTaken
  <1>5. \A a, b \in Live(e.inbounds) : PortKey(e.inbounds[a]) = PortKey(e.inbounds[b]) => a = b
    BY <1>1, <1>2, <1>3 DEF InboundKeysHold
  <1>6. s = "pg" => \A a, b \in Live(e.inbounds) :
                       NameKey(e.inbounds[a]) = NameKey(e.inbounds[b]) => a = b
    BY <1>1, <1>2, <1>4 DEF InboundKeysHold
  <1>7. ASSUME s = "memory" PROVE Inverts(e.inboundByPort, e.inbounds, PortKey)
    <2> DEFINE old == PortKey(d.inbounds[id])
               now == PortKey(new)
    <2>1. /\ e.inboundByPort = [d.inboundByPort EXCEPT ![old] = None, ![now] = id]
          /\ old \in NodeIds \X Ports /\ now \in NodeIds \X Ports
          /\ Inverts(d.inboundByPort, d.inbounds, PortKey)
          /\ \A i \in Live(d.inbounds) : PortKey(d.inbounds[i]) = old => i = id
      BY <1>1, <1>2, <1>7 DEF InboundKeysHold
    <2>2. PortKey(e.inbounds[id]) = now
      BY <1>2
    <2> HIDE DEF old, now
    <2>3. SUFFICES ASSUME NEW key \in NodeIds \X Ports
                   PROVE  LET inb == e.inboundByPort[key] IN
                          \/ inb = None /\ \A i \in Live(e.inbounds) : PortKey(e.inbounds[i]) # key
                          \/ inb \in Live(e.inbounds) /\ PortKey(e.inbounds[inb]) = key
      BY <1>1, <2>1 DEF Inverts, Table
    <2>4. CASE key = now
      BY <2>4, <2>1, <2>2, <1>1, <1>2 DEF Table
    <2>5. CASE key # now /\ key = old
      BY <2>5, <2>1, <2>2, <1>1, <1>2 DEF Table
    <2>6. CASE key # now /\ key # old
      <3>1. e.inboundByPort[key] = d.inboundByPort[key]
        BY <2>6, <2>1, <1>1 DEF Table
      <3>2. \/ d.inboundByPort[key] = None /\ \A i \in Live(d.inbounds) : PortKey(d.inbounds[i]) # key
            \/ /\ d.inboundByPort[key] \in Live(d.inbounds)
               /\ PortKey(d.inbounds[d.inboundByPort[key]]) = key
        BY <2>1, <1>1 DEF Inverts, Table
      <3>3. PortKey(d.inbounds[id]) = old
        BY DEF old
      <3> QED BY <2>6, <3>1, <3>2, <3>3, <2>2, <1>1, <1>2
    <2> QED BY <2>4, <2>5, <2>6
  <1> QED BY <1>5, <1>6, <1>7 DEF InboundKeysHold

LEMMA PortRemoved ==
  ASSUME NEW d \in Db("memory"), InboundKeysHold("memory", d),
         NEW id \in InboundIds, d.inbounds[id] # None,
         NEW e \in Db("memory"), e.inbounds = [d.inbounds EXCEPT ![id] = None],
         e.inboundByPort = [d.inboundByPort EXCEPT ![PortKey(d.inbounds[id])] = None]
  PROVE  InboundKeysHold("memory", e)
  <1>1. /\ d.inbounds \in Table(InboundIds, InboundRow)
        /\ d.inboundByPort \in Table(NodeIds \X Ports, InboundIds)
        /\ None \notin InboundIds /\ None \notin InboundRow
        /\ Live(d.inbounds) \subseteq InboundIds
        /\ \A i \in Live(d.inbounds) : d.inbounds[i] \in InboundRow
        /\ \A row \in InboundRow : PortKey(row) \in NodeIds \X Ports
    BY PortTypes DEF Stores
  <1>2. /\ \A i \in InboundIds : i # id => e.inbounds[i] = d.inbounds[i]
        /\ Live(e.inbounds) = Live(d.inbounds) \ {id}
        /\ id \in Live(d.inbounds)
    BY <1>1 DEF Table, Live
  <1>3. /\ Inverts(d.inboundByPort, d.inbounds, PortKey)
        /\ \A a, b \in Live(d.inbounds) : PortKey(d.inbounds[a]) = PortKey(d.inbounds[b]) => a = b
    BY DEF InboundKeysHold
  <1>4. \A a, b \in Live(e.inbounds) : PortKey(e.inbounds[a]) = PortKey(e.inbounds[b]) => a = b
    BY <1>1, <1>2, <1>3
  <1>5. Inverts(e.inboundByPort, e.inbounds, PortKey)
    BY <1>1, <1>2, <1>3 DEF Inverts, Table
  <1> QED BY <1>4, <1>5 DEF InboundKeysHold

\* A create or an update of an inbound, and a delete in a memory store.
LEMMA InboundWritten ==
  ASSUME NEW s \in Stores, NEW d, CatalogOk(s, d), NEW id \in InboundIds, NEW op \in Ops, NEW row,
         NEW e \in Db(s), SameBut(d, e, {"inbounds", "inboundByName", "inboundByPort"}),
         InboundKeysHold(s, e),
         \A i \in InboundIds : i # id => e.inbounds[i] = d.inbounds[i],
         d.inbounds[id] # None <=> op # "create",
         e.inbounds[id] # None <=> op # "delete",
         op = "update" => e.inbounds[id].node = d.inbounds[id].node,
         s = "pg" => op # "delete",
         s = "pg" /\ op = "create" => d.nodes[e.inbounds[id].node] # None
  PROVE  WriteOk(s, d, "inbound", op, id, row, Ok(e))
  <1>1. /\ d \in Db(s) /\ KeysHold(s, d) /\ ForeignKeysHold(s, d)
        /\ d.inbounds \in Table(InboundIds, InboundRow)
        /\ e.inbounds \in Table(InboundIds, InboundRow)
    BY DbFields DEF CatalogOk
  <1>2. /\ e.nodes = d.nodes /\ e.templates = d.templates /\ e.users = d.users
        /\ e.plans = d.plans /\ e.hosts = d.hosts /\ e.endpoints = d.endpoints
        /\ e.credentials = d.credentials /\ e.hostByRemark = d.hostByRemark
        /\ e.nodeByName = d.nodeByName /\ e.templateByName = d.templateByName
        /\ e.planByName = d.planByName /\ e.userByName = d.userByName
        /\ e.credsOfUser = d.credsOfUser /\ e.credsOfInbound = d.credsOfInbound
    BY <1>1 DEF Db, SameBut
  <1>3. KeysHold(s, e)
    BY <1>1, <1>2, RemarksLeft, PairsLeft DEF KeysHold
  <1>4. RowEffect(d, e, "inbound", op, id, "none")
    <2>1. \A K \in Kinds \ {"inbound"} : Rows(e, K) = Rows(d, K)
      BY <1>2 DEF Kinds, Rows
    <2>2. /\ Rows(d, "inbound") = d.inbounds /\ Rows(e, "inbound") = e.inbounds
          /\ Ids("inbound") = InboundIds
      BY RowsOfKinds
    <2> QED BY <2>1, <2>2, OneRowEffect DEF There, Kinds
  <1>5. ForeignKeysHold(s, e)
    <2> SUFFICES ASSUME s = "pg"
                 PROVE  EndpointsThere(s, e) /\ NodesThere(e) /\ PairsThere(e)
      BY DEF ForeignKeysHold
    <2>1. EndpointsThere(s, d) /\ NodesThere(d) /\ PairsThere(d)
      BY <1>1 DEF ForeignKeysHold
    <2>2. \A i \in InboundIds : d.inbounds[i] # None => e.inbounds[i] # None
      OBVIOUS
    <2>3. EndpointsThere(s, e)
      <3>1. \A h \in Live(d.hosts) : Endpoints(s, e, h) = Endpoints(s, d, h)
        BY <1>2, HostsLeft
      <3>2. \A h \in Live(d.hosts) : \A k \in DOMAIN Endpoints(s, d, h) :
                  Endpoints(s, d, h)[k].inbound \in InboundIds
        BY <1>1, EndpointTypes
      <3> QED BY <1>2, <2>1, <2>2, <3>1, <3>2 DEF EndpointsThere
    <2>4. NodesThere(e)
      <3>1. \A i \in Live(e.inbounds) : i \in InboundIds /\ (i # id => i \in Live(d.inbounds))
        BY <1>1 DEF Table, Live
      <3>2. op # "create" => id \in Live(d.inbounds)
        BY <1>1 DEF Table, Live
      <3>3. \A i \in Live(e.inbounds) : i # id => d.nodes[e.inbounds[i].node] # None
        BY <2>1, <3>1 DEF NodesThere
      <3>4. op = "create" => d.nodes[e.inbounds[id].node] # None
        OBVIOUS
      <3>5. op = "update" => d.nodes[e.inbounds[id].node] # None
        BY <2>1, <3>2 DEF NodesThere
      <3> QED BY <1>2, <3>3, <3>4, <3>5 DEF NodesThere, Ops, Live
    <2>5. PairsThere(e)
      <3>1. \A c \in Live(d.credentials) : d.credentials[c].inbound \in InboundIds
        BY <1>1, DbFields DEF Table, Live, CredentialRow
      <3> QED BY <1>2, <2>1, <2>2, <3>1 DEF PairsThere
    <2> QED BY <2>3, <2>4, <2>5
  <1>6. InboundsStay(d, e)
    BY RowsOfKinds DEF InboundsStay, There, Ops
  <1>7. HostEffect(s, d, e, "inbound", op, id, row)
    BY <1>2, HostsLeft
  <1> QED BY <1>3, <1>4, <1>5, <1>6, <1>7 DEF WriteOk, CatalogOk, Ok, Errors, StoreErrors

LEMMA PgInboundRow ==
  ASSUME NEW row \in InboundRow
  PROVE  /\ PgInbound(row) \in InboundRow
         /\ PgInbound(row).node = row.node
         /\ NameKey(PgInbound(row)) = NameKey(row)
         /\ PortKey(PgInbound(row)) = PortKey(row)
BY DEF PgInbound, InboundRow, NameKey, PortKey

\* The name index of a memory store is all that a rename moves.
LEMMA RenamedIndex ==
  ASSUME NEW d \in Db("memory"), NEW id \in InboundIds,
         NEW old \in InboundRow, NEW new \in InboundRow
  PROVE  /\ Renamed(d, id, old, new) \in Db("memory")
         /\ SameBut(d, Renamed(d, id, old, new), {"inboundByName"})
  <1>1. /\ d.inboundByName \in Table(NodeIds \X Names, InboundIds)
        /\ NameKey(old) \in NodeIds \X Names /\ NameKey(new) \in NodeIds \X Names
    BY DbFields DEF InboundRow, NameKey
  <1>2. CASE NameKey(new) = NameKey(old)
    BY <1>2 DEF Renamed, SameBut
  <1>3. CASE NameKey(new) # NameKey(old)
    <2> DEFINE index == [d.inboundByName EXCEPT ![NameKey(old)] = None, ![NameKey(new)] = id]
    <2>1. index \in Table(NodeIds \X Names, InboundIds)
      BY <1>1 DEF Table
    <2>2. Renamed(d, id, old, new) = [d EXCEPT !.inboundByName = index]
      BY <1>3 DEF Renamed, Db
    <2> HIDE DEF index
    <2> QED BY <2>1, <2>2 DEF Db, SameBut
  <1> QED BY <1>2, <1>3

LEMMA InboundCreateOk ==
  ASSUME NEW s \in Stores, NEW d, CatalogOk(s, d), NEW id \in InboundIds, NEW row \in InboundRow
  PROVE  WriteOk(s, d, "inbound", "create", id, row, WriteInbound(s, d, "create", id, row))
  <1> DEFINE out == WriteInbound(s, d, "create", id, row)
             MemFree == /\ d.inboundByName[NameKey(row)] = None
                        /\ d.inboundByPort[PortKey(row)] = None
                        /\ d.inbounds[id] = None
             PgFree == /\ d.inbounds[id] = None /\ ~KeyTaken(d, id, row)
                       /\ d.nodes[row.node] # None
  <1>1. /\ d \in Db(s) /\ d.inbounds \in Table(InboundIds, InboundRow)
        /\ d.inboundByName \in Table(NodeIds \X Names, InboundIds)
        /\ d.inboundByPort \in Table(NodeIds \X Ports, InboundIds)
        /\ NameKey(row) \in NodeIds \X Names /\ PortKey(row) \in NodeIds \X Ports
        /\ InboundKeysHold(s, d) /\ None \notin InboundRow
    BY DbFields, NoneIsNothing DEF CatalogOk, KeysHold, InboundRow, NameKey, PortKey
  <1>2. CASE s = "memory" /\ MemFree
    <2> DEFINE e == [d EXCEPT !.inbounds[id] = row, !.inboundByName[NameKey(row)] = id,
                              !.inboundByPort[PortKey(row)] = id]
    <2>1. out = Ok(e)
      BY <1>2 DEF WriteInbound, MemCreateInbound
    <2>2. /\ e \in Db(s) /\ e.inbounds = [d.inbounds EXCEPT ![id] = row]
          /\ e.inboundByPort = [d.inboundByPort EXCEPT ![PortKey(row)] = id]
          /\ SameBut(d, e, {"inbounds", "inboundByName", "inboundByPort"})
      BY <1>1 DEF Db, SameBut, Table
    <2> HIDE DEF e
    <2>3. InboundKeysHold(s, e)
      BY <1>1, <1>2, <2>2, PortInserted, SMTT(30)
    <2>4. e.inbounds[id] = row /\ \A i \in InboundIds : i # id => e.inbounds[i] = d.inbounds[i]
      BY <1>1, <2>2 DEF Table
    <2>5. WriteOk(s, d, "inbound", "create", id, row, Ok(e))
      BY <1>1, <1>2, <2>2, <2>3, <2>4, InboundWritten DEF Ops
    <2> QED BY <2>1, <2>5
  <1>3. CASE s = "pg" /\ PgFree
    <2> DEFINE e == [d EXCEPT !.inbounds[id] = PgInbound(row)]
    <2>1. out = Ok(e)
      BY <1>3 DEF WriteInbound, PgCreateInbound
    <2>2. /\ PgInbound(row) \in InboundRow /\ PgInbound(row).node = row.node
          /\ ~KeyTaken(d, id, PgInbound(row))
      BY <1>3, PgInboundRow DEF KeyTaken
    <2>3. /\ e \in Db(s) /\ e.inbounds = [d.inbounds EXCEPT ![id] = PgInbound(row)]
          /\ SameBut(d, e, {"inbounds", "inboundByName", "inboundByPort"})
      BY <1>1, <2>2 DEF Db, SameBut, Table
    <2> HIDE DEF e
    <2>4. InboundKeysHold(s, e)
      <3> DEFINE new == PgInbound(row)
      <3>1. /\ new \in InboundRow /\ ~KeyTaken(d, id, new)
            /\ e.inbounds = [d.inbounds EXCEPT ![id] = new]
        BY <2>2, <2>3
      <3>2. s # "memory" /\ d.inbounds[id] = None
        BY <1>3
      <3> HIDE DEF new
      <3>3. /\ s = "memory" => d.inboundByPort[PortKey(new)] = None
            /\ s = "memory" => e.inboundByPort = [d.inboundByPort EXCEPT ![PortKey(new)] = id]
            /\ s = "pg" => ~KeyTaken(d, id, new)
        BY <3>1, <3>2
      <3> QED BY <1>1, <2>3, <3>1, <3>2, <3>3, PortInserted
    <2>5. /\ e.inbounds[id] = PgInbound(row)
          /\ \A i \in InboundIds : i # id => e.inbounds[i] = d.inbounds[i]
      BY <1>1, <2>3 DEF Table
    <2>6. WriteOk(s, d, "inbound", "create", id, row, Ok(e))
      BY <1>1, <1>3, <2>2, <2>3, <2>4, <2>5, InboundWritten DEF Ops
    <2> QED BY <2>1, <2>6
  <1>4. CASE ~(s = "memory" /\ MemFree) /\ ~(s = "pg" /\ PgFree)
    <2>1. PICK err \in {"duplicate", "other"} : out = Refused(d, err)
      BY <1>4 DEF WriteInbound, MemCreateInbound, PgCreateInbound, Stores
    <2> QED BY <2>1, RefusedIsOk DEF Errors, StoreErrors
  <1> QED BY <1>2, <1>3, <1>4

\* A rename that is refused for its port leaves the name index moved.
LEMMA RefusedRename ==
  ASSUME NEW d, CatalogOk("memory", d), NEW id \in InboundIds, NEW row,
         NEW e \in Db("memory"), SameBut(d, e, {"inboundByName"})
  PROVE  WriteOk("memory", d, "inbound", "update", id, row, Refused(e, "duplicate"))
  <1>1. d \in Db("memory") /\ KeysHold("memory", d)
    BY DEF CatalogOk
  <1>2. /\ e.nodes = d.nodes /\ e.templates = d.templates /\ e.users = d.users
        /\ e.inbounds = d.inbounds /\ e.inboundByPort = d.inboundByPort
        /\ e.plans = d.plans /\ e.hosts = d.hosts /\ e.endpoints = d.endpoints
        /\ e.credentials = d.credentials /\ e.hostByRemark = d.hostByRemark
        /\ e.nodeByName = d.nodeByName /\ e.templateByName = d.templateByName
        /\ e.planByName = d.planByName /\ e.userByName = d.userByName
        /\ e.credsOfUser = d.credsOfUser /\ e.credsOfInbound = d.credsOfInbound
    BY <1>1 DEF Db, SameBut
  <1>3. KeysHold("memory", e)
    BY <1>1, <1>2, RemarksLeft, PairsLeft, PortsLeft DEF KeysHold
  <1>4. CatalogOk("memory", e)
    BY <1>3 DEF CatalogOk, ForeignKeysHold
  <1>5. \A K \in Kinds : Rows(e, K) = Rows(d, K)
    BY <1>2 DEF Kinds, Rows
  <1>6. RowEffect(d, e, "inbound", "update", id, "duplicate")
    BY <1>5 DEF RowEffect, There
  <1>7. InboundsStay(d, e)
    BY <1>2 DEF InboundsStay
  <1>8. HostEffect("memory", d, e, "inbound", "update", id, row)
    BY <1>2, HostsLeft
  <1> QED BY <1>4, <1>6, <1>7, <1>8 DEF WriteOk, Refused, Errors, StoreErrors

\* The node of an inbound never changes: what an update writes back has the
\* node it read.
LEMMA InboundUpdateOk ==
  ASSUME NEW s \in Stores, NEW d, CatalogOk(s, d), NEW id \in InboundIds, NEW row \in InboundRow,
         There(d, "inbound", id) => row.node = d.inbounds[id].node
  PROVE  WriteOk(s, d, "inbound", "update", id, row, WriteInbound(s, d, "update", id, row))
  <1> DEFINE out == WriteInbound(s, d, "update", id, row)
             old == d.inbounds[id]
             nameTaken == NameKey(row) # NameKey(old) /\ d.inboundByName[NameKey(row)] # None
             portTaken == PortKey(row) # PortKey(old) /\ d.inboundByPort[PortKey(row)] # None
  <1>1. /\ d \in Db(s) /\ d.inbounds \in Table(InboundIds, InboundRow)
        /\ d.inboundByPort \in Table(NodeIds \X Ports, InboundIds)
        /\ PortKey(row) \in NodeIds \X Ports
        /\ InboundKeysHold(s, d) /\ None \notin InboundRow
        /\ old # None => old \in InboundRow /\ row.node = old.node
        /\ old # None => PortKey(old) \in NodeIds \X Ports
    <2>1. There(d, "inbound", id) <=> old # None
      BY RowsOfKinds DEF There
    <2>2. /\ d \in Db(s) /\ d.inbounds \in Table(InboundIds, InboundRow)
          /\ d.inboundByPort \in Table(NodeIds \X Ports, InboundIds)
          /\ InboundKeysHold(s, d) /\ None \notin InboundRow
      BY DbFields, NoneIsNothing DEF CatalogOk, KeysHold
    <2>3. old # None => old \in InboundRow
      BY <2>2 DEF Table
    <2> QED BY <2>1, <2>2, <2>3 DEF InboundRow, PortKey
  <1>2. CASE old = None
    <2>1. out = Refused(d, "notfound")
      BY <1>2 DEF WriteInbound, MemUpdateInbound, PgUpdateInbound, Stores
    <2> QED BY <2>1, RefusedIsOk DEF Errors, StoreErrors
  <1>3. CASE s = "memory" /\ old # None /\ nameTaken
    <2>1. out = Refused(d, "duplicate")
      BY <1>3 DEF WriteInbound, MemUpdateInbound
    <2> QED BY <2>1, RefusedIsOk DEF Errors, StoreErrors
  <1>4. CASE s = "memory" /\ old # None /\ ~nameTaken /\ portTaken
    <2>1. out = Refused(Renamed(d, id, old, row), "duplicate")
      BY <1>4 DEF WriteInbound, MemUpdateInbound
    <2>2. /\ Renamed(d, id, old, row) \in Db("memory")
          /\ SameBut(d, Renamed(d, id, old, row), {"inboundByName"})
      BY <1>1, <1>4, RenamedIndex
    <2>3. WriteOk("memory", d, "inbound", "update", id, row,
                  Refused(Renamed(d, id, old, row), "duplicate"))
      BY <1>4, <2>2, RefusedRename
    <2> QED BY <1>4, <2>1, <2>3
  <1>5. CASE s = "memory" /\ old # None /\ ~nameTaken /\ ~portTaken
    <2> DEFINE moved == Renamed(d, id, old, row)
               e == [moved EXCEPT !.inbounds[id] = row, !.inboundByPort[PortKey(old)] = None,
                                  !.inboundByPort[PortKey(row)] = id]
    <2>1. out = Ok(e)
      BY <1>5 DEF WriteInbound, MemUpdateInbound
    <2>2. moved \in Db(s) /\ SameBut(d, moved, {"inboundByName"})
      BY <1>1, <1>5, RenamedIndex
    <2> HIDE DEF moved
    <2>3. moved.inbounds = d.inbounds /\ moved.inboundByPort = d.inboundByPort
      BY <1>1, <2>2 DEF Db, SameBut
    <2>4. /\ [d.inbounds EXCEPT ![id] = row] \in Table(InboundIds, InboundRow)
          /\ [d.inboundByPort EXCEPT ![PortKey(old)] = None, ![PortKey(row)] = id]
                \in Table(NodeIds \X Ports, InboundIds)
      BY <1>1, <1>5 DEF Table
    <2>5. e = [moved EXCEPT !.inbounds = [d.inbounds EXCEPT ![id] = row],
                            !.inboundByPort = [d.inboundByPort EXCEPT ![PortKey(old)] = None,
                                                                      ![PortKey(row)] = id]]
      BY <2>2, <2>3 DEF Db
    <2>6. /\ e \in Db(s) /\ e.inbounds = [d.inbounds EXCEPT ![id] = row]
          /\ e.inboundByPort = [d.inboundByPort EXCEPT ![PortKey(old)] = None, ![PortKey(row)] = id]
          /\ SameBut(moved, e, {"inbounds", "inboundByPort"})
      BY <2>2, <2>4, <2>5 DEF Db, SameBut
    <2> HIDE DEF e
    <2>7. SameBut(d, e, {"inbounds", "inboundByName", "inboundByPort"})
      BY <1>1, <2>2, <2>6 DEF Db, SameBut
    <2>8. InboundKeysHold(s, e)
      <3>1. PortKey(row) = PortKey(d.inbounds[id]) \/ d.inboundByPort[PortKey(row)] = None
        BY <1>5
      <3> QED BY <1>1, <1>5, <2>6, <3>1, PortMoved
    <2>9. e.inbounds[id] = row /\ \A i \in InboundIds : i # id => e.inbounds[i] = d.inbounds[i]
      BY <1>1, <2>6 DEF Table
    <2>10. WriteOk(s, d, "inbound", "update", id, row, Ok(e))
      BY <1>1, <1>5, <2>6, <2>7, <2>8, <2>9, InboundWritten DEF Ops
    <2> QED BY <2>1, <2>10
  <1>6. CASE s = "pg" /\ old # None /\ KeyTaken(d, id, row)
    <2>1. out = Refused(d, "duplicate")
      BY <1>6 DEF WriteInbound, PgUpdateInbound
    <2> QED BY <2>1, RefusedIsOk DEF Errors, StoreErrors
  <1>7. CASE s = "pg" /\ old # None /\ ~KeyTaken(d, id, row)
    <2> DEFINE e == [d EXCEPT !.inbounds[id] = PgInbound(row)]
    <2>1. out = Ok(e)
      BY <1>7 DEF WriteInbound, PgUpdateInbound
    <2>2. /\ PgInbound(row) \in InboundRow /\ PgInbound(row).node = row.node
          /\ ~KeyTaken(d, id, PgInbound(row))
      BY <1>7, PgInboundRow DEF KeyTaken
    <2>3. /\ e \in Db(s) /\ e.inbounds = [d.inbounds EXCEPT ![id] = PgInbound(row)]
          /\ SameBut(d, e, {"inbounds", "inboundByName", "inboundByPort"})
      BY <1>1, <2>2 DEF Db, SameBut, Table
    <2> HIDE DEF e
    <2>4. InboundKeysHold(s, e)
      <3> DEFINE new == PgInbound(row)
      <3>1. /\ new \in InboundRow /\ ~KeyTaken(d, id, new)
            /\ e.inbounds = [d.inbounds EXCEPT ![id] = new]
        BY <2>2, <2>3
      <3>2. s # "memory" /\ d.inbounds[id] # None
        BY <1>7
      <3> HIDE DEF new
      <3>3. /\ s = "memory" => \/ PortKey(new) = PortKey(d.inbounds[id])
                              \/ d.inboundByPort[PortKey(new)] = None
            /\ s = "memory" => e.inboundByPort = [d.inboundByPort EXCEPT
                                    ![PortKey(d.inbounds[id])] = None, ![PortKey(new)] = id]
            /\ s = "pg" => ~KeyTaken(d, id, new)
        BY <3>1, <3>2
      <3> QED BY <1>1, <2>3, <3>1, <3>2, <3>3, PortMoved
    <2>5. /\ e.inbounds[id] = PgInbound(row)
          /\ \A i \in InboundIds : i # id => e.inbounds[i] = d.inbounds[i]
      BY <1>1, <2>3 DEF Table
    <2>6. WriteOk(s, d, "inbound", "update", id, row, Ok(e))
      BY <1>1, <1>7, <2>2, <2>3, <2>4, <2>5, InboundWritten DEF Ops
    <2> QED BY <2>1, <2>6
  <1> QED BY <1>2, <1>3, <1>4, <1>5, <1>6, <1>7 DEF Stores

LEMMA InboundMemDeleteOk ==
  ASSUME NEW d, CatalogOk("memory", d), NEW id \in InboundIds, NEW row
  PROVE  WriteOk("memory", d, "inbound", "delete", id, row,
                 WriteInbound("memory", d, "delete", id, row))
  <1> DEFINE s == "memory"
             out == WriteInbound(s, d, "delete", id, row)
             old == d.inbounds[id]
  <1>1. /\ d \in Db(s) /\ d.inbounds \in Table(InboundIds, InboundRow)
        /\ d.inboundByName \in Table(NodeIds \X Names, InboundIds)
        /\ d.inboundByPort \in Table(NodeIds \X Ports, InboundIds)
        /\ InboundKeysHold(s, d) /\ s \in Stores
    BY DbFields DEF CatalogOk, KeysHold, Stores
  <1>2. CASE old = None
    <2>1. out = Refused(d, "notfound")
      BY <1>2 DEF WriteInbound, MemDeleteInbound
    <2> QED BY <1>1, <2>1, RefusedIsOk DEF Errors, StoreErrors
  <1>3. CASE old # None
    <2> DEFINE e == [d EXCEPT !.inbounds[id] = None, !.inboundByName[NameKey(old)] = None,
                              !.inboundByPort[PortKey(old)] = None]
    <2>1. out = Ok(e)
      BY <1>3 DEF WriteInbound, MemDeleteInbound
    <2>2. NameKey(old) \in NodeIds \X Names /\ PortKey(old) \in NodeIds \X Ports
      BY <1>1, <1>3 DEF Table, InboundRow, NameKey, PortKey
    <2>3. /\ e \in Db(s) /\ e.inbounds = [d.inbounds EXCEPT ![id] = None]
          /\ e.inboundByPort = [d.inboundByPort EXCEPT ![PortKey(old)] = None]
          /\ SameBut(d, e, {"inbounds", "inboundByName", "inboundByPort"})
      BY <1>1, <2>2 DEF Db, SameBut, Table
    <2> HIDE DEF e
    <2>4. InboundKeysHold(s, e)
      BY <1>1, <1>3, <2>3, PortRemoved
    <2>5. e.inbounds[id] = None /\ \A i \in InboundIds : i # id => e.inbounds[i] = d.inbounds[i]
      BY <1>1, <2>3 DEF Table
    <2>6. WriteOk(s, d, "inbound", "delete", id, row, Ok(e))
      <3> HIDE DEF s
      <3>1. s # "pg" /\ CatalogOk(s, d)
        BY DEF s
      <3> QED BY <1>1, <1>3, <2>3, <2>4, <2>5, <3>1, InboundWritten DEF Ops
    <2> QED BY <2>1, <2>6
  <1> QED BY <1>2, <1>3

(* --- credentials ------------------------------------------------------- *)
LEMMA CredentialTypes ==
  ASSUME NEW s \in Stores, NEW d, CatalogOk(s, d)
  PROVE  /\ d \in Db(s) /\ PairsHold(s, d)
         /\ d.credentials \in Table(CredentialIds, CredentialRow)
         /\ d.credsOfUser \in [UserIds -> SUBSET CredentialIds]
         /\ d.credsOfInbound \in [InboundIds -> SUBSET CredentialIds]
         /\ None \notin CredentialRow
         /\ Live(d.credentials) \subseteq CredentialIds
         /\ \A c \in Live(d.credentials) : /\ d.credentials[c] \in CredentialRow
                                           /\ d.credentials[c].user \in UserIds
                                           /\ d.credentials[c].inbound \in InboundIds
         /\ \A c \in CredentialIds : c \in Live(d.credentials) <=> d.credentials[c] # None
  <1>1. /\ d \in Db(s) /\ PairsHold(s, d)
        /\ d.credentials \in Table(CredentialIds, CredentialRow)
        /\ d.credsOfUser \in [UserIds -> SUBSET CredentialIds]
        /\ d.credsOfInbound \in [InboundIds -> SUBSET CredentialIds]
        /\ None \notin CredentialRow
    BY DbFields, NoneIsNothing DEF CatalogOk, KeysHold
  <1>2. \A c \in Live(d.credentials) : c \in CredentialIds /\ d.credentials[c] \in CredentialRow
    BY <1>1 DEF Table, Live
  <1>3. \A c \in CredentialIds : c \in Live(d.credentials) <=> d.credentials[c] # None
    BY <1>1 DEF Table, Live
  <1> QED BY <1>1, <1>2, <1>3 DEF CredentialRow

\* A write of one credential.
LEMMA CredentialWritten ==
  ASSUME NEW s \in Stores, NEW d, CatalogOk(s, d), NEW id \in CredentialIds, NEW op \in Ops,
         NEW row, NEW e \in Db(s),
         SameBut(d, e, {"credentials", "credsOfUser", "credsOfInbound"}),
         PairsHold(s, e), s = "pg" => PairsThere(e),
         \A i \in CredentialIds : i # id => e.credentials[i] = d.credentials[i],
         d.credentials[id] # None <=> op # "create",
         e.credentials[id] # None <=> op # "delete"
  PROVE  WriteOk(s, d, "credential", op, id, row, Ok(e))
  <1>1. d \in Db(s) /\ KeysHold(s, d) /\ ForeignKeysHold(s, d)
    BY DEF CatalogOk
  <1>2. /\ e.nodes = d.nodes /\ e.templates = d.templates /\ e.users = d.users
        /\ e.plans = d.plans /\ e.hosts = d.hosts /\ e.endpoints = d.endpoints
        /\ e.inbounds = d.inbounds /\ e.inboundByPort = d.inboundByPort
        /\ e.hostByRemark = d.hostByRemark
        /\ e.nodeByName = d.nodeByName /\ e.templateByName = d.templateByName
        /\ e.planByName = d.planByName /\ e.userByName = d.userByName
    BY <1>1 DEF Db, SameBut
  <1>3. KeysHold(s, e)
    BY <1>1, <1>2, RemarksLeft, PortsLeft DEF KeysHold
  <1>4. RowEffect(d, e, "credential", op, id, "none")
    <2>1. \A K \in Kinds \ {"credential"} : Rows(e, K) = Rows(d, K)
      BY <1>2 DEF Kinds, Rows
    <2>2. /\ Rows(d, "credential") = d.credentials /\ Rows(e, "credential") = e.credentials
          /\ Ids("credential") = CredentialIds
      BY RowsOfKinds
    <2> QED BY <2>1, <2>2, OneRowEffect DEF There, Kinds
  <1>5. ForeignKeysHold(s, e)
    BY <1>1, <1>2, HostsLeft DEF ForeignKeysHold, EndpointsThere, NodesThere
  <1>6. InboundsStay(d, e) /\ HostEffect(s, d, e, "credential", op, id, row)
    BY <1>2, HostsLeft DEF InboundsStay
  <1> QED BY <1>3, <1>4, <1>5, <1>6 DEF WriteOk, CatalogOk, Ok, Errors, StoreErrors

LEMMA CredentialCreateOk ==
  ASSUME NEW s \in Stores, NEW d, CatalogOk(s, d), NEW id \in CredentialIds,
         NEW row \in CredentialRow, ~There(d, "credential", id)
  PROVE  WriteOk(s, d, "credential", "create", id, row, WriteCredential(s, d, "create", id, row))
  <1> DEFINE out == WriteCredential(s, d, "create", id, row)
             MemTaken == \E other \in d.credsOfUser[row.user] :
                            d.credentials[other].inbound = row.inbound
             PgTaken == \E other \in Live(d.credentials) :
                            PairKey(d.credentials[other]) = PairKey(row)
             There2 == d.users[row.user] # None /\ d.inbounds[row.inbound] # None
             rows == [d.credentials EXCEPT ![id] = row]
  <1>1. /\ d \in Db(s) /\ PairsHold(s, d)
        /\ d.credentials \in Table(CredentialIds, CredentialRow)
        /\ d.credsOfUser \in [UserIds -> SUBSET CredentialIds]
        /\ d.credsOfInbound \in [InboundIds -> SUBSET CredentialIds]
        /\ None \notin CredentialRow
        /\ Live(d.credentials) \subseteq CredentialIds
        /\ \A c \in Live(d.credentials) : /\ d.credentials[c] \in CredentialRow
                                          /\ d.credentials[c].user \in UserIds
                                          /\ d.credentials[c].inbound \in InboundIds
        /\ \A c \in CredentialIds : c \in Live(d.credentials) <=> d.credentials[c] # None
    BY CredentialTypes
  <1>2. /\ row.user \in UserIds /\ row.inbound \in InboundIds
        /\ d.credentials[id] = None
    BY RowsOfKinds DEF CredentialRow, There
  <1>3. /\ rows \in Table(CredentialIds, CredentialRow) /\ rows[id] = row
        /\ \A c \in CredentialIds : c # id => rows[c] = d.credentials[c]
        /\ Live(rows) = Live(d.credentials) \cup {id}
        /\ id \notin Live(d.credentials)
    BY <1>1, <1>2 DEF Table, Live
  <1> HIDE DEF rows
  <1>4. (\A c \in Live(d.credentials) : PairKey(d.credentials[c]) # PairKey(row)) =>
            \A a, b \in Live(rows) : PairKey(rows[a]) = PairKey(rows[b]) => a = b
    BY <1>1, <1>3 DEF PairsHold
  <1>5. CASE s = "memory" /\ ~MemTaken
    <2> DEFINE ofUser == [d.credsOfUser EXCEPT ![row.user] = @ \cup {id}]
               ofInbound == [d.credsOfInbound EXCEPT ![row.inbound] = @ \cup {id}]
               e == [d EXCEPT !.credsOfUser = ofUser, !.credsOfInbound = ofInbound,
                              !.credentials = rows]
    <2>1. out = Ok(e)
      BY <1>1, <1>5 DEF WriteCredential, MemInsertCredential, Listed, rows, Db
    <2>2. /\ ofUser \in [UserIds -> SUBSET CredentialIds]
          /\ ofInbound \in [InboundIds -> SUBSET CredentialIds]
          /\ \A u \in UserIds : ofUser[u] = d.credsOfUser[u] \cup (IF u = row.user THEN {id} ELSE {})
          /\ \A i \in InboundIds : ofInbound[i] =
                d.credsOfInbound[i] \cup (IF i = row.inbound THEN {id} ELSE {})
      BY <1>1, <1>2
    <2> HIDE DEF ofUser, ofInbound
    <2>3. /\ e \in Db(s) /\ e.credentials = rows /\ e.credsOfUser = ofUser
          /\ e.credsOfInbound = ofInbound
          /\ SameBut(d, e, {"credentials", "credsOfUser", "credsOfInbound"})
      BY <1>1, <1>3, <2>2 DEF Db, SameBut
    <2> HIDE DEF e
    <2>4. \A c \in Live(d.credentials) : PairKey(d.credentials[c]) # PairKey(row)
      BY <1>1, <1>2, <1>5 DEF PairsHold, PairKey
    <2>5. ASSUME NEW c \in CredentialIds, NEW u \in UserIds, NEW inb \in InboundIds
          PROVE  /\ c \in ofUser[u] <=> rows[c] # None /\ rows[c].user = u
                 /\ c \in ofInbound[inb] <=> rows[c] # None /\ rows[c].inbound = inb
      <3>1. /\ c \in d.credsOfUser[u] <=> d.credentials[c] # None /\ d.credentials[c].user = u
            /\ c \in d.credsOfInbound[inb]
                  <=> d.credentials[c] # None /\ d.credentials[c].inbound = inb
        BY <1>1, <1>5 DEF PairsHold
      <3>2. /\ c \in ofUser[u] <=> c \in d.credsOfUser[u] \/ (c = id /\ u = row.user)
            /\ c \in ofInbound[inb] <=> c \in d.credsOfInbound[inb] \/ (c = id /\ inb = row.inbound)
        BY <2>2
      <3>3. CASE c = id
        BY <3>1, <3>2, <3>3, <1>1, <1>2, <1>3
      <3>4. CASE c # id
        BY <3>1, <3>2, <3>4, <1>3
      <3> QED BY <3>3, <3>4
    <2>6. PairsHold(s, e)
      BY <1>4, <2>3, <2>4, <2>5 DEF PairsHold
    <2>7. WriteOk(s, d, "credential", "create", id, row, Ok(e))
      BY <1>1, <1>2, <1>3, <1>5, <2>3, <2>6, CredentialWritten DEF Ops
    <2> QED BY <2>1, <2>7
  <1>6. CASE s = "pg" /\ ~PgTaken /\ There2
    <2> DEFINE e == [d EXCEPT !.credentials = rows]
    <2>1. out = Ok(e)
      BY <1>1, <1>6 DEF WriteCredential, PgInsertCredential, rows, Db
    <2>2. /\ e \in Db(s) /\ e.credentials = rows
          /\ SameBut(d, e, {"credentials", "credsOfUser", "credsOfInbound"})
          /\ e.users = d.users /\ e.inbounds = d.inbounds
      BY <1>1, <1>3 DEF Db, SameBut
    <2> HIDE DEF e
    <2>3. PairsHold(s, e)
      BY <1>4, <1>6, <2>2 DEF PairsHold
    <2>4. PairsThere(e)
      <3>1. PairsThere(d)
        BY <1>6 DEF CatalogOk, ForeignKeysHold
      <3> QED BY <3>1, <1>1, <1>3, <1>6, <2>2 DEF PairsThere
    <2>5. WriteOk(s, d, "credential", "create", id, row, Ok(e))
      BY <1>1, <1>2, <1>3, <1>6, <2>2, <2>3, <2>4, CredentialWritten DEF Ops
    <2> QED BY <2>1, <2>5
  <1>7. CASE ~(s = "memory" /\ ~MemTaken) /\ ~(s = "pg" /\ ~PgTaken /\ There2)
    <2>1. PICK err \in {"duplicate", "other"} : out = Refused(d, err)
      BY <1>7 DEF WriteCredential, MemInsertCredential, PgInsertCredential, Stores
    <2> QED BY <2>1, RefusedIsOk DEF Errors, StoreErrors
  <1> QED BY <1>5, <1>6, <1>7

LEMMA CredentialUpdateOk ==
  ASSUME NEW s \in Stores, NEW d, CatalogOk(s, d), NEW id \in CredentialIds,
         NEW row \in CredentialRow
  PROVE  WriteOk(s, d, "credential", "update", id, row, WriteCredential(s, d, "update", id, row))
  <1> DEFINE out == WriteCredential(s, d, "update", id, row)
             new == [d.credentials[id] EXCEPT !.value = row.value]
             rows == [d.credentials EXCEPT ![id] = new]
             e == [d EXCEPT !.credentials = rows]
  <1>1. /\ d \in Db(s) /\ PairsHold(s, d)
        /\ d.credentials \in Table(CredentialIds, CredentialRow)
        /\ None \notin CredentialRow
        /\ Live(d.credentials) \subseteq CredentialIds
        /\ \A c \in Live(d.credentials) : d.credentials[c] \in CredentialRow
        /\ \A c \in CredentialIds : c \in Live(d.credentials) <=> d.credentials[c] # None
    BY CredentialTypes
  <1>2. CASE d.credentials[id] = None
    <2>1. out = Refused(d, "notfound")
      BY <1>2 DEF WriteCredential, MemUpdateCredential, PgUpdateCredential, Stores
    <2> QED BY <2>1, RefusedIsOk DEF Errors, StoreErrors
  <1>3. CASE d.credentials[id] # None
    <2>1. out = Ok(e)
      BY <1>1, <1>3 DEF WriteCredential, MemUpdateCredential, PgUpdateCredential, Stores, Db
    <2>2. /\ new \in CredentialRow /\ new.user = d.credentials[id].user
          /\ new.inbound = d.credentials[id].inbound
      BY <1>1, <1>3 DEF CredentialRow
    <2> HIDE DEF new
    <2>3. /\ rows \in Table(CredentialIds, CredentialRow)
          /\ Live(rows) = Live(d.credentials) /\ rows[id] # None
          /\ \A c \in CredentialIds : c # id => rows[c] = d.credentials[c]
          /\ \A c \in CredentialIds : rows[c] # None <=> d.credentials[c] # None
          /\ \A c \in Live(d.credentials) : /\ rows[c].user = d.credentials[c].user
                                            /\ rows[c].inbound = d.credentials[c].inbound
      BY <1>1, <1>3, <2>2 DEF Table, Live
    <2> HIDE DEF rows
    <2>4. /\ e \in Db(s) /\ e.credentials = rows
          /\ SameBut(d, e, {"credentials", "credsOfUser", "credsOfInbound"})
          /\ e.users = d.users /\ e.inbounds = d.inbounds
          /\ e.credsOfUser = d.credsOfUser /\ e.credsOfInbound = d.credsOfInbound
      BY <1>1, <2>3 DEF Db, SameBut
    <2> HIDE DEF e
    <2>5. PairsHold(s, e)
      <3>1. \A a, b \in Live(rows) : PairKey(rows[a]) = PairKey(rows[b]) => a = b
        BY <1>1, <2>3 DEF PairsHold, PairKey
      <3>2. s = "memory" => \A c \in CredentialIds, u \in UserIds, inb \in InboundIds :
               /\ c \in d.credsOfUser[u] <=> rows[c] # None /\ rows[c].user = u
               /\ c \in d.credsOfInbound[inb] <=> rows[c] # None /\ rows[c].inbound = inb
        BY <1>1, <2>3 DEF PairsHold
      <3> QED BY <2>4, <3>1, <3>2 DEF PairsHold
    <2>6. s = "pg" => PairsThere(e)
      BY <2>3, <2>4 DEF CatalogOk, ForeignKeysHold, PairsThere
    <2>7. WriteOk(s, d, "credential", "update", id, row, Ok(e))
      BY <1>3, <2>3, <2>4, <2>5, <2>6, CredentialWritten DEF Ops
    <2> QED BY <2>1, <2>7
  <1> QED BY <1>2, <1>3

LEMMA CredentialDeleteOk ==
  ASSUME NEW s \in Stores, NEW d, CatalogOk(s, d), NEW id \in CredentialIds, NEW row
  PROVE  WriteOk(s, d, "credential", "delete", id, row, WriteCredential(s, d, "delete", id, row))
  <1> DEFINE out == WriteCredential(s, d, "delete", id, row)
             old == d.credentials[id]
             rows == [d.credentials EXCEPT ![id] = None]
  <1>1. /\ d \in Db(s) /\ PairsHold(s, d)
        /\ d.credentials \in Table(CredentialIds, CredentialRow)
        /\ d.credsOfUser \in [UserIds -> SUBSET CredentialIds]
        /\ d.credsOfInbound \in [InboundIds -> SUBSET CredentialIds]
        /\ Live(d.credentials) \subseteq CredentialIds
        /\ \A c \in Live(d.credentials) : /\ d.credentials[c] \in CredentialRow
                                          /\ d.credentials[c].user \in UserIds
                                          /\ d.credentials[c].inbound \in InboundIds
        /\ \A c \in CredentialIds : c \in Live(d.credentials) <=> d.credentials[c] # None
    BY CredentialTypes
  <1>2. CASE old = None
    <2>1. out = Refused(d, "notfound")
      BY <1>2 DEF WriteCredential, MemDeleteCredential, PgDeleteCredential, Stores
    <2> QED BY <2>1, RefusedIsOk DEF Errors, StoreErrors
  <1>3. /\ rows \in Table(CredentialIds, CredentialRow) /\ rows[id] = None
        /\ \A c \in CredentialIds : c # id => rows[c] = d.credentials[c]
        /\ Live(rows) = Live(d.credentials) \ {id}
        /\ \A a, b \in Live(rows) : PairKey(rows[a]) = PairKey(rows[b]) => a = b
    <2>1. /\ rows \in Table(CredentialIds, CredentialRow) /\ rows[id] = None
          /\ \A c \in CredentialIds : c # id => rows[c] = d.credentials[c]
          /\ Live(rows) = Live(d.credentials) \ {id}
      BY <1>1 DEF Table, Live
    <2> QED BY <1>1, <2>1 DEF PairsHold
  <1> HIDE DEF rows
  <1>4. CASE s = "memory" /\ old # None
    <2> DEFINE ofUser == [d.credsOfUser EXCEPT ![old.user] = @ \ {id}]
               ofInbound == [d.credsOfInbound EXCEPT ![old.inbound] = @ \ {id}]
               e == [d EXCEPT !.credsOfUser = ofUser, !.credsOfInbound = ofInbound,
                              !.credentials = rows]
    <2>1. out = Ok(e)
      BY <1>1, <1>4 DEF WriteCredential, MemDeleteCredential, Unlisted, rows, Db
    <2>2. /\ ofUser \in [UserIds -> SUBSET CredentialIds]
          /\ ofInbound \in [InboundIds -> SUBSET CredentialIds]
          /\ \A u \in UserIds : ofUser[u] = d.credsOfUser[u] \ (IF u = old.user THEN {id} ELSE {})
          /\ \A i \in InboundIds : ofInbound[i] =
                d.credsOfInbound[i] \ (IF i = old.inbound THEN {id} ELSE {})
      BY <1>1, <1>4
    <2> HIDE DEF ofUser, ofInbound
    <2>3. /\ e \in Db(s) /\ e.credentials = rows /\ e.credsOfUser = ofUser
          /\ e.credsOfInbound = ofInbound
          /\ SameBut(d, e, {"credentials", "credsOfUser", "credsOfInbound"})
      BY <1>1, <1>3, <2>2 DEF Db, SameBut
    <2> HIDE DEF e
    <2>4. ASSUME NEW c \in CredentialIds, NEW u \in UserIds, NEW inb \in InboundIds
          PROVE  /\ c \in ofUser[u] <=> rows[c] # None /\ rows[c].user = u
                 /\ c \in ofInbound[inb] <=> rows[c] # None /\ rows[c].inbound = inb
      <3>1. /\ c \in d.credsOfUser[u] <=> d.credentials[c] # None /\ d.credentials[c].user = u
            /\ c \in d.credsOfInbound[inb]
                  <=> d.credentials[c] # None /\ d.credentials[c].inbound = inb
        BY <1>1, <1>4 DEF PairsHold
      <3>2. /\ c \in ofUser[u] <=> c \in d.credsOfUser[u] /\ ~(c = id /\ u = old.user)
            /\ c \in ofInbound[inb] <=> c \in d.credsOfInbound[inb] /\ ~(c = id /\ inb = old.inbound)
        BY <2>2
      <3>3. CASE c = id
        BY <3>1, <3>2, <3>3, <1>3
      <3>4. CASE c # id
        BY <3>1, <3>2, <3>4, <1>3
      <3> QED BY <3>3, <3>4
    <2>5. PairsHold(s, e)
      BY <1>3, <2>3, <2>4 DEF PairsHold
    <2>6. WriteOk(s, d, "credential", "delete", id, row, Ok(e))
      BY <1>3, <1>4, <2>3, <2>5, CredentialWritten DEF Ops
    <2> QED BY <2>1, <2>6
  <1>5. CASE s = "pg" /\ old # None
    <2> DEFINE e == [d EXCEPT !.credentials = rows]
    <2>1. out = Ok(e)
      BY <1>1, <1>5 DEF WriteCredential, PgDeleteCredential, rows, Db
    <2>2. /\ e \in Db(s) /\ e.credentials = rows
          /\ SameBut(d, e, {"credentials", "credsOfUser", "credsOfInbound"})
          /\ e.users = d.users /\ e.inbounds = d.inbounds
      BY <1>1, <1>3 DEF Db, SameBut
    <2> HIDE DEF e
    <2>3. PairsHold(s, e)
      BY <1>3, <1>5, <2>2 DEF PairsHold
    <2>4. PairsThere(e)
      BY <1>1, <1>3, <1>5, <2>2 DEF CatalogOk, ForeignKeysHold, PairsThere
    <2>5. WriteOk(s, d, "credential", "delete", id, row, Ok(e))
      BY <1>3, <1>5, <2>2, <2>3, <2>4, CredentialWritten DEF Ops
    <2> QED BY <2>1, <2>5
  <1> QED BY <1>2, <1>4, <1>5 DEF Stores

(* --- hosts ------------------------------------------------------------- *)
LEMMA HostTypes ==
  ASSUME NEW s \in Stores, NEW d, CatalogOk(s, d)
  PROVE  /\ d \in Db(s) /\ RemarksHold(s, d)
         /\ d.hosts \in Table(HostIds, StoredHost(s))
         /\ d.endpoints \in [HostIds -> Seq(Endpoint)]
         /\ d.hostByRemark \in Table(Names, HostIds)
         /\ None \notin HostIds /\ None \notin StoredHost(s)
         /\ \A row \in StoredHost(s) : row.remark \in Names
         /\ Live(d.hosts) \subseteq HostIds
         /\ \A h \in Live(d.hosts) : d.hosts[h] \in StoredHost(s) /\ d.hosts[h].remark \in Names
  <1>1. /\ d \in Db(s) /\ RemarksHold(s, d)
        /\ d.hosts \in Table(HostIds, StoredHost(s))
        /\ d.endpoints \in [HostIds -> Seq(Endpoint)]
        /\ d.hostByRemark \in Table(Names, HostIds)
        /\ None \notin HostIds
    BY DbFields, NoneIsNothing DEF CatalogOk, KeysHold
  <1>2. None \notin StoredHost(s)
    BY NoneIsNothing DEF StoredHost
  <1>3. \A row \in StoredHost(s) : row.remark \in Names
    BY DEF StoredHost, HostRow
  <1>4. Live(d.hosts) \subseteq HostIds /\ \A h \in Live(d.hosts) : d.hosts[h] \in StoredHost(s)
    BY <1>1 DEF Table, Live
  <1> QED BY <1>1, <1>2, <1>3, <1>4

LEMMA RemarkInserted ==
  ASSUME NEW s \in Stores, NEW d, CatalogOk(s, d), NEW id \in HostIds, NEW new \in StoredHost(s),
         d.hosts[id] = None,
         s = "memory" => d.hostByRemark[new.remark] = None,
         s = "pg" => ~RemarkTaken(d, id, new.remark),
         NEW e \in Db(s), e.hosts = [d.hosts EXCEPT ![id] = new],
         s = "memory" => e.hostByRemark = [d.hostByRemark EXCEPT ![new.remark] = id]
  PROVE  RemarksHold(s, e)
  <1>1. /\ RemarksHold(s, d)
        /\ d.hosts \in Table(HostIds, StoredHost(s))
        /\ d.hostByRemark \in Table(Names, HostIds)
        /\ None \notin HostIds /\ None \notin StoredHost(s)
        /\ new.remark \in Names /\ Live(d.hosts) \subseteq HostIds
        /\ \A h \in Live(d.hosts) : d.hosts[h].remark \in Names
    BY HostTypes
  <1>2. /\ e.hosts[id] = new
        /\ \A i \in HostIds : i # id => e.hosts[i] = d.hosts[i]
        /\ Live(e.hosts) = Live(d.hosts) \cup {id}
        /\ id \notin Live(d.hosts)
    BY <1>1 DEF Table, Live
  <1>3. \A i \in Live(d.hosts) : d.hosts[i].remark # new.remark
    <2>1. CASE s = "memory"
      BY <2>1, <1>1 DEF RemarksHold, Inverts, RemarkOf, Table
    <2>2. CASE s = "pg"
      BY <2>2, <1>2 DEF RemarkTaken
    <2> QED BY <2>1, <2>2 DEF Stores
  <1>4. \A a, b \in Live(e.hosts) : e.hosts[a].remark = e.hosts[b].remark => a = b
    BY <1>1, <1>2, <1>3 DEF RemarksHold
  <1>5. s = "memory" => Inverts(e.hostByRemark, e.hosts, RemarkOf)
    BY <1>1, <1>2, <1>3 DEF RemarksHold, Inverts, RemarkOf, Table
  <1> QED BY <1>4, <1>5 DEF RemarksHold

LEMMA RemarkMoved ==
  ASSUME NEW s \in Stores, NEW d, CatalogOk(s, d), NEW id \in HostIds, NEW new \in StoredHost(s),
         d.hosts[id] # None,
         s = "memory" => new.remark = d.hosts[id].remark \/ d.hostByRemark[new.remark] = None,
         s = "pg" => ~RemarkTaken(d, id, new.remark),
         NEW e \in Db(s), e.hosts = [d.hosts EXCEPT ![id] = new],
         s = "memory" => e.hostByRemark = [d.hostByRemark EXCEPT ![d.hosts[id].remark] = None,
                                                                 ![new.remark] = id]
  PROVE  RemarksHold(s, e)
  <1>1. /\ RemarksHold(s, d)
        /\ d.hosts \in Table(HostIds, StoredHost(s))
        /\ d.hostByRemark \in Table(Names, HostIds)
        /\ None \notin HostIds /\ None \notin StoredHost(s)
        /\ new.remark \in Names /\ Live(d.hosts) \subseteq HostIds
        /\ \A h \in Live(d.hosts) : d.hosts[h].remark \in Names
    BY HostTypes
  <1>2. /\ e.hosts[id] = new
        /\ \A i \in HostIds : i # id => e.hosts[i] = d.hosts[i]
        /\ Live(e.hosts) = Live(d.hosts)
        /\ id \in Live(d.hosts)
    BY <1>1 DEF Table, Live
  <1>3. \A i \in Live(d.hosts) \ {id} : d.hosts[i].remark # new.remark
    <2>1. CASE s = "memory"
      BY <2>1, <1>1, <1>2 DEF RemarksHold, Inverts, RemarkOf, Table
    <2>2. CASE s = "pg"
      BY <2>2 DEF RemarkTaken
    <2> QED BY <2>1, <2>2 DEF Stores
  <1>4. \A a, b \in Live(e.hosts) : e.hosts[a].remark = e.hosts[b].remark => a = b
    BY <1>1, <1>2, <1>3 DEF RemarksHold
  <1>5. ASSUME s = "memory" PROVE Inverts(e.hostByRemark, e.hosts, RemarkOf)
    <2> DEFINE old == d.hosts[id].remark
               now == new.remark
    <2>1. /\ e.hostByRemark = [d.hostByRemark EXCEPT ![old] = None, ![now] = id]
          /\ old \in Names /\ now \in Names
          /\ Inverts(d.hostByRemark, d.hosts, RemarkOf)
          /\ \A i \in Live(d.hosts) : d.hosts[i].remark = old => i = id
          /\ d.hosts[id].remark = old /\ e.hosts[id].remark = now
      BY <1>1, <1>2, <1>5 DEF RemarksHold
    <2> HIDE DEF old, now
    <2>2. SUFFICES ASSUME NEW key \in Names
                   PROVE  LET h == e.hostByRemark[key] IN
                          \/ h = None /\ \A i \in Live(e.hosts) : e.hosts[i].remark # key
                          \/ h \in Live(e.hosts) /\ e.hosts[h].remark = key
      BY <1>1, <2>1 DEF Inverts, RemarkOf, Table
    <2>3. CASE key = now
      BY <2>3, <2>1, <1>1, <1>2 DEF Table
    <2>4. CASE key # now /\ key = old
      BY <2>4, <2>1, <1>1, <1>2 DEF Table
    <2>5. CASE key # now /\ key # old
      <3>1. e.hostByRemark[key] = d.hostByRemark[key]
        BY <2>5, <2>1, <1>1 DEF Table
      <3>2. \/ d.hostByRemark[key] = None /\ \A i \in Live(d.hosts) : d.hosts[i].remark # key
            \/ d.hostByRemark[key] \in Live(d.hosts) /\ d.hosts[d.hostByRemark[key]].remark = key
        BY <2>1, <1>1 DEF Inverts, RemarkOf, Table
      <3> QED BY <2>5, <3>1, <3>2, <2>1, <1>1, <1>2
    <2> QED BY <2>3, <2>4, <2>5
  <1> QED BY <1>4, <1>5 DEF RemarksHold

LEMMA RemarkRemoved ==
  ASSUME NEW s \in Stores, NEW d, CatalogOk(s, d), NEW id \in HostIds, d.hosts[id] # None,
         NEW e \in Db(s), e.hosts = [d.hosts EXCEPT ![id] = None],
         s = "memory" => e.hostByRemark = [d.hostByRemark EXCEPT ![d.hosts[id].remark] = None]
  PROVE  RemarksHold(s, e)
  <1>1. /\ RemarksHold(s, d)
        /\ d.hosts \in Table(HostIds, StoredHost(s))
        /\ d.hostByRemark \in Table(Names, HostIds)
        /\ None \notin HostIds /\ None \notin StoredHost(s)
        /\ Live(d.hosts) \subseteq HostIds
        /\ \A h \in Live(d.hosts) : d.hosts[h].remark \in Names
    BY HostTypes
  <1>2. /\ \A i \in HostIds : i # id => e.hosts[i] = d.hosts[i]
        /\ Live(e.hosts) = Live(d.hosts) \ {id}
        /\ id \in Live(d.hosts)
    BY <1>1 DEF Table, Live
  <1>3. \A a, b \in Live(e.hosts) : e.hosts[a].remark = e.hosts[b].remark => a = b
    BY <1>1, <1>2 DEF RemarksHold
  <1>4. s = "memory" => Inverts(e.hostByRemark, e.hosts, RemarkOf)
    BY <1>1, <1>2 DEF RemarksHold, Inverts, RemarkOf, Table
  <1> QED BY <1>3, <1>4 DEF RemarksHold

\* A write of one host.
LEMMA HostWritten ==
  ASSUME NEW s \in Stores, NEW d, CatalogOk(s, d), NEW id \in HostIds, NEW op \in Ops,
         NEW row, NEW e \in Db(s), SameBut(d, e, {"hosts", "endpoints", "hostByRemark"}),
         RemarksHold(s, e),
         \A i \in HostIds : i # id => e.hosts[i] = d.hosts[i] /\ e.endpoints[i] = d.endpoints[i],
         d.hosts[id] # None <=> op # "create",
         e.hosts[id] # None <=> op # "delete",
         op # "delete" => Endpoints(s, e, id) = row.endpoints,
         s = "pg" /\ op # "delete" =>
            \A k \in DOMAIN row.endpoints : References(d, row.endpoints[k])
  PROVE  WriteOk(s, d, "host", op, id, row, Ok(e))
  <1>1. /\ d \in Db(s) /\ KeysHold(s, d) /\ ForeignKeysHold(s, d)
        /\ d.hosts \in Table(HostIds, StoredHost(s)) /\ e.hosts \in Table(HostIds, StoredHost(s))
    BY DbFields DEF CatalogOk
  <1>2. /\ e.nodes = d.nodes /\ e.templates = d.templates /\ e.users = d.users
        /\ e.plans = d.plans /\ e.credentials = d.credentials
        /\ e.inbounds = d.inbounds /\ e.inboundByPort = d.inboundByPort
        /\ e.nodeByName = d.nodeByName /\ e.templateByName = d.templateByName
        /\ e.planByName = d.planByName /\ e.userByName = d.userByName
        /\ e.credsOfUser = d.credsOfUser /\ e.credsOfInbound = d.credsOfInbound
    BY <1>1 DEF Db, SameBut
  <1>3. KeysHold(s, e)
    BY <1>1, <1>2, PairsLeft, PortsLeft DEF KeysHold
  <1>4. RowEffect(d, e, "host", op, id, "none")
    <2>1. \A K \in Kinds \ {"host"} : Rows(e, K) = Rows(d, K)
      BY <1>2 DEF Kinds, Rows
    <2>2. Rows(d, "host") = d.hosts /\ Rows(e, "host") = e.hosts /\ Ids("host") = HostIds
      BY RowsOfKinds
    <2> QED BY <2>1, <2>2, OneRowEffect DEF There, Kinds
  <1>5. \A h \in Live(e.hosts) : /\ h \in HostIds
                                 /\ h # id => /\ h \in Live(d.hosts)
                                              /\ Endpoints(s, e, h) = Endpoints(s, d, h)
                                 /\ h = id => op # "delete"
    BY <1>1 DEF Live, Table, Endpoints, ReadHost
  <1>6. ForeignKeysHold(s, e)
    <2> SUFFICES ASSUME s = "pg"
                 PROVE  EndpointsThere(s, e) /\ NodesThere(e) /\ PairsThere(e)
      BY DEF ForeignKeysHold
    <2>1. EndpointsThere(s, d) /\ NodesThere(d) /\ PairsThere(d)
      BY <1>1 DEF ForeignKeysHold
    <2>2. NodesThere(e) /\ PairsThere(e)
      BY <1>2, <2>1 DEF NodesThere, PairsThere
    <2>3. EndpointsThere(s, e)
      BY <1>2, <1>5, <2>1 DEF EndpointsThere, References
    <2> QED BY <2>2, <2>3
  <1>7. InboundsStay(d, e)
    BY <1>2 DEF InboundsStay
  <1>8. HostEffect(s, d, e, "host", op, id, row)
    BY <1>5 DEF HostEffect
  <1> QED BY <1>3, <1>4, <1>6, <1>7, <1>8 DEF WriteOk, CatalogOk, Ok, Errors, StoreErrors

LEMMA HostColumnsStored ==
  ASSUME NEW row \in HostRow
  PROVE  /\ HostColumns(row) \in StoredHost("pg") /\ HostColumns(row).remark = row.remark
         /\ row \in StoredHost("memory") /\ row.remark \in Names
         /\ row.endpoints \in Seq(Endpoint)
BY DEF HostColumns, StoredHost, HostRow

LEMMA HostCreateOk ==
  ASSUME NEW s \in Stores, NEW d, CatalogOk(s, d), NEW id \in HostIds, NEW row \in HostRow
  PROVE  WriteOk(s, d, "host", "create", id, row, WriteHost(s, d, "create", id, row))
  <1> DEFINE out == WriteHost(s, d, "create", id, row)
             MemFree == d.hostByRemark[row.remark] = None /\ d.hosts[id] = None
             PgFree == /\ d.hosts[id] = None /\ ~RemarkTaken(d, id, row.remark)
                       /\ Unfit(d, id, row.endpoints) = {}
  <1>1. /\ d \in Db(s) /\ d.hosts \in Table(HostIds, StoredHost(s))
        /\ d.endpoints \in [HostIds -> Seq(Endpoint)]
        /\ d.hostByRemark \in Table(Names, HostIds) /\ None \notin StoredHost(s)
    BY HostTypes
  <1>2. /\ HostColumns(row) \in StoredHost("pg") /\ HostColumns(row).remark = row.remark
        /\ row \in StoredHost("memory") /\ row.remark \in Names
        /\ row.endpoints \in Seq(Endpoint)
    BY HostColumnsStored
  <1>3. CASE s = "memory" /\ MemFree
    <2> DEFINE e == [d EXCEPT !.hosts[id] = row, !.hostByRemark[row.remark] = id]
    <2>1. out = Ok(e)
      BY <1>3 DEF WriteHost, MemCreateHost
    <2>2. row \in StoredHost(s)
      BY <1>2, <1>3
    <2>3. /\ e \in Db(s) /\ e.hosts = [d.hosts EXCEPT ![id] = row]
          /\ e.hostByRemark = [d.hostByRemark EXCEPT ![row.remark] = id]
          /\ SameBut(d, e, {"hosts", "endpoints", "hostByRemark"}) /\ e.endpoints = d.endpoints
      BY <1>1, <1>2, <2>2 DEF Db, SameBut, Table
    <2> HIDE DEF e
    <2>4. RemarksHold(s, e)
      <3>1. /\ s = "memory" => d.hostByRemark[row.remark] = None
            /\ s = "pg" => ~RemarkTaken(d, id, row.remark)
            /\ d.hosts[id] = None
        BY <1>3
      <3> QED BY <2>2, <2>3, <3>1, RemarkInserted, SMTT(30)
    <2>5. e.hosts[id] = row /\ \A i \in HostIds : i # id => e.hosts[i] = d.hosts[i]
      BY <1>1, <2>3 DEF Table
    <2>6. Endpoints(s, e, id) = row.endpoints
      BY <1>3, <2>5 DEF Endpoints, ReadHost
    <2>7. WriteOk(s, d, "host", "create", id, row, Ok(e))
      BY <1>1, <1>3, <2>2, <2>3, <2>4, <2>5, <2>6, HostWritten DEF Ops
    <2> QED BY <2>1, <2>7
  <1>4. CASE s = "pg" /\ PgFree
    <2> DEFINE new == HostColumns(row)
               e == [d EXCEPT !.hosts[id] = new, !.endpoints[id] = row.endpoints]
    <2>1. out = Ok(e)
      BY <1>4 DEF WriteHost, PgCreateHost
    <2>2. new \in StoredHost(s) /\ ~RemarkTaken(d, id, new.remark)
      BY <1>2, <1>4
    <2> HIDE DEF new
    <2>3. /\ e \in Db(s) /\ e.hosts = [d.hosts EXCEPT ![id] = new]
          /\ e.endpoints = [d.endpoints EXCEPT ![id] = row.endpoints]
          /\ SameBut(d, e, {"hosts", "endpoints", "hostByRemark"})
      BY <1>1, <1>2, <2>2 DEF Db, SameBut, Table
    <2> HIDE DEF e
    <2>4. RemarksHold(s, e)
      <3>1. /\ s = "memory" => d.hostByRemark[new.remark] = None
            /\ s = "memory" => e.hostByRemark = [d.hostByRemark EXCEPT ![new.remark] = id]
            /\ s = "pg" => ~RemarkTaken(d, id, new.remark)
            /\ d.hosts[id] = None
        BY <1>4, <2>2
      <3> QED BY <2>2, <2>3, <3>1, RemarkInserted
    <2>5. /\ e.hosts[id] = new /\ e.endpoints[id] = row.endpoints
          /\ \A i \in HostIds : i # id => /\ e.hosts[i] = d.hosts[i]
                                          /\ e.endpoints[i] = d.endpoints[i]
      BY <1>1, <2>3 DEF Table
    <2>6. Endpoints(s, e, id) = row.endpoints
      BY <1>1, <1>4, <2>2, <2>5 DEF Endpoints, ReadHost
    <2>7. \A k \in DOMAIN row.endpoints : References(d, row.endpoints[k])
      BY <1>4 DEF Unfit
    <2>8. WriteOk(s, d, "host", "create", id, row, Ok(e))
      BY <1>1, <1>4, <2>2, <2>3, <2>4, <2>5, <2>6, <2>7, HostWritten DEF Ops
    <2> QED BY <2>1, <2>8
  <1>5. CASE ~(s = "memory" /\ MemFree) /\ ~(s = "pg" /\ PgFree)
    <2>1. PICK err \in {"duplicate", "other"} : out = Refused(d, err)
      BY <1>5 DEF WriteHost, MemCreateHost, PgCreateHost, InsertError, Stores
    <2> QED BY <2>1, RefusedIsOk DEF Errors, StoreErrors
  <1> QED BY <1>3, <1>4, <1>5

LEMMA HostUpdateOk ==
  ASSUME NEW s \in Stores, NEW d, CatalogOk(s, d), NEW id \in HostIds, NEW row \in HostRow
  PROVE  WriteOk(s, d, "host", "update", id, row, WriteHost(s, d, "update", id, row))
  <1> DEFINE out == WriteHost(s, d, "update", id, row)
             old == d.hosts[id].remark
             MemFree == row.remark = old \/ d.hostByRemark[row.remark] = None
             PgFree == ~RemarkTaken(d, id, row.remark) /\ Unfit(d, id, row.endpoints) = {}
  <1>1. /\ d \in Db(s) /\ d.hosts \in Table(HostIds, StoredHost(s))
        /\ d.endpoints \in [HostIds -> Seq(Endpoint)]
        /\ d.hostByRemark \in Table(Names, HostIds) /\ None \notin StoredHost(s)
    BY HostTypes
  <1>2. /\ HostColumns(row) \in StoredHost("pg") /\ HostColumns(row).remark = row.remark
        /\ row \in StoredHost("memory") /\ row.remark \in Names
        /\ row.endpoints \in Seq(Endpoint)
    BY HostColumnsStored
  <1>3. CASE s = "memory" /\ d.hosts[id] # None /\ MemFree
    <2> DEFINE e == [d EXCEPT !.hosts[id] = row, !.hostByRemark[d.hosts[id].remark] = None,
                              !.hostByRemark[row.remark] = id]
    <2>1. out = Ok(e)
      BY <1>3 DEF WriteHost, MemUpdateHost
    <2>2. row \in StoredHost(s)
      BY <1>2, <1>3
    <2>3. /\ e \in Db(s) /\ e.hosts = [d.hosts EXCEPT ![id] = row]
          /\ e.hostByRemark = [d.hostByRemark EXCEPT ![d.hosts[id].remark] = None,
                                                     ![row.remark] = id]
          /\ SameBut(d, e, {"hosts", "endpoints", "hostByRemark"}) /\ e.endpoints = d.endpoints
      BY <1>1, <1>2, <2>2 DEF Db, SameBut, Table
    <2> HIDE DEF e
    <2>4. RemarksHold(s, e)
      <3>1. /\ s = "memory" => row.remark = d.hosts[id].remark \/ d.hostByRemark[row.remark] = None
            /\ s = "pg" => ~RemarkTaken(d, id, row.remark)
            /\ d.hosts[id] # None
        BY <1>3
      <3> QED BY <2>2, <2>3, <3>1, RemarkMoved
    <2>5. e.hosts[id] = row /\ \A i \in HostIds : i # id => e.hosts[i] = d.hosts[i]
      BY <1>1, <2>3 DEF Table
    <2>6. Endpoints(s, e, id) = row.endpoints
      BY <1>3, <2>5 DEF Endpoints, ReadHost
    <2>7. WriteOk(s, d, "host", "update", id, row, Ok(e))
      BY <1>1, <1>3, <2>2, <2>3, <2>4, <2>5, <2>6, HostWritten DEF Ops
    <2> QED BY <2>1, <2>7
  <1>4. CASE s = "pg" /\ d.hosts[id] # None /\ PgFree
    <2> DEFINE new == HostColumns(row)
               e == [d EXCEPT !.hosts[id] = new, !.endpoints[id] = row.endpoints]
    <2>1. out = Ok(e)
      BY <1>4 DEF WriteHost, PgUpdateHost
    <2>2. new \in StoredHost(s) /\ ~RemarkTaken(d, id, new.remark)
      BY <1>2, <1>4
    <2> HIDE DEF new
    <2>3. /\ e \in Db(s) /\ e.hosts = [d.hosts EXCEPT ![id] = new]
          /\ e.endpoints = [d.endpoints EXCEPT ![id] = row.endpoints]
          /\ SameBut(d, e, {"hosts", "endpoints", "hostByRemark"})
      BY <1>1, <1>2, <2>2 DEF Db, SameBut, Table
    <2> HIDE DEF e
    <2>4. RemarksHold(s, e)
      <3>1. /\ s = "memory" => new.remark = d.hosts[id].remark \/ d.hostByRemark[new.remark] = None
            /\ s = "memory" => e.hostByRemark = [d.hostByRemark EXCEPT
                                    ![d.hosts[id].remark] = None, ![new.remark] = id]
            /\ s = "pg" => ~RemarkTaken(d, id, new.remark)
            /\ d.hosts[id] # None
        BY <1>4, <2>2
      <3> QED BY <2>2, <2>3, <3>1, RemarkMoved
    <2>5. /\ e.hosts[id] = new /\ e.endpoints[id] = row.endpoints
          /\ \A i \in HostIds : i # id => /\ e.hosts[i] = d.hosts[i]
                                          /\ e.endpoints[i] = d.endpoints[i]
      BY <1>1, <2>3 DEF Table
    <2>6. Endpoints(s, e, id) = row.endpoints
      BY <1>1, <1>4, <2>2, <2>5 DEF Endpoints, ReadHost
    <2>7. \A k \in DOMAIN row.endpoints : References(d, row.endpoints[k])
      BY <1>4 DEF Unfit
    <2>8. WriteOk(s, d, "host", "update", id, row, Ok(e))
      BY <1>1, <1>4, <2>2, <2>3, <2>4, <2>5, <2>6, <2>7, HostWritten DEF Ops
    <2> QED BY <2>1, <2>8
  <1>5. CASE ~(s = "memory" /\ d.hosts[id] # None /\ MemFree)
             /\ ~(s = "pg" /\ d.hosts[id] # None /\ PgFree)
    <2>1. PICK err \in {"notfound", "duplicate", "other"} : out = Refused(d, err)
      BY <1>5 DEF WriteHost, MemUpdateHost, PgUpdateHost, InsertError, Stores
    <2> QED BY <2>1, RefusedIsOk DEF Errors, StoreErrors
  <1> QED BY <1>3, <1>4, <1>5

LEMMA HostDeleteOk ==
  ASSUME NEW s \in Stores, NEW d, CatalogOk(s, d), NEW id \in HostIds, NEW row
  PROVE  WriteOk(s, d, "host", "delete", id, row, WriteHost(s, d, "delete", id, row))
  <1> DEFINE out == WriteHost(s, d, "delete", id, row)
  <1>1. /\ d \in Db(s) /\ d.hosts \in Table(HostIds, StoredHost(s))
        /\ d.endpoints \in [HostIds -> Seq(Endpoint)]
        /\ d.hostByRemark \in Table(Names, HostIds)
        /\ Live(d.hosts) \subseteq HostIds
        /\ \A h \in Live(d.hosts) : d.hosts[h].remark \in Names
    BY HostTypes
  <1>2. CASE d.hosts[id] = None
    <2>1. out = Refused(d, "notfound")
      BY <1>2 DEF WriteHost, MemDeleteHost, PgDeleteHost, Stores
    <2> QED BY <2>1, RefusedIsOk DEF Errors, StoreErrors
  <1>3. CASE s = "memory" /\ d.hosts[id] # None
    <2> DEFINE e == [d EXCEPT !.hosts[id] = None, !.hostByRemark[d.hosts[id].remark] = None]
    <2>1. out = Ok(e)
      BY <1>3 DEF WriteHost, MemDeleteHost
    <2>2. /\ e \in Db(s) /\ e.hosts = [d.hosts EXCEPT ![id] = None]
          /\ e.hostByRemark = [d.hostByRemark EXCEPT ![d.hosts[id].remark] = None]
          /\ SameBut(d, e, {"hosts", "endpoints", "hostByRemark"}) /\ e.endpoints = d.endpoints
      BY <1>1 DEF Db, SameBut, Table
    <2> HIDE DEF e
    <2>3. RemarksHold(s, e)
      BY <1>3, <2>2, RemarkRemoved
    <2>4. e.hosts[id] = None /\ \A i \in HostIds : i # id => e.hosts[i] = d.hosts[i]
      BY <1>1, <2>2 DEF Table
    <2>5. WriteOk(s, d, "host", "delete", id, row, Ok(e))
      BY <1>3, <2>2, <2>3, <2>4, HostWritten DEF Ops
    <2> QED BY <2>1, <2>5
  <1>4. CASE s = "pg" /\ d.hosts[id] # None
    <2> DEFINE e == [d EXCEPT !.hosts[id] = None, !.endpoints[id] = << >>]
    <2>1. out = Ok(e)
      BY <1>4 DEF WriteHost, PgDeleteHost
    <2>2. /\ e \in Db(s) /\ e.hosts = [d.hosts EXCEPT ![id] = None]
          /\ e.endpoints = [d.endpoints EXCEPT ![id] = << >>]
          /\ SameBut(d, e, {"hosts", "endpoints", "hostByRemark"})
      <3>1. /\ [d.hosts EXCEPT ![id] = None] \in Table(HostIds, StoredHost(s))
            /\ [d.endpoints EXCEPT ![id] = << >>] \in [HostIds -> Seq(Endpoint)]
        BY <1>1 DEF Table
      <3> QED BY <1>1, <3>1 DEF Db, SameBut
    <2> HIDE DEF e
    <2>3. RemarksHold(s, e)
      <3>1. s = "memory" => e.hostByRemark = [d.hostByRemark EXCEPT ![d.hosts[id].remark] = None]
        BY <1>4
      <3> QED BY <1>4, <2>2, <3>1, RemarkRemoved
    <2>4. /\ e.hosts[id] = None
          /\ \A i \in HostIds : i # id => /\ e.hosts[i] = d.hosts[i]
                                          /\ e.endpoints[i] = d.endpoints[i]
      BY <1>1, <2>2 DEF Table
    <2>5. WriteOk(s, d, "host", "delete", id, row, Ok(e))
      BY <1>4, <2>2, <2>3, <2>4, HostWritten DEF Ops
    <2> QED BY <2>1, <2>5
  <1> QED BY <1>2, <1>3, <1>4 DEF Stores

(* --- any write --------------------------------------------------------- *)
LEMMA RowNames ==
  /\ \A kind, id : <<kind, id>> \in RowName <=> kind \in Kinds /\ id \in Ids(kind)
  /\ \A x \in RowName : x = <<x[1], x[2]>> /\ x[1] \in Kinds /\ x[2] \in Ids(x[1])
BY DEF RowName

LEMMA RowsForKinds ==
  /\ RowsFor("node") = NodeRow /\ RowsFor("template") = TemplateRow
  /\ RowsFor("inbound") = InboundRow /\ RowsFor("host") = HostRow
  /\ RowsFor("plan") = PlanRow /\ RowsFor("user") = UserRow
  /\ RowsFor("credential") = CredentialRow
BY DEF RowsFor

LEMMA NodeOk ==
  ASSUME NEW s \in Stores, NEW d, CatalogOk(s, d), NEW op \in Ops, NEW id \in NodeIds, NEW row,
         op # "delete" => row \in NodeRow
  PROVE  WriteOk(s, d, "node", op, id, row, WriteNode(s, d, op, id, row))
  <1>1. CASE op = "create"
    BY <1>1, NodeCreateOk
  <1>2. CASE op = "update"
    BY <1>2, NodeUpdateOk
  <1>3. CASE op = "delete"
    BY <1>3, NodeMemDeleteOk, NodePgDeleteOk DEF Stores
  <1> QED BY <1>1, <1>2, <1>3 DEF Ops

LEMMA TemplateOk ==
  ASSUME NEW s \in Stores, NEW d, CatalogOk(s, d), NEW op \in Ops, NEW id \in TemplateIds, NEW row,
         op # "delete" => row \in TemplateRow
  PROVE  WriteOk(s, d, "template", op, id, row, WriteTemplate(s, d, op, id, row))
  <1>1. CASE op = "create"
    BY <1>1, TemplateCreateOk
  <1>2. CASE op = "update"
    BY <1>2, TemplateUpdateOk
  <1>3. CASE op = "delete"
    BY <1>3, TemplateMemDeleteOk, TemplatePgDeleteOk DEF Stores
  <1> QED BY <1>1, <1>2, <1>3 DEF Ops

LEMMA InboundOk ==
  ASSUME NEW s \in Stores, NEW d, CatalogOk(s, d), NEW op \in Ops, NEW id \in InboundIds, NEW row,
         op = "update" /\ There(d, "inbound", id) => row.node = d.inbounds[id].node,
         op # "delete" => row \in InboundRow
  PROVE  WriteOk(s, d, "inbound", op, id, row, WriteInbound(s, d, op, id, row))
  <1>1. CASE op = "create"
    BY <1>1, InboundCreateOk
  <1>2. CASE op = "update"
    BY <1>2, InboundUpdateOk
  <1>3. CASE op = "delete"
    BY <1>3, InboundMemDeleteOk, InboundPgDeleteOk DEF Stores
  <1> QED BY <1>1, <1>2, <1>3 DEF Ops

LEMMA HostOk ==
  ASSUME NEW s \in Stores, NEW d, CatalogOk(s, d), NEW op \in Ops, NEW id \in HostIds, NEW row,
         op # "delete" => row \in HostRow
  PROVE  WriteOk(s, d, "host", op, id, row, WriteHost(s, d, op, id, row))
  <1>1. CASE op = "create"
    BY <1>1, HostCreateOk
  <1>2. CASE op = "update"
    BY <1>2, HostUpdateOk
  <1>3. CASE op = "delete"
    BY <1>3, HostDeleteOk DEF Stores
  <1> QED BY <1>1, <1>2, <1>3 DEF Ops

LEMMA PlanOk ==
  ASSUME NEW s \in Stores, NEW d, CatalogOk(s, d), NEW op \in Ops, NEW id \in PlanIds, NEW row,
         op # "delete" => row \in PlanRow
  PROVE  WriteOk(s, d, "plan", op, id, row, WritePlan(s, d, op, id, row))
  <1>1. CASE op = "create"
    BY <1>1, PlanCreateOk
  <1>2. CASE op = "update"
    BY <1>2, PlanUpdateOk
  <1>3. CASE op = "delete"
    BY <1>3, PlanMemDeleteOk, PlanPgDeleteOk DEF Stores
  <1> QED BY <1>1, <1>2, <1>3 DEF Ops

LEMMA UserOk ==
  ASSUME NEW s \in Stores, NEW d, CatalogOk(s, d), NEW op \in Ops, NEW id \in UserIds, NEW row,
         op # "delete" => row \in UserRow
  PROVE  WriteOk(s, d, "user", op, id, row, WriteUser(s, d, op, id, row))
  <1>1. CASE op = "create"
    BY <1>1, UserCreateOk
  <1>2. CASE op = "update"
    BY <1>2, UserUpdateOk
  <1>3. CASE op = "delete"
    BY <1>3, UserMemDeleteOk, UserPgDeleteOk DEF Stores
  <1> QED BY <1>1, <1>2, <1>3 DEF Ops

LEMMA CredentialOk ==
  ASSUME NEW s \in Stores, NEW d, CatalogOk(s, d), NEW op \in Ops, NEW id \in CredentialIds, NEW row,
         op = "create" => ~There(d, "credential", id),
         op # "delete" => row \in CredentialRow
  PROVE  WriteOk(s, d, "credential", op, id, row, WriteCredential(s, d, op, id, row))
  <1>1. CASE op = "create"
    BY <1>1, CredentialCreateOk
  <1>2. CASE op = "update"
    BY <1>2, CredentialUpdateOk
  <1>3. CASE op = "delete"
    BY <1>3, CredentialDeleteOk DEF Stores
  <1> QED BY <1>1, <1>2, <1>3 DEF Ops

\* Whatever a request writes, once its program and its lookups have passed.
LEMMA OutcomeOk ==
  ASSUME store \in Stores, CatalogOk(store, db), NEW q, q.pc = "write",
         Addressed(q), Built(q), NodeKept(db, q), NEW del, RowIsNew(db, del, q)
  PROVE  WriteOk(store, db, q.kind, q.op, q.id, q.row, Outcome(q))
  <1>1. /\ q.kind \in Kinds /\ q.id \in Ids(q.kind) /\ q.op \in Ops
        /\ q.op # "delete" => q.row \in RowsFor(q.kind)
    BY RowNames DEF Addressed, Built, Pending
  <1>2. q.op = "create" => ~There(db, q.kind, q.id)
    BY DEF RowIsNew, Pending
  <1>3. q.op = "update" /\ q.kind = "inbound" /\ There(db, "inbound", q.id) =>
            q.row.node = db.inbounds[q.id].node
    BY DEF NodeKept, Pending
  <1>4. CASE q.kind = "node"
    BY <1>4, <1>1, <1>2, <1>3, RowsOfKinds, RowsForKinds, NodeOk DEF Outcome
  <1>5. CASE q.kind = "template"
    BY <1>5, <1>1, <1>2, <1>3, RowsOfKinds, RowsForKinds, TemplateOk DEF Outcome
  <1>6. CASE q.kind = "inbound"
    BY <1>6, <1>1, <1>2, <1>3, RowsOfKinds, RowsForKinds, InboundOk DEF Outcome
  <1>7. CASE q.kind = "host"
    BY <1>7, <1>1, <1>2, <1>3, RowsOfKinds, RowsForKinds, HostOk DEF Outcome
  <1>8. CASE q.kind = "plan"
    BY <1>8, <1>1, <1>2, <1>3, RowsOfKinds, RowsForKinds, PlanOk DEF Outcome
  <1>9. CASE q.kind = "user"
    BY <1>9, <1>1, <1>2, <1>3, RowsOfKinds, RowsForKinds, UserOk DEF Outcome
  <1>10. CASE q.kind = "credential"
    BY <1>10, <1>1, <1>2, <1>3, RowsOfKinds, RowsForKinds, CredentialOk DEF Outcome
  <1> QED BY <1>1, <1>4, <1>5, <1>6, <1>7, <1>8, <1>9, <1>10 DEF Kinds

-----------------------------------------------------------------------------
(* What a service makes of a request.                                      *)

LookupRecs == [what : {"node"}, id : NodeIds]
              \cup [what : {"template"}, id : TemplateIds, protocol : Protocols]
              \cup [what : {"inbound"}, id : InboundIds, node : NodeIds]

\* Each endpoint of a host is among the lookups, unless they are known.
EndpointsCovered(eps, lookups, known) ==
    \A k \in DOMAIN eps : \/ \E j \in DOMAIN lookups : lookups[j] = InboundLookup(eps[k])
                          \/ eps \in known

ProgramOk(kind, program, known) ==
    program.valid =>
        /\ program.row \in RowsFor(kind)
        /\ program.lookups \in Seq(LookupRecs)
        /\ kind = "host" => EndpointsCovered(program.row.endpoints, program.lookups, known)

LEMMA HostLookups ==
  ASSUME NEW eps \in Seq(Endpoint)
  PROVE  /\ EndpointLookups(eps) \in Seq(LookupRecs)
         /\ \A known : EndpointsCovered(eps, EndpointLookups(eps), known)
  <1> DEFINE n == Len(eps)
             l == EndpointLookups(eps)
  <1>1. n \in Nat /\ DOMAIN eps = 1 .. n /\ \A k \in 1 .. n : eps[k] \in Endpoint
    OBVIOUS
  <1>2. \A k \in 1 .. 2 * n : /\ (k + 1) \div 2 \in 1 .. n
                              /\ k % 2 \in {0, 1}
    BY <1>1
  <1>3. \A k \in 1 .. 2 * n : l[k] = LET ep == eps[(k + 1) \div 2] IN
                                     IF k % 2 = 1 THEN [what |-> "node", id |-> ep.node]
                                     ELSE [what |-> "inbound", id |-> ep.inbound, node |-> ep.node]
    BY DEF EndpointLookups
  <1>4. \A k \in 1 .. 2 * n : l[k] \in LookupRecs
    <2> TAKE k \in 1 .. 2 * n
    <2> DEFINE ep == eps[(k + 1) \div 2]
    <2>1. ep.node \in NodeIds /\ ep.inbound \in InboundIds
      BY <1>1, <1>2 DEF Endpoint
    <2>2. \/ l[k] = [what |-> "node", id |-> ep.node]
          \/ l[k] = [what |-> "inbound", id |-> ep.inbound, node |-> ep.node]
      BY <1>3
    <2> HIDE DEF ep, l
    <2> QED BY <2>1, <2>2 DEF LookupRecs
  <1>5. l = [k \in 1 .. 2 * n |-> l[k]] /\ 2 * n \in Nat
    BY <1>1 DEF EndpointLookups
  <1>6. ASSUME NEW k \in 1 .. n PROVE 2 * k \in 1 .. 2 * n /\ l[2 * k] = InboundLookup(eps[k])
    <2>1. 2 * k \in 1 .. 2 * n /\ (2 * k + 1) \div 2 = k /\ (2 * k) % 2 = 0
      BY <1>1
    <2> DEFINE j == 2 * k
    <2>2. j \in 1 .. 2 * n /\ (j + 1) \div 2 = k /\ j % 2 # 1
      BY <2>1
    <2> HIDE DEF j, l
    <2>3. l[j] = [what |-> "inbound", id |-> eps[k].inbound, node |-> eps[k].node]
      BY <1>3, <2>2
    <2> QED BY <2>2, <2>3 DEF InboundLookup, j
  <1>7. DOMAIN l = 1 .. 2 * n
    BY DEF EndpointLookups
  <1> HIDE DEF l, n
  <1>8. l \in Seq(LookupRecs)
    BY <1>4, <1>5
  <1>9. \A k \in DOMAIN eps : \E j \in DOMAIN l : l[j] = InboundLookup(eps[k])
    BY <1>1, <1>6, <1>7
  <1>10. \A known : EndpointsCovered(eps, l, known)
    BY <1>9 DEF EndpointsCovered
  <1> QED BY <1>8, <1>10 DEF l

LEMMA InboundLookups ==
  /\ \A id \in NodeIds : NodeLookup(id) \in Seq(LookupRecs)
  /\ \A id \in TemplateIds \cup {None, Clear}, protocol \in Protocols :
        TemplateLookup(id, protocol) \in Seq(LookupRecs)
  <1>1. \A id \in NodeIds : NodeLookup(id) \in Seq(LookupRecs)
    <2>1. \A id \in NodeIds : [what |-> "node", id |-> id] \in LookupRecs
      BY DEF LookupRecs
    <2>2. \A l \in LookupRecs : << l >> \in Seq(LookupRecs)
      OBVIOUS
    <2> QED BY <2>1, <2>2 DEF NodeLookup
  <1>2. ASSUME NEW id \in TemplateIds \cup {None, Clear}, NEW protocol \in Protocols
        PROVE  TemplateLookup(id, protocol) \in Seq(LookupRecs)
    <2>1. CASE id \in {None, Clear}
      BY <2>1 DEF TemplateLookup
    <2>2. CASE id \notin {None, Clear}
      <3>1. [what |-> "template", id |-> id, protocol |-> protocol] \in LookupRecs
        BY <2>2 DEF LookupRecs
      <3> QED BY <2>2, <3>1 DEF TemplateLookup
    <2> QED BY <2>1, <2>2
  <1> QED BY <1>1, <1>2

LEMMA ProgramsOfKinds ==
  /\ \A in : /\ Create("node", in) = CreateNode(in) /\ Create("template", in) = CreateTemplate(in)
             /\ Create("inbound", in) = CreateInbound(in) /\ Create("host", in) = CreateHost(in)
             /\ Create("plan", in) = CreatePlan(in) /\ Create("user", in) = CreateUser(in)
             /\ Create("credential", in) = CreateCredential(in)
  /\ \A row, in : /\ Update("node", row, in) = UpdateNode(row, in)
                  /\ Update("template", row, in) = UpdateTemplate(row, in)
                  /\ Update("inbound", row, in) = UpdateInbound(row, in)
                  /\ Update("host", row, in) = UpdateHost(row, in)
                  /\ Update("plan", row, in) = UpdatePlan(row, in)
                  /\ Update("user", row, in) = UpdateUser(row, in)
                  /\ Update("credential", row, in) = RotateCredential(row, in)
BY DEF Create, Update

LEMMA InputsOfKinds ==
  /\ Creates("node") = NodeInput /\ Creates("template") = TemplateInput
  /\ Creates("inbound") = InboundInput /\ Creates("host") = HostInput
  /\ Creates("plan") = PlanInput /\ Creates("user") = UserInput
  /\ Creates("credential") = CredentialInput
  /\ Updates("node") = NodeInput /\ Updates("template") = TemplateInput
  /\ Updates("inbound") = InboundPatch /\ Updates("host") = HostInput
  /\ Updates("plan") = PlanInput /\ Updates("user") = UserInput
  /\ Updates("credential") = CredentialPatch
BY DEF Creates, Updates

LEMMA CreatePrograms ==
  ASSUME NEW kind \in Kinds, NEW in \in Creates(kind)
  PROVE  ProgramOk(kind, Create(kind, in), {})
  <1> DEFINE p == Create(kind, in)
  <1>1. << >> \in Seq(LookupRecs)
    OBVIOUS
  <1>2. CASE kind = "node"
    <2>1. in \in NodeInput /\ p = CreateNode(in)
      BY <1>2, InputsOfKinds, ProgramsOfKinds
    <2>2. p.row = in /\ p.lookups = << >> /\ (p.valid <=> ValidNode(in))
      BY <2>1 DEF CreateNode, NodeFrom
    <2>3. ValidNode(in) => in \in NodeRow
      BY <2>1 DEF ValidNode, NodeInput, NodeRow
    <2> QED BY <1>1, <1>2, <2>2, <2>3, RowsForKinds DEF ProgramOk
  <1>3. CASE kind = "template"
    <2>1. in \in TemplateInput /\ p = CreateTemplate(in)
      BY <1>3, InputsOfKinds, ProgramsOfKinds
    <2>2. p.row = in /\ p.lookups = << >> /\ (p.valid <=> ValidTemplate(in))
      BY <2>1 DEF CreateTemplate, TemplateFrom
    <2>3. ValidTemplate(in) => in \in TemplateRow
      BY <2>1 DEF ValidTemplate, TemplateInput, TemplateRow
    <2> QED BY <1>1, <1>3, <2>2, <2>3, RowsForKinds DEF ProgramOk
  <1>4. CASE kind = "inbound"
    <2>1. in \in InboundInput /\ p = CreateInbound(in)
      BY <1>4, InputsOfKinds, ProgramsOfKinds
    <2>2. /\ p.row = in /\ (p.valid <=> ValidInbound(in))
          /\ p.lookups = NodeLookup(in.node) \o TemplateLookup(in.template, in.protocol)
      BY <2>1 DEF CreateInbound
    <2>3. ValidInbound(in) => in \in InboundRow
      BY <2>1 DEF ValidInbound, InboundInput, InboundRow
    <2>4. p.lookups \in Seq(LookupRecs)
      <3>1. /\ in.node \in NodeIds /\ in.protocol \in Protocols
            /\ in.template \in TemplateIds \cup {None, Clear}
        BY <2>1 DEF InboundInput
      <3>2. /\ NodeLookup(in.node) \in Seq(LookupRecs)
            /\ TemplateLookup(in.template, in.protocol) \in Seq(LookupRecs)
        BY <3>1, InboundLookups
      <3> HIDE DEF p
      <3> QED BY <2>2, <3>2
    <2> QED BY <1>4, <2>2, <2>3, <2>4, RowsForKinds DEF ProgramOk
  <1>5. CASE kind = "host"
    <2>1. in \in HostInput /\ p = CreateHost(in)
      BY <1>5, InputsOfKinds, ProgramsOfKinds
    <2> DEFINE fits == ValidHost(in) /\ ShapeFits(in)
               lookups == IF in.endpoints = None THEN << >> ELSE EndpointLookups(in.endpoints)
    <2>2. p = [valid |-> fits, row |-> in, lookups |-> lookups]
      BY <2>1 DEF CreateHost, HostFrom
    <2>3. in.endpoints # None => lookups = EndpointLookups(in.endpoints)
      OBVIOUS
    <2>4. fits => in \in HostRow /\ in.endpoints # None /\ in.endpoints \in Seq(Endpoint)
      BY <2>1 DEF ValidHost, ShapeFits, HostInput, HostRow
    <2> HIDE DEF p, fits, lookups
    <2>5. ProgramOk(kind, p, {})
      BY <1>5, <2>2, <2>3, <2>4, HostLookups, RowsForKinds DEF ProgramOk
    <2> QED BY <2>5 DEF p
  <1>6. CASE kind = "plan"
    <2>1. in \in PlanInput /\ p = CreatePlan(in)
      BY <1>6, InputsOfKinds, ProgramsOfKinds
    <2>2. p.row = in /\ p.lookups = << >> /\ (p.valid <=> ValidPlan(in))
      BY <2>1 DEF CreatePlan, PlanFrom
    <2>3. ValidPlan(in) => in \in PlanRow
      BY <2>1, PlanUnits DEF ValidPlan, PlanInput, PlanRow
    <2> QED BY <1>1, <1>6, <2>2, <2>3, RowsForKinds DEF ProgramOk
  <1>7. CASE kind = "user"
    <2>1. in \in UserInput /\ p = CreateUser(in)
      BY <1>7, InputsOfKinds, ProgramsOfKinds
    <2>2. p.row = in /\ p.lookups = << >> /\ (p.valid <=> ValidUser(in))
      BY <2>1 DEF CreateUser
    <2>3. ValidUser(in) => in \in UserRow
      BY <2>1 DEF ValidUser, UserInput, UserRow
    <2> QED BY <1>1, <1>7, <2>2, <2>3, RowsForKinds DEF ProgramOk
  <1>8. CASE kind = "credential"
    <2>1. in \in CredentialInput /\ p = CreateCredential(in)
      BY <1>8, InputsOfKinds, ProgramsOfKinds
    <2>2. p.row = in /\ p.lookups = << >> /\ (p.valid <=> ValidCredential(in))
      BY <2>1 DEF CreateCredential
    <2>3. ValidCredential(in) => in \in CredentialRow
      BY <2>1 DEF ValidCredential, CredentialInput, CredentialRow
    <2> QED BY <1>1, <1>8, <2>2, <2>3, RowsForKinds DEF ProgramOk
  <1> QED BY <1>2, <1>3, <1>4, <1>5, <1>6, <1>7, <1>8 DEF Kinds

LEMMA UpdatePrograms ==
  ASSUME NEW kind \in Kinds, NEW row \in RowsFor(kind), NEW in \in Updates(kind)
  PROVE  /\ ProgramOk(kind, Update(kind, row, in), {row.endpoints})
         /\ kind = "inbound" => Update(kind, row, in).row.node = row.node
  <1> DEFINE p == Update(kind, row, in)
  <1>1. << >> \in Seq(LookupRecs)
    OBVIOUS
  <1>2. CASE kind = "node"
    <2> DEFINE new == PatchedNode(row, in)
    <2>1. in \in NodeInput /\ row \in NodeRow /\ p = UpdateNode(row, in)
      BY <1>2, InputsOfKinds, ProgramsOfKinds, RowsForKinds
    <2>2. p.row = new /\ p.lookups = << >> /\ (p.valid <=> ValidNode(new))
      BY <2>1 DEF UpdateNode
    <2>3. ValidNode(new) => new \in NodeRow
      BY <2>1 DEF ValidNode, PatchedNode, NodeInput, NodeRow
    <2> QED BY <1>1, <1>2, <2>2, <2>3, RowsForKinds DEF ProgramOk
  <1>3. CASE kind = "template"
    <2> DEFINE new == PatchedTemplate(row, in)
    <2>1. in \in TemplateInput /\ row \in TemplateRow /\ p = UpdateTemplate(row, in)
      BY <1>3, InputsOfKinds, ProgramsOfKinds, RowsForKinds
    <2>2. p.row = new /\ p.lookups = << >> /\ (p.valid <=> ValidTemplate(new))
      BY <2>1 DEF UpdateTemplate
    <2>3. ValidTemplate(new) => new \in TemplateRow
      BY <2>1 DEF ValidTemplate, PatchedTemplate, TemplateInput, TemplateRow
    <2> QED BY <1>1, <1>3, <2>2, <2>3, RowsForKinds DEF ProgramOk
  <1>4. CASE kind = "inbound"
    <2> DEFINE new == PatchedInbound(row, in)
    <2>1. in \in InboundPatch /\ row \in InboundRow /\ p = UpdateInbound(row, in)
      BY <1>4, InputsOfKinds, ProgramsOfKinds, RowsForKinds
    <2>2. /\ p.row = new /\ (p.valid <=> ValidInbound(new))
          /\ p.lookups = TemplateLookup(in.template, new.protocol)
      BY <2>1 DEF UpdateInbound
    <2>3. /\ new.node = row.node /\ new.protocol \in Protocols
          /\ in.template \in TemplateIds \cup {None, Clear}
          /\ ValidInbound(new) => new \in InboundRow
      BY <2>1 DEF ValidInbound, PatchedInbound, Keep, InboundPatch, InboundRow
    <2>4. TemplateLookup(in.template, new.protocol) \in Seq(LookupRecs)
      BY <2>3, InboundLookups
    <2> HIDE DEF new, p
    <2>5. ProgramOk(kind, p, {row.endpoints}) /\ p.row.node = row.node
      BY <1>4, <2>2, <2>3, <2>4, RowsForKinds DEF ProgramOk
    <2> QED BY <2>5 DEF p
  <1>5. CASE kind = "host"
    <2> DEFINE new == PatchedHost(row, in)
    <2>1. in \in HostInput /\ row \in HostRow /\ p = UpdateHost(row, in)
      BY <1>5, InputsOfKinds, ProgramsOfKinds, RowsForKinds
    <2> DEFINE fits == ValidHost(new) /\ ShapeFits(new)
               lookups == IF in.endpoints = None THEN << >> ELSE EndpointLookups(in.endpoints)
    <2>2. p = [valid |-> fits, row |-> new, lookups |-> lookups]
      BY <2>1 DEF UpdateHost
    <2>3. fits => new \in HostRow
      BY <2>1 DEF PatchedHost, ValidHost, ShapeFits, HostInput, HostRow
    <2>4. /\ in.endpoints = None => new.endpoints = row.endpoints /\ lookups = << >>
          /\ in.endpoints # None => /\ new.endpoints = in.endpoints
                                    /\ in.endpoints \in Seq(Endpoint)
                                    /\ lookups = EndpointLookups(in.endpoints)
      BY <2>1 DEF PatchedHost, HostInput
    <2> HIDE DEF new, p, fits, lookups
    <2>5. EndpointsCovered(new.endpoints, lookups, {row.endpoints}) /\ lookups \in Seq(LookupRecs)
      <3>1. CASE in.endpoints = None
        BY <1>1, <2>4, <3>1 DEF EndpointsCovered
      <3>2. CASE in.endpoints # None
        BY <2>4, <3>2, HostLookups
      <3> QED BY <3>1, <3>2
    <2>6. ProgramOk(kind, p, {row.endpoints})
      BY <1>5, <2>2, <2>3, <2>5, RowsForKinds DEF ProgramOk
    <2> QED BY <1>5, <2>6 DEF p
  <1>6. CASE kind = "plan"
    <2> DEFINE new == PatchedPlan(row, in)
    <2>1. in \in PlanInput /\ row \in PlanRow /\ p = UpdatePlan(row, in)
      BY <1>6, InputsOfKinds, ProgramsOfKinds, RowsForKinds
    <2>2. p.row = new /\ p.lookups = << >> /\ (p.valid <=> ValidPlan(new))
      BY <2>1 DEF UpdatePlan
    <2>3. ValidPlan(new) => new \in PlanRow
      BY <2>1, PlanUnits DEF ValidPlan, PatchedPlan, PlanInput, PlanRow
    <2> QED BY <1>1, <1>6, <2>2, <2>3, RowsForKinds DEF ProgramOk
  <1>7. CASE kind = "user"
    <2> DEFINE new == PatchedUser(row, in)
    <2>1. in \in UserInput /\ row \in UserRow /\ p = UpdateUser(row, in)
      BY <1>7, InputsOfKinds, ProgramsOfKinds, RowsForKinds
    <2>2. p.row = new /\ p.lookups = << >> /\ (p.valid <=> ValidUser(new))
      BY <2>1 DEF UpdateUser
    <2>3. ValidUser(new) => new \in UserRow
      BY <2>1 DEF ValidUser, PatchedUser, UserInput, UserRow
    <2> QED BY <1>1, <1>7, <2>2, <2>3, RowsForKinds DEF ProgramOk
  <1>8. CASE kind = "credential"
    <2>1. in \in CredentialPatch /\ row \in CredentialRow /\ p = RotateCredential(row, in)
      BY <1>8, InputsOfKinds, ProgramsOfKinds, RowsForKinds
    <2>2. p.row \in CredentialRow /\ p.lookups = << >>
      BY <2>1 DEF RotateCredential, CredentialPatch, CredentialRow
    <2> QED BY <1>1, <1>8, <2>2, RowsForKinds DEF ProgramOk
  <1> QED BY <1>2, <1>3, <1>4, <1>5, <1>6, <1>7, <1>8 DEF Kinds

\* A row that is there is read, as a row of its kind.
LEMMA RowsRead ==
  ASSUME store \in Stores, db \in Db(store), NEW kind \in Kinds, NEW id \in Ids(kind)
  PROVE  /\ ReadRow(kind, id) = None <=> ~There(db, kind, id)
         /\ There(db, kind, id) => ReadRow(kind, id) \in RowsFor(kind)
         /\ kind = "inbound" => ReadRow(kind, id) = db.inbounds[id]
         /\ kind = "host" /\ There(db, kind, id) =>
               ReadRow(kind, id).endpoints = Endpoints(store, db, id)
  <1>1. /\ db.nodes \in Table(NodeIds, NodeRow)
        /\ db.templates \in Table(TemplateIds, TemplateRow)
        /\ db.inbounds \in Table(InboundIds, InboundRow)
        /\ db.hosts \in Table(HostIds, StoredHost(store))
        /\ db.endpoints \in [HostIds -> Seq(Endpoint)]
        /\ db.plans \in Table(PlanIds, StoredPlan(store))
        /\ db.users \in Table(UserIds, UserRow)
        /\ db.credentials \in Table(CredentialIds, CredentialRow)
    BY DbFields
  <1>2. CASE kind = "node"
    BY <1>1, <1>2 DEF ReadRow, ReadNode, There, Rows, Ids, RowsFor, Table
  <1>3. CASE kind = "template"
    BY <1>1, <1>3 DEF ReadRow, ReadTemplate, There, Rows, Ids, RowsFor, Table
  <1>4. CASE kind = "inbound"
    BY <1>1, <1>4 DEF ReadRow, ReadInbound, There, Rows, Ids, RowsFor, Table
  <1>5. CASE kind = "host"
    <2>1. /\ ReadRow(kind, id) = ReadHost(store, db, id) /\ id \in HostIds
          /\ There(db, kind, id) <=> db.hosts[id] # None
      BY <1>5 DEF ReadRow, There, Rows, Ids
    <2>2. db.hosts[id] # None => ReadHost(store, db, id) \in HostRow
      BY <1>1, <2>1 DEF ReadHost, StoredHost, HostRow, Table, Stores
    <2>3. db.hosts[id] = None => ReadHost(store, db, id) = None
      BY DEF ReadHost
    <2> QED BY <1>5, <2>1, <2>2, <2>3, NoneIsNothing DEF RowsFor, Endpoints
  <1>6. CASE kind = "plan"
    <2>1. /\ ReadRow(kind, id) = ReadPlan(store, db, id) /\ id \in PlanIds
          /\ There(db, kind, id) <=> db.plans[id] # None
      BY <1>6 DEF ReadRow, There, Rows, Ids
    <2>2. db.plans[id] # None => ReadPlan(store, db, id) \in PlanRow
      <3>1. db.plans[id] # None => db.plans[id] \in StoredPlan(store)
        BY <1>1, <2>1 DEF Table
      <3>2. CASE store = "memory"
        BY <3>1, <3>2 DEF ReadPlan, StoredPlan
      <3>3. CASE store = "pg"
        <4>1. \A row \in PlanColumns : [row EXCEPT !.duration = IntervalToDuration(@)] \in PlanRow
          <5>1. \A iv \in [days : Nat, micros : Nat] : IntervalToDuration(iv) \in Nat
            BY PlanUnits DEF IntervalToDuration, NsPerDay
          <5> QED BY <5>1 DEF PlanColumns, PlanRow
        <4> QED BY <3>1, <3>3, <4>1 DEF ReadPlan, StoredPlan
      <3> QED BY <3>2, <3>3 DEF Stores
    <2>3. db.plans[id] = None => ReadPlan(store, db, id) = None
      BY DEF ReadPlan
    <2> QED BY <1>6, <2>1, <2>2, <2>3, NoneIsNothing DEF RowsFor
  <1>7. CASE kind = "user"
    BY <1>1, <1>7 DEF ReadRow, ReadUser, There, Rows, Ids, RowsFor, Table
  <1>8. CASE kind = "credential"
    BY <1>1, <1>8 DEF ReadRow, ReadCredential, There, Rows, Ids, RowsFor, Table
  <1> QED BY <1>2, <1>3, <1>4, <1>5, <1>6, <1>7, <1>8 DEF Kinds

-----------------------------------------------------------------------------
(* What a request may rely on, step by step.                               *)

LEMMA RowsTyped ==
  ASSUME NEW kind \in Kinds
  PROVE  /\ RowsFor(kind) \subseteq NodeRow \cup TemplateRow \cup InboundRow \cup HostRow
                                    \cup PlanRow \cup UserRow \cup CredentialRow \cup {None}
         /\ Creates(kind) \cup Updates(kind) \subseteq
               NodeInput \cup TemplateInput \cup InboundInput \cup InboundPatch
                 \cup HostInput \cup PlanInput \cup UserInput
                 \cup CredentialInput \cup CredentialPatch \cup {None}
         /\ \A id \in Ids(kind) : id \in (UNION {Ids(k) : k \in Kinds}) \cup {None}
  <1>1. RowsFor(kind) \subseteq NodeRow \cup TemplateRow \cup InboundRow \cup HostRow
                                  \cup PlanRow \cup UserRow \cup CredentialRow \cup {None}
    BY RowsForKinds DEF Kinds
  <1>2. Creates(kind) \cup Updates(kind) \subseteq
               NodeInput \cup TemplateInput \cup InboundInput \cup InboundPatch
                 \cup HostInput \cup PlanInput \cup UserInput
                 \cup CredentialInput \cup CredentialPatch \cup {None}
    BY InputsOfKinds DEF Kinds
  <1> QED BY <1>1, <1>2

\* The sets the fields of a request are from, each as a whole.
Steps == {"idle", "load", "lookup", "write", "reread", "record", "done"}
RequestKinds == Kinds \cup {None}
RequestOps == Ops \cup {None}
RequestIds == (UNION {Ids(kind) : kind \in Kinds}) \cup {None}
RequestInputs == NodeInput \cup TemplateInput \cup InboundInput \cup InboundPatch
                   \cup HostInput \cup PlanInput \cup UserInput
                   \cup CredentialInput \cup CredentialPatch \cup {None}
RequestRows == NodeRow \cup TemplateRow \cup InboundRow \cup HostRow \cup PlanRow
                 \cup UserRow \cup CredentialRow \cup {None}
Truth == BOOLEAN

LEMMA RequestIs ==
  /\ Request = [pc : Steps, kind : RequestKinds, op : RequestOps, id : RequestIds,
                in : RequestInputs, row : RequestRows, lookups : Seq(LookupRecs),
                err : Errors, wrote : Truth, announced : Truth]
  /\ Steps = {"idle", "load", "lookup", "write", "reread", "record", "done"}
  /\ TRUE \in Truth /\ FALSE \in Truth
BY DEF Request, Steps, RequestKinds, RequestOps, RequestIds, RequestInputs, RequestRows,
       LookupRecs, Truth

LEMMA RequestFields ==
  ASSUME NEW q \in Request
  PROVE  /\ q.pc \in {"idle", "load", "lookup", "write", "reread", "record", "done"}
         /\ q.lookups \in Seq(LookupRecs) /\ q.err \in Errors
         /\ q.wrote \in BOOLEAN /\ q.announced \in BOOLEAN
BY DEF Request, LookupRecs

\* The facts about the others that a step of one request needs.
LEMMA InvFacts ==
  ASSUME CatalogInv
  PROVE  /\ store \in Stores /\ db \in Db(store) /\ reqs \in [Requests -> Request]
         /\ CatalogOk(store, db) /\ KeysHold(store, db) /\ ReferencesHold(store, db)
         /\ DeletedIsGone(db, deleted) /\ HostsSound(store, db, deleted)
         /\ \A r \in Requests : RequestOk(db, deleted, reqs[r])
         /\ OneCreator
         /\ deleted \subseteq RowName
BY DEF CatalogInv, TypeOK, KeysNameOneRow, ReferencesResolve, CatalogOk, ReferencesHold,
       ForeignKeysHold

\* A step that moves a request on and may record what it did.
LEMMA RequestMovesOn ==
  ASSUME CatalogInv, NEW r \in Requests, NEW q \in Request,
         reqs' = [reqs EXCEPT ![r] = q], UNCHANGED <<store, db, deleted, carried>>,
         made' \in 0 .. MaxRequests, log' \in Seq(Logged),
         \A lost \in unlogged' : lost[1] \in Ops /\ <<lost[2], lost[3]>> \in RowName,
         RequestOk(db, deleted, q),
         Pending(q) /\ q.op = "create" =>
            \/ /\ Pending(reqs[r]) /\ reqs[r].op = "create"
               /\ <<reqs[r].kind, reqs[r].id>> = <<q.kind, q.id>>
            \/ \A o \in Requests \ {r} : Pending(reqs[o]) =>
                  <<reqs[o].kind, reqs[o].id>> # <<q.kind, q.id>>
  PROVE  CatalogInv'
  <1>1. /\ reqs \in [Requests -> Request] /\ reqs' \in [Requests -> Request]
        /\ reqs'[r] = q /\ \A o \in Requests \ {r} : reqs'[o] = reqs[o]
    BY InvFacts
  <1>2. store' = store /\ db' = db /\ deleted' = deleted /\ carried' = carried
    OBVIOUS
  <1>3. TypeOK'
    BY <1>1, <1>2 DEF CatalogInv, TypeOK
  <1>4. KeysNameOneRow' /\ ReferencesResolve'
    BY <1>2 DEF CatalogInv, KeysNameOneRow, ReferencesResolve
  <1>5. DeletedIsGone(db', deleted') /\ HostsSound(store', db', deleted')
    BY <1>2 DEF CatalogInv
  <1>6. \A o \in Requests : RequestOk(db', deleted', reqs'[o])
    BY <1>1, <1>2, InvFacts
  <1>7. OneCreator'
    <2> SUFFICES ASSUME NEW a \in Requests, NEW b \in Requests,
                        Pending(reqs'[a]), reqs'[a].op = "create",
                        Pending(reqs'[b]), reqs'[b].op = "create",
                        <<reqs'[a].kind, reqs'[a].id>> = <<reqs'[b].kind, reqs'[b].id>>
                 PROVE  a = b
      BY DEF OneCreator
    <2>1. CASE a # r /\ b # r
      BY <1>1, <2>1, InvFacts DEF OneCreator
    <2>2. CASE a = r /\ b # r
      BY <1>1, <2>2, InvFacts DEF OneCreator
    <2>3. CASE a # r /\ b = r
      BY <1>1, <2>3, InvFacts DEF OneCreator
    <2> QED BY <2>1, <2>2, <2>3
  <1> QED BY <1>3, <1>4, <1>5, <1>6, <1>7 DEF CatalogInv

\* A step that only moves a request on.
LEMMA RequestMoves ==
  ASSUME CatalogInv, NEW r \in Requests, NEW q \in Request,
         reqs' = [reqs EXCEPT ![r] = q], UNCHANGED <<store, db, log, ghosts>>,
         made' \in 0 .. MaxRequests, RequestOk(db, deleted, q),
         Pending(q) /\ q.op = "create" =>
            \/ /\ Pending(reqs[r]) /\ reqs[r].op = "create"
               /\ <<reqs[r].kind, reqs[r].id>> = <<q.kind, q.id>>
            \/ \A o \in Requests \ {r} : Pending(reqs[o]) =>
                  <<reqs[o].kind, reqs[o].id>> # <<q.kind, q.id>>
  PROVE  CatalogInv'
  <1>1. /\ UNCHANGED <<store, db, deleted, carried>> /\ log' = log /\ unlogged' = unlogged
    BY DEF ghosts
  <1>2. /\ log' \in Seq(Logged)
        /\ \A lost \in unlogged' : lost[1] \in Ops /\ <<lost[2], lost[3]>> \in RowName
    BY <1>1 DEF CatalogInv, TypeOK
  <1> QED BY <1>1, <1>2, RequestMovesOn

\* What the validation of a request makes of it.
LEMMA ValidatedMoves ==
  ASSUME NEW d, NEW del, NEW q \in Request, q.pc \in {"idle", "load"}, q.lookups = << >>,
         q.err = "none", ~q.wrote, NEW program, NEW known,
         <<q.kind, q.id>> \in RowName, q.op \in {"create", "update"}, InputOf(q),
         ProgramOk(q.kind, program, known),
         program.valid /\ q.kind = "host" /\ program.row.endpoints \in known =>
            \A k \in DOMAIN program.row.endpoints : Sound(d, del, program.row.endpoints[k]),
         q.op = "create" => ~There(d, q.kind, q.id) /\ <<q.kind, q.id>> \notin del,
         q.op = "update" => There(d, q.kind, q.id),
         q.op = "update" /\ q.kind = "inbound" => program.row.node = d.inbounds[q.id].node
  PROVE  /\ Validated(q, program) \in Request /\ RequestOk(d, del, Validated(q, program))
  <1> DEFINE q2 == Validated(q, program)
             pc == IF program.lookups = << >> THEN "write" ELSE "lookup"
  <1>1. q.kind \in Kinds /\ q.id \in Ids(q.kind)
    BY RowNames
  <1>2. CASE program.valid
    <2>1. q2 = [q EXCEPT !.pc = pc, !.row = program.row, !.lookups = program.lookups]
      BY <1>2 DEF Validated
    <2>2. /\ program.row \in RowsFor(q.kind) /\ program.lookups \in Seq(LookupRecs)
          /\ q.kind = "host" => EndpointsCovered(program.row.endpoints, program.lookups, known)
      BY <1>2 DEF ProgramOk
    <2>3. q2 \in Request
      <3>1. program.row \in NodeRow \cup TemplateRow \cup InboundRow \cup HostRow
                             \cup PlanRow \cup UserRow \cup CredentialRow \cup {None}
        BY <1>1, <2>2, RowsTyped
      <3> QED BY <2>1, <2>2, <3>1, ZenonT(40) DEF Request, LookupRecs
    <2>4. /\ q2.pc = pc /\ q2.row = program.row /\ q2.lookups = program.lookups
          /\ q2.kind = q.kind /\ q2.id = q.id /\ q2.op = q.op /\ q2.in = q.in
          /\ q2.err = "none" /\ ~q2.wrote
      BY <2>1 DEF Request
    <2>5. pc \in {"lookup", "write"} /\ (pc = "lookup" <=> program.lookups # << >>)
      OBVIOUS
    <2> HIDE DEF q2, pc
    <2>6. Addressed(q2)
      BY <2>4 DEF Addressed, Ops, InputOf
    <2>7. Built(q2)
      BY <2>2, <2>4 DEF Built
    <2>8. InStep(q2)
      BY <2>4, <2>5 DEF InStep
    <2>9. RowOrGone(d, del, q2) /\ RowIsNew(d, del, q2) /\ NodeKept(d, q2) /\ AnswerOk(del, q2)
      BY <2>4, <2>5 DEF RowOrGone, RowIsNew, NodeKept, AnswerOk
    <2>10. EndpointsSeen(d, del, q2)
      BY <1>2, <2>2, <2>4 DEF EndpointsSeen, EndpointsCovered
    <2> QED BY <2>3, <2>4, <2>5, <2>6, <2>7, <2>8, <2>9, <2>10 DEF RequestOk, q2
  <1>3. CASE ~program.valid
    <2>1. q2 = [q EXCEPT !.pc = "done", !.err = "invalid"]
      BY <1>3 DEF Validated
    <2>2. q2 \in Request
      <3>1. "done" \in {"idle", "load", "lookup", "write", "reread", "record", "done"}
            /\ "invalid" \in Errors
        BY DEF Errors
      <3>2. [q EXCEPT !.pc = "done", !.err = "invalid"] \in Request
        BY <3>1, ZenonT(40) DEF Request
      <3> QED BY <2>1, <3>2
    <2>3. /\ q2.pc = "done" /\ q2.err = "invalid" /\ q2.lookups = << >> /\ ~q2.wrote
          /\ q2.kind = q.kind /\ q2.id = q.id /\ q2.op = q.op /\ q2.in = q.in
      BY <2>1 DEF Request
    <2> HIDE DEF q2
    <2>4. Addressed(q2)
      BY <2>3 DEF Addressed, Ops, InputOf
    <2>5. InStep(q2)
      BY <2>3 DEF InStep
    <2>6. /\ Built(q2) /\ RowOrGone(d, del, q2) /\ RowIsNew(d, del, q2)
          /\ NodeKept(d, q2) /\ AnswerOk(del, q2) /\ EndpointsSeen(d, del, q2)
      BY <2>3 DEF Built, RowOrGone, RowIsNew, NodeKept, AnswerOk, EndpointsSeen, Pending
    <2> QED BY <2>2, <2>3, <2>4, <2>5, <2>6 DEF RequestOk, q2
  <1> QED BY <1>2, <1>3

LEMMA ValidatedFields ==
  \A q \in Request : \A program :
     /\ Validated(q, program).op = q.op /\ Validated(q, program).kind = q.kind
     /\ Validated(q, program).id = q.id
BY DEF Validated, Request

\* A validation refuses in one way.
LEMMA ValidatedErr ==
  ASSUME NEW q, NEW program, "err" \in DOMAIN q
  PROVE  Validated(q, program).err \in {q.err, "invalid"}
BY DEF Validated

-----------------------------------------------------------------------------
(* The steps before a write.                                               *)

Begins(r) == \E kind \in Kinds : \E id \in Ids(kind) :
    \/ \E in \in Creates(kind) : BeginCreate(r, kind, id, in)
    \/ \E in \in Updates(kind) : BeginChange(r, kind, "update", id, in)
    \/ BeginChange(r, kind, "delete", id, None)

LEMMA BeginsAreBegins ==
  ASSUME NEW r, \/ BeginNode(r) \/ BeginTemplate(r) \/ BeginInbound(r) \/ BeginHost(r)
                \/ BeginPlan(r) \/ BeginUser(r) \/ BeginCredential(r)
  PROVE  Begins(r)
  <1>1. CASE BeginNode(r)
    <2>1. "node" \in Kinds /\ Ids("node") = NodeIds
      BY RowsOfKinds DEF Kinds
    <2> QED BY <1>1, <2>1, CatalogInputs, InputsOfKinds DEF BeginNode, Begins
  <1>2. CASE BeginTemplate(r)
    <2>1. "template" \in Kinds /\ Ids("template") = TemplateIds
      BY RowsOfKinds DEF Kinds
    <2> QED BY <1>2, <2>1, CatalogInputs, InputsOfKinds DEF BeginTemplate, Begins
  <1>3. CASE BeginInbound(r)
    <2>1. "inbound" \in Kinds /\ Ids("inbound") = InboundIds
      BY RowsOfKinds DEF Kinds
    <2> QED BY <1>3, <2>1, CatalogInputs, InputsOfKinds DEF BeginInbound, Begins
  <1>4. CASE BeginHost(r)
    <2>1. "host" \in Kinds /\ Ids("host") = HostIds
      BY RowsOfKinds DEF Kinds
    <2> QED BY <1>4, <2>1, CatalogInputs, InputsOfKinds DEF BeginHost, Begins
  <1>5. CASE BeginPlan(r)
    <2>1. "plan" \in Kinds /\ Ids("plan") = PlanIds
      BY RowsOfKinds DEF Kinds
    <2> QED BY <1>5, <2>1, CatalogInputs, InputsOfKinds DEF BeginPlan, Begins
  <1>6. CASE BeginUser(r)
    <2>1. "user" \in Kinds /\ Ids("user") = UserIds
      BY RowsOfKinds DEF Kinds
    <2> QED BY <1>6, <2>1, CatalogInputs, InputsOfKinds DEF BeginUser, Begins
  <1>7. CASE BeginCredential(r)
    <2>1. "credential" \in Kinds /\ Ids("credential") = CredentialIds
      BY RowsOfKinds DEF Kinds
    <2> QED BY <1>7, <2>1, CatalogInputs, InputsOfKinds DEF BeginCredential, Begins
  <1> QED BY <1>1, <1>2, <1>3, <1>4, <1>5, <1>6, <1>7

Opened(kind, op, id, in) ==
    [Idle EXCEPT !.kind = kind, !.op = op, !.id = id, !.in = in]

LEMMA OpenedFields ==
  \A kind, op, id, in :
     LET q == Opened(kind, op, id, in) IN
     /\ q.pc = "idle" /\ q.kind = kind /\ q.op = op /\ q.id = id /\ q.in = in
     /\ q.lookups = << >> /\ q.err = "none" /\ q.wrote = FALSE
     /\ "err" \in DOMAIN q
BY DEF Opened, Idle

LEMMA OpenedTyped ==
  ASSUME NEW kind \in Kinds, NEW id \in Ids(kind), NEW op \in Ops,
         NEW in \in Creates(kind) \cup Updates(kind) \cup {None}
  PROVE  Opened(kind, op, id, in) \in Request
  <1>1. /\ in \in NodeInput \cup TemplateInput \cup InboundInput \cup InboundPatch
                    \cup HostInput \cup PlanInput \cup UserInput
                    \cup CredentialInput \cup CredentialPatch \cup {None}
        /\ id \in (UNION {Ids(k) : k \in Kinds}) \cup {None}
    BY RowsTyped
  <1>2. /\ << >> \in Seq(LookupRecs) /\ "none" \in Errors
    BY DEF Errors
  <1> QED BY <1>1, <1>2 DEF Idle, Request, LookupRecs, Opened

LEMMA CreateBegins ==
  ASSUME CatalogInv, NEW r \in Requests, NEW kind \in Kinds, NEW id \in Ids(kind),
         NEW in \in Creates(kind), BeginCreate(r, kind, id, in)
  PROVE  CatalogInv'
  <1> DEFINE q == [Idle EXCEPT !.kind = kind, !.op = "create", !.id = id, !.in = in]
             program == Create(kind, in)
             q2 == Validated(q, program)
  <1>1. /\ q \in Request /\ q.pc = "idle" /\ q.kind = kind /\ q.op = "create" /\ q.id = id
        /\ q.in = in /\ q.lookups = << >> /\ q.err = "none" /\ q.wrote = FALSE
    <2>1. "create" \in Ops
      BY DEF Ops
    <2>2. q = Opened(kind, "create", id, in)
      BY DEF Opened
    <2> HIDE DEF q
    <2> QED BY <2>1, <2>2, OpenedFields, OpenedTyped
  <1>2. /\ made < MaxRequests /\ made' = made + 1 /\ reqs' = [reqs EXCEPT ![r] = q2]
        /\ UNCHANGED <<store, db, log, ghosts>> /\ Fresh(kind, id)
    BY DEF BeginCreate, Accepts
  <1> HIDE DEF q, program
  <1>3. <<kind, id>> \in RowName /\ InputOf(q)
    BY <1>1, RowNames DEF InputOf
  <1>4. ProgramOk(kind, program, {})
    BY CreatePrograms DEF program
  <1>5. ~There(db, kind, id) /\ <<kind, id>> \notin deleted
    BY <1>2 DEF Fresh, There
  <1>6. /\ q2 \in Request /\ RequestOk(db, deleted, q2)
        /\ q2.op = q.op /\ q2.kind = q.kind /\ q2.id = q.id
    <2>1. q.op = "create" => ~There(db, q.kind, q.id) /\ <<q.kind, q.id>> \notin deleted
      BY <1>1, <1>5
    <2> DEFINE known == {}
    <2>2. /\ q.op = "update" => There(db, q.kind, q.id)
          /\ q.op = "update" /\ q.kind = "inbound" => program.row.node = db.inbounds[q.id].node
          /\ program.valid /\ q.kind = "host" /\ program.row.endpoints \in known =>
                \A k \in DOMAIN program.row.endpoints : Sound(db, deleted, program.row.endpoints[k])
      BY <1>1
    <2>3. /\ q.pc \in {"idle", "load"} /\ <<q.kind, q.id>> \in RowName
          /\ q.op \in {"create", "update"} /\ ProgramOk(q.kind, program, known)
          /\ q2 = Validated(q, program)
      BY <1>1, <1>3, <1>4
    <2> HIDE DEF known, q2
    <2>4. /\ q \in Request /\ q.lookups = << >> /\ q.err = "none" /\ ~q.wrote /\ InputOf(q)
      BY <1>1, <1>3
    <2>5. Validated(q, program) \in Request
      BY <2>1, <2>2, <2>3, <2>4, ValidatedMoves
    <2>6. RequestOk(db, deleted, Validated(q, program))
      BY <2>1, <2>2, <2>3, <2>4, ValidatedMoves
    <2>7. /\ Validated(q, program).op = q.op /\ Validated(q, program).kind = q.kind
          /\ Validated(q, program).id = q.id
      BY <2>4, ValidatedFields
    <2> QED BY <2>3, <2>5, <2>6, <2>7
  <1>7. made' \in 0 .. MaxRequests
    BY <1>2, CatalogInputs DEF CatalogInv, TypeOK
  <1>8. \A o \in Requests : Pending(reqs[o]) => <<reqs[o].kind, reqs[o].id>> # <<kind, id>>
    BY <1>2 DEF Fresh, Pending
  <1> HIDE DEF q2
  <1> QED BY <1>1, <1>2, <1>6, <1>7, <1>8, RequestMoves

LEMMA ChangeBegins ==
  ASSUME CatalogInv, NEW r \in Requests, NEW kind \in Kinds, NEW id \in Ids(kind),
         NEW op \in {"update", "delete"}, NEW in,
         op = "update" => in \in Updates(kind), op = "delete" => in = None,
         BeginChange(r, kind, op, id, in)
  PROVE  CatalogInv'
  <1> DEFINE p == [Idle EXCEPT !.kind = kind, !.op = op, !.id = id, !.in = in]
             q == [Idle EXCEPT !.pc = "load", !.kind = kind, !.op = op, !.id = id, !.in = in]
  <1>1. /\ p \in Request /\ p.kind = kind /\ p.op = op /\ p.id = id
        /\ p.in = in /\ p.lookups = << >> /\ p.err = "none" /\ p.wrote = FALSE
    <2>1. op \in Ops /\ in \in Creates(kind) \cup Updates(kind) \cup {None}
      BY DEF Ops
    <2>2. p = Opened(kind, op, id, in)
      BY DEF Opened
    <2> HIDE DEF p
    <2> QED BY <2>1, <2>2, OpenedFields, OpenedTyped
  <1>2. q = [p EXCEPT !.pc = "load"]
    BY DEF Idle
  <1>3. /\ made < MaxRequests /\ made' = made + 1 /\ reqs' = [reqs EXCEPT ![r] = q]
        /\ UNCHANGED <<store, db, log, ghosts>>
    BY DEF BeginChange, Accepts
  <1> HIDE DEF p, q
  <1>4. q \in Request
    BY <1>1, <1>2 DEF Request
  <1>5. /\ q.pc = "load" /\ q.kind = kind /\ q.op = op /\ q.id = id
        /\ q.in = in /\ q.lookups = << >> /\ q.err = "none" /\ ~q.wrote
    BY <1>1, <1>2 DEF Request
  <1>6. Addressed(q)
    BY <1>5, RowNames DEF Addressed, Ops, InputOf
  <1>7. InStep(q)
    BY <1>5 DEF InStep
  <1>8. /\ Built(q) /\ RowOrGone(db, deleted, q) /\ RowIsNew(db, deleted, q)
        /\ NodeKept(db, q) /\ AnswerOk(deleted, q) /\ EndpointsSeen(db, deleted, q)
        /\ ~Pending(q)
    BY <1>5 DEF Built, RowOrGone, RowIsNew, NodeKept, AnswerOk, EndpointsSeen, Pending
  <1>9. made' \in 0 .. MaxRequests
    BY <1>3, CatalogInputs DEF CatalogInv, TypeOK
  <1> QED BY <1>3, <1>4, <1>6, <1>7, <1>8, <1>9, RequestMoves DEF RequestOk

LEMMA BeginKeeps ==
  ASSUME CatalogInv, NEW r \in Requests, Begins(r)
  PROVE  CatalogInv'
  <1>1. PICK kind \in Kinds : \E id \in Ids(kind) :
           \/ \E in \in Creates(kind) : BeginCreate(r, kind, id, in)
           \/ \E in \in Updates(kind) : BeginChange(r, kind, "update", id, in)
           \/ BeginChange(r, kind, "delete", id, None)
    BY DEF Begins
  <1>2. PICK id \in Ids(kind) :
           \/ \E in \in Creates(kind) : BeginCreate(r, kind, id, in)
           \/ \E in \in Updates(kind) : BeginChange(r, kind, "update", id, in)
           \/ BeginChange(r, kind, "delete", id, None)
    BY <1>1
  <1>3. CASE \E in \in Creates(kind) : BeginCreate(r, kind, id, in)
    BY <1>3, CreateBegins
  <1>4. CASE \E in \in Updates(kind) : BeginChange(r, kind, "update", id, in)
    BY <1>4, ChangeBegins
  <1>5. CASE BeginChange(r, kind, "delete", id, None)
    BY <1>5, ChangeBegins
  <1> QED BY <1>2, <1>3, <1>4, <1>5

LEMMA LoadKeeps ==
  ASSUME CatalogInv, NEW r \in Requests, Load(r)
  PROVE  CatalogInv'
  <1> DEFINE q == reqs[r]
             row == ReadRow(q.kind, q.id)
  <1>1. /\ q \in Request /\ RequestOk(db, deleted, q)
        /\ store \in Stores /\ db \in Db(store) /\ HostsSound(store, db, deleted)
    BY InvFacts
  <1>2. /\ q.pc = "load" /\ UNCHANGED <<store, db, made, log, ghosts>>
        /\ reqs' = [reqs EXCEPT ![r] =
              CASE row = None -> [q EXCEPT !.pc = "done", !.err = "notfound"]
                [] row # None /\ q.op = "update" ->
                      Validated(q, Update(q.kind, row, q.in))
                [] OTHER -> [q EXCEPT !.pc = "write"]]
    BY DEF Load
  <1> HIDE DEF q, row
  <1>3. /\ q.kind \in Kinds /\ q.id \in Ids(q.kind) /\ <<q.kind, q.id>> \in RowName
        /\ q.op \in {"update", "delete"} /\ InputOf(q)
    BY <1>1, <1>2, RowNames DEF RequestOk, Addressed, InStep, Ops
  <1>4. q.lookups = << >> /\ q.err = "none" /\ ~q.wrote
    BY <1>1, <1>2 DEF RequestOk, InStep
  <1>5. /\ row = None <=> ~There(db, q.kind, q.id)
        /\ row # None => row \in RowsFor(q.kind)
        /\ q.kind = "inbound" => row = db.inbounds[q.id]
        /\ q.kind = "host" /\ row # None => row.endpoints = Endpoints(store, db, q.id)
    BY <1>1, <1>3, RowsRead DEF row
  <1>6. made' \in 0 .. MaxRequests
    BY <1>2 DEF CatalogInv, TypeOK
  <1>7. CASE row = None
    <2> DEFINE q2 == [q EXCEPT !.pc = "done", !.err = "notfound"]
    <2>1. reqs' = [reqs EXCEPT ![r] = q2]
      BY <1>2, <1>7
    <2>2. q2 \in Request
      BY <1>1, RequestIs DEF Errors
    <2>3. /\ q2.pc = "done" /\ q2.err = "notfound" /\ q2.lookups = << >> /\ ~q2.wrote
          /\ q2.kind = q.kind /\ q2.id = q.id /\ q2.op = q.op /\ q2.in = q.in
      BY <1>1, <1>4 DEF Request
    <2> HIDE DEF q2
    <2>4. Addressed(q2) /\ InStep(q2)
      BY <1>3, <2>3 DEF Addressed, InStep, Ops, InputOf
    <2>5. /\ Built(q2) /\ RowOrGone(db, deleted, q2) /\ RowIsNew(db, deleted, q2)
          /\ NodeKept(db, q2) /\ AnswerOk(deleted, q2) /\ EndpointsSeen(db, deleted, q2)
          /\ ~Pending(q2)
      BY <2>3 DEF Built, RowOrGone, RowIsNew, NodeKept, AnswerOk, EndpointsSeen, Pending
    <2> QED BY <1>2, <1>6, <2>1, <2>2, <2>4, <2>5, RequestMoves DEF RequestOk
  <1>8. CASE row # None /\ q.op = "update"
    <2> DEFINE program == Update(q.kind, row, q.in)
               q2 == Validated(q, program)
    <2>1. reqs' = [reqs EXCEPT ![r] = q2]
      BY <1>2, <1>8
    <2>2. q.in \in Updates(q.kind) /\ row \in RowsFor(q.kind)
      BY <1>3, <1>5, <1>8 DEF InputOf
    <2>3. /\ ProgramOk(q.kind, program, {row.endpoints})
          /\ q.kind = "inbound" => program.row.node = row.node
      BY <1>3, <2>2, UpdatePrograms
    <2>4. ASSUME q.kind = "host" PROVE \A k \in DOMAIN row.endpoints : Sound(db, deleted, row.endpoints[k])
      <3>1. row.endpoints = Endpoints(store, db, q.id) /\ There(db, "host", q.id) /\ q.id \in HostIds
        BY <1>3, <1>5, <1>8, <2>4, RowsOfKinds
      <3>2. q.id \in Live(db.hosts)
        BY <3>1, <1>1, DbFields, RowsOfKinds DEF There, Live, Table
      <3> QED BY <1>1, <3>1, <3>2 DEF HostsSound
    <2> HIDE DEF program
    <2>5. /\ q2 \in Request /\ RequestOk(db, deleted, q2) /\ q2.op = q.op
      <3> DEFINE known == {row.endpoints}
      <3>1. program.valid /\ q.kind = "host" /\ program.row.endpoints \in known =>
              \A k \in DOMAIN program.row.endpoints : Sound(db, deleted, program.row.endpoints[k])
        BY <2>4
      <3>2. /\ q.op = "create" => ~There(db, q.kind, q.id) /\ <<q.kind, q.id>> \notin deleted
            /\ q.op = "update" => There(db, q.kind, q.id)
            /\ q.op = "update" /\ q.kind = "inbound" => program.row.node = db.inbounds[q.id].node
        BY <1>5, <1>8, <2>3
      <3>3. /\ q.pc \in {"idle", "load"} /\ q.op \in {"create", "update"} /\ q2 = Validated(q, program)
            /\ ProgramOk(q.kind, program, known)
        BY <1>2, <1>8, <2>3
      <3> HIDE DEF q2, known
      <3>4. Validated(q, program) \in Request /\ RequestOk(db, deleted, Validated(q, program))
        BY <1>1, <1>3, <1>4, <3>1, <3>2, <3>3, ValidatedMoves
      <3>5. Validated(q, program).op = q.op
        BY <1>1, ValidatedFields
      <3> QED BY <3>3, <3>4, <3>5
    <2> HIDE DEF q2
    <2> QED BY <1>2, <1>6, <1>8, <2>1, <2>5, RequestMoves
  <1>9. CASE row # None /\ q.op = "delete"
    <2> DEFINE q2 == [q EXCEPT !.pc = "write"]
    <2>1. reqs' = [reqs EXCEPT ![r] = q2]
      BY <1>2, <1>9
    <2>2. q2 \in Request
      BY <1>1 DEF Request
    <2>3. /\ q2.pc = "write" /\ q2.err = "none" /\ q2.lookups = << >> /\ ~q2.wrote
          /\ q2.kind = q.kind /\ q2.id = q.id /\ q2.op = "delete" /\ q2.in = q.in
      BY <1>1, <1>4, <1>9 DEF Request
    <2> HIDE DEF q2
    <2>4. Addressed(q2) /\ InStep(q2)
      BY <1>3, <2>3, <1>9 DEF Addressed, InStep, Ops, InputOf
    <2>5. /\ Built(q2) /\ RowOrGone(db, deleted, q2) /\ RowIsNew(db, deleted, q2)
          /\ NodeKept(db, q2) /\ AnswerOk(deleted, q2) /\ EndpointsSeen(db, deleted, q2)
      BY <1>5, <1>9, <2>3 DEF Built, RowOrGone, RowIsNew, NodeKept, AnswerOk, EndpointsSeen, Pending
    <2> QED BY <1>2, <1>6, <2>1, <2>2, <2>3, <2>4, <2>5, RequestMoves DEF RequestOk
  <1> QED BY <1>3, <1>7, <1>8, <1>9

\* What a lookup finds of an endpoint's inbound is that the endpoint is sound,
\* and it stays sound although the inbound may be deleted after.
LEMMA LookupKeeps ==
  ASSUME CatalogInv, NEW r \in Requests, Lookup(r)
  PROVE  CatalogInv'
  <1> DEFINE q == reqs[r]
             l == q.lookups
  <1>1. q \in Request /\ RequestOk(db, deleted, q)
    BY InvFacts
  <1>2. /\ q.pc = "lookup" /\ UNCHANGED <<store, db, made, log, ghosts>>
        /\ reqs' = [reqs EXCEPT ![r] =
             IF ~Found(Head(l))
             THEN [q EXCEPT !.pc = "done", !.err = "invalid", !.lookups = << >>]
             ELSE [q EXCEPT !.pc = IF Len(l) = 1 THEN "write" ELSE @, !.lookups = Tail(@)]]
    BY DEF Lookup
  <1>3. l \in Seq(LookupRecs) /\ l # << >>
    BY <1>1, <1>2, RequestFields DEF RequestOk, InStep
  <1> HIDE DEF q
  <1>4. /\ <<q.kind, q.id>> \in RowName /\ q.op \in {"create", "update"} /\ InputOf(q)
        /\ q.err = "none" /\ ~q.wrote /\ q.row \in RowsFor(q.kind)
    BY <1>1, <1>2 DEF RequestOk, Addressed, InStep, Ops, Built, Pending
  <1>5. made' \in 0 .. MaxRequests
    BY <1>2 DEF CatalogInv, TypeOK
  <1>6. CASE ~Found(Head(l))
    <2> DEFINE empty == << >>
               q2 == [q EXCEPT !.pc = "done", !.err = "invalid", !.lookups = empty]
    <2>1. reqs' = [reqs EXCEPT ![r] = q2]
      BY <1>2, <1>6
    <2>2. q2 \in Request
      <3>1. empty \in Seq(LookupRecs)
        OBVIOUS
      <3> HIDE DEF empty
      <3> QED BY <1>1, <3>1, RequestIs DEF Errors
    <2>3. /\ q2.pc = "done" /\ q2.err = "invalid" /\ q2.lookups = << >> /\ ~q2.wrote
          /\ q2.kind = q.kind /\ q2.id = q.id /\ q2.op = q.op /\ q2.in = q.in
      BY <1>1, <1>4 DEF Request
    <2> HIDE DEF q2
    <2>4. Addressed(q2) /\ InStep(q2)
      BY <1>4, <2>3 DEF Addressed, InStep, Ops, InputOf
    <2>5. /\ Built(q2) /\ RowOrGone(db, deleted, q2) /\ RowIsNew(db, deleted, q2)
          /\ NodeKept(db, q2) /\ AnswerOk(deleted, q2) /\ EndpointsSeen(db, deleted, q2)
          /\ ~Pending(q2)
      BY <2>3 DEF Built, RowOrGone, RowIsNew, NodeKept, AnswerOk, EndpointsSeen, Pending
    <2> QED BY <1>2, <1>5, <2>1, <2>2, <2>4, <2>5, RequestMoves DEF RequestOk
  <1>7. CASE Found(Head(l))
    <2> DEFINE pc == IF Len(l) = 1 THEN "write" ELSE "lookup"
               q2 == [q EXCEPT !.pc = pc, !.lookups = Tail(l)]
    <2>1. reqs' = [reqs EXCEPT ![r] = q2]
      BY <1>2, <1>7
    <2>2. /\ Tail(l) \in Seq(LookupRecs) /\ Len(Tail(l)) = Len(l) - 1
          /\ \A j \in DOMAIN l : j = 1 \/ (j - 1 \in DOMAIN Tail(l) /\ Tail(l)[j - 1] = l[j])
          /\ l[1] = Head(l) /\ Len(l) \in Nat
      BY <1>3
    <2>3. pc \in {"lookup", "write"} /\ (pc = "lookup" <=> Tail(l) # << >>)
      <3>1. Tail(l) = << >> <=> Len(l) = 1
        <4>1. Tail(l) # << >> => Len(Tail(l)) # 0
          BY <2>2, EmptySeq
        <4>2. Tail(l) = << >> => Len(Tail(l)) = 0
          BY EmptySeq
        <4> QED BY <2>2, <4>1, <4>2
      <3> QED BY <3>1
    <2> HIDE DEF pc
    <2>4. q2 \in Request
      BY <1>1, <2>2, <2>3, ZenonT(40) DEF Request, LookupRecs
    <2>5. /\ q2.pc = pc /\ q2.row = q.row /\ q2.lookups = Tail(l)
          /\ q2.kind = q.kind /\ q2.id = q.id /\ q2.op = q.op /\ q2.in = q.in
          /\ q2.err = "none" /\ ~q2.wrote
      BY <1>1, <1>4 DEF Request
    <2> HIDE DEF q2
    <2>6. Addressed(q2) /\ InStep(q2)
      BY <1>4, <2>3, <2>5 DEF Addressed, InStep, Ops, InputOf
    <2>7. Built(q2) /\ AnswerOk(deleted, q2)
      BY <1>4, <2>3, <2>5 DEF Built, AnswerOk
    <2>8. RowOrGone(db, deleted, q2) /\ RowIsNew(db, deleted, q2) /\ NodeKept(db, q2)
      BY <1>1, <1>2, <2>3, <2>5 DEF RequestOk, RowOrGone, RowIsNew, NodeKept, Pending
    <2>9. EndpointsSeen(db, deleted, q2)
      <3> SUFFICES ASSUME q.kind = "host", NEW k \in DOMAIN q.row.endpoints
                   PROVE  \/ Sound(db, deleted, q.row.endpoints[k])
                          \/ \E j \in DOMAIN Tail(l) : Tail(l)[j] = InboundLookup(q.row.endpoints[k])
        BY <2>5 DEF EndpointsSeen
      <3> DEFINE ep == q.row.endpoints[k]
      <3>1. Sound(db, deleted, ep) \/ \E j \in DOMAIN l : l[j] = InboundLookup(ep)
        BY <1>1, <1>2, <1>4 DEF RequestOk, EndpointsSeen, Pending
      <3>2. ASSUME l[1] = InboundLookup(ep) PROVE Sound(db, deleted, ep)
        <4>1. InboundLookup(ep).what = "inbound" /\ InboundLookup(ep).id = ep.inbound
              /\ InboundLookup(ep).node = ep.node
          BY DEF InboundLookup
        <4> HIDE DEF ep
        <4>2. InboundOnNode(db, ep.inbound, ep.node)
          BY <1>7, <2>2, <3>2, <4>1 DEF Found
        <4> QED BY <4>2 DEF InboundOnNode, Sound
      <3> HIDE DEF ep
      <3>3. ASSUME \E j \in DOMAIN l : l[j] = InboundLookup(ep)
            PROVE  Sound(db, deleted, ep) \/ \E j \in DOMAIN Tail(l) : Tail(l)[j] = InboundLookup(ep)
        <4>1. PICK j \in DOMAIN l : l[j] = InboundLookup(ep)
          BY <3>3
        <4>2. CASE j = 1
          BY <4>1, <4>2, <3>2
        <4>3. CASE j # 1
          BY <4>1, <4>3, <2>2
        <4> QED BY <4>2, <4>3
      <3> QED BY <3>1, <3>3 DEF ep
    <2>10. Pending(q2) => Pending(reqs[r]) /\ reqs[r].op = q2.op
                          /\ <<reqs[r].kind, reqs[r].id>> = <<q2.kind, q2.id>>
      BY <1>2, <2>5 DEF Pending, q
    <2> QED BY <1>2, <1>5, <2>1, <2>4, <2>6, <2>7, <2>8, <2>9, <2>10, RequestMoves DEF RequestOk
  <1> QED BY <1>6, <1>7

-----------------------------------------------------------------------------
(* What a write does to what others rely on.                               *)

\* Time passes: rows go and are known to be gone, and inbounds keep to nodes.
Aged(d, del, e, del2) ==
    /\ del \subseteq del2
    /\ DeletedIsGone(e, del2)
    /\ \A K \in Kinds : \A i \in Ids(K) :
          There(d, K, i) => There(e, K, i) \/ <<K, i>> \in del2
    /\ InboundsStay(d, e)

LEMMA RowsDomain ==
  ASSUME NEW s, NEW d \in Db(s), NEW K \in Kinds
  PROVE  DOMAIN Rows(d, K) = Ids(K)
  <1>1. /\ DOMAIN d.nodes = NodeIds /\ DOMAIN d.templates = TemplateIds
        /\ DOMAIN d.inbounds = InboundIds /\ DOMAIN d.hosts = HostIds
        /\ DOMAIN d.plans = PlanIds /\ DOMAIN d.users = UserIds
        /\ DOMAIN d.credentials = CredentialIds
    BY DbFields DEF Table
  <1> QED BY <1>1, RowsOfKinds DEF Kinds

LEMMA GoneRows ==
  ASSUME NEW s, NEW d \in Db(s), NEW e \in Db(s)
  PROVE  /\ GoneBetween(d, e) \subseteq RowName
         /\ \A K \in Kinds : \A i \in Ids(K) :
               <<K, i>> \in GoneBetween(d, e) <=> There(d, K, i) /\ ~There(e, K, i)
  <1>1. \A K \in Kinds : DOMAIN Rows(d, K) = Ids(K) /\ DOMAIN Rows(e, K) = Ids(K)
    BY RowsDomain
  <1>2. \A x : x \in GoneBetween(d, e) <=>
                 \E K \in Kinds : \E i \in Live(Rows(d, K)) \ Live(Rows(e, K)) : x = <<K, i>>
    BY DEF GoneBetween
  <1>3. \A K \in Kinds : \A i : i \in Live(Rows(d, K)) \ Live(Rows(e, K))
                                  <=> i \in Ids(K) /\ There(d, K, i) /\ ~There(e, K, i)
    BY <1>1 DEF Live, There
  <1> QED BY <1>2, <1>3, RowNames

LEMMA WriteAges ==
  ASSUME NEW s \in Stores, NEW d, NEW del, NEW e, NEW del2, NEW q, NEW err,
         CatalogOk(s, d), CatalogOk(s, e),
         RowEffect(d, e, q.kind, q.op, q.id, err), InboundsStay(d, e),
         DeletedIsGone(d, del), del \subseteq RowName,
         q.pc = "write", RowIsNew(d, del, q), q.kind \in Kinds, q.id \in Ids(q.kind),
         del \cup GoneBetween(d, e) \subseteq del2, del2 \subseteq del \cup GoneBetween(d, e)
  PROVE  /\ Aged(d, del, e, del2)
         /\ del2 \subseteq RowName
         /\ \A K \in Kinds : \A i \in Ids(K) :
               There(e, K, i) => \/ There(d, K, i)
                                 \/ <<K, i>> = <<q.kind, q.id>> /\ q.op = "create"
         /\ \A K \in Kinds : \A i \in Ids(K) :
               <<K, i>> \in del2 => <<K, i>> \in del \/ There(d, K, i)
  <1>1. /\ GoneBetween(d, e) \subseteq RowName
        /\ \A K \in Kinds : \A i \in Ids(K) :
              <<K, i>> \in GoneBetween(d, e) <=> There(d, K, i) /\ ~There(e, K, i)
    BY GoneRows DEF CatalogOk
  <1>2. \A K \in Kinds : \A i \in Ids(K) :
           There(e, K, i) => There(d, K, i) \/ <<K, i>> = <<q.kind, q.id>>
    BY DEF RowEffect
  <1>3. There(e, q.kind, q.id) /\ ~There(d, q.kind, q.id) => q.op = "create"
    <2>1. CASE err = "none"
      BY <2>1 DEF RowEffect
    <2>2. CASE err # "none"
      BY <2>2 DEF RowEffect, There
    <2> QED BY <2>1, <2>2
  <1>4. \A K \in Kinds : \A i \in Ids(K) :
           There(e, K, i) => \/ There(d, K, i)
                             \/ <<K, i>> = <<q.kind, q.id>> /\ q.op = "create"
    BY <1>2, <1>3
  <1>5. q.op = "create" => <<q.kind, q.id>> \notin del
    BY DEF RowIsNew, Pending
  <1>6. del2 \subseteq RowName /\ del \subseteq del2
    BY <1>1
  <1>7. DeletedIsGone(e, del2)
    <2> SUFFICES ASSUME NEW x \in del2
                 PROVE  ~There(e, x[1], x[2])
      BY DEF DeletedIsGone
    <2>1. x = <<x[1], x[2]>> /\ x[1] \in Kinds /\ x[2] \in Ids(x[1])
      BY <1>6, RowNames
    <2>2. CASE x \in del
      BY <2>1, <2>2, <1>4, <1>5 DEF DeletedIsGone
    <2>3. CASE x \in GoneBetween(d, e)
      BY <2>1, <2>3, <1>1
    <2> QED BY <2>2, <2>3
  <1>8. \A K \in Kinds : \A i \in Ids(K) :
           There(d, K, i) => There(e, K, i) \/ <<K, i>> \in del2
    BY <1>1
  <1>9. \A K \in Kinds : \A i \in Ids(K) :
           <<K, i>> \in del2 => <<K, i>> \in del \/ There(d, K, i)
    BY <1>1
  <1> QED BY <1>4, <1>6, <1>7, <1>8, <1>9 DEF Aged

LEMMA SoundStays ==
  ASSUME NEW d, NEW del, NEW e, NEW del2, Aged(d, del, e, del2),
         NEW ep, ep.inbound \in InboundIds, Sound(d, del, ep)
  PROVE  Sound(e, del2, ep)
  <1>1. /\ "inbound" \in Kinds /\ Ids("inbound") = InboundIds
        /\ Rows(d, "inbound") = d.inbounds /\ Rows(e, "inbound") = e.inbounds
    BY RowsOfKinds DEF Kinds
  <1> DEFINE i == ep.inbound
  <1>2. /\ There(d, "inbound", i) <=> d.inbounds[i] # None
        /\ There(e, "inbound", i) <=> e.inbounds[i] # None
    BY <1>1 DEF There
  <1>3. There(d, "inbound", i) => There(e, "inbound", i) \/ <<"inbound", i>> \in del2
    BY <1>1 DEF Aged
  <1>4. <<"inbound", i>> \in del => <<"inbound", i>> \in del2
    BY DEF Aged
  <1>5. <<"inbound", i>> \in del2 => ~There(e, "inbound", i)
    BY DEF Aged, DeletedIsGone
  <1>6. There(d, "inbound", i) /\ There(e, "inbound", i) =>
            e.inbounds[i].node = d.inbounds[i].node
    BY DEF Aged, InboundsStay
  <1> QED BY <1>2, <1>3, <1>4, <1>5, <1>6 DEF Sound

LEMMA HostRowEndpoints ==
  ASSUME NEW row \in HostRow, NEW k \in DOMAIN row.endpoints
  PROVE  row.endpoints[k].inbound \in InboundIds
  <1>1. row.endpoints \in Seq(Endpoint)
    BY DEF HostRow
  <1>2. row.endpoints[k] \in Endpoint
    BY <1>1
  <1> QED BY <1>2 DEF Endpoint

\* A request that is under way bears a write of another.
LEMMA OthersBear ==
  ASSUME NEW d, NEW del, NEW e, NEW del2, Aged(d, del, e, del2),
         NEW q, RequestOk(d, del, q), RowIsNew(e, del2, q)
  PROVE  RequestOk(e, del2, q)
  <1>1. /\ Addressed(q) /\ Built(q) /\ InStep(q)
        /\ RowOrGone(d, del, q) /\ NodeKept(d, q) /\ EndpointsSeen(d, del, q) /\ AnswerOk(del, q)
    BY DEF RequestOk
  <1>2. AnswerOk(del2, q)
    BY <1>1 DEF AnswerOk, Aged
  <1>3. ASSUME q.pc # "idle" PROVE q.kind \in Kinds /\ q.id \in Ids(q.kind)
    BY <1>1, <1>3, RowNames DEF Addressed
  <1>4. RowOrGone(e, del2, q)
    BY <1>1, <1>3 DEF RowOrGone, Aged, Pending
  <1>5. NodeKept(e, q)
    <2> SUFFICES ASSUME Pending(q), q.op = "update", q.kind = "inbound", There(e, "inbound", q.id)
                 PROVE  q.row.node = e.inbounds[q.id].node
      BY DEF NodeKept
    <2>1. q.id \in InboundIds
      BY <1>3, RowsOfKinds DEF Pending
    <2>2. <<"inbound", q.id>> \notin del2
      BY DEF Aged, DeletedIsGone
    <2>3. There(d, "inbound", q.id)
      BY <1>1, <2>2 DEF RowOrGone, Aged
    <2> QED BY <1>1, <2>1, <2>3 DEF NodeKept, Aged, InboundsStay
  <1>6. EndpointsSeen(e, del2, q)
    <2> SUFFICES ASSUME Pending(q), q.op # "delete", q.kind = "host",
                        NEW k \in DOMAIN q.row.endpoints
                 PROVE  \/ Sound(e, del2, q.row.endpoints[k])
                        \/ \E j \in DOMAIN q.lookups :
                              q.lookups[j] = InboundLookup(q.row.endpoints[k])
      BY DEF EndpointsSeen
    <2>1. q.row \in HostRow
      BY <1>1, RowsForKinds DEF Built
    <2>2. q.row.endpoints[k].inbound \in InboundIds
      BY <2>1, HostRowEndpoints
    <2>3. \/ Sound(d, del, q.row.endpoints[k])
          \/ \E j \in DOMAIN q.lookups : q.lookups[j] = InboundLookup(q.row.endpoints[k])
      BY <1>1 DEF EndpointsSeen
    <2> QED BY <2>2, <2>3, SoundStays
  <1> QED BY <1>1, <1>2, <1>4, <1>5, <1>6 DEF RequestOk

LEMMA HostsStaySound ==
  ASSUME NEW s \in Stores, NEW d, NEW del, NEW e, NEW del2, Aged(d, del, e, del2),
         d \in Db(s), e \in Db(s), HostsSound(s, d, del),
         NEW q, RequestOk(d, del, q), q.pc = "write",
         HostEffect(s, d, e, q.kind, q.op, q.id, q.row)
  PROVE  HostsSound(s, e, del2)
  <1> SUFFICES ASSUME NEW h \in Live(e.hosts), NEW k \in DOMAIN Endpoints(s, e, h)
               PROVE  Sound(e, del2, Endpoints(s, e, h)[k])
    BY DEF HostsSound
  <1>1. Endpoints(s, e, h)[k].inbound \in InboundIds
    BY EndpointTypes
  <1>2. CASE h \in Live(d.hosts) /\ Endpoints(s, e, h) = Endpoints(s, d, h)
    <2>1. Sound(d, del, Endpoints(s, e, h)[k])
      BY <1>2 DEF HostsSound
    <2> QED BY <1>1, <2>1, SoundStays
  <1>3. CASE q.kind = "host" /\ q.op # "delete" /\ Endpoints(s, e, h) = q.row.endpoints
    <2>1. q.lookups = << >>
      BY DEF RequestOk, InStep
    <2>2. Sound(d, del, q.row.endpoints[k])
      BY <1>3, <2>1 DEF RequestOk, EndpointsSeen, Pending
    <2> QED BY <1>1, <1>3, <2>2, SoundStays
  <1> QED BY <1>2, <1>3 DEF HostEffect

LEMMA SoundReferences ==
  ASSUME NEW s, NEW d, NEW del, HostsSound(s, d, del), ForeignKeysHold(s, d)
  PROVE  ReferencesHold(s, d)
  <1>1. EndpointsAgree(s, d)
    BY DEF HostsSound, EndpointsAgree, Sound
  <1> QED BY <1>1 DEF ReferencesHold, ForeignKeysHold

\* What a request has become when its write returned.
Written(q, out) ==
    CASE out.err # "none" -> [q EXCEPT !.pc = "done", !.err = out.err]
      [] out.err = "none" /\ AnswersUnread(q) -> [q EXCEPT !.pc = "record", !.wrote = TRUE]
      [] OTHER -> [q EXCEPT !.pc = "reread", !.wrote = TRUE]

LEMMA WrittenFields ==
  ASSUME NEW q \in Request, NEW out, out.err \in Errors
  PROVE  /\ Written(q, out) \in Request
         /\ Written(q, out).op = q.op /\ Written(q, out).kind = q.kind
         /\ Written(q, out).id = q.id /\ Written(q, out).in = q.in
         /\ Written(q, out).lookups = q.lookups
         /\ out.err # "none" => /\ Written(q, out).pc = "done" /\ Written(q, out).wrote = q.wrote
                                /\ Written(q, out).err = out.err
         /\ out.err = "none" => /\ Written(q, out).pc = IF AnswersUnread(q) THEN "record" ELSE "reread"
                                /\ Written(q, out).wrote = TRUE /\ Written(q, out).err = q.err
  <1>1. CASE out.err # "none"
    <2>1. Written(q, out) = [q EXCEPT !.pc = "done", !.err = out.err]
      BY <1>1 DEF Written
    <2> DEFINE w == Written(q, out)
               err == out.err
    <2>2. w = Written(q, out) /\ err = out.err
      OBVIOUS
    <2> HIDE DEF w, err
    <2>3. w \in Request
      BY <2>1, <2>2 DEF Request
    <2>4. /\ w.op = q.op /\ w.kind = q.kind /\ w.id = q.id /\ w.in = q.in
          /\ w.lookups = q.lookups
      BY <2>1, <2>2 DEF Request
    <2>5. /\ out.err # "none" => w.pc = "done" /\ w.wrote = q.wrote /\ w.err = out.err
          /\ out.err = "none" => /\ w.pc = IF AnswersUnread(q) THEN "record" ELSE "reread"
                                 /\ w.wrote = TRUE /\ w.err = q.err
      BY <1>1, <2>1, <2>2 DEF Request
    <2> QED BY <2>2, <2>3, <2>4, <2>5
  <1>2. CASE out.err = "none" /\ AnswersUnread(q)
    <2>1. Written(q, out) = [q EXCEPT !.pc = "record", !.wrote = TRUE]
      BY <1>2 DEF Written
    <2> DEFINE w == Written(q, out)
               err == out.err
    <2>2. w = Written(q, out) /\ err = out.err
      OBVIOUS
    <2> HIDE DEF w, err
    <2>3. w \in Request
      BY <2>1, <2>2 DEF Request
    <2>4. /\ w.op = q.op /\ w.kind = q.kind /\ w.id = q.id /\ w.in = q.in
          /\ w.lookups = q.lookups
      BY <2>1, <2>2 DEF Request
    <2>5. /\ out.err # "none" => w.pc = "done" /\ w.wrote = q.wrote /\ w.err = out.err
          /\ out.err = "none" => /\ w.pc = IF AnswersUnread(q) THEN "record" ELSE "reread"
                                 /\ w.wrote = TRUE /\ w.err = q.err
      BY <1>2, <2>1, <2>2 DEF Request
    <2> QED BY <2>2, <2>3, <2>4, <2>5
  <1>3. CASE out.err = "none" /\ ~AnswersUnread(q)
    <2>1. Written(q, out) = [q EXCEPT !.pc = "reread", !.wrote = TRUE]
      BY <1>3 DEF Written
    <2> DEFINE w == Written(q, out)
               err == out.err
    <2>2. w = Written(q, out) /\ err = out.err
      OBVIOUS
    <2> HIDE DEF w, err
    <2>3. w \in Request
      BY <2>1, <2>2 DEF Request
    <2>4. /\ w.op = q.op /\ w.kind = q.kind /\ w.id = q.id /\ w.in = q.in
          /\ w.lookups = q.lookups
      BY <2>1, <2>2 DEF Request
    <2>5. /\ out.err # "none" => w.pc = "done" /\ w.wrote = q.wrote /\ w.err = out.err
          /\ out.err = "none" => /\ w.pc = IF AnswersUnread(q) THEN "record" ELSE "reread"
                                 /\ w.wrote = TRUE /\ w.err = q.err
      BY <1>3, <2>1, <2>2 DEF Request
    <2> QED BY <2>2, <2>3, <2>4, <2>5
  <1> QED BY <1>1, <1>2, <1>3

LEMMA WrittenOk ==
  ASSUME NEW d, NEW del, NEW e, NEW del2, NEW q \in Request, RequestOk(d, del, q), q.pc = "write",
         NEW out, out.err \in Errors, out.err = "none" => (There(e, q.kind, q.id) <=> q.op # "delete")
  PROVE  RequestOk(e, del2, Written(q, out))
  <1> DEFINE q2 == Written(q, out)
  <1>1. /\ q2 \in Request
        /\ q2.op = q.op /\ q2.kind = q.kind /\ q2.id = q.id /\ q2.in = q.in
        /\ q2.lookups = q.lookups
        /\ out.err # "none" => q2.pc = "done" /\ q2.wrote = q.wrote /\ q2.err = out.err
        /\ out.err = "none" => /\ q2.pc = IF AnswersUnread(q) THEN "record" ELSE "reread"
                               /\ q2.wrote = TRUE /\ q2.err = q.err
    BY WrittenFields
  <1> HIDE DEF q2
  <1>2. /\ <<q.kind, q.id>> \in RowName /\ q.op \in Ops /\ InputOf(q)
        /\ q.lookups = << >> /\ q.err = "none" /\ ~q.wrote
    BY DEF RequestOk, Addressed, InStep
  <1>3. Addressed(q2)
    BY <1>1, <1>2 DEF Addressed, InputOf
  <1>4. q2.pc = "reread" => q.op # "delete" /\ out.err = "none"
    BY <1>1 DEF AnswersUnread
  <1>5. InStep(q2)
    BY <1>1, <1>2, <1>4 DEF InStep
  <1>6. q2.pc \in {"done", "record", "reread"}
    BY <1>1
  <1>7. /\ Built(q2) /\ RowIsNew(e, del2, q2) /\ NodeKept(e, q2) /\ EndpointsSeen(e, del2, q2)
    BY <1>6 DEF Built, RowIsNew, NodeKept, EndpointsSeen, Pending
  <1>8. RowOrGone(e, del2, q2)
    BY <1>1, <1>4, <1>6 DEF RowOrGone, Pending
  <1>9. AnswerOk(del2, q2)
    BY <1>1, <1>2 DEF AnswerOk
  <1> QED BY <1>3, <1>5, <1>7, <1>8, <1>9 DEF RequestOk, q2

\* What a request is about to write.
LEMMA OutcomeFits ==
  ASSUME CatalogInv, NEW r \in Requests, reqs[r].pc = "write"
  PROVE  LET q == reqs[r] IN
         /\ q \in Request /\ RequestOk(db, deleted, q)
         /\ q.kind \in Kinds /\ q.id \in Ids(q.kind) /\ q.op \in Ops
         /\ <<q.kind, q.id>> \in RowName
         /\ WriteOk(store, db, q.kind, q.op, q.id, q.row, Outcome(q))
         /\ Outcome(q).err \in Errors
  <1> DEFINE q == reqs[r]
  <1>1. /\ store \in Stores /\ db \in Db(store) /\ CatalogOk(store, db)
        /\ q \in Request /\ RequestOk(db, deleted, q)
    BY InvFacts
  <1>2. Addressed(q) /\ Built(q) /\ NodeKept(db, q) /\ RowIsNew(db, deleted, q)
    BY <1>1 DEF RequestOk
  <1>3. WriteOk(store, db, q.kind, q.op, q.id, q.row, Outcome(q))
    BY <1>1, <1>2, OutcomeOk
  <1>4. q.kind \in Kinds /\ q.id \in Ids(q.kind) /\ q.op \in Ops /\ <<q.kind, q.id>> \in RowName
    BY <1>2, RowNames DEF Addressed
  <1>5. Outcome(q).err \in Errors
    BY <1>3 DEF WriteOk, StoreErrors
  <1> QED BY <1>1, <1>3, <1>4, <1>5

\* What the write makes of what others rely on.
LEMMA OutcomeAges ==
  ASSUME CatalogInv, NEW r \in Requests, reqs[r].pc = "write"
  PROVE  LET q == reqs[r]
             e == Outcome(q).db
             del2 == deleted \cup GoneBetween(db, e)
         IN  /\ Aged(db, deleted, e, del2)
             /\ del2 \subseteq RowName
             /\ \A K \in Kinds : \A i \in Ids(K) :
                   There(e, K, i) => \/ There(db, K, i)
                                     \/ <<K, i>> = <<q.kind, q.id>> /\ q.op = "create"
             /\ \A K \in Kinds : \A i \in Ids(K) :
                   <<K, i>> \in del2 => <<K, i>> \in deleted \/ There(db, K, i)
  <1> DEFINE q == reqs[r]
             out == Outcome(q)
             e == out.db
             del2 == deleted \cup GoneBetween(db, e)
  <1>1. /\ store \in Stores /\ db \in Db(store) /\ CatalogOk(store, db)
        /\ DeletedIsGone(db, deleted) /\ deleted \subseteq RowName
    BY InvFacts
  <1>2. /\ q.pc = "write" /\ RequestOk(db, deleted, q)
        /\ q.kind \in Kinds /\ q.id \in Ids(q.kind)
        /\ WriteOk(store, db, q.kind, q.op, q.id, q.row, out)
    BY OutcomeFits
  <1> HIDE DEF q, out
  <1>3. /\ CatalogOk(store, e) /\ InboundsStay(db, e)
        /\ RowEffect(db, e, q.kind, q.op, q.id, out.err)
    BY <1>2 DEF WriteOk
  <1>4. RowIsNew(db, deleted, q)
    BY <1>2 DEF RequestOk
  <1>5. /\ deleted \cup GoneBetween(db, e) \subseteq del2
        /\ del2 \subseteq deleted \cup GoneBetween(db, e)
    OBVIOUS
  <1> HIDE DEF e, del2
  <1>6. /\ Aged(db, deleted, e, del2)
        /\ del2 \subseteq RowName
        /\ \A K \in Kinds : \A i \in Ids(K) :
              There(e, K, i) => \/ There(db, K, i)
                                \/ <<K, i>> = <<q.kind, q.id>> /\ q.op = "create"
        /\ \A K \in Kinds : \A i \in Ids(K) :
              <<K, i>> \in del2 => <<K, i>> \in deleted \/ There(db, K, i)
    BY <1>1, <1>2, <1>3, <1>4, <1>5, WriteAges
  <1> QED BY <1>6 DEF e, del2, q, out

\* A write of the store, whatever becomes of the request that asked for it.
LEMMA StoreWrites ==
  ASSUME CatalogInv, NEW r \in Requests, reqs[r].pc = "write",
         NEW q2 \in Request, ~Pending(q2),
         reqs' = [reqs EXCEPT ![r] = q2], db' = Outcome(reqs[r]).db,
         deleted' = deleted \cup GoneBetween(db, db'),
         carried' = carried \cup (GoneBetween(db, db') \ {<<reqs[r].kind, reqs[r].id>>}),
         UNCHANGED <<store, made, log>>,
         \A lost \in unlogged' : lost[1] \in Ops /\ <<lost[2], lost[3]>> \in RowName,
         RequestOk(db', deleted', q2)
  PROVE  CatalogInv'
  <1> DEFINE q == reqs[r]
             out == Outcome(q)
             e == out.db
  <1>1. /\ store \in Stores /\ db \in Db(store) /\ reqs \in [Requests -> Request]
        /\ CatalogOk(store, db)
        /\ DeletedIsGone(db, deleted) /\ HostsSound(store, db, deleted)
        /\ \A o \in Requests : RequestOk(db, deleted, reqs[o])
        /\ OneCreator
        /\ deleted \subseteq RowName
    BY InvFacts
  <1>2. q \in Request /\ RequestOk(db, deleted, q)
    BY <1>1
  <1>3. /\ q.pc = "write" /\ db' = e
        /\ deleted' = deleted \cup GoneBetween(db, e)
        /\ carried' = carried \cup (GoneBetween(db, e) \ {<<q.kind, q.id>>})
        /\ reqs' = [reqs EXCEPT ![r] = q2]
        /\ UNCHANGED <<store, made, log>>
    OBVIOUS
  <1>4. WriteOk(store, db, q.kind, q.op, q.id, q.row, out) /\ out.err \in Errors
    BY OutcomeFits
  <1> HIDE DEF q, out
  <1>5. /\ CatalogOk(store, e) /\ out.err \in Errors
        /\ RowEffect(db, e, q.kind, q.op, q.id, out.err) /\ InboundsStay(db, e)
        /\ HostEffect(store, db, e, q.kind, q.op, q.id, q.row)
    BY <1>4 DEF WriteOk
  <1>6. q.kind \in Kinds /\ q.id \in Ids(q.kind) /\ RowIsNew(db, deleted, q)
    BY <1>2, <1>3, RowNames DEF RequestOk, Addressed
  <1>7. /\ Aged(db, deleted, e, deleted')
        /\ deleted' \subseteq RowName
        /\ \A K \in Kinds : \A i \in Ids(K) :
              There(e, K, i) => \/ There(db, K, i)
                                \/ <<K, i>> = <<q.kind, q.id>> /\ q.op = "create"
        /\ \A K \in Kinds : \A i \in Ids(K) :
              <<K, i>> \in deleted' => <<K, i>> \in deleted \/ There(db, K, i)
    BY <1>3, OutcomeAges DEF q, out
  <1>8. RequestOk(e, deleted', q2)
    BY <1>3
  <1> HIDE DEF e
  <1>9. /\ reqs' \in [Requests -> Request] /\ reqs'[r] = q2
         /\ \A o \in Requests \ {r} : reqs'[o] = reqs[o]
    BY <1>1, <1>3
  <1>10. ASSUME NEW o \in Requests \ {r} PROVE RequestOk(e, deleted', reqs[o])
    <2>1. RequestOk(db, deleted, reqs[o])
      BY <1>1
    <2>2. RowIsNew(e, deleted', reqs[o])
      <3> SUFFICES ASSUME Pending(reqs[o]), reqs[o].op = "create"
                   PROVE  /\ ~There(e, reqs[o].kind, reqs[o].id)
                          /\ <<reqs[o].kind, reqs[o].id>> \notin deleted'
        BY DEF RowIsNew
      <3>1. /\ ~There(db, reqs[o].kind, reqs[o].id)
            /\ <<reqs[o].kind, reqs[o].id>> \notin deleted
            /\ reqs[o].kind \in Kinds /\ reqs[o].id \in Ids(reqs[o].kind)
        BY <2>1, RowNames DEF RequestOk, RowIsNew, Addressed, Pending
      <3>2. q.op = "create" => <<reqs[o].kind, reqs[o].id>> # <<q.kind, q.id>>
        BY <1>1, <1>3 DEF OneCreator, Pending, q
      <3> QED BY <1>7, <3>1, <3>2
    <2> QED BY <1>7, <2>1, <2>2, OthersBear
  <1>11. \A o \in Requests : RequestOk(db', deleted', reqs'[o])
    BY <1>3, <1>8, <1>9, <1>10
  <1>12. HostsSound(store', db', deleted')
    <2>1. e \in Db(store)
      BY <1>5 DEF CatalogOk
    <2> QED BY <1>1, <1>2, <1>3, <1>5, <1>7, <2>1, HostsStaySound
  <1>13. KeysNameOneRow' /\ ReferencesResolve'
    <2>1. KeysHold(store, e) /\ ForeignKeysHold(store, e)
      BY <1>5 DEF CatalogOk
    <2>2. HostsSound(store, e, deleted')
      BY <1>3, <1>12
    <2>3. ReferencesHold(store, e)
      BY <2>1, <2>2, SoundReferences
    <2> QED BY <1>3, <2>1, <2>3 DEF KeysNameOneRow, ReferencesResolve
  <1>14. DeletedIsGone(db', deleted')
    BY <1>3, <1>7 DEF Aged
  <1>15. OneCreator'
    BY <1>1, <1>9 DEF OneCreator
  <1>16. TypeOK'
    <2>1. e \in Db(store)
      BY <1>5 DEF CatalogOk
    <2>2. carried' \subseteq deleted'
      BY <1>3 DEF CatalogInv, TypeOK
    <2> QED BY <1>3, <1>7, <1>9, <2>1, <2>2 DEF CatalogInv, TypeOK
  <1> QED BY <1>11, <1>12, <1>13, <1>14, <1>15, <1>16 DEF CatalogInv

LEMMA WriteKeeps ==
  ASSUME CatalogInv, NEW r \in Requests, Write(r)
  PROVE  CatalogInv'
  <1> DEFINE q == reqs[r]
             out == Outcome(q)
             q2 == Written(q, out)
  <1>1. /\ q.pc = "write" /\ db' = out.db
        /\ deleted' = deleted \cup GoneBetween(db, out.db)
        /\ carried' = carried \cup (GoneBetween(db, out.db) \ {<<q.kind, q.id>>})
        /\ reqs' = [reqs EXCEPT ![r] = q2]
        /\ UNCHANGED <<store, made, log, unlogged>>
    BY DEF Write, Written
  <1>2. /\ q \in Request /\ RequestOk(db, deleted, q) /\ out.err \in Errors
        /\ WriteOk(store, db, q.kind, q.op, q.id, q.row, out)
    BY <1>1, OutcomeFits
  <1>3. \A lost \in unlogged' : lost[1] \in Ops /\ <<lost[2], lost[3]>> \in RowName
    BY <1>1 DEF CatalogInv, TypeOK
  <1> HIDE DEF out
  <1>4. q2 \in Request /\ ~Pending(q2)
    <2> HIDE DEF q
    <2>1. q2.pc \in {"done", "record", "reread"} /\ q2 \in Request
      BY <1>2, WrittenFields
    <2> QED BY <2>1 DEF Pending
  <1>5. RequestOk(db', deleted', q2)
    <2>1. out.err = "none" => (There(out.db, q.kind, q.id) <=> q.op # "delete")
      BY <1>2 DEF WriteOk, RowEffect
    <2> HIDE DEF q
    <2> QED BY <1>1, <1>2, <2>1, WrittenOk
  <1> HIDE DEF q2
  <1> QED BY <1>1, <1>3, <1>4, <1>5, StoreWrites DEF out

\* The request whose answer was lost.
LEMMA FailedOk ==
  ASSUME NEW d, NEW del, NEW e, NEW del2, NEW q \in Request, RequestOk(d, del, q),
         q.pc # "idle", NEW q2 \in Request, q2.pc = "done", q2.lookups = << >>,
         q2.op = q.op, q2.kind = q.kind, q2.id = q.id, q2.in = q.in,
         q2.err = "failed" \/ (q2.err = "invalid" /\ ~q2.wrote)
  PROVE  RequestOk(e, del2, q2) /\ ~Pending(q2)
  <1>1. Addressed(q2)
    BY DEF RequestOk, Addressed, InputOf
  <1>2. InStep(q2)
    BY DEF InStep
  <1>3. /\ Built(q2) /\ RowOrGone(e, del2, q2) /\ RowIsNew(e, del2, q2)
        /\ NodeKept(e, q2) /\ EndpointsSeen(e, del2, q2) /\ AnswerOk(del2, q2)
        /\ ~Pending(q2)
    BY DEF Built, RowOrGone, RowIsNew, NodeKept, EndpointsSeen, AnswerOk, Pending
  <1> QED BY <1>1, <1>2, <1>3 DEF RequestOk

LEMMA WriteUnheardKeeps ==
  ASSUME CatalogInv, NEW r \in Requests, WriteUnheard(r)
  PROVE  CatalogInv'
  <1> DEFINE q == reqs[r]
             q2 == [q EXCEPT !.pc = "done", !.wrote = TRUE, !.err = "failed"]
             new == <<q.op, q.kind, q.id>>
  <1>1. /\ q.pc = "write" /\ db' = Outcome(q).db
        /\ deleted' = deleted \cup GoneBetween(db, Outcome(q).db)
        /\ carried' = carried \cup (GoneBetween(db, Outcome(q).db) \ {<<q.kind, q.id>>})
        /\ reqs' = [reqs EXCEPT ![r] = q2]
        /\ unlogged' = unlogged \cup {new}
        /\ UNCHANGED <<store, made, log>>
    BY DEF WriteUnheard
  <1>2. /\ q \in Request /\ RequestOk(db, deleted, q) /\ q.op \in Ops
        /\ <<q.kind, q.id>> \in RowName
    BY <1>1, OutcomeFits
  <1>3. \A lost \in unlogged' : lost[1] \in Ops /\ <<lost[2], lost[3]>> \in RowName
    <2>1. \A lost \in unlogged : lost[1] \in Ops /\ <<lost[2], lost[3]>> \in RowName
      BY DEF CatalogInv, TypeOK
    <2>2. new[1] \in Ops /\ <<new[2], new[3]>> \in RowName
      BY <1>2
    <2> HIDE DEF new
    <2> QED BY <1>1, <2>1, <2>2
  <1>4. /\ q2 \in Request /\ q2.pc = "done" /\ q2.err = "failed" /\ q2.lookups = << >>
        /\ q2.op = q.op /\ q2.kind = q.kind /\ q2.id = q.id /\ q2.in = q.in
    <2>1. q.lookups = << >>
      BY <1>1, <1>2 DEF RequestOk, InStep
    <2> HIDE DEF q
    <2> QED BY <1>2, <2>1, RequestIs DEF Errors
  <1> HIDE DEF q2
  <1>5. RequestOk(db', deleted', q2) /\ ~Pending(q2)
    BY <1>1, <1>2, <1>4, FailedOk
  <1> QED BY <1>1, <1>3, <1>4, <1>5, StoreWrites

LEMMA QueryFailsKeeps ==
  ASSUME CatalogInv, NEW r \in Requests, QueryFails(r)
  PROVE  CatalogInv'
  <1> DEFINE q == reqs[r]
             err == IF q.pc = "lookup" /\ Head(q.lookups).what # "template"
                    THEN "invalid" ELSE "failed"
             empty == << >>
             q2 == [q EXCEPT !.pc = "done", !.err = err, !.lookups = empty]
  <1>1. /\ q.pc \in {"load", "lookup", "write", "reread"}
        /\ reqs' = [reqs EXCEPT ![r] = q2] /\ UNCHANGED <<store, db, made, log, ghosts>>
    BY DEF QueryFails
  <1>2. q \in Request /\ RequestOk(db, deleted, q)
    BY InvFacts
  <1>3. err \in {"failed", "invalid"} /\ (err = "invalid" => q.pc = "lookup")
    OBVIOUS
  <1>4. q.pc = "lookup" => ~q.wrote
    BY <1>2 DEF RequestOk, InStep
  <1>5. empty \in Seq(LookupRecs)
    OBVIOUS
  <1> HIDE DEF q, err
  <1>6. /\ q2 \in Request /\ q2.pc = "done" /\ q2.err = err /\ q2.lookups = empty
        /\ q2.wrote = q.wrote
        /\ q2.op = q.op /\ q2.kind = q.kind /\ q2.id = q.id /\ q2.in = q.in
    <2> HIDE DEF empty
    <2> QED BY <1>2, <1>3, <1>5, RequestIs DEF Errors
  <1> HIDE DEF q2
  <1>7. q2.lookups = << >>
    BY <1>6
  <1>8. RequestOk(db, deleted, q2) /\ ~Pending(q2)
    BY <1>1, <1>2, <1>3, <1>4, <1>6, <1>7, FailedOk
  <1>9. made' \in 0 .. MaxRequests
    BY <1>1 DEF CatalogInv, TypeOK
  <1> QED BY <1>1, <1>6, <1>8, <1>9, RequestMoves

-----------------------------------------------------------------------------
(* The steps after a write, the first state, and the theorems.             *)

LEMMA RereadKeeps ==
  ASSUME CatalogInv, NEW r \in Requests, Reread(r)
  PROVE  CatalogInv'
  <1> DEFINE q == reqs[r]
             row == ReadRow(q.kind, q.id)
             q2 == IF row = None THEN [q EXCEPT !.pc = "done", !.err = "notfound"]
                           ELSE [q EXCEPT !.pc = "record"]
  <1>1. /\ q \in Request /\ RequestOk(db, deleted, q)
        /\ store \in Stores /\ db \in Db(store)
    BY InvFacts
  <1>2. /\ q.pc = "reread" /\ UNCHANGED <<store, db, made, log, ghosts>>
        /\ reqs' = [reqs EXCEPT ![r] = q2]
    BY DEF Reread
  <1>3. q.kind \in Kinds /\ q.id \in Ids(q.kind) /\ q.op \in Ops
        /\ <<q.kind, q.id>> \in RowName /\ InputOf(q)
    BY <1>1, <1>2, RowNames DEF RequestOk, Addressed
  <1>4. row = None => <<q.kind, q.id>> \in deleted
    <2>1. row = None => ~There(db, q.kind, q.id)
      BY <1>1, <1>3, RowsRead
    <2> QED BY <1>1, <1>2, <2>1 DEF RequestOk, RowOrGone
  <1>5. q.lookups = << >> /\ q.err = "none" /\ q.wrote
    BY <1>1, <1>2 DEF RequestOk, InStep
  <1> HIDE DEF q, row
  <1>6. /\ q2 \in Request
        /\ q2.op = q.op /\ q2.kind = q.kind /\ q2.id = q.id /\ q2.in = q.in
        /\ q2.lookups = q.lookups /\ q2.wrote = q.wrote
        /\ row = None => q2.pc = "done" /\ q2.err = "notfound"
        /\ row # None => q2.pc = "record" /\ q2.err = q.err
    <2>1. CASE row = None
      <3>1. q2 = [q EXCEPT !.pc = "done", !.err = "notfound"]
        BY <2>1 
      <3>2. q2 \in Request
        BY <1>1, <3>1, RequestIs DEF Errors
      <3>3. /\ q2.op = q.op /\ q2.kind = q.kind /\ q2.id = q.id /\ q2.in = q.in
            /\ q2.lookups = q.lookups /\ q2.wrote = q.wrote
            /\ q2.pc = "done" /\ q2.err = "notfound"
        BY <1>1, <3>1 DEF Request
      <3> HIDE DEF q2
      <3> QED BY <2>1, <3>2, <3>3
    <2>2. CASE row # None
      <3>1. q2 = [q EXCEPT !.pc = "record"]
        BY <2>2
      <3> QED BY <1>1, <2>2, <3>1 DEF Request
    <2> QED BY <2>1, <2>2
  <1> HIDE DEF q2
  <1>7. Addressed(q2) /\ InStep(q2)
    BY <1>3, <1>5, <1>6 DEF Addressed, InputOf, InStep
  <1>8. /\ Built(q2) /\ RowOrGone(db, deleted, q2) /\ RowIsNew(db, deleted, q2)
        /\ NodeKept(db, q2) /\ EndpointsSeen(db, deleted, q2) /\ ~Pending(q2)
    BY <1>6 DEF Built, RowOrGone, RowIsNew, NodeKept, EndpointsSeen, Pending
  <1>9. AnswerOk(deleted, q2)
    BY <1>4, <1>5, <1>6 DEF AnswerOk
  <1>10. made' \in 0 .. MaxRequests
    BY <1>2 DEF CatalogInv, TypeOK
  <1> QED BY <1>2, <1>6, <1>7, <1>8, <1>9, <1>10, RequestMoves DEF RequestOk

LEMMA RecordKeeps ==
  ASSUME CatalogInv, NEW r \in Requests, Record(r)
  PROVE  CatalogInv'
  <1> DEFINE q == reqs[r]
             q2 == [q EXCEPT !.pc = "done", !.announced = TRUE]
             entry == Entry(q.op, q.kind, q.id, made)
  <1>1. /\ q \in Request /\ RequestOk(db, deleted, q) /\ reqs \in [Requests -> Request]
    BY InvFacts
  <1>2. /\ q.pc = "record" /\ UNCHANGED <<store, db, made, deleted, carried>>
        /\ reqs' = [reqs EXCEPT ![r] = q2]
        /\ \/ log' = Append(log, entry) /\ unlogged' = unlogged
           \/ log' = log /\ unlogged' = unlogged \cup {<<q.op, q.kind, q.id>>}
    BY <1>1 DEF Record, Insert
  <1> HIDE DEF q
  <1>3. q.kind \in Kinds /\ q.id \in Ids(q.kind) /\ q.op \in Ops
        /\ <<q.kind, q.id>> \in RowName /\ InputOf(q)
    BY <1>1, <1>2, RowNames DEF RequestOk, Addressed
  <1>4. q.lookups = << >> /\ q.err = "none" /\ q.wrote
    BY <1>1, <1>2 DEF RequestOk, InStep
  <1>5. /\ q2 \in Request
        /\ q2.op = q.op /\ q2.kind = q.kind /\ q2.id = q.id /\ q2.in = q.in
        /\ q2.lookups = q.lookups /\ q2.wrote = q.wrote /\ q2.err = q.err
        /\ q2.pc = "done" /\ q2.announced = TRUE
    BY <1>1, RequestIs
  <1>6. made \in 0 .. MaxRequests /\ log \in Seq(Logged)
        /\ \A lost \in unlogged : lost[1] \in Ops /\ <<lost[2], lost[3]>> \in RowName
    BY DEF CatalogInv, TypeOK
  <1>7. entry \in Logged
    BY <1>3, <1>6 DEF Entry, Logged
  <1> HIDE DEF entry, q2
  <1>8. log' \in Seq(Logged)
    BY <1>2, <1>6, <1>7
  <1>9. \A lost \in unlogged' : lost[1] \in Ops /\ <<lost[2], lost[3]>> \in RowName
    <2>1. \A lost \in unlogged' : lost \in unlogged \/ lost = <<q.op, q.kind, q.id>>
      BY <1>2
    <2> DEFINE new == <<q.op, q.kind, q.id>>
    <2>2. new[1] \in Ops /\ <<new[2], new[3]>> \in RowName
      BY <1>3
    <2> QED BY <1>6, <2>1, <2>2
  <1>10. Addressed(q2) /\ InStep(q2)
    BY <1>3, <1>4, <1>5 DEF Addressed, InputOf, InStep
  <1>11. /\ Built(q2) /\ RowOrGone(db, deleted, q2) /\ RowIsNew(db, deleted, q2)
         /\ NodeKept(db, q2) /\ EndpointsSeen(db, deleted, q2) /\ ~Pending(q2)
         /\ AnswerOk(deleted, q2)
    BY <1>4, <1>5 DEF Built, RowOrGone, RowIsNew, NodeKept, EndpointsSeen, Pending, AnswerOk
  <1> QED BY <1>2, <1>5, <1>6, <1>8, <1>9, <1>10, <1>11, RequestMovesOn DEF RequestOk

LEMMA InitKeeps ==
  ASSUME Init
  PROVE  CatalogInv
  <1>1. /\ store \in Stores /\ db \in Db(store) /\ KeysHold(store, db)
        /\ ReferencesHold(store, db) /\ EndpointsThere(store, db)
    BY SeedsAreCatalogs DEF Init
  <1>2. Idle \in Request
    <2>1. << >> \in Seq(LookupRecs) /\ "none" \in Errors
      BY DEF Errors
    <2> QED BY <2>1 DEF Idle, Request, LookupRecs
  <1>3. reqs = [r \in Requests |-> Idle] /\ made = 0 /\ log = << >>
        /\ deleted = {} /\ carried = {} /\ unlogged = {}
    BY DEF Init
  <1>4. TypeOK
    <2>1. reqs \in [Requests -> Request]
      BY <1>2, <1>3
    <2>2. made \in 0 .. MaxRequests
      BY <1>3, CatalogInputs
    <2>3. log \in Seq(Logged)
      BY <1>3
    <2> QED BY <1>1, <1>3, <2>1, <2>2, <2>3 DEF TypeOK
  <1>5. Idle.pc = "idle" /\ Idle.lookups = << >> /\ Idle.err = "none" /\ Idle.wrote = FALSE
    BY DEF Idle
  <1>6. RequestOk(db, deleted, Idle)
    BY <1>5 DEF RequestOk, Addressed, Built, InStep, RowOrGone, RowIsNew, NodeKept,
                EndpointsSeen, AnswerOk, Pending
  <1>7. \A r \in Requests : reqs[r] = Idle
    BY <1>3
  <1>8. OneCreator
    BY <1>5, <1>7 DEF OneCreator, Pending
  <1>9. HostsSound(store, db, deleted)
    BY <1>1 DEF HostsSound, Sound, EndpointsThere, ReferencesHold, EndpointsAgree
  <1> QED BY <1>1, <1>3, <1>4, <1>6, <1>7, <1>8, <1>9
          DEF CatalogInv, KeysNameOneRow, ReferencesResolve, DeletedIsGone

LEMMA NextKeeps ==
  ASSUME CatalogInv, [Next]_vars
  PROVE  CatalogInv'
  <1>1. CASE Next
    <2>1. PICK r \in Requests :
             \/ BeginNode(r) \/ BeginTemplate(r) \/ BeginInbound(r) \/ BeginHost(r)
             \/ BeginPlan(r) \/ BeginUser(r) \/ BeginCredential(r)
             \/ Load(r) \/ Lookup(r) \/ Write(r) \/ Reread(r) \/ Record(r)
             \/ QueryFails(r) \/ WriteUnheard(r)
      BY <1>1 DEF Next
    <2>2. CASE \/ BeginNode(r) \/ BeginTemplate(r) \/ BeginInbound(r) \/ BeginHost(r)
               \/ BeginPlan(r) \/ BeginUser(r) \/ BeginCredential(r)
      BY <2>2, BeginsAreBegins, BeginKeeps
    <2>3. CASE Load(r)
      BY <2>3, LoadKeeps
    <2>4. CASE Lookup(r)
      BY <2>4, LookupKeeps
    <2>5. CASE Write(r)
      BY <2>5, WriteKeeps
    <2>6. CASE Reread(r)
      BY <2>6, RereadKeeps
    <2>7. CASE Record(r)
      BY <2>7, RecordKeeps
    <2>8. CASE QueryFails(r)
      BY <2>8, QueryFailsKeeps
    <2>9. CASE WriteUnheard(r)
      BY <2>9, WriteUnheardKeeps
    <2> QED BY <2>1, <2>2, <2>3, <2>4, <2>5, <2>6, <2>7, <2>8, <2>9
  <1>2. CASE UNCHANGED vars
    <2>1. /\ store' = store /\ db' = db /\ reqs' = reqs /\ made' = made /\ log' = log
          /\ deleted' = deleted /\ carried' = carried /\ unlogged' = unlogged
      BY <1>2 DEF vars, ghosts
    <2>2. TypeOK'
      BY <2>1 DEF CatalogInv, TypeOK
    <2>3. KeysNameOneRow' /\ ReferencesResolve' /\ OneCreator'
      BY <2>1 DEF CatalogInv, KeysNameOneRow, ReferencesResolve, OneCreator
    <2> QED BY <2>1, <2>2, <2>3 DEF CatalogInv
  <1> QED BY <1>1, <1>2

\* What a request holds on to stays true at each of its steps, whatever the
\* others do between them.
THEOREM CatalogInvariant == Spec => []CatalogInv
  <1>1. Init => CatalogInv
    BY InitKeeps
  <1>2. CatalogInv /\ [Next]_vars => CatalogInv'
    BY NextKeeps
  <1> QED BY <1>1, <1>2, PTL DEF Spec

\* Whatever requests run between one another, the catalog, the requests and the
\* log keep to their types: every write puts a whole row of its kind into the
\* table of that kind (the Create, Update and Delete of the stores).
THEOREM CatalogTypeCorrect == Spec => []TypeOK
  <1>1. CatalogInv => TypeOK
    BY DEF CatalogInv
  <1> QED BY <1>1, CatalogInvariant, PTL

\* The unique keys of both stores of every service, and the indexes a
\* MemoryStore keeps of them, hold under any requests at once.
THEOREM KeysStayUnique == Spec => []KeysNameOneRow
  <1>1. CatalogInv => KeysNameOneRow
    BY DEF CatalogInv
  <1> QED BY <1>1, CatalogInvariant, PTL

\* What hosts, inbounds and credentials refer to is what a lookup found, for
\* any interleaving of lookups, writes and deletes.
THEOREM ReferencesStayTrue == Spec => []ReferencesResolve
  <1>1. CatalogInv => ReferencesResolve
    BY DEF CatalogInv
  <1> QED BY <1>1, CatalogInvariant, PTL

\* Whoever is told of a failure by a store in memory, of any kind.
LEMMA FailuresStay ==
  ASSUME CatalogInv, FailuresOfPg, [Next]_vars
  PROVE  FailuresOfPg'
  <1>1. reqs \in [Requests -> Request]
    BY DEF CatalogInv, TypeOK
  <1>2. CASE Next
    <2>1. store' = store
      BY <1>2, BeginsAreBegins DEF Next, Begins, BeginCreate, BeginChange, Load, Lookup, Write,
                                   Reread, Record, QueryFails, WriteUnheard
    <2>2. PICK r \in Requests :
             \/ BeginNode(r) \/ BeginTemplate(r) \/ BeginInbound(r) \/ BeginHost(r)
             \/ BeginPlan(r) \/ BeginUser(r) \/ BeginCredential(r)
             \/ Load(r) \/ Lookup(r) \/ Write(r) \/ Reread(r) \/ Record(r)
             \/ QueryFails(r) \/ WriteUnheard(r)
      BY <1>2 DEF Next
    <2>3. CASE QueryFails(r) \/ WriteUnheard(r)
      BY <2>1, <2>3 DEF QueryFails, WriteUnheard, FailuresOfPg
    <2>4. ASSUME NEW q, reqs' = [reqs EXCEPT ![r] = q], q.err # "failed" \/ q.err = reqs[r].err
          PROVE  FailuresOfPg'
      BY <1>1, <2>1, <2>4 DEF FailuresOfPg
    <2>5. CASE \/ BeginNode(r) \/ BeginTemplate(r) \/ BeginInbound(r) \/ BeginHost(r)
               \/ BeginPlan(r) \/ BeginUser(r) \/ BeginCredential(r)
      <3>1. Begins(r)
        BY <2>5, BeginsAreBegins
      <3>2. PICK q : reqs' = [reqs EXCEPT ![r] = q] /\ q.err # "failed"
        <4>1. CASE \E kind, id, in : BeginCreate(r, kind, id, in)
          <5>1. PICK kind, id, in : BeginCreate(r, kind, id, in)
            BY <4>1
          <5>2. reqs' = [reqs EXCEPT ![r] =
                           Validated(Opened(kind, "create", id, in), Create(kind, in))]
            BY <5>1 DEF BeginCreate, Opened
          <5>3. Validated(Opened(kind, "create", id, in), Create(kind, in)).err \in {"none", "invalid"}
            BY OpenedFields, ValidatedErr
          <5> QED BY <5>2, <5>3
        <4>2. CASE \E kind, op, id, in : BeginChange(r, kind, op, id, in)
          <5>1. PICK kind, op, id, in : BeginChange(r, kind, op, id, in)
            BY <4>2
          <5> DEFINE q == [Idle EXCEPT !.pc = "load", !.kind = kind, !.op = op, !.id = id,
                                       !.in = in]
          <5>2. reqs' = [reqs EXCEPT ![r] = q]
            BY <5>1 DEF BeginChange
          <5>3. q.err = "none"
            BY DEF Idle
          <5> QED BY <5>2, <5>3
        <4> QED BY <3>1, <4>1, <4>2 DEF Begins
      <3> QED BY <2>4, <3>2
    <2>6. CASE Load(r)
      <3>1. reqs[r] \in Request /\ "err" \in DOMAIN reqs[r]
        BY <1>1 DEF Request
      <3>2. PICK q : /\ reqs' = [reqs EXCEPT ![r] = q]
                     /\ \/ q = [reqs[r] EXCEPT !.pc = "done", !.err = "notfound"]
                        \/ \E program : q = Validated(reqs[r], program)
                        \/ q = [reqs[r] EXCEPT !.pc = "write"]
        BY <2>6 DEF Load
      <3>3. q.err \in {"notfound", "invalid", reqs[r].err}
        <4>1. CASE q = [reqs[r] EXCEPT !.pc = "done", !.err = "notfound"]
          BY <3>1, <4>1
        <4>2. CASE \E program : q = Validated(reqs[r], program)
          <5>1. PICK program : q = Validated(reqs[r], program)
            BY <4>2
          <5> QED BY <3>1, <5>1, ValidatedErr
        <4>3. CASE q = [reqs[r] EXCEPT !.pc = "write"]
          BY <3>1, <4>3 DEF Request
        <4> QED BY <3>2, <4>1, <4>2, <4>3
      <3> QED BY <2>4, <3>2, <3>3
    <2>7. CASE Lookup(r)
      BY <1>1, <2>4, <2>7 DEF Lookup, Request
    <2>8. CASE Write(r)
      <3>1. reqs[r].pc = "write" /\ reqs' = [reqs EXCEPT ![r] = Written(reqs[r], Outcome(reqs[r]))]
        BY <2>8 DEF Write, Written
      <3>2. Outcome(reqs[r]).err \in Errors /\ Outcome(reqs[r]).err # "failed"
        BY <3>1, OutcomeFits DEF WriteOk, StoreErrors
      <3>3. reqs[r] \in Request
        BY <1>1
      <3> DEFINE w == Written(reqs[r], Outcome(reqs[r]))
      <3>4. w.err = Outcome(reqs[r]).err \/ w.err = reqs[r].err
        BY <3>2, <3>3, WrittenFields
      <3> QED BY <2>4, <3>1, <3>2, <3>4
    <2>9. CASE Reread(r)
      BY <1>1, <2>4, <2>9 DEF Reread, Request
    <2>10. CASE Record(r)
      <3>1. reqs' = [reqs EXCEPT ![r].pc = "done", ![r].announced = TRUE]
        BY <2>10 DEF Record
      <3> QED BY <1>1, <2>1, <3>1 DEF FailuresOfPg, Request
    <2> QED BY <2>2, <2>3, <2>5, <2>6, <2>7, <2>8, <2>9, <2>10
  <1>3. CASE UNCHANGED vars
    BY <1>3 DEF vars, FailuresOfPg
  <1> QED BY <1>2, <1>3

\* The handlers of the admin API answer what happened: 200 after a write that
\* was announced, a 404 without one but for a row deleted before it was read
\* back, any other refusal without one; only a 500 of a failed query leaves open
\* whether the row was written (the reads after the write, as hosts/service.go
\* 218-221 and 335-338, and a commit whose answer is lost).
THEOREM AnswersTellTheTruth == Spec => []AnswersAreTrue
  <1>1. Init => FailuresOfPg
    BY DEF Init, Idle, FailuresOfPg
  <1>2. CatalogInv /\ FailuresOfPg /\ [Next]_vars => FailuresOfPg'
    BY FailuresStay
  <1>3. CatalogInv /\ FailuresOfPg => AnswersAreTrue
    <2> SUFFICES ASSUME CatalogInv, FailuresOfPg PROVE AnswersAreTrue
      OBVIOUS
    <2>1. ASSUME NEW r \in Requests, reqs[r].pc = "done"
          PROVE  IF StatusOf(reqs[r].err) = 200
                 THEN reqs[r].wrote /\ reqs[r].announced
                 ELSE reqs[r].wrote =>
                        \/ /\ reqs[r].err = "notfound"
                           /\ <<reqs[r].kind, reqs[r].id>> \in deleted
                        \/ reqs[r].err = "failed" /\ store = "pg"
      <3>1. reqs[r] \in Request /\ RequestOk(db, deleted, reqs[r])
        BY InvFacts
      <3>2. \A err \in Errors : StatusOf(err) = 200 <=> err = "none"
        BY DEF Errors, StatusOf
      <3>3. reqs[r].err \in Errors
        BY <3>1, RequestFields
      <3> QED BY <2>1, <3>1, <3>2, <3>3 DEF RequestOk, InStep, AnswerOk, FailuresOfPg
    <2>2. \A gone \in deleted : Rows(db, gone[1])[gone[2]] = None
      BY InvFacts DEF DeletedIsGone, There
    <2> QED BY <2>1, <2>2 DEF AnswersAreTrue
  <1> QED BY <1>1, <1>2, <1>3, CatalogInvariant, PTL DEF Spec

-----------------------------------------------------------------------------
(* The audit log.                                                          *)

\* A step of a request that is not about to record anything.
LEMMA QuietStep ==
  ASSUME AuditInv, NEW r \in Requests, reqs[r].pc # "record", NEW q,
         reqs' = [reqs EXCEPT ![r] = q],
         UNCHANGED <<log, unlogged, deleted, carried>>
  PROVE  \A gone \in deleted' \ carried' : Explained(gone)'
  <1>1. reqs \in [Requests -> Request]
    BY DEF AuditInv, CatalogInv, TypeOK
  <1>2. \A o \in Requests : o # r => reqs'[o] = reqs[o]
    BY <1>1
  <1> SUFFICES ASSUME NEW gone \in deleted \ carried
               PROVE  Explained(gone)'
    OBVIOUS
  <1>3. Explained(gone)
    BY DEF AuditInv
  <1>4. \A o \in Requests : reqs[o].pc = "record" => reqs'[o] = reqs[o]
    BY <1>2
  <1> QED BY <1>3, <1>4 DEF Explained

LEMMA WriteExplained ==
  ASSUME AuditInv, NEW r \in Requests, Write(r)
  PROVE  \A gone \in deleted' \ carried' : Explained(gone)'
  <1> DEFINE q == reqs[r]
             out == Outcome(q)
             e == out.db
             q2 == Written(q, out)
             name == <<q.kind, q.id>>
  <1>1. /\ store \in Stores /\ db \in Db(store) /\ reqs \in [Requests -> Request]
        /\ CatalogOk(store, db) /\ q \in Request /\ RequestOk(db, deleted, q)
    BY InvFacts DEF AuditInv
  <1>2. /\ q.pc = "write"
        /\ deleted' = deleted \cup GoneBetween(db, e)
        /\ carried' = carried \cup (GoneBetween(db, e) \ {name})
        /\ reqs' = [reqs EXCEPT ![r] = q2]
        /\ UNCHANGED <<log, unlogged>>
    BY DEF Write, Written
  <1>3. WriteOk(store, db, q.kind, q.op, q.id, q.row, out)
    <2>1. Addressed(q) /\ Built(q) /\ NodeKept(db, q) /\ RowIsNew(db, deleted, q)
      BY <1>1 DEF RequestOk
    <2> QED BY <1>1, <1>2, <2>1, OutcomeOk
  <1>4. q.kind \in Kinds /\ q.id \in Ids(q.kind)
    BY <1>1, <1>2, RowNames DEF RequestOk, Addressed
  <1>5. reqs'[r] = q2 /\ \A o \in Requests : o # r => reqs'[o] = reqs[o]
    BY <1>1, <1>2
  <1> HIDE DEF q, out
  <1>6. ASSUME name \in GoneBetween(db, e)
        PROVE  q2.pc = "record" /\ q2.op = "delete" /\ <<q2.kind, q2.id>> = name
    <2>1. /\ e \in Db(store) /\ out.err \in Errors
          /\ RowEffect(db, e, q.kind, q.op, q.id, out.err)
      BY <1>3 DEF WriteOk, CatalogOk, StoreErrors
    <2>2. There(db, q.kind, q.id) /\ ~There(e, q.kind, q.id)
      BY <1>1, <1>4, <1>6, <2>1, GoneRows
    <2>3. out.err = "none"
      BY <1>4, <2>1, <2>2 DEF RowEffect, There
    <2>4. q.op = "delete"
      BY <2>1, <2>2, <2>3 DEF RowEffect
    <2>5. AnswersUnread(q)
      BY <2>4 DEF AnswersUnread
    <2> QED BY <1>1, <2>1, <2>3, <2>4, <2>5, WrittenFields
  <1> HIDE DEF e, q2, name
  <1> SUFFICES ASSUME NEW gone \in deleted' \ carried'
               PROVE  Explained(gone)'
    OBVIOUS
  <1>7. CASE gone \in deleted \ carried
    <2>1. Explained(gone)
      BY <1>7 DEF AuditInv
    <2> QED BY <1>2, <1>5, <2>1 DEF Explained, q
  <1>8. CASE gone \in GoneBetween(db, e) /\ gone = name
    BY <1>5, <1>6, <1>8 DEF Explained
  <1> QED BY <1>2, <1>7, <1>8

\* A deletion whose answer was lost is on the list of those; so is every other
\* write of the kind.
LEMMA WriteUnheardExplained ==
  ASSUME AuditInv, NEW r \in Requests, WriteUnheard(r)
  PROVE  \A gone \in deleted' \ carried' : Explained(gone)'
  <1> DEFINE q == reqs[r]
             out == Outcome(q)
             e == out.db
             name == <<q.kind, q.id>>
             lost == <<q.op, q.kind, q.id>>
  <1>1. /\ reqs \in [Requests -> Request] /\ store \in Stores /\ db \in Db(store)
    BY DEF AuditInv, CatalogInv, TypeOK
  <1>2. /\ q.pc = "write" /\ out.err = "none" /\ log' = log
        /\ unlogged' = unlogged \cup {lost}
        /\ deleted' = deleted \cup GoneBetween(db, e)
        /\ carried' = carried \cup (GoneBetween(db, e) \ {name})
        /\ \A o \in Requests : o # r => reqs'[o] = reqs[o]
    BY <1>1 DEF WriteUnheard
  <1>3. /\ q.kind \in Kinds /\ q.id \in Ids(q.kind)
        /\ WriteOk(store, db, q.kind, q.op, q.id, q.row, out)
    BY <1>2, OutcomeFits DEF AuditInv
  <1> HIDE DEF q, out
  <1>4. name \in GoneBetween(db, e) => q.op = "delete"
    <2>1. /\ e \in Db(store) /\ RowEffect(db, e, q.kind, q.op, q.id, "none")
      BY <1>2, <1>3 DEF WriteOk, CatalogOk
    <2>2. name \in GoneBetween(db, e) => ~There(e, q.kind, q.id)
      BY <1>1, <1>3, <2>1, GoneRows
    <2> QED BY <2>1, <2>2 DEF RowEffect
  <1> HIDE DEF e
  <1> SUFFICES ASSUME NEW gone \in deleted' \ carried'
               PROVE  Explained(gone)'
    OBVIOUS
  <1>5. CASE gone \in deleted \ carried
    <2>1. Explained(gone)
      BY <1>5 DEF AuditInv
    <2> QED BY <1>2, <2>1 DEF Explained, q
  <1>6. CASE gone \in GoneBetween(db, e) /\ gone = name
    BY <1>2, <1>4, <1>6 DEF Explained
  <1> QED BY <1>2, <1>5, <1>6

LEMMA RecordExplained ==
  ASSUME AuditInv, NEW r \in Requests, Record(r)
  PROVE  \A gone \in deleted' \ carried' : Explained(gone)'
  <1> DEFINE q == reqs[r]
             entry == Entry(q.op, q.kind, q.id, made)
             lost == <<q.op, q.kind, q.id>>
  <1>1. /\ reqs \in [Requests -> Request] /\ log \in Seq(Logged)
    BY DEF AuditInv, CatalogInv, TypeOK
  <1>2. /\ UNCHANGED <<deleted, carried>>
        /\ \A o \in Requests : o # r => reqs'[o] = reqs[o]
        /\ \/ log' = Append(log, entry) /\ unlogged' = unlogged
           \/ log' = log /\ unlogged' = unlogged \cup {lost}
    BY <1>1 DEF Record, Insert
  <1>3. entry.action = q.op /\ entry.kind = q.kind /\ entry.id = q.id
    BY DEF Entry
  <1> HIDE DEF entry, q
  <1> SUFFICES ASSUME NEW gone \in deleted \ carried
               PROVE  Explained(gone)'
    BY <1>2
  <1>4. Explained(gone)
    BY DEF AuditInv
  <1>5. log' = Append(log, entry) =>
            /\ \A k \in DOMAIN log : k \in DOMAIN log' /\ log'[k] = log[k]
            /\ \E k \in DOMAIN log' : log'[k] = entry
    <2>1. ASSUME log' = Append(log, entry)
          PROVE  Len(log) \in Nat /\ DOMAIN log = 1 .. Len(log) /\ DOMAIN log' = 1 .. Len(log) + 1
                 /\ \A k \in 1 .. Len(log) : log'[k] = log[k]
                 /\ log'[Len(log) + 1] = entry
      BY <1>1, <2>1
    <2> QED BY <2>1
  <1>6. CASE <<"delete", gone[1], gone[2]>> \in unlogged
    BY <1>2, <1>6 DEF Explained
  <1>7. CASE \E k \in DOMAIN log : /\ log[k].action = "delete"
                                   /\ log[k].kind = gone[1] /\ log[k].id = gone[2]
    BY <1>2, <1>5, <1>7 DEF Explained
  <1>8. CASE \E o \in Requests : /\ reqs[o].pc = "record" /\ reqs[o].op = "delete"
                                 /\ <<reqs[o].kind, reqs[o].id>> = gone
    <2>1. PICK o \in Requests : /\ reqs[o].pc = "record" /\ reqs[o].op = "delete"
                                /\ <<reqs[o].kind, reqs[o].id>> = gone
      BY <1>8
    <2>2. CASE o # r
      BY <1>2, <2>1, <2>2 DEF Explained
    <2>3. CASE o = r
      <3>1. q.op = "delete" /\ q.kind = gone[1] /\ q.id = gone[2]
        BY <2>1, <2>3 DEF q
      <3>2. CASE log' = Append(log, entry)
        BY <1>3, <1>5, <3>1, <3>2 DEF Explained
      <3>3. CASE unlogged' = unlogged \cup {lost}
        BY <3>1, <3>3 DEF Explained
      <3> QED BY <1>2, <3>2, <3>3
    <2> QED BY <2>2, <2>3
  <1> QED BY <1>4, <1>6, <1>7, <1>8 DEF Explained

LEMMA NextExplained ==
  ASSUME AuditInv, [Next]_vars
  PROVE  AuditInv'
  <1>1. CatalogInv'
    BY NextKeeps DEF AuditInv
  <1>2. CASE Next
    <2>1. PICK r \in Requests :
             \/ BeginNode(r) \/ BeginTemplate(r) \/ BeginInbound(r) \/ BeginHost(r)
             \/ BeginPlan(r) \/ BeginUser(r) \/ BeginCredential(r)
             \/ Load(r) \/ Lookup(r) \/ Write(r) \/ Reread(r) \/ Record(r)
             \/ QueryFails(r) \/ WriteUnheard(r)
      BY <1>2 DEF Next
    <2>2. CASE \/ BeginNode(r) \/ BeginTemplate(r) \/ BeginInbound(r) \/ BeginHost(r)
               \/ BeginPlan(r) \/ BeginUser(r) \/ BeginCredential(r)
      <3>1. Begins(r)
        BY <2>2, BeginsAreBegins
      <3>2. /\ reqs[r].pc # "record" /\ UNCHANGED <<log, unlogged, deleted, carried>>
            /\ \E q : reqs' = [reqs EXCEPT ![r] = q]
        BY <3>1 DEF Begins, BeginCreate, BeginChange, Accepts, ghosts
      <3> QED BY <1>1, <3>2, QuietStep DEF AuditInv
    <2>3. CASE Load(r)
      <3>1. /\ reqs[r].pc # "record" /\ UNCHANGED <<log, unlogged, deleted, carried>>
            /\ \E q : reqs' = [reqs EXCEPT ![r] = q]
        BY <2>3 DEF Load, ghosts
      <3> QED BY <1>1, <3>1, QuietStep DEF AuditInv
    <2>4. CASE Lookup(r)
      <3>1. /\ reqs[r].pc # "record" /\ UNCHANGED <<log, unlogged, deleted, carried>>
            /\ \E q : reqs' = [reqs EXCEPT ![r] = q]
        BY <2>4 DEF Lookup, ghosts
      <3> QED BY <1>1, <3>1, QuietStep DEF AuditInv
    <2>5. CASE Write(r)
      BY <1>1, <2>5, WriteExplained DEF AuditInv
    <2>6. CASE Reread(r)
      <3>1. /\ reqs[r].pc # "record" /\ UNCHANGED <<log, unlogged, deleted, carried>>
            /\ \E q : reqs' = [reqs EXCEPT ![r] = q]
        BY <2>6 DEF Reread, ghosts
      <3> QED BY <1>1, <3>1, QuietStep DEF AuditInv
    <2>7. CASE Record(r)
      BY <1>1, <2>7, RecordExplained DEF AuditInv
    <2>8. CASE QueryFails(r)
      <3>1. /\ reqs[r].pc # "record" /\ UNCHANGED <<log, unlogged, deleted, carried>>
            /\ \E q : reqs' = [reqs EXCEPT ![r] = q]
        BY <2>8 DEF QueryFails, ghosts
      <3> QED BY <1>1, <3>1, QuietStep DEF AuditInv
    <2>9. CASE WriteUnheard(r)
      BY <1>1, <2>9, WriteUnheardExplained DEF AuditInv
    <2> QED BY <2>1, <2>2, <2>3, <2>4, <2>5, <2>6, <2>7, <2>8, <2>9
  <1>3. CASE UNCHANGED vars
    <2>1. reqs' = reqs /\ log' = log /\ deleted' = deleted /\ carried' = carried
          /\ unlogged' = unlogged
      BY <1>3 DEF vars, ghosts
    <2> QED BY <1>1, <2>1 DEF AuditInv, Explained
  <1> QED BY <1>2, <1>3

\* A list that something matches is not cut down to nothing.
LEMMA CutNotEmpty ==
  ASSUME NEW m \in Nat \ {0}, NEW S, NEW seq \in [1 .. m -> S], NEW n \in Nat \ {0}
  PROVE  Cut(seq, n) # << >>
  <1>1. seq \in Seq(S) /\ Len(seq) = m
    OBVIOUS
  <1> DEFINE j == IF Len(seq) < n THEN Len(seq) ELSE n
  <1>2. j \in 1 .. m
    BY <1>1
  <1> HIDE DEF j
  <1>3. Len(SubSeq(seq, 1, j)) = j
    BY <1>1, <1>2
  <1>4. Cut(seq, n) = SubSeq(seq, 1, j)
    BY DEF Cut, j
  <1>5. Len(<< >>) = 0
    OBVIOUS
  <1> QED BY <1>2, <1>3, <1>4, <1>5

LEMMA ListedNotEmpty ==
  ASSUME NEW f, f.limit = 1, log \in Seq(Logged), NEW k \in Matching(log, f)
  PROVE  List(f) # << >>
  <1> DEFINE M == Matching(log, f)
             m == Cardinality(M)
  <1>1. IsFiniteSet(M) /\ m \in Nat \ {0}
    <2>1. DOMAIN log = 1 .. Len(log) /\ Len(log) \in Nat
      OBVIOUS
    <2>2. M \subseteq 1 .. Len(log)
      BY <2>1 DEF Matching
    <2>3. IsFiniteSet(1 .. Len(log))
      BY <2>1, FS_Interval
    <2>4. IsFiniteSet(M)
      BY <2>2, <2>3, FS_Subset
    <2>5. M # {}
      OBVIOUS
    <2> HIDE DEF M
    <2>6. m \in Nat /\ m # 0
      BY <2>4, <2>5, FS_CardinalityType, FS_EmptySet
    <2> QED BY <2>4, <2>6
  <1>2. ListLimit(f) \in Nat \ {0}
    BY AuditLimits DEF ListLimit
  <1> HIDE DEF m
  <1>3. MemList(log, f) # << >>
    <2> DEFINE Before(i, l) == \/ log[i].at > log[l].at
                               \/ log[i].at = log[l].at /\ i < l
               order == InOrder(M, Before)
               seq == [l \in DOMAIN order |-> log[order[l]]]
    <2>1. DOMAIN order = 1 .. m
      BY DEF InOrder, m
    <2>2. MemList(log, f) = Cut(seq, ListLimit(f))
      BY DEF MemList
    <2> HIDE DEF order
    <2>3. seq \in [1 .. m -> {log[order[l]] : l \in 1 .. m}]
      BY <2>1
    <2> HIDE DEF seq
    <2> QED BY <1>1, <1>2, <2>2, <2>3, CutNotEmpty
  <1>4. PgList(log, f) # << >>
    <2> DEFINE Before(i, l) == \/ log[i].at > log[l].at
                               \/ log[i].at = log[l].at /\ i > l
               order == InOrder(M, Before)
               seq == [l \in DOMAIN order |-> log[order[l]]]
    <2>1. DOMAIN order = 1 .. m
      BY DEF InOrder, m
    <2>2. PgList(log, f) = Cut(seq, ListLimit(f))
      BY DEF PgList
    <2> HIDE DEF order
    <2>3. seq \in [1 .. m -> {log[order[l]] : l \in 1 .. m}]
      BY <2>1
    <2> HIDE DEF seq
    <2> QED BY <1>1, <1>2, <2>2, <2>3, CutNotEmpty
  <1> QED BY <1>3, <1>4 DEF List

\* A deletion that some request made is found by whoever asks the log for it,
\* of either kind of store, whatever the other requests record besides, unless
\* the database refused the entry or the answer of the deletion was lost
\* (RecordFromContext after each Delete, List of the audit stores).
THEOREM DeletionsAreFound == Spec => []DeletionsAreLogged
  <1>1. Init => AuditInv
    BY InitKeeps DEF AuditInv, Init
  <1>2. AuditInv /\ [Next]_vars => AuditInv'
    BY NextExplained
  <1>3. AuditInv => DeletionsAreLogged
    <2> SUFFICES ASSUME AuditInv, NEW gone \in deleted \ carried,
                        NEW k \in DOMAIN log, log[k].action = "delete",
                        log[k].kind = gone[1], log[k].id = gone[2]
                 PROVE  List(ListFilter("delete", gone[1], gone[2], 1)) # << >>
      BY DEF AuditInv, Explained, DeletionsAreLogged
    <2> DEFINE f == ListFilter("delete", gone[1], gone[2], 1)
    <2>1. /\ f.action = "delete" /\ f.kind = gone[1] /\ f.id = gone[2] /\ f.limit = 1
      BY DEF ListFilter
    <2> HIDE DEF f
    <2>2. k \in Matching(log, f)
      BY <2>1 DEF Matching
    <2>3. log \in Seq(Logged)
      BY DEF AuditInv, CatalogInv, TypeOK
    <2> QED BY <2>1, <2>2, <2>3, ListedNotEmpty DEF f
  <1> QED BY <1>1, <1>2, <1>3, PTL DEF Spec

\* The assumption on the catalogs a run starts from is not hollow: the empty
\* one is such a catalog, for either kind of store.
LEMMA EmptyCatalog ==
  ASSUME NEW s \in Stores
  PROVE  /\ NoRows \in Db(s) /\ KeysHold(s, NoRows)
         /\ ReferencesHold(s, NoRows) /\ EndpointsThere(s, NoRows)
  <1>1. << >> \in Seq(Endpoint)
    OBVIOUS
  <1>2. NoRows \in Db(s)
    BY <1>1 DEF NoRows, Db, Table
  <1>3. /\ Live(NoRows.nodes) = {} /\ Live(NoRows.templates) = {} /\ Live(NoRows.inbounds) = {}
        /\ Live(NoRows.hosts) = {} /\ Live(NoRows.plans) = {} /\ Live(NoRows.users) = {}
        /\ Live(NoRows.credentials) = {}
    BY DEF NoRows, Live
  <1>4. /\ \A n \in Names : /\ NoRows.nodeByName[n] = None /\ NoRows.templateByName[n] = None
                            /\ NoRows.hostByRemark[n] = None /\ NoRows.planByName[n] = None
                            /\ NoRows.userByName[n] = None
        /\ DOMAIN NoRows.nodeByName = Names /\ DOMAIN NoRows.templateByName = Names
        /\ DOMAIN NoRows.hostByRemark = Names /\ DOMAIN NoRows.planByName = Names
        /\ DOMAIN NoRows.userByName = Names
        /\ DOMAIN NoRows.inboundByPort = NodeIds \X Ports
        /\ \A key \in NodeIds \X Ports : NoRows.inboundByPort[key] = None
    BY DEF NoRows
  <1>5. /\ \A c \in CredentialIds : NoRows.credentials[c] = None
        /\ \A u \in UserIds : NoRows.credsOfUser[u] = {}
        /\ \A i \in InboundIds : NoRows.credsOfInbound[i] = {}
    BY DEF NoRows
  <1>6. KeysHold(s, NoRows)
    <2>1. /\ NamesHold(s, NoRows.nodes, NoRows.nodeByName)
          /\ NamesHold(s, NoRows.templates, NoRows.templateByName)
          /\ NamesHold(s, NoRows.plans, NoRows.planByName)
          /\ NamesHold(s, NoRows.users, NoRows.userByName)
      BY <1>3, <1>4 DEF NamesHold, OneRowPerName, Inverts
    <2>2. RemarksHold(s, NoRows) /\ InboundKeysHold(s, NoRows)
      BY <1>3, <1>4 DEF RemarksHold, InboundKeysHold, Inverts
    <2>3. PairsHold(s, NoRows)
      BY <1>3, <1>5 DEF PairsHold
    <2> QED BY <2>1, <2>2, <2>3 DEF KeysHold
  <1>7. ReferencesHold(s, NoRows) /\ EndpointsThere(s, NoRows)
    BY <1>3 DEF ReferencesHold, EndpointsAgree, EndpointsThere, NodesThere, PairsThere
  <1> QED BY <1>2, <1>6, <1>7
=============================================================================
