---------------------------- MODULE CatalogHosts ----------------------------
(***************************************************************************)
(* Hosts: what a user's subscription lists, under a unique remark.  A host *)
(* is direct, with one endpoint, or a balancer over two or more; an        *)
(* endpoint is a node and an inbound of it.  The memory store keeps a host *)
(* whole; PostgreSQL keeps the endpoints in a table of their own.          *)
(***************************************************************************)
EXTENDS CatalogStore

CONSTANT EndpointIds

Endpoint == [id : EndpointIds, node : NodeIds, inbound : InboundIds]

\* A balancer names the endpoints it falls back on.
Balancer == [failover : SUBSET EndpointIds]

\* A create or a patch; a field that is None is left out of the body.
HostInput == [remark : Names \cup {BadName, None},
              type : {"direct", "balancer", None},
              endpoints : Seq(Endpoint) \cup {None},
              balancer : Balancer \cup {None}]

HostRow == [remark : Names, type : {"direct", "balancer"},
            endpoints : Seq(Endpoint), balancer : Balancer \cup {None}]

StoredHost(store) == IF store = "pg"
                     THEN [remark : Names, type : {"direct", "balancer"},
                           balancer : Balancer \cup {None}]
                     ELSE HostRow

IdsIn(eps) == {eps[k].id : k \in DOMAIN eps}

\* validateEndpointsCount.
CountFits(type, eps) == IF type = "direct" THEN Len(eps) = 1 ELSE Len(eps) >= 2

\* normaliseBalancer.
BalancerFits(type, balancer, eps) ==
    IF type = "direct" THEN balancer = None
    ELSE balancer # None /\ balancer.failover \subseteq IdsIn(eps)

ShapeFits(row) == /\ row.endpoints # None
                  /\ CountFits(row.type, row.endpoints)
                  /\ BalancerFits(row.type, row.balancer, row.endpoints)

ValidHost(row) == row.remark \in Names /\ row.type # None

HostFrom(in) == in

\* A balancer cannot be taken off: a patch without one keeps the old one.
PatchedHost(row, in) ==
    [remark    |-> IF in.remark = None THEN row.remark ELSE in.remark,
     type      |-> IF in.type = None THEN row.type ELSE in.type,
     endpoints |-> IF in.endpoints = None THEN row.endpoints ELSE in.endpoints,
     balancer  |-> IF in.balancer = None THEN row.balancer ELSE in.balancer]

(* --- memory store ------------------------------------------------------ *)
RemarkTaken(db, id, remark) ==
    \E other \in Live(db.hosts) \ {id} : db.hosts[other].remark = remark

MemCreateHost(db, id, row) ==
    IF db.hostByRemark[row.remark] # None \/ db.hosts[id] # None
    THEN Refused(db, "duplicate")
    ELSE Ok([db EXCEPT !.hosts[id] = row, !.hostByRemark[row.remark] = id])

\* Bug variant of MemUpdateHost: a host that was deleted meanwhile is put back.
MemUpdateHostPutsBack(db, id, row) ==
    Ok([db EXCEPT !.hosts[id] = row, !.hostByRemark[row.remark] = id])

MemUpdateHost(db, id, row) ==
    CASE db.hosts[id] = None -> Refused(db, "notfound")
      [] db.hosts[id] # None /\ db.hosts[id].remark # row.remark
                             /\ db.hostByRemark[row.remark] # None ->
            Refused(db, "duplicate")
      [] OTHER -> Ok([db EXCEPT !.hosts[id] = row,
                                !.hostByRemark[db.hosts[id].remark] = None,
                                !.hostByRemark[row.remark] = id])

MemDeleteHost(db, id) ==
    IF db.hosts[id] = None THEN Refused(db, "notfound")
    ELSE Ok([db EXCEPT !.hosts[id] = None,
                       !.hostByRemark[db.hosts[id].remark] = None])

(* --- pg store ---------------------------------------------------------- *)
HostColumns(row) == [remark |-> row.remark, type |-> row.type,
                     balancer |-> row.balancer]

\* The foreign keys of an endpoint, and its primary key: the endpoints of a
\* host are inserted one by one, after the old ones of the host are gone.
References(db, ep) == /\ db.nodes[ep.node] # None
                      /\ db.inbounds[ep.inbound] # None
IdTaken(db, id, eps, k) ==
    \/ \E j \in 1 .. k - 1 : eps[j].id = eps[k].id
    \/ \E other \in HostIds \ {id} : eps[k].id \in IdsIn(db.endpoints[other])

\* The endpoints that are refused; the first of them ends the transaction.
Unfit(db, id, eps) == {k \in DOMAIN eps : \/ IdTaken(db, id, eps, k)
                                          \/ ~References(db, eps[k])}
InsertError(db, id, eps) ==
    LET bad == Unfit(db, id, eps)
        first == CHOOSE k \in bad : \A j \in bad : k <= j
    IN  IF IdTaken(db, id, eps, first) THEN "duplicate" ELSE "other"

\* The host, then each endpoint, in one transaction: all of it or nothing.
PgCreateHost(db, id, row) ==
    CASE db.hosts[id] # None \/ RemarkTaken(db, id, row.remark) ->
            Refused(db, "duplicate")
      [] db.hosts[id] = None /\ ~RemarkTaken(db, id, row.remark)
                             /\ Unfit(db, id, row.endpoints) # {} ->
            Refused(db, InsertError(db, id, row.endpoints))
      [] OTHER -> Ok([db EXCEPT !.hosts[id] = HostColumns(row),
                                !.endpoints[id] = row.endpoints])

\* The host row, the old endpoints deleted, the new ones inserted: one
\* transaction.
PgUpdateHost(db, id, row) ==
    CASE db.hosts[id] = None -> Refused(db, "notfound")
      [] db.hosts[id] # None /\ RemarkTaken(db, id, row.remark) ->
            Refused(db, "duplicate")
      [] db.hosts[id] # None /\ ~RemarkTaken(db, id, row.remark)
                             /\ Unfit(db, id, row.endpoints) # {} ->
            Refused(db, InsertError(db, id, row.endpoints))
      [] OTHER -> Ok([db EXCEPT !.hosts[id] = HostColumns(row),
                                !.endpoints[id] = row.endpoints])

\* The endpoints go with the host (ON DELETE CASCADE).
PgDeleteHost(db, id) ==
    IF db.hosts[id] = None THEN Refused(db, "notfound")
    ELSE Ok([db EXCEPT !.hosts[id] = None, !.endpoints[id] = << >>])

\* The join of a host with its endpoints.
ReadHost(store, db, id) ==
    IF db.hosts[id] = None \/ store = "memory" THEN db.hosts[id]
    ELSE [remark |-> db.hosts[id].remark, type |-> db.hosts[id].type,
          endpoints |-> db.endpoints[id], balancer |-> db.hosts[id].balancer]

(* --- service ----------------------------------------------------------- *)
\* validateEndpointInbound: the inbound is there, and on the endpoint's node.
InboundOnNode(db, id, node) ==
    db.inbounds[id] # None /\ db.inbounds[id].node = node

\* Each endpoint is looked up in turn: its node, then its inbound.
EndpointLookups(eps) ==
    [k \in 1 .. 2 * Len(eps) |->
        LET ep == eps[(k + 1) \div 2] IN
        IF k % 2 = 1 THEN [what |-> "node", id |-> ep.node]
        ELSE [what |-> "inbound", id |-> ep.inbound, node |-> ep.node]]

CreateHost(in) ==
    [valid |-> ValidHost(HostFrom(in)) /\ ShapeFits(HostFrom(in)),
     row |-> HostFrom(in),
     lookups |-> IF in.endpoints = None THEN << >>
                 ELSE EndpointLookups(in.endpoints)]

\* Only endpoints the patch brings are looked up; count and balancer are
\* checked against the whole patched row.
UpdateHost(row, in) ==
    LET new == PatchedHost(row, in) IN
    [valid |-> ValidHost(new) /\ ShapeFits(new), row |-> new,
     lookups |-> IF in.endpoints = None THEN << >>
                 ELSE EndpointLookups(in.endpoints)]

WriteHost(store, db, op, id, row) ==
    CASE store = "memory" /\ op = "create" -> MemCreateHost(db, id, row)
      [] store = "memory" /\ op = "update" -> MemUpdateHost(db, id, row)
      [] store = "memory" /\ op = "delete" -> MemDeleteHost(db, id)
      [] store = "pg" /\ op = "create"     -> PgCreateHost(db, id, row)
      [] store = "pg" /\ op = "update"     -> PgUpdateHost(db, id, row)
      [] store = "pg" /\ op = "delete"     -> PgDeleteHost(db, id)
=============================================================================
