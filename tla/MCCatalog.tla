----------------------------- MODULE MCCatalog ------------------------------
(***************************************************************************)
(* Two nodes, two inbounds, a host, a template, a plan, two users and two  *)
(* credentials, from an empty catalog and from one that earlier requests   *)
(* have filled.                                                            *)
(***************************************************************************)
EXTENDS Catalog, TLC

CONSTANTS n1, n2, t1, i1, i2, h1, p1, u1, u2, c1, c2,
          x, y, v1, v2, vless, trojan,
          e1, e2, e3, r1, r2

Ep(id, node, inb) == [id |-> id, node |-> node, inbound |-> inb]

Both == <<Ep(e1, n1, i1), Ep(e2, n1, i2)>>

MCNodeBodies == {[name |-> x]}
MCTemplateBodies == {[name |-> x, protocol |-> vless]}
MCInboundBodies ==
    {[node |-> n1, name |-> x, port |-> 1, protocol |-> vless, template |-> t1],
     [node |-> n2, name |-> y, port |-> 2, protocol |-> vless, template |-> None]}
MCInboundPatches ==
    {[name |-> y, port |-> 2, protocol |-> None, template |-> None],
     [name |-> None, port |-> 2, protocol |-> trojan, template |-> t1],
     [name |-> BadName, port |-> None, protocol |-> None, template |-> Clear]}
MCHostBodies ==
    {[remark |-> x, type |-> "direct", endpoints |-> <<Ep(e1, n1, i1)>>,
      balancer |-> None],
     [remark |-> None, type |-> None, endpoints |-> <<Ep(e3, n1, i1)>>,
      balancer |-> None],
     [remark |-> y, type |-> "balancer", endpoints |-> Both,
      balancer |-> [failover |-> {e2}]],
     [remark |-> y, type |-> "balancer",
      endpoints |-> <<Ep(e1, n1, i1), Ep(e1, n1, i2)>>,
      balancer |-> [failover |-> {e1}]],
     [remark |-> None, type |-> "balancer", endpoints |-> None,
      balancer |-> [failover |-> {}]]}
MCPlanBodies == {[name |-> x, duration |-> 7], [name |-> y, duration |-> None]}
MCUserBodies == {[name |-> x]}
MCCredentialBodies == {[user |-> u1, inbound |-> i1, value |-> v1]}
MCCredentialPatches == {[value |-> v2]}

\* A catalog that earlier requests may have left: two nodes, two inbounds of
\* the first, a balancer over them, a template, a plan,
\* a user and its credential.
Inb(name, port) == [node |-> n1, name |-> name, port |-> port,
                    protocol |-> vless, template |-> None]
Lb == [remark |-> x, type |-> "balancer", endpoints |-> Both,
       balancer |-> [failover |-> {e2}]]

Cred == [user |-> u1, inbound |-> i1, value |-> v1]

FilledPg ==
    [NoRows EXCEPT !.nodes = (n1 :> [name |-> x] @@ n2 :> [name |-> y]),
                   !.templates = (t1 :> [name |-> x, protocol |-> vless]),
                   !.inbounds = (i1 :> Inb(x, 1) @@ i2 :> Inb(y, 2)),
                   !.hosts[h1] = HostColumns(Lb),
                   !.endpoints[h1] = Both,
                   !.plans[p1] = PgPlan([name |-> x, duration |-> 7]),
                   !.users[u1] = [name |-> y],
                   !.credentials[c1] = Cred]
FilledMemory ==
    [NoRows EXCEPT !.nodes = FilledPg.nodes,
                   !.templates = FilledPg.templates,
                   !.inbounds = FilledPg.inbounds,
                   !.hosts[h1] = Lb,
                   !.plans[p1] = [name |-> x, duration |-> 7],
                   !.users = FilledPg.users,
                   !.credentials = FilledPg.credentials,
                   !.userByName[y] = u1,
                   !.credsOfUser[u1] = {c1},
                   !.credsOfInbound[i1] = {c1},
                   !.nodeByName = (x :> n1 @@ y :> n2),
                   !.templateByName[x] = t1,
                   !.inboundByName[<<n1, x>>] = i1,
                   !.inboundByName[<<n1, y>>] = i2,
                   !.inboundByPort[<<n1, 1>>] = i1,
                   !.inboundByPort[<<n1, 2>>] = i2,
                   !.hostByRemark[x] = h1,
                   !.planByName[x] = p1]
MCSeeds == [pg |-> {NoRows, FilledPg}, memory |-> {NoRows, FilledMemory}]

Twins == Permutations({r1, r2})
=============================================================================
