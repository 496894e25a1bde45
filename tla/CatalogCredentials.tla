-------------------------- MODULE CatalogCredentials -------------------------
(***************************************************************************)
(* Per-user credentials: at most one value for a user at an inbound.  A    *)
(* create sends the pair and a value, a rotation only a new value; neither *)
(* looks the pair up, which is left to PostgreSQL's foreign keys.          *)
(***************************************************************************)
EXTENDS CatalogStore

CONSTANTS Values,       \* credential values
          NoValue       \* the empty one, which is refused

CredentialInput == [user : UserIds, inbound : InboundIds, value : Values \cup {NoValue}]

\* An empty value is refused before the row is read, and left out here.
CredentialPatch == [value : Values]

CredentialRow == [user : UserIds, inbound : InboundIds, value : Values]

ValidCredential(row) == row.value \in Values

PairKey(row) == <<row.user, row.inbound>>

ReadCredential(db, id) == db.credentials[id]

(* --- memory store ------------------------------------------------------ *)
\* Each row is listed under its user and under its inbound.
Listed(db, id, row) ==
    [db EXCEPT !.credsOfUser[row.user] = @ \cup {id},
               !.credsOfInbound[row.inbound] = @ \cup {id}]
Unlisted(db, id, row) ==
    [db EXCEPT !.credsOfUser[row.user] = @ \ {id},
               !.credsOfInbound[row.inbound] = @ \ {id}]

\* The pair is looked for among the credentials of the user.
MemInsertCredential(db, id, row) ==
    IF \E other \in db.credsOfUser[row.user] :
          db.credentials[other].inbound = row.inbound
    THEN Refused(db, "duplicate")
    ELSE Ok([Listed(db, id, row) EXCEPT !.credentials[id] = row])

MemUpdateCredential(db, id, row) ==
    IF db.credentials[id] = None THEN Refused(db, "notfound")
    ELSE Ok([db EXCEPT !.credentials[id].value = row.value])

MemDeleteCredential(db, id) ==
    IF db.credentials[id] = None THEN Refused(db, "notfound")
    ELSE Ok([Unlisted(db, id, db.credentials[id]) EXCEPT !.credentials[id] = None])

(* --- pg store ---------------------------------------------------------- *)
\* UNIQUE (user_id, inbound_id), and foreign keys to both.
PgInsertCredential(db, id, row) ==
    CASE \E other \in Live(db.credentials) :
            PairKey(db.credentials[other]) = PairKey(row) -> Refused(db, "duplicate")
      [] (\A other \in Live(db.credentials) :
            PairKey(db.credentials[other]) # PairKey(row))
         /\ (db.users[row.user] = None \/ db.inbounds[row.inbound] = None) ->
            Refused(db, "other")
      [] OTHER -> Ok([db EXCEPT !.credentials[id] = row])

\* A single column is written: the pair stays.
PgUpdateCredential(db, id, row) ==
    IF db.credentials[id] = None THEN Refused(db, "notfound")
    ELSE Ok([db EXCEPT !.credentials[id].value = row.value])

PgDeleteCredential(db, id) ==
    IF db.credentials[id] = None THEN Refused(db, "notfound")
    ELSE Ok([db EXCEPT !.credentials[id] = None])

(* --- service ----------------------------------------------------------- *)
CreateCredential(in) ==
    [valid |-> ValidCredential(in), row |-> in, lookups |-> << >>]

\* Rotate: the row is read for the audit entry alone.
RotateCredential(row, in) ==
    [valid |-> TRUE, row |-> [row EXCEPT !.value = in.value], lookups |-> << >>]

WriteCredential(store, db, op, id, row) ==
    CASE store = "memory" /\ op = "create" -> MemInsertCredential(db, id, row)
      [] store = "memory" /\ op = "update" -> MemUpdateCredential(db, id, row)
      [] store = "memory" /\ op = "delete" -> MemDeleteCredential(db, id)
      [] store = "pg" /\ op = "create"     -> PgInsertCredential(db, id, row)
      [] store = "pg" /\ op = "update"     -> PgUpdateCredential(db, id, row)
      [] store = "pg" /\ op = "delete"     -> PgDeleteCredential(db, id)
=============================================================================
