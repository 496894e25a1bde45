---------------------------- MODULE CatalogUsers ----------------------------
(***************************************************************************)
(* Users as the catalog sees them: rows with a unique name that            *)
(* credentials point at.  Their tokens, status and plan are                *)
(* SubscriptionAccess's, their host lists AccessSync's.                    *)
(***************************************************************************)
EXTENDS CatalogStore

UserInput == [name : Names \cup {BadName, None}]

UserRow == [name : Names]

\* validateUsername and the checks of the amounts, the lists and the contacts.
ValidUser(row) == row.name \in Names

PatchedUser(row, in) == IF in.name = None THEN row ELSE [name |-> in.name]

ReadUser(db, id) == db.users[id]

(* --- memory store ------------------------------------------------------ *)
MemCreateUser(db, id, row) ==
    IF db.users[id] # None \/ db.userByName[row.name] # None
    THEN Refused(db, "duplicate")
    ELSE Ok([db EXCEPT !.users[id] = row, !.userByName[row.name] = id])

\* The old name leaves the index before the new one enters it.
MemUpdateUser(db, id, row) ==
    CASE db.users[id] = None -> Refused(db, "notfound")
      [] db.users[id] # None /\ db.users[id].name # row.name
                             /\ db.userByName[row.name] # None ->
            Refused(db, "duplicate")
      [] OTHER -> Ok([db EXCEPT !.users[id] = row,
                                !.userByName[db.users[id].name] = None,
                                !.userByName[row.name] = id])

\* The credentials are another store's, which does not hear of it.
MemDeleteUser(db, id) ==
    IF db.users[id] = None THEN Refused(db, "notfound")
    ELSE Ok([db EXCEPT !.users[id] = None,
                       !.userByName[db.users[id].name] = None])

(* --- pg store ---------------------------------------------------------- *)
PgCreateUser(db, id, row) ==
    IF db.users[id] # None \/ NameTaken(db.users, id, row.name)
    THEN Refused(db, "duplicate")
    ELSE Ok([db EXCEPT !.users[id] = row])

PgUpdateUser(db, id, row) ==
    CASE db.users[id] = None -> Refused(db, "notfound")
      [] db.users[id] # None /\ NameTaken(db.users, id, row.name) ->
            Refused(db, "duplicate")
      [] OTHER -> Ok([db EXCEPT !.users[id] = row])

\* user_inbound_credentials.user_id is ON DELETE CASCADE.
PgDeleteUser(db, id) ==
    IF db.users[id] = None THEN Refused(db, "notfound")
    ELSE Ok([WithoutCredentials(db, {id}, {})
                EXCEPT !.users[id] = None])

(* --- service ----------------------------------------------------------- *)
CreateUser(in) == [valid |-> ValidUser(in), row |-> in, lookups |-> << >>]

UpdateUser(row, in) == [valid |-> ValidUser(PatchedUser(row, in)),
                        row |-> PatchedUser(row, in), lookups |-> << >>]

WriteUser(store, db, op, id, row) ==
    CASE store = "memory" /\ op = "create" -> MemCreateUser(db, id, row)
      [] store = "memory" /\ op = "update" -> MemUpdateUser(db, id, row)
      [] store = "memory" /\ op = "delete" -> MemDeleteUser(db, id)
      [] store = "pg" /\ op = "create"     -> PgCreateUser(db, id, row)
      [] store = "pg" /\ op = "update"     -> PgUpdateUser(db, id, row)
      [] store = "pg" /\ op = "delete"     -> PgDeleteUser(db, id)
=============================================================================
