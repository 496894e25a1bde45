-------------------------- MODULE CatalogTemplates --------------------------
(***************************************************************************)
(* Inbound templates: parameter blocks of one protocol under a unique      *)
(* name, that inbounds of that protocol may refer to.                      *)
(***************************************************************************)
EXTENDS CatalogStore

TemplateInput == [name : Names \cup {BadName, None},
                  protocol : Protocols \cup {None}]

TemplateRow == [name : Names, protocol : Protocols]

\* validateName, validateProtocol and validateDescription.
ValidTemplate(row) == row.name \in Names /\ row.protocol \in Protocols

TemplateFrom(in) == in
PatchedTemplate(row, in) ==
    [name     |-> IF in.name = None THEN row.name ELSE in.name,
     protocol |-> IF in.protocol = None THEN row.protocol ELSE in.protocol]

ReadTemplate(db, id) == db.templates[id]

(* --- memory store ------------------------------------------------------ *)
MemCreateTemplate(db, id, row) ==
    IF db.templateByName[row.name] # None \/ db.templates[id] # None
    THEN Refused(db, "duplicate")
    ELSE Ok([db EXCEPT !.templates[id] = row,
                       !.templateByName[row.name] = id])

MemUpdateTemplate(db, id, row) ==
    CASE db.templates[id] = None -> Refused(db, "notfound")
      [] db.templates[id] # None /\ db.templates[id].name # row.name
                                 /\ db.templateByName[row.name] # None ->
            Refused(db, "duplicate")
      [] OTHER -> Ok([db EXCEPT !.templates[id] = row,
                        !.templateByName[db.templates[id].name] = None,
                        !.templateByName[row.name] = id])

\* Inbounds that refer to it keep the reference.
MemDeleteTemplate(db, id) ==
    IF db.templates[id] = None THEN Refused(db, "notfound")
    ELSE Ok([db EXCEPT !.templates[id] = None,
                       !.templateByName[db.templates[id].name] = None])

(* --- pg store ---------------------------------------------------------- *)
PgCreateTemplate(db, id, row) ==
    IF db.templates[id] # None \/ NameTaken(db.templates, id, row.name)
    THEN Refused(db, "duplicate")
    ELSE Ok([db EXCEPT !.templates[id] = row])

PgUpdateTemplate(db, id, row) ==
    CASE db.templates[id] = None -> Refused(db, "notfound")
      [] db.templates[id] # None /\ NameTaken(db.templates, id, row.name) ->
            Refused(db, "duplicate")
      [] OTHER -> Ok([db EXCEPT !.templates[id] = row])

\* inbounds.template_id is ON DELETE SET NULL.
PgDeleteTemplate(db, id) ==
    IF db.templates[id] = None THEN Refused(db, "notfound")
    ELSE Ok([db EXCEPT !.templates[id] = None,
                !.inbounds = [inb \in InboundIds |->
                    IF db.inbounds[inb] # None /\ db.inbounds[inb].template = id
                    THEN [db.inbounds[inb] EXCEPT !.template = None]
                    ELSE db.inbounds[inb]]])

(* --- service ----------------------------------------------------------- *)
CreateTemplate(in) == [valid |-> ValidTemplate(TemplateFrom(in)),
                       row |-> TemplateFrom(in), lookups |-> << >>]

UpdateTemplate(row, in) == [valid |-> ValidTemplate(PatchedTemplate(row, in)),
                            row |-> PatchedTemplate(row, in),
                            lookups |-> << >>]

WriteTemplate(store, db, op, id, row) ==
    CASE store = "memory" /\ op = "create" -> MemCreateTemplate(db, id, row)
      [] store = "memory" /\ op = "update" -> MemUpdateTemplate(db, id, row)
      [] store = "memory" /\ op = "delete" -> MemDeleteTemplate(db, id)
      [] store = "pg" /\ op = "create"     -> PgCreateTemplate(db, id, row)
      [] store = "pg" /\ op = "update"     -> PgUpdateTemplate(db, id, row)
      [] store = "pg" /\ op = "delete"     -> PgDeleteTemplate(db, id)
=============================================================================
