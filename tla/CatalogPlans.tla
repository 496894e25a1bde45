---------------------------- MODULE CatalogPlans ----------------------------
(***************************************************************************)
(* Plans: a unique name and a duration.  The memory store keeps the        *)
(* duration as it came, in nanoseconds; PostgreSQL keeps an INTERVAL of    *)
(* days and microseconds, so a part below a microsecond is lost.           *)
(***************************************************************************)
EXTENDS CatalogStore

CONSTANTS Durations,       \* the durations a client sends, in nanoseconds
          NsPerMicro, MicrosPerDay

PlanInput == [name : Names \cup {BadName, None},
              duration : Durations \cup {None}]

PlanRow == [name : Names, duration : Nat]

\* The columns of a plan in PostgreSQL, and what a store keeps of it.
PlanColumns == [name : Names, duration : [days : Nat, micros : Nat]]
StoredPlan(store) == IF store = "pg" THEN PlanColumns ELSE PlanRow

\* validateName, validateDuration and the checks that no amount is negative.
ValidPlan(row) == row.name \in Names /\ row.duration # None

PlanFrom(in) == in
PatchedPlan(row, in) ==
    [name     |-> IF in.name = None THEN row.name ELSE in.name,
     duration |-> IF in.duration = None THEN row.duration ELSE in.duration]

NsPerDay == NsPerMicro * MicrosPerDay

ASSUME PlanUnits == /\ NsPerMicro \in Nat \ {0}
                    /\ MicrosPerDay \in Nat \ {0}
                    /\ Durations \subseteq Nat

\* durationToInterval and its inverse.
DurationToInterval(ns) == [days |-> ns \div NsPerDay,
                           micros |-> (ns % NsPerDay) \div NsPerMicro]
IntervalToDuration(iv) == iv.days * NsPerDay + iv.micros * NsPerMicro

\* scanPlan converts the INTERVAL back.
ReadPlan(store, db, id) ==
    IF db.plans[id] = None \/ store = "memory" THEN db.plans[id]
    ELSE [db.plans[id] EXCEPT !.duration = IntervalToDuration(@)]

(* --- memory store ------------------------------------------------------ *)
MemCreatePlan(db, id, row) ==
    IF db.plans[id] # None \/ db.planByName[row.name] # None
    THEN Refused(db, "duplicate")
    ELSE Ok([db EXCEPT !.plans[id] = row, !.planByName[row.name] = id])

MemUpdatePlan(db, id, row) ==
    CASE db.plans[id] = None -> Refused(db, "notfound")
      [] db.plans[id] # None /\ db.plans[id].name # row.name
                             /\ db.planByName[row.name] # None ->
            Refused(db, "duplicate")
      [] OTHER -> Ok([db EXCEPT !.plans[id] = row,
                                !.planByName[db.plans[id].name] = None,
                                !.planByName[row.name] = id])

MemDeletePlan(db, id) ==
    IF db.plans[id] = None THEN Refused(db, "notfound")
    ELSE Ok([db EXCEPT !.plans[id] = None,
                       !.planByName[db.plans[id].name] = None])

(* --- pg store ---------------------------------------------------------- *)
PgPlan(row) == [row EXCEPT !.duration = DurationToInterval(@)]

PgCreatePlan(db, id, row) ==
    IF db.plans[id] # None \/ NameTaken(db.plans, id, row.name)
    THEN Refused(db, "duplicate")
    ELSE Ok([db EXCEPT !.plans[id] = PgPlan(row)])

PgUpdatePlan(db, id, row) ==
    CASE db.plans[id] = None -> Refused(db, "notfound")
      [] db.plans[id] # None /\ NameTaken(db.plans, id, row.name) ->
            Refused(db, "duplicate")
      [] OTHER -> Ok([db EXCEPT !.plans[id] = PgPlan(row)])

\* users.plan_id has no foreign key: users keep the id of a plan that is gone.
PgDeletePlan(db, id) ==
    IF db.plans[id] = None THEN Refused(db, "notfound")
    ELSE Ok([db EXCEPT !.plans[id] = None])

(* --- service ----------------------------------------------------------- *)
CreatePlan(in) == [valid |-> ValidPlan(PlanFrom(in)),
                   row |-> PlanFrom(in), lookups |-> << >>]

UpdatePlan(row, in) == [valid |-> ValidPlan(PatchedPlan(row, in)),
                        row |-> PatchedPlan(row, in), lookups |-> << >>]

WritePlan(store, db, op, id, row) ==
    CASE store = "memory" /\ op = "create" -> MemCreatePlan(db, id, row)
      [] store = "memory" /\ op = "update" -> MemUpdatePlan(db, id, row)
      [] store = "memory" /\ op = "delete" -> MemDeletePlan(db, id)
      [] store = "pg" /\ op = "create"     -> PgCreatePlan(db, id, row)
      [] store = "pg" /\ op = "update"     -> PgUpdatePlan(db, id, row)
      [] store = "pg" /\ op = "delete"     -> PgDeletePlan(db, id)
=============================================================================
