------------------------- MODULE SubscriptionProofs -------------------------
(***************************************************************************)
(* Proofs about the subscription endpoint.                                 *)
(*                                                                         *)
(* The gate: however rotations of the panel's path interleave, the newest  *)
(* one is the one that is read, and the limiter is a bucket per key, for   *)
(* any number of keys, requests and rotations.                             *)
(*                                                                         *)
(* The access, for any users, plans, hosts, operators and clients: the     *)
(* edits of status and plan stay, a token that was revoked stays so, and   *)
(* what a fetch delivers or refuses was due at some moment since it began. *)
(***************************************************************************)
EXTENDS SubscriptionGate, SubscriptionAccess, FiniteSetTheorems, TLAPS

-----------------------------------------------------------------------------
(* The panel's path.                                                       *)

\* No stamp that is in use was read later than the last one.
StampsCover ==
  /\ \A r \in RowId : rows[r].created <= stamps
  /\ \A o \in Rotator : tx[o].stamp <= stamps

\* A row is locked by one transaction.
HeldDisjoint ==
  \A o, p \in Rotator : o # p => tx[o].held \cap tx[p].held = {}

\* What a transaction is about to deactivate is older than what it inserted.
HeldOlder ==
  \A o \in Rotator :
    /\ tx[o].at \in {"none", "lock"} => tx[o].held = {}
    /\ tx[o].at = "commit" =>
         /\ tx[o].id \in tx[o].held
         /\ \A r \in tx[o].held : rows[r].created < tx[o].stamp

\* The row with the latest stamp is active.
NewestActive ==
  \E m \in Active : \A r \in RowId : rows[r].created <= rows[m].created

PathInv == PathTypeOK /\ StampsCover /\ HeldDisjoint /\ HeldOlder /\ NewestActive

\* What the steps make of a transaction's record is one again.
LEMMA TxRecords ==
  /\ NoTx \in Tx
  /\ \A reset \in BOOLEAN, seen \in SUBSET RowId, id \in RowId :
       [NoTx EXCEPT !.at = "lock", !.reset = reset, !.seen = seen, !.id = id] \in Tx
  /\ \A t \in Tx, held \in SUBSET RowId :
       [t EXCEPT !.at = "insert", !.held = held] \in Tx
  /\ \A t \in Tx, held \in SUBSET RowId, stamp \in Nat :
       [t EXCEPT !.at = "commit", !.stamp = stamp, !.held = held] \in Tx
  <1>1. 0 \in RowId /\ {} \in SUBSET RowId
    BY PathAssumption DEF RowId
  <1>2. NoTx \in Tx
    BY <1>1 DEF NoTx, Tx
  <1>3. \A reset \in BOOLEAN, seen \in SUBSET RowId, id \in RowId :
       [NoTx EXCEPT !.at = "lock", !.reset = reset, !.seen = seen, !.id = id] \in Tx
    BY <1>2 DEF Tx
  <1>4. \A t \in Tx, held \in SUBSET RowId :
       [t EXCEPT !.at = "insert", !.held = held] \in Tx
    BY DEF Tx
  <1>5. \A t \in Tx, held \in SUBSET RowId, stamp \in Nat :
       [t EXCEPT !.at = "commit", !.stamp = stamp, !.held = held] \in Tx
    BY DEF Tx
  <1> QED
    BY <1>2, <1>3, <1>4, <1>5

LEMMA PathInitInv == PathInit => PathInv
  <1> SUFFICES ASSUME PathInit PROVE PathInv
    OBVIOUS
  <1>1. Sentinel \in RowId
    BY PathAssumption DEF Sentinel, RowId
  <1>2. PathTypeOK
    <2>1. tx \in [Rotator -> Tx]
      BY TxRecords DEF PathInit
    <2>2. \A r \in RowId : [active |-> r = Sentinel,
                            created |-> IF r = Sentinel THEN 0 ELSE -1] \in PathRow
      BY DEF PathRow
    <2> QED
      BY <1>1, <2>1, <2>2, PathAssumption DEF PathInit, PathTypeOK
  <1>3. StampsCover /\ HeldDisjoint /\ HeldOlder
    BY <1>1, PathAssumption
    DEF PathInit, StampsCover, HeldDisjoint, HeldOlder, NoTx, Sentinel, RowId
  <1>4. NewestActive
    <2>1. Sentinel \in Active
      BY <1>1 DEF PathInit, Active
    <2>2. \A r \in RowId : rows[r].created <= rows[Sentinel].created
      BY <1>1 DEF PathInit, Sentinel
    <2> QED
      BY <2>1, <2>2 DEF NewestActive
  <1> QED
    BY <1>2, <1>3, <1>4 DEF PathInv

\* GetActive answers with the row with the latest stamp.
LEMMA NewestIsRead == PathInv => NewestRotationWins /\ GetActive \in RowId
  <1> SUFFICES ASSUME PathInv PROVE NewestRotationWins /\ GetActive \in RowId
    OBVIOUS
  <1>1. PICK m \in Active : \A r \in RowId : rows[r].created <= rows[m].created
    BY DEF PathInv, NewestActive
  <1>2. \A q \in Active : rows[q].created <= rows[m].created
    BY <1>1 DEF Active
  <1>3. /\ GetActive \in Active
        /\ \A q \in Active : rows[q].created <= rows[GetActive].created
    BY <1>2 DEF GetActive
  <1>4. rows[m].created <= rows[GetActive].created
    BY <1>3
  <1>5. \A r \in RowId : rows[r].created \in Int
    BY DEF PathInv, PathTypeOK, PathRow
  <1>6. GetActive \in RowId /\ m \in RowId
    BY <1>3 DEF Active
  <1>7. \A r \in RowId : rows[r].created <= rows[GetActive].created
    BY <1>1, <1>4, <1>5, <1>6
  <1> QED
    BY <1>3, <1>6, <1>7 DEF NewestRotationWins

\* A step that leaves the rows alone leaves the newest one active.
LEMMA NewestActiveFrame == NewestActive /\ UNCHANGED rows => NewestActive'
  BY DEF NewestActive, Active

LEMMA BeginKeeps ==
  ASSUME PathInv, NEW o \in Rotator, BeginRotation(o)
  PROVE  PathInv'
  <1>1. PICK reset \in BOOLEAN :
          tx' = [tx EXCEPT ![o] = [NoTx EXCEPT !.at = "lock", !.reset = reset,
                   !.seen = Active,
                   !.id = IF reset THEN Sentinel ELSE rotations + 1]]
    BY DEF BeginRotation
  <1>2. Active \subseteq RowId
    BY DEF Active
  <1>3. PathTypeOK'
    <2>1. rotations' \in 0..MaxRotations /\ rotations + 1 \in RowId /\ Sentinel \in RowId
      BY PathAssumption DEF PathInv, PathTypeOK, BeginRotation, RowId, Sentinel
    <2> QED
      <3>1. tx' \in [Rotator -> Tx]
        BY <1>1, <1>2, <2>1, TxRecords DEF PathInv, PathTypeOK
      <3> QED
        BY <2>1, <3>1 DEF PathInv, PathTypeOK, BeginRotation
  <1>4. StampsCover'
    BY <1>1 DEF PathInv, PathTypeOK, Tx, StampsCover, BeginRotation, NoTx
  <1>5. HeldDisjoint' /\ HeldOlder'
    BY <1>1 DEF PathInv, PathTypeOK, HeldDisjoint, HeldOlder, BeginRotation, NoTx
  <1> QED
    BY <1>3, <1>4, <1>5, NewestActiveFrame DEF PathInv, BeginRotation

LEMMA DeactivateKeeps ==
  ASSUME PathInv, NEW o \in Rotator, Deactivate(o)
  PROVE  PathInv'
  <1>1. tx' = [tx EXCEPT ![o].at = "insert", ![o].held = tx[o].seen \cap Active]
    BY DEF Deactivate
  <1>2. Active \subseteq RowId
    BY DEF Active
  <1>3. PathTypeOK'
    <2>1. tx[o].seen \cap Active \in SUBSET RowId /\ tx[o] \in Tx
      BY <1>2 DEF PathInv, PathTypeOK
    <2>2. tx' \in [Rotator -> Tx]
      BY <1>1, <2>1, TxRecords DEF PathInv, PathTypeOK
    <2> QED
      BY <2>2 DEF PathInv, PathTypeOK, Deactivate
  <1>4. StampsCover'
    BY <1>1 DEF PathInv, PathTypeOK, Tx, StampsCover, Deactivate
  <1>5. \A p \in Rotator \ {o} : tx[o].seen \cap tx[p].held = {}
    BY DEF Deactivate, HeldByOthers
  <1>6. HeldDisjoint'
    BY <1>1, <1>5 DEF PathInv, PathTypeOK, HeldDisjoint
  <1>7. HeldOlder'
    BY <1>1 DEF PathInv, PathTypeOK, HeldOlder, Deactivate
  <1> QED
    BY <1>3, <1>4, <1>6, <1>7, NewestActiveFrame DEF PathInv, Deactivate

LEMMA InsertKeeps ==
  ASSUME PathInv, NEW o \in Rotator, Insert(o)
  PROVE  PathInv'
  <1>1. tx' = [tx EXCEPT ![o].at = "commit", ![o].stamp = stamps + 1,
                         ![o].held = @ \cup {tx[o].id}]
    BY DEF Insert
  <1>2. PathTypeOK'
    <2>1. /\ tx[o].held \cup {tx[o].id} \in SUBSET RowId
          /\ tx[o] \in Tx /\ stamps + 1 \in Nat
      BY DEF PathInv, PathTypeOK, Tx
    <2>2. tx' \in [Rotator -> Tx]
      BY <1>1, <2>1, TxRecords DEF PathInv, PathTypeOK
    <2> QED
      BY <2>1, <2>2 DEF PathInv, PathTypeOK, Insert
  <1>3. StampsCover'
    <2>1. \A r \in RowId : rows[r].created <= stamps + 1
      BY DEF PathInv, PathTypeOK, PathRow, StampsCover
    <2>2. \A p \in Rotator : tx'[p].stamp <= stamps + 1
      BY <1>1 DEF PathInv, PathTypeOK, Tx, StampsCover
    <2> QED
      BY <2>1, <2>2 DEF StampsCover, Insert
  <1>4. \A p \in Rotator \ {o} : tx[o].id \notin tx[p].held
    BY DEF Insert, HeldByOthers
  <1>5. HeldDisjoint'
    BY <1>1, <1>4 DEF PathInv, PathTypeOK, HeldDisjoint
  <1>6. HeldOlder'
    <2>1. \A r \in RowId : rows[r].created < stamps + 1
      BY DEF PathInv, PathTypeOK, PathRow, StampsCover
    <2> QED
      BY <1>1, <2>1 DEF PathInv, PathTypeOK, Tx, HeldOlder, Insert
  <1> QED
    BY <1>2, <1>3, <1>5, <1>6, NewestActiveFrame DEF PathInv, Insert

LEMMA CommitKeeps ==
  ASSUME PathInv, NEW o \in Rotator, Commit(o)
  PROVE  PathInv'
  <1> DEFINE id == tx[o].id
             held == tx[o].held
  <1>1. /\ id \in RowId /\ held \subseteq RowId /\ id \in held
        /\ tx[o].stamp \in Nat /\ tx[o].stamp <= stamps
        /\ \A r \in held : rows[r].created < tx[o].stamp
    BY DEF PathInv, PathTypeOK, Tx, StampsCover, HeldOlder, Commit
  <1>2. rows'[id] = [active |-> TRUE, created |-> tx[o].stamp]
    BY <1>1 DEF Commit
  <1>3. \A r \in RowId \ held : rows'[r] = rows[r]
    BY <1>1 DEF Commit
  <1>4. \A r \in held \ {id} : rows'[r] = [rows[r] EXCEPT !.active = FALSE]
    BY <1>1 DEF Commit
  <1>5. \A r \in RowId \ {id} : rows'[r].created = rows[r].created
    <2>1. ASSUME NEW r \in held \ {id}
          PROVE  rows'[r].created = rows[r].created
      <3>1. PICK x \in PathRow : x = rows[r]
        BY <1>1 DEF PathInv, PathTypeOK
      <3>2. [x EXCEPT !.active = FALSE].created = x.created
        BY DEF PathRow
      <3> QED
        BY <1>4, <3>1, <3>2
    <2>2. \A r \in RowId \ held : rows'[r].created = rows[r].created
      BY <1>3
    <2> HIDE DEF held
    <2> QED
      BY <2>1, <2>2
  <1>6. tx' = [tx EXCEPT ![o] = NoTx]
    BY DEF Commit
  <1>7. PathTypeOK'
    <2>1. rows' \in [RowId -> PathRow]
      <3>1. \A x \in PathRow : [x EXCEPT !.active = FALSE] \in PathRow
        BY DEF PathRow
      <3>2. rows'[id] \in PathRow
        BY <1>1, <1>2 DEF PathRow
      <3>3. \A r \in RowId : rows'[r] \in PathRow
        <4> SUFFICES ASSUME NEW r \in RowId PROVE rows'[r] \in PathRow
          OBVIOUS
        <4>1. rows[r] \in PathRow
          BY DEF PathInv, PathTypeOK
        <4>2. CASE r \in held \ {id}
          BY <1>4, <3>1, <4>1, <4>2
        <4>3. CASE r \notin held
          BY <1>3, <4>1, <4>3
        <4> QED
          BY <3>2, <4>2, <4>3
      <3> QED
        BY <3>3 DEF Commit
    <2> QED
      BY <1>6, <2>1, TxRecords DEF PathInv, PathTypeOK, Commit
  <1>8. StampsCover'
    BY <1>1, <1>2, <1>5, <1>6 DEF PathInv, PathTypeOK, PathRow, StampsCover, Commit, NoTx
  <1>9. HeldDisjoint'
    BY <1>6 DEF PathInv, PathTypeOK, HeldDisjoint, NoTx
  <1>10. HeldOlder'
    <2> SUFFICES ASSUME NEW p \in Rotator, p # o
                 PROVE  /\ tx[p].at \in {"none", "lock"} => tx[p].held = {}
                        /\ tx[p].at = "commit" =>
                             /\ tx[p].id \in tx[p].held
                             /\ \A r \in tx[p].held : rows'[r].created < tx[p].stamp
      BY <1>6 DEF PathInv, PathTypeOK, HeldOlder, NoTx
    <2>1. tx[p].held \subseteq RowId \ held
      BY DEF PathInv, PathTypeOK, Tx, HeldDisjoint
    <2> QED
      BY <1>3, <2>1 DEF PathInv, HeldOlder
  <1>11. NewestActive'
    <2>1. PICK m \in Active : \A r \in RowId : rows[r].created <= rows[m].created
      BY DEF PathInv, NewestActive
    <2>2. m \in RowId /\ rows[m].active /\ rows[m].created \in Int
      BY <2>1 DEF Active, PathInv, PathTypeOK, PathRow
    <2>3. CASE rows[m].created <= tx[o].stamp
      <3>1. id \in Active'
        BY <1>1, <1>2 DEF Active
      <3>2. \A r \in RowId : rows'[r].created <= rows'[id].created
        BY <1>1, <1>2, <1>5, <2>1, <2>2, <2>3 DEF PathInv, PathTypeOK, PathRow
      <3> QED
        BY <3>1, <3>2 DEF NewestActive
    <2>4. CASE tx[o].stamp < rows[m].created
      <3>1. m \notin held
        BY <1>1, <2>2, <2>4
      <3>2. rows'[m] = rows[m]
        BY <1>3, <2>2, <3>1
      <3>3. m \in Active'
        BY <2>2, <3>2 DEF Active
      <3>4. \A r \in RowId : rows'[r].created <= rows'[m].created
        BY <1>1, <1>2, <1>5, <2>1, <2>2, <2>4, <3>2 DEF PathInv, PathTypeOK, PathRow
      <3> QED
        BY <3>3, <3>4 DEF NewestActive
    <2> QED
      BY <1>1, <2>2, <2>3, <2>4
  <1> QED
    BY <1>7, <1>8, <1>9, <1>10, <1>11 DEF PathInv

LEMMA RollbackKeeps ==
  ASSUME PathInv, NEW o \in Rotator, Rollback(o)
  PROVE  PathInv'
  <1>1. tx' = [tx EXCEPT ![o] = NoTx]
    BY DEF Rollback
  <1>2. PathTypeOK'
    BY <1>1, TxRecords DEF PathInv, PathTypeOK, Rollback
  <1>3. StampsCover' /\ HeldDisjoint' /\ HeldOlder'
    BY <1>1 DEF PathInv, PathTypeOK, Tx, StampsCover, HeldDisjoint, HeldOlder, Rollback, NoTx
  <1> QED
    BY <1>2, <1>3, NewestActiveFrame DEF PathInv, Rollback

LEMMA RestartKeeps ==
  ASSUME PathInv, RestartRouter
  PROVE  PathInv'
  <1>1. tx' = [o \in Rotator |-> NoTx] /\ UNCHANGED <<rows, stamps, rotations>>
    BY DEF RestartRouter
  <1>2. mounted' \in RowId
    BY NewestIsRead DEF RestartRouter
  <1>3. PathTypeOK'
    BY <1>1, <1>2, TxRecords DEF PathInv, PathTypeOK
  <1>4. StampsCover' /\ HeldDisjoint' /\ HeldOlder'
    BY <1>1 DEF PathInv, PathTypeOK, StampsCover, HeldDisjoint, HeldOlder, NoTx
  <1> QED
    BY <1>1, <1>3, <1>4, NewestActiveFrame DEF PathInv

LEMMA PathStep == PathInv /\ [GateNext]_gateVars => PathInv'
  <1> SUFFICES ASSUME PathInv, [GateNext]_gateVars PROVE PathInv'
    OBVIOUS
  <1>1. ASSUME NEW o \in Rotator,
               \/ BeginRotation(o) \/ Deactivate(o) \/ Insert(o) \/ Commit(o)
               \/ Rollback(o)
        PROVE  PathInv'
    BY <1>1, BeginKeeps, DeactivateKeeps, InsertKeeps, CommitKeeps, RollbackKeeps
  <1>2. CASE Restart
    BY <1>2, RestartKeeps DEF Restart
  <1>3. CASE UNCHANGED pathVars
    BY <1>3 DEF pathVars, PathInv, PathTypeOK, StampsCover, HeldDisjoint, HeldOlder,
                NewestActive, Active
  <1> QED
    BY <1>1, <1>2, <1>3 DEF GateNext, Get, gateVars

\* Whatever rotations and resets of the path run at once, and however many,
\* one path is active and the one that is read is the newest: two rows that
\* READ COMMITTED leaves active do not bring an old path back.
THEOREM NewestPathServed == GateSpec => []NewestRotationWins
  <1>1. GateInit => PathInv
    BY PathInitInv DEF GateInit
  <1>2. PathInv => NewestRotationWins
    BY NewestIsRead
  <1> QED
    BY <1>1, <1>2, PathStep, PTL DEF GateSpec

-----------------------------------------------------------------------------
(* The limiter.                                                            *)

\* A bucket is filled whenever it is looked at.
FilledWhenSeen == \A k \in Key : lastRefill[k] = lastSeen[k]

LimiterInv == LimiterTypeOK /\ FilledWhenSeen

LEMMA OneMoreTick ==
  ASSUME NEW d \in Nat
  PROVE  /\ (d + 1) * Rate = d * Rate + Rate
         /\ d * Rate \in Nat
  BY LimiterAssumption

\* A longer wait fills no less.
LEMMA LongerFillsMore ==
  ASSUME NEW d \in Nat, NEW e \in Nat, d <= e
  PROVE  d * Rate <= e * Rate
  <1>1. e * Rate = d * Rate + (e - d) * Rate
    BY LimiterAssumption
  <1>2. (e - d) * Rate \in Nat /\ d * Rate \in Nat
    BY LimiterAssumption
  <1> QED
    BY <1>1, <1>2

LEMMA LevelBounds ==
  ASSUME LimiterInv, NEW k \in Key
  PROVE  Level(k) \in 0..Burst
  <1>1. now - lastRefill[k] \in Nat /\ tokens[k] \in 0..Burst
    BY DEF LimiterInv, LimiterTypeOK
  <1>2. (now - lastRefill[k]) * Rate \in Nat
    BY <1>1, OneMoreTick
  <1> QED
    BY <1>1, <1>2, LimiterAssumption DEF Level, Capped

LEMMA LimiterInitInv == LimiterInit => LimiterInv
  BY LimiterAssumption DEF LimiterInit, LimiterInv, LimiterTypeOK, FilledWhenSeen

LEMMA AllowKeeps ==
  ASSUME LimiterInv, NEW k \in Key, Allow(k)
  PROVE  LimiterInv'
  <1>1. Level(k) \in 0..Burst /\ (Allowed(k) => Level(k) - 1 \in 0..Burst)
    BY LevelBounds, LimiterAssumption DEF Allowed
  <1>2. tokens' \in [Key -> 0..Burst]
    BY <1>1 DEF Allow, LimiterInv, LimiterTypeOK
  <1>3. now' = now /\ now \in 0..now
    BY DEF Allow, LimiterInv, LimiterTypeOK
  <1>4. /\ lastRefill' \in [Key -> 0..now]
        /\ lastSeen' \in [Key -> 0..now]
        /\ since' \in [Key -> 0..now]
    BY <1>3 DEF Allow, Grant, LimiterInv, LimiterTypeOK
  <1>5. granted' \in [Key -> Nat]
    BY DEF Allow, Grant, LimiterInv, LimiterTypeOK
  <1>6. tracked' \subseteq Key
    BY DEF Allow, LimiterInv, LimiterTypeOK
  <1>7. FilledWhenSeen'
    <2>1. lastRefill'[k] = now
      BY DEF Allow, LimiterInv, LimiterTypeOK
    <2> QED
      BY <2>1 DEF Allow, LimiterInv, LimiterTypeOK, FilledWhenSeen
  <1> QED
    BY <1>2, <1>3, <1>4, <1>5, <1>6, <1>7 DEF LimiterInv, LimiterTypeOK

LEMMA ElapseKeeps ==
  ASSUME LimiterInv, Elapse
  PROVE  LimiterInv'
  <1>1. now' = now + 1 /\ now' \in Nat /\ UNCHANGED <<buckets, grants>>
    BY DEF Elapse, LimiterInv, LimiterTypeOK
  <1>2. 0..now \subseteq 0..(now + 1)
    BY DEF LimiterInv, LimiterTypeOK
  <1> QED
    BY <1>1, <1>2 DEF LimiterInv, LimiterTypeOK, FilledWhenSeen, buckets, grants

LEMMA LimiterStep == LimiterInv /\ [GateNext]_gateVars => LimiterInv'
  <1> SUFFICES ASSUME LimiterInv, [GateNext]_gateVars PROVE LimiterInv'
    OBVIOUS
  <1>1. CASE \E path \in RowId, k \in Key : Get(path, k)
    BY <1>1, AllowKeeps DEF Get
  <1>2. CASE Elapse
    BY <1>2, ElapseKeeps
  <1>3. CASE Restart
    BY <1>3 DEF Restart, grants, LimiterInv, LimiterTypeOK, FilledWhenSeen
  <1>4. CASE UNCHANGED limiterVars
    BY <1>4 DEF limiterVars, buckets, grants, LimiterInv, LimiterTypeOK, FilledWhenSeen
  <1> QED
    BY <1>1, <1>2, <1>3, <1>4 DEF GateNext, gateVars

\* What a request does to the level of its own key and of the others.
LEMMA AllowLevels ==
  ASSUME LimiterInv, NEW k \in Key, Allow(k)
  PROVE  /\ Level(k)' = IF Allowed(k) THEN Level(k) - 1 ELSE Level(k)
         /\ \A j \in Key \ {k} : (j \in tracked' <=> j \in tracked) => Level(j)' = Level(j)
         /\ \A j \in Key \ {k} : j \notin tracked' => Level(j)' = Burst
         /\ Counts'[k] = Counts[k] + (IF Allowed(k) THEN 1 ELSE 0)
         /\ \A j \in Key \ {k} :
              Counts'[j] = IF j \in tracked' /\ j \in tracked THEN Counts[j] ELSE 0
  <1>1. now' = now /\ k \in tracked'
    BY DEF Allow
  <1>2. lastRefill'[k] = now' /\ lastSeen'[k] = now'
    BY <1>1 DEF Allow, LimiterInv, LimiterTypeOK
  <1>3. tokens'[k] = IF Allowed(k) THEN Level(k) - 1 ELSE Level(k)
    BY DEF Allow, LimiterInv, LimiterTypeOK
  <1>4. Level(k)' = tokens'[k]
    <2>1. tokens'[k] \in 0..Burst
      BY <1>3, LevelBounds, LimiterAssumption DEF Allowed
    <2>2. now' - lastRefill'[k] = 0 /\ now' - lastSeen'[k] = 0
      <3>1. now \in Nat
        BY DEF LimiterInv, LimiterTypeOK
      <3> QED
        BY <1>1, <1>2, <3>1
    <2>3. ~Fresh(k)'
      BY <1>1, <2>2, LimiterAssumption DEF Fresh
    <2>4. Level(k)' = Capped(tokens'[k] + 0 * Rate)
      BY <2>2, <2>3 DEF Level
    <2>5. 0 * Rate = 0
      BY LimiterAssumption
    <2> QED
      BY <2>1, <2>4, <2>5, LimiterAssumption DEF Capped
  <1>5. \A j \in Key \ {k} : (j \in tracked' <=> j \in tracked) => Level(j)' = Level(j)
    BY <1>1 DEF Allow, LimiterInv, LimiterTypeOK, Level, Fresh
  <1>6. \A j \in Key \ {k} : j \notin tracked' => Level(j)' = Burst
    BY DEF Level, Fresh
  <1>7. /\ granted'[k] = (IF k \in tracked THEN granted[k] ELSE 0)
                         + (IF Allowed(k) THEN 1 ELSE 0)
        /\ \A j \in Key \ {k} : granted'[j] = granted[j]
    BY DEF Allow, Grant, LimiterInv, LimiterTypeOK
  <1>8. tracked' \subseteq tracked \cup {k}
    BY DEF Allow
  <1>9. Counts'[k] = Counts[k] + (IF Allowed(k) THEN 1 ELSE 0)
    BY <1>1, <1>7 DEF Counts
  <1>10. \A j \in Key \ {k} :
           Counts'[j] = IF j \in tracked' /\ j \in tracked THEN Counts[j] ELSE 0
    BY <1>7, <1>8 DEF Counts
  <1> QED
    BY <1>3, <1>4, <1>5, <1>6, <1>9, <1>10

LEMMA AllowImplements ==
  ASSUME LimiterInv, NEW k \in Key, Allow(k)
  PROVE  [Bucket!Next]_<<Levels, Counts>>
  <1>1. /\ Level(k)' = IF Allowed(k) THEN Level(k) - 1 ELSE Level(k)
        /\ \A j \in Key \ {k} : (j \in tracked' <=> j \in tracked) => Level(j)' = Level(j)
        /\ \A j \in Key \ {k} : j \notin tracked' => Level(j)' = Burst
        /\ Counts'[k] = Counts[k] + (IF Allowed(k) THEN 1 ELSE 0)
        /\ \A j \in Key \ {k} :
             Counts'[j] = IF j \in tracked' /\ j \in tracked THEN Counts[j] ELSE 0
    BY AllowLevels
  <1>a. /\ Levels' = [j \in Key |-> Level(j)'] /\ Levels = [j \in Key |-> Level(j)]
        /\ \A j \in Key : j \notin tracked => Counts[j] = 0
        /\ \A j \in Key : Counts[j] \in Nat
        /\ Counts = [j \in Key |-> Counts[j]] /\ Counts' = [j \in Key |-> Counts'[j]]
    BY DEF Levels, Counts, LimiterInv, LimiterTypeOK
  <1>2. CASE tracked' = tracked \cup {k}
    <2>1. \A j \in Key \ {k} : Level(j)' = Level(j) /\ Counts'[j] = Counts[j]
      BY <1>1, <1>2, <1>a
    <2>2. CASE Allowed(k)
      <3>1. Levels[k] >= 1 /\ Levels' = [Levels EXCEPT ![k] = @ - 1]
        BY <1>1, <1>a, <2>1, <2>2 DEF Allowed
      <3>2. Counts' = [Counts EXCEPT ![k] = @ + 1]
        BY <1>1, <1>a, <2>1, <2>2
      <3>3. Bucket!Take(k)
        BY <3>1, <3>2 DEF Bucket!Take
      <3> QED
        BY <3>3 DEF Bucket!Next
    <2>3. CASE ~Allowed(k)
      <3>1. Levels' = Levels
        BY <1>1, <1>a, <2>1, <2>3
      <3>2. Counts' = Counts
        BY <1>1, <1>a, <2>1, <2>3
      <3> QED
        BY <3>1, <3>2
    <2> QED
      BY <2>2, <2>3
  <1>3. ASSUME NEW e \in Evicted(k), tracked' = (tracked \ {e}) \cup {k}
        PROVE  [Bucket!Next]_<<Levels, Counts>>
    <2>1. e \in tracked /\ k \notin tracked /\ e \in Key /\ e # k
      BY <1>3 DEF Evicted, LimiterInv, LimiterTypeOK
    <2>2. Allowed(k)
      BY <2>1, LimiterAssumption DEF Allowed, Level, Fresh
    <2>3. Level(e)' = Burst /\ \A j \in Key \ {k, e} : Level(j)' = Level(j)
      BY <1>1, <1>3, <2>1
    <2>4. Counts'[e] = 0 /\ \A j \in Key \ {k, e} : Counts'[j] = Counts[j]
      BY <1>1, <1>3, <1>a, <2>1
    <2>5. Levels[k] >= 1 /\ Levels' = [Levels EXCEPT ![k] = @ - 1, ![e] = Burst]
      BY <1>1, <1>a, <2>1, <2>2, <2>3 DEF Allowed
    <2>6. Counts' = [Counts EXCEPT ![k] = @ + 1, ![e] = 0]
      BY <1>1, <1>a, <2>1, <2>2, <2>4
    <2>7. Bucket!TakeForgetting(k, e)
      BY <2>1, <2>5, <2>6 DEF Bucket!TakeForgetting
    <2> QED
      BY <2>1, <2>7 DEF Bucket!Next
  <1> QED
    BY <1>2, <1>3 DEF Allow

\* The idle reset is no gift: by then the bucket is full anyway.
LEMMA ElapseLevel ==
  ASSUME LimiterInv, Elapse, NEW k \in Key
  PROVE  Level(k)' = Capped(Level(k) + Rate)
  <1> DEFINE d == now - lastRefill[k]
  <1>1. now' = now + 1 /\ UNCHANGED <<tracked, tokens, lastRefill, lastSeen>>
    BY DEF Elapse, buckets
  <1>2. /\ d \in Nat /\ tokens[k] \in Nat /\ lastRefill[k] = lastSeen[k]
        /\ now' - lastRefill[k] = d + 1
    BY <1>1 DEF LimiterInv, LimiterTypeOK, FilledWhenSeen
  <1>3. d * Rate \in Nat /\ (d + 1) * Rate = d * Rate + Rate
    BY <1>2, OneMoreTick
  <1>4. CASE Fresh(k)
    <2>1. Fresh(k)'
      BY <1>1, <1>2, <1>4, LimiterAssumption DEF Fresh, LimiterInv, LimiterTypeOK
    <2> QED
      BY <1>4, <2>1, LimiterAssumption DEF Level, Capped
  <1>5. CASE ~Fresh(k) /\ Fresh(k)'
    <2>1. Idle > 0 /\ d = Idle
      BY <1>1, <1>2, <1>5, LimiterAssumption DEF Fresh, LimiterInv, LimiterTypeOK
    <2>2. d * Rate >= Burst
      BY <2>1, LimiterAssumption
    <2>3. Level(k)' = Burst
      BY <1>5 DEF Level
    <2>4. Level(k) = Capped(tokens[k] + d * Rate)
      BY <1>5 DEF Level
    <2>5. Level(k) = Burst
      <3> DEFINE filled == tokens[k] + d * Rate
      <3>1. filled \in Nat /\ Burst \in Nat /\ filled >= Burst
        BY <1>2, <1>3, <2>2, LimiterAssumption
      <3>2. Level(k) = Capped(filled)
        BY <2>4
      <3> HIDE DEF filled
      <3> QED
        BY <3>1, <3>2 DEF Capped
    <2> QED
      BY <2>3, <2>5, LimiterAssumption DEF Capped
  <1>6. CASE ~Fresh(k) /\ ~Fresh(k)'
    <2>1. Level(k) = Capped(tokens[k] + d * Rate)
      BY <1>6 DEF Level
    <2>2. Level(k)' = Capped(tokens[k] + (d * Rate + Rate))
      BY <1>1, <1>2, <1>3, <1>6 DEF Level
    <2> QED
      BY <1>2, <1>3, <2>1, <2>2, LimiterAssumption DEF Capped
  <1> QED
    BY <1>4, <1>5, <1>6

LEMMA ElapseImplements ==
  ASSUME LimiterInv, Elapse
  PROVE  Bucket!Elapse
  <1>1. \A k \in Key : Level(k)' = Bucket!Filled(Level(k) + Rate)
    BY ElapseLevel DEF Capped, Bucket!Filled
  <1>2. Counts' = Counts
    BY DEF Elapse, buckets, grants, Counts
  <1> QED
    BY <1>1, <1>2 DEF Bucket!Elapse, Levels

\* A restart forgets every key.
LEMMA RestartImplements ==
  ASSUME Restart
  PROVE  Bucket!Forget(Key)
  BY DEF Restart, Bucket!Forget, Levels, Counts, Level, Fresh

LEMMA GateImplements ==
  LimiterInv /\ [GateNext]_gateVars => [Bucket!Next]_<<Levels, Counts>>
  <1> SUFFICES ASSUME LimiterInv, [GateNext]_gateVars
               PROVE  [Bucket!Next]_<<Levels, Counts>>
    OBVIOUS
  <1>1. CASE \E path \in RowId, k \in Key : Get(path, k)
    BY <1>1, AllowImplements DEF Get
  <1>2. CASE Elapse
    BY <1>2, ElapseImplements DEF Bucket!Next
  <1>3. CASE Restart
    BY <1>3, RestartImplements DEF Bucket!Next
  <1>4. CASE UNCHANGED limiterVars
    BY <1>4 DEF limiterVars, buckets, grants, Levels, Counts, Level, Fresh
  <1> QED
    BY <1>1, <1>2, <1>3, <1>4 DEF GateNext, gateVars

\* Filling when it is read, the idle reset, the eviction at the key limit and
\* the emptying by a restart of the process together implement a bucket per
\* key that fills with the clock: no sequence of requests gets more, for any
\* number of keys, rate, burst, key limit and idle time that lets a bucket
\* fill up.
THEOREM LimiterIsABucket == GateSpec => FillsLikeABucket
  <1>1. GateInit => LimiterInv
    BY LimiterInitInv DEF GateInit
  <1>2. GateInit => Bucket!Init
    BY DEF GateInit, LimiterInit, Bucket!Init, Levels, Counts, Level, Fresh
  <1>3. LimiterInv /\ [GateNext]_gateVars => [Bucket!Next]_<<Levels, Counts>>
    BY GateImplements
  <1> QED
    BY <1>1, <1>2, <1>3, LimiterStep, PTL DEF GateSpec, FillsLikeABucket, Bucket!Spec

-----------------------------------------------------------------------------
(* What a key is granted.                                                  *)

LEMMA AllowBounded ==
  ASSUME LimiterInv, GrantsBounded, NEW k \in Key, Allow(k)
  PROVE  GrantsBounded'
  <1>1. /\ Level(k)' = IF Allowed(k) THEN Level(k) - 1 ELSE Level(k)
        /\ \A j \in Key \ {k} : (j \in tracked' <=> j \in tracked) => Level(j)' = Level(j)
    BY AllowLevels
  <1>2. now' = now /\ tracked' \subseteq tracked \cup {k} /\ tracked \subseteq Key
    BY DEF Allow, LimiterInv, LimiterTypeOK
  <1>3. /\ granted'[k] = (IF k \in tracked THEN granted[k] ELSE 0)
                         + (IF Allowed(k) THEN 1 ELSE 0)
        /\ since'[k] = IF k \in tracked THEN since[k] ELSE now
        /\ \A j \in Key \ {k} : granted'[j] = granted[j] /\ since'[j] = since[j]
    BY DEF Allow, Grant, LimiterInv, LimiterTypeOK
  <1>4. Level(k) \in 0..Burst /\ granted[k] \in Nat /\ now - since[k] \in Nat /\ now \in Nat
    BY LevelBounds DEF LimiterInv, LimiterTypeOK
  <1>5. granted'[k] + Level(k)' <= Burst + Rate * (now' - since'[k])
    <2>1. CASE k \in tracked
      <3>1. granted[k] + Level(k) <= Burst + Rate * (now - since[k])
        BY <2>1 DEF GrantsBounded
      <3>2. granted'[k] + Level(k)' = granted[k] + Level(k)
        BY <1>1, <1>3, <1>4, <2>1
      <3>3. now' - since'[k] = now - since[k]
        BY <1>2, <1>3, <2>1
      <3> QED
        BY <3>1, <3>2, <3>3
    <2>2. CASE k \notin tracked
      <3>1. granted'[k] + Level(k)' = Level(k)
        BY <1>1, <1>3, <1>4, <2>2
      <3>2. now' - since'[k] = 0
        BY <1>2, <1>3, <1>4, <2>2
      <3>3. Rate * 0 = 0
        BY LimiterAssumption
      <3> QED
        BY <1>4, <3>1, <3>2, <3>3, LimiterAssumption
    <2> QED
      BY <2>1, <2>2
  <1>6. ASSUME NEW j \in tracked', j # k
        PROVE  granted'[j] + Level(j)' <= Burst + Rate * (now' - since'[j])
    <2>1. j \in tracked /\ j \in Key
      BY <1>2, <1>6
    <2>2. Level(j)' = Level(j)
      BY <1>1, <1>6, <2>1
    <2> QED
      BY <1>2, <1>3, <1>6, <2>1, <2>2 DEF GrantsBounded
  <1> QED
    BY <1>5, <1>6 DEF GrantsBounded

LEMMA ElapseBounded ==
  ASSUME LimiterInv, GrantsBounded, Elapse
  PROVE  GrantsBounded'
  <1> SUFFICES ASSUME NEW k \in tracked'
               PROVE  granted'[k] + Level(k)' <= Burst + Rate * (now' - since'[k])
    BY DEF GrantsBounded
  <1>1. /\ now' = now + 1 /\ UNCHANGED <<tracked, granted, since>>
        /\ k \in Key /\ now - since[k] \in Nat /\ granted[k] \in Nat
    BY DEF Elapse, buckets, grants, LimiterInv, LimiterTypeOK
  <1>2. Level(k)' <= Level(k) + Rate /\ Level(k) \in Nat /\ Level(k)' \in Nat
    BY <1>1, ElapseLevel, LevelBounds, LimiterAssumption DEF Capped
  <1>3. granted[k] + Level(k) <= Burst + Rate * (now - since[k])
    BY <1>1 DEF GrantsBounded
  <1>4. /\ Rate * (now' - since'[k]) = Rate * (now - since[k]) + Rate
        /\ Rate * (now - since[k]) \in Nat
    <2>1. now' - since'[k] = (now - since[k]) + 1
      BY <1>1 DEF LimiterInv, LimiterTypeOK
    <2> QED
      BY <1>1, <2>1, LimiterAssumption
  <1> QED
    BY <1>1, <1>2, <1>3, <1>4, LimiterAssumption

\* While a key keeps its bucket, all its requests together are granted no more
\* than the burst and what the rate brings in that time, idle resets or not.
THEOREM NoKeyIsOverserved == GateSpec => []GrantsBounded
  <1>1. GateInit => LimiterInv /\ GrantsBounded
    BY LimiterInitInv DEF GateInit, LimiterInit, GrantsBounded
  <1>2. LimiterInv /\ GrantsBounded /\ [GateNext]_gateVars => GrantsBounded'
    <2> SUFFICES ASSUME LimiterInv, GrantsBounded, [GateNext]_gateVars PROVE GrantsBounded'
      OBVIOUS
    <2>1. CASE \E path \in RowId, k \in Key : Get(path, k)
      BY <2>1, AllowBounded DEF Get
    <2>2. CASE Elapse
      BY <2>2, ElapseBounded
    <2>3. CASE Restart
      BY <2>3 DEF Restart, GrantsBounded
    <2>4. CASE UNCHANGED limiterVars
      BY <2>4 DEF limiterVars, buckets, grants, GrantsBounded, Level, Fresh
    <2> QED
      BY <2>1, <2>2, <2>3, <2>4 DEF GateNext, gateVars
  <1> QED
    BY <1>1, <1>2, LimiterStep, PTL DEF GateSpec

-----------------------------------------------------------------------------
(* Types.                                                                  *)

Edit == [at : {"none", "write", "reread"},
         op : {"none", "update", "rotate", "delete"}, user : User, cur : Row]
Fetch == [at : {"idle", "current", "prev", "pools", "hosts", "ok",
                "notfound", "forbidden", "error"},
          token : 0..MaxTokens, user : User, cur : Row,
          todo : SUBSET Host, hosts : SUBSET Host]
Wish == [live : BOOLEAN, plan : Plan \cup {NoPlan}]

\* A row that is there has a token, one of the first m, and a grace window
\* exactly if a token is parked.
Sound(r, m) ==
  /\ r.there
  /\ r.prev < r.token /\ r.token <= m
  /\ r.prev = 0 <=> r.graced = 0
  /\ r.graced <= m

\* What an operator is about to write back was a row once.
HandsSound == \A o \in Operator : edit[o].at = "write" => Sound(edit[o].cur, minted)
RowsSound == \A u \in User : row[u].there => Sound(row[u], minted)

TypeInv == TypeOK /\ RowsSound /\ HandsSound

LEMMA Records ==
  /\ NoRow \in Row /\ NoEdit \in Edit /\ NoFetch \in Fetch
  /\ Cardinality(User) \in Nat /\ MaxTokens \in Nat
  <1>1. Cardinality(User) \in Nat
    BY AccessAssumption, FS_CardinalityType
  <1>2. 0 \in 0..MaxTokens
    BY AccessAssumption
  <1>3. NoRow \in Row
    BY <1>2 DEF NoRow, Row
  <1>4. (CHOOSE u \in User : TRUE) \in User
    BY AccessAssumption
  <1> QED
    BY <1>1, <1>2, <1>3, <1>4, AccessAssumption DEF NoEdit, Edit, NoFetch, Fetch

\* The rows that the writes make.
LEMMA NewRows ==
  /\ \A k \in 0..MaxTokens, p \in Plan \cup {NoPlan} :
       [NoRow EXCEPT !.there = TRUE, !.token = k, !.live = TRUE, !.plan = p] \in Row
  /\ \A r \in Row : [r EXCEPT !.live = ~r.live] \in Row
  /\ \A r \in Row, p \in Plan \cup {NoPlan} : [r EXCEPT !.plan = p] \in Row
  /\ \A r \in Row, k \in 0..MaxTokens : Rotated(r, k) \in Row
  <1>1. \A k \in 0..MaxTokens, p \in Plan \cup {NoPlan} :
          [NoRow EXCEPT !.there = TRUE, !.token = k, !.live = TRUE, !.plan = p] \in Row
    BY Records DEF Row
  <1>2. \A r \in Row : [r EXCEPT !.live = ~r.live] \in Row
    BY DEF Row
  <1>3. \A r \in Row, p \in Plan \cup {NoPlan} : [r EXCEPT !.plan = p] \in Row
    BY DEF Row
  <1>4. \A r \in Row, k \in 0..MaxTokens : Rotated(r, k) \in Row
    BY DEF Row, Rotated
  <1> QED
    BY <1>1, <1>2, <1>3, <1>4

LEMMA SoundGrows ==
  ASSUME NEW r \in Row, NEW m \in Nat, NEW n \in Nat, m <= n, Sound(r, m)
  PROVE  Sound(r, n)
  <1>1. r.there /\ r.prev < r.token /\ (r.prev = 0 <=> r.graced = 0)
    BY DEF Sound
  <1>2. r.token \in Nat /\ r.graced \in Nat /\ r.token <= m /\ r.graced <= m
    BY Records DEF Sound, Row
  <1>3. r.token <= n /\ r.graced <= n
    BY <1>2
  <1> QED
    BY <1>1, <1>3 DEF Sound

LEMMA TypeInit == Init => TypeInv
  <1> SUFFICES ASSUME Init PROVE TypeInv
    OBVIOUS
  <1>1. PICK f \in [User -> 1..Cardinality(User)], p \in [User -> Plan] :
          /\ row = [u \in User |-> [NoRow EXCEPT !.there = TRUE, !.token = f[u],
                                                 !.live = TRUE, !.plan = p[u]]]
          /\ handed = f
          /\ wanted = [u \in User |-> [live |-> TRUE, plan |-> p[u]]]
    BY DEF Init
  <1>2. \A u \in User : f[u] \in 1..Cardinality(User) /\ f[u] \in 0..MaxTokens /\ p[u] \in Plan
    BY Records, AccessAssumption
  <1>3. row \in [User -> Row]
    BY <1>1, <1>2, NewRows
  <1>11. minted = Cardinality(User) /\ edits = 0
    BY DEF Init
  <1>4. ASSUME NEW u \in User
        PROVE  Sound(row[u], minted) /\ row[u].there
    <2>1. row[u] = [NoRow EXCEPT !.there = TRUE, !.token = f[u], !.live = TRUE, !.plan = p[u]]
      BY <1>1
    <2>2. row[u].there /\ row[u].token = f[u] /\ row[u].prev = 0 /\ row[u].graced = 0
      BY <2>1 DEF NoRow
    <2> QED
      BY <2>2, <1>2, <1>11, Records DEF Sound
  <1>5. wanted \in [User -> Wish]
    BY <1>1, <1>2 DEF Wish
  <1>6. handed \in [User -> 0..MaxTokens]
    BY <1>1, <1>2
  <1>7. minted \in 0..MaxTokens /\ edits \in 0..MaxEdits
    BY <1>11, Records, AccessAssumption
  <1>8. edit \in [Operator -> Edit] /\ fetch \in [Client -> Fetch]
    BY Records DEF Init
  <1>9. HandsSound
    BY DEF Init, HandsSound, NoEdit
  <1>10. store \in {"pg", "memory"} /\ lapsed \subseteq Token /\ plans \subseteq Plan
         /\ enabled \subseteq Host /\ raced \subseteq User /\ untold \subseteq User
    BY DEF Init
  <1> QED
    BY <1>3, <1>4, <1>5, <1>6, <1>7, <1>8, <1>9, <1>10
    DEF TypeInv, TypeOK, RowsSound, Sound, Edit, Fetch, Wish

-----------------------------------------------------------------------------
(* The fetches leave everything but fetch alone.                           *)

LEMMA FetchType ==
  ASSUME TypeInv, NEW c \in Client, NEW rec \in Fetch, FetchStep(c, rec)
  PROVE  TypeInv'
  <1>1. fetch' \in [Client -> Fetch]
    BY DEF FetchStep, TypeInv, TypeOK, Fetch
  <1> QED
    BY <1>1 DEF FetchStep, TypeInv, TypeOK, RowsSound, HandsSound, Sound, Fetch, history, catalog

\* A step of a fetch makes a record again.
LEMMA FetchRecords ==
  ASSUME TypeInv, NEW c \in Client
  PROVE  /\ fetch[c] \in Fetch
         /\ \A k \in 0..MaxTokens : [NoFetch EXCEPT !.at = "current", !.token = k] \in Fetch
         /\ \A u \in User : Found(c, u) \in Fetch
         /\ \A at \in {"prev", "notfound", "forbidden", "ok", "error"} :
              [fetch[c] EXCEPT !.at = at] \in Fetch
         /\ \A H \in SUBSET Host : [fetch[c] EXCEPT !.at = "hosts", !.todo = H] \in Fetch
         /\ \A h \in Host :
              [fetch[c] EXCEPT !.todo = @ \ {h},
                 !.hosts = IF h \in enabled THEN @ \cup {h} ELSE @] \in Fetch
  <1>1. fetch[c] \in Fetch /\ row \in [User -> Row]
    BY DEF TypeInv, TypeOK, Fetch
  <1>2. \A k \in 0..MaxTokens : [NoFetch EXCEPT !.at = "current", !.token = k] \in Fetch
    BY Records DEF Fetch
  <1>3. \A u \in User : Found(c, u) \in Fetch
    BY <1>1 DEF Found, Fetch
  <1>4. \A at \in {"prev", "notfound", "forbidden", "ok", "error"} :
              [fetch[c] EXCEPT !.at = at] \in Fetch
    BY <1>1 DEF Fetch
  <1>5. \A H \in SUBSET Host : [fetch[c] EXCEPT !.at = "hosts", !.todo = H] \in Fetch
    BY <1>1 DEF Fetch
  <1>6. ASSUME NEW h \in Host
        PROVE  [fetch[c] EXCEPT !.todo = @ \ {h},
                  !.hosts = IF h \in enabled THEN @ \cup {h} ELSE @] \in Fetch
    <2>1. fetch[c].todo \ {h} \in SUBSET Host /\ fetch[c].hosts \cup {h} \in SUBSET Host
          /\ fetch[c].hosts \in SUBSET Host
      BY <1>1 DEF Fetch
    <2> QED
      BY <1>1, <2>1 DEF Fetch
  <1> QED
    BY <1>1, <1>2, <1>3, <1>4, <1>5, <1>6

\* What a fetch does is one of these.
Fetched(c) == \E rec \in Fetch : FetchStep(c, rec)

LEMMA RenderIsFetch ==
  ASSUME TypeInv, NEW c \in Client, RenderStep(c)
  PROVE  Fetched(c)
  <1>1. CASE Start(c)
    <2>1. PICK k \in 1..minted : FetchStep(c, [NoFetch EXCEPT !.at = "current", !.token = k])
      BY <1>1 DEF Start
    <2>2. minted \in 0..MaxTokens /\ MaxTokens \in Nat
      BY Records DEF TypeInv, TypeOK
    <2>3. k \in 0..MaxTokens
      BY <2>2
    <2> QED
      BY <2>1, <2>3, FetchRecords DEF Fetched
  <1>2. CASE ByCurrent(c)
    BY <1>2, FetchRecords DEF ByCurrent, Fetched, ByToken, ByPrev
  <1>3. CASE ByPrevious(c)
    BY <1>3, FetchRecords DEF ByPrevious, Fetched, ByPrev
  <1>4. CASE Pools(c)
    <2>1. fetch[c].cur \in Row
      <3>1. fetch[c] \in Fetch
        BY FetchRecords
      <3> QED
        BY <3>1 DEF Fetch
    <2>2. PoolHosts(fetch[c].cur.plan) \in SUBSET Host
      BY <2>1, AccessAssumption DEF PoolHosts, TypeInv, TypeOK
    <2> QED
      BY <1>4, <2>2, FetchRecords DEF Pools, Fetched
  <1>5. CASE ReadHost(c)
    <2>1. fetch[c].todo \subseteq Host
      <3>1. fetch[c] \in Fetch
        BY FetchRecords
      <3> QED
        BY <3>1 DEF Fetch
    <2> QED
      BY <1>5, <2>1, FetchRecords DEF ReadHost, Fetched
  <1>6. CASE FetchFails(c)
    BY <1>6, FetchRecords DEF FetchFails, Fetched
  <1>7. CASE Answered(c)
    BY <1>7, Records DEF Answered, Fetched
  <1> QED
    BY <1>1, <1>2, <1>3, <1>4, <1>5, <1>6, <1>7 DEF RenderStep

-----------------------------------------------------------------------------
(* The edits.                                                              *)

\* The record of a request at its next step.
LEMMA EditRecords ==
  ASSUME TypeInv, NEW o \in Operator
  PROVE  /\ edit[o] \in Edit
         /\ \A op \in {"update", "rotate", "delete"}, u \in User :
              [at |-> "write", op |-> op, user |-> u, cur |-> row[u]] \in Edit
         /\ \A new \in Row : [edit[o] EXCEPT !.at = "reread", !.cur = new] \in Edit
  <1>1. edit[o] \in Edit /\ row \in [User -> Row]
    BY DEF TypeInv, TypeOK, Edit
  <1>2. \A op \in {"update", "rotate", "delete"}, u \in User :
              [at |-> "write", op |-> op, user |-> u, cur |-> row[u]] \in Edit
    BY <1>1 DEF Edit
  <1>3. \A new \in Row : [edit[o] EXCEPT !.at = "reread", !.cur = new] \in Edit
    BY <1>1 DEF Edit
  <1> QED
    BY <1>1, <1>2, <1>3

\* A request that ends leaves the types of the requests alone.
LEMMA EditDoneType ==
  ASSUME TypeInv, NEW o \in Operator, EditDone(o), UNCHANGED minted
  PROVE  edit' \in [Operator -> Edit] /\ HandsSound'
  <1>1. edit' \in [Operator -> Edit]
    BY Records DEF EditDone, TypeInv, TypeOK, Edit
  <1>2. \A q \in Operator : edit'[q] = IF q = o THEN NoEdit ELSE edit[q]
    BY DEF EditDone, TypeInv, TypeOK
  <1>3. HandsSound'
    <2> SUFFICES ASSUME NEW q \in Operator, edit'[q].at = "write"
                 PROVE  Sound(edit'[q].cur, minted')
      BY DEF HandsSound
    <2>1. edit'[q] = edit[q]
      <3>1. NoEdit.at = "none"
        BY DEF NoEdit
      <3> QED
        BY <1>2, <3>1
    <2>2. Sound(edit[q].cur, minted)
      BY <2>1 DEF TypeInv, HandsSound
    <2> QED
      BY <2>1, <2>2
  <1> QED
    BY <1>1, <1>3

\* A write of the whole row: the new one is sound, counting a token minted now.
LEMMA ReplaceType ==
  ASSUME TypeInv, NEW o \in Operator, NEW new \in Row,
         edit[o].at = "write", Replace(o, new),
         minted' \in minted..MaxTokens,
         Sound(new, minted'), wanted' \in [User -> Wish],
         UNCHANGED <<store, lapsed, catalog, edits, fetch, handed, untold>>
  PROVE  TypeInv'
  <1>1. edit[o].user \in User
    BY EditRecords DEF Edit
  <1>2. minted \in Nat /\ minted' \in 0..MaxTokens /\ minted <= minted'
    BY Records DEF TypeInv, TypeOK
  <1>3. row' \in [User -> Row] /\ raced' \subseteq User
    BY <1>1 DEF Replace, TypeInv, TypeOK
  <1>4. \A u \in User : row'[u] = IF u = edit[o].user THEN new ELSE row[u]
    BY <1>1 DEF Replace, TypeInv, TypeOK
  <1>5. ASSUME NEW u \in User, row'[u].there
        PROVE  Sound(row'[u], minted')
    <2>1. CASE u = edit[o].user
      BY <2>1, <1>4
    <2>2. CASE u # edit[o].user
      <3>1. row'[u] = row[u] /\ row[u] \in Row
        BY <2>2, <1>4 DEF TypeInv, TypeOK
      <3>2. row[u].there
        BY <3>1, <1>5
      <3>3. Sound(row[u], minted)
        BY <3>2 DEF TypeInv, RowsSound
      <3> QED
        BY <3>1, <3>3, <1>2, SoundGrows
    <2> QED
      BY <2>1, <2>2
  <1>6. \A u \in User : ~row'[u].there => row'[u] = NoRow
    <2>1. new.there
      BY DEF Sound
    <2>2. \A u \in User : ~row[u].there => row[u] = NoRow
      BY DEF TypeInv, TypeOK
    <2> QED
      BY <2>1, <2>2, <1>4
  <1>7. edit' \in [Operator -> Edit]
    <2>1. edit \in [Operator -> Edit]
      BY DEF TypeInv, TypeOK, Edit
    <2>2. edit' = [edit EXCEPT ![o] = [edit[o] EXCEPT !.at = "reread", !.cur = new]]
      BY <2>1 DEF Replace
    <2> QED
      BY <2>1, <2>2, EditRecords
  <1>8. HandsSound'
    <2> SUFFICES ASSUME NEW q \in Operator, edit'[q].at = "write"
                 PROVE  Sound(edit'[q].cur, minted')
      BY DEF HandsSound
    <2>1. q # o /\ edit'[q] = edit[q]
      <3>1. edit \in [Operator -> Edit] /\ edit[o] \in Edit
        BY DEF TypeInv, TypeOK, Edit
      <3>2. edit' = [edit EXCEPT ![o] = [edit[o] EXCEPT !.at = "reread", !.cur = new]]
        BY <3>1 DEF Replace
      <3>3. edit'[o].at = "reread"
        BY <3>1, <3>2 DEF Edit
      <3> QED
        BY <3>1, <3>2, <3>3
    <2>2. Sound(edit[q].cur, minted) /\ edit[q].cur \in Row
      BY <2>1, EditRecords DEF TypeInv, HandsSound, Edit
    <2> QED
      BY <2>1, <2>2, <1>2, SoundGrows
  <1> QED
    <2>1. RowsSound'
      BY <1>5 DEF RowsSound
    <2>2. \A u \in User :
            IF row'[u].there THEN /\ row'[u].prev < row'[u].token /\ row'[u].token <= minted'
                                  /\ row'[u].prev = 0 <=> row'[u].graced = 0
                             ELSE row'[u] = NoRow
      BY <1>5, <1>6 DEF Sound
    <2>3. TypeOK'
      BY <1>2, <1>3, <1>7, <2>2 DEF TypeInv, TypeOK, Edit, Wish, catalog
    <2> QED
      BY <2>1, <2>3, <1>8 DEF TypeInv

\* What Update makes of the row in its hands, and of the wish.
Patches(cur, new) ==
  /\ new \in Row
  /\ \/ new = [cur EXCEPT !.live = ~cur.live]
     \/ \E p \in Plan \cup {NoPlan} : p # cur.plan /\ new = [cur EXCEPT !.plan = p]

Wishes(cur, new, wish) ==
  IF new.live # cur.live THEN [wish EXCEPT !.live = new.live] ELSE [wish EXCEPT !.plan = new.plan]

LEMMA UpdatePatches ==
  ASSUME TypeInv, NEW o \in Operator, WriteUpdate(o)
  PROVE  \E new \in Row :
           /\ Patches(edit[o].cur, new) /\ Replace(o, new)
           /\ wanted' = [wanted EXCEPT ![edit[o].user] =
                Wishes(edit[o].cur, new, wanted[edit[o].user])]
  <1>1. edit[o].cur \in Row /\ edit[o].user \in User
    BY EditRecords DEF Edit
  <1> DEFINE cur == edit[o].cur
  <1>2. PICK new \in {[cur EXCEPT !.live = ~cur.live]}
                \cup {[cur EXCEPT !.plan = p] : p \in (Plan \cup {NoPlan}) \ {cur.plan}} :
          /\ Replace(o, new)
          /\ wanted' = [wanted EXCEPT ![edit[o].user] =
               IF new.live # cur.live THEN [@ EXCEPT !.live = new.live]
                                      ELSE [@ EXCEPT !.plan = new.plan]]
    BY DEF WriteUpdate
  <1>3. wanted' = [wanted EXCEPT ![edit[o].user] = Wishes(cur, new, wanted[edit[o].user])]
    BY <1>1, <1>2 DEF Wishes, TypeInv, TypeOK
  <1>4. CASE new = [cur EXCEPT !.live = ~cur.live]
    BY <1>1, <1>2, <1>3, <1>4, NewRows DEF Patches
  <1>5. CASE new \in {[cur EXCEPT !.plan = p] : p \in (Plan \cup {NoPlan}) \ {cur.plan}}
    <2>1. PICK p \in Plan \cup {NoPlan} : p # cur.plan /\ new = [cur EXCEPT !.plan = p]
      BY <1>5
    <2>2. new \in Row
      BY <1>1, <2>1, NewRows
    <2> QED
      BY <1>2, <1>3, <2>1, <2>2 DEF Patches
  <1> QED
    BY <1>2, <1>4, <1>5

\* A patch leaves the tokens alone.
LEMMA PatchKeepsTokens ==
  ASSUME NEW cur \in Row, NEW new, Patches(cur, new)
  PROVE  /\ new.there = cur.there /\ new.token = cur.token
         /\ new.prev = cur.prev /\ new.graced = cur.graced
         /\ new.live \in BOOLEAN /\ new.plan \in Plan \cup {NoPlan}
  BY DEF Patches, Row

LEMMA UpdateType ==
  ASSUME TypeInv, NEW o \in Operator, WriteUpdate(o)
  PROVE  TypeInv'
  <1>1. PICK new \in Row :
           /\ Patches(edit[o].cur, new) /\ Replace(o, new)
           /\ wanted' = [wanted EXCEPT ![edit[o].user] =
                Wishes(edit[o].cur, new, wanted[edit[o].user])]
    BY UpdatePatches
  <1>2. edit[o].cur \in Row /\ edit[o].user \in User /\ edit[o].at = "write"
    BY EditRecords DEF Edit, WriteUpdate
  <1>3. minted \in 0..MaxTokens /\ MaxTokens \in Nat /\ minted' = minted
    BY Records DEF TypeInv, TypeOK, WriteUpdate
  <1>4. Sound(new, minted)
    <2>1. Sound(edit[o].cur, minted)
      BY <1>2 DEF TypeInv, HandsSound
    <2>2. /\ new.there = edit[o].cur.there /\ new.token = edit[o].cur.token
          /\ new.prev = edit[o].cur.prev /\ new.graced = edit[o].cur.graced
      BY <1>1, <1>2, PatchKeepsTokens
    <2> QED
      BY <2>1, <2>2 DEF Sound
  <1>5. wanted' \in [User -> Wish]
    <2>1. wanted \in [User -> Wish]
      BY DEF TypeInv, TypeOK, Wish
    <2>2. new.live \in BOOLEAN /\ new.plan \in Plan \cup {NoPlan}
      BY DEF Row
    <2>3. Wishes(edit[o].cur, new, wanted[edit[o].user]) \in Wish
      BY <1>2, <2>1, <2>2 DEF Wishes, Wish
    <2> QED
      BY <1>1, <2>1, <2>3
  <1> QED
    BY <1>1, <1>2, <1>3, <1>4, <1>5, ReplaceType DEF WriteUpdate

LEMMA RotateType ==
  ASSUME TypeInv, NEW o \in Operator, WriteRotate(o)
  PROVE  TypeInv'
  <1>1. edit[o].cur \in Row /\ edit[o].at = "write"
    BY EditRecords DEF Edit, WriteRotate
  <1>2. /\ minted \in Nat /\ minted + 1 \in 0..MaxTokens
        /\ minted' = minted + 1 /\ minted' \in minted..MaxTokens
    BY Records DEF TypeInv, TypeOK, WriteRotate
  <1>3. PICK new \in Row : new = Rotated(edit[o].cur, minted + 1)
    BY <1>1, <1>2, NewRows
  <1>4. Sound(new, minted + 1)
    <2>1. Sound(edit[o].cur, minted)
      BY <1>1 DEF TypeInv, HandsSound
    <2>2. /\ new.there = edit[o].cur.there /\ new.token = minted + 1
          /\ new.prev = edit[o].cur.token /\ new.graced = minted + 1
      BY <1>1, <1>3 DEF Rotated, Row
    <2>3. edit[o].cur.token \in Nat /\ edit[o].cur.prev \in Nat
      BY <1>1, Records DEF Row
    <2>4. edit[o].cur.token <= minted /\ edit[o].cur.token # 0 /\ edit[o].cur.there
      BY <2>1, <2>3 DEF Sound
    <2> QED
      BY <1>2, <2>2, <2>3, <2>4 DEF Sound
  <1>5. wanted' \in [User -> Wish]
    BY DEF WriteRotate, TypeInv, TypeOK, Wish
  <1> QED
    BY <1>1, <1>2, <1>3, <1>4, <1>5, ReplaceType DEF WriteRotate

LEMMA CreateType ==
  ASSUME TypeInv, NEW o \in Operator, Create(o)
  PROVE  TypeInv'
  <1>1. PICK u \in User, p \in Plan \cup {NoPlan} :
       /\ ~row[u].there
       /\ row' = [row EXCEPT ![u] = [NoRow EXCEPT
            !.there = TRUE, !.token = minted + 1, !.live = TRUE, !.plan = p]]
       /\ handed' = [handed EXCEPT ![u] = minted + 1]
       /\ wanted' = [wanted EXCEPT ![u] = [live |-> TRUE, plan |-> p]]
    BY DEF Create
  <1>2. /\ minted \in Nat /\ minted + 1 \in 0..MaxTokens
        /\ minted' = minted + 1 /\ minted <= minted'
        /\ edits' \in 0..MaxEdits
    BY Records, AccessAssumption DEF TypeInv, TypeOK, Create
  <1>3. PICK new \in Row : new = [NoRow EXCEPT
            !.there = TRUE, !.token = minted + 1, !.live = TRUE, !.plan = p]
    BY <1>2, NewRows
  <1>4. Sound(new, minted')
    BY <1>2, <1>3 DEF Sound, NoRow
  <1>5. row' \in [User -> Row]
    BY <1>1, <1>3 DEF TypeInv, TypeOK
  <1>6. \A v \in User : row'[v] = IF v = u THEN new ELSE row[v]
    BY <1>1, <1>3 DEF TypeInv, TypeOK
  <1>7. ASSUME NEW v \in User, row'[v].there PROVE Sound(row'[v], minted')
    <2>1. CASE v = u
      BY <2>1, <1>4, <1>6
    <2>2. CASE v # u
      <3>1. row'[v] = row[v] /\ row[v] \in Row /\ row[v].there
        BY <2>2, <1>6, <1>7 DEF TypeInv, TypeOK
      <3>2. Sound(row[v], minted)
        BY <3>1 DEF TypeInv, RowsSound
      <3> QED
        BY <3>1, <3>2, <1>2, SoundGrows
    <2> QED
      BY <2>1, <2>2
  <1>8. \A v \in User : ~row'[v].there => row'[v] = NoRow
    <2>1. new.there
      BY <1>4 DEF Sound
    <2>2. \A v \in User : ~row[v].there => row[v] = NoRow
      BY DEF TypeInv, TypeOK
    <2> QED
      BY <2>1, <2>2, <1>6
  <1>9. \A v \in User :
            IF row'[v].there THEN /\ row'[v].prev < row'[v].token /\ row'[v].token <= minted'
                                  /\ row'[v].prev = 0 <=> row'[v].graced = 0
                             ELSE row'[v] = NoRow
    BY <1>7, <1>8 DEF Sound
  <1>10. wanted' \in [User -> Wish] /\ handed' \in [User -> 0..MaxTokens]
    <2>1. [live |-> TRUE, plan |-> p] \in Wish
      BY DEF Wish
    <2>2. wanted \in [User -> Wish] /\ handed \in [User -> 0..MaxTokens]
      BY DEF TypeInv, TypeOK, Wish
    <2> QED
      BY <1>1, <1>2, <2>1, <2>2
  <1>11. HandsSound'
    <2> SUFFICES ASSUME NEW q \in Operator, edit[q].at = "write"
                 PROVE  Sound(edit[q].cur, minted')
      BY DEF HandsSound, Create
    <2>1. Sound(edit[q].cur, minted) /\ edit[q].cur \in Row
      BY EditRecords DEF TypeInv, HandsSound, Edit
    <2> QED
      BY <2>1, <1>2, SoundGrows
  <1>12. RowsSound'
    BY <1>7 DEF RowsSound
  <1>13. TypeOK'
    BY <1>2, <1>5, <1>9, <1>10 DEF TypeInv, TypeOK, Wish, Create, catalog
  <1> QED
    BY <1>11, <1>12, <1>13 DEF TypeInv

LEMMA ReadRowType ==
  ASSUME TypeInv, NEW o \in Operator, ReadRow(o)
  PROVE  TypeInv'
  <1>1. PICK u \in User, op \in {"update", "rotate", "delete"} :
          /\ row[u].there
          /\ edit' = [edit EXCEPT ![o] =
               [at |-> "write", op |-> op, user |-> u, cur |-> row[u]]]
    BY DEF ReadRow
  <1>2. edit \in [Operator -> Edit] /\ edits' \in 0..MaxEdits
    BY AccessAssumption DEF TypeInv, TypeOK, Edit, ReadRow
  <1>3. edit' \in [Operator -> Edit]
    BY <1>1, <1>2, EditRecords
  <1>4. HandsSound'
    <2> SUFFICES ASSUME NEW q \in Operator, edit'[q].at = "write"
                 PROVE  Sound(edit'[q].cur, minted)
      BY DEF HandsSound, ReadRow
    <2>1. CASE q = o
      BY <1>1, <1>2, <2>1 DEF TypeInv, RowsSound
    <2>2. CASE q # o
      BY <1>1, <1>2, <2>2 DEF TypeInv, HandsSound
    <2> QED
      BY <2>1, <2>2
  <1>5. TypeOK'
    BY <1>2, <1>3 DEF TypeInv, TypeOK, Edit, ReadRow, history, catalog
  <1>6. RowsSound'
    BY DEF TypeInv, RowsSound, ReadRow
  <1> QED
    BY <1>4, <1>5, <1>6 DEF TypeInv

LEMMA DeleteType ==
  ASSUME TypeInv, NEW o \in Operator, DeleteRow(o)
  PROVE  TypeInv'
  <1>1. edit[o].user \in User
    BY EditRecords DEF Edit
  <1>2. /\ row' = [row EXCEPT ![edit[o].user] = NoRow]
        /\ EditDone(o) /\ UNCHANGED minted
    BY DEF DeleteRow
  <1>3. edit' \in [Operator -> Edit] /\ HandsSound'
    BY <1>2, EditDoneType
  <1>4. row' \in [User -> Row]
        /\ \A v \in User : row'[v] = IF v = edit[o].user THEN NoRow ELSE row[v]
    BY <1>1, <1>2, Records DEF TypeInv, TypeOK
  <1>5. ~NoRow.there
    BY DEF NoRow
  <1>6. RowsSound'
    BY <1>2, <1>4, <1>5 DEF TypeInv, RowsSound
  <1>7. \A v \in User :
            IF row'[v].there THEN /\ row'[v].prev < row'[v].token /\ row'[v].token <= minted'
                                  /\ row'[v].prev = 0 <=> row'[v].graced = 0
                             ELSE row'[v] = NoRow
    <2>1. \A v \in User : ~row[v].there => row[v] = NoRow
      BY DEF TypeInv, TypeOK
    <2> QED
      BY <2>1, <1>4, <1>5, <1>6 DEF RowsSound, Sound
  <1>8. TypeOK'
    BY <1>3, <1>4, <1>7 DEF TypeInv, TypeOK, Edit, DeleteRow, history, catalog
  <1> QED
    BY <1>3, <1>6, <1>8 DEF TypeInv

\* The ends of a request that leave the rows alone, and the catalogue.
LEMMA EndType ==
  ASSUME TypeInv, NEW o \in Operator,
         WriteMissing(o) \/ Reread(o) \/ EditFails(o)
  PROVE  TypeInv'
  <1>1. EditDone(o) /\ UNCHANGED <<store, row, minted, lapsed, catalog, edits, fetch,
                                   wanted, raced>>
    BY DEF WriteMissing, Reread, EditFails, history
  <1>2. edit' \in [Operator -> Edit] /\ HandsSound'
    BY <1>1, EditDoneType
  <1>3. edit[o].user \in User
    BY EditRecords DEF Edit
  <1>4. untold' \subseteq User
    BY <1>3 DEF WriteMissing, Reread, EditFails, history, TypeInv, TypeOK
  <1>5. handed' \in [User -> 0..MaxTokens]
    <2>1. row[edit[o].user].token \in 0..MaxTokens
      BY <1>3 DEF TypeInv, TypeOK, Row
    <2> QED
      BY <2>1 DEF WriteMissing, Reread, EditFails, history, TypeInv, TypeOK
  <1>6. TypeOK'
    BY <1>1, <1>2, <1>4, <1>5 DEF TypeInv, TypeOK, Edit, catalog
  <1>7. RowsSound'
    BY <1>1 DEF TypeInv, RowsSound
  <1> QED
    BY <1>2, <1>6, <1>7 DEF TypeInv

LEMMA CatalogType ==
  ASSUME TypeInv, NEW o \in Operator, ChangeCatalog(o)
  PROVE  TypeInv'
  <1>1. plans' \subseteq Plan /\ enabled' \subseteq Host /\ edits' \in 0..MaxEdits
    BY AccessAssumption DEF ChangeCatalog, TypeInv, TypeOK
  <1>2. TypeOK'
    BY <1>1 DEF ChangeCatalog, TypeInv, TypeOK, history
  <1> QED
    BY <1>2 DEF ChangeCatalog, TypeInv, RowsSound, HandsSound

LEMMA LapseType ==
  ASSUME TypeInv, NEW k \in Token, Lapse(k)
  PROVE  TypeInv'
  <1>1. lapsed' \subseteq Token
    BY DEF Lapse, TypeInv, TypeOK
  <1>2. TypeOK'
    BY <1>1 DEF Lapse, TypeInv, TypeOK, history, catalog
  <1> QED
    BY <1>2 DEF Lapse, TypeInv, RowsSound, HandsSound

LEMMA EditType ==
  ASSUME TypeInv, NEW o \in Operator, EditStep(o)
  PROVE  TypeInv'
  BY CreateType, ReadRowType, UpdateType, RotateType, DeleteType, EndType, CatalogType
  DEF EditStep

LEMMA StutterType == TypeInv /\ UNCHANGED vars => TypeInv'
  BY DEF vars, history, catalog, TypeInv, TypeOK, RowsSound, HandsSound

LEMMA TypeStep == TypeInv /\ [Next]_vars => TypeInv'
  <1> SUFFICES ASSUME TypeInv, [Next]_vars PROVE TypeInv'
    OBVIOUS
  <1>1. CASE \E o \in Operator : EditStep(o)
    BY <1>1, EditType
  <1>2. CASE \E c \in Client : RenderStep(c)
    BY <1>2, RenderIsFetch, FetchType DEF Fetched
  <1>3. CASE \E k \in Token : Lapse(k)
    BY <1>3, LapseType
  <1>4. CASE UNCHANGED vars
    BY <1>4, StutterType
  <1> QED
    BY <1>1, <1>2, <1>3, <1>4 DEF Next

\* The rows, the requests and the fetches keep their types, and each row that is
\* there has a token that was minted, for any users, plans, hosts and bounds.
THEOREM TypeCorrect == Spec => []TypeOK
  <1>1. TypeInv => TypeOK
    BY DEF TypeInv
  <1> QED
    BY <1>1, TypeInit, TypeStep, PTL DEF Spec

-----------------------------------------------------------------------------
(* The edits stay.                                                         *)

Rereading(u) == \E o \in Operator : edit[o].at = "reread" /\ edit[o].user = u

\* EditsStay user by user: another user's request that is still to read its row
\* again does not excuse what was shown for this one.
Stands(u) ==
  u \notin raced /\ row[u].there =>
    /\ row[u].live = wanted[u].live /\ row[u].plan = wanted[u].plan
    /\ u \notin untold /\ ~Rereading(u) => handed[u] = row[u].token
EditsInv == \A u \in User : Stands(u)

LEMMA EditsInvSuffices == EditsInv => EditsStay
  BY DEF EditsInv, Stands, EditsStay, Rereading

\* A step that does not touch a user.
LEMMA Untouched ==
  ASSUME NEW u \in User, Stands(u),
         row'[u] = row[u], wanted'[u] = wanted[u], handed'[u] = handed[u],
         raced \subseteq raced', untold \subseteq untold', Rereading(u) => Rereading(u)'
  PROVE  Stands(u)'
  BY DEF Stands

LEMMA EditsInit == Init => EditsInv
  <1> SUFFICES ASSUME Init, NEW u \in User PROVE Stands(u)
    BY DEF EditsInv
  <1>1. PICK f \in [User -> 1..Cardinality(User)], p \in [User -> Plan] :
          /\ row = [v \in User |-> [NoRow EXCEPT !.there = TRUE, !.token = f[v],
                                                 !.live = TRUE, !.plan = p[v]]]
          /\ handed = f
          /\ wanted = [v \in User |-> [live |-> TRUE, plan |-> p[v]]]
    BY DEF Init
  <1>2. row[u] = [NoRow EXCEPT !.there = TRUE, !.token = f[u], !.live = TRUE, !.plan = p[u]]
    BY <1>1
  <1>3. wanted[u] = [live |-> TRUE, plan |-> p[u]] /\ handed[u] = f[u]
    BY <1>1
  <1>4. row[u].live = wanted[u].live /\ row[u].plan = wanted[u].plan /\ row[u].token = f[u]
    BY <1>2, <1>3 DEF NoRow
  <1> QED
    BY <1>3, <1>4 DEF Stands

\* A write of the whole row, for its user and for the others.
LEMMA ReplaceStands ==
  ASSUME TypeInv, EditsInv, NEW o \in Operator, NEW new \in Row, Replace(o, new),
         edit[o].at = "write", UNCHANGED <<handed, untold>>,
         \A u \in User : u # edit[o].user => wanted'[u] = wanted[u],
         ~(edit[o].user \in raced') /\ row[edit[o].user] = edit[o].cur =>
           /\ new.live = wanted'[edit[o].user].live
           /\ new.plan = wanted'[edit[o].user].plan
  PROVE  EditsInv'
  <1> SUFFICES ASSUME NEW u \in User PROVE Stands(u)'
    BY DEF EditsInv
  <1> DEFINE w == edit[o].user
  <1>1. w \in User /\ edit[o] \in Edit
    BY EditRecords DEF Edit
  <1>2. row'[u] = IF u = w THEN new ELSE row[u]
    BY <1>1 DEF Replace, TypeInv, TypeOK
  <1>3. raced \subseteq raced' /\ (w \notin raced' => row[w] = edit[o].cur)
    BY DEF Replace
  <1>4. edit \in [Operator -> Edit]
    BY DEF TypeInv, TypeOK, Edit
  <1>5. edit' = [edit EXCEPT ![o] = [edit[o] EXCEPT !.at = "reread", !.cur = new]]
    BY <1>4 DEF Replace
  <1>6. edit'[o].at = "reread" /\ edit'[o].user = w
    BY <1>1, <1>4, <1>5 DEF Edit
  <1>7. CASE u = w
    <2>1. Rereading(u)'
      BY <1>6, <1>7 DEF Rereading
    <2> QED
      BY <2>1, <1>2, <1>3, <1>7 DEF Stands
  <1>8. CASE u # w
    <2>1. Rereading(u) => Rereading(u)'
      <3> SUFFICES ASSUME NEW q \in Operator, edit[q].at = "reread", edit[q].user = u
                   PROVE  Rereading(u)'
        BY DEF Rereading
      <3>1. q # o
        OBVIOUS
      <3>2. edit'[q] = edit[q]
        BY <3>1, <1>4, <1>5
      <3> QED
        BY <3>2 DEF Rereading
    <2> QED
      BY <2>1, <1>2, <1>3, <1>8, Untouched DEF EditsInv
  <1> QED
    BY <1>7, <1>8

LEMMA UpdateStands ==
  ASSUME TypeInv, EditsInv, NEW o \in Operator, WriteUpdate(o)
  PROVE  EditsInv'
  <1>1. PICK new \in Row :
           /\ Patches(edit[o].cur, new) /\ Replace(o, new)
           /\ wanted' = [wanted EXCEPT ![edit[o].user] =
                Wishes(edit[o].cur, new, wanted[edit[o].user])]
    BY UpdatePatches
  <1> DEFINE w == edit[o].user
             cur == edit[o].cur
  <1>2. w \in User /\ cur \in Row /\ edit[o].at = "write"
    BY EditRecords DEF Edit, WriteUpdate
  <1>3. wanted \in [User -> Wish]
    BY DEF TypeInv, TypeOK, Wish
  <1>4. wanted'[w] = Wishes(cur, new, wanted[w])
        /\ \A u \in User : u # w => wanted'[u] = wanted[u]
    BY <1>1, <1>2, <1>3
  <1>5. ASSUME w \notin raced', row[w] = cur
        PROVE  new.live = wanted'[w].live /\ new.plan = wanted'[w].plan
    <2>1. w \notin raced /\ row[w].there
      BY <1>1, <1>5 DEF Replace
    <2>2. cur.live = wanted[w].live /\ cur.plan = wanted[w].plan
      BY <2>1, <1>2, <1>5 DEF EditsInv, Stands
    <2>3. wanted[w] \in Wish
      BY <1>2, <1>3
    <2>4. CASE new = [cur EXCEPT !.live = ~cur.live]
      <3>1. new.live # cur.live /\ new.plan = cur.plan
        BY <1>2, <2>4 DEF Row
      <3>2. wanted'[w] = [wanted[w] EXCEPT !.live = new.live]
        BY <3>1, <1>4 DEF Wishes
      <3> QED
        BY <3>1, <3>2, <2>2, <2>3 DEF Wish
    <2>5. CASE \E p \in Plan \cup {NoPlan} : p # cur.plan /\ new = [cur EXCEPT !.plan = p]
      <3>1. new.live = cur.live
        BY <1>2, <2>5 DEF Row
      <3>2. wanted'[w] = [wanted[w] EXCEPT !.plan = new.plan]
        BY <3>1, <1>4 DEF Wishes
      <3> QED
        BY <3>1, <3>2, <2>2, <2>3 DEF Wish
    <2> QED
      BY <2>4, <2>5, <1>1 DEF Patches
  <1>6. UNCHANGED <<handed, untold>>
    BY DEF WriteUpdate
  <1> QED
    BY <1>1, <1>2, <1>4, <1>5, <1>6, ReplaceStands

LEMMA RotateStands ==
  ASSUME TypeInv, EditsInv, NEW o \in Operator, WriteRotate(o)
  PROVE  EditsInv'
  <1> DEFINE w == edit[o].user
             cur == edit[o].cur
  <1>1. w \in User /\ cur \in Row /\ edit[o].at = "write"
    BY EditRecords DEF Edit, WriteRotate
  <1>2. minted + 1 \in 0..MaxTokens
    BY Records DEF TypeInv, TypeOK, WriteRotate
  <1>3. PICK new \in Row : new = Rotated(cur, minted + 1)
    BY <1>1, <1>2, NewRows
  <1>4. Replace(o, new) /\ UNCHANGED <<handed, untold, wanted>>
    BY <1>3 DEF WriteRotate
  <1>5. new.live = cur.live /\ new.plan = cur.plan
    BY <1>1, <1>3 DEF Rotated, Row
  <1>6. ASSUME w \notin raced', row[w] = cur
        PROVE  new.live = wanted'[w].live /\ new.plan = wanted'[w].plan
    <2>1. w \notin raced /\ row[w].there
      BY <1>4, <1>6 DEF Replace
    <2> QED
      BY <2>1, <1>1, <1>4, <1>5, <1>6 DEF EditsInv, Stands
  <1> QED
    BY <1>1, <1>4, <1>6, ReplaceStands

LEMMA CreateStands ==
  ASSUME TypeInv, EditsInv, NEW o \in Operator, Create(o)
  PROVE  EditsInv'
  <1>1. PICK u \in User, p \in Plan \cup {NoPlan} :
       /\ ~row[u].there
       /\ row' = [row EXCEPT ![u] = [NoRow EXCEPT
            !.there = TRUE, !.token = minted + 1, !.live = TRUE, !.plan = p]]
       /\ handed' = [handed EXCEPT ![u] = minted + 1]
       /\ wanted' = [wanted EXCEPT ![u] = [live |-> TRUE, plan |-> p]]
    BY DEF Create
  <1> SUFFICES ASSUME NEW v \in User PROVE Stands(v)'
    BY DEF EditsInv
  <1>2. UNCHANGED <<edit, raced, untold>>
    BY DEF Create
  <1>3. /\ row \in [User -> Row] /\ handed \in [User -> 0..MaxTokens]
        /\ wanted \in [User -> Wish]
    BY DEF TypeInv, TypeOK, Wish
  <1>4. CASE v = u
    <2>1. row'[v] = [NoRow EXCEPT
            !.there = TRUE, !.token = minted + 1, !.live = TRUE, !.plan = p]
      BY <1>1, <1>3, <1>4
    <2>2. wanted'[v] = [live |-> TRUE, plan |-> p] /\ handed'[v] = minted + 1
      BY <1>1, <1>3, <1>4
    <2>3. /\ row'[v].live = wanted'[v].live /\ row'[v].plan = wanted'[v].plan
          /\ row'[v].token = minted + 1
      BY <2>1, <2>2 DEF NoRow
    <2> QED
      BY <2>2, <2>3 DEF Stands
  <1>5. CASE v # u
    <2>1. row'[v] = row[v] /\ wanted'[v] = wanted[v] /\ handed'[v] = handed[v]
      BY <1>1, <1>3, <1>5
    <2> QED
      BY <2>1, <1>2, Untouched DEF EditsInv, Rereading
  <1> QED
    BY <1>4, <1>5

\* The requests that end: only what was to be read again may excuse its user.
LEMMA EndStands ==
  ASSUME TypeInv, EditsInv, NEW o \in Operator,
         WriteMissing(o) \/ DeleteRow(o) \/ Reread(o) \/ EditFails(o)
  PROVE  EditsInv'
  <1> SUFFICES ASSUME NEW u \in User PROVE Stands(u)'
    BY DEF EditsInv
  <1> DEFINE w == edit[o].user
  <1>1. w \in User /\ edit \in [Operator -> Edit]
    BY EditRecords DEF Edit, TypeInv, TypeOK
  <1>2. edit' = [edit EXCEPT ![o] = NoEdit] /\ UNCHANGED <<wanted, raced>>
    BY DEF WriteMissing, DeleteRow, Reread, EditFails, EditDone, history
  <1>3. ASSUME Rereading(u), ~(edit[o].at = "reread" /\ w = u)
        PROVE  Rereading(u)'
    <2>1. PICK q \in Operator : edit[q].at = "reread" /\ edit[q].user = u
      BY <1>3 DEF Rereading
    <2>2. edit'[q] = edit[q]
      BY <2>1, <1>1, <1>2, <1>3
    <2> QED
      BY <2>1, <2>2 DEF Rereading
  <1>4. CASE WriteMissing(o)
    BY <1>2, <1>3, <1>4, Untouched DEF EditsInv, WriteMissing, history
  <1>5. CASE DeleteRow(o)
    <2>1. CASE u = w
      <3>1. ~row'[u].there
        BY <1>1, <1>5, <2>1 DEF DeleteRow, NoRow, TypeInv, TypeOK
      <3> QED
        BY <3>1 DEF Stands
    <2>2. CASE u # w
      <3>1. row'[u] = row[u] /\ UNCHANGED <<handed, untold>>
        BY <1>1, <1>5, <2>2 DEF DeleteRow, TypeInv, TypeOK, history
      <3> QED
        BY <3>1, <1>2, <1>3, <2>2, Untouched DEF EditsInv
    <2> QED
      BY <2>1, <2>2
  <1>6. CASE Reread(o)
    <2>1. UNCHANGED <<row, untold>>
      BY <1>6 DEF Reread
    <2>2. CASE u = w
      <3>1. row[u].there => handed'[u] = row[u].token
        BY <1>1, <1>6, <2>2 DEF Reread, TypeInv, TypeOK
      <3> QED
        BY <3>1, <2>1, <1>2 DEF Stands, EditsInv
    <2>3. CASE u # w
      <3>1. handed'[u] = handed[u]
        BY <1>1, <1>6, <2>3 DEF Reread, TypeInv, TypeOK
      <3> QED
        BY <3>1, <2>1, <1>2, <1>3, <2>3, Untouched DEF EditsInv
    <2> QED
      BY <2>2, <2>3
  <1>7. CASE EditFails(o)
    <2>1. UNCHANGED <<row, handed>> /\ untold \subseteq untold'
      BY <1>7 DEF EditFails
    <2>2. CASE edit[o].at = "reread" /\ w = u
      <3>1. u \in untold'
        BY <1>7, <2>2 DEF EditFails
      <3> QED
        BY <3>1, <2>1, <1>2 DEF Stands, EditsInv
    <2>3. CASE ~(edit[o].at = "reread" /\ w = u)
      BY <2>1, <2>3, <1>2, <1>3, Untouched DEF EditsInv
    <2> QED
      BY <2>2, <2>3
  <1> QED
    BY <1>4, <1>5, <1>6, <1>7

LEMMA ReadRowStands ==
  ASSUME TypeInv, EditsInv, NEW o \in Operator, ReadRow(o)
  PROVE  EditsInv'
  <1> SUFFICES ASSUME NEW u \in User PROVE Stands(u)'
    BY DEF EditsInv
  <1>1. Rereading(u) => Rereading(u)'
    <2> SUFFICES ASSUME NEW q \in Operator, edit[q].at = "reread", edit[q].user = u
                 PROVE  Rereading(u)'
      BY DEF Rereading
    <2>1. q # o
      BY DEF ReadRow
    <2>2. edit'[q] = edit[q]
      BY <2>1 DEF ReadRow, TypeInv, TypeOK
    <2> QED
      BY <2>2 DEF Rereading
  <1> QED
    BY <1>1, Untouched DEF ReadRow, EditsInv, history

\* Nothing else touches the rows or what is noted of them.
LEMMA FrameStands ==
  EditsInv /\ UNCHANGED <<row, edit, history>> => EditsInv'
  BY DEF EditsInv, Stands, Rereading, history

LEMMA EditsStep == TypeInv /\ EditsInv /\ [Next]_vars => EditsInv'
  <1> SUFFICES ASSUME TypeInv, EditsInv, [Next]_vars PROVE EditsInv'
    OBVIOUS
  <1>1. ASSUME NEW o \in Operator, EditStep(o) PROVE EditsInv'
    <2>1. ASSUME ChangeCatalog(o) PROVE EditsInv'
      BY <2>1, FrameStands DEF ChangeCatalog
    <2> QED
      BY <1>1, <2>1, CreateStands, ReadRowStands, UpdateStands, RotateStands, EndStands
      DEF EditStep
  <1>2. ASSUME NEW c \in Client, RenderStep(c) PROVE EditsInv'
    BY <1>2, RenderIsFetch, FrameStands DEF Fetched, FetchStep
  <1>3. ASSUME NEW k \in Token, Lapse(k) PROVE EditsInv'
    BY <1>3, FrameStands DEF Lapse
  <1>4. CASE UNCHANGED vars
    BY <1>4, FrameStands DEF vars
  <1> QED
    BY <1>1, <1>2, <1>3, <1>4 DEF Next

\* However the requests of any number of operators interleave, fail or are cut
\* off between their reads and writes, an edit of status or plan stays in effect
\* and the token last shown is the current one, outside the two named cases.
THEOREM EditsAreKept == Spec => []EditsStay
  BY TypeInit, TypeStep, EditsInit, EditsStep, EditsInvSuffices, PTL DEF Spec

-----------------------------------------------------------------------------
(* The tokens.                                                             *)

\* What a step makes of the tokens of a user, outside a write based on an old
\* read: they stay, or a new one is minted and at most the current one parked.
TokensMove(u) ==
  row'[u].there =>
    \/ /\ row[u].there
       /\ row'[u].token = row[u].token
       /\ row'[u].prev = row[u].prev
       /\ row'[u].graced = row[u].graced
    \/ row'[u].token = minted + 1 /\ row'[u].prev = 0
    \/ row[u].there /\ row'[u].token = minted + 1 /\ row'[u].prev = row[u].token

LEMMA TokensStep ==
  ASSUME TypeInv, [Next]_vars, NEW u \in User, u \notin raced'
  PROVE  TokensMove(u)
  <1>1. ASSUME UNCHANGED row PROVE TokensMove(u)
    BY <1>1 DEF TokensMove
  <1>2. ASSUME NEW o \in Operator, Create(o) PROVE TokensMove(u)
    <2>1. PICK v \in User, p \in Plan \cup {NoPlan} :
            row' = [row EXCEPT ![v] = [NoRow EXCEPT
              !.there = TRUE, !.token = minted + 1, !.live = TRUE, !.plan = p]]
      BY <1>2 DEF Create
    <2>2. CASE v = u
      <3>1. row'[u] = [NoRow EXCEPT
              !.there = TRUE, !.token = minted + 1, !.live = TRUE, !.plan = p]
        BY <2>1, <2>2 DEF TypeInv, TypeOK
      <3>2. row'[u].token = minted + 1 /\ row'[u].prev = 0
        BY <3>1 DEF NoRow
      <3> QED
        BY <3>2 DEF TokensMove
    <2>3. CASE v # u
      <3>1. row'[u] = row[u]
        BY <2>1, <2>3 DEF TypeInv, TypeOK
      <3> QED
        BY <3>1 DEF TokensMove
    <2> QED
      BY <2>2, <2>3
  <1>3. ASSUME NEW o \in Operator, WriteUpdate(o) PROVE TokensMove(u)
    <2>1. PICK new \in Row : Patches(edit[o].cur, new) /\ Replace(o, new)
      BY <1>3, UpdatePatches
    <2>2. edit[o].cur \in Row
      BY EditRecords DEF Edit
    <2>3. CASE edit[o].user = u
      <3>1. row'[u] = new /\ row[u] = edit[o].cur /\ row[u].there
        BY <2>1, <2>3 DEF Replace, TypeInv, TypeOK
      <3>2. new.token = row[u].token /\ new.prev = row[u].prev /\ new.graced = row[u].graced
        BY <3>1, <2>1, <2>2, PatchKeepsTokens
      <3> QED
        BY <3>1, <3>2 DEF TokensMove
    <2>4. CASE edit[o].user # u
      <3>1. row'[u] = row[u]
        BY <2>1, <2>4 DEF Replace, TypeInv, TypeOK
      <3> QED
        BY <3>1 DEF TokensMove
    <2> QED
      BY <2>3, <2>4
  <1>4. ASSUME NEW o \in Operator, WriteRotate(o) PROVE TokensMove(u)
    <2>1. PICK new : new = Rotated(edit[o].cur, minted + 1)
      OBVIOUS
    <2>2. Replace(o, new)
      BY <1>4, <2>1 DEF WriteRotate
    <2>3. edit[o].cur \in Row
      BY EditRecords DEF Edit
    <2>4. CASE edit[o].user = u
      <3>1. row'[u] = new /\ row[u] = edit[o].cur /\ row[u].there
        BY <2>2, <2>4 DEF Replace, TypeInv, TypeOK
      <3>2. new.token = minted + 1 /\ new.prev = row[u].token
        BY <3>1, <2>1, <2>3 DEF Rotated, Row
      <3> QED
        BY <3>1, <3>2 DEF TokensMove
    <2>5. CASE edit[o].user # u
      <3>1. row'[u] = row[u]
        BY <2>2, <2>5 DEF Replace, TypeInv, TypeOK
      <3> QED
        BY <3>1 DEF TokensMove
    <2> QED
      BY <2>4, <2>5
  <1>5. ASSUME NEW o \in Operator, DeleteRow(o) PROVE TokensMove(u)
    <2>1. row'[u] = NoRow \/ row'[u] = row[u]
      BY <1>5 DEF DeleteRow, TypeInv, TypeOK
    <2> QED
      BY <2>1 DEF TokensMove, NoRow
  <1>6. ASSUME NEW o \in Operator,
               ReadRow(o) \/ WriteMissing(o) \/ Reread(o) \/ EditFails(o) \/ ChangeCatalog(o)
        PROVE  TokensMove(u)
    BY <1>1, <1>6 DEF ReadRow, WriteMissing, Reread, EditFails, ChangeCatalog
  <1>7. ASSUME NEW c \in Client, RenderStep(c) PROVE TokensMove(u)
    BY <1>1, <1>7, RenderIsFetch DEF Fetched, FetchStep
  <1>8. ASSUME NEW k \in Token, Lapse(k) PROVE TokensMove(u)
    BY <1>1, <1>8 DEF Lapse
  <1>9. CASE UNCHANGED vars
    BY <1>1, <1>9 DEF vars
  <1> QED
    BY <1>2, <1>3, <1>4, <1>5, <1>6, <1>7, <1>8, <1>9 DEF Next, EditStep

\* Windows never open again, tokens are only added, and what was written from an
\* old read is not forgotten.
LEMMA OnlyMore ==
  ASSUME TypeInv, [Next]_vars
  PROVE  lapsed \subseteq lapsed' /\ raced \subseteq raced'
  <1>1. ASSUME NEW o \in Operator, EditStep(o)
        PROVE  lapsed \subseteq lapsed' /\ raced \subseteq raced'
    <2>1. ASSUME WriteUpdate(o) PROVE raced \subseteq raced'
      BY <2>1 DEF WriteUpdate, Replace
    <2>2. ASSUME WriteRotate(o) PROVE raced \subseteq raced'
      BY <2>2 DEF WriteRotate, Replace
    <2> QED
      BY <1>1, <2>1, <2>2 DEF EditStep, Create, ReadRow, WriteUpdate, WriteRotate,
        WriteMissing, DeleteRow, Reread, EditFails, ChangeCatalog, history
  <1>2. ASSUME NEW c \in Client, RenderStep(c)
        PROVE  lapsed \subseteq lapsed' /\ raced \subseteq raced'
    BY <1>2, RenderIsFetch DEF Fetched, FetchStep, history
  <1>3. ASSUME NEW k \in Token, Lapse(k)
        PROVE  lapsed \subseteq lapsed' /\ raced \subseteq raced'
    BY <1>3 DEF Lapse, history
  <1>4. CASE UNCHANGED vars
    BY <1>4 DEF vars, history
  <1> QED
    BY <1>1, <1>2, <1>3, <1>4 DEF Next

\* A token that was minted before is valid only if it was.
LEMMA ValidBefore ==
  ASSUME TypeInv, [Next]_vars, raced' = {}, NEW k \in 1..minted, Valid(k)'
  PROVE  Valid(k)
  <1>1. minted \in Nat /\ k # 0 /\ k # minted + 1
    BY Records DEF TypeInv, TypeOK
  <1>2. PICK u \in User : /\ row'[u].there
                          /\ \/ row'[u].token = k
                             \/ row'[u].prev = k /\ row'[u].graced \notin lapsed'
    BY DEF Valid, ByToken, ByPrev
  <1>3. TokensMove(u)
    BY TokensStep
  <1>4. row[u].there /\ (row[u].token = k \/ (row[u].prev = k /\ row[u].graced \notin lapsed))
    BY <1>1, <1>2, <1>3, OnlyMore DEF TokensMove
  <1> QED
    BY <1>1, <1>4 DEF Valid, ByToken, ByPrev

LEMMA CurrentBefore ==
  ASSUME TypeInv, [Next]_vars, raced' = {}, NEW k \in 1..minted, ByToken(k) = {}
  PROVE  ByToken(k)' = {}
  <1> SUFFICES ASSUME NEW u \in User, row'[u].there, row'[u].token = k
               PROVE  FALSE
    BY DEF ByToken
  <1>1. k # minted + 1
    BY Records DEF TypeInv, TypeOK
  <1>2. row[u].there /\ row[u].token = k
    BY <1>1, TokensStep DEF TokensMove
  <1> QED
    BY <1>2 DEF ByToken

\* A token whose window is over, that was rotated away twice or whose user was
\* deleted is never valid again, whatever requests were under way, unless one of
\* them wrote back a row it had read before another write.
THEOREM RevokedTokensStayRevoked == Spec => RevokedForGood
  <1>1. TypeInv /\ [Next]_vars =>
          [\A k \in 1..minted : ~Valid(k) /\ raced' = {} => ~Valid(k)']_vars
    BY ValidBefore
  <1> QED
    BY <1>1, TypeInit, TypeStep, PTL DEF Spec, RevokedForGood

-----------------------------------------------------------------------------
(* The fetches: what was read held when it was read.                       *)

Running == {"current", "prev", "pools", "hosts"}

\* A running fetch has noted all that holds now, and so whatever it read.
Noted(c) ==
  LET f == fetch[c] IN
  /\ f.at # "idle" => f.token \in 1..minted
  /\ f.at \in Running => Facts \subseteq facts[c]
  /\ f.at \in {"current", "prev", "pools"} => f.hosts = {}
  /\ f.at \in {"pools", "hosts", "ok"} =>
       /\ <<"token", f.token>> \in facts[c]
       /\ f.cur.live => <<"live", f.user>> \in facts[c]
  /\ f.at \in {"hosts", "ok"} =>
       /\ f.cur.live
       /\ \A h \in f.hosts : <<"host", h>> \in facts[c]
  /\ f.at = "prev" =>
       \/ <<"dead", f.token>> \in facts[c]
       \/ raced # {} \/ ByToken(f.token) = {}
  /\ f.at = "notfound" => <<"dead", f.token>> \in facts[c] \/ raced # {}
FetchInv == \A c \in Client : Noted(c)

LEMMA FetchInvSuffices == FetchInv => DeliveryWasDue /\ MissWasDue
  BY DEF FetchInv, Noted, DeliveryWasDue, MissWasDue

LEMMA FetchInit == Init => FetchInv
  <1> SUFFICES ASSUME Init, NEW c \in Client PROVE Noted(c)
    BY DEF FetchInv
  <1>1. fetch[c] = NoFetch
    BY DEF Init
  <1>2. fetch[c].at = "idle"
    BY <1>1 DEF NoFetch
  <1> QED
    BY <1>2 DEF Noted, Running

\* What a fetch has noted it keeps, and while it runs it notes what holds.
LEMMA FactsGrow ==
  ASSUME Witness, NEW c \in Client, fetch' \in [Client -> Fetch], fetch'[c].at # "idle"
  PROVE  /\ facts[c] \subseteq facts'[c]
         /\ fetch'[c].at \in Running => Facts' \subseteq facts'[c]
  BY DEF Witness, Running, Fetch

LEMMA MintedGrows ==
  ASSUME TypeInv, [Next]_vars
  PROVE  minted \in Nat /\ minted' \in Nat /\ minted <= minted'
  <1>1. minted \in Nat
    BY Records DEF TypeInv, TypeOK
  <1>2. ASSUME NEW o \in Operator, EditStep(o) PROVE minted' = minted \/ minted' = minted + 1
    BY <1>2 DEF EditStep, Create, ReadRow, WriteUpdate, WriteRotate,
        WriteMissing, DeleteRow, Reread, EditFails, ChangeCatalog
  <1>3. ASSUME NEW c \in Client, RenderStep(c) PROVE minted' = minted
    BY <1>3, RenderIsFetch DEF Fetched, FetchStep
  <1>4. ASSUME NEW k \in Token, Lapse(k) PROVE minted' = minted
    BY <1>4 DEF Lapse
  <1>5. CASE UNCHANGED vars
    BY <1>1, <1>5 DEF vars
  <1> QED
    BY <1>1, <1>2, <1>3, <1>4, <1>5 DEF Next

\* A step of somebody else.
LEMMA OthersNote ==
  ASSUME TypeInv, Next, NEW c \in Client, Noted(c), fetch'[c] = fetch[c]
  PROVE  Noted(c)'
  <1> DEFINE f == fetch[c]
  <1>1. CASE f.at = "idle"
    BY <1>1 DEF Noted, Running
  <1>2. CASE f.at # "idle"
    <2>1. TypeInv' /\ Witness
      BY TypeStep DEF Next
    <2>2. fetch' \in [Client -> Fetch]
      BY <2>1 DEF TypeInv, TypeOK, Fetch
    <2>3. facts[c] \subseteq facts'[c] /\ (f.at \in Running => Facts' \subseteq facts'[c])
      BY <2>1, <2>2, <1>2, FactsGrow
    <2>4. f.token \in 1..minted /\ f.token \in 1..minted'
      BY <1>2, MintedGrows DEF Noted
    <2>5. raced \subseteq raced'
      BY OnlyMore
    <2>6. raced' = {} /\ ByToken(f.token) = {} => ByToken(f.token)' = {}
      BY <2>4, CurrentBefore
    <2>7. f.at = "prev" => \/ <<"dead", f.token>> \in facts'[c]
                           \/ raced' # {} \/ ByToken(f.token)' = {}
      BY <2>3, <2>5, <2>6 DEF Noted
    <2>8. /\ f.at \in {"pools", "hosts", "ok"} =>
               /\ <<"token", f.token>> \in facts'[c]
               /\ f.cur.live => <<"live", f.user>> \in facts'[c]
          /\ f.at \in {"hosts", "ok"} =>
               /\ f.cur.live
               /\ \A h \in f.hosts : <<"host", h>> \in facts'[c]
          /\ f.at = "notfound" => <<"dead", f.token>> \in facts'[c] \/ raced' # {}
          /\ f.at \in {"current", "prev", "pools"} => f.hosts = {}
      BY <2>3, <2>5 DEF Noted
    <2>9. ByToken(f.token)' = ByToken(fetch[c].token)'
      OBVIOUS
    <2> QED
      BY <2>3, <2>4, <2>7, <2>8 DEF Noted, ByToken
  <1> QED
    BY <1>1, <1>2

\* A step of the fetch itself: the rows and the hosts stay, and what it reads it
\* has noted.
LEMMA OwnFrame ==
  ASSUME TypeInv, Witness, NEW c \in Client, NEW rec \in Fetch, FetchStep(c, rec),
         rec.at # "idle"
  PROVE  /\ fetch'[c] = rec
         /\ minted' = minted /\ raced' = raced
         /\ Facts' = Facts
         /\ \A k : ByToken(k)' = ByToken(k)
         /\ facts[c] \subseteq facts'[c]
         /\ rec.at \in Running => Facts \subseteq facts'[c]
  <1>1. fetch' \in [Client -> Fetch] /\ fetch'[c] = rec
    BY DEF FetchStep, TypeInv, TypeOK, Fetch
  <1>2. UNCHANGED <<row, lapsed, enabled, minted, raced>>
    BY DEF FetchStep, history, catalog
  <1>3. Facts' = Facts /\ \A k : ByToken(k)' = ByToken(k)
    BY <1>2 DEF Facts, Valid, ByToken, ByPrev
  <1>4. facts[c] \subseteq facts'[c] /\ (rec.at \in Running => Facts' \subseteq facts'[c])
    BY <1>1, FactsGrow
  <1> QED
    BY <1>1, <1>2, <1>3, <1>4

\* What holds of a user found by a token is a fact.
LEMMA FoundFacts ==
  ASSUME TypeInv, NEW k \in 1..minted, NEW u \in User,
         u \in ByToken(k) \/ u \in ByPrev(k)
  PROVE  /\ <<"token", k>> \in Facts
         /\ row[u].live => <<"live", u>> \in Facts
  <1>1. k \in Token /\ k # 0
    BY Records DEF TypeInv, TypeOK, Token
  <1>2. Valid(k)
    BY <1>1 DEF Valid
  <1> QED
    BY <1>1, <1>2 DEF Facts

LEMMA MissFacts ==
  ASSUME TypeInv, NEW k \in 1..minted, ByToken(k) = {}, ByPrev(k) = {}
  PROVE  <<"dead", k>> \in Facts
  <1>1. k \in Token
    BY Records DEF TypeInv, TypeOK, Token
  <1>2. ~Valid(k)
    BY DEF Valid
  <1> QED
    BY <1>1, <1>2 DEF Facts

\* The user is found.
LEMMA FoundNotes ==
  ASSUME TypeInv, Witness, NEW c \in Client, Noted(c), fetch[c].at \in {"current", "prev"},
         NEW u \in User, u \in ByToken(fetch[c].token) \/ u \in ByPrev(fetch[c].token),
         FetchStep(c, Found(c, u))
  PROVE  Noted(c)'
  <1> DEFINE k == fetch[c].token
             rec == Found(c, u)
  <1>1. fetch[c] \in Fetch /\ rec \in Fetch
    BY FetchRecords
  <1>2. /\ rec.at = "pools" /\ rec.token = k /\ rec.user = u /\ rec.cur = row[u]
        /\ rec.hosts = {}
    BY <1>1 DEF Found, Fetch, Noted
  <1>3. k \in 1..minted
    BY DEF Noted, Running
  <1>4. <<"token", k>> \in Facts /\ (row[u].live => <<"live", u>> \in Facts)
    BY <1>3, FoundFacts
  <1>5. fetch'[c] = rec /\ minted' = minted /\ Facts' = Facts /\ Facts \subseteq facts'[c]
    BY <1>1, <1>2, OwnFrame DEF Running
  <1> QED
    BY <1>2, <1>3, <1>4, <1>5 DEF Noted

\* A query without a result, or the last step of a fetch.
LEMMA AtNotes ==
  ASSUME TypeInv, Witness, NEW c \in Client, Noted(c), fetch[c].at \in Running,
         NEW at \in {"prev", "notfound", "forbidden", "ok", "error"},
         FetchStep(c, [fetch[c] EXCEPT !.at = at]),
         at = "ok" => fetch[c].at = "hosts",
         at = "prev" => fetch[c].at = "current" /\ ByToken(fetch[c].token) = {},
         at = "notfound" => \/ <<"dead", fetch[c].token>> \in facts[c]
                            \/ raced # {}
  PROVE  Noted(c)'
  <1> DEFINE f == fetch[c]
             rec == [fetch[c] EXCEPT !.at = at]
  <1>1. f \in Fetch /\ rec \in Fetch
    BY FetchRecords
  <1>2. /\ rec.at = at /\ rec.token = f.token /\ rec.user = f.user /\ rec.cur = f.cur
        /\ rec.hosts = f.hosts
    BY <1>1 DEF Fetch
  <1>3. f.token \in 1..minted
    BY DEF Noted, Running
  <1>4. /\ fetch'[c] = rec /\ minted' = minted /\ raced' = raced /\ Facts' = Facts
        /\ \A k : ByToken(k)' = ByToken(k)
        /\ facts[c] \subseteq facts'[c] /\ (rec.at \in Running => Facts \subseteq facts'[c])
    BY <1>1, <1>2, OwnFrame
  <1>5. at = "ok" => /\ <<"token", f.token>> \in facts'[c]
                     /\ <<"live", f.user>> \in facts'[c]
                     /\ f.cur.live
                     /\ \A h \in f.hosts : <<"host", h>> \in facts'[c]
    BY <1>4 DEF Noted
  <1>6. CASE at = "ok"
    BY <1>2, <1>3, <1>4, <1>5, <1>6 DEF Noted, Running
  <1>7. CASE at = "prev"
    <2>1. {u \in User : row'[u].there /\ row'[u].token = f.token} = {}
      BY <1>7 DEF ByToken, FetchStep
    <2>2. f.hosts = {}
      BY <1>7 DEF Noted
    <2> QED
      BY <1>2, <1>3, <1>4, <1>7, <2>1, <2>2 DEF Noted, Running, ByToken
  <1>8. CASE at = "notfound"
    BY <1>2, <1>3, <1>4, <1>8 DEF Noted, Running
  <1>9. CASE at \in {"forbidden", "error"}
    BY <1>2, <1>3, <1>4, <1>9 DEF Noted, Running
  <1> QED
    BY <1>6, <1>7, <1>8, <1>9

LEMMA StepNotes ==
  ASSUME TypeInv, Witness, NEW c \in Client, Noted(c), RenderStep(c)
  PROVE  Noted(c)'
  <1> DEFINE f == fetch[c]
  <1>1. f \in Fetch /\ (f.at # "idle" => f.token \in 1..minted)
    BY FetchRecords DEF Noted
  <1>2. CASE Start(c)
    <2>1. PICK k \in 1..minted : FetchStep(c, [NoFetch EXCEPT !.at = "current", !.token = k])
      BY <1>2 DEF Start
    <2> DEFINE rec == [NoFetch EXCEPT !.at = "current", !.token = k]
    <2>2. k \in 0..MaxTokens
      BY Records DEF TypeInv, TypeOK
    <2>3. rec \in Fetch
      BY <2>2, FetchRecords
    <2>4. rec.at = "current" /\ rec.token = k /\ rec.hosts = {}
      BY DEF NoFetch
    <2>5. /\ fetch'[c] = rec /\ minted' = minted /\ Facts' = Facts
          /\ Facts \subseteq facts'[c]
      BY <2>1, <2>3, <2>4, OwnFrame DEF Running
    <2> QED
      BY <2>4, <2>5 DEF Noted
  <1>3. CASE ByCurrent(c)
    <2>1. f.at = "current" /\ f.at \in Running
      BY <1>3 DEF ByCurrent, Running
    <2>2. ASSUME NEW u \in ByToken(f.token) \cup ByPrev(f.token), FetchStep(c, Found(c, u))
          PROVE  Noted(c)'
      <3>1. u \in User
        BY DEF ByToken, ByPrev
      <3> QED
        BY <3>1, <2>1, <2>2, FoundNotes
    <2>3. ASSUME ByToken(f.token) = {}, FetchStep(c, [fetch[c] EXCEPT !.at = "prev"])
          PROVE  Noted(c)'
      BY <2>1, <2>3, AtNotes
    <2>4. ASSUME ByToken(f.token) = {}, ByPrev(f.token) = {},
                 FetchStep(c, [fetch[c] EXCEPT !.at = "notfound"])
          PROVE  Noted(c)'
      <3>1. <<"dead", f.token>> \in facts[c]
        BY <1>1, <2>1, <2>4, MissFacts DEF Noted
      <3> QED
        BY <3>1, <2>1, <2>4, AtNotes
    <2> QED
      BY <1>3, <2>2, <2>3, <2>4 DEF ByCurrent
  <1>4. CASE ByPrevious(c)
    <2>1. f.at = "prev" /\ f.at \in Running
      BY <1>4 DEF ByPrevious, Running
    <2>2. ASSUME NEW u \in ByPrev(f.token), FetchStep(c, Found(c, u))
          PROVE  Noted(c)'
      <3>1. u \in User
        BY DEF ByPrev
      <3> QED
        BY <3>1, <2>1, <2>2, FoundNotes
    <2>3. ASSUME ByPrev(f.token) = {}, FetchStep(c, [fetch[c] EXCEPT !.at = "notfound"])
          PROVE  Noted(c)'
      <3>1. \/ <<"dead", f.token>> \in facts[c]
            \/ raced # {} \/ ByToken(f.token) = {}
        BY <2>1 DEF Noted
      <3>2. ByToken(f.token) = {} => <<"dead", f.token>> \in facts[c]
        BY <1>1, <2>1, <2>3, MissFacts DEF Noted
      <3> QED
        BY <3>1, <3>2, <2>1, <2>3, AtNotes
    <2> QED
      BY <1>4, <2>2, <2>3 DEF ByPrevious
  <1>5. CASE Pools(c)
    <2>1. f.at = "pools" /\ f.at \in Running
      BY <1>5 DEF Pools, Running
    <2>2. CASE ~f.cur.live
      <3>1. FetchStep(c, [fetch[c] EXCEPT !.at = "forbidden"])
        BY <1>5, <2>2 DEF Pools
      <3> QED
        BY <3>1, <2>1, AtNotes
    <2>3. CASE f.cur.live
      <3>1. PICK H \in SUBSET Host : FetchStep(c, [fetch[c] EXCEPT !.at = "hosts", !.todo = H])
        <4>1. PoolHosts(f.cur.plan) \in SUBSET Host
          BY <1>1, AccessAssumption DEF PoolHosts, TypeInv, TypeOK
        <4> QED
          BY <4>1, <1>5, <2>3 DEF Pools
      <3> DEFINE rec == [fetch[c] EXCEPT !.at = "hosts", !.todo = H]
      <3>2. rec \in Fetch
        BY FetchRecords
      <3>3. /\ rec.at = "hosts" /\ rec.token = f.token /\ rec.user = f.user /\ rec.cur = f.cur
            /\ rec.hosts = f.hosts
        BY <1>1 DEF Fetch
      <3>4. /\ fetch'[c] = rec /\ minted' = minted /\ Facts' = Facts
            /\ facts[c] \subseteq facts'[c] /\ Facts \subseteq facts'[c]
        BY <3>1, <3>2, <3>3, OwnFrame DEF Running
      <3>5. f.hosts = {} /\ <<"token", f.token>> \in facts[c] /\ <<"live", f.user>> \in facts[c]
        BY <2>1, <2>3 DEF Noted
      <3> QED
        BY <1>1, <2>1, <2>3, <3>3, <3>4, <3>5 DEF Noted
    <2> QED
      BY <2>2, <2>3
  <1>6. CASE ReadHost(c)
    <2>1. f.at = "hosts" /\ f.at \in Running
      BY <1>6 DEF ReadHost, Running
    <2>2. ASSUME NEW h \in f.todo,
                 FetchStep(c, [fetch[c] EXCEPT !.todo = @ \ {h},
                                 !.hosts = IF h \in enabled THEN @ \cup {h} ELSE @])
          PROVE  Noted(c)'
      <3>1. h \in Host
        BY <1>1 DEF Fetch
      <3>2. PICK rec \in Fetch : rec = [fetch[c] EXCEPT !.todo = @ \ {h},
                                          !.hosts = IF h \in enabled THEN @ \cup {h} ELSE @]
        BY <3>1, FetchRecords
      <3>3. /\ rec.at = "hosts" /\ rec.token = f.token /\ rec.user = f.user /\ rec.cur = f.cur
            /\ rec.hosts = IF h \in enabled THEN f.hosts \cup {h} ELSE f.hosts
        BY <1>1, <2>1, <3>2 DEF Fetch
      <3>4. /\ fetch'[c] = rec /\ minted' = minted /\ Facts' = Facts
            /\ facts[c] \subseteq facts'[c] /\ Facts \subseteq facts'[c]
        <4>1. FetchStep(c, rec) /\ rec.at # "idle" /\ rec.at \in Running
          BY <2>2, <3>2, <3>3 DEF Running
        <4> QED
          BY <4>1, OwnFrame
      <3>5. h \in enabled => <<"host", h>> \in Facts
        BY DEF Facts
      <3>6. \A g \in rec.hosts : <<"host", g>> \in facts'[c]
        <4>1. \A g \in f.hosts : <<"host", g>> \in facts'[c]
          BY <2>1, <3>4 DEF Noted
        <4>2. \A g \in rec.hosts : g \in f.hosts \/ (g = h /\ h \in enabled)
          BY <3>3
        <4> QED
          BY <3>4, <3>5, <4>1, <4>2
      <3>7. /\ <<"token", f.token>> \in facts'[c] /\ <<"live", f.user>> \in facts'[c]
            /\ f.cur.live
        BY <2>1, <3>4 DEF Noted
      <3> QED
        BY <1>1, <2>1, <3>3, <3>4, <3>6, <3>7 DEF Noted
    <2>3. ASSUME FetchStep(c, [fetch[c] EXCEPT !.at = "ok"]) PROVE Noted(c)'
      BY <2>1, <2>3, AtNotes
    <2> QED
      BY <1>6, <2>2, <2>3 DEF ReadHost
  <1>7. CASE FetchFails(c)
    BY <1>7, AtNotes DEF FetchFails, Running
  <1>8. CASE Answered(c)
    <2>1. fetch'[c] = NoFetch
      BY <1>8 DEF Answered, FetchStep, TypeInv, TypeOK
    <2>2. fetch'[c].at = "idle"
      BY <2>1 DEF NoFetch
    <2> QED
      BY <2>2 DEF Noted, Running
  <1> QED
    BY <1>2, <1>3, <1>4, <1>5, <1>6, <1>7, <1>8 DEF RenderStep

LEMMA FetchInvStep == TypeInv /\ FetchInv /\ [Next]_vars => FetchInv'
  <1> SUFFICES ASSUME TypeInv, FetchInv, [Next]_vars, NEW c \in Client PROVE Noted(c)'
    BY DEF FetchInv
  <1>1. Noted(c)
    BY DEF FetchInv
  <1>2. CASE Next /\ fetch'[c] = fetch[c]
    BY <1>1, <1>2, OthersNote
  <1>3. CASE Next /\ fetch'[c] # fetch[c]
    <2>1. \A o \in Operator : ~EditStep(o)
      BY <1>3 DEF EditStep, Create, ReadRow, WriteUpdate, WriteRotate,
        WriteMissing, DeleteRow, Reread, EditFails, ChangeCatalog
    <2>2. \A k \in Token : ~Lapse(k)
      BY <1>3 DEF Lapse
    <2>3. PICK d \in Client : RenderStep(d)
      BY <1>3, <2>1, <2>2 DEF Next
    <2>4. d = c
      BY <1>3, <2>3, RenderIsFetch DEF Fetched, FetchStep, TypeInv, TypeOK
    <2> QED
      BY <1>1, <1>3, <2>3, <2>4, StepNotes DEF Next
  <1>4. CASE UNCHANGED vars
    BY <1>1, <1>4 DEF vars, history, catalog, Noted, Facts, Valid, ByToken, ByPrev
  <1> QED
    BY <1>2, <1>3, <1>4

\* What a fetch delivers was called for: its token was valid, its user live and
\* each of its hosts enabled at some moment since the fetch began, however many
\* edits fell between its queries.
THEOREM DeliveriesWereDue == Spec => []DeliveryWasDue
  BY TypeInit, TypeStep, FetchInit, FetchInvStep, FetchInvSuffices, PTL DEF Spec

\* A fetch that misses used a token that was not valid at some moment since it
\* began, unless a row was written back that had been read before another write:
\* a rotation between the two queries of the lookup does not make it miss.
THEOREM MissesWereDue == Spec => []MissWasDue
  BY TypeInit, TypeStep, FetchInit, FetchInvStep, FetchInvSuffices, PTL DEF Spec
=============================================================================
