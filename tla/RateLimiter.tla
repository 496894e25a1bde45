---------------------------- MODULE RateLimiter ----------------------------
(***************************************************************************)
(* internal/ratelimit: a token bucket per key that is filled when it is    *)
(* read, with no ticker.  A bucket of a key that has not been seen for     *)
(* longer than Idle is taken for a fresh one, and when MaxKeys keys are    *)
(* tracked a new one replaces the key that was seen longest ago.           *)
(*                                                                         *)
(* Time is counted in the unit in which Rate tokens arrive, so that the    *)
(* fractions of the float arithmetic do not arise.  A key without bucket   *)
(* has a full one, as Allow would make for it.                             *)
(***************************************************************************)
EXTENDS Integers, FiniteSets

CONSTANTS Key,      \* the keys: subscription tokens
          Rate,     \* tokens per unit of time; the limiter is off with none
          Burst,    \* capacity of a bucket
          Idle,     \* a bucket not seen for longer is fresh; 0: never
          MaxKeys,  \* how many keys are tracked; 0: any number
          MaxTime   \* bound: the last moment that is looked at

ASSUME LimiterAssumption ==
  /\ Rate \in Nat \ {0} /\ Burst \in Nat \ {0}
  /\ Idle \in Nat /\ MaxKeys \in Nat /\ MaxTime \in Nat
  /\ Idle > 0 => Idle * Rate >= Burst

VARIABLES now,          \* the clock
          tracked,      \* the keys that have a bucket
          tokens,       \* tokens[k]: what was left when k was last read
          lastRefill,   \* lastRefill[k]: when it was last filled
          lastSeen,     \* lastSeen[k]: when k was last asked for
          granted,      \* history: requests granted to k since it is tracked
          since         \* history: since[k]: when k was last inserted

buckets == <<tracked, tokens, lastRefill, lastSeen>>
grants == <<granted, since>>
limiterVars == <<now, buckets, grants>>

LimiterTypeOK ==
  /\ now \in Nat
  /\ tracked \subseteq Key
  /\ tokens \in [Key -> 0..Burst]
  /\ lastRefill \in [Key -> 0..now]
  /\ lastSeen \in [Key -> 0..now]
  /\ granted \in [Key -> Nat]
  /\ since \in [Key -> 0..now]

Capped(n) == IF n > Burst THEN Burst ELSE n

\* A new key gets a full bucket, and so does one that was idle for too long.
Fresh(k) == \/ k \notin tracked
            \/ Idle > 0 /\ now - lastSeen[k] > Idle

\* The bucket of k, filled for the time since it was last filled.
Level(k) == IF Fresh(k) THEN Burst
            ELSE Capped(tokens[k] + (now - lastRefill[k]) * Rate)

\* The keys that may make room for k: the one seen longest ago, if any must.
Evicted(k) ==
  IF k \in tracked \/ MaxKeys = 0 \/ Cardinality(tracked) < MaxKeys THEN {}
  ELSE {e \in tracked : \A j \in tracked : lastSeen[e] <= lastSeen[j]}

Allowed(k) == Level(k) >= 1

\* What has been granted to k since it got its bucket.
Grant(k) ==
  /\ granted' = [granted EXCEPT ![k] = (IF k \in tracked THEN @ ELSE 0)
                                       + (IF Allowed(k) THEN 1 ELSE 0)]
  /\ since' = [since EXCEPT ![k] = IF k \in tracked THEN @ ELSE now]

\* Bug variant of Allow: a request that is turned away empties the bucket.
AllowPenalises(k) ==
  /\ tokens' = [tokens EXCEPT ![k] = IF Allowed(k) THEN Level(k) - 1 ELSE 0]
  /\ lastRefill' = [lastRefill EXCEPT ![k] = now + 1]
  /\ lastSeen' = [lastSeen EXCEPT ![k] = now]
  /\ tracked' = tracked \cup {k}
  /\ Grant(k)
  /\ UNCHANGED now

\* Bug variant of Allow: the moment of the refill is not kept, so that the
\* same time is credited again with every request.
AllowCreditsTwice(k) ==
  /\ tokens' = [tokens EXCEPT ![k] = IF Allowed(k) THEN Level(k) - 1 ELSE Level(k)]
  /\ lastRefill' = [lastRefill EXCEPT ![k] = IF Fresh(k) THEN now ELSE @]
  /\ lastSeen' = [lastSeen EXCEPT ![k] = now]
  /\ tracked' = tracked \cup {k}
  /\ Grant(k)
  /\ UNCHANGED now

Allow(k) ==
  /\ tokens' = [tokens EXCEPT ![k] = IF Allowed(k) THEN Level(k) - 1 ELSE Level(k)]
  /\ lastRefill' = [lastRefill EXCEPT ![k] = IF Fresh(k) \/ now > @ THEN now ELSE @]
  /\ lastSeen' = [lastSeen EXCEPT ![k] = now]
  /\ \/ Evicted(k) = {} /\ tracked' = tracked \cup {k}
     \/ \E e \in Evicted(k) : tracked' = (tracked \ {e}) \cup {k}
  /\ Grant(k)
  /\ UNCHANGED now

Elapse == /\ now < MaxTime
          /\ now' = now + 1
          /\ UNCHANGED <<buckets, grants>>

LimiterInit ==
  /\ now = 0
  /\ tracked = {}
  /\ tokens = [k \in Key |-> 0]
  /\ lastRefill = [k \in Key |-> 0]
  /\ lastSeen = [k \in Key |-> 0]
  /\ granted = [k \in Key |-> 0]
  /\ since = [k \in Key |-> 0]

LimiterNext == Elapse \/ \E k \in Key : Allow(k)
LimiterSpec == LimiterInit /\ [][LimiterNext]_limiterVars

-----------------------------------------------------------------------------
\* Filling on read, the idle reset and the replacement of keys amount to a
\* bucket that fills with every tick and pays for every request it grants (the
\* algorithm ratelimit.go:28-43 states).
Levels == [k \in Key |-> Level(k)]
Counts == [k \in Key |-> IF k \in tracked THEN granted[k] ELSE 0]
Bucket == INSTANCE TokenBucket WITH level <- Levels, granted <- Counts
FillsLikeABucket == Bucket!Spec

\* While a key keeps its bucket it is granted no more than the burst and what
\* arrived since, however its requests and the idle resets are spread.
GrantsBounded ==
  \A k \in tracked : granted[k] + Level(k) <= Burst + Rate * (now - since[k])
=============================================================================
