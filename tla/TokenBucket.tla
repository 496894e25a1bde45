---------------------------- MODULE TokenBucket ----------------------------
(***************************************************************************)
(* The rate limit a caller of the panel is promised: a level per key that  *)
(* fills by Rate with every tick of the clock up to Burst, one unit of     *)
(* which every granted request takes; with none left it is turned away.    *)
(* Keys may be forgotten: they start anew with a full level.               *)
(***************************************************************************)
EXTENDS Naturals

CONSTANTS Key, Rate, Burst

VARIABLES level,    \* level[k]: the units key k may still take now
          granted   \* granted[k]: requests of k granted since it is known

Filled(n) == IF n > Burst THEN Burst ELSE n

Init == /\ level = [k \in Key |-> Burst]
        /\ granted = [k \in Key |-> 0]

Elapse == /\ level' = [k \in Key |-> Filled(level[k] + Rate)]
          /\ UNCHANGED granted

Take(k) == /\ level[k] >= 1
           /\ level' = [level EXCEPT ![k] = @ - 1]
           /\ granted' = [granted EXCEPT ![k] = @ + 1]

Forget(K) == /\ level' = [k \in Key |-> IF k \in K THEN Burst ELSE level[k]]
             /\ granted' = [k \in Key |-> IF k \in K THEN 0 ELSE granted[k]]

\* A key takes one unit while another is forgotten to make room for it.
TakeForgetting(k, j) ==
  /\ k # j /\ level[k] >= 1
  /\ level' = [level EXCEPT ![k] = @ - 1, ![j] = Burst]
  /\ granted' = [granted EXCEPT ![k] = @ + 1, ![j] = 0]

Next == \/ Elapse
        \/ \E k \in Key : Take(k)
        \/ \E K \in SUBSET Key : Forget(K)
        \/ \E k, j \in Key : TakeForgetting(k, j)

Spec == Init /\ [][Next]_<<level, granted>>
=============================================================================
