------------------------------ MODULE OnceOnly ------------------------------
(***************************************************************************)
(* What an idempotency key promises, whoever keeps it: its effect takes    *)
(* place once for as long as the key is remembered.  A key that may lapse  *)
(* (a member of Lapsing) is forgotten after its retention and may then be  *)
(* used anew; any other is remembered for ever.                            *)
(*                                                                         *)
(*   memory   the effect each key stands for, or None                      *)
(*   effects  every effect that took place, with its key                   *)
(***************************************************************************)
CONSTANTS Keys, Effects, None, Lapsing
VARIABLES memory, effects

Init == /\ memory = [k \in Keys |-> None]
        /\ effects = {}

Perform(k, e) ==
  /\ memory[k] = None
  /\ <<k, e>> \notin effects
  /\ memory' = [memory EXCEPT ![k] = e]
  /\ effects' = effects \cup {<<k, e>>}

Forget(k) ==
  /\ k \in Lapsing /\ memory[k] # None
  /\ memory' = [memory EXCEPT ![k] = None]
  /\ UNCHANGED effects

Next == \E k \in Keys : Forget(k) \/ \E e \in Effects : Perform(k, e)

Spec == Init /\ [][Next]_<<memory, effects>>
=============================================================================
