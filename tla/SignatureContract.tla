------------------------- MODULE SignatureContract -------------------------
(***************************************************************************)
(* What collecting the signatures of a document promises, with no request, *)
(* no stale copy and no I/O in sight: every signer answers once, in turn   *)
(* when the document is sequential, and the definitive copy is closed once *)
(* and only when nobody is missing.                                        *)
(***************************************************************************)
EXTENDS Integers

CONSTANTS Signers, Order
VARIABLES isSequential, answer, closed

vars == <<isSequential, answer, closed>>

Init == /\ isSequential \in BOOLEAN
        /\ answer = [s \in Signers |-> "PENDING"]
        /\ closed = FALSE

HasTurn(s) ==
  /\ answer[s] = "PENDING"
  /\ isSequential => \A t \in Signers : Order[t] < Order[s] => answer[t] # "PENDING"

Answer(s) ==
  /\ HasTurn(s)
  /\ \E a \in {"SIGNED", "REJECTED"} : answer' = [answer EXCEPT ![s] = a]
  /\ UNCHANGED <<isSequential, closed>>

Close ==
  /\ ~closed
  /\ \A s \in Signers : answer[s] # "PENDING"
  /\ closed' = TRUE
  /\ UNCHANGED <<isSequential, answer>>

Next == Close \/ \E s \in Signers : Answer(s)

Spec == Init /\ [][Next]_vars
=============================================================================
