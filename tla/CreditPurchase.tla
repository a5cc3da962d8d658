--------------------------- MODULE CreditPurchase ---------------------------
(***************************************************************************)
(* The purchase of document credits: a Checkout order, its payment, and    *)
(* the webhook that credits it.  Stripe repeats the event of a payment,    *)
(* in parallel when it is slow, until it is answered 200; the table        *)
(* webhook_events tells a repetition from a retry, and the unique index of *)
(* credit_lots by payment keeps two deliveries from crediting it twice.    *)
(*                                                                         *)
(*   orders      table checkout_orders, one per session of Checkout        *)
(*   paid, acked what the buyer and Stripe know of the session             *)
(*   events      processing_status of the row of its event                 *)
(*   lots        the committed lots, as <<payment, delivery>>              *)
(*   pc          control of each delivery of an event: the n-th that       *)
(*               Stripe makes is <<session, n>>                            *)
(*   found       the lot issueLot() has found for its payment              *)
(*   raced       whether a delivery lost the insertion of the row (history)*)
(*   failures    failures and deaths so far, at most MaxFailures           *)
(***************************************************************************)
EXTENDS Integers, FiniteSets

CONSTANTS Sessions,
          Mismatched,   \* sessions whose lines in Stripe differ from their order
          MaxSends,     \* deliveries Stripe makes of an event
          MaxFailures

ASSUME SessionAssumption == Mismatched \subseteq Sessions
ASSUME BoundAssumption == MaxSends \in Nat /\ MaxFailures \in Nat

VARIABLES orders, paid, acked, events, lots, pc, found, raced, failures
vars == <<orders, paid, acked, events, lots, pc, found, raced, failures>>
buyer == <<paid, acked>>

Deliveries == Sessions \X (1..MaxSends)
NoLot == <<"none", 0>>
Order == [status : {"none", "PENDING", "COMPLETED"}, creditSlot : Deliveries \cup {NoLot}]

Init ==
  /\ orders = [s \in Sessions |-> [status |-> "none", creditSlot |-> NoLot]]
  /\ paid = {} /\ acked = {}
  /\ events = [s \in Sessions |-> "none"]
  /\ lots = {}
  /\ pc = [d \in Deliveries |-> "unsent"] /\ found = [d \in Deliveries |-> NoLot]
  /\ raced = {} /\ failures = 0

Goto(d, p) == pc' = [pc EXCEPT ![d] = p]
Fault == failures < MaxFailures /\ failures' = failures + 1
NoFault == UNCHANGED failures

-----------------------------------------------------------------------------
(* The buyer and Stripe. *)

\* The session is opened in Stripe, its order saved PENDING, and only then is the buyer
\* sent to pay: a failure between both leaves a session nobody is sent to.
OpenCheckout(s) ==
  /\ orders[s].status = "none"
  /\ orders' = [orders EXCEPT ![s].status = "PENDING"]
  /\ UNCHANGED <<buyer, events, lots, pc, found, raced, failures>>

Pay(s) ==
  /\ orders[s].status # "none" /\ s \notin paid
  /\ paid' = paid \cup {s}
  /\ UNCHANGED <<orders, acked, events, lots, pc, found, raced, failures>>

\* Stripe delivers the event until it is answered 200, without waiting for the last try.
Deliver(d) ==
  /\ d[1] \in paid \ acked /\ pc[d] = "unsent"
  /\ \A n \in 1..(d[2] - 1) : pc[<<d[1], n>>] # "unsent"
  /\ Goto(d, "finding")
  /\ UNCHANGED <<orders, buyer, events, lots, found, raced, failures>>

-----------------------------------------------------------------------------
(* register(), markProcessed(), markFailed(). *)

Answer200(d) == /\ acked' = acked \cup {d[1]} /\ UNCHANGED paid
                /\ Goto(d, "done")

\* Mutant: a delivery that was received counts as processed.
MutFindEvent(d) ==
  /\ pc[d] = "finding"
  /\ \/ events[d[1]] # "none" /\ Answer200(d)
     \/ events[d[1]] = "none" /\ Goto(d, "inserting") /\ UNCHANGED buyer
  /\ UNCHANGED <<orders, events, lots, found, raced, failures>>

\* Only PROCESSED cuts the delivery short.
FindEvent(d) ==
  /\ pc[d] = "finding"
  /\ \/ events[d[1]] = "PROCESSED" /\ Answer200(d)
     \/ events[d[1]] \in {"RECEIVED", "FAILED"} /\ Goto(d, "updating") /\ UNCHANGED buyer
     \/ events[d[1]] = "none" /\ Goto(d, "inserting") /\ UNCHANGED buyer
  /\ UNCHANGED <<orders, events, lots, found, raced, failures>>

\* The row is taken back to RECEIVED by its id, whatever it says by now.
UpdateEvent(d) ==
  /\ pc[d] = "updating"
  /\ events' = [events EXCEPT ![d[1]] = "RECEIVED"]
  /\ Goto(d, "looking")
  /\ UNCHANGED <<orders, buyer, lots, found, raced, failures>>

\* The unique index decides the race; its loser answers that the event is a duplicate.
InsertEvent(d) ==
  /\ pc[d] = "inserting"
  /\ \/ /\ events[d[1]] = "none"
        /\ events' = [events EXCEPT ![d[1]] = "RECEIVED"]
        /\ Goto(d, "looking") /\ UNCHANGED <<buyer, raced>>
     \/ /\ events[d[1]] # "none"
        /\ raced' = raced \cup {d[1]}
        /\ Answer200(d) /\ UNCHANGED events
  /\ UNCHANGED <<orders, lots, found, failures>>

\* Neither looks at what another delivery has written; a failure of the UPDATE is a 500.
MarkProcessed(d) ==
  /\ pc[d] = "marking"
  /\ \/ /\ events' = [events EXCEPT ![d[1]] = "PROCESSED"]
        /\ Answer200(d) /\ NoFault
     \/ Fault /\ Goto(d, "done") /\ UNCHANGED <<events, buyer>>
  /\ UNCHANGED <<orders, lots, found, raced>>

MarkFailed(d) ==
  /\ pc[d] = "failing"
  /\ \/ events' = [events EXCEPT ![d[1]] = "FAILED"] /\ NoFault
     \/ Fault /\ UNCHANGED events
  /\ Goto(d, "done")
  /\ UNCHANGED <<orders, buyer, lots, found, raced>>

-----------------------------------------------------------------------------
(* handleCheckoutSessionCompleted of the credits. *)

\* First layer: the order is already linked to its lot.
LookAtOrder(d) ==
  /\ pc[d] = "looking"
  /\ \/ orders[d[1]].creditSlot # NoLot /\ Goto(d, "marking")
     \/ orders[d[1]].creditSlot = NoLot /\ Goto(d, "reading")
  /\ UNCHANGED <<orders, buyer, events, lots, found, raced, failures>>

\* What was charged is asked of Stripe; if it is not what the order says, the payment is
\* left for a person and the event counts as processed.
ReadLines(d) ==
  /\ pc[d] = "reading"
  /\ \/ d[1] \notin Mismatched /\ Goto(d, "issuing") /\ NoFault
     \/ d[1] \in Mismatched /\ Goto(d, "marking") /\ NoFault
     \/ Fault /\ Goto(d, "failing")
  /\ UNCHANGED <<orders, buyer, events, lots, found, raced>>

\* Second layer: issueLot reuses the lot of this payment.
FindLot(d) ==
  /\ pc[d] = "issuing"
  /\ \/ \E x \in lots : /\ x[1] = d[1]
                        /\ found' = [found EXCEPT ![d] = x[2]]
                        /\ Goto(d, "committing")
     \/ /\ \A x \in lots : x[1] # d[1]
        /\ Goto(d, "inserting lot") /\ UNCHANGED found
  /\ UNCHANGED <<orders, buyer, events, lots, raced, failures>>

\* Mutant: nothing is unique about the payment of a lot.
MutInsertLot(d) ==
  /\ pc[d] = "inserting lot"
  /\ found' = [found EXCEPT ![d] = d] /\ Goto(d, "committing")
  /\ UNCHANGED <<orders, buyer, events, lots, raced, failures>>

\* Third layer: the unique index by payment.  The INSERT waits for a transaction that has
\* inserted the same payment, and fails if that one commits.
InsertLot(d) ==
  /\ pc[d] = "inserting lot"
  /\ \A e \in Deliveries : ~(e[1] = d[1] /\ found[e] = e)
  /\ \/ /\ \A x \in lots : x[1] # d[1]
        /\ found' = [found EXCEPT ![d] = d] /\ Goto(d, "committing")
     \/ /\ \E x \in lots : x[1] = d[1]
        /\ Goto(d, "failing") /\ UNCHANGED found
  /\ UNCHANGED <<orders, buyer, events, lots, raced, failures>>

\* Mutant: the lot is saved, its order is left for later.
MutCommit(d) ==
  /\ pc[d] = "committing"
  /\ lots' = lots \cup {<<d[1], found[d]>>}
  /\ found' = [found EXCEPT ![d] = NoLot]
  /\ Goto(d, "marking") /\ UNCHANGED <<orders, failures>>
  /\ UNCHANGED <<buyer, events, raced>>

\* The lot, the order if it is PENDING and the link if it has none, together or not at all.
Commit(d) ==
  /\ pc[d] = "committing"
  /\ \/ /\ lots' = lots \cup {<<d[1], found[d]>>}
        /\ orders' = [orders EXCEPT ![d[1]] =
                        [status |-> "COMPLETED",
                         creditSlot |-> IF @.creditSlot = NoLot THEN found[d] ELSE @.creditSlot]]
        /\ Goto(d, "marking") /\ NoFault
     \/ Fault /\ Goto(d, "failing") /\ UNCHANGED <<lots, orders>>
  /\ found' = [found EXCEPT ![d] = NoLot]
  /\ UNCHANGED <<buyer, events, raced>>

\* The server dies; PostgreSQL undoes what was open and Stripe gets no answer.
Crash(d) ==
  /\ pc[d] \notin {"unsent", "done"} /\ Fault
  /\ found' = [found EXCEPT ![d] = NoLot]
  /\ Goto(d, "done")
  /\ UNCHANGED <<orders, buyer, events, lots, raced>>

Step(d) == \/ FindEvent(d) \/ UpdateEvent(d) \/ InsertEvent(d) \/ LookAtOrder(d)
           \/ ReadLines(d) \/ FindLot(d) \/ InsertLot(d) \/ Commit(d)
           \/ MarkProcessed(d) \/ MarkFailed(d)

Next == \/ \E s \in Sessions : OpenCheckout(s) \/ Pay(s)
        \/ \E d \in Deliveries : Deliver(d) \/ Step(d) \/ Crash(d)

Spec == Init /\ [][Next]_vars

\* Stripe retries for days until it is answered 200; Node ends what it starts.
FairSpec == Spec /\ \A d \in Deliveries : WF_vars(Deliver(d)) /\ WF_vars(Step(d))

-----------------------------------------------------------------------------
TypeOK ==
  /\ orders \in [Sessions -> Order]
  /\ paid \subseteq Sessions /\ acked \subseteq paid /\ raced \subseteq Sessions
  /\ events \in [Sessions -> {"none", "RECEIVED", "PROCESSED", "FAILED"}]
  /\ lots \subseteq Sessions \X Deliveries
  /\ pc \in [Deliveries -> {"unsent", "finding", "updating", "inserting", "looking", "reading",
                            "issuing", "inserting lot", "committing", "marking", "failing",
                            "done"}]
  /\ found \in [Deliveries -> Deliveries \cup {NoLot}]
  /\ failures \in 0..MaxFailures

\* A payment is credited once, however its deliveries overlap and die, and its order
\* remembers the lot from the step in which it exists.
Once == INSTANCE OnceOnly WITH
          Keys <- Sessions, Effects <- Deliveries, None <- NoLot, Lapsing <- {},
          memory <- [s \in Sessions |-> orders[s].creditSlot], effects <- lots
CreditedOnce == Once!Spec

\* An event counts as processed, now or once a delivery that is past its work says so, only
\* when its payment has been credited or cannot be.
ProcessedIsApplied ==
  \A s \in Sessions :
    events[s] = "PROCESSED" \/ (\E n \in 1..MaxSends : pc[<<s, n>>] = "marking") =>
      s \in Mismatched \/ orders[s].creditSlot # NoLot

\* Whoever pays gets his documents, whatever fails, unless two deliveries raced to be the
\* first.
Settled(s) == orders[s].creditSlot # NoLot \/ s \in Mismatched \/ s \in raced
PaidIsCredited == \A s \in Sessions : s \in paid ~> Settled(s)

\* What the comment of register() promises: no event is answered 200 and left dead.  Stripe
\* has stopped retrying, nothing is running, and the payment is not credited.
AtRest(s) == \A n \in 1..MaxSends : pc[<<s, n>>] \in {"unsent", "done"}
NeverLeftDead ==
  \A s \in acked : AtRest(s) => s \in Mismatched \/ orders[s].creditSlot # NoLot
=============================================================================
