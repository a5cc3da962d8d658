------------------------ MODULE SubscriptionBilling ------------------------
(***************************************************************************)
(* The subscriptions of one billing profile.  Stripe keeps the truth and   *)
(* tells it in events that arrive late, twice and in any order; the        *)
(* handlers of those events, the requests of the customer and the periods  *)
(* an administrator bills by hand keep the profile, the credit lots, their *)
(* history and the orders of Checkout in agreement with it.                *)
(*                                                                         *)
(*   stripe    each subscription in Stripe                                 *)
(*   pending   the events Stripe has not been answered 200 for, oldest     *)
(*             first, each with the control and the reads of its handler   *)
(*   profile   the row of billing_profiles                                 *)
(*   orders    table checkout_orders; a session sells one subscription     *)
(*   lots      tables credit_lots and subscription_billing_history, whose  *)
(*             rows are written together, oldest first; every lot still    *)
(*             has documents left when the next one is issued              *)
(*   request   the customer's request to cancel or resume, one at a time   *)
(*   failures  what has failed, died, been repeated or lost so far         *)
(*   orderly, overlapped   history: whether every event was handled, in    *)
(*             its order, and nothing crossed it; whether two handlers     *)
(*             have run at once                                            *)
(*                                                                         *)
(* The customer of every event is the profile's, which keeps it before the *)
(* Checkout: an event without a profile, answered 200 with no effect, is   *)
(* not of these subscriptions.                                             *)
(***************************************************************************)
EXTENDS Integers, Sequences, SequencesExt

CONSTANTS Subs, Folios,
          None,         \* no subscription, no period, no lot
          MaxPeriods,   \* periods Stripe charges of a subscription
          MaxPending,   \* events under way
          MaxFailures

ASSUME NamesAssumption ==
  None \notin Subs \cup Folios \cup (Subs \X Nat) /\ Folios \cap (Subs \X Nat) = {}
ASSUME BoundAssumption ==
  MaxPeriods \in Nat \ {0} /\ MaxPending \in Nat /\ MaxFailures \in Nat

VARIABLES stripe, pending, profile, orders, lots, request, failures, orderly, overlapped
SBvars == <<stripe, pending, profile, orders, lots, request, failures, orderly, overlapped>>

Periods == 1..MaxPeriods
Keys == (Subs \X Periods) \cup Folios

\* What an event carries: the state of its subscription when it was sent.
Event(type, s, x) == [type |-> type, sub |-> s, status |-> x.status, flag |-> x.flag,
                      period |-> x.period, pc |-> "sent", read |-> FALSE]

\* STRIPE_STATUS_MAP; trialing, unpaid and incomplete_expired map to one of these, and no
\* event here carries incomplete or paused, which map to INCOMPLETE.
ToProfileStatus(status) == CASE status = "active"   -> "ACTIVE"
                             [] status = "past_due" -> "PAST_DUE"
                             [] status = "canceled" -> "CANCELED"

Live(s) == stripe[s].status \in {"active", "past_due"}

NoRequest == [op |-> "none", sub |-> None, called |-> FALSE]

SBInit ==
  /\ stripe = [s \in Subs |-> [status |-> "none", flag |-> FALSE, period |-> 0, paid |-> {}]]
  /\ pending = << >>
  /\ profile = [status |-> "FREE", sub |-> None, plan |-> "free", flag |-> FALSE, period |-> None]
  /\ orders = [s \in Subs |-> [status |-> "none", lot |-> None]]
  /\ lots = << >>
  /\ request = NoRequest
  /\ failures = << >> /\ orderly = TRUE /\ overlapped = FALSE

\* What happened to an event (None: to a request of the customer, or to any event).
What(how, e) ==
  [how |-> how, of |-> IF e = None THEN None ELSE <<e.type, e.sub, e.status, e.flag, e.period>>]
Happened(how, e) == \E k \in DOMAIN failures : failures[k] = What(how, e)
Fault(how, e) == Len(failures) < MaxFailures /\ failures' = Append(failures, What(how, e))
NoFault == UNCHANGED failures

-----------------------------------------------------------------------------
(* Stripe, its customer and its Dashboard. *)

\* A profile that is not ACTIVE gets a session of Checkout and a PENDING order.
OpenCheckout(s) ==
  /\ profile.status # "ACTIVE" /\ orders[s].status = "none"
  /\ orders' = [orders EXCEPT ![s].status = "PENDING"]
  /\ UNCHANGED <<stripe, pending, profile, lots, request, failures, orderly, overlapped>>

\* Subscription s becomes x and Stripe sends the events of the given types about it.
Tell(s, x, types) ==
  /\ stripe' = [stripe EXCEPT ![s] = x]
  /\ Len(pending) + Len(types) <= MaxPending
  /\ pending' = pending \o [i \in 1..Len(types) |-> Event(types[i], s, x)]

\* A move of Stripe that the profile has not asked for.
Moves(s, x, types) ==
  /\ Tell(s, x, types)
  /\ orderly' = (orderly /\ request.op = "none" /\ \A r \in Subs \ {s} : ~Live(r))
  /\ UNCHANGED <<profile, orders, lots, request, failures, overlapped>>

Subscribe(s) ==
  /\ orders[s].status = "PENDING" /\ stripe[s].status = "none"
  /\ Moves(s, [status |-> "active", flag |-> FALSE, period |-> 1, paid |-> {1}],
           <<"completed", "paid">>)

Renew(s) ==
  /\ stripe[s].status = "active" /\ ~stripe[s].flag /\ stripe[s].period < MaxPeriods
  /\ LET p == stripe[s].period + 1
     IN  Moves(s, [stripe[s] EXCEPT !.period = p, !.paid = @ \cup {p}], <<"updated", "paid">>)

\* The charge of the next period fails; it may be paid later.
FailPayment(s) ==
  /\ stripe[s].status = "active" /\ ~stripe[s].flag /\ stripe[s].period < MaxPeriods
  /\ Moves(s, [stripe[s] EXCEPT !.status = "past_due", !.period = @ + 1],
           <<"updated", "payment_failed">>)

Recover(s) ==
  /\ stripe[s].status = "past_due"
  /\ Moves(s, [stripe[s] EXCEPT !.status = "active", !.paid = @ \cup {stripe[s].period}],
           <<"updated", "paid">>)

\* The Dashboard schedules the end of a subscription, or takes it back.
Toggle(s) ==
  /\ stripe[s].status = "active"
  /\ Moves(s, [stripe[s] EXCEPT !.flag = ~@], <<"updated">>)

\* It ends: its period was the last, or it was never paid.
Terminate(s) ==
  /\ stripe[s].status = "past_due" \/ (stripe[s].status = "active" /\ stripe[s].flag)
  /\ \E types \in {<<"deleted">>, <<"updated", "deleted">>} :
       Moves(s, [stripe[s] EXCEPT !.status = "canceled"], types)

\* Stripe, unanswered, delivers an event once more.
Redeliver(i) ==
  /\ i \in DOMAIN pending /\ Len(pending) < MaxPending /\ Fault("repeated", None)
  /\ pending' = InsertAt(pending, i + 1, [pending[i] EXCEPT !.pc = "sent", !.read = FALSE])
  /\ UNCHANGED <<stripe, profile, orders, lots, request, orderly, overlapped>>

-----------------------------------------------------------------------------
(* The handlers of the events. *)

\* The row of the profile is locked by a transaction that registers a period.
Locked == \E i \in DOMAIN pending : pending[i].pc = "registering"

\* The handler of event i, of the given type, starts and makes its first reads.
Starts(i, type) ==
  /\ i \in DOMAIN pending /\ pending[i].type = type /\ pending[i].pc = "sent"
  /\ LET others == {j \in DOMAIN pending : j # i /\ pending[j].pc # "sent"}
     IN  /\ overlapped' = (overlapped \/ others # {})
         /\ orderly' = (orderly /\ others = {} /\ i = 1)

Runs(i, pc) ==
  /\ i \in DOMAIN pending /\ pending[i].pc = pc
  /\ UNCHANGED <<orderly, overlapped>>

Proceed(i, pc, read) ==
  /\ pending' = [pending EXCEPT ![i].pc = pc, ![i].read = read]
  /\ NoFault

\* The event is answered 200, or its handler dies before it is marked PROCESSED.
Ends(i) ==
  \/ pending' = RemoveAt(pending, i) /\ NoFault
  \/ pending' = [pending EXCEPT ![i].pc = "sent", ![i].read = FALSE] /\ Fault("died", pending[i])

\* A handler fails or dies half way; what it had open in PostgreSQL is undone.
Fail(i) ==
  /\ i \in DOMAIN pending /\ pending[i].pc # "sent" /\ Fault("died", pending[i])
  /\ pending' = [pending EXCEPT ![i].pc = "sent", ![i].read = FALSE]
  /\ UNCHANGED <<stripe, profile, orders, lots, request, orderly, overlapped>>

\* A delivery that loses the insertion in webhook_events to another of the same event is
\* answered 200 at once.  If the one that won dies, nobody delivers the event again; an
\* event that has died before has its row, and its next delivery is handled.
Lose(i) ==
  /\ i \in DOMAIN pending /\ ~Happened("died", pending[i]) /\ Fault("lost", pending[i])
  /\ pending' = RemoveAt(pending, i)
  /\ orderly' = FALSE /\ overlapped' = TRUE
  /\ UNCHANGED <<stripe, profile, orders, lots, request>>

\* handleCheckoutSessionCompleted reads the profile ...
ReadProfile(i) ==
  /\ Starts(i, "completed")
  /\ Proceed(i, "relating", profile.status \in {"FREE", "INCOMPLETE"})
  /\ UNCHANGED <<stripe, profile, orders, lots, request>>

\* ... relates it to the subscription, INCOMPLETE if what it has read admits that ...
RelateProfile(i) ==
  /\ Runs(i, "relating") /\ ~Locked
  /\ profile' = [profile EXCEPT !.sub = pending[i].sub, !.plan = pending[i].sub,
                                !.status = IF pending[i].read THEN "INCOMPLETE" ELSE @]
  /\ Proceed(i, "marking", FALSE)
  /\ UNCHANGED <<stripe, orders, lots, request>>

\* ... completes the order, once ...
MarkCompleted(i) ==
  /\ Runs(i, "marking")
  /\ orders' = [orders EXCEPT ![pending[i].sub].status = "COMPLETED"]
  /\ Proceed(i, "linking", FALSE)
  /\ UNCHANGED <<stripe, profile, lots, request>>

\* Mutant: the order is left for the invoice to link.
MutLinkSession(i) ==
  /\ Runs(i, "linking") /\ Ends(i)
  /\ UNCHANGED <<stripe, profile, orders, lots, request>>

\* ... and links it, if it has no lot, to the newest current lot of the subscription.
LinkSession(i) ==
  /\ Runs(i, "linking") /\ Ends(i)
  /\ LET s       == pending[i].sub
         current == {k \in DOMAIN lots : lots[k].key \in {s} \X Periods /\ lots[k].current}
     IN  orders' = [orders EXCEPT ![s].lot =
                      IF @ # None \/ current = {} THEN @
                      ELSE lots[CHOOSE k \in current : \A l \in current : l <= k].key]
  /\ UNCHANGED <<stripe, profile, lots, request>>

\* A completed order that has no lot yet.
Linkable(s) == orders[s].status = "COMPLETED" /\ orders[s].lot = None

HasLot(key) == \E k \in DOMAIN lots : lots[k].key = key

\* Mutant: a period is registered without looking for it first.
MutLockProfile(i) ==
  /\ Starts(i, "paid") /\ ~Locked
  /\ Proceed(i, "registering", Linkable(pending[i].sub))
  /\ UNCHANGED <<stripe, profile, orders, lots, request>>

\* handleInvoicePaid: the transaction locks the profile, looks for the invoice and for the
\* completed order that has no lot ...
LockProfile(i) ==
  /\ Starts(i, "paid") /\ ~Locked
  /\ LET e == pending[i]
     IN  \/ HasLot(<<e.sub, e.period>>) /\ Ends(i)
         \/ /\ ~HasLot(<<e.sub, e.period>>)
            /\ Proceed(i, "registering", Linkable(e.sub))
  /\ UNCHANGED <<stripe, profile, orders, lots, request>>

\* The previous lots become ROLLOVER, the new one is current and its period open.
Issue(key) ==
  lots' = Append([k \in DOMAIN lots |-> [lots[k] EXCEPT !.current = FALSE]],
                 [key |-> key, current |-> TRUE, open |-> TRUE])

\* The profile with a plan in force for the period of that key.
Activated(plan, key) == [profile EXCEPT !.status = "ACTIVE", !.plan = plan, !.period = key]

\* Mutant: only a period bought through an order is issued.
MutCommitPeriod(i) ==
  /\ Runs(i, "registering") /\ Ends(i)
  /\ LET s == pending[i].sub  key == <<s, pending[i].period>>
     IN  IF pending[i].read
         THEN /\ Issue(key)
              /\ orders' = [orders EXCEPT ![s].lot = key]
              /\ profile' = [Activated(s, key) EXCEPT !.sub = s]
         ELSE UNCHANGED <<profile, orders, lots>>
  /\ UNCHANGED <<stripe, request>>

\* ... and commits the lot, its history, the link of the order and the profile.
CommitPeriod(i) ==
  /\ Runs(i, "registering") /\ Ends(i)
  /\ LET s == pending[i].sub  key == <<s, pending[i].period>>
     IN  /\ Issue(key)
         /\ orders' = [orders EXCEPT ![s].lot = IF pending[i].read THEN key ELSE @]
         /\ profile' = [Activated(s, key) EXCEPT !.sub = s]
  /\ UNCHANGED <<stripe, request>>

PaymentFailed(i) ==
  /\ Starts(i, "payment_failed") /\ ~Locked /\ Ends(i)
  /\ profile' = [profile EXCEPT !.status = "PAST_DUE"]
  /\ UNCHANGED <<stripe, orders, lots, request>>

\* handleSubscriptionUpdated ignores the late news of a subscription that ended ...
ReadBeforeSync(i) ==
  /\ Starts(i, "updated")
  /\ LET e    == pending[i]
         late == profile.status = "FREE" /\ profile.sub = e.sub /\ e.status = "canceled"
     IN  (late /\ Ends(i)) \/ (~late /\ Proceed(i, "syncing", FALSE))
  /\ UNCHANGED <<stripe, profile, orders, lots, request>>

\* ... and copies any other.
SyncProfile(i) ==
  /\ Runs(i, "syncing") /\ ~Locked /\ Ends(i)
  /\ LET e == pending[i]
     IN  profile' = [status |-> ToProfileStatus(e.status), sub |-> e.sub, plan |-> e.sub,
                     flag |-> e.flag, period |-> <<e.sub, e.period>>]
  /\ UNCHANGED <<stripe, orders, lots, request>>

\* currentPeriodEnd is kept: no period is in force.
FreeProfile == [profile EXCEPT !.status = "FREE", !.plan = "free", !.flag = FALSE,
                               !.period = None]
OnFreePlan == profile.status = "FREE" /\ profile.plan = "free"

\* Mutant: the last period of the profile is closed and its plan is left alone.
MutFinalize(i) ==
  /\ Starts(i, "deleted") /\ ~Locked /\ Ends(i)
  /\ lots' = [k \in DOMAIN lots |-> [lots[k] EXCEPT !.open = @ /\ k # Len(lots)]]
  /\ UNCHANGED <<stripe, profile, orders, request>>

\* FinalizeSubscriptionFromStripe: the last period of the subscription is closed and the
\* profile, whatever it shows, goes back to the free plan; once.
Finalize(i) ==
  /\ Starts(i, "deleted") /\ ~Locked /\ Ends(i)
  /\ LET own  == {k \in DOMAIN lots : lots[k].key \in {pending[i].sub} \X Periods}
         last == CHOOSE k \in own : \A l \in own : lots[l].key[2] <= lots[k].key[2]
     IN  \/ own = {} /\ profile' = (IF OnFreePlan THEN profile ELSE FreeProfile) /\ UNCHANGED lots
         \/ own # {} /\ ~lots[last].open /\ UNCHANGED <<profile, lots>>
         \/ /\ own # {} /\ lots[last].open
            /\ lots' = [lots EXCEPT ![last].open = FALSE]
            /\ profile' = FreeProfile
  /\ UNCHANGED <<stripe, orders, request>>

Step(i) == \/ ReadProfile(i) \/ RelateProfile(i) \/ MarkCompleted(i) \/ LinkSession(i)
           \/ LockProfile(i) \/ CommitPeriod(i) \/ PaymentFailed(i)
           \/ ReadBeforeSync(i) \/ SyncProfile(i) \/ Finalize(i)

-----------------------------------------------------------------------------
(* The customer and the administrator. *)

\* assertCancelable, assertResumable.
Ask(op) ==
  /\ request.op = "none"
  /\ profile.status = "ACTIVE" /\ profile.sub # None /\ profile.flag = (op = "resume")
  /\ request' = [op |-> op, sub |-> profile.sub, called |-> FALSE]
  /\ UNCHANGED <<stripe, pending, profile, orders, lots, failures, orderly, overlapped>>

\* Stripe obeys, and announces it, or refuses because the subscription has ended.
CallStripe ==
  /\ request.op # "none" /\ ~request.called
  /\ \/ /\ Live(request.sub)
        /\ LET x == [stripe[request.sub] EXCEPT !.flag = (request.op = "cancel")]
           IN  Tell(request.sub, x, IF x = stripe[request.sub] THEN << >> ELSE <<"updated">>)
        /\ request' = [request EXCEPT !.called = TRUE]
     \/ ~Live(request.sub) /\ request' = NoRequest /\ UNCHANGED <<stripe, pending>>
  /\ UNCHANGED <<profile, orders, lots, failures, orderly, overlapped>>

\* Only the flag is written, or the request dies and the event will write it.
WriteFlag ==
  /\ request.called /\ ~Locked
  /\ \/ profile' = [profile EXCEPT !.flag = (request.op = "cancel")] /\ NoFault
     \/ Fault("died", None) /\ UNCHANGED profile
  /\ request' = NoRequest
  /\ UNCHANGED <<stripe, pending, orders, lots, orderly, overlapped>>

\* A period charged outside Stripe, under the folio of its payment.
RegisterManual(f) ==
  /\ ~Locked /\ ~HasLot(f)
  /\ Issue(f)
  /\ profile' = [Activated(f, f) EXCEPT !.flag = FALSE]
  /\ orderly' = FALSE
  /\ UNCHANGED <<stripe, pending, orders, request, failures, overlapped>>

SBNext == \/ \E s \in Subs : \/ OpenCheckout(s) \/ Subscribe(s) \/ Renew(s) \/ FailPayment(s)
                             \/ Recover(s) \/ Toggle(s) \/ Terminate(s)
          \/ \E i \in 1..MaxPending : Redeliver(i) \/ Step(i) \/ Fail(i) \/ Lose(i)
          \/ \E op \in {"cancel", "resume"} : Ask(op)
          \/ CallStripe \/ WriteFlag
          \/ \E f \in Folios : RegisterManual(f)

SBSpec == SBInit /\ [][SBNext]_SBvars

\* Stripe insists on its oldest event until it is answered, the locks of PostgreSQL are
\* granted in turn, and Node ends what it starts.
SBFairSpec == SBSpec /\ SF_SBvars(Step(1)) /\ \A i \in 1..MaxPending : WF_SBvars(Step(i))

-----------------------------------------------------------------------------
ProfileRow == [status : {"FREE", "INCOMPLETE", "ACTIVE", "PAST_DUE", "CANCELED"},
               sub : Subs \cup {None}, plan : Subs \cup Folios \cup {"free"},
               flag : BOOLEAN, period : Keys \cup {None}]
SBTypeOK ==
  /\ stripe \in [Subs -> [status : {"none", "active", "past_due", "canceled"}, flag : BOOLEAN,
                          period : 0..MaxPeriods, paid : SUBSET Periods]]
  /\ \A i \in DOMAIN pending :
       /\ pending[i].type \in {"completed", "paid", "payment_failed", "updated", "deleted"}
       /\ pending[i].sub \in Subs /\ pending[i].period \in Periods
       /\ pending[i].pc \in {"sent", "relating", "marking", "linking", "registering", "syncing"}
  /\ Len(pending) <= MaxPending
  /\ profile \in ProfileRow
  /\ orders \in [Subs -> [status : {"none", "PENDING", "COMPLETED"}, lot : Keys \cup {None}]]
  /\ \A k \in DOMAIN lots : lots[k] \in [key : Keys, current : BOOLEAN, open : BOOLEAN]
  /\ request \in [op : {"none", "cancel", "resume"}, sub : Subs \cup {None}, called : BOOLEAN]
  /\ Len(failures) \in 0..MaxFailures /\ orderly \in BOOLEAN /\ overlapped \in BOOLEAN

\* However the events of an invoice are repeated, overlap and die, it has one lot and one
\* line of history, and so has each folio: nobody gets the documents of a period twice.
BilledOnce == \A k, l \in DOMAIN lots : lots[k].key = lots[l].key => k = l

\* When its events have been handled in their order and none was lost, whatever failed
\* meanwhile, the profile is what Stripe says, every period paid has its lot, and a
\* subscription that ended is closed in the history.
Mirrors(s) ==
  /\ profile = [status |-> ToProfileStatus(stripe[s].status), sub |-> s, plan |-> s,
                flag |-> stripe[s].flag, period |-> <<s, stripe[s].period>>]
  /\ \A p \in stripe[s].paid : HasLot(<<s, p>>)
AgreesWithStripe ==
  orderly /\ pending = << >> /\ request.op = "none" =>
    /\ \A s \in Subs : Live(s) => Mirrors(s)
    /\ (\A s \in Subs : ~Live(s)) => profile.status = "FREE" /\ ~profile.flag
    /\ \A k \in DOMAIN lots :
         lots[k].open /\ lots[k].key \notin Folios =>
           LET s == lots[k].key[1]
           IN  Live(s) \/ \E l \in DOMAIN lots : l > k /\ lots[l].key \in {s} \X Periods

\* Whichever of the two events of a purchase is handled first, its order ends linked to a
\* lot of its subscription, or no lot of the subscription is current (a period billed by hand
\* rolled it over), if no two deliveries were handled at once.
EitherOrderLinks ==
  ~overlapped /\ pending = << >> =>
    \A s \in Subs : orders[s].status = "COMPLETED" =>
      \/ orders[s].lot \in {s} \X Periods
      \/ \A k \in DOMAIN lots : lots[k].current => lots[k].key \notin {s} \X Periods

\* A period that Stripe has charged gets its lot in the end, whatever dies and is repeated,
\* unless two deliveries of its invoice raced for the insertion, the loser was answered 200
\* and the winner died.
PaymentLost(s, p) == \E k \in DOMAIN failures :
  /\ failures[k].how = "lost"
  /\ failures[k].of[1] = "paid" /\ failures[k].of[2] = s /\ failures[k].of[5] = p
PaidIsBilled ==
  \A s \in Subs, p \in Periods :
    (p \in stripe[s].paid) ~> (HasLot(<<s, p>>) \/ PaymentLost(s, p))

\* What handleSubscriptionUpdated promises: a subscription that has been finalized is not
\* brought back to life by an event that arrives late.
Finished(s) == /\ profile.status = "FREE" /\ profile.sub = s
               /\ stripe[s].status = "canceled"
               /\ \E k \in DOMAIN lots : lots[k].key \in {s} \X Periods /\ ~lots[k].open
NotResurrected ==
  [][\A s \in Subs : Finished(s) => profile'.status # "ACTIVE" \/ profile'.plan # s]_SBvars
=============================================================================
