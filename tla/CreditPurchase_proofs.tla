----------------------- MODULE CreditPurchase_proofs -----------------------
(***************************************************************************)
(* Proofs about CreditPurchase for any number of sessions, deliveries and  *)
(* failures.  The lots and the links of the orders say the same (Linked):  *)
(* they change in one transaction.  A transaction that has inserted a lot  *)
(* knows that there is none of its payment, nor will be before it commits  *)
(* (Inserting), which is what the unique index gives.                      *)
(***************************************************************************)
EXTENDS CreditPurchase, TLAPS

Slot(s) == orders[s].creditSlot

Linked == \A s \in Sessions : \A d \in Deliveries :
            <<s, d>> \in lots <=> Slot(s) = d

InsertsAlone(d) ==
  /\ found[d] # NoLot <=> pc[d] = "committing"
  /\ pc[d] = "committing" =>
       \/ <<d[1], found[d]>> \in lots
       \/ /\ found[d] = d /\ Slot(d[1]) = NoLot
          /\ \A e \in Deliveries : e[1] = d[1] /\ found[e] = e => e = d

Inserting == \A d \in Deliveries : InsertsAlone(d)

Applied(s) == s \in Mismatched \/ Slot(s) # NoLot

Past == /\ \A d \in Deliveries : pc[d] = "marking" => Applied(d[1])
        /\ \A s \in Sessions : events[s] = "PROCESSED" => Applied(s)
        /\ \A d \in Deliveries : pc[d] # "unsent" => d[1] \in paid

Invariant == TypeOK /\ Linked /\ Inserting /\ Past

\* A delivery is not the absence of one.
LEMMA NoLotIsNone ==
  /\ NoLot \notin Deliveries
  /\ \A d \in Deliveries : d[1] \in Sessions /\ d = <<d[1], d[2]>> /\ d # NoLot
BY BoundAssumption DEF Deliveries, NoLot

\* What an order may become.
LEMMA OrdersAreTyped ==
  ASSUME NEW o \in Order, NEW t \in {"none", "PENDING", "COMPLETED"}, NEW d \in Deliveries \cup {NoLot}
  PROVE  /\ o.creditSlot \in Deliveries \cup {NoLot} /\ o.status \in {"none", "PENDING", "COMPLETED"}
         /\ [o EXCEPT !.status = t] \in Order /\ [o EXCEPT !.status = t].creditSlot = o.creditSlot
         /\ [status |-> t, creditSlot |-> d] \in Order
BY DEF Order

Control == {"unsent", "finding", "updating", "inserting", "looking", "reading", "issuing",
            "inserting lot", "committing", "marking", "failing", "done"}

\* A delivery moves alone.
LEMMA Moves ==
  ASSUME TypeOK, NEW d \in Deliveries, NEW p \in Control, pc' = [pc EXCEPT ![d] = p]
  PROVE  /\ pc' \in [Deliveries -> Control] /\ pc'[d] = p
         /\ \A e \in Deliveries : e # d => pc'[e] = pc[e]
BY DEF TypeOK, Control

LEMMA Finds ==
  ASSUME TypeOK, NEW d \in Deliveries, NEW x \in Deliveries \cup {NoLot}, found' = [found EXCEPT ![d] = x]
  PROVE  /\ found' \in [Deliveries -> Deliveries \cup {NoLot}] /\ found'[d] = x
         /\ \A e \in Deliveries : e # d => found'[e] = found[e]
BY DEF TypeOK

\* What each failure adds to the count.
LEMMA FaultsAreCounted == ASSUME TypeOK, Fault \/ NoFault PROVE failures' \in 0..MaxFailures
<1>1. failures \in 0..MaxFailures
  BY DEF TypeOK
<1> QED BY <1>1, BoundAssumption DEF Fault, NoFault

\* A step of a delivery that leaves the tables alone does not disturb the insertions of
\* others, if it inserts only what nobody is inserting.
LEMMA OthersInsertAlone ==
  ASSUME Inserting, NEW d \in Deliveries, orders' = orders, lots' = lots,
         \A e \in Deliveries : e # d => pc'[e] = pc[e] /\ found'[e] = found[e],
         \/ found'[d] = NoLot
         \/ Slot(d[1]) # NoLot
         \/ \A e \in Deliveries : ~(e[1] = d[1] /\ found[e] = e)
  PROVE  \A e \in Deliveries : e # d => InsertsAlone(e)'
<1> SUFFICES ASSUME NEW e \in Deliveries, e # d PROVE InsertsAlone(e)'
  OBVIOUS
<1>1. InsertsAlone(e) /\ pc'[e] = pc[e] /\ found'[e] = found[e] /\ Slot(e[1])' = Slot(e[1])
  BY DEF Inserting, InsertsAlone, Slot
<1>2. CASE pc[e] # "committing" \/ <<e[1], found[e]>> \in lots
  BY <1>1, <1>2 DEF InsertsAlone
<1>3. CASE /\ found[e] = e /\ Slot(e[1]) = NoLot
           /\ \A f \in Deliveries : f[1] = e[1] /\ found[f] = f => f = e
  <2>1. ASSUME NEW f \in Deliveries, f[1] = e[1], found'[f] = f PROVE f = e
    <3>1. CASE f # d
      BY <1>3, <2>1, <3>1
    <3>2. CASE f = d
      BY <1>3, <2>1, <3>2, NoLotIsNone
    <3> QED BY <3>1, <3>2
  <2> QED BY <1>1, <1>3, <2>1 DEF InsertsAlone
<1> QED BY <1>1, <1>2, <1>3 DEF InsertsAlone

LEMMA InvariantInit == Init => Invariant
<1> SUFFICES ASSUME Init PROVE Invariant
  OBVIOUS
<1>1. TypeOK
  BY BoundAssumption DEF Init, TypeOK, Order
<1>2. Linked /\ Inserting /\ Past
  BY NoLotIsNone DEF Init, Linked, Inserting, InsertsAlone, Past, Slot, Applied
<1> QED BY <1>1, <1>2 DEF Invariant

-----------------------------------------------------------------------------
(* Steps that change neither the orders nor the lots nor an insertion. *)

Idle(d) == /\ orders' = orders /\ lots' = lots /\ found' = found
           /\ pc[d] # "committing" /\ pc'[d] # "committing"
           /\ \A e \in Deliveries : e # d => pc'[e] = pc[e]

LEMMA IdleKeeps ==
  ASSUME Invariant, NEW d \in Deliveries, Idle(d)
  PROVE  Linked' /\ Inserting'
BY DEF Invariant, Idle, Linked, Inserting, InsertsAlone, Slot

LEMMA OpenCheckoutKeeps == ASSUME Invariant, NEW s \in Sessions, OpenCheckout(s) PROVE Invariant'
<1>1. orders[s] \in Order
  BY DEF Invariant, TypeOK
<1>2. /\ orders' \in [Sessions -> Order]
      /\ \A q \in Sessions : orders'[q].creditSlot = orders[q].creditSlot
  BY <1>1, OrdersAreTyped DEF OpenCheckout, Invariant, TypeOK
<1>3. UNCHANGED <<paid, acked, events, lots, pc, found, raced, failures>>
  BY DEF OpenCheckout, buyer
<1>4. TypeOK'
  BY <1>2, <1>3 DEF Invariant, TypeOK
<1>5. Linked' /\ Past'
  BY <1>2, <1>3, NoLotIsNone DEF Invariant, Linked, Past, Slot, Applied
<1>6. Inserting'
  BY <1>2, <1>3, NoLotIsNone DEF Invariant, Inserting, InsertsAlone, Slot
<1> QED BY <1>4, <1>5, <1>6 DEF Invariant

LEMMA PayKeeps == ASSUME Invariant, NEW s \in Sessions, Pay(s) PROVE Invariant'
<1>1. TypeOK'
  BY DEF Invariant, TypeOK, Pay
<1>2. Linked' /\ Inserting' /\ Past'
  BY DEF Invariant, Linked, Inserting, InsertsAlone, Past, Slot, Applied, Pay
<1> QED BY <1>1, <1>2 DEF Invariant

\* The steps of a delivery outside its transaction.
LEMMA RegistryKeeps ==
  ASSUME Invariant, NEW d \in Deliveries,
         \/ Deliver(d) \/ FindEvent(d) \/ UpdateEvent(d) \/ InsertEvent(d)
         \/ LookAtOrder(d) \/ ReadLines(d) \/ MarkProcessed(d) \/ MarkFailed(d)
  PROVE  Invariant'
<1> USE DEF Goto, Fault, NoFault, Answer200, buyer
<1>1. Idle(d)
  BY DEF Invariant, TypeOK, Idle, Deliver, FindEvent, UpdateEvent, InsertEvent, LookAtOrder, ReadLines,
         MarkProcessed, MarkFailed
<1>2. Linked' /\ Inserting'
  BY <1>1, IdleKeeps
<1>3. CASE Deliver(d)
  BY <1>2, <1>3 DEF Invariant, TypeOK, Past, Slot, Applied, Deliver
<1>4. CASE FindEvent(d)
  BY <1>2, <1>4, NoLotIsNone DEF Invariant, TypeOK, Past, Slot, Applied, FindEvent
<1>5. CASE UpdateEvent(d)
  BY <1>2, <1>5, NoLotIsNone DEF Invariant, TypeOK, Past, Slot, Applied, UpdateEvent
<1>6. CASE InsertEvent(d)
  BY <1>2, <1>6, NoLotIsNone DEF Invariant, TypeOK, Past, Slot, Applied, InsertEvent
<1>7. CASE LookAtOrder(d)
  BY <1>2, <1>7, NoLotIsNone DEF Invariant, TypeOK, Past, Slot, Applied, LookAtOrder
<1>8. CASE ReadLines(d)
  <2>1. failures' \in 0..MaxFailures
    BY <1>8, FaultsAreCounted DEF Invariant, ReadLines
  <2>2. PICK p \in Control : /\ pc' = [pc EXCEPT ![d] = p] /\ (p = "marking" => d[1] \in Mismatched)
    BY <1>8 DEF ReadLines, Control
  <2>3. UNCHANGED <<orders, paid, acked, events, lots, found, raced>> /\ pc[d] = "reading"
    BY <1>8 DEF ReadLines
  <2>4. TypeOK'
    BY <2>1, <2>2, <2>3, Moves DEF Invariant, TypeOK, Control
  <2>5. Past'
    BY <2>2, <2>3, Moves DEF Invariant, Past, Slot, Applied
  <2> QED BY <1>2, <2>4, <2>5 DEF Invariant
<1>9. CASE MarkProcessed(d)
  <2>1. failures' \in 0..MaxFailures
    BY <1>9, FaultsAreCounted DEF Invariant, MarkProcessed
  <2>2. pc' = [pc EXCEPT ![d] = "done"] /\ "done" \in Control
    BY <1>9 DEF MarkProcessed, Control
  <2>3. /\ UNCHANGED <<orders, paid, lots, found, raced>> /\ pc[d] = "marking" /\ d[1] \in Sessions /\ d[1] \in paid
        /\ acked' \in {acked, acked \cup {d[1]}}
        /\ events' = events \/ events' = [events EXCEPT ![d[1]] = "PROCESSED"]
    BY <1>9, NoLotIsNone DEF MarkProcessed, Invariant, Past
  <2>4. TypeOK'
    BY <2>1, <2>2, <2>3, Moves DEF Invariant, TypeOK, Control
  <2>5. Applied(d[1])
    BY <2>3 DEF Invariant, Past
  <2>6. \A s \in Sessions : events'[s] = "PROCESSED" => Applied(s)
    BY <2>3, <2>5 DEF Invariant, TypeOK, Past
  <2>7. Past'
    BY <2>2, <2>3, <2>6, Moves DEF Invariant, Past, Slot, Applied
  <2> QED BY <1>2, <2>4, <2>7 DEF Invariant
<1>10. CASE MarkFailed(d)
  <2>1. failures' \in 0..MaxFailures
    BY <1>10, FaultsAreCounted DEF Invariant, MarkFailed
  <2>2. pc' = [pc EXCEPT ![d] = "done"] /\ "done" \in Control
    BY <1>10 DEF MarkFailed, Control
  <2>3. /\ UNCHANGED <<orders, paid, acked, lots, found, raced>> /\ pc[d] = "failing" /\ d[1] \in Sessions
        /\ events' = events \/ events' = [events EXCEPT ![d[1]] = "FAILED"]
    BY <1>10, NoLotIsNone DEF MarkFailed
  <2>4. TypeOK'
    BY <2>1, <2>2, <2>3, Moves DEF Invariant, TypeOK, Control
  <2>5. \A s \in Sessions : events'[s] = "PROCESSED" => Applied(s)
    BY <2>3 DEF Invariant, TypeOK, Past
  <2>6. Past'
    BY <2>2, <2>3, <2>5, Moves DEF Invariant, Past, Slot, Applied
  <2> QED BY <1>2, <2>4, <2>6 DEF Invariant
<1> QED BY <1>3, <1>4, <1>5, <1>6, <1>7, <1>8, <1>9, <1>10

-----------------------------------------------------------------------------
(* The transaction. *)

LEMMA FindLotKeeps == ASSUME Invariant, NEW d \in Deliveries, FindLot(d) PROVE Invariant'
<1>1. /\ pc[d] = "issuing" /\ UNCHANGED <<orders, paid, acked, events, lots, raced, failures>>
      /\ Slot(d[1])' = Slot(d[1]) /\ d # NoLot
  BY NoLotIsNone DEF FindLot, buyer, Slot
<1>2. CASE \A x \in lots : x[1] # d[1]
  <2>1. pc' = [pc EXCEPT ![d] = "inserting lot"] /\ found' = found /\ "inserting lot" \in Control
    BY <1>2 DEF FindLot, Goto, Control
  <2>2. TypeOK' /\ Idle(d)
    BY <1>1, <2>1, Moves DEF Invariant, TypeOK, Control, Idle
  <2>3. Past'
    BY <1>1, <2>1, Moves DEF Invariant, Past, Slot, Applied
  <2> QED BY <2>2, <2>3, IdleKeeps DEF Invariant
<1>3. CASE \E x \in lots : x[1] = d[1]
  <2>1. PICK y \in Deliveries :
          /\ <<d[1], y>> \in lots /\ found' = [found EXCEPT ![d] = y]
          /\ pc' = [pc EXCEPT ![d] = "committing"] /\ "committing" \in Control
    <3>1. PICK x \in lots : /\ x[1] = d[1] /\ found' = [found EXCEPT ![d] = x[2]]
                            /\ pc' = [pc EXCEPT ![d] = "committing"]
      BY <1>3 DEF FindLot, Goto
    <3>2. x = <<d[1], x[2]>> /\ x[2] \in Deliveries
      <4>1. lots \subseteq Sessions \X Deliveries
        BY DEF Invariant, TypeOK
      <4> QED BY <3>1, <4>1
    <3> QED BY <3>1, <3>2 DEF Control
  <2>2. TypeOK'
    BY <1>1, <2>1, Moves, Finds DEF Invariant, TypeOK, Control
  <2>3. Past' /\ Linked'
    BY <1>1, <2>1, Moves DEF Invariant, Past, Linked, Slot, Applied
  <2>4. Slot(d[1]) # NoLot
    BY <2>1, NoLotIsNone DEF Invariant, Linked
  <2>5. Inserting'
    <3>1. \A e \in Deliveries : e # d => InsertsAlone(e)'
      BY <1>1, <2>1, <2>4, Moves, Finds, OthersInsertAlone DEF Invariant
    <3>2. InsertsAlone(d)'
      BY <1>1, <2>1, Moves, Finds, NoLotIsNone DEF Invariant, InsertsAlone
    <3> QED BY <3>1, <3>2 DEF Inserting
  <2> QED BY <2>2, <2>3, <2>5 DEF Invariant
<1> QED BY <1>2, <1>3

LEMMA InsertLotKeeps == ASSUME Invariant, NEW d \in Deliveries, InsertLot(d) PROVE Invariant'
<1>1. /\ pc[d] = "inserting lot" /\ UNCHANGED <<orders, paid, acked, events, lots, raced, failures>>
      /\ \A e \in Deliveries : ~(e[1] = d[1] /\ found[e] = e)
  BY DEF InsertLot, buyer
<1>2. CASE \E x \in lots : x[1] = d[1]
  <2>1. pc' = [pc EXCEPT ![d] = "failing"] /\ found' = found /\ "failing" \in Control
    BY <1>2 DEF InsertLot, Goto, Control
  <2>2. TypeOK' /\ Idle(d)
    BY <1>1, <2>1, Moves DEF Invariant, TypeOK, Control, Idle
  <2>3. Past'
    BY <1>1, <2>1, Moves DEF Invariant, Past, Slot, Applied
  <2> QED BY <2>2, <2>3, IdleKeeps DEF Invariant
<1>3. CASE \A x \in lots : x[1] # d[1]
  <2>1. /\ found' = [found EXCEPT ![d] = d] /\ pc' = [pc EXCEPT ![d] = "committing"]
        /\ "committing" \in Control /\ d # NoLot
    BY <1>3, NoLotIsNone DEF InsertLot, Goto, Control
  <2>2. TypeOK'
    BY <1>1, <2>1, Moves, Finds DEF Invariant, TypeOK, Control
  <2>3. Past' /\ Linked'
    BY <1>1, <2>1, Moves DEF Invariant, Past, Linked, Slot, Applied
  <2>4. Slot(d[1]) = NoLot
    <3>1. Slot(d[1]) \in Deliveries \cup {NoLot} /\ d[1] \in Sessions
      BY NoLotIsNone, OrdersAreTyped DEF Invariant, TypeOK, Slot
    <3> QED BY <1>3, <3>1 DEF Invariant, Linked
  <2>5. \A e \in Deliveries : e # d => pc'[e] = pc[e] /\ found'[e] = found[e]
    BY <2>1, Moves, Finds DEF Invariant
  <2>6. pc'[d] = "committing" /\ found'[d] = d
    BY <2>1, Moves, Finds DEF Invariant
  <2>7. Inserting'
    <3>1. \A e \in Deliveries : e # d => InsertsAlone(e)'
      BY <1>1, <2>5, OthersInsertAlone DEF Invariant
    <3>2. \A e \in Deliveries : e[1] = d[1] /\ found'[e] = e => e = d
      BY <1>1, <2>5
    <3>3. Slot(d[1])' = NoLot
      BY <1>1, <2>4 DEF Slot
    <3>4. InsertsAlone(d)'
      BY <2>1, <2>6, <3>2, <3>3 DEF InsertsAlone
    <3> QED BY <3>1, <3>4 DEF Inserting
  <2> QED BY <2>2, <2>3, <2>7 DEF Invariant
<1> QED BY <1>2, <1>3

LEMMA CrashKeeps == ASSUME Invariant, NEW d \in Deliveries, Crash(d) PROVE Invariant'
<1>1. /\ UNCHANGED <<orders, paid, acked, events, lots, raced>> /\ failures' \in 0..MaxFailures
      /\ pc[d] # "unsent"
  BY FaultsAreCounted DEF Crash, buyer, Invariant
<1>2. found' = [found EXCEPT ![d] = NoLot] /\ pc' = [pc EXCEPT ![d] = "done"] /\ "done" \in Control
  BY DEF Crash, Goto, Control
<1>3. TypeOK'
  BY <1>1, <1>2, Moves, Finds DEF Invariant, TypeOK, Control
<1>4. Linked' /\ Past'
  BY <1>1, <1>2, Moves DEF Invariant, Linked, Past, Slot, Applied
<1>5. Inserting'
  <2>1. \A e \in Deliveries : e # d => InsertsAlone(e)'
    BY <1>1, <1>2, Moves, Finds, OthersInsertAlone DEF Invariant
  <2>2. InsertsAlone(d)'
    BY <1>2, Moves, Finds DEF Invariant, InsertsAlone
  <2> QED BY <2>1, <2>2 DEF Inserting
<1> QED BY <1>3, <1>4, <1>5 DEF Invariant

\* What committing does to the lots and to the orders.
LEMMA CommitStep ==
  ASSUME Invariant, NEW d \in Deliveries, Commit(d), lots' # lots \/ orders' # orders
  PROVE  /\ orders' \in [Sessions -> Order]
         /\ \A s \in Sessions : s # d[1] => orders'[s].creditSlot = Slot(s)
         /\ \/ /\ lots' = lots /\ orders'[d[1]].creditSlot = Slot(d[1]) /\ Slot(d[1]) # NoLot
            \/ /\ found[d] = d /\ Slot(d[1]) = NoLot /\ orders'[d[1]].creditSlot = d
               /\ lots' = lots \cup {<<d[1], d>>}
               /\ \A e \in Deliveries : e[1] = d[1] /\ found[e] = e => e = d
<1> DEFINE s == d[1]
           slot == IF Slot(s) = NoLot THEN found[d] ELSE Slot(s)
<1>1. /\ pc[d] = "committing" /\ lots' = lots \cup {<<s, found[d]>>}
      /\ orders' = [orders EXCEPT ![s] = [status |-> "COMPLETED", creditSlot |-> slot]]
  BY DEF Commit, Goto, Slot
<1>2. s \in Sessions /\ orders \in [Sessions -> Order] /\ Slot(s) \in Deliveries \cup {NoLot}
      /\ found[d] \in Deliveries \cup {NoLot}
  BY NoLotIsNone, OrdersAreTyped DEF Invariant, TypeOK, Slot
<1>3. slot \in Deliveries \cup {NoLot}
  BY <1>2
<1>4. /\ orders' \in [Sessions -> Order] /\ orders'[s].creditSlot = slot
      /\ \A q \in Sessions : q # s => orders'[q].creditSlot = Slot(q)
  <2>1. [status |-> "COMPLETED", creditSlot |-> slot] \in Order
    BY <1>3 DEF Order
  <2> HIDE DEF slot
  <2> QED BY <1>1, <1>2, <2>1 DEF Slot
<1>5. CASE <<s, found[d]>> \in lots
  <2>1. found[d] \in Deliveries /\ Slot(s) = found[d]
    BY <1>2, <1>5, <1>1 DEF Invariant, TypeOK, Linked, Inserting, InsertsAlone
  <2> QED BY <1>1, <1>4, <1>5, <2>1, NoLotIsNone
<1>6. CASE <<s, found[d]>> \notin lots
  BY <1>1, <1>4, <1>6 DEF Invariant, Inserting, InsertsAlone
<1> QED BY <1>5, <1>6

LEMMA CommitKeeps == ASSUME Invariant, NEW d \in Deliveries, Commit(d) PROVE Invariant'
<1> USE DEF Invariant
<1>a. /\ pc[d] = "committing" /\ UNCHANGED <<paid, acked, events, raced>>
      /\ found' = [found EXCEPT ![d] = NoLot] /\ failures' \in 0..MaxFailures
      /\ \E p \in {"marking", "failing"} : pc' = [pc EXCEPT ![d] = p]
  BY FaultsAreCounted DEF Commit, Goto, buyer
<1>1. /\ d[1] \in Sessions /\ pc[d] = "committing" /\ found[d] # NoLot /\ found[d] \in Deliveries
      /\ UNCHANGED <<paid, acked, events, raced>> /\ failures' \in 0..MaxFailures
      /\ found' \in [Deliveries -> Deliveries \cup {NoLot}] /\ found'[d] = NoLot
      /\ pc' \in [Deliveries -> Control] /\ pc'[d] \in {"marking", "failing"}
      /\ \A e \in Deliveries : e # d => found'[e] = found[e] /\ pc'[e] = pc[e]
  <2>1. {"marking", "failing"} \subseteq Control
    BY DEF Control
  <2>2. found[d] # NoLot /\ found[d] \in Deliveries /\ d[1] \in Sessions
    BY <1>a, NoLotIsNone DEF Inserting, InsertsAlone, TypeOK
  <2> QED BY <1>a, <2>1, <2>2, Moves, Finds
<1>2. CASE lots' = lots /\ orders' = orders
  <2>1. TypeOK'
    BY <1>1, <1>2 DEF TypeOK, Control
  <2>2. Linked' /\ Inserting'
    <3>1. \A e \in Deliveries : e # d => InsertsAlone(e)'
      BY <1>1, <1>2, OthersInsertAlone
    <3>2. InsertsAlone(d)'
      BY <1>1 DEF InsertsAlone
    <3> QED BY <1>2, <3>1, <3>2 DEF Linked, Inserting, Slot
  <2>3. pc'[d] = "marking" => Slot(d[1]) # NoLot
    <3>1. pc'[d] = "marking" => <<d[1], found[d]>> \in lots
      <4>1. \/ lots' = lots \cup {<<d[1], found[d]>>}
            \/ pc' = [pc EXCEPT ![d] = "failing"]
        BY DEF Commit, Goto
      <4> QED BY <1>2, <4>1 DEF TypeOK
    <3> QED BY <1>1, <3>1 DEF Linked
  <2>4. Past'
    BY <1>1, <1>2, <2>3 DEF Past, Slot, Applied
  <2> QED BY <2>1, <2>2, <2>4
<1>3. CASE lots' # lots \/ orders' # orders
  <2>1. orders' \in [Sessions -> Order] /\ \A s \in Sessions : s # d[1] => orders'[s].creditSlot = Slot(s)
    BY <1>3, CommitStep
  <2>2. CASE lots' = lots /\ orders'[d[1]].creditSlot = Slot(d[1]) /\ Slot(d[1]) # NoLot
    <3>1. \A s \in Sessions : orders'[s].creditSlot = Slot(s)
      BY <2>1, <2>2
    <3>2. TypeOK'
      BY <1>1, <2>1, <2>2 DEF TypeOK, Control
    <3>3. Linked' /\ Past'
      BY <1>1, <2>2, <3>1, NoLotIsNone DEF Linked, Past, Slot, Applied
    <3>4. Inserting'
      BY <1>1, <2>2, <3>1, NoLotIsNone DEF Inserting, InsertsAlone, Slot
    <3> QED BY <3>2, <3>3, <3>4
  <2>3. CASE /\ found[d] = d /\ Slot(d[1]) = NoLot /\ orders'[d[1]].creditSlot = d
             /\ lots' = lots \cup {<<d[1], d>>}
             /\ \A e \in Deliveries : e[1] = d[1] /\ found[e] = e => e = d
    <3>1. TypeOK'
      <4>1. lots' \subseteq Sessions \X Deliveries
        <5>1. lots \subseteq Sessions \X Deliveries
          BY DEF TypeOK
        <5>2. <<d[1], d>> \in Sessions \X Deliveries
          BY <1>1
        <5> HIDE DEF Invariant
        <5> QED BY <2>3, <5>1, <5>2
      <4> QED BY <1>1, <2>1, <4>1 DEF TypeOK, Control
    <3>2. Linked'
      BY <1>1, <2>1, <2>3, NoLotIsNone DEF Linked, Slot
    <3>3. Past'
      BY <1>1, <2>1, <2>3, NoLotIsNone DEF Past, Slot, Applied
    <3>4. Inserting'
      <4> SUFFICES ASSUME NEW e \in Deliveries, e # d, pc[e] = "committing"
                   PROVE  \/ <<e[1], found[e]>> \in lots'
                          \/ /\ found[e] = e /\ orders'[e[1]].creditSlot = NoLot
                             /\ \A f \in Deliveries : f[1] = e[1] /\ found'[f] = f => f = e
        BY <1>1 DEF Inserting, InsertsAlone, Slot
      <4>1. CASE <<e[1], found[e]>> \in lots
        BY <2>3, <4>1
      <4>2. CASE <<e[1], found[e]>> \notin lots
        <5>1. /\ found[e] = e /\ Slot(e[1]) = NoLot
              /\ \A f \in Deliveries : f[1] = e[1] /\ found[f] = f => f = e
          BY <4>2 DEF Inserting, InsertsAlone
        <5>2. e[1] # d[1] /\ e[1] \in Sessions
          BY <2>3, <5>1, NoLotIsNone
        <5> QED BY <1>1, <2>1, <5>1, <5>2, NoLotIsNone
      <4> QED BY <4>1, <4>2
    <3> QED BY <3>1, <3>2, <3>3, <3>4
  <2> QED BY <1>3, <2>2, <2>3, CommitStep
<1> QED BY <1>2, <1>3

LEMMA NextKeeps == Invariant /\ [Next]_vars => Invariant'
<1> SUFFICES ASSUME Invariant, [Next]_vars PROVE Invariant'
  OBVIOUS
<1>1. CASE UNCHANGED vars
  BY <1>1 DEF vars, Invariant, TypeOK, Linked, Inserting, InsertsAlone, Past, Slot, Applied
<1>2. ASSUME NEW s \in Sessions, OpenCheckout(s) \/ Pay(s) PROVE Invariant'
  BY <1>2, OpenCheckoutKeeps, PayKeeps
<1>3. ASSUME NEW d \in Deliveries, Deliver(d) \/ Step(d) \/ Crash(d) PROVE Invariant'
  BY <1>3, RegistryKeeps, FindLotKeeps, InsertLotKeeps, CommitKeeps, CrashKeeps DEF Step
<1> QED BY <1>1, <1>2, <1>3 DEF Next

\* The inductive invariant holds in every run.
THEOREM InvariantHolds == Spec => []Invariant
<1> QED BY InvariantInit, NextKeeps, PTL DEF Spec

\* The tables keep their types, and no event is answered before its payment.
THEOREM TypeCorrect == Spec => []TypeOK
<1>1. Invariant => TypeOK
  BY DEF Invariant
<1> QED BY <1>1, InvariantHolds, PTL

\* An event is PROCESSED only when its payment is credited, or cannot be.
THEOREM ProcessedEventsAreApplied == Spec => []ProcessedIsApplied
<1>1. Invariant => ProcessedIsApplied
  <2> SUFFICES ASSUME Invariant, NEW s \in Sessions,
                      events[s] = "PROCESSED" \/ (\E n \in 1..MaxSends : pc[<<s, n>>] = "marking")
               PROVE  s \in Mismatched \/ orders[s].creditSlot # NoLot
    BY DEF ProcessedIsApplied
  <2>1. CASE events[s] = "PROCESSED"
    BY <2>1 DEF Invariant, Past, Applied, Slot
  <2>2. CASE \E n \in 1..MaxSends : pc[<<s, n>>] = "marking"
    BY <2>2 DEF Invariant, Past, Applied, Slot, Deliveries
  <2> QED BY <2>1, <2>2
<1> QED BY <1>1, InvariantHolds, PTL

-----------------------------------------------------------------------------
(* The refinement. *)

Links == [s \in Sessions |-> orders[s].creditSlot]

LEMMA StepRefines == Invariant /\ [Next]_vars => [Once!Next]_<<Links, lots>>
<1> SUFFICES ASSUME Invariant, [Next]_vars
             PROVE  (\E s \in Sessions, d \in Deliveries : Once!Perform(s, d)) \/ UNCHANGED <<Links, lots>>
  BY DEF Once!Next, Links
<1>1. CASE UNCHANGED vars
  BY <1>1 DEF vars, Links
<1>2. ASSUME NEW s \in Sessions, OpenCheckout(s) PROVE UNCHANGED <<Links, lots>>
  <2>1. \A q \in Sessions : orders'[q].creditSlot = orders[q].creditSlot
    BY <1>2, OrdersAreTyped DEF OpenCheckout, Invariant, TypeOK
  <2> QED BY <1>2, <2>1 DEF OpenCheckout, Links
<1>3. ASSUME NEW s \in Sessions, Pay(s) PROVE UNCHANGED <<Links, lots>>
  BY <1>3 DEF Pay, Links
<1>4. ASSUME NEW d \in Deliveries, Deliver(d) \/ Crash(d) \/ (Step(d) /\ ~Commit(d))
      PROVE  UNCHANGED <<Links, lots>>
  BY <1>4 DEF Deliver, Crash, Step, FindEvent, UpdateEvent, InsertEvent, LookAtOrder, ReadLines, FindLot,
              InsertLot, MarkProcessed, MarkFailed, Links
<1>5. ASSUME NEW d \in Deliveries, Commit(d), lots' # lots \/ orders' # orders
      PROVE  Once!Perform(d[1], d) \/ UNCHANGED <<Links, lots>>
  <2>1. d[1] \in Sessions /\ \A s \in Sessions : s # d[1] => orders'[s].creditSlot = orders[s].creditSlot
    BY <1>5, CommitStep, NoLotIsNone DEF Slot
  <2>2. CASE lots' = lots /\ orders'[d[1]].creditSlot = Slot(d[1])
    BY <2>1, <2>2 DEF Links, Slot
  <2>3. CASE Slot(d[1]) = NoLot /\ orders'[d[1]].creditSlot = d /\ lots' = lots \cup {<<d[1], d>>}
    <3>1. Links[d[1]] = NoLot /\ <<d[1], d>> \notin lots
      BY <2>1, <2>3, NoLotIsNone DEF Links, Slot, Invariant, Linked
    <3>2. Links' = [Links EXCEPT ![d[1]] = d]
      BY <2>1, <2>3 DEF Links
    <3> QED BY <2>3, <3>1, <3>2 DEF Once!Perform, Links
  <2> QED BY <1>5, <2>2, <2>3, CommitStep
<1>6. ASSUME NEW d \in Deliveries, Commit(d), lots' = lots, orders' = orders PROVE UNCHANGED <<Links, lots>>
  BY <1>6 DEF Links
<1> QED BY <1>1, <1>2, <1>3, <1>4, <1>5, <1>6, NoLotIsNone DEF Next, Step

\* However its deliveries overlap, repeat and die, a payment is credited once.
THEOREM PaymentsAreCreditedOnce == Spec => CreditedOnce
<1>1. Init => Once!Init
  BY DEF Init, Once!Init
<1>2. Invariant /\ [Next]_vars => [Once!Next]_<<[s \in Sessions |-> orders[s].creditSlot], lots>>
  BY StepRefines DEF Links
<1> QED BY <1>1, <1>2, InvariantHolds, PTL DEF Spec, CreditedOnce, Once!Spec
=============================================================================
