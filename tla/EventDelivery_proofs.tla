------------------------ MODULE EventDelivery_proofs ------------------------
(***************************************************************************)
(* Proofs about EventDelivery and, in sections of their own,               *)
(* DocumentLifecycle and SubscriptionBilling: three components that have   *)
(* no name in common.                                                      *)
(*                                                                         *)
(* Proof that no administrator is told more often than the marks allow, for*)
(* any number of events, flushes, redeliveries and consumers and with every*)
(* fault.                                                                  *)
(*                                                                         *)
(* The invariant counts, for an event and an administrator, the e-mails    *)
(* sent, the consumers that are about to send or to release the mark, and  *)
(* one more while nobody has the mark: each is one e-mail at most.  A claim*)
(* moves the one of the mark to its consumer; only a claim whose insertion *)
(* fails, or an e-mail sent whose answer is lost, adds one.                *)
(***************************************************************************)
EXTENDS DocumentLifecycle, EventDelivery, SubscriptionBilling,
        FiniteSetTheorems, SequenceTheorems, TLAPS

Pairs == Joins \X Administrators

\* A consumer holds a recipient from its claim to the end of the e-mail.
Holds(c)   == handler[c] \in {"sending", "releasing"}
Held(c)    == <<event[c], target[c]>>
Holders(x) == {c \in Consumers : Holds(c) /\ Held(c) = x}

\* The e-mail that whoever finds no mark may still send.
Free(x) == IF x \in marks THEN 0 ELSE 1

Typed ==
  /\ handler \in [Consumers -> {"idle", "handling", "sending", "releasing"}]
  /\ event \in [Consumers -> Events]
  /\ todo \in [Consumers -> SUBSET Administrators]
  /\ target \in [Consumers -> Administrators]
  /\ mailed \in [Pairs -> Nat] /\ unmarked \in [Pairs -> Nat] /\ unanswered \in [Pairs -> Nat]
  \* only the events of the outbox have recipients
  /\ \A c \in Consumers : todo[c] # {} \/ Holds(c) => event[c] \in Joins

Bounded(x) ==
  mailed[x] + Cardinality(Holders(x)) + Free(x) <= 1 + unmarked[x] + unanswered[x]

NoticeInvariant == Typed /\ \A x \in Pairs : Bounded(x)

\* The holders of a recipient can be counted.
LEMMA HoldersAreFinite ==
  ASSUME NEW x
  PROVE  IsFiniteSet(Holders(x)) /\ Cardinality(Holders(x)) \in Nat
<1>1. Holders(x) \subseteq Consumers
  BY DEF Holders
<1> QED BY <1>1, ConsumersAssumption, FS_Subset, FS_CardinalityType

\* Nothing is marked or sent at the start.
LEMMA NoticeInit == Init => NoticeInvariant
<1> SUFFICES ASSUME Init PROVE NoticeInvariant
  OBVIOUS
<1>1. NoEvent \in Events /\ NoTarget \in Administrators
  BY EventsAssumption, AdministratorsAssumption DEF NoEvent, NoTarget, Events
<1>2. \A c \in Consumers : ~Holds(c) /\ todo[c] = {}
  BY DEF Init, Holds
<1>3. Typed
  BY <1>1, <1>2 DEF Init, Typed, Pairs
<1>4. ASSUME NEW x \in Pairs PROVE Bounded(x)
  <2>1. Holders(x) = {}
    BY <1>2 DEF Holders
  <2>2. mailed[x] = 0 /\ unmarked[x] = 0 /\ unanswered[x] = 0 /\ Free(x) = 1
    BY DEF Init, Pairs, Free
  <2> QED BY <2>1, <2>2, FS_EmptySet DEF Bounded
<1> QED BY <1>3, <1>4 DEF NoticeInvariant

\* What leaves the marks and the e-mails alone, and adds no holder, is harmless.
LEMMA NoNewHolder ==
  ASSUME NoticeInvariant, Typed', UNCHANGED <<marks, mailed, history>>,
         \A c \in Consumers : Holds(c)' => Holds(c) /\ Held(c)' = Held(c)
  PROVE  NoticeInvariant'
<1>1. ASSUME NEW x \in Pairs PROVE Bounded(x)'
  <2>1. Holders(x)' \subseteq Holders(x)
    BY DEF Holders
  <2>2. Cardinality(Holders(x)') <= Cardinality(Holders(x)) /\ Cardinality(Holders(x)') \in Nat
    BY <2>1, HoldersAreFinite, FS_Subset, FS_CardinalityType
  <2>3. /\ Bounded(x) /\ Free(x)' = Free(x) /\ Free(x) \in Nat
        /\ mailed[x] \in Nat /\ unmarked[x] \in Nat /\ unanswered[x] \in Nat
        /\ UNCHANGED <<mailed, unmarked, unanswered>>
    BY DEF NoticeInvariant, Typed, Free, history
  <2> QED BY <2>2, <2>3, HoldersAreFinite DEF Bounded
<1> QED BY <1>1 DEF NoticeInvariant, Pairs

\* Whatever leaves the consumers, the marks and the e-mails alone is harmless.
LEMMA Elsewhere ==
  ASSUME NoticeInvariant, UNCHANGED <<marks, mailed, history, handling>>
  PROVE  NoticeInvariant'
<1>1. Typed' /\ \A c \in Consumers : Holds(c)' = Holds(c) /\ Held(c)' = Held(c)
  BY DEF NoticeInvariant, Typed, handling, Holds, Held, Pairs, history
<1> QED BY <1>1, NoNewHolder

\* A consumer that returns or dies sends no more.
LEMMA ReturnStep ==
  ASSUME NoticeInvariant, NEW c \in Consumers, Return(c),
         UNCHANGED <<marks, mailed, history>>
  PROVE  NoticeInvariant'
<1>1. NoEvent \in Events /\ NoTarget \in Administrators
  BY EventsAssumption, AdministratorsAssumption DEF NoEvent, NoTarget, Events
<1>2. \A d \in Consumers : Holds(d)' => d # c /\ Holds(d) /\ Held(d)' = Held(d)
  BY DEF NoticeInvariant, Typed, Return, Holds, Held
<1>3. Typed'
  BY <1>1 DEF NoticeInvariant, Typed, Return, Holds, history
<1> QED BY <1>2, <1>3, NoNewHolder

\* A delivery starts with no mark.
LEMMA DeliverStep ==
  ASSUME NoticeInvariant, NEW c \in Consumers, NEW e \in Events, Deliver(c, e)
  PROVE  NoticeInvariant'
<1>1. \A d \in Consumers : Holds(d)' => d # c /\ Holds(d) /\ Held(d)' = Held(d)
  BY DEF NoticeInvariant, Typed, Deliver, Holds, Held
<1>2. Typed'
  BY DEF NoticeInvariant, Typed, Deliver, Holds, effects, history
<1>3. UNCHANGED <<marks, mailed, history>>
  BY DEF Deliver, effects
<1> QED BY <1>1, <1>2, <1>3, NoNewHolder

\* A claim moves the mark to its consumer, or is counted as unmarked.
LEMMA ClaimStep ==
  ASSUME NoticeInvariant, NEW c \in Consumers, NEW a \in Administrators,
         ClaimRecipient(c, a)
  PROVE  NoticeInvariant'
<1>1. event[c] \in Joins /\ ~Holds(c)
  BY DEF NoticeInvariant, Typed, ClaimRecipient, Holds
<1>2a. PICK y \in Pairs : y = <<event[c], a>>
  BY <1>1 DEF Pairs
<1>2. \A d \in Consumers : d # c => Holds(d)' = Holds(d) /\ Held(d)' = Held(d)
  BY DEF NoticeInvariant, Typed, ClaimRecipient, Holds, Held
<1>3. Typed'
  BY <1>1 DEF NoticeInvariant, Typed, ClaimRecipient, Holds
<1>4. CASE UNCHANGED <<marks, unmarked, handler, target>>
  <2>1. ~Holds(c)'
    BY <1>1, <1>4 DEF Holds
  <2> QED BY <1>2, <1>3, <1>4, <2>1, NoNewHolder DEF ClaimRecipient, history
<1>5. CASE /\ handler' = [handler EXCEPT ![c] = "sending"]
           /\ target' = [target EXCEPT ![c] = a]
           /\ \/ y \notin marks /\ marks' = marks \cup {y} /\ UNCHANGED unmarked
              \/ unmarked' = [unmarked EXCEPT ![y] = @ + 1] /\ UNCHANGED marks
  <2>1. Holds(c)' /\ Held(c)' = y /\ mailed' = mailed /\ unanswered' = unanswered
    BY <1>2a, <1>5 DEF NoticeInvariant, Typed, ClaimRecipient, Holds, Held
  <2>2. ASSUME NEW x \in Pairs, x # y PROVE Bounded(x)'
    <3>1. Holders(x)' = Holders(x)
      BY <1>1, <1>2, <2>1, <2>2 DEF Holders
    <3>2. Free(x)' = Free(x) /\ unmarked'[x] = unmarked[x]
      BY <1>1, <1>5, <2>2 DEF Free, NoticeInvariant, Typed
    <3> QED BY <2>1, <3>1, <3>2 DEF Bounded, NoticeInvariant
  <2>3. Bounded(y)'
    <3>1. Holders(y)' = Holders(y) \cup {c} /\ c \notin Holders(y)
      BY <1>1, <1>2, <2>1 DEF Holders
    <3>2. Cardinality(Holders(y)') = Cardinality(Holders(y)) + 1
      BY <3>1, HoldersAreFinite, FS_AddElement
    <3>3. Free(y)' + 1 <= Free(y) + (unmarked'[y] - unmarked[y])
      BY <1>1, <1>5 DEF Free, NoticeInvariant, Typed
    <3>4. /\ mailed[y] \in Nat /\ unmarked[y] \in Nat /\ unmarked'[y] \in Nat
          /\ unanswered[y] \in Nat
          /\ Free(y) \in Nat /\ Free(y)' \in Nat /\ Bounded(y)
      BY <1>1, <1>3 DEF NoticeInvariant, Typed, Free
    <3> QED BY <2>1, <3>2, <3>3, <3>4, HoldersAreFinite DEF Bounded
  <2> QED BY <1>3, <2>2, <2>3 DEF NoticeInvariant, Pairs
<1> QED BY <1>2a, <1>4, <1>5 DEF ClaimRecipient

\* A holder that stops being one pays for an e-mail, or for a mark released.
LEMMA LetGo ==
  ASSUME NoticeInvariant, Typed', NEW c \in Consumers, Holds(c), ~Holds(c)',
         NEW y \in Pairs, y = Held(c), UNCHANGED history,
         \A d \in Consumers : d # c => Holds(d)' = Holds(d) /\ Held(d)' = Held(d),
         \A x \in Pairs : x # y => mailed'[x] = mailed[x] /\ Free(x)' = Free(x),
         mailed'[y] + Free(y)' <= mailed[y] + Free(y) + 1
  PROVE  NoticeInvariant'
<1>1. ASSUME NEW x \in Pairs, x # y PROVE Bounded(x)'
  <2>1. Holders(x)' = Holders(x)
    BY <1>1 DEF Holders
  <2> QED BY <1>1, <2>1 DEF Bounded, NoticeInvariant, history
<1>2. ASSUME NEW x \in Pairs, x = y PROVE Bounded(x)'
  <2>1. Holders(x)' = Holders(x) \ {c} /\ c \in Holders(x)
    BY <1>2 DEF Holders
  <2>2. Cardinality(Holders(x)') = Cardinality(Holders(x)) - 1
    BY <2>1, HoldersAreFinite, FS_RemoveElement
  <2>3. /\ mailed[x] \in Nat /\ mailed'[x] \in Nat /\ unmarked[x] \in Nat
        /\ unanswered[x] \in Nat /\ UNCHANGED <<unmarked, unanswered>>
        /\ Free(x) \in Nat /\ Free(x)' \in Nat /\ Bounded(x)
    BY DEF NoticeInvariant, Typed, Free, history
  <2>4. mailed'[x] + Free(x)' <= mailed[x] + Free(x) + 1
    BY <1>2
  <2> QED BY <2>2, <2>3, <2>4, HoldersAreFinite DEF Bounded
<1> QED BY <1>1, <1>2 DEF NoticeInvariant, Pairs

\* Each holder sends once, and pays for it unless the answer is lost, which is counted.
LEMMA SendStep ==
  ASSUME NoticeInvariant, NEW c \in Consumers, SendMail(c)
  PROVE  NoticeInvariant'
<1>1. PICK y \in Pairs : y = Held(c)
  BY DEF NoticeInvariant, Typed, SendMail, Holds, Held, Pairs
<1>2a. Holds(c)
  BY DEF SendMail, Holds
<1>2. NoTarget \in Administrators
  BY AdministratorsAssumption DEF NoTarget
<1>3. \A d \in Consumers : d # c => Holds(d)' = Holds(d) /\ Held(d)' = Held(d)
  BY DEF NoticeInvariant, Typed, SendMail, Holds, Held
<1>4. CASE /\ mailed' = [mailed EXCEPT ![y] = @ + 1] /\ UNCHANGED unanswered
           /\ handler' = [handler EXCEPT ![c] = "handling"]
           /\ target' = [target EXCEPT ![c] = NoTarget]
  <2>1. mailed' \in [Pairs -> Nat] /\ mailed'[y] = mailed[y] + 1
    BY <1>1, <1>4 DEF NoticeInvariant, Typed
  <2>2. \A x \in Pairs : x # y => mailed'[x] = mailed[x]
    BY <1>1, <1>4 DEF NoticeInvariant, Typed
  <2>3. Typed' /\ ~Holds(c)'
    BY <1>2, <1>4, <2>1 DEF NoticeInvariant, Typed, SendMail, Holds
  <2>4. UNCHANGED history /\ \A x : Free(x)' = Free(x)
    BY <1>4 DEF SendMail, Free, history
  <2>5. mailed'[y] + Free(y)' <= mailed[y] + Free(y) + 1
    BY <1>1, <2>1, <2>4 DEF NoticeInvariant, Typed, Free
  <2> QED BY <1>1, <1>2a, <1>3, <2>2, <2>3, <2>4, <2>5, LetGo
<1>5. CASE /\ handler' = [handler EXCEPT ![c] = "releasing"] /\ UNCHANGED target
           /\ \/ UNCHANGED <<mailed, unanswered>>
              \/ /\ mailed' = [mailed EXCEPT ![y] = @ + 1]
                 /\ unanswered' = [unanswered EXCEPT ![y] = @ + 1]
  <2>1. Holds(c)' = Holds(c) /\ Held(c)' = Held(c)
    BY <1>1, <1>5 DEF NoticeInvariant, Typed, SendMail, Holds, Held
  <2>2. mailed' \in [Pairs -> Nat] /\ unanswered' \in [Pairs -> Nat]
    BY <1>5 DEF NoticeInvariant, Typed
  <2>3. Typed'
    BY <1>5, <2>2 DEF NoticeInvariant, Typed, SendMail, Holds
  <2>4. ASSUME NEW x \in Pairs PROVE Bounded(x)'
    <3>1. Holders(x)' = Holders(x)
      BY <1>3, <2>1 DEF Holders
    <3>2. Free(x)' = Free(x) /\ unmarked' = unmarked
      BY DEF SendMail, Free
    <3>3. mailed'[x] - mailed[x] = unanswered'[x] - unanswered[x]
      BY <1>5 DEF NoticeInvariant, Typed
    <3>4. /\ mailed[x] \in Nat /\ mailed'[x] \in Nat /\ unmarked[x] \in Nat /\ Bounded(x)
          /\ unanswered[x] \in Nat /\ unanswered'[x] \in Nat /\ Free(x) \in Nat
      BY <2>2 DEF NoticeInvariant, Typed, Free
    <3> QED BY <3>1, <3>2, <3>3, <3>4, HoldersAreFinite DEF Bounded
  <2> QED BY <2>3, <2>4 DEF NoticeInvariant, Pairs
<1> QED BY <1>1, <1>4, <1>5 DEF SendMail, Post, Held

\* A holder that was told of a failure gives back one mark, perhaps not its own.
LEMMA ReleaseStep ==
  ASSUME NoticeInvariant, NEW c \in Consumers, ReleaseMark(c)
  PROVE  NoticeInvariant'
<1>1. PICK y \in Pairs : y = Held(c)
  BY DEF NoticeInvariant, Typed, ReleaseMark, Holds, Held, Pairs
<1>2a. Holds(c) /\ ~Holds(c)'
  BY DEF NoticeInvariant, Typed, ReleaseMark, Holds
<1>2. NoTarget \in Administrators
  BY AdministratorsAssumption DEF NoTarget
<1>3. \A d \in Consumers : d # c => Holds(d)' = Holds(d) /\ Held(d)' = Held(d)
  BY DEF NoticeInvariant, Typed, ReleaseMark, Holds, Held
<1>4. Typed'
  BY <1>2 DEF NoticeInvariant, Typed, ReleaseMark, Holds, history
<1>5. mailed' = mailed /\ UNCHANGED history /\ (marks' = marks \/ marks' = marks \ {y})
  BY <1>1 DEF ReleaseMark, Held
<1>6. \A x \in Pairs : x # y => Free(x)' = Free(x)
  BY <1>5 DEF Free
<1>7. mailed'[y] + Free(y)' <= mailed[y] + Free(y) + 1
  BY <1>1, <1>5 DEF NoticeInvariant, Typed, Free
<1> QED BY <1>1, <1>2a, <1>3, <1>4, <1>5, <1>6, <1>7, LetGo

\* Every step of the system keeps the count.
LEMMA NoticeStep ==
  ASSUME NoticeInvariant, [Next]_vars
  PROVE  NoticeInvariant'
<1>1. CASE UNCHANGED vars
  BY <1>1, Elsewhere DEF vars, effects
<1>2. ASSUME NEW j \in Joins, Join(j) \/ Flush(j) \/ AbortFlush(j)
      PROVE  NoticeInvariant'
  BY <1>2, Elsewhere DEF Join, Flush, AbortFlush, ReadPending, SkipRow, PublishRow,
                         MarkPublished, EndFlush, effects
<1>3. ASSUME NEW n \in Notices, Notify(n) \/ RecordNotice(n) PROVE NoticeInvariant'
  BY <1>3, Elsewhere DEF Notify, RecordNotice, effects
<1>4. ASSUME NEW c \in Consumers, RecordAudit(c) \/ EndNotice(c) \/ AbortHandler(c)
      PROVE  NoticeInvariant'
  BY <1>4, ReturnStep DEF RecordAudit, EndNotice, AbortHandler, effects
<1> QED
  BY <1>1, <1>2, <1>3, <1>4, DeliverStep, ClaimStep, SendStep, ReleaseStep
     DEF Next, Handle

\* Concurrent flushes republish, Kafka redelivers, e-mails fail, consumers die
\* and marks may not be written or released: no administrator is sent more e-mails about a
\* new member than one, plus the claims that went on without a mark, plus the e-mails sent
\* and reported as failed (IdempotencyService and notifyOne).
THEOREM EveryoneIsNotifiedOnce == Spec => []NotifiedOnce
<1>1. Init => NoticeInvariant
  BY NoticeInit
<1>2. NoticeInvariant /\ [Next]_vars => NoticeInvariant'
  BY NoticeStep
<1>3. NoticeInvariant => NotifiedOnce
  <2> SUFFICES ASSUME NoticeInvariant, NEW x \in Pairs
               PROVE  mailed[x] <= 1 + unmarked[x] + unanswered[x]
    BY DEF NotifiedOnce, Pairs
  <2>1. /\ mailed[x] \in Nat /\ unmarked[x] \in Nat /\ unanswered[x] \in Nat
        /\ Free(x) \in Nat /\ Bounded(x)
    BY DEF NoticeInvariant, Typed, Free
  <2> QED BY <2>1, HoldersAreFinite DEF Bounded
<1> QED BY <1>1, <1>2, <1>3, PTL DEF Spec

-----------------------------------------------------------------------------
(* What is marked as published. *)

\* A row about to be marked was given to Kafka, and so was every marked one.
PublicationInvariant ==
  /\ DOMAIN batch = Joins
  /\ flusher \in [Joins -> {"idle", "committed", "publishing", "marking",
                            "flushed", "crashed"}]
  /\ handed \in [Events -> Nat]
  /\ PublishedWereHanded
  /\ \A j \in Joins :
       flusher[j] = "marking" => Head(batch[j]) \in Joins /\ handed[Head(batch[j])] > 0

\* What leaves the outbox alone and hands events at most is harmless.
LEMMA OnlyHands ==
  ASSUME PublicationInvariant, UNCHANGED <<published, flushing>>,
         UNCHANGED handed \/ \E e \in Events : Hand(e)
  PROVE  PublicationInvariant'
<1>1. handed' \in [Events -> Nat] /\ \A e \in Events : handed'[e] >= handed[e]
  BY DEF PublicationInvariant, Hand
<1>2. \A e \in Events : handed[e] \in Nat /\ handed'[e] \in Nat
  BY <1>1 DEF PublicationInvariant
<1> QED
  BY <1>1, <1>2 DEF PublicationInvariant, PublishedWereHanded, flushing, Events

\* A flush marks the rows it gave to Kafka and those that have no topic.
LEMMA FlushStep ==
  ASSUME PublicationInvariant, NEW j \in Joins, Flush(j) \/ AbortFlush(j)
  PROVE  PublicationInvariant'
<1>1. CASE ReadPending(j) \/ EndFlush(j) \/ AbortFlush(j)
  <2>1. published' = published /\ handed' = handed
    BY <1>1 DEF ReadPending, EndFlush, AbortFlush, broker
  <2>2. PICK s \in {"publishing", "flushed", "crashed"} : flusher' = [flusher EXCEPT ![j] = s]
    BY <1>1 DEF ReadPending, EndFlush, AbortFlush
  <2>3. batch' = batch \/ \E b : batch' = [batch EXCEPT ![j] = b]
    <3>1. CASE ReadPending(j)
      <4> DEFINE unsent == SelectSeq(log, LAMBDA e : e \notin published)
                 first == IF Len(unsent) <= Batch THEN unsent ELSE SubSeq(unsent, 1, Batch)
      <4>1. batch' = [batch EXCEPT ![j] = first]
        BY <3>1 DEF ReadPending
      <4> HIDE DEF first
      <4> QED BY <4>1
    <3>2. CASE EndFlush(j) \/ AbortFlush(j)
      BY <3>2 DEF EndFlush, AbortFlush
    <3> QED BY <1>1, <3>1, <3>2
  <2>4. DOMAIN batch' = Joins /\ \A k \in Joins : k # j => batch'[k] = batch[k]
    BY <2>3 DEF PublicationInvariant
  <2> QED BY <2>1, <2>2, <2>4 DEF PublicationInvariant, PublishedWereHanded
<1>2. CASE SkipRow(j)
  <2>1. \A k \in Joins : k \in published' => k \in published
    BY <1>2, EventsAssumption DEF SkipRow, MarkRow
  <2>2. \A k \in Joins : flusher'[k] = "marking" => flusher[k] = "marking" /\ batch'[k] = batch[k]
    BY <1>2 DEF SkipRow, MarkRow
  <2>3. DOMAIN batch' = Joins /\ flusher' = flusher /\ handed' = handed
    BY <1>2 DEF PublicationInvariant, SkipRow, MarkRow, broker
  <2> QED BY <2>1, <2>2, <2>3 DEF PublicationInvariant, PublishedWereHanded
<1>3. CASE PublishRow(j)
  <2> DEFINE e == Head(batch[j])
  <2>1. e \in Joins /\ batch' = batch /\ published' = published
    BY <1>3 DEF PublishRow
  <2>2. /\ handed' \in [Events -> Nat] /\ handed'[e] = handed[e] + 1
        /\ \A d \in Events : d # e => handed'[d] = handed[d]
    BY <1>3, <2>1 DEF PublicationInvariant, PublishRow, Hand, Events
  <2>3. handed[e] \in Nat
    BY <2>1 DEF PublicationInvariant, Events
  <2>4. \A d \in Joins : handed[d] > 0 \/ d = e => handed'[d] > 0
    BY <2>2, <2>3 DEF PublicationInvariant, Events
  <2>5. flusher' = [flusher EXCEPT ![j] = "marking"]
    BY <1>3 DEF PublishRow
  <2> QED
    BY <2>1, <2>2, <2>4, <2>5 DEF PublicationInvariant, PublishedWereHanded
<1>4. CASE MarkPublished(j)
  <2>1. \A k \in Joins : k \in published' => k \in published \/ k = Head(batch[j])
    BY <1>4 DEF MarkPublished, MarkRow
  <2>2. handed' = handed /\ handed[Head(batch[j])] > 0
    BY <1>4 DEF PublicationInvariant, MarkPublished, broker
  <2>3. \A k \in Joins : flusher'[k] = "marking" => flusher[k] = "marking" /\ batch'[k] = batch[k]
    BY <1>4 DEF PublicationInvariant, MarkPublished, MarkRow
  <2>4. DOMAIN batch' = Joins /\ flusher' = [flusher EXCEPT ![j] = "publishing"]
    BY <1>4 DEF PublicationInvariant, MarkPublished, MarkRow
  <2> QED BY <2>1, <2>2, <2>3, <2>4 DEF PublicationInvariant, PublishedWereHanded
<1> QED BY <1>1, <1>2, <1>3, <1>4 DEF Flush

\* A crash of the flush or a failed UPDATE repeats the publication of an event
\* and never skips it (OutboxService.flush).
THEOREM NothingIsSkipped == Spec => []PublishedWereHanded
<1>1. Init => PublicationInvariant
  BY DEF Init, PublicationInvariant, PublishedWereHanded
<1>2. PublicationInvariant /\ [Next]_vars => PublicationInvariant'
  <2> SUFFICES ASSUME PublicationInvariant, [Next]_vars PROVE PublicationInvariant'
    OBVIOUS
  <2>1. CASE UNCHANGED vars
    BY <2>1, OnlyHands DEF vars, broker
  <2>2. ASSUME NEW j \in Joins, Join(j) PROVE PublicationInvariant'
    BY <2>2 DEF Join, PublicationInvariant, PublishedWereHanded, broker
  <2>3. ASSUME NEW n \in Notices, Notify(n) \/ RecordNotice(n) PROVE PublicationInvariant'
    BY <2>3, OnlyHands DEF Notify, RecordNotice, Events, broker
  <2>4. ASSUME NEW c \in Consumers, Handle(c) \/ AbortHandler(c) \/ \E e \in Events : Deliver(c, e)
        PROVE  PublicationInvariant'
    BY <2>4, OnlyHands DEF Handle, AbortHandler, Deliver, RecordAudit, SendMail, ReleaseMark,
                           EndNotice, ClaimRecipient, broker, flushing
  <2> QED BY <2>1, <2>2, <2>3, <2>4, FlushStep DEF Next
<1>3. PublicationInvariant => PublishedWereHanded
  BY DEF PublicationInvariant
<1> QED BY <1>1, <1>2, <1>3, PTL DEF Spec

-----------------------------------------------------------------------------
(***************************************************************************)
(* DocumentLifecycle, for any number of signers and requests, overlapping  *)
(* or not, with or without mishaps.                                        *)
(***************************************************************************)

\* What the proofs need to know of the types.
LifecycleTyped ==
  /\ reviewer \in {"none", "PENDING"} \cup Decisions
  /\ answer \in [Signers -> {"PENDING", "SIGNED", "REJECTED"}]
  /\ decisions \in [Decisions -> Nat] /\ withdrawn \in Nat
  /\ cancelled \in BOOLEAN
  /\ pc \in [Requests -> Steps] /\ DOMAIN waiting = Signers

\* The gate: until the reviewer approves, only reviewers have requests in
\* flight, so no stale copy can open the document behind his back.
Gate ==
  /\ reviewer = "PENDING" <=> status = "PENDING_APPROVAL"
  /\ reviewer = "REJECTED" => status = "REJECTED"
  /\ reviewer \in {"PENDING", "REJECTED"} =>
       /\ \A r \in Requests \ ReviewerRequests : pc[r] = "idle"
       /\ \A s \in Signers : answer[s] = "PENDING"

\* Each decision was written together with its event.
Registered ==
  decisions = [d \in Decisions |-> IF reviewer = d THEN 1 ELSE 0]

\* Who is about to announce the cancellation has uploaded the copy.
Watermarked ==
  (withdrawn > 0 \/ \E r \in ConfirmerRequests : pc[r] = "withdrawing") => cancelled

LifecycleInvariant == LifecycleTyped /\ Gate /\ Registered /\ Watermarked

\* The invariant holds of every document when it is created.
LEMMA LifecycleInit == DLInit => LifecycleInvariant
<1> SUFFICES ASSUME DLInit PROVE LifecycleInvariant
  OBVIOUS
<1>1. LifecycleTyped
  BY DEF DLInit, LifecycleTyped, Steps, Decisions
<1>2. Gate
  BY DEF DLInit, Gate, Requests
<1>3. Registered
  BY DEF DLInit, Registered, Decisions
<1>4. Watermarked
  BY DEF DLInit, Watermarked, Requests
<1> QED BY <1>1, <1>2, <1>3, <1>4 DEF LifecycleInvariant

\* The requests of the four roles are different requests.
LEMMA Roles ==
  /\ \A r \in CreatorRequests : r \in Requests \ ReviewerRequests /\ r \notin ConfirmerRequests
  /\ \A s \in Signers : s \in Requests \ ReviewerRequests /\ s \notin ConfirmerRequests
  /\ \A r \in ConfirmerRequests : r \in Requests \ ReviewerRequests
  /\ \A r \in ReviewerRequests : r \in Requests /\ r \notin ConfirmerRequests
  BY RolesAssumption DEF Requests

\* No request of the creator opens the gate: it only starts on a document that
\* is a draft or SIGNED, and those are past the reviewer.
LEMMA CreatorStep ==
  ASSUME LifecycleInvariant, NEW r \in CreatorRequests, Creator(r)
  PROVE  LifecycleInvariant'
<1> USE Roles DEF LifecycleInvariant, LifecycleTyped, Gate, Registered, Watermarked,
                  people, objects, events, Goto, Steps
<1>1. CASE OpenDraft(r)        BY <1>1 DEF OpenDraft
<1>2. CASE OpenSigned(r)       BY <1>2 DEF OpenSigned
<1>3. CASE SaveSubmitted(r)    BY <1>3 DEF SaveSubmitted
<1>4. CASE RemoveOriginal(r)   BY <1>4 DEF RemoveOriginal
<1>5. CASE PutOriginal(r)      BY <1>5 DEF PutOriginal
<1>6. CASE DeleteFile(r)       BY <1>6 DEF DeleteFile
<1>7. CASE DeleteRow(r)        BY <1>7 DEF DeleteRow
<1>8. CASE SaveCancellation(r) BY <1>8 DEF SaveCancellation
<1> QED
  BY <1>1, <1>2, <1>3, <1>4, <1>5, <1>6, <1>7, <1>8 DEF Creator

\* The reviewer moves the document only together with himself.
LEMMA ReviewerStep ==
  ASSUME LifecycleInvariant, NEW r \in ReviewerRequests, Reviewer(r)
  PROVE  LifecycleInvariant'
<1> USE Roles DEF LifecycleInvariant, LifecycleTyped, Gate, Watermarked,
                  objects, Goto, Steps, Decisions
<1>1. CASE LoadDocument(r)
  BY <1>1 DEF LoadDocument, people, events, Registered
<1>2. CASE LoadReviewer(r)
  BY <1>2 DEF LoadReviewer, people, events, Registered
<1>3. CASE Decide(r)
  <2>1. CASE reviewer = "PENDING"
    <3>1. Registered'
      BY <1>3, <2>1 DEF Decide, Registered
    <3>2. QED
      BY <1>3, <2>1, <3>1 DEF Decide
  <2>2. CASE reviewer # "PENDING"
    BY <1>3, <2>2 DEF Decide, Registered
  <2> QED BY <2>1, <2>2
<1>4. CASE SendToSign(r)
  BY <1>4 DEF SendToSign, people, Registered
<1> QED BY <1>1, <1>2, <1>3, <1>4 DEF Reviewer

\* A signing request only starts on a document that is past the gate.
LEMMA SignerStep ==
  ASSUME LifecycleInvariant, NEW s \in Signers, Signer(s)
  PROVE  LifecycleInvariant'
<1> USE Roles DEF LifecycleInvariant, LifecycleTyped, Gate, Registered, Watermarked,
                  people, objects, events, Goto, Steps
<1>1. CASE ReadDocument(s) BY <1>1 DEF ReadDocument
<1>2. CASE Claim(s)        BY <1>2 DEF Claim
<1>3. CASE SaveSigned(s)   BY <1>3 DEF SaveSigned
<1>4. CASE SaveRejected(s) BY <1>4 DEF SaveRejected
<1> QED BY <1>1, <1>2, <1>3, <1>4 DEF Signer

\* A confirmation uploads the copy before it announces it.
LEMMA ConfirmerStep ==
  ASSUME LifecycleInvariant, NEW r \in ConfirmerRequests, Confirmer(r)
  PROVE  LifecycleInvariant'
<1> USE Roles DEF LifecycleInvariant, LifecycleTyped, Gate, Registered, Watermarked,
                  people, objects, events, Goto, Steps
<1>1. CASE ReadCancellation(r)  BY <1>1 DEF ReadCancellation
<1>2. CASE ClaimCancellation(r) BY <1>2 DEF ClaimCancellation
<1>3. CASE UploadCancelled(r)   BY <1>3 DEF UploadCancelled
<1>4. CASE EmitCancelled(r)     BY <1>4 DEF EmitCancelled
<1> QED BY <1>1, <1>2, <1>3, <1>4 DEF Confirmer

\* The invariant is inductive.
THEOREM LifecycleInvariantHolds == DLSpec => []LifecycleInvariant
<1>1. ASSUME LifecycleInvariant, [DLNext]_DLvars
      PROVE  LifecycleInvariant'
  <2>1. CASE UNCHANGED DLvars
    BY <1>1, <2>1 DEF DLvars, people, objects, events, LifecycleInvariant, LifecycleTyped,
                      Gate, Registered, Watermarked
  <2>2. ASSUME NEW r \in Requests, Abort(r) PROVE LifecycleInvariant'
    BY <1>1, <2>2 DEF Abort, InFlight, people, objects, events, Goto, Steps,
                      LifecycleInvariant, LifecycleTyped, Gate, Registered, Watermarked
  <2> QED
    BY <1>1, <2>1, <2>2, CreatorStep, ReviewerStep, SignerStep, ConfirmerStep DEF DLNext
<1> QED BY <1>1, LifecycleInit, PTL DEF DLSpec

\* No document that requires approval is signed, or read by a request that may
\* sign it, before it is approved (ApproveDocumentUseCase, loadDecidable).
THEOREM ApprovalIsRespected == DLSpec => []ApprovalGate
<1>1. LifecycleInvariant => ApprovalGate
  BY Roles DEF LifecycleInvariant, Gate, ApprovalGate
<1> QED BY <1>1, LifecycleInvariantHolds, PTL

\* The reviewer's decision is registered once, with exactly one event in the
\* outbox (the claim of ApproveDocumentUseCase and of the rejection).
THEOREM DecisionIsUnique == DLSpec => []OneDecision
<1>1. LifecycleInvariant => OneDecision
  BY DEF LifecycleInvariant, Gate, Registered, OneDecision
<1> QED BY <1>1, LifecycleInvariantHolds, PTL

\* document.cancelled is never published ahead of the copy it speaks of
\* (ConfirmDocumentCancellationUseCase).
THEOREM CopyPrecedesNotice == DLSpec => []AnnouncedHasCopy
<1>1. LifecycleInvariant => AnnouncedHasCopy
  BY DEF LifecycleInvariant, Watermarked, AnnouncedHasCopy
<1> QED BY <1>1, LifecycleInvariantHolds, PTL

\* A request that may sign or cancel knows that the others have answered, or keeps in its
\* copy those who had not: answers are never taken back.
AnsweredInvariant ==
  /\ \A s, t \in Signers :
       pc[s] = "answering" /\ answer[t] = "PENDING" => t = s \/ t \in waiting[s]
  /\ (\/ status \in {"SIGNED", "CANCELLATION_PENDING", "CANCELLED"}
      \/ \E s \in Signers : pc[s] = "finalizing"
      \/ \E r \in CreatorRequests : pc[r] = "cancelling")
     => \A t \in Signers : answer[t] # "PENDING"

\* A document is created neither signed nor cancelled, with nobody at work.
LEMMA AnsweredInit == DLInit => AnsweredInvariant
  BY Roles DEF DLInit, AnsweredInvariant, Requests

\* The creator asks for the cancellation of what is SIGNED.
LEMMA CreatorAnswered ==
  ASSUME LifecycleTyped, AnsweredInvariant, NEW r \in CreatorRequests, Creator(r)
  PROVE  AnsweredInvariant'
<1>0. /\ r \in Requests /\ r \notin Signers /\ answer' = answer /\ waiting' = waiting
      /\ Signers \subseteq Requests /\ CreatorRequests \subseteq Requests
  BY RolesAssumption DEF Requests, Creator, OpenDraft, OpenSigned, SaveSubmitted, RemoveOriginal,
     PutOriginal, DeleteFile, DeleteRow, SaveCancellation, people
<1>1. ASSUME NEW next, Goto(r, next), next = "cancelling" => status = "SIGNED",
             status' = status \/ status' \in {"PENDING_SIGNATURE", "deleted"}
                \/ pc[r] = "cancelling"
      PROVE  AnsweredInvariant'
  <2>1. \A q \in Requests : q # r => pc'[q] = pc[q]
    BY <1>1 DEF Goto, LifecycleTyped
  <2>2. pc'[r] = next
    BY <1>0, <1>1 DEF Goto, LifecycleTyped
  <2> QED BY <1>0, <1>1, <2>1, <2>2 DEF AnsweredInvariant
<1>2. CASE OpenDraft(r)
  BY <1>1, <1>2 DEF OpenDraft
<1>3. CASE OpenSigned(r)
  BY <1>1, <1>3 DEF OpenSigned
<1>4. CASE SaveSubmitted(r) \/ DeleteRow(r) \/ PutOriginal(r) \/ SaveCancellation(r)
  BY <1>1, <1>4 DEF SaveSubmitted, DeleteRow, PutOriginal, SaveCancellation
<1>5. CASE RemoveOriginal(r) \/ DeleteFile(r)
  <2> DEFINE next == IF original THEN (IF pc[r] = "replacing" THEN "putting" ELSE "erasing")
                     ELSE "done"
  <2>1. Goto(r, next) /\ next # "cancelling" /\ status' = status
    BY <1>5 DEF RemoveOriginal, DeleteFile, Goto
  <2> HIDE DEF next
  <2> QED BY <1>1, <2>1
<1> QED BY <1>2, <1>3, <1>4, <1>5 DEF Creator

\* Who finalizes saw nobody missing in his copy, and has answered himself.
LEMMA SignerAnswered ==
  ASSUME LifecycleTyped, AnsweredInvariant, NEW s \in Signers, Signer(s)
  PROVE  AnsweredInvariant'
<1>0. /\ s \in Requests /\ s \notin CreatorRequests
      /\ Signers \subseteq Requests /\ CreatorRequests \subseteq Requests
  BY RolesAssumption DEF Requests
<1>1. ASSUME NEW next, Goto(s, next)
      PROVE  pc'[s] = next /\ \A q \in Requests : q # s => pc'[q] = pc[q]
  BY <1>0, <1>1 DEF Goto, LifecycleTyped
<1>2. CASE ReadDocument(s)
  <2>1. /\ status' = status /\ answer' = answer
        /\ pc'[s] = "answering" /\ \A q \in Requests : q # s => pc'[q] = pc[q]
    BY <1>1, <1>2 DEF ReadDocument, people
  <2>2. \A u, t \in Signers :
          pc'[u] = "answering" /\ answer[t] = "PENDING" => t = u \/ t \in waiting'[u]
    <3> SUFFICES ASSUME NEW u \in Signers, NEW t \in Signers, pc'[u] = "answering",
                        answer[t] = "PENDING", t # u
                 PROVE  t \in waiting'[u]
      OBVIOUS
    <3>1. DOMAIN waiting = Signers => t \in waiting'[u]
      BY <1>0, <1>2, <2>1 DEF ReadDocument, AnsweredInvariant
    <3> QED BY <3>1 DEF LifecycleTyped
  <2> QED BY <1>0, <2>1, <2>2 DEF AnsweredInvariant
<1>3. CASE Claim(s)
  <2>1. /\ status' = status /\ waiting' = waiting /\ pc[s] = "answering"
        /\ answer'[s] # "PENDING" /\ \A t \in Signers : t # s => answer'[t] = answer[t]
    BY <1>3 DEF Claim, LifecycleTyped
  <2>2. PICK next \in {"finalizing", "done", "rejecting"} :
          Goto(s, next) /\ (next = "finalizing" => waiting[s] = {})
    BY <1>3 DEF Claim
  <2>3. pc'[s] = next /\ \A q \in Requests : q # s => pc'[q] = pc[q]
    BY <1>1, <2>2
  <2>4. next = "finalizing" => \A t \in Signers : answer'[t] # "PENDING"
    BY <2>1, <2>2 DEF AnsweredInvariant
  <2>5. \A u, t \in Signers :
          pc'[u] = "answering" /\ answer'[t] = "PENDING" => t = u \/ t \in waiting'[u]
    BY <1>0, <2>1, <2>2, <2>3 DEF AnsweredInvariant
  <2>6. (\A t \in Signers : answer[t] # "PENDING") => \A t \in Signers : answer'[t] # "PENDING"
    BY <2>1
  <2> QED BY <1>0, <2>1, <2>2, <2>3, <2>4, <2>5, <2>6 DEF AnsweredInvariant
<1>4. CASE SaveSigned(s) \/ SaveRejected(s)
  <2>1. /\ answer' = answer /\ waiting' = waiting
        /\ status' = "SIGNED" => pc[s] = "finalizing"
        /\ status' \notin {"CANCELLATION_PENDING", "CANCELLED"}
        /\ pc'[s] = "done" /\ \A q \in Requests : q # s => pc'[q] = pc[q]
    BY <1>1, <1>4 DEF SaveSigned, SaveRejected, people
  <2> QED BY <1>0, <2>1 DEF AnsweredInvariant
<1> QED BY <1>2, <1>3, <1>4 DEF Signer

\* The other requests move no answer, and only confirm what was asked for.
LEMMA OthersAnswered ==
  ASSUME LifecycleTyped, AnsweredInvariant, NEW r \in Requests,
         \/ r \in ReviewerRequests /\ Reviewer(r)
         \/ r \in ConfirmerRequests /\ Confirmer(r)
         \/ Abort(r)
  PROVE  AnsweredInvariant'
<1>1. /\ answer' = answer /\ waiting' = waiting
      /\ \A q \in Requests : q # r => pc'[q] = pc[q]
  BY DEF Reviewer, LoadDocument, LoadReviewer, Decide, SendToSign, Confirmer, ReadCancellation,
         ClaimCancellation, UploadCancelled, EmitCancelled, Abort, people, Goto, LifecycleTyped
<1>2. pc'[r] \notin {"answering", "finalizing", "cancelling"}
  BY DEF Reviewer, LoadDocument, LoadReviewer, Decide, SendToSign, Confirmer, ReadCancellation,
         ClaimCancellation, UploadCancelled, EmitCancelled, Abort, Goto, LifecycleTyped, Decisions
<1>3. status' = "CANCELLED" => status \in {"CANCELLATION_PENDING", "CANCELLED"}
  BY DEF Reviewer, LoadDocument, LoadReviewer, Decide, SendToSign, Confirmer, ReadCancellation,
         ClaimCancellation, UploadCancelled, EmitCancelled, Abort, people
<1>4. status' \in {"SIGNED", "CANCELLATION_PENDING"} => status' = status
  BY DEF Reviewer, LoadDocument, LoadReviewer, Decide, SendToSign, Confirmer, ReadCancellation,
         ClaimCancellation, UploadCancelled, EmitCancelled, Abort, people
<1>5. Signers \subseteq Requests /\ CreatorRequests \subseteq Requests
  BY DEF Requests
<1> QED BY <1>1, <1>2, <1>3, <1>4, <1>5 DEF AnsweredInvariant

\* No document is signed, nor its cancellation asked for, while a signer has not answered,
\* however the requests of its creator and its signers overlap (finalizeSignedDocument,
\* SubmitDocumentForCancellationUseCase).
THEOREM NobodyIsLeftOut == DLSpec => []EveryoneHasAnswered
<1>1. ASSUME LifecycleInvariant, AnsweredInvariant, [DLNext]_DLvars PROVE AnsweredInvariant'
  <2>1. CASE UNCHANGED DLvars
    BY <1>1, <2>1 DEF DLvars, people, AnsweredInvariant
  <2> QED
    BY <1>1, <2>1, CreatorAnswered, SignerAnswered, OthersAnswered
       DEF LifecycleInvariant, DLNext, Requests
<1>2. AnsweredInvariant => EveryoneHasAnswered
  BY DEF AnsweredInvariant, EveryoneHasAnswered
<1> QED BY <1>1, <1>2, AnsweredInit, LifecycleInvariantHolds, PTL DEF DLSpec

-----------------------------------------------------------------------------
(***************************************************************************)
(* SubscriptionBilling, for any number of subscriptions, folios, periods,  *)
(* events and failures.                                                    *)
(*                                                                         *)
(* One part of the invariant holds in every history (Unconditional): what  *)
(* an event tells is true of Stripe, one transaction registers at a time   *)
(* and only a period that has no lot, what is paid has its lot or an event *)
(* on the way unless one was lost, and while handlers have not overlapped  *)
(* an order to be linked to a lot there is has its session on the way.     *)
(*                                                                         *)
(* The other holds while the events are handled in their order (OrderlyOk):*)
(* the queue leads from the profile as it is to what Stripe says.  Each    *)
(* event finds the profile as the one before it leaves it (Ready, Expected)*)
(* and the last leaves the mirror of Stripe, so that an event told again,  *)
(* which finds what it has left, changes nothing.                          *)
(***************************************************************************)

Types == {"completed", "paid", "payment_failed", "updated", "deleted"}
EventRow == [type : Types, sub : Subs, status : {"active", "past_due", "canceled"},
             flag : BOOLEAN, period : Periods,
             pc : {"sent", "relating", "marking", "linking", "registering", "syncing"},
             read : BOOLEAN]
StripeRow == [status : {"none", "active", "past_due", "canceled"}, flag : BOOLEAN,
              period : 0..MaxPeriods, paid : SUBSET Periods]
LotRow == [key : Keys, current : BOOLEAN, open : BOOLEAN]

SubTyped ==
  /\ stripe \in [Subs -> StripeRow]
  /\ pending \in Seq(EventRow)
  /\ profile \in ProfileRow
  /\ orders \in [Subs -> [status : {"none", "PENDING", "COMPLETED"}, lot : Keys \cup {None}]]
  /\ lots \in Seq(LotRow)
  /\ request \in [op : {"none", "cancel", "resume"}, sub : Subs \cup {None}, called : BOOLEAN]
  /\ request.op # "none" => request.sub \in Subs
  /\ orderly \in BOOLEAN /\ overlapped \in BOOLEAN

\* The control and the status of an event agree with its type.
EventOk(e) ==
  /\ e.pc \in {"relating", "marking", "linking"} => e.type = "completed"
  /\ e.pc = "registering" => e.type = "paid"
  /\ e.pc = "syncing" => e.type = "updated"
  /\ e.type \in {"completed", "paid"} => e.status = "active"
  /\ e.type = "payment_failed" => e.status = "past_due"
  /\ e.type = "deleted" => e.status = "canceled"
  /\ e.type = "completed" => ~e.flag

Paying(j, s, p) == pending[j].type = "paid" /\ pending[j].sub = s /\ pending[j].period = p

StripeOk ==
  \A s \in Subs :
    /\ stripe[s].status # "none" <=> stripe[s].period # 0
    /\ \A p \in stripe[s].paid : p <= stripe[s].period
    /\ stripe[s].status = "past_due" => stripe[s].period \notin stripe[s].paid
    /\ stripe[s].status # "none" => 1 \in stripe[s].paid

\* Nothing is told, billed or shown that Stripe has not done.
EventsTold ==
  \A j \in DOMAIN pending :
    /\ EventOk(pending[j])
    /\ pending[j].period <= stripe[pending[j].sub].period
    /\ pending[j].type = "paid" => pending[j].period \in stripe[pending[j].sub].paid
    /\ pending[j].type = "deleted" => stripe[pending[j].sub].status = "canceled"
LotsTold == \A k \in DOMAIN lots, s \in Subs, p \in Periods :
              lots[k].key = <<s, p>> => p \in stripe[s].paid
ProfileTold == \A s \in Subs : profile.sub = s => stripe[s].status # "none"
ToldOk == EventsTold /\ LotsTold /\ ProfileTold

\* One transaction registers at a time, a period that has no lot; a paid period has its lot
\* or an event on the way, unless an event may have been lost.
OneRegisters == \A i, j \in DOMAIN pending :
                  pending[i].pc = "registering" /\ pending[j].pc = "registering" => i = j
RegistersNew == \A i \in DOMAIN pending :
                  pending[i].pc = "registering" => ~HasLot(<<pending[i].sub, pending[i].period>>)
PaidBilled == orderly => \A s \in Subs, p \in Periods : p \in stripe[s].paid =>
                HasLot(<<s, p>>) \/ \E j \in DOMAIN pending : Paying(j, s, p)
BilledOk == BilledOnce /\ OneRegisters /\ RegistersNew /\ PaidBilled

\* Handlers that run one at a time: what the transaction has read still holds, and an order
\* to be linked to a lot there is has its session on the way.
OneCurrent == \A k, l \in DOMAIN lots : lots[k].current /\ lots[l].current => k = l
OrdersOwn == \A s \in Subs : orders[s].lot # None => orders[s].lot \in {s} \X Periods
OneRuns == \A i, j \in DOMAIN pending : pending[i].pc # "sent" /\ pending[j].pc # "sent" => i = j
ReadsHold == \A i \in DOMAIN pending :
               pending[i].pc = "registering" => pending[i].read = Linkable(pending[i].sub)
Completing(s) == \E j \in DOMAIN pending : pending[j].type = "completed" /\ pending[j].sub = s
LinkComing == \A s \in Subs, k \in DOMAIN lots :
                Linkable(s) /\ lots[k].current /\ lots[k].key \in {s} \X Periods => Completing(s)
LinkedOk == OneCurrent /\ OrdersOwn /\ (~overlapped => OneRuns /\ ReadsHold /\ LinkComing)

\* An event told again, or taken up again, is the same event.
Same(e, f) == /\ e.type = f.type /\ e.sub = f.sub /\ e.status = f.status
              /\ e.flag = f.flag /\ e.period = f.period

Unconditional == SubTyped /\ StripeOk /\ ToldOk /\ BilledOk /\ LinkedOk

\* The profile as it should be once event e is handled, but for its flag.
Expected(e) ==
  [status |-> CASE e.type = "completed" -> "INCOMPLETE"
                [] e.type = "deleted" -> "FREE"
                [] OTHER -> ToProfileStatus(e.status),
   sub |-> e.sub,
   plan |-> IF e.type = "deleted" THEN "free" ELSE e.sub,
   period |-> IF e.type \in {"completed", "deleted"} THEN None ELSE <<e.sub, e.period>>]
Matches(q, r) == q.status = r.status /\ q.sub = r.sub /\ q.plan = r.plan /\ q.period = r.period

\* A profile from which e leads there.
Ready(e, q) ==
  /\ e.type = "completed" => q.period = None /\ q.status \in {"FREE", "INCOMPLETE"}
  /\ e.type = "payment_failed" => Matches(q, Expected(e))
  /\ e.type \in {"updated", "paid", "deleted"} => q.sub = e.sub
  /\ e.type = "updated" => q.status # "FREE"

SameSub(i, j) == pending[i].sub = pending[j].sub
SamePaid(i, j) == /\ pending[i].type = "paid" /\ pending[j].type = "paid"
                  /\ SameSub(i, j) /\ pending[i].period = pending[j].period

\* The events of a subscription are together and in order, up to its end.
HeadRuns == \A i \in DOMAIN pending : pending[i].pc # "sent" => i = 1
InOrder ==
  \A i, j \in DOMAIN pending : i < j =>
    /\ SameSub(i, j) => pending[i].period <= pending[j].period
    /\ SameSub(i, j) /\ pending[i].type = "deleted" => pending[j].type = "deleted"
    /\ Live(pending[i].sub) => SameSub(i, j)
Together ==
  \A i, k, j \in DOMAIN pending : i < k /\ k < j =>
    /\ SameSub(i, j) => SameSub(i, k)
    /\ SamePaid(i, j) => SamePaid(i, k)
EndComing ==
  \A i \in DOMAIN pending : stripe[pending[i].sub].status = "canceled" /\ pending[i].type # "deleted" =>
    \E j \in DOMAIN pending : i < j /\ pending[j].type = "deleted" /\ SameSub(i, j)
QueueOk == HeadRuns /\ InOrder /\ Together /\ EndComing

\* So are its lots, and they are behind its events.
LotsOfSubs == \A k \in DOMAIN lots : lots[k].key \in Subs \X Periods
LotsSorted == \A k, l \in DOMAIN lots : k < l /\ lots[k].key[1] = lots[l].key[1] =>
                lots[k].key[2] < lots[l].key[2]
LotsBehind == \A k \in DOMAIN lots, j \in DOMAIN pending :
                lots[k].key[1] = pending[j].sub => lots[k].key[2] <= pending[j].period
Repaid(j) == pending[j].type = "paid" /\ HasLot(<<pending[j].sub, pending[j].period>>)
RepaidFirst == \A j \in DOMAIN pending : Repaid(j) =>
                 /\ \A i \in DOMAIN pending : i < j => SamePaid(i, j)
                 /\ Matches(profile, Expected(pending[j]))
LotsInOrder == LotsOfSubs /\ LotsSorted /\ LotsBehind /\ RepaidFirst

Own(s) == {k \in DOMAIN lots : lots[k].key \in {s} \X Periods}
Newest(k) == \A l \in Own(lots[k].key[1]) : lots[l].key[2] <= lots[k].key[2]

\* The newest lot of a subscription is open until its end is handled.
HasNewest == \A s \in Subs : Own(s) # {} => \E k \in Own(s) : Newest(k)
Ending(s) == \E j \in DOMAIN pending : pending[j].type = "deleted" /\ pending[j].sub = s
NewestOpen == \A k \in DOMAIN lots : Newest(k) /\ lots[k].open =>
                Live(lots[k].key[1]) \/ Ending(lots[k].key[1])
Ended(j) == /\ pending[j].type = "deleted" /\ \A i \in DOMAIN pending : i < j => SameSub(i, j)
            /\ Matches(profile, Expected(pending[j])) /\ ~profile.flag
ClosedEnded == \A k \in DOMAIN lots : ~lots[k].open =>
                 /\ ~Live(lots[k].key[1])
                 /\ \A j \in DOMAIN pending : pending[j].sub = lots[k].key[1] => Ended(j)
ClosedOk == HasNewest /\ NewestOpen /\ ClosedEnded

\* What the profile is to be when all events are handled.
Coming == IF pending = << >> THEN profile ELSE Expected(pending[Len(pending)])

Mirror(s) == [status |-> ToProfileStatus(stripe[s].status), sub |-> s, plan |-> s,
              period |-> <<s, stripe[s].period>>]

\* Each event finds the profile as the one before leaves it, and the last leaves the truth.
OneLive == \A s, t \in Subs : Live(s) /\ Live(t) => s = t
HeadReady == pending # << >> => Ready(pending[1], profile)
NextReady == \A i, j \in DOMAIN pending : j = i + 1 => Ready(pending[j], Expected(pending[i]))
ReadFree == \A j \in DOMAIN pending : pending[j].pc = "relating" => pending[j].read
Related == \A j \in DOMAIN pending :
             pending[j].pc \in {"marking", "linking"} => Matches(profile, Expected(pending[j]))
ComingLive == \A s \in Subs : Live(s) => Matches(Coming, Mirror(s))
ComingFree == (\A s \in Subs : ~Live(s)) =>
                Coming.status = "FREE" /\ Coming.plan = "free" /\ Coming.period = None
FreeOk == profile.status = "FREE" =>
            /\ profile.plan = "free" /\ profile.period = None /\ ~profile.flag
            /\ \A s \in Subs : profile.sub = s => ~Live(s)
ProfileFollows == /\ OneLive /\ HeadReady /\ NextReady /\ ReadFree /\ Related
                  /\ ComingLive /\ ComingFree /\ FreeOk

\* The flag is written by some of the events, and by the requests.
TrueFlag == \E s \in Subs : Live(s) /\ stripe[s].flag
Flags(e) == e.type \in {"updated", "deleted"}
FlagTold(e) == e.type = "updated" /\ e.flag
FlagNow == (\A j \in DOMAIN pending : ~Flags(pending[j])) => (profile.flag <=> TrueFlag)
FlagComing == \A j \in DOMAIN pending :
                Flags(pending[j]) /\ (\A i \in DOMAIN pending : j < i => ~Flags(pending[i])) =>
                  (FlagTold(pending[j]) <=> TrueFlag)
FlagFollows == FlagNow /\ FlagComing

\* A request under way is about the subscription of the profile.
Alone == \A s \in Subs : Live(s) /\ profile.sub = s => \A j \in DOMAIN pending : pending[j].sub = s
AskedOwn == \A s \in Subs : request.op # "none" /\ request.sub = s /\ Live(s) => profile.sub = s
AskedDone == request.called => /\ request.op # "none" /\ request.sub \in Subs /\ Live(request.sub)
                               /\ stripe[request.sub].flag = (request.op = "cancel")
RequestOk == Alone /\ AskedOwn /\ AskedDone

OrderlyOk == QueueOk /\ LotsInOrder /\ ClosedOk /\ ProfileFollows /\ FlagFollows /\ RequestOk

-----------------------------------------------------------------------------
(* Sequences. *)

\* A sequence without its element i.
LEMMA RemovedFrom ==
  ASSUME NEW R, NEW q \in Seq(R), NEW i \in DOMAIN q
  PROVE  /\ RemoveAt(q, i) \in Seq(R) /\ Len(RemoveAt(q, i)) = Len(q) - 1
         /\ \A j \in 1..(Len(q) - 1) : RemoveAt(q, i)[j] = q[IF j < i THEN j ELSE j + 1]
<1>1. Len(q) \in Nat /\ DOMAIN q = 1..Len(q) /\ i \in 1..Len(q) /\ \A j \in 1..Len(q) : q[j] \in R
  BY LenProperties
<1> DEFINE a == SubSeq(q, 1, i - 1)
           b == SubSeq(q, i + 1, Len(q))
<1>2. /\ a \in Seq(R) /\ Len(a) = i - 1 /\ \A j \in 1..(i - 1) : a[j] = q[j]
  <2>1. 1 \in Int /\ i - 1 \in Int /\ \A j \in 1..(i - 1) : q[j] \in R
    BY <1>1
  <2>2. /\ a \in Seq(R) /\ Len(a) = IF 1 <= i - 1 THEN (i - 1) - 1 + 1 ELSE 0
        /\ \A j \in 1..((i - 1) - 1 + 1) : a[j] = q[1 + j - 1]
    BY <2>1, SubSeqProperties
  <2> HIDE DEF a
  <2> QED BY <1>1, <2>2
<1>3. /\ b \in Seq(R) /\ Len(b) = Len(q) - i /\ \A j \in 1..(Len(q) - i) : b[j] = q[i + j]
  <2>1. i + 1 \in Int /\ Len(q) \in Int /\ \A j \in (i + 1)..Len(q) : q[j] \in R
    BY <1>1
  <2>2. /\ b \in Seq(R) /\ Len(b) = IF i + 1 <= Len(q) THEN Len(q) - (i + 1) + 1 ELSE 0
        /\ \A j \in 1..(Len(q) - (i + 1) + 1) : b[j] = q[(i + 1) + j - 1]
    BY <2>1, SubSeqProperties
  <2> HIDE DEF b
  <2>3. \A j \in 1..(Len(q) - i) : (i + 1) + j - 1 = i + j
    BY <1>1
  <2> QED BY <1>1, <2>2, <2>3
<1>4. RemoveAt(q, i) = a \o b
  BY DEF RemoveAt
<1> HIDE DEF a, b
<1>5. PICK c : c = a \o b
  OBVIOUS
<1>6. /\ c \in Seq(R) /\ Len(c) = Len(a) + Len(b)
      /\ \A j \in 1..(Len(a) + Len(b)) : c[j] = IF j <= Len(a) THEN a[j] ELSE b[j - Len(a)]
  BY <1>2, <1>3, <1>5, ConcatProperties
<1>7. ASSUME NEW j \in 1..(Len(q) - 1) PROVE c[j] = q[IF j < i THEN j ELSE j + 1]
  <2>1. CASE j < i
    BY <1>1, <1>2, <1>3, <1>6, <2>1
  <2>2. CASE j >= i
    <3>1. c[j] = b[j - (i - 1)] /\ j - (i - 1) \in 1..(Len(q) - i) /\ i + (j - (i - 1)) = j + 1
      BY <1>1, <1>2, <1>3, <1>6, <2>2
    <3>2. c[j] = q[j + 1]
      BY <1>3, <3>1
    <3> QED BY <1>1, <2>2, <3>2
  <2> QED BY <1>1, <2>1, <2>2
<1>8. Len(c) = Len(q) - 1
  BY <1>1, <1>2, <1>3, <1>6
<1>9. RemoveAt(q, i) = c
  BY <1>4, <1>5
<1> QED BY <1>6, <1>7, <1>8, <1>9

\* A sequence with an element more after i.
LEMMA InsertedIn ==
  ASSUME NEW R, NEW q \in Seq(R), NEW i \in DOMAIN q, NEW e \in R
  PROVE  /\ InsertAt(q, i + 1, e) \in Seq(R) /\ Len(InsertAt(q, i + 1, e)) = Len(q) + 1
         /\ InsertAt(q, i + 1, e)[i + 1] = e
         /\ \A j \in 1..Len(q) : InsertAt(q, i + 1, e)[IF j <= i THEN j ELSE j + 1] = q[j]
<1>1. Len(q) \in Nat /\ DOMAIN q = 1..Len(q) /\ i \in 1..Len(q) /\ \A j \in 1..Len(q) : q[j] \in R
  BY LenProperties
<1> DEFINE a == SubSeq(q, 1, i)
           b == SubSeq(q, i + 1, Len(q))
<1>2. /\ a \in Seq(R) /\ Len(a) = i /\ \A j \in 1..i : a[j] = q[j]
  <2>1. 1 \in Int /\ i \in Int /\ \A j \in 1..i : q[j] \in R
    BY <1>1
  <2>2. /\ a \in Seq(R) /\ Len(a) = IF 1 <= i THEN i - 1 + 1 ELSE 0
        /\ \A j \in 1..(i - 1 + 1) : a[j] = q[1 + j - 1]
    BY <2>1, SubSeqProperties
  <2> HIDE DEF a
  <2> QED BY <1>1, <2>2
<1>3. /\ b \in Seq(R) /\ Len(b) = Len(q) - i /\ \A j \in 1..(Len(q) - i) : b[j] = q[i + j]
  <2>1. i + 1 \in Int /\ Len(q) \in Int /\ \A j \in (i + 1)..Len(q) : q[j] \in R
    BY <1>1
  <2>2. /\ b \in Seq(R) /\ Len(b) = IF i + 1 <= Len(q) THEN Len(q) - (i + 1) + 1 ELSE 0
        /\ \A j \in 1..(Len(q) - (i + 1) + 1) : b[j] = q[(i + 1) + j - 1]
    BY <2>1, SubSeqProperties
  <2> HIDE DEF b
  <2>3. \A j \in 1..(Len(q) - i) : (i + 1) + j - 1 = i + j
    BY <1>1
  <2> QED BY <1>1, <2>2, <2>3
<1>4. InsertAt(q, i + 1, e) = (a \o <<e>>) \o b
  <2>1. SubSeq(q, 1, (i + 1) - 1) = a
    BY <1>1
  <2> HIDE DEF a
  <2> QED BY <2>1 DEF InsertAt
<1> HIDE DEF a, b
<1>5. PICK d : d = <<e>> /\ d \in Seq(R) /\ Len(d) = 1 /\ d[1] = e
  <2>1. Append(<< >>, e) = <<e>> /\ << >> \in Seq(R) /\ Len(<< >>) = 0
    BY EmptySeq
  <2>2. /\ <<e>> \in Seq(R) /\ Len(<<e>>) = 0 + 1 /\ <<e>>[0 + 1] = e
    BY <2>1, AppendProperties
  <2> QED BY <2>2
<1>6. PICK c : c = a \o d
  OBVIOUS
<1>7. /\ c \in Seq(R) /\ Len(c) = i + 1 /\ c[i + 1] = e /\ \A j \in 1..i : c[j] = q[j]
  <2>1. /\ c \in Seq(R) /\ Len(c) = Len(a) + Len(d)
        /\ \A j \in 1..(Len(a) + Len(d)) :
             c[j] = IF j <= Len(a) THEN a[j] ELSE d[j - Len(a)]
    BY <1>2, <1>5, <1>6, ConcatProperties
  <2>2. (i + 1) - i = 1 /\ i + 1 \in 1..(i + 1) /\ \A j \in 1..i : j \in 1..(i + 1)
    BY <1>1
  <2>3. c[i + 1] = d[1]
    BY <1>1, <1>2, <1>5, <2>1, <2>2
  <2>4. \A j \in 1..i : c[j] = q[j]
    BY <1>1, <1>2, <1>5, <2>1, <2>2
  <2> QED BY <1>2, <1>5, <2>1, <2>3, <2>4
<1>8. PICK f : f = c \o b
  OBVIOUS
<1>9. /\ f \in Seq(R) /\ Len(f) = Len(c) + Len(b)
      /\ \A j \in 1..(Len(c) + Len(b)) : f[j] = IF j <= Len(c) THEN c[j] ELSE b[j - Len(c)]
  BY <1>3, <1>7, <1>8, ConcatProperties
<1>10. InsertAt(q, i + 1, e) = f
  BY <1>4, <1>5, <1>6, <1>8
<1>11. ASSUME NEW j \in 1..Len(q) PROVE f[IF j <= i THEN j ELSE j + 1] = q[j]
  <2>1. CASE j <= i
    BY <1>1, <1>3, <1>7, <1>9, <2>1
  <2>2. CASE j > i
    <3>1. f[j + 1] = b[(j + 1) - Len(c)]
      BY <1>1, <1>3, <1>7, <1>9, <2>2
    <3>2. (j + 1) - Len(c) = j - i /\ j - i \in 1..(Len(q) - i) /\ i + (j - i) = j
      BY <1>1, <1>7, <2>2
    <3>3. f[j + 1] = q[i + (j - i)]
      BY <1>3, <3>1, <3>2
    <3> QED BY <1>1, <2>2, <3>2, <3>3
  <2> QED BY <1>1, <2>1, <2>2
<1>12. Len(f) = Len(q) + 1 /\ f[i + 1] = e
  BY <1>1, <1>3, <1>7, <1>9
<1> QED BY <1>9, <1>10, <1>11, <1>12

-----------------------------------------------------------------------------
(* What the steps do to the events, to Stripe and to the lots. *)

\* Event i at another point of its handler.
LEMMA Touched ==
  ASSUME SubTyped, NEW i \in DOMAIN pending, NEW at, NEW read \in BOOLEAN,
         at \in {"sent", "relating", "marking", "linking", "registering", "syncing"},
         pending' = [pending EXCEPT ![i].pc = at, ![i].read = read]
  PROVE  /\ pending' \in Seq(EventRow) /\ Len(pending') = Len(pending)
         /\ DOMAIN pending' = DOMAIN pending
         /\ Same(pending'[i], pending[i]) /\ pending'[i].pc = at /\ pending'[i].read = read
         /\ \A j \in DOMAIN pending : j # i => pending'[j] = pending[j]
<1>1. pending \in Seq(EventRow) /\ pending[i] \in EventRow /\ DOMAIN pending = 1..Len(pending)
  BY ElementOfSeq, LenProperties DEF SubTyped
<1>2. PICK e : e = [pending[i] EXCEPT !.pc = at, !.read = read]
  OBVIOUS
<1>3. e \in EventRow /\ Same(e, pending[i]) /\ e.pc = at /\ e.read = read
  BY <1>1, <1>2 DEF EventRow, Same
<1>4. pending' = [pending EXCEPT ![i] = e]
  BY <1>1, <1>2, <1>3 DEF EventRow
<1>5. /\ pending' \in Seq(EventRow) /\ Len(pending') = Len(pending) /\ pending'[i] = e
      /\ \A j \in DOMAIN pending : j # i => pending'[j] = pending[j]
  <2>1. i \in 1..Len(pending) /\ pending \in Seq(EventRow) /\ e \in EventRow
    BY <1>1, <1>3
  <2>2. /\ [pending EXCEPT ![i] = e] \in Seq(EventRow) /\ Len([pending EXCEPT ![i] = e]) = Len(pending)
        /\ \A j \in 1..Len(pending) : [pending EXCEPT ![i] = e][j] = IF j = i THEN e ELSE pending[j]
    BY ONLY <2>1, ExceptSeq
  <2> QED BY <1>1, <1>4, <2>1, <2>2
<1>6. DOMAIN pending' = DOMAIN pending
  BY <1>4
<1> QED BY <1>3, <1>5, <1>6

\* Event i told again.
LEMMA Repeated ==
  ASSUME SubTyped, NEW i \in DOMAIN pending,
         pending' = InsertAt(pending, i + 1, [pending[i] EXCEPT !.pc = "sent", !.read = FALSE])
  PROVE  /\ pending' \in Seq(EventRow) /\ Len(pending') = Len(pending) + 1
         /\ Same(pending'[i + 1], pending[i]) /\ pending'[i + 1].pc = "sent"
         /\ \A j \in DOMAIN pending : pending'[IF j <= i THEN j ELSE j + 1] = pending[j]
<1>1. pending \in Seq(EventRow) /\ pending[i] \in EventRow /\ DOMAIN pending = 1..Len(pending)
  BY ElementOfSeq, LenProperties DEF SubTyped
<1>2. PICK e : e = [pending[i] EXCEPT !.pc = "sent", !.read = FALSE]
  OBVIOUS
<1>3. e \in EventRow /\ Same(e, pending[i]) /\ e.pc = "sent"
  BY <1>1, <1>2 DEF EventRow, Same
<1>4. pending' = InsertAt(pending, i + 1, e)
  BY <1>2
<1>5. /\ InsertAt(pending, i + 1, e) \in Seq(EventRow)
      /\ Len(InsertAt(pending, i + 1, e)) = Len(pending) + 1
      /\ InsertAt(pending, i + 1, e)[i + 1] = e
      /\ \A j \in 1..Len(pending) :
           InsertAt(pending, i + 1, e)[IF j <= i THEN j ELSE j + 1] = pending[j]
  <2>1. pending \in Seq(EventRow) /\ e \in EventRow
    BY <1>1, <1>3
  <2> HIDE DEF EventRow
  <2> QED BY <2>1, InsertedIn
<1> QED BY <1>1, <1>3, <1>4, <1>5

\* Stripe tells new events.
LEMMA Telling ==
  ASSUME SubTyped, NEW s \in Subs, NEW x \in StripeRow, NEW types \in Seq(Types),
         x.status # "none", x.period \in Periods, Tell(s, x, types)
  PROVE  /\ pending' \in Seq(EventRow) /\ Len(pending') = Len(pending) + Len(types)
         /\ \A j \in DOMAIN pending : pending'[j] = pending[j]
         /\ \A i \in DOMAIN types : pending'[Len(pending) + i] = Event(types[i], s, x)
         /\ \A j \in DOMAIN pending' :
              j \in DOMAIN pending
                \/ \E i \in DOMAIN types : j = Len(pending) + i /\ pending'[j] = Event(types[i], s, x)
         /\ stripe' \in [Subs -> StripeRow] /\ stripe'[s] = x
         /\ \A t \in Subs : t # s => stripe'[t] = stripe[t]
<1>1. /\ pending \in Seq(EventRow) /\ Len(pending) \in Nat /\ DOMAIN pending = 1..Len(pending)
      /\ Len(types) \in Nat /\ DOMAIN types = 1..Len(types) /\ \A i \in 1..Len(types) : types[i] \in Types
  BY ElementOfSeq, LenProperties DEF SubTyped
<1>2. PICK n : n = [i \in 1..Len(types) |-> Event(types[i], s, x)]
  OBVIOUS
<1>3. \A i \in 1..Len(types) : Event(types[i], s, x) \in EventRow
  BY <1>1 DEF Event, EventRow, StripeRow
<1>4. n \in Seq(EventRow) /\ Len(n) = Len(types) /\ \A i \in 1..Len(types) : n[i] = Event(types[i], s, x)
  <2>1. n \in [1..Len(types) -> EventRow]
    BY <1>2, <1>3
  <2>2. n \in Seq(EventRow)
    BY <1>1, <2>1, SeqDef
  <2>3. Len(n) = Len(types)
    BY <1>1, <2>1, <2>2, LenProperties
  <2> QED BY <1>2, <2>2, <2>3
<1>5. PICK c : c = pending \o n
  OBVIOUS
<1>6. /\ c \in Seq(EventRow) /\ Len(c) = Len(pending) + Len(n)
      /\ \A i \in 1..(Len(pending) + Len(n)) :
           c[i] = IF i <= Len(pending) THEN pending[i] ELSE n[i - Len(pending)]
  BY <1>1, <1>4, <1>5, ConcatProperties
<1>7. pending' = c
  BY <1>2, <1>5 DEF Tell
<1>8. \A j \in DOMAIN pending : c[j] = pending[j]
  BY <1>1, <1>4, <1>6
<1>9. ASSUME NEW i \in DOMAIN types PROVE c[Len(pending) + i] = Event(types[i], s, x)
  <2>1. /\ Len(pending) + i \in 1..(Len(pending) + Len(n)) /\ ~(Len(pending) + i <= Len(pending))
        /\ (Len(pending) + i) - Len(pending) = i
    BY <1>1, <1>4
  <2>2. c[Len(pending) + i] = n[i]
    BY <1>6, <2>1
  <2> QED BY <1>1, <1>4, <2>2
<1>10. DOMAIN c = 1..(Len(pending) + Len(types))
  BY <1>4, <1>6, LenProperties
<1>11. \A j \in DOMAIN c : j \in DOMAIN pending
                 \/ \E i \in DOMAIN types : j = Len(pending) + i /\ c[j] = Event(types[i], s, x)
  <2> SUFFICES ASSUME NEW j \in DOMAIN c, j \notin DOMAIN pending
               PROVE  \E i \in DOMAIN types : j = Len(pending) + i /\ c[j] = Event(types[i], s, x)
    OBVIOUS
  <2>1. j - Len(pending) \in DOMAIN types /\ j = Len(pending) + (j - Len(pending))
    BY <1>1, <1>10
  <2> QED BY <1>9, <2>1
<1>12. /\ stripe' \in [Subs -> StripeRow] /\ stripe'[s] = x
       /\ \A t \in Subs : t # s => stripe'[t] = stripe[t]
  BY DEF Tell, SubTyped
<1> QED BY <1>4, <1>6, <1>7, <1>8, <1>9, <1>11, <1>12

\* A new current lot.
LEMMA Issued ==
  ASSUME SubTyped, NEW key \in Keys, Issue(key)
  PROVE  /\ lots' \in Seq(LotRow) /\ Len(lots') = Len(lots) + 1
         /\ lots'[Len(lots) + 1] = [key |-> key, current |-> TRUE, open |-> TRUE]
         /\ \A k \in DOMAIN lots : /\ lots'[k].key = lots[k].key /\ lots'[k].open = lots[k].open
                                   /\ ~lots'[k].current
         /\ DOMAIN lots' = DOMAIN lots \cup {Len(lots) + 1}
         /\ Len(lots) + 1 \notin DOMAIN lots
<1>1. /\ lots \in Seq(LotRow) /\ Len(lots) \in Nat /\ DOMAIN lots = 1..Len(lots)
      /\ \A k \in 1..Len(lots) : lots[k] \in LotRow
  BY ElementOfSeq, LenProperties DEF SubTyped
<1>2. PICK old : old = [k \in DOMAIN lots |-> [lots[k] EXCEPT !.current = FALSE]]
  OBVIOUS
<1>3. \A k \in 1..Len(lots) : /\ old[k] \in LotRow /\ old[k].key = lots[k].key
                              /\ old[k].open = lots[k].open /\ ~old[k].current
  BY <1>1, <1>2 DEF LotRow
<1>4. old \in Seq(LotRow) /\ Len(old) = Len(lots)
  <2>1. old \in [1..Len(lots) -> LotRow]
    BY <1>1, <1>2, <1>3
  <2>2. old \in Seq(LotRow)
    BY <1>1, <2>1, SeqDef
  <2> QED BY <1>1, <2>1, <2>2, LenProperties
<1>5. PICK e : e = [key |-> key, current |-> TRUE, open |-> TRUE]
  OBVIOUS
<1>6. e \in LotRow
  BY <1>5 DEF LotRow
<1>7. lots' = Append(old, e)
  BY <1>2, <1>5 DEF Issue
<1>8. /\ lots' \in Seq(LotRow) /\ Len(lots') = Len(lots) + 1 /\ lots'[Len(lots) + 1] = e
      /\ \A k \in 1..Len(lots) : lots'[k] = old[k]
  BY <1>4, <1>6, <1>7, AppendProperties
<1>9. DOMAIN lots' = 1..(Len(lots) + 1)
  BY <1>8, LenProperties
<1> QED BY <1>1, <1>3, <1>5, <1>8, <1>9

\* What Stripe tells of a subscription, in which order, and why.
Telltale(s, x, types) ==
  /\ Len(types) \in 0..2
  /\ Len(types) = 0 => x = stripe[s]
  /\ stripe[s].status = "none" => Len(types) = 2 /\ types[1] = "completed" /\ ~x.flag
  /\ x.status = "canceled" => Len(types) # 0 /\ types[Len(types)] = "deleted"
  /\ x.flag # stripe[s].flag /\ stripe[s].status # "none" => Len(types) # 0 /\ types[1] = "updated"
  /\ \A i \in 1..Len(types) :
       /\ types[i] = "completed" => i = 1 /\ stripe[s].status = "none"
       /\ types[i] = "updated" => i = 1 /\ stripe[s].status # "none"
       /\ types[i] = "paid" => i = 2 /\ x.period \notin stripe[s].paid
       /\ types[i] = "payment_failed" => i = 2 /\ types[1] = "updated"
       /\ types[i] = "deleted" => i = Len(types) /\ stripe[s].status # "none"

\* A move of Stripe: what it may do to a subscription and the events it tells.
Moved(s, x, types) ==
  /\ s \in Subs /\ x \in StripeRow /\ types \in Seq(Types)
  /\ x.status # "none" /\ x.period \in Periods /\ stripe[s].status # "canceled"
  /\ stripe[s].period <= x.period /\ stripe[s].paid \subseteq x.paid /\ 1 \in x.paid
  /\ \A p \in x.paid : p <= x.period
  /\ x.status = "past_due" => x.period \notin x.paid
  /\ \A i \in DOMAIN types :
       /\ EventOk(Event(types[i], s, x))
       /\ types[i] = "paid" => x.period \in x.paid
       /\ types[i] = "deleted" => x.status = "canceled"
  /\ \A p \in x.paid \ stripe[s].paid : p = x.period /\ \E i \in DOMAIN types : types[i] = "paid"
  /\ Telltale(s, x, types)

StripeMove(s) == Subscribe(s) \/ Renew(s) \/ FailPayment(s) \/ Recover(s) \/ Toggle(s) \/ Terminate(s)

\* Sequences of one element ...
LEMMA SeqOne == ASSUME NEW R, NEW a \in R
  PROVE <<a>> \in Seq(R) /\ Len(<<a>>) = 1 /\ DOMAIN <<a>> = {1} /\ <<a>>[1] = a
<1>1. Append(<< >>, a) = <<a>> /\ << >> \in Seq(R) /\ Len(<< >>) = 0
  BY EmptySeq
<1>2. <<a>> \in Seq(R) /\ Len(<<a>>) = 0 + 1 /\ <<a>>[0 + 1] = a
  BY <1>1, AppendProperties
<1>3. DOMAIN <<a>> = 1..1
  BY <1>2, LenProperties
<1> QED BY <1>2, <1>3

\* ... and of two.
LEMMA SeqTwo == ASSUME NEW R, NEW a \in R, NEW b \in R
  PROVE <<a, b>> \in Seq(R) /\ Len(<<a, b>>) = 2 /\ DOMAIN <<a, b>> = {1, 2}
        /\ <<a, b>>[1] = a /\ <<a, b>>[2] = b
<1>1. <<a, b>> \in [1..2 -> R] /\ <<a, b>>[1] = a /\ <<a, b>>[2] = b
  OBVIOUS
<1>2. <<a, b>> \in Seq(R)
  BY <1>1, SeqDef
<1>3. Len(<<a, b>>) = 2 /\ DOMAIN <<a, b>> = 1..2
  BY <1>1, <1>2, LenProperties
<1> QED BY <1>1, <1>2, <1>3

\* Every move of Stripe is one of these: what it tells is true, and told in its order.
LEMMA MovesOfStripe ==
  ASSUME SubTyped, StripeOk, NEW s \in Subs, StripeMove(s)
  PROVE  \E x, types : Moved(s, x, types) /\ Moves(s, x, types)
<1> DEFINE o == stripe[s]
<1>0. o \in StripeRow
  BY DEF SubTyped
<1>1. ASSUME NEW x \in StripeRow, NEW types \in Seq(Types), Moves(s, x, types),
             x.status # "none", x.period \in Periods, o.status # "canceled",
             o.period <= x.period, o.paid \subseteq x.paid, 1 \in x.paid,
             \A p \in x.paid : p <= x.period,
             x.status = "past_due" => x.period \notin x.paid,
             \A i \in DOMAIN types :
               /\ types[i] \in {"completed", "paid"} => x.status = "active" /\ x.period \in x.paid
               /\ types[i] = "completed" => ~x.flag
               /\ types[i] = "payment_failed" => x.status = "past_due"
               /\ types[i] = "deleted" => x.status = "canceled",
             \A p \in x.paid \ o.paid : p = x.period /\ \E i \in DOMAIN types : types[i] = "paid",
             Telltale(s, x, types)
      PROVE  \E y, t : Moved(s, y, t) /\ Moves(s, y, t)
  <2>1. \A i \in DOMAIN types : EventOk(Event(types[i], s, x))
    BY <1>1 DEF EventOk, Event
  <2>2. Moved(s, x, types)
    BY <1>1, <2>1 DEF Moved
  <2> QED BY <1>1, <2>2
<1>2. CASE Subscribe(s)
  <2>1. PICK x : x = [status |-> "active", flag |-> FALSE, period |-> 1, paid |-> {1}]
    OBVIOUS
  <2>2. PICK types : types = <<"completed", "paid">>
    OBVIOUS
  <2>3. Moves(s, x, types) /\ o.status = "none" /\ o.period = 0 /\ o.paid \subseteq {}
    BY <1>0, <1>2, <2>1, <2>2 DEF Subscribe, StripeOk, StripeRow, Periods
  <2>4. x \in StripeRow /\ types \in Seq(Types) /\ DOMAIN types = {1, 2} /\ Len(types) = 2 /\ types[1] = "completed" /\ types[2] = "paid"
    BY <2>1, <2>2, SeqTwo, BoundAssumption DEF StripeRow, Types, Periods
  <2> HIDE DEF o
  <2>5. 1 \in Periods
    BY BoundAssumption DEF Periods
  <2>6. x.status = "active" /\ x.period = 1 /\ x.paid = {1} /\ ~x.flag /\ o.period <= 1
    BY <2>1, <2>3
  <2>7. \A i \in DOMAIN types : types[i] \in {"completed", "paid"}
    BY <2>4
  <2>8. \A p \in x.paid : p <= x.period
    BY <2>6
  <2>9. o.paid \subseteq x.paid /\ \A p \in x.paid \ o.paid : p = x.period /\ \E i \in DOMAIN types : types[i] = "paid"
    BY <2>3, <2>4, <2>6
  <2>10. Telltale(s, x, types)
    BY <2>3, <2>4, <2>6 DEF Telltale, o
  <2> QED BY <1>1, <2>3, <2>4, <2>5, <2>6, <2>7, <2>8, <2>9, <2>10
<1>3. CASE Renew(s)
  <2>1. PICK p : p = o.period + 1
    OBVIOUS
  <2>2. PICK x : x = [o EXCEPT !.period = p, !.paid = @ \cup {p}]
    OBVIOUS
  <2>3. PICK types : types = <<"updated", "paid">>
    OBVIOUS
  <2>4. Moves(s, x, types) /\ o.status = "active" /\ o.period < MaxPeriods
    BY <1>3, <2>1, <2>2, <2>3 DEF Renew
  <2>5. types \in Seq(Types) /\ DOMAIN types = {1, 2} /\ Len(types) = 2 /\ types[1] = "updated" /\ types[2] = "paid"
    BY <2>3, SeqTwo DEF Types
  <2>6. 1 \in o.paid /\ \A q \in o.paid : q <= o.period
    BY <2>4 DEF StripeOk
  <2> HIDE DEF o
  <2>7. p \in Periods /\ o.period <= p /\ \A q \in o.paid : q <= p
    BY <1>0, <2>1, <2>4, <2>6, BoundAssumption DEF Periods, StripeRow
  <2>8. /\ x \in StripeRow /\ x.status = "active" /\ x.period = p /\ x.paid = o.paid \cup {p}
        /\ x.flag = o.flag
    <3>1. x = [status |-> o.status, flag |-> o.flag, period |-> p, paid |-> o.paid \cup {p}]
      BY <1>0, <2>2 DEF StripeRow
    <3>2. o.paid \cup {p} \in SUBSET Periods /\ p \in 0..MaxPeriods /\ o.flag \in BOOLEAN
      BY <1>0, <2>7, BoundAssumption DEF StripeRow, Periods
    <3> QED BY <2>4, <3>1, <3>2 DEF StripeRow
  <2>9. \A q \in x.paid : q <= x.period
    <3>1. p <= p
      BY <2>7 DEF Periods
    <3> QED BY <2>7, <2>8, <3>1
  <2>10. o.paid \subseteq x.paid /\ \A q \in x.paid \ o.paid : q = x.period /\ \E i \in DOMAIN types : types[i] = "paid"
    BY <2>5, <2>8
  <2>11. p \notin o.paid
    BY <1>0, <2>1, <2>6 DEF StripeRow
  <2>12. Telltale(s, x, types)
    BY <2>4, <2>5, <2>8, <2>11 DEF Telltale, o
  <2> QED BY <1>1, <2>4, <2>5, <2>6, <2>7, <2>8, <2>9, <2>10, <2>12
<1>4. CASE FailPayment(s)
  <2>1. PICK x : x = [o EXCEPT !.status = "past_due", !.period = @ + 1]
    OBVIOUS
  <2>2. PICK types : types = <<"updated", "payment_failed">>
    OBVIOUS
  <2>3. Moves(s, x, types) /\ o.status = "active" /\ o.period < MaxPeriods
    BY <1>4, <2>1, <2>2 DEF FailPayment
  <2>4. types \in Seq(Types) /\ DOMAIN types = {1, 2} /\ Len(types) = 2 /\ types[1] = "updated" /\ types[2] = "payment_failed"
    BY <2>2, SeqTwo DEF Types
  <2>5. 1 \in o.paid /\ \A q \in o.paid : q <= o.period
    BY <2>3 DEF StripeOk
  <2> HIDE DEF o
  <2>6. o.period + 1 \in Periods /\ o.period <= o.period + 1 /\ \A q \in o.paid : q <= o.period + 1 /\ q # o.period + 1
    BY <1>0, <2>3, <2>5, BoundAssumption DEF Periods, StripeRow
  <2>7. /\ x \in StripeRow /\ x.status = "past_due" /\ x.period = o.period + 1 /\ x.paid = o.paid
        /\ x.flag = o.flag
    <3>1. x = [status |-> "past_due", flag |-> o.flag, period |-> o.period + 1, paid |-> o.paid]
      BY <1>0, <2>1 DEF StripeRow
    <3>2. o.period + 1 \in 0..MaxPeriods /\ o.flag \in BOOLEAN /\ o.paid \in SUBSET Periods
      BY <1>0, <2>6, BoundAssumption DEF StripeRow, Periods
    <3> QED BY <3>1, <3>2 DEF StripeRow
  <2>8. Telltale(s, x, types)
    BY <2>3, <2>4, <2>7 DEF Telltale, o
  <2> QED BY <1>1, <2>3, <2>4, <2>5, <2>6, <2>7, <2>8
<1>5. CASE Recover(s)
  <2>1. PICK x : x = [o EXCEPT !.status = "active", !.paid = @ \cup {o.period}]
    OBVIOUS
  <2>2. PICK types : types = <<"updated", "paid">>
    OBVIOUS
  <2>3. Moves(s, x, types) /\ o.status = "past_due"
    BY <1>5, <2>1, <2>2 DEF Recover
  <2>4. types \in Seq(Types) /\ DOMAIN types = {1, 2} /\ Len(types) = 2 /\ types[1] = "updated" /\ types[2] = "paid"
    BY <2>2, SeqTwo DEF Types
  <2>5. 1 \in o.paid /\ (\A q \in o.paid : q <= o.period) /\ o.period # 0 /\ o.period \notin o.paid
    BY <2>3 DEF StripeOk
  <2> HIDE DEF o
  <2>6. o.period \in Periods /\ o.period <= o.period
    BY <1>0, <2>5, BoundAssumption DEF Periods, StripeRow
  <2>7. /\ x \in StripeRow /\ x.status = "active" /\ x.period = o.period /\ x.paid = o.paid \cup {o.period}
        /\ x.flag = o.flag
    BY <1>0, <2>1, <2>6 DEF StripeRow, Periods
  <2>8. Telltale(s, x, types)
    BY <2>3, <2>4, <2>5, <2>7 DEF Telltale, o
  <2> QED BY <1>1, <2>3, <2>4, <2>5, <2>6, <2>7, <2>8
<1>6. CASE Toggle(s)
  <2>1. PICK x : x = [o EXCEPT !.flag = ~@]
    OBVIOUS
  <2>2. PICK types : types = <<"updated">>
    OBVIOUS
  <2>3. Moves(s, x, types) /\ o.status = "active"
    BY <1>6, <2>1, <2>2 DEF Toggle
  <2>4. types \in Seq(Types) /\ DOMAIN types = {1} /\ Len(types) = 1 /\ types[1] = "updated"
    BY <2>2, SeqOne DEF Types
  <2>5. 1 \in o.paid /\ (\A q \in o.paid : q <= o.period) /\ o.period # 0
    BY <2>3 DEF StripeOk
  <2> HIDE DEF o
  <2>6. o.period \in Periods /\ o.period <= o.period
    BY <1>0, <2>5, BoundAssumption DEF Periods, StripeRow
  <2>7. x \in StripeRow /\ x.status = "active" /\ x.period = o.period /\ x.paid = o.paid
    BY <1>0, <2>1, <2>3 DEF StripeRow
  <2>8. Telltale(s, x, types)
    BY <2>3, <2>4, <2>7 DEF Telltale, o
  <2> QED BY <1>1, <2>3, <2>4, <2>5, <2>6, <2>7, <2>8
<1>7. CASE Terminate(s)
  <2>1. PICK x : x = [o EXCEPT !.status = "canceled"]
    OBVIOUS
  <2>2. PICK types \in {<<"deleted">>, <<"updated", "deleted">>} : Moves(s, x, types)
    BY <1>7, <2>1 DEF Terminate
  <2>3. o.status \in {"active", "past_due"}
    BY <1>7 DEF Terminate
  <2>4. /\ types \in Seq(Types) /\ \A i \in DOMAIN types : types[i] \in {"updated", "deleted"}
        /\ \/ Len(types) = 1 /\ types[1] = "deleted"
           \/ Len(types) = 2 /\ types[1] = "updated" /\ types[2] = "deleted"
    <3>1. CASE types = <<"deleted">>
      BY <3>1, SeqOne DEF Types
    <3>2. CASE types = <<"updated", "deleted">>
      <4>1. "updated" \in Types /\ "deleted" \in Types
        BY DEF Types
      <4> QED BY <3>2, <4>1, SeqTwo
    <3> QED BY <2>2, <3>1, <3>2
  <2>5. 1 \in o.paid /\ (\A q \in o.paid : q <= o.period) /\ o.period # 0
    BY <2>3 DEF StripeOk
  <2> HIDE DEF o
  <2>6. o.period \in Periods /\ o.period <= o.period
    BY <1>0, <2>5, BoundAssumption DEF Periods, StripeRow
  <2>7. /\ x \in StripeRow /\ x.status = "canceled" /\ x.period = o.period /\ x.paid = o.paid
        /\ x.flag = o.flag
    BY <1>0, <2>1 DEF StripeRow
  <2>8. Telltale(s, x, types)
    <3>1. CASE Len(types) = 1 /\ types[1] = "deleted"
      BY <2>3, <2>7, <3>1 DEF Telltale, o
    <3>2. CASE Len(types) = 2 /\ types[1] = "updated" /\ types[2] = "deleted"
      BY <2>3, <2>7, <3>2 DEF Telltale, o
    <3> QED BY <2>4, <3>1, <3>2
  <2> QED BY <1>1, <2>2, <2>3, <2>4, <2>5, <2>6, <2>7, <2>8
<1> QED BY <1>2, <1>3, <1>4, <1>5, <1>6, <1>7 DEF StripeMove

\* The call of a request is a move of Stripe too.
LEMMA CallMoves ==
  ASSUME SubTyped, StripeOk, CallStripe, Live(request.sub), request.sub \in Subs
  PROVE  \E x, types : /\ Moved(request.sub, x, types) /\ Tell(request.sub, x, types)
                       /\ x = [stripe[request.sub] EXCEPT !.flag = (request.op = "cancel")]
                       /\ types = IF x = stripe[request.sub] THEN << >> ELSE <<"updated">>
                       /\ request' = [request EXCEPT !.called = TRUE]
<1>1. PICK s \in Subs : s = request.sub
  OBVIOUS
<1>2. PICK x : x = [stripe[s] EXCEPT !.flag = (request.op = "cancel")]
  OBVIOUS
<1>3. PICK types : types = IF x = stripe[s] THEN << >> ELSE <<"updated">>
  OBVIOUS
<1>4. Tell(s, x, types) /\ request' = [request EXCEPT !.called = TRUE]
  BY <1>1, <1>2, <1>3 DEF CallStripe
<1>5. /\ stripe[s] \in StripeRow /\ stripe[s].status \in {"active", "past_due"}
      /\ 1 \in stripe[s].paid /\ (\A q \in stripe[s].paid : q <= stripe[s].period) /\ stripe[s].period # 0
      /\ stripe[s].status = "past_due" => stripe[s].period \notin stripe[s].paid
  BY <1>1 DEF SubTyped, StripeOk, Live
<1>6. x \in StripeRow /\ x.status = stripe[s].status /\ x.period = stripe[s].period /\ x.paid = stripe[s].paid
  BY <1>2, <1>5 DEF StripeRow
<1>7. stripe[s].period \in Periods /\ stripe[s].period <= stripe[s].period
  BY <1>5, BoundAssumption DEF StripeRow, Periods
<1>8. /\ types \in Seq(Types) /\ \A i \in DOMAIN types : types[i] = "updated"
      /\ Len(types) = (IF x = stripe[s] THEN 0 ELSE 1) /\ (Len(types) = 1 => types[1] = "updated")
  BY <1>3, SeqOne, EmptySeq DEF Types
<1>9. \A i \in DOMAIN types : EventOk(Event(types[i], s, x))
  BY <1>8 DEF EventOk, Event
<1>10. Telltale(s, x, types)
  BY <1>5, <1>6, <1>8 DEF Telltale
<1>11. Moved(s, x, types)
  BY <1>5, <1>6, <1>7, <1>8, <1>9, <1>10 DEF Moved
<1> QED BY <1>1, <1>2, <1>3, <1>4, <1>11

-----------------------------------------------------------------------------
(* The events after a step about one of them. *)

\* The events after a step about event i: m gives the one each of them comes from.
Follows(m, i) ==
  /\ m \in [DOMAIN pending' -> DOMAIN pending]
  /\ \A j, k \in DOMAIN pending' : j < k => m[j] <= m[k]
  /\ \A j \in DOMAIN pending' : Same(pending'[j], pending[m[j]])
  /\ \A j \in DOMAIN pending' : m[j] # i => pending'[j] = pending[m[j]]
  /\ \A j, k \in DOMAIN pending' :
       m[j] = m[k] /\ pending'[j].pc # "sent" /\ pending'[k].pc # "sent" => j = k
  /\ \A k \in DOMAIN pending : k # i => \E j \in DOMAIN pending' : m[j] = k

\* Its handler goes on to pc, or ends.
Turns(m, i, at, read) ==
  /\ Follows(m, i)
  /\ \A j \in DOMAIN pending' : m[j] = i => pending'[j].pc = at /\ pending'[j].read = read
  /\ at # "sent" => \E j \in DOMAIN pending' : m[j] = i

\* It is told again, or its handler has failed.
Repeats(m, i) ==
  /\ Follows(m, i)
  /\ \A j \in DOMAIN pending' : pending'[j].pc = "sent" \/ pending'[j] = pending[m[j]]
  /\ \E j \in DOMAIN pending' : m[j] = i
  /\ \A j, k \in DOMAIN pending' : m[j] = m[k] /\ j < k => pending'[k].pc = "sent"

Pcs == {"sent", "relating", "marking", "linking", "registering", "syncing"}

\* The events follow the old ones when only event i is touched ...
LEMMA InPlaceFollows ==
  ASSUME SubTyped, NEW i \in DOMAIN pending, DOMAIN pending' = DOMAIN pending,
         Same(pending'[i], pending[i]), \A j \in DOMAIN pending : j # i => pending'[j] = pending[j],
         NEW m, m = [j \in DOMAIN pending |-> j]
  PROVE  Follows(m, i) /\ \A j \in DOMAIN pending' : m[j] = j
<1>1. DOMAIN pending = 1..Len(pending) /\ Len(pending) \in Nat
  BY LenProperties DEF SubTyped
<1>2. m \in [DOMAIN pending' -> DOMAIN pending] /\ \A j \in DOMAIN pending' : m[j] = j
  OBVIOUS
<1>3. \A j, k \in DOMAIN pending' : j < k => m[j] <= m[k]
  BY <1>1, <1>2
<1> QED BY <1>2, <1>3 DEF Follows, Same

\* ... as when its handler goes on ...
LEMMA TouchFollows ==
  ASSUME SubTyped, NEW i \in DOMAIN pending, NEW at \in Pcs, NEW read \in BOOLEAN,
         pending' = [pending EXCEPT ![i].pc = at, ![i].read = read]
  PROVE  pending' \in Seq(EventRow) /\ \E m : Turns(m, i, at, read)
<1>1. /\ pending' \in Seq(EventRow) /\ DOMAIN pending' = DOMAIN pending
      /\ Same(pending'[i], pending[i]) /\ pending'[i].pc = at /\ pending'[i].read = read
      /\ \A j \in DOMAIN pending : j # i => pending'[j] = pending[j]
  BY Touched DEF Pcs
<1>2. PICK m : m = [j \in DOMAIN pending |-> j]
  OBVIOUS
<1>3. Follows(m, i) /\ \A j \in DOMAIN pending' : m[j] = j
  BY <1>1, <1>2, InPlaceFollows
<1>4. Turns(m, i, at, read)
  BY <1>1, <1>3 DEF Turns
<1> QED BY <1>1, <1>4

\* ... when it is answered and gone ...
LEMMA DropFollows ==
  ASSUME SubTyped, NEW i \in DOMAIN pending, pending' = RemoveAt(pending, i)
  PROVE  pending' \in Seq(EventRow) /\ \E m : Turns(m, i, "sent", FALSE)
<1>1. /\ pending \in Seq(EventRow) /\ DOMAIN pending = 1..Len(pending) /\ Len(pending) \in Nat
      /\ Len(pending) >= 1
  BY LenProperties DEF SubTyped
<1>2. PICK q : q = pending'
  OBVIOUS
<1>3. /\ q \in Seq(EventRow) /\ Len(q) = Len(pending) - 1
      /\ \A j \in 1..(Len(pending) - 1) : q[j] = pending[IF j < i THEN j ELSE j + 1]
  BY <1>1, <1>2, RemovedFrom
<1>4. DOMAIN q = 1..(Len(pending) - 1)
  BY <1>3, LenProperties
<1>5. PICK m : m = [j \in DOMAIN q |-> IF j < i THEN j ELSE j + 1]
  OBVIOUS
<1>6. m \in [DOMAIN q -> DOMAIN pending] /\ \A j \in DOMAIN q : m[j] # i /\ q[j] = pending[m[j]]
  BY <1>1, <1>3, <1>4, <1>5
<1>7. \A j, k \in DOMAIN q : (j < k => m[j] <= m[k]) /\ (m[j] = m[k] => j = k)
  BY <1>1, <1>4, <1>5
<1>8. ASSUME NEW k \in DOMAIN pending, k # i PROVE \E j \in DOMAIN q : m[j] = k
  <2>1. (IF k < i THEN k ELSE k - 1) \in DOMAIN q
    BY <1>1, <1>4, <1>8
  <2>2. m[IF k < i THEN k ELSE k - 1] = k
    BY <1>1, <1>4, <1>5, <1>8, <2>1
  <2> QED BY <2>1, <2>2
<1>9. Follows(m, i)
  BY <1>2, <1>6, <1>7, <1>8 DEF Follows, Same
<1> QED BY <1>2, <1>3, <1>6, <1>9 DEF Turns

\* ... and when its handler ends, either way.
LEMMA EndFollows ==
  ASSUME SubTyped, NEW i \in DOMAIN pending, Ends(i)
  PROVE  pending' \in Seq(EventRow) /\ \E m : Turns(m, i, "sent", FALSE)
BY TouchFollows, DropFollows DEF Ends, Pcs

\* They repeat the old ones when a handler fails ...
LEMMA FailFollows ==
  ASSUME SubTyped, NEW i \in DOMAIN pending,
         pending' = [pending EXCEPT ![i].pc = "sent", ![i].read = FALSE]
  PROVE  pending' \in Seq(EventRow) /\ \E m : Repeats(m, i)
<1>1. /\ pending' \in Seq(EventRow) /\ DOMAIN pending' = DOMAIN pending
      /\ Same(pending'[i], pending[i]) /\ pending'[i].pc = "sent"
      /\ \A j \in DOMAIN pending : j # i => pending'[j] = pending[j]
  BY Touched DEF Pcs
<1>2. PICK m : m = [j \in DOMAIN pending |-> j]
  OBVIOUS
<1>3. Follows(m, i) /\ \A j \in DOMAIN pending' : m[j] = j
  BY <1>1, <1>2, InPlaceFollows
<1>4. DOMAIN pending' \subseteq Nat
  BY <1>1, LenProperties
<1>5. \A j, k \in DOMAIN pending' : ~(m[j] = m[k] /\ j < k)
  BY <1>3, <1>4
<1>6. Repeats(m, i)
  BY <1>1, <1>3, <1>5 DEF Repeats
<1> QED BY <1>1, <1>6

\* ... and when Stripe delivers an event once more.
LEMMA RepeatFollows ==
  ASSUME SubTyped, NEW i \in DOMAIN pending,
         pending' = InsertAt(pending, i + 1, [pending[i] EXCEPT !.pc = "sent", !.read = FALSE])
  PROVE  pending' \in Seq(EventRow) /\ \E m : Repeats(m, i)
<1>1. DOMAIN pending = 1..Len(pending) /\ Len(pending) \in Nat
  BY LenProperties DEF SubTyped
<1>2. PICK q : q = pending'
  OBVIOUS
<1>3. /\ q \in Seq(EventRow) /\ Len(q) = Len(pending) + 1
      /\ Same(q[i + 1], pending[i]) /\ q[i + 1].pc = "sent"
      /\ \A j \in DOMAIN pending : q[IF j <= i THEN j ELSE j + 1] = pending[j]
  BY <1>2, Repeated
<1>4. DOMAIN q = 1..(Len(pending) + 1)
  BY <1>3, LenProperties
<1>5. PICK m : m = [j \in DOMAIN q |-> IF j <= i THEN j ELSE j - 1]
  OBVIOUS
<1>6. m \in [DOMAIN q -> DOMAIN pending]
  BY <1>1, <1>4, <1>5
<1>7. ASSUME NEW j \in DOMAIN q PROVE (j = i + 1 /\ m[j] = i) \/ (j # i + 1 /\ q[j] = pending[m[j]])
  <2>1. CASE j = i + 1
    BY <1>1, <1>4, <1>5, <2>1
  <2>2. CASE j # i + 1
    <3>1. m[j] \in DOMAIN pending /\ j = IF m[j] <= i THEN m[j] ELSE m[j] + 1
      BY <1>1, <1>4, <1>5, <2>2
    <3> QED BY <1>3, <2>2, <3>1
  <2> QED BY <2>1, <2>2
<1>8. \A j, k \in DOMAIN q : (j < k => m[j] <= m[k]) /\ (m[j] = m[k] /\ j # i + 1 /\ k # i + 1 => j = k)
  BY <1>1, <1>4, <1>5
<1>9. ASSUME NEW k \in DOMAIN pending PROVE \E j \in DOMAIN q : m[j] = k
  <2>1. (IF k <= i THEN k ELSE k + 1) \in DOMAIN q
    BY <1>1, <1>4
  <2>2. m[IF k <= i THEN k ELSE k + 1] = k
    BY <1>1, <1>4, <1>5, <2>1
  <2> QED BY <2>1, <2>2
<1>10. \A j \in DOMAIN q : Same(q[j], pending[m[j]])
  BY <1>3, <1>7 DEF Same
<1>11. Follows(m, i)
  BY <1>2, <1>3, <1>6, <1>7, <1>8, <1>9, <1>10 DEF Follows
<1>12. \A j \in DOMAIN q : q[j].pc = "sent" \/ q[j] = pending[m[j]]
  BY <1>3, <1>7
<1>13. \A j, k \in DOMAIN q : m[j] = m[k] /\ j < k => k = i + 1
  BY <1>1, <1>4, <1>5
<1> QED BY <1>2, <1>3, <1>9, <1>11, <1>12, <1>13 DEF Repeats

KeepLots ==
  /\ DOMAIN lots' = DOMAIN lots
  /\ \A k \in DOMAIN lots : lots'[k].key = lots[k].key /\ lots'[k].current = lots[k].current

\* Events that follow true ones are true.
LEMMA FollowedTold ==
  ASSUME EventsTold, stripe' = stripe, NEW i, NEW m, Follows(m, i),
         \A j \in DOMAIN pending' : m[j] = i => EventOk(pending'[j])
  PROVE  EventsTold'
<1>1. ASSUME NEW j \in DOMAIN pending'
      PROVE  /\ EventOk(pending'[j])
             /\ pending'[j].period <= stripe[pending'[j].sub].period
             /\ pending'[j].type = "paid" => pending'[j].period \in stripe[pending'[j].sub].paid
             /\ pending'[j].type = "deleted" => stripe[pending'[j].sub].status = "canceled"
  <2>1. m[j] \in DOMAIN pending /\ Same(pending'[j], pending[m[j]])
        /\ (m[j] # i => pending'[j] = pending[m[j]])
    BY DEF Follows
  <2>2. EventOk(pending'[j])
    BY <2>1 DEF EventsTold
  <2> QED BY <2>1, <2>2 DEF EventsTold, Same
<1> QED BY <1>1 DEF EventsTold

\* A subscription that an event is about exists in Stripe.
LEMMA EventOfSub ==
  ASSUME SubTyped, StripeOk, EventsTold, NEW i \in DOMAIN pending
  PROVE  /\ pending[i] \in EventRow /\ pending[i].sub \in Subs /\ pending[i].period \in Periods
         /\ <<pending[i].sub, pending[i].period>> \in Keys
         /\ stripe[pending[i].sub].status # "none"
<1>1. pending[i] \in EventRow
  BY ElementOfSeq, LenProperties DEF SubTyped
<1>2. /\ pending[i].sub \in Subs /\ pending[i].period \in Periods
      /\ <<pending[i].sub, pending[i].period>> \in Keys
  BY <1>1 DEF EventRow, Keys
<1>3. pending[i].period <= stripe[pending[i].sub].period
  BY DEF EventsTold
<1>4. stripe[pending[i].sub].period # 0
  BY <1>2, <1>3 DEF Periods
<1> QED BY <1>1, <1>2, <1>4 DEF StripeOk

\* What is said of the lots survives a step that keeps their keys and which is current.
LEMMA KeptLots ==
  ASSUME KeepLots
  PROVE  /\ BilledOnce => BilledOnce'
         /\ LotsTold /\ stripe' = stripe => LotsTold'
         /\ OneCurrent => OneCurrent'
         /\ \A key : HasLot(key)' <=> HasLot(key)
BY DEF KeepLots, BilledOnce, LotsTold, OneCurrent, HasLot

\* The handler of event i takes a step that registers nothing.
LEMMA Handled ==
  ASSUME Unconditional, SubTyped', UNCHANGED stripe, KeepLots,
         NEW i \in DOMAIN pending, NEW m, NEW at \in Pcs, NEW read \in BOOLEAN, Turns(m, i, at, read),
         at \in {"relating", "marking", "linking"} => pending[i].type = "completed",
         at = "registering" => /\ pending[i].type = "paid" /\ ~Locked
                               /\ \A s \in Subs : s = pending[i].sub => read = Linkable(s)'
                               /\ ~HasLot(<<pending[i].sub, pending[i].period>>),
         at = "syncing" => pending[i].type = "updated",
         orderly' => orderly,
         orderly' /\ at = "sent" /\ pending[i].type = "paid" => HasLot(<<pending[i].sub, pending[i].period>>),
         ~overlapped' => ~overlapped /\ \A k \in DOMAIN pending : k # i => pending[k].pc = "sent",
         profile'.sub \in {profile.sub, pending[i].sub},
         OrdersOwn',
         \A s \in Subs : ~overlapped' /\ Linkable(s)' =>
           \/ Linkable(s) /\ ~(at = "sent" /\ pending[i].type = "completed" /\ pending[i].sub = s)
           \/ pending[i].type = "completed" /\ pending[i].sub = s /\ at # "sent"
           \/ \A k \in DOMAIN lots : lots[k].current => lots[k].key \notin {s} \X Periods
  PROVE  Unconditional'
<1>0. /\ SubTyped /\ StripeOk /\ EventsTold /\ LotsTold /\ ProfileTold /\ OneCurrent /\ BilledOnce
      /\ OneRegisters /\ RegistersNew /\ PaidBilled /\ OrdersOwn
      /\ ~overlapped => OneRuns /\ ReadsHold /\ LinkComing
  BY DEF Unconditional, ToldOk, BilledOk, LinkedOk
<1>1. Follows(m, i) /\ \A j \in DOMAIN pending' : m[j] = i => pending'[j].pc = at /\ pending'[j].read = read
  BY DEF Turns
<1>2. ASSUME NEW j \in DOMAIN pending'
      PROVE  m[j] \in DOMAIN pending /\ Same(pending'[j], pending[m[j]]) /\ (m[j] # i => pending'[j] = pending[m[j]])
  BY <1>1 DEF Follows
<1>3. StripeOk'
  BY <1>0 DEF StripeOk
<1>4. EventsTold'
  <2>1. \A j \in DOMAIN pending' : m[j] = i => EventOk(pending'[j])
    BY <1>0, <1>1, <1>2 DEF EventsTold, EventOk, Same
  <2> QED BY <1>0, <1>1, <2>1, FollowedTold
<1>5. LotsTold' /\ BilledOnce' /\ OneCurrent' /\ \A key : HasLot(key)' <=> HasLot(key)
  BY <1>0, KeptLots
<1>6. ProfileTold'
  BY <1>0, EventOfSub DEF ProfileTold
<1>7. OneRegisters'
  <2> SUFFICES ASSUME NEW j \in DOMAIN pending', NEW k \in DOMAIN pending',
                      pending'[j].pc = "registering", pending'[k].pc = "registering"
               PROVE  j = k
    BY DEF OneRegisters
  <2>1. m[j] = m[k]
    BY <1>0, <1>1, <1>2 DEF OneRegisters, Locked
  <2> QED BY <1>1, <2>1 DEF Follows
<1>8. RegistersNew'
  <2> SUFFICES ASSUME NEW j \in DOMAIN pending', pending'[j].pc = "registering"
               PROVE  ~\E k \in DOMAIN lots' : lots'[k].key = <<pending'[j].sub, pending'[j].period>>
    BY DEF RegistersNew, HasLot
  <2>1. ~HasLot(<<pending[m[j]].sub, pending[m[j]].period>>)
    BY <1>0, <1>1, <1>2 DEF RegistersNew
  <2>2. ~HasLot(<<pending'[j].sub, pending'[j].period>>)
    BY <1>2, <2>1 DEF Same
  <2> QED BY <2>2 DEF KeepLots, HasLot
<1>9. PaidBilled'
  <2> SUFFICES ASSUME orderly', NEW s \in Subs, NEW p \in Periods, p \in stripe[s].paid
               PROVE  HasLot(<<s, p>>)' \/ \E j \in DOMAIN pending' : Paying(j, s, p)'
    BY DEF PaidBilled
  <2>1. CASE HasLot(<<s, p>>)
    BY <1>5, <2>1
  <2>2. CASE ~HasLot(<<s, p>>)
    <3>1. PICK k \in DOMAIN pending : Paying(k, s, p)
      BY <1>0, <2>2 DEF PaidBilled
    <3>2. \E j \in DOMAIN pending' : m[j] = k
      BY <1>1, <2>2, <3>1 DEF Turns, Follows, Paying
    <3> QED BY <1>2, <3>1, <3>2 DEF Paying, Same
  <2> QED BY <2>1, <2>2
<1>10. ASSUME ~overlapped' PROVE OneRuns' /\ ReadsHold' /\ LinkComing'
  <2>0. \A j \in DOMAIN pending' : pending'[j].pc # "sent" => m[j] = i
    BY <1>2, <1>10
  <2>1. OneRuns'
    BY <1>1, <2>0 DEF OneRuns, Follows
  <2>2. ReadsHold'
    <3>0. \A j \in DOMAIN pending' : pending'[j].sub \in Subs
      <4>1. pending' \in Seq(EventRow)
        BY DEF SubTyped
      <4>2. \A j \in DOMAIN pending' : pending'[j] \in EventRow
        BY <4>1, ElementOfSeq, LenProperties
      <4> QED BY <4>2 DEF EventRow
    <3> SUFFICES ASSUME NEW j \in DOMAIN pending', pending'[j].pc = "registering",
                        NEW s \in Subs, s = pending'[j].sub
                 PROVE  pending'[j].read = Linkable(s)'
      BY <3>0 DEF ReadsHold, Linkable
    <3>1. m[j] = i /\ at = "registering" /\ pending'[j].read = read /\ pending'[j].sub = pending[i].sub
      BY <1>1, <1>2, <2>0 DEF Same
    <3> QED BY <3>1
  <2>3. LinkComing'
    <3> SUFFICES ASSUME NEW s \in Subs, NEW k \in DOMAIN lots', Linkable(s)', lots'[k].current,
                        lots'[k].key \in {s} \X Periods
                 PROVE  \E j \in DOMAIN pending' : pending'[j].type = "completed" /\ pending'[j].sub = s
      BY DEF LinkComing, Completing
    <3>1. k \in DOMAIN lots /\ lots[k].current /\ lots[k].key \in {s} \X Periods
      BY DEF KeepLots
    <3>2. \/ Linkable(s) /\ ~(at = "sent" /\ pending[i].type = "completed" /\ pending[i].sub = s)
          \/ pending[i].type = "completed" /\ pending[i].sub = s /\ at # "sent"
      BY <1>10, <3>1
    <3>4. PICK h \in DOMAIN pending : /\ pending[h].type = "completed" /\ pending[h].sub = s
                                      /\ h = i => at # "sent"
      BY <1>0, <1>10, <3>1, <3>2 DEF LinkComing, Completing
    <3>5. PICK j \in DOMAIN pending' : m[j] = h
      <4>1. CASE h = i
        BY <3>4, <4>1 DEF Turns
      <4>2. CASE h # i
        BY <1>1, <3>4, <4>2 DEF Follows
      <4> QED BY <4>1, <4>2
    <3> QED BY <1>2, <3>4, <3>5 DEF Same
  <2> QED BY <2>1, <2>2, <2>3
<1> QED BY <1>3, <1>4, <1>5, <1>6, <1>7, <1>8, <1>9, <1>10 DEF Unconditional, ToldOk, BilledOk, LinkedOk

\* An event is told again, or its handler fails.
LEMMA RepeatedHolds ==
  ASSUME Unconditional, SubTyped', UNCHANGED <<stripe, profile, orders, lots, orderly, overlapped>>,
         NEW i \in DOMAIN pending, NEW m, Repeats(m, i)
  PROVE  Unconditional'
<1>0. /\ SubTyped /\ StripeOk /\ EventsTold /\ LotsTold /\ ProfileTold /\ OneCurrent /\ BilledOnce
      /\ OneRegisters /\ RegistersNew /\ PaidBilled /\ OrdersOwn
      /\ ~overlapped => OneRuns /\ ReadsHold /\ LinkComing
  BY DEF Unconditional, ToldOk, BilledOk, LinkedOk
<1>1. Follows(m, i) /\ \A j \in DOMAIN pending' : pending'[j].pc # "sent" => pending'[j] = pending[m[j]]
  BY DEF Repeats
<1>2. ASSUME NEW j \in DOMAIN pending'
      PROVE  m[j] \in DOMAIN pending /\ Same(pending'[j], pending[m[j]])
  BY <1>1 DEF Follows
<1>3. \A k \in DOMAIN pending : \E j \in DOMAIN pending' : Same(pending'[j], pending[k])
  <2> SUFFICES ASSUME NEW k \in DOMAIN pending PROVE \E j \in DOMAIN pending' : Same(pending'[j], pending[k])
    OBVIOUS
  <2>1. PICK j \in DOMAIN pending' : m[j] = k
    BY <1>1 DEF Follows, Repeats
  <2> QED BY <1>2, <2>1
<1>4. EventsTold'
  <2>1. \A j \in DOMAIN pending' : EventOk(pending'[j])
    BY <1>0, <1>1, <1>2 DEF EventsTold, EventOk, Same
  <2> QED BY <1>0, <1>1, <2>1, FollowedTold
<1>5. StripeOk' /\ LotsTold' /\ ProfileTold' /\ OneCurrent' /\ BilledOnce' /\ OrdersOwn'
  BY <1>0 DEF StripeOk, LotsTold, ProfileTold, OneCurrent, BilledOnce, OrdersOwn
<1>6. \A j, k \in DOMAIN pending' : pending'[j].pc # "sent" /\ pending'[k].pc # "sent" /\ m[j] = m[k] => j = k
  BY <1>1 DEF Follows
<1>7. OneRegisters' /\ (~overlapped' => OneRuns')
  BY <1>0, <1>1, <1>2, <1>6 DEF OneRegisters, OneRuns
<1>8. RegistersNew' /\ (~overlapped' => ReadsHold')
  BY <1>0, <1>1, <1>2 DEF RegistersNew, ReadsHold, HasLot, Linkable
<1>9. PaidBilled'
  <2>1. \A key : HasLot(key)' <=> HasLot(key)
    BY <1>1 DEF HasLot
  <2>2. \A s, p : (\E k \in DOMAIN pending : Paying(k, s, p))
                  => \E j \in DOMAIN pending' : Paying(j, s, p)'
    BY <1>3 DEF Paying, Same
  <2> QED BY <1>0, <1>1, <2>1, <2>2 DEF PaidBilled
<1>10. ~overlapped' => LinkComing'
  BY <1>0, <1>3 DEF LinkComing, Linkable, Completing, Same
<1> QED BY <1>0, <1>4, <1>5, <1>7, <1>8, <1>9, <1>10 DEF Unconditional, ToldOk, BilledOk, LinkedOk

-----------------------------------------------------------------------------
(* The unconditional part of the invariant, step by step. *)

\* A move of Stripe keeps the unconditional part of the invariant.
LEMMA StripeTells ==
  ASSUME Unconditional, NEW s, NEW x, NEW types, Moved(s, x, types), Tell(s, x, types),
         UNCHANGED <<profile, orders, lots, overlapped>>,
         request' \in [op : {"none", "cancel", "resume"}, sub : Subs \cup {None}, called : BOOLEAN],
         request'.op # "none" => request'.sub \in Subs,
         orderly' \in BOOLEAN, orderly' => orderly
  PROVE  Unconditional'
<1>0. /\ SubTyped /\ StripeOk /\ EventsTold /\ LotsTold /\ ProfileTold /\ OneCurrent /\ BilledOnce
      /\ OneRegisters /\ RegistersNew /\ PaidBilled /\ OrdersOwn
      /\ ~overlapped => OneRuns /\ ReadsHold /\ LinkComing
  BY DEF Unconditional, ToldOk, BilledOk, LinkedOk
<1>1. /\ s \in Subs /\ x \in StripeRow /\ types \in Seq(Types)
      /\ x.status # "none" /\ x.period \in Periods /\ stripe[s].status # "canceled"
      /\ stripe[s].period <= x.period /\ stripe[s].paid \subseteq x.paid /\ 1 \in x.paid
      /\ \A p \in x.paid : p <= x.period
      /\ x.status = "past_due" => x.period \notin x.paid
      /\ \A i \in DOMAIN types :
           /\ EventOk(Event(types[i], s, x))
           /\ types[i] = "paid" => x.period \in x.paid
           /\ types[i] = "deleted" => x.status = "canceled"
      /\ \A p \in x.paid \ stripe[s].paid : p = x.period /\ \E i \in DOMAIN types : types[i] = "paid"
  BY DEF Moved
<1>2. /\ pending' \in Seq(EventRow) /\ Len(pending') = Len(pending) + Len(types)
      /\ \A j \in DOMAIN pending : pending'[j] = pending[j]
      /\ \A i \in DOMAIN types : pending'[Len(pending) + i] = Event(types[i], s, x)
      /\ \A j \in DOMAIN pending' :
           j \in DOMAIN pending
             \/ \E i \in DOMAIN types : j = Len(pending) + i /\ pending'[j] = Event(types[i], s, x)
      /\ stripe' \in [Subs -> StripeRow] /\ stripe'[s] = x
      /\ \A t \in Subs : t # s => stripe'[t] = stripe[t]
  BY <1>0, <1>1, Telling
<1>3. \A j \in DOMAIN pending' : j \notin DOMAIN pending =>
        \E i \in DOMAIN types : pending'[j] = Event(types[i], s, x)
  BY <1>2
<1>4. /\ Len(pending) \in Nat /\ DOMAIN pending = 1..Len(pending) /\ Len(types) \in Nat
      /\ DOMAIN types = 1..Len(types) /\ DOMAIN pending' = 1..(Len(pending) + Len(types))
  BY <1>0, <1>1, <1>2, LenProperties DEF SubTyped
<1>5. (\A j \in DOMAIN pending : j \in DOMAIN pending') /\ \A i \in DOMAIN types : Len(pending) + i \in DOMAIN pending'
  BY <1>4
<1>6. SubTyped'
  BY <1>0, <1>2 DEF SubTyped
<1>7. StripeOk'
  <2>1. x.period # 0 /\ (\A t \in Subs : t = s \/ t # s)
    BY <1>1, BoundAssumption DEF Periods
  <2> QED BY <1>0, <1>1, <1>2, <2>1 DEF StripeOk
<1>8. EventsTold'
  <2> SUFFICES ASSUME NEW j \in DOMAIN pending'
               PROVE  /\ EventOk(pending'[j])
                      /\ pending'[j].period <= stripe'[pending'[j].sub].period
                      /\ pending'[j].type = "paid" => pending'[j].period \in stripe'[pending'[j].sub].paid
                      /\ pending'[j].type = "deleted" => stripe'[pending'[j].sub].status = "canceled"
    BY DEF EventsTold
  <2>1. CASE j \in DOMAIN pending
    <3>1. pending'[j] = pending[j] /\ pending[j] \in EventRow
      BY <1>0, <1>2, <2>1, EventOfSub
    <3>2. PICK e : e = pending[j]
      OBVIOUS
    <3>3. /\ EventOk(e) /\ e.period <= stripe[e.sub].period
          /\ e.type = "paid" => e.period \in stripe[e.sub].paid
          /\ e.type = "deleted" => stripe[e.sub].status = "canceled"
      BY <1>0, <2>1, <3>2 DEF EventsTold
    <3>4. e.sub \in Subs /\ e.period \in Nat /\ stripe[s].period \in Nat /\ x.period \in Nat
      <4>1. e.sub \in Subs /\ e.period \in Periods
        BY <3>1, <3>2 DEF EventRow
      <4>2. stripe[s] \in StripeRow
        BY <1>0, <1>1 DEF SubTyped
      <4>3. stripe[s].period \in 0..MaxPeriods
        BY <4>2 DEF StripeRow
      <4> QED BY <1>1, <4>1, <4>3, BoundAssumption DEF Periods
    <3>5. CASE e.sub = s
      <4>1. e.period <= x.period
        BY <1>1, <3>3, <3>4, <3>5
      <4> QED BY <1>1, <1>2, <3>1, <3>2, <3>3, <3>5, <4>1
    <3>6. CASE e.sub # s
      BY <1>2, <3>1, <3>2, <3>3, <3>4, <3>6
    <3> QED BY <3>5, <3>6
  <2>2. CASE j \notin DOMAIN pending
    <3>1. PICK i \in DOMAIN types : pending'[j] = Event(types[i], s, x)
      BY <1>3, <2>2
    <3>2. /\ pending'[j].type = types[i] /\ pending'[j].sub = s /\ pending'[j].period = x.period
      BY <3>1 DEF Event
    <3>3. x.period <= x.period
      BY <1>1 DEF Periods
    <3> QED BY <1>1, <1>2, <3>1, <3>2, <3>3
  <2> QED BY <2>1, <2>2
<1>9. LotsTold' /\ ProfileTold' /\ OneCurrent' /\ BilledOnce' /\ OrdersOwn'
  BY <1>0, <1>1, <1>2 DEF LotsTold, ProfileTold, OneCurrent, BilledOnce, OrdersOwn
<1>10. \A j \in DOMAIN pending' : pending'[j].pc # "sent" => j \in DOMAIN pending /\ pending'[j] = pending[j]
  BY <1>2, <1>3 DEF Event
<1>11. OneRegisters' /\ RegistersNew' /\ (~overlapped' => OneRuns' /\ ReadsHold')
  BY <1>0, <1>10 DEF OneRegisters, RegistersNew, OneRuns, ReadsHold, HasLot, Linkable
<1>12. PaidBilled'
  <2> SUFFICES ASSUME orderly', NEW t \in Subs, NEW p \in Periods, p \in stripe'[t].paid
               PROVE  HasLot(<<t, p>>)' \/ \E j \in DOMAIN pending' : Paying(j, t, p)'
    BY DEF PaidBilled
  <2>1. CASE p \in stripe[t].paid
    <3>1. CASE HasLot(<<t, p>>)
      BY <3>1 DEF HasLot
    <3>2. CASE ~HasLot(<<t, p>>)
      <4>1. PICK k \in DOMAIN pending : Paying(k, t, p)
        BY <1>0, <2>1, <3>2 DEF PaidBilled
      <4>2. k \in DOMAIN pending' /\ pending'[k] = pending[k]
        BY <1>2, <1>5
      <4> QED BY <4>1, <4>2 DEF Paying
    <3> QED BY <3>1, <3>2
  <2>2. CASE p \notin stripe[t].paid
    <3>1. t = s /\ p = x.period
      BY <1>1, <1>2, <2>2
    <3>2. PICK i \in DOMAIN types : types[i] = "paid"
      BY <1>1, <1>2, <2>2, <3>1
    <3>3. /\ pending'[Len(pending) + i].type = "paid" /\ pending'[Len(pending) + i].sub = s
          /\ pending'[Len(pending) + i].period = x.period
      <4>1. pending'[Len(pending) + i] = Event(types[i], s, x)
        BY <1>2
      <4> QED BY <3>2, <4>1 DEF Event
    <3> QED BY <1>5, <3>1, <3>2, <3>3 DEF Paying
  <2> QED BY <2>1, <2>2
<1>13. ~overlapped' => LinkComing'
  BY <1>0, <1>2, <1>5 DEF LinkComing, Linkable, Completing
<1> QED BY <1>6, <1>7, <1>8, <1>9, <1>11, <1>12, <1>13 DEF Unconditional, ToldOk, BilledOk, LinkedOk

\* A handler that starts or goes on is alone, unless handlers have overlapped.
LEMMA StartsAlone ==
  ASSUME SubTyped, NEW i, NEW type, Starts(i, type)
  PROVE  /\ i \in DOMAIN pending /\ pending[i].type = type /\ pending[i].pc = "sent"
         /\ overlapped' \in BOOLEAN /\ orderly' \in BOOLEAN
         /\ ~overlapped' => ~overlapped /\ \A k \in DOMAIN pending : k # i => pending[k].pc = "sent"
         /\ orderly' => orderly /\ i = 1 /\ \A k \in DOMAIN pending : k # i => pending[k].pc = "sent"
BY DEF Starts, SubTyped

\* What a handler that goes on knows of its event and of the others.
LEMMA RunsAlone ==
  ASSUME Unconditional, NEW i, NEW at \in Pcs \ {"sent"}, Runs(i, at)
  PROVE  /\ i \in DOMAIN pending /\ pending[i].pc = at
         /\ at \in {"relating", "marking", "linking"} => pending[i].type = "completed"
         /\ at = "registering" => pending[i].type = "paid"
         /\ at = "syncing" => pending[i].type = "updated"
         /\ overlapped' \in BOOLEAN /\ orderly' \in BOOLEAN /\ (orderly' => orderly)
         /\ ~overlapped' => ~overlapped /\ \A k \in DOMAIN pending : k # i => pending[k].pc = "sent"
<1>1. i \in DOMAIN pending /\ pending[i].pc = at /\ UNCHANGED <<orderly, overlapped>>
  BY DEF Runs
<1>2. at # "sent" /\ SubTyped /\ EventsTold /\ (~overlapped => OneRuns)
  BY DEF Unconditional, LinkedOk, ToldOk
<1>3. EventOk(pending[i])
  BY <1>1, <1>2 DEF EventsTold
<1>4. ~overlapped => \A k \in DOMAIN pending : k # i => pending[k].pc = "sent"
  BY <1>1, <1>2 DEF OneRuns
<1> QED BY <1>1, <1>2, <1>3, <1>4 DEF SubTyped, EventOk

\* A key is not None, nor a folio the key of a period.
LEMMA NamesApart ==
  /\ \A s \in Subs : None \notin {s} \X Periods
  /\ None \notin Keys
  /\ \A f \in Folios, s \in Subs : f \notin {s} \X Periods
<1>1. Periods \subseteq Nat
  BY BoundAssumption DEF Periods
<1>2. Subs \X Periods \subseteq Subs \X Nat /\ \A s \in Subs : {s} \X Periods \subseteq Subs \X Nat
  BY <1>1
<1> QED BY <1>2, NamesAssumption DEF Keys

\* The first read of handleCheckoutSessionCompleted keeps it ...
LEMMA ReadProfileHolds ==
  ASSUME Unconditional, NEW i, ReadProfile(i) PROVE Unconditional'
<1>1. SubTyped /\ OrdersOwn
  BY DEF Unconditional, LinkedOk
<1>2. Starts(i, "completed") /\ UNCHANGED <<stripe, profile, orders, lots, request>>
  BY DEF ReadProfile
<1>3. /\ i \in DOMAIN pending /\ pending[i].type = "completed"
      /\ overlapped' \in BOOLEAN /\ orderly' \in BOOLEAN /\ (orderly' => orderly)
      /\ ~overlapped' => ~overlapped /\ \A k \in DOMAIN pending : k # i => pending[k].pc = "sent"
  BY <1>1, <1>2, StartsAlone
<1>4. PICK read : read = (profile.status \in {"FREE", "INCOMPLETE"})
  OBVIOUS
<1>5. pending' \in Seq(EventRow) /\ \E m : Turns(m, i, "relating", read)
  <2>1. pending' = [pending EXCEPT ![i].pc = "relating", ![i].read = read]
    BY <1>4 DEF ReadProfile, Proceed
  <2>2. read \in BOOLEAN /\ "relating" \in Pcs
    BY <1>4 DEF Pcs
  <2>3. CASE read = TRUE
    <3>1. pending' = [pending EXCEPT ![i].pc = "relating", ![i].read = TRUE]
      BY <2>1, <2>3
    <3>2. pending' \in Seq(EventRow) /\ \E m : Turns(m, i, "relating", TRUE)
      BY <1>1, <1>3, <2>2, <3>1, TouchFollows
    <3> QED BY <2>3, <3>2
  <2>4. CASE read = FALSE
    <3>1. pending' = [pending EXCEPT ![i].pc = "relating", ![i].read = FALSE]
      BY <2>1, <2>4
    <3>2. pending' \in Seq(EventRow) /\ \E m : Turns(m, i, "relating", FALSE)
      BY <1>1, <1>3, <2>2, <3>1, TouchFollows
    <3> QED BY <2>4, <3>2
  <2> QED BY <2>2, <2>3, <2>4
<1>6. PICK m : Turns(m, i, "relating", read)
  BY <1>5
<1>8. read \in BOOLEAN
  BY <1>4
<1>7. SubTyped' /\ KeepLots /\ OrdersOwn' /\ \A s : Linkable(s)' = Linkable(s)
  BY <1>1, <1>2, <1>3, <1>5 DEF SubTyped, KeepLots, OrdersOwn, Linkable
<1> QED BY <1>2, <1>3, <1>6, <1>7, <1>8, Handled DEF Pcs

\* ... so does the relation of the profile ...
LEMMA RelateProfileHolds ==
  ASSUME Unconditional, NEW i, RelateProfile(i) PROVE Unconditional'
<1>1. SubTyped /\ OrdersOwn /\ StripeOk /\ EventsTold
  BY DEF Unconditional, LinkedOk, ToldOk
<1>2. Runs(i, "relating") /\ UNCHANGED <<stripe, orders, lots, request>>
  BY DEF RelateProfile
<1>3. /\ i \in DOMAIN pending /\ pending[i].type = "completed"
      /\ overlapped' \in BOOLEAN /\ orderly' \in BOOLEAN /\ (orderly' => orderly)
      /\ ~overlapped' => ~overlapped /\ \A k \in DOMAIN pending : k # i => pending[k].pc = "sent"
  BY <1>2, RunsAlone DEF Pcs
<1>4. pending' = [pending EXCEPT ![i].pc = "marking", ![i].read = FALSE]
  BY DEF RelateProfile, Proceed
<1>5. pending' \in Seq(EventRow) /\ \E m : Turns(m, i, "marking", FALSE)
  BY <1>1, <1>3, <1>4, TouchFollows DEF Pcs
<1>6. PICK m : Turns(m, i, "marking", FALSE)
  BY <1>5
<1>7. profile' \in ProfileRow /\ profile'.sub = pending[i].sub
  <2>1. profile \in ProfileRow /\ pending[i].sub \in Subs
    BY <1>1, <1>3, EventOfSub DEF SubTyped
  <2>2. profile' = [status |-> IF pending[i].read THEN "INCOMPLETE" ELSE profile.status,
                    sub |-> pending[i].sub, plan |-> pending[i].sub,
                    flag |-> profile.flag, period |-> profile.period]
    BY <2>1 DEF RelateProfile, ProfileRow
  <2> QED BY <2>1, <2>2 DEF ProfileRow
<1>8. SubTyped' /\ KeepLots /\ OrdersOwn' /\ \A s : Linkable(s)' = Linkable(s)
  BY <1>1, <1>2, <1>3, <1>5, <1>7 DEF SubTyped, KeepLots, OrdersOwn, Linkable
<1> QED BY <1>2, <1>3, <1>6, <1>7, <1>8, Handled DEF Pcs

\* ... the completion of the order ...
LEMMA MarkCompletedHolds ==
  ASSUME Unconditional, NEW i, MarkCompleted(i) PROVE Unconditional'
<1>1. SubTyped /\ OrdersOwn /\ StripeOk /\ EventsTold
  BY DEF Unconditional, LinkedOk, ToldOk
<1>2. Runs(i, "marking") /\ UNCHANGED <<stripe, profile, lots, request>>
  BY DEF MarkCompleted
<1>3. /\ i \in DOMAIN pending /\ pending[i].type = "completed"
      /\ overlapped' \in BOOLEAN /\ orderly' \in BOOLEAN /\ (orderly' => orderly)
      /\ ~overlapped' => ~overlapped /\ \A k \in DOMAIN pending : k # i => pending[k].pc = "sent"
  BY <1>2, RunsAlone DEF Pcs
<1>4. pending' = [pending EXCEPT ![i].pc = "linking", ![i].read = FALSE]
  BY DEF MarkCompleted, Proceed
<1>5. pending' \in Seq(EventRow) /\ \E m : Turns(m, i, "linking", FALSE)
  BY <1>1, <1>3, <1>4, TouchFollows DEF Pcs
<1>6. PICK m : Turns(m, i, "linking", FALSE)
  BY <1>5
<1>7. /\ orders' \in [Subs -> [status : {"none", "PENDING", "COMPLETED"}, lot : Keys \cup {None}]]
      /\ \A s \in Subs : orders'[s].lot = orders[s].lot /\ (s # pending[i].sub => orders'[s] = orders[s])
  BY <1>1 DEF MarkCompleted, SubTyped
<1>8. SubTyped' /\ KeepLots /\ OrdersOwn' /\ \A s \in Subs : s # pending[i].sub => Linkable(s)' = Linkable(s)
  BY <1>1, <1>2, <1>3, <1>5, <1>7 DEF SubTyped, KeepLots, OrdersOwn, Linkable
<1> QED BY <1>2, <1>3, <1>6, <1>8, Handled DEF Pcs

\* ... and its link.
LEMMA LinkSessionHolds ==
  ASSUME Unconditional, NEW i, LinkSession(i) PROVE Unconditional'
<1>1. SubTyped /\ OrdersOwn /\ StripeOk /\ EventsTold /\ OneCurrent
  BY DEF Unconditional, LinkedOk, ToldOk
<1>2. Runs(i, "linking") /\ Ends(i) /\ UNCHANGED <<stripe, profile, lots, request>>
  BY DEF LinkSession
<1>3. /\ i \in DOMAIN pending /\ pending[i].type = "completed"
      /\ overlapped' \in BOOLEAN /\ orderly' \in BOOLEAN /\ (orderly' => orderly)
      /\ ~overlapped' => ~overlapped /\ \A k \in DOMAIN pending : k # i => pending[k].pc = "sent"
  BY <1>2, RunsAlone DEF Pcs
<1>5. pending' \in Seq(EventRow) /\ \E m : Turns(m, i, "sent", FALSE)
  BY <1>1, <1>2, <1>3, EndFollows
<1>6. PICK m : Turns(m, i, "sent", FALSE)
  BY <1>5
<1>7. PICK s \in Subs : s = pending[i].sub
  BY <1>1, <1>3, EventOfSub
<1>8. PICK current : current = {k \in DOMAIN lots : lots[k].key \in {s} \X Periods /\ lots[k].current}
  OBVIOUS
<1>9. orders' = [orders EXCEPT ![s].lot =
                   IF @ # None \/ current = {} THEN @
                   ELSE lots[CHOOSE k \in current : \A l \in current : l <= k].key]
  BY <1>7, <1>8, SMTT(60) DEF LinkSession
<1>17. PICK newest : newest = CHOOSE k \in current : \A l \in current : l <= k
  OBVIOUS
<1>10. PICK lot : lot = IF orders[s].lot # None \/ current = {} THEN orders[s].lot
                        ELSE lots[newest].key
  OBVIOUS
<1>16. orders[s].lot = None /\ current # {} => lot \in {s} \X Periods
  <2> SUFFICES ASSUME orders[s].lot = None, current # {},
                      lot = lots[newest].key
               PROVE  lot \in {s} \X Periods
    BY <1>10
  <2>1. PICK k \in current : TRUE
    OBVIOUS
  <2>2. k \in DOMAIN lots /\ \A l \in current : l = k
    BY <1>1, <1>8, <2>1 DEF OneCurrent
  <2>3. k <= k
    BY <1>1, <2>2, LenProperties DEF SubTyped
  <2>4. newest \in current
    BY <1>17, <2>1, <2>2, <2>3
  <2> QED BY <1>8, <2>4
<1>11. lot # orders[s].lot => lot \in {s} \X Periods
  BY <1>10, <1>16
<1>12. lot \in Keys \cup {None}
  BY <1>1, <1>7, <1>11 DEF Keys, SubTyped
<1>13. /\ orders' \in [Subs -> [status : {"none", "PENDING", "COMPLETED"}, lot : Keys \cup {None}]]
       /\ orders'[s].lot = lot /\ \A t \in Subs : t # s => orders'[t] = orders[t]
  <2>1. orders' = [orders EXCEPT ![s].lot = lot]
    BY <1>9, <1>10, <1>17
  <2> QED BY <1>1, <1>12, <2>1 DEF SubTyped
<1>14. SubTyped' /\ KeepLots /\ OrdersOwn'
  BY <1>1, <1>2, <1>3, <1>5, <1>11, <1>13 DEF SubTyped, KeepLots, OrdersOwn
<1>15. ASSUME NEW t \in Subs, Linkable(t)'
       PROVE  \/ Linkable(t) /\ ~(pending[i].sub = t)
              \/ \A k \in DOMAIN lots : lots[k].current => lots[k].key \notin {t} \X Periods
  <2>1. CASE t # s
    BY <1>7, <1>13, <1>15, <2>1 DEF Linkable
  <2>2. CASE t = s
    <3>1. lot = None
      BY <1>13, <1>15, <2>2 DEF Linkable
    <3>2. orders[s].lot = None
      BY <1>11, <3>1, NamesApart
    <3>3. current = {}
      BY <1>16, <3>1, <3>2, NamesApart
    <3> QED BY <1>8, <2>2, <3>3
  <2> QED BY <2>1, <2>2
<1> QED BY <1>2, <1>3, <1>6, <1>14, <1>15, Handled DEF Pcs

\* The locks and reads of handleInvoicePaid keep it.
LEMMA LockProfileHolds ==
  ASSUME Unconditional, NEW i, LockProfile(i) PROVE Unconditional'
<1>1. SubTyped /\ OrdersOwn /\ StripeOk /\ EventsTold
  BY DEF Unconditional, LinkedOk, ToldOk
<1>2. Starts(i, "paid") /\ ~Locked /\ UNCHANGED <<stripe, profile, orders, lots, request>>
  BY DEF LockProfile
<1>3. /\ i \in DOMAIN pending /\ pending[i].type = "paid"
      /\ overlapped' \in BOOLEAN /\ orderly' \in BOOLEAN /\ (orderly' => orderly)
      /\ ~overlapped' => ~overlapped /\ \A k \in DOMAIN pending : k # i => pending[k].pc = "sent"
  BY <1>1, <1>2, StartsAlone
<1>4. KeepLots /\ OrdersOwn' /\ \A s : Linkable(s)' = Linkable(s)
  BY <1>1, <1>2 DEF KeepLots, OrdersOwn, Linkable
<1>5. CASE HasLot(<<pending[i].sub, pending[i].period>>) /\ Ends(i)
  <2>1. pending' \in Seq(EventRow) /\ \E m : Turns(m, i, "sent", FALSE)
    BY <1>1, <1>3, <1>5, EndFollows
  <2>2. PICK m : Turns(m, i, "sent", FALSE)
    BY <2>1
  <2>3. SubTyped'
    BY <1>1, <1>2, <1>3, <2>1 DEF SubTyped
  <2> QED BY <1>2, <1>3, <1>4, <1>5, <2>2, <2>3, Handled DEF Pcs
<1>6. CASE /\ ~HasLot(<<pending[i].sub, pending[i].period>>)
           /\ Proceed(i, "registering", Linkable(pending[i].sub))
  <2>1. PICK read : read = Linkable(pending[i].sub)
    OBVIOUS
  <2>2. read \in BOOLEAN
    BY <2>1 DEF Linkable
  <2>3. pending' = [pending EXCEPT ![i].pc = "registering", ![i].read = read]
    BY <1>6, <2>1 DEF Proceed
  <2>4. "registering" \in Pcs
    BY DEF Pcs
  <2>5. pending' \in Seq(EventRow) /\ \E m : Turns(m, i, "registering", read)
    <3>3. CASE read = TRUE
      <4>1. pending' = [pending EXCEPT ![i].pc = "registering", ![i].read = TRUE]
        BY <2>3, <3>3
      <4>2. pending' \in Seq(EventRow) /\ \E m : Turns(m, i, "registering", TRUE)
        BY <1>1, <1>3, <2>4, <4>1, TouchFollows
      <4> QED BY <3>3, <4>2
    <3>4. CASE read = FALSE
      <4>1. pending' = [pending EXCEPT ![i].pc = "registering", ![i].read = FALSE]
        BY <2>3, <3>4
      <4>2. pending' \in Seq(EventRow) /\ \E m : Turns(m, i, "registering", FALSE)
        BY <1>1, <1>3, <2>4, <4>1, TouchFollows
      <4> QED BY <3>4, <4>2
    <3> QED BY <2>2, <3>3, <3>4
  <2>6. PICK m : Turns(m, i, "registering", read)
    BY <2>5
  <2>7. SubTyped'
    BY <1>1, <1>2, <1>3, <2>5 DEF SubTyped
  <2>8. \A s \in Subs : s = pending[i].sub => read = Linkable(s)'
    BY <1>4, <2>1
  <2> QED BY <1>2, <1>3, <1>4, <1>6, <2>2, <2>4, <2>6, <2>7, <2>8, Handled
<1> QED BY <1>5, <1>6 DEF LockProfile

\* So does handleInvoicePaymentFailed ...
LEMMA PaymentFailedHolds ==
  ASSUME Unconditional, NEW i, PaymentFailed(i) PROVE Unconditional'
<1>1. SubTyped /\ OrdersOwn /\ StripeOk /\ EventsTold
  BY DEF Unconditional, LinkedOk, ToldOk
<1>2. Starts(i, "payment_failed") /\ Ends(i) /\ UNCHANGED <<stripe, orders, lots, request>>
  BY DEF PaymentFailed
<1>3. /\ i \in DOMAIN pending /\ pending[i].type = "payment_failed"
      /\ overlapped' \in BOOLEAN /\ orderly' \in BOOLEAN /\ (orderly' => orderly)
      /\ ~overlapped' => ~overlapped /\ \A k \in DOMAIN pending : k # i => pending[k].pc = "sent"
  BY <1>1, <1>2, StartsAlone
<1>4. KeepLots /\ OrdersOwn' /\ \A s : Linkable(s)' = Linkable(s)
  BY <1>1, <1>2 DEF KeepLots, OrdersOwn, Linkable
<1>5. pending' \in Seq(EventRow) /\ \E m : Turns(m, i, "sent", FALSE)
  BY <1>1, <1>2, <1>3, EndFollows
<1>6. PICK m : Turns(m, i, "sent", FALSE)
  BY <1>5
<1>7. profile' \in ProfileRow /\ profile'.sub = profile.sub
  BY <1>1 DEF PaymentFailed, SubTyped, ProfileRow
<1>8. SubTyped'
  BY <1>1, <1>2, <1>3, <1>5, <1>7 DEF SubTyped
<1> QED BY <1>2, <1>3, <1>4, <1>6, <1>7, <1>8, Handled DEF Pcs

\* ... the read of handleSubscriptionUpdated ...
LEMMA ReadBeforeSyncHolds ==
  ASSUME Unconditional, NEW i, ReadBeforeSync(i) PROVE Unconditional'
<1>1. SubTyped /\ OrdersOwn /\ StripeOk /\ EventsTold
  BY DEF Unconditional, LinkedOk, ToldOk
<1>2. Starts(i, "updated") /\ UNCHANGED <<stripe, profile, orders, lots, request>>
  BY DEF ReadBeforeSync
<1>3. /\ i \in DOMAIN pending /\ pending[i].type = "updated"
      /\ overlapped' \in BOOLEAN /\ orderly' \in BOOLEAN /\ (orderly' => orderly)
      /\ ~overlapped' => ~overlapped /\ \A k \in DOMAIN pending : k # i => pending[k].pc = "sent"
  BY <1>1, <1>2, StartsAlone
<1>4. KeepLots /\ OrdersOwn' /\ \A s : Linkable(s)' = Linkable(s)
  BY <1>1, <1>2 DEF KeepLots, OrdersOwn, Linkable
<1>5. PICK at \in {"sent", "syncing"} : pending' \in Seq(EventRow) /\ \E m : Turns(m, i, at, FALSE)
  <2>1. CASE Ends(i)
    BY <1>1, <1>3, <2>1, EndFollows
  <2>2. CASE Proceed(i, "syncing", FALSE)
    BY <1>1, <1>3, <2>2, TouchFollows DEF Pcs, Proceed
  <2> QED BY <2>1, <2>2 DEF ReadBeforeSync
<1>6. PICK m : Turns(m, i, at, FALSE)
  BY <1>5
<1>8. SubTyped'
  BY <1>1, <1>2, <1>3, <1>5 DEF SubTyped
<1> QED BY <1>2, <1>3, <1>4, <1>6, <1>8, Handled DEF Pcs

\* ... and its write.
LEMMA SyncProfileHolds ==
  ASSUME Unconditional, NEW i, SyncProfile(i) PROVE Unconditional'
<1>1. SubTyped /\ OrdersOwn /\ StripeOk /\ EventsTold
  BY DEF Unconditional, LinkedOk, ToldOk
<1>2. Runs(i, "syncing") /\ Ends(i) /\ UNCHANGED <<stripe, orders, lots, request>>
  BY DEF SyncProfile
<1>3. /\ i \in DOMAIN pending /\ pending[i].type = "updated"
      /\ overlapped' \in BOOLEAN /\ orderly' \in BOOLEAN /\ (orderly' => orderly)
      /\ ~overlapped' => ~overlapped /\ \A k \in DOMAIN pending : k # i => pending[k].pc = "sent"
  BY <1>2, RunsAlone DEF Pcs
<1>4. KeepLots /\ OrdersOwn' /\ \A s : Linkable(s)' = Linkable(s)
  BY <1>1, <1>2 DEF KeepLots, OrdersOwn, Linkable
<1>5. pending' \in Seq(EventRow) /\ \E m : Turns(m, i, "sent", FALSE)
  BY <1>1, <1>2, <1>3, EndFollows
<1>6. PICK m : Turns(m, i, "sent", FALSE)
  BY <1>5
<1>7. profile' \in ProfileRow /\ profile'.sub = pending[i].sub
  <2>1. PICK e \in EventRow : /\ e = pending[i] /\ e.sub \in Subs /\ <<e.sub, e.period>> \in Keys
    BY <1>1, <1>3, EventOfSub
  <2>2. profile' = [status |-> ToProfileStatus(e.status), sub |-> e.sub, plan |-> e.sub,
                    flag |-> e.flag, period |-> <<e.sub, e.period>>]
    BY <2>1 DEF SyncProfile
  <2>3. ToProfileStatus(e.status) \in {"ACTIVE", "PAST_DUE", "CANCELED"} /\ e.flag \in BOOLEAN
    BY <2>1 DEF ToProfileStatus, EventRow
  <2> QED BY <2>1, <2>2, <2>3 DEF ProfileRow
<1>8. SubTyped'
  BY <1>1, <1>2, <1>3, <1>5, <1>7 DEF SubTyped
<1> QED BY <1>2, <1>3, <1>4, <1>6, <1>7, <1>8, Handled DEF Pcs

\* The profile on the free plan is a profile.
LEMMA FreeProfileRow ==
  ASSUME SubTyped
  PROVE  /\ FreeProfile \in ProfileRow /\ FreeProfile.sub = profile.sub /\ FreeProfile.status = "FREE"
         /\ FreeProfile.plan = "free" /\ FreeProfile.flag = FALSE /\ FreeProfile.period = None
<1>1. profile \in ProfileRow
  BY DEF SubTyped
<1>2. /\ FreeProfile \in ProfileRow /\ FreeProfile.sub = profile.sub /\ FreeProfile.status = "FREE"
      /\ FreeProfile.plan = "free" /\ FreeProfile.flag = FALSE /\ FreeProfile.period = None
  BY <1>1 DEF FreeProfile, ProfileRow
<1> QED BY <1>2

\* The end of a subscription keeps it.
LEMMA FinalizeHolds ==
  ASSUME Unconditional, NEW i, Finalize(i) PROVE Unconditional'
<1>1. SubTyped /\ OrdersOwn /\ StripeOk /\ EventsTold
  BY DEF Unconditional, LinkedOk, ToldOk
<1>2. Starts(i, "deleted") /\ Ends(i) /\ UNCHANGED <<stripe, orders, request>>
  BY DEF Finalize
<1>3. /\ i \in DOMAIN pending /\ pending[i].type = "deleted"
      /\ overlapped' \in BOOLEAN /\ orderly' \in BOOLEAN /\ (orderly' => orderly)
      /\ ~overlapped' => ~overlapped /\ \A k \in DOMAIN pending : k # i => pending[k].pc = "sent"
  BY <1>1, <1>2, StartsAlone
<1>5. pending' \in Seq(EventRow) /\ \E m : Turns(m, i, "sent", FALSE)
  BY <1>1, <1>2, <1>3, EndFollows
<1>6. PICK m : Turns(m, i, "sent", FALSE)
  BY <1>5
<1>7. profile' \in ProfileRow /\ profile'.sub = profile.sub
  <2>1. profile' \in {profile, FreeProfile}
    BY DEF Finalize
  <2> QED BY <1>1, <2>1, FreeProfileRow DEF SubTyped
<1>8. lots' \in Seq(LotRow) /\ KeepLots
  <2>1. CASE lots' = lots
    BY <1>1, <2>1 DEF KeepLots, SubTyped
  <2>2. CASE \E last : lots' = [lots EXCEPT ![last].open = FALSE]
    <3>1. PICK last : lots' = [lots EXCEPT ![last].open = FALSE]
      BY <2>2
    <3>2. lots \in [1..Len(lots) -> LotRow] /\ Len(lots) \in Nat
      BY <1>1, LenProperties DEF SubTyped
    <3>3. \A r \in LotRow : /\ [r EXCEPT !.open = FALSE] \in LotRow
                            /\ [r EXCEPT !.open = FALSE].key = r.key
                            /\ [r EXCEPT !.open = FALSE].current = r.current
      BY DEF LotRow
    <3>4. lots' \in [1..Len(lots) -> LotRow]
      BY <3>1, <3>2, <3>3
    <3>5. lots' \in Seq(LotRow)
      BY <3>2, <3>4, SeqDef
    <3>6. KeepLots
      BY <3>1, <3>2, <3>3 DEF KeepLots
    <3> QED BY <3>5, <3>6
  <2> QED BY <2>1, <2>2 DEF Finalize
<1>9. OrdersOwn' /\ \A s : Linkable(s)' = Linkable(s)
  BY <1>1, <1>2 DEF OrdersOwn, Linkable
<1>10. SubTyped'
  BY <1>1, <1>2, <1>3, <1>5, <1>7, <1>8 DEF SubTyped
<1> QED BY <1>2, <1>3, <1>6, <1>7, <1>8, <1>9, <1>10, Handled DEF Pcs

\* An event told again, or whose handler fails, keeps it.
LEMMA RepeatHolds ==
  ASSUME Unconditional, NEW i, Redeliver(i) \/ Fail(i) PROVE Unconditional'
<1>1. SubTyped /\ i \in DOMAIN pending
      /\ UNCHANGED <<stripe, profile, orders, lots, request, orderly, overlapped>>
  BY DEF Unconditional, Redeliver, Fail
<1>2. pending' \in Seq(EventRow) /\ \E m : Repeats(m, i)
  BY <1>1, RepeatFollows, FailFollows DEF Redeliver, Fail
<1>3. PICK m : Repeats(m, i)
  BY <1>2
<1>4. SubTyped'
  BY <1>1, <1>2 DEF SubTyped
<1> QED BY <1>1, <1>3, <1>4, RepeatedHolds

\* An event that is lost keeps it, and is not missed once they are out of order.
LEMMA LoseHolds ==
  ASSUME Unconditional, NEW i, Lose(i) PROVE Unconditional'
<1>1. SubTyped /\ OrdersOwn
  BY DEF Unconditional, LinkedOk
<1>2. /\ i \in DOMAIN pending /\ pending' = RemoveAt(pending, i)
      /\ orderly' = FALSE /\ overlapped' = TRUE
      /\ UNCHANGED <<stripe, profile, orders, lots, request>>
  BY DEF Lose
<1>3. pending' \in Seq(EventRow) /\ \E m : Turns(m, i, "sent", FALSE)
  BY <1>1, <1>2, DropFollows
<1>4. PICK m : Turns(m, i, "sent", FALSE)
  BY <1>3
<1>5. SubTyped' /\ KeepLots /\ OrdersOwn'
  BY <1>1, <1>2, <1>3 DEF SubTyped, KeepLots, OrdersOwn
<1> QED BY <1>2, <1>4, <1>5, Handled DEF Pcs

\* The profile of a plan in force.
LEMMA ActivatedRow ==
  ASSUME SubTyped, NEW plan \in Subs \cup Folios, NEW key \in Keys, NEW a, a = Activated(plan, key)
  PROVE  /\ a \in ProfileRow /\ a.status = "ACTIVE" /\ a.plan = plan /\ a.period = key
         /\ a.sub = profile.sub /\ a.flag = profile.flag
<1>1. profile \in ProfileRow
  BY DEF SubTyped
<1> QED BY <1>1 DEF Activated, ProfileRow

\* What a registered period does to the profile and the order of its subscription.
LEMMA CommitWrites ==
  ASSUME Unconditional, NEW i, CommitPeriod(i), NEW s \in Subs, s = pending[i].sub,
         NEW key \in Keys, key = <<s, pending[i].period>>
  PROVE  /\ Issue(key)
         /\ profile' \in ProfileRow /\ profile'.status = "ACTIVE" /\ profile'.sub = s
         /\ profile'.plan = s /\ profile'.period = key /\ profile'.flag = profile.flag
         /\ orders' \in [Subs -> [status : {"none", "PENDING", "COMPLETED"}, lot : Keys \cup {None}]]
         /\ orders'[s].status = orders[s].status
         /\ orders'[s].lot = IF pending[i].read THEN key ELSE orders[s].lot
         /\ \A t \in Subs : t # s => orders'[t] = orders[t]
<1>1. SubTyped
  BY DEF Unconditional
<1>2. Issue(key) /\ profile' = [Activated(s, key) EXCEPT !.sub = s]
      /\ orders' = [orders EXCEPT ![s].lot = IF pending[i].read THEN key ELSE @]
  BY DEF CommitPeriod
<1>3. PICK a : a = Activated(s, key)
  OBVIOUS
<1>4. /\ a \in ProfileRow /\ a.status = "ACTIVE" /\ a.plan = s /\ a.period = key
      /\ a.sub = profile.sub /\ a.flag = profile.flag
  BY <1>1, <1>3, ActivatedRow
<1>5. /\ profile' \in ProfileRow /\ profile'.status = "ACTIVE" /\ profile'.sub = s
      /\ profile'.plan = s /\ profile'.period = key /\ profile'.flag = profile.flag
  <2>1. profile' = [a EXCEPT !.sub = s]
    BY <1>2, <1>3
  <2> QED BY <1>4, <2>1 DEF ProfileRow
<1>6. PICK lot : lot = IF pending[i].read THEN key ELSE orders[s].lot
  OBVIOUS
<1>7. orders' = [orders EXCEPT ![s].lot = lot] /\ lot \in Keys \cup {None}
  BY <1>1, <1>2, <1>6 DEF SubTyped
<1>8. /\ orders' \in [Subs -> [status : {"none", "PENDING", "COMPLETED"}, lot : Keys \cup {None}]]
      /\ orders'[s].status = orders[s].status /\ orders'[s].lot = lot
      /\ \A t \in Subs : t # s => orders'[t] = orders[t]
  BY <1>1, <1>7 DEF SubTyped
<1> QED BY <1>2, <1>5, <1>6, <1>8

\* A new lot of a key that had none.
LEMMA IssueHolds ==
  ASSUME Unconditional, SubTyped', NEW key \in Keys, Issue(key), ~HasLot(key), UNCHANGED stripe,
         \A s \in Subs, p \in Periods : key = <<s, p>> => p \in stripe[s].paid
  PROVE  /\ LotsTold' /\ BilledOnce' /\ OneCurrent'
         /\ \A k \in DOMAIN lots' : lots'[k].current => lots'[k].key = key
         /\ \A l : HasLot(l)' <=> HasLot(l) \/ l = key
<1>1. SubTyped /\ LotsTold /\ BilledOnce
  BY DEF Unconditional, ToldOk, BilledOk
<1>2. /\ lots'[Len(lots) + 1].key = key
      /\ \A k \in DOMAIN lots : lots'[k].key = lots[k].key /\ ~lots'[k].current
      /\ DOMAIN lots' = DOMAIN lots \cup {Len(lots) + 1} /\ Len(lots) + 1 \notin DOMAIN lots
  <2>1. /\ lots'[Len(lots) + 1] = [key |-> key, current |-> TRUE, open |-> TRUE]
        /\ \A k \in DOMAIN lots : lots'[k].key = lots[k].key /\ ~lots'[k].current
        /\ DOMAIN lots' = DOMAIN lots \cup {Len(lots) + 1} /\ Len(lots) + 1 \notin DOMAIN lots
    BY ONLY <1>1, Issue(key), key \in Keys, Issued
  <2> QED BY <2>1
<1>3. LotsTold'
  BY <1>1, <1>2 DEF LotsTold
<1>4. \A l : HasLot(l)' <=> HasLot(l) \/ l = key
  BY <1>2 DEF HasLot
<1>5. BilledOnce'
  BY <1>1, <1>2 DEF BilledOnce, HasLot
<1> QED BY <1>2, <1>3, <1>4, <1>5 DEF OneCurrent

\* The commit of handleInvoicePaid keeps it: the lot is the first of its period.
LEMMA CommitPeriodHolds ==
  ASSUME Unconditional, NEW i, CommitPeriod(i) PROVE Unconditional'
<1>0. /\ SubTyped /\ StripeOk /\ EventsTold /\ LotsTold /\ ProfileTold /\ OneCurrent /\ BilledOnce
      /\ OneRegisters /\ RegistersNew /\ PaidBilled /\ OrdersOwn
      /\ ~overlapped => OneRuns /\ ReadsHold /\ LinkComing
  BY DEF Unconditional, ToldOk, BilledOk, LinkedOk
<1>1. Runs(i, "registering") /\ Ends(i) /\ UNCHANGED <<stripe, request>>
  BY DEF CommitPeriod
<1>2. /\ i \in DOMAIN pending /\ pending[i].type = "paid" /\ pending[i].pc = "registering"
      /\ overlapped' \in BOOLEAN /\ orderly' \in BOOLEAN /\ (orderly' => orderly)
      /\ ~overlapped' => ~overlapped /\ \A k \in DOMAIN pending : k # i => pending[k].pc = "sent"
  BY <1>1, RunsAlone DEF Pcs
<1>3. PICK s \in Subs : s = pending[i].sub
  BY <1>0, <1>2, EventOfSub
<1>4. PICK p \in Periods : p = pending[i].period
  BY <1>0, <1>2, EventOfSub
<1>5. PICK key \in Keys : key = <<s, p>>
  BY <1>3, <1>4 DEF Keys
<1>6. /\ Issue(key) /\ profile' \in ProfileRow /\ profile'.sub = s
      /\ orders' \in [Subs -> [status : {"none", "PENDING", "COMPLETED"}, lot : Keys \cup {None}]]
      /\ orders'[s].status = orders[s].status
      /\ orders'[s].lot = IF pending[i].read THEN key ELSE orders[s].lot
      /\ \A t \in Subs : t # s => orders'[t] = orders[t]
  BY <1>3, <1>4, <1>5, CommitWrites
<1>7. pending' \in Seq(EventRow) /\ \E m : Turns(m, i, "sent", FALSE)
  BY <1>0, <1>1, <1>2, EndFollows
<1>8. PICK m : Turns(m, i, "sent", FALSE)
  BY <1>7
<1>9. lots' \in Seq(LotRow)
  BY <1>0, <1>6, Issued
<1>10. SubTyped'
  BY <1>0, <1>1, <1>2, <1>6, <1>7, <1>9 DEF SubTyped
<1>11. ~HasLot(key) /\ p \in stripe[s].paid
  BY <1>0, <1>2, <1>3, <1>4, <1>5 DEF RegistersNew, EventsTold
<1>12. /\ LotsTold' /\ BilledOnce' /\ OneCurrent'
       /\ \A k \in DOMAIN lots' : lots'[k].current => lots'[k].key = key
       /\ \A l : HasLot(l)' <=> HasLot(l) \/ l = key
  BY <1>1, <1>5, <1>6, <1>10, <1>11, IssueHolds
<1>13. /\ Follows(m, i) /\ \A j \in DOMAIN pending' : m[j] = i => pending'[j].pc = "sent"
       /\ \A j \in DOMAIN pending' : m[j] # i => m[j] \in DOMAIN pending /\ pending'[j] = pending[m[j]]
       /\ \A j \in DOMAIN pending' : Same(pending'[j], pending[m[j]])
       /\ \A k \in DOMAIN pending : k # i => \E j \in DOMAIN pending' : m[j] = k
  BY <1>8 DEF Turns, Follows
<1>14. EventsTold'
  <2>1. \A j \in DOMAIN pending' : m[j] = i => EventOk(pending'[j])
    BY <1>0, <1>2, <1>13 DEF EventsTold, EventOk, Same
  <2> QED BY <1>0, <1>1, <1>13, <2>1, FollowedTold
<1>15. StripeOk' /\ ProfileTold'
  BY <1>0, <1>1, <1>2, <1>3, <1>6, EventOfSub DEF StripeOk, ProfileTold
<1>16. OneRegisters' /\ RegistersNew'
  <2>1. \A j \in DOMAIN pending' : pending'[j].pc # "registering"
    BY <1>0, <1>2, <1>13 DEF OneRegisters
  <2> QED BY <2>1 DEF OneRegisters, RegistersNew
<1>17. PaidBilled'
  <2> SUFFICES ASSUME orderly', NEW t \in Subs, NEW q \in Periods, q \in stripe[t].paid, ~HasLot(<<t, q>>)'
               PROVE  \E j \in DOMAIN pending' : Paying(j, t, q)'
    BY <1>1 DEF PaidBilled
  <2>1. ~HasLot(<<t, q>>) /\ <<t, q>> # <<s, p>>
    BY <1>5, <1>12
  <2>2. PICK k \in DOMAIN pending : Paying(k, t, q)
    BY <1>0, <1>2, <2>1 DEF PaidBilled
  <2>3. k # i
    BY <1>3, <1>4, <2>1, <2>2 DEF Paying
  <2>4. PICK j \in DOMAIN pending' : m[j] = k
    BY <1>13, <2>3
  <2> QED BY <1>13, <2>2, <2>3, <2>4 DEF Paying
<1>18. OrdersOwn'
  BY <1>0, <1>5, <1>6 DEF OrdersOwn
<1>19. ASSUME ~overlapped' PROVE OneRuns' /\ ReadsHold' /\ LinkComing'
  <2>1. \A j \in DOMAIN pending' : pending'[j].pc = "sent"
    BY <1>2, <1>13, <1>19
  <2>2. OneRuns' /\ ReadsHold'
    BY <2>1 DEF OneRuns, ReadsHold
  <2>3. LinkComing'
    <3> SUFFICES ASSUME NEW t \in Subs, NEW k \in DOMAIN lots', Linkable(t)', lots'[k].current,
                        lots'[k].key \in {t} \X Periods
                 PROVE  FALSE
      BY DEF LinkComing
    <3>1. t = s
      BY <1>5, <1>12
    <3>2. orders'[s].status = "COMPLETED" /\ orders'[s].lot = None
      BY <3>1 DEF Linkable
    <3>3. ~pending[i].read /\ orders[s].lot = None
      BY <1>6, <3>2, NamesApart
    <3>4. Linkable(s)
      BY <1>6, <3>2, <3>3 DEF Linkable
    <3>5. pending[i].read = Linkable(s)
      BY <1>0, <1>2, <1>3, <1>19 DEF ReadsHold
    <3> QED BY <3>3, <3>4, <3>5
  <2> QED BY <2>2, <2>3
<1> QED BY <1>10, <1>12, <1>14, <1>15, <1>16, <1>17, <1>18, <1>19 DEF Unconditional, ToldOk, BilledOk, LinkedOk

\* So does a period billed by hand.
LEMMA RegisterManualHolds ==
  ASSUME Unconditional, NEW f \in Folios, RegisterManual(f) PROVE Unconditional'
<1>0. /\ SubTyped /\ StripeOk /\ EventsTold /\ LotsTold /\ ProfileTold /\ OneCurrent /\ BilledOnce
      /\ OneRegisters /\ RegistersNew /\ PaidBilled /\ OrdersOwn
      /\ ~overlapped => OneRuns /\ ReadsHold /\ LinkComing
  BY DEF Unconditional, ToldOk, BilledOk, LinkedOk
<1>1. /\ ~Locked /\ ~HasLot(f) /\ Issue(f) /\ profile' = [Activated(f, f) EXCEPT !.flag = FALSE]
      /\ orderly' = FALSE /\ UNCHANGED <<stripe, pending, orders, request, failures, overlapped>>
  BY DEF RegisterManual
<1>2. f \in Keys
  BY DEF Keys
<1>3. profile' \in ProfileRow /\ profile'.sub = profile.sub
  <2>1. PICK a : a = Activated(f, f)
    OBVIOUS
  <2>2. a \in ProfileRow /\ a.sub = profile.sub
    BY <1>0, <1>2, <2>1, ActivatedRow
  <2>3. profile' = [a EXCEPT !.flag = FALSE]
    BY <1>1, <2>1
  <2> QED BY <2>2, <2>3 DEF ProfileRow
<1>4. SubTyped'
  BY <1>0, <1>1, <1>2, <1>3, Issued DEF SubTyped
<1>5. \A s \in Subs, p \in Periods : f # <<s, p>>
  BY NamesApart
<1>6. /\ LotsTold' /\ BilledOnce' /\ OneCurrent'
      /\ \A k \in DOMAIN lots' : lots'[k].current => lots'[k].key = f
      /\ \A l : HasLot(l)' <=> HasLot(l) \/ l = f
  BY <1>1, <1>2, <1>4, <1>5, IssueHolds
<1>7. StripeOk' /\ EventsTold' /\ ProfileTold' /\ OrdersOwn'
  BY <1>0, <1>1, <1>3 DEF StripeOk, EventsTold, ProfileTold, OrdersOwn
<1>8. OneRegisters' /\ RegistersNew'
  BY <1>1 DEF Locked, OneRegisters, RegistersNew
<1>9. PaidBilled'
  BY <1>1 DEF PaidBilled
<1>10. ~overlapped' => OneRuns' /\ ReadsHold'
  BY <1>0, <1>1 DEF OneRuns, ReadsHold, Linkable
<1>11. LinkComing'
  BY <1>6, NamesApart DEF LinkComing
<1> QED BY <1>4, <1>6, <1>7, <1>8, <1>9, <1>10, <1>11 DEF Unconditional, ToldOk, BilledOk, LinkedOk

\* Whatever writes only the flag of the profile, the request or an order not yet completed.
LEMMA AsideHolds ==
  ASSUME Unconditional, SubTyped', UNCHANGED <<stripe, pending, lots, orderly, overlapped>>,
         profile'.sub = profile.sub, \A s \in Subs : orders'[s].lot = orders[s].lot /\ (Linkable(s)' <=> Linkable(s))
  PROVE  Unconditional'
<1>0. /\ SubTyped /\ StripeOk /\ EventsTold /\ LotsTold /\ ProfileTold /\ OneCurrent /\ BilledOnce
      /\ OneRegisters /\ RegistersNew /\ PaidBilled /\ OrdersOwn
      /\ ~overlapped => OneRuns /\ ReadsHold /\ LinkComing
  BY DEF Unconditional, ToldOk, BilledOk, LinkedOk
<1>1. StripeOk' /\ EventsTold' /\ LotsTold' /\ ProfileTold' /\ OneCurrent' /\ BilledOnce' /\ OrdersOwn'
  BY <1>0 DEF StripeOk, EventsTold, LotsTold, ProfileTold, OneCurrent, BilledOnce, OrdersOwn
<1>2. OneRegisters' /\ RegistersNew' /\ PaidBilled'
  <2>1. OneRegisters' /\ RegistersNew'
    BY <1>0 DEF OneRegisters, RegistersNew, HasLot
  <2>2. PaidBilled'
    <3>1. \A key : HasLot(key)' <=> HasLot(key)
      BY DEF HasLot
    <3>2. \A j, s, p : Paying(j, s, p)' <=> Paying(j, s, p)
      BY DEF Paying
    <3> QED BY <1>0, <3>1, <3>2 DEF PaidBilled
  <2> QED BY <2>1, <2>2
<1>3. ~overlapped' => OneRuns' /\ LinkComing'
  BY <1>0 DEF OneRuns, LinkComing, Completing
<1>4. ~overlapped' => ReadsHold'
  <2> SUFFICES ASSUME ~overlapped, NEW i \in DOMAIN pending, pending[i].pc = "registering"
               PROVE  pending[i].read = Linkable(pending[i].sub)'
    BY DEF ReadsHold, Linkable
  <2>1. pending[i].sub \in Subs /\ pending[i].read = Linkable(pending[i].sub)
    BY <1>0, EventOfSub DEF ReadsHold
  <2> QED BY <2>1 DEF Linkable
<1> QED BY <1>1, <1>2, <1>3, <1>4 DEF Unconditional, ToldOk, BilledOk, LinkedOk

\* And the customer's requests.
LEMMA CustomerHolds ==
  ASSUME Unconditional,
         \/ \E s \in Subs : OpenCheckout(s)
         \/ \E op \in {"cancel", "resume"} : Ask(op)
         \/ CallStripe \/ WriteFlag
  PROVE  Unconditional'
<1>0. SubTyped /\ StripeOk
  BY DEF Unconditional
<1>1. CASE \E s \in Subs : OpenCheckout(s)
  <2>1. PICK s \in Subs : OpenCheckout(s)
    BY <1>1
  <2>2. /\ orders[s].status = "none" /\ orders' = [orders EXCEPT ![s].status = "PENDING"]
        /\ UNCHANGED <<stripe, pending, profile, lots, request, failures, orderly, overlapped>>
    BY <2>1 DEF OpenCheckout
  <2>3. /\ orders' \in [Subs -> [status : {"none", "PENDING", "COMPLETED"}, lot : Keys \cup {None}]]
        /\ orders'[s].status = "PENDING" /\ orders'[s].lot = orders[s].lot
        /\ \A t \in Subs : t # s => orders'[t] = orders[t]
    BY <1>0, <2>2 DEF SubTyped
  <2>4. SubTyped' /\ \A t \in Subs : orders'[t].lot = orders[t].lot /\ (Linkable(t)' <=> Linkable(t))
    BY <1>0, <2>2, <2>3 DEF SubTyped, Linkable
  <2> QED BY <2>2, <2>4, AsideHolds
<1>2. CASE \E op \in {"cancel", "resume"} : Ask(op)
  <2>1. PICK op \in {"cancel", "resume"} : Ask(op)
    BY <1>2
  <2>2. /\ request' = [op |-> op, sub |-> profile.sub, called |-> FALSE]
        /\ UNCHANGED <<stripe, pending, profile, orders, lots, failures, orderly, overlapped>>
    BY <2>1 DEF Ask
  <2>3. profile.sub \in Subs
    BY <1>0, <2>1 DEF Ask, SubTyped, ProfileRow
  <2>4. SubTyped' /\ \A t \in Subs : orders'[t].lot = orders[t].lot /\ (Linkable(t)' <=> Linkable(t))
    BY <1>0, <2>1, <2>2, <2>3 DEF SubTyped, Linkable
  <2> QED BY <2>2, <2>4, AsideHolds
<1>3. CASE CallStripe
  <2>1. UNCHANGED <<profile, orders, lots, failures, orderly, overlapped>>
    BY <1>3 DEF CallStripe
  <2>2. CASE Live(request.sub) /\ request.sub \in Subs
    <3>1. PICK x, types : /\ Moved(request.sub, x, types) /\ Tell(request.sub, x, types)
                          /\ request' = [request EXCEPT !.called = TRUE]
      BY <1>0, <1>3, <2>2, CallMoves
    <3>2. /\ request' \in [op : {"none", "cancel", "resume"}, sub : Subs \cup {None}, called : BOOLEAN]
          /\ request'.op # "none" => request'.sub \in Subs
          /\ orderly' \in BOOLEAN
      BY <1>0, <2>1, <2>2, <3>1 DEF SubTyped
    <3> QED BY <2>1, <3>1, <3>2, StripeTells
  <2>3. CASE ~Live(request.sub)
    <3>1. request' = NoRequest /\ UNCHANGED <<stripe, pending>>
      BY <1>3, <2>3 DEF CallStripe
    <3>2. SubTyped' /\ \A t \in Subs : orders'[t].lot = orders[t].lot /\ (Linkable(t)' <=> Linkable(t))
      BY <1>0, <2>1, <3>1 DEF SubTyped, Linkable, NoRequest
    <3> QED BY <2>1, <3>1, <3>2, AsideHolds
  <2>4. request.sub \in Subs
    BY <1>0, <1>3 DEF CallStripe, SubTyped
  <2> QED BY <2>2, <2>3, <2>4
<1>4. CASE WriteFlag
  <2>1. request' = NoRequest /\ UNCHANGED <<stripe, pending, orders, lots, orderly, overlapped>>
    BY <1>4 DEF WriteFlag
  <2>2. profile' \in ProfileRow /\ profile'.sub = profile.sub
    BY <1>0, <1>4 DEF WriteFlag, SubTyped, ProfileRow
  <2>3. SubTyped' /\ \A t \in Subs : orders'[t].lot = orders[t].lot /\ (Linkable(t)' <=> Linkable(t))
    BY <1>0, <2>1, <2>2 DEF SubTyped, Linkable, NoRequest
  <2> QED BY <2>1, <2>2, <2>3, AsideHolds
<1> QED BY <1>1, <1>2, <1>3, <1>4

\* The unconditional part is kept by every step ...
LEMMA UnconditionalStep == Unconditional /\ [SBNext]_SBvars => Unconditional'
<1> SUFFICES ASSUME Unconditional, [SBNext]_SBvars PROVE Unconditional'
  OBVIOUS
<1>0. SubTyped /\ StripeOk
  BY DEF Unconditional
<1>1. ASSUME NEW s \in Subs, StripeMove(s) PROVE Unconditional'
  <2>1. PICK x, types : Moved(s, x, types) /\ Moves(s, x, types)
    BY <1>0, <1>1, MovesOfStripe
  <2>2. /\ Tell(s, x, types) /\ UNCHANGED <<profile, orders, lots, request, failures, overlapped>>
        /\ orderly' = (orderly /\ request.op = "none" /\ \A r \in Subs \ {s} : ~Live(r))
    BY <2>1 DEF Moves
  <2>3. orderly' \in BOOLEAN /\ (orderly' => orderly)
    BY <2>2
  <2> QED BY <1>0, <2>1, <2>2, <2>3, StripeTells DEF SubTyped
<1>2. ASSUME NEW i, Step(i) PROVE Unconditional'
  BY <1>2, ReadProfileHolds, RelateProfileHolds, MarkCompletedHolds, LinkSessionHolds, LockProfileHolds,
     CommitPeriodHolds, PaymentFailedHolds, ReadBeforeSyncHolds, SyncProfileHolds, FinalizeHolds DEF Step
<1>3. CASE UNCHANGED SBvars
  <2>1. SubTyped' /\ \A t \in Subs : orders'[t].lot = orders[t].lot /\ (Linkable(t)' <=> Linkable(t))
    BY <1>0, <1>3 DEF SubTyped, Linkable, SBvars
  <2> QED BY <1>3, <2>1, AsideHolds DEF SBvars
<1> QED BY <1>1, <1>2, <1>3, RepeatHolds, LoseHolds, CustomerHolds, RegisterManualHolds DEF SBNext, StripeMove

\* ... and holds at first.
LEMMA UnconditionalInit == SBInit => Unconditional
<1> SUFFICES ASSUME SBInit PROVE Unconditional
  OBVIOUS
<1>1. /\ stripe = [s \in Subs |-> [status |-> "none", flag |-> FALSE, period |-> 0, paid |-> {}]]
      /\ profile = [status |-> "FREE", sub |-> None, plan |-> "free", flag |-> FALSE, period |-> None]
      /\ orders = [s \in Subs |-> [status |-> "none", lot |-> None]]
      /\ request = [op |-> "none", sub |-> None, called |-> FALSE]
      /\ pending = << >> /\ lots = << >> /\ orderly = TRUE /\ overlapped = FALSE
  BY DEF SBInit, NoRequest
<1>2. pending \in Seq(EventRow) /\ lots \in Seq(LotRow) /\ DOMAIN pending = {} /\ DOMAIN lots = {}
  BY <1>1, EmptySeq
<1>3. [status |-> "none", flag |-> FALSE, period |-> 0, paid |-> {}] \in StripeRow
  BY BoundAssumption DEF StripeRow
<1>4. profile \in ProfileRow
  BY <1>1 DEF ProfileRow
<1>5. /\ stripe \in [Subs -> StripeRow]
      /\ orders \in [Subs -> [status : {"none", "PENDING", "COMPLETED"}, lot : Keys \cup {None}]]
      /\ request \in [op : {"none", "cancel", "resume"}, sub : Subs \cup {None}, called : BOOLEAN]
  BY <1>1, <1>3
<1>6. SubTyped
  BY <1>1, <1>2, <1>4, <1>5 DEF SubTyped
<1>7. \A s \in Subs : stripe[s].status = "none" /\ stripe[s].period = 0 /\ stripe[s].paid = {} /\ orders[s].lot = None
  BY <1>1
<1>8. StripeOk
  BY <1>7 DEF StripeOk
<1>9. profile.sub \notin Subs
  BY <1>1, NamesAssumption
<1>10. ToldOk
  BY <1>2, <1>7, <1>9 DEF ToldOk, EventsTold, LotsTold, ProfileTold
<1>11. BilledOk
  BY <1>2, <1>7 DEF BilledOk, BilledOnce, OneRegisters, RegistersNew, PaidBilled
<1>12. LinkedOk
  BY <1>2, <1>7 DEF LinkedOk, OneCurrent, OrdersOwn, OneRuns, ReadsHold, LinkComing
<1> QED BY <1>6, <1>8, <1>10, <1>11, <1>12 DEF Unconditional

\* Only what Matches compares decides whether an event is ready.
LEMMA ReadyMatches ==
  ASSUME NEW e, NEW q, NEW r, Matches(q, r), Ready(e, r)
  PROVE  Ready(e, q)
BY DEF Matches, Ready

\* The same event expects the same.
LEMMA SameExpected ==
  ASSUME NEW e, NEW f, Same(e, f)
  PROVE  /\ Expected(e) = Expected(f)
         /\ \A q : Ready(e, q) <=> Ready(f, q)
         /\ Flags(e) <=> Flags(f)
         /\ FlagTold(e) <=> FlagTold(f)
<1>1. /\ e.type = f.type /\ e.sub = f.sub /\ e.status = f.status
      /\ e.flag = f.flag /\ e.period = f.period
  BY DEF Same
<1>2. Expected(e) = Expected(f)
  BY <1>1 DEF Expected
<1>3. ASSUME NEW q PROVE Ready(e, q) <=> Ready(f, q)
  BY <1>1, <1>2 DEF Ready
<1> QED BY <1>1, <1>2, <1>3 DEF Flags, FlagTold

\* The fields of an expected profile.
LEMMA ExpectedFields ==
  ASSUME NEW e \in EventRow
  PROVE  /\ e.type = "completed" => Expected(e).status = "INCOMPLETE"
         /\ e.type = "deleted" => Expected(e).status = "FREE"
         /\ e.type \notin {"completed", "deleted"} =>
              /\ Expected(e).status = ToProfileStatus(e.status)
              /\ Expected(e).status \in {"ACTIVE", "PAST_DUE", "CANCELED"}
         /\ Expected(e).sub = e.sub
         /\ Expected(e).plan = IF e.type = "deleted" THEN "free" ELSE e.sub
         /\ Expected(e).period = IF e.type \in {"completed", "deleted"} THEN None ELSE <<e.sub, e.period>>
BY DEF Expected, EventRow, Types, ToProfileStatus

\* An event told again finds what it has left.
LEMMA ReadySelf ==
  ASSUME NEW e \in EventRow PROVE Ready(e, Expected(e))
BY ExpectedFields DEF Ready, Matches

-----------------------------------------------------------------------------
(* The events of an orderly queue after a step: each comes from one before, in the order *)
(* they had, and only the first may be gone. *)

Requeued(m) ==
  /\ m \in [DOMAIN pending' -> DOMAIN pending]
  /\ \A j, k \in DOMAIN pending' : j < k => m[j] <= m[k]
  /\ \A j \in DOMAIN pending' : Same(pending'[j], pending[m[j]])
  /\ \A k \in DOMAIN pending : k # 1 => \E j \in DOMAIN pending' : m[j] = k
Keeps(m) == \E j \in DOMAIN pending' : m[j] = 1

\* The steps of a handler of the head, and the repetitions of any event, leave the queue in order.
LEMMA Requeues ==
  ASSUME NEW m
  PROVE  /\ Follows(m, 1) => Requeued(m)
         /\ \A i \in DOMAIN pending : Repeats(m, i) => Requeued(m)
         /\ \A i \in DOMAIN pending : Repeats(m, i) /\ 1 \in DOMAIN pending => Keeps(m)
<1>1. Follows(m, 1) => Requeued(m)
  BY DEF Follows, Requeued
<1>2. ASSUME NEW i \in DOMAIN pending, Repeats(m, i) PROVE Requeued(m)
  BY <1>2 DEF Repeats, Follows, Requeued
<1>3. ASSUME NEW i \in DOMAIN pending, Repeats(m, i), 1 \in DOMAIN pending PROVE Keeps(m)
  BY <1>3 DEF Repeats, Follows, Keeps
<1> QED BY <1>1, <1>2, <1>3

\* Neighbours in the new queue were neighbours, or are the same event; its last is the old last,
\* and its first the old first or second.
LEMMA Chain ==
  ASSUME SubTyped, SubTyped', NEW m, Requeued(m), 1 \in DOMAIN pending
  PROVE  /\ \A j, k \in DOMAIN pending' : m[j] < m[k] => j < k
         /\ \A i, j \in DOMAIN pending' : j = i + 1 => m[j] = m[i] \/ m[j] = m[i] + 1
         /\ pending' # << >> =>
              /\ 1 \in DOMAIN pending' /\ Len(pending') \in DOMAIN pending'
              /\ m[Len(pending')] = Len(pending)
              /\ Keeps(m) => m[1] = 1
              /\ ~Keeps(m) => m[1] = 2 /\ 2 \in DOMAIN pending
         /\ pending' = << >> => ~Keeps(m) /\ Len(pending) = 1
<1>1. /\ DOMAIN pending = 1..Len(pending) /\ Len(pending) \in Nat
      /\ DOMAIN pending' = 1..Len(pending') /\ Len(pending') \in Nat /\ Len(pending) >= 1
  BY LenProperties DEF SubTyped
<1>2. /\ \A j \in DOMAIN pending' : m[j] \in 1..Len(pending)
      /\ \A j, k \in DOMAIN pending' : j < k => m[j] <= m[k]
      /\ \A k \in 2..Len(pending) : \E j \in DOMAIN pending' : m[j] = k
  BY <1>1 DEF Requeued
<1>3. ASSUME NEW j \in DOMAIN pending', NEW k \in DOMAIN pending', m[j] < m[k] PROVE j < k
  BY <1>1, <1>2, <1>3
<1>4. ASSUME NEW i \in DOMAIN pending', NEW j \in DOMAIN pending', j = i + 1
      PROVE  m[j] = m[i] \/ m[j] = m[i] + 1
  <2>1. m[i] <= m[j]
    BY <1>1, <1>2, <1>4
  <2>2. ASSUME m[i] + 1 < m[j] PROVE FALSE
    <3>1. m[i] + 1 \in 2..Len(pending)
      BY <1>1, <1>2, <2>2
    <3>2. PICK h \in DOMAIN pending' : m[h] = m[i] + 1
      BY <1>2, <3>1
    <3>3. i < h /\ h < j
      BY <1>1, <1>2, <1>3, <2>2, <3>2
    <3> QED BY <1>1, <1>4, <3>3
  <2> QED BY <1>1, <1>2, <2>1, <2>2
<1>5. ASSUME pending' # << >> PROVE 1 \in DOMAIN pending' /\ Len(pending') \in DOMAIN pending'
  <2>1. Len(pending') # 0
    BY <1>5, EmptySeq DEF SubTyped
  <2> QED BY <1>1, <2>1
<1>6. ASSUME pending' # << >> PROVE m[Len(pending')] = Len(pending)
  <2>1. CASE Len(pending) = 1
    BY <1>1, <1>2, <1>5, <1>6, <2>1
  <2>2. CASE Len(pending) # 1
    <3>1. PICK j \in DOMAIN pending' : m[j] = Len(pending)
      BY <1>1, <1>2, <2>2
    <3>2. j = Len(pending') \/ j < Len(pending')
      BY <1>1
    <3> QED BY <1>1, <1>2, <1>5, <1>6, <3>1, <3>2
  <2> QED BY <2>1, <2>2
<1>7. ASSUME pending' # << >>, Keeps(m) PROVE m[1] = 1
  <2>1. PICK j \in DOMAIN pending' : m[j] = 1
    BY <1>7 DEF Keeps
  <2>2. j = 1 \/ 1 < j
    BY <1>1
  <2>3. 1 \in DOMAIN pending' /\ m[1] \in 1..Len(pending)
    BY <1>2, <1>5, <1>7
  <2>4. 1 < j => m[1] <= m[j]
    BY <1>2, <2>3
  <2> QED BY <1>1, <2>1, <2>2, <2>3, <2>4
<1>8. ASSUME pending' # << >>, ~Keeps(m) PROVE m[1] = 2 /\ 2 \in DOMAIN pending
  <2>1. 1 \in DOMAIN pending' /\ m[1] \in 1..Len(pending) /\ m[1] # 1
    BY <1>2, <1>5, <1>8 DEF Keeps
  <2>2. 2 \in 2..Len(pending)
    BY <1>1, <2>1
  <2>3. PICK j \in DOMAIN pending' : m[j] = 2
    BY <1>2, <2>2
  <2>4. j = 1 \/ 1 < j
    BY <1>1
  <2> QED BY <1>1, <1>2, <2>1, <2>2, <2>3, <2>4
<1>9. ASSUME pending' = << >> PROVE ~Keeps(m) /\ Len(pending) = 1
  <2>1. DOMAIN pending' = {}
    BY <1>9
  <2>2. ~(2 \in 2..Len(pending))
    BY <1>2, <2>1
  <2> QED BY <1>1, <2>1, <2>2 DEF Keeps
<1> QED BY <1>3, <1>4, <1>5, <1>6, <1>7, <1>8, <1>9

-----------------------------------------------------------------------------
(* What an orderly history keeps when a handler takes a step about the head of the queue. *)

\* Events, lots and their indices.
LEMMA Rows ==
  ASSUME SubTyped
  PROVE  /\ \A j \in DOMAIN pending : pending[j] \in EventRow /\ pending[j].sub \in Subs /\ pending[j].period \in Periods
         /\ DOMAIN pending = 1..Len(pending) /\ Len(pending) \in Nat
         /\ pending # << >> <=> 1 \in DOMAIN pending
         /\ pending # << >> => Len(pending) \in DOMAIN pending
         /\ DOMAIN pending = {} <=> pending = << >>
         /\ \A k \in DOMAIN lots : lots[k] \in LotRow
         /\ DOMAIN lots = 1..Len(lots) /\ Len(lots) \in Nat
<1>1. pending \in Seq(EventRow) /\ lots \in Seq(LotRow)
  BY DEF SubTyped
<1>2. /\ \A j \in DOMAIN pending : pending[j] \in EventRow
      /\ DOMAIN pending = 1..Len(pending) /\ Len(pending) \in Nat
      /\ DOMAIN lots = 1..Len(lots) /\ Len(lots) \in Nat /\ \A k \in DOMAIN lots : lots[k] \in LotRow
  BY <1>1, ElementOfSeq, LenProperties
<1>3. Len(pending) = 0 <=> pending = << >>
  BY <1>1, EmptySeq
<1>4. \A j \in DOMAIN pending : pending[j].sub \in Subs /\ pending[j].period \in Periods
  BY <1>2 DEF EventRow
<1>5. /\ pending # << >> <=> 1 \in DOMAIN pending
      /\ pending # << >> => Len(pending) \in DOMAIN pending
      /\ DOMAIN pending = {} <=> pending = << >>
  <2>1. CASE Len(pending) = 0
    BY <1>2, <1>3, <2>1
  <2>2. CASE Len(pending) # 0
    <3>1. 1 \in 1..Len(pending) /\ Len(pending) \in 1..Len(pending)
      BY <1>2, <2>2
    <3>2. 1 \in DOMAIN pending /\ Len(pending) \in DOMAIN pending /\ pending # << >>
      BY ONLY <1>2, <1>3, <2>2, <3>1
    <3> QED BY ONLY <3>2
  <2> QED BY <2>1, <2>2
<1> QED BY <1>2, <1>4, <1>5

\* The order of the queue survives such a step ...
LEMMA QueueKept ==
  ASSUME SubTyped, SubTyped', QueueOk, UNCHANGED stripe, NEW m, Requeued(m), 1 \in DOMAIN pending, HeadRuns'
  PROVE  QueueOk'
<1>0. HeadRuns /\ InOrder /\ Together /\ EndComing
  BY DEF QueueOk
<1>1. \A j \in DOMAIN pending' : /\ m[j] \in DOMAIN pending /\ pending'[j].sub = pending[m[j]].sub
                                 /\ pending'[j].type = pending[m[j]].type
                                 /\ pending'[j].period = pending[m[j]].period
  BY DEF Requeued, Same
<1>2. \A j, k \in DOMAIN pending' : j < k => m[j] = m[k] \/ m[j] < m[k]
  BY <1>1, Rows DEF Requeued
<1>3. \A j, k \in DOMAIN pending' : m[j] < m[k] => j < k
  BY Chain
<1>4. \A j \in DOMAIN pending' : pending[m[j]].period \in Nat
  BY <1>1, Rows, BoundAssumption DEF Periods
<1>5. InOrder'
  <2> SUFFICES ASSUME NEW i \in DOMAIN pending', NEW j \in DOMAIN pending', i < j
               PROVE  /\ SameSub(i, j)' => pending'[i].period <= pending'[j].period
                      /\ SameSub(i, j)' /\ pending'[i].type = "deleted" => pending'[j].type = "deleted"
                      /\ Live(pending'[i].sub) => SameSub(i, j)'
    BY DEF InOrder, Live
  <2>1. CASE m[i] = m[j]
    BY <1>1, <1>4, <2>1 DEF SameSub
  <2>2. CASE m[i] < m[j]
    BY <1>0, <1>1, <2>2 DEF InOrder, SameSub
  <2> QED BY <1>2, <2>1, <2>2
<1>6. Together'
  <2> SUFFICES ASSUME NEW i \in DOMAIN pending', NEW k \in DOMAIN pending', NEW j \in DOMAIN pending', i < k, k < j
               PROVE  /\ SameSub(i, j)' => SameSub(i, k)'
                      /\ SamePaid(i, j)' => SamePaid(i, k)'
    BY DEF Together
  <2>1. CASE m[i] = m[k]
    BY <1>1, <2>1 DEF SameSub, SamePaid
  <2>2. CASE m[k] = m[j]
    BY <1>1, <2>2 DEF SameSub, SamePaid
  <2>3. CASE m[i] < m[k] /\ m[k] < m[j]
    BY <1>0, <1>1, <2>3 DEF Together, SameSub, SamePaid
  <2> QED BY <1>2, <2>1, <2>2, <2>3
<1>7. EndComing'
  <2> SUFFICES ASSUME NEW i \in DOMAIN pending', stripe[pending'[i].sub].status = "canceled", pending'[i].type # "deleted"
               PROVE  \E j \in DOMAIN pending' : i < j /\ pending'[j].type = "deleted" /\ SameSub(i, j)'
    BY DEF EndComing
  <2>1. PICK k \in DOMAIN pending : m[i] < k /\ pending[k].type = "deleted" /\ SameSub(m[i], k)
    BY <1>0, <1>1 DEF EndComing
  <2>2. k # 1
    BY <1>1, <2>1, Rows
  <2>3. PICK j \in DOMAIN pending' : m[j] = k
    BY <2>2 DEF Requeued
  <2> QED BY <1>1, <1>3, <2>1, <2>3 DEF SameSub
<1> QED BY <1>5, <1>6, <1>7 DEF QueueOk

\* Only at the head of the queue can an event be whose period is billed already.
LEMMA RepaidHead ==
  ASSUME SubTyped, RepaidFirst, NEW j \in DOMAIN pending, Repaid(j)
  PROVE  SamePaid(1, j)
<1>1. j = 1 \/ 1 < j
  BY Rows
<1>2. 1 \in DOMAIN pending /\ pending[j].type = "paid"
  BY Rows DEF Repaid
<1>3. SamePaid(j, j)
  BY <1>2 DEF SamePaid, SameSub
<1> QED BY <1>1, <1>2, <1>3 DEF RepaidFirst

\* And only there is an event about a subscription that has been closed.
LEMMA EndedHead ==
  ASSUME SubTyped, NEW j \in DOMAIN pending, Ended(j)
  PROVE  SameSub(1, j)
<1>1. j = 1 \/ 1 < j
  BY Rows
<1>2. 1 \in DOMAIN pending
  BY Rows
<1> QED BY <1>1, <1>2 DEF Ended, SameSub

\* ... the order of the lots, when their keys are kept ...
LEMMA LotsKept ==
  ASSUME SubTyped, SubTyped', LotsInOrder, NEW m, Requeued(m), KeepLots, 1 \in DOMAIN pending,
         \A j \in DOMAIN pending : Repaid(j) => Matches(profile', Expected(pending[j]))
  PROVE  LotsInOrder'
<1>0. LotsOfSubs /\ LotsSorted /\ LotsBehind /\ RepaidFirst
  BY DEF LotsInOrder
<1>1. \A j \in DOMAIN pending' : /\ m[j] \in DOMAIN pending /\ pending'[j].sub = pending[m[j]].sub
                                 /\ pending'[j].type = pending[m[j]].type
                                 /\ pending'[j].period = pending[m[j]].period
                                 /\ Expected(pending'[j]) = Expected(pending[m[j]])
  BY SameExpected DEF Requeued, Same
<1>2. \A j, k \in DOMAIN pending' : j < k => m[j] = m[k] \/ m[j] < m[k]
  BY <1>1, Rows DEF Requeued
<1>3. DOMAIN lots' = DOMAIN lots /\ \A k \in DOMAIN lots : lots'[k].key = lots[k].key
  BY DEF KeepLots
<1>4. LotsOfSubs' /\ LotsSorted' /\ LotsBehind'
  BY <1>0, <1>1, <1>3 DEF LotsOfSubs, LotsSorted, LotsBehind
<1>5. \A j \in DOMAIN pending' : Repaid(j)' => Repaid(m[j])
  BY <1>1, <1>3 DEF Repaid, HasLot
<1>6. RepaidFirst'
  <2> SUFFICES ASSUME NEW j \in DOMAIN pending', Repaid(j)'
               PROVE  /\ \A i \in DOMAIN pending' : i < j => SamePaid(i, j)'
                      /\ Matches(profile', Expected(pending'[j]))
    BY DEF RepaidFirst, Matches, Expected
  <2>1. m[j] \in DOMAIN pending /\ Repaid(m[j]) /\ pending[m[j]].type = "paid"
    BY <1>1, <1>5 DEF Repaid
  <2>2. ASSUME NEW i \in DOMAIN pending', i < j PROVE SamePaid(i, j)'
    <3>1. CASE m[i] = m[j]
      BY <1>1, <2>1, <3>1 DEF SamePaid, SameSub
    <3>2. CASE m[i] < m[j]
      BY <1>0, <1>1, <2>1, <3>2 DEF RepaidFirst, SamePaid, SameSub
    <3> QED BY <1>2, <2>2, <3>1, <3>2
  <2> QED BY <1>1, <2>1, <2>2
<1> QED BY <1>4, <1>6 DEF LotsInOrder

\* ... what is closed, when no end has been handled ...
LEMMA ClosedKept ==
  ASSUME SubTyped, SubTyped', ClosedOk, UNCHANGED <<stripe, lots>>, NEW m, Requeued(m), 1 \in DOMAIN pending,
         Keeps(m) \/ pending[1].type # "deleted",
         \A k \in DOMAIN lots, j \in DOMAIN pending : ~lots[k].open /\ pending[j].sub = lots[k].key[1] =>
           Matches(profile', Expected(pending[j])) /\ ~profile'.flag
  PROVE  ClosedOk'
<1>0. HasNewest /\ NewestOpen /\ ClosedEnded
  BY DEF ClosedOk
<1>1. \A j \in DOMAIN pending' : /\ m[j] \in DOMAIN pending /\ pending'[j].sub = pending[m[j]].sub
                                 /\ pending'[j].type = pending[m[j]].type
                                 /\ Expected(pending'[j]) = Expected(pending[m[j]])
  BY SameExpected DEF Requeued, Same
<1>2. \A j, k \in DOMAIN pending' : j < k => m[j] = m[k] \/ m[j] < m[k]
  BY <1>1, Rows DEF Requeued
<1>3. HasNewest' /\ \A k : Newest(k)' <=> Newest(k)
  BY <1>0 DEF HasNewest, Newest, Own
<1>4. \A s : Ending(s) => Ending(s)'
  <2> SUFFICES ASSUME NEW s, NEW k \in DOMAIN pending, pending[k].type = "deleted", pending[k].sub = s
               PROVE  \E j \in DOMAIN pending' : pending'[j].type = "deleted" /\ pending'[j].sub = s
    BY DEF Ending
  <2>1. PICK j \in DOMAIN pending' : m[j] = k
    <3>1. CASE k = 1
      BY <3>1 DEF Keeps
    <3>2. CASE k # 1
      BY <3>2 DEF Requeued
    <3> QED BY <3>1, <3>2
  <2> QED BY <1>1, <2>1
<1>5. NewestOpen'
  BY <1>0, <1>3, <1>4 DEF NewestOpen, Live
<1>6. ClosedEnded'
  <2> SUFFICES ASSUME NEW k \in DOMAIN lots, ~lots[k].open
               PROVE  /\ ~Live(lots[k].key[1])
                      /\ \A j \in DOMAIN pending' : pending'[j].sub = lots[k].key[1] => Ended(j)'
    BY DEF ClosedEnded, Live
  <2>1. ~Live(lots[k].key[1])
    BY <1>0 DEF ClosedEnded
  <2>2. ASSUME NEW j \in DOMAIN pending', pending'[j].sub = lots[k].key[1] PROVE Ended(j)'
    <3>1. Ended(m[j])
      BY <1>0, <1>1, <2>2 DEF ClosedEnded
    <3>2. \A i \in DOMAIN pending' : i < j => SameSub(i, j)'
      BY <1>1, <1>2, <3>1 DEF Ended, SameSub
    <3>3. Matches(profile', Expected(pending'[j])) /\ ~profile'.flag /\ pending'[j].type = "deleted"
      BY <1>1, <2>2, <3>1 DEF Ended
    <3> QED BY <3>2, <3>3 DEF Ended, Matches, Expected
  <2> QED BY <2>1, <2>2
<1> QED BY <1>3, <1>5, <1>6 DEF ClosedOk

\* ... the profile, if it is as the event at the head needs or leaves it ...
LEMMA ProfileKept ==
  ASSUME SubTyped, SubTyped', ProfileFollows, UNCHANGED stripe, NEW m, Requeued(m), 1 \in DOMAIN pending,
         Keeps(m) => Ready(pending[1], profile'),
         ~Keeps(m) => Matches(profile', Expected(pending[1])),
         ReadFree', Related', FreeOk'
  PROVE  ProfileFollows'
<1>0. OneLive /\ NextReady /\ ComingLive /\ ComingFree
  BY DEF ProfileFollows
<1>1. \A j \in DOMAIN pending' : m[j] \in DOMAIN pending /\ Same(pending'[j], pending[m[j]])
  BY DEF Requeued
<1>2. OneLive'
  BY <1>0 DEF OneLive, Live
<1>3. HeadReady'
  <2> SUFFICES ASSUME pending' # << >> PROVE Ready(pending'[1], profile')
    BY DEF HeadReady, Ready, Matches, Expected
  <2>1. 1 \in DOMAIN pending'
    BY Chain
  <2>2. CASE Keeps(m)
    <3>1. m[1] = 1
      BY <2>2, Chain
    <3> QED BY <1>1, <2>1, <2>2, <3>1, SameExpected
  <2>3. CASE ~Keeps(m)
    <3>1. m[1] = 2 /\ 2 \in DOMAIN pending
      BY <2>3, Chain
    <3>2. Ready(pending[2], Expected(pending[1]))
      BY <1>0, <3>1 DEF NextReady
    <3>3. Ready(pending[2], profile')
      BY <2>3, <3>2, ReadyMatches
    <3> QED BY <1>1, <2>1, <3>1, <3>3, SameExpected
  <2> QED BY <2>2, <2>3
<1>4. NextReady'
  <2> SUFFICES ASSUME NEW i \in DOMAIN pending', NEW j \in DOMAIN pending', j = i + 1
               PROVE  Ready(pending'[j], Expected(pending'[i]))
    BY DEF NextReady, Ready, Matches, Expected
  <2>1. Expected(pending'[i]) = Expected(pending[m[i]]) /\ \A q : Ready(pending'[j], q) <=> Ready(pending[m[j]], q)
    BY <1>1, SameExpected
  <2>2. CASE m[j] = m[i]
    BY <1>1, <2>1, <2>2, ReadySelf, Rows
  <2>3. CASE m[j] = m[i] + 1
    BY <1>0, <1>1, <2>1, <2>3 DEF NextReady
  <2> QED BY <2>2, <2>3, Chain
<1>5. PICK c : c = Coming'
  OBVIOUS
<1>6. Matches(c, Coming)
  <2>1. pending # << >> /\ Len(pending) \in DOMAIN pending
    BY Rows
  <2>2. Coming = Expected(pending[Len(pending)])
    BY <2>1 DEF Coming
  <2>3. CASE pending' = << >>
    <3>1. c = profile' /\ ~Keeps(m) /\ Len(pending) = 1
      BY <1>5, <2>3, Chain DEF Coming
    <3> QED BY <2>2, <3>1
  <2>4. CASE pending' # << >>
    <3>1. Len(pending') \in DOMAIN pending' /\ m[Len(pending')] = Len(pending)
      BY <2>4, Chain
    <3>2. c = Expected(pending'[Len(pending')])
      BY <1>5, <2>4 DEF Coming, Expected
    <3>3. c = Coming
      BY <1>1, <2>2, <3>1, <3>2, SameExpected
    <3> QED BY <3>3 DEF Matches
  <2> QED BY <2>3, <2>4
<1>7. ComingLive'
  <2> SUFFICES ASSUME NEW s \in Subs, Live(s) PROVE Matches(c, Mirror(s))
    BY <1>5 DEF ComingLive, Live, Mirror, Matches
  <2>1. Matches(Coming, Mirror(s))
    BY <1>0 DEF ComingLive
  <2> QED BY <1>6, <2>1 DEF Matches
<1>8. ComingFree'
  BY <1>0, <1>5, <1>6 DEF ComingFree, Live, Matches
<1> QED BY <1>2, <1>3, <1>4, <1>7, <1>8 DEF ProfileFollows

\* ... its flag ...
LEMMA FlagKept ==
  ASSUME SubTyped, SubTyped', FlagFollows, UNCHANGED stripe, NEW m, Requeued(m), 1 \in DOMAIN pending,
         ~Flags(pending[1]) => profile'.flag = profile.flag,
         Flags(pending[1]) /\ ~Keeps(m) => (profile'.flag <=> FlagTold(pending[1]))
  PROVE  FlagFollows'
<1>0. FlagNow /\ FlagComing /\ (TrueFlag' <=> TrueFlag)
  BY DEF FlagFollows, TrueFlag, Live
<1>1. \A j \in DOMAIN pending' : /\ m[j] \in DOMAIN pending
                                 /\ Flags(pending'[j]) <=> Flags(pending[m[j]])
                                 /\ FlagTold(pending'[j]) <=> FlagTold(pending[m[j]])
  BY SameExpected DEF Requeued
<1>2. \A k \in DOMAIN pending : k # 1 \/ Keeps(m) => \E j \in DOMAIN pending' : m[j] = k
  BY DEF Requeued, Keeps
<1>3. DOMAIN pending \subseteq Nat /\ DOMAIN pending' \subseteq Nat /\ \A k \in DOMAIN pending : k = 1 \/ 1 < k
  BY Rows, LenProperties DEF SubTyped
<1>4. FlagNow'
  <2> SUFFICES ASSUME \A j \in DOMAIN pending' : ~Flags(pending'[j])
               PROVE  profile'.flag <=> TrueFlag
    BY <1>0 DEF FlagNow, Flags
  <2>1. \A k \in DOMAIN pending : k # 1 \/ Keeps(m) => ~Flags(pending[k])
    BY <1>1, <1>2
  <2>2. CASE Flags(pending[1])
    <3>1. ~Keeps(m) /\ \A k \in DOMAIN pending : 1 < k => ~Flags(pending[k])
      BY <1>3, <2>1, <2>2
    <3>2. FlagTold(pending[1]) <=> TrueFlag
      BY <1>0, <2>2, <3>1 DEF FlagComing
    <3> QED BY <2>2, <3>1, <3>2
  <2>3. CASE ~Flags(pending[1])
    <3>1. \A k \in DOMAIN pending : ~Flags(pending[k])
      BY <2>1, <2>3
    <3> QED BY <1>0, <2>3, <3>1 DEF FlagNow
  <2> QED BY <2>2, <2>3
<1>5. FlagComing'
  <2> SUFFICES ASSUME NEW j \in DOMAIN pending', Flags(pending'[j]),
                      \A i \in DOMAIN pending' : j < i => ~Flags(pending'[i])
               PROVE  FlagTold(pending'[j]) <=> TrueFlag
    BY <1>0 DEF FlagComing, Flags, FlagTold
  <2>1. ASSUME NEW k \in DOMAIN pending, m[j] < k PROVE ~Flags(pending[k])
    <3>1. k # 1
      BY <1>1, <1>3, <2>1
    <3>2. PICK i \in DOMAIN pending' : m[i] = k
      BY <1>2, <3>1
    <3>3. j < i
      BY <2>1, <3>2, Chain
    <3> QED BY <1>1, <3>2, <3>3
  <2>2. FlagTold(pending[m[j]]) <=> TrueFlag
    BY <1>0, <1>1, <2>1 DEF FlagComing
  <2> QED BY <1>1, <2>2
<1> QED BY <1>4, <1>5 DEF FlagFollows

\* ... and the request, if the profile is of the same subscription.
LEMMA RequestKept ==
  ASSUME SubTyped, QueueOk, RequestOk, UNCHANGED <<stripe, request>>, NEW m, Requeued(m), 1 \in DOMAIN pending,
         profile'.sub \in {profile.sub, pending[1].sub}
  PROVE  RequestOk'
<1>0. Alone /\ AskedOwn /\ AskedDone /\ InOrder
  BY DEF RequestOk, QueueOk
<1>1. \A j \in DOMAIN pending' : m[j] \in DOMAIN pending /\ pending'[j].sub = pending[m[j]].sub
  BY DEF Requeued, Same
<1>2. \A s \in Subs : Live(s) /\ profile'.sub = s => \A j \in DOMAIN pending : pending[j].sub = s
  <2> SUFFICES ASSUME NEW s \in Subs, Live(s), profile'.sub = s, NEW j \in DOMAIN pending
               PROVE  pending[j].sub = s
    OBVIOUS
  <2>1. CASE profile.sub = s
    BY <1>0, <2>1 DEF Alone
  <2>2. CASE pending[1].sub = s
    <3>1. j = 1 \/ 1 < j
      BY Rows
    <3> QED BY <1>0, <2>2, <3>1 DEF InOrder, SameSub
  <2> QED BY <2>1, <2>2
<1>3. Alone'
  BY <1>1, <1>2 DEF Alone, Live
<1>4. AskedOwn'
  BY <1>0 DEF AskedOwn, Alone, Live
<1>5. AskedDone'
  BY <1>0 DEF AskedDone, Live
<1> QED BY <1>3, <1>4, <1>5 DEF RequestOk

\* The head of the queue is the event that a handler is about.
LEMMA HeadTurns ==
  ASSUME SubTyped, SubTyped', HeadRuns, NEW m, NEW at \in Pcs, NEW read \in BOOLEAN, Turns(m, 1, at, read),
         1 \in DOMAIN pending
  PROVE  /\ Requeued(m) /\ HeadRuns'
         /\ \A j \in DOMAIN pending' : pending'[j].pc # "sent" =>
              j = 1 /\ pending'[j].pc = at /\ pending'[j].read = read /\ Same(pending'[j], pending[1])
         /\ at # "sent" => Keeps(m)
<1>1. Follows(m, 1) /\ \A j \in DOMAIN pending' : m[j] = 1 => pending'[j].pc = at /\ pending'[j].read = read
  BY DEF Turns
<1>2. Requeued(m)
  BY <1>1, Requeues
<1>3. ASSUME NEW j \in DOMAIN pending', pending'[j].pc # "sent"
      PROVE  j = 1 /\ pending'[j].pc = at /\ pending'[j].read = read /\ Same(pending'[j], pending[1])
  <2>1. m[j] = 1
    BY <1>1, <1>3 DEF Follows, HeadRuns
  <2>2. pending' # << >> /\ 1 \in DOMAIN pending' /\ m[1] = 1
    <3>1. pending' # << >>
      BY <1>3
    <3> QED BY <1>2, <2>1, <3>1, Chain DEF Keeps
  <2>3. j = 1
    BY <1>1, <1>3, <2>1, <2>2 DEF Follows
  <2> QED BY <1>1, <2>1, <2>3 DEF Follows
<1> QED BY <1>2, <1>3 DEF HeadRuns, Turns, Keeps

-----------------------------------------------------------------------------
(* An orderly history, step by step. *)

\* A handler takes a step about the head of the queue that leaves the lots alone.
LEMMA HeadStep ==
  ASSUME Unconditional, Unconditional', OrderlyOk, UNCHANGED <<stripe, request, lots>>, 1 \in DOMAIN pending,
         NEW m, NEW at \in Pcs, NEW read \in BOOLEAN, Turns(m, 1, at, read),
         pending[1].type # "deleted",
         \/ Matches(profile', profile) /\ profile'.flag = profile.flag
         \/ pending[1].type \in {"completed", "updated"},
         Ready(pending[1], profile'),
         at \in {"sent", "marking", "linking"} => Matches(profile', Expected(pending[1])),
         at = "relating" => read,
         ~Flags(pending[1]) => profile'.flag = profile.flag,
         at = "sent" /\ Flags(pending[1]) => (profile'.flag <=> FlagTold(pending[1])),
         profile'.sub \in {profile.sub, pending[1].sub},
         FreeOk'
  PROVE  OrderlyOk'
<1>0. /\ SubTyped /\ SubTyped' /\ QueueOk /\ LotsInOrder /\ ClosedOk /\ ProfileFollows /\ FlagFollows /\ RequestOk
      /\ HeadRuns /\ RepaidFirst /\ ClosedEnded
  BY DEF Unconditional, OrderlyOk, QueueOk, LotsInOrder, ClosedOk
<1>1. /\ Requeued(m) /\ HeadRuns'
      /\ \A j \in DOMAIN pending' : pending'[j].pc # "sent" =>
           j = 1 /\ pending'[j].pc = at /\ pending'[j].read = read /\ Same(pending'[j], pending[1])
      /\ at # "sent" => Keeps(m)
  BY <1>0, HeadTurns
<1>2. QueueOk'
  BY <1>0, <1>1, QueueKept
<1>3. LotsInOrder'
  <2>1. ASSUME NEW j \in DOMAIN pending, Repaid(j) PROVE Matches(profile', Expected(pending[j]))
    <3>1. SamePaid(1, j) /\ Matches(profile, Expected(pending[j]))
      BY <1>0, <2>1, RepaidHead DEF RepaidFirst
    <3>2. Matches(profile', profile)
      BY <3>1 DEF SamePaid
    <3> QED BY <3>1, <3>2 DEF Matches
  <2>2. KeepLots
    BY DEF KeepLots
  <2> QED BY <1>0, <1>1, <2>1, <2>2, LotsKept
<1>4. ClosedOk'
  <2>1. ASSUME NEW k \in DOMAIN lots, NEW j \in DOMAIN pending, ~lots[k].open, pending[j].sub = lots[k].key[1]
        PROVE  Matches(profile', Expected(pending[j])) /\ ~profile'.flag
    <3>1. Ended(j)
      BY <1>0, <2>1 DEF ClosedEnded
    <3>2. SameSub(1, j)
      BY <1>0, <3>1, EndedHead
    <3>3. Ended(1)
      BY <1>0, <2>1, <3>2 DEF ClosedEnded, SameSub
    <3> QED BY <3>3 DEF Ended
  <2> QED BY <1>0, <1>1, <2>1, ClosedKept
<1>5. ReadFree' /\ Related'
  <2>1. ReadFree'
    BY <1>1 DEF ReadFree
  <2>2. ASSUME NEW j \in DOMAIN pending', pending'[j].pc \in {"marking", "linking"}
        PROVE  Matches(profile', Expected(pending'[j]))
    <3>1. pending'[j].pc = at /\ Same(pending'[j], pending[1])
      BY <1>1, <2>2
    <3>2. Matches(profile', Expected(pending[1]))
      BY <2>2, <3>1
    <3> QED BY <3>1, <3>2, SameExpected
  <2> QED BY <2>1, <2>2 DEF Related, Matches, Expected
<1>6. ProfileFollows'
  BY <1>0, <1>1, <1>5, ProfileKept
<1>7. FlagFollows'
  BY <1>0, <1>1, FlagKept
<1>8. RequestOk'
  BY <1>0, <1>1, RequestKept
<1> QED BY <1>2, <1>3, <1>4, <1>6, <1>7, <1>8 DEF OrderlyOk

SubInvariant == Unconditional /\ (orderly => OrderlyOk)

\* In an orderly history a handler is about the head of the queue.
LEMMA RunsHead ==
  ASSUME SubInvariant, NEW i, NEW at \in Pcs \ {"sent"}, Runs(i, at), orderly'
  PROVE  /\ OrderlyOk /\ i = 1 /\ 1 \in DOMAIN pending
         /\ pending[1].pc = at /\ Ready(pending[1], profile) /\ FreeOk
<1>1. orderly /\ i \in DOMAIN pending /\ pending[i].pc = at /\ at # "sent" /\ OrderlyOk
  BY DEF Runs, SubInvariant
<1>2. i = 1
  BY <1>1 DEF OrderlyOk, QueueOk, HeadRuns
<1>3. pending # << >>
  BY <1>1, <1>2, Rows DEF SubInvariant, Unconditional
<1> QED BY <1>1, <1>2, <1>3 DEF OrderlyOk, ProfileFollows, HeadReady

\* So it is when it starts.
LEMMA StartsHead ==
  ASSUME SubInvariant, NEW i, NEW type, Starts(i, type), orderly'
  PROVE  /\ OrderlyOk /\ i = 1 /\ 1 \in DOMAIN pending
         /\ pending[1].type = type /\ Ready(pending[1], profile) /\ FreeOk
<1>1. orderly /\ i \in DOMAIN pending /\ pending[i].type = type /\ i = 1 /\ OrderlyOk
  BY DEF Starts, SubInvariant
<1>2. pending # << >>
  BY <1>1, Rows DEF SubInvariant, Unconditional
<1> QED BY <1>1, <1>2 DEF OrderlyOk, ProfileFollows, HeadReady

\* Each step of a handler keeps an orderly history in agreement: the read of
\* handleCheckoutSessionCompleted ...
LEMMA ReadProfileOrderly ==
  ASSUME SubInvariant, Unconditional', NEW i, ReadProfile(i), orderly'
  PROVE  OrderlyOk'
<1>1. /\ OrderlyOk /\ i = 1 /\ 1 \in DOMAIN pending
      /\ pending[1].type = "completed" /\ Ready(pending[1], profile) /\ FreeOk
  BY StartsHead DEF ReadProfile
<1>2. UNCHANGED <<stripe, profile, orders, lots, request>> /\ SubTyped /\ Unconditional
  BY DEF ReadProfile, SubInvariant, Unconditional
<1>3. profile.status \in {"FREE", "INCOMPLETE"}
  BY <1>1 DEF Ready
<1>4. pending' = [pending EXCEPT ![1].pc = "relating", ![1].read = TRUE]
  BY <1>1, <1>3 DEF ReadProfile, Proceed
<1>5. PICK m : Turns(m, 1, "relating", TRUE)
  BY <1>1, <1>2, <1>4, TouchFollows DEF Pcs
<1>6. FreeOk' /\ Ready(pending[1], profile') /\ Matches(profile', profile) /\ ~Flags(pending[1])
  BY <1>1, <1>2 DEF FreeOk, Live, Ready, Matches, Expected, Flags
<1> QED BY <1>1, <1>2, <1>5, <1>6, HeadStep DEF Pcs

\* ... the relation of the profile ...
LEMMA RelateProfileOrderly ==
  ASSUME SubInvariant, Unconditional', NEW i, RelateProfile(i), orderly'
  PROVE  OrderlyOk'
<1>1. /\ OrderlyOk /\ i = 1 /\ 1 \in DOMAIN pending
      /\ pending[1].pc = "relating" /\ Ready(pending[1], profile) /\ FreeOk
  BY RunsHead DEF RelateProfile, Pcs
<1>2. /\ UNCHANGED <<stripe, orders, lots, request>> /\ SubTyped /\ Unconditional
      /\ pending[1].type = "completed"
  BY <1>1, RunsAlone DEF RelateProfile, SubInvariant, Unconditional, Pcs
<1>3. pending[1].read /\ pending[1] \in EventRow
  BY <1>1, <1>2, Rows DEF OrderlyOk, ProfileFollows, ReadFree
<1>4. pending' = [pending EXCEPT ![1].pc = "marking", ![1].read = FALSE]
  BY <1>1 DEF RelateProfile, Proceed
<1>5. PICK m : Turns(m, 1, "marking", FALSE)
  BY <1>1, <1>2, <1>4, TouchFollows DEF Pcs
<1>6. /\ profile'.status = "INCOMPLETE" /\ profile'.sub = pending[1].sub /\ profile'.plan = pending[1].sub
      /\ profile'.flag = profile.flag /\ profile'.period = profile.period
  <2>1. profile \in ProfileRow
    BY <1>2 DEF SubTyped
  <2>2. profile' = [profile EXCEPT !.sub = pending[1].sub, !.plan = pending[1].sub, !.status = "INCOMPLETE"]
    BY <1>1, <1>3, <2>1 DEF RelateProfile, ProfileRow
  <2> QED BY <2>1, <2>2 DEF ProfileRow
<1>7. profile.period = None
  BY <1>1, <1>2 DEF Ready
<1>8. Matches(profile', Expected(pending[1]))
  BY <1>2, <1>3, <1>6, <1>7, ExpectedFields DEF Matches
<1>9. FreeOk' /\ Ready(pending[1], profile') /\ ~Flags(pending[1])
  BY <1>2, <1>6, <1>7 DEF FreeOk, Ready, Flags
<1> QED BY <1>1, <1>2, <1>5, <1>6, <1>8, <1>9, HeadStep DEF Pcs

\* ... the completion of the order ...
LEMMA MarkCompletedOrderly ==
  ASSUME SubInvariant, Unconditional', NEW i, MarkCompleted(i), orderly'
  PROVE  OrderlyOk'
<1>1. /\ OrderlyOk /\ i = 1 /\ 1 \in DOMAIN pending
      /\ pending[1].pc = "marking" /\ Ready(pending[1], profile) /\ FreeOk
  BY RunsHead DEF MarkCompleted, Pcs
<1>2. /\ UNCHANGED <<stripe, profile, lots, request>> /\ SubTyped /\ Unconditional
      /\ pending[1].type = "completed"
  BY <1>1, RunsAlone DEF MarkCompleted, SubInvariant, Unconditional, Pcs
<1>4. pending' = [pending EXCEPT ![1].pc = "linking", ![1].read = FALSE]
  BY <1>1 DEF MarkCompleted, Proceed
<1>5. PICK m : Turns(m, 1, "linking", FALSE)
  BY <1>1, <1>2, <1>4, TouchFollows DEF Pcs
<1>6. Matches(profile, Expected(pending[1]))
  BY <1>1 DEF OrderlyOk, ProfileFollows, Related
<1>7. /\ FreeOk' /\ Ready(pending[1], profile') /\ Matches(profile', profile)
      /\ Matches(profile', Expected(pending[1])) /\ ~Flags(pending[1])
  BY <1>1, <1>2, <1>6 DEF FreeOk, Live, Ready, Matches, Expected, Flags
<1> QED BY <1>1, <1>2, <1>5, <1>7, HeadStep DEF Pcs

\* ... its link ...
LEMMA LinkSessionOrderly ==
  ASSUME SubInvariant, Unconditional', NEW i, LinkSession(i), orderly'
  PROVE  OrderlyOk'
<1>1. /\ OrderlyOk /\ i = 1 /\ 1 \in DOMAIN pending
      /\ pending[1].pc = "linking" /\ Ready(pending[1], profile) /\ FreeOk
  BY RunsHead DEF LinkSession, Pcs
<1>2. /\ UNCHANGED <<stripe, profile, lots, request>> /\ SubTyped /\ Unconditional
      /\ pending[1].type = "completed" /\ Ends(1)
  BY <1>1, RunsAlone DEF LinkSession, SubInvariant, Unconditional, Pcs
<1>5. PICK m : Turns(m, 1, "sent", FALSE)
  BY <1>1, <1>2, EndFollows
<1>6. Matches(profile, Expected(pending[1]))
  BY <1>1 DEF OrderlyOk, ProfileFollows, Related
<1>7. /\ FreeOk' /\ Ready(pending[1], profile') /\ Matches(profile', profile)
      /\ Matches(profile', Expected(pending[1])) /\ ~Flags(pending[1])
  BY <1>1, <1>2, <1>6 DEF FreeOk, Live, Ready, Matches, Expected, Flags
<1> QED BY <1>1, <1>2, <1>5, <1>7, HeadStep DEF Pcs

\* ... the locks and reads of handleInvoicePaid ...
LEMMA LockProfileOrderly ==
  ASSUME SubInvariant, Unconditional', NEW i, LockProfile(i), orderly'
  PROVE  OrderlyOk'
<1>1. /\ OrderlyOk /\ i = 1 /\ 1 \in DOMAIN pending
      /\ pending[1].type = "paid" /\ Ready(pending[1], profile) /\ FreeOk
  BY StartsHead DEF LockProfile
<1>2. UNCHANGED <<stripe, profile, orders, lots, request>> /\ SubTyped /\ Unconditional
  BY DEF LockProfile, SubInvariant, Unconditional
<1>3. FreeOk' /\ Ready(pending[1], profile') /\ Matches(profile', profile) /\ ~Flags(pending[1])
  BY <1>1, <1>2 DEF FreeOk, Live, Ready, Matches, Expected, Flags
<1>4. CASE HasLot(<<pending[1].sub, pending[1].period>>) /\ Ends(1)
  <2>1. PICK m : Turns(m, 1, "sent", FALSE)
    BY <1>1, <1>2, <1>4, EndFollows
  <2>2. Matches(profile, Expected(pending[1]))
    BY <1>1, <1>4 DEF OrderlyOk, LotsInOrder, RepaidFirst, Repaid
  <2>3. Matches(profile', Expected(pending[1]))
    BY <1>3, <2>2 DEF Matches
  <2> QED BY <1>1, <1>2, <1>3, <2>1, <2>3, HeadStep DEF Pcs
<1>5. CASE Proceed(1, "registering", Linkable(pending[1].sub))
  <2>1. PICK read : read = Linkable(pending[1].sub)
    OBVIOUS
  <2>2. read \in BOOLEAN /\ "registering" \in Pcs
    BY <2>1 DEF Linkable, Pcs
  <2>3. pending' = [pending EXCEPT ![1].pc = "registering", ![1].read = read]
    BY <1>5, <2>1 DEF Proceed
  <2>4. CASE read = TRUE
    <3>1. pending' = [pending EXCEPT ![1].pc = "registering", ![1].read = TRUE]
      BY <2>3, <2>4
    <3>2. PICK m : Turns(m, 1, "registering", TRUE)
      BY <1>1, <1>2, <2>2, <3>1, TouchFollows
    <3> QED BY <1>1, <1>2, <1>3, <2>2, <3>2, HeadStep
  <2>5. CASE read = FALSE
    <3>1. pending' = [pending EXCEPT ![1].pc = "registering", ![1].read = FALSE]
      BY <2>3, <2>5
    <3>2. PICK m : Turns(m, 1, "registering", FALSE)
      BY <1>1, <1>2, <2>2, <3>1, TouchFollows
    <3> QED BY <1>1, <1>2, <1>3, <2>2, <3>2, HeadStep
  <2> QED BY <2>2, <2>4, <2>5
<1> QED BY <1>1, <1>4, <1>5 DEF LockProfile

\* ... handleInvoicePaymentFailed ...
LEMMA PaymentFailedOrderly ==
  ASSUME SubInvariant, Unconditional', NEW i, PaymentFailed(i), orderly'
  PROVE  OrderlyOk'
<1>1. /\ OrderlyOk /\ i = 1 /\ 1 \in DOMAIN pending
      /\ pending[1].type = "payment_failed" /\ Ready(pending[1], profile) /\ FreeOk
  BY StartsHead DEF PaymentFailed
<1>2. UNCHANGED <<stripe, orders, lots, request>> /\ SubTyped /\ Unconditional /\ Ends(1) /\ EventsTold
  BY <1>1 DEF PaymentFailed, SubInvariant, Unconditional, ToldOk
<1>3. PICK m : Turns(m, 1, "sent", FALSE)
  BY <1>1, <1>2, EndFollows
<1>4. pending[1] \in EventRow /\ pending[1].status = "past_due"
  BY <1>1, <1>2, Rows DEF EventsTold, EventOk
<1>5. Matches(profile, Expected(pending[1])) /\ Expected(pending[1]).status = "PAST_DUE"
  BY <1>1, <1>4, ExpectedFields DEF Ready, ToProfileStatus
<1>6. /\ profile'.status = "PAST_DUE" /\ profile'.sub = profile.sub /\ profile'.plan = profile.plan
      /\ profile'.flag = profile.flag /\ profile'.period = profile.period
  <2>1. profile \in ProfileRow /\ profile' = [profile EXCEPT !.status = "PAST_DUE"]
    BY <1>2 DEF SubTyped, PaymentFailed
  <2> QED BY <2>1 DEF ProfileRow
<1>7. Matches(profile', profile) /\ Matches(profile', Expected(pending[1]))
  BY <1>5, <1>6 DEF Matches
<1>8. FreeOk' /\ ~Flags(pending[1])
  BY <1>1, <1>6 DEF FreeOk, Flags
<1>9. Ready(pending[1], profile')
  BY <1>1, <1>7 DEF Ready
<1> QED BY <1>1, <1>2, <1>3, <1>6, <1>7, <1>8, <1>9, HeadStep DEF Pcs

\* ... the read of handleSubscriptionUpdated, which is never late in such a history ...
LEMMA ReadBeforeSyncOrderly ==
  ASSUME SubInvariant, Unconditional', NEW i, ReadBeforeSync(i), orderly'
  PROVE  OrderlyOk'
<1>1. /\ OrderlyOk /\ i = 1 /\ 1 \in DOMAIN pending
      /\ pending[1].type = "updated" /\ Ready(pending[1], profile) /\ FreeOk
  BY StartsHead DEF ReadBeforeSync
<1>2. UNCHANGED <<stripe, profile, orders, lots, request>> /\ SubTyped /\ Unconditional
  BY DEF ReadBeforeSync, SubInvariant, Unconditional
<1>3. profile.status # "FREE"
  BY <1>1 DEF Ready
<1>4. pending' = [pending EXCEPT ![1].pc = "syncing", ![1].read = FALSE]
  BY <1>1, <1>3 DEF ReadBeforeSync, Proceed
<1>5. PICK m : Turns(m, 1, "syncing", FALSE)
  BY <1>1, <1>2, <1>4, TouchFollows DEF Pcs
<1>6. FreeOk' /\ Ready(pending[1], profile') /\ Matches(profile', profile) /\ profile'.flag = profile.flag
  BY <1>1, <1>2 DEF FreeOk, Live, Ready, Matches, Expected
<1> QED BY <1>1, <1>2, <1>5, <1>6, HeadStep DEF Pcs

\* ... its write ...
LEMMA SyncProfileOrderly ==
  ASSUME SubInvariant, Unconditional', NEW i, SyncProfile(i), orderly'
  PROVE  OrderlyOk'
<1>1. /\ OrderlyOk /\ i = 1 /\ 1 \in DOMAIN pending
      /\ pending[1].pc = "syncing" /\ Ready(pending[1], profile) /\ FreeOk
  BY RunsHead DEF SyncProfile, Pcs
<1>2. /\ UNCHANGED <<stripe, orders, lots, request>> /\ SubTyped /\ Unconditional
      /\ pending[1].type = "updated" /\ Ends(1)
  BY <1>1, RunsAlone DEF SyncProfile, SubInvariant, Unconditional, Pcs
<1>3. PICK e \in EventRow : e = pending[1]
  BY <1>1, <1>2, Rows
<1>4. PICK m : Turns(m, 1, "sent", FALSE)
  BY <1>1, <1>2, EndFollows
<1>5. /\ profile'.status = ToProfileStatus(e.status) /\ profile'.sub = e.sub /\ profile'.plan = e.sub
      /\ profile'.flag = e.flag /\ profile'.period = <<e.sub, e.period>>
  BY <1>1, <1>3 DEF SyncProfile
<1>6. Matches(profile', Expected(e)) /\ profile'.status # "FREE"
  BY <1>2, <1>3, <1>5, ExpectedFields DEF Matches
<1>7. FreeOk' /\ Ready(e, profile') /\ (profile'.flag <=> FlagTold(e)) /\ Flags(e)
  BY <1>2, <1>3, <1>5, <1>6 DEF FreeOk, Ready, FlagTold, Flags
<1> QED BY <1>1, <1>2, <1>3, <1>4, <1>5, <1>6, <1>7, HeadStep DEF Pcs

\* ... the commit of handleInvoicePaid, whose lot is the newest of its subscription ...
LEMMA CommitPeriodOrderly ==
  ASSUME SubInvariant, Unconditional', NEW i, CommitPeriod(i), orderly'
  PROVE  OrderlyOk'
<1>1. /\ OrderlyOk /\ i = 1 /\ 1 \in DOMAIN pending
      /\ pending[1].pc = "registering" /\ Ready(pending[1], profile) /\ FreeOk
  BY RunsHead DEF CommitPeriod, Pcs
<1>2. /\ UNCHANGED <<stripe, request>> /\ SubTyped /\ SubTyped' /\ Unconditional /\ EventsTold /\ LotsTold
      /\ pending[1].type = "paid" /\ Ends(1) /\ RegistersNew /\ StripeOk
  BY <1>1, RunsAlone DEF CommitPeriod, SubInvariant, Unconditional, ToldOk, BilledOk, Pcs
<1>3. PICK e \in EventRow : e = pending[1]
  BY <1>1, <1>2, Rows
<1>4. PICK s \in Subs : s = e.sub
  BY <1>1, <1>2, <1>3, Rows
<1>5. PICK p \in Periods : p = e.period
  BY <1>1, <1>2, <1>3, Rows
<1>6. PICK key \in Keys : key = <<s, p>>
  BY DEF Keys
<1>7. /\ Issue(key) /\ profile'.status = "ACTIVE" /\ profile'.sub = s
      /\ profile'.plan = s /\ profile'.period = key /\ profile'.flag = profile.flag
  BY <1>1, <1>3, <1>4, <1>5, <1>6, CommitWrites DEF SubInvariant
<1>8. PICK m : Turns(m, 1, "sent", FALSE)
  BY <1>1, <1>2, EndFollows
<1>9. /\ QueueOk /\ LotsInOrder /\ ClosedOk /\ ProfileFollows /\ FlagFollows /\ RequestOk
      /\ HeadRuns /\ InOrder /\ Together /\ EndComing
      /\ LotsOfSubs /\ LotsSorted /\ LotsBehind /\ RepaidFirst /\ HasNewest /\ NewestOpen /\ ClosedEnded
  BY <1>1 DEF OrderlyOk, QueueOk, LotsInOrder, ClosedOk
<1>10. /\ Requeued(m) /\ HeadRuns' /\ \A j \in DOMAIN pending' : pending'[j].pc = "sent"
  BY <1>1, <1>2, <1>8, <1>9, HeadTurns DEF Pcs
<1>11. e.status = "active" /\ e.type = "paid" /\ ~HasLot(key)
  BY <1>1, <1>2, <1>3, <1>4, <1>5, <1>6 DEF EventsTold, EventOk, RegistersNew
<1>12. Matches(profile', Expected(e)) /\ Ready(e, profile') /\ FreeOk' /\ ~Flags(e)
  BY <1>3, <1>4, <1>5, <1>6, <1>7, <1>11, ExpectedFields DEF Matches, Ready, FreeOk, Flags, ToProfileStatus
<1>13. QueueOk'
  BY <1>1, <1>2, <1>9, <1>10, QueueKept
<1>14. ProfileFollows'
  <2>1. ReadFree' /\ Related'
    BY <1>10 DEF ReadFree, Related
  <2> QED BY <1>1, <1>2, <1>3, <1>9, <1>10, <1>12, <2>1, ProfileKept
<1>15. FlagFollows'
  BY <1>1, <1>2, <1>3, <1>7, <1>9, <1>10, <1>12, FlagKept
<1>16. RequestOk'
  BY <1>1, <1>2, <1>3, <1>4, <1>7, <1>9, <1>10, RequestKept
<1>17. PICK n : n = Len(lots) + 1
  OBVIOUS
<1>18. /\ lots'[n] = [key |-> key, current |-> TRUE, open |-> TRUE]
       /\ \A k \in DOMAIN lots : lots'[k].key = lots[k].key /\ lots'[k].open = lots[k].open
       /\ DOMAIN lots' = DOMAIN lots \cup {n} /\ n \notin DOMAIN lots
       /\ DOMAIN lots = 1..Len(lots) /\ Len(lots) \in Nat /\ lots'[n].key = key /\ lots'[n].open
  <2>1. /\ lots'[Len(lots) + 1] = [key |-> key, current |-> TRUE, open |-> TRUE]
        /\ \A k \in DOMAIN lots : /\ lots'[k].key = lots[k].key /\ lots'[k].open = lots[k].open
                                  /\ ~lots'[k].current
        /\ DOMAIN lots' = DOMAIN lots \cup {Len(lots) + 1} /\ Len(lots) + 1 \notin DOMAIN lots
    BY ONLY <1>2, <1>7, key \in Keys, Issued
  <2> QED BY <1>2, <1>17, <2>1, Rows
<1>19. \A j \in DOMAIN pending' : /\ m[j] \in DOMAIN pending /\ pending'[j].sub = pending[m[j]].sub
                                  /\ pending'[j].type = pending[m[j]].type
                                  /\ pending'[j].period = pending[m[j]].period
                                  /\ Expected(pending'[j]) = Expected(pending[m[j]])
  BY <1>10, SameExpected DEF Requeued, Same
<1>20. \A j \in DOMAIN pending : j = 1 \/ 1 < j
  BY <1>2, Rows
<1>21. \A k \in DOMAIN lots : lots[k].key[1] = s => lots[k].key[2] < p
  <2> SUFFICES ASSUME NEW k \in DOMAIN lots, lots[k].key[1] = s PROVE lots[k].key[2] < p
    OBVIOUS
  <2>1. lots[k].key \in Subs \X Periods
    BY <1>9 DEF LotsOfSubs
  <2>2. lots[k].key[2] <= p
    BY <1>1, <1>3, <1>4, <1>5, <1>9 DEF LotsBehind
  <2>3. lots[k].key # key
    BY <1>11 DEF HasLot
  <2>4. lots[k].key = <<s, lots[k].key[2]>> /\ lots[k].key[2] \in Periods
    BY <2>1
  <2> QED BY <1>6, <2>2, <2>3, <2>4 DEF Periods
<1>22. \A k \in DOMAIN lots' : k = n \/ k \in DOMAIN lots
  BY <1>18
<1>23. LotsOfSubs' /\ LotsSorted' /\ LotsBehind'
  <2>1. LotsOfSubs'
    BY <1>6, <1>9, <1>18, <1>22 DEF LotsOfSubs
  <2>2. key[1] = s /\ key[2] = p
    BY <1>6
  <2>3. LotsSorted'
    <3> SUFFICES ASSUME NEW k \in DOMAIN lots', NEW l \in DOMAIN lots', k < l, lots'[k].key[1] = lots'[l].key[1]
                 PROVE  lots'[k].key[2] < lots'[l].key[2]
      BY DEF LotsSorted
    <3>1. k \in DOMAIN lots
      BY <1>17, <1>18
    <3>2. CASE l = n
      BY <1>18, <1>21, <2>2, <3>1, <3>2
    <3>3. CASE l \in DOMAIN lots
      BY <1>9, <1>18, <3>1, <3>3 DEF LotsSorted
    <3> QED BY <1>22, <3>2, <3>3
  <2>4. LotsBehind'
    <3> SUFFICES ASSUME NEW k \in DOMAIN lots', NEW j \in DOMAIN pending', lots'[k].key[1] = pending'[j].sub
                 PROVE  lots'[k].key[2] <= pending'[j].period
      BY DEF LotsBehind
    <3>1. CASE k = n
      <4>1. pending[m[j]].sub = s /\ lots'[k].key[2] = p /\ p <= p
        BY <1>18, <1>19, <2>2, <3>1 DEF Periods
      <4>2. CASE m[j] = 1
        BY <1>3, <1>5, <1>19, <4>1, <4>2
      <4>3. CASE 1 < m[j]
        <5>1. SameSub(1, m[j])
          BY <1>3, <1>4, <4>1 DEF SameSub
        <5>2. pending[1].period <= pending[m[j]].period
          BY <1>1, <1>9, <1>19, <4>3, <5>1 DEF InOrder
        <5> QED BY <1>3, <1>5, <1>19, <4>1, <5>2
      <4> QED BY <1>19, <1>20, <4>2, <4>3
    <3>2. CASE k \in DOMAIN lots
      BY <1>9, <1>18, <1>19, <3>2 DEF LotsBehind
    <3> QED BY <1>22, <3>1, <3>2
  <2> QED BY <2>1, <2>3, <2>4
<1>24. RepaidFirst'
  <2> SUFFICES ASSUME NEW j \in DOMAIN pending', Repaid(j)'
               PROVE  /\ \A h \in DOMAIN pending' : h < j => SamePaid(h, j)'
                      /\ Matches(profile', Expected(pending'[j]))
    BY DEF RepaidFirst, Matches, Expected
  <2>1. PICK k \in DOMAIN lots' : lots'[k].key = <<pending'[j].sub, pending'[j].period>>
    BY DEF Repaid, HasLot
  <2>2. m[j] \in DOMAIN pending /\ pending[m[j]].type = "paid"
    BY <1>19 DEF Repaid
  <2>3. pending[m[j]].sub = s /\ pending[m[j]].period = p
    <3>1. CASE k = n
      BY <1>6, <1>18, <1>19, <2>1, <3>1
    <3>2. CASE k \in DOMAIN lots
      <4>1. Repaid(m[j])
        BY <1>18, <1>19, <2>1, <2>2, <3>2 DEF Repaid, HasLot
      <4>2. SamePaid(1, m[j])
        BY <1>2, <1>9, <2>2, <4>1, RepaidHead
      <4> QED BY <1>3, <1>4, <1>5, <4>2 DEF SamePaid, SameSub
    <3> QED BY <1>22, <3>1, <3>2
  <2>4. SamePaid(1, m[j])
    BY <1>2, <1>3, <1>4, <1>5, <2>2, <2>3 DEF SamePaid, SameSub
  <2>5. ASSUME NEW h \in DOMAIN pending', h < j PROVE SamePaid(h, j)'
    <3>1. m[h] <= m[j] /\ m[h] \in DOMAIN pending
      BY <1>10, <2>5 DEF Requeued
    <3>2. SamePaid(1, m[h])
      <4>1. CASE m[h] = 1
        BY <2>4, <4>1 DEF SamePaid, SameSub
      <4>2. CASE m[h] = m[j]
        BY <2>4, <4>2
      <4>3. CASE 1 < m[h] /\ m[h] < m[j]
        BY <1>1, <1>9, <2>2, <2>4, <3>1, <4>3 DEF Together
      <4> QED BY <1>2, <1>20, <2>2, <3>1, <4>1, <4>2, <4>3, Rows
    <3> QED BY <1>19, <2>4, <3>2 DEF SamePaid, SameSub
  <2>6. Matches(profile', Expected(pending'[j]))
    <3>1. PICK f \in EventRow : f = pending[m[j]]
      BY <1>2, <2>2, Rows
    <3>2. f.status = "active"
      BY <1>2, <2>2, <3>1 DEF EventsTold, EventOk
    <3>3. Matches(profile', Expected(f))
      BY <1>6, <1>7, <2>2, <2>3, <3>1, <3>2, ExpectedFields DEF Matches, ToProfileStatus
    <3> QED BY <1>19, <3>1, <3>3
  <2> QED BY <2>5, <2>6
<1>25. \A k \in DOMAIN lots : \A t : lots[k].key \in {t} \X Periods <=> lots[k].key[1] = t
  <2> SUFFICES ASSUME NEW k \in DOMAIN lots, NEW t PROVE lots[k].key \in {t} \X Periods <=> lots[k].key[1] = t
    OBVIOUS
  <2>1. lots[k].key \in Subs \X Periods
    BY <1>9 DEF LotsOfSubs
  <2> QED BY <2>1
<1>26. \A k \in DOMAIN lots : \A t : k \in Own(t)' <=> k \in Own(t)
  BY <1>18 DEF Own
<1>27. \A t : n \in Own(t)' <=> t = s
  BY <1>6, <1>18 DEF Own
<1>28. \A t : Own(t)' \subseteq DOMAIN lots \cup {n}
  BY <1>18 DEF Own
<1>29. \A k \in DOMAIN lots : lots[k].key[1] # s => (Newest(k)' <=> Newest(k))
  <2> SUFFICES ASSUME NEW k \in DOMAIN lots, lots[k].key[1] # s PROVE Newest(k)' <=> Newest(k)
    OBVIOUS
  <2>1. PICK t : t = lots[k].key[1]
    OBVIOUS
  <2>2. Own(t)' = Own(t)
    BY <1>26, <1>27, <1>28, <2>1 DEF Own
  <2>3. \A l \in Own(t) : l \in DOMAIN lots /\ lots'[l].key = lots[l].key
    BY <1>18 DEF Own
  <2> QED BY <1>18, <2>1, <2>2, <2>3 DEF Newest
<1>30. Newest(n)'
  <2> SUFFICES ASSUME NEW l \in Own(s)' PROVE lots'[l].key[2] <= lots'[n].key[2]
    BY <1>6, <1>18 DEF Newest
  <2>1. CASE l = n
    BY <1>6, <1>18, <2>1 DEF Periods
  <2>2. CASE l \in DOMAIN lots
    <3>1. lots[l].key[1] = s /\ lots'[l].key = lots[l].key
      BY <1>18, <1>25, <1>26, <2>2 DEF Own
    <3>2. lots[l].key[2] < p /\ lots[l].key[2] \in Periods
      BY <1>9, <1>21, <2>2, <3>1 DEF LotsOfSubs
    <3> QED BY <1>6, <1>18, <3>1, <3>2 DEF Periods
  <2> QED BY <1>28, <2>1, <2>2
<1>31. HasNewest'
  <2> SUFFICES ASSUME NEW t \in Subs, Own(t)' # {} PROVE \E k \in Own(t)' : Newest(k)'
    BY DEF HasNewest
  <2>1. CASE t = s
    BY <1>27, <1>30, <2>1
  <2>2. CASE t # s
    <3>1. Own(t) # {} /\ Own(t) \subseteq Own(t)'
      BY <1>26, <1>27, <1>28, <2>2 DEF Own
    <3>2. PICK k \in Own(t) : Newest(k)
      BY <1>9, <3>1 DEF HasNewest
    <3>3. k \in DOMAIN lots /\ lots[k].key[1] = t
      BY <1>25, <3>2 DEF Own
    <3> QED BY <1>29, <2>2, <3>1, <3>2, <3>3
  <2> QED BY <2>1, <2>2
<1>32. \A k \in DOMAIN pending : k # 1 => \E j \in DOMAIN pending' : m[j] = k
  BY <1>10 DEF Requeued
<1>33. NewestOpen'
  <2> SUFFICES ASSUME NEW k \in DOMAIN lots', Newest(k)', lots'[k].open
               PROVE  Live(lots'[k].key[1]) \/ \E j \in DOMAIN pending' : /\ pending'[j].type = "deleted"
                                                                          /\ pending'[j].sub = lots'[k].key[1]
    BY <1>2 DEF NewestOpen, Live, Ending
  <2>1. CASE k = n
    <3>1. lots'[k].key[1] = s /\ stripe[s].status # "none"
      <4>1. lots'[k].key[1] = s
        BY <1>6, <1>18, <2>1
      <4>2. stripe[pending[1].sub].status # "none"
        BY <1>1, <1>2, EventOfSub
      <4> QED BY <1>3, <1>4, <4>1, <4>2
    <3>2. CASE stripe[s].status = "canceled"
      <4>1. PICK j \in DOMAIN pending : 1 < j /\ pending[j].type = "deleted" /\ SameSub(1, j)
        BY <1>1, <1>2, <1>3, <1>4, <1>9, <3>2 DEF EndComing
      <4>2. PICK h \in DOMAIN pending' : m[h] = j
        BY <1>20, <1>32, <4>1
      <4> QED BY <1>3, <1>4, <1>19, <3>1, <4>1, <4>2 DEF SameSub
    <3>3. CASE stripe[s].status # "canceled"
      BY <1>2, <3>1, <3>3 DEF Live, SubTyped, StripeRow
    <3> QED BY <3>2, <3>3
  <2>2. CASE k \in DOMAIN lots /\ lots[k].key[1] = s
    <3>1. lots[k].key[2] < p /\ lots[k].key[2] \in Periods
      BY <1>9, <1>21, <2>2 DEF LotsOfSubs
    <3>2. lots'[n].key[2] <= lots'[k].key[2]
      BY <1>18, <1>27, <2>2 DEF Newest
    <3> QED BY <1>6, <1>18, <2>2, <3>1, <3>2 DEF Periods
  <2>3. CASE k \in DOMAIN lots /\ lots[k].key[1] # s
    <3>1. Newest(k) /\ lots[k].open /\ lots'[k].key = lots[k].key
      BY <1>18, <1>29, <2>3
    <3>2. CASE Live(lots[k].key[1])
      BY <3>1, <3>2
    <3>3. CASE Ending(lots[k].key[1])
      <4>1. PICK j \in DOMAIN pending : pending[j].type = "deleted" /\ pending[j].sub = lots[k].key[1]
        BY <3>3 DEF Ending
      <4>2. PICK h \in DOMAIN pending' : m[h] = j
        BY <1>2, <1>32, <4>1
      <4> QED BY <1>19, <3>1, <4>1, <4>2
    <3> QED BY <1>9, <2>3, <3>1, <3>2, <3>3 DEF NewestOpen
  <2> QED BY <1>22, <2>1, <2>2, <2>3
<1>34. ClosedEnded'
  <2> SUFFICES ASSUME NEW k \in DOMAIN lots', ~lots'[k].open
               PROVE  /\ ~Live(lots'[k].key[1])
                      /\ \A j \in DOMAIN pending' : pending'[j].sub # lots'[k].key[1]
    BY <1>2 DEF ClosedEnded, Live
  <2>1. k \in DOMAIN lots /\ ~lots[k].open /\ lots'[k].key = lots[k].key
    BY <1>18, <1>22
  <2>2. ~Live(lots[k].key[1])
    BY <1>9, <2>1 DEF ClosedEnded
  <2>3. ASSUME NEW j \in DOMAIN pending', pending'[j].sub = lots[k].key[1] PROVE FALSE
    <3>1. m[j] \in DOMAIN pending /\ Ended(m[j])
      BY <1>9, <1>19, <2>1, <2>3 DEF ClosedEnded
    <3>2. SameSub(1, m[j])
      BY <1>2, <3>1, EndedHead
    <3>3. Ended(1)
      BY <1>1, <1>9, <1>19, <2>1, <2>3, <3>2 DEF ClosedEnded, SameSub
    <3> QED BY <1>2, <3>3 DEF Ended
  <2> QED BY <2>1, <2>2, <2>3
<1> QED BY <1>13, <1>14, <1>15, <1>16, <1>23, <1>24, <1>31, <1>33, <1>34
        DEF OrderlyOk, LotsInOrder, ClosedOk

\* The newest lot of a subscription, as FinalizeSubscriptionFromStripe looks it up.
LEMMA LastLot ==
  ASSUME SubTyped, LotsInOrder, ClosedOk, NEW s \in Subs, Own(s) # {},
         NEW last, last = CHOOSE k \in Own(s) : \A l \in Own(s) : lots[l].key[2] <= lots[k].key[2]
  PROVE  /\ last \in DOMAIN lots /\ lots[last].key[1] = s /\ last \in Own(s)
         /\ \A k \in Own(s) : Newest(k) => k = last
<1>1. LotsOfSubs /\ LotsSorted /\ HasNewest
  BY DEF LotsInOrder, ClosedOk
<1>2. \A k \in Own(s) : k \in DOMAIN lots /\ lots[k].key[1] = s /\ lots[k].key[2] \in Periods
  BY DEF Own
<1>3. PICK k \in Own(s) : Newest(k)
  BY <1>1 DEF HasNewest
<1>4. \E h \in Own(s) : \A l \in Own(s) : lots[l].key[2] <= lots[h].key[2]
  BY <1>2, <1>3 DEF Newest
<1>5. last \in Own(s) /\ \A l \in Own(s) : lots[l].key[2] <= lots[last].key[2]
  BY <1>4
<1>6. ASSUME NEW h \in Own(s), Newest(h) PROVE h = last
  <2>1. lots[last].key[2] <= lots[h].key[2] /\ lots[h].key[2] <= lots[last].key[2]
    BY <1>2, <1>5, <1>6 DEF Newest
  <2>2. lots[last].key[2] = lots[h].key[2]
    <3>1. lots[last].key[2] \in Int /\ lots[h].key[2] \in Int
      BY <1>2, <1>5 DEF Periods
    <3>2. PICK a \in Int : a = lots[last].key[2]
      BY <3>1
    <3>3. PICK b \in Int : b = lots[h].key[2]
      BY <3>1
    <3>4. a <= b /\ b <= a
      BY <2>1, <3>2, <3>3
    <3>5. a = b
      BY ONLY <3>4, a \in Int, b \in Int
    <3> QED BY <3>2, <3>3, <3>5
  <2>3. ~(h < last) /\ ~(last < h)
    BY <1>1, <1>2, <1>5, <2>2, BoundAssumption DEF LotsSorted, Periods
  <2> QED BY <1>2, <1>5, <2>3, Rows
<1> QED BY <1>2, <1>5, <1>6

\* The lots and the profile once the end of the subscription at the head is handled.
LEMMA FinalizeWrites ==
  ASSUME SubInvariant, OrderlyOk, Finalize(1), pending[1].type = "deleted", Ready(pending[1], profile),
         1 \in DOMAIN pending, NEW s \in Subs, s = pending[1].sub
  PROVE  /\ KeepLots /\ Ends(1) /\ UNCHANGED <<stripe, orders, request>>
         /\ \A k \in DOMAIN lots : lots'[k].open => lots[k].open
         /\ \A k \in DOMAIN lots : lots[k].open /\ ~lots'[k].open => lots[k].key[1] = s
         /\ \A k \in Own(s) : Newest(k) => ~lots'[k].open
         /\ Matches(profile', Expected(pending[1])) /\ ~profile'.flag
<1>0. SubTyped /\ LotsInOrder /\ ClosedOk /\ FreeOk /\ ClosedEnded
  BY DEF SubInvariant, Unconditional, OrderlyOk, ClosedOk, ProfileFollows
<1>1. PICK e \in EventRow : e = pending[1]
  BY <1>0, Rows
<1>2. /\ Expected(e).status = "FREE" /\ Expected(e).sub = s /\ Expected(e).plan = "free"
      /\ Expected(e).period = None /\ profile.sub = s
  BY <1>1, ExpectedFields DEF Ready
<1>3. PICK f : f = FreeProfile
  OBVIOUS
<1>4. Matches(f, Expected(e)) /\ ~f.flag
  <2>1. profile \in ProfileRow
    BY <1>0 DEF SubTyped
  <2>2. f.status = "FREE" /\ f.plan = "free" /\ f.flag = FALSE /\ f.period = None /\ f.sub = profile.sub
    BY <1>3, <2>1 DEF ProfileRow, FreeProfile
  <2> QED BY <1>2, <2>2 DEF Matches
<1>5. OnFreePlan => Matches(profile, Expected(e)) /\ ~profile.flag
  BY <1>0, <1>2 DEF Matches, FreeOk, OnFreePlan
<1>6. PICK last : last = CHOOSE k \in Own(s) : \A l \in Own(s) : lots[l].key[2] <= lots[k].key[2]
  OBVIOUS
<1>7. /\ Ends(1) /\ UNCHANGED <<stripe, orders, request>>
      /\ \/ Own(s) = {} /\ profile' = (IF OnFreePlan THEN profile ELSE f) /\ UNCHANGED lots
         \/ Own(s) # {} /\ ~lots[last].open /\ UNCHANGED <<profile, lots>>
         \/ /\ Own(s) # {} /\ lots[last].open
            /\ lots' = [lots EXCEPT ![last].open = FALSE]
            /\ profile' = f
  BY <1>3, <1>6 DEF Finalize, Own
<1>8. CASE Own(s) = {} /\ profile' = (IF OnFreePlan THEN profile ELSE f) /\ UNCHANGED lots
  <2>1. Matches(profile', Expected(e)) /\ ~profile'.flag
    BY <1>4, <1>5, <1>8
  <2> QED BY <1>1, <1>7, <1>8, <2>1 DEF KeepLots
<1>9. CASE Own(s) # {} /\ ~lots[last].open /\ UNCHANGED <<profile, lots>>
  <2>1. last \in DOMAIN lots /\ lots[last].key[1] = s /\ \A k \in Own(s) : Newest(k) => k = last
    BY <1>0, <1>6, <1>9, LastLot
  <2>2. Ended(1)
    BY <1>0, <1>9, <2>1 DEF ClosedEnded
  <2>3. Matches(profile', Expected(e)) /\ ~profile'.flag
    BY <1>1, <1>9, <2>2 DEF Ended
  <2> QED BY <1>1, <1>7, <1>9, <2>1, <2>3 DEF KeepLots
<1>10. CASE /\ Own(s) # {} /\ lots[last].open
            /\ lots' = [lots EXCEPT ![last].open = FALSE]
            /\ profile' = f
  <2>1. last \in DOMAIN lots /\ lots[last].key[1] = s /\ \A k \in Own(s) : Newest(k) => k = last
    BY <1>0, <1>6, <1>10, LastLot
  <2>2. \A k \in DOMAIN lots : lots[k] \in LotRow
    BY <1>0, Rows
  <2>3. /\ DOMAIN lots' = DOMAIN lots
        /\ \A k \in DOMAIN lots : /\ lots'[k].key = lots[k].key /\ lots'[k].current = lots[k].current
                                  /\ lots'[k].open = (lots[k].open /\ k # last)
    BY <1>10, <2>1, <2>2 DEF LotRow
  <2>4. \A k \in Own(s) : Newest(k) => ~lots'[k].open
    BY <2>1, <2>3
  <2> QED BY <1>1, <1>4, <1>7, <1>10, <2>1, <2>3, <2>4 DEF KeepLots
<1> QED BY <1>7, <1>8, <1>9, <1>10

\* ... and FinalizeSubscriptionFromStripe.
LEMMA FinalizeOrderly ==
  ASSUME SubInvariant, Unconditional', NEW i, Finalize(i), orderly'
  PROVE  OrderlyOk'
<1>1. /\ OrderlyOk /\ i = 1 /\ 1 \in DOMAIN pending
      /\ pending[1].type = "deleted" /\ Ready(pending[1], profile) /\ FreeOk
  BY StartsHead DEF Finalize
<1>2. SubTyped /\ SubTyped' /\ EventsTold
  BY DEF SubInvariant, Unconditional, ToldOk
<1>3. PICK e \in EventRow : e = pending[1]
  BY <1>1, <1>2, Rows
<1>4. PICK s \in Subs : s = pending[1].sub
  BY <1>1, <1>2, Rows
<1>5. /\ KeepLots /\ Ends(1) /\ UNCHANGED <<stripe, orders, request>>
      /\ \A k \in DOMAIN lots : lots'[k].open => lots[k].open
      /\ \A k \in DOMAIN lots : lots[k].open /\ ~lots'[k].open => lots[k].key[1] = s
      /\ \A k \in Own(s) : Newest(k) => ~lots'[k].open
      /\ Matches(profile', Expected(pending[1])) /\ ~profile'.flag
  BY <1>1, <1>4, FinalizeWrites
<1>6. PICK m : Turns(m, 1, "sent", FALSE)
  BY <1>1, <1>2, <1>5, EndFollows
<1>7. /\ QueueOk /\ LotsInOrder /\ ClosedOk /\ ProfileFollows /\ FlagFollows /\ RequestOk
      /\ HeadRuns /\ InOrder /\ Together
      /\ LotsOfSubs /\ RepaidFirst /\ HasNewest /\ NewestOpen /\ ClosedEnded
  BY <1>1 DEF OrderlyOk, QueueOk, LotsInOrder, ClosedOk
<1>8. Requeued(m) /\ HeadRuns' /\ \A j \in DOMAIN pending' : pending'[j].pc = "sent"
  BY <1>1, <1>2, <1>6, <1>7, HeadTurns DEF Pcs
<1>9. /\ profile'.status = "FREE" /\ profile'.sub = s /\ profile'.plan = "free" /\ profile'.period = None
      /\ ~profile'.flag /\ stripe[s].status = "canceled" /\ ~Live(s)
  BY <1>1, <1>2, <1>3, <1>4, <1>5, ExpectedFields DEF Matches, EventsTold, Live
<1>10. QueueOk'
  BY <1>1, <1>2, <1>5, <1>7, <1>8, QueueKept
<1>11. LotsInOrder'
  <2>1. ASSUME NEW j \in DOMAIN pending, Repaid(j) PROVE FALSE
    BY <1>1, <1>2, <1>7, <2>1, RepaidHead DEF SamePaid
  <2> QED BY <1>1, <1>2, <1>5, <1>7, <1>8, <2>1, LotsKept
<1>12. ProfileFollows'
  <2>1. ReadFree' /\ Related'
    BY <1>8 DEF ReadFree, Related
  <2>2. FreeOk' /\ Ready(pending[1], profile')
    BY <1>1, <1>4, <1>5, <1>9 DEF FreeOk, Live, Ready
  <2> QED BY <1>1, <1>2, <1>5, <1>7, <1>8, <2>1, <2>2, ProfileKept
<1>13. FlagFollows'
  <2>1. Flags(pending[1]) /\ ~FlagTold(pending[1])
    BY <1>1 DEF Flags, FlagTold
  <2> QED BY <1>1, <1>2, <1>5, <1>7, <1>8, <2>1, FlagKept
<1>14. RequestOk'
  BY <1>1, <1>2, <1>4, <1>5, <1>7, <1>8, <1>9, RequestKept
<1>15. \A j \in DOMAIN pending' : /\ m[j] \in DOMAIN pending /\ pending'[j].sub = pending[m[j]].sub
                                  /\ pending'[j].type = pending[m[j]].type
                                  /\ Expected(pending'[j]) = Expected(pending[m[j]])
  BY <1>8, SameExpected DEF Requeued, Same
<1>16. \A j \in DOMAIN pending : j = 1 \/ 1 < j
  BY <1>2, Rows
<1>17. /\ DOMAIN lots' = DOMAIN lots /\ \A k \in DOMAIN lots : lots'[k].key = lots[k].key
       /\ \A t : Own(t)' = Own(t)
       /\ \A t : \A k \in Own(t) : k \in DOMAIN lots
  BY <1>5 DEF KeepLots, Own
<1>18. \A k \in DOMAIN lots : Newest(k)' <=> Newest(k)
  BY <1>17 DEF Newest
<1>19. HasNewest'
  BY <1>7, <1>17, <1>18 DEF HasNewest
<1>20. NewestOpen'
  <2> SUFFICES ASSUME NEW k \in DOMAIN lots, Newest(k), lots'[k].open
               PROVE  Live(lots[k].key[1]) \/ \E j \in DOMAIN pending' : /\ pending'[j].type = "deleted"
                                                                         /\ pending'[j].sub = lots[k].key[1]
    BY <1>5, <1>17, <1>18 DEF NewestOpen, Live, Ending
  <2>1. lots[k].key[1] # s
    <3>1. k \notin Own(s)
      BY <1>5
    <3> QED BY <1>7, <3>1 DEF LotsOfSubs, Own
  <2>2. CASE Ending(lots[k].key[1])
    <3>1. PICK j \in DOMAIN pending : pending[j].type = "deleted" /\ pending[j].sub = lots[k].key[1]
      BY <2>2 DEF Ending
    <3>2. j # 1
      BY <1>4, <2>1, <3>1
    <3>3. PICK h \in DOMAIN pending' : m[h] = j
      BY <1>8, <3>2 DEF Requeued
    <3> QED BY <1>15, <3>1, <3>3
  <2> QED BY <1>5, <1>7, <2>2 DEF NewestOpen
<1>21. ClosedEnded'
  <2> SUFFICES ASSUME NEW k \in DOMAIN lots, ~lots'[k].open
               PROVE  /\ ~Live(lots[k].key[1])
                      /\ \A j \in DOMAIN pending' : pending'[j].sub = lots[k].key[1] => Ended(j)'
    BY <1>5, <1>17 DEF ClosedEnded, Live
  <2>1. ~Live(lots[k].key[1])
    BY <1>5, <1>7, <1>9 DEF ClosedEnded
  <2>2. ASSUME NEW j \in DOMAIN pending', pending'[j].sub = lots[k].key[1] PROVE Ended(j)'
    <3>1. lots[k].key[1] = s
      <4>1. CASE ~lots[k].open
        <5>1. Ended(m[j])
          BY <1>7, <1>15, <2>2, <4>1 DEF ClosedEnded
        <5> QED BY <1>2, <1>4, <1>15, <2>2, <5>1, EndedHead DEF SameSub
      <4> QED BY <1>5, <4>1
    <3>2. SameSub(1, m[j]) /\ pending[m[j]].sub = s
      BY <1>4, <1>15, <2>2, <3>1 DEF SameSub
    <3>3. pending[m[j]].type = "deleted"
      BY <1>1, <1>7, <1>15, <1>16, <3>2 DEF InOrder
    <3>4. ASSUME NEW h \in DOMAIN pending', h < j PROVE SameSub(h, j)'
      <4>1. m[h] <= m[j] /\ m[h] \in DOMAIN pending /\ m[j] \in DOMAIN pending
        BY <1>8, <1>15, <3>4 DEF Requeued
      <4>2. SameSub(1, m[h])
        <5>1. CASE 1 < m[h] /\ m[h] < m[j]
          BY <1>1, <1>7, <3>2, <4>1, <5>1 DEF Together
        <5>2. CASE m[h] = 1 \/ m[h] = m[j]
          BY <3>2, <5>2 DEF SameSub
        <5> QED BY <1>2, <1>16, <4>1, <5>1, <5>2, Rows
      <4> QED BY <1>15, <3>2, <4>2 DEF SameSub
    <3>5. PICK g \in EventRow : g = pending[m[j]]
      BY <1>2, <1>15, Rows
    <3>6. Matches(profile', Expected(g))
      BY <1>9, <3>2, <3>3, <3>5, ExpectedFields DEF Matches
    <3> QED BY <1>9, <1>15, <3>3, <3>4, <3>5, <3>6 DEF Ended, Matches, Expected
  <2> QED BY <2>1, <2>2
<1> QED BY <1>10, <1>11, <1>12, <1>13, <1>14, <1>19, <1>20, <1>21 DEF OrderlyOk, ClosedOk

\* An event told again, or whose handler fails, keeps the agreement.
LEMMA RepeatOrderly ==
  ASSUME SubInvariant, Unconditional', NEW i, Redeliver(i) \/ Fail(i), orderly'
  PROVE  OrderlyOk'
<1>1. /\ SubTyped /\ SubTyped' /\ i \in DOMAIN pending /\ OrderlyOk
      /\ UNCHANGED <<stripe, profile, orders, lots, request, orderly, overlapped>>
  BY DEF SubInvariant, Unconditional, Redeliver, Fail
<1>2. PICK m : Repeats(m, i)
  BY <1>1, RepeatFollows, FailFollows DEF Redeliver, Fail
<1>3. 1 \in DOMAIN pending
  BY <1>1, Rows
<1>4. Requeued(m) /\ Keeps(m)
  BY <1>1, <1>2, <1>3, Requeues
<1>5. /\ QueueOk /\ LotsInOrder /\ ClosedOk /\ ProfileFollows /\ FlagFollows /\ RequestOk
      /\ HeadRuns /\ RepaidFirst /\ ClosedEnded /\ HeadReady /\ ReadFree /\ Related /\ FreeOk
  BY <1>1 DEF OrderlyOk, QueueOk, LotsInOrder, ClosedOk, ProfileFollows
<1>6. \A j \in DOMAIN pending' : pending'[j].pc # "sent" => m[j] \in DOMAIN pending /\ pending'[j] = pending[m[j]]
  BY <1>2 DEF Repeats, Follows
<1>7. HeadRuns'
  <2> SUFFICES ASSUME NEW j \in DOMAIN pending', pending'[j].pc # "sent" PROVE j = 1
    BY DEF HeadRuns
  <2>1. m[j] = 1
    BY <1>5, <1>6 DEF HeadRuns
  <2>2. pending' # << >>
    OBVIOUS
  <2>3. 1 \in DOMAIN pending' /\ m[1] = 1
    BY <1>1, <1>3, <1>4, <2>2, Chain
  <2>4. ~(1 < j)
    BY <1>2, <2>1, <2>3 DEF Repeats
  <2>5. DOMAIN pending' = 1..Len(pending') /\ Len(pending') \in Nat
    BY <1>1, LenProperties DEF SubTyped
  <2> QED BY <2>4, <2>5
<1>8. QueueOk'
  BY <1>1, <1>3, <1>4, <1>5, <1>7, QueueKept
<1>9. Matches(profile', profile) /\ profile' = profile
  BY <1>1 DEF Matches
<1>10. LotsInOrder'
  <2>1. KeepLots
    BY <1>1 DEF KeepLots
  <2>2. \A j \in DOMAIN pending : Repaid(j) => Matches(profile', Expected(pending[j]))
    BY <1>5, <1>9 DEF RepaidFirst
  <2> QED BY <1>1, <1>3, <1>4, <1>5, <2>1, <2>2, LotsKept
<1>11. ClosedOk'
  <2>1. \A k \in DOMAIN lots, j \in DOMAIN pending : ~lots[k].open /\ pending[j].sub = lots[k].key[1] =>
           Matches(profile', Expected(pending[j])) /\ ~profile'.flag
    BY <1>5, <1>9 DEF ClosedEnded, Ended
  <2> QED BY <1>1, <1>3, <1>4, <1>5, <2>1, ClosedKept
<1>12. ProfileFollows'
  <2>1. Ready(pending[1], profile')
    BY <1>1, <1>3, <1>5, <1>9, Rows DEF HeadReady
  <2>2. ReadFree'
    BY <1>5, <1>6 DEF ReadFree
  <2>3. Related'
    BY <1>5, <1>6, <1>9 DEF Related, Matches, Expected
  <2>4. FreeOk'
    BY <1>1, <1>5 DEF FreeOk, Live
  <2> QED BY <1>1, <1>3, <1>4, <1>5, <2>1, <2>2, <2>3, <2>4, ProfileKept
<1>13. FlagFollows'
  BY <1>1, <1>3, <1>4, <1>5, <1>9, FlagKept
<1>14. RequestOk'
  BY <1>1, <1>3, <1>4, <1>5, <1>9, RequestKept
<1> QED BY <1>8, <1>10, <1>11, <1>12, <1>13, <1>14 DEF OrderlyOk

\* The customer leaves the events, Stripe and the lots alone.
LEMMA AsideOrderly ==
  ASSUME SubTyped, OrderlyOk, UNCHANGED <<stripe, pending, lots>>, Matches(profile', profile),
         FlagNow', profile.status = "FREE" => ~profile'.flag, AskedOwn', AskedDone'
  PROVE  OrderlyOk'
<1>0. /\ QueueOk /\ LotsInOrder /\ ClosedOk /\ ProfileFollows /\ FlagFollows /\ RequestOk
      /\ HeadRuns /\ InOrder /\ Together /\ EndComing
      /\ LotsOfSubs /\ LotsSorted /\ LotsBehind /\ RepaidFirst /\ HasNewest /\ NewestOpen /\ ClosedEnded
      /\ OneLive /\ HeadReady /\ NextReady /\ ReadFree /\ Related /\ ComingLive /\ ComingFree /\ FreeOk
      /\ FlagComing /\ Alone
  BY DEF OrderlyOk, QueueOk, LotsInOrder, ClosedOk, ProfileFollows, FlagFollows, RequestOk
<1>1. /\ stripe' = stripe /\ pending' = pending /\ lots' = lots
      /\ profile'.status = profile.status /\ profile'.sub = profile.sub
      /\ profile'.plan = profile.plan /\ profile'.period = profile.period
  BY DEF Matches
<1>2. QueueOk'
  BY <1>0, <1>1 DEF QueueOk, HeadRuns, InOrder, Together, EndComing, SameSub, SamePaid, Live
<1>3. LotsInOrder'
  <2>1. LotsOfSubs' /\ LotsSorted' /\ LotsBehind'
    BY <1>0, <1>1 DEF LotsOfSubs, LotsSorted, LotsBehind
  <2>2. RepaidFirst'
    BY <1>0, <1>1 DEF RepaidFirst, Repaid, HasLot, SamePaid, SameSub, Matches, Expected
  <2> QED BY <2>1, <2>2 DEF LotsInOrder
<1>4. ClosedOk'
  <2>1. HasNewest' /\ NewestOpen'
    BY <1>0, <1>1 DEF HasNewest, NewestOpen, Newest, Own, Live, Ending
  <2>2. ASSUME NEW j \in DOMAIN pending, Ended(j) PROVE Ended(j)'
    <3>1. pending[j].type = "deleted" /\ Matches(profile, Expected(pending[j]))
      BY <2>2 DEF Ended
    <3>2. pending[j] \in EventRow
      BY Rows
    <3>3. profile.status = "FREE"
      BY <3>1, <3>2, ExpectedFields DEF Matches
    <3> QED BY <1>1, <2>2, <3>3 DEF Ended, SameSub, Matches, Expected
  <2>3. ClosedEnded'
    BY <1>0, <1>1, <2>2 DEF ClosedEnded, Live
  <2> QED BY <2>1, <2>3 DEF ClosedOk
<1>5. ProfileFollows'
  <2>1. OneLive' /\ NextReady' /\ ReadFree' /\ HeadReady'
    BY <1>0, <1>1 DEF OneLive, NextReady, ReadFree, HeadReady, Live, Ready, Matches, Expected
  <2>2. Related'
    BY <1>0, <1>1 DEF Related, Matches, Expected
  <2>3. PICK c : c = Coming'
    OBVIOUS
  <2>4. Matches(c, Coming)
    BY <1>1, <2>3 DEF Coming, Matches, Expected
  <2>5. ComingLive'
    BY <1>0, <1>1, <2>3, <2>4 DEF ComingLive, Live, Matches, Mirror
  <2>6. ComingFree'
    BY <1>0, <1>1, <2>3, <2>4 DEF ComingFree, Live, Matches
  <2>7. FreeOk'
    BY <1>0, <1>1 DEF FreeOk, Live
  <2> QED BY <2>1, <2>2, <2>5, <2>6, <2>7 DEF ProfileFollows
<1>6. FlagFollows'
  BY <1>0, <1>1 DEF FlagFollows, FlagComing, Flags, FlagTold, TrueFlag, Live
<1>7. RequestOk'
  BY <1>0, <1>1 DEF RequestOk, Alone, Live
<1> QED BY <1>2, <1>3, <1>4, <1>5, <1>6, <1>7 DEF OrderlyOk

\* So do the requests of the customer that Stripe does not hear of.
LEMMA CustomerOrderly ==
  ASSUME SubInvariant, orderly',
         \/ \E s \in Subs : OpenCheckout(s)
         \/ \E op \in {"cancel", "resume"} : Ask(op)
         \/ CallStripe /\ ~Live(request.sub)
         \/ WriteFlag
         \/ UNCHANGED SBvars
  PROVE  OrderlyOk'
<1>1. SubTyped /\ UNCHANGED <<stripe, pending, lots, orderly>>
  BY DEF SubInvariant, Unconditional, OpenCheckout, Ask, CallStripe, WriteFlag, SBvars
<1>2. OrderlyOk /\ FreeOk /\ FlagNow /\ OneLive /\ AskedOwn /\ AskedDone
  BY <1>1 DEF SubInvariant, OrderlyOk, ProfileFollows, FlagFollows, RequestOk
<1>3. CASE UNCHANGED <<profile, request>>
  <2>1. /\ FlagNow' /\ AskedOwn' /\ AskedDone' /\ Matches(profile', profile)
        /\ profile.status = "FREE" => ~profile'.flag
    BY <1>1, <1>2, <1>3 DEF FlagNow, Flags, TrueFlag, Live, AskedOwn, AskedDone, Matches, FreeOk
  <2> QED BY <1>1, <1>2, <2>1, AsideOrderly
<1>4. ASSUME NEW op \in {"cancel", "resume"}, Ask(op) PROVE OrderlyOk'
  <2>1. profile' = profile /\ request'.sub = profile.sub /\ ~request'.called
    BY <1>4 DEF Ask
  <2>2. /\ FlagNow' /\ AskedOwn' /\ AskedDone' /\ Matches(profile', profile)
        /\ profile.status = "FREE" => ~profile'.flag
    BY <1>1, <1>2, <2>1 DEF FlagNow, Flags, TrueFlag, Live, AskedOwn, AskedDone, Matches, FreeOk
  <2> QED BY <1>1, <1>2, <2>2, AsideOrderly
<1>5. CASE UNCHANGED profile /\ request' = NoRequest
  <2>1. request'.op = "none" /\ ~request'.called
    BY <1>5 DEF NoRequest
  <2>2. /\ FlagNow' /\ AskedOwn' /\ AskedDone' /\ Matches(profile', profile)
        /\ profile.status = "FREE" => ~profile'.flag
    BY <1>1, <1>2, <1>5, <2>1 DEF FlagNow, Flags, TrueFlag, Live, AskedOwn, AskedDone, Matches, FreeOk
  <2> QED BY <1>1, <1>2, <2>2, AsideOrderly
<1>6. CASE request.called /\ profile' = [profile EXCEPT !.flag = (request.op = "cancel")] /\ request' = NoRequest
  <2>1. request'.op = "none" /\ ~request'.called
    BY <1>6 DEF NoRequest
  <2>2. profile'.flag = (request.op = "cancel") /\ Matches(profile', profile)
    BY <1>1, <1>6 DEF SubTyped, ProfileRow, Matches
  <2>3. /\ request.sub \in Subs /\ Live(request.sub) /\ profile.sub = request.sub
        /\ stripe[request.sub].flag = (request.op = "cancel")
    BY <1>2, <1>6 DEF AskedOwn, AskedDone
  <2>4. \A s \in Subs : Live(s) => s = request.sub
    BY <1>2, <2>3 DEF OneLive
  <2>5. profile'.flag <=> TrueFlag
    BY <2>2, <2>3, <2>4 DEF TrueFlag
  <2>6. profile.status # "FREE"
    BY <1>2, <2>3 DEF FreeOk
  <2>7. FlagNow' /\ AskedOwn' /\ AskedDone'
    BY <1>1, <2>1, <2>5 DEF FlagNow, TrueFlag, Live, AskedOwn, AskedDone
  <2> QED BY <1>1, <1>2, <2>2, <2>6, <2>7, AsideOrderly
<1>7. \A s \in Subs : OpenCheckout(s) => UNCHANGED <<profile, request>>
  BY DEF OpenCheckout
<1>8. CallStripe /\ ~Live(request.sub) => UNCHANGED profile /\ request' = NoRequest
  BY DEF CallStripe
<1>9. CASE WriteFlag
  BY <1>5, <1>6, <1>9 DEF WriteFlag
<1>10. UNCHANGED SBvars => UNCHANGED <<profile, request>>
  BY DEF SBvars
<1> QED BY <1>3, <1>4, <1>5, <1>7, <1>8, <1>9, <1>10

-----------------------------------------------------------------------------
(* An orderly history when Stripe moves. *)

\* The events, Stripe and the lots around such a step.
AfterTelling(s, x, types) ==
  /\ s \in Subs /\ x \in StripeRow /\ x.status # "none" /\ x.period \in Periods /\ Telltale(s, x, types)
  /\ DOMAIN pending = 1..Len(pending) /\ Len(pending) \in Nat
  /\ DOMAIN pending' = 1..(Len(pending) + Len(types)) /\ Len(pending') = Len(pending) + Len(types)
  /\ \A j \in 1..Len(pending) : pending'[j] = pending[j]
  /\ \A i \in 1..Len(types) : pending'[Len(pending) + i] = Event(types[i], s, x)
  /\ \A i \in 1..Len(types) : types[i] \in Types /\ (types[i] = "deleted" => x.status = "canceled")
  /\ stripe'[s] = x /\ \A t \in Subs : t # s => stripe'[t] = stripe[t] /\ ~Live(t)
  /\ stripe[s].status # "none" => Live(s)
  /\ \A j \in 1..Len(pending) : pending[j].sub = s =>
       Live(s) /\ pending[j].type # "deleted" /\ pending[j].period <= x.period
  /\ \A k \in DOMAIN lots : lots[k].key[1] = s =>
       Live(s) /\ lots[k].key[2] <= x.period /\ lots[k].key[2] \in stripe[s].paid
  /\ profile.sub = s => Live(s)

\* A move of Stripe that is alone is such a step.
LEMMA TellsInOrder ==
  ASSUME Unconditional, LotsOfSubs, NEW s, NEW x, NEW types, Moved(s, x, types), Tell(s, x, types),
         \A t \in Subs : t # s => ~Live(t)
  PROVE  AfterTelling(s, x, types)
<1>0. SubTyped /\ StripeOk /\ EventsTold /\ LotsTold /\ ProfileTold
  BY DEF Unconditional, ToldOk
<1>1. /\ s \in Subs /\ x \in StripeRow /\ types \in Seq(Types)
      /\ x.status # "none" /\ x.period \in Periods /\ stripe[s].status # "canceled"
      /\ stripe[s].period <= x.period
      /\ (\A i \in DOMAIN types : types[i] = "deleted" => x.status = "canceled") /\ Telltale(s, x, types)
  BY DEF Moved
<1>2. /\ pending' \in Seq(EventRow) /\ Len(pending') = Len(pending) + Len(types)
      /\ \A j \in DOMAIN pending : pending'[j] = pending[j]
      /\ \A i \in DOMAIN types : pending'[Len(pending) + i] = Event(types[i], s, x)
      /\ stripe'[s] = x /\ \A t \in Subs : t # s => stripe'[t] = stripe[t]
  BY <1>0, <1>1, Telling
<1>3. /\ Len(pending) \in Nat /\ DOMAIN pending = 1..Len(pending) /\ Len(types) \in Nat
      /\ DOMAIN types = 1..Len(types) /\ DOMAIN pending' = 1..(Len(pending) + Len(types))
      /\ \A i \in 1..Len(types) : types[i] \in Types
  BY <1>0, <1>1, <1>2, LenProperties, ElementOfSeq DEF SubTyped
<1>4. stripe[s] \in StripeRow /\ (stripe[s].status # "none" => Live(s))
  BY <1>0, <1>1 DEF SubTyped, StripeRow, Live
<1>5. stripe[s].period \in Nat /\ x.period \in Nat
  BY <1>1, <1>4, BoundAssumption DEF StripeRow, Periods
<1>6. ASSUME NEW j \in 1..Len(pending), pending[j].sub = s
      PROVE  Live(s) /\ pending[j].type # "deleted" /\ pending[j].period <= x.period
  <2>1. stripe[pending[j].sub].status # "none" /\ pending[j].period \in Periods
    BY <1>0, <1>3, EventOfSub
  <2>2. pending[j].type # "deleted" /\ pending[j].period <= stripe[s].period
    BY <1>0, <1>1, <1>3, <1>6 DEF EventsTold
  <2>3. pending[j].period \in Nat
    BY <2>1, BoundAssumption DEF Periods
  <2> QED BY <1>1, <1>4, <1>5, <1>6, <2>1, <2>2, <2>3
<1>7. ASSUME NEW k \in DOMAIN lots, lots[k].key[1] = s
      PROVE  Live(s) /\ lots[k].key[2] <= x.period /\ lots[k].key[2] \in stripe[s].paid
  <2>1. PICK p \in Periods : lots[k].key = <<s, p>>
    BY <1>7 DEF LotsOfSubs
  <2>2. p \in stripe[s].paid /\ lots[k].key[2] = p
    BY <1>0, <1>1, <2>1 DEF LotsTold
  <2>3. p <= stripe[s].period
    BY <1>0, <1>1, <2>2 DEF StripeOk
  <2>4. p \in Nat \ {0}
    BY BoundAssumption DEF Periods
  <2>5. stripe[s].status # "none"
    BY <1>0, <1>1, <1>5, <2>3, <2>4 DEF StripeOk
  <2> QED BY <1>1, <1>4, <1>5, <2>2, <2>3, <2>4, <2>5
<1>8. profile.sub = s => Live(s)
  BY <1>0, <1>1, <1>4 DEF ProfileTold
<1> QED BY <1>1, <1>2, <1>3, <1>4, <1>6, <1>7, <1>8 DEF AfterTelling

\* An event around such a step is an old one, or one of the new.
LEMMA OldOrNew ==
  ASSUME NEW s, NEW x, NEW types, AfterTelling(s, x, types), NEW j \in DOMAIN pending'
  PROVE  \/ /\ j \in DOMAIN pending /\ j <= Len(pending) /\ pending'[j] = pending[j]
            /\ pending'[j].sub = s => /\ Live(s) /\ pending'[j].type # "deleted"
                                      /\ pending'[j].period <= x.period
         \/ \E i \in 1..Len(types) :
              /\ j = Len(pending) + i /\ j \notin DOMAIN pending
              /\ pending'[j] = Event(types[i], s, x)
              /\ pending'[j].type = types[i] /\ pending'[j].sub = s /\ pending'[j].period = x.period
              /\ pending'[j].status = x.status /\ pending'[j].flag = x.flag /\ pending'[j].pc = "sent"
<1>1. /\ DOMAIN pending = 1..Len(pending) /\ Len(pending) \in Nat /\ Len(types) \in 0..2
      /\ DOMAIN pending' = 1..(Len(pending) + Len(types))
  BY DEF AfterTelling, Telltale
<1>2. CASE j <= Len(pending)
  BY <1>1, <1>2 DEF AfterTelling
<1>3. CASE j > Len(pending)
  <2>1. PICK i \in 1..Len(types) : j = Len(pending) + i
    <3>1. j - Len(pending) \in 1..Len(types) /\ j = Len(pending) + (j - Len(pending))
      BY <1>1, <1>3
    <3> QED BY <3>1
  <2>2. pending'[j] = Event(types[i], s, x) /\ j \notin DOMAIN pending
    BY <1>1, <1>3, <2>1 DEF AfterTelling
  <2>3. /\ pending'[j].type = types[i] /\ pending'[j].sub = s /\ pending'[j].period = x.period
        /\ pending'[j].status = x.status /\ pending'[j].flag = x.flag /\ pending'[j].pc = "sent"
    BY ONLY <2>2 DEF Event
  <2> QED BY <2>1, <2>2, <2>3
<1> QED BY <1>1, <1>2, <1>3

\* The new events follow the old ones in order ...
LEMMA TellQueue ==
  ASSUME SubTyped, EventsTold, QueueOk, NEW s, NEW x, NEW types, AfterTelling(s, x, types)
  PROVE  QueueOk'
<1>0. HeadRuns /\ InOrder /\ Together /\ EndComing
  BY DEF QueueOk
<1>1. /\ DOMAIN pending = 1..Len(pending) /\ Len(pending) \in Nat /\ Len(types) \in 0..2
      /\ DOMAIN pending' = 1..(Len(pending) + Len(types))
      /\ \A j \in DOMAIN pending : pending'[j] = pending[j] /\ j \in DOMAIN pending'
      /\ s \in Subs /\ stripe'[s] = x /\ \A t \in Subs : t # s => stripe'[t] = stripe[t] /\ ~Live(t)
      /\ x.period \in Nat
  BY BoundAssumption DEF AfterTelling, Telltale, Periods
<1>2. HeadRuns'
  BY <1>0, OldOrNew DEF HeadRuns
<1>3. ASSUME NEW t \in Subs, Live(t)' PROVE t = s
  BY <1>1, <1>3 DEF Live
<1>4. \A j \in DOMAIN pending : pending[j].sub \in Subs
  BY Rows
<1>5. ASSUME NEW i \in DOMAIN pending', NEW j \in DOMAIN pending', i < j
      PROVE  /\ SameSub(i, j)' => pending'[i].period <= pending'[j].period
             /\ SameSub(i, j)' /\ pending'[i].type = "deleted" => pending'[j].type = "deleted"
             /\ Live(pending[i].sub)' => SameSub(i, j)'
  <2>1. CASE j \in DOMAIN pending
    <3>1. i \in DOMAIN pending
      BY <1>1, <1>5, <2>1
    <3>2. pending'[i] = pending[i] /\ pending'[j] = pending[j] /\ pending[i].sub \in Subs
      BY <1>1, <1>4, <2>1, <3>1
    <3>3. Live(pending[i].sub)' => Live(pending[i].sub)
      BY <1>1, <1>3, <3>1, <3>2, OldOrNew
    <3> QED BY <1>0, <1>5, <2>1, <3>1, <3>2, <3>3 DEF InOrder, SameSub
  <2>2. CASE j \notin DOMAIN pending
    <3>1. PICK h \in 1..Len(types) : /\ j = Len(pending) + h
                                     /\ pending'[j].sub = s /\ pending'[j].period = x.period
      BY <2>2, OldOrNew
    <3>2. CASE i \in DOMAIN pending
      <4>1. /\ pending'[i] = pending[i] /\ pending[i].sub \in Subs
            /\ pending'[i].sub = s => pending'[i].type # "deleted" /\ pending'[i].period <= x.period
        BY <1>1, <1>4, <3>2, OldOrNew
      <4> QED BY <1>3, <3>1, <4>1 DEF SameSub
    <3>3. CASE i \notin DOMAIN pending
      <4>1. PICK g \in 1..Len(types) : /\ i = Len(pending) + g /\ pending'[i].type = types[g]
                                       /\ pending'[i].sub = s /\ pending'[i].period = x.period
        BY <3>3, OldOrNew
      <4>2. pending'[i].type # "deleted"
        BY <1>1, <1>5, <3>1, <4>1 DEF AfterTelling, Telltale
      <4> QED BY <1>1, <3>1, <4>1, <4>2 DEF SameSub
    <3> QED BY <3>2, <3>3
  <2> QED BY <2>1, <2>2
<1>6. InOrder'
  BY <1>5 DEF InOrder
<1>7. ASSUME NEW i \in DOMAIN pending', NEW k \in DOMAIN pending', NEW j \in DOMAIN pending', i < k, k < j
      PROVE  /\ SameSub(i, j)' => SameSub(i, k)'
             /\ SamePaid(i, j)' => SamePaid(i, k)'
  <2>1. CASE j \in DOMAIN pending
    <3>1. i \in DOMAIN pending /\ k \in DOMAIN pending
      BY <1>1, <1>7, <2>1
    <3> QED BY <1>0, <1>1, <1>7, <2>1, <3>1 DEF Together, SameSub, SamePaid
  <2>2. CASE j \notin DOMAIN pending
    <3>1. PICK h \in 1..Len(types) : /\ j = Len(pending) + h /\ pending'[j].type = types[h]
                                     /\ pending'[j].sub = s /\ pending'[j].period = x.period
      BY <2>2, OldOrNew
    <3>2. CASE i \in DOMAIN pending
      <4>1. /\ pending'[i] = pending[i]
            /\ pending'[i].sub = s => Live(s)
        BY <1>1, <3>2, OldOrNew
      <4>2. SameSub(i, j)' => SameSub(i, k)'
        <5>1. CASE k \in DOMAIN pending
          BY <1>0, <1>1, <1>7, <3>1, <3>2, <4>1, <5>1 DEF InOrder, SameSub
        <5>2. CASE k \notin DOMAIN pending
          BY <3>1, <5>2, OldOrNew DEF SameSub
        <5> QED BY <5>1, <5>2
      <4>3. ~SamePaid(i, j)'
        <5> SUFFICES ASSUME SamePaid(i, j)' PROVE FALSE
          OBVIOUS
        <5>1. pending[i].type = "paid" /\ pending[i].sub = s /\ pending[i].period = x.period /\ types[h] = "paid"
          BY <3>1, <4>1 DEF SamePaid, SameSub
        <5>2. x.period \in stripe[s].paid
          BY <3>2, <5>1 DEF EventsTold
        <5> QED BY <5>1, <5>2 DEF AfterTelling, Telltale
      <4> QED BY <4>2, <4>3
    <3>3. CASE i \notin DOMAIN pending
      <4>1. PICK g \in 1..Len(types) : i = Len(pending) + g
        BY <3>3, OldOrNew
      <4>2. FALSE
        BY <1>1, <1>7, <3>1, <4>1
      <4> QED BY <4>2
    <3> QED BY <3>2, <3>3
  <2> QED BY <2>1, <2>2
<1>8. Together'
  BY <1>7 DEF Together
<1>9. EndComing'
  <2> SUFFICES ASSUME NEW i \in DOMAIN pending', stripe'[pending'[i].sub].status = "canceled",
                      pending'[i].type # "deleted"
               PROVE  \E j \in DOMAIN pending' : i < j /\ pending'[j].type = "deleted" /\ SameSub(i, j)'
    BY DEF EndComing
  <2>1. CASE pending'[i].sub = s
    <3>1. x.status = "canceled"
      BY <1>1, <2>1
    <3>2. Len(types) \in 1..Len(types) /\ types[Len(types)] = "deleted"
      BY <1>1, <3>1 DEF AfterTelling, Telltale
    <3>3. PICK j : j = Len(pending) + Len(types)
      OBVIOUS
    <3>4. j \in DOMAIN pending' /\ pending'[j] = Event("deleted", s, x)
      BY <1>1, <3>2, <3>3 DEF AfterTelling
    <3>5. pending'[j].type = "deleted" /\ pending'[j].sub = s
      BY <3>4 DEF Event
    <3>6. i < j
      BY <1>1, <3>3, <3>5
    <3> QED BY <2>1, <3>4, <3>5, <3>6 DEF SameSub
  <2>2. CASE pending'[i].sub # s
    <3>1. i \in DOMAIN pending /\ pending'[i] = pending[i] /\ pending[i].sub \in Subs
      BY <1>4, <2>2, OldOrNew
    <3>2. PICK j \in DOMAIN pending : i < j /\ pending[j].type = "deleted" /\ SameSub(i, j)
      BY <1>0, <1>1, <2>2, <3>1 DEF EndComing
    <3> QED BY <1>1, <3>1, <3>2 DEF SameSub
  <2> QED BY <2>1, <2>2
<1> QED BY <1>2, <1>6, <1>8, <1>9 DEF QueueOk

\* The queue around such a step, for the lemmas that follow.
LEMMA AroundTelling ==
  ASSUME SubTyped, NEW s, NEW x, NEW types, AfterTelling(s, x, types)
  PROVE  /\ DOMAIN pending = 1..Len(pending) /\ Len(pending) \in Nat /\ Len(types) \in 0..2
         /\ DOMAIN pending' = 1..(Len(pending) + Len(types)) /\ Len(pending') = Len(pending) + Len(types)
         /\ \A j \in DOMAIN pending : pending'[j] = pending[j] /\ j \in DOMAIN pending'
         /\ s \in Subs /\ stripe'[s] = x /\ \A t \in Subs : t # s => stripe'[t] = stripe[t] /\ ~Live(t)
         /\ \A t \in Subs : Live(t) => t = s
         /\ \A t \in Subs : Live(t)' => t = s
         /\ x.period \in Nat /\ x.status \in {"active", "past_due", "canceled"} /\ x.flag \in BOOLEAN
         /\ Live(s)' <=> x.status # "canceled"
         /\ stripe[s].status # "none" => Live(s)
         /\ \A j \in DOMAIN pending : pending[j].sub = s => Live(s)
<1>1. /\ DOMAIN pending = 1..Len(pending) /\ Len(pending) \in Nat /\ Len(types) \in 0..2
      /\ DOMAIN pending' = 1..(Len(pending) + Len(types)) /\ Len(pending') = Len(pending) + Len(types)
      /\ s \in Subs /\ stripe'[s] = x /\ \A t \in Subs : t # s => stripe'[t] = stripe[t] /\ ~Live(t)
      /\ stripe[s].status # "none" => Live(s)
      /\ x.period \in Nat /\ x.status \in {"active", "past_due", "canceled"} /\ x.flag \in BOOLEAN
  BY BoundAssumption DEF AfterTelling, Telltale, Periods, StripeRow
<1>2. \A j \in DOMAIN pending : pending'[j] = pending[j] /\ j \in DOMAIN pending'
  BY <1>1 DEF AfterTelling
<1>3. \A t \in Subs : (Live(t) => t = s) /\ (Live(t)' => t = s)
  BY <1>1 DEF Live
<1>4. Live(s)' <=> x.status # "canceled"
  BY <1>1 DEF Live
<1>5. \A j \in DOMAIN pending : pending[j].sub = s => Live(s)
  BY <1>1 DEF AfterTelling
<1> QED BY <1>1, <1>2, <1>3, <1>4, <1>5

\* ... no lot is of a period that they tell ...
LEMMA TellLots ==
  ASSUME SubTyped, LotsInOrder, NEW s, NEW x, NEW types, AfterTelling(s, x, types), UNCHANGED <<profile, lots>>
  PROVE  LotsInOrder'
<1>0. LotsOfSubs /\ LotsSorted /\ LotsBehind /\ RepaidFirst
  BY DEF LotsInOrder
<1>1. LotsOfSubs' /\ LotsSorted'
  BY <1>0 DEF LotsOfSubs, LotsSorted
<1>2. \A k \in DOMAIN lots : lots[k].key[1] = s => lots[k].key[2] <= x.period /\ lots[k].key[2] \in stripe[s].paid
  BY DEF AfterTelling
<1>3. LotsBehind'
  <2> SUFFICES ASSUME NEW k \in DOMAIN lots, NEW j \in DOMAIN pending', lots[k].key[1] = pending'[j].sub
               PROVE  lots[k].key[2] <= pending'[j].period
    BY DEF LotsBehind
  <2>1. CASE j \in DOMAIN pending /\ pending'[j] = pending[j]
    BY <1>0, <2>1 DEF LotsBehind
  <2>2. CASE pending'[j].sub = s /\ pending'[j].period = x.period
    BY <1>2, <2>2
  <2> QED BY <2>1, <2>2, OldOrNew
<1>4. ASSUME NEW j \in DOMAIN pending', Repaid(j)'
      PROVE  j \in DOMAIN pending /\ pending'[j] = pending[j] /\ Repaid(j)
  <2>1. CASE j \in DOMAIN pending /\ pending'[j] = pending[j]
    BY <1>4, <2>1 DEF Repaid, HasLot
  <2>2. CASE j \notin DOMAIN pending
    <3>1. PICK i \in 1..Len(types) : pending'[j].type = types[i] /\ pending'[j].sub = s /\ pending'[j].period = x.period
      BY <2>2, OldOrNew
    <3>2. types[i] = "paid" /\ HasLot(<<s, x.period>>)
      BY <1>4, <3>1 DEF Repaid, HasLot
    <3>3. PICK k \in DOMAIN lots : lots[k].key = <<s, x.period>>
      BY <3>2 DEF HasLot
    <3>4. x.period \in stripe[s].paid
      BY <1>2, <3>3
    <3> QED BY <3>2, <3>4 DEF AfterTelling, Telltale
  <2> QED BY <2>1, <2>2, OldOrNew
<1>5. \A i \in DOMAIN pending', j \in DOMAIN pending : i < j => i \in DOMAIN pending /\ pending'[i] = pending[i]
  BY AroundTelling
<1>6. RepaidFirst'
  <2> SUFFICES ASSUME NEW j \in DOMAIN pending', Repaid(j)'
               PROVE  /\ \A i \in DOMAIN pending' : i < j => SamePaid(i, j)'
                      /\ Matches(profile, Expected(pending'[j]))
    BY DEF RepaidFirst, Matches, Expected
  <2>1. j \in DOMAIN pending /\ pending'[j] = pending[j] /\ Repaid(j)
    BY <1>4
  <2> QED BY <1>0, <1>5, <2>1 DEF RepaidFirst, SamePaid, SameSub
<1> QED BY <1>1, <1>3, <1>6 DEF LotsInOrder

\* ... no closed subscription is theirs ...
LEMMA TellClosed ==
  ASSUME SubTyped, LotsOfSubs, ClosedOk, NEW s, NEW x, NEW types, AfterTelling(s, x, types), UNCHANGED <<profile, lots>>
  PROVE  ClosedOk'
<1>0. HasNewest /\ NewestOpen /\ ClosedEnded
  BY DEF ClosedOk
<1>1. /\ DOMAIN pending = 1..Len(pending) /\ Len(pending) \in Nat /\ Len(types) \in 0..2
      /\ DOMAIN pending' = 1..(Len(pending) + Len(types))
      /\ \A j \in DOMAIN pending : pending'[j] = pending[j] /\ j \in DOMAIN pending'
      /\ s \in Subs /\ \A t \in Subs : t # s => stripe'[t] = stripe[t] /\ ~Live(t)
      /\ Live(s)' <=> x.status # "canceled"
  BY AroundTelling
<1>2. HasNewest' /\ \A k : Newest(k)' <=> Newest(k)
  BY <1>0 DEF HasNewest, Newest, Own
<1>3. \A k \in DOMAIN lots : lots[k].key[1] \in Subs
  BY DEF LotsOfSubs
<1>4. NewestOpen'
  <2> SUFFICES ASSUME NEW k \in DOMAIN lots, Newest(k), lots[k].open, NEW t \in Subs, t = lots[k].key[1]
               PROVE  Live(t)' \/ \E j \in DOMAIN pending' : pending'[j].type = "deleted" /\ pending'[j].sub = t
    BY <1>2, <1>3 DEF NewestOpen, Live, Ending
  <2>1. CASE t = s /\ x.status = "canceled"
    <3>1. Len(types) \in 1..Len(types) /\ types[Len(types)] = "deleted"
      BY <1>1, <2>1 DEF AfterTelling, Telltale
    <3>2. PICK j : j = Len(pending) + Len(types)
      OBVIOUS
    <3>3. j \in DOMAIN pending' /\ pending'[j] = Event("deleted", s, x)
      BY <1>1, <3>1, <3>2 DEF AfterTelling
    <3>4. pending'[j].type = "deleted" /\ pending'[j].sub = s
      BY <3>3 DEF Event
    <3> QED BY <2>1, <3>3, <3>4
  <2>2. CASE t # s
    <3>1. Ending(t)
      BY <1>0, <1>1, <2>2 DEF NewestOpen
    <3> QED BY <1>1, <3>1 DEF Ending
  <2> QED BY <1>1, <2>1, <2>2
<1>5. ClosedEnded'
  <2> SUFFICES ASSUME NEW k \in DOMAIN lots, ~lots[k].open, NEW t \in Subs, t = lots[k].key[1]
               PROVE  ~Live(t)' /\ \A j \in DOMAIN pending' : pending'[j].sub = t => Ended(j)'
    BY <1>3 DEF ClosedEnded, Live
  <2>1. ~Live(t) /\ t # s
    BY <1>0 DEF ClosedEnded, AfterTelling
  <2>2. ~Live(t)'
    BY <1>1, <2>1 DEF Live
  <2>3. ASSUME NEW j \in DOMAIN pending', pending'[j].sub = t PROVE Ended(j)'
    <3>1. j \in DOMAIN pending /\ pending'[j] = pending[j]
      BY <2>1, <2>3, OldOrNew
    <3>2. Ended(j)
      BY <1>0, <2>3, <3>1 DEF ClosedEnded
    <3>3. \A i \in DOMAIN pending' : i < j => i \in DOMAIN pending /\ pending'[i] = pending[i]
      BY <1>1, <3>1
    <3> QED BY <3>1, <3>2, <3>3 DEF Ended, SameSub, Matches, Expected
  <2> QED BY <2>2, <2>3
<1> QED BY <1>2, <1>4, <1>5 DEF ClosedOk

\* ... the last that carries the flag tells the true one ...
LEMMA TellFlag ==
  ASSUME SubTyped, FlagFollows, NEW s, NEW x, NEW types, AfterTelling(s, x, types), UNCHANGED profile
  PROVE  FlagFollows'
<1>0. FlagNow /\ FlagComing
  BY DEF FlagFollows
<1>1. /\ DOMAIN pending = 1..Len(pending) /\ Len(pending) \in Nat /\ Len(types) \in 0..2
      /\ DOMAIN pending' = 1..(Len(pending) + Len(types))
      /\ \A j \in DOMAIN pending : pending'[j] = pending[j] /\ j \in DOMAIN pending'
      /\ s \in Subs /\ stripe'[s] = x
      /\ \A t \in Subs : Live(t) => t = s
      /\ \A t \in Subs : Live(t)' => t = s
      /\ x.status \in {"active", "past_due", "canceled"} /\ x.flag \in BOOLEAN
      /\ Live(s)' <=> x.status # "canceled"
      /\ stripe[s].status # "none" => Live(s)
  BY AroundTelling
<1>2. TrueFlag <=> Live(s) /\ stripe[s].flag
  BY <1>1 DEF TrueFlag
<1>3. TrueFlag' <=> x.status # "canceled" /\ x.flag
  BY <1>1 DEF TrueFlag
<1>4. ASSUME NEW i \in 1..Len(types)
      PROVE  /\ Len(pending) + i \in DOMAIN pending'
             /\ types[i] \in {"updated", "deleted"} => Flags(pending'[Len(pending) + i])
  <2>1. pending'[Len(pending) + i] = Event(types[i], s, x)
    BY DEF AfterTelling
  <2>2. pending'[Len(pending) + i].type = types[i]
    BY <2>1 DEF Event
  <2> QED BY <1>1, <2>2 DEF Flags
<1>5. x.status = "canceled" => Len(types) \in 1..Len(types) /\ types[Len(types)] = "deleted"
  BY <1>1 DEF AfterTelling, Telltale
<1>6. ASSUME \A i \in 1..Len(types) : types[i] \notin {"updated", "deleted"}
      PROVE  TrueFlag' <=> TrueFlag
  <2>1. x.status # "canceled"
    BY <1>5, <1>6
  <2>2. CASE stripe[s].status = "none"
    <3>1. ~x.flag /\ ~Live(s)
      BY <2>2 DEF AfterTelling, Telltale, Live
    <3> QED BY <1>2, <1>3, <3>1
  <2>3. CASE stripe[s].status # "none"
    <3>1. x.flag = stripe[s].flag
      BY <1>1, <1>6, <2>3 DEF AfterTelling, Telltale
    <3> QED BY <1>1, <1>2, <1>3, <2>1, <2>3, <3>1
  <2> QED BY <2>2, <2>3
<1>7. FlagNow'
  <2> SUFFICES ASSUME \A j \in DOMAIN pending' : ~Flags(pending'[j])
               PROVE  profile.flag <=> TrueFlag'
    BY DEF FlagNow, Flags
  <2>1. \A i \in 1..Len(types) : types[i] \notin {"updated", "deleted"}
    BY <1>4
  <2>2. \A j \in DOMAIN pending : ~Flags(pending[j])
    BY <1>1
  <2> QED BY <1>0, <1>6, <2>1, <2>2 DEF FlagNow
<1>8. FlagComing'
  <2> SUFFICES ASSUME NEW j \in DOMAIN pending', Flags(pending'[j]),
                      \A i \in DOMAIN pending' : j < i => ~Flags(pending'[i])
               PROVE  FlagTold(pending'[j]) <=> TrueFlag'
    BY DEF FlagComing, Flags, FlagTold
  <2>1. CASE j \in DOMAIN pending
    <3>1. \A i \in 1..Len(types) : types[i] \notin {"updated", "deleted"}
      <4>1. \A i \in 1..Len(types) : j < Len(pending) + i
        BY <1>1, <2>1
      <4> QED BY <1>4, <4>1
    <3>2. FlagTold(pending[j]) <=> TrueFlag
      BY <1>0, <1>1, <2>1 DEF FlagComing
    <3> QED BY <1>1, <1>6, <2>1, <3>1, <3>2
  <2>2. CASE j \notin DOMAIN pending
    <3>1. PICK i \in 1..Len(types) : /\ j = Len(pending) + i /\ pending'[j].type = types[i]
                                     /\ pending'[j].flag = x.flag
      BY <2>2, OldOrNew
    <3>2. types[i] \in {"updated", "deleted"}
      BY <3>1 DEF Flags
    <3>3. CASE x.status = "canceled"
      <4>1. i = Len(types)
        <5>1. ~(Len(pending) + i < Len(pending) + Len(types))
          BY <1>4, <1>5, <3>1, <3>3
        <5> QED BY <1>1, <5>1
      <4>2. ~FlagTold(pending'[j])
        BY <1>5, <3>1, <3>3, <4>1 DEF FlagTold
      <4> QED BY <1>3, <3>3, <4>2
    <3>4. CASE x.status # "canceled"
      <4>1. types[i] = "updated"
        BY <3>2, <3>4 DEF AfterTelling
      <4> QED BY <1>3, <3>1, <3>4, <4>1 DEF FlagTold
    <3> QED BY <3>3, <3>4
  <2> QED BY <2>1, <2>2
<1> QED BY <1>7, <1>8 DEF FlagFollows

\* ... and a request is about the same subscription.
LEMMA TellRequest ==
  ASSUME SubTyped, Alone, NEW s, NEW x, NEW types, AfterTelling(s, x, types), UNCHANGED profile, AskedOwn', AskedDone'
  PROVE  RequestOk'
<1>0. \A t \in Subs : Live(t)' => t = s
  BY AroundTelling
<1>1. profile.sub = s => Live(s)
  BY DEF AfterTelling
<1>2. Alone'
  <2> SUFFICES ASSUME NEW t \in Subs, Live(t)', profile.sub = t, NEW j \in DOMAIN pending'
               PROVE  pending'[j].sub = t
    BY DEF Alone, Live
  <2>1. t = s /\ Live(s)
    BY <1>0, <1>1
  <2>2. \A k \in DOMAIN pending : pending[k].sub = s
    BY <2>1 DEF Alone
  <2> QED BY <2>1, <2>2, OldOrNew
<1> QED BY <1>2 DEF RequestOk

\* The profile admits the first of them as it admits the second after it.
LEMMA ToldReady ==
  ASSUME SubTyped, ProfileFollows, NEW s, NEW x, NEW types, AfterTelling(s, x, types), NEW i \in 1..Len(types),
         NEW e, e = Event(types[i], s, x)
  PROVE  /\ i = 1 => Ready(e, Coming)
         /\ i = 2 => Ready(e, Expected(Event(types[1], s, x)))
<1>0. ComingLive /\ ComingFree
  BY DEF ProfileFollows
<1>1. /\ e.type = types[i] /\ e.sub = s /\ types[i] \in Types /\ Len(types) \in 0..2
      /\ stripe[s].status # "none" => Live(s)
      /\ s \in Subs /\ \A t \in Subs : Live(t) => t = s
      /\ types[i] = "completed" => i = 1 /\ stripe[s].status = "none"
      /\ types[i] = "updated" => i = 1 /\ stripe[s].status # "none"
      /\ types[i] = "paid" => i = 2
      /\ types[i] = "payment_failed" => i = 2 /\ types[1] = "updated"
      /\ types[i] = "deleted" => i = Len(types) /\ stripe[s].status # "none"
  <2>1. e.type = types[i] /\ e.sub = s
    BY ONLY e = Event(types[i], s, x) DEF Event
  <2>2. s \in Subs /\ \A t \in Subs : Live(t) => t = s
    BY AroundTelling
  <2> QED BY <2>1, <2>2 DEF AfterTelling, Telltale
<1>2. Live(s) => Coming.sub = s /\ Coming.status # "FREE"
  <2> SUFFICES ASSUME Live(s) PROVE Coming.sub = s /\ Coming.status # "FREE"
    OBVIOUS
  <2>1. Matches(Coming, Mirror(s)) /\ stripe[s].status \in {"active", "past_due"}
    BY <1>0, <1>1 DEF ComingLive, Live
  <2>2. Mirror(s).sub = s /\ Mirror(s).status # "FREE"
    BY <2>1 DEF Mirror, ToProfileStatus
  <2> QED BY <2>1, <2>2 DEF Matches
<1>3. stripe[s].status = "none" => Coming.status = "FREE" /\ Coming.period = None
  BY <1>0, <1>1 DEF ComingFree, Live
<1>4. ASSUME i = 1 PROVE Ready(e, Coming)
  BY <1>1, <1>2, <1>3, <1>4 DEF Ready
<1>5. ASSUME i = 2 PROVE Ready(e, Expected(Event(types[1], s, x)))
  <2>1. PICK f : f = Event(types[1], s, x)
    OBVIOUS
  <2>2. 1 \in 1..Len(types)
    BY <1>1, <1>5
  <2>3. /\ Expected(f).sub = s
        /\ types[1] \notin {"completed", "deleted"} =>
             /\ Expected(f).status = ToProfileStatus(x.status) /\ Expected(f).plan = s
             /\ Expected(f).period = <<s, x.period>>
    BY ONLY <2>1 DEF Event, Expected
  <2>4. CASE types[i] = "payment_failed"
    <3>1. types[i] \notin {"completed", "deleted"}
      BY <2>4
    <3>2. /\ Expected(e).sub = s
          /\ types[i] \notin {"completed", "deleted"} =>
               /\ Expected(e).status = ToProfileStatus(x.status) /\ Expected(e).plan = s
               /\ Expected(e).period = <<s, x.period>>
      BY ONLY e = Event(types[i], s, x) DEF Event, Expected
    <3> QED BY <1>1, <2>1, <2>3, <2>4, <3>1, <3>2 DEF Ready, Matches
  <2>5. CASE types[i] \in {"paid", "deleted"}
    BY <1>1, <2>1, <2>3, <2>5 DEF Ready
  <2>6. types[i] \notin {"completed", "updated"}
    BY <1>1, <1>5
  <2> QED BY <1>1, <2>4, <2>5, <2>6 DEF Types
<1> QED BY <1>4, <1>5

\* Once they are handled the profile mirrors Stripe.
LEMMA ToldComing ==
  ASSUME SubTyped, ProfileFollows, NEW s, NEW x, NEW types, AfterTelling(s, x, types), UNCHANGED profile
  PROVE  /\ ComingLive' /\ ComingFree'
<1>0. ComingLive /\ ComingFree
  BY DEF ProfileFollows
<1>1. /\ DOMAIN pending = 1..Len(pending) /\ Len(pending) \in Nat /\ Len(types) \in 0..2
      /\ DOMAIN pending' = 1..(Len(pending) + Len(types)) /\ Len(pending') = Len(pending) + Len(types)
      /\ \A j \in DOMAIN pending : pending'[j] = pending[j] /\ j \in DOMAIN pending'
      /\ s \in Subs /\ stripe'[s] = x
      /\ \A t \in Subs : Live(t)' => t = s
      /\ x.status \in {"active", "past_due", "canceled"}
      /\ Live(s)' <=> x.status # "canceled"
      /\ stripe[s].status # "none" => Live(s)
  BY AroundTelling
<1>2. PICK c : c = Coming'
  OBVIOUS
<1>3. CASE Len(types) = 0
  <2>1. x = stripe[s] /\ Live(s) /\ Live(s)'
    BY <1>1, <1>3 DEF AfterTelling, Telltale
  <2>2. c = Coming
    <3>1. Len(pending') = Len(pending) /\ DOMAIN pending' = DOMAIN pending
      BY <1>1, <1>3
    <3>2. pending' = << >> <=> pending = << >>
      BY <3>1
    <3>3. pending # << >> => pending'[Len(pending)] = pending[Len(pending)]
      BY <1>1, Rows
    <3> QED BY <1>2, <3>1, <3>2, <3>3 DEF Coming, Expected
  <2>3. ComingLive'
    <3> SUFFICES Matches(c, Mirror(s))
      BY <1>1, <1>2, <2>1 DEF ComingLive, Matches, Mirror
    <3> QED BY <1>0, <1>1, <2>1, <2>2 DEF ComingLive
  <2> QED BY <1>1, <2>1, <2>3 DEF ComingFree
<1>4. CASE Len(types) # 0
  <2>1. PICK i : i = Len(types)
    OBVIOUS
  <2>2. i \in 1..Len(types) /\ Len(pending) + i \in DOMAIN pending'
    BY <1>1, <1>4, <2>1
  <2>3. PICK e : e = Event(types[i], s, x)
    OBVIOUS
  <2>4. pending'[Len(pending')] = e /\ pending' # << >>
    BY <1>1, <2>1, <2>2, <2>3 DEF AfterTelling
  <2>5. c = Expected(e)
    BY <1>2, <2>4 DEF Coming, Expected
  <2>6. /\ Expected(e).sub = s
        /\ types[i] = "deleted" => /\ Expected(e).status = "FREE" /\ Expected(e).plan = "free"
                                   /\ Expected(e).period = None
        /\ types[i] \notin {"completed", "deleted"} =>
             /\ Expected(e).status = ToProfileStatus(x.status) /\ Expected(e).plan = s
             /\ Expected(e).period = <<s, x.period>>
    BY ONLY <2>3 DEF Event, Expected
  <2>7. CASE x.status = "canceled"
    <3>1. types[i] = "deleted" /\ ~Live(s)'
      BY <1>1, <2>1, <2>7 DEF AfterTelling, Telltale
    <3>2. ComingFree'
      BY <1>2, <2>5, <2>6, <3>1 DEF ComingFree
    <3>3. ComingLive'
      BY <1>1, <3>1 DEF ComingLive
    <3> QED BY <3>2, <3>3
  <2>8. CASE x.status # "canceled"
    <3>1. types[i] \notin {"completed", "deleted"} /\ Live(s)'
      BY <1>1, <2>1, <2>2, <2>8 DEF AfterTelling, Telltale
    <3>2. Matches(c, Mirror(s)')
      BY <1>1, <2>5, <2>6, <3>1 DEF Matches, Mirror
    <3>3. ComingLive'
      BY <1>1, <1>2, <3>2 DEF ComingLive, Matches, Mirror
    <3>4. ComingFree'
      BY <1>1, <3>1 DEF ComingFree
    <3> QED BY <3>3, <3>4
  <2> QED BY <2>7, <2>8
<1> QED BY <1>3, <1>4

\* Each event, old or new, will find the profile it needs.
LEMMA TellProfile ==
  ASSUME SubTyped, SubTyped', ProfileFollows, NEW s, NEW x, NEW types, AfterTelling(s, x, types), UNCHANGED profile
  PROVE  ProfileFollows'
<1>0. OneLive /\ HeadReady /\ NextReady /\ ReadFree /\ Related /\ FreeOk
  BY DEF ProfileFollows
<1>1. /\ DOMAIN pending = 1..Len(pending) /\ Len(pending) \in Nat /\ Len(types) \in 0..2
      /\ DOMAIN pending' = 1..(Len(pending) + Len(types)) /\ Len(pending') = Len(pending) + Len(types)
      /\ \A j \in DOMAIN pending : pending'[j] = pending[j] /\ j \in DOMAIN pending'
      /\ s \in Subs /\ stripe'[s] = x /\ \A t \in Subs : t # s => stripe'[t] = stripe[t] /\ ~Live(t)
      /\ \A t \in Subs : Live(t)' => t = s
  BY AroundTelling
<1>2. OneLive'
  BY <1>1 DEF OneLive
<1>3. ASSUME NEW i \in 1..Len(types), NEW e, e = pending'[Len(pending) + i]
      PROVE  /\ i = 1 => Ready(e, Coming)
             /\ i = 2 => Ready(e, Expected(Event(types[1], s, x)))
  <2>1. e = Event(types[i], s, x)
    BY <1>3 DEF AfterTelling
  <2> QED BY <2>1, ToldReady
<1>4. pending = << >> <=> Len(pending) = 0
  BY Rows
<1>5. HeadReady'
  <2> SUFFICES ASSUME pending' # << >> PROVE Ready(pending'[1], profile)
    BY DEF HeadReady, Ready, Matches, Expected
  <2>1. CASE pending # << >>
    <3>1. pending'[1] = pending[1]
      BY <1>1, <1>4, <2>1
    <3> QED BY <1>0, <2>1, <3>1 DEF HeadReady
  <2>2. CASE pending = << >>
    <3>1. 1 \in 1..Len(types) /\ Len(pending) + 1 = 1
      <4>1. Len(types) # 0
        <5> SUFFICES ASSUME Len(types) = 0 PROVE FALSE
          OBVIOUS
        <5>1. DOMAIN pending' = {}
          BY <1>1, <1>4, <2>2
        <5> QED BY <5>1, Rows
      <4> QED BY <1>1, <1>4, <2>2, <4>1
    <3>2. Ready(pending'[1], Coming)
      BY <1>3, <3>1
    <3> QED BY <2>2, <3>2 DEF Coming
  <2> QED BY <2>1, <2>2
<1>6. NextReady'
  <2> SUFFICES ASSUME NEW i \in DOMAIN pending', NEW j \in DOMAIN pending', j = i + 1
               PROVE  Ready(pending'[j], Expected(pending'[i]))
    BY DEF NextReady, Ready, Matches, Expected
  <2>1. CASE j \in DOMAIN pending
    <3>1. i \in DOMAIN pending
      BY <1>1, <2>1
    <3> QED BY <1>0, <1>1, <2>1, <3>1 DEF NextReady
  <2>2. CASE j \notin DOMAIN pending /\ i \in DOMAIN pending
    <3>1. i = Len(pending) /\ j = Len(pending) + 1 /\ 1 \in 1..Len(types) /\ pending # << >>
      BY <1>1, <1>4, <2>2
    <3>2. Ready(pending'[j], Coming)
      BY <1>3, <3>1
    <3>3. Coming = Expected(pending'[i])
      BY <1>1, <2>2, <3>1 DEF Coming
    <3> QED BY <3>2, <3>3
  <2>3. CASE j \notin DOMAIN pending /\ i \notin DOMAIN pending
    <3>1. i = Len(pending) + 1 /\ j = Len(pending) + 2 /\ 2 \in 1..Len(types) /\ 1 \in 1..Len(types)
      <4>1. PICK n \in Nat : n = Len(pending)
        BY <1>1
      <4>2. PICK l \in 0..2 : l = Len(types)
        BY <1>1
      <4>3. i \in 1..(n + l) /\ i \notin 1..n /\ i + 1 \in 1..(n + l)
        BY <1>1, <2>3, <4>1, <4>2
      <4>4. i = n + 1 /\ l = 2
        BY ONLY <4>3, n \in Nat, l \in 0..2
      <4> QED BY <4>1, <4>2, <4>4
    <3>2. pending'[i] = Event(types[1], s, x)
      BY <3>1 DEF AfterTelling
    <3>3. Ready(pending'[j], Expected(Event(types[1], s, x)))
      BY <1>3, <3>1
    <3> QED BY <3>2, <3>3
  <2> QED BY <2>1, <2>2, <2>3
<1>7. \A j \in DOMAIN pending' : pending'[j].pc # "sent" => j \in DOMAIN pending /\ pending'[j] = pending[j]
  BY OldOrNew
<1>8. ReadFree' /\ Related'
  BY <1>0, <1>7 DEF ReadFree, Related, Matches, Expected
<1>9. FreeOk'
  <2> SUFFICES ASSUME profile.status = "FREE", NEW t \in Subs, profile.sub = t PROVE ~Live(t)'
    BY <1>0 DEF FreeOk, Live
  <2>1. ~Live(t)
    BY <1>0 DEF FreeOk
  <2>2. t # s
    BY <2>1 DEF AfterTelling
  <2> QED BY <1>1, <2>2
<1> QED BY <1>2, <1>5, <1>6, <1>8, <1>9, ToldComing DEF ProfileFollows

-----------------------------------------------------------------------------
(* The invariant and what follows from it. *)

\* Stripe moves a subscription while no other is alive.
LEMMA TellOrderly ==
  ASSUME Unconditional, Unconditional', OrderlyOk, NEW s, NEW x, NEW types, Moved(s, x, types), Tell(s, x, types),
         \A t \in Subs : t # s => ~Live(t), UNCHANGED <<profile, lots>>, AskedOwn', AskedDone'
  PROVE  OrderlyOk'
<1>1. /\ SubTyped /\ SubTyped' /\ EventsTold /\ LotsOfSubs /\ Alone
      /\ QueueOk /\ LotsInOrder /\ ClosedOk /\ ProfileFollows /\ FlagFollows /\ RequestOk
  BY DEF Unconditional, ToldOk, OrderlyOk, LotsInOrder, RequestOk
<1>2. AfterTelling(s, x, types)
  BY <1>1, TellsInOrder
<1>3. QueueOk'
  BY <1>1, <1>2, TellQueue
<1>4. LotsInOrder' /\ ClosedOk'
  BY <1>1, <1>2, TellLots, TellClosed
<1>5. ProfileFollows' /\ FlagFollows'
  BY <1>1, <1>2, TellProfile, TellFlag
<1>6. RequestOk'
  BY <1>1, <1>2, TellRequest
<1> QED BY <1>3, <1>4, <1>5, <1>6 DEF OrderlyOk

\* The moves of Stripe keep the agreement ...
LEMMA StripeOrderly ==
  ASSUME SubInvariant, Unconditional', NEW s \in Subs, StripeMove(s), orderly'
  PROVE  OrderlyOk'
<1>1. SubTyped /\ StripeOk /\ Unconditional
  BY DEF SubInvariant, Unconditional
<1>2. PICK x, types : Moved(s, x, types) /\ Moves(s, x, types)
  BY <1>1, MovesOfStripe
<1>3. /\ Tell(s, x, types) /\ UNCHANGED <<profile, lots, request>> /\ orderly /\ request.op = "none"
      /\ \A t \in Subs : t # s => ~Live(t)
  BY <1>2 DEF Moves
<1>4. OrderlyOk /\ ~request.called
  BY <1>3 DEF SubInvariant, OrderlyOk, RequestOk, AskedDone
<1>5. AskedOwn' /\ AskedDone'
  BY <1>3, <1>4 DEF AskedOwn, AskedDone
<1> QED BY <1>1, <1>2, <1>3, <1>4, <1>5, TellOrderly

\* ... and the one that a request of the customer asks for.
LEMMA CallOrderly ==
  ASSUME SubInvariant, Unconditional', CallStripe, Live(request.sub), orderly'
  PROVE  OrderlyOk'
<1>1. /\ SubTyped /\ StripeOk /\ Unconditional /\ OrderlyOk /\ OneLive /\ AskedOwn
      /\ UNCHANGED <<profile, lots>> /\ request.op # "none"
  BY DEF SubInvariant, Unconditional, CallStripe, OrderlyOk, ProfileFollows, RequestOk
<1>2. PICK s \in Subs : s = request.sub
  BY <1>1 DEF SubTyped
<1>3. PICK x, types : /\ Moved(request.sub, x, types) /\ Tell(request.sub, x, types)
                      /\ x = [stripe[request.sub] EXCEPT !.flag = (request.op = "cancel")]
                      /\ request' = [request EXCEPT !.called = TRUE]
  BY <1>1, <1>2, CallMoves
<1>4. Live(s) /\ \A t \in Subs : t # s => ~Live(t)
  BY <1>1, <1>2 DEF OneLive
<1>5. /\ request'.op = request.op /\ request'.sub = s
      /\ stripe' = [stripe EXCEPT ![s] = x] /\ stripe[s] \in StripeRow
  BY <1>1, <1>2, <1>3 DEF SubTyped, Tell
<1>6. stripe'[s].status = stripe[s].status /\ stripe'[s].flag = (request.op = "cancel")
  BY <1>1, <1>2, <1>3, <1>5 DEF SubTyped, StripeRow
<1>7. AskedOwn'
  BY <1>1, <1>2, <1>4, <1>5 DEF AskedOwn
<1>8. AskedDone'
  BY <1>1, <1>2, <1>4, <1>5, <1>6 DEF AskedDone, Live
<1>9. Moved(s, x, types) /\ Tell(s, x, types)
  BY <1>2, <1>3
<1> QED BY <1>1, <1>4, <1>7, <1>8, <1>9, TellOrderly

\* The invariant holds at first ...
LEMMA SubInvariantInit == SBInit => SubInvariant
<1> SUFFICES ASSUME SBInit PROVE OrderlyOk
  BY UnconditionalInit DEF SubInvariant
<1>1. /\ pending = << >> /\ lots = << >> /\ DOMAIN pending = {} /\ DOMAIN lots = {}
      /\ \A s \in Subs : ~Live(s)
      /\ profile.status = "FREE" /\ profile.sub = None /\ profile.plan = "free" /\ profile.flag = FALSE
      /\ profile.period = None
      /\ request.op = "none" /\ request.called = FALSE
  BY DEF SBInit, Live, NoRequest
<1>2. QueueOk
  BY <1>1 DEF QueueOk, HeadRuns, InOrder, Together, EndComing
<1>3. LotsInOrder
  BY <1>1 DEF LotsInOrder, LotsOfSubs, LotsSorted, LotsBehind, RepaidFirst
<1>4. ClosedOk
  BY <1>1 DEF ClosedOk, HasNewest, NewestOpen, ClosedEnded, Own
<1>5. ProfileFollows
  BY <1>1 DEF ProfileFollows, OneLive, HeadReady, NextReady, ReadFree, Related, ComingLive, ComingFree,
              FreeOk, Coming
<1>6. FlagFollows
  BY <1>1 DEF FlagFollows, FlagNow, FlagComing, TrueFlag
<1>7. RequestOk
  BY <1>1 DEF RequestOk, Alone, AskedOwn, AskedDone
<1> QED BY <1>2, <1>3, <1>4, <1>5, <1>6, <1>7 DEF OrderlyOk

\* ... and is kept by every step ...
LEMMA SubInvariantStep == SubInvariant /\ [SBNext]_SBvars => SubInvariant'
<1> SUFFICES ASSUME SubInvariant, [SBNext]_SBvars, orderly' PROVE OrderlyOk'
  <2>1. SubInvariant /\ [SBNext]_SBvars => Unconditional'
    BY UnconditionalStep DEF SubInvariant
  <2> QED BY <2>1 DEF SubInvariant
<1>1. Unconditional'
  BY UnconditionalStep DEF SubInvariant
<1>2. ASSUME NEW s \in Subs, OpenCheckout(s) \/ StripeMove(s) PROVE OrderlyOk'
  BY <1>1, <1>2, StripeOrderly, CustomerOrderly
<1>3. ASSUME NEW i \in 1..MaxPending, Redeliver(i) \/ Fail(i) PROVE OrderlyOk'
  BY <1>1, <1>3, RepeatOrderly
<1>4. ASSUME NEW i \in 1..MaxPending, Step(i) PROVE OrderlyOk'
  <2>1. CASE ReadProfile(i)
    BY <1>1, <2>1, ReadProfileOrderly
  <2>2. CASE RelateProfile(i)
    BY <1>1, <2>2, RelateProfileOrderly
  <2>3. CASE MarkCompleted(i)
    BY <1>1, <2>3, MarkCompletedOrderly
  <2>4. CASE LinkSession(i)
    BY <1>1, <2>4, LinkSessionOrderly
  <2>5. CASE LockProfile(i)
    BY <1>1, <2>5, LockProfileOrderly
  <2>6. CASE CommitPeriod(i)
    BY <1>1, <2>6, CommitPeriodOrderly
  <2>7. CASE PaymentFailed(i)
    BY <1>1, <2>7, PaymentFailedOrderly
  <2>8. CASE ReadBeforeSync(i)
    BY <1>1, <2>8, ReadBeforeSyncOrderly
  <2>9. CASE SyncProfile(i)
    BY <1>1, <2>9, SyncProfileOrderly
  <2>10. CASE Finalize(i)
    BY <1>1, <2>10, FinalizeOrderly
  <2> QED BY <1>4, <2>1, <2>2, <2>3, <2>4, <2>5, <2>6, <2>7, <2>8, <2>9, <2>10 DEF Step
<1>5. ASSUME NEW op \in {"cancel", "resume"}, Ask(op) PROVE OrderlyOk'
  BY <1>5, CustomerOrderly
<1>6. CASE CallStripe
  BY <1>1, <1>6, CallOrderly, CustomerOrderly
<1>7. CASE WriteFlag
  BY <1>7, CustomerOrderly
<1>8. ASSUME NEW f \in Folios, RegisterManual(f) PROVE OrderlyOk'
  BY <1>8 DEF RegisterManual
<1>10. ASSUME NEW i \in 1..MaxPending, Lose(i) PROVE OrderlyOk'
  BY <1>10 DEF Lose
<1>9. CASE UNCHANGED SBvars
  BY <1>9, CustomerOrderly
<1> QED BY <1>2, <1>3, <1>4, <1>5, <1>6, <1>7, <1>8, <1>9, <1>10 DEF SBNext, StripeMove

\* ... hence always.
LEMMA SubInvariantHolds == SBSpec => []SubInvariant
BY SubInvariantInit, SubInvariantStep, PTL DEF SBSpec

-----------------------------------------------------------------------------

\* subscription-billing.service.ts: however the events of an invoice are repeated, overlap and
\* die, and whatever is billed by hand meanwhile, no period and no folio has two lots.
THEOREM BilledOnceHolds == SBSpec => []BilledOnce
<1>1. SubInvariant => BilledOnce
  BY DEF SubInvariant, Unconditional, BilledOk
<1> QED BY <1>1, SubInvariantHolds, PTL

\* Whichever of checkout.session.completed and invoice.paid is handled first, the order ends
\* linked to a lot of its subscription or none of them is current, unless two deliveries have
\* been handled at once.
THEOREM EitherOrderLinksHolds == SBSpec => []EitherOrderLinks
<1>1. SubInvariant => EitherOrderLinks
  <2> SUFFICES ASSUME SubInvariant, ~overlapped, pending = << >>, NEW s \in Subs, orders[s].status = "COMPLETED"
               PROVE  \/ orders[s].lot \in {s} \X Periods
                      \/ \A k \in DOMAIN lots : lots[k].current => lots[k].key \notin {s} \X Periods
    BY DEF EitherOrderLinks
  <2>1. OrdersOwn /\ LinkComing
    BY DEF SubInvariant, Unconditional, LinkedOk
  <2>2. ~Completing(s)
    BY DEF Completing
  <2> QED BY <2>1, <2>2 DEF OrdersOwn, LinkComing, Linkable
<1> QED BY <1>1, SubInvariantHolds, PTL

\* When the events have been handled in their order and none was lost, whatever failed or was
\* repeated meanwhile, the profile is what Stripe says, every charge has its lot, and what ended is closed.
THEOREM AgreesWithStripeHolds == SBSpec => []AgreesWithStripe
<1>1. SubInvariant => AgreesWithStripe
  <2> SUFFICES ASSUME SubInvariant, orderly, pending = << >>, request.op = "none"
               PROVE  /\ \A s \in Subs : Live(s) => Mirrors(s)
                      /\ (\A s \in Subs : ~Live(s)) => profile.status = "FREE" /\ ~profile.flag
                      /\ \A k \in DOMAIN lots :
                           lots[k].open /\ lots[k].key \notin Folios =>
                             \/ Live(lots[k].key[1])
                             \/ \E l \in DOMAIN lots : l > k /\ lots[l].key \in {lots[k].key[1]} \X Periods
    BY DEF AgreesWithStripe
  <2>1. /\ SubTyped /\ PaidBilled /\ LotsOfSubs /\ LotsSorted /\ HasNewest /\ NewestOpen
        /\ OneLive /\ ComingLive /\ ComingFree /\ FreeOk /\ FlagNow
    BY DEF SubInvariant, Unconditional, BilledOk, OrderlyOk, LotsInOrder, ClosedOk, ProfileFollows, FlagFollows
  <2>2. Coming = profile /\ DOMAIN pending = {}
    BY DEF Coming
  <2>3. profile.flag <=> TrueFlag
    BY <2>1, <2>2 DEF FlagNow
  <2>4. ASSUME NEW s \in Subs, Live(s) PROVE Mirrors(s)
    <3>1. Matches(profile, Mirror(s))
      BY <2>1, <2>2, <2>4 DEF ComingLive
    <3>2. profile.flag <=> stripe[s].flag
      BY <2>1, <2>3, <2>4 DEF TrueFlag, OneLive
    <3>3. profile.flag = stripe[s].flag
      BY <2>1, <3>2 DEF SubTyped, ProfileRow, StripeRow
    <3>4. profile = [status |-> ToProfileStatus(stripe[s].status), sub |-> s, plan |-> s,
                     flag |-> stripe[s].flag, period |-> <<s, stripe[s].period>>]
      BY <2>1, <3>1, <3>3 DEF SubTyped, ProfileRow, Matches, Mirror
    <3>5. \A p \in stripe[s].paid : HasLot(<<s, p>>)
      BY <2>1, <2>2 DEF PaidBilled, SubTyped, StripeRow
    <3> QED BY <3>4, <3>5 DEF Mirrors
  <2>5. ASSUME \A s \in Subs : ~Live(s) PROVE profile.status = "FREE" /\ ~profile.flag
    BY <2>1, <2>2, <2>5 DEF ComingFree, FreeOk
  <2>6. ASSUME NEW k \in DOMAIN lots, lots[k].open, ~Live(lots[k].key[1])
        PROVE  \E l \in DOMAIN lots : l > k /\ lots[l].key \in {lots[k].key[1]} \X Periods
    <3>1. PICK s \in Subs : s = lots[k].key[1]
      BY <2>1 DEF LotsOfSubs
    <3>2. k \in Own(s) /\ \A l \in Own(s) : l \in DOMAIN lots /\ lots[l].key[1] = s /\ lots[l].key[2] \in Periods
      BY <2>1, <3>1 DEF Own, LotsOfSubs
    <3>3. PICK l \in Own(s) : Newest(l)
      BY <2>1, <3>2 DEF HasNewest
    <3>4. ~Newest(k)
      BY <2>1, <2>2, <2>6 DEF NewestOpen, Ending
    <3>5. lots[k].key[2] <= lots[l].key[2] /\ k # l
      BY <3>2, <3>3, <3>4 DEF Newest
    <3>6. ~(l < k)
      <4>1. PICK a \in Int : a = lots[k].key[2]
        BY <3>2 DEF Periods
      <4>2. PICK b \in Int : b = lots[l].key[2]
        BY <3>2 DEF Periods
      <4>3. l < k => b < a
        BY <2>1, <3>2, <4>1, <4>2 DEF LotsSorted
      <4>4. a <= b
        BY <3>5, <4>1, <4>2
      <4> QED BY ONLY <4>3, <4>4, a \in Int, b \in Int
    <3>7. l > k
      <4>1. k \in DOMAIN lots /\ l \in DOMAIN lots /\ DOMAIN lots = 1..Len(lots) /\ Len(lots) \in Nat
        BY <2>1, <3>2, Rows
      <4> QED BY <3>5, <3>6, <4>1
    <3> QED BY <3>1, <3>2, <3>7 DEF Own
  <2> QED BY <2>4, <2>5, <2>6
<1> QED BY <1>1, SubInvariantHolds, PTL
=============================================================================
