--------------------------- MODULE EventDelivery ---------------------------
(***************************************************************************)
(* How domain events reach their consumers: the transactional outbox, the  *)
(* events published without it, Kafka, and the idempotent consumers.       *)
(*                                                                         *)
(* Each member of Joins is a request that adds a member to an organization *)
(* and the organization.member.joined event it enqueues; when it has       *)
(* committed, the request flushes the outbox.  Each member of Notices is a *)
(* document event published directly (DocumentEventsProducer.emitEvent).   *)
(*                                                                         *)
(*   log         table events, in the order of created_at                  *)
(*   published   events with published_at                                  *)
(*   handed      times an event was given to the Kafka client              *)
(*   queue       messages Kafka holds for the consumer group               *)
(*   marks       table processed_events, one mark per event and recipient  *)
(*   mailed      e-mails sent about an event to an administrator           *)
(*   unmarked    history: claims of an event and administrator whose       *)
(*               insertion failed and that went on                         *)
(*   unanswered  history: e-mails that SendGrid took without its answer    *)
(*               reaching the server                                       *)
(*   audited     entries of the audit ledger that record an event          *)
(*   flusher, batch            control and rows of the flush of a request  *)
(*   handler, event, todo, target   control and locals of each consumer    *)
(***************************************************************************)
EXTENDS Integers, Sequences, FiniteSets, SequencesExt

CONSTANTS Joins, Notices,  \* events of the outbox, and events outside it
          Administrators,  \* OWNERs and ADMINs to be told of a new member
          Consumers,       \* deliveries that may be handled at once
          Batch,           \* PENDING_PUBLICATION_BATCH
          MaxRedeliveries, \* bound on the deliveries Kafka repeats
          Faults           \* "kafka", "update", "mail", "marks", "crash"

ASSUME EventsAssumption == Joins # {} /\ Joins \cap Notices = {}
ASSUME AdministratorsAssumption == Administrators # {}
ASSUME ConsumersAssumption == IsFiniteSet(Consumers)
ASSUME BatchAssumption == Batch \in Nat \ {0}
ASSUME RedeliveriesAssumption == MaxRedeliveries \in Nat

VARIABLES log, published, handed, queue, marks, mailed, unmarked, unanswered, audited,
          flusher, batch, handler, event, todo, target, redelivered

broker   == <<handed, queue, redelivered>>
flushing == <<flusher, batch>>
handling == <<handler, event, todo, target>>
history  == <<unmarked, unanswered>>
effects  == <<marks, mailed, history, audited>>
vars     == <<log, published, broker, effects, flushing, handling>>

Events == Joins \cup Notices
NoEvent == CHOOSE e \in Events : TRUE
NoTarget == CHOOSE a \in Administrators : TRUE

Init ==
  /\ log = << >> /\ published = {}
  /\ handed = [e \in Events |-> 0] /\ queue = [e \in Events |-> 0]
  /\ redelivered = 0
  /\ marks = {}
  /\ mailed = [x \in Joins \X Administrators |-> 0]
  /\ unmarked = [x \in Joins \X Administrators |-> 0]
  /\ unanswered = [x \in Joins \X Administrators |-> 0]
  /\ audited = [n \in Notices |-> 0]
  /\ flusher = [j \in Joins |-> "idle"] /\ batch = [j \in Joins |-> << >>]
  /\ handler = [c \in Consumers |-> "idle"]
  /\ event = [c \in Consumers |-> NoEvent]
  /\ todo = [c \in Consumers |-> {}]
  /\ target = [c \in Consumers |-> NoTarget]

-----------------------------------------------------------------------------
(* Producers. *)

\* KafkaProducerService.emit returns at once: whether the broker ever takes
\* the message is known to nobody.
Hand(e) ==
  /\ handed' = [handed EXCEPT ![e] = @ + 1]
  /\ \/ queue' = [queue EXCEPT ![e] = @ + 1]
     \/ "kafka" \in Faults /\ UNCHANGED queue
  /\ UNCHANGED redelivered

\* The transaction that adds the member commits, with its event in the outbox.
Join(j) ==
  /\ flusher[j] = "idle"
  /\ log' = Append(log, j)
  /\ flusher' = [flusher EXCEPT ![j] = "committed"]
  /\ UNCHANGED <<published, broker, effects, batch, handling>>

\* emitEvent: Kafka first, without an eventId ...
Notify(n) ==
  /\ handed[n] = 0
  /\ Hand(n)
  /\ UNCHANGED <<log, published, effects, flushing, handling>>

\* ... and a row of events that has neither topic nor published_at, whose insertion is
\* not waited for: it may never come.
RecordNotice(n) ==
  /\ handed[n] > 0 /\ ~Contains(log, n)
  /\ log' = Append(log, n)
  /\ UNCHANGED <<published, broker, effects, flushing, handling>>

\* Mutant: the newest pending row is taken for one still being written.
MutReadAllButNewest(j) ==
  /\ flusher[j] = "committed"
  /\ LET pending == SelectSeq(log, LAMBDA e : e \notin published)
     IN  batch' = [batch EXCEPT ![j] = SubSeq(pending, 1, Len(pending) - 1)]
  /\ flusher' = [flusher EXCEPT ![j] = "publishing"]
  /\ UNCHANGED <<log, published, broker, effects, handling>>

\* OutboxService.flush: the oldest pending rows.
ReadPending(j) ==
  /\ flusher[j] = "committed"
  /\ LET pending == SelectSeq(log, LAMBDA e : e \notin published)
     IN  batch' = [batch EXCEPT ![j] =
                     IF Len(pending) <= Batch THEN pending ELSE SubSeq(pending, 1, Batch)]
  /\ flusher' = [flusher EXCEPT ![j] = "publishing"]
  /\ UNCHANGED <<log, published, broker, effects, handling>>

\* Mutant: the topic is looked for in the wrong place, and none is found.
MutSkipAny(j) ==
  /\ flusher[j] = "publishing" /\ batch[j] # << >>
  /\ published' = published \cup {Head(batch[j])}
  /\ batch' = [batch EXCEPT ![j] = Tail(@)]
  /\ UNCHANGED <<log, broker, effects, flusher, handling>>

\* The row at hand gets its published_at, or the UPDATE fails and it stays pending.
MarkRow(j) ==
  /\ \/ published' = published \cup {Head(batch[j])}
     \/ "update" \in Faults /\ UNCHANGED published
  /\ batch' = [batch EXCEPT ![j] = Tail(@)]

\* A row without topic is marked and not published.
SkipRow(j) ==
  /\ flusher[j] = "publishing" /\ batch[j] # << >> /\ Head(batch[j]) \in Notices
  /\ MarkRow(j)
  /\ UNCHANGED <<log, broker, effects, flusher, handling>>

\* Any other row is handed to Kafka ...
PublishRow(j) ==
  /\ flusher[j] = "publishing" /\ batch[j] # << >> /\ Head(batch[j]) \in Joins
  /\ Hand(Head(batch[j]))
  /\ flusher' = [flusher EXCEPT ![j] = "marking"]
  /\ UNCHANGED <<log, published, effects, batch, handling>>

\* ... and then marked.
MarkPublished(j) ==
  /\ flusher[j] = "marking"
  /\ MarkRow(j)
  /\ flusher' = [flusher EXCEPT ![j] = "publishing"]
  /\ UNCHANGED <<log, broker, effects, handling>>

EndFlush(j) ==
  /\ flusher[j] = "publishing" /\ batch[j] = << >>
  /\ flusher' = [flusher EXCEPT ![j] = "flushed"]
  /\ UNCHANGED <<log, published, broker, effects, batch, handling>>

\* The request dies between two awaits.
AbortFlush(j) ==
  /\ "crash" \in Faults /\ flusher[j] \in {"committed", "publishing", "marking"}
  /\ flusher' = [flusher EXCEPT ![j] = "crashed"]
  /\ batch' = [batch EXCEPT ![j] = << >>]
  /\ UNCHANGED <<log, published, broker, effects, handling>>

Flush(j) == \/ ReadPending(j) \/ SkipRow(j) \/ PublishRow(j)
            \/ MarkPublished(j) \/ EndFlush(j)

-----------------------------------------------------------------------------
(* Consumers. *)

\* Kafka delivers at least once: the offset of a message that is being handled
\* may never be committed.
Deliver(c, e) ==
  /\ handler[c] = "idle" /\ queue[e] > 0
  /\ \/ queue' = [queue EXCEPT ![e] = @ - 1] /\ UNCHANGED redelivered
     \/ /\ redelivered < MaxRedeliveries
        /\ redelivered' = redelivered + 1 /\ UNCHANGED queue
  /\ handler' = [handler EXCEPT ![c] = "handling"]
  /\ event' = [event EXCEPT ![c] = e]
  /\ todo' = [todo EXCEPT ![c] = IF e \in Joins THEN Administrators ELSE {}]
  /\ UNCHANGED <<log, published, handed, effects, flushing, target>>

\* The handler returns, or dies: its locals are gone.
Return(c) ==
  /\ handler' = [handler EXCEPT ![c] = "idle"]
  /\ event' = [event EXCEPT ![c] = NoEvent]
  /\ todo' = [todo EXCEPT ![c] = {}]
  /\ target' = [target EXCEPT ![c] = NoTarget]

\* DocumentEventsConsumer.once: there is no eventId, so claim lets it pass.
RecordAudit(c) ==
  /\ handler[c] = "handling" /\ event[c] \in Notices
  /\ audited' = [audited EXCEPT ![event[c]] = @ + 1]
  /\ Return(c)
  /\ UNCHANGED <<log, published, broker, marks, mailed, history, flushing>>

\* Mutant: the mark is looked up and never taken.
MutLookUpMark(c, a) ==
  /\ handler[c] = "handling" /\ a \in todo[c]
  /\ todo' = [todo EXCEPT ![c] = @ \ {a}]
  /\ IF <<event[c], a>> \in marks
     THEN UNCHANGED <<handler, target>>
     ELSE /\ handler' = [handler EXCEPT ![c] = "sending"]
          /\ target' = [target EXCEPT ![c] = a]
  /\ UNCHANGED <<log, published, broker, effects, flushing, event>>

\* notifyOne takes the mark of the administrator: the primary key lets one
\* insertion in.  If the insertion fails the e-mail is sent all the same.
ClaimRecipient(c, a) ==
  /\ handler[c] = "handling" /\ a \in todo[c]
  /\ todo' = [todo EXCEPT ![c] = @ \ {a}]
  /\ \/ /\ <<event[c], a>> \in marks
        /\ UNCHANGED <<marks, unmarked, handler, target>>
     \/ /\ \/ /\ <<event[c], a>> \notin marks
              /\ marks' = marks \cup {<<event[c], a>>} /\ UNCHANGED unmarked
           \/ /\ "marks" \in Faults
              /\ unmarked' = [unmarked EXCEPT ![<<event[c], a>>] = @ + 1]
              /\ UNCHANGED marks
        /\ handler' = [handler EXCEPT ![c] = "sending"]
        /\ target' = [target EXCEPT ![c] = a]
  /\ UNCHANGED <<log, published, broker, mailed, unanswered, audited, flushing, event>>

Post(c) == mailed' = [mailed EXCEPT ![<<event[c], target[c]>>] = @ + 1]

\* SendGrid takes the e-mail; or the call throws, because SendGrid refused it or because
\* its answer was lost ...
SendMail(c) ==
  /\ handler[c] = "sending"
  /\ \/ /\ Post(c) /\ UNCHANGED unanswered
        /\ handler' = [handler EXCEPT ![c] = "handling"]
        /\ target' = [target EXCEPT ![c] = NoTarget]
     \/ /\ "mail" \in Faults
        /\ \/ UNCHANGED <<mailed, unanswered>>
           \/ /\ Post(c)
              /\ unanswered' = [unanswered EXCEPT ![<<event[c], target[c]>>] = @ + 1]
        /\ handler' = [handler EXCEPT ![c] = "releasing"] /\ UNCHANGED target
  /\ UNCHANGED <<log, published, broker, marks, unmarked, audited, flushing, event, todo>>

\* ... and then the mark is released; a failure to do so is only logged.
ReleaseMark(c) ==
  /\ handler[c] = "releasing"
  /\ \/ marks' = marks \ {<<event[c], target[c]>>}
     \/ "marks" \in Faults /\ UNCHANGED marks
  /\ handler' = [handler EXCEPT ![c] = "handling"]
  /\ target' = [target EXCEPT ![c] = NoTarget]
  /\ UNCHANGED <<log, published, broker, mailed, history, audited, flushing, event, todo>>

\* Everybody has been told.
EndNotice(c) ==
  /\ handler[c] = "handling" /\ event[c] \in Joins /\ todo[c] = {}
  /\ Return(c)
  /\ UNCHANGED <<log, published, broker, effects, flushing>>

\* The consumer dies; whether the message comes again was decided at Deliver.
AbortHandler(c) ==
  /\ "crash" \in Faults /\ handler[c] # "idle"
  /\ Return(c)
  /\ UNCHANGED <<log, published, broker, effects, flushing>>

Handle(c) == \/ RecordAudit(c) \/ SendMail(c) \/ ReleaseMark(c) \/ EndNotice(c)
             \/ \E a \in Administrators : ClaimRecipient(c, a)

Next == \/ \E j \in Joins : Join(j) \/ Flush(j) \/ AbortFlush(j)
        \/ \E n \in Notices : Notify(n) \/ RecordNotice(n)
        \/ \E c \in Consumers : \/ Handle(c) \/ AbortHandler(c)
                                \/ \E e \in Events : Deliver(c, e)

Spec == Init /\ [][Next]_vars

\* Node runs what it has started and the consumer group keeps polling; nobody
\* is obliged to add a member or to touch a document.
FairSpec ==
  /\ Spec
  /\ \A j \in Joins : WF_vars(Flush(j))
  /\ \A c \in Consumers : WF_vars(Handle(c))
  /\ \A e \in Events : WF_vars(\E c \in Consumers : Deliver(c, e))

-----------------------------------------------------------------------------
TypeOK ==
  /\ log \in Seq(Events) /\ published \subseteq Events
  /\ handed \in [Events -> Nat] /\ queue \in [Events -> Nat]
  /\ redelivered \in 0..MaxRedeliveries
  /\ marks \subseteq Joins \X Administrators
  /\ mailed \in [Joins \X Administrators -> Nat]
  /\ {unmarked, unanswered} \subseteq [Joins \X Administrators -> Nat] /\ audited \in [Notices -> Nat]
  /\ flusher \in [Joins -> {"idle", "committed", "publishing", "marking",
                            "flushed", "crashed"}]
  /\ batch \in [Joins -> Seq(Events)]
  /\ handler \in [Consumers -> {"idle", "handling", "sending", "releasing"}]
  /\ event \in [Consumers -> Events]
  /\ todo \in [Consumers -> SUBSET Administrators]
  /\ target \in [Consumers -> Administrators]

\* Concurrent flushes republish, Kafka redelivers, e-mails fail, consumers die
\* and the table of marks may refuse to answer: the e-mails that tell an administrator of a
\* new member are at most one, plus one for each claim whose insertion failed and one for
\* each e-mail that was sent and reported as failed, although the marks that such handlers
\* release may be those of others (notifyOne).
NotifiedOnce ==
  \A x \in Joins \X Administrators : mailed[x] <= 1 + unmarked[x] + unanswered[x]

\* An event of the outbox marked as published was given to Kafka: a crash
\* or a failed UPDATE repeats it and never skips it (flush, 156-170).
PublishedWereHanded == \A j \in Joins : j \in published => handed[j] > 0

\* Without faults and with fewer pending rows than a batch, whoever
\* administers the organization is eventually told of each new member.
AdministratorsAreTold ==
  \A j \in Joins : Contains(log, j) ~> \A a \in Administrators : mailed[<<j, a>>] = 1

-----------------------------------------------------------------------------
(* What the documentation says and the code does not keep. *)

\* "Nadie se entera dos veces" (notify-organization-admins-of-new-member, 38).
NobodyToldTwice == \A x \in Joins \X Administrators : mailed[x] <= 1

\* The message of a published event is in Kafka or has been handled ("nunca se
\* pierde algo que si ocurrio", outbox.service 44-46).
NothingLost ==
  \A j \in Joins :
    j \in published => \/ queue[j] > 0
                       \/ \E c \in Consumers : handler[c] # "idle" /\ event[c] = j
                       \/ \E a \in Administrators : mailed[<<j, a>>] > 0

\* A request that committed and flushed without an error published its own
\* event (flush "publica lo pendiente despues del commit", 44).
OwnFlushPublishes == \A j \in Joins : flusher[j] = "flushed" => j \in published

\* A redelivery is not chained twice in the ledger (DocumentEventsConsumer.once).
AuditedOnce == \A n \in Notices : audited[n] <= 1
=============================================================================
