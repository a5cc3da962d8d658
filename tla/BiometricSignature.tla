------------------------- MODULE BiometricSignature -------------------------
(***************************************************************************)
(* The biometric signature of ONE signer of one document.  Each attempt    *)
(* opens a session of Didit and gives its URL to the signer; nothing but   *)
(* the webhook of that session approves the attempt, and the handler that  *)
(* approves it signs in his name.  Didit sends an event again, in parallel *)
(* when it is slow, until it is answered 200.                              *)
(*                                                                         *)
(* An attempt opens one session at most, so both have the same number.     *)
(*                                                                         *)
(*   attempts    table biometric_signature_attempts, oldest first: its     *)
(*               status, whether its session and its URL were saved, and   *)
(*               whether it was begun by a guest                           *)
(*   didit       the status of each session in Didit                       *)
(*   known       the sessions whose URL the signer was given               *)
(*   lapsed      the sessions whose expires_at has passed                  *)
(*   sent, acked the events <<session, status>> that Didit has sent, and   *)
(*               those it was answered 200                                 *)
(*   registered  the events that have a row in webhook_events              *)
(*   signer      the status of the collaborator                            *)
(*   guest       he has no account linked                                  *)
(*   open        the document is PENDING_SIGNATURE, as far as others go    *)
(*   signedBy    the attempt whose handler won the claim, 0 if none        *)
(*   proc        control of his requests and of the deliveries of events:  *)
(*               the attempt they work on and the status they read         *)
(*   ceded       history: attempts whose approval a delivery answered 200  *)
(*               because another delivery was at work on it                *)
(*   died        history: attempts of which a delivery of the approval     *)
(*               died or failed                                            *)
(*   troubles    calls that failed, handlers that died and things that     *)
(*               other people did, so far                                  *)
(***************************************************************************)
EXTENDS Integers, Sequences, FiniteSets

CONSTANTS Clicks,        \* requests to sign in flight at a time
          MaxAttempts,   \* attempts he makes
          Handlers,      \* deliveries of events in flight at a time
          Told,          \* the statuses of which Didit sends an event
          Outcomes,      \* how sessions end: "APPROVED", "DECLINED", "EXPIRED", or
                         \* "UNPROVEN", approved without a test that is required
          MaxTroubles

Verdicts == {"PENDING", "IN_PROGRESS", "APPROVED", "UNPROVEN", "DECLINED", "EXPIRED"}

ASSUME OutcomesAssumption == Outcomes \subseteq Verdicts \ {"PENDING", "IN_PROGRESS"}
ASSUME ToldAssumption == Outcomes \subseteq Told /\ Told \subseteq Verdicts
ASSUME ProcsAssumption == Clicks \cap Handlers = {}
ASSUME BoundAssumption == MaxAttempts \in Nat /\ MaxTroubles \in Nat

VARIABLES attempts, didit, known, lapsed, sent, acked, registered, signer, guest, open,
          signedBy, proc, ceded, died, troubles
provider == <<didit, known, lapsed, sent>>
signing  == <<signer, guest, open, signedBy>>
webhooks == <<acked, registered>>
history  == <<ceded, died>>
BSvars   == <<attempts, provider, webhooks, signing, proc, history, troubles>>

Ids == 1..MaxAttempts
Events == Ids \X Told
Procs == Clicks \cup Handlers

\* ACTIVE_BIOMETRIC_SIGNATURE_ATTEMPT_STATUSES
ActiveStatuses == {"PENDING", "IN_PROGRESS"}
Active(i) == attempts[i].status \in ActiveStatuses
Open == {i \in DOMAIN attempts : Active(i)}

Idle == [pc |-> "idle", attempt |-> 0, status |-> "none", seen |-> "none", guest |-> FALSE]

BSInit ==
  /\ attempts = << >>
  /\ didit = [i \in Ids |-> "none"] /\ known = {} /\ lapsed = {}
  /\ sent = {} /\ acked = {} /\ registered = {}
  /\ signer = "PENDING" /\ guest \in BOOLEAN /\ open = TRUE /\ signedBy = 0
  /\ proc = [p \in Procs |-> Idle]
  /\ ceded = {} /\ died = {} /\ troubles = 0

At(p, pc) == proc[p].pc = pc
Proceed(p, pc) == proc' = [proc EXCEPT ![p].pc = pc]
Trouble == troubles < MaxTroubles /\ troubles' = troubles + 1
Smooth == UNCHANGED troubles

Write(i, status) == attempts' = [attempts EXCEPT ![i].status = status]

\* Mutant: the UPDATE has no condition.
MutWriteIf(i, seen, status) == Write(i, status)

\* An UPDATE of attempt i on condition that it still says seen.
WriteIf(i, seen, status) ==
  attempts' = IF attempts[i].status = seen
              THEN [attempts EXCEPT ![i].status = status] ELSE attempts

Tell(i) == sent' = IF didit'[i] \in Told THEN sent \cup {<<i, didit'[i]>>} ELSE sent

-----------------------------------------------------------------------------
(* BiometricSessionLauncherService.launch, for one of his clicks. *)

\* assertCanStart; he clicks with his account once it is linked.
Start(c) ==
  /\ At(c, "idle") /\ open /\ signer = "PENDING"
  /\ proc' = [proc EXCEPT ![c].pc = "looking", ![c].guest = guest]
  /\ UNCHANGED <<attempts, provider, webhooks, signing, history, troubles>>

\* toSession: the URL goes out while the attempt is active and in time.
Hand(i) ==
  known' = IF Active(i) /\ attempts[i].saved /\ i \notin lapsed
           THEN known \cup {i} ELSE known

\* isResumable
Resumable(i) == attempts[i].saved /\ i \notin lapsed

\* The open attempt is offered again if it serves, whoever began it.
FindActive(c) ==
  /\ At(c, "looking")
  /\ \/ /\ Open = {}
        /\ Proceed(c, "inserting") /\ UNCHANGED known
     \/ \E i \in Open :
          \/ Resumable(i) /\ Hand(i) /\ proc' = [proc EXCEPT ![c] = Idle]
          \/ /\ ~Resumable(i) /\ UNCHANGED known
             /\ proc' = [proc EXCEPT ![c].pc = "closing", ![c].attempt = i,
                                     ![c].seen = attempts[i].status]
  /\ UNCHANGED <<attempts, didit, lapsed, sent, webhooks, signing, history, troubles>>

\* An attempt without URL may be one whose click is still waiting for Didit.
CloseUnusable(c) ==
  /\ At(c, "closing")
  /\ LET i == proc[c].attempt
     IN  WriteIf(i, proc[c].seen, IF i \in lapsed THEN "EXPIRED" ELSE "FAILED")
  /\ proc' = [proc EXCEPT ![c] = [Idle EXCEPT !.pc = "inserting", !.guest = proc[c].guest]]
  /\ UNCHANGED <<provider, webhooks, signing, history, troubles>>

\* The attempt is saved before Didit is called; the partial unique index refuses a second
\* active one, and then the winner's session is the answer, or a conflict is.
CreateAttempt(c) ==
  /\ At(c, "inserting")
  /\ \/ /\ Open = {} /\ Len(attempts) < MaxAttempts
        /\ attempts' = Append(attempts, [status |-> "PENDING", saved |-> FALSE,
                                         guest |-> proc[c].guest])
        /\ proc' = [proc EXCEPT ![c] = [Idle EXCEPT !.pc = "calling", !.attempt = Len(attempts')]]
     \/ Open # {} /\ Proceed(c, "yielding") /\ UNCHANGED attempts
  /\ UNCHANGED <<provider, webhooks, signing, history, troubles>>

Yield(c) ==
  /\ At(c, "yielding")
  /\ \/ Open = {} /\ UNCHANGED known
     \/ \E i \in Open : Hand(i)
  /\ proc' = [proc EXCEPT ![c] = Idle]
  /\ UNCHANGED <<attempts, didit, lapsed, sent, webhooks, signing, history, troubles>>

\* Didit opens the session and tells so; its answer may be lost, or it opens none.
OpenSession(c) ==
  /\ At(c, "calling")
  /\ LET i == proc[c].attempt
         opened == didit' = [didit EXCEPT ![i] = "PENDING"] /\ Tell(i)
     IN  \/ opened /\ Proceed(c, "saving") /\ Smooth
         \/ opened /\ Proceed(c, "failing") /\ Trouble
         \/ Proceed(c, "failing") /\ Trouble /\ UNCHANGED <<didit, sent>>
  /\ UNCHANGED <<attempts, known, lapsed, webhooks, signing, history>>

\* The attempt is left FAILED, whatever it says by now.
FailAttempt(c) ==
  /\ At(c, "failing")
  /\ Write(proc[c].attempt, "FAILED")
  /\ proc' = [proc EXCEPT ![c] = Idle]
  /\ UNCHANGED <<provider, webhooks, signing, history, troubles>>

\* The session is saved whatever has become of the attempt, which is read again.
SaveSession(c) ==
  /\ At(c, "saving")
  /\ LET i == proc[c].attempt
     IN  /\ attempts' = [attempts EXCEPT ![i].saved = TRUE]
         /\ known' = IF Active(i) THEN known \cup {i} ELSE known
  /\ proc' = [proc EXCEPT ![c] = Idle]
  /\ UNCHANGED <<didit, lapsed, sent, webhooks, signing, history, troubles>>

\* A database that fails, or a server that dies, leaves the attempt as it is.
AbortClick(c) ==
  /\ ~At(c, "idle")
  /\ IF proc[c].pc \in {"calling", "saving", "failing"} THEN Trouble ELSE Smooth
  /\ proc' = [proc EXCEPT ![c] = Idle]
  /\ UNCHANGED <<attempts, provider, webhooks, signing, history>>

-----------------------------------------------------------------------------
(* Didit, and the people. *)

\* Who has the URL goes through the session.
Verdict(i) ==
  /\ \/ i \in known /\ didit[i] = "PENDING" /\ didit' = [didit EXCEPT ![i] = "IN_PROGRESS"]
     \/ /\ didit[i] = "IN_PROGRESS"
        /\ \E v \in Outcomes \ {"EXPIRED"} : didit' = [didit EXCEPT ![i] = v]
     \/ /\ didit[i] \in ActiveStatuses /\ "EXPIRED" \in Outcomes
        /\ didit' = [didit EXCEPT ![i] = "EXPIRED"]
  /\ Tell(i)
  /\ UNCHANGED <<attempts, known, lapsed, webhooks, signing, proc, history, troubles>>

\* isUnexpired, of which only open attempts are asked; a session in review may be decided
\* later than that.
Lapse(i) ==
  /\ i \in Open /\ attempts[i].saved /\ i \notin lapsed
  /\ lapsed' = lapsed \cup {i}
  /\ UNCHANGED <<attempts, didit, known, sent, webhooks, signing, proc, history, troubles>>

\* He rejects the document; another signer does, or it is cancelled; he links his account,
\* which looks for PENDING and no account.
Reject ==
  /\ Trouble
  /\ open /\ signer = "PENDING"
  /\ signer' = "REJECTED" /\ open' = FALSE
  /\ UNCHANGED <<attempts, provider, webhooks, guest, signedBy, proc, history>>

CloseDocument ==
  /\ Trouble
  /\ open /\ signer = "PENDING" /\ open' = FALSE
  /\ UNCHANGED <<attempts, provider, webhooks, signer, guest, signedBy, proc, history>>

LinkAccount ==
  /\ Trouble
  /\ signer = "PENDING" /\ guest
  /\ guest' = FALSE
  /\ UNCHANGED <<attempts, provider, webhooks, signer, open, signedBy, proc, history>>

-----------------------------------------------------------------------------
(* A delivery: the webhook, its dispatcher and ProcessBiometricSignatureResultUseCase. *)

Attempt(h) == proc[h].attempt
Event(h) == <<Attempt(h), proc[h].status>>

\* DIDIT_STATUS_MAP; findMissingApproval closes what lacks a proof.
MapStatus(verdict) == IF verdict = "UNPROVEN" THEN "FAILED" ELSE verdict

\* The answer 200: once the event is marked PROCESSED, or as a duplicate.
Acknowledge(h) == /\ acked' = acked \cup {Event(h)}
                  /\ proc' = [proc EXCEPT ![h] = Idle]

\* The approval is left to the other delivery of it.
Cede(h) == ceded' = IF proc[h].status = "APPROVED" THEN ceded \cup {Attempt(h)} ELSE ceded

\* Mutant: only an active attempt has anything to do.
MutBranch(status, seen) ==
  CASE status = "APPROVED" /\ seen \in ActiveStatuses -> "approving"
    [] status # "APPROVED" /\ seen \in ActiveStatuses -> "moving"
    [] OTHER -> "ignoring"

\* What the handler goes on to do with an attempt that said seen when it was read: one
\* approved before, by a handler that failed, is taken up again.
Branch(status, seen) ==
  CASE status = "APPROVED" /\ seen \in ActiveStatuses -> "approving"
    [] status # "APPROVED" /\ seen \in ActiveStatuses -> "moving"
    [] status \in {"APPROVED", "UNPROVEN"} /\ seen = "APPROVED" -> "validating"
    [] OTHER -> "ignoring"

\* The attempt of the session is read; without one the event is ignored.
Dispatch(h, i, status) ==
  LET seen == attempts[i].status
      pc == IF attempts[i].saved THEN Branch(status, seen) ELSE "ignoring"
  IN  IF pc = "ignoring"
      THEN acked' = acked \cup {<<i, status>>} /\ proc' = [proc EXCEPT ![h] = Idle]
      ELSE /\ proc' = [proc EXCEPT ![h] = [Idle EXCEPT !.pc = pc, !.attempt = i,
                                                       !.status = status, !.seen = seen]]
           /\ UNCHANGED acked

\* Didit sends until it is answered 200, without waiting for the last try.  The row of the
\* event is looked for: an event that has one and was not answered is run again.
Receive(h, e) ==
  /\ At(h, "idle") /\ e \in sent \ acked
  /\ IF e \in registered THEN Dispatch(h, e[1], e[2])
     ELSE /\ proc' = [proc EXCEPT ![h] = [Idle EXCEPT !.pc = "registering", !.attempt = e[1],
                                                      !.status = e[2]]]
          /\ UNCHANGED acked
  /\ UNCHANGED <<attempts, provider, registered, signing, history, troubles>>

\* The row is inserted and the event run, unless another delivery has inserted it meanwhile:
\* then this one is answered 200, as a duplicate, and the event is left to the other.
Register(h) ==
  /\ At(h, "registering")
  /\ IF Event(h) \notin registered
     THEN /\ registered' = registered \cup {Event(h)}
          /\ Dispatch(h, Attempt(h), proc[h].status) /\ UNCHANGED ceded
     ELSE Acknowledge(h) /\ Cede(h) /\ UNCHANGED registered
  /\ UNCHANGED <<attempts, provider, signing, died, troubles>>

\* applyNonApproval and close: on condition of the status read.
Move(h) ==
  /\ At(h, "moving")
  /\ WriteIf(Attempt(h), proc[h].seen, MapStatus(proc[h].status))
  /\ Acknowledge(h)
  /\ UNCHANGED <<provider, registered, signing, history, troubles>>

\* applyApproval: on condition that it is still active; otherwise another delivery has
\* closed it and this one does not sign.
Approve(h) ==
  /\ At(h, "approving")
  /\ IF Active(Attempt(h))
     THEN /\ Write(Attempt(h), "APPROVED") /\ Proceed(h, "validating")
          /\ UNCHANGED <<acked, ceded>>
     ELSE Acknowledge(h) /\ Cede(h) /\ UNCHANGED attempts
  /\ UNCHANGED <<provider, registered, signing, died, troubles>>

\* signApprovedAttempt, and the guards of executeBiometric, which reads the attempt, the
\* document and the signer again.
Validate(h) ==
  /\ At(h, "validating")
  /\ LET a == attempts[Attempt(h)]
         valid == a.status = "APPROVED" /\ a.guest = guest /\ open /\ signer = "PENDING"
     IN  IF signer = "SIGNED" THEN Acknowledge(h)
         ELSE Proceed(h, IF valid THEN "claiming" ELSE "refused") /\ UNCHANGED acked
  /\ UNCHANGED <<attempts, provider, registered, signing, history, troubles>>

\* The claim of completeSignature looks at the signer only.
Claim(h) ==
  /\ At(h, "claiming")
  /\ \/ /\ signer = "PENDING"
        /\ signer' = "SIGNED" /\ signedBy' = Attempt(h)
        /\ Proceed(h, "finishing")
     \/ signer # "PENDING" /\ Proceed(h, "refused") /\ UNCHANGED <<signer, signedBy>>
  /\ UNCHANGED <<attempts, provider, webhooks, guest, open, history, troubles>>

\* The rest of completeSignature, of which SigningFlow tells; then his other open sessions
\* have nothing left to sign.
Finish(h) ==
  /\ At(h, "finishing")
  /\ attempts' = [i \in DOMAIN attempts |->
                    IF i # Attempt(h) /\ Active(i) THEN [attempts[i] EXCEPT !.status = "FAILED"]
                    ELSE attempts[i]]
  /\ Acknowledge(h)
  /\ UNCHANGED <<provider, registered, signing, history, troubles>>

\* Mutant: whoever is refused gives the attempt up, without looking at the signer again.
MutRefuse(h) ==
  /\ At(h, "refused")
  /\ Proceed(h, "giving up")
  /\ UNCHANGED <<attempts, provider, webhooks, signing, history, troubles>>

\* A business rule refused: perhaps because another delivery has just signed.
Refuse(h) ==
  /\ At(h, "refused")
  /\ IF signer = "SIGNED" THEN Acknowledge(h) ELSE Proceed(h, "giving up") /\ UNCHANGED acked
  /\ UNCHANGED <<attempts, provider, registered, signing, history, troubles>>

GiveUp(h) ==
  /\ At(h, "giving up")
  /\ Write(Attempt(h), "FAILED")
  /\ Acknowledge(h)
  /\ UNCHANGED <<provider, registered, signing, history, troubles>>

\* A handler that throws, or a server that dies, gives no 200.
AbortDelivery(h) ==
  /\ ~At(h, "idle") /\ Trouble
  /\ proc' = [proc EXCEPT ![h] = Idle]
  /\ died' = IF proc[h].status = "APPROVED" THEN died \cup {Attempt(h)} ELSE died
  /\ UNCHANGED <<attempts, provider, webhooks, signing, ceded>>

Continue(c) == \/ FindActive(c) \/ CloseUnusable(c) \/ CreateAttempt(c) \/ Yield(c)
               \/ OpenSession(c) \/ FailAttempt(c) \/ SaveSession(c)

Handle(h) == \/ Register(h) \/ Move(h) \/ Approve(h) \/ Validate(h)
             \/ Claim(h) \/ Finish(h) \/ Refuse(h) \/ GiveUp(h)

BSNext == \/ \E c \in Clicks : Start(c) \/ Continue(c) \/ AbortClick(c)
          \/ \E i \in Ids : Verdict(i) \/ Lapse(i)
          \/ \E h \in Handlers : (\E e \in Events : Receive(h, e)) \/ Handle(h) \/ AbortDelivery(h)
          \/ Reject \/ CloseDocument \/ LinkAccount

BSSpec == BSInit /\ [][BSNext]_BSvars

-----------------------------------------------------------------------------
Points == {"idle", "looking", "closing", "inserting", "yielding", "calling", "failing",
           "saving", "registering", "moving", "approving", "validating", "claiming", "finishing",
           "refused", "giving up"}

BSTypeOK ==
  /\ attempts \in Seq([status : {"PENDING", "IN_PROGRESS", "APPROVED", "DECLINED", "EXPIRED",
                                 "FAILED"}, saved : BOOLEAN, guest : BOOLEAN])
  /\ Len(attempts) <= MaxAttempts /\ Cardinality(Open) <= 1
  /\ didit \in [Ids -> Verdicts \cup {"none"}]
  /\ known \cup lapsed \cup ceded \cup died \subseteq Ids
  /\ acked \subseteq registered /\ registered \subseteq sent /\ sent \subseteq Events
  /\ signer \in {"PENDING", "SIGNED", "REJECTED"} /\ guest \in BOOLEAN
  /\ open \in BOOLEAN /\ signedBy \in 0..MaxAttempts
  /\ \A p \in Procs : proc[p].pc \in Points /\ proc[p].attempt \in 0..Len(attempts)

\* Who signed did so by an attempt that Didit approved, and the attempt says so for ever:
\* the delivery that lost the claim does not mark it as failed.  The exception is a
\* delivery refused for what happened to the document or the account between the check and
\* the claim of the one that signed.
SignedIsBacked ==
  signer = "SIGNED" =>
    /\ didit[signedBy] = "APPROVED"
    /\ attempts[signedBy].status = "APPROVED"
         \/ ~open \/ attempts[signedBy].guest # guest

\* Didit has been told that it approved attempt i, and no delivery is at work on it.
Told200(i) == /\ <<i, "APPROVED">> \in acked
              /\ \A h \in Handlers : Attempt(h) # i

\* What Didit approved is signed, whatever fails in between and however often: once it was
\* answered 200 and nobody is at work on it, the attempt is not left open, nor APPROVED with
\* its signer PENDING.  Two deliveries of one approval at once do no harm alone, nor do
\* deliveries that die; the exception is an approval that met both, of which one delivery
\* was answered 200 in favour of another and one died.
ApprovedIsSigned ==
  \A i \in DOMAIN attempts \ (ceded \cap died) :
    Told200(i) => ~Active(i) /\ (attempts[i].status = "APPROVED" => signer # "PENDING")

\* "Un estado viejo nunca pisa uno terminal": whatever a click or a delivery read before, it
\* does not open an attempt again whose end another has written meanwhile, nor change that
\* end into another, except for FAILED; and an approval is only given up once the document
\* was closed or the account linked.
TerminalStands ==
  [][\A i \in DOMAIN attempts :
       attempts'[i].status # attempts[i].status /\ ~Active(i) =>
         /\ attempts'[i].status = "FAILED"
         /\ attempts[i].status = "APPROVED" => ~open \/ attempts[i].guest # guest]_BSvars

\* What the launcher promises, "dos clics simultaneos no abren dos sesiones": he never has
\* two sessions under way in Didit of which none has lapsed.
OneSession ==
  \A i, j \in Ids : i # j /\ {didit[i], didit[j]} \subseteq ActiveStatuses
                      => {i, j} \cap lapsed # {}

\* What execute() promises of a signature that failed: Didit sends the event again.
NoApprovalIsLost ==
  \A i \in DOMAIN attempts :
    Told200(i) => ~Active(i) /\ (attempts[i].status = "APPROVED" => signer # "PENDING")

\* What expiresAt and closeUnusable are for, that he is not sent back to a dead URL: a
\* session of which Didit was told 200 that its end is known leaves no attempt open.
EndedIsClosed ==
  \A i \in DOMAIN attempts :
    /\ didit[i] \notin ActiveStatuses \cup {"none"} /\ <<i, didit[i]>> \in acked
    /\ attempts[i].saved /\ \A h \in Handlers : Attempt(h) # i
    => ~Active(i)
=============================================================================
