------------------------ MODULE IdentityVerification ------------------------
(***************************************************************************)
(* The identity of a user and his credential to sign.  He verifies it in   *)
(* sessions of Didit, whose webhooks come in any order until they are      *)
(* answered 200; the credential then follows the verdict and the rubric    *)
(* he draws.  Every writer of the credential reads it, looks the move up   *)
(* in one table and writes it without looking again.                       *)
(*                                                                         *)
(*   didit       the status of each session in Didit                       *)
(*   known       the sessions whose URL the user was given                 *)
(*   lapsed      the sessions whose time has run out                       *)
(*   attempts    table identity_verifications, oldest first: the status,   *)
(*               the session bound to it and the one whose URL it has      *)
(*   credential  users.signing_credential_status                           *)
(*   verified    whether users.identity_verified_at is set                 *)
(*   images      whether the images of his card are stored                 *)
(*   rubric      the files of his row of signatures, one or both: the      *)
(*               image of his signature, "drawn" or made "blank" when he   *)
(*               put it out of use (is_active goes with it), and the card  *)
(*   proc        control of the requests of each tab of the user and of    *)
(*               the delivery of each event <<session, status>>: the       *)
(*               attempt it works on, the session it opened, the status it *)
(*               read and the moves of the credential it has left          *)
(*   troubles    calls that failed or died, and crossings, so far          *)
(*   anomalies   history: what has happened of "erased" (the deletion of a *)
(*               rubric moved a credential still being verified), "missed" *)
(*               (an approval looked for its session, then for an attempt  *)
(*               without one, and in between the session got its attempt)  *)
(*               and "raced" (two deliveries of an approval at once: the   *)
(*               one that lost the insertion of the event was answered     *)
(*               200, and the other died)                                  *)
(***************************************************************************)
EXTENDS Integers, Sequences, FiniteSets, SequencesExt

CONSTANTS Sessions, Tabs,
          None,
          Outcomes,       \* the verdicts Didit gives
          MaxPending,     \* events of Didit under way
          MaxAllowed,     \* MAX_IDENTITY_VERIFICATION_ATTEMPTS
          MaxAttempts,    \* attempts the user makes
          MaxTroubles

ASSUME NamesAssumption == None \notin Sessions
ASSUME BoundAssumption == /\ MaxAllowed \in Nat /\ MaxAttempts \in Nat
                          /\ MaxPending \in Nat /\ MaxTroubles \in Nat

VARIABLES didit, known, lapsed, attempts, credential, verified, images, rubric, proc,
          troubles, anomalies
vars == <<didit, known, lapsed, attempts, credential, verified, images, rubric, proc,
          troubles, anomalies>>
provider == <<didit, known, lapsed>>
identity == <<verified, images>>

\* What Didit says of a session, in the words of the attempts; ABANDONED goes as EXPIRED.
Verdicts == {"PENDING", "IN_PROGRESS", "IN_REVIEW", "APPROVED", "DECLINED", "EXPIRED"}
TerminalStatuses == {"APPROVED", "DECLINED", "EXPIRED", "FAILED"}
ConsumedStatuses == TerminalStatuses \ {"APPROVED"}
ReusableStatuses == {"PENDING", "IN_PROGRESS"}

Events == Sessions \X Verdicts
Procs == Tabs \cup Events

ASSUME TabsAssumption == Tabs \cap Events = {}
ASSUME OutcomesAssumption == Outcomes \subseteq Verdicts

\* Mutant: a session just opened may already complete the credential.
MutAllowed(from, to) ==
  \/ from = "PENDING" /\ to = "CONFIGURED"
  \/ from \in {"PENDING", "IN_PROGRESS", "IN_REVIEW"} /\ to = "SIGNATURE_PENDING"
  \/ from \in {"REQUIRED", "RETRY_REQUIRED"} /\ to = "PENDING"
  \/ from = "SIGNATURE_PENDING" /\ to = "CONFIGURED"

\* ALLOWED_SIGNING_CREDENTIAL_TRANSITIONS, without the administrative FAILED that nothing
\* asks for.
Allowed(from, to) ==
  \/ from \in {"REQUIRED", "RETRY_REQUIRED"} /\ to \in {"PENDING", "MAX_ATTEMPTS"}
  \/ from = "PENDING" /\ to \in {"IN_PROGRESS", "IN_REVIEW"}
  \/ from = "IN_PROGRESS" /\ to = "IN_REVIEW"
  \/ /\ from \in {"PENDING", "IN_PROGRESS", "IN_REVIEW"}
     /\ to \in {"SIGNATURE_PENDING", "RETRY_REQUIRED", "MAX_ATTEMPTS"}
  \/ from = "SIGNATURE_PENDING" /\ to \in {"CONFIGURED", "RETRY_REQUIRED"}
  \/ from = "CONFIGURED" /\ to \in {"SIGNATURE_PENDING", "RETRY_REQUIRED"}

Busy(pc, i, targets) ==
  [pc |-> pc, row |-> i, session |-> None, seen |-> "none", todo |-> targets]
Idle(pc) == Busy(pc, 0, << >>)

\* The users of the former onboarding have a rubric already, some with their card.
Init ==
  /\ didit = [s \in Sessions |-> "none"] /\ known = {} /\ lapsed = {}
  /\ attempts = << >> /\ credential = "REQUIRED" /\ verified = FALSE /\ images = FALSE
  /\ rubric \in {[image |-> "none", card |-> FALSE], [image |-> "drawn", card |-> FALSE],
                 [image |-> "drawn", card |-> TRUE]}
  /\ proc = [p \in Procs |-> Idle(IF p \in Tabs THEN "idle" ELSE "unsent")]
  /\ troubles = 0 /\ anomalies = {}

LastStatus == IF attempts = << >> THEN "none" ELSE Last(attempts).status
HasImage == rubric.image # "none"
HasRow == HasImage \/ rubric.card
Fault == troubles < MaxTroubles /\ troubles' = troubles + 1
NoFault == UNCHANGED troubles

At(p, pc) == proc[p].pc = pc
Goto(p, pc) == proc' = [proc EXCEPT ![p].pc = pc]
Active(p) == proc[p].pc \notin {"idle", "unsent", "sent", "done"}
Alone(p) == \A q \in Procs \ {p} : ~Active(q)

\* Process p comes in, perhaps while another is at work.
Enter(p) == IF Alone(p) THEN NoFault ELSE Fault

Note(what, cond) == anomalies' = IF cond THEN anomalies \cup {what} ELSE anomalies

\* Process p goes on to move the credential to each of targets, or ends if there are none.
Moves(p, targets) ==
  proc' = [proc EXCEPT ![p].todo = targets,
                       ![p].pc = IF targets = << >> THEN "ending" ELSE "reading"]

-----------------------------------------------------------------------------
(* applyIfAllowed and execute of UpdateSigningCredentialStatusUseCase. *)

\* An impossible move and one already made are dropped; execute() answers the former with
\* an error once everything else is done.
ReadCredential(p) ==
  /\ At(p, "reading")
  /\ IF Allowed(credential, Head(proc[p].todo))
     THEN Goto(p, "writing")
     ELSE Moves(p, Tail(proc[p].todo))
  /\ UNCHANGED <<provider, attempts, credential, identity, rubric, troubles, anomalies>>

WriteCredential(p) ==
  /\ At(p, "writing")
  /\ credential' = Head(proc[p].todo)
  /\ Moves(p, Tail(proc[p].todo))
  /\ Note("erased", /\ p \in Tabs /\ credential' = "SIGNATURE_PENDING"
                    /\ credential # "CONFIGURED")
  /\ UNCHANGED <<provider, attempts, identity, rubric, troubles>>

-----------------------------------------------------------------------------
(* StartDiditVerificationUseCase; its reads are one step. *)

\* findReusableSession
Reusable(x) == /\ x.hosted # None /\ x.hosted \notin lapsed
               /\ x.status \in ReusableStatuses

Consumed == Cardinality({i \in DOMAIN attempts : attempts[i].status \in ConsumedStatuses})

\* A blocked user and one whose last attempt is APPROVED are refused; the last session is
\* offered again if it still serves; who has no attempts left is blocked.
Start(t) ==
  /\ At(t, "idle") /\ credential # "MAX_ATTEMPTS" /\ LastStatus # "APPROVED"
  /\ IF attempts # << >> /\ Reusable(Last(attempts))
     THEN proc' = [proc EXCEPT ![t] = Busy("reading", Len(attempts), <<"PENDING">>)]
     ELSE IF Consumed >= MaxAllowed THEN Moves(t, <<"MAX_ATTEMPTS">>)
          ELSE Goto(t, "inserting")
  /\ Enter(t)
  /\ UNCHANGED <<provider, attempts, credential, identity, rubric, anomalies>>

\* The attempt is saved before Didit is called.
InsertAttempt(t) ==
  /\ At(t, "inserting") /\ Len(attempts) < MaxAttempts
  /\ attempts' = Append(attempts, [status |-> "PENDING", session |-> None,
                                   hosted |-> None])
  /\ proc' = [proc EXCEPT ![t] = Busy("calling", Len(attempts'), << >>)]
  /\ UNCHANGED <<provider, credential, identity, rubric, troubles, anomalies>>

\* Didit opens a session and tells so; its answer may be lost, or it opens none.
CreateSession(t) ==
  /\ At(t, "calling")
  /\ \/ \E s \in Sessions :
          /\ didit[s] = "none"
          /\ didit' = [didit EXCEPT ![s] = "PENDING"]
          /\ \/ /\ proc' = [proc EXCEPT ![<<s, "PENDING">>].pc = "sent",
                                        ![t].pc = "saving", ![t].session = s]
                /\ NoFault
             \/ /\ proc' = [proc EXCEPT ![<<s, "PENDING">>].pc = "sent", ![t].pc = "failing"]
                /\ Fault
     \/ Fault /\ Goto(t, "failing") /\ UNCHANGED didit
  /\ UNCHANGED <<known, lapsed, attempts, credential, identity, rubric, anomalies>>

\* A session belongs to one attempt only (UQ_identity_verifications_provider_session).
SaveSession(t) ==
  /\ At(t, "saving")
  /\ LET i == proc[t].row
         taken == \E j \in DOMAIN attempts \ {i} : attempts[j].session = proc[t].session
     IN  IF taken
         THEN Goto(t, "failing") /\ UNCHANGED attempts
         ELSE /\ attempts' = [attempts EXCEPT ![i].session = proc[t].session,
                                              ![i].hosted = proc[t].session]
              /\ Moves(t, <<"PENDING">>)
  /\ UNCHANGED <<provider, credential, identity, rubric, troubles, anomalies>>

\* Mutant: the attempt Didit did not answer is taken back.
MutFailStart(t) ==
  /\ At(t, "failing")
  /\ attempts' = RemoveAt(attempts, proc[t].row)
  /\ proc' = [proc EXCEPT ![t] = Idle("idle")]
  /\ UNCHANGED <<provider, credential, identity, rubric, troubles, anomalies>>

\* The attempt that could not be started is left FAILED, whatever it says by now.
FailStart(t) ==
  /\ At(t, "failing")
  /\ attempts' = [attempts EXCEPT ![proc[t].row].status = "FAILED"]
  /\ proc' = [proc EXCEPT ![t] = Idle("idle")]
  /\ UNCHANGED <<provider, credential, identity, rubric, troubles, anomalies>>

\* A request answers; one that started a verification gives its URL.
Answer(t) ==
  /\ At(t, "ending")
  /\ known' = IF proc[t].row = 0 THEN known ELSE known \cup {attempts[proc[t].row].hosted}
  /\ proc' = [proc EXCEPT ![t] = Idle("idle")]
  /\ UNCHANGED <<didit, lapsed, attempts, credential, identity, rubric, troubles, anomalies>>

\* A database that fails in the middle of a start that has its session; any other request,
\* or a server that dies, leaves things as they are.
AbortRequest(t) ==
  /\ Active(t) /\ Fault
  /\ \/ proc[t].session # None /\ ~At(t, "failing") /\ Goto(t, "failing")
     \/ proc' = [proc EXCEPT ![t] = Idle("idle")]
  /\ UNCHANGED <<provider, attempts, credential, identity, rubric, anomalies>>

-----------------------------------------------------------------------------
(* Didit and its webhooks. *)

\* Who has the URL goes through the session; one that ended may be approved all the same.
Verdict(s) ==
  /\ \/ s \in known /\ didit[s] = "PENDING" /\ didit' = [didit EXCEPT ![s] = "IN_PROGRESS"]
     \/ /\ didit[s] \in {"IN_PROGRESS", "IN_REVIEW"}
        /\ \E v \in (Outcomes \ {"EXPIRED", didit[s]}) : didit' = [didit EXCEPT ![s] = v]
     \/ /\ didit[s] \in {"PENDING", "IN_PROGRESS"} /\ "EXPIRED" \in Outcomes
        /\ didit' = [didit EXCEPT ![s] = "EXPIRED"]
     \/ /\ s \in known /\ didit[s] = "EXPIRED"
        /\ didit' = [didit EXCEPT ![s] = "APPROVED"]
  /\ Cardinality({d \in Events : proc[d].pc \notin {"unsent", "done"}}) < MaxPending
  /\ Goto(<<s, didit'[s]>>, "sent")
  /\ lapsed' = IF didit'[s] = "EXPIRED" THEN lapsed \cup {s} ELSE lapsed
  /\ UNCHANGED <<known, attempts, credential, identity, rubric, troubles, anomalies>>

Approves(d) == d[2] = "APPROVED"

\* Mutant: an attempt that has ended keeps its status, also from an approval.
MutStale(d, status) == status \in TerminalStatuses /\ status # d[2]

\* An attempt that has ended keeps its status, unless this approves it.
Stale(d, status) == status \in TerminalStatuses /\ status # d[2] /\ ~Approves(d)

\* What the event does to attempt i, which said status when it was read.
Apply(d, i, status) ==
  proc' = [proc EXCEPT ![d].row = i,
                       ![d].pc = IF Stale(d, status) THEN "ending"
                                 ELSE IF Approves(d) THEN "storing" ELSE "updating"]

HasAttempt(s) == \E i \in DOMAIN attempts : attempts[i].session = s

\* The attempt of the session.
FindAttempt(d) ==
  /\ At(d, "sent")
  /\ \/ \E i \in DOMAIN attempts :
          attempts[i].session = d[1] /\ Apply(d, i, attempts[i].status)
     \/ ~HasAttempt(d[1]) /\ Goto(d, "searching")
  /\ Enter(d)
  /\ UNCHANGED <<provider, attempts, credential, identity, rubric, anomalies>>

Orphans == {i \in DOMAIN attempts : attempts[i].session = None}

\* Its vendor_data leads to the last attempt of the user without a session; an event that
\* finds none is not an error.
FindOrphan(d) ==
  /\ At(d, "searching")
  /\ \/ \E i \in Orphans :
          /\ \A j \in Orphans : j <= i
          /\ proc' = [proc EXCEPT ![d].row = i, ![d].seen = attempts[i].status,
                                  ![d].pc = "binding"]
     \/ Orphans = {} /\ Goto(d, "ending")
  /\ Note("missed", Orphans = {} /\ Approves(d) /\ HasAttempt(d[1]))
  /\ UNCHANGED <<provider, attempts, credential, identity, rubric, troubles>>

\* The session is bound to it, unless the unique index says it already has an attempt.
BindOrphan(d) ==
  /\ At(d, "binding")
  /\ LET i == proc[d].row
     IN  IF \E j \in DOMAIN attempts \ {i} : attempts[j].session = d[1]
         THEN proc' = [proc EXCEPT ![d] = Idle("sent")] /\ UNCHANGED attempts
         ELSE attempts' = [attempts EXCEPT ![i].session = d[1]] /\ Apply(d, i, proc[d].seen)
  /\ UNCHANGED <<provider, credential, identity, rubric, troubles, anomalies>>

\* The images of the card are stored before anything says APPROVED.
StoreImages(d) ==
  /\ At(d, "storing")
  /\ images' = TRUE
  /\ Goto(d, "updating")
  /\ UNCHANGED <<provider, attempts, credential, verified, rubric, troubles, anomalies>>

\* The attempt is written by its id; CREDENTIAL_STATUS_BY_VERIFICATION_STATUS.
UpdateAttempt(d) ==
  /\ At(d, "updating")
  /\ attempts' = [attempts EXCEPT ![proc[d].row].status = d[2]]
  /\ IF Approves(d) THEN Goto(d, "verifying")
     ELSE Moves(d, <<IF d[2] \in TerminalStatuses THEN "RETRY_REQUIRED" ELSE d[2]>>)
  /\ UNCHANGED <<provider, credential, identity, rubric, troubles, anomalies>>

\* identityVerifiedAt; applyApproval reads the user and plans his moves.
Verify(d) ==
  /\ At(d, "verifying")
  /\ verified' = TRUE
  /\ Moves(d, (IF credential = "RETRY_REQUIRED" THEN <<"PENDING">> ELSE << >>)
              \o <<"SIGNATURE_PENDING">> \o (IF HasRow THEN <<"CONFIGURED">> ELSE << >>))
  /\ UNCHANGED <<provider, attempts, credential, images, rubric, troubles, anomalies>>

\* The event is marked PROCESSED and answered 200.
MarkProcessed(d) ==
  /\ At(d, "ending")
  /\ proc' = [proc EXCEPT ![d] = Idle("done")]
  /\ UNCHANGED <<provider, attempts, credential, identity, rubric, troubles, anomalies>>

\* A handler that throws, or a server that dies, gives no 200 and Didit sends again; but not
\* if a second delivery lost the insertion of the event to it and was answered 200.
AbortDelivery(d) ==
  /\ Active(d) /\ Fault
  /\ \/ proc' = [proc EXCEPT ![d] = Idle("sent")] /\ UNCHANGED anomalies
     \/ proc' = [proc EXCEPT ![d] = Idle("done")] /\ Note("raced", Approves(d))
  /\ UNCHANGED <<provider, attempts, credential, identity, rubric>>

-----------------------------------------------------------------------------
(* The rubric of the user. *)

\* UploadSignatureImageUseCase: only SIGNATURE_PENDING, and only without an image.
UploadSignature(t) ==
  /\ At(t, "idle") /\ credential = "SIGNATURE_PENDING" /\ ~HasImage
  /\ \E card \in {rubric.card, TRUE} : rubric' = [image |-> "drawn", card |-> card]
  /\ proc' = [proc EXCEPT ![t] = Busy("reading", 0, <<"CONFIGURED">>)]
  /\ Enter(t)
  /\ UNCHANGED <<provider, attempts, credential, identity, anomalies>>

\* UpdateSignatureUseCase: nobody asks for the identity.
UpdateSignature(t) ==
  /\ At(t, "idle") /\ HasRow
  /\ \/ /\ rubric' = [rubric EXCEPT !.image = "drawn"]
        /\ proc' = [proc EXCEPT ![t] = Busy("reading", 0, <<"CONFIGURED">>)]
     \/ /\ rubric' = [rubric EXCEPT !.card = TRUE]
        /\ UNCHANGED proc
  /\ Enter(t)
  /\ UNCHANGED <<provider, attempts, credential, identity, anomalies>>

\* DeactivateSignatureUseCase: the image is overwritten with nothing; the credential is not
\* told.
DeactivateSignature(t) ==
  /\ At(t, "idle") /\ HasImage
  /\ rubric' = [rubric EXCEPT !.image = "blank"]
  /\ Enter(t)
  /\ UNCHANGED <<provider, attempts, credential, identity, proc, anomalies>>

\* DeleteSignatureImageUseCase; the row goes with its last file.
DeleteSignature(t) ==
  /\ At(t, "idle") /\ HasImage
  /\ rubric' = [rubric EXCEPT !.image = "none"]
  /\ proc' = [proc EXCEPT ![t] = Busy("reading", 0, <<"SIGNATURE_PENDING">>)]
  /\ Enter(t)
  /\ UNCHANGED <<provider, attempts, credential, identity, anomalies>>

\* DeleteOfficialFileUseCase
DeleteOfficialFile(t) ==
  /\ At(t, "idle") /\ rubric.card
  /\ rubric' = [rubric EXCEPT !.card = FALSE]
  /\ Enter(t)
  /\ UNCHANGED <<provider, attempts, credential, identity, proc, anomalies>>

-----------------------------------------------------------------------------
Handle(d) == \/ FindAttempt(d) \/ FindOrphan(d) \/ BindOrphan(d) \/ StoreImages(d)
             \/ UpdateAttempt(d) \/ Verify(d) \/ MarkProcessed(d)
             \/ ReadCredential(d) \/ WriteCredential(d)

Request(t) == \/ Start(t) \/ UploadSignature(t) \/ UpdateSignature(t)
              \/ DeactivateSignature(t) \/ DeleteSignature(t) \/ DeleteOfficialFile(t)

Continue(t) == \/ InsertAttempt(t) \/ CreateSession(t)
               \/ SaveSession(t) \/ FailStart(t) \/ Answer(t)
               \/ ReadCredential(t) \/ WriteCredential(t)

Next == \/ \E t \in Tabs : Request(t) \/ Continue(t) \/ AbortRequest(t)
        \/ \E d \in Events : Handle(d) \/ AbortDelivery(d)
        \/ \E s \in Sessions : Verdict(s)

Spec == Init /\ [][Next]_vars

-----------------------------------------------------------------------------
Credentials == {"REQUIRED", "PENDING", "IN_PROGRESS", "IN_REVIEW", "RETRY_REQUIRED",
                "MAX_ATTEMPTS", "SIGNATURE_PENDING", "CONFIGURED"}

TypeOK ==
  /\ didit \in [Sessions -> Verdicts \cup {"none"}] /\ known \cup lapsed \subseteq Sessions
  /\ attempts \in Seq([status : Verdicts \cup {"FAILED"}, session : Sessions \cup {None},
                       hosted : Sessions \cup {None}])
  /\ credential \in Credentials /\ verified \in BOOLEAN /\ images \in BOOLEAN
  /\ rubric \in [image : {"none", "drawn", "blank"}, card : BOOLEAN]
  /\ \A p \in Procs : proc[p].row \in 0..Len(attempts)
  /\ anomalies \subseteq {"erased", "missed", "raced"}

\* Nobody can sign, nor register the rubric to sign with, whom Didit has not approved and
\* whose card is not stored, even though the tab that restores a rubric asks for CONFIGURED
\* without looking at the identity and every writer of the credential acts on a status it
\* read before.
CredentialIsEarned ==
  credential \in {"SIGNATURE_PENDING", "CONFIGURED"} =>
    verified /\ images /\ \E s \in Sessions : didit[s] = "APPROVED"
EarnedUnlessErased == "erased" \notin anomalies => CredentialIsEarned

\* Every session Didit has opened has an attempt its webhooks will find, also when the
\* answer that named it was lost and an event of another session took the attempt: each
\* attempt is saved before Didit is called and is never deleted, so the sessions without
\* one are never more than the attempts without one.
SessionsHaveAttempts ==
  Cardinality({s \in Sessions : /\ didit[s] # "none"
                                /\ \A i \in DOMAIN attempts : attempts[i].session # s})
    <= Cardinality(Orphans)

\* An approval that has been answered 200 has counted: the user is verified and his card is
\* stored, also when the answer that named the session was lost and its event had to take an
\* attempt without one, when another session took that attempt before, when the session had
\* been given up for expired, and when handlers cross or fail and run again; unless the
\* attempt got its session between the two looks of the event, or the server died over a
\* duplicate it had answered.
ApprovedIsVerified ==
  anomalies \cap {"missed", "raced"} = {} =>
    \A s \in Sessions : proc[<<s, "APPROVED">>].pc = "done" => verified /\ images

\* Nobody is at work and Didit has been answered all it has sent.
Quiet == \A p \in Procs : proc[p].pc \in {"idle", "unsent", "done"}

\* Once all is quiet, who has been approved may go on; start() tells him he is already
\* verified, so he has no other way.
NotStranded ==
  Quiet /\ verified => credential \in {"SIGNATURE_PENDING", "CONFIGURED"}

\* "Identidad aprobada + firma PNG registrada": once all is quiet, a CONFIGURED credential
\* has a rubric to stamp, whatever files the user has deleted and restored.
ConfiguredHasRubric == Quiet /\ credential = "CONFIGURED" => rubric.image = "drawn"
=============================================================================
