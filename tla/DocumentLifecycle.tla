------------------------- MODULE DocumentLifecycle -------------------------
(***************************************************************************)
(* The status of ONE document from the moment it exists until it is        *)
(* CANCELLED: drafts, approval by a reviewer, the signing phase seen from  *)
(* outside, and cancellation.                                              *)
(*                                                                         *)
(* The use cases that move the status follow two patterns.  Approving and  *)
(* confirming a cancellation claim the row with a conditional UPDATE;      *)
(* submitting, requesting a cancellation, finalizing and rejecting check   *)
(* a status they read earlier and then save the whole row, whatever it     *)
(* has become in the meantime (a row that was deleted is inserted again).  *)
(*                                                                         *)
(*   status      column status of the row, or "deleted"                    *)
(*   reviewer    status of the REVIEWER who has to approve it, "none" if   *)
(*               nobody has (those a draft may carry block nothing)        *)
(*   answer      status of each SIGNER collaborator                        *)
(*   original    the object of created_documents is there                  *)
(*   cancelled   the watermarked copy of cancelled_documents is there      *)
(*   decisions   document.approved / approval_rejected rows of the outbox  *)
(*   sent        document.sent_to_sign events published                    *)
(*   withdrawn   document.cancelled events published                       *)
(*   pc, waiting control of each request, and the signers a signing        *)
(*               request read as PENDING                                   *)
(***************************************************************************)
EXTENDS Integers, FiniteSets

CONSTANTS Signers,           \* one winning answer each (SigningFlow!OneClaimPerSigner)
          CreatorRequests,   \* requests of the creator: submit, update, delete, cancel
          ReviewerRequests,  \* requests of the reviewer
          ConfirmerRequests, \* requests of signers who confirm the cancellation
          Mishaps            \* "storage": MinIO may fail; "crash": a request may die

ASSUME SignersAssumption == Signers # {}
ASSUME RolesAssumption ==
  /\ Signers \cap (CreatorRequests \cup ReviewerRequests \cup ConfirmerRequests) = {}
  /\ CreatorRequests \cap (ReviewerRequests \cup ConfirmerRequests) = {}
  /\ ReviewerRequests \cap ConfirmerRequests = {}

VARIABLES status, reviewer, answer, original, cancelled,
          decisions, sent, withdrawn, pc, waiting

people   == <<reviewer, answer>>
objects  == <<original, cancelled>>
events   == <<decisions, sent, withdrawn>>
DLvars   == <<status, people, objects, events, pc, waiting>>

Requests == Signers \cup CreatorRequests \cup ReviewerRequests \cup ConfirmerRequests

Statuses == {"CREATED", "PENDING_APPROVAL", "PENDING_SIGNATURE", "SIGNED",
             "REJECTED", "CANCELLATION_PENDING", "CANCELLED"}
Decisions == {"APPROVED", "REJECTED"}

\* CreateDocumentUseCase leaves a draft; CreateDocumentSignatureFlowUseCase
\* opens the document to the reviewer, or to the signers, who are told at once.
DLInit ==
  /\ \/ status = "CREATED" /\ reviewer = "none" /\ sent = 0
     \/ status = "PENDING_SIGNATURE" /\ reviewer = "none" /\ sent = 1
     \/ status = "PENDING_APPROVAL" /\ reviewer = "PENDING" /\ sent = 0
  /\ answer = [s \in Signers |-> "PENDING"]
  /\ original = TRUE /\ cancelled = FALSE
  /\ decisions = [d \in Decisions |-> 0] /\ withdrawn = 0
  /\ pc = [r \in Requests |-> "idle"]
  /\ waiting = [s \in Signers |-> {}]

Goto(r, next) == pc' = [pc EXCEPT ![r] = next]

InFlight(r) == pc[r] \notin {"idle", "done"}

-----------------------------------------------------------------------------
(* The creator. *)

\* findOne and the check of the status, for each operation on a draft ...
OpenDraft(r) ==
  /\ pc[r] = "idle" /\ status = "CREATED"
  /\ \E next \in {"submitting", "replacing", "deleting"} : Goto(r, next)
  /\ UNCHANGED <<status, people, objects, events, waiting>>

\* Mutant: any document open to the signers may be cancelled.
MutOpenSigned(r) ==
  /\ pc[r] = "idle" /\ status \in {"PENDING_SIGNATURE", "SIGNED"}
  /\ Goto(r, "cancelling")
  /\ UNCHANGED <<status, people, objects, events, waiting>>

\* ... and for SubmitDocumentForCancellationUseCase.
OpenSigned(r) ==
  /\ pc[r] = "idle" /\ status = "SIGNED"
  /\ Goto(r, "cancelling")
  /\ UNCHANGED <<status, people, objects, events, waiting>>

\* SubmitDocumentForAuthorizationUseCase: save the row, then emitSentToSign.
SaveSubmitted(r) ==
  /\ pc[r] = "submitting"
  /\ status' = "PENDING_SIGNATURE"
  /\ sent' = sent + 1
  /\ Goto(r, "done")
  /\ UNCHANGED <<people, objects, decisions, withdrawn, waiting>>

\* UpdateDocumentUseCase: replaceFile stats and removes the object, ...
RemoveOriginal(r) ==
  /\ pc[r] = "replacing"
  /\ original' = FALSE
  /\ Goto(r, IF original THEN "putting" ELSE "done")
  /\ UNCHANGED <<status, people, cancelled, events, waiting>>

\* ... then puts the new one.
PutOriginal(r) ==
  /\ pc[r] = "putting"
  /\ \/ original' = TRUE
     \/ "storage" \in Mishaps /\ UNCHANGED original
  /\ Goto(r, "done")
  /\ UNCHANGED <<status, people, cancelled, events, waiting>>

\* DeleteDocumentUseCase: the object first (an absent one is an error), ...
DeleteFile(r) ==
  /\ pc[r] = "deleting"
  /\ original' = FALSE
  /\ Goto(r, IF original THEN "erasing" ELSE "done")
  /\ UNCHANGED <<status, people, cancelled, events, waiting>>

\* ... then the row.
DeleteRow(r) ==
  /\ pc[r] = "erasing"
  /\ status' = "deleted"
  /\ Goto(r, "done")
  /\ UNCHANGED <<people, objects, events, waiting>>

\* SubmitDocumentForCancellationUseCase: save the row.
SaveCancellation(r) ==
  /\ pc[r] = "cancelling"
  /\ status' = "CANCELLATION_PENDING"
  /\ Goto(r, "done")
  /\ UNCHANGED <<people, objects, events, waiting>>

Creator(r) == \/ OpenDraft(r) \/ OpenSigned(r) \/ SaveSubmitted(r)
              \/ RemoveOriginal(r) \/ PutOriginal(r)
              \/ DeleteFile(r) \/ DeleteRow(r) \/ SaveCancellation(r)

-----------------------------------------------------------------------------
(* The reviewer. *)

\* loadDecidable: the document, then its reviewer.
LoadDocument(r) ==
  /\ pc[r] = "idle" /\ reviewer # "none" /\ status = "PENDING_APPROVAL"
  /\ Goto(r, "loading")
  /\ UNCHANGED <<status, people, objects, events, waiting>>

LoadReviewer(r) ==
  /\ pc[r] = "loading"
  /\ \E next \in IF reviewer = "PENDING" THEN Decisions ELSE {"done"} : Goto(r, next)
  /\ UNCHANGED <<status, people, objects, events, waiting>>

\* Mutant: the decision is written without claiming the reviewer.
MutDecideAgain(r) ==
  /\ pc[r] \in Decisions
  /\ reviewer' = pc[r]
  /\ status' = IF status # "PENDING_APPROVAL" THEN status
               ELSE IF pc[r] = "APPROVED" THEN "PENDING_SIGNATURE" ELSE "REJECTED"
  /\ decisions' = [decisions EXCEPT ![pc[r]] = @ + 1]
  /\ Goto(r, IF pc[r] = "APPROVED" THEN "sending" ELSE "done")
  /\ UNCHANGED <<answer, objects, sent, withdrawn, waiting>>

\* One transaction: claim the reviewer, move the document if it is still
\* PENDING_APPROVAL, and enqueue the event.  A lost claim rolls it back.
Decide(r) ==
  /\ pc[r] \in Decisions
  /\ IF reviewer = "PENDING"
     THEN /\ reviewer' = pc[r]
          /\ status' = IF status # "PENDING_APPROVAL" THEN status
                       ELSE IF pc[r] = "APPROVED" THEN "PENDING_SIGNATURE"
                                                  ELSE "REJECTED"
          /\ decisions' = [decisions EXCEPT ![pc[r]] = @ + 1]
          /\ Goto(r, IF pc[r] = "APPROVED" THEN "sending" ELSE "done")
     ELSE /\ Goto(r, "done")
          /\ UNCHANGED <<status, reviewer, decisions>>
  /\ UNCHANGED <<answer, objects, sent, withdrawn, waiting>>

\* ApproveDocumentUseCase: after flushing the outbox, emitSentToSign.
SendToSign(r) ==
  /\ pc[r] = "sending"
  /\ sent' = sent + 1
  /\ Goto(r, "done")
  /\ UNCHANGED <<status, people, objects, decisions, withdrawn, waiting>>

Reviewer(r) == LoadDocument(r) \/ LoadReviewer(r) \/ Decide(r) \/ SendToSign(r)

-----------------------------------------------------------------------------
(* The signers: SigningFlow reduced to who answers and who closes. *)

\* Mutant: signing checks only that the document exists.
MutReadAnyStatus(s) ==
  /\ pc[s] = "idle" /\ status \in {"PENDING_APPROVAL", "PENDING_SIGNATURE"}
  /\ waiting' = [waiting EXCEPT ![s] = {t \in Signers : answer[t] = "PENDING"} \ {s}]
  /\ Goto(s, "answering")
  /\ UNCHANGED <<status, people, objects, events>>

\* assertPendingSignature, and the copy of the rows of the signers.
ReadDocument(s) ==
  /\ pc[s] = "idle" /\ status = "PENDING_SIGNATURE"
  /\ waiting' = [waiting EXCEPT ![s] = {t \in Signers : answer[t] = "PENDING"} \ {s}]
  /\ Goto(s, "answering")
  /\ UNCHANGED <<status, people, objects, events>>

\* The claim; the signer whose copy shows nobody missing finalizes.
Claim(s) ==
  /\ pc[s] = "answering"
  /\ \/ /\ answer' = [answer EXCEPT ![s] = "SIGNED"]
        /\ Goto(s, IF waiting[s] = {} THEN "finalizing" ELSE "done")
     \/ /\ answer' = [answer EXCEPT ![s] = "REJECTED"]
        /\ Goto(s, "rejecting")
  /\ UNCHANGED <<status, reviewer, objects, events, waiting>>

\* finalizeSignedDocument and RejectDocumentUseCase end saving the row.
SaveSigned(s) ==
  /\ pc[s] = "finalizing"
  /\ status' = "SIGNED"
  /\ Goto(s, "done")
  /\ UNCHANGED <<people, objects, events, waiting>>

SaveRejected(s) ==
  /\ pc[s] = "rejecting"
  /\ status' = "REJECTED"
  /\ Goto(s, "done")
  /\ UNCHANGED <<people, objects, events, waiting>>

Signer(s) == ReadDocument(s) \/ Claim(s) \/ SaveSigned(s) \/ SaveRejected(s)

-----------------------------------------------------------------------------
(* ConfirmDocumentCancellationUseCase. *)

ReadCancellation(r) ==
  /\ pc[r] = "idle" /\ status = "CANCELLATION_PENDING"
  /\ Goto(r, "confirming")
  /\ UNCHANGED <<status, people, objects, events, waiting>>

\* UPDATE ... WHERE status = CANCELLATION_PENDING.
ClaimCancellation(r) ==
  /\ pc[r] = "confirming"
  /\ IF status = "CANCELLATION_PENDING"
     THEN status' = "CANCELLED" /\ Goto(r, "watermarking")
     ELSE UNCHANGED status /\ Goto(r, "done")
  /\ UNCHANGED <<people, objects, events, waiting>>

\* stampCancelledWatermark and uploadObject.
UploadCancelled(r) ==
  /\ pc[r] = "watermarking"
  /\ \/ cancelled' = TRUE /\ Goto(r, "withdrawing")
     \/ "storage" \in Mishaps /\ UNCHANGED cancelled /\ Goto(r, "done")
  /\ UNCHANGED <<status, people, original, events, waiting>>

\* emitCancelled and the e-mails to every collaborator.
EmitCancelled(r) ==
  /\ pc[r] = "withdrawing"
  /\ withdrawn' = withdrawn + 1
  /\ Goto(r, "done")
  /\ UNCHANGED <<status, people, objects, decisions, sent, waiting>>

Confirmer(r) == \/ ReadCancellation(r) \/ ClaimCancellation(r)
                \/ UploadCancelled(r) \/ EmitCancelled(r)

-----------------------------------------------------------------------------
\* The process dies, or an await throws: the request ends where it is.
Abort(r) ==
  /\ "crash" \in Mishaps /\ InFlight(r)
  /\ Goto(r, "done")
  /\ UNCHANGED <<status, people, objects, events, waiting>>

DLNext == \/ \E r \in CreatorRequests : Creator(r)
          \/ \E r \in ReviewerRequests : Reviewer(r)
          \/ \E s \in Signers : Signer(s)
          \/ \E r \in ConfirmerRequests : Confirmer(r)
          \/ \E r \in Requests : Abort(r)

DLSpec == DLInit /\ [][DLNext]_DLvars

-----------------------------------------------------------------------------
Steps == {"idle", "done", "submitting", "replacing", "putting", "deleting",
          "erasing", "cancelling", "loading", "APPROVED", "REJECTED", "sending",
          "answering", "finalizing", "rejecting", "confirming", "watermarking",
          "withdrawing"}

DLTypeOK ==
  /\ status \in Statuses \cup {"deleted"}
  /\ reviewer \in {"none", "PENDING"} \cup Decisions
  /\ answer \in [Signers -> {"PENDING", "SIGNED", "REJECTED"}]
  /\ original \in BOOLEAN /\ cancelled \in BOOLEAN
  /\ decisions \in [Decisions -> Nat] /\ sent \in Nat /\ withdrawn \in Nat
  /\ pc \in [Requests -> Steps] /\ waiting \in [Signers -> SUBSET Signers]

\* A document that requires approval is never signed, nor even read by a
\* request that may sign it, before its reviewer approved it, and one the
\* reviewer turned down stays REJECTED for ever (approve-document 75-80).
ApprovalGate ==
  /\ reviewer = "PENDING" => /\ status = "PENDING_APPROVAL"
                             /\ \A s \in Signers : pc[s] = "idle"
  /\ reviewer = "REJECTED" => /\ status = "REJECTED"
                              /\ \A s \in Signers : answer[s] = "PENDING"

\* However many times the reviewer clicks, one decision is registered, it is
\* the reviewer's, and the document no longer waits (approve-document 82-96).
OneDecision ==
  /\ decisions = [d \in Decisions |-> IF reviewer = d THEN 1 ELSE 0]
  /\ status = "PENDING_APPROVAL" => reviewer = "PENDING"

\* No document is SIGNED, nor its cancellation asked for or confirmed, while a signer has not
\* answered: not even where requests of the creator save over a status they read long
\* before, and signers finalize by copies of each other's rows (sign-document 1029).
EveryoneHasAnswered ==
  status \in {"SIGNED", "CANCELLATION_PENDING", "CANCELLED"} =>
    \A s \in Signers : answer[s] # "PENDING"

\* Whoever hears that the document was cancelled finds the copy that says so
\* (confirm-document-cancellation 106-142).
AnnouncedHasCopy == withdrawn > 0 => cancelled

-----------------------------------------------------------------------------
(* What the documentation says and the code does not keep: the first four when requests   *)
(* of the creator overlap, the last when MinIO fails.                                     *)

\* The cancellation is confirmed once: one copy, one event, one e-mail to each
\* ("sin este UPDATE condicionado, ambos estamparian", confirm 80-83).
CancelledOnce == withdrawn <= 1

\* document.sent_to_sign means "the document entered signature" and is never
\* repeated, whichever of the three paths took it there (approve 134-139).
SentOnce == sent <= 1

\* A document that left the signing phase never goes back to it
\* ("El flujo de firma queda cerrado", README 168).
ClosedStaysClosed ==
  [][(status \in {"SIGNED", "REJECTED", "CANCELLATION_PENDING", "CANCELLED"})
       => (status' \notin {"CREATED", "PENDING_APPROVAL", "PENDING_SIGNATURE"})]_status

\* Only a draft is submitted, deleted or given another file (README 159, 371, 372).
DraftsOnly ==
  [][(original' # original \/ \E r \in CreatorRequests : SaveSubmitted(r) \/ DeleteRow(r))
       => status = "CREATED"]_DLvars

\* Once nobody is confirming, a CANCELLED document has its copy (README 172).
CancelledHasCopy ==
  status = "CANCELLED" /\ (\A r \in ConfirmerRequests : ~InFlight(r)) => cancelled
=============================================================================
