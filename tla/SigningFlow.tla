---------------------------- MODULE SigningFlow ----------------------------
(***************************************************************************)
(* The signing phase of ONE document: from the moment it is               *)
(* PENDING_SIGNATURE until it is SIGNED or REJECTED.                       *)
(*                                                                         *)
(* Every HTTP request (or Didit webhook) that signs or rejects is a        *)
(* process.  Between two of its awaits any other request may run, and what *)
(* it read at the start - the row of `documents` and the rows of           *)
(* `collaborators` - is a private copy that it later writes back.          *)
(*                                                                         *)
(*   document       the row of table documents                             *)
(*   collaborators  the SIGNER rows of table collaborators                 *)
(*   bucket         the objects of this document in MinIO                  *)
(*   sheet          which signers' evidence the appended sheet prints      *)
(*   announced      document.collaborator_signed events, per signer        *)
(*   completions    document.signed events                                 *)
(*   pc, kind, who  control state of each request                          *)
(*   memory, rows   the copies of the two tables a request works with      *)
(*                                                                         *)
(* Guest access tokens and verification codes are modelled in              *)
(* GuestSigning; sealing, which never fails a signature, in SealRetry.     *)
(***************************************************************************)
EXTENDS Integers, FiniteSets

CONSTANTS Signers,      \* the SIGNER collaborators of the document
          Order,        \* signingOrder of each of them
          Requests,     \* request slots that may be in flight
          FaultySteps,  \* control points whose I/O may throw (or the process die)
          NoFile        \* an object that is not in its bucket

\* CreateDocumentSignatureFlowUseCase and CreateDocumentUseCase number the
\* signers by their position.
ASSUME SignersAssumption == IsFiniteSet(Signers) /\ Signers # {}
ASSUME OrderAssumption ==
  /\ Order \in [Signers -> Nat]
  /\ \A s, t \in Signers : Order[s] = Order[t] => s = t

VARIABLES isSequential, signatureType, document, collaborators, bucket, sheet,
          announced, completions, pc, kind, who, memory, rows

settings == <<isSequential, signatureType>>
tables   == <<document, collaborators>>
storage  == <<bucket, sheet>>
events   == <<announced, completions>>
local    == <<pc, kind, who, memory, rows>>
vars     == <<settings, tables, storage, events, local>>

SignatureTypes == {"SIMPLE", "FIEL", "BIOMETRIC"}
Statuses       == {"PENDING", "SIGNED", "REJECTED"}
Buckets        == {"SIGNED_DOCUMENTS", "FINALIZED_DOCUMENTS",
                   "PARTIALLY_SIGNED_DOCUMENTS", "REJECTED_DOCUMENTS"}
Stamps         == {"snapshot", "live", "qr", "blank"}

\* How the signer reaches the claim: with the session of his account (also a
\* biometric attempt of a user), through a guest access or public session, as
\* a biometric guest without account, or to reject.
Kinds == {"account", "invited", "biometric_guest", "reject"}

Row == [status   : Statuses, linked : BOOLEAN,
        snapshot : BOOLEAN,  evidence : BOOLEAN]
DocumentRow == [status : {"PENDING_SIGNATURE", "SIGNED", "REJECTED"},
                completedSignersCount : Nat, signedHash : BOOLEAN]
Pdf == [Signers -> Stamps]

ASSUME NoFileAssumption == NoFile \notin Pdf \cup [Signers -> BOOLEAN]

-----------------------------------------------------------------------------
(* Pure helpers of the code. *)

Pending(table) == {s \in Signers : table[s].status = "PENDING"}

\* Mutant: the turn ignores the signing order.
MutTurnOfAnyPending(s, table) == s \in Pending(table)

\* isSignerTurn over the rows the request read.
IsSignerTurn(s, table) ==
  /\ s \in Pending(table)
  /\ isSequential => \A t \in Pending(table) : Order[s] <= Order[t]

\* What resolveStampImage draws for one signer.
StampImage(row) ==
  CASE signatureType = "FIEL"      -> IF row.status = "SIGNED" THEN "qr" ELSE "blank"
    [] signatureType = "BIOMETRIC" -> "blank"
    [] signatureType = "SIMPLE"    -> IF row.snapshot THEN "snapshot" ELSE "live"

StampedOnto(table, shown) ==
  [s \in Signers |-> IF s \in shown THEN StampImage(table[s]) ELSE "blank"]

\* Mutants: the missing signers re-read from the database after the claim, and
\* everybody else whatever his status.
MutRemainingReRead(r) == Pending(collaborators) \ {who[r]}
MutRemainingUnfiltered(r) == Signers \ {who[r]}

\* The signers still missing, from the copy the request holds.
RemainingSigners(r) == Pending(rows[r]) \ {who[r]}

\* resolveDocumentBucket, for the states of this module.
ServedBucket ==
  CASE document.status = "PENDING_SIGNATURE" ->
         IF document.completedSignersCount > 0
         THEN "PARTIALLY_SIGNED_DOCUMENTS" ELSE "CREATED_DOCUMENTS"
    [] document.status = "SIGNED"   -> "FINALIZED_DOCUMENTS"
    [] document.status = "REJECTED" -> "REJECTED_DOCUMENTS"

\* The locals of a handler that is not running.
NoSigner   == CHOOSE s \in Signers : TRUE
NoDocument == [status |-> "PENDING_SIGNATURE", completedSignersCount |-> 0,
               signedHash |-> FALSE]
NoRows     == [s \in Signers |-> [status |-> "PENDING", linked |-> FALSE,
                                  snapshot |-> FALSE, evidence |-> FALSE]]

-----------------------------------------------------------------------------
Init ==
  /\ isSequential \in BOOLEAN
  /\ signatureType \in SignatureTypes
  /\ document = NoDocument
  /\ collaborators \in [Signers -> {row \in Row : /\ row.status = "PENDING"
                                                  /\ ~row.snapshot
                                                  /\ ~row.evidence}]
  /\ bucket = [b \in Buckets |-> NoFile]
  /\ sheet = NoFile
  /\ announced = [s \in Signers |-> 0]
  /\ completions = 0
  /\ pc = [r \in Requests |-> "idle"]
  /\ kind = [r \in Requests |-> "account"]
  /\ who = [r \in Requests |-> NoSigner]
  /\ memory = [r \in Requests |-> NoDocument]
  /\ rows = [r \in Requests |-> NoRows]

\* A request goes on to its next await.
Goto(r, next) == pc' = [pc EXCEPT ![r] = next]

-----------------------------------------------------------------------------
(* Reads and checks, before anything is written. *)

\* documentService.findOne and assertPendingSignature.
ReadDocument(r) ==
  /\ pc[r] = "idle"
  /\ document.status = "PENDING_SIGNATURE"
  /\ \E k \in Kinds, s \in Signers :
       /\ kind' = [kind EXCEPT ![r] = k]
       /\ who'  = [who EXCEPT ![r] = s]
  /\ memory' = [memory EXCEPT ![r] = document]
  /\ Goto(r, "document_read")
  /\ UNCHANGED <<settings, tables, storage, events, rows>>

\* Which rows let this kind of request through resolveParticipant /
\* executeBiometric / executeGuestAdvanced.
MayActAs(k, row) ==
  CASE k \in {"account", "reject"} -> row.linked
    [] k = "invited"         -> /\ signatureType # "BIOMETRIC"
                                /\ signatureType = "SIMPLE" => row.linked
    [] k = "biometric_guest" -> signatureType = "BIOMETRIC" /\ ~row.linked

\* collaboratorRepository.find, then assertCanRespond.
ReadSigners(r) ==
  /\ pc[r] = "document_read"
  /\ MayActAs(kind[r], collaborators[who[r]])
  /\ IsSignerTurn(who[r], collaborators)
  /\ rows' = [rows EXCEPT ![r] = collaborators]
  /\ Goto(r, "checked")
  /\ UNCHANGED <<settings, tables, storage, events, kind, who, memory>>

\* Every early return and every exception before the claim: nothing was
\* written, and the caller may try again.
Refuse(r) ==
  /\ pc[r] \in {"document_read", "checked"}
  /\ Goto(r, "idle")
  /\ kind'   = [kind EXCEPT ![r] = "account"]
  /\ who'    = [who EXCEPT ![r] = NoSigner]
  /\ memory' = [memory EXCEPT ![r] = NoDocument]
  /\ rows'   = [rows EXCEPT ![r] = NoRows]
  /\ UNCHANGED <<settings, tables, storage, events>>

\* linkPendingCollaboratorAccount, from the link endpoint or lazily from
\* findOrLinkMySignerCollaborator.
LinkAccount(s) ==
  /\ collaborators[s].status = "PENDING" /\ ~collaborators[s].linked
  /\ collaborators' = [collaborators EXCEPT ![s].linked = TRUE]
  /\ UNCHANGED <<settings, document, storage, events, local>>

-----------------------------------------------------------------------------
(* Signing: completeSignature. *)

\* What the conditional UPDATE of the claim still requires of the row.
ClaimHolds(r) ==
  /\ collaborators[who[r]].status = "PENDING"
  /\ kind[r] = "invited" =>
       collaborators[who[r]].linked = rows[r][who[r]].linked

ClaimSignature(r) ==
  /\ pc[r] = "checked" /\ kind[r] # "reject"
  /\ ClaimHolds(r)
  /\ collaborators' = [collaborators EXCEPT ![who[r]].status = "SIGNED"]
  /\ rows' = [rows EXCEPT ![r][who[r]].status = "SIGNED",
                          ![r][who[r]].evidence = TRUE]
  /\ Goto(r, "claimed")
  /\ UNCHANGED <<settings, document, storage, events, kind, who, memory>>

\* snapshotSignatureImage and the UPDATE that records it (SIMPLE only).
SnapshotSignature(r) ==
  /\ pc[r] = "claimed"
  /\ IF signatureType = "SIMPLE"
     THEN /\ collaborators' = [collaborators EXCEPT ![who[r]].snapshot = TRUE]
          /\ rows' = [rows EXCEPT ![r][who[r]].snapshot = TRUE]
     ELSE UNCHANGED <<collaborators, rows>>
  /\ memory' = [memory EXCEPT ![r].completedSignersCount = @ + 1]
  /\ Goto(r, IF RemainingSigners(r) = {} THEN "stamping" ELSE "counting")
  /\ UNCHANGED <<settings, document, storage, events, kind, who>>

\* finalizeSignedDocument: stamp every rubric and upload the signed PDF.
StampSigned(r) ==
  /\ pc[r] = "stamping"
  /\ bucket' = [bucket EXCEPT !["SIGNED_DOCUMENTS"] =
                                 StampedOnto(rows[r], Signers)]
  /\ memory' = [memory EXCEPT ![r].signedHash = TRUE]
  /\ Goto(r, "hashing")
  /\ UNCHANGED <<settings, tables, sheet, events, kind, who, rows>>

\* Mutant: the status is written together with the hash.
MutPersistHashAndStatus(r) ==
  /\ pc[r] = "hashing"
  /\ document' = [document EXCEPT !.signedHash = TRUE, !.status = "SIGNED"]
  /\ Goto(r, "attaching")
  /\ UNCHANGED <<settings, collaborators, storage, events, kind, who, memory, rows>>

\* ... persist signed_hash ahead of the sealing,
PersistHash(r) ==
  /\ pc[r] = "hashing"
  /\ document' = [document EXCEPT !.signedHash = TRUE]
  /\ Goto(r, "attaching")
  /\ UNCHANGED <<settings, collaborators, storage, events, kind, who, memory, rows>>

\* ... attachSignaturesSheet: the definitive copy,
AttachSheet(r) ==
  /\ pc[r] = "attaching"
  /\ bucket' = [bucket EXCEPT !["FINALIZED_DOCUMENTS"] = bucket["SIGNED_DOCUMENTS"]]
  /\ sheet' = [s \in Signers |-> rows[r][s].evidence]
  /\ Goto(r, "finishing")
  /\ UNCHANGED <<settings, tables, events, kind, who, memory, rows>>

\* ... and documentRepository.save: the whole row, from memory.
SaveSigned(r) ==
  /\ pc[r] = "finishing"
  /\ document' = [memory[r] EXCEPT !.status = "SIGNED"]
  /\ memory' = [memory EXCEPT ![r] = document']
  /\ Goto(r, "completed")
  /\ UNCHANGED <<settings, collaborators, storage, events, kind, who, rows>>

\* emitSigned, after the completion e-mails and the revocations.
EmitSigned(r) ==
  /\ pc[r] = "completed"
  /\ completions' = completions + 1
  /\ Goto(r, "saving")
  /\ UNCHANGED <<settings, tables, storage, announced, kind, who, memory, rows>>

\* Signers are missing: the UPDATE of completed_signers_count ...
CountSigner(r) ==
  /\ pc[r] = "counting"
  /\ document' = [document EXCEPT !.completedSignersCount =
                                     memory[r].completedSignersCount]
  /\ Goto(r, "previewing")
  /\ UNCHANGED <<settings, collaborators, storage, events, kind, who, memory, rows>>

\* ... and refreshPartiallySignedPreview, which swallows its own failure.
RefreshPreview(r) ==
  /\ pc[r] = "previewing"
  /\ \/ bucket' = [bucket EXCEPT !["PARTIALLY_SIGNED_DOCUMENTS"] =
          StampedOnto(rows[r], {s \in Signers : rows[r][s].status = "SIGNED"})]
     \/ "previewing" \in FaultySteps /\ UNCHANGED bucket
  /\ Goto(r, "saving")
  /\ UNCHANGED <<settings, tables, sheet, events, kind, who, memory, rows>>

\* Mutants: the save cascades to every row in memory, or never happens.
MutSaveAllSigners(r) ==
  /\ pc[r] = "saving"
  /\ collaborators' = rows[r]
  /\ Goto(r, "announcing")
  /\ UNCHANGED <<settings, document, storage, events, kind, who, memory, rows>>
MutSaveNothing(r) ==
  /\ pc[r] = "saving"
  /\ Goto(r, "announcing")
  /\ UNCHANGED <<settings, tables, storage, events, kind, who, memory, rows>>

\* collaboratorRepository.save(myParticipant): the whole row, from memory.
SaveParticipant(r) ==
  /\ pc[r] = "saving"
  /\ collaborators' = [collaborators EXCEPT ![who[r]] = rows[r][who[r]]]
  /\ Goto(r, "announcing")
  /\ UNCHANGED <<settings, document, storage, events, kind, who, memory, rows>>

\* emitCollaboratorSigned.
EmitCollaboratorSigned(r) ==
  /\ pc[r] = "announcing"
  /\ announced' = [announced EXCEPT ![who[r]] = @ + 1]
  /\ Goto(r, "done")
  /\ UNCHANGED <<settings, tables, storage, completions, kind, who, memory, rows>>

-----------------------------------------------------------------------------
(* Rejecting: RejectDocumentUseCase. *)

ClaimRejection(r) ==
  /\ pc[r] = "checked" /\ kind[r] = "reject"
  /\ collaborators[who[r]].status = "PENDING"
  /\ collaborators' = [collaborators EXCEPT ![who[r]].status = "REJECTED"]
  /\ rows' = [rows EXCEPT ![r][who[r]].status = "REJECTED"]
  /\ Goto(r, "watermarking")
  /\ UNCHANGED <<settings, document, storage, events, kind, who, memory>>

StampRejected(r) ==
  /\ pc[r] = "watermarking"
  /\ bucket' = [bucket EXCEPT !["REJECTED_DOCUMENTS"] = StampedOnto(rows[r], {})]
  /\ Goto(r, "rejecting")
  /\ UNCHANGED <<settings, tables, sheet, events, kind, who, memory, rows>>

SaveRejected(r) ==
  /\ pc[r] = "rejecting"
  /\ document' = [memory[r] EXCEPT !.status = "REJECTED"]
  /\ Goto(r, "rejected")
  /\ UNCHANGED <<settings, collaborators, storage, events, kind, who, memory, rows>>

-----------------------------------------------------------------------------
\* After the claim an exception (MinIO, the stamping, the database) or the
\* death of the process ends the request where it is.  Nothing is undone.
AfterClaim == {"claimed", "stamping", "hashing", "attaching", "finishing",
               "completed", "counting", "previewing", "saving", "announcing",
               "watermarking", "rejecting"}
Ended      == {"done", "rejected", "aborted"}

Abort(r) ==
  /\ pc[r] \in FaultySteps \cap AfterClaim
  /\ Goto(r, "aborted")
  /\ UNCHANGED <<settings, tables, storage, events, kind, who, memory, rows>>

Finalize(r) == \/ StampSigned(r) \/ PersistHash(r) \/ AttachSheet(r)
               \/ SaveSigned(r)  \/ EmitSigned(r)

Advance(r) == \/ SnapshotSignature(r) \/ Finalize(r)
              \/ CountSigner(r) \/ RefreshPreview(r)
              \/ SaveParticipant(r) \/ EmitCollaboratorSigned(r)
              \/ StampRejected(r) \/ SaveRejected(r)

Claim(r) == ClaimSignature(r) \/ ClaimRejection(r)

Next == \/ \E r \in Requests : \/ ReadDocument(r) \/ ReadSigners(r) \/ Refuse(r)
                               \/ Claim(r) \/ Advance(r) \/ Abort(r)
        \/ \E s \in Signers : LinkAccount(s)

Spec == Init /\ [][Next]_vars

\* A request that has claimed runs on: Node keeps executing its handler.
\* Nothing makes a person send a request, so reads and claims are not fair.
FairSpec == Spec /\ \A r \in Requests : WF_vars(Advance(r))

-----------------------------------------------------------------------------
TypeOK ==
  /\ isSequential \in BOOLEAN /\ signatureType \in SignatureTypes
  /\ document \in DocumentRow
  /\ collaborators \in [Signers -> Row]
  /\ bucket \in [Buckets -> Pdf \cup {NoFile}]
  /\ sheet \in [Signers -> BOOLEAN] \cup {NoFile}
  /\ announced \in [Signers -> Nat] /\ completions \in Nat
  /\ pc \in [Requests -> {"idle", "document_read", "checked"} \cup AfterClaim \cup Ended]
  /\ kind \in [Requests -> Kinds] /\ who \in [Requests -> Signers]
  /\ memory \in [Requests -> DocumentRow]
  /\ rows \in [Requests -> [Signers -> Row]]

\* A request that won the claim of its signer, whatever became of it.
HasClaimed(r) == pc[r] \in AfterClaim \cup Ended

\* Two requests never both win the claim of one signer: a double click, two
\* tabs, or a signature racing a rejection (README, "Sin proteccion de
\* carrera"; sign-document 957-971, reject-document 109-115).
OneClaimPerSigner ==
  \A r1, r2 \in Requests :
    HasClaimed(r1) /\ HasClaimed(r2) /\ who[r1] = who[r2] => r1 = r2

\* In a sequential document nobody answers while an earlier signer has not,
\* although the turn is decided on rows that may be stale when the claim is
\* written (isSignerTurn, assertCanRespond).
AnsweredInOrder ==
  isSequential =>
    \A s, t \in Signers :
      Order[s] < Order[t] /\ collaborators[t].status # "PENDING"
        => collaborators[s].status # "PENDING"

\* The request whose copy of the rows showed nobody missing.
IsFinalizer(r) ==
  /\ kind[r] # "reject" /\ HasClaimed(r)
  /\ RemainingSigners(r) = {}

\* At most one request ever finalizes the document, although each decides on
\* its own stale copy: the signed PDF is never stamped twice and
\* document.signed is published at most once (completeSignature, 1029-1051).
OneFinalizer ==
  /\ \A r1, r2 \in Requests : IsFinalizer(r1) /\ IsFinalizer(r2) => r1 = r2
  /\ completions <= 1

\* A document that is SIGNED has its stamped PDF, its definitive copy made
\* from that PDF, its hash, and no signer left to answer ("en vez de dejar un
\* documento firmado que el usuario no podria ver", finalizeSignedDocument).
SignedIsComplete ==
  document.status = "SIGNED" =>
    /\ document.signedHash
    /\ bucket["SIGNED_DOCUMENTS"] # NoFile
    /\ bucket["FINALIZED_DOCUMENTS"] = bucket["SIGNED_DOCUMENTS"]
    /\ sheet # NoFile
    /\ Pending(collaborators) = {}

\* document.collaborator_signed feeds both ledgers, so it is published at most
\* once per signer and only when the signature, its rubric snapshot and its
\* evidence are in the database (comment at 1073-1080 of sign-document).
AnnouncedIsRecorded ==
  \A s \in Signers :
    /\ announced[s] <= 1
    /\ announced[s] = 1 => /\ collaborators[s].status = "SIGNED"
                           /\ collaborators[s].evidence
                           /\ signatureType = "SIMPLE" => collaborators[s].snapshot

\* completed_signers_count is written from a stale copy and may lag, but never
\* claims a signature that does not exist.
CountNeverAhead ==
  document.completedSignersCount
    <= Cardinality({s \in Signers : collaborators[s].status = "SIGNED"})

\* An answer is final: no later write - the stale save of a participant, a
\* second claim, a link - changes SIGNED or REJECTED.
AnswersAreFinal ==
  [][\A s \in Signers : collaborators[s].status # "PENDING"
        => collaborators'[s].status = collaborators[s].status]_vars

\* The evidence of a signature, once in the database, is never lost to the
\* whole-row save of another copy.
EvidenceIsKept ==
  [][\A s \in Signers :
        /\ collaborators[s].evidence => collaborators'[s].evidence
        /\ collaborators[s].snapshot => collaborators'[s].snapshot]_vars

\* Once everybody has signed a sequential document, the request of the last signer
\* finalizes it and it becomes SIGNED, unless a request failed or died half-way.
SequentialCompletes ==
  (isSequential /\ \A s \in Signers : collaborators[s].status = "SIGNED")
    ~> (document.status = "SIGNED" \/ \E r \in Requests : pc[r] = "aborted")

\* The requests, their stale copies and their I/O implement the contract: a
\* signer's answer is his row, and the document is closed when its definitive
\* copy is stored.
Contract == INSTANCE SignatureContract
              WITH answer <- [s \in Signers |-> collaborators[s].status],
                   closed <- (sheet # NoFile)
ImplementsContract == Contract!Spec

-----------------------------------------------------------------------------
(* Why the races are harmless: the inductive invariant of the phase. *)

\* What a request that has read the signers holds is old, never wrong: an
\* answer it knows is the answer in the database.
CopiesAreOld ==
  \A r \in Requests : pc[r] = "checked" \/ HasClaimed(r) =>
    \A s \in Signers : rows[r][s].status # "PENDING"
                          => collaborators[s].status = rows[r][s].status

\* The turn was decided on that copy, and the claim was written in it.
CopyJustifiesStep ==
  \A r \in Requests :
    /\ pc[r] = "checked" => IsSignerTurn(who[r], rows[r])
    /\ HasClaimed(r) => rows[r][who[r]].status # "PENDING"

\* Of two requests that claimed, one did not see the other's answer: so at
\* most one of them can find that nobody is missing.
CopiesAreSeparate ==
  \A r1, r2 \in Requests :
    HasClaimed(r1) /\ HasClaimed(r2) /\ r1 # r2 =>
      \/ rows[r1][who[r2]].status = "PENDING"
      \/ rows[r2][who[r1]].status = "PENDING"

FinalizeSteps == {"stamping", "hashing", "attaching", "finishing", "completed"}
AfterEmit     == {"saving", "announcing", "done", "aborted"}

\* Only a finalizer walks the steps of the finalization, and it publishes
\* document.signed once.
FinalizersOnly ==
  /\ \A r \in Requests : /\ pc[r] = "claimed" => kind[r] # "reject"
                         /\ pc[r] \in FinalizeSteps => IsFinalizer(r)
  /\ completions # 0 =>
       /\ completions = 1
       /\ \E r \in Requests : IsFinalizer(r) /\ pc[r] \in AfterEmit

RaceInvariant ==
  /\ OneClaimPerSigner /\ CopiesAreOld /\ CopyJustifiesStep
  /\ CopiesAreSeparate /\ AnsweredInOrder /\ FinalizersOnly

-----------------------------------------------------------------------------
(* What the documentation says and the code does not keep. *)

\* README 1.3: the document is finalized when its last pending signer signs.
LastSignatureCompletes ==
  (\A s \in Signers : collaborators[s].status = "SIGNED")
    ~> (document.status = "SIGNED")

\* README 1.2 step 4: if the finalization fails nothing stays marked as signed
\* and the operation can be retried.
FailedSignatureIsUndone ==
  \A r \in Requests :
    pc[r] = "aborted" /\ kind[r] # "reject" /\ document.status = "PENDING_SIGNATURE"
      => collaborators[who[r]].status = "PENDING"

\* Comment in RejectDocumentUseCase: if the stamping or the upload fail,
\* neither the collaborator nor the document stay marked.
FailedRejectionIsUndone ==
  \A r \in Requests :
    pc[r] = "aborted" /\ kind[r] = "reject"
      => collaborators[who[r]].status = "PENDING"

\* README 1.2 step 3: a signer acts only when all the earlier ones have signed.
EarlierSignersSigned ==
  isSequential =>
    \A s, t \in Signers :
      Order[s] < Order[t] /\ collaborators[t].status # "PENDING"
        => collaborators[s].status = "SIGNED"

\* README 1.2 step 5: a rejection closes the signing flow.
RejectionCloses ==
  [][document.status = "REJECTED" => document'.status = "REJECTED"]_vars

\* README, "Firma corrupta silenciosa": the final PDF is stamped with the
\* snapshots of those who signed and never with the live rubric of a profile.
SnapshotIsStamped ==
  bucket["SIGNED_DOCUMENTS"] # NoFile =>
    \A s \in Signers : collaborators[s].status = "SIGNED"
                          => bucket["SIGNED_DOCUMENTS"][s] # "live"

\* refreshPartiallySignedPreview: if it fails the viewer keeps showing the
\* previous preview, or the original.
ServedFileExists ==
  (\A r \in Requests : pc[r] \notin {"previewing"})
    => (ServedBucket \in Buckets => bucket[ServedBucket] # NoFile)

\* linkPendingCollaboratorAccount: a linked invitation belongs to the account
\* from then on.
LinkIsKept ==
  [][\A s \in Signers : collaborators[s].linked => collaborators'[s].linked]_vars
=============================================================================
