# A verification of signature-server

TLA+ models of the parts of signature-server (NestJS, PostgreSQL, Redis, MinIO, Kafka,
SendGrid, Stripe, Didit) in which several requests, a crash or a lost message can spoil
what each handler does well by itself; TLC configurations that check them on small
instances; and TLAPS proofs of what matters most for every size. Paths below
are relative to the repository (`src/` in the manifest is its root).

## 1. The system

The server keeps a document from draft to signature, rejection or cancellation, and
around it the people who may sign it, their identity, and what the organization pays.
Every HTTP request is an asynchronous Node handler: between two of its awaits any
other request, Kafka delivery or provider webhook may run, in this process or in
another replica. State lives in PostgreSQL (TypeORM), the PDFs in MinIO buckets,
short-lived keys in Redis, and events reach consumers through Kafka. There is no
scheduler: what a request leaves half done stays so until another request trips over it.

| Component | State | Operations | Talks to | What is hard | Correct when |
|---|---|---|---|---|---|
| signing and rejection (`document/applications/sign-document*`, `reject-document*`, `document.service`) | rows of `documents` and `collaborators`; buckets signed, finalized, partially signed, rejected | sign with account, e.firma, biometrics or as a guest; reject; finalize (stamp, hash, sheet, save); refresh the preview; link an account | MinIO, SAT, Kafka, guest accesses | handlers decide on rows read earlier and save whole rows; I/O between the writes | one answer per signer, in turn; one finalization; SIGNED has all its files; answers and evidence are never lost |
| sealing (`document/seal`, `get-public-document`) | `advanced_signature` of each signer, `sealing_pending_at`, `document_seals` | seal at the end of the signature; mark; retry from the public view | SAT (OCSP), Seal Service | the retry is done by visitors that coincide, with stale rows; services fail | the seal only covers proven signatures; a document is sealed or marked, and in the end sealed |
| lifecycle (`submit-*`, `approve-*`, `update-*`, `delete-*`, `confirm-*` use cases) | `documents.status`, reviewer, buckets created and cancelled | create, update, delete, submit, approve or refuse, request and confirm a cancellation | MinIO, outbox, Kafka, mail | some transitions are conditional UPDATEs, others save over whatever the row has become | phases in order, approval before signing, one decision, one cancellation |
| integration API (`document/integration`) and credits (`billing/credits`) | `integration_idempotency_keys`, `credit_lots`, `document_credit_consumptions` | reserve a key, create the document, spend a credit, complete the key, replay, release | lifecycle, billing | leases that expire under a creation still running; the last credit listed by two | a key creates one document; an answer is a committed document; credits and documents balance |
| guest accesses, codes and link (`guest-signing-access.service`, `verification-code.service`, `link-document-collaborator`, `guest-advanced-signature`) | `guest_signing_accesses`, `verification_codes`, the collaborator | send a code, verify it for an access, sign with it, link the account, revoke | signing | READ COMMITTED transactions, row locks in different orders, expiry | an access is spent exactly by a signature; evidence agrees with the account; one open access, paid by its own code |
| public-signing, signing-invitation | `signing_invitations`, `signing_launch_tokens`, public sessions, Idempotency-Keys in Redis | issue, deliver, renew, launch, open a link, request and verify a code, sign once per key | signing, guest accesses, mail | issues without transaction, reservations that lapse, deletions of keys | one open link; one run per key; an answer given stays |
| biometric-signature | `biometric_signature_attempts` | open a session, take it up again, close it, receive its events, sign | Didit, webhooks, signing | an approval delivered twice at once; clicks while Didit is called; a handler that dies between approval and signature | who signed was approved; who was approved signs; what ended stays so |
| identity-verification and the rubric (`signature`) | `identity_verifications`, `users.signing_credential_status`, `signatures` | start a session, apply its events, store the images, upload and delete the rubric | Didit, MinIO | unconditional writes of a status read before; lost answers of Didit; events out of order | nobody signs unapproved; no session without attempt; an approval counts |
| webhooks, payments, purchase of credits | `webhook_events`, `checkout_orders`, `credit_lots` | register an event, run its domain, mark it, answer; issue a lot | Stripe, Didit | deliveries repeated and overlapping, deaths between two writes | each payment has its effect once; PROCESSED means applied |
| subscriptions (`billing/subscriptions`) | `billing_profiles`, lots, history, orders | five events of Stripe, cancel, resume, bill by hand | Stripe | events in any order; rows read before a call to Stripe | one lot per period; the profile agrees with Stripe; an order finds its lot |
| outbox, idempotency, Kafka consumers (`event`, `kafka`) | `events`, `processed_events`, the topics | enqueue in the transaction, flush, publish directly, claim a mark, mail, release, audit | Kafka, SendGrid, audit chain | at-least-once delivery, overlapping flushes, failures at each step | nothing is skipped, nobody is told twice, everybody is told |
| audit-chain | append-only ledger rows linked by hash | append under an advisory lock | Kafka consumer | concurrent appends | linear chain |
| capture sessions (`signature`) | QR sessions with expiry | open, claim, complete, expire | rubric | expiry racing completion | one use, no result lost |
| account, platform-provisioning, api-key, auth, authorization, roles, permissions, directory, user | rows | CRUD in one transaction each | - | little | - |
| audit, common, health, migrations, certificate parsing | - | I/O, formatting, set-up | - | - | - |

`PROJECT.json` lists each of them with its status, and under `hazards` the places of
the code where the "hard" column bites, each with the properties that would
notice.

## 2. The modules

| Module | Models | Run by | Proofs |
|---|---|---|---|
| `SigningFlow` | the signing phase of one document | `signing_flow` | `SigningFlow_proofs` |
| `SignatureContract` | what the signing phase promises, abstractly | (implemented by SigningFlow) | in `SigningFlow_proofs` |
| `SealRetry` | NOM-151 sealing and its retry | `seal_retry` | `SealRetry_proofs` |
| `DocumentLifecycle` | the status of one document from draft to cancellation | `Lifecycle` | in `EventDelivery_proofs` |
| `DocumentCreation` | a creation with its Idempotency-Key and its credit | `creation` | `DocumentCreation_proofs` |
| `GuestSigning` | the accesses, codes and transactions of one invited signer | `Guest` | `GuestSigning_proofs` |
| `PublicSigning` | the invitations, launches, session and keyed signature of one signer without account | `public_signing` | `PublicSigning_proofs` |
| `BiometricSignature` | the attempts of one signer and their sessions in Didit | `biometric` | in `SealRetry_proofs` |
| `IdentityVerification` | the identity of one user and his credential to sign | `identity` | `IdentityVerification_proofs` |
| `CreditPurchase` | orders, payments and their webhooks | `purchase` | `CreditPurchase_proofs` |
| `SubscriptionBilling` | the subscriptions of one billing profile | `subscription` | in `EventDelivery_proofs` |
| `OnceOnly` | what an idempotency key promises, abstractly | (implemented by DocumentCreation and CreditPurchase) | in their proofs |
| `EventDelivery` | outbox, Kafka, idempotent consumers | `Delivery`, `DeliveryLiveness` | `EventDelivery_proofs` |

A proof module may hold the proofs of several components that share no name, each in
a section of its own: `EventDelivery_proofs` also those of DocumentLifecycle and
SubscriptionBilling, `SealRetry_proofs` also those of BiometricSignature. The
specifications of the guests are named `DLSpec`, `SBSpec` and `BSSpec` for that.

They are separate state machines because the code couples them through few, atomic
facts, and each takes the others' result as one: DocumentLifecycle gives each signer
one winning answer, which is `SigningFlow!OneClaimPerSigner`; SigningFlow lets an
"invited" request reach the claim without its access, which is GuestSigning's subject;
PublicSigning takes the transactions of an access as GuestSigning shows them, atomic;
BiometricSignature ends in the claim and takes the rest of `completeSignature` as one
step, which is SigningFlow's; IdentityVerification and SubscriptionBilling have the
registration of a webhook as one step, and the race of the insertion, which
CreditPurchase and BiometricSignature go through statement by statement, as one of the
outcomes of a handler that dies; and
SealRetry starts where SigningFlow's finalizer seals, a step whose failures never
stop a signature. Two pairs of abstract and detailed specification are checked and
proved: SigningFlow implements SignatureContract, and DocumentCreation and
CreditPurchase both implement OnceOnly, for the two tables that remember a key.

`MC<Module>` instantiates each for TLC. Operators whose
name begins with `Mut` are plausible slips of the code; each is placed before the
definition it would replace, and shows that the properties notice it.

### How state and actions correspond to the code

*One action per stretch between two awaits.* A handler is a process with a program
counter `pc`; an action is what it does between two points at which something
else may run. The early returns are the guards, or an action (`Refuse`, `GiveUp`)
that ends the request. Rows read at the beginning of a handler are private copies
(`memory`, `rows`, `copy`, `seen`) and later decisions use the copies, as the code
does. `PROJECT.json` maps every definition to the lines it stands for.

*Two ways of writing.* `update(...).where(status = ...)` is a guard over the
database at that moment. `repository.save(entity)` writes the columns held in
memory, all of them, and inserts again a row that was deleted meanwhile: so
`SaveSigned` of SigningFlow assigns the whole copy, and `SaveSubmitted` of
DocumentLifecycle does not look at the status.

*SigningFlow.* `ReadDocument`, `ReadSigners` and `Refuse` are the reads and guards of
`sign`, `executeBiometric`, `executeGuestAdvanced` and `reject`; `ClaimSignature`
and `ClaimRejection` the conditional UPDATEs; `SnapshotSignature` to
`EmitCollaboratorSigned` the rest of `completeSignature` and
`finalizeSignedDocument`, in their order; `StampRejected` and `SaveRejected` the
rejection; `LinkAccount` the link of an invitation. `Abort` is an exception or the
death of the process at any await after the claim (`FaultySteps` chooses which).
The content of a PDF is the rubric each signer's place shows (snapshot, live, QR or
blank); the appended sheet is the set of signers whose evidence it prints.

*SealRetry.* A signature is absent, bare (the SAT did not answer) or proven.
`owed` is what each signing request has still to save. `Init` is any state in which
the finalizer reaches `sealAdvancedSignatures`. A visitor is a request of the public
view, which may come again for ever. Its services may fail, but it runs on: a visitor
that dies between clearing the mark and sealing is not modelled (it loses the mark as a
failure of Seal Service does).

*DocumentLifecycle.* Four roles; the creator's operations start from a status
read before, and nothing keeps two of his requests apart: section 6 lists what their
overlap breaks, and the run checks what it does not. The answers of the signers and the
finalization are reduced to the claim and the save of the document.

*DocumentCreation.* `InsertKey`, `FindKey` and `DeleteExpired` are the loop of
`reserve()`; `Prepare` to `Commit` the transaction that saves the document, lists the
lots, spends a credit under the lot's row lock and completes the key; `Release` the
deletion after a failure. What a transaction wrote and holds locked is in `completing`
and `held`, and the tables change at its commit. A lease that ends while its creation
runs is `MaxLapses`; a client that repeats, `MaxTries`. A request without key is one
of the web application.

*GuestSigning.* PostgreSQL under READ COMMITTED: `tx[r]` is what a transaction wrote,
visible to others at `Commit`; a row written is locked; `FindOpen` and `RevokeOpen`
are one UPDATE that finds its rows, waits for their locks (`WaitsFor`) and tests them
again; the partial unique index makes an INSERT wait; a circle of waits is broken by
`AbortDeadlocked`. One signer with e.firma, one account with his e-mail; the other
signers exist only as a rejection that closes the document ("peer"). A wrong or
expired code is `GiveUp`.

*PublicSigning.* `Revoke` and `Insert` are the two statements of `issue()`, which no
transaction joins; `Reserve`, `Lookup`, `Store` and `Release` the SET NX, GET, SET and
DEL of an Idempotency-Key around a signature; `Lapse` the end of its ten minutes,
under a signature still running if "slow" is a fault. That the account of the browser
is another one (`ACCOUNT_MISMATCH`) and the 24 hours of a COMPLETED answer, which
outlives the session that could ask for it, are left out.

*BiometricSignature.* `FindActive` to `SaveSession` are `launch()`: an attempt is
inserted before Didit is called and its session saved after, so an event may find no
attempt (`Dispatch` then ignores it, as the dispatcher does). A delivery looks for the
row of its event (`Receive`) and inserts it (`Register`); the one that finds it inserted
meanwhile answers 200 and leaves the event to the other (`Cede`). It reads the
attempt (`Dispatch`), approves it under condition (`Approve`), reads what
`executeBiometric` asks (`Validate`), claims (`Claim`), closes his other attempts
(`Finish`), or gives the attempt up (`GiveUp`), and is answered 200 (`Acknowledge`) or
dies (`AbortDelivery`) and comes again. The hash of the document cannot change after
its creation and it is the signer's turn from the start; the verification code and the
portrait of the account are failures of `Start` and `OpenSession`.

*IdentityVerification.* A process is a tab of the user or the delivery of an event.
`applyIfAllowed` is `ReadCredential` and `WriteCredential`, with the table of
transitions in `Allowed`; `todo` holds the moves a handler has left. The history
`anomalies` names the three exceptions of the properties: a rubric was deleted by who was
not approved ("erased"), an attempt got its session between the two looks of an event
("missed"), a handler died over an event whose duplicate had been answered 200 because
it lost the insertion ("raced", an outcome of `AbortDelivery`). The image of a rubric is
none, drawn, or blank after its deactivation. ABANDONED is EXPIRED, the FAILED an
administrator writes is left out, the reads of `start()` are one step, and the files of
a rubric and its row too.

*CreditPurchase.* `Deliver` to `MarkProcessed` are `register()`, the handler of
`checkout.session.completed` and the answer; `InsertLot` waits for the unique index by
payment. The n-th delivery of the event of session s is `<<s, n>>`.

*SubscriptionBilling.* `stripe` is the truth in Stripe and `pending` its unanswered
events, each with what its handler has read. `LockProfile` to `CommitPeriod` is the
transaction that rolls a period over under the lock of the profile. `failures` records
which event died over its handler and which was lost: `Lose` is a delivery answered 200
because another had inserted the row of the event, and the other dies. The customer has
his profile from the start: the events of a customer without one, which are answered 200
without effect, and subscriptions that are paused or incomplete are left out.

*EventDelivery.* The members of `Joins` go through the outbox, those of `Notices`
are published directly and leave rows without topic. `Hand` is
`KafkaProducerService.emit`, which nobody awaits: the broker may lose it. Kafka may
deliver again. An e-mail is taken, refused, or taken and reported as failed because the
answer of SendGrid was lost (the history variable `unanswered` counts these); the mark in
`processed_events` is inserted, found, or cannot be written, and then the e-mail is sent
all the same (`unmarked` counts those claims). The row of a direct event is inserted by a
promise nobody awaits, which may fail (`RecordNotice`). PENDING_PUBLICATION_BATCH,
20 in the code, is the constant `Batch`.

## 3. The runs

All twelve pass. No run has a state constraint; every bound is a constant of the module.

| Run | Instance | Shows |
|---|---|---|
| `signing_flow` | 2 signers, 2 requests of any kind, failures at every await, fair; all three signature types, sequential or not; 256 000 states | two requests never finalize (`OneFinalizer`); a SIGNED document has hash, stamped PDF and definitive copy (`SignedIsComplete`); `document.collaborator_signed` goes out once and after its evidence (`AnnouncedIsRecorded`); evidence survives whole-row saves (`EvidenceIsKept`); the phase implements SignatureContract; a sequential document that everybody signed becomes SIGNED unless a fault struck (`SequentialCompletes`) |
| `seal_retry` | 2 signers, 2 visitors, SAT, Seal Service and mark failing, late saves, fair; 46 000 states | what was sealed stays proven (`SealedAreProven`); no document is unmarked and unsealed unless a failure cost it the mark (`NothingForgotten`); and it settles sealed (`Settles`) |
| `Lifecycle` | 3 signers, 3 overlapping requests of the creator, 2 of the reviewer, 2 confirmations, MinIO failing, crashes; 95 000 states up to symmetry | approval gates signing (`ApprovalGate`), one decision (`OneDecision`), nothing is SIGNED or cancelled with an answer missing (`EveryoneHasAnswered`) |
| `creation` | 2 requests of one key with 2 contents, or without key, each sent twice; 2 lots of one credit; one failure, one lapse, fair; 341 000 states | an answer is a committed document of that key and content (`AnswersAreReal`); credits and documents balance and no lot is overdrawn (`CreditsBalance`); a refusal was right (`RefusedWithoutCredit`); OnceOnly is implemented; every request ends (`EveryRequestEnds`) |
| `Guest` | 2 requests, 2 guest accesses, 1 public session, 2 codes per purpose, failing revocations and crashes; 1.6 million states | access, signature, evidence and code agree at every point of every transaction (`ConsumedBySigning`, `SignedAsHimself`, `AccessesArePaid`) |
| `public_signing` | 2 requests, 2 invitations, a launch, a session, one key with 2 contents, every fault; 1.6 million states | one open invitation and never none (`OneInvitation`); one run per key (`OneRunPerKey`); who was answered "signed" is answered so again (`AnswerIsKept`) |
| `biometric` | 1 click at a time, 2 attempts, 2 deliveries at a time that race to register an event, approvals with and without proof, expiry, one trouble; 3.1 million states | who signed was approved, and his attempt says so (`SignedIsBacked`); what was approved is signed, unless one delivery ceded it and another died (`ApprovedIsSigned`); an old status never overwrites an end (`TerminalStands`) |
| `identity` | 1 tab, 2 sessions, 2 attempts of 2 allowed, 2 events at a time, one trouble; 1.2 million states | nobody signs unapproved, but for the deletion of section 6 (`EarnedUnlessErased`); every session is found by its webhooks (`SessionsHaveAttempts`); an approval answered 200 has verified its user and stored his card (`ApprovedIsVerified`) |
| `purchase` | 2 sessions, one of them with lines that do not match, 2 deliveries each, one failure, fair; 23 000 states | PROCESSED means applied (`ProcessedIsApplied`); OnceOnly is implemented (`CreditedOnce`); who pays gets his documents (`PaidIsCredited`) |
| `subscription` | 1 subscription, 2 periods, 2 events at a time, a folio billed by hand, one failure or lost event, fair; 388 000 states | one lot per period (`BilledOnce`); the profile agrees with Stripe when events came in order and none was lost (`AgreesWithStripe`); the order is linked whichever event comes first (`EitherOrderLinks`); what is charged is billed, unless its event was answered to the loser of its insertion and the winner died (`PaidIsBilled`) |
| `Delivery` | 2 joins, each flushing, 2 consumers, 1 administrator, every fault; 3.2 million states | one e-mail, plus one per claim without mark and per e-mail taken and reported as failed (`NotifiedOnce`); published implies handed (`PublishedWereHanded`) |
| `DeliveryLiveness` | 2 joins, 1 direct event, 2 consumers, batch of 3, no faults, fair; 258 000 states | every administrator is told of every member (`AdministratorsAreTold`) |

Why the bounds suffice. The races here are between a claim or a save and one step
of another request, so two requests exhibit them; what a third adds (a chain of
three copies, three transactions waiting in a circle) was run on the larger
instances kept beside the project, `SigningRaces.cfg` (3 requests, 976 000 states) and
`GuestThree.cfg` (3 requests, 1.4 million), and is covered for every number by the
theorems. The purchase was also run with three
deliveries of one session and two failures (`Sessions = {s1}`, `MaxSends = 3`,
`MaxFailures = 2`), the subscription with two subscriptions and no folio, and
`PublicSigning!KeyIsFreed` under its `FairSpec`. Two signers give a first, a last, and
both orders. `MaxCodes = 2` gives a used and an unused code; `MaxRedeliveries` is 0 in
`Delivery` because two overlapping flushes already duplicate each message, which a
redelivery cannot be told from; `Batch = 2` lets a flush take everything or leave a
row. The lists of ids `Guest`, `Public`, `Invitations`, `Launches` bound what is issued.
Two lots of one credit make "the last one" and "the next lot" happen; two tries are a
request and its repetition, `MaxLapses = 1` one lease that ends too early. In
`biometric` one attempt fails or ends and another follows, and two deliveries are what
Didit has in flight of one event or of two; `MaxAllowed = 2` lets the user reach
MAX_ATTEMPTS. In `identity` the anomaly "missed" needs four troubles and is beyond the
run: ApprovedIsVerified without that exception is refuted with `MaxTroubles = 4`. `MaxTroubles = 1` and `MaxFailures = 1` put one failure or death at every
point, and the repetition it calls for succeeds. `TypeOK` of the modules whose run does
not list it is proved, or was checked on the same instance.

CHECK_DEADLOCK is FALSE everywhere: requests are finite and end, people may never
come, and the system may stop.

### Fairness

`SigningFlow!FairSpec` and `EventDelivery!FairSpec` are weakly fair to handlers that
have started (Node runs a handler on; the consumer group keeps polling) and to
nothing a person decides. `SealRetry!FairSpec` adds that somebody keeps opening the
public view and that a SAT asked again and again sometimes answers (strong fairness
of `AskSat`): the code has no other trigger, and `Settles` claims no more than that.
`DocumentCreation!FairSpec` runs on what has been sent: a request that waits for a lock
gets it, because PostgreSQL grants what is freed, and its holder ends or dies.
`CreditPurchase!FairSpec` lets Stripe repeat an event that was not answered 200 (weak
fairness of `Deliver`: it retries for days) and ends what was started.
`SubscriptionBilling!FairSpec` is strongly fair to the oldest event, which Stripe
repeats until it is answered and which may have to wait for the lock of the profile
again and again, and weakly to the others. Nothing a buyer decides is fair: the
liveness properties begin with what is already paid, sent or signed.
`BiometricSignature` and `IdentityVerification` claim no liveness: what they say of an
approval, they say of the states in which Didit has been answered.

## 4. What is proved

The proofs hold for any sets of signers, requests, consumers, keys, lots, sessions and
events, and for every choice of faults. Assumptions are those of the modules: signers
are finite and their orders distinct; `Consumers` is finite; ids are distinct; bounds
are natural numbers (a subscription has at least one period); the mark of an empty
bucket is no file; nothing else.

* **SigningFlow.** `TypeCorrect`; then `RacesAreHarmless`, the inductive
  `RaceInvariant`. `OneClaimPerSigner` is not inductive: a request decides on a copy,
  so the invariant says that copies are old but never wrong (`CopiesAreOld`), that
  each step was justified by its copy (`CopyJustifiesStep`), and that of two
  requests that claimed one did not see the other (`CopiesAreSeparate`), whence
  one at most finds nobody missing. `ClaimIsUnique`, `OrderIsKept`,
  `FinalizerIsUnique`, `AnswersFinal` follow. `RefinesContract` maps every step to
  a step of SignatureContract or a stutter: `closed` is the existence of the sheet,
  an answer is the row's status. `AnnouncedOnceRecorded` and `EvidenceStays` come from
  `RecordInvariant`: a request that saves a whole row has in its copy the claim, the
  evidence and the snapshot of its own signer, which it wrote there when it claimed,
  and nobody else writes his row until it is announced. `SignedHasItsFiles` comes from
  `FileInvariant`, which follows the finalizer through the two buckets and the sheet:
  there is only one (`OneFinalizer`), and what it has stored before each step nobody
  overwrites.
* **DocumentLifecycle.** `LifecycleInvariantHolds` ties the control of each request
  to the phase and to the copies: a signer who is past `idle` implies a reviewer
  who approved (or none), a confirmer about to announce implies a copy. From it
  `ApprovalIsRespected`, `DecisionIsUnique`, `CopyPrecedesNotice`. `NobodyIsLeftOut`
  comes from `AnsweredInvariant`: whoever is missing when a signer answers is in the copy
  he decides on, so that a finalizer, who finds nobody there, leaves nobody out, and a
  cancellation under way was asked for when nobody was missing. All of it holds with
  overlapping requests of the creator and every fault.
* **DocumentCreation.** `InvariantHolds`: what an open transaction has written is
  still true of the tables when it commits, because its key is its own reservation
  and its lot has the credit it took, whoever else waits for them; a completed row
  names a committed document. From it `TypeCorrect`, `AnswersReal`,
  `CreditsAlwaysBalance` (by counting receipts lot by lot), `RefusalsAreRight`,
  `KeysCreateOnce`, and `RefinesOnceOnly`: a commit is `Perform`, the deletion of a
  completed key after its retention is `Forget`, anything else stutters.
* **CreditPurchase.** `InvariantHolds`: what a delivery has found is so when it commits,
  and a lot not yet remembered by its order belongs to an open transaction. From it
  `TypeCorrect`, `ProcessedEventsAreApplied`, and `PaymentsAreCreditedOnce`, the
  refinement of OnceOnly with payments that never lapse.
* **EventDelivery.** `EveryoneIsNotifiedOnce` counts, per event and administrator,
  e-mails sent, consumers about to send or release, and one more while the mark is
  free: a claim moves the one of the mark to its consumer, a release of a mark - even
  another consumer's - is paid by the consumer that did not send, and only a claim
  without mark, and an e-mail that was taken and reported as failed, add to the bound.
  `NothingIsSkipped`: a row about to be marked was
  handed to Kafka.
* **GuestSigning.** `TypeCorrect`; `ClaimsAreWhole`, whose `ClaimInvariant` says what
  an open transaction has written at each of its points, that an access or signer
  is written by one transaction at a time, and that what it read is still so when it
  commits. From it `ConsumedOnlyBySigning` and `EvidenceAgrees`. `AccessesPaid` counts:
  the accesses issued for a purpose are never more than its used codes, because a
  transaction that inserts an access holds the row of an unused code and no two hold
  the same (`PaidInvariant`). `OneOpenAtATime` and `ClosedForGood`: whoever inserts an
  access has revoked what it saw, and nobody else has written one of that purpose
  (`OpenInvariant`).
* **SealRetry.** `SealsStayProven`, from an invariant that says a participant's save
  writes a row that was empty (so it takes no evidence back), that the retry asks
  only about rows already written, and that no copy holds evidence which is neither
  in the database nor owed by a save. `TypeCorrect`, and `MarkOrSeal`, from
  `RetryInvariant`: whoever has cleared the mark and not sealed yet is still at work,
  or a failure is on record.
* **IdentityVerification.** `TypeCorrect`, and `CredentialEarned`: `Earned` (verified,
  images stored, a session approved) is never taken back, and every process that is
  about to write SIGNATURE_PENDING or CONFIGURED found it so, or read a credential that
  had it (`Careful`). `SessionsKeepAttempts` counts sessions opened and calls under way
  against attempts inserted before (`CountInvariant`). `ApprovalIsTaken`: the
  event of an approval finds the attempt of its session or, by that count, one that has
  none; no status of an attempt makes an approval stale; and the handler ends only after
  it has verified the user and stored the card.
* **PublicSigning.** `PublicInvariantHolds`: whoever revokes goes on to insert, so an
  invitation is missing only while somebody is about to insert one or after a cut; and
  whoever runs under a key that has not lapsed holds its reservation, so nobody else
  runs and nobody has been told. From it `OneInvitationOpen`, `KeysRunOnce`,
  `AnswersAreKept`.
* **BiometricSignature.** `BioInvariantHolds`: an attempt marked APPROVED is one whose
  own session Didit approved; the attempt a click works on is nobody else's until its
  session is saved; a delivery is refused or gives up only for a reason that remains
  (the signer answered, the document closed, the account linked). From it
  `ApprovalStaysBehind`; `EndsStand`, because every step changes a closed attempt to
  FAILED at most and an approval only for such a reason; and `ApprovalsAreSigned`, which
  adds that an approval whose row is in `webhook_events` has a delivery at work on it, or
  a handler of it died, or it was applied.
* **SubscriptionBilling.** `SubInvariant` has two parts. `Unconditional` holds in every
  history: what an event tells Stripe has done, one transaction registers at a time and
  only a period without lot, and, while events are in order and none was lost, what is
  paid has its lot or an event on the way; it gives `BilledOnceHolds` and, while handlers do not overlap, `EitherOrderLinksHolds`.
  `OrderlyOk` holds while the events are handled in order: the queue leads from the
  profile as it is to what Stripe says. Each event finds the profile that the one
  before it leaves (`Ready`, `Expected`), the last leaves the mirror of Stripe
  (`ComingLive`, `ComingFree`), the events and the lots of a subscription are together
  and in order, and a payment told again is at the head and finds what it has left
  (`RepaidFirst`). With an empty queue this is `AgreesWithStripeHolds`. `AgreesWithStripe`
  alone is far from inductive: a repeated event would be free to undo a later one.

The argument is always: the initial states satisfy the invariant, one lemma per
action keeps it, the property follows.

Every safety invariant and safety action property that a run checks is now a theorem.
Only model-checked: liveness, which is out of the prover's reach, as is ENABLED, that
is `SequentialCompletes`, `Settles`, `EveryRequestEnds`, `PaidIsCredited`,
`PaidIsBilled`, `AdministratorsAreTold`.

## 5. Findings

No run of the project expects a violation. What the code does not keep of its own
comments and docs is in section 6, with the instance in which TLC refutes it.

## 6. Known divergences

The modules state what comments and docs promise and the code does not keep. A
configuration in the first column refutes the property with
`tlc -config <cfg> MC<Module>`; where there is none, the second column tells which
configuration to take and what to change in it. They are no runs of the project: each
lies outside what the passing runs claim.

| Configuration | Refutes | The text | The code |
|---|---|---|---|
| `SigningLastSignature` | `LastSignatureCompletes` | README.md 1.3, the document is finalized when its last pending signer signs | sign-document.use-case.ts:1029: without order, two last signers each see the other pending; all are SIGNED and nobody finalizes |
| `SigningFailedFinalize` | `FailedSignatureIsUndone` | README.md 1.2 step 4, if the finalization fails nothing stays marked | a failure of the stamping or the sheet leaves the last signer SIGNED and the document open |
| `SigningAfterRejection` | `EarlierSignersSigned` | README.md:162, the earlier signers have signed | next-signer.util.ts:18 gives the turn to the first PENDING |
| - | `FailedRejectionIsUndone`: as SigningAfterRejection | reject-document.use-case.ts:119, stamping happens before the collaborator is marked | the claim at 109 precedes it and is not undone |
| - | `RejectionCloses`: as SigningAfterRejection, no faults | README.md:168, "El flujo de firma queda cerrado" | document.service.ts:1308 saves SIGNED over REJECTED |
| - | `SnapshotIsStamped`: as SigningAfterRejection, no faults | README.md:1055, the snapshot is stamped, not the live signature | a finalizer may read a signer before his snapshot (document.service.ts:1220) |
| - | `ServedFileExists`: as SigningAfterRejection, `FaultySteps = {"previewing"}` | document.service.ts:1464, a failed preview keeps the previous file | the count is written first and selects an empty bucket |
| - | `LinkIsKept`: as SigningAfterRejection, no faults | document.service.ts:304, from now on he signs with his account | sign-document.use-case.ts:1071 saves the row read before the link |
| `SealSameVisit` | `SameVisitSeals` | get-public-document.use-case.ts:109, the visit that completes the evidence already shows the seal | it seals with the rows it had read before, marks the document again and shows no seal |
| - | `FailureStaysMarked`: as SealSameVisit, `Faults = {"provider"}` | get-public-document.use-case.ts:200, on failure the mark stays | retry-pending-seal.use-case.ts:69 clears it first; a visitor that dies there has the same effect |
| - | `SealIsComplete`: as SealSameVisit | document.service.ts:974, the seal covers the whole set | a signer's e-signature is saved after his claim |
| `LifecycleReopened` | `ClosedStaysClosed` | README.md:168 | submit-document-for-authorization.use-case.ts:62 saves over any status |
| - | `DraftsOnly`: as LifecycleReopened | README.md:371-372, only CREATED | update-document.use-case.ts:62 checks a row read before |
| - | `CancelledOnce`: as LifecycleReopened | confirm-document-cancellation.use-case.ts:80-83 | submit-document-for-cancellation.use-case.ts:73 puts a CANCELLED document back |
| - | `SentOnce`: as LifecycleReopened | approve-document.use-case.ts:134-139, `document.sent_to_sign` means that the document entered signature, which happens in one of three places | two submissions of one draft announce it twice |
| - | `CancelledHasCopy`: as LifecycleReopened, `Mishaps = {"storage"}` | README.md:172 | CANCELLED precedes the copy |
| `DeliveryLost` | `NothingLost` | outbox.service.ts:44-46, "nunca se pierde algo que sí ocurrió" | a row is marked published although the broker was down |
| - | `OwnFlushPublishes`: 1 join, 2 notices, 1 consumer, `Batch = 2`, no faults | outbox.service.ts:145-148, rows without topic are old | emitEvent still inserts them, and they fill the batch |
| - | `NobodyToldTwice`: as `Delivery.cfg`, `Faults = {"mail"}` | notify-organization-admins-of-new-member.use-case.ts:38, "Nadie se entera dos veces" | SendGrid takes the e-mail and its answer is lost: the mark is released (267) and the next delivery sends it again |
| - | `AuditedOnce`: as DeliveryLost, `MaxRedeliveries = 1`, no faults | document-events.controller.ts:53-55 | those events carry no eventId |
| `GuestDeadlock` | `NobodyIsAborted` | sign-document.use-case.ts:841-842 lists the outcomes of a lost claim | access-then-signer against signer-then-access: 40P01 |
| - | `RegisteredIsAnswered`: as `PublicSigning.cfg` | signing-idempotency.service.ts:78-83, a retry gets the answer of the signature that was registered | if the answer cannot be stored the key is deleted, and the retry is told he already answered |
| `IdentityNotEarned` | `CredentialIsEarned` | signing-credential-status.enum.ts:33, SIGNATURE_PENDING is "Identidad aprobada"; update-signing-credential-status.use-case.ts:21-22, an edge must be valid for all its triggers | delete-signature-image.use-case.ts:37 asks for SIGNATURE_PENDING whatever the credential is: a user with a rubric who has only opened a session and deletes it is let on |
| - | `NotStranded`: as `Identity.cfg` | process-didit-verification-result.use-case.ts:124-133, an approval must not leave the user "sin forma de avanzar" | the moves it asks for are dropped when the credential is not where they start from: after MAX_ATTEMPTS, after the expiry of another session, or when two writers cross; the user is verified, and start() sends him away as already verified |
| - | `ConfiguredHasRubric`: as `Identity.cfg` | signing-credential-status.enum.ts:35, CONFIGURED is "Identidad aprobada + firma PNG registrada" | a row with only the card is taken for a rubric (process-didit-verification-result.use-case.ts:251), a restored rubric asks for CONFIGURED, and a deactivation blanks the PNG and leaves CONFIGURED (deactivate-signature.use-case.ts:33-37) |
| `PurchaseLeftDead` | `NeverLeftDead` | register-webhook-event.use-case.ts:50-55, only PROCESSED cuts a repetition, so that no event is left dead | the loser of the insertion answers 200 as a duplicate, Stripe stops, and the winner dies |
| `SubscriptionResurrected` | `NotResurrected` | subscription-billing.service.ts:309, a finalized subscription is not brought back to life | an update handled after the deletion writes ACTIVE over FREE |
| - | `NoApprovalIsLost`: as `Biometric.cfg` | process-biometric-signature-result.use-case.ts:93-95, an unexpected error leaves the delivery FAILED and Didit repeats it | two deliveries of one approval: the loser of the insertion, or of the UPDATE, answers 200, and the winner dies before the claim |
| - | `EndedIsClosed`: as `Biometric.cfg` | biometric-signature-attempt.service.ts:87, "Didit cierra la sesión por webhook cuando la da por vencida" | the end of a session is dropped when its conditional UPDATE loses, or when the winner of its insertion dies after the loser's 200: the attempt stays open on a dead URL |
| - | `OneSession`: as `Biometric.cfg`, `Clicks = {c1, c2}`, `MaxTroubles = 0` | biometric-session-launcher.service.ts:46-47, two clicks do not open two sessions | an attempt without URL whose click still waits for Didit is closed as unusable, and another session opened |

Read in the same way while modelling, without a property of their own:

* *Subscriptions.* `checkout.session.completed` reads the profile and writes it without
  condition, and may put INCOMPLETE over ACTIVE although its comment says it cannot;
  an order is left unlinked when its two handlers overlap, or when a manual period
  rolled the lot over; the deletion of an old past_due subscription finalizes a profile
  that has a new one; an `invoice.paid` that comes late takes the profile back. A charge
  remains without lot when two deliveries of its `invoice.paid` race, the loser is
  answered 200 and the winner dies, as in PurchaseLeftDead (`PaymentLost`, the exception
  of `PaidIsBilled`). The cron
  `ExpireManualSubscriptionsJob`, which a comment names, does not exist.
* *Public signing.* An issue cut between revocation and insertion leaves a REVOKED
  invitation, which the signer cannot renew (the exception `cut` of `OneInvitation`).
* *Identity.* In process-didit-verification-result.use-case.ts the revocation that the
  comment at 190-193 describes is never reached, because the guard at 144 does not let
  an APPROVED attempt be anything else; the cap of attempts is not strict, since PENDING
  ones that lapsed do not count.
* *Biometrics.* An attempt is saved before Didit is called "so that the webhook always
  has something to reconcile with", but it is looked up by its session, which is saved
  after: an event that comes in between is ignored and answered 200. An open session a
  guest began is offered again to the account that links, and its approval is then
  refused. A DECLINED or EXPIRED event that loses its conditional UPDATE is dropped.

## 7. What is not modelled

Parsing of certificates and OCSP (their answer is a choice), PDF drawing (the content
is what each place shows), formatting of mails, authorization decisions (pure
functions), CRUD in a single transaction, and the components that section 8 plans.
Audit records in MongoDB are fire-and-forget and nothing reads them to decide. Most of
the lines of the repository are of these kinds, with DTOs, API documentation,
migrations and scripts, which have no state to model.

## 8. Plan

Done, in this order: SigningFlow with its contract, SealRetry, DocumentLifecycle,
GuestSigning, EventDelivery, OnceOnly with DocumentCreation and CreditPurchase,
SubscriptionBilling, PublicSigning, IdentityVerification, BiometricSignature. Next:

1. `CaptureSession`: the PENDING, CLAIMED, COMPLETED, EXPIRED session of a QR, whose
   expiry is written without asking (signature-capture-session.service.ts:139).
2. `AuditLedger`: the chain under the advisory lock, composed with EventDelivery's
   redeliveries.
3. The provisioning of an organization and the rotation of its API keys.

Proofs to add: the type correctness of the rows of DocumentLifecycle beyond
`LifecycleTyped`.
