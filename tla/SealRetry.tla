----------------------------- MODULE SealRetry -----------------------------
(***************************************************************************)
(* Sealing of a document with advanced signatures (FIEL).                  *)
(*                                                                         *)
(* The request of the last signer seals the document before it becomes     *)
(* SIGNED.  If the SAT did not answer for somebody there is no OCSP        *)
(* evidence to seal with: the document is marked, and whoever opens its    *)
(* public view later asks the SAT again and seals.  No scheduler does.     *)
(*                                                                         *)
(*   signature  column advanced_signature of each signer                   *)
(*   owed       what the last step of each signing request (the save of    *)
(*              the whole participant) has still to write in that column   *)
(*   signed     the document is SIGNED                                     *)
(*   mark       column sealing_pending_at                                  *)
(*   seal       the signers whose signatures are in document_seals         *)
(*   pc, memory, copy, missing                                             *)
(*              control, document.sealingPendingAt in memory, rows read,   *)
(*              and the signers the retry still has to ask about           *)
(*   harmed     history: Seal Service or the mark has failed, or a visit   *)
(*              came before every participant was saved                    *)
(***************************************************************************)
EXTENDS Integers, FiniteSets

CONSTANTS Signers, Last,   \* the FIEL signers and the last one to sign
          Visitors,        \* requests of the public view that may coincide
          Finalizer,       \* the signing request of Last
          Faults           \* which services may fail: "sat", "provider", "mark"

ASSUME LastAssumption == Last \in Signers /\ Finalizer \notin Visitors

VARIABLES signature, owed, signed, mark, seal, pc, memory, copy, missing, harmed

database == <<signature, owed, signed, mark, seal>>
local    == <<pc, memory, copy, missing>>
vars     == <<database, local, harmed>>

Processes == Visitors \cup {Finalizer}

\* No signature yet, a signature without OCSP evidence, and one with it.
Signatures == {"none", "bare", "proven"}

Init ==
  /\ owed \in [Signers -> Signatures] /\ owed[Last] # "none"
  /\ signature \in [Signers -> Signatures]
  /\ \A s \in Signers : (owed[s] = "none") # (signature[s] = "none")
  /\ signed = FALSE /\ mark = FALSE /\ seal = {}
  /\ pc = [p \in Processes |-> IF p = Finalizer THEN "sealing" ELSE "idle"]
  /\ memory = [p \in Processes |-> FALSE]
  /\ copy = [p \in Processes |->
               IF p = Finalizer THEN [signature EXCEPT ![Last] = owed[Last]]
                                ELSE [s \in Signers |-> "none"]]
  /\ missing = [p \in Processes |-> {}] /\ harmed = FALSE

Goto(p, next) == pc' = [pc EXCEPT ![p] = next]

-----------------------------------------------------------------------------
(* sealAdvancedSignatures, for the finalizer and for a visitor. *)

\* The signatures the copy holds.
Advanced(p) == {s \in Signers : copy[p][s] # "none"}

Return(p) == Goto(p, IF p = Finalizer THEN "saving" ELSE "responding")

SealNothing(p) ==
  /\ pc[p] = "sealing" /\ Advanced(p) = {}
  /\ Return(p)
  /\ UNCHANGED <<database, memory, copy, missing, harmed>>

\* Some evidence is missing: markSealingPending, unless it is marked in memory.
Postpone(p) ==
  /\ pc[p] = "sealing"
  /\ \E s \in Advanced(p) : copy[p][s] = "bare"
  /\ \/ mark' = (mark \/ ~memory[p]) /\ UNCHANGED harmed
     \/ "mark" \in Faults /\ harmed' = TRUE /\ UNCHANGED mark
  /\ memory' = [memory EXCEPT ![p] = TRUE]
  /\ Return(p)
  /\ UNCHANGED <<signature, owed, signed, seal, copy, missing>>

\* Seal Service answers, or fails and the failure is only logged.
CallProvider(p) ==
  /\ pc[p] = "sealing" /\ Advanced(p) # {}
  /\ \A s \in Advanced(p) : copy[p][s] = "proven"
  /\ \/ Goto(p, "persisting") /\ UNCHANGED harmed
     \/ "provider" \in Faults /\ Return(p) /\ harmed' = TRUE
  /\ UNCHANGED <<database, memory, copy, missing>>

\* The unique index on document_id keeps the first seal.
PersistSeal(p) ==
  /\ pc[p] = "persisting"
  /\ seal' = IF seal = {} THEN Advanced(p) ELSE seal
  /\ Return(p)
  /\ UNCHANGED <<signature, owed, signed, mark, memory, copy, missing, harmed>>

-----------------------------------------------------------------------------
(* The signing requests. *)

\* finalizeSignedDocument ends saving the whole document row.
SaveSigned ==
  /\ pc[Finalizer] = "saving"
  /\ signed' = TRUE /\ mark' = memory[Finalizer]
  /\ Goto(Finalizer, "done")
  /\ UNCHANGED <<signature, owed, seal, memory, copy, missing, harmed>>

\* completeSignature ends saving the participant; for Last, after finalizing.
SaveParticipant(s) ==
  /\ owed[s] # "none"
  /\ s = Last => pc[Finalizer] = "done"
  /\ signature' = [signature EXCEPT ![s] = owed[s]]
  /\ owed' = [owed EXCEPT ![s] = "none"]
  /\ UNCHANGED <<signed, mark, seal, local, harmed>>

-----------------------------------------------------------------------------
(* The public view: GetPublicDocumentUseCase and RetryPendingSealUseCase. *)

ReadDocument(v) ==
  /\ pc[v] = "idle" /\ signed
  /\ harmed' = (harmed \/ \E s \in Signers : owed[s] # "none")
  /\ memory' = [memory EXCEPT ![v] = mark]
  /\ Goto(v, "document_read")
  /\ UNCHANGED <<database, copy, missing>>

ReadSigners(v) ==
  /\ pc[v] = "document_read"
  /\ copy' = [copy EXCEPT ![v] = signature]
  /\ Goto(v, IF memory[v] THEN "retrying" ELSE "responding")
  /\ UNCHANGED <<database, memory, missing, harmed>>

\* Mutant: a signer whose signature has not been saved is asked about too.
MutMissingEvidence == {s \in Signers : signature[s] # "proven"}

MissingEvidence == {s \in Signers : signature[s] = "bare"}

\* The retry reads the signers again, for itself.
FindMissing(v) ==
  /\ pc[v] = "retrying"
  /\ missing' = [missing EXCEPT ![v] = MissingEvidence]
  /\ Goto(v, "asking")
  /\ UNCHANGED <<database, memory, copy, harmed>>

\* The SAT answers for one signer and the evidence is written.
AskSat(v) ==
  /\ pc[v] = "asking"
  /\ \E s \in missing[v] :
       /\ signature' = [signature EXCEPT ![s] = "proven"]
       /\ missing' = [missing EXCEPT ![v] = @ \ {s}]
  /\ UNCHANGED <<owed, signed, mark, seal, pc, memory, copy, harmed>>

SatSilent(v) ==
  /\ "sat" \in Faults
  /\ pc[v] = "asking" /\ missing[v] # {}
  /\ missing' = [missing EXCEPT ![v] = {}]
  /\ Goto(v, "responding")
  /\ UNCHANGED <<database, memory, copy, harmed>>

\* Mutant: the mark is cleared in the database but not in memory.
MutClearDatabase(v) ==
  /\ pc[v] = "asking" /\ missing[v] = {}
  /\ mark' = FALSE
  /\ Goto(v, "sealing")
  /\ UNCHANGED <<signature, owed, signed, seal, memory, copy, missing, harmed>>

\* Mutant: the other way round.
MutClearMemory(v) ==
  /\ pc[v] = "asking" /\ missing[v] = {}
  /\ memory' = [memory EXCEPT ![v] = FALSE]
  /\ Goto(v, "sealing")
  /\ UNCHANGED <<database, copy, missing, harmed>>

\* Nothing is missing: clearPending, and back to the caller, which seals.
ClearMark(v) ==
  /\ pc[v] = "asking" /\ missing[v] = {}
  /\ mark' = FALSE
  /\ memory' = [memory EXCEPT ![v] = FALSE]
  /\ Goto(v, "sealing")
  /\ UNCHANGED <<signature, owed, signed, seal, copy, missing, harmed>>

\* The seal is read and the page is served.
Respond(v) ==
  /\ pc[v] = "responding"
  /\ Goto(v, "idle")
  /\ UNCHANGED <<database, memory, copy, missing, harmed>>

-----------------------------------------------------------------------------
Sealing(p) == SealNothing(p) \/ Postpone(p) \/ CallProvider(p) \/ PersistSeal(p)

Signing == \/ Sealing(Finalizer) \/ SaveSigned
           \/ \E s \in Signers : SaveParticipant(s)

Serve(v) == \/ ReadSigners(v) \/ FindMissing(v) \/ AskSat(v) \/ SatSilent(v)
            \/ ClearMark(v) \/ Sealing(v) \/ Respond(v)

Next == \/ Signing
        \/ \E v \in Visitors : ReadDocument(v) \/ Serve(v)

Spec == Init /\ [][Next]_vars

\* Handlers run on; somebody keeps opening the document; and the SAT, asked
\* again and again, sometimes answers.
FairSpec ==
  /\ Spec
  /\ WF_vars(Sealing(Finalizer)) /\ WF_vars(SaveSigned)
  /\ \A s \in Signers : WF_vars(SaveParticipant(s))
  /\ \A v \in Visitors :
       WF_vars(ReadDocument(v)) /\ WF_vars(Serve(v)) /\ SF_vars(AskSat(v))

-----------------------------------------------------------------------------
TypeOK ==
  /\ signature \in [Signers -> Signatures] /\ owed \in [Signers -> Signatures]
  /\ signed \in BOOLEAN /\ mark \in BOOLEAN /\ seal \in SUBSET Signers
  /\ pc \in [Processes -> {"idle", "document_read", "retrying", "asking", "sealing",
                           "persisting", "responding", "saving", "done"}]
  /\ memory \in [Processes -> BOOLEAN]
  /\ copy \in [Processes -> [Signers -> Signatures]]
  /\ missing \in [Processes -> SUBSET Signers] /\ harmed \in BOOLEAN

\* Every signature under a seal has its OCSP evidence in the database, or in
\* the save that is about to write it: neither a stale copy nor the whole-row
\* save of a participant takes back the evidence a visit obtained
\* (the retry leaves alone the rows that have no signature yet).
SealedAreProven ==
  \A s \in seal : signature[s] = "proven" \/ owed[s] = "proven"

\* A document whose signatures were all saved before anybody opened it is
\* sealed or remains marked, however the visits interleave and as often as the
\* SAT is silent: clearing the mark and sealing are two steps with stale rows
\* in between (completePendingSealIfDue, clearPending, markSealingPending);
\* a visitor always runs on: one that dies in between is not modelled.
NothingForgotten ==
  (~harmed /\ signed /\ \A p \in Processes : pc[p] \notin {"sealing", "persisting"})
    => (mark \/ seal # {})

\* With a SAT that sometimes answers and visits that keep coming, the document
\* ends sealed and without its mark, for good: stale visitors put the mark
\* back, but only finitely often.
Settles == signed ~> [](harmed \/ (seal # {} /\ ~mark))

-----------------------------------------------------------------------------
(* What the comments say and the code does not keep. *)

\* completePendingSealIfDue: a visit that fails to seal leaves the document
\* marked, and the next visitor retries it.
FailureStaysMarked ==
  [][\A v \in Visitors : pc[v] = "sealing" /\ pc'[v] = "responding"
                           => mark' \/ seal' # {}]_vars

\* GetPublicDocumentUseCase: the visit that completes the evidence already
\* shows the seal in its own answer.
SameVisitSeals ==
  \A v \in Visitors :
    pc[v] = "responding" /\ (\A s \in Signers : signature[s] = "proven")
      => seal # {}

\* sealAdvancedSignatures: the seal is computed over the complete set of
\* signatures, never over a part of it.
SealIsComplete == seal # {} => seal = Signers
=============================================================================
