-------------------------- MODULE SealRetry_proofs --------------------------
(***************************************************************************)
(* Proofs about the sealing and its retry, for any number of signers, any  *)
(* number of visits and every fault: what is sealed stays proven, and no   *)
(* document is left unsealed without its mark.  The last part is about the *)
(* biometric signature of one signer, for any number of clicks, attempts   *)
(* and deliveries: who signed is backed by an approval, what was approved  *)
(* is signed, and what ended is not written over.                          *)
(***************************************************************************)
EXTENDS SealRetry, BiometricSignature, TLAPS

\* The evidence of s is in his row, or in the save that is about to write it.
Proven(s) == signature[s] = "proven" \/ owed[s] = "proven"

\* A row is written from nothing by its participant once; the retry only asks
\* about rows that were written; copies may lack evidence and never invent it.
SealInvariant ==
  /\ TypeOK
  /\ \A s \in Signers : owed[s] # "none" => signature[s] = "none"
  /\ \A v \in Processes : \A s \in missing[v] : signature[s] # "none"
  /\ \A p \in Processes, s \in Signers : copy[p][s] = "proven" => Proven(s)
  /\ \A p \in Processes, s \in Signers : pc[p] = "persisting" => copy[p][s] # "bare"
  /\ \A s \in seal : Proven(s)

\* The finalizer starts with the rows it read and its own signature.
LEMMA SealInit == Init => SealInvariant
<1> SUFFICES ASSUME Init PROVE SealInvariant
  OBVIOUS
<1>1. TypeOK
  BY LastAssumption DEF Init, TypeOK, Processes, Signatures
<1>2. \A s \in Signers : owed[s] # "none" => signature[s] = "none"
  BY DEF Init
<1>3. ASSUME NEW p \in Processes, NEW s \in Signers, copy[p][s] = "proven"
      PROVE  Proven(s)
  <2>1. p = Finalizer
    BY <1>3 DEF Init
  <2>2. copy[p] = [signature EXCEPT ![Last] = owed[Last]]
    BY <2>1 DEF Init, Processes
  <2> QED BY <1>1, <1>3, <2>2 DEF Proven, TypeOK
<1>4. \A p \in Processes : pc[p] # "persisting" /\ missing[p] = {}
  BY DEF Init
<1> QED BY <1>1, <1>2, <1>3, <1>4 DEF SealInvariant, Init

\* A step that leaves the signatures, the seal and the copies alone.
LEMMA Bookkeeping ==
  ASSUME SealInvariant, TypeOK', UNCHANGED <<signature, owed, seal, copy>>,
         \A v \in Processes : missing'[v] \subseteq MissingEvidence \/ missing'[v] \subseteq missing[v],
         \A p \in Processes : pc'[p] = "persisting" =>
           pc[p] = "persisting" \/ \A s \in Signers : copy[p][s] # "bare"
  PROVE  SealInvariant'
<1>1. \A s \in Signers : Proven(s)' = Proven(s)
  BY DEF Proven
<1>2. \A v \in Processes : \A s \in missing'[v] : signature[s] # "none"
  BY DEF SealInvariant, MissingEvidence, TypeOK
<1>3. \A s \in seal : Proven(s)'
  BY <1>1 DEF SealInvariant, TypeOK
<1> QED BY <1>1, <1>2, <1>3 DEF SealInvariant

\* Every step keeps the types.
LEMMA TypeStep ==
  ASSUME TypeOK, [Next]_vars
  PROVE  TypeOK'
<1>1. Finalizer \in Processes /\ Visitors \subseteq Processes
  BY DEF Processes
<1>2. ASSUME NEW p \in Processes, Sealing(p) PROVE TypeOK'
  <2>1. CASE SealNothing(p) \/ CallProvider(p)
    BY <2>1 DEF TypeOK, SealNothing, CallProvider, Return, Goto, database
  <2>2. CASE Postpone(p)
    <3>1. mark' \in BOOLEAN
      BY <2>2 DEF TypeOK, Postpone
    <3> QED BY <2>2, <3>1 DEF TypeOK, Postpone, Return, Goto
  <2>3. CASE PersistSeal(p)
    BY <2>3 DEF TypeOK, PersistSeal, Return, Goto, Advanced
  <2> QED BY <1>2, <2>1, <2>2, <2>3 DEF Sealing
<1>3. CASE SaveSigned
  BY <1>1, <1>3 DEF TypeOK, SaveSigned, Goto
<1>4. ASSUME NEW s \in Signers, SaveParticipant(s) PROVE TypeOK'
  BY <1>4 DEF TypeOK, SaveParticipant, Signatures, local
<1>5. ASSUME NEW v \in Visitors, ReadDocument(v) \/ ReadSigners(v) PROVE TypeOK'
  BY <1>1, <1>5 DEF TypeOK, ReadDocument, ReadSigners, Goto, database
<1>6. ASSUME NEW v \in Visitors,
             FindMissing(v) \/ AskSat(v) \/ SatSilent(v) \/ ClearMark(v) \/ Respond(v)
      PROVE  TypeOK'
  <2>1. CASE AskSat(v)
    <3>1. PICK s \in missing[v] : /\ signature' = [signature EXCEPT ![s] = "proven"]
                                  /\ missing' = [missing EXCEPT ![v] = @ \ {s}]
      BY <2>1 DEF AskSat
    <3>2. signature' \in [Signers -> Signatures] /\ missing' \in [Processes -> SUBSET Signers]
      BY <1>1, <3>1 DEF TypeOK, Signatures
    <3> QED BY <2>1, <3>2 DEF TypeOK, AskSat
  <2>2. CASE FindMissing(v)
    BY <1>1, <2>2 DEF TypeOK, FindMissing, Goto, database, MissingEvidence
  <2>3. CASE SatSilent(v) \/ ClearMark(v) \/ Respond(v)
    BY <1>1, <2>3 DEF TypeOK, SatSilent, ClearMark, Respond, Goto, database
  <2> QED BY <1>6, <2>1, <2>2, <2>3
<1>7. CASE UNCHANGED vars
  BY <1>7 DEF TypeOK, vars, database, local
<1> QED BY <1>1, <1>2, <1>3, <1>4, <1>5, <1>6, <1>7 DEF Next, Signing, Serve

\* No step takes back evidence.
LEMMA SealStep ==
  ASSUME SealInvariant, [Next]_vars
  PROVE  SealInvariant'
<1>1. TypeOK'
  BY TypeStep DEF SealInvariant
<1>2. Finalizer \in Processes /\ Visitors \subseteq Processes
  BY DEF Processes
<1>3. ASSUME NEW p \in Processes, SealNothing(p) \/ Postpone(p) \/ CallProvider(p)
      PROVE  SealInvariant'
  <2>1. UNCHANGED <<signature, owed, seal, copy, missing>>
    BY <1>3 DEF SealNothing, Postpone, CallProvider, database
  <2>2. \A q \in Processes : pc'[q] = "persisting" =>
          pc[q] = "persisting" \/ \A s \in Signers : copy[q][s] # "bare"
    BY <1>3 DEF SealNothing, Postpone, CallProvider, Return, Goto, Advanced, SealInvariant, TypeOK
  <2> QED BY <1>1, <2>1, <2>2, Bookkeeping
<1>4. ASSUME NEW p \in Processes, PersistSeal(p) PROVE SealInvariant'
  <2>1. \A s \in Advanced(p) : s \in Signers /\ copy[p][s] = "proven"
    BY <1>4 DEF PersistSeal, Advanced, SealInvariant, TypeOK, Signatures
  <2>2. \A s \in seal' : Proven(s)
    BY <1>4, <2>1 DEF PersistSeal, SealInvariant
  <2>3. \A q \in Processes : pc'[q] = "persisting" => pc[q] = "persisting"
    BY <1>4 DEF PersistSeal, Return, Goto, SealInvariant, TypeOK
  <2>4. UNCHANGED <<signature, owed, copy, missing>>
    BY <1>4 DEF PersistSeal
  <2> QED BY <1>1, <2>2, <2>3, <2>4 DEF SealInvariant, Proven
<1>5. CASE SaveSigned
  BY <1>1, <1>2, <1>5, Bookkeeping DEF SaveSigned, Goto, SealInvariant, TypeOK
<1>6. ASSUME NEW s \in Signers, SaveParticipant(s) PROVE SealInvariant'
  <2>1. /\ signature' = [signature EXCEPT ![s] = owed[s]]
        /\ owed' = [owed EXCEPT ![s] = "none"]
        /\ UNCHANGED <<seal, pc, copy, missing>>
        /\ owed[s] # "none" /\ signature[s] = "none"
    BY <1>6 DEF SaveParticipant, local, SealInvariant
  <2>2. \A t \in Signers : Proven(t) => Proven(t)'
    BY <2>1 DEF Proven, SealInvariant, TypeOK
  <2>3. \A t \in Signers : signature[t] # "none" => signature'[t] # "none"
    BY <2>1 DEF SealInvariant, TypeOK
  <2>4. \A t \in Signers : owed'[t] # "none" => signature'[t] = "none"
    BY <2>1 DEF SealInvariant, TypeOK
  <2>5. \A v \in Processes : \A t \in missing[v] : signature'[t] # "none"
    BY <2>3 DEF SealInvariant, TypeOK
  <2>6. \A t \in seal : Proven(t)'
    BY <2>2 DEF SealInvariant, TypeOK
  <2> QED BY <1>1, <2>1, <2>2, <2>4, <2>5, <2>6 DEF SealInvariant
<1>7. ASSUME NEW v \in Visitors, ReadDocument(v) PROVE SealInvariant'
  BY <1>1, <1>2, <1>7, Bookkeeping DEF ReadDocument, Goto, SealInvariant, TypeOK, database
<1>8. ASSUME NEW v \in Visitors, ReadSigners(v) PROVE SealInvariant'
  <2>1. \A p \in Processes : copy'[p] = copy[p] \/ copy'[p] = signature
    BY <1>8 DEF ReadSigners, SealInvariant, TypeOK
  <2>2. \A p \in Processes : pc'[p] = "persisting" => pc[p] = "persisting" /\ p # v
    BY <1>2, <1>8 DEF ReadSigners, Goto, SealInvariant, TypeOK
  <2>3. \A p \in Processes : p # v => copy'[p] = copy[p]
    BY <1>8 DEF ReadSigners, SealInvariant, TypeOK
  <2>4. UNCHANGED <<signature, owed, seal, missing>>
    BY <1>8 DEF ReadSigners, database
  <2>5. \A s \in Signers : Proven(s)' = Proven(s) /\ (signature[s] = "proven" => Proven(s))
    BY <2>4 DEF Proven
  <2>6. \A s \in seal : Proven(s)'
    BY <2>4, <2>5 DEF SealInvariant, TypeOK
  <2> QED BY <1>1, <2>1, <2>2, <2>3, <2>4, <2>5, <2>6 DEF SealInvariant
<1>9. ASSUME NEW v \in Visitors, FindMissing(v) \/ SatSilent(v) \/ ClearMark(v) \/ Respond(v)
      PROVE  SealInvariant'
  <2>1. UNCHANGED <<signature, owed, seal, copy>>
    BY <1>9 DEF FindMissing, SatSilent, ClearMark, Respond, database
  <2>2. \A w \in Processes : missing'[w] \subseteq MissingEvidence \/ missing'[w] \subseteq missing[w]
    BY <1>2, <1>9 DEF FindMissing, SatSilent, ClearMark, Respond, SealInvariant, TypeOK
  <2>3. \A p \in Processes : pc'[p] = "persisting" => pc[p] = "persisting"
    BY <1>2, <1>9 DEF FindMissing, SatSilent, ClearMark, Respond, Goto, SealInvariant, TypeOK
  <2> QED BY <1>1, <2>1, <2>2, <2>3, Bookkeeping
<1>10. ASSUME NEW v \in Visitors, AskSat(v) PROVE SealInvariant'
  <2>1. PICK s \in missing[v] : /\ signature' = [signature EXCEPT ![s] = "proven"]
                                /\ missing' = [missing EXCEPT ![v] = @ \ {s}]
    BY <1>10 DEF AskSat
  <2>2. s \in Signers /\ signature[s] # "none" /\ owed[s] = "none"
    BY <1>2, <2>1 DEF SealInvariant, TypeOK
  <2>3. UNCHANGED <<owed, seal, pc, copy>>
    BY <1>10 DEF AskSat
  <2>4. \A t \in Signers : Proven(t) => Proven(t)'
    BY <2>1, <2>3 DEF Proven, SealInvariant, TypeOK
  <2>5. \A t \in Signers : owed'[t] # "none" => signature'[t] = "none"
    BY <2>1, <2>2, <2>3 DEF SealInvariant, TypeOK
  <2>6. \A w \in Processes : missing'[w] \subseteq missing[w] /\ missing[w] \subseteq Signers
    BY <1>2, <2>1 DEF SealInvariant, TypeOK
  <2>7. \A t \in Signers : signature[t] # "none" => signature'[t] # "none"
    BY <2>1 DEF SealInvariant, TypeOK
  <2>8. \A w \in Processes : \A t \in missing'[w] : signature'[t] # "none"
    BY <2>6, <2>7 DEF SealInvariant
  <2>9. \A t \in seal : Proven(t)'
    BY <2>4 DEF SealInvariant, TypeOK
  <2> QED BY <1>1, <2>3, <2>4, <2>5, <2>8, <2>9 DEF SealInvariant
<1>11. CASE UNCHANGED vars
  BY <1>1, <1>11, Bookkeeping DEF vars, database, local
<1> QED
  BY <1>2, <1>3, <1>4, <1>5, <1>6, <1>7, <1>8, <1>9, <1>10, <1>11
     DEF Next, Signing, Serve, Sealing

\* The inductive invariant, with the types.
LEMMA SealInvariantHolds == Spec => []SealInvariant
  BY SealInit, SealStep, PTL DEF Spec

\* The state is well typed, whatever fails.
THEOREM TypeCorrect == Spec => []TypeOK
<1>1. SealInvariant => TypeOK
  BY DEF SealInvariant
<1> QED BY <1>1, SealInvariantHolds, PTL

\* Whatever fails and however visits and saves interleave, what was sealed has
\* its OCSP evidence (RetryPendingSealUseCase and the save of a participant).
THEOREM SealsStayProven == Spec => []SealedAreProven
<1>1. SealInvariant => SealedAreProven
  BY DEF SealInvariant, Proven, SealedAreProven
<1> QED BY <1>1, SealInvariantHolds, PTL
-----------------------------------------------------------------------------
(* Nothing is forgotten. *)

\* The finalizer goes through its steps once, and what it or a visitor is about
\* to persist covers somebody.
Finalizing ==
  /\ pc[Finalizer] \in {"sealing", "persisting", "saving", "done"}
  /\ signed <=> pc[Finalizer] = "done"
  /\ copy[Finalizer][Last] # "none"
  /\ \A s \in Signers : owed[s] # "none" \/ signature[s] # "none"
  /\ \A p \in Processes : pc[p] = "persisting" => Advanced(p) # {}

\* A visit finds every participant saved, and whoever seals has taken off the
\* mark, in memory too: he will seal or put it back.
VisitsAreOrderly ==
  \A v \in Visitors :
    /\ pc[v] # "idle" => \A s \in Signers : owed[s] = "none"
    /\ pc[v] \in {"retrying", "asking", "sealing", "persisting"} => copy[v][Last] # "none"
    /\ pc[v] = "sealing" => ~memory[v]

\* The mark is on, the seal exists, or a visitor is about to make one of both.
Remembered ==
  /\ pc[Finalizer] = "saving" => memory[Finalizer] \/ seal # {}
  /\ signed => \/ mark \/ seal # {}
               \/ \E v \in Visitors : pc[v] \in {"sealing", "persisting"}

RetryInvariant == Finalizing /\ (~harmed => VisitsAreOrderly /\ Remembered)

\* Before the finalizer has done anything, no visit is under way.
LEMMA RetryInit == Init => RetryInvariant
<1> SUFFICES ASSUME Init PROVE RetryInvariant
  OBVIOUS
<1>1. Last \in Signers /\ Finalizer \in Processes /\ Visitors \subseteq Processes
      /\ Finalizer \notin Visitors
  BY LastAssumption DEF Processes
<1>2. copy[Finalizer] = [signature EXCEPT ![Last] = owed[Last]] /\ owed[Last] # "none"
      /\ signature \in [Signers -> Signatures]
  BY <1>1 DEF Init
<1>3. copy[Finalizer][Last] # "none"
  BY <1>1, <1>2
<1>4. /\ pc[Finalizer] = "sealing" /\ ~signed
      /\ \A v \in Visitors : pc[v] = "idle"
      /\ \A p \in Processes : pc[p] # "persisting"
      /\ \A s \in Signers : owed[s] # "none" \/ signature[s] # "none"
  BY <1>1 DEF Init
<1> QED BY <1>3, <1>4 DEF RetryInvariant, Finalizing, VisitsAreOrderly, Remembered

\* A failure is never taken back.
LEMMA HarmStays == ASSUME TypeOK, [Next]_vars PROVE harmed => harmed'
  BY DEF Next, Signing, Serve, Sealing, SealNothing, Postpone, CallProvider, PersistSeal, SaveSigned,
         SaveParticipant, ReadDocument, ReadSigners, FindMissing, AskSat, SatSilent,
         ClearMark, Respond, vars, TypeOK

\* The steps of the finalizer.
LEMMA FinalizerStep ==
  ASSUME TypeOK, RetryInvariant, Sealing(Finalizer) \/ SaveSigned, harmed => harmed'
  PROVE  RetryInvariant'
<1>1. Last \in Signers /\ Finalizer \in Processes /\ Visitors \subseteq Processes
      /\ Finalizer \notin Visitors
  BY LastAssumption DEF Processes
<1>2. \A v \in Visitors : pc'[v] = pc[v] /\ memory'[v] = memory[v] /\ copy'[v] = copy[v]
  BY <1>1 DEF Sealing, SealNothing, Postpone, CallProvider, PersistSeal, SaveSigned,
              Return, Goto, TypeOK
<1>3. UNCHANGED <<signature, owed, copy>>
  BY DEF Sealing, SealNothing, Postpone, CallProvider, PersistSeal, SaveSigned, database
<1>4. Last \in Advanced(Finalizer) /\ \A p \in Processes : Advanced(p)' = Advanced(p)
  BY <1>1, <1>3 DEF Advanced, RetryInvariant, Finalizing
<1>5. ~harmed' => VisitsAreOrderly'
  BY <1>2, <1>3 DEF RetryInvariant, VisitsAreOrderly
<1>6. /\ pc' = [pc EXCEPT ![Finalizer] = pc'[Finalizer]]
      /\ \A p \in Processes : p # Finalizer => pc'[p] = pc[p]
  BY <1>1 DEF Sealing, SealNothing, Postpone, CallProvider, PersistSeal, SaveSigned,
              Return, Goto, TypeOK
<1>7. CASE Postpone(Finalizer)
  <2>1. pc'[Finalizer] = "saving" /\ memory'[Finalizer] /\ UNCHANGED signed /\ ~signed
    BY <1>1, <1>7 DEF Postpone, Return, Goto, TypeOK, RetryInvariant, Finalizing
  <2> QED BY <1>3, <1>4, <1>5, <1>6, <2>1 DEF RetryInvariant, Finalizing, Remembered
<1>8. CASE CallProvider(Finalizer)
  <2>1. /\ pc'[Finalizer] = "persisting" \/ (pc'[Finalizer] = "saving" /\ harmed')
        /\ UNCHANGED signed /\ ~signed
    BY <1>1, <1>8 DEF CallProvider, Return, Goto, TypeOK, RetryInvariant, Finalizing, database
  <2> QED BY <1>3, <1>4, <1>5, <1>6, <2>1 DEF RetryInvariant, Finalizing, Remembered
<1>9. CASE PersistSeal(Finalizer)
  <2>1. pc'[Finalizer] = "saving" /\ seal' # {} /\ UNCHANGED signed /\ ~signed
    BY <1>1, <1>4, <1>9 DEF PersistSeal, Return, Goto, TypeOK, RetryInvariant, Finalizing
  <2> QED BY <1>3, <1>4, <1>5, <1>6, <2>1 DEF RetryInvariant, Finalizing, Remembered
<1>10. CASE SaveSigned
  <2>1. /\ pc'[Finalizer] = "done" /\ signed' /\ mark' = memory[Finalizer]
        /\ seal' = seal /\ pc[Finalizer] = "saving" /\ harmed' = harmed
    BY <1>1, <1>10 DEF SaveSigned, Goto, TypeOK
  <2> QED BY <1>3, <1>4, <1>5, <1>6, <2>1 DEF RetryInvariant, Finalizing, Remembered
<1>11. ~SealNothing(Finalizer)
  BY <1>4 DEF SealNothing
<1> QED BY <1>7, <1>8, <1>9, <1>10, <1>11 DEF Sealing

\* What a visitor does to itself only.
LEMMA VisitorStep ==
  ASSUME TypeOK, RetryInvariant, [Next]_vars, harmed => harmed', NEW v \in Visitors,
         \A p \in Processes \ {v} : /\ pc'[p] = pc[p] /\ memory'[p] = memory[p]
                                    /\ copy'[p] = copy[p],
         UNCHANGED <<owed, signed>>,
         \A s \in Signers : signature[s] # "none" => signature'[s] # "none",
         pc'[v] = "persisting" => Advanced(v)' # {},
         ~harmed' => /\ pc'[v] # "idle" => \A s \in Signers : owed[s] = "none"
                     /\ pc'[v] \in {"retrying", "asking", "sealing", "persisting"}
                          => copy'[v][Last] # "none"
                     /\ pc'[v] = "sealing" => ~memory'[v]
                     /\ seal # {} => seal' # {}
                     /\ \/ mark' \/ seal' # {} \/ pc'[v] \in {"sealing", "persisting"}
                        \/ mark' = mark /\ pc[v] \notin {"sealing", "persisting"}
  PROVE  RetryInvariant'
<1>1. Last \in Signers /\ Finalizer \in Processes /\ Visitors \subseteq Processes
      /\ Finalizer # v
  BY LastAssumption DEF Processes
<1>2. Finalizing'
  BY <1>1 DEF RetryInvariant, Finalizing, Advanced
<1>3. ~harmed' => VisitsAreOrderly'
  BY <1>1 DEF RetryInvariant, VisitsAreOrderly
<1>4. ~harmed' => Remembered'
  BY <1>1 DEF RetryInvariant, Remembered
<1> QED BY <1>2, <1>3, <1>4 DEF RetryInvariant

\* Every step.
LEMMA RetryStep ==
  ASSUME SealInvariant, RetryInvariant, [Next]_vars
  PROVE  RetryInvariant'
<1>0. TypeOK /\ (harmed => harmed')
  BY HarmStays DEF SealInvariant
<1>1. Last \in Signers /\ Finalizer \in Processes /\ Visitors \subseteq Processes
      /\ Finalizer \notin Visitors
  BY LastAssumption DEF Processes
<1>2. CASE Sealing(Finalizer) \/ SaveSigned
  BY <1>0, <1>2, FinalizerStep
<1>3. ASSUME NEW s \in Signers, SaveParticipant(s) PROVE RetryInvariant'
  <2>1. /\ owed[s] # "none"
        /\ signature' = [signature EXCEPT ![s] = owed[s]] /\ owed' = [owed EXCEPT ![s] = "none"]
        /\ UNCHANGED <<signed, mark, seal, pc, memory, copy, harmed>>
    BY <1>3 DEF SaveParticipant, local
  <2>2. \A t \in Signers : /\ owed'[t] # "none" \/ signature'[t] # "none"
                           /\ owed[t] = "none" => owed'[t] = "none"
    BY <1>0, <2>1 DEF RetryInvariant, Finalizing, TypeOK
  <2>3. \A p \in Processes : Advanced(p)' = Advanced(p)
    BY <2>1 DEF Advanced
  <2>4. Finalizing'
    BY <1>1, <2>1, <2>2, <2>3 DEF RetryInvariant, Finalizing
  <2>5. ~harmed' => VisitsAreOrderly' /\ Remembered'
    BY <2>1, <2>2 DEF RetryInvariant, VisitsAreOrderly, Remembered
  <2> QED BY <2>4, <2>5 DEF RetryInvariant
<1>4. ASSUME NEW v \in Visitors, ReadDocument(v) PROVE RetryInvariant'
  <2>1. /\ pc[v] = "idle" /\ pc' = [pc EXCEPT ![v] = "document_read"]
        /\ memory' = [memory EXCEPT ![v] = mark]
        /\ harmed' = (harmed \/ \E s \in Signers : owed[s] # "none")
        /\ UNCHANGED <<database, copy>>
    BY <1>4 DEF ReadDocument, Goto
  <2> QED BY <1>0, <1>1, <2>1, VisitorStep DEF database, TypeOK
<1>5. ASSUME NEW v \in Visitors, ReadSigners(v) PROVE RetryInvariant'
  <2>1. /\ pc[v] = "document_read" /\ copy' = [copy EXCEPT ![v] = signature]
        /\ pc' = [pc EXCEPT ![v] = IF memory[v] THEN "retrying" ELSE "responding"]
        /\ UNCHANGED <<database, memory, harmed>>
    BY <1>5 DEF ReadSigners, Goto
  <2>2. ~harmed => signature[Last] # "none" /\ \A s \in Signers : owed[s] = "none"
    BY <1>1, <2>1 DEF RetryInvariant, Finalizing, VisitsAreOrderly
  <2> QED BY <1>0, <1>1, <2>1, <2>2, VisitorStep DEF database, TypeOK
<1>6. ASSUME NEW v \in Visitors, FindMissing(v) \/ SatSilent(v) \/ Respond(v)
      PROVE  RetryInvariant'
  <2>1. /\ pc[v] \notin {"idle", "sealing", "persisting"}
        /\ \/ pc[v] = "retrying" /\ pc' = [pc EXCEPT ![v] = "asking"]
           \/ pc' = [pc EXCEPT ![v] = "responding"]
           \/ pc' = [pc EXCEPT ![v] = "idle"]
        /\ UNCHANGED <<database, memory, copy, harmed>>
    BY <1>6 DEF FindMissing, SatSilent, Respond, Goto
  <2>2. ~harmed => /\ \A s \in Signers : owed[s] = "none"
                   /\ pc[v] = "retrying" => copy[v][Last] # "none"
    BY <2>1 DEF RetryInvariant, VisitsAreOrderly
  <2> QED BY <1>0, <1>1, <2>1, <2>2, VisitorStep DEF database, TypeOK
<1>7. ASSUME NEW v \in Visitors, AskSat(v) PROVE RetryInvariant'
  <2>1. /\ pc[v] = "asking" /\ UNCHANGED <<owed, signed, mark, seal, pc, memory, copy, harmed>>
        /\ \E s \in missing[v] : signature' = [signature EXCEPT ![s] = "proven"]
    BY <1>7 DEF AskSat
  <2>2. \A t \in Signers : signature[t] # "none" => signature'[t] # "none"
    BY <1>0, <2>1 DEF TypeOK
  <2>3. ~harmed => /\ \A s \in Signers : owed[s] = "none"
                   /\ copy[v][Last] # "none"
    BY <2>1 DEF RetryInvariant, VisitsAreOrderly
  <2> QED BY <1>0, <1>1, <2>1, <2>2, <2>3, VisitorStep
<1>8. ASSUME NEW v \in Visitors, ClearMark(v) PROVE RetryInvariant'
  <2>1. /\ pc[v] = "asking" /\ pc' = [pc EXCEPT ![v] = "sealing"]
        /\ memory' = [memory EXCEPT ![v] = FALSE]
        /\ UNCHANGED <<signature, owed, signed, seal, copy, harmed>>
    BY <1>8 DEF ClearMark, Goto
  <2>2. ~harmed => /\ \A s \in Signers : owed[s] = "none"
                   /\ copy[v][Last] # "none"
    BY <2>1 DEF RetryInvariant, VisitsAreOrderly
  <2> QED BY <1>0, <1>1, <2>1, <2>2, VisitorStep DEF TypeOK
<1>9. ASSUME NEW v \in Visitors, Sealing(v) PROVE RetryInvariant'
  <2>0. /\ pc[v] \in {"sealing", "persisting"}
        /\ ~harmed => /\ \A s \in Signers : owed[s] = "none"
                      /\ copy[v][Last] # "none" /\ (pc[v] = "sealing" => ~memory[v])
    BY <1>9 DEF RetryInvariant, VisitsAreOrderly, Sealing, SealNothing, Postpone,
                CallProvider, PersistSeal
  <2>1. CASE SealNothing(v)
    <3>1. harmed /\ pc' = [pc EXCEPT ![v] = "responding"] /\ UNCHANGED <<database, memory, copy, harmed>>
      BY <1>1, <2>0, <2>1 DEF SealNothing, Advanced, Return, Goto
    <3> QED BY <1>0, <1>1, <3>1, VisitorStep DEF database, TypeOK
  <2>2. CASE Postpone(v)
    <3>1. /\ pc[v] = "sealing" /\ pc' = [pc EXCEPT ![v] = "responding"]
          /\ memory' = [memory EXCEPT ![v] = TRUE]
          /\ UNCHANGED <<signature, owed, signed, seal, copy>>
          /\ harmed' \/ (mark' = (mark \/ ~memory[v]) /\ harmed' = harmed)
      BY <1>1, <2>2 DEF Postpone, Return, Goto
    <3>2. ~harmed' => mark'
      BY <2>0, <3>1
    <3> QED BY <1>0, <1>1, <2>0, <3>1, <3>2, VisitorStep DEF TypeOK
  <2>3. CASE CallProvider(v)
    <3>1. /\ Advanced(v) # {} /\ UNCHANGED <<database, memory, copy>>
          /\ \/ pc' = [pc EXCEPT ![v] = "persisting"] /\ harmed' = harmed
             \/ pc' = [pc EXCEPT ![v] = "responding"] /\ harmed'
      BY <1>1, <2>3 DEF CallProvider, Return, Goto
    <3>2. Advanced(v)' # {}
      BY <3>1 DEF Advanced
    <3> QED BY <1>0, <1>1, <2>0, <3>1, <3>2, VisitorStep DEF database, TypeOK
  <2>4. CASE PersistSeal(v)
    <3>1. /\ pc[v] = "persisting" /\ pc' = [pc EXCEPT ![v] = "responding"]
          /\ seal' = IF seal = {} THEN Advanced(v) ELSE seal
          /\ UNCHANGED <<signature, owed, signed, mark, memory, copy, harmed>>
      BY <1>1, <2>4 DEF PersistSeal, Return, Goto
    <3>2. seal' # {}
      BY <1>1, <3>1 DEF RetryInvariant, Finalizing
    <3> QED BY <1>0, <1>1, <2>0, <3>1, <3>2, VisitorStep DEF TypeOK
  <2> QED BY <1>9, <2>1, <2>2, <2>3, <2>4 DEF Sealing
<1>10. CASE UNCHANGED vars
  <2>1. UNCHANGED <<signature, owed, signed, mark, seal, pc, memory, copy, harmed>>
    BY <1>10 DEF vars, database, local
  <2> QED BY <2>1 DEF RetryInvariant, Finalizing, VisitsAreOrderly, Remembered, Advanced
<1> QED BY <1>2, <1>3, <1>4, <1>5, <1>6, <1>7, <1>8, <1>9, <1>10 DEF Next, Signing, Serve

\* However many visits interleave and however long the SAT is silent, a document
\* is sealed or keeps the mark that makes the next visit retry it, unless Seal
\* Service or the mark failed, or a visit came before the last save
\* (completePendingSealIfDue, clearPending and markSealingPending).
THEOREM MarkOrSeal == Spec => []NothingForgotten
<1>1. RetryInvariant => NothingForgotten
  BY DEF RetryInvariant, Remembered, NothingForgotten, Processes
<1>2. Init => SealInvariant /\ RetryInvariant
  BY SealInit, RetryInit
<1>3. SealInvariant /\ RetryInvariant /\ [Next]_vars => (SealInvariant /\ RetryInvariant)'
  BY SealStep, RetryStep
<1> QED BY <1>1, <1>2, <1>3, PTL DEF Spec

-----------------------------------------------------------------------------
(* The biometric signature: what each of its parts holds.                  *)

Statuses == {"PENDING", "IN_PROGRESS", "APPROVED", "DECLINED", "EXPIRED", "FAILED"}
Row == [status : Statuses, saved : BOOLEAN, guest : BOOLEAN]

ClickPoints == {"idle", "looking", "closing", "inserting", "yielding", "calling", "failing",
                "saving"}
HandlerPoints == {"idle", "registering", "moving", "approving", "validating", "claiming",
                  "finishing", "refused", "giving up"}
Control == [pc : ClickPoints \cup HandlerPoints, attempt : 0..MaxAttempts,
            status : Verdicts \cup {"none"}, seen : Statuses \cup {"none"}, guest : BOOLEAN]

\* The statuses in which a session ends.
Final == {"APPROVED", "UNPROVEN", "DECLINED", "EXPIRED"}

\* Where a click has an attempt of its own, and a delivery one whose approval is written.
Beginning(c) == proc[c].pc \in {"calling", "failing", "saving"}
Deciding(h) == proc[h].pc \in {"validating", "claiming", "finishing", "refused", "giving up"}
Approving(h, i) == proc[h].pc = "approving" /\ Attempt(h) = i

Approved(i) == attempts[i].status = "APPROVED"

\* What happened to the document or the account, so that the approval does not sign.
Spoiled(i) == ~open \/ attempts[i].guest # guest

\* Approved and standing, or spoiled.
Stands(i) == Approved(i) \/ Spoiled(i)

Typed ==
  /\ attempts \in Seq(Row) /\ Len(attempts) <= MaxAttempts
  /\ didit \in [Ids -> Verdicts \cup {"none"}]
  /\ sent \subseteq Ids \X Verdicts
  /\ signer \in {"PENDING", "SIGNED", "REJECTED"} /\ guest \in BOOLEAN /\ open \in BOOLEAN
  /\ proc \in [Procs -> Control]

\* What Didit tells of the end of a session is its end, and it opens those it is asked for.
Heard == /\ \A e \in sent : e[2] \in Final => didit[e[1]] = e[2]
         /\ \A e \in sent : e[1] \in DOMAIN attempts
         /\ \A i \in Ids \ DOMAIN attempts : didit[i] = "none"

\* Who rejects closes the document; who signed did so by an approved attempt that stands.
Signed == /\ signer = "REJECTED" => ~open
          /\ signer = "SIGNED" => /\ signedBy \in DOMAIN attempts
                                  /\ didit[signedBy] = "APPROVED" /\ Stands(signedBy)

\* The session of a click is nobody else's until it is saved.
ClickOk(c) ==
  /\ proc[c].pc \in ClickPoints
  /\ proc[c].pc = "closing" => Attempt(c) \in DOMAIN attempts /\ proc[c].seen \in ActiveStatuses
  /\ Beginning(c) => Attempt(c) \in DOMAIN attempts /\ ~attempts[Attempt(c)].saved
  /\ proc[c].pc = "calling" => didit[Attempt(c)] = "none"
  /\ proc[c].pc \in {"looking", "closing", "inserting"} /\ guest => proc[c].guest
ClicksApart == \A c, d \in Clicks :
  Beginning(c) /\ Beginning(d) /\ Attempt(c) = Attempt(d) => c = d

\* A delivery works on a saved attempt, and is refused for a reason that remains.
HandlerOk(h) ==
  /\ proc[h].pc \in HandlerPoints
  /\ proc[h].pc # "idle" => /\ Attempt(h) \in DOMAIN attempts /\ proc[h].status \in Verdicts
                            /\ Event(h) \in sent
  /\ proc[h].pc \notin {"idle", "registering"} => attempts[Attempt(h)].saved
  /\ proc[h].pc = "moving" => proc[h].seen \in ActiveStatuses /\ proc[h].status # "APPROVED"
  /\ proc[h].pc = "approving" => proc[h].status = "APPROVED" /\ didit[Attempt(h)] = "APPROVED"
  /\ Deciding(h) => didit[Attempt(h)] = "APPROVED" /\ ~Active(Attempt(h)) /\ Stands(Attempt(h))
  /\ proc[h].pc = "finishing" => signer = "SIGNED"
  /\ proc[h].pc = "refused" => signer = "SIGNED" \/ Spoiled(Attempt(h))
  /\ proc[h].pc = "giving up" => Spoiled(Attempt(h))

\* An account is linked once, and only the webhook of its session approves an attempt.
AttemptOk(i) ==
  /\ guest => attempts[i].guest
  /\ Approved(i) => attempts[i].saved /\ didit[i] = "APPROVED"

BioInvariant ==
  /\ Typed /\ Heard /\ Signed /\ ClicksApart
  /\ \A c \in Clicks : ClickOk(c)
  /\ \A h \in Handlers : HandlerOk(h)
  /\ \A i \in DOMAIN attempts : AttemptOk(i)

-----------------------------------------------------------------------------
(* What a step does to what others hold. *)

\* Attempts are never deleted, one that was closed changes to FAILED at most, and an
\* approval stands.
AttemptsGo ==
  \A i \in DOMAIN attempts :
    /\ i \in DOMAIN attempts' /\ attempts'[i].guest = attempts[i].guest
    /\ attempts[i].saved => attempts'[i].saved
    /\ ~Active(i) => attempts'[i].status \in {attempts[i].status, "FAILED"}
    /\ Approved(i) => attempts'[i].status = "APPROVED" \/ Spoiled(i)

\* An ended session has ended, an answered signer has answered, a closed document is
\* closed, and an account is not unlinked.
WorldGoes ==
  /\ \A i \in Ids : didit[i] \in Final => didit'[i] = didit[i]
  /\ signer # "PENDING" => signer' = signer /\ signedBy' = signedBy
  /\ open' => open
  /\ guest' => guest
  /\ sent \subseteq sent'

\* What every step does.
Advance == BioInvariant' /\ AttemptsGo /\ WorldGoes

\* What is known of the attempts there are.
LEMMA RowIs ==
  ASSUME Typed, NEW i \in DOMAIN attempts
  PROVE  /\ i \in Ids /\ attempts[i] \in Row /\ attempts[i].status \in Statuses
         /\ attempts[i].saved \in BOOLEAN /\ attempts[i].guest \in BOOLEAN
<1>1. /\ Len(attempts) \in Nat /\ DOMAIN attempts = 1..Len(attempts)
      /\ Len(attempts) <= MaxAttempts /\ attempts[i] \in Row
  BY DEF Typed
<1> QED BY <1>1, BoundAssumption DEF Ids, Row

\* The reasons for which an approval does not sign remain.
LEMMA SpoiledStays ==
  ASSUME BioInvariant, AttemptsGo, WorldGoes, NEW i \in DOMAIN attempts,
         guest' \in BOOLEAN, open' \in BOOLEAN
  PROVE  /\ Spoiled(i) => Spoiled(i)'
         /\ Stands(i) => Stands(i)'
<1>1. /\ guest => attempts[i].guest
      /\ guest \in BOOLEAN /\ attempts[i].guest \in BOOLEAN
  BY RowIs DEF BioInvariant, AttemptOk, Typed
<1>2. Spoiled(i) => Spoiled(i)'
  BY <1>1 DEF Spoiled, AttemptsGo, WorldGoes
<1> QED BY <1>2 DEF Stands, Approved, AttemptsGo

\* The deliveries that do not move keep what they hold.
LEMMA HandlersKept ==
  ASSUME BioInvariant, AttemptsGo, WorldGoes, guest' \in BOOLEAN, open' \in BOOLEAN,
         NEW h \in Handlers, proc'[h] = proc[h]
  PROVE  HandlerOk(h)'
<1>0. PICK i : i = Attempt(h)
  OBVIOUS
<1>1. HandlerOk(h) /\ (proc[h].pc # "idle" => i \in DOMAIN attempts /\ i \in Ids)
  <2>1. HandlerOk(h) /\ (proc[h].pc # "idle" => i \in DOMAIN attempts)
    BY <1>0 DEF BioInvariant, HandlerOk
  <2> QED BY <2>1, RowIs DEF BioInvariant
<1>2. /\ Attempt(h)' = i /\ (Deciding(h)' <=> Deciding(h))
      /\ Event(h)' = Event(h) /\ sent \subseteq sent'
  BY <1>0 DEF Attempt, Deciding, Event, WorldGoes
<1>3. CASE proc[h].pc = "idle"
  BY <1>1, <1>3 DEF HandlerOk, Deciding, HandlerPoints
<1>4. CASE proc[h].pc # "idle"
  <2>1. (Spoiled(i) => Spoiled(i)') /\ (Stands(i) => Stands(i)')
    BY <1>1, <1>4, SpoiledStays
  <2>2. /\ i \in DOMAIN attempts' /\ (attempts[i].saved => attempts'[i].saved)
        /\ (~Active(i) => ~Active(i)')
        /\ (didit[i] = "APPROVED" => didit'[i] = "APPROVED")
        /\ (signer = "SIGNED" => signer' = "SIGNED")
    BY <1>1, <1>4 DEF AttemptsGo, WorldGoes, Active, ActiveStatuses, Final
  <2> QED BY <1>0, <1>1, <1>2, <1>4, <2>1, <2>2 DEF HandlerOk
<1> QED BY <1>3, <1>4

\* So do the clicks, when nobody saves their attempt or opens their session.
LEMMA ClicksKept ==
  ASSUME BioInvariant, AttemptsGo, WorldGoes, NEW c \in Clicks, proc'[c] = proc[c],
         Beginning(c) => attempts'[Attempt(c)].saved = attempts[Attempt(c)].saved,
         proc[c].pc = "calling" => didit'[Attempt(c)] = didit[Attempt(c)]
  PROVE  ClickOk(c)'
<1>1. ClickOk(c)
  BY DEF BioInvariant
<1>2. Attempt(c)' = Attempt(c) /\ (Beginning(c)' <=> Beginning(c))
  BY DEF Attempt, Beginning
<1> QED BY <1>1, <1>2 DEF ClickOk, AttemptsGo, WorldGoes, Beginning

\* An attempt nobody touches is as it was.
LEMMA AttemptKept ==
  ASSUME BioInvariant, WorldGoes, NEW i \in DOMAIN attempts, attempts'[i] = attempts[i]
  PROVE  AttemptOk(i)'
<1>1. AttemptOk(i) /\ i \in Ids
  BY RowIs DEF BioInvariant
<1>2. Approved(i)' <=> Approved(i)
  BY DEF Approved
<1> QED BY <1>1, <1>2 DEF AttemptOk, WorldGoes, Final

\* Who signed did so by an approval that stands, still.
LEMMA SignedKept ==
  ASSUME BioInvariant, AttemptsGo, WorldGoes, guest' \in BOOLEAN, open' \in BOOLEAN,
         signer' = signer, signedBy' = signedBy
  PROVE  Signed'
<1>1. Signed
  BY DEF BioInvariant
<1>2. CASE signer = "SIGNED"
  <2>1. PICK i \in DOMAIN attempts : i = signedBy
    BY <1>1, <1>2 DEF Signed
  <2>2. Stands(i)' /\ i \in DOMAIN attempts' /\ i \in Ids
    BY <1>1, <1>2, <2>1, SpoiledStays, RowIs DEF Signed, AttemptsGo, BioInvariant
  <2>3. didit'[i] = "APPROVED"
    BY <1>1, <1>2, <2>1, <2>2 DEF Signed, WorldGoes, Final
  <2> QED BY <1>2, <2>1, <2>2, <2>3 DEF Signed
<1>3. CASE signer # "SIGNED"
  BY <1>1, <1>3 DEF Signed, WorldGoes
<1> QED BY <1>2, <1>3

\* A step of one process, which leaves the others where they were.
LEMMA StepOf ==
  ASSUME BioInvariant, AttemptsGo, WorldGoes, Typed', Heard', Signed',
         NEW p \in Procs, \A o \in Procs \ {p} : proc'[o] = proc[o],
         \A c \in Clicks \ {p} :
           /\ Beginning(c) => attempts'[Attempt(c)].saved = attempts[Attempt(c)].saved
           /\ proc[c].pc = "calling" => didit'[Attempt(c)] = didit[Attempt(c)],
         p \in Clicks => ClickOk(p)', p \in Handlers => HandlerOk(p)',
         p \in Clicks /\ Beginning(p)' =>
           (Beginning(p) /\ Attempt(p)' = Attempt(p)) \/ Attempt(p)' \notin DOMAIN attempts,
         \A i \in DOMAIN attempts' : AttemptOk(i)'
  PROVE  Advance
<1>1. guest' \in BOOLEAN /\ open' \in BOOLEAN
  BY DEF Typed
<1>2. \A h \in Handlers : HandlerOk(h)'
  BY <1>1, HandlersKept DEF Procs
<1>3. \A c \in Clicks : ClickOk(c)'
  BY ClicksKept DEF Procs
<1>4. \A c \in Clicks \ {p} : Attempt(c)' = Attempt(c) /\ (Beginning(c)' <=> Beginning(c))
  BY DEF Attempt, Beginning, Procs
<1>5. \A c \in Clicks : Beginning(c) => Attempt(c) \in DOMAIN attempts
  BY DEF BioInvariant, ClickOk
<1>6. ClicksApart'
  BY <1>4, <1>5 DEF BioInvariant, ClicksApart
<1> QED BY <1>2, <1>3, <1>6 DEF BioInvariant, Advance

\* A step of none of them.
LEMMA StepElsewhere ==
  ASSUME BioInvariant, AttemptsGo, WorldGoes, Typed', Heard', Signed', UNCHANGED proc,
         \A c \in Clicks :
           /\ Beginning(c) => attempts'[Attempt(c)].saved = attempts[Attempt(c)].saved
           /\ proc[c].pc = "calling" => didit'[Attempt(c)] = didit[Attempt(c)],
         \A i \in DOMAIN attempts' : AttemptOk(i)'
  PROVE  Advance
<1>1. guest' \in BOOLEAN /\ open' \in BOOLEAN
  BY DEF Typed
<1>2. \A h \in Handlers : HandlerOk(h)'
  BY <1>1, HandlersKept DEF Procs
<1>3. \A c \in Clicks : ClickOk(c)'
  BY ClicksKept DEF Procs
<1>4. \A c \in Clicks : Attempt(c)' = Attempt(c) /\ (Beginning(c)' <=> Beginning(c))
  BY DEF Attempt, Beginning, Procs
<1>6. ClicksApart'
  BY <1>4 DEF BioInvariant, ClicksApart
<1> QED BY <1>2, <1>3, <1>6 DEF BioInvariant, Advance

\* Where a process goes.
LEMMA Moved ==
  ASSUME Typed, NEW p \in Procs, NEW r \in Control, proc' = [proc EXCEPT ![p] = r]
  PROVE  /\ proc' \in [Procs -> Control] /\ proc'[p] = r /\ Attempt(p)' = r.attempt
         /\ \A o \in Procs \ {p} : proc'[o] = proc[o]
<1>1. proc \in [Procs -> Control]
  BY DEF Typed
<1> HIDE DEF Control
<1>2. /\ proc' \in [Procs -> Control] /\ proc'[p] = r
      /\ \A o \in Procs \ {p} : proc'[o] = proc[o]
  BY <1>1
<1> QED BY <1>2 DEF Attempt

\* A process at rest.
LEMMA IdleIs == /\ Idle \in Control /\ Idle.pc = "idle" /\ Idle.attempt = 0
                /\ Idle.guest = FALSE
  BY BoundAssumption DEF Idle, Control, ClickPoints

\* Where it goes with what it has.
LEMMA ProceedsTo ==
  ASSUME Typed, NEW p \in Procs, NEW x \in ClickPoints \cup HandlerPoints, Proceed(p, x)
  PROVE  \E r \in Control :
           /\ proc' = [proc EXCEPT ![p] = r] /\ r.pc = x /\ r.attempt = proc[p].attempt
           /\ r.status = proc[p].status /\ r.seen = proc[p].seen /\ r.guest = proc[p].guest
<1> DEFINE r == [proc[p] EXCEPT !.pc = x]
<1>1. proc[p] \in Control /\ proc' = [proc EXCEPT ![p] = r]
  BY DEF Typed, Proceed
<1>2. r \in Control /\ r.pc = x /\ r.attempt = proc[p].attempt /\ r.status = proc[p].status
      /\ r.seen = proc[p].seen /\ r.guest = proc[p].guest
  BY <1>1 DEF Control
<1> QED BY <1>1, <1>2

-----------------------------------------------------------------------------
(* The clicks. *)

\* A click that looks, or that ends, moves nothing but itself.
LEMMA ClickMoves ==
  ASSUME BioInvariant, NEW c \in Clicks, NEW r \in Control, proc' = [proc EXCEPT ![c] = r],
         UNCHANGED <<attempts, didit, sent, signing>>,
         r.pc \in ClickPoints \ {"calling", "failing", "saving"},
         r.pc = "closing" => r.attempt \in DOMAIN attempts /\ r.seen \in ActiveStatuses,
         r.pc \in {"looking", "closing", "inserting"} /\ guest => r.guest
  PROVE  Advance
<1>0. Typed /\ c \in Procs /\ c \notin Handlers
  BY ProcsAssumption DEF BioInvariant, Procs
<1>1. /\ proc' \in [Procs -> Control] /\ proc'[c] = r /\ Attempt(c)' = r.attempt
      /\ \A o \in Procs \ {c} : proc'[o] = proc[o]
  BY <1>0, Moved
<1>3. AttemptsGo /\ WorldGoes /\ Typed' /\ Heard'
  BY <1>0, <1>1 DEF AttemptsGo, WorldGoes, Typed, Heard, BioInvariant, signing, Active, Approved
<1>4. Signed'
  BY <1>3, SignedKept DEF signing, Typed
<1>5. ClickOk(c)' /\ ~Beginning(c)'
  BY <1>1 DEF ClickOk, Beginning, signing
<1>6. ASSUME NEW i \in DOMAIN attempts PROVE AttemptOk(i)'
  BY <1>3, AttemptKept
<1> QED BY <1>0, <1>1, <1>3, <1>4, <1>5, <1>6, StepOf

\* Those steps.
LEMMA LookingKeeps ==
  ASSUME BioInvariant, NEW c \in Clicks, Start(c) \/ FindActive(c) \/ Yield(c) \/ AbortClick(c)
  PROVE  Advance
<1>0. Typed /\ c \in Procs /\ proc[c] \in Control /\ guest \in BOOLEAN
  BY DEF BioInvariant, Typed, Procs
<1>1. UNCHANGED <<attempts, didit, sent, signing>>
  BY DEF Start, FindActive, Yield, AbortClick, provider
<1>2. CASE proc' = [proc EXCEPT ![c] = Idle]
  BY <1>1, <1>2, IdleIs, ClickMoves DEF ClickPoints
<1>3. CASE Start(c)
  <2> DEFINE r == [proc[c] EXCEPT !.pc = "looking", !.guest = guest]
  <2>1. proc' = [proc EXCEPT ![c] = r] /\ r \in Control /\ r.pc = "looking" /\ r.guest = guest
    BY <1>0, <1>3 DEF Start, Control, ClickPoints
  <2> HIDE DEF r
  <2> QED BY <1>1, <2>1, ClickMoves DEF ClickPoints
<1>4. CASE FindActive(c) /\ Proceed(c, "inserting")
  <2>1. "inserting" \in ClickPoints
    BY DEF ClickPoints
  <2>2. PICK r \in Control : /\ proc' = [proc EXCEPT ![c] = r] /\ r.pc = "inserting"
                             /\ r.guest = proc[c].guest
    BY <1>0, <1>4, <2>1, ProceedsTo
  <2>3. guest => proc[c].guest
    BY <1>4 DEF BioInvariant, ClickOk, FindActive, At
  <2> QED BY <1>1, <2>1, <2>2, <2>3, ClickMoves
<1>5. CASE /\ FindActive(c)
           /\ \E i \in Open : proc' = [proc EXCEPT ![c].pc = "closing", ![c].attempt = i,
                                                   ![c].seen = attempts[i].status]
  <2>1. PICK i \in Open : proc' = [proc EXCEPT ![c].pc = "closing", ![c].attempt = i,
                                                   ![c].seen = attempts[i].status]
    BY <1>5
  <2>2. i \in DOMAIN attempts /\ i \in 0..MaxAttempts
        /\ attempts[i].status \in ActiveStatuses /\ attempts[i].status \in Statuses
    BY <1>0, RowIs, BoundAssumption DEF Open, Active, Ids
  <2> DEFINE r == [proc[c] EXCEPT !.pc = "closing", !.attempt = i, !.seen = attempts[i].status]
  <2>3. /\ proc' = [proc EXCEPT ![c] = r] /\ r \in Control /\ r.pc = "closing"
        /\ r.attempt = i /\ r.seen = attempts[i].status /\ r.guest = proc[c].guest
    BY <1>0, <2>1, <2>2 DEF Control, ClickPoints
  <2>4. guest => proc[c].guest
    BY <1>5 DEF BioInvariant, ClickOk, FindActive, At
  <2> HIDE DEF r
  <2> QED BY <1>1, <2>2, <2>3, <2>4, ClickMoves DEF ClickPoints
<1> QED BY <1>2, <1>3, <1>4, <1>5 DEF FindActive, Yield, AbortClick

\* A status written, and nothing else.
LEMMA Written ==
  ASSUME Typed, NEW i \in DOMAIN attempts, NEW s \in Statuses, Write(i, s)
  PROVE  /\ attempts' \in Seq(Row) /\ Len(attempts') = Len(attempts)
         /\ DOMAIN attempts' = DOMAIN attempts
         /\ attempts'[i].status = s /\ attempts'[i].saved = attempts[i].saved
         /\ attempts'[i].guest = attempts[i].guest
         /\ \A j \in DOMAIN attempts \ {i} : attempts'[j] = attempts[j]
<1> DEFINE x == [attempts[i] EXCEPT !.status = s]
<1>1. attempts[i] \in Row /\ attempts \in Seq(Row)
  BY RowIs DEF Typed
<1>2. /\ x \in Row /\ x.status = s /\ x.saved = attempts[i].saved
      /\ x.guest = attempts[i].guest /\ attempts' = [attempts EXCEPT ![i] = x]
  BY <1>1 DEF Row, Write
<1> HIDE DEF x, Row
<1> QED BY <1>1, <1>2

\* A status written over an active one, or that closes what was not approved for good.
LEMMA WrittenGoes ==
  ASSUME BioInvariant, NEW i \in DOMAIN attempts, NEW s \in Statuses, Write(i, s),
         Active(i) \/ s = "FAILED",
         Approved(i) => s = "APPROVED" \/ Spoiled(i)
  PROVE  AttemptsGo
<1>1. ASSUME NEW j \in DOMAIN attempts
      PROVE  /\ j \in DOMAIN attempts' /\ attempts'[j].guest = attempts[j].guest
             /\ attempts'[j].saved = attempts[j].saved
             /\ ~Active(j) => attempts'[j].status \in {attempts[j].status, "FAILED"}
             /\ Approved(j) => attempts'[j].status = "APPROVED" \/ Spoiled(j)
  <2>1. CASE j = i
    BY <2>1, Written DEF BioInvariant
  <2>2. CASE j # i
    BY <2>2, Written DEF BioInvariant, Active, Approved
  <2> QED BY <2>1, <2>2
<1> QED BY <1>1 DEF AttemptsGo

\* An attempt that is not approved owes nothing.
LEMMA ClosedIsOk ==
  ASSUME BioInvariant, WorldGoes, NEW i \in DOMAIN attempts,
         attempts'[i].status # "APPROVED",
         attempts'[i].guest = attempts[i].guest
  PROVE  AttemptOk(i)'
  BY DEF BioInvariant, AttemptOk, WorldGoes, Approved

\* Where a process goes that changes no attempt, and approves none.
LEMMA QuietStep ==
  ASSUME BioInvariant, NEW p \in Procs, NEW r \in Control, proc' = [proc EXCEPT ![p] = r],
         UNCHANGED <<attempts, didit, sent, signing>>,
         p \in Clicks => ClickOk(p)' /\ ~Beginning(p)', p \in Handlers => HandlerOk(p)',
         \A i \in DOMAIN attempts : AttemptOk(i)'
  PROVE  Advance
<1>0. Typed
  BY DEF BioInvariant
<1>1. /\ proc' \in [Procs -> Control] /\ \A o \in Procs \ {p} : proc'[o] = proc[o]
  BY <1>0, Moved
<1>2. AttemptsGo /\ WorldGoes /\ Typed' /\ Heard'
  BY <1>0, <1>1 DEF AttemptsGo, WorldGoes, Typed, Heard, BioInvariant, signing, Active, Approved
<1>3. Signed'
  BY <1>2, SignedKept DEF signing, Typed
<1> QED BY <1>1, <1>2, <1>3, StepOf

\* A process writes another status than the approval in attempt i.
LEMMA WritingStep ==
  ASSUME BioInvariant, NEW p \in Procs, NEW r \in Control, proc' = [proc EXCEPT ![p] = r],
         NEW i \in DOMAIN attempts, NEW s \in Statuses \ {"APPROVED"},
         Write(i, s), Active(i) \/ s = "FAILED", Approved(i) => Spoiled(i),
         UNCHANGED <<didit, sent, signing>>,
         p \in Clicks => ClickOk(p)' /\ ~Beginning(p)', p \in Handlers => HandlerOk(p)'
  PROVE  Advance
<1>0. Typed
  BY DEF BioInvariant
<1>1. /\ proc' \in [Procs -> Control] /\ \A o \in Procs \ {p} : proc'[o] = proc[o]
  BY <1>0, Moved
<1>2. /\ attempts' \in Seq(Row) /\ Len(attempts') = Len(attempts)
      /\ DOMAIN attempts' = DOMAIN attempts /\ attempts'[i].status = s
      /\ attempts'[i].guest = attempts[i].guest
      /\ \A j \in DOMAIN attempts \ {i} : attempts'[j] = attempts[j]
      /\ \A j \in DOMAIN attempts : attempts'[j].saved = attempts[j].saved
  BY <1>0, Written
<1>3. AttemptsGo
  BY WrittenGoes
<1>4. WorldGoes /\ Typed' /\ Heard'
  BY <1>0, <1>1, <1>2 DEF WorldGoes, Typed, Heard, BioInvariant, signing
<1>5. Signed'
  BY <1>3, <1>4, SignedKept DEF signing, Typed
<1>6. ASSUME NEW j \in DOMAIN attempts PROVE AttemptOk(j)'
  <2>1. CASE j = i
    BY <1>2, <1>4, <2>1, ClosedIsOk
  <2>2. CASE j # i
    BY <1>0, <1>1, <1>2, <1>4, <2>2, AttemptKept, RowIs
  <2> QED BY <2>1, <2>2
<1>7. \A d \in Clicks : Beginning(d) => Attempt(d) \in DOMAIN attempts
  BY DEF BioInvariant, ClickOk
<1> QED BY <1>1, <1>2, <1>3, <1>4, <1>5, <1>6, <1>7, StepOf

\* A click closes the attempt that is of no use: one that was approved meanwhile is not
\* written, for the click read it active.
LEMMA CloseUnusableKeeps ==
  ASSUME BioInvariant, NEW c \in Clicks, CloseUnusable(c)
  PROVE  Advance
<1>0. Typed /\ c \in Procs /\ c \notin Handlers /\ proc[c] \in Control /\ ClickOk(c)
  BY ProcsAssumption DEF BioInvariant, Typed, Procs
<1>1. PICK i, s : /\ i = Attempt(c) /\ s = (IF i \in lapsed THEN "EXPIRED" ELSE "FAILED")
                  /\ WriteIf(i, proc[c].seen, s)
  BY DEF CloseUnusable, Attempt
<1>2. /\ i \in DOMAIN attempts /\ proc[c].seen \in ActiveStatuses
      /\ s \in Statuses \ {"APPROVED"} /\ (guest => proc[c].guest)
  BY <1>0, <1>1 DEF ClickOk, CloseUnusable, At, Statuses, ActiveStatuses
<1> DEFINE r == [Idle EXCEPT !.pc = "inserting", !.guest = proc[c].guest]
<1>3. /\ proc' = [proc EXCEPT ![c] = r] /\ r \in Control /\ r.pc = "inserting"
      /\ r.guest = proc[c].guest
  <2>1. proc' = [proc EXCEPT ![c] = r] /\ proc[c].guest \in BOOLEAN
    BY <1>0 DEF CloseUnusable, Control
  <2>2. r \in Control /\ r.pc = "inserting" /\ r.guest = proc[c].guest
    BY <2>1, IdleIs DEF Control, ClickPoints
  <2> QED BY <2>1, <2>2
<1> HIDE DEF r
<1>4. UNCHANGED <<didit, sent, signing>>
  BY DEF CloseUnusable, provider
<1>6. proc'[c] = r
  BY <1>0, <1>3, Moved
<1>7. ClickOk(c)' /\ ~Beginning(c)'
  BY <1>2, <1>3, <1>4, <1>6 DEF ClickOk, Beginning, signing, ClickPoints
<1>8. CASE attempts[i].status # proc[c].seen
  <2>1. attempts' = attempts /\ WorldGoes
    BY <1>1, <1>4, <1>8 DEF WriteIf, WorldGoes, signing
  <2>2. ASSUME NEW j \in DOMAIN attempts PROVE AttemptOk(j)'
    BY <2>1, AttemptKept
  <2> QED BY <1>0, <1>3, <1>4, <1>7, <2>1, <2>2, QuietStep
<1>9. CASE attempts[i].status = proc[c].seen
  <2>1. Write(i, s) /\ Active(i) /\ ~Approved(i)
    BY <1>1, <1>2, <1>9 DEF WriteIf, Write, Active, Approved, ActiveStatuses
  <2> QED BY <1>0, <1>2, <1>3, <1>4, <1>7, <2>1, WritingStep
<1> QED BY <1>8, <1>9

\* A click gives its attempt up: nothing had approved it, since its session was not saved.
LEMMA FailAttemptKeeps ==
  ASSUME BioInvariant, NEW c \in Clicks, FailAttempt(c)
  PROVE  Advance
<1>0. /\ Typed /\ c \in Procs /\ c \notin Handlers /\ ClickOk(c) /\ Beginning(c)
  BY ProcsAssumption DEF BioInvariant, Typed, Procs, FailAttempt, At, Beginning
<1>1. PICK i \in DOMAIN attempts : i = Attempt(c) /\ ~attempts[i].saved /\ Write(i, "FAILED")
  BY <1>0 DEF ClickOk, FailAttempt, Attempt
<1>2. ~Approved(i)
  BY <1>1 DEF BioInvariant, AttemptOk
<1>3. UNCHANGED <<didit, sent, signing>> /\ proc' = [proc EXCEPT ![c] = Idle]
  BY DEF FailAttempt, provider
<1>4. proc'[c] = Idle
  BY <1>0, <1>3, IdleIs, Moved
<1>5. ClickOk(c)' /\ ~Beginning(c)'
  BY <1>4, IdleIs DEF ClickOk, Beginning, ClickPoints
<1>6. "FAILED" \in Statuses \ {"APPROVED"}
  BY DEF Statuses
<1> QED BY <1>0, <1>1, <1>2, <1>3, <1>5, <1>6, IdleIs, WritingStep

\* A session is opened for an attempt of which nobody else knows.
LEMMA OpenSessionKeeps ==
  ASSUME BioInvariant, NEW c \in Clicks, OpenSession(c)
  PROVE  Advance
<1>0. /\ Typed /\ Heard /\ c \in Procs /\ c \notin Handlers /\ ClickOk(c) /\ Beginning(c)
      /\ proc[c].pc = "calling"
  BY ProcsAssumption DEF BioInvariant, Typed, Procs, OpenSession, At, Beginning
<1>1. PICK i \in DOMAIN attempts : i = Attempt(c) /\ didit[i] = "none" /\ i \in Ids
  BY <1>0, RowIs DEF ClickOk
<1>2. UNCHANGED <<attempts, signing>>
  BY DEF OpenSession
<1>3. \/ /\ didit' = [didit EXCEPT ![i] = "PENDING"]
         /\ sent' = sent \cup {<<i, "PENDING">>} \/ sent' = sent
      \/ UNCHANGED <<didit, sent>>
  BY <1>0, <1>1 DEF OpenSession, Tell, Attempt, Typed
<1>4. PICK x \in {"saving", "failing"} : Proceed(c, x)
  BY DEF OpenSession
<1>5. PICK r \in Control : /\ proc' = [proc EXCEPT ![c] = r] /\ r.pc = x
                           /\ r.attempt = proc[c].attempt
  BY <1>0, <1>4, ProceedsTo DEF ClickPoints
<1>6. /\ proc' \in [Procs -> Control] /\ proc'[c] = r /\ Attempt(c)' = i
      /\ \A o \in Procs \ {c} : proc'[o] = proc[o]
  BY <1>0, <1>1, <1>4, <1>5, Moved DEF Attempt
<1>7. /\ didit' \in [Ids -> Verdicts \cup {"none"}] /\ sent' \subseteq Ids \X Verdicts
      /\ sent \subseteq sent'
      /\ \A j \in Ids : didit'[j] = didit[j] \/ (j = i /\ didit'[j] = "PENDING")
  BY <1>0, <1>1, <1>3 DEF Typed, Verdicts
<1>8. AttemptsGo /\ WorldGoes
  BY <1>1, <1>2, <1>7 DEF AttemptsGo, WorldGoes, signing, Active, Approved, Final
<1>9. Typed'
  BY <1>0, <1>2, <1>6, <1>7 DEF Typed, signing
<1>10. Heard'
  <2>1. \A e \in sent' : e \in sent \/ e[2] \notin Final
    BY <1>3 DEF Final
  <2>2. \A e \in sent : e[1] \in Ids
    BY <1>0 DEF Typed
  <2>3. \A e \in sent' : e[1] \in DOMAIN attempts
    BY <1>0, <1>1, <1>3 DEF Heard
  <2> QED BY <1>0, <1>1, <1>2, <1>7, <2>1, <2>2, <2>3 DEF Heard, Final
<1>11. Signed'
  BY <1>2, <1>8, <1>9, SignedKept DEF signing, Typed
<1>12. \A d \in Clicks \ {c} : Beginning(d) =>
         Attempt(d) \in DOMAIN attempts /\ Attempt(d) \in Ids /\ Attempt(d) # i
  BY <1>0, <1>1, RowIs DEF BioInvariant, ClickOk, ClicksApart
<1>13. ClickOk(c)'
  BY <1>0, <1>1, <1>2, <1>4, <1>5, <1>6 DEF ClickOk, ClickPoints, Beginning
<1>14. ASSUME NEW j \in DOMAIN attempts PROVE AttemptOk(j)'
  BY <1>2, <1>8, AttemptKept
<1>15. \A d \in Clicks \ {c} :
         /\ Beginning(d) => attempts'[Attempt(d)].saved = attempts[Attempt(d)].saved
         /\ proc[d].pc = "calling" => didit'[Attempt(d)] = didit[Attempt(d)]
  BY <1>2, <1>7, <1>12 DEF Beginning
<1>16. Attempt(c)' = Attempt(c) /\ DOMAIN attempts' = DOMAIN attempts
  BY <1>1, <1>2, <1>6
<1> QED BY <1>0, <1>6, <1>8, <1>9, <1>10, <1>11, <1>13, <1>14, <1>15, <1>16, StepOf

\* A session is saved that nobody else is saving.
LEMMA SaveSessionKeeps ==
  ASSUME BioInvariant, NEW c \in Clicks, SaveSession(c)
  PROVE  Advance
<1>0. /\ Typed /\ c \in Procs /\ c \notin Handlers /\ ClickOk(c) /\ Beginning(c)
  BY ProcsAssumption DEF BioInvariant, Typed, Procs, SaveSession, At, Beginning
<1>1. PICK i \in DOMAIN attempts : /\ i = Attempt(c) /\ ~attempts[i].saved
                                   /\ attempts' = [attempts EXCEPT ![i].saved = TRUE]
  BY <1>0 DEF ClickOk, SaveSession, Attempt
<1>2. /\ UNCHANGED <<didit, sent, signing>> /\ proc' = [proc EXCEPT ![c] = Idle]
      /\ ~Approved(i)
  BY <1>1 DEF SaveSession, BioInvariant, AttemptOk
<1>3. /\ proc' \in [Procs -> Control] /\ proc'[c] = Idle
      /\ \A o \in Procs \ {c} : proc'[o] = proc[o]
  BY <1>0, <1>2, IdleIs, Moved
<1>4. /\ attempts' \in Seq(Row) /\ Len(attempts') = Len(attempts)
      /\ DOMAIN attempts' = DOMAIN attempts
      /\ attempts'[i].saved /\ attempts'[i].status = attempts[i].status
      /\ attempts'[i].guest = attempts[i].guest
      /\ \A j \in DOMAIN attempts \ {i} : attempts'[j] = attempts[j]
  <2> DEFINE x == [attempts[i] EXCEPT !.saved = TRUE]
  <2>1. attempts[i] \in Row /\ attempts \in Seq(Row)
    BY <1>0, RowIs DEF Typed
  <2>2. /\ x \in Row /\ x.status = attempts[i].status /\ x.saved /\ x.guest = attempts[i].guest
        /\ attempts' = [attempts EXCEPT ![i] = x]
    BY <1>1, <2>1 DEF Row
  <2> HIDE DEF x, Row
  <2> QED BY <2>1, <2>2
<1>5. \A j \in DOMAIN attempts : /\ attempts'[j].status = attempts[j].status
                                 /\ attempts'[j].guest = attempts[j].guest
                                 /\ attempts[j].saved => attempts'[j].saved
  BY <1>4
<1>6. AttemptsGo /\ WorldGoes /\ Typed' /\ Heard'
  BY <1>0, <1>2, <1>3, <1>4, <1>5 DEF AttemptsGo, WorldGoes, Typed, Heard, BioInvariant, signing,
     Active, Approved
<1>7. Signed'
  BY <1>2, <1>6, SignedKept DEF signing, Typed
<1>8. \A d \in Clicks \ {c} : Beginning(d) => Attempt(d) \in DOMAIN attempts \ {i}
  BY <1>0, <1>1 DEF BioInvariant, ClickOk, ClicksApart
<1>9. ClickOk(c)' /\ ~Beginning(c)'
  BY <1>3, IdleIs DEF ClickOk, Beginning, ClickPoints
<1>10. ASSUME NEW j \in DOMAIN attempts PROVE AttemptOk(j)'
  <2>1. CASE j = i
    BY <1>2, <1>5, <2>1 DEF BioInvariant, AttemptOk, Approved, signing
  <2>2. CASE j # i
    BY <1>4, <1>6, <2>2, AttemptKept
  <2> QED BY <2>1, <2>2
<1>11. \A d \in Clicks \ {c} :
         /\ Beginning(d) => attempts'[Attempt(d)].saved = attempts[Attempt(d)].saved
         /\ proc[d].pc = "calling" => didit'[Attempt(d)] = didit[Attempt(d)]
  BY <1>2, <1>4, <1>8 DEF Beginning
<1> QED BY <1>0, <1>3, <1>4, <1>6, <1>7, <1>9, <1>10, <1>11, StepOf

\* An attempt is begun of which Didit knows nothing.
LEMMA AttemptBegun ==
  ASSUME BioInvariant, NEW c \in Clicks, CreateAttempt(c), ~(UNCHANGED attempts)
  PROVE  Advance
<1>0. /\ Typed /\ Heard /\ c \in Procs /\ c \notin Handlers /\ ClickOk(c)
      /\ proc[c].pc = "inserting" /\ proc[c].guest \in BOOLEAN /\ (guest => proc[c].guest)
  BY ProcsAssumption DEF BioInvariant, Typed, Procs, CreateAttempt, At, ClickOk, Control
<1> DEFINE x == [status |-> "PENDING", saved |-> FALSE, guest |-> proc[c].guest]
<1>1. /\ attempts' = Append(attempts, x) /\ Len(attempts) < MaxAttempts
      /\ proc' = [proc EXCEPT ![c] = [Idle EXCEPT !.pc = "calling", !.attempt = Len(attempts')]]
      /\ UNCHANGED <<didit, sent, signing>>
  BY DEF CreateAttempt, provider
<1>2. x \in Row /\ x.status \in ActiveStatuses /\ ~x.saved /\ x.guest = proc[c].guest
  BY <1>0 DEF Row, Statuses, ActiveStatuses
<1> HIDE DEF x
<1>3. PICK n : n = Len(attempts) + 1
  OBVIOUS
<1>4. /\ n \in Ids /\ n \in 0..MaxAttempts /\ n \notin DOMAIN attempts
      /\ attempts' \in Seq(Row) /\ Len(attempts') = n /\ n <= MaxAttempts
      /\ DOMAIN attempts' = DOMAIN attempts \cup {n} /\ attempts'[n] = x
      /\ \A j \in DOMAIN attempts : attempts'[j] = attempts[j]
  BY <1>0, <1>1, <1>2, <1>3, BoundAssumption DEF Typed, Ids
<1> DEFINE r == [Idle EXCEPT !.pc = "calling", !.attempt = Len(attempts')]
<1>5. /\ proc' = [proc EXCEPT ![c] = r] /\ r \in Control /\ r.pc = "calling" /\ r.attempt = n
  BY <1>1, <1>4, IdleIs DEF Control, ClickPoints
<1> HIDE DEF r
<1>6. /\ proc' \in [Procs -> Control] /\ proc'[c] = r /\ Attempt(c)' = n
      /\ \A o \in Procs \ {c} : proc'[o] = proc[o]
  BY <1>0, <1>5, Moved
<1>7. AttemptsGo /\ WorldGoes /\ Typed' /\ Heard'
  <2>1. AttemptsGo /\ WorldGoes /\ Typed'
    BY <1>0, <1>1, <1>4, <1>6 DEF AttemptsGo, WorldGoes, Typed, signing, Active, Approved
  <2>2. Heard'
    BY <1>0, <1>1, <1>4 DEF Heard
  <2> QED BY <2>1, <2>2
<1>8. Signed'
  BY <1>1, <1>7, SignedKept DEF signing, Typed
<1>9. didit[n] = "none"
  BY <1>0, <1>4 DEF Heard
<1>10. ClickOk(c)'
  BY <1>1, <1>2, <1>4, <1>5, <1>6, <1>9 DEF ClickOk, ClickPoints, Beginning
<1>11. ASSUME NEW j \in DOMAIN attempts' PROVE AttemptOk(j)'
  <2>1. CASE j \in DOMAIN attempts
    BY <1>4, <1>7, <2>1, AttemptKept
  <2>2. CASE j = n
    <3>1. attempts'[j] = x /\ guest' = guest
      BY <1>1, <1>4, <2>2 DEF signing
    <3> QED BY <1>0, <1>2, <3>1 DEF AttemptOk, Approved, ActiveStatuses
  <2> QED BY <1>4, <2>1, <2>2
<1>12. \A d \in Clicks : Beginning(d) => Attempt(d) \in DOMAIN attempts
  BY DEF BioInvariant, ClickOk
<1> QED BY <1>0, <1>1, <1>4, <1>6, <1>7, <1>8, <1>10, <1>11, <1>12, StepOf

\* An attempt is begun, or the click yields to the one there is.
LEMMA CreateAttemptKeeps ==
  ASSUME BioInvariant, NEW c \in Clicks, CreateAttempt(c)
  PROVE  Advance
<1>1. CASE ~(UNCHANGED attempts)
  BY <1>1, AttemptBegun
<1>2. CASE UNCHANGED attempts
  <2>0. Typed /\ c \in Procs
    BY DEF BioInvariant, Procs
  <2>1. Proceed(c, "yielding") /\ UNCHANGED <<attempts, didit, sent, signing>>
    <3>1. Append(attempts, [status |-> "PENDING", saved |-> FALSE,
                            guest |-> proc[c].guest]) # attempts
      BY <2>0 DEF Typed
    <3> QED BY <1>2, <3>1 DEF CreateAttempt, provider
  <2>2. PICK r \in Control : proc' = [proc EXCEPT ![c] = r] /\ r.pc = "yielding"
    BY <2>0, <2>1, ProceedsTo DEF ClickPoints
  <2> QED BY <2>1, <2>2, ClickMoves DEF ClickPoints
<1> QED BY <1>1, <1>2

\* A step of Didit or of the people that changes no attempt.
LEMMA WorldStep ==
  ASSUME BioInvariant, UNCHANGED <<attempts, proc>>, Typed', Heard', Signed',
         WorldGoes,
         \A i \in DOMAIN attempts : didit'[i] # didit[i] => didit[i] # "none"
  PROVE  Advance
<1>0. AttemptsGo
  BY DEF AttemptsGo, Active, Approved
<1>1. ASSUME NEW c \in Clicks, proc[c].pc = "calling"
      PROVE  didit'[Attempt(c)] = didit[Attempt(c)]
  <2>1. Attempt(c) \in DOMAIN attempts /\ didit[Attempt(c)] = "none"
    BY <1>1 DEF BioInvariant, ClickOk, Beginning
  <2> QED BY <2>1
<1>2. ASSUME NEW i \in DOMAIN attempts PROVE AttemptOk(i)'
  BY AttemptKept
<1> QED BY <1>0, <1>1, <1>2, StepElsewhere

\* A session goes on or ends that had not ended, and Didit had not told its end.
LEMMA VerdictKeeps ==
  ASSUME BioInvariant, NEW i \in Ids, Verdict(i)
  PROVE  Advance
<1>0. Typed /\ Heard /\ Signed
  BY DEF BioInvariant
<1>1. didit[i] \in ActiveStatuses
  BY DEF Verdict, ActiveStatuses
<1>2. PICK v \in Verdicts : didit' = [didit EXCEPT ![i] = v]
  BY OutcomesAssumption DEF Verdict, Verdicts
<1>3. /\ UNCHANGED <<attempts, signing, proc>> /\ i \in DOMAIN attempts
      /\ didit'[i] = v /\ \A j \in Ids \ {i} : didit'[j] = didit[j]
      /\ sent' = sent \cup {<<i, v>>} \/ sent' = sent
  BY <1>0, <1>1, <1>2 DEF Verdict, Tell, Heard, Typed, ActiveStatuses
<1>4. WorldGoes
  BY <1>1, <1>3 DEF WorldGoes, Final, ActiveStatuses, signing
<1>5. Typed'
  BY <1>0, <1>2, <1>3 DEF Typed, signing
<1>6. \A e \in sent : e[1] = i => e[2] \notin Final
  BY <1>0, <1>1 DEF Heard, Final, ActiveStatuses
<1>7. Heard'
  <2>1. \A e \in sent : e[1] \in Ids
    BY <1>0 DEF Typed
  <2>2. ASSUME NEW e \in sent'
        PROVE  e[1] \in DOMAIN attempts /\ (e[2] \in Final => didit'[e[1]] = e[2])
    <3>1. CASE e \in sent
      BY <1>0, <1>3, <1>6, <2>1, <3>1 DEF Heard
    <3>2. CASE e = <<i, v>>
      BY <1>3, <3>2
    <3> QED BY <1>3, <2>2, <3>1, <3>2
  <2>3. \A j \in Ids \ DOMAIN attempts : didit'[j] = "none"
    BY <1>0, <1>3 DEF Heard
  <2> QED BY <1>3, <2>2, <2>3 DEF Heard
<1>8. Signed'
  BY <1>3, <1>4, <1>5, SignedKept DEF signing, Typed, AttemptsGo, Active, Approved
<1>9. ASSUME NEW j \in DOMAIN attempts, didit'[j] # didit[j] PROVE didit[j] # "none"
  BY <1>0, <1>1, <1>3, <1>9, RowIs DEF ActiveStatuses
<1> QED BY <1>3, <1>4, <1>5, <1>7, <1>8, <1>9, WorldStep

\* The people: nobody has signed yet, and what they do spoils approvals but makes none.
LEMMA PeopleKeep ==
  ASSUME BioInvariant, Reject \/ CloseDocument \/ LinkAccount \/ (\E i \in Ids : Lapse(i))
  PROVE  Advance
<1>0. Typed /\ Heard /\ Signed
  BY DEF BioInvariant
<1>1. UNCHANGED <<attempts, didit, sent, proc>>
  BY DEF Reject, CloseDocument, LinkAccount, Lapse, provider
<1>2. WorldGoes /\ Typed' /\ Heard'
  <2>1. /\ signer # "PENDING" => signer' = signer /\ signedBy' = signedBy
        /\ signer' \in {signer, "REJECTED"}
        /\ open' \in BOOLEAN /\ (open' => open) /\ guest' \in BOOLEAN /\ (guest' => guest)
    <3>1. open \in BOOLEAN /\ guest \in BOOLEAN
      BY <1>0 DEF Typed
    <3>2. CASE Reject
      BY <3>1, <3>2 DEF Reject
    <3>3. CASE CloseDocument
      BY <3>1, <3>3 DEF CloseDocument
    <3>4. CASE LinkAccount
      BY <3>1, <3>4 DEF LinkAccount
    <3>5. CASE \E i \in Ids : Lapse(i)
      BY <3>1, <3>5 DEF Lapse, signing
    <3> QED BY <3>2, <3>3, <3>4, <3>5
  <2>2. WorldGoes /\ Typed'
    BY <1>0, <1>1, <2>1 DEF WorldGoes, Typed
  <2>3. Heard'
    BY <1>0, <1>1 DEF Heard
  <2> QED BY <2>2, <2>3
<1>3. Signed'
  <2>1. AttemptsGo
    BY <1>1 DEF AttemptsGo, Active, Approved
  <2>2. CASE UNCHANGED <<signer, signedBy>>
    BY <1>2, <2>1, <2>2, SignedKept DEF Typed
  <2>3. CASE Reject
    BY <2>3 DEF Reject, Signed
  <2> QED BY <2>2, <2>3 DEF CloseDocument, LinkAccount, Lapse, signing
<1> QED BY <1>1, <1>2, <1>3, WorldStep

\* What a delivery at work holds.
LEMMA AtWork ==
  ASSUME BioInvariant, NEW h \in Handlers, ~At(h, "idle")
  PROVE  /\ Typed /\ h \in Procs /\ h \notin Clicks /\ HandlerOk(h) /\ proc[h] \in Control
         /\ Attempt(h) \in DOMAIN attempts /\ Attempt(h) \in Ids /\ AttemptOk(Attempt(h))
         /\ proc[h].status \in Verdicts /\ Event(h) \in sent
<1>1. /\ Typed /\ h \in Procs /\ h \notin Clicks /\ HandlerOk(h) /\ proc[h] \in Control
  BY ProcsAssumption DEF BioInvariant, Typed, Procs
<1>2. Attempt(h) \in DOMAIN attempts /\ proc[h].status \in Verdicts /\ Event(h) \in sent
  BY <1>1 DEF HandlerOk, At
<1> QED BY <1>1, <1>2, RowIs DEF BioInvariant

\* A delivery ends, or is answered 200, and changes no attempt.
LEMMA EndingKeeps ==
  ASSUME BioInvariant, NEW h \in Handlers, proc' = [proc EXCEPT ![h] = Idle],
         UNCHANGED <<attempts, didit, sent, signing>>
  PROVE  Advance
<1>0. Typed /\ h \in Procs /\ h \notin Clicks
  BY ProcsAssumption DEF BioInvariant, Procs
<1>1. proc'[h] = Idle
  BY <1>0, IdleIs, Moved
<1>2. HandlerOk(h)' /\ WorldGoes
  BY <1>1, IdleIs DEF HandlerOk, Deciding, HandlerPoints, WorldGoes, signing
<1>3. ASSUME NEW j \in DOMAIN attempts PROVE AttemptOk(j)'
  BY <1>2, AttemptKept
<1> QED BY <1>0, <1>2, <1>3, IdleIs, QuietStep

\* Where a delivery proceeds to from one point of its approval to another.
LEMMA DecidingKeeps ==
  ASSUME BioInvariant, NEW h \in Handlers, Deciding(h),
         NEW x \in {"claiming", "refused", "giving up"}, Proceed(h, x),
         x = "refused" => signer = "SIGNED" \/ Spoiled(Attempt(h)),
         x = "giving up" => Spoiled(Attempt(h)),
         UNCHANGED <<attempts, didit, sent, signing>>
  PROVE  Advance
<1>0. ~At(h, "idle")
  BY DEF Deciding, At
<1>1. Typed /\ h \in Procs /\ h \notin Clicks /\ HandlerOk(h)
  BY <1>0, AtWork
<1>2. PICK r \in Control : /\ proc' = [proc EXCEPT ![h] = r] /\ r.pc = x
                           /\ r.attempt = proc[h].attempt /\ r.status = proc[h].status
  <2>1. x \in ClickPoints \cup HandlerPoints
    BY DEF HandlerPoints
  <2>2. \E r \in Control :
          /\ proc' = [proc EXCEPT ![h] = r] /\ r.pc = x /\ r.attempt = proc[h].attempt
          /\ r.status = proc[h].status /\ r.seen = proc[h].seen /\ r.guest = proc[h].guest
    BY <1>1, <2>1, ProceedsTo
  <2> QED BY <2>2
<1>3. proc'[h] = r /\ Attempt(h)' = Attempt(h)
  BY <1>1, <1>2, Moved DEF Attempt
<1>4. WorldGoes
  BY DEF WorldGoes, signing
<1>5. HandlerOk(h)'
  <2>1. PICK i : i = Attempt(h)
    OBVIOUS
  <2>2. (Spoiled(i)' <=> Spoiled(i)) /\ (Stands(i)' <=> Stands(i)) /\ (Active(i)' <=> Active(i))
    BY DEF Spoiled, Stands, Approved, Active, signing
  <2>3. Event(h)' = Event(h) /\ Deciding(h)'
    BY <1>2, <1>3 DEF Event, Deciding
  <2>4. proc[h].pc \notin {"idle", "registering"}
    BY DEF Deciding
  <2> QED BY <1>1, <1>2, <1>3, <2>1, <2>2, <2>3, <2>4 DEF HandlerOk, HandlerPoints, signing
<1>6. ASSUME NEW j \in DOMAIN attempts PROVE AttemptOk(j)'
  BY <1>4, AttemptKept
<1> QED BY <1>1, <1>2, <1>5, <1>6, QuietStep

\* The delivery that finds the document, the account and the signer as they were goes on to
\* the claim; what it finds otherwise remains.
LEMMA ValidateKeeps ==
  ASSUME BioInvariant, NEW h \in Handlers, Validate(h)
  PROVE  Advance
<1>0. ~At(h, "idle") /\ Deciding(h)
  BY DEF Validate, Deciding, At
<1>1. /\ Typed /\ HandlerOk(h) /\ Signed
      /\ UNCHANGED <<attempts, didit, sent, signing>>
  BY <1>0, AtWork DEF Validate, provider, BioInvariant
<1>2. CASE signer = "SIGNED"
  BY <1>1, <1>2, EndingKeeps DEF Validate, Acknowledge
<1>3. CASE signer # "SIGNED"
  <2>1. PICK x \in {"claiming", "refused"} :
          /\ Proceed(h, x)
          /\ x = "refused" => ~(/\ attempts[Attempt(h)].status = "APPROVED"
                                /\ attempts[Attempt(h)].guest = guest /\ open
                                /\ signer = "PENDING")
    BY <1>3 DEF Validate
  <2>2. x = "refused" => Spoiled(Attempt(h))
    BY <1>0, <1>1, <1>3, <2>1 DEF HandlerOk, Stands, Approved, Spoiled, Signed, Typed
  <2> QED BY <1>0, <1>1, <2>1, <2>2, DecidingKeeps
<1> QED BY <1>2, <1>3

\* Refused because another delivery signed, or for a reason that remains.
LEMMA RefuseKeeps ==
  ASSUME BioInvariant, NEW h \in Handlers, Refuse(h)
  PROVE  Advance
<1>0. ~At(h, "idle") /\ Deciding(h)
  BY DEF Refuse, Deciding, At
<1>1. /\ HandlerOk(h) /\ UNCHANGED <<attempts, didit, sent, signing>>
  BY <1>0, AtWork DEF Refuse, provider
<1>2. CASE signer = "SIGNED"
  BY <1>1, <1>2, EndingKeeps DEF Refuse, Acknowledge
<1>3. CASE signer # "SIGNED"
  <2>1. Proceed(h, "giving up") /\ Spoiled(Attempt(h))
    BY <1>1, <1>3 DEF Refuse, HandlerOk, At
  <2> QED BY <1>0, <1>1, <2>1, DecidingKeeps
<1> QED BY <1>2, <1>3

\* The claim is won by an approval that stands, or refused for a reason that remains.
LEMMA ClaimKeeps ==
  ASSUME BioInvariant, NEW h \in Handlers, Claim(h)
  PROVE  Advance
<1>0. ~At(h, "idle") /\ Deciding(h)
  BY DEF Claim, Deciding, At
<1>1. /\ Typed /\ h \in Procs /\ h \notin Clicks /\ HandlerOk(h) /\ Heard /\ Signed
      /\ Attempt(h) \in DOMAIN attempts
  BY <1>0, AtWork DEF Typed, BioInvariant
<1>2. UNCHANGED <<attempts, didit, sent, guest, open>>
  BY DEF Claim, provider
<1>3. CASE signer # "PENDING"
  <2>1. Proceed(h, "refused") /\ UNCHANGED signing
    BY <1>2, <1>3 DEF Claim, signing
  <2>2. signer = "SIGNED" \/ Spoiled(Attempt(h))
    BY <1>1, <1>3 DEF Signed, Typed, Spoiled
  <2> QED BY <1>0, <1>2, <2>1, <2>2, DecidingKeeps
<1>4. CASE signer = "PENDING"
  <2>1. /\ signer' = "SIGNED" /\ signedBy' = Attempt(h) /\ Proceed(h, "finishing")
    BY <1>4 DEF Claim
  <2>2. PICK r \in Control : /\ proc' = [proc EXCEPT ![h] = r] /\ r.pc = "finishing"
                             /\ r.attempt = proc[h].attempt /\ r.status = proc[h].status
    <3>1. "finishing" \in ClickPoints \cup HandlerPoints
      BY DEF HandlerPoints
    <3> QED BY <1>1, <2>1, <3>1, ProceedsTo
  <2>3. /\ proc' \in [Procs -> Control] /\ proc'[h] = r /\ Attempt(h)' = Attempt(h)
        /\ \A o \in Procs \ {h} : proc'[o] = proc[o]
    BY <1>1, <2>2, Moved DEF Attempt
  <2>4. AttemptsGo /\ WorldGoes
    BY <1>2, <1>4 DEF AttemptsGo, WorldGoes, Active, Approved
  <2>5. Typed' /\ Heard'
    BY <1>1, <1>2, <2>1, <2>3 DEF Typed, Heard
  <2>6. PICK i \in DOMAIN attempts : i = Attempt(h)
    BY <1>1
  <2>7. (Spoiled(i)' <=> Spoiled(i)) /\ (Stands(i)' <=> Stands(i)) /\ (Active(i)' <=> Active(i))
    BY <1>2 DEF Spoiled, Stands, Approved, Active
  <2>8. Event(h)' = Event(h) /\ Deciding(h)' /\ proc[h].pc \notin {"idle", "registering"}
    BY <1>0, <2>2, <2>3 DEF Event, Deciding
  <2>9. HandlerOk(h)'
    BY <1>0, <1>1, <1>2, <2>1, <2>2, <2>3, <2>6, <2>7, <2>8 DEF HandlerOk, HandlerPoints
  <2>10. Signed'
    BY <1>0, <1>1, <1>2, <2>1, <2>6, <2>7 DEF Signed, HandlerOk
  <2>11. ASSUME NEW j \in DOMAIN attempts PROVE AttemptOk(j)'
    BY <1>2, <2>4, AttemptKept
  <2> QED BY <1>1, <1>2, <2>3, <2>4, <2>5, <2>9, <2>10, <2>11, StepOf
<1> QED BY <1>3, <1>4

\* Who gives up has a reason that remains.
LEMMA GiveUpKeeps ==
  ASSUME BioInvariant, NEW h \in Handlers, GiveUp(h)
  PROVE  Advance
<1>0. ~At(h, "idle")
  BY DEF GiveUp, At
<1>1. /\ Typed /\ h \in Procs /\ h \notin Clicks /\ HandlerOk(h) /\ Attempt(h) \in DOMAIN attempts
  BY <1>0, AtWork
<1>2. PICK i \in DOMAIN attempts : i = Attempt(h)
  BY <1>1
<1>3. /\ Write(i, "FAILED") /\ Spoiled(i) /\ proc' = [proc EXCEPT ![h] = Idle]
      /\ UNCHANGED <<didit, sent, signing>>
  BY <1>1, <1>2 DEF GiveUp, Acknowledge, HandlerOk, At, provider
<1>4. proc'[h] = Idle
  BY <1>1, <1>3, IdleIs, Moved
<1>5. HandlerOk(h)'
  BY <1>4, IdleIs DEF HandlerOk, Deciding, HandlerPoints
<1>6. "FAILED" \in Statuses \ {"APPROVED"}
  BY DEF Statuses
<1> QED BY <1>1, <1>2, <1>3, <1>5, <1>6, IdleIs, WritingStep

\* A delivery that dies leaves all to the next one.
LEMMA AbortDeliveryKeeps ==
  ASSUME BioInvariant, NEW h \in Handlers, AbortDelivery(h)
  PROVE  Advance
  BY EndingKeeps DEF AbortDelivery, provider

\* The other sessions of who signed are closed, none of which was approved.
LEMMA FinishKeeps ==
  ASSUME BioInvariant, NEW h \in Handlers, Finish(h)
  PROVE  Advance
<1>0. ~At(h, "idle") /\ Deciding(h)
  BY DEF Finish, Deciding, At
<1>1. /\ Typed /\ h \in Procs /\ h \notin Clicks /\ HandlerOk(h) /\ Heard
      /\ Attempt(h) \in DOMAIN attempts
  BY <1>0, AtWork DEF BioInvariant
<1>2. PICK i : i = Attempt(h)
  OBVIOUS
<1>3. /\ i \in DOMAIN attempts /\ proc' = [proc EXCEPT ![h] = Idle]
      /\ UNCHANGED <<didit, sent, signing>>
      /\ attempts' = [j \in DOMAIN attempts |->
                        IF j # i /\ Active(j) THEN [attempts[j] EXCEPT !.status = "FAILED"]
                        ELSE attempts[j]]
  BY <1>0, <1>1, <1>2 DEF Finish, Acknowledge, provider
<1>4. /\ proc' \in [Procs -> Control] /\ proc'[h] = Idle
      /\ \A o \in Procs \ {h} : proc'[o] = proc[o]
  BY <1>1, <1>3, IdleIs, Moved
<1>5. ASSUME NEW j \in DOMAIN attempts
      PROVE  /\ attempts'[j] \in Row /\ attempts'[j].saved = attempts[j].saved
             /\ attempts'[j].guest = attempts[j].guest
             /\ attempts'[j] = attempts[j]
                  \/ (j # i /\ Active(j) /\ attempts'[j].status = "FAILED")
  BY <1>1, <1>3, RowIs DEF Row, Statuses
<1>6. /\ attempts' \in Seq(Row) /\ Len(attempts') = Len(attempts)
      /\ DOMAIN attempts' = DOMAIN attempts
  <2>1. DOMAIN attempts = 1..Len(attempts) /\ Len(attempts) \in Nat
    BY <1>1 DEF Typed
  <2>2. attempts' \in [1..Len(attempts) -> Row]
    BY <1>3, <1>5, <2>1
  <2> QED BY <2>1, <2>2
<1>7. AttemptsGo
  BY <1>5, <1>6 DEF AttemptsGo, Active, Approved, ActiveStatuses
<1>8. WorldGoes /\ Typed' /\ Heard'
  BY <1>1, <1>3, <1>4, <1>6 DEF WorldGoes, Typed, Heard, signing
<1>9. Signed'
  BY <1>3, <1>7, <1>8, SignedKept DEF signing, Typed
<1>10. HandlerOk(h)'
  BY <1>4, IdleIs DEF HandlerOk, Deciding, HandlerPoints
<1>11. ASSUME NEW j \in DOMAIN attempts PROVE AttemptOk(j)'
  <2>1. CASE attempts'[j] = attempts[j]
    BY <1>8, <2>1, AttemptKept
  <2>2. CASE attempts'[j].status = "FAILED"
    BY <1>5, <1>8, <2>2, ClosedIsOk
  <2> QED BY <1>5, <2>1, <2>2
<1>12. \A d \in Clicks : Beginning(d) => Attempt(d) \in DOMAIN attempts
  BY DEF BioInvariant, ClickOk
<1> QED BY <1>1, <1>3, <1>4, <1>5, <1>6, <1>7, <1>8, <1>9, <1>10, <1>11, <1>12, StepOf

\* An approval is written over an attempt still active, or left to the delivery that closed
\* the attempt.
LEMMA ApproveKeeps ==
  ASSUME BioInvariant, NEW h \in Handlers, Approve(h)
  PROVE  Advance
<1>0. ~At(h, "idle")
  BY DEF Approve, At
<1>1. /\ Typed /\ h \in Procs /\ h \notin Clicks /\ HandlerOk(h) /\ Heard
      /\ Attempt(h) \in DOMAIN attempts /\ Event(h) \in sent
      /\ proc[h].pc = "approving" /\ proc[h].status = "APPROVED"
  BY <1>0, AtWork DEF BioInvariant, Approve, At, HandlerOk
<1>2. PICK i \in DOMAIN attempts : i = Attempt(h) /\ didit[i] = "APPROVED" /\ attempts[i].saved
  BY <1>1 DEF HandlerOk
<1>3. UNCHANGED <<didit, sent, signing>>
  BY DEF Approve, provider
<1>4. CASE ~Active(i)
  BY <1>2, <1>3, <1>4, EndingKeeps DEF Approve, Acknowledge
<1>5. CASE Active(i)
  <2>1. Write(i, "APPROVED") /\ Proceed(h, "validating")
    BY <1>2, <1>5 DEF Approve
  <2>2. PICK r \in Control : /\ proc' = [proc EXCEPT ![h] = r] /\ r.pc = "validating"
                             /\ r.attempt = proc[h].attempt /\ r.status = proc[h].status
    <3>1. "validating" \in ClickPoints \cup HandlerPoints
      BY DEF HandlerPoints
    <3> QED BY <1>1, <2>1, <3>1, ProceedsTo
  <2>3. /\ proc' \in [Procs -> Control] /\ proc'[h] = r /\ Attempt(h)' = Attempt(h)
        /\ \A o \in Procs \ {h} : proc'[o] = proc[o]
    BY <1>1, <2>2, Moved DEF Attempt
  <2>4. "APPROVED" \in Statuses /\ "APPROVED" \notin ActiveStatuses
    BY DEF Statuses, ActiveStatuses
  <2>5. AttemptsGo
    BY <1>5, <2>1, <2>4, WrittenGoes
  <2>6. /\ attempts' \in Seq(Row) /\ Len(attempts') = Len(attempts)
        /\ DOMAIN attempts' = DOMAIN attempts /\ attempts'[i].status = "APPROVED"
        /\ attempts'[i].saved /\ attempts'[i].guest = attempts[i].guest
        /\ \A j \in DOMAIN attempts \ {i} : attempts'[j] = attempts[j]
        /\ \A j \in DOMAIN attempts : attempts'[j].saved = attempts[j].saved
    <3> HIDE DEF Row, Statuses
    <3> QED BY <1>1, <1>2, <2>1, <2>4, Written
  <2>7. WorldGoes /\ Typed' /\ Heard'
    BY <1>1, <1>3, <2>1, <2>3, <2>6 DEF WorldGoes, Typed, Heard, signing
  <2>8. Signed'
    BY <1>3, <2>5, <2>7, SignedKept DEF signing, Typed
  <2>9. Approved(i)' /\ ~Active(i)' /\ Stands(i)'
    BY <2>4, <2>6 DEF Approved, Active, Stands
  <2>10. Event(h)' = Event(h)
    BY <2>2, <2>3 DEF Event
  <2>11. HandlerOk(h)'
    BY <1>1, <1>2, <1>3, <2>2, <2>3, <2>6, <2>9, <2>10 DEF HandlerOk, HandlerPoints
  <2>12. ASSUME NEW j \in DOMAIN attempts PROVE AttemptOk(j)'
    <3>1. CASE j # i
      BY <2>6, <2>7, <3>1, AttemptKept
    <3>2. CASE j = i
      BY <1>2, <1>3, <2>6, <3>2 DEF BioInvariant, AttemptOk, signing
    <3> QED BY <3>1, <3>2
  <2>13. \A d \in Clicks : Beginning(d) => Attempt(d) \in DOMAIN attempts
    BY DEF BioInvariant, ClickOk
  <2> QED BY <1>1, <1>3, <2>3, <2>5, <2>6, <2>7, <2>8, <2>11, <2>12, <2>13, StepOf
<1> QED BY <1>4, <1>5

\* The end of a session that is not an approval is written if the attempt is as it was read,
\* which was active.
LEMMA MoveKeeps ==
  ASSUME BioInvariant, NEW h \in Handlers, Move(h)
  PROVE  Advance
<1>0. ~At(h, "idle")
  BY DEF Move, At
<1>1. /\ Typed /\ h \in Procs /\ h \notin Clicks /\ Attempt(h) \in DOMAIN attempts
      /\ proc[h].seen \in ActiveStatuses /\ proc[h].status \in Verdicts \ {"APPROVED"}
  BY <1>0, AtWork DEF Move, At, HandlerOk
<1>2. PICK i, m : i \in DOMAIN attempts /\ i = Attempt(h) /\ m = MapStatus(proc[h].status)
  BY <1>1
<1>3. m \in Statuses \ {"APPROVED"}
  BY <1>1, <1>2 DEF MapStatus, Statuses, Verdicts
<1>4. /\ UNCHANGED <<didit, sent, signing>> /\ WriteIf(i, proc[h].seen, m)
      /\ proc' = [proc EXCEPT ![h] = Idle]
  BY <1>2 DEF Move, provider, Acknowledge
<1>5. CASE attempts[i].status # proc[h].seen
  BY <1>4, <1>5, EndingKeeps DEF WriteIf
<1>6. CASE attempts[i].status = proc[h].seen
  <2>1. Write(i, m) /\ Active(i) /\ ~Approved(i)
    BY <1>1, <1>4, <1>6 DEF WriteIf, Write, Active, Approved, ActiveStatuses
  <2>2. proc'[h] = Idle
    BY <1>1, <1>4, IdleIs, Moved
  <2>3. HandlerOk(h)'
    BY <2>2, IdleIs DEF HandlerOk, Deciding, HandlerPoints
  <2> QED BY <1>1, <1>2, <1>3, <1>4, <2>1, <2>3, IdleIs, WritingStep
<1> QED BY <1>5, <1>6

\* What a delivery does with an event says what it found.
LEMMA BranchIs ==
  ASSUME NEW s, NEW seen
  PROVE  /\ Branch(s, seen) \in {"approving", "moving", "validating", "ignoring"}
         /\ Branch(s, seen) = "approving" => s = "APPROVED" /\ seen \in ActiveStatuses
         /\ Branch(s, seen) = "moving" => s # "APPROVED" /\ seen \in ActiveStatuses
         /\ Branch(s, seen) = "validating" => seen = "APPROVED"
         /\ Branch(s, seen) = "ignoring" =>
              seen \notin ActiveStatuses /\ (s = "APPROVED" => seen # "APPROVED")
<1>1. CASE s = "APPROVED" /\ seen \in ActiveStatuses
  BY <1>1 DEF Branch
<1>2. CASE s # "APPROVED" /\ seen \in ActiveStatuses
  BY <1>2 DEF Branch
<1>3. CASE s \in {"APPROVED", "UNPROVEN"} /\ seen = "APPROVED"
  BY <1>3 DEF Branch, ActiveStatuses
<1>4. CASE seen \notin ActiveStatuses /\ ~(s \in {"APPROVED", "UNPROVEN"} /\ seen = "APPROVED")
  BY <1>4 DEF Branch
<1> QED BY <1>1, <1>2, <1>3, <1>4

\* What a dispatch comes to.
LEMMA DispatchIs ==
  ASSUME Typed, NEW h \in Handlers, NEW i \in DOMAIN attempts, NEW s \in Verdicts,
         Dispatch(h, i, s)
  PROVE  \/ /\ ~attempts[i].saved \/ Branch(s, attempts[i].status) = "ignoring"
            /\ acked' = acked \cup {<<i, s>>} /\ proc' = [proc EXCEPT ![h] = Idle]
         \/ \E r \in Control :
              /\ proc' = [proc EXCEPT ![h] = r] /\ UNCHANGED acked /\ attempts[i].saved
              /\ r.pc = Branch(s, attempts[i].status)
              /\ r.pc \in {"approving", "moving", "validating"}
              /\ r.attempt = i /\ r.status = s /\ r.seen = attempts[i].status
<1>1. CASE attempts[i].saved /\ Branch(s, attempts[i].status) # "ignoring"
  <2>1. PICK x, z : x = Branch(s, attempts[i].status) /\ z = attempts[i].status
    OBVIOUS
  <2>2. x \in {"approving", "moving", "validating"} /\ z \in Statuses /\ i \in 0..MaxAttempts
    BY <1>1, <2>1, BranchIs, RowIs, BoundAssumption DEF Ids
  <2> DEFINE r == [Idle EXCEPT !.pc = x, !.attempt = i, !.status = s, !.seen = z]
  <2>3. /\ r \in Control /\ r.pc = x /\ r.attempt = i /\ r.status = s /\ r.seen = z
    BY <2>2 DEF Idle, Control, HandlerPoints
  <2>4. proc' = [proc EXCEPT ![h] = r] /\ UNCHANGED acked
    BY <1>1, <2>1 DEF Dispatch
  <2> HIDE DEF r
  <2> QED BY <1>1, <2>1, <2>2, <2>3, <2>4
<1>2. CASE ~attempts[i].saved \/ Branch(s, attempts[i].status) = "ignoring"
  <2>1. (IF attempts[i].saved THEN Branch(s, attempts[i].status) ELSE "ignoring") = "ignoring"
    BY <1>2
  <2> QED BY <1>2, <2>1 DEF Dispatch
<1> QED BY <1>1, <1>2

\* A delivery takes up an event of attempt i.
LEMMA DispatchKeeps ==
  ASSUME BioInvariant, NEW h \in Handlers, NEW i \in DOMAIN attempts, NEW s \in Verdicts,
         <<i, s>> \in sent, Dispatch(h, i, s), UNCHANGED <<attempts, didit, sent, signing>>
  PROVE  Advance
<1>0. /\ Typed /\ Heard /\ h \in Procs /\ h \notin Clicks /\ AttemptOk(i)
      /\ attempts[i].status \in Statuses
  BY ProcsAssumption, RowIs DEF BioInvariant, Procs
<1>1. CASE proc' = [proc EXCEPT ![h] = Idle]
  BY <1>1, EndingKeeps
<1>2. CASE \E r \in Control :
             /\ proc' = [proc EXCEPT ![h] = r] /\ UNCHANGED acked /\ attempts[i].saved
             /\ r.pc = Branch(s, attempts[i].status)
             /\ r.pc \in {"approving", "moving", "validating"}
             /\ r.attempt = i /\ r.status = s /\ r.seen = attempts[i].status
  <2>1. PICK r \in Control :
          /\ proc' = [proc EXCEPT ![h] = r] /\ attempts[i].saved
          /\ r.pc = Branch(s, attempts[i].status)
          /\ r.pc \in {"approving", "moving", "validating"}
          /\ r.attempt = i /\ r.status = s /\ r.seen = attempts[i].status
    BY <1>2
  <2>2. /\ r.pc = "approving" => s = "APPROVED"
        /\ r.pc = "moving" => s # "APPROVED" /\ attempts[i].status \in ActiveStatuses
        /\ r.pc = "validating" => Approved(i)
    BY <2>1, BranchIs DEF Approved
  <2>3. proc'[h] = r /\ Attempt(h)' = i
    BY <1>0, <2>1, Moved
  <2>4. /\ s \in Final => didit[i] = s
        /\ Approved(i) => didit[i] = "APPROVED" /\ ~Active(i) /\ Stands(i)'
    BY <1>0 DEF Heard, AttemptOk, Approved, Active, ActiveStatuses, Stands
  <2>5. HandlerOk(h)'
    <3>1. Event(h)' = <<i, s>> /\ (Active(i)' <=> Active(i))
      BY <2>1, <2>3 DEF Event, Active
    <3> QED BY <1>0, <2>1, <2>2, <2>3, <2>4, <3>1
        DEF HandlerOk, HandlerPoints, Deciding, Final
  <2>6. WorldGoes
    BY DEF WorldGoes, signing
  <2>7. ASSUME NEW j \in DOMAIN attempts PROVE AttemptOk(j)'
    BY <2>6, AttemptKept
  <2> QED BY <1>0, <2>1, <2>5, <2>7, QuietStep
<1> QED BY <1>0, <1>1, <1>2, DispatchIs

\* A delivery begins.
LEMMA ReceiveKeeps ==
  ASSUME BioInvariant, NEW h \in Handlers, NEW e \in Events, Receive(h, e)
  PROVE  Advance
<1>0. Typed /\ Heard /\ h \in Procs /\ h \notin Clicks /\ e \in sent
  BY ProcsAssumption DEF BioInvariant, Procs, Receive
<1>1. PICK i, s : e = <<i, s>> /\ i = e[1] /\ s = e[2] /\ s \in Verdicts
  BY ToldAssumption DEF Events
<1>2. i \in DOMAIN attempts /\ UNCHANGED <<attempts, didit, sent, signing>>
  BY <1>0, <1>1 DEF Receive, Heard, provider
<1>3. CASE e \in registered
  BY <1>0, <1>1, <1>2, <1>3, DispatchKeeps DEF Receive
<1>4. CASE e \notin registered
  <2>1. PICK r \in Control : /\ proc' = [proc EXCEPT ![h] = r] /\ r.pc = "registering"
                             /\ r.attempt = i /\ r.status = s
    <3>1. i \in 0..MaxAttempts
      BY <1>0, <1>2, RowIs, BoundAssumption DEF Ids
    <3> DEFINE r == [Idle EXCEPT !.pc = "registering", !.attempt = i, !.status = s]
    <3>2. r \in Control /\ r.pc = "registering" /\ r.attempt = i /\ r.status = s
      BY <1>1, <3>1 DEF Idle, Control, HandlerPoints
    <3>3. proc' = [proc EXCEPT ![h] = r]
      BY <1>1, <1>4 DEF Receive
    <3> QED BY <3>2, <3>3
  <2>2. proc'[h] = r /\ Attempt(h)' = i /\ Event(h)' = e
    BY <1>0, <1>1, <2>1, Moved DEF Event, Attempt
  <2>3. HandlerOk(h)'
    BY <1>0, <1>1, <1>2, <2>1, <2>2 DEF HandlerOk, HandlerPoints, Deciding
  <2>4. WorldGoes
    BY <1>2 DEF WorldGoes, signing
  <2>5. ASSUME NEW j \in DOMAIN attempts PROVE AttemptOk(j)'
    BY <1>2, <2>4, AttemptKept
  <2> QED BY <1>0, <1>2, <2>1, <2>3, <2>5, QuietStep
<1> QED BY <1>3, <1>4

\* It registers its event and takes it up, or leaves it to the delivery that registered it.
LEMMA RegisterKeeps ==
  ASSUME BioInvariant, NEW h \in Handlers, Register(h)
  PROVE  Advance
<1>1. ~At(h, "idle") /\ UNCHANGED <<attempts, didit, sent, signing>>
  BY DEF Register, At, provider
<1>2. Attempt(h) \in DOMAIN attempts /\ proc[h].status \in Verdicts /\ Event(h) \in sent
  BY <1>1, AtWork
<1>3. CASE Event(h) \notin registered
  BY <1>1, <1>2, <1>3, DispatchKeeps DEF Register, Event
<1>4. CASE Event(h) \in registered
  BY <1>1, <1>4, EndingKeeps DEF Register, Acknowledge
<1> QED BY <1>3, <1>4

\* The invariant holds before the first click.
LEMMA BioInvariantBegins ==
  ASSUME BSInit
  PROVE  BioInvariant
<1>1. /\ attempts = << >> /\ attempts \in Seq(Row) /\ Len(attempts) = 0 /\ DOMAIN attempts = {}
  BY DEF BSInit
<1>2. Typed
  BY <1>1, IdleIs, BoundAssumption DEF BSInit, Typed
<1>3. Heard /\ Signed
  BY <1>1 DEF BSInit, Heard, Signed
<1>4. \A p \in Procs : proc[p] = Idle
  BY DEF BSInit
<1>5. ClicksApart /\ \A c \in Clicks : ClickOk(c)
  BY <1>4, IdleIs DEF ClicksApart, ClickOk, Beginning, ClickPoints, Procs
<1>6. \A h \in Handlers : HandlerOk(h)
  BY <1>4, IdleIs DEF HandlerOk, Deciding, HandlerPoints, Procs
<1> QED BY <1>1, <1>2, <1>3, <1>5, <1>6 DEF BioInvariant

\* Every step keeps it, and does to the attempts and to the world what was said.
LEMMA BioInvariantContinues ==
  ASSUME BioInvariant, [BSNext]_BSvars
  PROVE  Advance
<1>1. ASSUME NEW c \in Clicks, Start(c) \/ Continue(c) \/ AbortClick(c) PROVE Advance
  BY <1>1, LookingKeeps, CloseUnusableKeeps, CreateAttemptKeeps, OpenSessionKeeps,
     FailAttemptKeeps, SaveSessionKeeps DEF Continue
<1>2. ASSUME NEW h \in Handlers,
             (\E e \in Events : Receive(h, e)) \/ Handle(h) \/ AbortDelivery(h)
      PROVE  Advance
  BY <1>2, ReceiveKeeps, RegisterKeeps, MoveKeeps, ApproveKeeps, ValidateKeeps, ClaimKeeps,
     FinishKeeps, RefuseKeeps, GiveUpKeeps, AbortDeliveryKeeps DEF Handle
<1>3. ASSUME NEW i \in Ids, Verdict(i) \/ Lapse(i) PROVE Advance
  BY <1>3, VerdictKeeps, PeopleKeep
<1>4. CASE Reject \/ CloseDocument \/ LinkAccount
  BY <1>4, PeopleKeep
<1>5. CASE UNCHANGED BSvars
  <2>1. UNCHANGED <<attempts, didit, sent, signer, guest, open, signedBy, proc>>
    BY <1>5 DEF BSvars, provider, signing
  <2>2. BioInvariant'
    BY <2>1 DEF BioInvariant, Typed, Heard, Signed, ClicksApart, ClickOk, HandlerOk, AttemptOk,
      Stands, Spoiled, Approved, Active, Attempt, Event, Deciding, Beginning
  <2>3. AttemptsGo /\ WorldGoes
    BY <2>1 DEF AttemptsGo, WorldGoes, Approved
  <2> QED BY <2>2, <2>3 DEF Advance
<1> QED BY <1>1, <1>2, <1>3, <1>4, <1>5 DEF BSNext

\* In every state: an approval of Didit in the database is one of its own session, and a
\* delivery refused or that gives up has a reason that remains.
THEOREM BioInvariantHolds == BSSpec => []BioInvariant
  BY BioInvariantBegins, BioInvariantContinues, PTL DEF BSSpec, Advance

\* Whoever the webhook signed for was approved by Didit, and his attempt goes on saying so
\* unless the document or the account changed: the losers of the claim do not mark it failed.
THEOREM ApprovalStaysBehind == BSSpec => []SignedIsBacked
<1>1. BioInvariant => SignedIsBacked
  BY DEF BioInvariant, Signed, SignedIsBacked, Stands, Spoiled, Approved
<1> QED BY <1>1, BioInvariantHolds, PTL

\* No click and no delivery writes what it read before over an end that another has written.
THEOREM EndsStand == BSSpec => TerminalStands
<1>1. BioInvariant /\ [BSNext]_BSvars =>
        [\A i \in DOMAIN attempts :
           attempts'[i].status # attempts[i].status /\ ~Active(i) =>
             /\ attempts'[i].status = "FAILED"
             /\ attempts[i].status = "APPROVED" => ~open \/ attempts[i].guest # guest]_BSvars
  BY BioInvariantContinues DEF Advance, AttemptsGo, Approved, Spoiled
<1> QED BY <1>1, BioInvariantHolds, PTL DEF BSSpec, TerminalStands

-----------------------------------------------------------------------------
(* What the answers 200 leave done: every approval that was registered has  *)
(* a delivery at work until it is signed or given up, unless one of them    *)
(* died; and it is answered when it is done, unless one left it to another. *)

\* A delivery of the approval of attempt i that has written it, or found it written.
SigningFor(h, i) == Deciding(h) /\ Attempt(h) = i /\ proc[h].status = "APPROVED"

\* He who goes through a session has its URL, which was saved.
Reached == /\ \A i \in known : i \in DOMAIN attempts /\ attempts[i].saved
           /\ \A i \in DOMAIN attempts :
                didit[i] \in {"IN_PROGRESS", "APPROVED"} => attempts[i].saved

\* The events registered or answered.
Taken == acked \cup registered

Cared(i) ==
  /\ <<i, "APPROVED">> \in acked /\ i \notin ceded =>
       ~Active(i) /\ (Approved(i) => signer # "PENDING")
  /\ <<i, "APPROVED">> \in Taken /\ i \notin died /\ Active(i) =>
       \E h \in Handlers : Approving(h, i)
  /\ i \notin died /\ Approved(i) /\ signer = "PENDING" =>
       \E h \in Handlers : SigningFor(h, i)

AnswerInvariant ==
  /\ Reached /\ Taken \subseteq sent
  /\ \A i \in DOMAIN attempts : Cared(i)

\* An attempt closed does not open again, nor is approved.
LEMMA ActiveOnce ==
  ASSUME Advance, NEW i \in DOMAIN attempts
  PROVE  /\ Active(i)' => Active(i)
         /\ ~Active(i) => (Approved(i)' => Approved(i))
  BY DEF Advance, AttemptsGo, Active, ActiveStatuses, Approved

\* A session stays reached.
LEMMA ReachedKept ==
  ASSUME BioInvariant, Advance, Reached,
         \A i \in known' \ known : i \in DOMAIN attempts' /\ attempts'[i].saved,
         \A i \in DOMAIN attempts' : didit'[i] \in {"IN_PROGRESS", "APPROVED"} =>
           \/ i \in DOMAIN attempts /\ didit[i] \in {"IN_PROGRESS", "APPROVED"}
           \/ attempts'[i].saved
  PROVE  Reached'
<1>1. ASSUME NEW i \in DOMAIN attempts, attempts[i].saved
      PROVE  i \in DOMAIN attempts' /\ attempts'[i].saved
  BY <1>1 DEF Advance, AttemptsGo
<1> QED BY <1>1 DEF Reached

\* A step that no delivery takes approves nothing and answers nothing.
LEMMA ElsewhereCares ==
  ASSUME BioInvariant, AnswerInvariant, Advance, Reached',
         UNCHANGED <<acked, registered, ceded, died>>,
         \A h \in Handlers : proc'[h] = proc[h],
         \A i \in DOMAIN attempts' : Approved(i)' => i \in DOMAIN attempts /\ Approved(i)
  PROVE  AnswerInvariant'
<1>1. /\ sent \subseteq sent' /\ Taken \subseteq sent /\ Taken' = Taken
      /\ signer' = "PENDING" => signer = "PENDING"
  BY DEF Advance, WorldGoes, AnswerInvariant, Taken
<1>2. \A h \in Handlers : \A i : /\ Approving(h, i) => Approving(h, i)'
                                 /\ SigningFor(h, i) => SigningFor(h, i)'
  BY DEF Approving, SigningFor, Deciding, Attempt
<1>3. ASSUME NEW i \in DOMAIN attempts' PROVE Cared(i)'
  <2>1. CASE i \in DOMAIN attempts
    <3>1. /\ Cared(i) /\ (Active(i)' => Active(i)) /\ (Approved(i)' => Approved(i))
      BY <2>1, ActiveOnce DEF AnswerInvariant
    <3> QED BY <1>1, <1>2, <3>1 DEF Cared
  <2>2. CASE i \notin DOMAIN attempts
    <3>1. <<i, "APPROVED">> \notin Taken
      BY <1>1, <2>2 DEF BioInvariant, Heard
    <3> QED BY <1>1, <2>2, <3>1 DEF Cared, Taken
  <2> QED BY <2>1, <2>2
<1> QED BY <1>1, <1>3 DEF AnswerInvariant

\* A step of delivery h.
LEMMA DeliveryCares ==
  ASSUME BioInvariant, AnswerInvariant, Advance, Reached', NEW h \in Handlers,
         \A g \in Handlers \ {h} : proc'[g] = proc[g],
         ceded \subseteq ceded', died \subseteq died', DOMAIN attempts' = DOMAIN attempts,
         Taken' \subseteq sent,
         \A i \in DOMAIN attempts :
           /\ <<i, "APPROVED">> \in acked' /\ i \notin ceded' =>
                \/ <<i, "APPROVED">> \in acked
                \/ ~Active(i)' /\ (Approved(i)' => signer' # "PENDING")
           /\ <<i, "APPROVED">> \in Taken' /\ i \notin died' /\ Active(i)' =>
                \/ Approving(h, i)'
                \/ <<i, "APPROVED">> \in Taken /\ ~Approving(h, i)
           /\ i \notin died' /\ Approved(i)' /\ signer' = "PENDING" =>
                \/ SigningFor(h, i)'
                \/ Approved(i) /\ ~SigningFor(h, i)
  PROVE  AnswerInvariant'
<1>1. sent \subseteq sent' /\ (signer' = "PENDING" => signer = "PENDING")
  BY DEF Advance, WorldGoes
<1>2. \A g \in Handlers \ {h} : \A i : /\ Approving(g, i) => Approving(g, i)'
                                       /\ SigningFor(g, i) => SigningFor(g, i)'
  BY DEF Approving, SigningFor, Deciding, Attempt
<1>3. ASSUME NEW i \in DOMAIN attempts PROVE Cared(i)'
  <2>1. Cared(i) /\ (Active(i)' => Active(i)) /\ (~Active(i) => (Approved(i)' => Approved(i)))
    BY ActiveOnce DEF AnswerInvariant
  <2>2. <<i, "APPROVED">> \in acked' /\ i \notin ceded' =>
          ~Active(i)' /\ (Approved(i)' => signer' # "PENDING")
    BY <1>1, <2>1 DEF Cared
  <2>3. <<i, "APPROVED">> \in Taken' /\ i \notin died' /\ Active(i)' =>
          \E g \in Handlers : Approving(g, i)'
    BY <1>2, <2>1 DEF Cared
  <2>4. i \notin died' /\ Approved(i)' /\ signer' = "PENDING" =>
          \E g \in Handlers : SigningFor(g, i)'
    BY <1>1, <1>2, <2>1 DEF Cared
  <2> QED BY <2>2, <2>3, <2>4 DEF Cared
<1> QED BY <1>1, <1>3 DEF AnswerInvariant

\* The clicks.
LEMMA ClicksCare ==
  ASSUME BioInvariant, AnswerInvariant, Advance, NEW c \in Clicks,
         Start(c) \/ Continue(c) \/ AbortClick(c)
  PROVE  AnswerInvariant'
<1>0. /\ Typed /\ Heard /\ Reached /\ c \in Procs /\ c \notin Handlers /\ ClickOk(c)
      /\ Typed'
  BY ProcsAssumption DEF BioInvariant, AnswerInvariant, Procs, Advance
<1>1. /\ UNCHANGED <<acked, registered, ceded, died>>
      /\ \A h \in Handlers : proc'[h] = proc[h]
  <2>1. /\ UNCHANGED <<acked, registered, ceded, died>>
        /\ \A p \in Procs \ {c} : proc'[p] = proc[p]
    BY <1>0 DEF Start, Continue, FindActive, CloseUnusable, CreateAttempt, Yield, OpenSession,
       FailAttempt, SaveSession, AbortClick, webhooks, history, Proceed, Typed
  <2> QED BY <1>0, <2>1 DEF Procs
<1>2. CASE UNCHANGED <<attempts, didit>> /\ ~SaveSession(c)
  <2>1. \A i \in known' \ known : i \in DOMAIN attempts' /\ attempts'[i].saved
    <3>1. UNCHANGED known \/ \E i \in Open : Hand(i)
      BY <1>2 DEF Start, Continue, FindActive, CloseUnusable, CreateAttempt, Yield, OpenSession,
         FailAttempt, AbortClick, provider
    <3> QED BY <1>2, <3>1 DEF Hand, Open
  <2>2. Reached'
    BY <1>0, <1>2, <2>1, ReachedKept
  <2> QED BY <1>1, <1>2, <2>2, ElsewhereCares DEF Approved
<1>3. CASE CloseUnusable(c)
  <2>1. PICK i \in DOMAIN attempts, s \in {"EXPIRED", "FAILED"} :
          attempts' = attempts \/ Write(i, s)
    BY <1>0, <1>3 DEF CloseUnusable, WriteIf, Write, ClickOk, At, Attempt
  <2>2. s \in Statuses \ {"APPROVED"} /\ UNCHANGED <<didit, known>>
    BY <1>3 DEF Statuses, CloseUnusable, provider
  <2>3. /\ DOMAIN attempts' = DOMAIN attempts
        /\ \A j \in DOMAIN attempts : Approved(j)' => Approved(j)
    BY <1>0, <2>1, <2>2, Written DEF Approved
  <2>4. Reached'
    BY <1>0, <2>2, <2>3, ReachedKept
  <2> QED BY <1>1, <2>3, <2>4, ElsewhereCares
<1>4. CASE FailAttempt(c)
  <2>1. PICK i \in DOMAIN attempts : Write(i, "FAILED")
    BY <1>0, <1>4 DEF FailAttempt, ClickOk, At, Attempt, Beginning
  <2>2. "FAILED" \in Statuses \ {"APPROVED"} /\ UNCHANGED <<didit, known>>
    BY <1>4 DEF Statuses, FailAttempt, provider
  <2>3. /\ DOMAIN attempts' = DOMAIN attempts
        /\ \A j \in DOMAIN attempts : Approved(j)' => Approved(j)
    BY <1>0, <2>1, <2>2, Written DEF Approved
  <2>4. Reached'
    BY <1>0, <2>2, <2>3, ReachedKept
  <2> QED BY <1>1, <2>3, <2>4, ElsewhereCares
<1>5. CASE SaveSession(c)
  <2>1. PICK i \in DOMAIN attempts :
          /\ attempts' = [attempts EXCEPT ![i].saved = TRUE] /\ known' \subseteq known \cup {i}
    BY <1>0, <1>5 DEF SaveSession, ClickOk, At, Attempt, Beginning
  <2>2. attempts \in Seq(Row) /\ attempts[i] \in Row /\ didit' = didit
    BY <1>0, <1>5, RowIs DEF Typed, SaveSession
  <2>3. /\ DOMAIN attempts' = DOMAIN attempts /\ attempts'[i].saved
        /\ \A j \in DOMAIN attempts : attempts'[j].status = attempts[j].status
    BY <2>1, <2>2 DEF Row
  <2>4. Reached'
    BY <1>0, <2>1, <2>2, <2>3, ReachedKept
  <2> QED BY <1>1, <2>3, <2>4, ElsewhereCares DEF Approved
<1>6. CASE CreateAttempt(c) /\ ~(UNCHANGED attempts)
  <2>1. PICK x : /\ attempts' = Append(attempts, x) /\ x.status = "PENDING"
                 /\ UNCHANGED <<didit, known>> /\ Len(attempts) < MaxAttempts
    BY <1>6 DEF CreateAttempt, provider
  <2>2. PICK n : n = Len(attempts) + 1
    OBVIOUS
  <2>3. /\ DOMAIN attempts' = DOMAIN attempts \cup {n} /\ attempts'[n] = x
        /\ n \in Ids /\ n \notin DOMAIN attempts
        /\ \A j \in DOMAIN attempts : attempts'[j] = attempts[j]
    BY <1>0, <2>1, <2>2, BoundAssumption DEF Typed, Ids
  <2>4. didit[n] = "none"
    BY <1>0, <2>3 DEF Heard
  <2>5. Reached'
    BY <1>0, <2>1, <2>3, <2>4, ReachedKept
  <2> QED BY <1>1, <2>1, <2>3, <2>5, ElsewhereCares DEF Approved
<1>7. CASE OpenSession(c) /\ ~(UNCHANGED didit)
  <2>1. PICK i : didit' = [didit EXCEPT ![i] = "PENDING"]
    BY <1>7 DEF OpenSession
  <2>2. UNCHANGED <<attempts, known>>
    BY <1>7 DEF OpenSession
  <2>3. ASSUME NEW j \in DOMAIN attempts PROVE didit'[j] \in {didit[j], "PENDING"}
    BY <1>0, <2>1, RowIs DEF Typed
  <2>4. Reached'
    BY <1>0, <2>2, <2>3, ReachedKept
  <2> QED BY <1>1, <2>2, <2>4, ElsewhereCares DEF Approved
<1> QED BY <1>2, <1>3, <1>4, <1>5, <1>6, <1>7
    DEF Start, Continue, FindActive, Yield, CreateAttempt, OpenSession, AbortClick, provider

\* Didit and the people.
LEMMA OthersCare ==
  ASSUME BioInvariant, AnswerInvariant, Advance,
         \/ Reject \/ CloseDocument \/ LinkAccount
         \/ \E i \in Ids : Verdict(i) \/ Lapse(i)
  PROVE  AnswerInvariant'
<1>0. Typed /\ Heard /\ Reached
  BY DEF BioInvariant, AnswerInvariant
<1>1. UNCHANGED <<attempts, known, acked, registered, ceded, died, proc>>
  BY DEF Reject, CloseDocument, LinkAccount, Verdict, Lapse, provider, webhooks, history
<1>2. ASSUME NEW j \in DOMAIN attempts, didit'[j] \in {"IN_PROGRESS", "APPROVED"}
      PROVE  didit[j] \in {"IN_PROGRESS", "APPROVED"} \/ attempts'[j].saved
  <2>1. CASE didit'[j] = didit[j]
    BY <1>2, <2>1
  <2>2. CASE didit'[j] # didit[j]
    <3>1. PICK i \in Ids : Verdict(i)
      BY <2>2 DEF Reject, CloseDocument, LinkAccount, Lapse, provider
    <3>2. PICK v : didit' = [didit EXCEPT ![i] = v]
      BY <3>1 DEF Verdict
    <3>3. j = i /\ didit'[j] = v /\ j \in Ids
      BY <1>0, <2>2, <3>2, RowIs DEF Typed
    <3>4. i \in known \/ didit[i] = "IN_PROGRESS" \/ v = "EXPIRED"
      BY <1>0, <3>1, <3>2, <3>3 DEF Verdict, Typed
    <3> QED BY <1>0, <1>1, <1>2, <3>3, <3>4 DEF Reached
  <2> QED BY <2>1, <2>2
<1>3. Reached'
  BY <1>0, <1>1, <1>2, ReachedKept
<1> QED BY <1>1, <1>3, ElsewhereCares DEF Approved


\* A delivery takes its event up: an approval finds its session saved.
LEMMA DispatchCares ==
  ASSUME BioInvariant, AnswerInvariant, Advance, NEW h \in Handlers,
         proc[h].pc \in {"idle", "registering"},
         NEW i \in DOMAIN attempts, NEW s \in Verdicts, <<i, s>> \in sent, Dispatch(h, i, s),
         registered' = registered \cup {<<i, s>>},
         UNCHANGED <<attempts, didit, known, signer, ceded, died>>
  PROVE  AnswerInvariant'
<1>0. Typed /\ Heard /\ Reached /\ h \in Procs /\ Taken \subseteq sent
  BY DEF BioInvariant, AnswerInvariant, Procs
<1>1. Reached'
  BY <1>0, ReachedKept
<1>2. s = "APPROVED" => attempts[i].saved
  BY <1>0 DEF Heard, Reached, Final
<1>3. \A j : ~Approving(h, j) /\ ~SigningFor(h, j)
  BY DEF Approving, SigningFor, Deciding
<1>4. \A j \in DOMAIN attempts : (Active(j)' <=> Active(j)) /\ (Approved(j)' <=> Approved(j))
  BY DEF Active, Approved
<1>5. CASE /\ ~attempts[i].saved \/ Branch(s, attempts[i].status) = "ignoring"
           /\ acked' = acked \cup {<<i, s>>} /\ proc' = [proc EXCEPT ![h] = Idle]
  <2>1. s = "APPROVED" => ~Active(i) /\ ~Approved(i)
    BY <1>2, <1>5, BranchIs DEF Active, Approved
  <2>2. \A g \in Handlers \ {h} : proc'[g] = proc[g]
    BY <1>0, <1>5, IdleIs, Moved DEF Procs
  <2>3. Taken' \subseteq Taken \cup {<<i, s>>} /\ Taken' \subseteq sent
    BY <1>0, <1>5 DEF Taken
  <2> QED BY <1>1, <1>3, <1>4, <1>5, <2>1, <2>2, <2>3, DeliveryCares
<1>6. CASE \E r \in Control :
             /\ proc' = [proc EXCEPT ![h] = r] /\ UNCHANGED acked /\ attempts[i].saved
             /\ r.pc = Branch(s, attempts[i].status)
             /\ r.pc \in {"approving", "moving", "validating"}
             /\ r.attempt = i /\ r.status = s /\ r.seen = attempts[i].status
  <2>1. PICK r \in Control :
          /\ proc' = [proc EXCEPT ![h] = r] /\ UNCHANGED acked
          /\ r.pc = Branch(s, attempts[i].status) /\ r.attempt = i
    BY <1>6
  <2>2. proc'[h] = r /\ Attempt(h)' = i /\ \A g \in Handlers \ {h} : proc'[g] = proc[g]
    BY <1>0, <2>1, Moved DEF Procs
  <2>3. s = "APPROVED" /\ Active(i) => Approving(h, i)'
    <3>1. PICK z : z = attempts[i].status
      OBVIOUS
    <3>2. s = "APPROVED" /\ z \in ActiveStatuses => Branch(s, z) = "approving"
      BY BranchIs DEF ActiveStatuses
    <3> QED BY <2>1, <2>2, <3>1, <3>2 DEF Active, Approving
  <2>4. Taken' \subseteq Taken \cup {<<i, s>>} /\ Taken' \subseteq sent
    BY <1>0, <2>1 DEF Taken
  <2> QED BY <1>1, <1>3, <1>4, <2>1, <2>2, <2>3, <2>4, DeliveryCares
<1> QED BY <1>0, <1>5, <1>6, DispatchIs

\* A delivery comes, and finds its event registered or registers it.
LEMMA ReceiveCares ==
  ASSUME BioInvariant, AnswerInvariant, Advance, NEW h \in Handlers, NEW e \in Events,
         Receive(h, e)
  PROVE  AnswerInvariant'
<1>0. /\ Typed /\ Heard /\ Reached /\ h \in Procs /\ e \in sent /\ proc[h].pc = "idle"
      /\ UNCHANGED <<attempts, didit, known, signer, registered, ceded, died>>
  BY DEF BioInvariant, AnswerInvariant, Procs, Receive, At, provider, signing, history
<1>1. PICK i, s : e = <<i, s>> /\ i = e[1] /\ s = e[2] /\ s \in Verdicts
  BY ToldAssumption DEF Events
<1>2. i \in DOMAIN attempts
  BY <1>0, <1>1 DEF Heard
<1>3. CASE e \in registered
  <2>1. registered' = registered \cup {<<i, s>>} /\ Dispatch(h, i, s)
    BY <1>0, <1>1, <1>3 DEF Receive
  <2> QED BY <1>0, <1>1, <1>2, <2>1, DispatchCares
<1>4. CASE e \notin registered
  <2>1. UNCHANGED acked /\ \A g \in Handlers \ {h} : proc'[g] = proc[g]
    BY <1>0, <1>4 DEF Receive, Typed, Procs
  <2>2. \A j : ~Approving(h, j) /\ ~SigningFor(h, j)
    BY <1>0 DEF Approving, SigningFor, Deciding
  <2>3. \A j \in DOMAIN attempts : (Active(j)' <=> Active(j)) /\ (Approved(j)' <=> Approved(j))
    BY <1>0 DEF Active, Approved
  <2>4. Reached'
    BY <1>0, ReachedKept
  <2>5. Taken' = Taken /\ Taken' \subseteq sent
    BY <1>0, <2>1 DEF AnswerInvariant, Taken
  <2> QED BY <1>0, <2>1, <2>2, <2>3, <2>4, <2>5, DeliveryCares
<1> QED BY <1>3, <1>4

\* It registers its event, or leaves the approval to the delivery that did.
LEMMA RegisterCares ==
  ASSUME BioInvariant, AnswerInvariant, Advance, NEW h \in Handlers, Register(h)
  PROVE  AnswerInvariant'
<1>0. /\ proc[h].pc = "registering" /\ ~At(h, "idle") /\ Reached
      /\ UNCHANGED <<attempts, didit, known, signer, died>>
  BY DEF Register, At, provider, signing, AnswerInvariant
<1>1. /\ Typed /\ h \in Procs /\ Attempt(h) \in DOMAIN attempts /\ proc[h].status \in Verdicts
      /\ Event(h) \in sent
  BY <1>0, AtWork
<1>2. CASE Event(h) \notin registered
  <2>1. /\ registered' = registered \cup {<<Attempt(h), proc[h].status>>} /\ ceded' = ceded
        /\ Dispatch(h, Attempt(h), proc[h].status) /\ <<Attempt(h), proc[h].status>> \in sent
    BY <1>1, <1>2 DEF Register, Event
  <2> QED BY <1>0, <1>1, <2>1, DispatchCares
<1>3. CASE Event(h) \in registered
  <2>1. PICK i, s : i = Attempt(h) /\ s = proc[h].status
    OBVIOUS
  <2>2. /\ acked' = acked \cup {<<i, s>>} /\ proc' = [proc EXCEPT ![h] = Idle]
        /\ ceded \subseteq ceded' /\ (s = "APPROVED" => i \in ceded') /\ registered' = registered
    BY <1>3, <2>1 DEF Register, Acknowledge, Cede, Event
  <2>3. \A g \in Handlers \ {h} : proc'[g] = proc[g]
    BY <1>1, <2>2, IdleIs, Moved DEF Procs
  <2>4. \A j : ~Approving(h, j) /\ ~SigningFor(h, j)
    BY <1>0 DEF Approving, SigningFor, Deciding
  <2>5. \A j \in DOMAIN attempts : (Active(j)' <=> Active(j)) /\ (Approved(j)' <=> Approved(j))
    BY <1>0 DEF Active, Approved
  <2>6. Reached'
    BY <1>0, ReachedKept
  <2>7. Taken' = Taken /\ Taken' \subseteq sent
    BY <1>3, <2>1, <2>2 DEF AnswerInvariant, Event, Taken
  <2> QED BY <1>0, <2>2, <2>3, <2>4, <2>5, <2>6, <2>7, DeliveryCares
<1> QED BY <1>2, <1>3

\* It ends where the signer has signed, or has given its attempt up.
LEMMA DoneCares ==
  ASSUME BioInvariant, AnswerInvariant, Advance, Reached', NEW h \in Handlers, Deciding(h),
         Acknowledge(h), UNCHANGED <<registered, ceded, died>>,
         DOMAIN attempts' = DOMAIN attempts, NEW i \in DOMAIN attempts, i = Attempt(h),
         \A j \in DOMAIN attempts \ {i} : Approved(j)' => Approved(j),
         ~Active(i)', Approved(i)' => signer' # "PENDING"
  PROVE  AnswerInvariant'
<1>0. ~At(h, "idle")
  BY DEF Deciding, At
<1>1. PICK s : s = proc[h].status
  OBVIOUS
<1>2. Typed /\ h \in Procs /\ Event(h) \in sent /\ HandlerOk(h)
  BY <1>0, AtWork
<1>3. /\ acked' = acked \cup {<<i, s>>} /\ proc' = [proc EXCEPT ![h] = Idle]
      /\ Event(h) = <<i, s>>
  BY <1>1 DEF Acknowledge, Event
<1>4. \A g \in Handlers \ {h} : proc'[g] = proc[g]
  BY <1>2, <1>3, IdleIs, Moved DEF Procs
<1>5. \A j : ~Approving(h, j) /\ (SigningFor(h, j) => j = i)
  BY <1>1 DEF Approving, SigningFor, Deciding
<1>6. Taken' = Taken \cup {<<i, s>>} /\ Taken' \subseteq sent
  BY <1>2, <1>3 DEF AnswerInvariant, Taken
<1> QED BY <1>1, <1>3, <1>4, <1>5, <1>6, DeliveryCares

\* It goes on with an approval it has written, or found written.
LEMMA ProceedCares ==
  ASSUME BioInvariant, AnswerInvariant, Advance, NEW h \in Handlers, Deciding(h),
         NEW x, x \in {"claiming", "finishing", "refused", "giving up"}, Proceed(h, x),
         UNCHANGED <<attempts, didit, known, acked, registered, ceded, died>>
  PROVE  AnswerInvariant'
<1>0. Typed /\ h \in Procs /\ Reached
  BY DEF BioInvariant, AnswerInvariant, Procs
<1>1. PICK r \in Control : /\ proc' = [proc EXCEPT ![h] = r] /\ r.pc = x
                           /\ r.attempt = proc[h].attempt /\ r.status = proc[h].status
  <2> DEFINE r == [proc[h] EXCEPT !.pc = x]
  <2>1. proc[h] \in Control /\ proc' = [proc EXCEPT ![h] = r]
    BY <1>0 DEF Typed, Proceed
  <2>2. r \in Control /\ r.pc = x /\ r.attempt = proc[h].attempt /\ r.status = proc[h].status
    BY <2>1 DEF Control, HandlerPoints
  <2> QED BY <2>1, <2>2
<1>2. /\ proc'[h] = r /\ Attempt(h)' = Attempt(h)
      /\ \A g \in Handlers \ {h} : proc'[g] = proc[g]
  BY <1>0, <1>1, Moved DEF Procs, Attempt
<1>3. \A j : ~Approving(h, j) /\ (SigningFor(h, j) => SigningFor(h, j)')
  BY <1>1, <1>2 DEF Approving, SigningFor, Deciding
<1>4. \A j \in DOMAIN attempts : (Active(j)' <=> Active(j)) /\ (Approved(j)' <=> Approved(j))
  BY DEF Active, Approved
<1>5. Reached'
  BY <1>0, ReachedKept
<1>6. Taken' = Taken /\ Taken' \subseteq sent
  BY DEF AnswerInvariant, Taken
<1> QED BY <1>2, <1>3, <1>4, <1>5, <1>6, DeliveryCares

\* The deciding deliveries, one step at a time.
LEMMA DecidingCares ==
  ASSUME BioInvariant, AnswerInvariant, Advance, NEW h \in Handlers,
         Validate(h) \/ Claim(h) \/ Refuse(h) \/ GiveUp(h) \/ Finish(h)
  PROVE  AnswerInvariant'
<1>0. Deciding(h) /\ ~At(h, "idle")
  BY DEF Validate, Claim, Refuse, GiveUp, Finish, Deciding, At
<1>1. /\ Typed /\ h \in Procs /\ Attempt(h) \in DOMAIN attempts /\ HandlerOk(h) /\ Reached
      /\ ~Active(Attempt(h))
  BY <1>0, AtWork DEF HandlerOk, AnswerInvariant
<1>2. UNCHANGED <<didit, known, registered, ceded, died>>
  BY DEF Validate, Claim, Refuse, GiveUp, Finish, provider, webhooks, history
<1>3. PICK i \in DOMAIN attempts : i = Attempt(h)
  BY <1>1
<1>4. CASE UNCHANGED attempts /\ Acknowledge(h) /\ signer' = "SIGNED"
  <2>1. Reached'
    BY <1>1, <1>2, <1>4, ReachedKept
  <2> QED BY <1>0, <1>1, <1>2, <1>3, <1>4, <2>1, DoneCares DEF Active, Approved
<1>5. CASE UNCHANGED attempts /\ Proceed(h, "claiming") /\ UNCHANGED acked
  BY <1>0, <1>2, <1>5, ProceedCares
<1>6. CASE UNCHANGED attempts /\ Proceed(h, "finishing") /\ UNCHANGED acked
  BY <1>0, <1>2, <1>6, ProceedCares
<1>7. CASE UNCHANGED attempts /\ Proceed(h, "refused") /\ UNCHANGED acked
  BY <1>0, <1>2, <1>7, ProceedCares
<1>8. CASE UNCHANGED attempts /\ Proceed(h, "giving up") /\ UNCHANGED acked
  BY <1>0, <1>2, <1>8, ProceedCares
<1>9. CASE GiveUp(h)
  <2>1. Write(i, "FAILED") /\ Acknowledge(h) /\ "FAILED" \in Statuses \ {"APPROVED"}
    BY <1>3, <1>9 DEF GiveUp, Statuses
  <2>2. /\ DOMAIN attempts' = DOMAIN attempts /\ attempts'[i].status = "FAILED"
        /\ \A j \in DOMAIN attempts \ {i} : attempts'[j] = attempts[j]
    BY <1>1, <2>1, Written
  <2>3. Reached'
    BY <1>1, <1>2, <2>2, ReachedKept
  <2>4. \A j \in DOMAIN attempts \ {i} : Approved(j)' => Approved(j)
    BY <2>2 DEF Approved
  <2>5. ~(attempts'[i].status \in ActiveStatuses) /\ attempts'[i].status # "APPROVED"
    BY <2>2 DEF ActiveStatuses
  <2> QED BY <1>0, <1>1, <1>2, <1>3, <2>1, <2>2, <2>3, <2>4, <2>5, DoneCares
     DEF Active, Approved
<1>10. CASE Finish(h)
  <2>1. /\ attempts' = [j \in DOMAIN attempts |->
                         IF j # i /\ Active(j) THEN [attempts[j] EXCEPT !.status = "FAILED"]
                         ELSE attempts[j]]
        /\ Acknowledge(h) /\ signer' = signer /\ signer = "SIGNED"
    BY <1>1, <1>3, <1>10 DEF Finish, HandlerOk, At, signing
  <2>2. /\ DOMAIN attempts' = DOMAIN attempts /\ attempts'[i] = attempts[i]
        /\ \A j \in DOMAIN attempts \ {i} : Approved(j)' => Approved(j)
    <3>1. \A j \in DOMAIN attempts : attempts[j] \in Row
      BY <1>1, RowIs
    <3> QED BY <2>1, <3>1 DEF Approved, Row
  <2>3. Reached'
    BY <1>1, <1>2, <2>2, ReachedKept
  <2> QED BY <1>0, <1>1, <1>2, <1>3, <2>1, <2>2, <2>3, DoneCares DEF Active, Approved
<1> QED BY <1>4, <1>5, <1>6, <1>7, <1>8, <1>9, <1>10
    DEF Validate, Claim, Refuse, signing, webhooks

\* The end of a session that is not an approval.
LEMMA MoveCares ==
  ASSUME BioInvariant, AnswerInvariant, Advance, NEW h \in Handlers, Move(h)
  PROVE  AnswerInvariant'
<1>0. ~At(h, "idle") /\ proc[h].pc = "moving"
  BY DEF Move, At
<1>1. /\ Typed /\ h \in Procs /\ Attempt(h) \in DOMAIN attempts /\ Reached
      /\ proc[h].status \in Verdicts \ {"APPROVED"} /\ Event(h) \in sent
  BY <1>0, AtWork DEF HandlerOk, AnswerInvariant
<1>2. PICK i, s, m : /\ i \in DOMAIN attempts /\ i = Attempt(h) /\ s = proc[h].status
                     /\ m = MapStatus(s)
  BY <1>1
<1>3. /\ m \in Statuses \ {"APPROVED"} /\ s # "APPROVED" /\ Event(h) = <<i, s>>
      /\ UNCHANGED <<didit, known, registered, ceded, died, signer>>
      /\ WriteIf(i, proc[h].seen, m)
      /\ acked' = acked \cup {<<i, s>>} /\ proc' = [proc EXCEPT ![h] = Idle]
  BY <1>1, <1>2 DEF Move, MapStatus, Statuses, Verdicts, provider, history, signing,
     Acknowledge, Event
<1>4. /\ DOMAIN attempts' = DOMAIN attempts
      /\ \A j \in DOMAIN attempts : Approved(j)' => Approved(j)
  BY <1>1, <1>2, <1>3, Written DEF WriteIf, Write, Approved
<1>5. Reached'
  BY <1>1, <1>3, <1>4, ReachedKept
<1>6. \A g \in Handlers \ {h} : proc'[g] = proc[g]
  BY <1>1, <1>3, IdleIs, Moved DEF Procs
<1>7. \A j : ~Approving(h, j) /\ ~SigningFor(h, j)
  BY <1>0 DEF Approving, SigningFor, Deciding
<1>8. Taken' = Taken \cup {<<i, s>>} /\ Taken' \subseteq sent
  BY <1>1, <1>3 DEF AnswerInvariant, Taken
<1> QED BY <1>3, <1>4, <1>5, <1>6, <1>7, <1>8, DeliveryCares

\* An approval is written, or left to the delivery that closed the attempt.
LEMMA ApproveCares ==
  ASSUME BioInvariant, AnswerInvariant, Advance, NEW h \in Handlers, Approve(h)
  PROVE  AnswerInvariant'
<1>0. ~At(h, "idle") /\ proc[h].pc = "approving"
  BY DEF Approve, At
<1>1. /\ Typed /\ h \in Procs /\ Attempt(h) \in DOMAIN attempts /\ Reached
      /\ proc[h].status = "APPROVED" /\ Event(h) \in sent
  BY <1>0, AtWork DEF HandlerOk, AnswerInvariant
<1>2. PICK i \in DOMAIN attempts : i = Attempt(h)
  BY <1>1
<1>3. UNCHANGED <<didit, known, registered, died, signer>> /\ Event(h) = <<i, "APPROVED">>
  BY <1>1, <1>2 DEF Approve, provider, signing, Event
<1>4. \A j : (Approving(h, j) => j = i) /\ ~SigningFor(h, j)
  BY <1>0, <1>2 DEF Approving, SigningFor, Deciding
<1>5. CASE Active(i)
  <2>1. Write(i, "APPROVED") /\ Proceed(h, "validating") /\ UNCHANGED <<acked, ceded>>
    BY <1>2, <1>5 DEF Approve
  <2>2. "validating" \in ClickPoints \cup HandlerPoints /\ "APPROVED" \in Statuses
    BY DEF HandlerPoints, Statuses
  <2>3. PICK r \in Control : /\ proc' = [proc EXCEPT ![h] = r] /\ r.pc = "validating"
                             /\ r.attempt = proc[h].attempt /\ r.status = proc[h].status
    BY <1>1, <2>1, <2>2, ProceedsTo
  <2>4. /\ proc'[h] = r /\ Attempt(h)' = i /\ \A g \in Handlers \ {h} : proc'[g] = proc[g]
    BY <1>1, <1>2, <2>3, Moved DEF Procs, Attempt
  <2>5. SigningFor(h, i)'
    BY <1>1, <2>3, <2>4 DEF SigningFor, Deciding
  <2>6. /\ DOMAIN attempts' = DOMAIN attempts /\ attempts'[i].status = "APPROVED"
        /\ \A j \in DOMAIN attempts \ {i} : attempts'[j] = attempts[j]
    BY <1>1, <2>1, <2>2, Written
  <2>7. ~Active(i)' /\ \A j \in DOMAIN attempts \ {i} : Approved(j)' => Approved(j)
    BY <2>6 DEF Active, ActiveStatuses, Approved
  <2>8. Reached'
    BY <1>1, <1>3, <2>6, ReachedKept
  <2>9. Taken' = Taken /\ Taken' \subseteq sent
    BY <1>3, <2>1 DEF AnswerInvariant, Taken
  <2> QED BY <1>3, <1>4, <2>1, <2>4, <2>5, <2>6, <2>7, <2>8, <2>9, DeliveryCares
<1>6. CASE ~Active(i)
  <2>1. /\ acked' = acked \cup {<<i, "APPROVED">>} /\ proc' = [proc EXCEPT ![h] = Idle]
        /\ ceded' = ceded \cup {i} /\ UNCHANGED attempts
    BY <1>1, <1>2, <1>3, <1>6 DEF Approve, Acknowledge, Cede
  <2>2. \A g \in Handlers \ {h} : proc'[g] = proc[g]
    BY <1>1, <2>1, IdleIs, Moved DEF Procs
  <2>3. \A j \in DOMAIN attempts : (Active(j)' <=> Active(j)) /\ (Approved(j)' <=> Approved(j))
    BY <2>1 DEF Active, Approved
  <2>4. Reached'
    BY <1>1, <1>3, <2>1, ReachedKept
  <2>5. Taken' = Taken \cup {<<i, "APPROVED">>} /\ Taken' \subseteq sent
    BY <1>1, <1>3, <2>1 DEF AnswerInvariant, Taken
  <2> QED BY <1>3, <1>4, <1>6, <2>1, <2>2, <2>3, <2>4, <2>5, DeliveryCares
<1> QED BY <1>5, <1>6

\* A delivery dies, or fails.
LEMMA AbortDeliveryCares ==
  ASSUME BioInvariant, AnswerInvariant, Advance, NEW h \in Handlers, AbortDelivery(h)
  PROVE  AnswerInvariant'
<1>0. ~At(h, "idle")
  BY DEF AbortDelivery
<1>1. Typed /\ h \in Procs /\ HandlerOk(h) /\ Reached
  BY <1>0, AtWork DEF AnswerInvariant
<1>2. /\ UNCHANGED <<attempts, didit, known, acked, registered, signer, ceded>>
      /\ proc' = [proc EXCEPT ![h] = Idle]
  BY DEF AbortDelivery, provider, webhooks, signing
<1>3. died \subseteq died' /\ \A j : Approving(h, j) \/ SigningFor(h, j) => j \in died'
  BY <1>1 DEF AbortDelivery, Approving, SigningFor, HandlerOk
<1>4. \A g \in Handlers \ {h} : proc'[g] = proc[g]
  BY <1>1, <1>2, IdleIs, Moved DEF Procs
<1>5. \A j \in DOMAIN attempts : (Active(j)' <=> Active(j)) /\ (Approved(j)' <=> Approved(j))
  BY <1>2 DEF Active, Approved
<1>6. Reached'
  BY <1>1, <1>2, ReachedKept
<1>7. Taken' = Taken /\ Taken' \subseteq sent
  BY <1>2 DEF AnswerInvariant, Taken
<1> QED BY <1>2, <1>3, <1>4, <1>5, <1>6, <1>7, DeliveryCares

LEMMA AnswerBegins ==
  ASSUME BSInit
  PROVE  AnswerInvariant
  BY DEF BSInit, AnswerInvariant, Reached, Taken

LEMMA AnswerContinues ==
  ASSUME BioInvariant, AnswerInvariant, [BSNext]_BSvars
  PROVE  AnswerInvariant'
<1>0. Advance
  BY BioInvariantContinues
<1>1. ASSUME NEW c \in Clicks, Start(c) \/ Continue(c) \/ AbortClick(c) PROVE AnswerInvariant'
  BY <1>0, <1>1, ClicksCare
<1>2. ASSUME NEW h \in Handlers,
             (\E e \in Events : Receive(h, e)) \/ Handle(h) \/ AbortDelivery(h)
      PROVE  AnswerInvariant'
  BY <1>0, <1>2, ReceiveCares, RegisterCares, MoveCares, ApproveCares, DecidingCares,
     AbortDeliveryCares DEF Handle
<1>3. CASE \/ Reject \/ CloseDocument \/ LinkAccount
           \/ \E i \in Ids : Verdict(i) \/ Lapse(i)
  BY <1>0, <1>3, OthersCare
<1>4. CASE UNCHANGED BSvars
  BY <1>4 DEF BSvars, provider, webhooks, signing, history, AnswerInvariant, Reached, Taken,
     Cared, Active, Approved, Approving, SigningFor, Deciding, Attempt
<1> QED BY <1>1, <1>2, <1>3, <1>4 DEF BSNext

\* Once Didit was answered 200 to an approval and nobody is at work on it, it is signed or
\* given up, whatever failed and however often it was delivered, unless one of its
\* deliveries left it to another and one of them died.
THEOREM ApprovalsAreSigned == BSSpec => []ApprovedIsSigned
<1>1. BioInvariant /\ AnswerInvariant => ApprovedIsSigned
  <2> SUFFICES ASSUME AnswerInvariant, NEW i \in DOMAIN attempts \ (ceded \cap died), Told200(i)
               PROVE  ~Active(i) /\ (Approved(i) => signer # "PENDING")
    BY DEF ApprovedIsSigned, Approved
  <2>1. Cared(i) /\ <<i, "APPROVED">> \in acked /\ \A h \in Handlers : Attempt(h) # i
    BY DEF AnswerInvariant, Told200
  <2>2. <<i, "APPROVED">> \in Taken /\ \A h \in Handlers : ~Approving(h, i) /\ ~SigningFor(h, i)
    BY <2>1 DEF Taken, Approving, SigningFor
  <2> QED BY <2>1, <2>2 DEF Cared
<1>2. BSInit => BioInvariant /\ AnswerInvariant
  BY BioInvariantBegins, AnswerBegins
<1>3. BioInvariant /\ AnswerInvariant /\ [BSNext]_BSvars => (BioInvariant /\ AnswerInvariant)'
  BY BioInvariantContinues, AnswerContinues DEF Advance
<1> QED BY <1>1, <1>2, <1>3, PTL DEF BSSpec
=============================================================================
