------------------------- MODULE SigningFlow_proofs -------------------------
(* Proofs about SigningFlow, for every number of signers and requests. *)
EXTENDS SigningFlow, TLAPS

\* The id of a request that has not chosen a signer is one of the signers.
LEMMA NoSignerType == NoSigner \in Signers
  BY SignersAssumption DEF NoSigner

\* The initial state has its types.
LEMMA TypeInit == Init => TypeOK
  <1> USE NoSignerType DEF NoDocument, NoRows, DocumentRow, Row, Statuses, Kinds,
        Buckets, SignatureTypes, AfterClaim, Ended, Pdf
  <1> QED BY DEF Init, TypeOK

\* The page of signatures drawn from a table is a content of the file.
LEMMA StampedType ==
  ASSUME TypeOK, NEW table \in [Signers -> Row], NEW shown
  PROVE  StampedOnto(table, shown) \in Pdf
  <1>1. \A row \in Row : StampImage(row) \in Stamps
    BY DEF StampImage, Stamps, TypeOK, SignatureTypes
  <1> QED BY <1>1 DEF StampedOnto, Pdf, Stamps

\* Updating one field of one row of a table keeps the table well typed.
LEMMA RowUpdate ==
  ASSUME NEW row \in Row
  PROVE  /\ \A a \in Statuses : [row EXCEPT !.status = a] \in Row
         /\ \A a \in Statuses :
              [row EXCEPT !.status = a, !.evidence = TRUE] \in Row
         /\ [row EXCEPT !.snapshot = TRUE] \in Row
         /\ [row EXCEPT !.linked = TRUE] \in Row
  BY DEF Row

\* Updating the counter of answers keeps the document well typed.
LEMMA CountUpdate ==
  ASSUME NEW doc \in DocumentRow, NEW n \in Nat
  PROVE  [doc EXCEPT !.completedSignersCount = n] \in DocumentRow
  BY DEF DocumentRow

\* Every step keeps the types: one case per action.
LEMMA TypeStep == TypeOK /\ [Next]_vars => TypeOK'
  <1> SUFFICES ASSUME TypeOK, [Next]_vars PROVE TypeOK'
    OBVIOUS
  <1> USE NoSignerType DEF TypeOK, settings, tables, storage, events, local, Goto,
        AfterClaim, Ended, DocumentRow, Row, Statuses, Kinds, Buckets
  <1>1. ASSUME NEW r \in Requests, ReadDocument(r) PROVE TypeOK'
    BY <1>1 DEF ReadDocument
  <1>2. ASSUME NEW r \in Requests, ReadSigners(r) PROVE TypeOK'
    BY <1>2 DEF ReadSigners
  <1>3. ASSUME NEW r \in Requests, Refuse(r) PROVE TypeOK'
    BY <1>3 DEF Refuse, NoDocument, NoRows
  <1>4. ASSUME NEW r \in Requests, ClaimSignature(r) PROVE TypeOK'
    <2> HIDE DEF Row
    <2>1. who[r] \in Signers /\ collaborators[who[r]] \in Row
          /\ rows[r] \in [Signers -> Row] /\ rows[r][who[r]] \in Row
      OBVIOUS
    <2>2. /\ [collaborators[who[r]] EXCEPT !.status = "SIGNED"] \in Row
          /\ [rows[r][who[r]] EXCEPT !.status = "SIGNED", !.evidence = TRUE] \in Row
      BY <2>1, RowUpdate
    <2>3. collaborators' \in [Signers -> Row] /\ rows' \in [Requests -> [Signers -> Row]]
      BY <1>4, <2>1, <2>2 DEF ClaimSignature
    <2> QED BY <1>4, <2>3 DEF ClaimSignature
  <1>5. ASSUME NEW r \in Requests, ClaimRejection(r) PROVE TypeOK'
    <2> HIDE DEF Row
    <2>1. who[r] \in Signers /\ collaborators[who[r]] \in Row
          /\ rows[r] \in [Signers -> Row] /\ rows[r][who[r]] \in Row
      OBVIOUS
    <2>2. /\ [collaborators[who[r]] EXCEPT !.status = "REJECTED"] \in Row
          /\ [rows[r][who[r]] EXCEPT !.status = "REJECTED"] \in Row
      BY <2>1, RowUpdate
    <2>3. collaborators' \in [Signers -> Row] /\ rows' \in [Requests -> [Signers -> Row]]
      BY <1>5, <2>1, <2>2 DEF ClaimRejection
    <2> QED BY <1>5, <2>3 DEF ClaimRejection
  <1>6. ASSUME NEW r \in Requests, SnapshotSignature(r) PROVE TypeOK'
    <2> HIDE DEF Row
    <2>1. who[r] \in Signers /\ collaborators[who[r]] \in Row
          /\ rows[r] \in [Signers -> Row] /\ rows[r][who[r]] \in Row
      OBVIOUS
    <2>2. /\ [collaborators[who[r]] EXCEPT !.snapshot = TRUE] \in Row
          /\ [rows[r][who[r]] EXCEPT !.snapshot = TRUE] \in Row
      BY <2>1, RowUpdate
    <2> DEFINE RowsTyped == /\ collaborators' \in [Signers -> Row]
                            /\ rows' \in [Requests -> [Signers -> Row]]
    <2>3. ASSUME signatureType = "SIMPLE" PROVE RowsTyped
      <3> HIDE DEF DocumentRow, AfterClaim, Ended
      <3>1. /\ collaborators' = [collaborators EXCEPT ![who[r]].snapshot = TRUE]
            /\ rows' = [rows EXCEPT ![r][who[r]].snapshot = TRUE]
        BY <1>6, <2>3 DEF SnapshotSignature
      <3> QED BY <3>1, <2>1, <2>2
    <2>4. ASSUME signatureType # "SIMPLE" PROVE RowsTyped
      <3> HIDE DEF DocumentRow, AfterClaim, Ended
      <3> QED BY <1>6, <2>4 DEF SnapshotSignature
    <2>5. memory' \in [Requests -> DocumentRow]
      <3>1. memory' = [memory EXCEPT ![r].completedSignersCount = @ + 1]
        BY <1>6 DEF SnapshotSignature
      <3>2. memory[r] \in DocumentRow
        OBVIOUS
      <3> DEFINE counted == [memory[r] EXCEPT !.completedSignersCount =
                                      memory[r].completedSignersCount + 1]
      <3>3. counted \in DocumentRow
        <4>1. memory[r].completedSignersCount + 1 \in Nat
          BY <3>2
        <4> HIDE DEF DocumentRow
        <4> QED BY <3>2, <4>1, CountUpdate
      <3>4. memory' = [memory EXCEPT ![r] = counted]
        BY <3>1
      <3>5. memory \in [Requests -> DocumentRow]
        OBVIOUS
      <3> HIDE DEF counted, TypeOK, DocumentRow
      <3> QED BY <3>3, <3>4, <3>5
    <2>6. pc' \in [Requests -> {"idle", "document_read", "checked"}
                                \cup AfterClaim \cup Ended]
      BY <1>6 DEF SnapshotSignature
    <2>7. /\ collaborators' \in [Signers -> Row]
          /\ rows' \in [Requests -> [Signers -> Row]]
      BY <2>3, <2>4
    <2>8. UNCHANGED <<isSequential, signatureType, document, bucket, sheet,
                      announced, completions, kind, who>>
      BY <1>6 DEF SnapshotSignature
    <2> HIDE DEF DocumentRow, AfterClaim, Ended, Goto
    <2> QED BY <2>5, <2>6, <2>7, <2>8
  <1>7. ASSUME NEW r \in Requests, StampSigned(r) PROVE TypeOK'
    BY <1>7, StampedType DEF StampSigned
  <1>8. ASSUME NEW r \in Requests, PersistHash(r) PROVE TypeOK'
    BY <1>8 DEF PersistHash
  <1>9. ASSUME NEW r \in Requests, AttachSheet(r) PROVE TypeOK'
    BY <1>9 DEF AttachSheet
  <1>10. ASSUME NEW r \in Requests, SaveSigned(r) PROVE TypeOK'
    BY <1>10 DEF SaveSigned
  <1>11. ASSUME NEW r \in Requests, EmitSigned(r) PROVE TypeOK'
    BY <1>11 DEF EmitSigned
  <1>12. ASSUME NEW r \in Requests, CountSigner(r) PROVE TypeOK'
    BY <1>12 DEF CountSigner
  <1>13. ASSUME NEW r \in Requests, RefreshPreview(r) PROVE TypeOK'
    <2>1. StampedOnto(rows[r], {s \in Signers : rows[r][s].status = "SIGNED"}) \in Pdf
      BY StampedType
    <2>2. bucket' \in [Buckets -> Pdf \cup {NoFile}]
      <3> HIDE DEF Row, DocumentRow, AfterClaim, Ended
      <3> QED BY <1>13, <2>1 DEF RefreshPreview
    <2> QED BY <1>13, <2>2 DEF RefreshPreview
  <1>14. ASSUME NEW r \in Requests, SaveParticipant(r) PROVE TypeOK'
    <2> HIDE DEF Row
    <2>1. rows[r][who[r]] \in Row
      OBVIOUS
    <2> QED BY <1>14, <2>1 DEF SaveParticipant
  <1>15. ASSUME NEW r \in Requests, EmitCollaboratorSigned(r) PROVE TypeOK'
    BY <1>15 DEF EmitCollaboratorSigned
  <1>16. ASSUME NEW r \in Requests, StampRejected(r) PROVE TypeOK'
    BY <1>16, StampedType DEF StampRejected
  <1>17. ASSUME NEW r \in Requests, SaveRejected(r) PROVE TypeOK'
    BY <1>17 DEF SaveRejected
  <1>18. ASSUME NEW r \in Requests, Abort(r) PROVE TypeOK'
    BY <1>18 DEF Abort
  <1>19. ASSUME NEW s \in Signers, LinkAccount(s) PROVE TypeOK'
    <2> HIDE DEF Row
    <2>1. collaborators[s] \in Row
      OBVIOUS
    <2> QED BY <1>19, <2>1, RowUpdate DEF LinkAccount
  <1>20. ASSUME UNCHANGED vars PROVE TypeOK'
    BY <1>20 DEF vars
  <1> HIDE DEF TypeOK
  <1> QED
    BY <1>1, <1>2, <1>3, <1>4, <1>5, <1>6, <1>7, <1>8, <1>9, <1>10, <1>11, <1>12,
       <1>13, <1>14, <1>15, <1>16, <1>17, <1>18, <1>19, <1>20
       DEF Next, Claim, Advance, Finalize

\* Type correctness of the whole phase.
THEOREM TypeCorrect == Spec => []TypeOK
  BY TypeInit, TypeStep, PTL DEF Spec

-----------------------------------------------------------------------------
(* The race invariant.  It speaks only of statuses and control points, so    *)
(* the steps fall in three groups: those that give no answer (Quiet), those  *)
(* of a request that has not claimed yet, and the two claims.                *)

RaceCore == /\ OneClaimPerSigner /\ CopiesAreOld /\ CopyJustifiesStep
            /\ CopiesAreSeparate /\ AnsweredInOrder

\* A step after which every status, and who has claimed, is as before.
Quiet ==
  /\ \A s \in Signers : collaborators'[s].status = collaborators[s].status
  /\ \A r \in Requests, s \in Signers : rows'[r][s].status = rows[r][s].status
  /\ who' = who /\ kind' = kind /\ isSequential' = isSequential
  /\ \A r \in Requests : /\ HasClaimed(r)' <=> HasClaimed(r)
                         /\ pc'[r] = "checked" <=> pc[r] = "checked"

\* A quiet step leaves what each request read and decided from it.
LEMMA QuietPending ==
  ASSUME TypeOK, Quiet, NEW r \in Requests
  PROVE  /\ Pending(rows[r])' = Pending(rows[r])
         /\ IsSignerTurn(who[r], rows[r])' <=> IsSignerTurn(who[r], rows[r])
         /\ RemainingSigners(r)' = RemainingSigners(r)
         /\ IsFinalizer(r)' <=> IsFinalizer(r)
  <1>1. Pending(rows[r])' = Pending(rows[r])
    BY DEF Pending, Quiet
  <1>2. who'[r] = who[r] /\ kind'[r] = kind[r] /\ isSequential' = isSequential
        /\ (HasClaimed(r)' <=> HasClaimed(r))
    BY DEF Quiet
  <1>3. RemainingSigners(r)' = RemainingSigners(r)
    BY <1>1, <1>2 DEF RemainingSigners
  <1>4. IsFinalizer(r)' <=> IsFinalizer(r)
    BY <1>2, <1>3 DEF IsFinalizer
  <1>5. IsSignerTurn(who[r], rows[r])' <=> IsSignerTurn(who[r], rows[r])
    BY <1>1, <1>2 DEF IsSignerTurn
  <1> QED BY <1>1, <1>3, <1>4, <1>5

\* A quiet step keeps the three parts of the invariant that speak of copies.
LEMMA QuietCore ==
  ASSUME TypeOK, RaceCore, Quiet
  PROVE  RaceCore'
  <1>1. \A r \in Requests : who[r] \in Signers
    BY DEF TypeOK
  <1>2. OneClaimPerSigner'
    BY DEF RaceCore, OneClaimPerSigner, Quiet
  <1>3. CopiesAreOld'
    BY DEF RaceCore, CopiesAreOld, Quiet
  <1>4. CopyJustifiesStep'
    BY <1>1, QuietPending DEF RaceCore, CopyJustifiesStep, Quiet
  <1>5. CopiesAreSeparate'
    BY <1>1 DEF RaceCore, CopiesAreSeparate, Quiet
  <1>6. AnsweredInOrder'
    BY DEF RaceCore, AnsweredInOrder, Quiet
  <1> QED BY <1>2, <1>3, <1>4, <1>5, <1>6 DEF RaceCore

\* Advancing after the claim changes nobody's claim, and no check in course.
LEMMA GotoQuiet ==
  ASSUME TypeOK, NEW r \in Requests, NEW next \in AfterClaim \cup Ended,
         pc[r] \in AfterClaim, pc' = [pc EXCEPT ![r] = next]
  PROVE  \A q \in Requests : /\ HasClaimed(q)' <=> HasClaimed(q)
                             /\ pc'[q] = "checked" <=> pc[q] = "checked"
                             /\ pc'[q] = IF q = r THEN next ELSE pc[q]
  BY DEF TypeOK, HasClaimed, AfterClaim, Ended

\* The next control point of a request that has claimed.
LEMMA AdvanceGoto ==
  ASSUME TypeOK, NEW r \in Requests, Advance(r) \/ Abort(r)
  PROVE  /\ pc[r] \in AfterClaim
         /\ \E next \in AfterClaim \cup Ended :
              /\ pc' = [pc EXCEPT ![r] = next]
              /\ next # "claimed"
              /\ pc[r] \in AfterEmit => next \in AfterEmit
              /\ next \in FinalizeSteps =>
                   \/ pc[r] \in FinalizeSteps
                   \/ pc[r] = "claimed" /\ RemainingSigners(r) = {}
              /\ pc[r] = "completed" => next \in AfterEmit
  <1> USE DEF AfterClaim, Ended, AfterEmit, FinalizeSteps, Goto
  <1>1. CASE SnapshotSignature(r)
    BY <1>1 DEF SnapshotSignature
  <1>2. CASE Finalize(r)
    BY <1>2 DEF Finalize, StampSigned, PersistHash, AttachSheet, SaveSigned, EmitSigned
  <1>3. CASE CountSigner(r) \/ RefreshPreview(r) \/ SaveParticipant(r)
             \/ EmitCollaboratorSigned(r)
    BY <1>3 DEF CountSigner, RefreshPreview, SaveParticipant, EmitCollaboratorSigned
  <1>4. CASE StampRejected(r) \/ SaveRejected(r) \/ Abort(r)
    BY <1>4 DEF StampRejected, SaveRejected, Abort
  <1> QED BY <1>1, <1>2, <1>3, <1>4 DEF Advance

\* Every step of a request after its claim is quiet.
LEMMA AdvanceQuiet ==
  ASSUME TypeOK, RaceCore, NEW r \in Requests, Advance(r) \/ Abort(r)
  PROVE  Quiet
  <1>1. /\ pc[r] \in AfterClaim
        /\ \A q \in Requests : /\ HasClaimed(q)' <=> HasClaimed(q)
                               /\ pc'[q] = "checked" <=> pc[q] = "checked"
    <2>1. pc[r] \in AfterClaim
      BY AdvanceGoto
    <2>2. PICK next \in AfterClaim \cup Ended : pc' = [pc EXCEPT ![r] = next]
      BY AdvanceGoto
    <2> QED BY <2>1, <2>2, GotoQuiet
  <1>2. HasClaimed(r) /\ who[r] \in Signers
    BY <1>1 DEF HasClaimed, TypeOK
  <1>3. rows[r][who[r]].status = collaborators[who[r]].status
    BY <1>2 DEF RaceCore, CopiesAreOld, CopyJustifiesStep
  <1>4. ASSUME SnapshotSignature(r) PROVE Quiet
    <2>1. /\ \A s \in Signers : collaborators'[s].status = collaborators[s].status
          /\ \A q \in Requests, s \in Signers : rows'[q][s].status = rows[q][s].status
      <3>1. CASE signatureType = "SIMPLE"
        <4>1. /\ collaborators' = [collaborators EXCEPT ![who[r]].snapshot = TRUE]
              /\ rows' = [rows EXCEPT ![r][who[r]].snapshot = TRUE]
          BY <1>4, <3>1 DEF SnapshotSignature
        <4> QED BY <4>1, <1>2 DEF TypeOK, Row
      <3>2. CASE signatureType # "SIMPLE"
        BY <1>4, <3>2 DEF SnapshotSignature
      <3> QED BY <3>1, <3>2
    <2> QED BY <1>1, <1>4, <2>1 DEF SnapshotSignature, Quiet, settings
  <1>5. ASSUME SaveParticipant(r) PROVE Quiet
    <2>1. collaborators' = [collaborators EXCEPT ![who[r]] = rows[r][who[r]]]
      BY <1>5 DEF SaveParticipant
    <2>2. \A s \in Signers : collaborators'[s].status = collaborators[s].status
      BY <2>1, <1>2, <1>3 DEF TypeOK
    <2> QED BY <1>1, <1>5, <2>2 DEF SaveParticipant, Quiet, settings
  <1>6. ASSUME Finalize(r) PROVE Quiet
    BY <1>1, <1>6 DEF Finalize, StampSigned, PersistHash, AttachSheet, SaveSigned,
                      EmitSigned, Quiet, settings, tables
  <1>7. ASSUME CountSigner(r) \/ RefreshPreview(r) \/ EmitCollaboratorSigned(r)
               \/ StampRejected(r) \/ SaveRejected(r) \/ Abort(r)
        PROVE  Quiet
    BY <1>1, <1>7 DEF CountSigner, RefreshPreview, EmitCollaboratorSigned,
                      StampRejected, SaveRejected, Abort, Quiet, settings, tables
  <1> QED BY <1>4, <1>5, <1>6, <1>7 DEF Advance

\* Two requests that both found nobody missing are one request.
LEMMA FinalizerUnique ==
  ASSUME TypeOK, RaceCore, NEW r1 \in Requests, NEW r2 \in Requests,
         IsFinalizer(r1), IsFinalizer(r2)
  PROVE  r1 = r2
  <1> SUFFICES ASSUME r1 # r2 PROVE FALSE
    OBVIOUS
  <1>1. who[r1] \in Signers /\ who[r2] \in Signers /\ who[r1] # who[r2]
    BY DEF IsFinalizer, RaceCore, OneClaimPerSigner, TypeOK
  <1>2. who[r2] \notin Pending(rows[r1]) /\ who[r1] \notin Pending(rows[r2])
    BY <1>1 DEF IsFinalizer, RemainingSigners
  <1> QED BY <1>1, <1>2 DEF Pending, IsFinalizer, RaceCore, CopiesAreSeparate

\* Only the request whose copy shows everyone else answered goes on to finalize.
LEMMA AdvanceFinalizers ==
  ASSUME TypeOK, RaceCore, FinalizersOnly, NEW r \in Requests,
         Advance(r) \/ Abort(r)
  PROVE  FinalizersOnly'
  <1>1. Quiet
    BY AdvanceQuiet
  <1>2. \A q \in Requests : kind'[q] = kind[q] /\ (IsFinalizer(q)' <=> IsFinalizer(q))
    BY <1>1, QuietPending DEF Quiet
  <1>3. PICK next \in AfterClaim \cup Ended :
              /\ pc' = [pc EXCEPT ![r] = next]
              /\ next # "claimed"
              /\ pc[r] \in AfterEmit => next \in AfterEmit
              /\ next \in FinalizeSteps =>
                   \/ pc[r] \in FinalizeSteps
                   \/ pc[r] = "claimed" /\ RemainingSigners(r) = {}
              /\ pc[r] = "completed" => next \in AfterEmit
    BY AdvanceGoto
  <1>4. \A q \in Requests : pc'[q] = IF q = r THEN next ELSE pc[q]
    <2>1. pc[r] \in AfterClaim
      BY AdvanceGoto
    <2> QED BY <1>3, <2>1, GotoQuiet
  <1>5. pc[r] = "claimed" /\ RemainingSigners(r) = {} => IsFinalizer(r)
    BY DEF FinalizersOnly, IsFinalizer, HasClaimed, AfterClaim
  <1>6. \A q \in Requests : /\ pc'[q] = "claimed" => kind'[q] # "reject"
                            /\ pc'[q] \in FinalizeSteps => IsFinalizer(q)'
    BY <1>2, <1>3, <1>4, <1>5 DEF FinalizersOnly
  <1>7. ASSUME completions' # 0
        PROVE  completions' = 1 /\ \E q \in Requests : IsFinalizer(q)' /\ pc'[q] \in AfterEmit
    <2>1. CASE completions' = completions
      BY <1>2, <1>3, <1>4, <1>7, <2>1 DEF FinalizersOnly
    <2>2. CASE EmitSigned(r)
      <3>1. pc[r] = "completed" /\ completions' = completions + 1
        BY <2>2 DEF EmitSigned
      <3>2. IsFinalizer(r)
        BY <3>1 DEF FinalizersOnly, FinalizeSteps
      <3>3. completions = 0
        BY <3>1, <3>2, FinalizerUnique DEF FinalizersOnly, AfterEmit
      <3> QED BY <1>2, <1>3, <1>4, <3>1, <3>2, <3>3
    <2>3. completions' = completions \/ EmitSigned(r)
      BY DEF Advance, Finalize, SnapshotSignature, StampSigned, PersistHash, AttachSheet,
             SaveSigned, CountSigner, RefreshPreview, SaveParticipant,
             EmitCollaboratorSigned, StampRejected, SaveRejected, Abort, events
    <2> QED BY <2>1, <2>2, <2>3
  <1> QED BY <1>6, <1>7 DEF FinalizersOnly, IsFinalizer

-----------------------------------------------------------------------------
(* A request before its claim touches nobody else.                           *)

\* Reading, and refusing before the claim, keep the invariant.
LEMMA UnclaimedStep ==
  ASSUME TypeOK, RaceInvariant, NEW r \in Requests,
         ReadDocument(r) \/ ReadSigners(r) \/ Refuse(r)
  PROVE  RaceInvariant'
  <1>1. /\ ~HasClaimed(r) /\ ~HasClaimed(r)'
        /\ \A q \in Requests : q # r => /\ pc'[q] = pc[q] /\ kind'[q] = kind[q]
                                        /\ who'[q] = who[q] /\ rows'[q] = rows[q]
        /\ UNCHANGED <<isSequential, collaborators, completions>>
        /\ pc'[r] \in {"document_read", "checked", "idle"}
        /\ pc'[r] = "checked" => /\ rows'[r] = collaborators
                                 /\ IsSignerTurn(who'[r], rows'[r])
    BY DEF ReadDocument, ReadSigners, Refuse, Goto, HasClaimed, AfterClaim, Ended,
           TypeOK, settings, tables, events, IsSignerTurn
  <1>2. \A q \in Requests : HasClaimed(q)' <=> HasClaimed(q)
    BY <1>1 DEF HasClaimed
  <1>3. \A q \in Requests : HasClaimed(q) => q # r
    BY <1>1
  <1>4. \A q \in Requests : IsFinalizer(q)' <=> IsFinalizer(q)
    BY <1>1, <1>2, <1>3 DEF IsFinalizer, RemainingSigners, Pending
  <1>5. OneClaimPerSigner'
    BY <1>1, <1>2, <1>3 DEF RaceInvariant, OneClaimPerSigner
  <1>6. CopiesAreOld'
    BY <1>1, <1>2, <1>3 DEF RaceInvariant, CopiesAreOld
  <1>7. CopyJustifiesStep'
    BY <1>1, <1>2, <1>3 DEF RaceInvariant, CopyJustifiesStep, IsSignerTurn, Pending
  <1>8. CopiesAreSeparate'
    BY <1>1, <1>2, <1>3 DEF RaceInvariant, CopiesAreSeparate
  <1>9. AnsweredInOrder'
    BY <1>1 DEF RaceInvariant, AnsweredInOrder
  <1>10. FinalizersOnly'
    <2>1. \A q \in Requests : pc'[q] \in {"claimed"} \cup FinalizeSteps => q # r
      BY <1>1 DEF FinalizeSteps
    <2>2. \A q \in Requests : IsFinalizer(q) => q # r
      BY <1>3 DEF IsFinalizer
    <2> QED BY <1>1, <1>4, <2>1, <2>2 DEF RaceInvariant, FinalizersOnly
  <1> QED BY <1>5, <1>6, <1>7, <1>8, <1>9, <1>10 DEF RaceInvariant

-----------------------------------------------------------------------------
(* The two claims.                                                           *)

\* What a claim does to the statuses and to the control of the request.
LEMMA ClaimEffect ==
  ASSUME TypeOK, NEW r \in Requests, Claim(r)
  PROVE  /\ pc[r] = "checked" /\ who[r] \in Signers
         /\ collaborators[who[r]].status = "PENDING"
         /\ \A q \in Requests : q # r => pc'[q] = pc[q] /\ rows'[q] = rows[q]
         /\ UNCHANGED <<isSequential, completions, kind, who>>
         /\ \/ pc'[r] = "claimed" /\ kind[r] # "reject"
            \/ pc'[r] = "watermarking"
         /\ \E a \in {"SIGNED", "REJECTED"} :
              \A s \in Signers :
                /\ collaborators'[s].status =
                     IF s = who[r] THEN a ELSE collaborators[s].status
                /\ rows'[r][s].status = IF s = who[r] THEN a ELSE rows[r][s].status
  <1>1. who[r] \in Signers
    BY DEF TypeOK
  <1>2. CASE ClaimSignature(r)
    BY <1>1, <1>2 DEF ClaimSignature, ClaimHolds, TypeOK, Goto, Row, settings, events
  <1>3. CASE ClaimRejection(r)
    BY <1>1, <1>3 DEF ClaimRejection, TypeOK, Goto, Row, settings, events
  <1> QED BY <1>2, <1>3 DEF Claim

\* The claim keeps the invariant: it is the one step that answers for a signer.
LEMMA ClaimStep ==
  ASSUME TypeOK, RaceInvariant, NEW r \in Requests, Claim(r)
  PROVE  RaceInvariant'
  <1>1. /\ pc[r] = "checked" /\ who[r] \in Signers
        /\ collaborators[who[r]].status = "PENDING"
        /\ \A q \in Requests : q # r => pc'[q] = pc[q] /\ rows'[q] = rows[q]
        /\ isSequential' = isSequential /\ completions' = completions
        /\ kind' = kind /\ who' = who
        /\ \/ pc'[r] = "claimed" /\ kind[r] # "reject"
           \/ pc'[r] = "watermarking"
    BY ClaimEffect
  <1>2. PICK a \in {"SIGNED", "REJECTED"} :
          \A s \in Signers :
            /\ collaborators'[s].status =
                 IF s = who[r] THEN a ELSE collaborators[s].status
            /\ rows'[r][s].status = IF s = who[r] THEN a ELSE rows[r][s].status
    BY ClaimEffect
  <1>3. /\ ~HasClaimed(r) /\ HasClaimed(r)'
        /\ \A q \in Requests : q # r => (HasClaimed(q)' <=> HasClaimed(q))
    BY <1>1 DEF HasClaimed, AfterClaim, Ended
  <1>4. \A q \in Requests : who[q] \in Signers
    BY DEF TypeOK
  \* Nobody who has read the signers knows an answer of this one.
  <1>5. \A q \in Requests : pc[q] = "checked" \/ HasClaimed(q)
                               => rows[q][who[r]].status = "PENDING"
    BY <1>1 DEF RaceInvariant, CopiesAreOld
  <1>6. \A q \in Requests : HasClaimed(q) => who[q] # who[r]
    BY <1>5 DEF RaceInvariant, CopyJustifiesStep
  <1>7. OneClaimPerSigner'
    BY <1>1, <1>3, <1>6 DEF RaceInvariant, OneClaimPerSigner
  <1>8. CopiesAreOld'
    <2> SUFFICES ASSUME NEW q \in Requests, (pc[q] = "checked" \/ HasClaimed(q))',
                        NEW s \in Signers, rows'[q][s].status # "PENDING"
                 PROVE  collaborators'[s].status = rows'[q][s].status
      BY DEF CopiesAreOld
    <2>1. CASE q = r
      BY <1>1, <1>2, <2>1 DEF RaceInvariant, CopiesAreOld
    <2>2. CASE q # r
      <3>1. pc[q] = "checked" \/ HasClaimed(q)
        BY <1>1, <1>3, <2>2
      <3>2. rows[q][s].status # "PENDING"
        BY <1>1, <2>2
      <3> QED BY <1>1, <1>2, <1>5, <2>2, <3>1, <3>2 DEF RaceInvariant, CopiesAreOld
    <2> QED BY <2>1, <2>2
  <1>9. CopyJustifiesStep'
    <2> SUFFICES ASSUME NEW q \in Requests
                 PROVE  /\ pc'[q] = "checked" => IsSignerTurn(who[q], rows[q])'
                        /\ HasClaimed(q)' => rows'[q][who'[q]].status # "PENDING"
      BY DEF CopyJustifiesStep
    <2>1. CASE q = r
      BY <1>1, <1>2, <2>1
    <2>2. CASE q # r
      BY <1>1, <1>3, <2>2 DEF RaceInvariant, CopyJustifiesStep, IsSignerTurn, Pending
    <2> QED BY <2>1, <2>2
  <1>10. CopiesAreSeparate'
    <2> SUFFICES ASSUME NEW q1 \in Requests, NEW q2 \in Requests, q1 # q2,
                        HasClaimed(q1)', HasClaimed(q2)'
                 PROVE  \/ rows'[q1][who[q2]].status = "PENDING"
                        \/ rows'[q2][who[q1]].status = "PENDING"
      BY <1>1 DEF CopiesAreSeparate
    <2>1. CASE q1 # r /\ q2 # r
      BY <1>1, <1>3, <2>1 DEF RaceInvariant, CopiesAreSeparate
    <2>2. CASE q1 = r
      BY <1>1, <1>3, <1>5, <2>2
    <2>3. CASE q2 = r
      BY <1>1, <1>3, <1>5, <2>3
    <2> QED BY <2>1, <2>2, <2>3
  <1>11. AnsweredInOrder'
    <2> SUFFICES ASSUME isSequential, NEW s \in Signers, NEW t \in Signers,
                        Order[s] < Order[t], collaborators'[t].status # "PENDING"
                 PROVE  collaborators'[s].status # "PENDING"
      BY <1>1 DEF AnsweredInOrder
    <2>1. CASE t = who[r]
      <3>1. ~(Order[t] <= Order[s])
        BY OrderAssumption
      <3>2. s \notin Pending(rows[r])
        BY <1>1, <2>1, <3>1 DEF RaceInvariant, CopyJustifiesStep, IsSignerTurn
      <3>3. collaborators[s].status # "PENDING"
        BY <1>1, <3>2 DEF RaceInvariant, CopiesAreOld, Pending
      <3> QED BY <1>1, <1>2, <3>3
    <2>2. CASE t # who[r]
      BY <1>2, <2>2 DEF RaceInvariant, AnsweredInOrder
    <2> QED BY <2>1, <2>2
  <1>12. FinalizersOnly'
    <2>1. \A q \in Requests : q # r => (IsFinalizer(q)' <=> IsFinalizer(q))
      BY <1>1, <1>3 DEF IsFinalizer, RemainingSigners, Pending
    <2>2. pc'[r] \notin FinalizeSteps /\ ~IsFinalizer(r)
      BY <1>1, <1>3 DEF FinalizeSteps, IsFinalizer
    <2> QED BY <1>1, <2>1, <2>2 DEF RaceInvariant, FinalizersOnly
  <1> QED BY <1>7, <1>8, <1>9, <1>10, <1>11, <1>12 DEF RaceInvariant

-----------------------------------------------------------------------------
(* The race invariant is inductive.                                          *)

\* The invariant holds at first: nobody has read or claimed.
LEMMA RaceInit == Init => RaceInvariant
  <1> SUFFICES ASSUME Init PROVE RaceInvariant
    OBVIOUS
  <1>1. \A r \in Requests : pc[r] = "idle" /\ ~HasClaimed(r)
    BY DEF Init, HasClaimed, AfterClaim, Ended
  <1>2. \A s \in Signers : collaborators[s].status = "PENDING"
    BY DEF Init
  <1> QED
    BY <1>1, <1>2 DEF RaceInvariant, OneClaimPerSigner, CopiesAreOld, CopyJustifiesStep,
       CopiesAreSeparate, AnsweredInOrder, FinalizersOnly, FinalizeSteps, Init

\* Every step keeps the invariant: reads and refusals, claims, and the rest.
LEMMA RaceStep == TypeOK /\ RaceInvariant /\ [Next]_vars => RaceInvariant'
  <1> SUFFICES ASSUME TypeOK, RaceInvariant, [Next]_vars PROVE RaceInvariant'
    OBVIOUS
  <1>0. RaceCore /\ FinalizersOnly
    BY DEF RaceInvariant, RaceCore
  <1>1. ASSUME NEW r \in Requests, ReadDocument(r) \/ ReadSigners(r) \/ Refuse(r)
        PROVE  RaceInvariant'
    BY <1>1, UnclaimedStep
  <1>2. ASSUME NEW r \in Requests, Claim(r) PROVE RaceInvariant'
    BY <1>2, ClaimStep
  <1>3. ASSUME NEW r \in Requests, Advance(r) \/ Abort(r) PROVE RaceInvariant'
    <2>1. RaceCore'
      BY <1>0, <1>3, AdvanceQuiet, QuietCore
    <2>2. FinalizersOnly'
      BY <1>0, <1>3, AdvanceFinalizers
    <2> QED BY <2>1, <2>2 DEF RaceCore, RaceInvariant
  <1>4. ASSUME Quiet, pc' = pc, completions' = completions PROVE RaceInvariant'
    <2>1. RaceCore'
      BY <1>0, <1>4, QuietCore
    <2>2. \A q \in Requests : kind'[q] = kind[q] /\ (IsFinalizer(q)' <=> IsFinalizer(q))
      BY <1>4, QuietPending DEF Quiet
    <2>3. FinalizersOnly'
      BY <1>0, <1>4, <2>2 DEF FinalizersOnly
    <2> QED BY <2>1, <2>3 DEF RaceCore, RaceInvariant
  <1>5. ASSUME NEW s \in Signers, LinkAccount(s) PROVE RaceInvariant'
    <2>1. \A q \in Requests : HasClaimed(q)' <=> HasClaimed(q)
      BY <1>5 DEF LinkAccount, local, HasClaimed
    <2>2. Quiet
      BY <1>5, <2>1 DEF LinkAccount, Quiet, local, settings, TypeOK, Row
    <2> QED BY <1>4, <1>5, <2>2 DEF LinkAccount, local, events
  <1>6. ASSUME UNCHANGED vars PROVE RaceInvariant'
    <2>1. \A q \in Requests : HasClaimed(q)' <=> HasClaimed(q)
      BY <1>6 DEF vars, local, HasClaimed
    <2>2. Quiet
      BY <1>6, <2>1 DEF vars, tables, local, settings, Quiet
    <2> QED BY <1>4, <1>6, <2>2 DEF vars, local, events
  <1> QED BY <1>1, <1>2, <1>3, <1>5, <1>6 DEF Next

\* Whatever the number of signers and of requests in flight, no request acts
\* on a copy that is wrong, only old.
THEOREM RacesAreHarmless == Spec => []RaceInvariant
  BY TypeCorrect, RaceInit, RaceStep, PTL DEF Spec

\* Two requests never both win the claim of one signer.
THEOREM ClaimIsUnique == Spec => []OneClaimPerSigner
  <1>1. RaceInvariant => OneClaimPerSigner
    BY DEF RaceInvariant
  <1> QED BY <1>1, RacesAreHarmless, PTL

\* A sequential document is answered in the order of its signers.
THEOREM OrderIsKept == Spec => []AnsweredInOrder
  <1>1. RaceInvariant => AnsweredInOrder
    BY DEF RaceInvariant
  <1> QED BY <1>1, RacesAreHarmless, PTL

\* One request at most finalizes the document and publishes its event.
THEOREM FinalizerIsUnique == Spec => []OneFinalizer
  <1>1. TypeOK /\ RaceInvariant => OneFinalizer
    <2> SUFFICES ASSUME TypeOK, RaceInvariant PROVE OneFinalizer
      OBVIOUS
    <2>1. RaceCore
      BY DEF RaceInvariant, RaceCore
    <2>2. completions <= 1
      BY DEF RaceInvariant, FinalizersOnly
    <2> QED BY <2>1, <2>2, FinalizerUnique DEF OneFinalizer
  <1> QED BY <1>1, TypeCorrect, RacesAreHarmless, PTL

\* No step changes an answer once it is given: in particular not the whole-row
\* save of a participant, nor a second claim.
THEOREM AnswersFinal == Spec => AnswersAreFinal
  <1> DEFINE Kept == \A s \in Signers : collaborators[s].status # "PENDING"
                       => collaborators'[s].status = collaborators[s].status
  <1>1. TypeOK /\ RaceInvariant /\ [Next]_vars => [Kept]_vars
    <2> SUFFICES ASSUME TypeOK, RaceInvariant, Next PROVE Kept
      OBVIOUS
    <2>1. RaceCore
      BY DEF RaceInvariant, RaceCore
    <2>2. ASSUME NEW r \in Requests, Claim(r) PROVE Kept
      BY <2>2, ClaimEffect
    <2>3. ASSUME NEW r \in Requests, Advance(r) \/ Abort(r) PROVE Kept
      BY <2>1, <2>3, AdvanceQuiet DEF Quiet
    <2>4. ASSUME NEW r \in Requests, ReadDocument(r) \/ ReadSigners(r) \/ Refuse(r)
          PROVE  Kept
      BY <2>4 DEF ReadDocument, ReadSigners, Refuse, tables
    <2>5. ASSUME NEW s \in Signers, LinkAccount(s) PROVE Kept
      BY <2>5 DEF LinkAccount, TypeOK
    <2> QED BY <2>2, <2>3, <2>4, <2>5 DEF Next
  <1> QED BY <1>1, TypeCorrect, RacesAreHarmless, PTL DEF Spec, AnswersAreFinal

-----------------------------------------------------------------------------
(* The refinement of SignatureContract.                                      *)

\* What each step is for the contract: nothing, except the claim (Answer) and
\* the first time a definitive copy is stored (Close).
LEMMA ContractStep ==
  TypeOK /\ RaceInvariant /\ [Next]_vars => [Contract!Next]_(Contract!vars)
  <1> DEFINE answer == [s \in Signers |-> collaborators[s].status]
             closed == sheet # NoFile
  <1> SUFFICES ASSUME TypeOK, RaceInvariant, [Next]_vars
               PROVE  \/ Contract!Next
                      \/ /\ isSequential' = isSequential
                         /\ answer' = answer /\ closed' = closed
    BY DEF Contract!vars
  <1>0. RaceCore /\ FinalizersOnly
    BY DEF RaceInvariant, RaceCore
  <1>1. ASSUME NEW r \in Requests, Claim(r) PROVE Contract!Next
    <2>1. /\ pc[r] = "checked" /\ who[r] \in Signers
          /\ collaborators[who[r]].status = "PENDING" /\ isSequential' = isSequential
      BY <1>1, ClaimEffect
    <2>2. PICK a \in {"SIGNED", "REJECTED"} :
            \A s \in Signers : collaborators'[s].status =
                                  IF s = who[r] THEN a ELSE collaborators[s].status
      BY <1>1, ClaimEffect
    <2>3. answer' = [answer EXCEPT ![who[r]] = a]
      BY <2>2
    <2>4. sheet' = sheet
      BY <1>1 DEF Claim, ClaimSignature, ClaimRejection, storage
    <2>5. IsSignerTurn(who[r], rows[r])
      BY <2>1 DEF RaceInvariant, CopyJustifiesStep
    <2>6. ASSUME isSequential, NEW t \in Signers, Order[t] < Order[who[r]]
          PROVE  collaborators[t].status # "PENDING"
      <3>1. ~(Order[who[r]] <= Order[t])
        BY <2>1, <2>6, OrderAssumption
      <3>2. rows[r][t].status # "PENDING"
        BY <2>5, <2>6, <3>1 DEF IsSignerTurn, Pending
      <3> QED BY <2>1, <3>2 DEF RaceInvariant, CopiesAreOld
    <2>7. Contract!HasTurn(who[r])
      BY <2>1, <2>6 DEF Contract!HasTurn
    <2>8. PICK s \in Signers : s = who[r]
      BY <2>1
    <2>9. Contract!Answer(s)
      <3>1. isSequential' = isSequential /\ closed' = closed
        BY <2>1, <2>4
      <3>2. \E b \in {"SIGNED", "REJECTED"} : answer' = [answer EXCEPT ![s] = b]
        BY <2>3, <2>8, Zenon
      <3>3. Contract!HasTurn(s)
        BY <2>7, <2>8 DEF Contract!HasTurn
      <3> QED BY <3>1, <3>2, <3>3, Zenon DEF Contract!Answer
    <2> QED BY <2>9 DEF Contract!Next
  <1>2. ASSUME NEW r \in Requests, AttachSheet(r)
        PROVE  Contract!Next \/ (isSequential' = isSequential
                                  /\ answer' = answer /\ closed' = closed)
    <2>1. pc[r] = "attaching" /\ isSequential' = isSequential
          /\ collaborators' = collaborators
      BY <1>2 DEF AttachSheet, settings, tables
    <2>9. sheet' \in [Signers -> BOOLEAN]
      <3>1. sheet' = [s \in Signers |-> rows[r][s].evidence]
        BY <1>2 DEF AttachSheet
      <3>2. \A s \in Signers : rows[r][s].evidence \in BOOLEAN
        BY DEF TypeOK, Row
      <3> QED BY <3>1, <3>2
    <2>2. HasClaimed(r) /\ IsFinalizer(r) /\ who[r] \in Signers
      BY <1>0, <2>1 DEF FinalizersOnly, FinalizeSteps, HasClaimed, AfterClaim, TypeOK
    <2>3. \A s \in Signers : rows[r][s].status # "PENDING"
      BY <2>2 DEF IsFinalizer, RemainingSigners, Pending, RaceInvariant, CopyJustifiesStep
    <2>4. \A s \in Signers : answer[s] # "PENDING"
      BY <2>2, <2>3 DEF RaceInvariant, CopiesAreOld
    <2>5. closed' = TRUE
      BY <2>9, NoFileAssumption
    <2>6. CASE closed
      BY <2>1, <2>5, <2>6
    <2>7. CASE ~closed
      <3>1. Contract!Close
        BY <2>1, <2>4, <2>5, <2>7 DEF Contract!Close
      <3> QED BY <3>1 DEF Contract!Next
    <2> QED BY <2>6, <2>7
  <1>3. ASSUME Quiet, sheet' = sheet
        PROVE  isSequential' = isSequential /\ answer' = answer /\ closed' = closed
    BY <1>3 DEF Quiet
  <1>4. ASSUME NEW r \in Requests, Advance(r) \/ Abort(r), ~AttachSheet(r)
        PROVE  isSequential' = isSequential /\ answer' = answer /\ closed' = closed
    <2>1. sheet' = sheet
      BY <1>4 DEF Advance, Finalize, SnapshotSignature, StampSigned, PersistHash,
             SaveSigned, EmitSigned, CountSigner, RefreshPreview, SaveParticipant,
             EmitCollaboratorSigned, StampRejected, SaveRejected, Abort, storage
    <2> QED BY <1>0, <1>3, <1>4, <2>1, AdvanceQuiet
  <1>5. ASSUME NEW r \in Requests, ReadDocument(r) \/ ReadSigners(r) \/ Refuse(r)
        PROVE  isSequential' = isSequential /\ answer' = answer /\ closed' = closed
    BY <1>5 DEF ReadDocument, ReadSigners, Refuse, settings, tables, storage
  <1>6. ASSUME NEW s \in Signers, LinkAccount(s)
        PROVE  isSequential' = isSequential /\ answer' = answer /\ closed' = closed
    BY <1>6 DEF LinkAccount, settings, storage, TypeOK, Row
  <1>7. ASSUME UNCHANGED vars
        PROVE  isSequential' = isSequential /\ answer' = answer /\ closed' = closed
    BY <1>7 DEF vars, settings, tables, storage
  <1> QED BY <1>1, <1>2, <1>4, <1>5, <1>6, <1>7 DEF Next, Advance, Finalize

\* The handlers, with their stale copies and failures, implement the contract.
THEOREM RefinesContract == Spec => ImplementsContract
  <1>1. Init => Contract!Init
    BY DEF Init, Contract!Init
  <1> QED BY <1>1, ContractStep, TypeCorrect, RacesAreHarmless, PTL
      DEF Spec, ImplementsContract, Contract!Spec

-----------------------------------------------------------------------------
(* What is recorded when an answer is announced, and what is stored when the *)
(* document is SIGNED.                                                       *)

\* Control points of a request that signs, from its claim to its last event.
SignSteps == {"claimed", "counting", "previewing", "saving", "announcing"} \cup FinalizeSteps

\* A row that holds a whole signature.
Whole(row) ==
  row.status = "SIGNED" /\ row.evidence /\ (signatureType = "SIMPLE" => row.snapshot)

\* The copy of a request that signs holds its signature, and from its snapshot on the
\* whole of it; once it has saved its row, so does the table.
CopyRecords(r) ==
  /\ pc[r] = "claimed" => rows[r][who[r]].status = "SIGNED" /\ rows[r][who[r]].evidence
  /\ pc[r] \in SignSteps \ {"claimed"} => Whole(rows[r][who[r]])
  /\ pc[r] \in {"announcing", "done"} => Whole(collaborators[who[r]])
CopiesRecord == \A r \in Requests : CopyRecords(r)

\* Only a signature with a rubric has a snapshot of it.
SnapshotsAreSimple ==
  \A s \in Signers :
    /\ collaborators[s].snapshot => signatureType = "SIMPLE"
    /\ \A r \in Requests : rows[r][s].snapshot => signatureType = "SIMPLE"

\* Who was announced was so once, by the request that is done.
AnnouncedByOne ==
  \A s \in Signers :
    announced[s] # 0 => announced[s] = 1 /\ \E r \in Requests : who[r] = s /\ pc[r] = "done"

RecordInvariant == CopiesRecord /\ SnapshotsAreSimple /\ AnnouncedByOne

\* What the finalizer has stored before each of its steps.
FilesInOrder ==
  \A r \in Requests :
    /\ pc[r] \in {"hashing", "attaching", "finishing"} =>
         memory[r].signedHash /\ bucket["SIGNED_DOCUMENTS"] # NoFile
    /\ pc[r] = "finishing" =>
         /\ bucket["FINALIZED_DOCUMENTS"] = bucket["SIGNED_DOCUMENTS"]
         /\ sheet # NoFile

\* The document became SIGNED by the finalizer, which has gone on.
SignedByFinalizer ==
  document.status = "SIGNED" =>
    \E r \in Requests : IsFinalizer(r) /\ pc[r] \in AfterEmit \cup {"completed"}

FileInvariant == FilesInOrder /\ SignedByFinalizer /\ SignedIsComplete

-----------------------------------------------------------------------------
(* The record of an answer.                                                  *)

\* A claim, and what follows it, writes the row of its own signer and its own copy.
LEMMA OwnRow ==
  ASSUME TypeOK, NEW r \in Requests, Claim(r) \/ Advance(r) \/ Abort(r)
  PROVE  /\ \A s \in Signers : s # who[r] => collaborators'[s] = collaborators[s]
         /\ \A q \in Requests : q # r => /\ pc'[q] = pc[q] /\ rows'[q] = rows[q]
         /\ UNCHANGED <<kind, who, signatureType>>
  <1> USE DEF Goto, settings, tables, TypeOK
  <1>1. CASE Claim(r)
    BY <1>1 DEF Claim, ClaimSignature, ClaimRejection
  <1>2. CASE SnapshotSignature(r)
    <2>1. CASE signatureType = "SIMPLE"
      BY <1>2, <2>1 DEF SnapshotSignature
    <2>2. CASE signatureType # "SIMPLE"
      BY <1>2, <2>2 DEF SnapshotSignature
    <2> QED BY <2>1, <2>2
  <1>3. CASE Finalize(r)
    BY <1>3 DEF Finalize, StampSigned, PersistHash, AttachSheet, SaveSigned, EmitSigned
  <1>4. CASE CountSigner(r) \/ RefreshPreview(r)
    BY <1>4 DEF CountSigner, RefreshPreview
  <1>5. CASE SaveParticipant(r) \/ EmitCollaboratorSigned(r)
    BY <1>5 DEF SaveParticipant, EmitCollaboratorSigned
  <1>6. CASE StampRejected(r) \/ SaveRejected(r) \/ Abort(r)
    BY <1>6 DEF StampRejected, SaveRejected, Abort
  <1> QED BY <1>1, <1>2, <1>3, <1>4, <1>5, <1>6 DEF Advance

\* What such a step makes of the copy and the row of its own signer.
LEMMA OwnRecord ==
  ASSUME TypeOK, CopiesRecord, SnapshotsAreSimple, NEW r \in Requests,
         Claim(r) \/ Advance(r) \/ Abort(r)
  PROVE  /\ CopyRecords(r)'
         /\ rows'[r][who[r]].snapshot => signatureType = "SIMPLE"
         /\ collaborators'[who[r]].snapshot => signatureType = "SIMPLE"
  <1> DEFINE row == rows[r][who[r]]
             col == collaborators[who[r]]
  <1>0. /\ who[r] \in Signers /\ row \in Row /\ col \in Row
        /\ who'[r] = who[r] /\ signatureType' = signatureType
        /\ row.snapshot => signatureType = "SIMPLE"
        /\ col.snapshot => signatureType = "SIMPLE"
    BY OwnRow DEF TypeOK, SnapshotsAreSimple
  <1>a. /\ pc[r] = "claimed" => row.status = "SIGNED" /\ row.evidence
        /\ pc[r] \in SignSteps \ {"claimed"} => Whole(row)
        /\ pc[r] \in {"announcing", "done"} => Whole(col)
    BY DEF CopiesRecord, CopyRecords
  <1> USE DEF Goto, settings, tables, SignSteps, FinalizeSteps, CopyRecords, Whole
  <1>1. CASE ClaimSignature(r)
    <2>1. /\ pc'[r] = "claimed"
          /\ rows'[r][who[r]] = [row EXCEPT !.status = "SIGNED", !.evidence = TRUE]
          /\ collaborators'[who[r]] = [col EXCEPT !.status = "SIGNED"]
      BY <1>0, <1>1 DEF ClaimSignature, TypeOK
    <2> QED BY <1>0, <2>1 DEF Row
  <1>2. CASE ClaimRejection(r)
    <2>1. /\ pc'[r] = "watermarking"
          /\ rows'[r][who[r]] = [row EXCEPT !.status = "REJECTED"]
          /\ collaborators'[who[r]] = [col EXCEPT !.status = "REJECTED"]
      BY <1>0, <1>2 DEF ClaimRejection, TypeOK
    <2> QED BY <1>0, <2>1 DEF Row
  <1>3. CASE SnapshotSignature(r)
    <2>1. pc'[r] \in {"stamping", "counting"} /\ pc[r] = "claimed"
      BY <1>3 DEF SnapshotSignature, TypeOK
    <2>2. CASE signatureType = "SIMPLE"
      <3>0. /\ rows' = [rows EXCEPT ![r][who[r]].snapshot = TRUE]
            /\ collaborators' = [collaborators EXCEPT ![who[r]].snapshot = TRUE]
        BY <1>3, <2>2 DEF SnapshotSignature
      <3>1. /\ rows'[r][who[r]] = [row EXCEPT !.snapshot = TRUE]
            /\ collaborators'[who[r]] = [col EXCEPT !.snapshot = TRUE]
        BY <1>0, <3>0 DEF TypeOK
      <3> QED BY <1>0, <1>a, <2>1, <2>2, <3>1 DEF Row, Whole
    <2>3. CASE signatureType # "SIMPLE"
      <3>1. rows' = rows /\ collaborators' = collaborators
        BY <1>3, <2>3 DEF SnapshotSignature
      <3> QED BY <1>0, <1>a, <2>1, <2>3, <3>1 DEF Whole
    <2> QED BY <2>2, <2>3
  <1>4. CASE SaveParticipant(r)
    <2>1. /\ pc[r] = "saving" /\ pc'[r] = "announcing"
          /\ rows' = rows /\ collaborators'[who[r]] = row
      BY <1>0, <1>4 DEF SaveParticipant, TypeOK
    <2> QED BY <1>0, <1>a, <2>1
  <1>5. CASE Finalize(r) \/ CountSigner(r) \/ RefreshPreview(r) \/ EmitCollaboratorSigned(r)
    <2>1. /\ pc[r] \in SignSteps \ {"claimed"} /\ pc'[r] \in SignSteps \cup {"done"}
          /\ pc'[r] # "claimed"
          /\ pc'[r] \in {"announcing", "done"} => pc[r] = "announcing"
          /\ rows' = rows /\ collaborators' = collaborators
      BY <1>5 DEF Finalize, StampSigned, PersistHash, AttachSheet, SaveSigned, EmitSigned,
             CountSigner, RefreshPreview, EmitCollaboratorSigned, TypeOK
    <2> QED BY <1>0, <1>a, <2>1
  <1>6. CASE StampRejected(r) \/ SaveRejected(r) \/ Abort(r)
    <2>1. /\ pc'[r] \in {"rejecting", "rejected", "aborted"}
          /\ rows' = rows /\ collaborators' = collaborators
      BY <1>6 DEF StampRejected, SaveRejected, Abort, TypeOK
    <2> QED BY <1>0, <2>1
  <1> QED BY <1>1, <1>2, <1>3, <1>4, <1>5, <1>6 DEF Claim, Advance

\* At first nothing is recorded and nobody was announced.
LEMMA RecordInit == Init => RecordInvariant
  <1> SUFFICES ASSUME Init PROVE RecordInvariant
    OBVIOUS
  <1>1. CopiesRecord
    BY DEF Init, CopiesRecord, CopyRecords, SignSteps, FinalizeSteps
  <1>2. SnapshotsAreSimple
    BY DEF Init, SnapshotsAreSimple, NoRows
  <1>3. AnnouncedByOne
    BY DEF Init, AnnouncedByOne
  <1> QED BY <1>1, <1>2, <1>3 DEF RecordInvariant

\* A request before its claim records nothing.
LEMMA RecordUnclaimed ==
  ASSUME TypeOK, RecordInvariant, NEW r \in Requests,
         ReadDocument(r) \/ ReadSigners(r) \/ Refuse(r)
  PROVE  RecordInvariant'
  <1>1. /\ pc[r] \in {"idle", "document_read", "checked"}
        /\ pc'[r] \in {"idle", "document_read", "checked"}
        /\ \A q \in Requests : q # r => /\ pc'[q] = pc[q] /\ rows'[q] = rows[q]
                                        /\ who'[q] = who[q]
        /\ rows'[r] \in {rows[r], collaborators, NoRows}
        /\ UNCHANGED <<signatureType, collaborators, announced>>
    BY DEF ReadDocument, ReadSigners, Refuse, Goto, TypeOK, settings, tables, events
  <1>2. CopiesRecord'
    <2>1. ASSUME NEW q \in Requests, q # r PROVE CopyRecords(q)'
      BY <1>1, <2>1 DEF RecordInvariant, CopiesRecord, CopyRecords, Whole
    <2>2. CopyRecords(r)'
      BY <1>1 DEF CopyRecords, SignSteps, FinalizeSteps
    <2> QED BY <2>1, <2>2 DEF CopiesRecord
  <1>3. SnapshotsAreSimple'
    BY <1>1 DEF RecordInvariant, SnapshotsAreSimple, NoRows
  <1>4. AnnouncedByOne'
    BY <1>1 DEF RecordInvariant, AnnouncedByOne
  <1> QED BY <1>2, <1>3, <1>4 DEF RecordInvariant

\* A request after its claim records its own signer and announces him once: nobody else
\* has claimed him.
LEMMA RecordOwn ==
  ASSUME TypeOK, RecordInvariant, OneClaimPerSigner, OneClaimPerSigner',
         NEW r \in Requests, Claim(r) \/ Advance(r) \/ Abort(r)
  PROVE  RecordInvariant'
  <1>1. /\ \A s \in Signers : s # who[r] => collaborators'[s] = collaborators[s]
        /\ \A q \in Requests : q # r => pc'[q] = pc[q] /\ rows'[q] = rows[q]
        /\ UNCHANGED <<kind, who, signatureType>>
    BY OwnRow
  <1>2. \A q \in Requests : who[q] \in Signers
    BY DEF TypeOK
  <1>3. HasClaimed(r)'
    <2>1. CASE Claim(r)
      BY <2>1, ClaimEffect DEF HasClaimed, AfterClaim
    <2>2. CASE Advance(r) \/ Abort(r)
      <3>1. pc[r] \in AfterClaim /\ \E next \in AfterClaim \cup Ended :
                                      pc' = [pc EXCEPT ![r] = next]
        BY <2>2, AdvanceGoto
      <3> QED BY <3>1 DEF HasClaimed, TypeOK
    <2> QED BY <2>1, <2>2
  <1>4. \A q \in Requests : q # r /\ HasClaimed(q)' => who[q] # who[r]
    BY <1>1, <1>3 DEF OneClaimPerSigner
  <1>5. CopiesRecord'
    <2>1. CopyRecords(r)'
      BY OwnRecord DEF RecordInvariant
    <2>2. ASSUME NEW q \in Requests, q # r PROVE CopyRecords(q)'
      <3>1. pc'[q] \in {"announcing", "done"} => who[q] # who[r]
        BY <1>4, <2>2 DEF HasClaimed, AfterClaim, Ended
      <3>2. CopyRecords(q)
        BY DEF RecordInvariant, CopiesRecord
      <3> QED BY <1>1, <1>2, <2>2, <3>1, <3>2 DEF CopyRecords, Whole
    <2> QED BY <2>1, <2>2 DEF CopiesRecord
  <1>6. SnapshotsAreSimple'
    <2>1. ASSUME NEW s \in Signers, s # who[r]
          PROVE  rows'[r][s].snapshot => rows[r][s].snapshot
      <3> USE DEF TypeOK, tables
      <3>1. CASE ClaimSignature(r) \/ ClaimRejection(r)
        BY <2>1, <3>1 DEF ClaimSignature, ClaimRejection
      <3>2. CASE SnapshotSignature(r)
        <4>1. CASE signatureType = "SIMPLE"
          BY <2>1, <3>2, <4>1 DEF SnapshotSignature
        <4>2. CASE signatureType # "SIMPLE"
          BY <3>2, <4>2 DEF SnapshotSignature
        <4> QED BY <4>1, <4>2
      <3>3. CASE rows' = rows
        BY <3>3
      <3> QED BY <3>1, <3>2, <3>3 DEF Claim, Advance, Finalize, StampSigned, PersistHash,
                AttachSheet, SaveSigned, EmitSigned, CountSigner, RefreshPreview,
                SaveParticipant, EmitCollaboratorSigned, StampRejected, SaveRejected, Abort
    <2>2. /\ rows'[r][who[r]].snapshot => signatureType = "SIMPLE"
          /\ collaborators'[who[r]].snapshot => signatureType = "SIMPLE"
      BY OwnRecord DEF RecordInvariant
    <2> QED BY <1>1, <1>2, <2>1, <2>2 DEF RecordInvariant, SnapshotsAreSimple
  <1>7. AnnouncedByOne'
    <2>1. CASE EmitCollaboratorSigned(r)
      <3>1. /\ pc[r] = "announcing" /\ pc'[r] = "done"
            /\ announced' = [announced EXCEPT ![who[r]] = @ + 1]
        BY <2>1 DEF EmitCollaboratorSigned, Goto, TypeOK
      <3>2. announced[who[r]] = 0
        <4>1. \A q \in Requests : pc[q] = "done" => HasClaimed(q) /\ q # r
          BY <3>1 DEF HasClaimed, Ended
        <4>2. HasClaimed(r)
          BY <3>1 DEF HasClaimed, AfterClaim
        <4> QED BY <1>2, <4>1, <4>2 DEF OneClaimPerSigner, RecordInvariant, AnnouncedByOne
      <3> QED BY <1>1, <1>2, <3>1, <3>2 DEF TypeOK, RecordInvariant, AnnouncedByOne
    <2>2. CASE announced' = announced /\ pc[r] # "done"
      BY <1>1, <2>2 DEF RecordInvariant, AnnouncedByOne
    <2>3. pc[r] # "done"
      BY AdvanceGoto, ClaimEffect DEF AfterClaim
    <2>4. EmitCollaboratorSigned(r) \/ announced' = announced
      BY DEF Claim, ClaimSignature, ClaimRejection, Advance, Finalize, SnapshotSignature,
             StampSigned, PersistHash, AttachSheet, SaveSigned, EmitSigned, CountSigner,
             RefreshPreview, SaveParticipant, StampRejected, SaveRejected, Abort, events
    <2> QED BY <2>1, <2>2, <2>3, <2>4
  <1> QED BY <1>5, <1>6, <1>7 DEF RecordInvariant

\* Every step keeps the record.
LEMMA RecordStep ==
  TypeOK /\ RaceInvariant /\ RaceInvariant' /\ RecordInvariant /\ [Next]_vars
    => RecordInvariant'
  <1> SUFFICES ASSUME TypeOK, RaceInvariant, RaceInvariant', RecordInvariant, [Next]_vars
               PROVE  RecordInvariant'
    OBVIOUS
  <1>1. OneClaimPerSigner /\ OneClaimPerSigner'
    BY DEF RaceInvariant
  <1>2. ASSUME NEW r \in Requests, ReadDocument(r) \/ ReadSigners(r) \/ Refuse(r)
        PROVE  RecordInvariant'
    BY <1>2, RecordUnclaimed
  <1>3. ASSUME NEW r \in Requests, Claim(r) \/ Advance(r) \/ Abort(r)
        PROVE  RecordInvariant'
    BY <1>1, <1>3, RecordOwn
  <1>4. ASSUME NEW s \in Signers, LinkAccount(s) PROVE RecordInvariant'
    <2>1. \A t \in Signers : /\ collaborators'[t].status = collaborators[t].status
                             /\ collaborators'[t].evidence = collaborators[t].evidence
                             /\ collaborators'[t].snapshot = collaborators[t].snapshot
      BY <1>4 DEF LinkAccount, TypeOK, Row
    <2>2. UNCHANGED <<signatureType, announced, pc, who, rows>>
      BY <1>4 DEF LinkAccount, settings, events, local
    <2>3. \A r \in Requests : who[r] \in Signers
      BY DEF TypeOK
    <2> QED BY <2>1, <2>2, <2>3 DEF RecordInvariant, CopiesRecord, CopyRecords,
              SnapshotsAreSimple, AnnouncedByOne, Whole
  <1>5. ASSUME UNCHANGED vars PROVE RecordInvariant'
    BY <1>5 DEF vars, settings, tables, events, local, RecordInvariant, CopiesRecord, CopyRecords,
       SnapshotsAreSimple, AnnouncedByOne, Whole
  <1> QED BY <1>2, <1>3, <1>4, <1>5 DEF Next

\* Whatever is announced is in the database, and what a request still has to save is whole.
THEOREM AnswersAreRecorded == Spec => []RecordInvariant
  BY TypeCorrect, RacesAreHarmless, RecordInit, RecordStep, PTL DEF Spec

\* document.collaborator_signed is published at most once per signer, and then his
\* signature, his evidence and his snapshot are in the database.
THEOREM AnnouncedOnceRecorded == Spec => []AnnouncedIsRecorded
  <1>1. TypeOK /\ RecordInvariant => AnnouncedIsRecorded
    BY DEF TypeOK, RecordInvariant, CopiesRecord, CopyRecords, AnnouncedByOne,
       AnnouncedIsRecorded, Whole
  <1> QED BY <1>1, TypeCorrect, AnswersAreRecorded, PTL

\* The evidence and the snapshot of a signature are never lost to a later save.
THEOREM EvidenceStays == Spec => EvidenceIsKept
  <1> DEFINE Kept == \A s \in Signers :
                       /\ collaborators[s].evidence => collaborators'[s].evidence
                       /\ collaborators[s].snapshot => collaborators'[s].snapshot
  <1>1. TypeOK /\ RecordInvariant /\ [Next]_vars => [Kept]_vars
    <2> SUFFICES ASSUME TypeOK, RecordInvariant, Next PROVE Kept
      OBVIOUS
    <2>1. ASSUME NEW r \in Requests, Claim(r) PROVE Kept
      <3>1. \E a \in Statuses :
               collaborators' = [collaborators EXCEPT ![who[r]].status = a]
        BY <2>1 DEF Claim, ClaimSignature, ClaimRejection, Statuses
      <3> QED BY <3>1 DEF TypeOK, Row
    <2>2. ASSUME NEW r \in Requests, SnapshotSignature(r) PROVE Kept
      <3>1. CASE signatureType = "SIMPLE"
        <4>1. collaborators' = [collaborators EXCEPT ![who[r]].snapshot = TRUE]
          BY <2>2, <3>1 DEF SnapshotSignature
        <4> QED BY <4>1 DEF TypeOK, Row
      <3>2. CASE signatureType # "SIMPLE"
        BY <2>2, <3>2 DEF SnapshotSignature
      <3> QED BY <3>1, <3>2
    <2>3. ASSUME NEW r \in Requests, SaveParticipant(r) PROVE Kept
      <3>1. pc[r] = "saving" /\ who[r] \in Signers
            /\ collaborators' = [collaborators EXCEPT ![who[r]] = rows[r][who[r]]]
        BY <2>3 DEF SaveParticipant, TypeOK
      <3>2. Whole(rows[r][who[r]])
        BY <3>1 DEF RecordInvariant, CopiesRecord, CopyRecords, SignSteps
      <3>3. collaborators[who[r]].snapshot => signatureType = "SIMPLE"
        BY <3>1 DEF RecordInvariant, SnapshotsAreSimple
      <3> QED BY <3>1, <3>2, <3>3 DEF TypeOK, Whole
    <2>4. ASSUME NEW r \in Requests, ReadDocument(r) \/ ReadSigners(r) \/ Refuse(r)
          PROVE  Kept
      BY <2>4 DEF ReadDocument, ReadSigners, Refuse, tables
    <2>5. ASSUME NEW r \in Requests, Advance(r) \/ Abort(r),
                 ~SnapshotSignature(r), ~SaveParticipant(r)
          PROVE  Kept
      BY <2>5 DEF Advance, Finalize, StampSigned, PersistHash, AttachSheet, SaveSigned,
             EmitSigned, CountSigner, RefreshPreview, EmitCollaboratorSigned,
             StampRejected, SaveRejected, Abort, tables
    <2>6. ASSUME NEW s \in Signers, LinkAccount(s) PROVE Kept
      BY <2>6 DEF LinkAccount, TypeOK, Row
    <2> QED BY <2>1, <2>2, <2>3, <2>4, <2>5, <2>6 DEF Next
  <1> QED BY <1>1, TypeCorrect, AnswersAreRecorded, PTL DEF Spec, EvidenceIsKept

-----------------------------------------------------------------------------
(* The files of a SIGNED document.                                           *)

\* A step after which request q is no further in the finalization than its files allow.
Steady(q) ==
  /\ pc[q] \in AfterEmit \cup {"completed"} => pc'[q] \in AfterEmit \cup {"completed"}
  /\ pc'[q] \in {"hashing", "attaching", "finishing"} =>
       /\ pc'[q] = pc[q] \/ (pc[q] = "hashing" /\ pc'[q] = "attaching")
       /\ memory'[q] = memory[q]

\* At first nothing is stored.
LEMMA FileInit == Init => FileInvariant
  BY DEF Init, FileInvariant, FilesInOrder, SignedByFinalizer, SignedIsComplete, NoDocument

\* Whoever is between the stamping and the save of the document is the finalizer, who is
\* alone, and then the document is not SIGNED.
LEMMA FinalizerAlone ==
  ASSUME TypeOK, RaceInvariant, SignedByFinalizer, NEW r \in Requests,
         pc[r] \in {"stamping", "hashing", "attaching", "finishing"}
  PROVE  /\ document.status # "SIGNED"
         /\ \A q \in Requests : pc[q] \in FinalizeSteps => q = r
         /\ Pending(collaborators) = {}
  <1>1. RaceCore /\ IsFinalizer(r) /\ \A q \in Requests : pc[q] \in FinalizeSteps => IsFinalizer(q)
    BY DEF RaceInvariant, RaceCore, FinalizersOnly, FinalizeSteps
  <1>2. \A q \in Requests : IsFinalizer(q) => q = r
    BY <1>1, FinalizerUnique
  <1>3. document.status # "SIGNED"
    BY <1>2 DEF SignedByFinalizer, AfterEmit
  <1>4. \A s \in Signers : rows[r][s].status # "PENDING" /\ HasClaimed(r)
    BY <1>1 DEF IsFinalizer, RemainingSigners, Pending, RaceInvariant, CopyJustifiesStep
  <1>5. Pending(collaborators) = {}
    BY <1>4 DEF RaceInvariant, CopiesAreOld, Pending
  <1> QED BY <1>1, <1>2, <1>3, <1>5

\* A step that neither writes files nor the document, nor takes a request into the
\* finalization, keeps what is stored.
LEMMA FilesUntouched ==
  ASSUME TypeOK, RaceInvariant, FileInvariant,
         sheet' = sheet,
         bucket'["SIGNED_DOCUMENTS"] = bucket["SIGNED_DOCUMENTS"],
         bucket'["FINALIZED_DOCUMENTS"] = bucket["FINALIZED_DOCUMENTS"],
         document'.status = "SIGNED" => document.status = "SIGNED",
         document'.status = "SIGNED" /\ document.signedHash => document'.signedHash,
         \A s \in Signers : collaborators[s].status # "PENDING"
                               => collaborators'[s].status # "PENDING",
         \A q \in Requests : IsFinalizer(q) => IsFinalizer(q)',
         \A q \in Requests : Steady(q)
  PROVE  FileInvariant'
  <1>1. FilesInOrder'
    BY DEF FileInvariant, FilesInOrder, Steady
  <1>2. SignedByFinalizer'
    BY DEF FileInvariant, SignedByFinalizer, Steady
  <1>3. SignedIsComplete'
    BY DEF FileInvariant, SignedIsComplete, Pending
  <1> QED BY <1>1, <1>2, <1>3 DEF FileInvariant

\* The steps of the finalization store what the next one needs.
LEMMA FilesFinalized ==
  ASSUME TypeOK, RaceInvariant, FileInvariant, NEW r \in Requests,
         StampSigned(r) \/ AttachSheet(r) \/ SaveSigned(r)
  PROVE  FileInvariant'
  <1>1. /\ document.status # "SIGNED"
        /\ \A q \in Requests : pc[q] \in FinalizeSteps => q = r
        /\ Pending(collaborators) = {}
    BY FinalizerAlone DEF StampSigned, AttachSheet, SaveSigned, FileInvariant
  <1>2. /\ \A q \in Requests : q # r => pc'[q] = pc[q]
        /\ \A q \in Requests : q # r => pc'[q] \notin FinalizeSteps
        /\ collaborators' = collaborators
    BY <1>1 DEF StampSigned, AttachSheet, SaveSigned, Goto, TypeOK, tables
  <1>3. /\ memory[r] \in DocumentRow
        /\ pc[r] \in {"attaching", "finishing"} =>
             memory[r].signedHash /\ bucket["SIGNED_DOCUMENTS"] # NoFile
        /\ pc[r] = "finishing" =>
             /\ bucket["FINALIZED_DOCUMENTS"] = bucket["SIGNED_DOCUMENTS"]
             /\ sheet # NoFile
    BY DEF TypeOK, FileInvariant, FilesInOrder
  <1>4. \A b \in {"SIGNED_DOCUMENTS", "FINALIZED_DOCUMENTS"} : b \in Buckets
    BY DEF Buckets
  <1>5. CASE StampSigned(r)
    <2>1. StampedOnto(rows[r], Signers) \in Pdf
      BY StampedType DEF TypeOK
    <2>2. /\ pc'[r] = "hashing" /\ bucket'["SIGNED_DOCUMENTS"] # NoFile
          /\ memory'[r].signedHash /\ document' = document
      BY <1>3, <1>4, <1>5, <2>1, NoFileAssumption
         DEF StampSigned, Goto, TypeOK, DocumentRow, tables
    <2> QED BY <1>1, <1>2, <2>2 DEF FileInvariant, FilesInOrder, SignedByFinalizer,
              SignedIsComplete, FinalizeSteps
  <1>6. CASE AttachSheet(r)
    <2>1. [s \in Signers |-> rows[r][s].evidence] \in [Signers -> BOOLEAN]
      BY DEF TypeOK, Row
    <2>2. /\ pc[r] = "attaching" /\ pc'[r] = "finishing"
          /\ bucket'["FINALIZED_DOCUMENTS"] = bucket["SIGNED_DOCUMENTS"]
          /\ bucket'["SIGNED_DOCUMENTS"] = bucket["SIGNED_DOCUMENTS"]
          /\ sheet' # NoFile
          /\ memory' = memory /\ document' = document
      BY <1>4, <1>6, <2>1, NoFileAssumption DEF AttachSheet, Goto, TypeOK, tables
    <2> QED BY <1>1, <1>2, <1>3, <2>2 DEF FileInvariant, FilesInOrder, SignedByFinalizer,
              SignedIsComplete, FinalizeSteps
  <1>7. CASE SaveSigned(r)
    <2>1. /\ pc[r] = "finishing" /\ pc'[r] = "completed"
          /\ document' = [memory[r] EXCEPT !.status = "SIGNED"]
          /\ UNCHANGED <<bucket, sheet, rows, who, kind>>
      BY <1>7 DEF SaveSigned, Goto, TypeOK, storage
    <2>2. document'.signedHash
      BY <1>3, <2>1 DEF DocumentRow
    <2>3. IsFinalizer(r)'
      <3>1. IsFinalizer(r)
        BY <2>1 DEF RaceInvariant, FinalizersOnly, FinalizeSteps
      <3> QED BY <2>1, <3>1 DEF IsFinalizer, HasClaimed, AfterClaim, RemainingSigners, Pending
    <2>4. FilesInOrder'
      BY <1>2, <2>1 DEF FilesInOrder, FinalizeSteps
    <2>5. SignedByFinalizer'
      BY <2>1, <2>3 DEF SignedByFinalizer
    <2>6. SignedIsComplete'
      BY <1>1, <1>2, <1>3, <2>1, <2>2 DEF SignedIsComplete, Pending
    <2> QED BY <2>4, <2>5, <2>6 DEF FileInvariant
  <1> QED BY <1>5, <1>6, <1>7

\* Every other step after a claim stores nothing the finalizer relies on.
LEMMA FilesAdvance ==
  ASSUME TypeOK, RaceInvariant, FileInvariant, NEW r \in Requests,
         Advance(r) \/ Abort(r), ~(StampSigned(r) \/ AttachSheet(r) \/ SaveSigned(r))
  PROVE  FileInvariant'
  <1>0. RaceCore
    BY DEF RaceInvariant, RaceCore
  <1>1. /\ \A s \in Signers : collaborators'[s].status = collaborators[s].status
        /\ \A q \in Requests : IsFinalizer(q)' <=> IsFinalizer(q)
    BY <1>0, AdvanceQuiet, QuietPending DEF Quiet
  <1>2. /\ \A q \in Requests : q # r => pc'[q] = pc[q] /\ memory'[q] = memory[q]
        /\ \A q \in Requests : memory'[q] = memory[q] \/ pc'[q] \in {"stamping", "counting"}
        /\ pc[r] \in AfterEmit \cup {"completed"} => pc'[r] \in AfterEmit \cup {"completed"}
        /\ pc'[r] \in {"hashing", "attaching", "finishing"} =>
             pc[r] = "hashing" /\ pc'[r] = "attaching"
    BY DEF Advance, Finalize, SnapshotSignature, PersistHash, EmitSigned, CountSigner,
           RefreshPreview, SaveParticipant, EmitCollaboratorSigned, StampRejected,
           SaveRejected, Abort, Goto, TypeOK, AfterEmit, AfterClaim
  <1>3. sheet' = sheet
    BY DEF Advance, Finalize, SnapshotSignature, PersistHash, EmitSigned, CountSigner,
           RefreshPreview, SaveParticipant, EmitCollaboratorSigned, StampRejected,
           SaveRejected, Abort, storage
  <1>4. /\ document'.status = "SIGNED" => document.status = "SIGNED"
        /\ document'.status = "SIGNED" /\ document.signedHash => document'.signedHash
    BY DEF Advance, Finalize, SnapshotSignature, PersistHash, EmitSigned, CountSigner,
           RefreshPreview, SaveParticipant, EmitCollaboratorSigned, StampRejected,
           SaveRejected, Abort, tables, TypeOK, DocumentRow
  <1>5. /\ bucket'["SIGNED_DOCUMENTS"] = bucket["SIGNED_DOCUMENTS"]
        /\ bucket'["FINALIZED_DOCUMENTS"] = bucket["FINALIZED_DOCUMENTS"]
    BY DEF Advance, Finalize, SnapshotSignature, PersistHash, EmitSigned, CountSigner,
           RefreshPreview, SaveParticipant, EmitCollaboratorSigned, StampRejected,
           SaveRejected, Abort, storage, TypeOK, Buckets
  <1>6. \A q \in Requests : Steady(q)
    BY <1>2 DEF Steady
  <1>7. /\ \A s \in Signers : collaborators[s].status # "PENDING"
                               => collaborators'[s].status # "PENDING"
        /\ \A q \in Requests : IsFinalizer(q) => IsFinalizer(q)'
    BY <1>1
  <1> QED BY <1>3, <1>4, <1>5, <1>6, <1>7, FilesUntouched

\* Every step keeps the files.
LEMMA FileStep ==
  TypeOK /\ RaceInvariant /\ FileInvariant /\ [Next]_vars => FileInvariant'
  <1> SUFFICES ASSUME TypeOK, RaceInvariant, FileInvariant, [Next]_vars
               PROVE  FileInvariant'
    OBVIOUS
  <1>1. ASSUME NEW r \in Requests, StampSigned(r) \/ AttachSheet(r) \/ SaveSigned(r)
        PROVE  FileInvariant'
    BY <1>1, FilesFinalized
  <1>2. ASSUME NEW r \in Requests, Advance(r) \/ Abort(r),
               ~(StampSigned(r) \/ AttachSheet(r) \/ SaveSigned(r))
        PROVE  FileInvariant'
    BY <1>2, FilesAdvance
  <1>3. ASSUME NEW r \in Requests,
               Claim(r) \/ ReadDocument(r) \/ ReadSigners(r) \/ Refuse(r)
        PROVE  FileInvariant'
    <2>1. /\ UNCHANGED <<bucket, sheet, document>>
          /\ \A q \in Requests : q # r => /\ pc'[q] = pc[q] /\ memory'[q] = memory[q]
                                          /\ rows'[q] = rows[q] /\ who'[q] = who[q]
                                          /\ kind'[q] = kind[q]
          /\ pc[r] \in {"idle", "document_read", "checked"}
          /\ pc'[r] \in {"idle", "document_read", "checked", "claimed", "watermarking"}
      BY <1>3 DEF Claim, ClaimSignature, ClaimRejection, ReadDocument, ReadSigners, Refuse,
                  Goto, TypeOK, storage, tables
    <2>2. \A s \in Signers : collaborators[s].status # "PENDING"
                               => collaborators'[s].status # "PENDING"
      BY <1>3, ClaimEffect DEF ReadDocument, ReadSigners, Refuse, tables
    <2>3. \A q \in Requests : IsFinalizer(q) => IsFinalizer(q)'
      BY <2>1 DEF IsFinalizer, HasClaimed, AfterClaim, Ended, RemainingSigners, Pending
    <2>4. \A q \in Requests : Steady(q)
      BY <2>1 DEF Steady, AfterEmit
    <2> QED BY <2>1, <2>2, <2>3, <2>4, FilesUntouched
  <1>4. ASSUME NEW s \in Signers, LinkAccount(s) PROVE FileInvariant'
    <2>1. \A t \in Signers : collaborators'[t].status = collaborators[t].status
      BY <1>4 DEF LinkAccount, TypeOK, Row
    <2>2. UNCHANGED <<bucket, sheet, document, pc, kind, who, memory, rows>>
      BY <1>4 DEF LinkAccount, storage, local
    <2>3. \A q \in Requests : Steady(q) /\ (IsFinalizer(q) => IsFinalizer(q)')
      BY <2>2 DEF Steady, IsFinalizer, HasClaimed, RemainingSigners, Pending
    <2> QED BY <2>1, <2>2, <2>3, FilesUntouched
  <1>5. ASSUME UNCHANGED vars PROVE FileInvariant'
    <2>1. UNCHANGED <<bucket, sheet, document, collaborators, pc, kind, who, memory, rows>>
      BY <1>5 DEF vars, storage, tables, local
    <2>2. \A q \in Requests : Steady(q) /\ (IsFinalizer(q) => IsFinalizer(q)')
      BY <2>1 DEF Steady, IsFinalizer, HasClaimed, RemainingSigners, Pending
    <2> QED BY <2>1, <2>2, FilesUntouched
  <1> QED BY <1>1, <1>2, <1>3, <1>4, <1>5 DEF Next

\* A document that is SIGNED has its stamped PDF, its definitive copy made from that PDF,
\* its page of evidence, its hash, and nobody left to answer.
THEOREM SignedHasItsFiles == Spec => []SignedIsComplete
  <1>1. FileInvariant => SignedIsComplete
    BY DEF FileInvariant
  <1> QED BY <1>1, TypeCorrect, RacesAreHarmless, FileInit, FileStep, PTL DEF Spec
=============================================================================
