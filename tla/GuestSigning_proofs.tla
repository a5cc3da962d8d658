------------------------ MODULE GuestSigning_proofs ------------------------
(***************************************************************************)
(* Proof that the claims of the invited signer are whole, for any number   *)
(* of requests, accesses and codes: an access is consumed exactly when the *)
(* signature was registered with it, and the evidence of the signature     *)
(* agrees with the account of the signer; every access was paid with a     *)
(* code of its own, at most one of each purpose is open, and what is       *)
(* closed stays closed.                                                    *)
(***************************************************************************)
EXTENDS GuestSigning, FiniteSetTheorems, SequenceTheorems, TLAPS

\* Control points before the first write of a transaction.
Clean == {"idle", "invited", "consume_code", "found", "read", "consume"}
\* Control points after the claim of the signer.
Claimed == {"find", "revoke", "commit"}

\* Where each kind of request may be, and when its transaction has not begun.
Route(r) ==
  /\ pc[r] \in {"consume_code", "insert"} => request[r].kind = "verify"
  /\ pc[r] \in {"found", "read", "consume"} => request[r].kind = "guest"
  /\ pc[r] = "invited" => request[r].kind \in {"code", "verify"}
  /\ pc[r] = "close" => request[r].kind \notin Transactional
  /\ pc[r] = "claim" /\ request[r].kind = "account" => collaborator.linked
  /\ request[r].kind \notin Transactional \/ pc[r] \in Clean => tx[r] = Nothing

\* What its transaction may have written on the row of the signer.
OwnsSigner(r) ==
  /\ tx[r].collaborator # NoWrite =>
       /\ Invited /\ pc[r] \in Claimed
       /\ \/ /\ request[r].kind = "guest"
             /\ tx[r].collaborator =
                  [collaborator EXCEPT !.status = "SIGNED",
                                       !.authorization = "GUEST_EMAIL_OTP"]
          \/ /\ request[r].kind = "link"
             /\ tx[r].collaborator = [collaborator EXCEPT !.linked = TRUE]
  /\ request[r].kind = "guest" /\ pc[r] \in Claimed =>
       tx[r].collaborator # NoWrite

\* What it may have written on the accesses.
OwnsAccesses(r) ==
  /\ request[r].kind = "guest" /\ pc[r] \in Claimed \cup {"claim"} =>
       tx[r].accesses[request[r].token] = "consumed"
  /\ \A a \in Accesses :
       /\ tx[r].accesses[a] = "consumed" =>
            /\ request[r].kind = "guest" /\ a = request[r].token
            /\ pc[r] \in Claimed \cup {"claim"}
       /\ tx[r].accesses[a] \in {"consumed", "revoked"} => accesses[a] = "open"
       /\ tx[r].accesses[a] = "open" => accesses[a] = "none" /\ pc[r] = "commit"
       /\ tx[r].accesses[a] # "none"

Owns(r) == Route(r) /\ OwnsSigner(r) /\ OwnsAccesses(r)

\* No row is written by two transactions.
Locked ==
  \A r, o \in Requests : r # o =>
    /\ tx[r].collaborator = NoWrite \/ tx[o].collaborator = NoWrite
    /\ \A a \in Accesses :
         tx[r].accesses[a] = NoWrite \/ tx[o].accesses[a] = NoWrite

Ownership == (\A r \in Requests : Owns(r)) /\ Locked
ClaimInvariant == TypeOK /\ Ownership /\ SignedAsHimself /\ ConsumedBySigning

\* What a step of r may change of what the others rely on: nothing of theirs,
\* no row they have written, and no row they have written becomes r's.
Frame(r) ==
  /\ collaborator.linked => collaborator'.linked
  /\ \A o \in Requests \ {r} :
       /\ pc'[o] = pc[o] /\ request'[o] = request[o] /\ tx'[o] = tx[o]
       /\ collaborator' = collaborator \/ tx[o].collaborator = NoWrite
       /\ \/ tx'[r].collaborator = NoWrite \/ tx[o].collaborator = NoWrite
          \/ tx'[r].collaborator = tx[r].collaborator
       /\ \A a \in Accesses :
            \/ tx[o].accesses[a] = NoWrite
            \/ /\ accesses'[a] = accesses[a]
               /\ \/ tx'[r].accesses[a] = NoWrite
                  \/ tx'[r].accesses[a] = tx[r].accesses[a]

-----------------------------------------------------------------------------
(* Types. *)

\* A transaction that has not written, and a request that has not begun, have
\* their types.
LEMMA NothingTyped == NoRequest \in Locals /\ Nothing \in Writes
<1>1. (CHOOSE a \in Guest : TRUE) \in Accesses
  BY AccessesAssumption DEF Accesses
<1>2. << >> \in Seq(SUBSET Purposes)
  OBVIOUS
<1>3. QED
  BY <1>1, <1>2 DEF NoRequest, Nothing, Kinds, Purposes, Locals, Writes

\* The initial state has its types.
LEMMA TypeInit == Init => TypeOK
<1> SUFFICES ASSUME Init PROVE TypeOK
  OBVIOUS
<1>1. collaborator \in Row /\ pending \in BOOLEAN
  BY DEF Init, Row
<1>2. codes \in [Purposes -> Seq(BOOLEAN)]
  BY DEF Init
<1>3. accesses \in [Accesses -> States] /\ expired \subseteq Accesses
  BY DEF Init, States
<1>4. QED
  BY <1>1, <1>2, <1>3, NothingTyped DEF Init, TypeOK, Points

\* A request that ends leaves the locals typed.
LEMMA FinishTyped ==
  ASSUME TypeOK, NEW r \in Requests, Finish(r),
         collaborator' \in Row, pending' \in BOOLEAN,
         codes' \in [Purposes -> Seq(BOOLEAN)],
         accesses' \in [Accesses -> States], expired' \subseteq Accesses
  PROVE  TypeOK'
  BY NothingTyped DEF TypeOK, Finish, Goto, Points

\* So does a rollback.
LEMMA RollbackTyped ==
  ASSUME TypeOK, NEW r \in Requests, Rollback(r)
  PROVE  TypeOK'
  BY FinishTyped DEF TypeOK, Rollback

\* What the steps write has the type of a row.
LEMMA RowsTyped ==
  ASSUME TypeOK
  PROVE  /\ [collaborator EXCEPT !.linked = TRUE] \in Row
         /\ [collaborator EXCEPT !.status = "REJECTED"] \in Row
         /\ [collaborator EXCEPT !.status = "SIGNED",
                                 !.authorization = "GUEST_EMAIL_OTP"] \in Row
         /\ [collaborator EXCEPT !.status = "SIGNED",
                                 !.authorization = "ACCOUNT_SESSION"] \in Row
  BY DEF TypeOK, Row

\* The lists of statements the steps queue are typed.
LEMMA TodoTyped ==
  /\ \A p \in Purposes : <<{p}>> \in Seq(SUBSET Purposes)
  /\ <<{"GUEST"}, {"PUBLIC"}>> \in Seq(SUBSET Purposes)
  /\ <<{"GUEST"}>> \in Seq(SUBSET Purposes)
  /\ <<Purposes>> \in Seq(SUBSET Purposes)
  BY DEF Purposes

\* Queueing statements keeps the locals typed.
LEMMA SetTodo ==
  ASSUME TypeOK, NEW r \in Requests, NEW t \in Seq(SUBSET Purposes),
         request' = [request EXCEPT ![r].todo = t]
  PROVE  request' \in [Requests -> Locals]
  BY DEF TypeOK, Locals

\* Writing the row of the signer keeps the types.
LEMMA SetCollaborator ==
  ASSUME TypeOK, NEW r \in Requests, NEW c \in Row,
         tx' = [tx EXCEPT ![r].collaborator = c]
  PROVE  tx' \in [Requests -> Writes]
<1> HIDE DEF Row
<1>1. QED BY DEF TypeOK, Writes

\* So does writing that of an access.
LEMMA SetAccess ==
  ASSUME TypeOK, NEW r \in Requests, NEW a \in Accesses, NEW x \in States,
         tx' = [tx EXCEPT ![r].accesses[a] = x]
  PROVE  tx' \in [Requests -> Writes]
  BY DEF TypeOK, Writes

\* The steps of codes and verifications keep the types.
LEMMA VerifierTyped ==
  ASSUME TypeOK, NEW r \in Requests, Verifier(r)
  PROVE  TypeOK'
<1>1. CASE ReadInvitation(r)
  <2>1. PICK k \in {"code", "verify"}, p \in Purposes :
          request' = [request EXCEPT ![r].kind = k, ![r].purpose = p]
    BY <1>1 DEF ReadInvitation
  <2>2. k \in Kinds /\ p \in Purposes
    BY DEF Kinds
  <2>3. request' \in [Requests -> Locals]
    BY <2>1, <2>2 DEF TypeOK, Locals
  <2>4. QED
    BY <1>1, <2>3 DEF ReadInvitation, TypeOK, Goto, Points
<1>2. CASE IssueCode(r)
  <2>1. request[r].purpose \in Purposes
    BY DEF TypeOK, Locals
  <2>2. Append(codes[request[r].purpose], FALSE) \in Seq(BOOLEAN)
    BY <2>1 DEF TypeOK
  <2>3. codes' = [codes EXCEPT ![request[r].purpose] = Append(@, FALSE)]
    BY <1>2 DEF IssueCode
  <2>4. codes' \in [Purposes -> Seq(BOOLEAN)]
    BY <2>2, <2>3 DEF TypeOK
  <2>5. QED
    BY <1>2, <2>4, FinishTyped DEF IssueCode, TypeOK
<1>3. CASE FindCode(r)
  <2>1. request[r].purpose \in Purposes
    BY DEF TypeOK, Locals
  <2>2. codes[request[r].purpose] \in Seq(BOOLEAN)
    BY <2>1 DEF TypeOK
  <2>3. DOMAIN codes[request[r].purpose] \subseteq Nat
    BY <2>2
  <2>4. PICK i \in Nat : request' = [request EXCEPT ![r].code = i]
    BY <1>3, <2>3 DEF FindCode
  <2>5. request' \in [Requests -> Locals]
    BY <2>4 DEF TypeOK, Locals
  <2>6. QED
    BY <1>3, <2>5 DEF FindCode, TypeOK, Goto, Points
<1>4. CASE ConsumeCode(r)
  <2>1. CASE Rollback(r)
    BY <2>1, RollbackTyped
  <2>2. CASE ~Rollback(r)
    <3>1. /\ request' = [request EXCEPT ![r].todo = <<{request[r].purpose}>>]
          /\ tx' = [tx EXCEPT ![r].code = TRUE]
      BY <1>4, <2>2 DEF ConsumeCode
    <3>2. <<{request[r].purpose}>> \in Seq(SUBSET Purposes)
      BY TodoTyped DEF TypeOK, Locals
    <3>3. request' \in [Requests -> Locals]
      BY <3>1, <3>2, SetTodo
    <3>4. tx' \in [Requests -> Writes]
      BY <3>1 DEF TypeOK, Writes
    <3>5. QED
      BY <1>4, <2>2, <3>3, <3>4 DEF ConsumeCode, TypeOK, Goto, Points
  <2>3. QED
    BY <2>1, <2>2
<1>5. CASE InsertAccess(r)
  <2>1. CASE Rollback(r)
    BY <2>1, RollbackTyped
  <2>2. CASE ~Rollback(r)
    <3>1. PICK a \in Accesses : tx' = [tx EXCEPT ![r].accesses[a] = "open"]
      BY <1>5, <2>2 DEF InsertAccess, IdsFor, Accesses
    <3>2. tx' \in [Requests -> Writes]
      BY <3>1, SetAccess DEF States
    <3>3. QED
      BY <1>5, <2>2, <3>2 DEF InsertAccess, TypeOK, Goto, Points
  <2>3. QED
    BY <2>1, <2>2
<1>6. QED
  BY <1>1, <1>2, <1>3, <1>4, <1>5 DEF Verifier

\* The steps of a signature with an access keep the types.
LEMMA SignerTyped ==
  ASSUME TypeOK, NEW r \in Requests, Signer(r)
  PROVE  TypeOK'
<1>1. CASE FindAccess(r)
  <2>1. PICK a \in Accesses :
          request' = [request EXCEPT ![r].kind = "guest", ![r].token = a]
    BY <1>1 DEF FindAccess
  <2>2. request' \in [Requests -> Locals]
    BY <2>1 DEF TypeOK, Locals, Kinds
  <2>3. QED
    BY <1>1, <2>2 DEF FindAccess, TypeOK, Goto, Points
<1>2. CASE ReadDocument(r)
  BY <1>2 DEF ReadDocument, TypeOK, Goto, Points
<1>3. CASE ReadSigner(r)
  BY <1>3 DEF ReadSigner, TypeOK, Goto, Points
<1>4. CASE ConsumeAccess(r)
  <2>1. CASE Rollback(r)
    BY <2>1, RollbackTyped
  <2>2. CASE ~Rollback(r)
    <3>1. request[r].token \in Accesses
      BY DEF TypeOK, Locals
    <3>2. tx' = [tx EXCEPT ![r].accesses[request[r].token] = "consumed"]
      BY <1>4, <2>2 DEF ConsumeAccess
    <3>3. tx' \in [Requests -> Writes]
      BY <3>1, <3>2, SetAccess DEF States
    <3>4. QED
      BY <1>4, <2>2, <3>3 DEF ConsumeAccess, TypeOK, Goto, Points
  <2>3. QED
    BY <2>1, <2>2
<1>5. CASE ClaimAsGuest(r)
  <2>1. CASE Rollback(r)
    BY <2>1, RollbackTyped
  <2>2. CASE ~Rollback(r)
    <3>1. /\ request' = [request EXCEPT ![r].todo = <<{"GUEST"}, {"PUBLIC"}>>]
          /\ tx' = [tx EXCEPT ![r].collaborator =
                      [collaborator EXCEPT !.status = "SIGNED",
                                           !.authorization = "GUEST_EMAIL_OTP"]]
      BY <1>5, <2>2 DEF ClaimAsGuest
    <3>2. request' \in [Requests -> Locals] /\ tx' \in [Requests -> Writes]
      BY <3>1, SetTodo, SetCollaborator, RowsTyped, TodoTyped
    <3>3. QED
      BY <1>5, <2>2, <3>2 DEF ClaimAsGuest, TypeOK, Goto, Points
  <2>3. QED
    BY <2>1, <2>2
<1>6. QED
  BY <1>1, <1>2, <1>3, <1>4, <1>5 DEF Signer

\* The steps of the account keep the types.
LEMMA AccountTyped ==
  ASSUME TypeOK, NEW r \in Requests, Account(r)
  PROVE  TypeOK'
<1>1. CASE StartAccount(r)
  <2>1. PICK k \in Kinds :
          /\ request' = [request EXCEPT ![r].kind = k]
          /\ Goto(r, IF k = "peer" THEN "close" ELSE "claim")
    BY <1>1 DEF StartAccount, Kinds
  <2>2. request' \in [Requests -> Locals]
    BY <2>1 DEF TypeOK, Locals
  <2>3. pc' \in [Requests -> Points]
    BY <2>1 DEF TypeOK, Goto, Points
  <2>4. QED
    BY <1>1, <2>2, <2>3 DEF StartAccount, TypeOK
<1>2. CASE ClaimLink(r)
  <2>1. CASE Rollback(r)
    BY <2>1, RollbackTyped
  <2>2. CASE ~Rollback(r)
    <3>1. /\ request' = [request EXCEPT ![r].todo = <<{"GUEST"}>>]
          /\ tx' = [tx EXCEPT ![r].collaborator =
                      [collaborator EXCEPT !.linked = TRUE]]
      BY <1>2, <2>2 DEF ClaimLink
    <3>2. request' \in [Requests -> Locals] /\ tx' \in [Requests -> Writes]
      BY <3>1, SetTodo, SetCollaborator, RowsTyped, TodoTyped
    <3>3. QED
      BY <1>2, <2>2, <3>2 DEF ClaimLink, TypeOK, Goto, Points
  <2>3. QED
    BY <2>1, <2>2
<1>3. CASE ClaimWithAccount(r)
  <2>1. CASE Rollback(r)
    BY <2>1, RollbackTyped
  <2>2. CASE ~Rollback(r) /\ request[r].kind = "account"
    <3>1. request' = [request EXCEPT ![r].todo = <<{"GUEST"}, {"PUBLIC"}>>]
      BY <1>3, <2>2 DEF ClaimWithAccount
    <3>2. request' \in [Requests -> Locals]
      BY <3>1, SetTodo, TodoTyped
    <3>3. collaborator' \in Row
      BY <1>3, <2>2, RowsTyped DEF ClaimWithAccount
    <3>4. QED
      BY <1>3, <2>2, <3>2, <3>3 DEF ClaimWithAccount, TypeOK, Goto, Points
  <2>3. CASE ~Rollback(r) /\ request[r].kind # "account"
    <3>1. collaborator' \in Row
      BY <1>3, <2>3, RowsTyped DEF ClaimWithAccount
    <3>2. QED
      BY <1>3, <2>3, <3>1 DEF ClaimWithAccount, TypeOK, Goto, Points
  <2>4. QED
    BY <2>1, <2>2, <2>3
<1>4. CASE CloseDocument(r)
  <2>1. request' = [request EXCEPT ![r].todo = <<Purposes>>]
    BY <1>4 DEF CloseDocument
  <2>2. request' \in [Requests -> Locals]
    BY <2>1, SetTodo, TodoTyped
  <2>3. QED
    BY <1>4, <2>2 DEF CloseDocument, TypeOK, Goto, Points
<1>5. QED
  BY <1>1, <1>2, <1>3, <1>4 DEF Account

\* Going on to the next statement keeps the locals typed.
LEMMA NextStatementTyped ==
  ASSUME TypeOK, NEW r \in Requests, NextStatement(r), request[r].todo # << >>
  PROVE  request' \in [Requests -> Locals] /\ pc' \in [Requests -> Points]
<1>1. request[r].todo \in Seq(SUBSET Purposes)
  BY DEF TypeOK, Locals
<1>2. Tail(request[r].todo) \in Seq(SUBSET Purposes)
  BY <1>1, HeadTailProperties
<1>3. QED
  BY <1>2 DEF TypeOK, Locals, NextStatement, Goto, Points

\* A committed code leaves a sequence of codes.
LEMMA CodeUsed ==
  ASSUME NEW s \in Seq(BOOLEAN), NEW i
  PROVE  [s EXCEPT ![i] = TRUE] \in Seq(BOOLEAN)
<1>1. s \in [1..Len(s) -> BOOLEAN] /\ Len(s) \in Nat
  OBVIOUS
<1>2. [s EXCEPT ![i] = TRUE] \in [1..Len(s) -> BOOLEAN]
  BY <1>1
<1>3. QED
  BY <1>1, <1>2

\* Who is revoking still has the statement he is executing, which is what
\* makes the type invariant inductive.
Statements == \A r \in Requests : pc[r] = "revoke" => request[r].todo # << >>
TypeInvariant == TypeOK /\ Statements

\* Revocations and commits keep the types.
LEMMA WriterTyped ==
  ASSUME TypeInvariant, NEW r \in Requests, Writer(r)
  PROVE  TypeOK'
<1> USE DEF TypeInvariant
<1>1. CASE FindOpen(r)
  <2>1. PICK F \in SUBSET Accesses : request' = [request EXCEPT ![r].found = F]
    BY <1>1 DEF FindOpen, IdsFor, Accesses
  <2>2. request' \in [Requests -> Locals]
    BY <2>1 DEF TypeOK, Locals
  <2>3. QED
    BY <1>1, <2>2 DEF FindOpen, TypeOK, Goto, Points
<1>2. CASE RevokeOpen(r)
  <2>1. request' \in [Requests -> Locals] /\ pc' \in [Requests -> Points]
    BY <1>2, NextStatementTyped DEF RevokeOpen, Statements
  <2>2. DEFINE open == {a \in request[r].found : Seen(r, a) = "open"}
  <2>3. CASE request[r].kind \in Transactional
    <3>1. tx' = [tx EXCEPT ![r].accesses =
                   [a \in Accesses |-> IF a \in open THEN "revoked" ELSE @[a]]]
      BY <1>2, <2>3 DEF RevokeOpen
    <3>2. tx' \in [Requests -> Writes]
      BY <3>1 DEF TypeOK, Writes, States
    <3>3. QED
      BY <1>2, <2>1, <2>3, <3>2 DEF RevokeOpen, TypeOK
  <2>4. CASE request[r].kind \notin Transactional
    <3>1. accesses' = [a \in Accesses |-> IF a \in open THEN "revoked"
                                          ELSE accesses[a]]
      BY <1>2, <2>4 DEF RevokeOpen
    <3>2. accesses' \in [Accesses -> States]
      BY <3>1 DEF TypeOK, States
    <3>3. QED
      BY <1>2, <2>1, <2>4, <3>2 DEF RevokeOpen, TypeOK
  <2>5. QED
    BY <2>3, <2>4
<1>3. CASE RevokeFails(r)
  BY <1>3, NextStatementTyped DEF RevokeFails, Statements, TypeOK
<1>4. CASE AllRevoked(r)
  BY <1>4, FinishTyped DEF AllRevoked, TypeOK, Goto, Points
<1>5. CASE Commit(r)
  <2>1. /\ tx[r].collaborator \in Row \cup {NoWrite}
        /\ tx[r].accesses \in [Accesses -> States \cup {NoWrite}]
    BY DEF TypeOK, Writes
  <2>2. collaborator' \in Row
    BY <1>5, <2>1 DEF Commit, TypeOK
  <2>3. accesses' \in [Accesses -> States]
    BY <1>5, <2>1 DEF Commit, TypeOK, Seen
  <2>4. request[r].purpose \in Purposes
    BY DEF TypeOK, Locals
  <2>5. codes[request[r].purpose] \in Seq(BOOLEAN)
    BY <2>4 DEF TypeOK
  <2>6. [codes[request[r].purpose] EXCEPT ![request[r].code] = TRUE] \in Seq(BOOLEAN)
    BY <2>5, CodeUsed
  <2>7. codes' \in [Purposes -> Seq(BOOLEAN)]
    BY <1>5, <2>6 DEF Commit, TypeOK
  <2>8. QED
    BY <1>5, <2>2, <2>3, <2>7, FinishTyped DEF Commit, TypeOK
<1>6. QED
  BY <1>1, <1>2, <1>3, <1>4, <1>5 DEF Writer

\* Every step keeps the types.
LEMMA TypeStep == TypeInvariant /\ [Next]_vars => TypeOK'
<1> SUFFICES ASSUME TypeInvariant, [Next]_vars PROVE TypeOK'
  OBVIOUS
<1>1. ASSUME NEW r \in Requests, GiveUp(r) \/ AbortDeadlocked(r) PROVE TypeOK'
  BY <1>1, RollbackTyped DEF GiveUp, AbortDeadlocked, TypeInvariant
<1>2. CASE Expire
  BY <1>2 DEF Expire, TypeInvariant, TypeOK, control
<1>3. CASE UNCHANGED vars
  BY <1>3 DEF vars, control, TypeInvariant, TypeOK
<1>4. QED
  BY <1>1, <1>2, <1>3, VerifierTyped, SignerTyped, AccountTyped, WriterTyped
     DEF Next, TypeInvariant

\* Only FindOpen begins a revocation, and it keeps the statements to execute.
LEMMA StatementsStep == TypeInvariant /\ [Next]_vars => Statements'
<1> SUFFICES ASSUME TypeInvariant, [Next]_vars PROVE Statements'
  OBVIOUS
<1> USE DEF TypeInvariant, Statements
<1>1. ASSUME NEW r \in Requests, FindOpen(r) PROVE Statements'
  BY <1>1 DEF FindOpen, Goto, TypeOK, Locals
<1>2. ASSUME NEW r \in Requests, NEW p \in Points \ {"revoke"}, Goto(r, p),
             \A o \in Requests \ {r} : request'[o] = request[o]
      PROVE  Statements'
  BY <1>2 DEF Goto, TypeOK
<1>3. ASSUME NEW r \in Requests, Finish(r) PROVE Statements'
  BY <1>3, <1>2 DEF Finish, TypeOK, Points
<1>4. ASSUME NEW r \in Requests, Verifier(r) PROVE Statements'
  BY <1>2, <1>3, <1>4 DEF Verifier, ReadInvitation, IssueCode, FindCode,
     ConsumeCode, InsertAccess, Rollback, TypeOK, Points
<1>5. ASSUME NEW r \in Requests, Signer(r) PROVE Statements'
  BY <1>2, <1>3, <1>5 DEF Signer, FindAccess, ReadDocument, ReadSigner,
     ConsumeAccess, ClaimAsGuest, Rollback, TypeOK, Points
<1>6. ASSUME NEW r \in Requests, Account(r) PROVE Statements'
  BY <1>2, <1>3, <1>6 DEF Account, StartAccount, ClaimLink, ClaimWithAccount,
     CloseDocument, Rollback, TypeOK, Points
<1>7. ASSUME NEW r \in Requests, Writer(r) PROVE Statements'
  BY <1>1, <1>2, <1>3, <1>7 DEF Writer, RevokeOpen, RevokeFails, AllRevoked,
     Commit, NextStatement, TypeOK, Points
<1>8. ASSUME NEW r \in Requests, GiveUp(r) \/ AbortDeadlocked(r) PROVE Statements'
  BY <1>3, <1>8 DEF GiveUp, AbortDeadlocked, Rollback
<1>9. CASE Expire \/ UNCHANGED vars
  BY <1>9 DEF Expire, vars, control
<1>10. QED
  BY <1>4, <1>5, <1>6, <1>7, <1>8, <1>9 DEF Next

\* Every variable of the invited signer, his codes, his accesses and the
\* transactions on them keeps its type, however many requests run.
THEOREM TypeCorrect == Spec => []TypeOK
<1>1. Init => TypeInvariant
  BY TypeInit DEF Init, TypeInvariant, Statements
<1>2. TypeInvariant /\ [Next]_vars => TypeInvariant'
  BY TypeStep, StatementsStep DEF TypeInvariant
<1>3. TypeInvariant => TypeOK
  BY DEF TypeInvariant
<1>4. QED
  BY <1>1, <1>2, <1>3, PTL DEF Spec

-----------------------------------------------------------------------------
(* Ownership. *)

\* A value written is not the mark of an unwritten row.
LEMMA NotWritten ==
  /\ \A x \in States : x # NoWrite
  /\ \A c \in Row : c # NoWrite
  BY NoWriteAssumption

\* A step within its frame disturbs nobody else.
LEMMA FrameKeeps ==
  ASSUME Ownership, NEW r \in Requests, Frame(r), Owns(r)'
  PROVE  Ownership'
<1>1. ASSUME NEW o \in Requests \ {r} PROVE Owns(o)'
  <2>1. Owns(o)
    BY DEF Ownership
  <2>2. /\ pc'[o] = pc[o] /\ request'[o] = request[o] /\ tx'[o] = tx[o]
        /\ collaborator' = collaborator \/ tx[o].collaborator = NoWrite
        /\ collaborator.linked => collaborator'.linked
        /\ \A a \in Accesses :
             tx[o].accesses[a] = NoWrite \/ accesses'[a] = accesses[a]
    BY DEF Frame
  <2>3. NoWrite \notin {"consumed", "revoked", "open", "none"}
    BY NoWriteAssumption DEF States
  <2>4. Route(o)'
    BY <2>1, <2>2 DEF Owns, Route
  <2>5. OwnsSigner(o)'
    <3>1. CASE tx[o].collaborator = NoWrite
      BY <2>1, <2>2, <3>1 DEF Owns, OwnsSigner
    <3>2. CASE tx[o].collaborator # NoWrite
      BY <2>1, <2>2, <3>2 DEF Owns, OwnsSigner, Invited
    <3>3. QED
      BY <3>1, <3>2
  <2>6. OwnsAccesses(o)'
    BY <2>1, <2>2, <2>3 DEF Owns, OwnsAccesses
  <2>7. QED
    BY <2>4, <2>5, <2>6 DEF Owns
<1>2. Locked'
  BY DEF Ownership, Locked, Frame
<1>3. QED
  BY <1>1, <1>2 DEF Ownership

\* A transaction that ends without committing releases what it owned.
LEMMA FinishOwns ==
  ASSUME TypeOK, Ownership, NEW r \in Requests, Finish(r),
         UNCHANGED <<collaborator, accesses>>
  PROVE  Ownership'
<1>1. pc'[r] = "idle" /\ request'[r] = NoRequest /\ tx'[r] = Nothing
  BY DEF Finish, Goto, TypeOK
<1>2. \A o \in Requests \ {r} :
        pc'[o] = pc[o] /\ request'[o] = request[o] /\ tx'[o] = tx[o]
  BY DEF Finish, Goto, TypeOK
<1>3. NoWrite \notin {"consumed", "revoked", "open", "none"}
  BY NoWriteAssumption DEF States
<1>4. Frame(r)
  BY <1>1, <1>2 DEF Frame, Nothing
<1>5. Owns(r)'
  BY <1>1, <1>3 DEF Owns, Route, OwnsSigner, OwnsAccesses, Nothing, NoRequest,
     Claimed
<1>6. QED
  BY <1>4, <1>5, FrameKeeps

\* The claims do not depend on what is not committed.
LEMMA ClaimsKept ==
  ASSUME SignedAsHimself, ConsumedBySigning, collaborator' = collaborator,
         \A a \in Accesses : accesses'[a] = "consumed" <=> accesses[a] = "consumed"
  PROVE  SignedAsHimself' /\ ConsumedBySigning'
<1>1. Consumed' = Consumed
  BY DEF Consumed
<1>2. QED
  BY <1>1 DEF SignedAsHimself, ConsumedBySigning

\* A step that only moves its own request forward.
Moves(r) ==
  /\ \A o \in Requests \ {r} : pc'[o] = pc[o] /\ request'[o] = request[o]
  /\ UNCHANGED <<collaborator, accesses, tx>>

\* It stays within its frame.
LEMMA MovesKeep ==
  ASSUME Ownership, NEW r \in Requests, Moves(r), Owns(r)'
  PROVE  Ownership'
  BY FrameKeeps DEF Moves, Frame

\* What the locks a statement waited for say of the other transactions.
LEMMA Granted ==
  ASSUME NEW r \in Requests, WaitsFor(r) = {}, NEW o \in Requests \ {r}
  PROVE  /\ pc[r] = "claim" => tx[o].collaborator = NoWrite
         /\ pc[r] = "consume" => tx[o].accesses[request[r].token] = NoWrite
         /\ pc[r] = "revoke" =>
              \A a \in request[r].found : tx[o].accesses[a] = NoWrite
         /\ pc[r] = "insert" =>
              \A a \in IdsFor({request[r].purpose}) : tx[o].accesses[a] = NoWrite
<1>1. CASE pc[r] = "claim"
  BY <1>1 DEF WaitsFor
<1>2. CASE pc[r] = "consume"
  BY <1>2 DEF WaitsFor, Holds
<1>3. CASE pc[r] = "revoke"
  BY <1>3 DEF WaitsFor, Holds
<1>4. CASE pc[r] = "insert"
  BY <1>4 DEF WaitsFor, Holds
<1>5. QED
  BY <1>1, <1>2, <1>3, <1>4

-----------------------------------------------------------------------------
(* The steps. *)

Kept == Ownership' /\ SignedAsHimself' /\ ConsumedBySigning'

\* A rollback, and any end of a request that commits nothing, keep the claims.
LEMMA FinishKeeps ==
  ASSUME ClaimInvariant, NEW r \in Requests, Finish(r),
         UNCHANGED <<collaborator, accesses>>
  PROVE  Kept
  BY FinishOwns, ClaimsKept DEF ClaimInvariant, Kept

\* The steps of a verification keep the claims: it only writes accesses that
\* nobody has, under the lock of the index.
LEMMA VerifierKeeps ==
  ASSUME ClaimInvariant, NEW r \in Requests, Verifier(r)
  PROVE  Kept
<1> USE DEF ClaimInvariant
<1>0. Owns(r)
  BY DEF Ownership
<1>1. CASE ReadInvitation(r)
  <2>1. PICK k \in {"code", "verify"}, p \in Purposes :
          request' = [request EXCEPT ![r].kind = k, ![r].purpose = p]
    BY <1>1 DEF ReadInvitation
  <2>2. pc' = [pc EXCEPT ![r] = "invited"] /\ pc[r] = "idle"
        /\ UNCHANGED <<collaborator, accesses, tx>>
    BY <1>1 DEF ReadInvitation, Goto
  <2>3. pc'[r] = "invited" /\ request'[r].kind = k
    BY <2>1, <2>2 DEF TypeOK, Locals
  <2>4. Owns(r)'
    BY <1>0, <2>1, <2>2, <2>3 DEF Owns, Route, OwnsSigner, OwnsAccesses, Nothing,
       Claimed, Clean
  <2>5. Moves(r)
    BY <2>1, <2>2 DEF Moves, TypeOK
  <2>6. QED
    BY <2>2, <2>4, <2>5, MovesKeep, ClaimsKept DEF Kept
<1>2. CASE IssueCode(r)
  BY <1>2, FinishKeeps DEF IssueCode
<1>3. CASE FindCode(r)
  <2>1. PICK i : request' = [request EXCEPT ![r].code = i]
    BY <1>3 DEF FindCode
  <2>2. pc' = [pc EXCEPT ![r] = "consume_code"] /\ pc[r] = "invited"
        /\ request[r].kind = "verify" /\ UNCHANGED <<collaborator, accesses, tx>>
    BY <1>3 DEF FindCode, Goto
  <2>3. pc'[r] = "consume_code" /\ request'[r].kind = "verify"
    BY <2>1, <2>2 DEF TypeOK, Locals
  <2>4. Owns(r)'
    BY <1>0, <2>2, <2>3 DEF Owns, Route, OwnsSigner, OwnsAccesses, Nothing,
       Claimed, Clean
  <2>5. Moves(r)
    BY <2>1, <2>2 DEF Moves, TypeOK
  <2>6. QED
    BY <2>2, <2>4, <2>5, MovesKeep, ClaimsKept DEF Kept
<1>4. CASE ConsumeCode(r)
  <2>1. CASE Rollback(r)
    BY <2>1, FinishKeeps DEF Rollback
  <2>2. CASE ~Rollback(r)
    <3>1. /\ pc[r] = "consume_code" /\ pc' = [pc EXCEPT ![r] = "find"]
          /\ request' = [request EXCEPT ![r].todo = <<{request[r].purpose}>>]
          /\ tx' = [tx EXCEPT ![r].code = TRUE]
          /\ UNCHANGED <<collaborator, accesses>>
      BY <1>4, <2>2 DEF ConsumeCode, Goto
    <3>2. /\ pc'[r] = "find" /\ request'[r].kind = "verify"
          /\ tx'[r].collaborator = NoWrite
          /\ tx'[r].accesses = [a \in Accesses |-> NoWrite]
      BY <1>0, <3>1 DEF TypeOK, Locals, Writes, Owns, Route, Clean, Nothing
    <3>3. NoWrite \notin {"consumed", "revoked", "open", "none"}
      BY NoWriteAssumption DEF States
    <3>4. Owns(r)'
      BY <3>2, <3>3 DEF Owns, Route, OwnsSigner, OwnsAccesses, Clean, Transactional
    <3>5. Frame(r)
      BY <3>1, <3>2 DEF Frame, TypeOK
    <3>6. QED
      BY <3>1, <3>4, <3>5, FrameKeeps, ClaimsKept DEF Kept
  <2>3. QED
    BY <2>1, <2>2
<1>5. CASE InsertAccess(r)
  <2>1. CASE Rollback(r)
    BY <2>1, FinishKeeps DEF Rollback
  <2>2. CASE ~Rollback(r)
    <3>1. PICK a \in IdsFor({request[r].purpose}) :
            /\ accesses[a] = "none"
            /\ tx' = [tx EXCEPT ![r].accesses[a] = "open"]
      BY <1>5, <2>2 DEF InsertAccess
    <3>2. /\ pc[r] = "insert" /\ pc' = [pc EXCEPT ![r] = "commit"]
          /\ WaitsFor(r) = {} /\ UNCHANGED <<collaborator, accesses, request>>
      BY <1>5, <2>2 DEF InsertAccess, Goto
    <3>3. a \in Accesses /\ request[r].kind = "verify"
      BY <1>0, <3>2 DEF IdsFor, Accesses, Owns, Route
    <3>4. /\ pc'[r] = "commit" /\ request'[r] = request[r]
          /\ tx'[r].collaborator = tx[r].collaborator
          /\ tx'[r].accesses = [tx[r].accesses EXCEPT ![a] = "open"]
          /\ tx[r].accesses \in [Accesses -> States \cup {NoWrite}]
      BY <3>1, <3>2 DEF TypeOK, Writes
    <3>5. tx[r].collaborator = NoWrite
      BY <1>0, <3>2 DEF Owns, OwnsSigner, Claimed
    <3>6. OwnsAccesses(r)'
      BY <1>0, <3>1, <3>2, <3>3, <3>4 DEF Owns, OwnsAccesses, Claimed
    <3>7. Owns(r)'
      BY <3>3, <3>4, <3>5, <3>6 DEF Owns, Route, OwnsSigner, Clean, Transactional
    <3>8. \A o \in Requests \ {r} : tx[o].accesses[a] = NoWrite
      BY <3>2, Granted
    <3>9. Frame(r)
      BY <3>1, <3>2, <3>3, <3>4, <3>5, <3>8 DEF Frame, TypeOK
    <3>10. QED
      BY <3>2, <3>7, <3>9, FrameKeeps, ClaimsKept DEF Kept
  <2>3. QED
    BY <2>1, <2>2
<1>6. QED
  BY <1>1, <1>2, <1>3, <1>4, <1>5 DEF Verifier

\* The steps of a signature with an access keep the claims: the access is
\* consumed while it is open, and the row of the signer is written while it
\* has no account, both under their locks.
LEMMA SignerKeeps ==
  ASSUME ClaimInvariant, NEW r \in Requests, Signer(r)
  PROVE  Kept
<1> USE DEF ClaimInvariant
<1>0. Owns(r)
  BY DEF Ownership
<1>1. CASE FindAccess(r)
  <2>1. PICK a \in Accesses :
          request' = [request EXCEPT ![r].kind = "guest", ![r].token = a]
    BY <1>1 DEF FindAccess
  <2>2. pc' = [pc EXCEPT ![r] = "found"] /\ pc[r] = "idle"
        /\ UNCHANGED <<collaborator, accesses, tx>>
    BY <1>1 DEF FindAccess, Goto
  <2>3. pc'[r] = "found" /\ request'[r].kind = "guest"
    BY <2>1, <2>2 DEF TypeOK, Locals
  <2>4. Owns(r)'
    BY <1>0, <2>2, <2>3 DEF Owns, Route, OwnsSigner, OwnsAccesses, Nothing,
       Claimed, Clean
  <2>5. Moves(r)
    BY <2>1, <2>2 DEF Moves, TypeOK
  <2>6. QED
    BY <2>2, <2>4, <2>5, MovesKeep, ClaimsKept DEF Kept
<1>2. CASE ReadDocument(r) \/ ReadSigner(r)
  <2>1. /\ pc[r] \in {"found", "read"}
        /\ pc' \in {[pc EXCEPT ![r] = "read"], [pc EXCEPT ![r] = "consume"]}
        /\ UNCHANGED <<collaborator, accesses, request, tx>>
    BY <1>2 DEF ReadDocument, ReadSigner, Goto
  <2>2. pc'[r] \in {"read", "consume"} /\ request'[r].kind = "guest"
    BY <1>0, <2>1 DEF TypeOK, Owns, Route
  <2>3. Owns(r)'
    BY <1>0, <2>1, <2>2 DEF Owns, Route, OwnsSigner, OwnsAccesses, Nothing,
       Claimed, Clean
  <2>4. Moves(r)
    BY <2>1 DEF Moves, TypeOK
  <2>5. QED
    BY <2>1, <2>3, <2>4, MovesKeep, ClaimsKept DEF Kept
<1>3. CASE ConsumeAccess(r)
  <2>1. CASE Rollback(r)
    BY <2>1, FinishKeeps DEF Rollback
  <2>2. CASE ~Rollback(r)
    <3>1. /\ pc[r] = "consume" /\ pc' = [pc EXCEPT ![r] = "claim"]
          /\ WaitsFor(r) = {} /\ UNCHANGED <<collaborator, accesses, request>>
          /\ tx' = [tx EXCEPT ![r].accesses[request[r].token] = "consumed"]
          /\ accesses[request[r].token] = "open"
      BY <1>3, <2>2 DEF ConsumeAccess, Goto
    <3>2. request[r].token \in Accesses /\ request[r].kind = "guest"
      BY <1>0, <3>1 DEF TypeOK, Locals, Owns, Route
    <3>3. /\ tx'[r].collaborator = NoWrite
          /\ tx'[r].accesses = [a \in Accesses |-> IF a = request[r].token
                                                  THEN "consumed" ELSE NoWrite]
          /\ pc'[r] = "claim" /\ request'[r] = request[r]
      BY <1>0, <3>1, <3>2 DEF TypeOK, Writes, Owns, Route, Clean, Nothing
    <3>4. NoWrite \notin {"consumed", "revoked", "open", "none"}
      BY NoWriteAssumption DEF States
    <3>5. Owns(r)'
      BY <3>1, <3>2, <3>3, <3>4 DEF Owns, Route, OwnsSigner, OwnsAccesses, Clean,
         Claimed, Transactional
    <3>6. \A o \in Requests \ {r} : tx[o].accesses[request[r].token] = NoWrite
      BY <3>1, Granted
    <3>7. Frame(r)
      BY <3>1, <3>3, <3>6 DEF Frame, TypeOK
    <3>8. QED
      BY <3>1, <3>5, <3>7, FrameKeeps, ClaimsKept DEF Kept
  <2>3. QED
    BY <2>1, <2>2
<1>4. CASE ClaimAsGuest(r)
  <2>1. CASE Rollback(r)
    BY <2>1, FinishKeeps DEF Rollback
  <2>2. CASE ~Rollback(r)
    <3> DEFINE signed == [collaborator EXCEPT !.status = "SIGNED",
                                              !.authorization = "GUEST_EMAIL_OTP"]
    <3>1. /\ pc[r] = "claim" /\ pc' = [pc EXCEPT ![r] = "find"]
          /\ request[r].kind = "guest" /\ Invited /\ WaitsFor(r) = {}
          /\ request' = [request EXCEPT ![r].todo = <<{"GUEST"}, {"PUBLIC"}>>]
          /\ tx' = [tx EXCEPT ![r].collaborator = signed]
          /\ UNCHANGED <<collaborator, accesses>>
      BY <1>4, <2>2 DEF ClaimAsGuest, Goto
    <3>2. signed # NoWrite
      BY RowsTyped, NotWritten
    <3>3. /\ pc'[r] = "find" /\ tx'[r].collaborator = signed
          /\ tx'[r].accesses = tx[r].accesses
          /\ request'[r].kind = "guest" /\ request'[r].token = request[r].token
      BY <3>1 DEF TypeOK, Locals, Writes
    <3>4. OwnsAccesses(r)'
      BY <1>0, <3>1, <3>3 DEF Owns, OwnsAccesses, Claimed
    <3>5. OwnsSigner(r)'
      BY <3>1, <3>2, <3>3 DEF OwnsSigner, Claimed, Invited
    <3>6. Owns(r)'
      BY <3>3, <3>4, <3>5 DEF Owns, Route, Clean, Transactional
    <3>7. \A o \in Requests \ {r} : tx[o].collaborator = NoWrite
      BY <3>1, Granted
    <3>8. Frame(r)
      BY <3>1, <3>3, <3>7 DEF Frame, TypeOK
    <3>9. QED
      BY <3>1, <3>6, <3>8, FrameKeeps, ClaimsKept DEF Kept
  <2>3. QED
    BY <2>1, <2>2
<1>5. QED
  BY <1>1, <1>2, <1>3, <1>4 DEF Signer

\* A statement of the account claims a signer who is PENDING, whom no open
\* transaction has written.
LEMMA AccountClaims ==
  ASSUME ClaimInvariant, NEW r \in Requests, ClaimWithAccount(r), ~Rollback(r)
  PROVE  Kept
<1> USE DEF ClaimInvariant
<1>0. Owns(r)
  BY DEF Ownership
<1>1. /\ pc[r] = "claim" /\ request[r].kind \in {"account", "reject"}
      /\ WaitsFor(r) = {} /\ collaborator.status = "PENDING"
      /\ UNCHANGED <<accesses, tx>>
  BY DEF ClaimWithAccount
<1>2. \A o \in Requests \ {r} : tx[o].collaborator = NoWrite
  BY <1>1, Granted
<1>3. tx[r] = Nothing
  BY <1>0, <1>1 DEF Owns, Route, Transactional
<1>4. Consumed' = Consumed /\ Consumed = {} /\ collaborator.authorization = "none"
  BY <1>1 DEF Consumed, SignedAsHimself, ConsumedBySigning
<1>5. NoWrite \notin {"consumed", "revoked", "open", "none"}
  BY NoWriteAssumption DEF States
<1>6. CASE request[r].kind = "account"
  <2>1. /\ collaborator' = [collaborator EXCEPT !.status = "SIGNED",
                                                !.authorization = "ACCOUNT_SESSION"]
        /\ pc' = [pc EXCEPT ![r] = "find"]
        /\ request' = [request EXCEPT ![r].todo = <<{"GUEST"}, {"PUBLIC"}>>]
    BY <1>6 DEF ClaimWithAccount, Goto
  <2>2. pc'[r] = "find" /\ request'[r].kind = "account" /\ tx'[r] = Nothing
    BY <1>1, <1>3, <1>6, <2>1 DEF TypeOK, Locals
  <2>3. /\ collaborator'.status = "SIGNED" /\ collaborator'.linked
        /\ collaborator'.authorization = "ACCOUNT_SESSION"
    BY <1>0, <1>1, <1>6, <2>1 DEF TypeOK, Row, Owns, Route
  <2>4. Owns(r)'
    BY <1>5, <2>2 DEF Owns, Route, OwnsSigner, OwnsAccesses, Nothing, Transactional
  <2>5. Frame(r)
    BY <1>1, <1>2, <2>1, <2>3 DEF Frame, TypeOK
  <2>6. SignedAsHimself' /\ ConsumedBySigning'
    BY <1>4, <2>3 DEF SignedAsHimself, ConsumedBySigning
  <2>7. QED
    BY <2>4, <2>5, <2>6, FrameKeeps DEF Kept
<1>7. CASE request[r].kind = "reject"
  <2>1. /\ collaborator' = [collaborator EXCEPT !.status = "REJECTED"]
        /\ pc' = [pc EXCEPT ![r] = "close"] /\ request' = request
    BY <1>7 DEF ClaimWithAccount, Goto
  <2>2. pc'[r] = "close" /\ request'[r].kind = "reject" /\ tx'[r] = Nothing
    BY <1>1, <1>3, <1>7, <2>1 DEF TypeOK
  <2>3. /\ collaborator'.status = "REJECTED"
        /\ collaborator'.linked = collaborator.linked
        /\ collaborator'.authorization = "none"
    BY <1>4, <2>1 DEF TypeOK, Row
  <2>4. Owns(r)'
    BY <1>5, <2>2 DEF Owns, Route, OwnsSigner, OwnsAccesses, Nothing, Transactional
  <2>5. Frame(r)
    BY <1>1, <1>2, <2>1, <2>3 DEF Frame, TypeOK
  <2>6. SignedAsHimself' /\ ConsumedBySigning'
    BY <1>4, <2>3 DEF SignedAsHimself, ConsumedBySigning
  <2>7. QED
    BY <2>4, <2>5, <2>6, FrameKeeps DEF Kept
<1>8. QED
  BY <1>1, <1>6, <1>7

\* The steps of the account keep the claims.
LEMMA AccountKeeps ==
  ASSUME ClaimInvariant, NEW r \in Requests, Account(r)
  PROVE  Kept
<1> USE DEF ClaimInvariant
<1>0. Owns(r)
  BY DEF Ownership
<1>1. CASE StartAccount(r)
  <2>1. PICK k \in {"link", "account", "reject", "peer"} :
          /\ request' = [request EXCEPT ![r].kind = k]
          /\ pc' = [pc EXCEPT ![r] = IF k = "peer" THEN "close" ELSE "claim"]
          /\ k = "account" => collaborator.linked
    BY <1>1 DEF StartAccount, Goto
  <2>2. pc[r] = "idle" /\ UNCHANGED <<collaborator, accesses, tx>>
    BY <1>1 DEF StartAccount
  <2>3. /\ pc'[r] = IF k = "peer" THEN "close" ELSE "claim"
        /\ request'[r].kind = k /\ tx'[r] = Nothing
    BY <1>0, <2>1, <2>2 DEF TypeOK, Locals, Owns, Route, Clean
  <2>4. NoWrite \notin {"consumed", "revoked", "open", "none"}
    BY NoWriteAssumption DEF States
  <2>5. Owns(r)'
    BY <2>1, <2>2, <2>3, <2>4 DEF Owns, Route, OwnsSigner, OwnsAccesses, Nothing,
       Claimed, Clean, Transactional
  <2>6. Moves(r)
    BY <2>1, <2>2 DEF Moves, TypeOK
  <2>7. QED
    BY <2>2, <2>5, <2>6, MovesKeep, ClaimsKept DEF Kept
<1>2. CASE ClaimLink(r)
  <2>1. CASE Rollback(r)
    BY <2>1, FinishKeeps DEF Rollback
  <2>2. CASE ~Rollback(r)
    <3> DEFINE linked == [collaborator EXCEPT !.linked = TRUE]
    <3>1. /\ pc[r] = "claim" /\ pc' = [pc EXCEPT ![r] = "find"]
          /\ request[r].kind = "link" /\ Invited /\ WaitsFor(r) = {}
          /\ request' = [request EXCEPT ![r].todo = <<{"GUEST"}>>]
          /\ tx' = [tx EXCEPT ![r].collaborator = linked]
          /\ UNCHANGED <<collaborator, accesses>>
      BY <1>2, <2>2 DEF ClaimLink, Goto
    <3>2. linked # NoWrite
      BY RowsTyped, NotWritten
    <3>3. /\ pc'[r] = "find" /\ tx'[r].collaborator = linked
          /\ tx'[r].accesses = tx[r].accesses /\ request'[r].kind = "link"
      BY <3>1 DEF TypeOK, Locals, Writes
    <3>4. OwnsAccesses(r)'
      BY <1>0, <3>1, <3>3 DEF Owns, OwnsAccesses, Claimed
    <3>5. OwnsSigner(r)'
      BY <3>1, <3>2, <3>3 DEF OwnsSigner, Claimed, Invited
    <3>6. Owns(r)'
      BY <3>3, <3>4, <3>5 DEF Owns, Route, Clean, Transactional
    <3>7. \A o \in Requests \ {r} : tx[o].collaborator = NoWrite
      BY <3>1, Granted
    <3>8. Frame(r)
      BY <3>1, <3>3, <3>7 DEF Frame, TypeOK
    <3>9. QED
      BY <3>1, <3>6, <3>8, FrameKeeps, ClaimsKept DEF Kept
  <2>3. QED
    BY <2>1, <2>2
<1>3. CASE ClaimWithAccount(r)
  <2>1. CASE Rollback(r)
    BY <2>1, FinishKeeps DEF Rollback
  <2>2. QED
    BY <1>3, <2>1, AccountClaims
<1>4. CASE CloseDocument(r)
  <2>1. /\ pc[r] = "close" /\ pc' = [pc EXCEPT ![r] = "find"]
        /\ request' = [request EXCEPT ![r].todo = <<Purposes>>]
        /\ UNCHANGED <<collaborator, accesses, tx>>
    BY <1>4 DEF CloseDocument, Goto
  <2>2. /\ pc'[r] = "find" /\ request'[r].kind = request[r].kind
        /\ tx'[r] = Nothing /\ request[r].kind \notin Transactional
    BY <1>0, <2>1 DEF TypeOK, Locals, Owns, Route
  <2>3. NoWrite \notin {"consumed", "revoked", "open", "none"}
    BY NoWriteAssumption DEF States
  <2>4. Owns(r)'
    BY <2>2, <2>3 DEF Owns, Route, OwnsSigner, OwnsAccesses, Nothing, Transactional
  <2>5. Moves(r)
    BY <2>1 DEF Moves, TypeOK
  <2>6. QED
    BY <2>1, <2>4, <2>5, MovesKeep, ClaimsKept DEF Kept
<1>5. QED
  BY <1>1, <1>2, <1>3, <1>4 DEF Account

\* Revoking the open accesses consumes none, and touches none that another
\* transaction has written.
LEMMA RevokeKeeps ==
  ASSUME ClaimInvariant, NEW r \in Requests, RevokeOpen(r)
  PROVE  Kept
<1> USE DEF ClaimInvariant
<1> DEFINE open == {a \in request[r].found : Seen(r, a) = "open"}
<1>0. Owns(r)
  BY DEF Ownership
<1>1. /\ pc[r] = "revoke" /\ pc' = [pc EXCEPT ![r] = "find"]
      /\ request' = [request EXCEPT ![r].todo = Tail(@), ![r].found = {}]
      /\ WaitsFor(r) = {} /\ UNCHANGED collaborator
  BY DEF RevokeOpen, NextStatement, Goto
<1>2. /\ pc'[r] = "find" /\ request'[r].kind = request[r].kind
      /\ request'[r].token = request[r].token
  BY <1>1 DEF TypeOK, Locals
<1>3. request[r].found \subseteq Accesses
  BY DEF TypeOK, Locals
<1>4. \A o \in Requests \ {r}, a \in open : tx[o].accesses[a] = NoWrite
  BY <1>1, Granted
<1>5. NoWrite \notin {"consumed", "revoked", "open", "none"}
  BY NoWriteAssumption DEF States
<1>6. CASE request[r].kind \in Transactional
  <2>1. /\ tx' = [tx EXCEPT ![r].accesses =
                     [a \in Accesses |-> IF a \in open THEN "revoked" ELSE @[a]]]
        /\ UNCHANGED accesses
    BY <1>6 DEF RevokeOpen
  <2>2. /\ tx'[r].collaborator = tx[r].collaborator
        /\ tx'[r].accesses = [a \in Accesses |-> IF a \in open THEN "revoked"
                                                 ELSE tx[r].accesses[a]]
    BY <2>1 DEF TypeOK, Writes
  <2>3. \A a \in open : tx[r].accesses[a] = NoWrite /\ accesses[a] = "open"
    BY <1>0, <1>1, <1>3 DEF Seen, Owns, OwnsAccesses
  <2>4. \A a \in Accesses \ open : tx'[r].accesses[a] = tx[r].accesses[a]
    BY <2>2
  <2>5. \A a \in open : tx'[r].accesses[a] = "revoked"
    BY <1>3, <2>2
  <2>6. request[r].kind = "guest" =>
          /\ request[r].token \in Accesses \ open
          /\ tx[r].accesses[request[r].token] = "consumed"
    BY <1>0, <1>1, <1>5, <2>3 DEF Owns, OwnsAccesses, Claimed, TypeOK, Locals
  <2>7. OwnsAccesses(r)'
    <3>1. \A a \in open :
            /\ tx'[r].accesses[a] = "revoked" /\ accesses'[a] = "open"
      BY <2>1, <2>3, <2>5
    <3>2. \A a \in Accesses \ open :
            /\ tx'[r].accesses[a] = "consumed" =>
                 request'[r].kind = "guest" /\ a = request'[r].token
            /\ tx'[r].accesses[a] \in {"consumed", "revoked"} => accesses'[a] = "open"
            /\ tx'[r].accesses[a] \notin {"open", "none"}
      BY <1>0, <1>1, <1>2, <2>1, <2>4 DEF Owns, OwnsAccesses
    <3>3. request'[r].kind = "guest" =>
            tx'[r].accesses[request'[r].token] = "consumed"
      BY <1>2, <2>4, <2>6
    <3>4. QED
      BY <1>2, <3>1, <3>2, <3>3 DEF OwnsAccesses, Claimed
  <2>8. OwnsSigner(r)'
    BY <1>0, <1>1, <1>2, <2>2 DEF Owns, OwnsSigner, Claimed, Invited
  <2>9. Owns(r)'
    BY <1>2, <1>6, <2>7, <2>8 DEF Owns, Route, Clean
  <2>10. Frame(r)
    BY <1>1, <1>4, <2>1, <2>2, <2>4 DEF Frame, TypeOK
  <2>11. QED
    BY <1>1, <2>1, <2>9, <2>10, FrameKeeps, ClaimsKept DEF Kept
<1>7. CASE request[r].kind \notin Transactional
  <2>1. /\ accesses' = [a \in Accesses |-> IF a \in open THEN "revoked"
                                            ELSE accesses[a]]
        /\ UNCHANGED tx
    BY <1>7 DEF RevokeOpen
  <2>2. tx[r] = Nothing
    BY <1>0, <1>7 DEF Owns, Route
  <2>3. \A a \in open : accesses[a] = "open"
    BY <1>3, <1>5, <2>2 DEF Seen, Nothing
  <2>4. \A a \in Accesses :
          accesses'[a] = accesses[a] \/ (a \in open /\ accesses'[a] = "revoked")
    BY <2>1
  <2>5. \A a \in Accesses : accesses'[a] = "consumed" <=> accesses[a] = "consumed"
    BY <2>3, <2>4
  <2>6. Owns(r)'
    BY <1>2, <1>5, <1>7, <2>1, <2>2 DEF Owns, Route, OwnsSigner, OwnsAccesses,
       Nothing, Transactional
  <2>7. Frame(r)
    BY <1>1, <1>4, <2>1, <2>2, <2>4 DEF Frame, TypeOK
  <2>8. QED
    BY <1>1, <2>5, <2>6, <2>7, FrameKeeps, ClaimsKept DEF Kept
<1>8. QED
  BY <1>6, <1>7

\* A commit publishes at once the signature and the access it consumed.
LEMMA CommitKeeps ==
  ASSUME ClaimInvariant, NEW r \in Requests, Commit(r)
  PROVE  Kept
<1> USE DEF ClaimInvariant
<1> DEFINE c == tx[r].collaborator
<1>0. Owns(r) /\ Locked
  BY DEF Ownership
<1>1. /\ pc[r] = "commit" /\ Finish(r)
      /\ collaborator' = IF c = NoWrite THEN collaborator ELSE c
      /\ accesses' = [a \in Accesses |-> Seen(r, a)]
  BY DEF Commit
<1>2. /\ pc'[r] = "idle" /\ request'[r] = NoRequest /\ tx'[r] = Nothing
      /\ \A o \in Requests \ {r} :
           pc'[o] = pc[o] /\ request'[o] = request[o] /\ tx'[o] = tx[o]
  BY <1>1 DEF Finish, Goto, TypeOK
<1>3. NoWrite \notin {"consumed", "revoked", "open", "none"}
  BY NoWriteAssumption DEF States
<1>4. Owns(r)'
  BY <1>2, <1>3 DEF Owns, Route, OwnsSigner, OwnsAccesses, Nothing, NoRequest, Claimed
<1>5. \A a \in Accesses :
        accesses'[a] = IF tx[r].accesses[a] = NoWrite THEN accesses[a]
                       ELSE tx[r].accesses[a]
  BY <1>1 DEF Seen
<1>6. collaborator.linked => collaborator'.linked
  BY <1>0, <1>1 DEF Owns, OwnsSigner, TypeOK, Row
<1>7. Frame(r)
  BY <1>0, <1>1, <1>2, <1>5, <1>6 DEF Frame, Locked, Nothing
<1>8. CASE c = NoWrite \/ request[r].kind # "guest"
  <2>1. \A a \in Accesses : tx[r].accesses[a] # "consumed"
    BY <1>0, <1>1, <1>8 DEF Owns, OwnsSigner, OwnsAccesses, Claimed
  <2>2. \A a \in Accesses : accesses[a] = "consumed" => tx[r].accesses[a] = NoWrite
    BY <1>0 DEF Owns, OwnsAccesses, TypeOK, Writes, States
  <2>3. \A a \in Accesses : accesses'[a] = "consumed" <=> accesses[a] = "consumed"
    BY <1>5, <2>1, <2>2
  <2>4. Consumed' = Consumed
    BY <2>3 DEF Consumed
  <2>5. CASE c = NoWrite
    BY <1>1, <2>3, <2>5, ClaimsKept, <1>4, <1>7, FrameKeeps DEF Kept
  <2>6. CASE c # NoWrite
    <3>1. Invited /\ collaborator' = [collaborator EXCEPT !.linked = TRUE]
      BY <1>0, <1>1, <1>8, <2>6 DEF Owns, OwnsSigner
    <3>2. /\ collaborator'.status = "PENDING"
          /\ collaborator'.authorization = collaborator.authorization
          /\ collaborator.authorization = "none"
      BY <3>1 DEF TypeOK, Row, Invited, SignedAsHimself
    <3>3. SignedAsHimself' /\ ConsumedBySigning'
      BY <2>4, <3>2 DEF SignedAsHimself, ConsumedBySigning
    <3>4. QED
      BY <1>4, <1>7, <3>3, FrameKeeps DEF Kept
  <2>7. QED
    BY <2>5, <2>6
<1>9. CASE c # NoWrite /\ request[r].kind = "guest"
  <2>1. /\ Invited
        /\ collaborator' = [collaborator EXCEPT !.status = "SIGNED",
                                                !.authorization = "GUEST_EMAIL_OTP"]
    BY <1>0, <1>1, <1>9 DEF Owns, OwnsSigner
  <2>2. /\ collaborator'.status = "SIGNED" /\ ~collaborator'.linked
        /\ collaborator'.authorization = "GUEST_EMAIL_OTP"
        /\ collaborator.authorization = "none"
    BY <2>1 DEF TypeOK, Row, Invited, SignedAsHimself
  <2>3. Consumed = {} /\ request[r].token \in Accesses
    BY <2>2 DEF ConsumedBySigning, TypeOK, Locals
  <2>4. \A a \in Accesses : accesses'[a] = "consumed" <=> a = request[r].token
    BY <1>0, <1>1, <1>3, <1>5, <1>9, <2>3 DEF Owns, OwnsAccesses, Claimed, Consumed
  <2>5. Consumed' = {request[r].token}
    BY <2>3, <2>4 DEF Consumed
  <2>6. SignedAsHimself' /\ ConsumedBySigning'
    BY <2>2, <2>3, <2>5 DEF SignedAsHimself, ConsumedBySigning
  <2>7. QED
    BY <1>4, <1>7, <2>6, FrameKeeps DEF Kept
<1>10. QED
  BY <1>8, <1>9

\* Revocations and commits keep the claims.
LEMMA WriterKeeps ==
  ASSUME ClaimInvariant, NEW r \in Requests, Writer(r)
  PROVE  Kept
<1> USE DEF ClaimInvariant
<1>0. Owns(r)
  BY DEF Ownership
<1>1. CASE FindOpen(r)
  <2>1. PICK F : request' = [request EXCEPT ![r].found = F]
    BY <1>1 DEF FindOpen
  <2>2. pc[r] = "find" /\ pc' = [pc EXCEPT ![r] = "revoke"]
        /\ UNCHANGED <<collaborator, accesses, tx>>
    BY <1>1 DEF FindOpen, Goto
  <2>3. /\ pc'[r] = "revoke" /\ request'[r].kind = request[r].kind
        /\ request'[r].token = request[r].token
    BY <2>1, <2>2 DEF TypeOK, Locals
  <2>4. Route(r)' /\ OwnsSigner(r)'
    BY <1>0, <2>2, <2>3 DEF Owns, Route, OwnsSigner, Claimed, Clean, Invited
  <2>5. OwnsAccesses(r)'
    BY <1>0, <2>2, <2>3 DEF Owns, OwnsAccesses, Claimed
  <2>6. Moves(r) /\ Owns(r)'
    BY <2>1, <2>2, <2>4, <2>5 DEF Moves, TypeOK, Owns
  <2>7. QED
    BY <2>2, <2>6, MovesKeep, ClaimsKept DEF Kept
<1>2. CASE RevokeOpen(r)
  BY <1>2, RevokeKeeps
<1>3. CASE RevokeFails(r)
  <2>1. /\ pc[r] = "revoke" /\ pc' = [pc EXCEPT ![r] = "find"]
        /\ request[r].kind \notin Transactional
        /\ request' = [request EXCEPT ![r].todo = Tail(@), ![r].found = {}]
        /\ UNCHANGED <<collaborator, accesses, tx>>
    BY <1>3 DEF RevokeFails, NextStatement, Goto
  <2>2. /\ pc'[r] = "find" /\ request'[r].kind = request[r].kind
        /\ tx'[r] = Nothing
    BY <1>0, <2>1 DEF TypeOK, Locals, Owns, Route
  <2>3. NoWrite \notin {"consumed", "revoked", "open", "none"}
    BY NoWriteAssumption DEF States
  <2>4. Owns(r)'
    BY <2>1, <2>2, <2>3 DEF Owns, Route, OwnsSigner, OwnsAccesses, Nothing,
       Transactional
  <2>5. Moves(r)
    BY <2>1 DEF Moves, TypeOK
  <2>6. QED
    BY <2>1, <2>4, <2>5, MovesKeep, ClaimsKept DEF Kept
<1>4. CASE AllRevoked(r)
  <2>1. CASE Finish(r)
    BY <1>4, <2>1, FinishKeeps DEF AllRevoked
  <2>2. CASE ~Finish(r)
    <3>1. /\ pc[r] = "find" /\ request[r].kind \in Transactional
          /\ pc' = [pc EXCEPT ![r] =
                      IF request[r].kind = "verify" THEN "insert" ELSE "commit"]
          /\ UNCHANGED <<collaborator, accesses, request, tx>>
      BY <1>4, <2>2 DEF AllRevoked, Goto
    <3>2. /\ pc'[r] = IF request[r].kind = "verify" THEN "insert" ELSE "commit"
          /\ request'[r] = request[r] /\ tx'[r] = tx[r]
      BY <3>1 DEF TypeOK
    <3>3. Route(r)' /\ OwnsSigner(r)'
      BY <1>0, <3>1, <3>2 DEF Owns, Route, OwnsSigner, Claimed, Clean, Invited
    <3>4. OwnsAccesses(r)'
      BY <1>0, <3>1, <3>2 DEF Owns, OwnsAccesses, Claimed
    <3>5. Moves(r) /\ Owns(r)'
      BY <3>1, <3>3, <3>4 DEF Moves, TypeOK, Owns
    <3>6. QED
      BY <3>1, <3>5, MovesKeep, ClaimsKept DEF Kept
  <2>3. QED
    BY <2>1, <2>2
<1>5. CASE Commit(r)
  BY <1>5, CommitKeeps
<1>6. QED
  BY <1>1, <1>2, <1>3, <1>4, <1>5 DEF Writer

\* Every step keeps the claims.
LEMMA ClaimStep == ClaimInvariant /\ [Next]_vars => Kept
<1> SUFFICES ASSUME ClaimInvariant, [Next]_vars PROVE Kept
  OBVIOUS
<1>1. ASSUME NEW r \in Requests, GiveUp(r) \/ AbortDeadlocked(r) PROVE Kept
  BY <1>1, FinishKeeps DEF GiveUp, AbortDeadlocked, Rollback
<1>2. CASE Expire \/ UNCHANGED vars
  <2>1. UNCHANGED <<collaborator, accesses, pc, request, tx>>
    BY <1>2 DEF Expire, vars, control
  <2>2. ASSUME NEW r \in Requests PROVE Owns(r)'
    <3>1. Route(r) /\ OwnsSigner(r) /\ OwnsAccesses(r)
      BY DEF ClaimInvariant, Ownership, Owns
    <3>2. Route(r)'
      BY <2>1, <3>1 DEF Route
    <3>3. OwnsSigner(r)'
      BY <2>1, <3>1 DEF OwnsSigner, Invited
    <3>4. OwnsAccesses(r)'
      BY <2>1, <3>1 DEF OwnsAccesses
    <3>5. QED
      BY <3>2, <3>3, <3>4 DEF Owns
  <2>3. Locked'
    BY <2>1 DEF ClaimInvariant, Ownership, Locked
  <2>4. QED
    BY <2>1, <2>2, <2>3, ClaimsKept DEF Kept, ClaimInvariant, Ownership
<1>3. QED
  BY <1>1, <1>2, VerifierKeeps, SignerKeeps, AccountKeeps, WriterKeeps DEF Next

\* At first nobody owns anything and nothing is consumed.
LEMMA ClaimInit == Init => Ownership /\ SignedAsHimself /\ ConsumedBySigning
<1> SUFFICES ASSUME Init
             PROVE  Ownership /\ SignedAsHimself /\ ConsumedBySigning
  OBVIOUS
<1>1. NoWrite \notin {"consumed", "revoked", "open", "none"}
  BY NoWriteAssumption DEF States
<1>2. \A r \in Requests :
        pc[r] = "idle" /\ request[r] = NoRequest /\ tx[r] = Nothing
  BY DEF Init
<1>3. ASSUME NEW r \in Requests PROVE Owns(r)
  <2>1. /\ pc[r] = "idle" /\ request[r].kind = "code" /\ tx[r] = Nothing
        /\ tx[r].collaborator = NoWrite
        /\ \A a \in Accesses : tx[r].accesses[a] = NoWrite
    <3>1. NoRequest.kind = "code"
      BY DEF NoRequest
    <3>2. Nothing.collaborator = NoWrite /\ \A a \in Accesses : Nothing.accesses[a] = NoWrite
      BY DEF Nothing
    <3>3. pc[r] = "idle" /\ request[r] = NoRequest /\ tx[r] = Nothing
      BY <1>2
    <3>4. QED
      BY <3>1, <3>2, <3>3
  <2>2. Route(r)
    BY <2>1 DEF Route
  <2>3. OwnsSigner(r)
    BY <2>1 DEF OwnsSigner
  <2>4. OwnsAccesses(r)
    BY <1>1, <2>1 DEF OwnsAccesses
  <2>5. QED
    BY <2>2, <2>3, <2>4 DEF Owns
<1>4. Locked
  BY <1>2 DEF Locked, Nothing
<1>5. SignedAsHimself /\ ConsumedBySigning
  BY DEF Init, SignedAsHimself, ConsumedBySigning, Consumed
<1>6. QED
  BY <1>3, <1>4, <1>5 DEF Ownership

\* The claims are invariants, whatever the requests, the accesses and the codes.
THEOREM ClaimsAreWhole == Spec => [](Statements /\ ClaimInvariant)
<1>1. Init => Statements /\ ClaimInvariant
  BY TypeInit, ClaimInit DEF Init, Statements, ClaimInvariant
<1>2. Statements /\ ClaimInvariant /\ [Next]_vars => (Statements /\ ClaimInvariant)'
  BY TypeStep, StatementsStep, ClaimStep DEF TypeInvariant, ClaimInvariant, Kept
<1>3. QED
  BY <1>1, <1>2, PTL DEF Spec

\* An access is consumed when and only when the signature it was issued for was
\* registered with it: the transaction of claimWithGuestAccess is whole.
THEOREM ConsumedOnlyBySigning == Spec => []ConsumedBySigning
<1>1. ClaimInvariant => ConsumedBySigning
  BY DEF ClaimInvariant
<1>2. QED
  BY <1>1, ClaimsAreWhole, PTL

\* The evidence of the signature agrees with the account of the signer, however
\* the link, the claim with an access and the claim with an account interleave.
THEOREM EvidenceAgrees == Spec => []SignedAsHimself
<1>1. ClaimInvariant => SignedAsHimself
  BY DEF ClaimInvariant
<1>2. QED
  BY <1>1, ClaimsAreWhole, PTL

-----------------------------------------------------------------------------
(* What is paid. *)

\* The accesses ever issued for a purpose, and the codes that paid for one.
Issued(p) == {a \in IdsFor({p}) : accesses[a] # "none"}
Used(p)   == {i \in DOMAIN codes[p] : codes[p][i]}

\* What the transaction of r has taken to pay with, and what it buys.
Pays(r) ==
  /\ tx[r].code => /\ request[r].kind = "verify"
                   /\ ~codes[request[r].purpose][request[r].code]
  /\ pc[r] = "consume_code" \/ tx[r].code =>
       request[r].code \in DOMAIN codes[request[r].purpose]
  /\ request[r].kind = "verify" /\ pc[r] \in Claimed \cup {"insert"} => tx[r].code
  /\ \A a \in Accesses : tx[r].accesses[a] = "open" =>
       /\ tx[r].code /\ a \in IdsFor({request[r].purpose})
       /\ \A b \in Accesses : tx[r].accesses[b] = "open" => b = a

\* No two transactions pay with the same code.
SameCode(r, o) == /\ request[r].purpose = request[o].purpose
                  /\ request[r].code = request[o].code
OneCode ==
  \A r, o \in Requests : r # o /\ tx[r].code /\ tx[o].code => ~SameCode(r, o)

\* What was issued is counted by what was paid.
Balanced == \A p \in Purposes : /\ IsFiniteSet(Issued(p))
                                /\ Cardinality(Issued(p)) <= Cardinality(Used(p))

PaidInvariant == (\A r \in Requests : Pays(r)) /\ OneCode /\ Balanced

\* The other requests are as they were.
OthersKept(r) == \A o \in Requests \ {r} :
  pc'[o] = pc[o] /\ request'[o] = request[o] /\ tx'[o] = tx[o]

\* r pays with nothing it did not pay with before.
NoNewCode(r) == tx'[r].code => /\ tx[r].code
                               /\ request'[r].purpose = request[r].purpose
                               /\ request'[r].code = request[r].code

\* Nothing is issued and nothing is paid for good.
NothingIssued == \A a \in Accesses : accesses'[a] = "none" <=> accesses[a] = "none"
NothingPaid   == \A p \in Purposes : Used(p)' = Used(p)

\* The accesses of a purpose are accesses, and of that purpose only.
LEMMA IdsPartition ==
  \A p, q \in Purposes : /\ IdsFor({p}) \subseteq Accesses
                         /\ p # q => IdsFor({p}) \cap IdsFor({q}) = {}
  BY AccessesAssumption DEF Purposes, IdsFor, Accesses

\* The codes of a purpose are numbered and finitely many.
LEMMA UsedFinite ==
  ASSUME TypeOK, NEW p \in Purposes
  PROVE  IsFiniteSet(Used(p))
<1>1. codes[p] \in Seq(BOOLEAN)
  BY DEF TypeOK
<1>2. DOMAIN codes[p] = 1..Len(codes[p]) /\ Len(codes[p]) \in Nat
  BY <1>1
<1>3. IsFiniteSet(1..Len(codes[p]))
  BY <1>2, FS_Interval
<1>4. QED
  BY <1>2, <1>3, FS_Subset DEF Used

\* Who is not touched goes on paying, as long as his code is his.
LEMMA OthersPay ==
  ASSUME NEW o \in Requests, Pays(o),
         pc'[o] = pc[o], request'[o] = request[o], tx'[o] = tx[o],
         NEW p, NEW i, p = request[o].purpose, i = request[o].code,
         i \in DOMAIN codes[p] =>
           /\ i \in DOMAIN codes'[p]
           /\ tx[o].code => codes'[p][i] = codes[p][i]
  PROVE  Pays(o)'
  BY DEF Pays

\* Steps that pay nothing and issue nothing keep the balance.
LEMMA BalanceKept ==
  ASSUME Balanced, NothingIssued, NothingPaid
  PROVE  Balanced'
<1>1. \A p \in Purposes : Issued(p)' = Issued(p)
  BY IdsPartition DEF Issued, NothingIssued
<1>2. \A p \in Purposes : Used(p)' = Used(p)
  BY DEF NothingPaid
<1>3. QED
  BY <1>1, <1>2 DEF Balanced

\* A step in which r takes no new code keeps the codes apart.
LEMMA CodesApart ==
  ASSUME OneCode, NEW r \in Requests, OthersKept(r), NoNewCode(r)
  PROVE  OneCode'
  BY DEF OneCode, OthersKept, NoNewCode, SameCode

\* A step that touches no code and issues no access.
LEMMA PaidKept ==
  ASSUME PaidInvariant, NEW r \in Requests, OthersKept(r), NoNewCode(r),
         NothingIssued, codes' = codes, Pays(r)'
  PROVE  PaidInvariant'
<1>1. \A o \in Requests \ {r} : Pays(o)'
  BY OthersPay DEF PaidInvariant, OthersKept
<1>2. NothingPaid
  BY DEF NothingPaid, Used
<1>3. QED
  BY <1>1, <1>2, CodesApart, BalanceKept DEF PaidInvariant

\* A request that does not verify, or has only begun to, pays nothing.
LEMMA PaysNothing ==
  ASSUME NEW r \in Requests, tx'[r].code = FALSE, pc'[r] # "consume_code",
         request'[r].kind # "verify" \/ pc'[r] \notin Claimed \cup {"insert"},
         \A a \in Accesses : tx'[r].accesses[a] # "open"
  PROVE  Pays(r)' /\ NoNewCode(r)
  BY DEF Pays, NoNewCode

\* A request that ends pays nothing.
LEMMA FinishPays ==
  ASSUME TypeOK, NEW r \in Requests, Finish(r)
  PROVE  Pays(r)' /\ NoNewCode(r) /\ OthersKept(r)
<1>1. pc'[r] = "idle" /\ request'[r] = NoRequest /\ tx'[r] = Nothing
  BY DEF Finish, Goto, TypeOK
<1>2. /\ tx'[r].code = FALSE /\ request'[r].kind = "code"
      /\ \A a \in Accesses : tx'[r].accesses[a] = NoWrite
  BY <1>1 DEF NoRequest, Nothing
<1>3. NoWrite # "open"
  BY NoWriteAssumption DEF States
<1>4. Pays(r)' /\ NoNewCode(r)
  BY <1>1, <1>2, <1>3, PaysNothing
<1>5. OthersKept(r)
  BY DEF OthersKept, Finish, Goto, TypeOK
<1>6. QED
  BY <1>4, <1>5

\* One that rolls back leaves the balance as it was.
LEMMA RollbackPaid ==
  ASSUME TypeOK, PaidInvariant, NEW r \in Requests, Finish(r),
         UNCHANGED <<codes, accesses>>
  PROVE  PaidInvariant'
  BY FinishPays, PaidKept DEF NothingIssued

\* Who is not verifying pays nothing and has no access to issue.
LEMMA OnlyVerifiersPay ==
  ASSUME NEW r \in Requests, TypeOK, Owns(r), Pays(r),
         request[r].kind # "verify" \/ pc[r] \in Clean
  PROVE  tx[r].code = FALSE /\ \A a \in Accesses : tx[r].accesses[a] # "open"
<1>1. NoWrite # "open"
  BY NoWriteAssumption DEF States
<1>2. tx[r].code \in BOOLEAN
  BY DEF TypeOK, Writes
<1>3. CASE pc[r] \in Clean
  BY <1>1, <1>3 DEF Owns, Route, Nothing
<1>4. CASE request[r].kind # "verify"
  BY <1>2, <1>4 DEF Pays
<1>5. QED
  BY <1>3, <1>4

\* A code that is sent is one more, not used.
LEMMA AnotherCode ==
  ASSUME NEW s \in Seq(BOOLEAN), NEW t, t = Append(s, FALSE)
  PROVE  /\ DOMAIN t = DOMAIN s \cup {Len(s) + 1}
         /\ \A i \in DOMAIN s : t[i] = s[i]
         /\ t[Len(s) + 1] = FALSE
<1>1. /\ Len(s) \in Nat /\ DOMAIN s = 1..Len(s)
      /\ DOMAIN t = 1..Len(s) + 1
  OBVIOUS
<1>2. \A i \in 1..Len(s) : t[i] = s[i]
  OBVIOUS
<1>3. t[Len(s) + 1] = FALSE
  OBVIOUS
<1>4. QED
  BY <1>1, <1>2, <1>3

\* The codes sent are not used yet.
LEMMA IssuePaid ==
  ASSUME TypeOK, PaidInvariant, NEW r \in Requests, IssueCode(r)
  PROVE  PaidInvariant'
<1> DEFINE q == request[r].purpose
<1>1. q \in Purposes /\ codes[q] \in Seq(BOOLEAN)
  BY DEF TypeOK, Locals
<1>2. /\ codes' = [codes EXCEPT ![q] = Append(codes[q], FALSE)]
      /\ Finish(r) /\ accesses' = accesses
  BY DEF IssueCode
<1>3. \A p \in Purposes : p # q => codes'[p] = codes[p]
  BY <1>2 DEF TypeOK
<1>4. codes'[q] = Append(codes[q], FALSE)
  BY <1>1, <1>2 DEF TypeOK
<1>5. /\ DOMAIN codes'[q] = DOMAIN codes[q] \cup {Len(codes[q]) + 1}
      /\ \A i \in DOMAIN codes[q] : codes'[q][i] = codes[q][i]
      /\ codes'[q][Len(codes[q]) + 1] = FALSE
  BY <1>1, <1>4, AnotherCode
<1>6. \A p \in Purposes : \A i \in DOMAIN codes[p] :
        i \in DOMAIN codes'[p] /\ codes'[p][i] = codes[p][i]
  BY <1>3, <1>5
<1>7. ASSUME NEW p \in Purposes PROVE Used(p)' = Used(p)
  <2>1. CASE p = q
    BY <1>5, <2>1 DEF Used
  <2>2. CASE p # q
    BY <1>3, <2>2 DEF Used
  <2>3. QED
    BY <2>1, <2>2
<1>8. NothingPaid
  BY <1>7 DEF NothingPaid
<1>9. OthersKept(r) /\ NoNewCode(r) /\ Pays(r)'
  BY <1>2, FinishPays
<1>10. ASSUME NEW o \in Requests \ {r} PROVE Pays(o)'
  <2>1. request[o].purpose \in Purposes
    BY DEF TypeOK, Locals
  <2>2. QED
    BY <1>6, <1>9, <2>1, OthersPay DEF PaidInvariant, OthersKept
<1>11. NothingIssued
  BY <1>2 DEF NothingIssued
<1>12. QED
  BY <1>8, <1>9, <1>10, <1>11, CodesApart, BalanceKept DEF PaidInvariant

\* A code is taken under its lock and only while nobody has used it.
LEMMA ConsumePaid ==
  ASSUME ClaimInvariant, PaidInvariant, NEW r \in Requests, ConsumeCode(r)
  PROVE  PaidInvariant'
<1>0. TypeOK /\ Owns(r) /\ Pays(r)
  BY DEF ClaimInvariant, Ownership, PaidInvariant
<1>1. CASE Rollback(r)
  BY <1>0, <1>1, RollbackPaid DEF Rollback
<1>2. CASE ~Rollback(r)
  <2>1. /\ pc[r] = "consume_code" /\ pc' = [pc EXCEPT ![r] = "find"]
        /\ request' = [request EXCEPT ![r].todo = <<{request[r].purpose}>>]
        /\ tx' = [tx EXCEPT ![r].code = TRUE] /\ WaitsFor(r) = {}
        /\ UNCHANGED <<codes, accesses>>
        /\ ~codes[request[r].purpose][request[r].code]
    BY <1>2 DEF ConsumeCode, Goto
  <2>2. /\ pc'[r] = "find" /\ tx'[r].code = TRUE
        /\ tx'[r].accesses = tx[r].accesses /\ request'[r].kind = request[r].kind
        /\ request'[r].purpose = request[r].purpose
        /\ request'[r].code = request[r].code
    BY <1>0, <2>1 DEF TypeOK, Locals, Writes
  <2>3. request[r].kind = "verify"
    BY <1>0, <2>1 DEF Owns, Route
  <2>4. \A a \in Accesses : tx[r].accesses[a] # "open"
    BY <1>0, <2>1, OnlyVerifiersPay DEF Clean
  <2>5. Pays(r)'
    BY <1>0, <2>1, <2>2, <2>3, <2>4 DEF Pays
  <2>6. OthersKept(r)
    BY <1>0, <2>1 DEF OthersKept, TypeOK
  <2>7. \A o \in Requests \ {r} : tx[o].code => ~SameCode(o, r)
    BY <2>1 DEF WaitsFor, SameCode
  <2>8. OneCode'
    BY <2>2, <2>6, <2>7 DEF PaidInvariant, OneCode, OthersKept, SameCode
  <2>9. \A o \in Requests \ {r} : Pays(o)'
    BY <2>1, <2>6, OthersPay DEF PaidInvariant, OthersKept
  <2>10. NothingPaid /\ NothingIssued
    BY <2>1 DEF NothingPaid, Used, NothingIssued
  <2>11. QED
    BY <2>5, <2>8, <2>9, <2>10, BalanceKept DEF PaidInvariant
<1>3. QED
  BY <1>1, <1>2

\* The access inserted is the one its transaction paid for.
LEMMA InsertPaid ==
  ASSUME ClaimInvariant, PaidInvariant, NEW r \in Requests, InsertAccess(r)
  PROVE  PaidInvariant'
<1>0. TypeOK /\ Owns(r) /\ Pays(r)
  BY DEF ClaimInvariant, Ownership, PaidInvariant
<1>1. CASE Rollback(r)
  BY <1>0, <1>1, RollbackPaid DEF Rollback
<1>2. CASE ~Rollback(r)
  <2>1. PICK a \in IdsFor({request[r].purpose}) :
          tx' = [tx EXCEPT ![r].accesses[a] = "open"]
    BY <1>2 DEF InsertAccess
  <2>2. /\ pc[r] = "insert" /\ pc' = [pc EXCEPT ![r] = "commit"]
        /\ UNCHANGED <<codes, accesses, request>>
    BY <1>2 DEF InsertAccess, Goto
  <2>3. a \in Accesses
    BY <2>1 DEF IdsFor, Accesses
  <2>4. /\ pc'[r] = "commit" /\ request'[r] = request[r]
        /\ tx'[r].code = tx[r].code
        /\ tx'[r].accesses[a] = "open"
        /\ \A b \in Accesses \ {a} : tx'[r].accesses[b] = tx[r].accesses[b]
    BY <1>0, <2>1, <2>2, <2>3 DEF TypeOK, Writes
  <2>5. \A b \in Accesses : tx[r].accesses[b] # "open"
    BY <1>0, <2>2 DEF Owns, OwnsAccesses
  <2>6. tx[r].code
    BY <1>0, <2>2 DEF Owns, Route, Pays
  <2>7. Pays(r)'
    BY <1>0, <2>1, <2>2, <2>4, <2>5, <2>6 DEF Pays
  <2>8. OthersKept(r) /\ NoNewCode(r) /\ NothingIssued
    BY <1>0, <2>1, <2>2, <2>4 DEF OthersKept, NoNewCode, NothingIssued, TypeOK
  <2>9. QED
    BY <2>2, <2>7, <2>8, PaidKept
<1>3. QED
  BY <1>1, <1>2

\* A commit issues at most the access it paid for, and uses the code.
LEMMA CommitPaid ==
  ASSUME ClaimInvariant, PaidInvariant, NEW r \in Requests, Commit(r)
  PROVE  PaidInvariant'
<1> DEFINE q == request[r].purpose
           i == request[r].code
<1>0. TypeOK /\ Owns(r) /\ Pays(r)
  BY DEF ClaimInvariant, Ownership, PaidInvariant
<1>1. /\ Finish(r) /\ accesses' = [a \in Accesses |-> Seen(r, a)]
      /\ codes' = IF tx[r].code THEN [codes EXCEPT ![q][i] = TRUE] ELSE codes
  BY DEF Commit
<1>2. Pays(r)' /\ NoNewCode(r) /\ OthersKept(r)
  BY <1>0, <1>1, FinishPays
<1>3. q \in Purposes /\ codes[q] \in Seq(BOOLEAN)
  BY <1>0 DEF TypeOK, Locals
<1>4. \A a \in Accesses :
        accesses'[a] # "none" <=> accesses[a] # "none" \/ tx[r].accesses[a] = "open"
  <2>1. ASSUME NEW a \in Accesses
        PROVE  /\ tx[r].accesses[a] \in States \cup {NoWrite}
               /\ tx[r].accesses[a] # "none"
               /\ tx[r].accesses[a] \in {"consumed", "revoked"} => accesses[a] = "open"
    BY <1>0 DEF TypeOK, Writes, Owns, OwnsAccesses
  <2>2. NoWrite \notin States
    BY NoWriteAssumption
  <2>3. QED
    BY <1>1, <2>1, <2>2 DEF Seen, States
<1>5. CASE ~tx[r].code
  <2>1. codes' = codes /\ \A a \in Accesses : tx[r].accesses[a] # "open"
    BY <1>0, <1>1, <1>5 DEF Pays
  <2>2. NothingIssued
    BY <1>4, <2>1 DEF NothingIssued
  <2>3. QED
    BY <1>2, <2>1, <2>2, PaidKept
<1>6. CASE tx[r].code
  <2>1. /\ codes' = [codes EXCEPT ![q] = [codes[q] EXCEPT ![i] = TRUE]]
        /\ i \in DOMAIN codes[q] /\ codes[q][i] = FALSE
    BY <1>0, <1>1, <1>3, <1>6 DEF Pays
  <2>2. \A p \in Purposes : p # q => codes'[p] = codes[p]
    BY <1>0, <2>1 DEF TypeOK
  <2>3. codes'[q] = [codes[q] EXCEPT ![i] = TRUE]
    BY <1>0, <1>3, <2>1 DEF TypeOK
  <2>4. DOMAIN codes'[q] = DOMAIN codes[q] /\ codes'[q][i] = TRUE
        /\ \A j \in DOMAIN codes[q] : j # i => codes'[q][j] = codes[q][j]
    BY <2>1, <2>3
  <2>5. ASSUME NEW o \in Requests \ {r} PROVE Pays(o)'
    <3>1. tx[o].code => request[o].purpose # q \/ request[o].code # i
      BY <1>6 DEF PaidInvariant, OneCode, SameCode
    <3>2. request[o].purpose \in Purposes
      BY <1>0 DEF TypeOK, Locals
    <3>3. Pays(o) /\ pc'[o] = pc[o] /\ request'[o] = request[o] /\ tx'[o] = tx[o]
      BY <1>2 DEF PaidInvariant, OthersKept
    <3>4. QED
      BY <2>2, <2>4, <3>1, <3>2, <3>3, OthersPay
  <2>6. ASSUME NEW p \in Purposes
        PROVE  IsFiniteSet(Issued(p)') /\ Cardinality(Issued(p)') <= Cardinality(Used(p)')
    <3>1. IsFiniteSet(Issued(p)) /\ Cardinality(Issued(p)) <= Cardinality(Used(p))
      BY DEF PaidInvariant, Balanced
    <3>2. IdsFor({p}) \subseteq Accesses
      BY IdsPartition
    <3>3. CASE p # q
      <4>1. \A a \in IdsFor({p}) : tx[r].accesses[a] # "open"
        BY <1>0, <1>3, <3>2, <3>3, IdsPartition DEF Pays
      <4>2. Issued(p)' = Issued(p)
        BY <1>4, <3>2, <4>1 DEF Issued
      <4>3. Used(p)' = Used(p)
        BY <2>2, <3>3 DEF Used
      <4>4. QED
        BY <3>1, <4>2, <4>3
    <3>4. CASE p = q
      <4>1. Used(p)' = Used(p) \cup {i} /\ i \notin Used(p)
        BY <2>1, <2>4, <3>4 DEF Used
      <4>2. IsFiniteSet(Used(p))
        BY <1>0, UsedFinite
      <4>3. Cardinality(Used(p)') = Cardinality(Used(p)) + 1
        BY <4>1, <4>2, FS_AddElement
      <4>4. Cardinality(Used(p)) \in Nat /\ Cardinality(Issued(p)) \in Nat
        BY <3>1, <4>2, FS_CardinalityType
      <4>5. CASE \E a \in Accesses : tx[r].accesses[a] = "open"
        <5>1. PICK a \in Accesses : tx[r].accesses[a] = "open"
          BY <4>5
        <5>2. /\ a \in IdsFor({p})
              /\ \A b \in Accesses : tx[r].accesses[b] = "open" => b = a
          BY <1>0, <3>4, <5>1 DEF Pays
        <5>3. Issued(p)' = Issued(p) \cup {a}
          BY <1>4, <3>2, <5>1, <5>2 DEF Issued
        <5>4. a \notin Issued(p)
          BY <1>0, <5>1 DEF Issued, Owns, OwnsAccesses
        <5>5. /\ IsFiniteSet(Issued(p)')
              /\ Cardinality(Issued(p)') = Cardinality(Issued(p)) + 1
          BY <3>1, <5>3, <5>4, FS_AddElement
        <5>6. QED
          BY <3>1, <4>3, <4>4, <5>5
      <4>6. CASE \A a \in Accesses : tx[r].accesses[a] # "open"
        <5>1. Issued(p)' = Issued(p)
          BY <1>4, <3>2, <4>6 DEF Issued
        <5>2. QED
          BY <3>1, <4>3, <4>4, <5>1
      <4>7. QED
        BY <4>5, <4>6
    <3>5. QED
      BY <3>3, <3>4
  <2>7. Balanced'
    BY <2>6 DEF Balanced
  <2>8. OneCode'
    BY <1>2, CodesApart DEF PaidInvariant
  <2>9. QED
    BY <1>2, <2>5, <2>7, <2>8 DEF PaidInvariant
<1>7. QED
  BY <1>5, <1>6

\* Nothing is paid by one who goes on without paying: he keeps his code, his
\* purpose and what he has to insert.
GoesOn(r) ==
  /\ OthersKept(r) /\ codes' = codes /\ NothingIssued
  /\ tx'[r].code = tx[r].code
  /\ \A a \in Accesses : tx'[r].accesses[a] = "open" <=> tx[r].accesses[a] = "open"
  /\ request'[r].kind = request[r].kind
  /\ request'[r].purpose = request[r].purpose
  /\ request'[r].code = request[r].code
  /\ pc'[r] # "consume_code"
  /\ request[r].kind = "verify" /\ pc'[r] \in Claimed \cup {"insert"} =>
       pc[r] \in Claimed \cup {"insert"}

LEMMA GoesOnPaid ==
  ASSUME PaidInvariant, NEW r \in Requests, GoesOn(r)
  PROVE  PaidInvariant'
<1>1. Pays(r)
  BY DEF PaidInvariant
<1>2. Pays(r)'
  BY <1>1 DEF Pays, GoesOn
<1>3. NoNewCode(r)
  BY DEF NoNewCode, GoesOn
<1>4. QED
  BY <1>2, <1>3, PaidKept DEF GoesOn

\* A request that begins has paid nothing.
LEMMA BeginsPaid ==
  ASSUME ClaimInvariant, PaidInvariant, NEW r \in Requests, OthersKept(r),
         pc[r] \in Clean, UNCHANGED <<codes, accesses, tx>>,
         pc'[r] # "consume_code",
         request'[r].kind # "verify" \/ pc'[r] \notin Claimed \cup {"insert"}
  PROVE  PaidInvariant'
<1>1. TypeOK /\ Owns(r) /\ Pays(r)
  BY DEF ClaimInvariant, Ownership, PaidInvariant
<1>2. tx[r].code = FALSE /\ \A a \in Accesses : tx[r].accesses[a] # "open"
  BY <1>1, OnlyVerifiersPay
<1>3. Pays(r)' /\ NoNewCode(r)
  BY <1>2, PaysNothing
<1>4. QED
  BY <1>3, PaidKept DEF NothingIssued

\* The steps of a verification.
LEMMA VerifierPaid ==
  ASSUME ClaimInvariant, PaidInvariant, NEW r \in Requests, Verifier(r)
  PROVE  PaidInvariant'
<1>0. TypeOK /\ Owns(r) /\ Pays(r)
  BY DEF ClaimInvariant, Ownership, PaidInvariant
<1>1. CASE ReadInvitation(r)
  <2>1. PICK k, p : request' = [request EXCEPT ![r].kind = k, ![r].purpose = p]
    BY <1>1 DEF ReadInvitation
  <2>2. /\ pc[r] = "idle" /\ pc' = [pc EXCEPT ![r] = "invited"]
        /\ UNCHANGED <<codes, accesses, tx>>
    BY <1>1 DEF ReadInvitation, Goto
  <2>3. pc'[r] = "invited" /\ OthersKept(r)
    BY <1>0, <2>1, <2>2 DEF OthersKept, TypeOK
  <2>4. QED
    BY <2>2, <2>3, BeginsPaid DEF Clean, Claimed
<1>2. CASE FindCode(r)
  <2>1. PICK i \in DOMAIN codes[request[r].purpose] :
          request' = [request EXCEPT ![r].code = i]
    BY <1>2 DEF FindCode
  <2>2. /\ pc[r] = "invited" /\ pc' = [pc EXCEPT ![r] = "consume_code"]
        /\ UNCHANGED <<codes, accesses, tx>>
    BY <1>2 DEF FindCode, Goto
  <2>3. /\ pc'[r] = "consume_code" /\ OthersKept(r)
        /\ request'[r].code = i /\ request'[r].purpose = request[r].purpose
    BY <1>0, <2>1, <2>2 DEF OthersKept, TypeOK, Locals
  <2>4. tx[r].code = FALSE /\ \A a \in Accesses : tx[r].accesses[a] # "open"
    BY <1>0, <2>2, OnlyVerifiersPay DEF Clean
  <2>5. Pays(r)' /\ NoNewCode(r)
    BY <2>1, <2>2, <2>3, <2>4 DEF Pays, NoNewCode, Claimed
  <2>6. QED
    BY <2>2, <2>3, <2>5, PaidKept DEF NothingIssued
<1>3. QED
  BY <1>0, <1>1, <1>2, IssuePaid, ConsumePaid, InsertPaid DEF Verifier

\* The steps of a signature with an access.
LEMMA SignerPaid ==
  ASSUME ClaimInvariant, PaidInvariant, NEW r \in Requests, Signer(r)
  PROVE  PaidInvariant'
<1>0. TypeOK /\ Owns(r) /\ Pays(r)
  BY DEF ClaimInvariant, Ownership, PaidInvariant
<1>1. CASE FindAccess(r)
  <2>1. PICK a \in Accesses :
          request' = [request EXCEPT ![r].kind = "guest", ![r].token = a]
    BY <1>1 DEF FindAccess
  <2>2. /\ pc[r] = "idle" /\ pc' = [pc EXCEPT ![r] = "found"]
        /\ UNCHANGED <<codes, accesses, tx>>
    BY <1>1 DEF FindAccess, Goto
  <2>3. pc'[r] = "found" /\ OthersKept(r)
    BY <1>0, <2>1, <2>2 DEF OthersKept, TypeOK
  <2>4. QED
    BY <2>2, <2>3, BeginsPaid DEF Clean, Claimed
<1>2. CASE ReadDocument(r) \/ ReadSigner(r)
  <2>1. /\ pc[r] \in {"found", "read"}
        /\ pc' \in {[pc EXCEPT ![r] = "read"], [pc EXCEPT ![r] = "consume"]}
        /\ UNCHANGED <<codes, accesses, request, tx>>
    BY <1>2 DEF ReadDocument, ReadSigner, Goto
  <2>2. pc'[r] \in {"read", "consume"} /\ OthersKept(r)
    BY <1>0, <2>1 DEF OthersKept, TypeOK
  <2>3. QED
    BY <2>1, <2>2, BeginsPaid DEF Clean, Claimed
<1>3. CASE ConsumeAccess(r) \/ ClaimAsGuest(r)
  <2>1. CASE Rollback(r)
    BY <1>0, <2>1, RollbackPaid DEF Rollback
  <2>2. CASE ~Rollback(r) /\ ConsumeAccess(r)
    <3>1. /\ pc[r] = "consume" /\ pc' = [pc EXCEPT ![r] = "claim"]
          /\ tx' = [tx EXCEPT ![r].accesses[request[r].token] = "consumed"]
          /\ UNCHANGED <<codes, accesses, request>>
      BY <2>2 DEF ConsumeAccess, Goto
    <3>2. request[r].token \in Accesses
      BY <1>0 DEF TypeOK, Locals
    <3>3. /\ pc'[r] = "claim" /\ request'[r] = request[r] /\ tx'[r].code = tx[r].code
          /\ tx'[r].accesses[request[r].token] = "consumed"
          /\ \A a \in Accesses \ {request[r].token} :
               tx'[r].accesses[a] = tx[r].accesses[a]
      BY <1>0, <3>1, <3>2 DEF TypeOK, Writes
    <3>4. \A a \in Accesses : tx[r].accesses[a] # "open"
      BY <1>0, <3>1, OnlyVerifiersPay DEF Clean
    <3>5. OthersKept(r)
      BY <1>0, <3>1 DEF OthersKept, TypeOK
    <3>6. GoesOn(r)
      BY <3>1, <3>2, <3>3, <3>4, <3>5 DEF GoesOn, NothingIssued, Claimed
    <3>7. QED
      BY <3>6, GoesOnPaid
  <2>3. CASE ~Rollback(r) /\ ClaimAsGuest(r)
    <3>1. /\ request[r].kind = "guest" /\ pc' = [pc EXCEPT ![r] = "find"]
          /\ request' = [request EXCEPT ![r].todo = <<{"GUEST"}, {"PUBLIC"}>>]
          /\ UNCHANGED <<codes, accesses>>
      BY <2>3 DEF ClaimAsGuest, Goto
    <3>2. PICK c : tx' = [tx EXCEPT ![r].collaborator = c]
      BY <2>3 DEF ClaimAsGuest
    <3>3. /\ pc'[r] = "find" /\ tx'[r].code = tx[r].code
          /\ tx'[r].accesses = tx[r].accesses /\ request'[r].kind = request[r].kind
          /\ request'[r].purpose = request[r].purpose
          /\ request'[r].code = request[r].code
      BY <1>0, <3>1, <3>2 DEF TypeOK, Locals, Writes
    <3>4. OthersKept(r)
      BY <1>0, <3>1, <3>2 DEF OthersKept, TypeOK
    <3>5. GoesOn(r)
      BY <3>1, <3>3, <3>4 DEF GoesOn, NothingIssued
    <3>6. QED
      BY <3>5, GoesOnPaid
  <2>4. QED
    BY <1>3, <2>1, <2>2, <2>3
<1>4. QED
  BY <1>1, <1>2, <1>3 DEF Signer

\* The steps of the account.
LEMMA AccountPaid ==
  ASSUME ClaimInvariant, PaidInvariant, NEW r \in Requests, Account(r)
  PROVE  PaidInvariant'
<1>0. TypeOK /\ Owns(r) /\ Pays(r)
  BY DEF ClaimInvariant, Ownership, PaidInvariant
<1>1. CASE StartAccount(r)
  <2>1. PICK k \in {"link", "account", "reject", "peer"} :
          /\ request' = [request EXCEPT ![r].kind = k]
          /\ pc' = [pc EXCEPT ![r] = IF k = "peer" THEN "close" ELSE "claim"]
    BY <1>1 DEF StartAccount, Goto
  <2>2. pc[r] = "idle" /\ UNCHANGED <<codes, accesses, tx>>
    BY <1>1 DEF StartAccount
  <2>3. pc'[r] \in {"close", "claim"} /\ OthersKept(r)
    BY <1>0, <2>1 , <2>2 DEF OthersKept, TypeOK
  <2>4. QED
    BY <2>2, <2>3, BeginsPaid DEF Clean, Claimed
<1>2. CASE ClaimLink(r) \/ ClaimWithAccount(r)
  <2>1. CASE Rollback(r)
    BY <1>0, <2>1, RollbackPaid DEF Rollback
  <2>2. CASE ~Rollback(r)
    <3>1. /\ request[r].kind # "verify" /\ UNCHANGED <<codes, accesses>>
          /\ \/ pc' = [pc EXCEPT ![r] = "find"]
             \/ pc' = [pc EXCEPT ![r] = "close"]
          /\ \/ request' = request
             \/ \E t : request' = [request EXCEPT ![r].todo = t]
          /\ \/ tx' = tx
             \/ \E c : tx' = [tx EXCEPT ![r].collaborator = c]
      BY <1>2, <2>2 DEF ClaimLink, ClaimWithAccount, Goto
    <3>2. pc'[r] \in {"find", "close"}
      BY <1>0, <3>1 DEF TypeOK
    <3>3. /\ request'[r].kind = request[r].kind
          /\ request'[r].purpose = request[r].purpose
          /\ request'[r].code = request[r].code
          /\ \A o \in Requests \ {r} : request'[o] = request[o]
      BY <1>0, <3>1 DEF TypeOK, Locals
    <3>4. /\ tx'[r].code = tx[r].code /\ tx'[r].accesses = tx[r].accesses
          /\ \A o \in Requests \ {r} : tx'[o] = tx[o]
      BY <1>0, <3>1 DEF TypeOK, Writes
    <3>5. OthersKept(r)
      BY <1>0, <3>1, <3>3, <3>4 DEF OthersKept, TypeOK
    <3>6. GoesOn(r)
      BY <3>1, <3>2, <3>3, <3>4, <3>5 DEF GoesOn, NothingIssued
    <3>7. QED
      BY <3>6, GoesOnPaid
  <2>3. QED
    BY <2>1, <2>2
<1>3. CASE CloseDocument(r)
  <2>1. /\ pc[r] = "close" /\ pc' = [pc EXCEPT ![r] = "find"]
        /\ request' = [request EXCEPT ![r].todo = <<Purposes>>]
        /\ UNCHANGED <<codes, accesses, tx>>
    BY <1>3 DEF CloseDocument, Goto
  <2>2. request[r].kind # "verify"
    BY <1>0, <2>1 DEF Owns, Route, Transactional
  <2>3. /\ pc'[r] = "find" /\ request'[r].kind = request[r].kind
        /\ request'[r].purpose = request[r].purpose
        /\ request'[r].code = request[r].code
        /\ tx'[r] = tx[r] /\ OthersKept(r)
    BY <1>0, <2>1 DEF OthersKept, TypeOK, Locals
  <2>4. GoesOn(r)
    BY <2>1, <2>2, <2>3 DEF GoesOn, NothingIssued
  <2>5. QED
    BY <2>4, GoesOnPaid
<1>4. QED
  BY <1>1, <1>2, <1>3 DEF Account

\* What an UPDATE revokes was open, so it was issued and stays so.
LEMMA RevokePaid ==
  ASSUME ClaimInvariant, PaidInvariant, NEW r \in Requests, RevokeOpen(r)
  PROVE  PaidInvariant'
<1> DEFINE open == {a \in request[r].found : Seen(r, a) = "open"}
<1>0. TypeOK /\ Owns(r) /\ Pays(r)
  BY DEF ClaimInvariant, Ownership, PaidInvariant
<1>1. /\ pc[r] = "revoke" /\ pc' = [pc EXCEPT ![r] = "find"] /\ codes' = codes
      /\ request' = [request EXCEPT ![r].todo = Tail(@), ![r].found = {}]
  BY DEF RevokeOpen, NextStatement, Goto
<1>2. /\ pc'[r] = "find" /\ request'[r].kind = request[r].kind
      /\ request'[r].purpose = request[r].purpose
      /\ request'[r].code = request[r].code
      /\ \A o \in Requests \ {r} : pc'[o] = pc[o] /\ request'[o] = request[o]
  BY <1>0, <1>1 DEF TypeOK, Locals
<1>3. \A a \in Accesses : tx[r].accesses[a] # "open"
  BY <1>0, <1>1 DEF Owns, OwnsAccesses
<1>4. CASE request[r].kind \in Transactional
  <2>1. /\ tx' = [tx EXCEPT ![r].accesses =
                     [a \in Accesses |-> IF a \in open THEN "revoked" ELSE @[a]]]
        /\ accesses' = accesses
    BY <1>4 DEF RevokeOpen
  <2>2. /\ tx'[r].code = tx[r].code
        /\ tx'[r].accesses = [a \in Accesses |-> IF a \in open THEN "revoked"
                                                 ELSE tx[r].accesses[a]]
        /\ \A o \in Requests \ {r} : tx'[o] = tx[o]
    BY <1>0, <2>1 DEF TypeOK, Writes
  <2>3. \A a \in Accesses : tx'[r].accesses[a] # "open"
    BY <1>3, <2>2
  <2>4. GoesOn(r)
    BY <1>1, <1>2, <1>3, <2>1, <2>2, <2>3 DEF GoesOn, OthersKept, NothingIssued, Claimed
  <2>5. QED
    BY <2>4, GoesOnPaid
<1>5. CASE request[r].kind \notin Transactional
  <2>1. /\ accesses' = [a \in Accesses |-> IF a \in open THEN "revoked"
                                            ELSE accesses[a]]
        /\ tx' = tx
    BY <1>5 DEF RevokeOpen
  <2>2. tx[r] = Nothing
    BY <1>0, <1>5 DEF Owns, Route
  <2>3. \A a \in open : a \in Accesses => accesses[a] = "open"
    BY <2>2 DEF Seen, Nothing
  <2>4. NothingIssued
    BY <2>1, <2>3 DEF NothingIssued
  <2>5. GoesOn(r)
    BY <1>1, <1>2, <2>1, <2>4 DEF GoesOn, OthersKept, Claimed
  <2>6. QED
    BY <2>5, GoesOnPaid
<1>6. QED
  BY <1>4, <1>5

\* Revocations and commits.
LEMMA WriterPaid ==
  ASSUME ClaimInvariant, PaidInvariant, NEW r \in Requests, Writer(r)
  PROVE  PaidInvariant'
<1>0. TypeOK /\ Owns(r) /\ Pays(r)
  BY DEF ClaimInvariant, Ownership, PaidInvariant
<1>1. CASE FindOpen(r) \/ RevokeFails(r)
  <2>1. /\ pc[r] \in {"find", "revoke"} /\ UNCHANGED <<codes, accesses, tx>>
        /\ \/ pc' = [pc EXCEPT ![r] = "revoke"] \/ pc' = [pc EXCEPT ![r] = "find"]
        /\ \/ \E F : request' = [request EXCEPT ![r].found = F]
           \/ \E t : request' = [request EXCEPT ![r].todo = t, ![r].found = {}]
    BY <1>1 DEF FindOpen, RevokeFails, NextStatement, Goto
  <2>2. pc'[r] \in {"find", "revoke"}
    BY <1>0, <2>1 DEF TypeOK
  <2>3. /\ request'[r].kind = request[r].kind
        /\ request'[r].purpose = request[r].purpose
        /\ request'[r].code = request[r].code
        /\ \A o \in Requests \ {r} : request'[o] = request[o]
    <3>1. CASE \E F : request' = [request EXCEPT ![r].found = F]
      BY <1>0, <3>1 DEF TypeOK, Locals
    <3>2. CASE \E t : request' = [request EXCEPT ![r].todo = t, ![r].found = {}]
      BY <1>0, <3>2 DEF TypeOK, Locals
    <3>3. QED
      BY <2>1, <3>1, <3>2
  <2>4. OthersKept(r)
    BY <1>0, <2>1, <2>3 DEF OthersKept, TypeOK
  <2>5. GoesOn(r)
    BY <2>1, <2>2, <2>3, <2>4 DEF GoesOn, NothingIssued, Claimed
  <2>6. QED
    BY <2>5, GoesOnPaid
<1>2. CASE AllRevoked(r)
  <2>1. CASE Finish(r)
    BY <1>0, <1>2, <2>1, RollbackPaid DEF AllRevoked
  <2>2. CASE ~Finish(r)
    <3>1. /\ pc[r] = "find" /\ UNCHANGED <<codes, accesses, request, tx>>
          /\ pc' = [pc EXCEPT ![r] =
                      IF request[r].kind = "verify" THEN "insert" ELSE "commit"]
      BY <1>2, <2>2 DEF AllRevoked, Goto
    <3>2. pc'[r] \in {"insert", "commit"} /\ OthersKept(r)
      BY <1>0, <3>1 DEF OthersKept, TypeOK
    <3>3. GoesOn(r)
      BY <3>1, <3>2 DEF GoesOn, NothingIssued, Claimed
    <3>4. QED
      BY <3>3, GoesOnPaid
  <2>3. QED
    BY <2>1, <2>2
<1>3. QED
  BY <1>1, <1>2, RevokePaid, CommitPaid DEF Writer

\* Every step keeps what is paid.
LEMMA PaidStep == ClaimInvariant /\ PaidInvariant /\ [Next]_vars => PaidInvariant'
<1> SUFFICES ASSUME ClaimInvariant, PaidInvariant, [Next]_vars PROVE PaidInvariant'
  OBVIOUS
<1>1. ASSUME NEW r \in Requests, GiveUp(r) \/ AbortDeadlocked(r)
      PROVE  PaidInvariant'
  BY <1>1, RollbackPaid DEF GiveUp, AbortDeadlocked, Rollback, ClaimInvariant
<1>2. CASE Expire \/ UNCHANGED vars
  <2>1. UNCHANGED <<codes, accesses, pc, request, tx>>
    BY <1>2 DEF Expire, vars, control
  <2>2. \A o \in Requests : Pays(o)'
    BY <2>1 DEF PaidInvariant, Pays
  <2>3. OneCode'
    BY <2>1 DEF PaidInvariant, OneCode, SameCode
  <2>4. NothingIssued /\ NothingPaid
    BY <2>1 DEF NothingIssued, NothingPaid, Used
  <2>5. QED
    BY <2>2, <2>3, <2>4, BalanceKept DEF PaidInvariant
<1>3. QED
  BY <1>1, <1>2, VerifierPaid, SignerPaid, AccountPaid, WriterPaid DEF Next

\* At first nothing was issued.
LEMMA PaidInit == Init => PaidInvariant
<1> SUFFICES ASSUME Init PROVE PaidInvariant
  OBVIOUS
<1>1. ASSUME NEW r \in Requests
      PROVE  /\ pc[r] = "idle" /\ ~tx[r].code /\ request[r].kind = "code"
             /\ \A a \in Accesses : tx[r].accesses[a] = NoWrite
  BY <1>1 DEF Init, Nothing, NoRequest
<1>2. NoWrite # "open"
  BY NoWriteAssumption DEF States
<1>3. \A r \in Requests : Pays(r)
  BY <1>1, <1>2 DEF Pays
<1>4. OneCode
  BY <1>1 DEF OneCode
<1>5. ASSUME NEW p \in Purposes
      PROVE  IsFiniteSet(Issued(p)) /\ Cardinality(Issued(p)) <= Cardinality(Used(p))
  <2>1. Issued(p) = {}
    BY IdsPartition DEF Init, Issued
  <2>2. Used(p) = {}
    BY DEF Init, Used
  <2>3. QED
    BY <2>1, <2>2, FS_EmptySet
<1>6. QED
  BY <1>3, <1>4, <1>5 DEF PaidInvariant, Balanced

\* Every access ever issued was paid with a code of its own: a code is taken
\* under its lock and spent with the commit that issues the access, so one code
\* submitted twice at once buys one access, and a rollback spends nothing.
THEOREM AccessesPaid == Spec => []AccessesArePaid
<1>1. Init => PaidInvariant
  BY PaidInit
<1>2. Statements /\ ClaimInvariant /\ PaidInvariant /\ [Next]_vars => PaidInvariant'
  BY PaidStep
<1>3. PaidInvariant => AccessesArePaid
  BY DEF PaidInvariant, Balanced, AccessesArePaid, Issued, Used
<1>4. QED
  BY <1>1, <1>2, <1>3, ClaimsAreWhole, PTL DEF Spec

-----------------------------------------------------------------------------
(* What is open, and what is closed. *)

\* While a transaction inserts an access nobody else has written an access of
\* the purpose, and none that it sees is open.
Inserts(r) ==
  \A p \in Purposes : \A a, b \in IdsFor({p}) :
    a # b /\ tx[r].accesses[a] = "open" =>
      /\ Seen(r, b) # "open"
      /\ \A o \in Requests \ {r} : tx[o].accesses[b] = NoWrite

OpenInvariant == (\A r \in Requests : Inserts(r)) /\ OneOpenAccess

\* A step that writes no access: what its transaction had written is still
\* there, or is gone with it.
WritesNoAccess(r) ==
  /\ OthersKept(r) /\ accesses' = accesses
  /\ \/ tx'[r].accesses = tx[r].accesses
     \/ \A a \in Accesses : tx'[r].accesses[a] = NoWrite

\* An end that commits nothing is one.
LEMMA FinishWritesNothing ==
  ASSUME TypeOK, NEW r \in Requests, Finish(r), accesses' = accesses
  PROVE  WritesNoAccess(r)
<1>1. tx'[r] = Nothing
  BY DEF Finish, TypeOK
<1>2. \A a \in Accesses : tx'[r].accesses[a] = NoWrite
  BY <1>1 DEF Nothing
<1>3. QED
  BY <1>2, FinishPays DEF WritesNoAccess

\* A step that moves the request of r, and of its transaction writes at most
\* the row of the signer or the code.
LEMMA OtherWrites ==
  ASSUME TypeOK, NEW r \in Requests, accesses' = accesses,
         \E q : pc' = [pc EXCEPT ![r] = q],
         request' = request \/ \E l : request' = [request EXCEPT ![r] = l],
         \/ tx' = tx
         \/ tx' = [tx EXCEPT ![r].code = TRUE]
         \/ \E c : tx' = [tx EXCEPT ![r].collaborator = c]
  PROVE  WritesNoAccess(r)
<1>1. OthersKept(r)
  <2>1. ASSUME NEW o \in Requests \ {r} PROVE pc'[o] = pc[o]
    BY DEF TypeOK
  <2>2. ASSUME NEW o \in Requests \ {r} PROVE request'[o] = request[o]
    BY DEF TypeOK
  <2>3. ASSUME NEW o \in Requests \ {r} PROVE tx'[o] = tx[o]
    BY DEF TypeOK
  <2>4. QED
    BY <2>1, <2>2, <2>3 DEF OthersKept
<1>2. tx'[r].accesses = tx[r].accesses
  BY DEF TypeOK, Writes
<1>3. QED
  BY <1>1, <1>2 DEF WritesNoAccess

\* All the steps but four write no access.
LEMMA FewWriteAccesses ==
  ASSUME TypeOK, NEW r \in Requests,
         \/ Verifier(r) \/ Signer(r) \/ Account(r) \/ Writer(r)
         \/ GiveUp(r) \/ AbortDeadlocked(r),
         ~InsertAccess(r), ~ConsumeAccess(r), ~RevokeOpen(r), ~Commit(r)
  PROVE  WritesNoAccess(r)
<1>0. CASE Finish(r) /\ accesses' = accesses
  BY <1>0, FinishWritesNothing
<1>1. CASE ReadInvitation(r) \/ IssueCode(r) \/ FindCode(r) \/ ConsumeCode(r)
  <2>1. CASE ReadInvitation(r)
    BY <2>1, OtherWrites DEF ReadInvitation, Goto
  <2>2. CASE FindCode(r)
    BY <2>2, OtherWrites DEF FindCode, Goto
  <2>3. CASE ConsumeCode(r) /\ ~Rollback(r)
    BY <2>3, OtherWrites DEF ConsumeCode, Goto
  <2>4. QED
    BY <1>0, <1>1, <2>1, <2>2, <2>3 DEF IssueCode, Rollback
<1>2. CASE Signer(r)
  <2>1. CASE FindAccess(r)
    BY <2>1, OtherWrites DEF FindAccess, Goto
  <2>2. CASE ReadDocument(r) \/ ReadSigner(r)
    BY <2>2, OtherWrites DEF ReadDocument, ReadSigner, Goto
  <2>3. CASE ClaimAsGuest(r) /\ ~Rollback(r)
    BY <2>3, OtherWrites DEF ClaimAsGuest, Goto
  <2>4. QED
    BY <1>0, <1>2, <2>1, <2>2, <2>3 DEF Signer, Rollback
<1>3. CASE Account(r)
  <2>1. CASE StartAccount(r)
    BY <2>1, OtherWrites DEF StartAccount, Goto
  <2>2. CASE ClaimLink(r) /\ ~Rollback(r)
    BY <2>2, OtherWrites DEF ClaimLink, Goto
  <2>3. CASE ClaimWithAccount(r) /\ ~Rollback(r)
    <3>1. /\ accesses' = accesses /\ tx' = tx
          /\ \E q : pc' = [pc EXCEPT ![r] = q]
          /\ request' = request \/ \E l : request' = [request EXCEPT ![r] = l]
      BY <2>3 DEF ClaimWithAccount, Goto
    <3>2. QED
      BY <3>1, OtherWrites
  <2>4. CASE CloseDocument(r)
    BY <2>4, OtherWrites DEF CloseDocument, Goto
  <2>5. QED
    BY <1>0, <1>3, <2>1, <2>2, <2>3, <2>4 DEF Account, Rollback
<1>4. CASE Writer(r)
  <2>1. CASE FindOpen(r)
    BY <2>1, OtherWrites DEF FindOpen, Goto
  <2>2. CASE RevokeFails(r)
    BY <2>2, OtherWrites DEF RevokeFails, NextStatement, Goto
  <2>3. CASE AllRevoked(r) /\ ~Finish(r)
    BY <2>3, OtherWrites DEF AllRevoked, Goto
  <2>4. CASE AllRevoked(r) /\ Finish(r)
    BY <1>0, <2>4 DEF AllRevoked
  <2>5. QED
    BY <1>4, <2>1, <2>2, <2>3, <2>4 DEF Writer
<1>5. QED
  BY <1>0, <1>1, <1>2, <1>3, <1>4 DEF Verifier, GiveUp, AbortDeadlocked, Rollback

\* A step of r takes an access only if nobody inserts, or while it is open,
\* nobody else has written it; it opens at most those it had inserted.
Careful(r) ==
  /\ OthersKept(r)
  /\ \A b \in Accesses :
       accesses'[b] = "open" => accesses[b] = "open" \/ tx[r].accesses[b] = "open"
  /\ \A b \in Accesses :
       \/ tx'[r].accesses[b] = NoWrite \/ tx[r].accesses[b] # NoWrite
       \/ accesses[b] = "open" /\ \A o \in Requests \ {r} : tx[o].accesses[b] = NoWrite
       \/ \A p \in Purposes, o \in Requests \ {r} : b \in IdsFor({p}) =>
            \A a \in IdsFor({p}) : tx[o].accesses[a] = NoWrite

\* Such a step disturbs no insertion of another.
LEMMA OthersInsert ==
  ASSUME NEW r \in Requests, Careful(r), NEW o \in Requests \ {r}, Inserts(o)
  PROVE  Inserts(o)'
<1> SUFFICES ASSUME NEW p \in Purposes, NEW a \in IdsFor({p}), NEW b \in IdsFor({p}),
                    a # b, tx'[o].accesses[a] = "open"
             PROVE  /\ Seen(o, b)' # "open"
                    /\ \A q \in Requests \ {o} : tx'[q].accesses[b] = NoWrite
  BY DEF Inserts
<1>1. tx'[o] = tx[o] /\ \A q \in Requests \ {r} : tx'[q] = tx[q]
  BY DEF Careful, OthersKept
<1>2. /\ Seen(o, b) # "open"
      /\ \A q \in Requests \ {o} : tx[q].accesses[b] = NoWrite
  BY <1>1 DEF Inserts
<1>3. a \in Accesses /\ b \in Accesses /\ NoWrite # "open"
  BY IdsPartition, NoWriteAssumption DEF States
<1>4. tx[r].accesses[b] = NoWrite
  BY <1>2
<1>5. accesses[b] = "open" => tx[o].accesses[b] # NoWrite
  BY <1>2 DEF Seen
<1>6. tx[o].accesses[a] # NoWrite
  BY <1>1, <1>3
<1>7. tx'[r].accesses[b] = NoWrite
  BY <1>3, <1>4, <1>5, <1>6 DEF Careful
<1>8. accesses'[b] = "open" => accesses[b] = "open"
  BY <1>3, <1>4 DEF Careful
<1>9. Seen(o, b)' # "open"
  BY <1>1, <1>2, <1>8 DEF Seen
<1>10. \A q \in Requests \ {o} : tx'[q].accesses[b] = NoWrite
  BY <1>1, <1>2, <1>7
<1>11. QED
  BY <1>9, <1>10

\* What a commit publishes leaves one open.
LEMMA OneOpenKept ==
  ASSUME OpenInvariant, NEW r \in Requests,
         \/ \A b \in Accesses : accesses'[b] = "open" => accesses[b] = "open"
         \/ \A b \in Accesses : accesses'[b] = "open" => Seen(r, b) = "open"
  PROVE  OneOpenAccess'
<1> SUFFICES ASSUME NEW p \in Purposes, NEW a \in IdsFor({p}), NEW b \in IdsFor({p}),
                    accesses'[a] = "open", accesses'[b] = "open", a # b
             PROVE  FALSE
  BY DEF OneOpenAccess
<1>1. a \in Accesses /\ b \in Accesses
  BY IdsPartition
<1>2. ~(accesses[a] = "open" /\ accesses[b] = "open")
  BY DEF OpenInvariant, OneOpenAccess
<1>3. Seen(r, a) = "open" /\ Seen(r, b) = "open"
  BY <1>1, <1>2
<1>4. tx[r].accesses[a] = "open" \/ tx[r].accesses[b] = "open"
  BY <1>2, <1>3 DEF Seen
<1>5. QED
  BY <1>3, <1>4 DEF OpenInvariant, Inserts

\* A step that writes no access keeps what is open.
LEMMA QuietOpen ==
  ASSUME OpenInvariant, NEW r \in Requests, WritesNoAccess(r)
  PROVE  OpenInvariant'
<1>1. Careful(r)
  BY DEF Careful, WritesNoAccess
<1>2. \A o \in Requests \ {r} : Inserts(o)'
  BY <1>1, OthersInsert DEF OpenInvariant
<1>3. Inserts(r)'
  <2>1. CASE tx'[r].accesses = tx[r].accesses
    BY <2>1 DEF OpenInvariant, Inserts, WritesNoAccess, OthersKept, Seen
  <2>2. CASE \A a \in Accesses : tx'[r].accesses[a] = NoWrite
    BY <2>2, IdsPartition, NoWriteAssumption DEF Inserts, States
  <2>3. QED
    BY <2>1, <2>2 DEF WritesNoAccess
<1>4. OneOpenAccess'
  BY OneOpenKept DEF WritesNoAccess
<1>5. QED
  BY <1>2, <1>3, <1>4 DEF OpenInvariant

\* An insertion waits for who has written an access of the purpose, and sees
\* none open.
LEMMA InsertOpen ==
  ASSUME ClaimInvariant, OpenInvariant, NEW r \in Requests, InsertAccess(r)
  PROVE  OpenInvariant'
<1> DEFINE q == request[r].purpose
<1>0. TypeOK /\ Owns(r) /\ q \in Purposes
  BY DEF ClaimInvariant, Ownership, TypeOK, Locals
<1>1. CASE Rollback(r)
  BY <1>0, <1>1, FinishWritesNothing, QuietOpen DEF Rollback
<1>2. CASE ~Rollback(r)
  <2>1. PICK c \in IdsFor({q}) : tx' = [tx EXCEPT ![r].accesses[c] = "open"]
    BY <1>2 DEF InsertAccess
  <2>2. /\ pc[r] = "insert" /\ pc' = [pc EXCEPT ![r] = "commit"]
        /\ WaitsFor(r) = {} /\ UNCHANGED <<accesses, request>>
        /\ \A a \in IdsFor({q}) : Seen(r, a) # "open"
    BY <1>2 DEF InsertAccess, Goto
  <2>3. c \in Accesses /\ NoWrite # "open"
    BY <1>0, <2>1, IdsPartition, NoWriteAssumption DEF States
  <2>4. /\ OthersKept(r) /\ tx'[r].accesses[c] = "open"
        /\ \A b \in Accesses \ {c} : tx'[r].accesses[b] = tx[r].accesses[b]
    BY <1>0, <2>1, <2>2, <2>3 DEF OthersKept, TypeOK, Writes
  <2>5. \A o \in Requests \ {r} : \A a \in IdsFor({q}) : tx[o].accesses[a] = NoWrite
    BY <2>2, Granted
  <2>6. \A p \in Purposes : c \in IdsFor({p}) => p = q
    BY <1>0, <2>1, IdsPartition
  <2>7. Careful(r)
    <3>1. ASSUME NEW b \in Accesses, tx'[r].accesses[b] # NoWrite,
                 tx[r].accesses[b] = NoWrite
          PROVE  \A p \in Purposes, o \in Requests \ {r} : b \in IdsFor({p}) =>
                   \A a \in IdsFor({p}) : tx[o].accesses[a] = NoWrite
      <4>1. b = c
        BY <2>4, <3>1
      <4>2. QED
        BY <2>5, <2>6, <4>1
    <3>2. QED
      BY <2>2, <2>4, <3>1 DEF Careful
  <2>8. \A o \in Requests \ {r} : Inserts(o)'
    BY <2>7, OthersInsert DEF OpenInvariant
  <2>9. Inserts(r)'
    <3> SUFFICES ASSUME NEW p \in Purposes, NEW a \in IdsFor({p}), NEW b \in IdsFor({p}),
                        a # b, tx'[r].accesses[a] = "open"
                 PROVE  /\ Seen(r, b)' # "open"
                        /\ \A o \in Requests \ {r} : tx'[o].accesses[b] = NoWrite
      BY DEF Inserts
    <3>1. a \in Accesses /\ b \in Accesses
      BY IdsPartition
    <3>2. \A d \in Accesses : tx[r].accesses[d] # "open"
      BY <1>0, <2>2 DEF Owns, OwnsAccesses
    <3>3. a = c
      BY <2>4, <3>1, <3>2
    <3>4. p = q
      BY <2>6, <3>3
    <3>5. Seen(r, b)' = Seen(r, b)
      BY <2>2, <2>4, <3>1, <3>3 DEF Seen
    <3>6. QED
      BY <2>2, <2>4, <2>5, <3>4, <3>5 DEF OthersKept
  <2>10. OneOpenAccess'
    BY <2>2, OneOpenKept
  <2>11. QED
    BY <2>8, <2>9, <2>10 DEF OpenInvariant
<1>3. QED
  BY <1>1, <1>2

\* A step that only closes open accesses whose locks it has.
LEMMA ClosingOpen ==
  ASSUME TypeOK, OpenInvariant, NEW r \in Requests, OthersKept(r), NEW C \in SUBSET Accesses,
         \A a \in C, o \in Requests \ {r} : tx[o].accesses[a] = NoWrite,
         \A a \in C : accesses[a] = "open",
         \A a \in Accesses \ C :
           tx'[r].accesses[a] = tx[r].accesses[a] /\ accesses'[a] = accesses[a],
         \A a \in Accesses : tx'[r].accesses[a] # "open"
  PROVE  OpenInvariant'
<1>1. Careful(r)
  BY DEF Careful
<1>2. \A o \in Requests \ {r} : Inserts(o)'
  BY <1>1, OthersInsert DEF OpenInvariant
<1>3. Inserts(r)'
  BY IdsPartition DEF Inserts
<1>4. OneOpenAccess'
  BY OneOpenKept
<1>5. QED
  BY <1>2, <1>3, <1>4 DEF OpenInvariant

\* The access of the signature is consumed while it is open.
LEMMA ConsumeOpen ==
  ASSUME ClaimInvariant, OpenInvariant, NEW r \in Requests, ConsumeAccess(r)
  PROVE  OpenInvariant'
<1> DEFINE c == request[r].token
<1>0. TypeOK /\ Owns(r) /\ c \in Accesses
  BY DEF ClaimInvariant, Ownership, TypeOK, Locals
<1>1. CASE Rollback(r)
  BY <1>0, <1>1, FinishWritesNothing, QuietOpen DEF Rollback
<1>2. CASE ~Rollback(r)
  <2>1. /\ pc[r] = "consume" /\ pc' = [pc EXCEPT ![r] = "claim"]
        /\ WaitsFor(r) = {} /\ UNCHANGED <<accesses, request>>
        /\ tx' = [tx EXCEPT ![r].accesses[c] = "consumed"] /\ accesses[c] = "open"
    BY <1>2 DEF ConsumeAccess, Goto
  <2>2. /\ OthersKept(r) /\ tx'[r].accesses[c] = "consumed"
        /\ \A b \in Accesses \ {c} : tx'[r].accesses[b] = tx[r].accesses[b]
    BY <1>0, <2>1 DEF OthersKept, TypeOK, Writes
  <2>3. \A o \in Requests \ {r} : tx[o].accesses[c] = NoWrite
    BY <2>1, Granted
  <2>4. \A a \in Accesses : tx[r].accesses[a] # "open"
    BY <1>0, <2>1 DEF Owns, OwnsAccesses
  <2>5. {c} \in SUBSET Accesses /\ \A a \in Accesses : tx'[r].accesses[a] # "open"
    BY <1>0, <2>2, <2>4
  <2>6. QED
    BY <1>0, <2>1, <2>2, <2>3, <2>5, ClosingOpen
<1>3. QED
  BY <1>1, <1>2

\* So is what is revoked.
LEMMA RevokeCloses ==
  ASSUME ClaimInvariant, OpenInvariant, NEW r \in Requests, RevokeOpen(r)
  PROVE  /\ OpenInvariant'
         /\ \A a \in Accesses : accesses'[a] = accesses[a] \/ accesses[a] = "open"
<1> DEFINE open == {a \in request[r].found : Seen(r, a) = "open"}
<1>0. TypeOK /\ Owns(r) /\ open \in SUBSET Accesses
  BY DEF ClaimInvariant, Ownership, TypeOK, Locals
<1>1. /\ pc[r] = "revoke" /\ pc' = [pc EXCEPT ![r] = "find"] /\ WaitsFor(r) = {}
      /\ request' = [request EXCEPT ![r].todo = Tail(@), ![r].found = {}]
  BY DEF RevokeOpen, NextStatement, Goto
<1>2. \A o \in Requests \ {r} : pc'[o] = pc[o] /\ request'[o] = request[o]
  BY <1>0, <1>1 DEF TypeOK
<1>3. \A a \in Accesses : tx[r].accesses[a] # "open"
  BY <1>0, <1>1 DEF Owns, OwnsAccesses
<1>4. \A a \in open : accesses[a] = "open"
  BY <1>0, <1>3 DEF Seen
<1>5. \A a \in open, o \in Requests \ {r} : tx[o].accesses[a] = NoWrite
  BY <1>1, Granted
<1>6. /\ \A o \in Requests \ {r} : tx'[o] = tx[o]
      /\ \A a \in Accesses \ open :
           tx'[r].accesses[a] = tx[r].accesses[a] /\ accesses'[a] = accesses[a]
      /\ \A a \in Accesses : tx'[r].accesses[a] # "open"
  <2>1. CASE request[r].kind \in Transactional
    <3>1. /\ tx' = [tx EXCEPT ![r].accesses =
                       [a \in Accesses |-> IF a \in open THEN "revoked" ELSE @[a]]]
          /\ accesses' = accesses
      BY <2>1 DEF RevokeOpen
    <3>2. /\ tx'[r].accesses = [a \in Accesses |-> IF a \in open THEN "revoked"
                                                   ELSE tx[r].accesses[a]]
          /\ \A o \in Requests \ {r} : tx'[o] = tx[o]
      BY <1>0, <3>1 DEF TypeOK, Writes
    <3>3. QED
      BY <1>3, <3>1, <3>2
  <2>2. CASE request[r].kind \notin Transactional
    <3>1. /\ accesses' = [a \in Accesses |-> IF a \in open THEN "revoked"
                                             ELSE accesses[a]]
          /\ tx' = tx
      BY <2>2 DEF RevokeOpen
    <3>2. QED
      BY <1>3, <3>1
  <2>3. QED
    BY <2>1, <2>2
<1>7. OthersKept(r)
  BY <1>2, <1>6 DEF OthersKept
<1>8. QED
  BY <1>0, <1>4, <1>5, <1>6, <1>7, ClosingOpen

\* A commit publishes the access inserted, which is then the only one open.
LEMMA CommitOpen ==
  ASSUME ClaimInvariant, OpenInvariant, NEW r \in Requests, Commit(r)
  PROVE  /\ OpenInvariant'
         /\ \A a \in Accesses : accesses[a] \in {"consumed", "revoked"} =>
              accesses'[a] = accesses[a]
<1>0. TypeOK /\ Owns(r)
  BY DEF ClaimInvariant, Ownership
<1>1. Finish(r) /\ accesses' = [a \in Accesses |-> Seen(r, a)]
  BY DEF Commit
<1>2. OthersKept(r) /\ tx'[r] = Nothing
  BY <1>0, <1>1, FinishPays DEF Finish, TypeOK
<1>3. NoWrite # "open" /\ \A a \in Accesses : tx'[r].accesses[a] = NoWrite
  BY <1>2, NoWriteAssumption DEF Nothing, States
<1>4. \A a \in Accesses : accesses'[a] = "open" =>
        accesses[a] = "open" \/ tx[r].accesses[a] = "open"
  BY <1>1 DEF Seen
<1>5. Careful(r)
  BY <1>2, <1>3, <1>4 DEF Careful
<1>6. \A o \in Requests \ {r} : Inserts(o)'
  BY <1>5, OthersInsert DEF OpenInvariant
<1>7. Inserts(r)'
  BY <1>3, IdsPartition DEF Inserts
<1>8. OneOpenAccess'
  BY <1>1, OneOpenKept
<1>9. ASSUME NEW a \in Accesses, accesses[a] \in {"consumed", "revoked"}
      PROVE  accesses'[a] = accesses[a]
  <2>1. tx[r].accesses[a] \in States \cup {NoWrite}
    BY <1>0 DEF TypeOK, Writes
  <2>2. tx[r].accesses[a] \notin States
    BY <1>0, <1>9 DEF Owns, OwnsAccesses, States
  <2>3. QED
    BY <1>1, <2>1, <2>2 DEF Seen
<1>10. QED
  BY <1>6, <1>7, <1>8, <1>9 DEF OpenInvariant

\* What no step may undo: an access consumed or revoked stays so.
StaysClosed == \A a \in Accesses :
  accesses[a] \in {"consumed", "revoked"} => accesses'[a] = accesses[a]

\* Every step keeps what is open, and leaves closed what is closed.
LEMMA OpenStep ==
  ClaimInvariant /\ OpenInvariant /\ [Next]_vars => OpenInvariant' /\ StaysClosed
<1> SUFFICES ASSUME ClaimInvariant, OpenInvariant, [Next]_vars
             PROVE  OpenInvariant' /\ StaysClosed
  OBVIOUS
<1>1. ASSUME NEW r \in Requests,
             \/ Verifier(r) \/ Signer(r) \/ Account(r) \/ Writer(r)
             \/ GiveUp(r) \/ AbortDeadlocked(r)
      PROVE  OpenInvariant' /\ StaysClosed
  <2>1. CASE InsertAccess(r)
    BY <2>1, InsertOpen DEF InsertAccess, Rollback, StaysClosed
  <2>2. CASE ConsumeAccess(r)
    BY <2>2, ConsumeOpen DEF ConsumeAccess, Rollback, StaysClosed
  <2>3. CASE RevokeOpen(r)
    BY <2>3, RevokeCloses DEF StaysClosed
  <2>4. CASE Commit(r)
    BY <2>4, CommitOpen DEF StaysClosed
  <2>5. CASE ~InsertAccess(r) /\ ~ConsumeAccess(r) /\ ~RevokeOpen(r) /\ ~Commit(r)
    BY <1>1, <2>5, FewWriteAccesses, QuietOpen
       DEF ClaimInvariant, WritesNoAccess, StaysClosed
  <2>6. QED
    BY <2>1, <2>2, <2>3, <2>4, <2>5
<1>2. CASE Expire \/ UNCHANGED vars
  BY <1>2 DEF Expire, vars, control, OpenInvariant, Inserts, Seen, OneOpenAccess,
     StaysClosed
<1>3. QED
  BY <1>1, <1>2 DEF Next

\* At first no access is open.
LEMMA OpenInit == Init => OpenInvariant
<1> SUFFICES ASSUME Init PROVE OpenInvariant
  OBVIOUS
<1>1. \A r \in Requests : \A a \in Accesses : tx[r].accesses[a] = NoWrite
  BY DEF Init, Nothing
<1>2. NoWrite # "open" /\ \A a \in Accesses : accesses[a] = "none"
  BY NoWriteAssumption DEF Init, States
<1>3. QED
  BY <1>1, <1>2, IdsPartition DEF OpenInvariant, Inserts, OneOpenAccess

\* What is open is an invariant, with the claims it relies on.
LEMMA OpenIsKept == Spec => [](ClaimInvariant /\ OpenInvariant)
<1>1. ClaimInvariant /\ OpenInvariant /\ [Next]_vars => OpenInvariant'
  BY OpenStep
<1>2. QED
  BY <1>1, OpenInit, ClaimsAreWhole, PTL DEF Spec

\* At most one access of each purpose is open: of two verifications that have
\* both revoked the open ones, the second insertion is refused.
THEOREM OneOpenAtATime == Spec => []OneOpenAccess
<1>1. OpenInvariant => OneOpenAccess
  BY DEF OpenInvariant
<1>2. QED
  BY <1>1, OpenIsKept, PTL

\* The access that signed stays consumed, and a revoked one is never used again,
\* whoever commits in between.
THEOREM ClosedForGood == Spec => AccessesStayClosed
<1>1. ClaimInvariant /\ OpenInvariant /\ [Next]_vars => [StaysClosed]_accesses
  BY OpenStep
<1>2. QED
  BY <1>1, OpenIsKept, PTL DEF Spec, AccessesStayClosed, StaysClosed
=============================================================================
