---------------------------- MODULE GuestSigning ----------------------------
(***************************************************************************)
(* The temporary accesses with which ONE signer invited by e-mail, without *)
(* account, signs with his e.firma: the codes that pay for them, the       *)
(* accesses (guest token and public session), the link of his account, and *)
(* the claim that either the access or the account makes.                  *)
(*                                                                         *)
(* A request is a process and PostgreSQL runs it under READ COMMITTED: a   *)
(* transaction writes into tx[r], which nobody else sees before Commit;    *)
(* the rows it wrote stay locked; an UPDATE first finds its rows, waits    *)
(* for their locks, and tests its condition again on each of them.         *)
(*                                                                         *)
(*   collaborator   his row: status, accountId IS NOT NULL, authorization  *)
(*   pending        the document is PENDING_SIGNATURE                      *)
(*   codes          is_used of the codes sent to him, per purpose          *)
(*   accesses       rows of guest_signing_accesses                         *)
(*   expired        accesses whose expires_at has passed                   *)
(*   pc, request    control and locals of each request                     *)
(*   tx             what its transaction wrote and has not committed       *)
(***************************************************************************)
EXTENDS Integers, Sequences, FiniteSets

CONSTANTS Requests,   \* requests that may be in flight
          Guest,      \* ids a GUEST_ADVANCED_SIGNATURE_ACCESS row may take
          Public,     \* ids a PUBLIC_SIGNING_SESSION row may take
          MaxCodes,   \* bound on the codes sent per purpose
          Faults,     \* "revoke", "crash"
          NoWrite     \* a row the transaction has not written

ASSUME AccessesAssumption == Guest # {} /\ Guest \cap Public = {}
ASSUME CodesAssumption == MaxCodes \in Nat

VARIABLES collaborator, pending, codes, accesses, expired, pc, request, tx

control == <<pc, request>>
vars == <<collaborator, pending, codes, accesses, expired, control, tx>>

Accesses == Guest \cup Public
States   == {"none", "open", "consumed", "revoked"}
Purposes == {"GUEST", "PUBLIC"}
IdsFor(purposes) == (IF "GUEST" \in purposes THEN Guest ELSE {})
                    \cup (IF "PUBLIC" \in purposes THEN Public ELSE {})

Row == [status : {"PENDING", "SIGNED", "REJECTED"}, linked : BOOLEAN,
        authorization : {"none", "GUEST_EMAIL_OTP", "ACCOUNT_SESSION"}]

ASSUME NoWriteAssumption == NoWrite \notin States /\ NoWrite \notin Row

\* What a request is for: a code, an access, a signature with an access, the
\* link of the account, a signature or rejection with it; "peer" is another
\* signer's rejection.
Kinds == {"code", "verify", "guest", "link", "account", "reject", "peer"}
Transactional == {"verify", "guest", "link"}

Locals == [kind : Kinds, purpose : Purposes, code : Nat, token : Accesses,
           todo : Seq(SUBSET Purposes), found : SUBSET Accesses]
Writes == [collaborator : Row \cup {NoWrite}, code : BOOLEAN,
           accesses : [Accesses -> States \cup {NoWrite}]]
Points == {"idle", "invited", "consume_code", "insert", "found", "read",
           "consume", "claim", "close", "find", "revoke", "commit"}

NoRequest == [kind |-> "code", purpose |-> "GUEST", code |-> 0,
              token |-> CHOOSE a \in Guest : TRUE, todo |-> << >>, found |-> {}]
Nothing == [collaborator |-> NoWrite, code |-> FALSE,
            accesses |-> [a \in Accesses |-> NoWrite]]

Init ==
  /\ collaborator = [status |-> "PENDING", linked |-> FALSE,
                     authorization |-> "none"]
  /\ pending = TRUE
  /\ codes = [p \in Purposes |-> << >>]
  /\ accesses = [a \in Accesses |-> "none"]
  /\ expired = {}
  /\ pc = [r \in Requests |-> "idle"]
  /\ request = [r \in Requests |-> NoRequest]
  /\ tx = [r \in Requests |-> Nothing]

-----------------------------------------------------------------------------
(* Locks and visibility. *)

Invited == collaborator.status = "PENDING" /\ ~collaborator.linked

\* The row of an access as a statement of r sees it.
Seen(r, a) == IF tx[r].accesses[a] = NoWrite THEN accesses[a]
              ELSE tx[r].accesses[a]

Holds(o, ids) == \E a \in ids : tx[o].accesses[a] # NoWrite

\* The requests whose locks the next statement of r needs.  The unique index
\* UQ_guest_signing_accesses_open makes an INSERT wait for every transaction
\* that is changing an access of the same purpose.
WaitsFor(r) ==
  {o \in Requests \ {r} :
     CASE pc[r] = "consume_code" -> /\ tx[o].code
                                    /\ request[o].purpose = request[r].purpose
                                    /\ request[o].code = request[r].code
       [] pc[r] = "consume"      -> Holds(o, {request[r].token})
       [] pc[r] = "claim"        -> tx[o].collaborator # NoWrite
       [] pc[r] = "revoke"       -> Holds(o, request[r].found)
       [] pc[r] = "insert"       -> Holds(o, IdsFor({request[r].purpose}))
       [] OTHER                  -> FALSE}

\* A set of requests in which everyone waits for one of the others.
Circle(S) == /\ S # {}
             /\ \A r \in S : WaitsFor(r) \cap S # {}
             /\ \A r \in S : \E o \in S : r \in WaitsFor(o)

Goto(r, next) == pc' = [pc EXCEPT ![r] = next]

\* The request is over; what its transaction had written is gone.
Finish(r) == /\ Goto(r, "idle")
             /\ request' = [request EXCEPT ![r] = NoRequest]
             /\ tx' = [tx EXCEPT ![r] = Nothing]

\* ROLLBACK: the handler throws inside its transaction.
Rollback(r) == /\ Finish(r)
               /\ UNCHANGED <<collaborator, pending, codes, accesses, expired>>

-----------------------------------------------------------------------------
(* Codes and accesses: requestCode and verifyCode, of the guest and of the *)
(* public invitation.                                                      *)

\* resolveGuestSigner and assertCanRequestAccess; assertActive.
ReadInvitation(r) ==
  /\ pc[r] = "idle" /\ Invited /\ pending
  /\ \E k \in {"code", "verify"}, p \in Purposes :
       request' = [request EXCEPT ![r].kind = k, ![r].purpose = p]
  /\ Goto(r, "invited")
  /\ UNCHANGED <<collaborator, pending, codes, accesses, expired, tx>>

\* VerificationCodeService.issue.
IssueCode(r) ==
  /\ pc[r] = "invited" /\ request[r].kind = "code"
  /\ LET p == request[r].purpose
     IN  /\ Len(codes[p]) < MaxCodes
         /\ codes' = [codes EXCEPT ![p] = Append(@, FALSE)]
  /\ Finish(r)
  /\ UNCHANGED <<collaborator, pending, accesses, expired>>

\* verifyAndConsume: the last code not used, which has to be the one submitted
\* and not to have expired.
FindCode(r) ==
  /\ pc[r] = "invited" /\ request[r].kind = "verify"
  /\ LET sent   == codes[request[r].purpose]
         unused == {i \in DOMAIN sent : ~sent[i]}
     IN  \E i \in unused :
           /\ \A j \in unused : j <= i
           /\ request' = [request EXCEPT ![r].code = i]
  /\ Goto(r, "consume_code")
  /\ UNCHANGED <<collaborator, pending, codes, accesses, expired, tx>>

\* Mutant: the code is marked as used without asking whether it still was not.
MutConsumeCodeBlindly(r) ==
  /\ pc[r] = "consume_code" /\ WaitsFor(r) = {}
  /\ tx' = [tx EXCEPT ![r].code = TRUE]
  /\ request' = [request EXCEPT ![r].todo = <<{request[r].purpose}>>]
  /\ Goto(r, "find")
  /\ UNCHANGED <<collaborator, pending, codes, accesses, expired>>

\* ... and its UPDATE conditioned to is_used = false.
ConsumeCode(r) ==
  /\ pc[r] = "consume_code" /\ WaitsFor(r) = {}
  /\ IF codes[request[r].purpose][request[r].code]
     THEN Rollback(r)
     ELSE /\ tx' = [tx EXCEPT ![r].code = TRUE]
          /\ request' = [request EXCEPT ![r].todo = <<{request[r].purpose}>>]
          /\ Goto(r, "find")
          /\ UNCHANGED <<collaborator, pending, codes, accesses, expired>>

\* GuestSigningAccessService.issue: the INSERT, refused with 23505 when another
\* access of the purpose is open.
InsertAccess(r) ==
  /\ pc[r] = "insert" /\ WaitsFor(r) = {}
  /\ LET ids == IdsFor({request[r].purpose})
     IN  IF \E a \in ids : Seen(r, a) = "open"
         THEN Rollback(r)
         ELSE /\ \E a \in ids :
                   /\ accesses[a] = "none"
                   /\ tx' = [tx EXCEPT ![r].accesses[a] = "open"]
              /\ Goto(r, "commit")
              /\ UNCHANGED <<collaborator, pending, codes, accesses, expired, request>>

Verifier(r) == \/ ReadInvitation(r) \/ IssueCode(r) \/ FindCode(r)
               \/ ConsumeCode(r) \/ InsertAccess(r)

-----------------------------------------------------------------------------
(* Signing with an access: executeGuestAdvanced, and sign with a public     *)
(* session.                                                                *)

\* findActive.  The guard of the public session also lets a consumed access
\* through; sign then finds the signer not PENDING and changes nothing.
FindAccess(r) ==
  /\ pc[r] = "idle"
  /\ \E a \in Accesses :
       /\ accesses[a] = "open" /\ a \notin expired
       /\ request' = [request EXCEPT ![r].kind = "guest", ![r].token = a]
  /\ Goto(r, "found")
  /\ UNCHANGED <<collaborator, pending, codes, accesses, expired, tx>>

\* assertPendingSignature.
ReadDocument(r) ==
  /\ pc[r] = "found" /\ pending
  /\ Goto(r, "read")
  /\ UNCHANGED <<collaborator, pending, codes, accesses, expired, request, tx>>

\* The signer has no account yet and has not answered.
ReadSigner(r) ==
  /\ pc[r] = "read" /\ Invited
  /\ Goto(r, "consume")
  /\ UNCHANGED <<collaborator, pending, codes, accesses, expired, request, tx>>

\* claimWithGuestAccess: consume.
ConsumeAccess(r) ==
  /\ pc[r] = "consume" /\ WaitsFor(r) = {}
  /\ LET a == request[r].token
     IN  IF accesses[a] # "open" \/ a \in expired
         THEN Rollback(r)
         ELSE /\ tx' = [tx EXCEPT ![r].accesses[a] = "consumed"]
              /\ Goto(r, "claim")
              /\ UNCHANGED <<collaborator, pending, codes, accesses, expired, request>>

\* Mutants: the claim does not ask that the signer still has no account; the
\* transaction of a lost claim is committed.
MutClaimWhateverAccount(r) ==
  /\ pc[r] = "claim" /\ request[r].kind = "guest" /\ WaitsFor(r) = {}
  /\ collaborator.status = "PENDING"
  /\ tx' = [tx EXCEPT ![r].collaborator =
              [collaborator EXCEPT !.status = "SIGNED",
                                   !.authorization = "GUEST_EMAIL_OTP"]]
  /\ request' = [request EXCEPT ![r].todo = <<{"GUEST"}, {"PUBLIC"}>>]
  /\ Goto(r, "find")
  /\ UNCHANGED <<collaborator, pending, codes, accesses, expired>>
MutClaimWithoutRollback(r) ==
  /\ pc[r] = "claim" /\ request[r].kind = "guest" /\ WaitsFor(r) = {}
  /\ IF ~Invited
     THEN Goto(r, "commit") /\ UNCHANGED <<request, tx>>
     ELSE /\ tx' = [tx EXCEPT ![r].collaborator =
                      [collaborator EXCEPT !.status = "SIGNED",
                                           !.authorization = "GUEST_EMAIL_OTP"]]
          /\ request' = [request EXCEPT ![r].todo = <<{"GUEST"}, {"PUBLIC"}>>]
          /\ Goto(r, "find")
  /\ UNCHANGED <<collaborator, pending, codes, accesses, expired>>

\* ... the UPDATE of the signer, conditioned to PENDING and to no account.
ClaimAsGuest(r) ==
  /\ pc[r] = "claim" /\ request[r].kind = "guest" /\ WaitsFor(r) = {}
  /\ IF ~Invited
     THEN Rollback(r)
     ELSE /\ tx' = [tx EXCEPT ![r].collaborator =
                      [collaborator EXCEPT !.status = "SIGNED",
                                           !.authorization = "GUEST_EMAIL_OTP"]]
          /\ request' = [request EXCEPT ![r].todo = <<{"GUEST"}, {"PUBLIC"}>>]
          /\ Goto(r, "find")
          /\ UNCHANGED <<collaborator, pending, codes, accesses, expired>>

Signer(r) == \/ FindAccess(r) \/ ReadDocument(r) \/ ReadSigner(r)
             \/ ConsumeAccess(r) \/ ClaimAsGuest(r)

-----------------------------------------------------------------------------
(* The account: link, signature and rejection. *)

\* linkPendingCollaboratorAccount and linkInvitation find him PENDING without
\* account; sign and reject find the account linked.  A peer needs neither.
StartAccount(r) ==
  /\ pc[r] = "idle"
  /\ \E k \in {"link", "account", "reject", "peer"} :
       /\ k = "link" => Invited
       /\ k \in {"account", "reject"} =>
            pending /\ collaborator.linked /\ collaborator.status = "PENDING"
       /\ k = "peer" => pending
       /\ request' = [request EXCEPT ![r].kind = k]
       /\ Goto(r, IF k = "peer" THEN "close" ELSE "claim")
  /\ UNCHANGED <<collaborator, pending, codes, accesses, expired, tx>>

\* The UPDATE of the link, conditioned to PENDING and to no account.
ClaimLink(r) ==
  /\ pc[r] = "claim" /\ request[r].kind = "link" /\ WaitsFor(r) = {}
  /\ IF ~Invited
     THEN Rollback(r)
     ELSE /\ tx' = [tx EXCEPT ![r].collaborator =
                      [collaborator EXCEPT !.linked = TRUE]]
          /\ request' = [request EXCEPT ![r].todo = <<{"GUEST"}>>]
          /\ Goto(r, "find")
          /\ UNCHANGED <<collaborator, pending, codes, accesses, expired>>

\* The claim of completeSignature or of RejectDocumentUseCase, a statement of
\* its own conditioned to PENDING.
ClaimWithAccount(r) ==
  /\ pc[r] = "claim" /\ request[r].kind \in {"account", "reject"}
  /\ WaitsFor(r) = {}
  /\ IF collaborator.status # "PENDING"
     THEN Rollback(r)
     ELSE /\ IF request[r].kind = "account"
             THEN /\ collaborator' =
                       [collaborator EXCEPT !.status = "SIGNED",
                                            !.authorization = "ACCOUNT_SESSION"]
                  /\ request' = [request EXCEPT ![r].todo = <<{"GUEST"}, {"PUBLIC"}>>]
                  /\ Goto(r, "find")
             ELSE /\ collaborator' = [collaborator EXCEPT !.status = "REJECTED"]
                  /\ Goto(r, "close")
                  /\ UNCHANGED request
          /\ UNCHANGED <<pending, codes, accesses, expired, tx>>

\* The rejected document is saved; revokeOpenForDocument follows.
CloseDocument(r) ==
  /\ pc[r] = "close"
  /\ pending' = FALSE
  /\ request' = [request EXCEPT ![r].todo = <<Purposes>>]
  /\ Goto(r, "find")
  /\ UNCHANGED <<collaborator, codes, accesses, expired, tx>>

Account(r) == \/ StartAccount(r) \/ ClaimLink(r) \/ ClaimWithAccount(r)
              \/ CloseDocument(r)

-----------------------------------------------------------------------------
(* Revoking the open accesses, in the transaction of the caller or as a     *)
(* statement of its own.                                                   *)

\* The rows the UPDATE finds when it starts.
FindOpen(r) ==
  /\ pc[r] = "find" /\ request[r].todo # << >>
  /\ request' = [request EXCEPT ![r].found =
                   {a \in IdsFor(Head(request[r].todo)) : Seen(r, a) = "open"}]
  /\ Goto(r, "revoke")
  /\ UNCHANGED <<collaborator, pending, codes, accesses, expired, tx>>

NextStatement(r) ==
  /\ request' = [request EXCEPT ![r].todo = Tail(@), ![r].found = {}]
  /\ Goto(r, "find")

\* The UPDATE has the locks it needs: what is still open is revoked.
RevokeOpen(r) ==
  /\ pc[r] = "revoke" /\ WaitsFor(r) = {}
  /\ LET open == {a \in request[r].found : Seen(r, a) = "open"}
     IN  IF request[r].kind \in Transactional
         THEN /\ tx' = [tx EXCEPT ![r].accesses =
                          [a \in Accesses |-> IF a \in open THEN "revoked" ELSE @[a]]]
              /\ UNCHANGED accesses
         ELSE /\ accesses' = [a \in Accesses |-> IF a \in open THEN "revoked"
                                                 ELSE accesses[a]]
              /\ UNCHANGED tx
  /\ NextStatement(r)
  /\ UNCHANGED <<collaborator, pending, codes, expired>>

\* revokeGuestAccessesQuietly, and the catch of RejectDocumentUseCase.
RevokeFails(r) ==
  /\ "revoke" \in Faults
  /\ pc[r] = "revoke" /\ request[r].kind \notin Transactional
  /\ NextStatement(r)
  /\ UNCHANGED <<collaborator, pending, codes, accesses, expired, tx>>

AllRevoked(r) ==
  /\ pc[r] = "find" /\ request[r].todo = << >>
  /\ IF request[r].kind \in Transactional
     THEN /\ Goto(r, IF request[r].kind = "verify" THEN "insert" ELSE "commit")
          /\ UNCHANGED <<request, tx>>
     ELSE Finish(r)
  /\ UNCHANGED <<collaborator, pending, codes, accesses, expired>>

Commit(r) ==
  /\ pc[r] = "commit"
  /\ collaborator' = IF tx[r].collaborator = NoWrite THEN collaborator
                     ELSE tx[r].collaborator
  /\ accesses' = [a \in Accesses |-> Seen(r, a)]
  /\ codes' = IF tx[r].code
              THEN [codes EXCEPT ![request[r].purpose][request[r].code] = TRUE]
              ELSE codes
  /\ Finish(r)
  /\ UNCHANGED <<pending, expired>>

Writer(r) == \/ FindOpen(r) \/ RevokeOpen(r) \/ RevokeFails(r)
             \/ AllRevoked(r) \/ Commit(r)

-----------------------------------------------------------------------------
\* The client is answered with an error (a check failed, the code was wrong,
\* the bound was reached) before anything is written; or the process dies.
GiveUp(r) ==
  /\ \/ pc[r] \in {"invited", "found", "read", "consume"}
     \/ pc[r] # "idle" /\ "crash" \in Faults
  /\ Rollback(r)

\* deadlock_timeout: PostgreSQL aborts one transaction of the circle.
AbortDeadlocked(r) ==
  /\ \E S \in SUBSET Requests : r \in S /\ Circle(S)
  /\ Rollback(r)

\* expires_at passes.
Expire ==
  /\ \E a \in Accesses \ expired :
       accesses[a] = "open" /\ expired' = expired \cup {a}
  /\ UNCHANGED <<collaborator, pending, codes, accesses, control, tx>>

Next == \/ \E r \in Requests : \/ Verifier(r) \/ Signer(r) \/ Account(r)
                               \/ Writer(r) \/ GiveUp(r) \/ AbortDeadlocked(r)
        \/ Expire

Spec == Init /\ [][Next]_vars

-----------------------------------------------------------------------------
(* Properties. *)

\* Every variable has its type.
TypeOK ==
  /\ collaborator \in Row /\ pending \in BOOLEAN
  /\ codes \in [Purposes -> Seq(BOOLEAN)]
  /\ accesses \in [Accesses -> States] /\ expired \subseteq Accesses
  /\ pc \in [Requests -> Points]
  /\ request \in [Requests -> Locals]
  /\ tx \in [Requests -> Writes]

Consumed == {a \in Accesses : accesses[a] = "consumed"}

\* An access is consumed when, and only when, the signature it was issued for
\* was registered with it: whatever links, signs or rejects at the same time,
\* a lost claim leaves its access as it was, and no two accesses sign.
ConsumedBySigning ==
  IF collaborator.authorization = "GUEST_EMAIL_OTP"
  THEN \E a \in Accesses : Consumed = {a}
  ELSE Consumed = {}

\* The evidence of how he signed agrees with who he was when he signed: one
\* with an account never signed as a guest, one without never with an account,
\* and who has not signed has no evidence.
SignedAsHimself ==
  /\ collaborator.authorization = "GUEST_EMAIL_OTP" => ~collaborator.linked
  /\ collaborator.authorization = "ACCOUNT_SESSION" => collaborator.linked
  /\ collaborator.authorization # "none" <=> collaborator.status = "SIGNED"

\* At most one access of each purpose is open, although two verifications may
\* each have revoked the open ones before either inserts its own.
OneOpenAccess ==
  \A p \in Purposes : \A a, b \in IdsFor({p}) :
    accesses[a] = "open" /\ accesses[b] = "open" => a = b

\* Every access ever issued was paid with a code of its own, even when one code
\* is submitted twice at once.
AccessesArePaid ==
  \A p \in Purposes :
    Cardinality({a \in IdsFor({p}) : accesses[a] # "none"})
      <= Cardinality({i \in DOMAIN codes[p] : codes[p][i]})

\* The access that signed stays so (the retry of the signature is answered
\* with it), and a revoked one is never used again.
AccessesStayClosed ==
  [][\A a \in Accesses :
       accesses[a] \in {"consumed", "revoked"} => accesses'[a] = accesses[a]]_accesses

-----------------------------------------------------------------------------
(* What the documentation says and the code does not keep. *)

\* No transaction waits in a circle: a claim or a link that loses is
\* told so by the condition of its UPDATE, and nobody is aborted by PostgreSQL.
NobodyIsAborted == \A S \in SUBSET Requests : ~Circle(S)
=============================================================================
