-------------------------- MODULE DocumentCreation --------------------------
(***************************************************************************)
(* The creation of a document, its Idempotency-Key and its price: one      *)
(* request of the integration API reserves a key in PostgreSQL, creates    *)
(* the document and spends a credit in one transaction, and completes the  *)
(* key in it.  A request of the web application does the same without key. *)
(*                                                                         *)
(*   key, content   Idempotency-Key and fingerprint of each request        *)
(*   rows           table integration_idempotency_keys                     *)
(*   documents      the committed documents, named by the try that made    *)
(*                  them; receipts: document_credit_consumptions           *)
(*   issued, remaining, lapsed   table credit_lots: a lot not issued yet   *)
(*                  has 0; lapsed are those past expires_at                *)
(*   pc, try, found   control of a request, how often the client has sent  *)
(*                  it, and the expired row it has found in its way        *)
(*   attempts       rounds of the loop of reserve()                        *)
(*   completing, held   what its open transaction has written: its key,    *)
(*                  and the lot it took a credit from                      *)
(*   listed, present   lots still to try, and (history) the lots there     *)
(*                  were when it listed them                               *)
(*   answer, result   what the client is told                              *)
(*   forgotten      completed keys deleted after their retention (history) *)
(*   failures       failures so far, at most MaxFailures                   *)
(***************************************************************************)
EXTENDS Integers, FiniteSets, FiniteSetsExt

CONSTANTS Requests, Keys, NoKey, Contents,
          Lots,         \* numbered in the order in which spendOneCredit tries them
          LotSize,      \* credits of a lot
          MaxTries,     \* times a client sends its request
          MaxFailures,  \* failures and deaths of the server
          MaxLapses     \* leases and retentions that run out

ASSUME KeyAssumption == NoKey \notin Keys /\ Contents # {}
ASSUME LotAssumption == Lots \subseteq Nat /\ LotSize \in Nat \ {0}
ASSUME BoundAssumption == MaxTries \in Nat \ {0} /\ MaxFailures \in Nat /\ MaxLapses \in Nat

VARIABLES key, content, rows, documents, receipts, issued, remaining, lapsed,
          pc, try, found, attempts, completing, held, listed, present,
          answer, result, forgotten, failures, lapses

request == <<key, content>>
lots    == <<issued, remaining, lapsed>>
search  == <<listed, present>>
reply   == <<answer, result>>
bounds  == <<failures, lapses>>
vars == <<request, rows, documents, receipts, lots, pc, try, found, attempts,
          completing, held, search, reply, forgotten, bounds>>

\* A try names its reservation (the uuid of the row) and its document.
Tries == Requests \X (1..MaxTries)
Me(r) == <<r, try[r]>>
NoTry == <<NoKey, 0>>
NoLot == -1
NoRow == [status |-> "none", owner |-> NoTry, content |-> CHOOSE c \in Contents : TRUE,
          expired |-> FALSE]
Row == [status : {"none", "PROCESSING", "COMPLETED"}, owner : Tries \cup {NoTry},
        content : Contents, expired : BOOLEAN]

Init ==
  /\ key \in [Requests -> Keys \cup {NoKey}] /\ content \in [Requests -> Contents]
  /\ \A r \in Requests : key[r] = NoKey => content[r] = NoRow.content  \* irrelevant
  /\ rows = [k \in Keys |-> NoRow]
  /\ documents = {} /\ receipts = {}
  /\ issued = [l \in Lots |-> 0] /\ remaining = [l \in Lots |-> 0] /\ lapsed = {}
  /\ pc = [r \in Requests |-> "idle"] /\ try = [r \in Requests |-> 0]
  /\ found = [r \in Requests |-> NoTry] /\ attempts = [r \in Requests |-> 0]
  /\ completing = [r \in Requests |-> FALSE] /\ held = [r \in Requests |-> NoLot]
  /\ listed = [r \in Requests |-> {}] /\ present = [r \in Requests |-> {}]
  /\ answer = [r \in Requests |-> "none"] /\ result = [r \in Requests |-> NoTry]
  /\ forgotten = [k \in Keys |-> 0] /\ failures = 0 /\ lapses = 0

Goto(r, p) == pc' = [pc EXCEPT ![r] = p]
DropSearch(r) == /\ listed' = [listed EXCEPT ![r] = {}]
                 /\ present' = [present EXCEPT ![r] = {}]

\* The row of a key is locked by the transaction that has completed it.
KeyIsLocked(k) == \E r \in Requests : completing[r] /\ key[r] = k
LotIsLocked(l) == \E r \in Requests : held[r] = l

-----------------------------------------------------------------------------
(* The client and time. *)

\* The request is sent, or sent again whatever came of it.
Send(r) ==
  /\ pc[r] \in {"idle", "done"} /\ try[r] < MaxTries
  /\ try' = [try EXCEPT ![r] = @ + 1]
  /\ attempts' = [attempts EXCEPT ![r] = 0]
  /\ Goto(r, IF key[r] = NoKey THEN "preparing" ELSE "inserting")
  /\ answer' = [answer EXCEPT ![r] = "none"] /\ result' = [result EXCEPT ![r] = NoTry]
  /\ DropSearch(r)
  /\ UNCHANGED <<request, rows, documents, receipts, lots, found, completing, held,
                 forgotten, bounds>>

\* Ten minutes pass over a reservation, or twenty-four hours over a completed key.
Lapse(k) ==
  /\ rows[k].status # "none" /\ ~rows[k].expired /\ lapses < MaxLapses
  /\ rows' = [rows EXCEPT ![k].expired = TRUE]
  /\ lapses' = lapses + 1
  /\ UNCHANGED <<request, documents, receipts, lots, pc, try, found, attempts,
                 completing, held, search, reply, forgotten, failures>>

\* A purchase, a renewal or the welcome grant issues a lot.
IssueLot(l) ==
  /\ issued[l] = 0
  /\ issued' = [issued EXCEPT ![l] = LotSize]
  /\ remaining' = [remaining EXCEPT ![l] = LotSize]
  /\ UNCHANGED <<request, rows, documents, receipts, lapsed, pc, try, found, attempts,
                 completing, held, search, reply, forgotten, bounds>>

\* The period a lot belongs to ends.
LapseLot(l) ==
  /\ issued[l] > 0 /\ l \notin lapsed /\ lapses < MaxLapses
  /\ lapsed' = lapsed \cup {l}
  /\ lapses' = lapses + 1
  /\ UNCHANGED <<request, rows, documents, receipts, issued, remaining, pc, try, found,
                 attempts, completing, held, search, reply, forgotten, failures>>

-----------------------------------------------------------------------------
(* The request. *)

End(r, a, d) ==
  /\ Goto(r, "done")
  /\ answer' = [answer EXCEPT ![r] = a]
  /\ result' = [result EXCEPT ![r] = d]

\* reserve: INSERT ... ON CONFLICT DO NOTHING, two rounds at most.
InsertKey(r) ==
  LET k == key[r] IN
  /\ pc[r] = "inserting"
  /\ \/ /\ attempts[r] < 2 /\ rows[k].status = "none"
        /\ rows' = [rows EXCEPT ![k] = [status |-> "PROCESSING", owner |-> Me(r),
                                        content |-> content[r], expired |-> FALSE]]
        /\ attempts' = [attempts EXCEPT ![r] = 0]
        /\ Goto(r, "preparing") /\ UNCHANGED reply
     \/ /\ attempts[r] < 2 /\ rows[k].status # "none"
        /\ attempts' = [attempts EXCEPT ![r] = @ + 1]
        /\ Goto(r, "finding") /\ UNCHANGED <<rows, reply>>
     \/ /\ attempts[r] = 2
        /\ attempts' = [attempts EXCEPT ![r] = 0]
        /\ End(r, "in_progress", NoTry) /\ UNCHANGED rows
  /\ UNCHANGED <<request, documents, receipts, lots, try, found, completing, held,
                 search, forgotten, bounds>>

\* Mutant: whatever the row of the key says, its document is the answer.
MutFindKey(r) ==
  /\ pc[r] = "finding"
  /\ LET row == rows[key[r]] IN
     \/ /\ row.status = "none"
        /\ Goto(r, "inserting") /\ UNCHANGED <<found, reply>>
     \/ /\ row.status # "none" /\ row.expired
        /\ found' = [found EXCEPT ![r] = row.owner]
        /\ Goto(r, "deleting") /\ UNCHANGED reply
     \/ /\ row.status # "none" /\ ~row.expired
        /\ End(r, "replayed", row.owner) /\ UNCHANGED found
  /\ UNCHANGED <<request, rows, documents, receipts, lots, try, attempts, completing,
                 held, search, forgotten, bounds>>

\* reserve: the row that was in the way decides.
FindKey(r) ==
  /\ pc[r] = "finding"
  /\ LET row == rows[key[r]] IN
     \/ /\ row.status = "none"
        /\ Goto(r, "inserting") /\ UNCHANGED <<found, reply>>
     \/ /\ row.status # "none" /\ row.expired
        /\ found' = [found EXCEPT ![r] = row.owner]
        /\ Goto(r, "deleting") /\ UNCHANGED reply
     \/ /\ row.status # "none" /\ ~row.expired /\ row.content # content[r]
        /\ End(r, "mismatch", NoTry) /\ UNCHANGED found
     \/ /\ row.status = "PROCESSING" /\ ~row.expired /\ row.content = content[r]
        /\ End(r, "in_progress", NoTry) /\ UNCHANGED found
     \/ /\ row.status = "COMPLETED" /\ ~row.expired /\ row.content = content[r]
        /\ End(r, "replayed", row.owner) /\ UNCHANGED found
  /\ UNCHANGED <<request, rows, documents, receipts, lots, try, attempts, completing,
                 held, search, forgotten, bounds>>

\* reserve: DELETE of the row found, if it is still that row and still expired.  It
\* waits for a transaction that is completing it, and then looks again.
DeleteExpired(r) ==
  LET k == key[r]
      matches == /\ rows[k].status # "none" /\ rows[k].owner = found[r]
                 /\ rows[k].expired
  IN
  /\ pc[r] = "deleting" /\ ~KeyIsLocked(k)
  /\ rows' = IF matches THEN [rows EXCEPT ![k] = NoRow] ELSE rows
  /\ forgotten' = IF matches /\ rows[k].status = "COMPLETED"
                  THEN [forgotten EXCEPT ![k] = @ + 1] ELSE forgotten
  /\ found' = [found EXCEPT ![r] = NoTry]
  /\ Goto(r, "inserting")
  /\ UNCHANGED <<request, documents, receipts, lots, try, attempts, completing, held,
                 search, reply, bounds>>

\* Mutant: an early return leaves the transaction, and the lock of the lot, open.
MutRollback(r, a) ==
  /\ completing' = [completing EXCEPT ![r] = FALSE] /\ UNCHANGED held
  /\ Goto(r, IF key[r] = NoKey THEN "done" ELSE "releasing")
  /\ answer' = [answer EXCEPT ![r] = a] /\ UNCHANGED result

\* The transaction, if there is one, is undone: its writes and its locks are gone.
Rollback(r, a) ==
  /\ completing' = [completing EXCEPT ![r] = FALSE]
  /\ held' = [held EXCEPT ![r] = NoLot]
  /\ Goto(r, IF key[r] = NoKey THEN "done" ELSE "releasing")
  /\ answer' = [answer EXCEPT ![r] = a] /\ UNCHANGED result

\* The payload and the plan are checked, the creator is resolved and the PDF stored, or
\* one of them fails.
Prepare(r) ==
  /\ pc[r] = "preparing"
  /\ \/ Goto(r, "saving") /\ UNCHANGED <<completing, held, failures, reply>>
     \/ /\ failures < MaxFailures /\ failures' = failures + 1
        /\ Rollback(r, "error")
  /\ UNCHANGED <<request, rows, documents, receipts, lots, try, found, attempts, search,
                 forgotten, lapses>>

\* Mutant: nobody looks at how many rows complete() updated.
MutSaveDocument(r) ==
  /\ pc[r] = "saving"
  /\ completing' = [completing EXCEPT ![r] = key[r] # NoKey]
  /\ Goto(r, "listing") /\ UNCHANGED <<held, reply>>
  /\ UNCHANGED <<request, rows, documents, receipts, lots, try, found, attempts, search,
                 forgotten, bounds>>

\* The key is still this request's to complete or to release.
Reserved(r) == rows[key[r]].status = "PROCESSING" /\ rows[key[r]].owner = Me(r)

\* The document is saved and complete() updates the reservation, if it is still this
\* request's and PROCESSING; otherwise the whole creation is undone.
SaveDocument(r) ==
  /\ pc[r] = "saving"
  /\ \/ /\ key[r] = NoKey
        /\ Goto(r, "listing") /\ UNCHANGED <<completing, held, reply>>
     \/ /\ key[r] # NoKey /\ Reserved(r)
        /\ completing' = [completing EXCEPT ![r] = TRUE]
        /\ Goto(r, "listing") /\ UNCHANGED <<held, reply>>
     \/ /\ key[r] # NoKey /\ ~Reserved(r)
        /\ Rollback(r, "in_progress")
  /\ UNCHANGED <<request, rows, documents, receipts, lots, try, found, attempts, search,
                 forgotten, bounds>>

Spendable == {l \in Lots : remaining[l] > 0 /\ l \notin lapsed}

\* Mutant: only the first lot is looked up.
MutListLots(r) ==
  /\ pc[r] = "listing"
  /\ listed' = [listed EXCEPT ![r] = IF Spendable = {} THEN {} ELSE {Min(Spendable)}]
  /\ present' = [present EXCEPT ![r] = Spendable]
  /\ Goto(r, "spending")
  /\ UNCHANGED <<request, rows, documents, receipts, lots, try, found, attempts,
                 completing, held, reply, forgotten, bounds>>

\* spendOneCredit: the lots with balance, by what has been committed.
ListLots(r) ==
  /\ pc[r] = "listing"
  /\ listed' = [listed EXCEPT ![r] = Spendable]
  /\ present' = [present EXCEPT ![r] = Spendable]
  /\ Goto(r, "spending")
  /\ UNCHANGED <<request, rows, documents, receipts, lots, try, found, attempts,
                 completing, held, reply, forgotten, bounds>>

\* Mutant: the balance is not looked at again when the lock is had.
MutSpend(r) ==
  /\ pc[r] = "spending" /\ listed[r] # {}
  /\ \E l \in listed[r] :
     /\ \A m \in listed[r] : l <= m
     /\ ~LotIsLocked(l)
     /\ held' = [held EXCEPT ![r] = l]
  /\ Goto(r, "committing")
  /\ UNCHANGED <<request, rows, documents, receipts, lots, try, found, attempts,
                 completing, listed, present, reply, forgotten, bounds>>

\* UPDATE credit_lots ... WHERE remaining > 0: it waits for whoever has taken a credit
\* of that lot and has not committed, and looks again at the balance.
Spend(r) ==
  /\ pc[r] = "spending" /\ listed[r] # {}
  /\ \E l \in listed[r] :
     /\ \A m \in listed[r] : l <= m
     /\ ~LotIsLocked(l)
     /\ \/ /\ remaining[l] > 0
           /\ held' = [held EXCEPT ![r] = l]
           /\ Goto(r, "committing") /\ UNCHANGED listed
        \/ /\ remaining[l] = 0
           /\ listed' = [listed EXCEPT ![r] = @ \ {l}]
           /\ UNCHANGED <<held, pc>>
  /\ UNCHANGED <<request, rows, documents, receipts, lots, try, found, attempts,
                 completing, present, reply, forgotten, bounds>>

\* No lot accepted the charge: the document is undone with the transaction.
RefuseCharge(r) ==
  /\ pc[r] = "spending" /\ listed[r] = {}
  /\ Rollback(r, "refused")
  /\ UNCHANGED <<request, rows, documents, receipts, lots, try, found, attempts, search,
                 forgotten, bounds>>

\* A statement of the transaction fails: saving the document, its receipt, its
\* collaborators, codes, notifications or events.
Fail(r) ==
  /\ pc[r] \in {"saving", "listing", "spending", "committing"}
  /\ failures < MaxFailures /\ failures' = failures + 1
  /\ Rollback(r, "error") /\ DropSearch(r)
  /\ UNCHANGED <<request, rows, documents, receipts, lots, try, found, attempts, forgotten,
                 lapses>>

\* The receipt, the collaborators, their codes and notifications, and COMMIT.
Commit(r) ==
  /\ pc[r] = "committing"
  /\ documents' = documents \cup {Me(r)}
  /\ receipts' = receipts \cup {<<Me(r), held[r]>>}
  /\ remaining' = [remaining EXCEPT ![held[r]] = @ - 1]
  /\ rows' = IF completing[r]
             THEN [rows EXCEPT ![key[r]].status = "COMPLETED", ![key[r]].expired = FALSE]
             ELSE rows
  /\ completing' = [completing EXCEPT ![r] = FALSE]
  /\ held' = [held EXCEPT ![r] = NoLot]
  /\ DropSearch(r)
  /\ Goto(r, "loading")
  /\ UNCHANGED <<request, issued, lapsed, try, found, attempts, reply, forgotten, bounds>>

\* loadCreatedDocument and the answer; it may fail, the document is there.
Respond(r) ==
  /\ pc[r] = "loading"
  /\ \/ End(r, "created", Me(r)) /\ UNCHANGED failures
     \/ /\ failures < MaxFailures /\ failures' = failures + 1
        /\ End(r, "error", NoTry)
  /\ UNCHANGED <<request, rows, documents, receipts, lots, try, found, attempts,
                 completing, held, search, forgotten, lapses>>

\* release: DELETE of its reservation while PROCESSING; a failure is only logged.
Release(r) ==
  LET k == key[r] IN
  /\ pc[r] = "releasing"
  /\ \/ /\ rows' = IF Reserved(r) THEN [rows EXCEPT ![k] = NoRow] ELSE rows
        /\ UNCHANGED failures
     \/ failures < MaxFailures /\ failures' = failures + 1 /\ UNCHANGED rows
  /\ Goto(r, "done")
  /\ UNCHANGED <<request, documents, receipts, lots, try, found, attempts, completing,
                 held, search, reply, forgotten, lapses>>

\* The server dies: PostgreSQL undoes the transaction, the reservation stays.
Crash(r) ==
  /\ pc[r] \notin {"idle", "done"}
  /\ failures < MaxFailures /\ failures' = failures + 1
  /\ completing' = [completing EXCEPT ![r] = FALSE]
  /\ held' = [held EXCEPT ![r] = NoLot]
  /\ found' = [found EXCEPT ![r] = NoTry] /\ attempts' = [attempts EXCEPT ![r] = 0]
  /\ DropSearch(r)
  /\ End(r, "error", NoTry)
  /\ UNCHANGED <<request, rows, documents, receipts, lots, try, forgotten, lapses>>

Step(r) == \/ InsertKey(r) \/ FindKey(r) \/ DeleteExpired(r) \/ Prepare(r)
           \/ SaveDocument(r) \/ ListLots(r) \/ Spend(r) \/ RefuseCharge(r)
           \/ Commit(r) \/ Respond(r) \/ Release(r)

Next == \/ \E r \in Requests : Send(r) \/ Step(r) \/ Fail(r) \/ Crash(r)
        \/ \E k \in Keys : Lapse(k)
        \/ \E l \in Lots : IssueLot(l) \/ LapseLot(l)

Spec == Init /\ [][Next]_vars

\* Node runs what it has started and PostgreSQL grants the locks it frees.
FairSpec == Spec /\ \A r \in Requests : WF_vars(Step(r))

-----------------------------------------------------------------------------
TypeOK ==
  /\ key \in [Requests -> Keys \cup {NoKey}] /\ content \in [Requests -> Contents]
  /\ rows \in [Keys -> Row]
  /\ documents \subseteq Tries /\ receipts \subseteq Tries \X Lots
  /\ issued \in [Lots -> Nat] /\ remaining \in [Lots -> Nat] /\ lapsed \subseteq Lots
  /\ pc \in [Requests -> {"idle", "inserting", "finding", "deleting", "preparing",
                          "saving", "listing", "spending", "committing", "loading",
                          "releasing", "done"}]
  /\ try \in [Requests -> 0..MaxTries] /\ attempts \in [Requests -> 0..2]
  /\ found \in [Requests -> Tries \cup {NoTry}]
  /\ completing \in [Requests -> BOOLEAN] /\ held \in [Requests -> Lots \cup {NoLot}]
  /\ listed \in [Requests -> SUBSET Lots] /\ present \in [Requests -> SUBSET Lots]
  /\ answer \in [Requests -> {"none", "created", "replayed", "in_progress", "mismatch",
                              "refused", "error"}]
  /\ result \in [Requests -> Tries \cup {NoTry}]
  /\ forgotten \in [Keys -> Nat] /\ failures \in 0..MaxFailures /\ lapses \in 0..MaxLapses

DocumentsOf(k) == {d \in documents : key[d[1]] = k}

\* However often a request is repeated, overlaps itself, outlives its lease or dies at
\* any point, its key creates one document, and one more only after its retention.
OneDocumentPerKey == \A k \in Keys : Cardinality(DocumentsOf(k)) <= 1 + forgotten[k]

\* Whoever is told of a document is told of a committed one, created with his own key and
\* from the same content.
AnswersAreReal ==
  \A r \in Requests : result[r] # NoTry =>
    /\ result[r] \in documents
    /\ key[result[r][1]] = key[r] /\ content[result[r][1]] = content[r]

\* Each document is paid by one receipt, and each lot accounts for its credits and pays for
\* no more documents than it has credits: nothing is charged for a creation that was undone,
\* nothing is created unpaid, and of two that take the last credit of a lot both listed, one
\* at most has it.
CreditsBalance ==
  /\ \A d \in documents : Cardinality({x \in receipts : x[1] = d}) = 1
  /\ \A x \in receipts : x[1] \in documents
  /\ \A l \in Lots : /\ remaining[l] >= 0
                     /\ remaining[l] + Cardinality({x \in receipts : x[2] = l}) = issued[l]

\* Whoever is refused for lack of credit found none: every lot that had balance when he
\* looked has been emptied by documents that exist.
RefusedWithoutCredit ==
  \A r \in Requests : answer[r] = "refused" => \A l \in present[r] : remaining[l] = 0

\* The creation implements the promise of a key: the document appears in the same step
\* in which the key remembers it.
Remembered == [k \in Keys |-> IF rows[k].status = "COMPLETED" THEN rows[k].owner ELSE NoTry]
Effect == {<<key[d[1]], d>> : d \in {x \in documents : key[x[1]] # NoKey}}
Once == INSTANCE OnceOnly WITH Effects <- Tries, None <- NoTry, Lapsing <- Keys,
                               memory <- Remembered, effects <- Effect
ImplementsOnceOnly == Once!Spec

\* Nobody waits for ever for the lock of a key or of a lot.
EveryRequestEnds == \A r \in Requests : pc[r] = "inserting" ~> pc[r] = "done"
=============================================================================
