---------------------- MODULE DocumentCreation_proofs ----------------------
(***************************************************************************)
(* Proofs about DocumentCreation for any number of requests, keys, lots,   *)
(* tries, failures and lapses.                                             *)
(*                                                                         *)
(* What an open transaction has written is still true of the tables when   *)
(* it commits (Transactions): its key is its own reservation, PROCESSING,  *)
(* because whoever deletes it waits; its lot has the credit it took,       *)
(* because whoever spends another waits.  What the tables say of a key     *)
(* (KeysAreOwned), of a document and of a lot (Credits, Counts) follows.   *)
(***************************************************************************)
EXTENDS DocumentCreation, FiniteSetTheorems, TLAPS

InTransaction(r) == pc[r] \in {"listing", "spending", "committing"}

\* Rows name a try of their key and its content; a completed one, its document.
KeysAreOwned ==
  \A k \in Keys : rows[k].status # "none" =>
    /\ rows[k].owner \in Tries
    /\ key[rows[k].owner[1]] = k
    /\ rows[k].content = content[rows[k].owner[1]]
    /\ rows[k].status = "COMPLETED" => rows[k].owner \in documents

\* What a transaction has locked, and that nobody else has it.
Transactions ==
  /\ \A r \in Requests : completing[r] <=> InTransaction(r) /\ key[r] # NoKey
  /\ \A r \in Requests : completing[r] =>
       rows[key[r]].status = "PROCESSING" /\ rows[key[r]].owner = Me(r)
  /\ \A r \in Requests : pc[r] = "committing" <=> held[r] # NoLot
  /\ \A r \in Requests : held[r] # NoLot => remaining[held[r]] > 0
  /\ \A r, q \in Requests : held[r] # NoLot /\ held[r] = held[q] => r = q
  /\ \A r \in Requests : pc[r] # "idle" => try[r] >= 1

\* A document is of a try its request has made, and of the present one only once the
\* transaction has committed.
DocumentsAreMade ==
  \A r \in Requests : \A n \in 1..MaxTries :
    <<r, n>> \in documents => n <= try[r] /\ (n = try[r] => pc[r] \in {"loading", "done"})

\* Only a request with a key touches the keys.
OnlyKeyed ==
  \A r \in Requests :
    pc[r] \in {"inserting", "finding", "deleting", "releasing"} => key[r] \in Keys

Invariant == TypeOK /\ OnlyKeyed /\ KeysAreOwned /\ Transactions /\ DocumentsAreMade

\* The names used for "nothing" name nothing.
LEMMA NothingIsNothing ==
  /\ NoLot \notin Lots /\ NoRow \in Row /\ NoRow.status = "none"
  /\ \A r \in Requests, n \in Nat : n > 0 => <<r, n>> # NoTry
<1>1. NoLot \notin Lots
  BY LotAssumption DEF NoLot
<1>2. NoRow \in Row /\ NoRow.status = "none"
  BY KeyAssumption DEF NoRow, Row
<1> QED BY <1>1, <1>2 DEF NoTry

\* A request past its first message names a try.
LEMMA TryIsNamed ==
  ASSUME TypeOK, NEW r \in Requests, try[r] >= 1
  PROVE  Me(r) \in Tries /\ Me(r) # NoTry
BY BoundAssumption DEF TypeOK, Me, Tries, NoTry

\* What a row of the table is made of.
LEMMA RowFields ==
  ASSUME NEW x \in Row
  PROVE  /\ x.status \in {"none", "PROCESSING", "COMPLETED"}
         /\ x.owner \in Tries \cup {NoTry} /\ x.content \in Contents /\ x.expired \in BOOLEAN
BY DEF Row

LEMMA RowChanges ==
  ASSUME NEW x \in Row,
         NEW s \in {"none", "PROCESSING", "COMPLETED"}, NEW e \in BOOLEAN
  PROVE  [x EXCEPT !.status = s, !.expired = e] \in Row /\ [x EXCEPT !.expired = e] \in Row
BY DEF Row

-----------------------------------------------------------------------------
(* The invariant. *)

LEMMA InvariantInit == Init => Invariant
<1> SUFFICES ASSUME Init PROVE Invariant
  OBVIOUS
<1>1. NoRow \in Row /\ NoRow.status = "none"
  BY NothingIsNothing
<1>2. TypeOK
  BY <1>1, BoundAssumption DEF Init, TypeOK
<1>3. KeysAreOwned
  BY <1>1 DEF Init, KeysAreOwned
<1> QED BY <1>2, <1>3 DEF Init, Invariant, OnlyKeyed, Transactions, InTransaction, DocumentsAreMade


LEMMA SendKeeps == ASSUME Invariant, NEW r \in Requests, Send(r) PROVE Invariant'
<1> USE BoundAssumption, LotAssumption, KeyAssumption, NothingIsNothing
        DEF Send, Invariant, Goto, End, Rollback, DropSearch, request, lots, search, reply,
            bounds
<1>1. TypeOK'
  BY TryIsNamed DEF TypeOK, Transactions, OnlyKeyed, Row
<1>2. OnlyKeyed'
  BY DEF TypeOK, OnlyKeyed
<1>3. KeysAreOwned'
  BY TryIsNamed DEF TypeOK, KeysAreOwned, Transactions, OnlyKeyed, Row, Me
<1>4. Transactions'
  BY DEF TypeOK, Transactions, InTransaction, OnlyKeyed, Row, Me, KeyIsLocked, LotIsLocked
<1>5. DocumentsAreMade'
  BY DEF TypeOK, DocumentsAreMade, Me
<1> QED BY <1>1, <1>2, <1>3, <1>4, <1>5

LEMMA InsertKeyKeeps == ASSUME Invariant, NEW r \in Requests, InsertKey(r) PROVE Invariant'
<1> USE BoundAssumption, LotAssumption, KeyAssumption, NothingIsNothing
        DEF InsertKey, Invariant, Goto, End, Rollback, DropSearch, request, lots, search,
            reply, bounds
<1>0. key[r] \in Keys /\ try[r] >= 1 /\ Me(r) \in Tries /\ Me(r) # NoTry /\ Me(r)[1] = r
  BY TryIsNamed DEF OnlyKeyed, TypeOK, Transactions, Me
<1>1. TypeOK'
  <2>1. rows' \in [Keys -> Row]
    <3>1. [status |-> "PROCESSING", owner |-> Me(r), content |-> content[r],
          expired |-> FALSE] \in Row
      BY <1>0 DEF TypeOK, Row
    <3> QED BY <3>1 DEF TypeOK
  <2>2. attempts' \in [Requests -> 0..2]
    BY DEF TypeOK
  <2>3. pc' \in [Requests -> {"idle", "inserting", "finding", "deleting", "preparing",
                             "saving", "listing", "spending", "committing", "loading",
                             "releasing", "done"}]
    BY DEF TypeOK
  <2>4. /\ answer' \in [Requests -> {"none", "created", "replayed", "in_progress", "mismatch",
                                    "refused", "error"}]
        /\ result' \in [Requests -> Tries \cup {NoTry}]
    BY <1>0 DEF TypeOK
  <2>5. UNCHANGED <<request, documents, receipts, lots, try, found, completing, held, search,
                    forgotten, bounds>>
    OBVIOUS
  <2> HIDE DEF InsertKey
  <2> QED BY <2>1, <2>2, <2>3, <2>4, <2>5 DEF TypeOK
<1>2. OnlyKeyed'
  BY DEF TypeOK, OnlyKeyed
<1>3. KeysAreOwned'
  <2> SUFFICES ASSUME NEW k \in Keys, rows'[k].status # "none"
               PROVE  /\ rows'[k].owner \in Tries
                      /\ key[rows'[k].owner[1]] = k
                      /\ rows'[k].content = content[rows'[k].owner[1]]
                      /\ rows'[k].status = "COMPLETED" => rows'[k].owner \in documents
    BY DEF KeysAreOwned
  <2>1. CASE rows' = rows
    BY <2>1 DEF KeysAreOwned
  <2>2. CASE rows' # rows /\ k # key[r]
    BY <2>2, <1>0 DEF KeysAreOwned, TypeOK
  <2>3. CASE rows' # rows /\ k = key[r]
    BY <2>3, <1>0 DEF TypeOK
  <2> QED BY <2>1, <2>2, <2>3
<1>4. Transactions'
  BY DEF TypeOK, Transactions, InTransaction, OnlyKeyed, Row, Me, KeyIsLocked, LotIsLocked
<1>5. DocumentsAreMade'
  BY DEF TypeOK, DocumentsAreMade, Me
<1> QED BY <1>1, <1>2, <1>3, <1>4, <1>5

LEMMA FindKeyKeeps == ASSUME Invariant, NEW r \in Requests, FindKey(r) PROVE Invariant'
<1> USE BoundAssumption, LotAssumption, KeyAssumption, NothingIsNothing
        DEF FindKey, Invariant, Goto, End, Rollback, DropSearch, request, lots, search,
            reply, bounds
<1>0. key[r] \in Keys /\ rows[key[r]].owner \in Tries \cup {NoTry}
  BY RowFields DEF OnlyKeyed, TypeOK
<1>1. TypeOK'
  BY <1>0 DEF TypeOK
<1>2. OnlyKeyed'
  BY DEF TypeOK, OnlyKeyed
<1>3. KeysAreOwned'
  BY DEF KeysAreOwned
<1>4. Transactions'
  BY DEF TypeOK, Transactions, InTransaction, OnlyKeyed, Row, Me, KeyIsLocked, LotIsLocked
<1>5. DocumentsAreMade'
  BY DEF TypeOK, DocumentsAreMade, Me
<1> QED BY <1>1, <1>2, <1>3, <1>4, <1>5

LEMMA DeleteExpiredKeeps == ASSUME Invariant, NEW r \in Requests, DeleteExpired(r) PROVE Invariant'
<1> USE BoundAssumption, LotAssumption, KeyAssumption, NothingIsNothing
        DEF DeleteExpired, Invariant, Goto, End, Rollback, DropSearch, request, lots,
            search, reply, bounds
<1>1. TypeOK'
  BY TryIsNamed DEF TypeOK, Transactions, OnlyKeyed, Row
<1>2. OnlyKeyed'
  BY DEF TypeOK, OnlyKeyed
<1>3. KeysAreOwned'
  BY TryIsNamed DEF TypeOK, KeysAreOwned, Transactions, OnlyKeyed, Row, Me
<1>4. Transactions'
  BY DEF TypeOK, Transactions, InTransaction, OnlyKeyed, Row, Me, KeyIsLocked, LotIsLocked
<1>5. DocumentsAreMade'
  BY DEF TypeOK, DocumentsAreMade, Me
<1> QED BY <1>1, <1>2, <1>3, <1>4, <1>5

LEMMA PrepareKeeps == ASSUME Invariant, NEW r \in Requests, Prepare(r) PROVE Invariant'
<1> USE BoundAssumption, LotAssumption, KeyAssumption, NothingIsNothing
        DEF Prepare, Invariant, Goto, End, Rollback, DropSearch, request, lots, search,
            reply, bounds
<1>0. failures' \in 0..MaxFailures
  BY DEF TypeOK
<1>1. TypeOK'
  BY <1>0 DEF TypeOK
<1>2. OnlyKeyed'
  <2> SUFFICES ASSUME NEW q \in Requests,
                      pc'[q] \in {"inserting", "finding", "deleting", "releasing"}
               PROVE  key[q] \in Keys
    BY DEF OnlyKeyed
  <2>1. key[q] \in Keys \cup {NoKey}
    BY DEF TypeOK
  <2> QED BY <2>1 DEF OnlyKeyed, TypeOK
<1>3. KeysAreOwned'
  BY TryIsNamed DEF TypeOK, KeysAreOwned, Transactions, OnlyKeyed, Row, Me
<1>4. Transactions'
  BY DEF TypeOK, Transactions, InTransaction, OnlyKeyed, Row, Me, KeyIsLocked, LotIsLocked
<1>5. DocumentsAreMade'
  BY DEF TypeOK, DocumentsAreMade, Me
<1> QED BY <1>1, <1>2, <1>3, <1>4, <1>5

LEMMA SaveDocumentKeeps == ASSUME Invariant, NEW r \in Requests, SaveDocument(r) PROVE Invariant'
<1> USE BoundAssumption, LotAssumption, KeyAssumption, NothingIsNothing
        DEF SaveDocument, Reserved, Invariant, Goto, End, Rollback, DropSearch, request,
            lots, search, reply, bounds
<1>1. TypeOK'
  BY TryIsNamed DEF TypeOK, Transactions, OnlyKeyed, Row
<1>2. OnlyKeyed'
  BY DEF TypeOK, OnlyKeyed
<1>3. KeysAreOwned'
  BY TryIsNamed DEF TypeOK, KeysAreOwned, Transactions, OnlyKeyed, Row, Me
<1>4. Transactions'
  <2>1. \A q \in Requests : held'[q] = held[q]
    BY DEF TypeOK, Transactions
  <2>2. \A q \in Requests \ {r} : pc'[q] = pc[q] /\ completing'[q] = completing[q]
    BY DEF TypeOK
  <2>3. /\ completing'[r] <=> pc'[r] = "listing" /\ key[r] # NoKey
        /\ pc'[r] \in {"listing", "done", "releasing"}
    BY DEF TypeOK, Transactions, InTransaction
  <2>4. completing'[r] => Reserved(r)
    BY DEF TypeOK, Transactions, InTransaction
  <2>5. /\ rows' = rows /\ key' = key /\ try' = try /\ remaining' = remaining
        /\ pc[r] = "saving" /\ held[r] = NoLot
    BY DEF Transactions
  <2> HIDE DEF SaveDocument, Reserved
  <2> QED BY <2>1, <2>2, <2>3, <2>4, <2>5 DEF Reserved, Transactions, InTransaction, Me
<1>5. DocumentsAreMade'
  BY DEF TypeOK, DocumentsAreMade, Me
<1> QED BY <1>1, <1>2, <1>3, <1>4, <1>5

LEMMA ListLotsKeeps == ASSUME Invariant, NEW r \in Requests, ListLots(r) PROVE Invariant'
<1> USE BoundAssumption, LotAssumption, KeyAssumption, NothingIsNothing
        DEF ListLots, Invariant, Goto, End, Rollback, DropSearch, request, lots, search,
            reply, bounds
<1>1. TypeOK'
  BY DEF TypeOK, Spendable
<1>2. OnlyKeyed'
  BY DEF TypeOK, OnlyKeyed
<1>3. KeysAreOwned'
  BY TryIsNamed DEF TypeOK, KeysAreOwned, Transactions, OnlyKeyed, Row, Me
<1>4. Transactions'
  BY DEF TypeOK, Transactions, InTransaction, OnlyKeyed, Row, Me, KeyIsLocked, LotIsLocked
<1>5. DocumentsAreMade'
  BY DEF TypeOK, DocumentsAreMade, Me
<1> QED BY <1>1, <1>2, <1>3, <1>4, <1>5

LEMMA SpendKeeps == ASSUME Invariant, NEW r \in Requests, Spend(r) PROVE Invariant'
<1> USE BoundAssumption, LotAssumption, KeyAssumption, NothingIsNothing
        DEF Spend, Invariant, Goto, End, Rollback, DropSearch, request, lots, search, reply,
            bounds
<1>1. TypeOK'
  <2>1. held' \in [Requests -> Lots \cup {NoLot}] /\ listed' \in [Requests -> SUBSET Lots]
    BY DEF TypeOK
  <2>2. pc' = pc \/ pc' = [pc EXCEPT ![r] = "committing"]
    OBVIOUS
  <2> QED BY <2>1, <2>2 DEF TypeOK
<1>2. OnlyKeyed'
  BY DEF TypeOK, OnlyKeyed
<1>3. KeysAreOwned'
  BY TryIsNamed DEF TypeOK, KeysAreOwned, Transactions, OnlyKeyed, Row, Me
<1>4. Transactions'
  <2>1. PICK l \in Lots : /\ ~LotIsLocked(l)
                          /\ \/ remaining[l] > 0 /\ held' = [held EXCEPT ![r] = l] /\ Goto(r, "committing")
                             \/ UNCHANGED <<held, pc>>
    BY DEF TypeOK
  <2>2. CASE UNCHANGED <<held, pc>>
    BY <2>2 DEF TypeOK, Transactions, InTransaction, Me
  <2>3. CASE remaining[l] > 0 /\ held' = [held EXCEPT ![r] = l] /\ Goto(r, "committing")
    <3>1. \A q \in Requests : held[q] # l
      BY <2>1 DEF LotIsLocked
    <3> QED BY <2>3, <3>1 DEF TypeOK, Transactions, InTransaction, Me
  <2> QED BY <2>1, <2>2, <2>3
<1>5. DocumentsAreMade'
  BY DEF TypeOK, DocumentsAreMade, Me
<1> QED BY <1>1, <1>2, <1>3, <1>4, <1>5

LEMMA RefuseChargeKeeps == ASSUME Invariant, NEW r \in Requests, RefuseCharge(r) PROVE Invariant'
<1> USE BoundAssumption, LotAssumption, KeyAssumption, NothingIsNothing
        DEF RefuseCharge, Invariant, Goto, End, Rollback, DropSearch, request, lots, search,
            reply, bounds
<1>1. TypeOK'
  BY TryIsNamed DEF TypeOK, Transactions, OnlyKeyed, Row
<1>2. OnlyKeyed'
  BY DEF TypeOK, OnlyKeyed
<1>3. KeysAreOwned'
  BY TryIsNamed DEF TypeOK, KeysAreOwned, Transactions, OnlyKeyed, Row, Me
<1>4. Transactions'
  BY DEF TypeOK, Transactions, InTransaction, OnlyKeyed, Row, Me, KeyIsLocked, LotIsLocked
<1>5. DocumentsAreMade'
  BY DEF TypeOK, DocumentsAreMade, Me
<1> QED BY <1>1, <1>2, <1>3, <1>4, <1>5

LEMMA FailKeeps == ASSUME Invariant, NEW r \in Requests, Fail(r) PROVE Invariant'
<1> USE BoundAssumption, LotAssumption, KeyAssumption, NothingIsNothing
        DEF Fail, Invariant, Goto, End, Rollback, DropSearch, request, lots, search, reply,
            bounds
<1>1. TypeOK'
  BY TryIsNamed DEF TypeOK, Transactions, OnlyKeyed, Row
<1>2. OnlyKeyed'
  BY DEF TypeOK, OnlyKeyed
<1>3. KeysAreOwned'
  BY TryIsNamed DEF TypeOK, KeysAreOwned, Transactions, OnlyKeyed, Row, Me
<1>4. Transactions'
  BY DEF TypeOK, Transactions, InTransaction, OnlyKeyed, Row, Me, KeyIsLocked, LotIsLocked
<1>5. DocumentsAreMade'
  BY DEF TypeOK, DocumentsAreMade, Me
<1> QED BY <1>1, <1>2, <1>3, <1>4, <1>5

LEMMA CommitKeeps == ASSUME Invariant, NEW r \in Requests, Commit(r) PROVE Invariant'
<1> USE BoundAssumption, LotAssumption, KeyAssumption, NothingIsNothing
        DEF Commit, Invariant, Goto, End, Rollback, DropSearch, request, lots, search,
            reply, bounds
<1>0. /\ try[r] >= 1 /\ Me(r) \in Tries /\ Me(r) # NoTry
      /\ held[r] \in Lots /\ remaining[held[r]] \in Nat \ {0}
      /\ completing[r] => key[r] \in Keys /\ rows[key[r]].owner = Me(r)
  BY TryIsNamed DEF TypeOK, Transactions
<1>1. TypeOK'
  <2>1. rows' \in [Keys -> Row]
    <3>1. completing[r] => [rows[key[r]] EXCEPT !.status = "COMPLETED", !.expired = FALSE] \in Row
      BY <1>0, RowChanges DEF TypeOK
    <3>2. completing[r] =>
            rows' = [rows EXCEPT ![key[r]] = [rows[key[r]] EXCEPT !.status = "COMPLETED", !.expired = FALSE]]
      BY <1>0 DEF TypeOK
    <3> QED BY <3>1, <3>2, <1>0 DEF TypeOK
  <2>2. documents' \subseteq Tries /\ receipts' \subseteq Tries \X Lots
    BY <1>0 DEF TypeOK
  <2>3. remaining' \in [Lots -> Nat]
    <3>1. remaining \in [Lots -> Nat] /\ remaining' = [remaining EXCEPT ![held[r]] = @ - 1]
      BY DEF TypeOK
    <3>2. remaining[held[r]] - 1 \in Nat
      BY <1>0
    <3> HIDE DEF Commit, Invariant
    <3> QED BY <3>1, <3>2, <1>0
  <2> QED BY <2>1, <2>2, <2>3 DEF TypeOK
<1>2. OnlyKeyed'
  BY DEF TypeOK, OnlyKeyed
<1>3. KeysAreOwned'
  <2>1. key' = key /\ content' = content /\ documents \subseteq documents' /\ Me(r) \in documents'
    OBVIOUS
  <2>2. ASSUME NEW k \in Keys
        PROVE  /\ rows'[k].owner = rows[k].owner /\ rows'[k].content = rows[k].content
               /\ \/ rows'[k].status = rows[k].status
                  \/ rows[k].status = "PROCESSING" /\ rows[k].owner = Me(r)
    <3>1. rows[k] \in Row
      BY DEF TypeOK
    <3>2. CASE completing[r] /\ k = key[r]
      BY <3>1, <3>2, <1>0 DEF TypeOK, Row, Transactions
    <3>3. CASE ~(completing[r] /\ k = key[r])
      <4>1. rows'[k] = rows[k]
        BY <3>3, <1>0 DEF TypeOK
      <4> QED BY <4>1
    <3> QED BY <3>2, <3>3
  <2> HIDE DEF Commit
  <2> QED BY <2>1, <2>2 DEF KeysAreOwned
<1>4. Transactions'
  <2>1. \A q \in Requests : q # r /\ completing[q] => rows'[key[q]] = rows[key[q]]
    BY <1>0 DEF TypeOK, Transactions, Me
  <2>2. \A q \in Requests : q # r /\ held[q] # NoLot => remaining'[held[q]] = remaining[held[q]]
    BY <1>0 DEF TypeOK, Transactions
  <2> QED BY <2>1, <2>2 DEF TypeOK, Transactions, InTransaction, Me
<1>5. DocumentsAreMade'
  BY DEF TypeOK, DocumentsAreMade, Me
<1> QED BY <1>1, <1>2, <1>3, <1>4, <1>5

LEMMA RespondKeeps == ASSUME Invariant, NEW r \in Requests, Respond(r) PROVE Invariant'
<1> USE BoundAssumption, LotAssumption, KeyAssumption, NothingIsNothing
        DEF Respond, Invariant, Goto, End, Rollback, DropSearch, request, lots, search,
            reply, bounds
<1>0. try[r] >= 1 /\ Me(r) \in Tries /\ Me(r) # NoTry /\ Me(r)[1] = r
  BY TryIsNamed DEF TypeOK, Transactions, Me
<1>1. TypeOK'
  BY <1>0 DEF TypeOK
<1>2. OnlyKeyed'
  BY DEF TypeOK, OnlyKeyed
<1>3. KeysAreOwned'
  BY TryIsNamed DEF TypeOK, KeysAreOwned, Transactions, OnlyKeyed, Row, Me
<1>4. Transactions'
  BY DEF TypeOK, Transactions, InTransaction, OnlyKeyed, Row, Me, KeyIsLocked, LotIsLocked
<1>5. DocumentsAreMade'
  BY DEF TypeOK, DocumentsAreMade, Me
<1> QED BY <1>1, <1>2, <1>3, <1>4, <1>5

LEMMA ReleaseKeeps == ASSUME Invariant, NEW r \in Requests, Release(r) PROVE Invariant'
<1> USE BoundAssumption, LotAssumption, KeyAssumption, NothingIsNothing
        DEF Release, Reserved, Invariant, Goto, End, Rollback, DropSearch, request, lots,
            search, reply, bounds
<1>0. key[r] \in Keys
  BY DEF OnlyKeyed
<1>1. TypeOK'
  <2>1. rows' \in [Keys -> Row]
    BY <1>0 DEF TypeOK
  <2> QED BY <2>1, <1>0
          DEF TypeOK
<1>2. OnlyKeyed'
  BY DEF TypeOK, OnlyKeyed
<1>3. KeysAreOwned'
  <2>1. \A k \in Keys : rows'[k] = rows[k] \/ rows'[k] = NoRow
    BY <1>0 DEF TypeOK
  <2> QED BY <2>1 DEF KeysAreOwned
<1>4. Transactions'
  <2>1. \A q \in Requests : completing[q] => rows'[key[q]] = rows[key[q]]
    BY <1>0 DEF TypeOK, Transactions, InTransaction, Me
  <2>2. ~InTransaction(r) /\ ~InTransaction(r)' /\ pc[r] # "committing" /\ pc'[r] # "committing"
    BY DEF InTransaction, TypeOK
  <2> QED BY <2>1, <2>2 DEF TypeOK, Transactions, InTransaction, Me
<1>5. DocumentsAreMade'
  BY DEF TypeOK, DocumentsAreMade, Me
<1> QED BY <1>1, <1>2, <1>3, <1>4, <1>5

LEMMA CrashKeeps == ASSUME Invariant, NEW r \in Requests, Crash(r) PROVE Invariant'
<1> USE BoundAssumption, LotAssumption, KeyAssumption, NothingIsNothing
        DEF Crash, Invariant, Goto, End, Rollback, DropSearch, request, lots, search, reply,
            bounds
<1>1. TypeOK'
  BY TryIsNamed DEF TypeOK, Transactions, OnlyKeyed, Row
<1>2. OnlyKeyed'
  BY DEF TypeOK, OnlyKeyed
<1>3. KeysAreOwned'
  BY TryIsNamed DEF TypeOK, KeysAreOwned, Transactions, OnlyKeyed, Row, Me
<1>4. Transactions'
  BY DEF TypeOK, Transactions, InTransaction, OnlyKeyed, Row, Me, KeyIsLocked, LotIsLocked
<1>5. DocumentsAreMade'
  BY DEF TypeOK, DocumentsAreMade, Me
<1> QED BY <1>1, <1>2, <1>3, <1>4, <1>5

LEMMA LapseKeeps == ASSUME Invariant, NEW k \in Keys, Lapse(k) PROVE Invariant'
<1> USE BoundAssumption, LotAssumption, KeyAssumption, NothingIsNothing
        DEF Lapse, Invariant, Goto, End, Rollback, DropSearch, request, lots, search, reply,
            bounds
<1>1. TypeOK'
  <2>1. rows' \in [Keys -> Row]
    BY RowChanges DEF TypeOK
  <2> QED BY <2>1 DEF TypeOK
<1>2. OnlyKeyed'
  BY DEF TypeOK, OnlyKeyed
<1>3. KeysAreOwned'
  BY TryIsNamed DEF TypeOK, KeysAreOwned, Transactions, OnlyKeyed, Row, Me
<1>4. Transactions'
  BY DEF TypeOK, Transactions, InTransaction, OnlyKeyed, Row, Me, KeyIsLocked, LotIsLocked
<1>5. DocumentsAreMade'
  BY DEF TypeOK, DocumentsAreMade, Me
<1> QED BY <1>1, <1>2, <1>3, <1>4, <1>5

LEMMA IssueLotKeeps == ASSUME Invariant, NEW l \in Lots, IssueLot(l) PROVE Invariant'
<1> USE BoundAssumption, LotAssumption, KeyAssumption, NothingIsNothing
        DEF IssueLot, Invariant, Goto, End, Rollback, DropSearch, request, lots, search,
            reply, bounds
<1>1. TypeOK'
  BY TryIsNamed DEF TypeOK, Transactions, OnlyKeyed, Row
<1>2. OnlyKeyed'
  BY DEF TypeOK, OnlyKeyed
<1>3. KeysAreOwned'
  BY TryIsNamed DEF TypeOK, KeysAreOwned, Transactions, OnlyKeyed, Row, Me
<1>4. Transactions'
  BY DEF TypeOK, Transactions, InTransaction, OnlyKeyed, Row, Me, KeyIsLocked, LotIsLocked
<1>5. DocumentsAreMade'
  BY DEF TypeOK, DocumentsAreMade, Me
<1> QED BY <1>1, <1>2, <1>3, <1>4, <1>5

LEMMA LapseLotKeeps == ASSUME Invariant, NEW l \in Lots, LapseLot(l) PROVE Invariant'
<1> USE BoundAssumption, LotAssumption, KeyAssumption, NothingIsNothing
        DEF LapseLot, Invariant, Goto, End, Rollback, DropSearch, request, lots, search,
            reply, bounds
<1>1. TypeOK'
  BY TryIsNamed DEF TypeOK, Transactions, OnlyKeyed, Row
<1>2. OnlyKeyed'
  BY DEF TypeOK, OnlyKeyed
<1>3. KeysAreOwned'
  BY TryIsNamed DEF TypeOK, KeysAreOwned, Transactions, OnlyKeyed, Row, Me
<1>4. Transactions'
  BY DEF TypeOK, Transactions, InTransaction, OnlyKeyed, Row, Me, KeyIsLocked, LotIsLocked
<1>5. DocumentsAreMade'
  BY DEF TypeOK, DocumentsAreMade, Me
<1> QED BY <1>1, <1>2, <1>3, <1>4, <1>5

LEMMA NextKeeps == Invariant /\ [Next]_vars => Invariant'
<1> SUFFICES ASSUME Invariant, [Next]_vars PROVE Invariant'
  OBVIOUS
<1>1. CASE UNCHANGED vars
  BY <1>1 DEF vars, request, lots, search, reply, bounds, Invariant, TypeOK, OnlyKeyed, KeysAreOwned,
              Transactions, InTransaction, Me, DocumentsAreMade
<1>2. ASSUME NEW r \in Requests, Send(r) \/ Step(r) \/ Fail(r) \/ Crash(r) PROVE Invariant'
  BY <1>2, SendKeeps, InsertKeyKeeps, FindKeyKeeps, DeleteExpiredKeeps, PrepareKeeps, SaveDocumentKeeps,
     ListLotsKeeps, SpendKeeps, RefuseChargeKeeps, CommitKeeps, RespondKeeps, ReleaseKeeps, FailKeeps,
     CrashKeeps DEF Step
<1>3. ASSUME NEW k \in Keys, Lapse(k) PROVE Invariant'
  BY <1>3, LapseKeeps
<1>4. ASSUME NEW l \in Lots, IssueLot(l) \/ LapseLot(l) PROVE Invariant'
  BY <1>4, IssueLotKeeps, LapseLotKeeps
<1> QED BY <1>1, <1>2, <1>3, <1>4 DEF Next

\* The inductive invariant holds in every run.
THEOREM InvariantHolds == Spec => []Invariant
<1> QED BY InvariantInit, NextKeeps, PTL DEF Spec

\* The tables and the requests keep their types: no balance goes below zero, no reservation
\* names somebody else's try.
THEOREM TypeCorrect == Spec => []TypeOK
<1>1. Invariant => TypeOK
  BY DEF Invariant
<1> QED BY <1>1, InvariantHolds, PTL

-----------------------------------------------------------------------------
(* What the client is told. *)

Answers == AnswersAreReal /\ \A r \in Requests : pc[r] = "loading" => Me(r) \in documents

LEMMA AnswersKeep == Invariant /\ Answers /\ [Next]_vars => Answers'
<1> SUFFICES ASSUME Invariant, Answers, [Next]_vars PROVE Answers'
  OBVIOUS
<1> USE NothingIsNothing DEF Invariant, Answers, AnswersAreReal, Goto, End, Rollback, Me
<1>1. CASE UNCHANGED <<key, content, documents, pc, try, result>>
  BY <1>1
<1>2. ASSUME NEW r \in Requests, Send(r) PROVE Answers'
  BY <1>2 DEF Send, TypeOK, request
<1>3. ASSUME NEW r \in Requests, InsertKey(r) PROVE Answers'
  BY <1>3 DEF InsertKey, TypeOK, request, reply
<1>4. ASSUME NEW r \in Requests, FindKey(r) PROVE Answers'
  <2>1. key[r] \in Keys /\ pc[r] = "finding"
    BY <1>4 DEF FindKey, OnlyKeyed
  <2>2. /\ key' = key /\ content' = content /\ documents' = documents /\ try' = try
        /\ pc'[r] # "loading" /\ \A q \in Requests : q # r => pc'[q] = pc[q] /\ result'[q] = result[q]
    BY <1>4 DEF FindKey, TypeOK, request, reply
  <2>3. \/ result'[r] \in {NoTry, result[r]}
        \/ /\ result'[r] = rows[key[r]].owner /\ rows[key[r]].status = "COMPLETED"
           /\ rows[key[r]].content = content[r]
    BY <1>4 DEF FindKey, TypeOK, reply
  <2> QED BY <2>1, <2>2, <2>3 DEF KeysAreOwned, TypeOK
<1>5. ASSUME NEW r \in Requests, DeleteExpired(r) \/ Prepare(r) \/ SaveDocument(r) \/ ListLots(r) \/ Spend(r)
                                  \/ RefuseCharge(r) \/ Release(r) \/ Fail(r)
      PROVE Answers'
  <2>1. /\ key' = key /\ content' = content /\ documents' = documents /\ try' = try /\ result' = result
        /\ \A q \in Requests : pc'[q] = "loading" => pc[q] = "loading"
    BY <1>5 DEF DeleteExpired, Prepare, SaveDocument, ListLots, Spend, RefuseCharge, Release, Fail,
                TypeOK, request, reply
  <2> QED BY <2>1
<1>6. ASSUME NEW r \in Requests, Commit(r) PROVE Answers'
  BY <1>6 DEF Commit, TypeOK, request, reply
<1>7. ASSUME NEW r \in Requests, Respond(r) PROVE Answers'
  BY <1>7 DEF Respond, TypeOK, request, reply
<1>8. ASSUME NEW r \in Requests, Crash(r) PROVE Answers'
  BY <1>8 DEF Crash, TypeOK, request, reply
<1>9. ASSUME NEW k \in Keys, Lapse(k) PROVE Answers'
  BY <1>1, <1>9 DEF Lapse, request, reply
<1>10. ASSUME NEW l \in Lots, IssueLot(l) \/ LapseLot(l) PROVE Answers'
  BY <1>1, <1>10 DEF IssueLot, LapseLot, request, reply
<1> QED
  BY <1>1, <1>2, <1>3, <1>4, <1>5, <1>6, <1>7, <1>8, <1>9, <1>10 DEF Next, Step, vars, request, reply

\* Whoever is told of a document is told of a committed one of his key and content.
THEOREM AnswersReal == Spec => []AnswersAreReal
<1>1. Init => Answers
  BY DEF Init, Answers, AnswersAreReal
<1>2. Answers => AnswersAreReal
  BY DEF Answers
<1> QED BY <1>1, <1>2, AnswersKeep, InvariantHolds, PTL DEF Spec

-----------------------------------------------------------------------------
(* Who is refused for lack of credit. *)

\* A lot struck off the list is empty for good: a lot is issued once.
Searches ==
  /\ \A l \in Lots : remaining[l] > 0 => issued[l] > 0
  /\ \A r \in Requests : \A l \in present[r] : issued[l] > 0 /\ (l \notin listed[r] => remaining[l] = 0)
  /\ \A r \in Requests : answer[r] = "refused" => listed[r] = {} /\ pc[r] \in {"releasing", "done"}

LEMMA SearchesKeep == Invariant /\ Searches /\ [Next]_vars => Searches'
<1> SUFFICES ASSUME Invariant, Searches, [Next]_vars PROVE Searches'
  OBVIOUS
<1> USE LotAssumption DEF Invariant, Searches, Goto, End, Rollback, DropSearch
<1>1. CASE UNCHANGED <<issued, remaining, listed, present, answer, pc>>
  BY <1>1
<1>2. ASSUME NEW r \in Requests, Send(r) \/ Fail(r) \/ Crash(r) PROVE Searches'
  <2>1. /\ issued' = issued /\ remaining' = remaining
        /\ listed'[r] = {} /\ present'[r] = {} /\ answer'[r] # "refused"
        /\ \A q \in Requests : q # r => /\ listed'[q] = listed[q] /\ present'[q] = present[q]
                                        /\ pc'[q] = pc[q] /\ answer'[q] = answer[q]
    <3>1. CASE Send(r)
      BY <3>1 DEF Send, TypeOK, lots
    <3>2. CASE Fail(r)
      BY <3>2 DEF Fail, TypeOK, lots
    <3>3. CASE Crash(r)
      BY <3>3 DEF Crash, TypeOK, lots
    <3> QED BY <1>2, <3>1, <3>2, <3>3
  <2> QED BY <2>1
<1>3. ASSUME NEW r \in Requests, InsertKey(r) \/ FindKey(r) \/ DeleteExpired(r) \/ Prepare(r) \/ SaveDocument(r)
      PROVE Searches'
  <2>1. /\ issued' = issued /\ remaining' = remaining /\ listed' = listed /\ present' = present
        /\ pc[r] \notin {"releasing", "done"} /\ answer'[r] \in {answer[r], "in_progress", "mismatch", "replayed", "error"}
        /\ \A q \in Requests : q # r => pc'[q] = pc[q] /\ answer'[q] = answer[q]
    <3>1. CASE InsertKey(r)
      BY <3>1 DEF InsertKey, TypeOK, lots, search, reply
    <3>2. CASE FindKey(r)
      BY <3>2 DEF FindKey, TypeOK, lots, search, reply
    <3>3. CASE DeleteExpired(r)
      BY <3>3 DEF DeleteExpired, TypeOK, lots, search, reply
    <3>4. CASE Prepare(r)
      BY <3>4 DEF Prepare, TypeOK, lots, search, reply
    <3>5. CASE SaveDocument(r)
      BY <3>5 DEF SaveDocument, TypeOK, lots, search, reply
    <3> QED BY <1>3, <3>1, <3>2, <3>3, <3>4, <3>5
  <2> QED BY <2>1
<1>5. ASSUME NEW r \in Requests, ListLots(r) PROVE Searches'
  BY <1>5 DEF ListLots, Spendable, TypeOK, lots, reply
<1>6. ASSUME NEW r \in Requests, Spend(r) PROVE Searches'
  <2>1. /\ issued' = issued /\ remaining' = remaining /\ answer' = answer /\ present' = present
        /\ answer[r] # "refused"
        /\ \A q \in Requests : q # r => pc'[q] = pc[q] /\ listed'[q] = listed[q]
    BY <1>6 DEF Spend, TypeOK, lots, reply
  <2>2. \A l \in Lots : l \notin listed'[r] => l \notin listed[r] \/ remaining[l] = 0
    BY <1>6 DEF Spend, TypeOK
  <2>3. present[r] \subseteq Lots
    BY DEF TypeOK
  <2> QED BY <2>1, <2>2, <2>3
<1>7. ASSUME NEW r \in Requests, RefuseCharge(r) PROVE Searches'
  BY <1>7 DEF RefuseCharge, TypeOK, lots, search
<1>8. ASSUME NEW r \in Requests, Commit(r) PROVE Searches'
  <2>1. held[r] \in Lots /\ remaining[held[r]] \in Nat \ {0}
    BY <1>8 DEF Commit, Transactions, TypeOK
  <2>2. \A l \in Lots : remaining'[l] = IF l = held[r] THEN remaining[l] - 1 ELSE remaining[l]
    BY <1>8, <2>1 DEF Commit, TypeOK
  <2>3. \A l \in Lots : remaining[l] \in Nat
    BY DEF TypeOK
  <2>4. /\ issued' = issued /\ answer' = answer /\ answer[r] # "refused"
        /\ listed'[r] = {} /\ present'[r] = {}
        /\ \A q \in Requests : q # r => /\ listed'[q] = listed[q] /\ present'[q] = present[q]
                                        /\ pc'[q] = pc[q]
    BY <1>8 DEF Commit, TypeOK, reply
  <2>5. \A q \in Requests : present[q] \subseteq Lots
    BY DEF TypeOK
  <2> QED BY <2>1, <2>2, <2>3, <2>4, <2>5
<1>9. ASSUME NEW r \in Requests, Respond(r) \/ Release(r) PROVE Searches'
  BY <1>9 DEF Respond, Release, TypeOK, lots, search, reply
<1>10. ASSUME NEW k \in Keys, Lapse(k) PROVE Searches'
  BY <1>1, <1>10 DEF Lapse, lots, search, reply
<1>11. ASSUME NEW l \in Lots, IssueLot(l) PROVE Searches'
  BY <1>11 DEF IssueLot, TypeOK, search, reply
<1>12. ASSUME NEW l \in Lots, LapseLot(l) PROVE Searches'
  BY <1>1, <1>12 DEF LapseLot, search, reply
<1> QED
  BY <1>1, <1>2, <1>3, <1>5, <1>6, <1>7, <1>8, <1>9, <1>10, <1>11, <1>12
     DEF Next, Step, vars, lots, search, reply

\* Nobody is refused while a lot he could have charged keeps a credit.
THEOREM RefusalsAreRight == Spec => []RefusedWithoutCredit
<1>1. Init => Searches
  BY DEF Init, Searches
<1>2. Searches => RefusedWithoutCredit
  BY DEF Searches, RefusedWithoutCredit
<1> QED BY <1>1, <1>2, SearchesKeep, InvariantHolds, PTL DEF Spec

-----------------------------------------------------------------------------
(* The credits. *)

ReceiptsOf(d) == {x \in receipts : x[1] = d}
ReceiptsOn(l) == {x \in receipts : x[2] = l}

Balanced ==
  /\ \A d \in documents : Cardinality({x \in receipts : x[1] = d}) = 1
  /\ \A x \in receipts : x[1] \in documents
  /\ \A l \in Lots : remaining[l] + Cardinality({x \in receipts : x[2] = l}) = issued[l]
Credits == IsFiniteSet(receipts) /\ Balanced

LEMMA CreditsKeep == Invariant /\ Credits /\ [Next]_vars => Credits'
<1> SUFFICES ASSUME Invariant, Credits, [Next]_vars PROVE Credits'
  OBVIOUS
<1>1. CASE UNCHANGED <<documents, receipts, issued, remaining>>
  BY <1>1 DEF Credits, Balanced
<1>2. ASSUME NEW r \in Requests, Commit(r) PROVE Credits'
  <2> DEFINE new == <<Me(r), held[r]>>
  <2>1. Me(r) \notin documents
    BY <1>2, BoundAssumption DEF Commit, Invariant, DocumentsAreMade, Transactions, TypeOK, Me
  <2>2. /\ held[r] \in Lots /\ remaining[held[r]] > 0
        /\ documents' = documents \cup {Me(r)} /\ receipts' = receipts \cup {new} /\ issued' = issued
        /\ remaining' = [remaining EXCEPT ![held[r]] = @ - 1]
    BY <1>2 DEF Commit, Invariant, Transactions, TypeOK
  <2>3. new \notin receipts /\ ReceiptsOf(Me(r)) = {}
    BY <2>1 DEF Credits, Balanced, ReceiptsOf
  <2>4. IsFiniteSet(receipts')
    BY <2>2, FS_AddElement DEF Credits
  <2>5. \A d \in documents' : Cardinality({x \in receipts' : x[1] = d}) = 1
    <3> SUFFICES ASSUME NEW d \in documents' PROVE Cardinality({x \in receipts' : x[1] = d}) = 1
      OBVIOUS
    <3>1. CASE d = Me(r)
      <4>1. {x \in receipts' : x[1] = d} = {new}
        BY <2>2, <2>3, <3>1 DEF ReceiptsOf
      <4> QED BY <4>1, FS_Singleton
    <3>2. CASE d # Me(r)
      <4>1. {x \in receipts' : x[1] = d} = {x \in receipts : x[1] = d}
        BY <2>2, <3>2
      <4> QED BY <4>1, <2>2, <3>2 DEF Credits, Balanced
    <3> QED BY <3>1, <3>2
  <2>6. \A x \in receipts' : x[1] \in documents'
    BY <2>2 DEF Credits, Balanced
  <2>7. \A l \in Lots : remaining'[l] + Cardinality({x \in receipts' : x[2] = l}) = issued'[l]
    <3> SUFFICES ASSUME NEW l \in Lots
                 PROVE  remaining'[l] + Cardinality({x \in receipts' : x[2] = l}) = issued[l]
      BY <2>2
    <3>1. IsFiniteSet(ReceiptsOn(l))
      BY FS_Subset DEF Credits, ReceiptsOn
    <3>2. remaining[l] + Cardinality(ReceiptsOn(l)) = issued[l] /\ remaining[l] \in Nat
      BY DEF Credits, Balanced, ReceiptsOn, Invariant, TypeOK
    <3>3. CASE l = held[r]
      <4>1. {x \in receipts' : x[2] = l} = ReceiptsOn(l) \cup {new} /\ new \notin ReceiptsOn(l)
        BY <2>2, <2>3, <3>3 DEF ReceiptsOn
      <4>2. Cardinality(ReceiptsOn(l) \cup {new}) = Cardinality(ReceiptsOn(l)) + 1
        BY <3>1, <4>1, FS_AddElement
      <4>3. remaining'[l] = remaining[l] - 1
        BY <2>2, <3>3 DEF Invariant, TypeOK
      <4>4. Cardinality(ReceiptsOn(l)) \in Nat
        BY <3>1, FS_CardinalityType
      <4>5. Cardinality({x \in receipts' : x[2] = l}) = Cardinality(ReceiptsOn(l)) + 1
        BY <4>1, <4>2
      <4> DEFINE C == Cardinality(ReceiptsOn(l))  D == Cardinality({x \in receipts' : x[2] = l})
      <4>6. C \in Nat /\ D = C + 1 /\ remaining[l] + C = issued[l]
        BY <3>2, <4>4, <4>5
      <4> HIDE DEF C, D
      <4>7. remaining'[l] + D = issued[l]
        BY <3>2, <4>3, <4>6
      <4> QED BY <4>7 DEF D
    <3>4. CASE l # held[r]
      <4>1. {x \in receipts' : x[2] = l} = ReceiptsOn(l)
        BY <2>2, <3>4 DEF ReceiptsOn
      <4>2. remaining'[l] = remaining[l]
        BY <2>2, <3>4 DEF Invariant, TypeOK
      <4> QED BY <3>2, <4>1, <4>2
    <3> QED BY <3>3, <3>4
  <2> QED BY <2>4, <2>5, <2>6, <2>7 DEF Credits, Balanced
<1>3. ASSUME NEW l \in Lots, IssueLot(l) PROVE Credits'
  <2>1. /\ documents' = documents /\ receipts' = receipts /\ issued[l] = 0
        /\ \A m \in Lots : /\ issued'[m] = IF m = l THEN LotSize ELSE issued[m]
                           /\ remaining'[m] = IF m = l THEN LotSize ELSE remaining[m]
    BY <1>3 DEF IssueLot, Invariant, TypeOK
  <2>2. IsFiniteSet(ReceiptsOn(l))
    BY FS_Subset DEF Credits, ReceiptsOn
  <2>3. Cardinality(ReceiptsOn(l)) \in Nat /\ remaining[l] \in Nat
    BY <2>2, FS_CardinalityType DEF Invariant, TypeOK
  <2>4. Cardinality(ReceiptsOn(l)) = 0
    BY <2>1, <2>3 DEF Credits, Balanced, ReceiptsOn
  <2>5. ASSUME NEW m \in Lots PROVE remaining'[m] + Cardinality({x \in receipts' : x[2] = m}) = issued'[m]
    <3>1. CASE m = l
      <4>1. Cardinality({x \in receipts' : x[2] = m}) = 0
        BY <2>1, <2>4, <3>1 DEF ReceiptsOn
      <4> QED BY <2>1, <3>1, <4>1, LotAssumption
    <3>2. CASE m # l
      BY <2>1, <3>2 DEF Credits, Balanced
    <3> QED BY <3>1, <3>2
  <2> QED BY <2>1, <2>5 DEF Credits, Balanced
<1>4. ASSUME NEW r \in Requests,
             \/ Send(r) \/ InsertKey(r) \/ FindKey(r) \/ DeleteExpired(r) \/ Prepare(r) \/ SaveDocument(r)
             \/ ListLots(r) \/ Spend(r) \/ RefuseCharge(r) \/ Respond(r) \/ Release(r) \/ Fail(r) \/ Crash(r)
      PROVE UNCHANGED <<documents, receipts, issued, remaining>>
  BY <1>4 DEF Send, InsertKey, FindKey, DeleteExpired, Prepare, SaveDocument, ListLots, Spend, RefuseCharge,
              Respond, Release, Fail, Crash, lots
<1>5. ASSUME NEW k \in Keys, Lapse(k) PROVE Credits'
  BY <1>1, <1>5 DEF Lapse, lots
<1>6. ASSUME NEW l \in Lots, LapseLot(l) PROVE Credits'
  BY <1>1, <1>6 DEF LapseLot
<1> QED BY <1>1, <1>2, <1>3, <1>4, <1>5, <1>6 DEF Next, Step, vars, lots

\* Every document is paid once, and every lot accounts for its credits.
THEOREM CreditsAlwaysBalance == Spec => []CreditsBalance
<1>1. Init => Credits
  BY FS_EmptySet DEF Init, Credits, Balanced
<1>2. Invariant /\ Credits => CreditsBalance
  BY DEF Invariant, TypeOK, Credits, Balanced, CreditsBalance
<1> QED BY <1>1, <1>2, CreditsKeep, InvariantHolds, PTL DEF Spec

-----------------------------------------------------------------------------
(* A key creates one document. *)

\* A completed key has one document since it was last forgotten; a reservation has none.
CountsOf(k) ==
  /\ IsFiniteSet(DocumentsOf(k)) /\ forgotten[k] \in Nat
  /\ Cardinality(DocumentsOf(k)) = forgotten[k] + (IF rows[k].status = "COMPLETED" THEN 1 ELSE 0)

Counts == \A k \in Keys : CountsOf(k)

\* What the actions do to the documents, the keys and their memory.
LEMMA KeySteps ==
  ASSUME Invariant, [Next]_vars
  PROVE  \/ /\ key' = key /\ documents' = documents /\ forgotten' = forgotten
            /\ \A k \in Keys : /\ rows[k].status # "COMPLETED" => rows'[k].status # "COMPLETED"
                               /\ rows[k].status = "COMPLETED" => rows'[k].status = "COMPLETED" /\ rows'[k].owner = rows[k].owner
         \/ \E k \in Keys : /\ rows[k].status = "COMPLETED" /\ rows' = [rows EXCEPT ![k] = NoRow]
                            /\ forgotten' = [forgotten EXCEPT ![k] = @ + 1]
                            /\ key' = key /\ documents' = documents
         \/ \E r \in Requests :
              /\ key' = key /\ forgotten' = forgotten
              /\ Me(r) \in Tries /\ Me(r) \notin documents /\ documents' = documents \cup {Me(r)}
              /\ \/ key[r] = NoKey /\ rows' = rows
                 \/ /\ key[r] \in Keys
                    /\ rows[key[r]].status = "PROCESSING" /\ rows[key[r]].owner = Me(r)
                    /\ rows'[key[r]].status = "COMPLETED" /\ rows'[key[r]].owner = Me(r)
                    /\ \A k \in Keys : k # key[r] => rows'[k] = rows[k]
<1> USE NothingIsNothing DEF request
<1> DEFINE Same == /\ key' = key /\ documents' = documents /\ forgotten' = forgotten
                   /\ \A k \in Keys : /\ rows[k].status # "COMPLETED" => rows'[k].status # "COMPLETED"
                                      /\ rows[k].status = "COMPLETED" => rows'[k].status = "COMPLETED" /\ rows'[k].owner = rows[k].owner
<1>1. CASE UNCHANGED <<key, documents, forgotten, rows>>
  BY <1>1
<1>2. ASSUME NEW r \in Requests, InsertKey(r) PROVE Same
  <2>1. key[r] \in Keys
    BY <1>2 DEF InsertKey, Invariant, OnlyKeyed
  <2> QED BY <1>2, <2>1 DEF InsertKey, Invariant, TypeOK
<1>3. ASSUME NEW r \in Requests, DeleteExpired(r), ~Same
      PROVE  \E k \in Keys : /\ rows[k].status = "COMPLETED" /\ rows' = [rows EXCEPT ![k] = NoRow]
                             /\ forgotten' = [forgotten EXCEPT ![k] = @ + 1]
                             /\ key' = key /\ documents' = documents
  <2>1. key[r] \in Keys
    BY <1>3 DEF DeleteExpired, Invariant, OnlyKeyed
  <2>2. CASE rows[key[r]].status = "COMPLETED"
    BY <1>3, <2>1, <2>2 DEF DeleteExpired, Invariant, TypeOK
  <2>3. CASE rows[key[r]].status # "COMPLETED"
    BY <1>3, <2>1, <2>3 DEF DeleteExpired, Invariant, TypeOK
  <2> QED BY <2>2, <2>3
<1>4. ASSUME NEW r \in Requests, Commit(r)
      PROVE  /\ key' = key /\ forgotten' = forgotten
             /\ Me(r) \in Tries /\ Me(r) \notin documents /\ documents' = documents \cup {Me(r)}
             /\ \/ key[r] = NoKey /\ rows' = rows
                \/ /\ key[r] \in Keys
                   /\ rows[key[r]].status = "PROCESSING" /\ rows[key[r]].owner = Me(r)
                   /\ rows'[key[r]].status = "COMPLETED" /\ rows'[key[r]].owner = Me(r)
                   /\ \A k \in Keys : k # key[r] => rows'[k] = rows[k]
  <2>1. pc[r] = "committing" /\ try[r] >= 1 /\ try[r] \in 1..MaxTries /\ key[r] \in Keys \cup {NoKey}
    BY <1>4, BoundAssumption DEF Commit, Invariant, Transactions, TypeOK
  <2>2. Me(r) \in Tries /\ Me(r) \notin documents
    BY <2>1, TryIsNamed DEF Invariant, DocumentsAreMade, Me
  <2>3. completing[r] <=> key[r] # NoKey
    BY <2>1 DEF Invariant, Transactions, InTransaction
  <2>4. CASE key[r] = NoKey
    BY <1>4, <2>2, <2>3, <2>4 DEF Commit
  <2>5. CASE key[r] # NoKey
    <3>1. /\ key[r] \in Keys /\ rows[key[r]] \in Row
          /\ rows[key[r]].status = "PROCESSING" /\ rows[key[r]].owner = Me(r)
      BY <2>1, <2>3, <2>5 DEF Invariant, Transactions, TypeOK
    <3>2. rows' = [rows EXCEPT ![key[r]].status = "COMPLETED", ![key[r]].expired = FALSE]
      BY <1>4, <2>3, <2>5 DEF Commit
    <3>3. /\ rows'[key[r]].status = "COMPLETED" /\ rows'[key[r]].owner = Me(r)
          /\ \A k \in Keys : k # key[r] => rows'[k] = rows[k]
      BY <3>1, <3>2 DEF Invariant, TypeOK, Row
    <3> QED BY <1>4, <2>2, <3>1, <3>3 DEF Commit
  <2> QED BY <2>4, <2>5
<1>5. ASSUME NEW r \in Requests, Release(r) PROVE Same
  <2>1. key[r] \in Keys
    BY <1>5 DEF Release, Invariant, OnlyKeyed
  <2> QED BY <1>5, <2>1 DEF Release, Reserved, Invariant, TypeOK
<1>6. ASSUME NEW r \in Requests,
             \/ Send(r) \/ FindKey(r) \/ Prepare(r) \/ SaveDocument(r) \/ ListLots(r) \/ Spend(r)
             \/ RefuseCharge(r) \/ Respond(r) \/ Fail(r) \/ Crash(r)
      PROVE Same
  BY <1>6 DEF Send, FindKey, Prepare, SaveDocument, ListLots, Spend, RefuseCharge, Respond, Fail, Crash
<1>7. ASSUME NEW k \in Keys, Lapse(k) PROVE Same
  <2>1. rows[k] \in Row
    BY DEF Invariant, TypeOK
  <2> QED BY <1>7, <2>1 DEF Lapse, Invariant, TypeOK, Row
<1>8. ASSUME NEW l \in Lots, IssueLot(l) \/ LapseLot(l) PROVE Same
  BY <1>8 DEF IssueLot, LapseLot
<1> QED
  BY <1>1, <1>2, <1>3, <1>4, <1>5, <1>6, <1>7, <1>8 DEF Next, Step, vars

LEMMA CountsKeep == Invariant /\ Counts /\ [Next]_vars => Counts'
<1> SUFFICES ASSUME Invariant, Counts, [Next]_vars, NEW k \in Keys PROVE CountsOf(k)'
  BY DEF Counts
<1>1. CountsOf(k)
  BY DEF Counts
<1>2. CASE /\ key' = key /\ documents' = documents /\ forgotten' = forgotten
           /\ \A q \in Keys : /\ rows[q].status # "COMPLETED" => rows'[q].status # "COMPLETED"
                              /\ rows[q].status = "COMPLETED" => rows'[q].status = "COMPLETED" /\ rows'[q].owner = rows[q].owner
  <2>1. DocumentsOf(k)' = DocumentsOf(k)
    BY <1>2 DEF DocumentsOf
  <2>2. (IF rows'[k].status = "COMPLETED" THEN 1 ELSE 0) = (IF rows[k].status = "COMPLETED" THEN 1 ELSE 0)
    BY <1>2
  <2>3. forgotten'[k] = forgotten[k]
    BY <1>2
  <2> QED BY <1>1, <2>1, <2>2, <2>3 DEF CountsOf
<1>3. ASSUME NEW q \in Keys, rows[q].status = "COMPLETED", rows' = [rows EXCEPT ![q] = NoRow],
             forgotten' = [forgotten EXCEPT ![q] = @ + 1], key' = key, documents' = documents
      PROVE  CountsOf(k)'
  <2>1. DocumentsOf(k)' = DocumentsOf(k)
    BY <1>3 DEF DocumentsOf
  <2>2. /\ rows'[k].status = IF k = q THEN "none" ELSE rows[k].status
        /\ forgotten'[k] = IF k = q THEN forgotten[k] + 1 ELSE forgotten[k]
    BY <1>3, NothingIsNothing DEF Invariant, TypeOK
  <2> QED BY <1>1, <1>3, <2>1, <2>2 DEF CountsOf
<1>4. ASSUME NEW r \in Requests, key' = key, forgotten' = forgotten,
             Me(r) \notin documents, documents' = documents \cup {Me(r)},
             \/ key[r] = NoKey /\ rows' = rows
             \/ /\ key[r] \in Keys /\ rows[key[r]].status = "PROCESSING" /\ rows'[key[r]].status = "COMPLETED"
                /\ \A q \in Keys : q # key[r] => rows'[q] = rows[q]
      PROVE  CountsOf(k)'
  <2>1. CASE key[r] = k
    <3>1. DocumentsOf(k)' = DocumentsOf(k) \cup {Me(r)} /\ Me(r) \notin DocumentsOf(k)
      BY <1>4, <2>1 DEF DocumentsOf, Me
    <3>2. /\ IsFiniteSet(DocumentsOf(k)')
          /\ Cardinality(DocumentsOf(k)') = Cardinality(DocumentsOf(k)) + 1
      BY <1>1, <3>1, FS_AddElement DEF CountsOf
    <3> QED BY <1>1, <1>4, <2>1, <3>2, KeyAssumption DEF CountsOf
  <2>2. CASE key[r] # k
    <3>1. DocumentsOf(k)' = DocumentsOf(k) /\ rows'[k] = rows[k]
      BY <1>4, <2>2 DEF DocumentsOf, Me
    <3> QED BY <1>1, <1>4, <3>1 DEF CountsOf
  <2> QED BY <2>1, <2>2
<1> QED BY <1>2, <1>3, <1>4, KeySteps

\* However often a request is repeated, its key creates one document per retention.
THEOREM KeysCreateOnce == Spec => []OneDocumentPerKey
<1>1. Init => Counts
  BY FS_EmptySet, NothingIsNothing DEF Init, Counts, CountsOf, DocumentsOf
<1>2. Counts => OneDocumentPerKey
  BY DEF Counts, CountsOf, OneDocumentPerKey
<1> QED BY <1>1, <1>2, CountsKeep, InvariantHolds, PTL DEF Spec

-----------------------------------------------------------------------------
(* The refinement. *)

LEMMA StepRefines == Invariant /\ [Next]_vars => [Once!Next]_<<Remembered, Effect>>
<1> SUFFICES ASSUME Invariant, [Next]_vars
             PROVE  Once!Next \/ UNCHANGED <<Remembered, Effect>>
  BY DEF Once!Next
<1>1. CASE /\ key' = key /\ documents' = documents /\ forgotten' = forgotten
           /\ \A q \in Keys : /\ rows[q].status # "COMPLETED" => rows'[q].status # "COMPLETED"
                              /\ rows[q].status = "COMPLETED" => rows'[q].status = "COMPLETED" /\ rows'[q].owner = rows[q].owner
  <2>1. Effect' = Effect
    BY <1>1 DEF Effect
  <2>2. ASSUME NEW q \in Keys PROVE Remembered'[q] = Remembered[q]
    BY <1>1 DEF Remembered
  <2>3. Remembered' = Remembered
    BY <2>2 DEF Remembered
  <2> QED BY <2>1, <2>3
<1>2. ASSUME NEW q \in Keys, rows[q].status = "COMPLETED", rows' = [rows EXCEPT ![q] = NoRow],
             key' = key, documents' = documents
      PROVE  Once!Forget(q)
  <2>1. Remembered[q] # NoTry
    BY <1>2, BoundAssumption DEF Remembered, Invariant, KeysAreOwned, Tries, NoTry
  <2>2. Remembered' = [Remembered EXCEPT ![q] = NoTry]
    BY <1>2, NothingIsNothing DEF Remembered, Invariant, TypeOK
  <2>3. Effect' = Effect
    BY <1>2 DEF Effect
  <2> QED BY <2>1, <2>2, <2>3 DEF Once!Forget
<1>3. ASSUME NEW r \in Requests, key' = key, Me(r) \notin documents, documents' = documents \cup {Me(r)},
             key[r] = NoKey, rows' = rows
      PROVE  UNCHANGED <<Remembered, Effect>>
  BY <1>3 DEF Remembered, Effect, Me
<1>4. ASSUME NEW r \in Requests, key' = key, Me(r) \notin documents, documents' = documents \cup {Me(r)},
             key[r] \in Keys, rows[key[r]].status = "PROCESSING",
             rows'[key[r]].status = "COMPLETED", rows'[key[r]].owner = Me(r),
             \A q \in Keys : q # key[r] => rows'[q] = rows[q]
      PROVE  Once!Perform(key[r], Me(r))
  <2>1. Remembered[key[r]] = NoTry /\ <<key[r], Me(r)>> \notin Effect
    BY <1>4 DEF Remembered, Effect
  <2>2. Remembered' = [Remembered EXCEPT ![key[r]] = Me(r)]
    BY <1>4 DEF Remembered
  <2>3. Effect' = Effect \cup {<<key[r], Me(r)>>}
    <3>1. key[Me(r)[1]] = key[r] /\ key[r] # NoKey
      BY <1>4, KeyAssumption DEF Me
    <3> QED BY <1>4, <3>1 DEF Effect
  <2> QED BY <2>1, <2>2, <2>3 DEF Once!Perform
<1> QED BY <1>1, <1>2, <1>3, <1>4, KeySteps DEF Once!Next

\* The creation implements the promise of a key, retention included.
THEOREM RefinesOnceOnly == Spec => ImplementsOnceOnly
<1>1. Init => Once!Init
  BY NothingIsNothing DEF Init, Once!Init, Remembered, Effect
<1> QED BY <1>1, StepRefines, InvariantHolds, PTL DEF Spec, ImplementsOnceOnly, Once!Spec
=============================================================================
