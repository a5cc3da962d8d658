---------------------------- MODULE PublicSigning ----------------------------
(***************************************************************************)
(* ONE signer who signs without account from the public screen: the        *)
(* invitations that are issued, renewed and revoked, the launches that the *)
(* portal of an integrator asks for, the session that a code opens, and    *)
(* the signature itself, which runs once per Idempotency-Key.              *)
(*                                                                         *)
(* A request is a process; one action is what it does between two awaits   *)
(* that others can notice.  The transactions of the code and of the claim  *)
(* are atomic here: GuestSigning takes them apart.                         *)
(*                                                                         *)
(*   invitations, expired   rows of signing_invitations; expires_at passed *)
(*   launches               rows of signing_launch_tokens                  *)
(*   cookies                invitations for which an access cookie exists  *)
(*   code                   a code was mailed and is not used              *)
(*   sessions, over         PUBLIC_SIGNING_SESSION accesses; their 30      *)
(*                          minutes are over                               *)
(*   signer, open           his status; the document waits for him         *)
(*   store                  the Idempotency-Keys in Redis                  *)
(*   pc, job                control and locals of each request             *)
(*   signatures, told, lapsed, cut   history: key and content of each      *)
(*     signature; contents answered "signed", per key; keys whose lease    *)
(*     ended; an invitation was revoked and its successor not inserted     *)
(***************************************************************************)
EXTENDS Naturals, FiniteSets

CONSTANTS Requests,     \* requests in flight at a time
          Invitations,  \* ids an invitation may take
          Launches,     \* ids a launch may take
          Sessions,     \* ids a session may take
          Keys,         \* Idempotency-Keys of the client
          Contents,     \* fingerprints of what it sends
          Faults        \* "insert", "finish", "redis", "crash", "slow"

NoOne == "no one"       \* an id that a request or a launch does not have

VARIABLES invitations, expired, launches, cookies, code, sessions, over,
          signer, open, store, pc, job, signatures, told, lapsed, cut

links    == <<invitations, expired, launches, cookies>>
access   == <<code, sessions, over>>
answer   == <<signer, open, signatures>>
keys     == <<store, told, lapsed>>
vars     == <<links, access, answer, keys, pc, job, cut>>

Job == [invitation : Invitations \cup {NoOne}, launch : Launches \cup {NoOne},
        session : Sessions \cup {NoOne}, key : Keys \cup {NoOne},
        content : Contents \cup {NoOne}, available : BOOLEAN]
NoJob == [invitation |-> NoOne, launch |-> NoOne, session |-> NoOne,
          key |-> NoOne, content |-> NoOne, available |-> FALSE]

\* Points of deliver and ensureOpen, of verifyCode, and of a signature: before
\* the reservation and after it.
Issuing == {"revoke", "insert"}
Running == {"check", "claim", "finish", "release"}
Points  == {"idle", "find", "launch", "verify", "reserve", "lookup"}
           \cup Issuing \cup Running

Free == [state |-> "free", content |-> NoOne]

Init ==
  /\ invitations = [i \in Invitations |-> "none"] /\ expired = {}
  /\ launches = [l \in Launches |-> [state |-> "none", invitation |-> NoOne]]
  /\ cookies = {} /\ code = FALSE
  /\ sessions = [s \in Sessions |-> [state |-> "none", invitation |-> NoOne]]
  /\ over = {}
  /\ signer = "PENDING" /\ open = TRUE
  /\ store = [k \in Keys |-> Free]
  /\ pc = [r \in Requests |-> "idle"] /\ job = [r \in Requests |-> NoJob]
  /\ signatures = {}
  /\ told = [k \in Keys |-> {}] /\ lapsed = {} /\ cut = FALSE

Goto(r, next) == pc' = [pc EXCEPT ![r] = next] /\ UNCHANGED job
End(r) == pc' = [pc EXCEPT ![r] = "idle"] /\ job' = [job EXCEPT ![r] = NoJob]

\* assertPendingSignature and the status of the collaborator.
Awaited == open /\ signer = "PENDING"

\* resolveSigningInvitationStatus = ACTIVE.
Active(i) == invitations[i] = "open" /\ i \notin expired /\ Awaited

\* Ids that no row and no request has taken.
FreshInvitations == {i \in Invitations : invitations[i] = "none"}
                    \ {job[r].invitation : r \in Requests}
FreshLaunches == {l \in Launches : launches[l].state = "none"}
                 \ {job[r].launch : r \in Requests}

\* UPDATE ... SET revoked_at of every session that is active.
ClosedSessions == [s \in Sessions |->
  IF sessions[s].state = "active" THEN [sessions[s] EXCEPT !.state = "revoked"]
  ELSE sessions[s]]

-----------------------------------------------------------------------------
(* Invitations and launches.                                               *)

\* deliver: the rate limit lets it pass, and issue begins.
Deliver(r) ==
  /\ pc[r] = "idle"
  /\ \E i \in FreshInvitations : job' = [job EXCEPT ![r].invitation = i]
  /\ pc' = [pc EXCEPT ![r] = "revoke"]
  /\ UNCHANGED <<links, access, answer, keys, cut>>

\* The integrator has the invitation sent again.
Resend(r) == Awaited /\ Deliver(r)

\* The signer renews a link that has expired and nobody has revoked.
Renew(r) == /\ \E i \in expired : invitations[i] = "open"
            /\ Awaited /\ Deliver(r)

\* The integrator asks for a launch: the same checks, and then ensureOpen.
StartLaunch(r) ==
  /\ pc[r] = "idle" /\ Awaited
  /\ \E l \in FreshLaunches : job' = [job EXCEPT ![r].launch = l]
  /\ pc' = [pc EXCEPT ![r] = "find"]
  /\ UNCHANGED <<links, access, answer, keys, cut>>

\* ensureOpen takes the open invitation that has not expired, or issues one.
EnsureOpen(r) ==
  /\ pc[r] = "find"
  /\ LET usable == {i \in Invitations : invitations[i] = "open"} \ expired
     IN  \/ \E i \in usable : /\ job' = [job EXCEPT ![r].invitation = i]
                              /\ pc' = [pc EXCEPT ![r] = "launch"]
         \/ /\ usable = {}
            /\ \E i \in FreshInvitations :
                 job' = [job EXCEPT ![r].invitation = i]
            /\ pc' = [pc EXCEPT ![r] = "revoke"]
  /\ UNCHANGED <<links, access, answer, keys, cut>>

\* issue runs without a transaction: first the UPDATE that revokes ...
Revoke(r) ==
  /\ pc[r] = "revoke"
  /\ invitations' = [i \in Invitations |->
       IF invitations[i] = "open" THEN "revoked" ELSE invitations[i]]
  /\ Goto(r, "insert")
  /\ UNCHANGED <<expired, launches, cookies, access, answer, keys, cut>>

Inserted(r) ==
  /\ invitations' = [invitations EXCEPT ![job[r].invitation] = "open"]
  /\ IF job[r].launch = NoOne THEN End(r) ELSE Goto(r, "launch")
  /\ UNCHANGED <<expired, launches, cookies, access, answer, keys, cut>>

\* Mutant: the table without its partial unique index.
MutInsert(r) == pc[r] = "insert" /\ Inserted(r)

\* ... and then the INSERT, which UQ_signing_invitations_open refuses while
\* another invitation of the signer is open.
Insert(r) ==
  /\ pc[r] = "insert"
  /\ IF \E i \in Invitations : invitations[i] = "open"
     THEN End(r) /\ UNCHANGED <<links, access, answer, keys, cut>>
     ELSE Inserted(r)

\* The INSERT fails for a reason of its own, or the process ends before it.
InsertFails(r) ==
  /\ "insert" \in Faults /\ pc[r] = "insert"
  /\ End(r) /\ cut' = TRUE
  /\ UNCHANGED <<links, access, answer, keys>>

IssueLaunch(r) ==
  /\ pc[r] = "launch"
  /\ launches' = [launches EXCEPT ![job[r].launch] =
                    [state |-> "open", invitation |-> job[r].invitation]]
  /\ End(r)
  /\ UNCHANGED <<invitations, expired, cookies, access, answer, keys, cut>>

\* expires_at of an invitation passes; the row stays open for the index.
Expire(i) ==
  /\ invitations[i] = "open" /\ expired' = expired \cup {i}
  /\ UNCHANGED <<invitations, launches, cookies, access, answer, keys, pc, job, cut>>

\* openWithInvitationToken: an access cookie, when the invitation is active.
OpenLink(i) ==
  /\ Active(i) /\ cookies' = cookies \cup {i}
  /\ UNCHANGED <<invitations, expired, launches, access, answer, keys, pc, job, cut>>

\* openWithLaunchToken: the launch is used up, whatever its invitation is.
RedeemLaunch(l) ==
  /\ launches[l].state = "open"
  /\ launches' = [launches EXCEPT ![l].state = "used"]
  /\ cookies' = cookies \cup {i \in {launches[l].invitation} : Active(i)}
  /\ UNCHANGED <<invitations, expired, access, answer, keys, pc, job, cut>>

-----------------------------------------------------------------------------
(* The code and the session.                                               *)

\* requestCode.
RequestCode(i) ==
  /\ i \in cookies /\ Active(i) /\ code' = TRUE
  /\ UNCHANGED <<links, sessions, over, answer, keys, pc, job, cut>>

\* verifyCode reads the invitation first ...
ReadInvitation(r) ==
  /\ pc[r] = "idle"
  /\ \E i \in cookies : Active(i) /\ job' = [job EXCEPT ![r].invitation = i]
  /\ pc' = [pc EXCEPT ![r] = "verify"]
  /\ UNCHANGED <<links, access, answer, keys, cut>>

\* ... and its transaction consumes the code and issues the session, whatever
\* has become of the invitation since.  No code, or a wrong one: 400.
OpenSession(r) ==
  /\ pc[r] = "verify"
  /\ End(r)
  /\ \/ /\ code
        /\ \E s \in Sessions :
             /\ sessions[s].state = "none"
             /\ sessions' = [ClosedSessions EXCEPT ![s] =
                  [state |-> "active", invitation |-> job[r].invitation]]
        /\ code' = FALSE
     \/ UNCHANGED <<code, sessions>>
  /\ UNCHANGED <<links, over, answer, keys, cut>>

EndSession(s) ==
  /\ sessions[s].state \in {"active", "consumed"} /\ over' = over \cup {s}
  /\ UNCHANGED <<links, code, sessions, answer, keys, pc, job, cut>>

-----------------------------------------------------------------------------
(* The signature: runSigning.                                              *)

\* PublicSigningSessionGuard: findUsable accepts a consumed session, for the
\* retries.  What it read of the document and the signer goes with the request.
Usable(s) ==
  /\ sessions[s].state \in {"active", "consumed"} /\ s \notin over
  /\ invitations[sessions[s].invitation] = "open"

StartSigning(r) ==
  /\ pc[r] = "idle"
  /\ \E s \in Sessions, k \in Keys, c \in Contents :
       /\ sessions[s].state # "none" /\ Usable(s)
       /\ job' = [job EXCEPT ![r] = [@ EXCEPT !.session = s, !.key = k,
                                     !.content = c, !.available = Awaited]]
  /\ pc' = [pc EXCEPT ![r] = "reserve"]
  /\ UNCHANGED <<links, access, answer, keys, cut>>

\* Mutant: GET and then SET, instead of one SET NX.
MutReserve(r) ==
  /\ \/ /\ pc[r] = "reserve" /\ store[job[r].key] = Free
        /\ Goto(r, "lookup") /\ UNCHANGED store
     \/ /\ pc[r] = "reserve" /\ store[job[r].key] # Free
        /\ End(r) /\ UNCHANGED store
     \/ /\ pc[r] = "lookup"
        /\ store' = [store EXCEPT ![job[r].key] =
                       [state |-> "PROCESSING", content |-> job[r].content]]
        /\ Goto(r, "check")
  /\ UNCHANGED <<links, access, answer, told, lapsed, cut>>

\* SET NX EX: the key is reserved, or somebody has it.
Reserve(r) ==
  /\ pc[r] = "reserve"
  /\ IF store[job[r].key] = Free
     THEN /\ store' = [store EXCEPT ![job[r].key] =
                         [state |-> "PROCESSING", content |-> job[r].content]]
          /\ Goto(r, "check")
     ELSE Goto(r, "lookup") /\ UNCHANGED store
  /\ UNCHANGED <<links, access, answer, told, lapsed, cut>>

\* GET: 409 when it lapsed or is running, 422 for another content, or the
\* stored answer.
Lookup(r) ==
  /\ pc[r] = "lookup"
  /\ End(r)
  /\ LET j == job[r]
     IN told' = IF store[j.key] = [state |-> "COMPLETED", content |-> j.content]
                THEN [told EXCEPT ![j.key] = @ \cup {j.content}] ELSE told
  /\ UNCHANGED <<links, access, answer, store, lapsed, cut>>

\* assertReadyToSign asks with what the guard read, and sign with the rows as
\* they are now.
ReadyToSign(r) == job[r].available /\ Awaited

\* signSimple or signAdvanced, up to the claim.  The identity, the rubric or
\* the certificate may be refused as well.
Check(r) ==
  /\ pc[r] = "check"
  /\ \/ ReadyToSign(r) /\ Goto(r, "claim")
     \/ Goto(r, "release")
  /\ UNCHANGED <<links, access, answer, keys, cut>>

\* claimWithGuestAccess.
Claim(r) ==
  /\ pc[r] = "claim"
  /\ LET s == job[r].session
     IN  IF sessions[s].state = "active" /\ s \notin over /\ signer = "PENDING"
         THEN /\ sessions' = [ClosedSessions EXCEPT ![s] =
                                [sessions[s] EXCEPT !.state = "consumed"]]
              /\ signer' = "SIGNED"
              /\ signatures' = signatures \cup {<<job[r].key, job[r].content>>}
              /\ Goto(r, "finish")
         ELSE Goto(r, "release") /\ UNCHANGED <<sessions, signer, signatures>>
  /\ UNCHANGED <<links, code, over, open, keys, cut>>

\* The rest of completeSignature (snapshot, sealing or preview, events) and
\* the SET of the answer, which then goes out.
Store(r) ==
  /\ pc[r] = "finish"
  /\ LET j == job[r]
     IN  /\ store' = [store EXCEPT ![j.key] =
                        [state |-> "COMPLETED", content |-> j.content]]
         /\ told' = [told EXCEPT ![j.key] = @ \cup {j.content}]
  /\ End(r)
  /\ UNCHANGED <<links, access, answer, lapsed, cut>>

\* One of them fails: the signature stands and its request ends in an error.
StoreFails(r) ==
  /\ "finish" \in Faults /\ pc[r] = "finish"
  /\ Goto(r, "release")
  /\ UNCHANGED <<links, access, answer, keys, cut>>

\* The catch: DEL of the key, whoever has it by now; its own failure is ignored.
Release(r) ==
  /\ pc[r] = "release"
  /\ \/ store' = [store EXCEPT ![job[r].key] = Free]
     \/ "redis" \in Faults /\ UNCHANGED store
  /\ End(r)
  /\ UNCHANGED <<links, access, answer, told, lapsed, cut>>

\* The process of a signature ends in the middle of it.
Crash(r) ==
  /\ "crash" \in Faults /\ pc[r] \in {"reserve", "lookup"} \cup Running
  /\ End(r)
  /\ UNCHANGED <<links, access, answer, keys, cut>>

\* Mutant: the answer is stored with the ten minutes of the reservation.
MutLapse(k) ==
  /\ store[k].state # "free"
  /\ \A r \in Requests : job[r].key = k => pc[r] \notin Running
  /\ store' = [store EXCEPT ![k] = Free]
  /\ UNCHANGED <<links, access, answer, told, lapsed, pc, job, cut>>

\* The ten minutes of a reservation pass.  Unless signatures may be that slow
\* ("slow"), nobody is running under it any more.
Lapse(k) ==
  /\ store[k].state = "PROCESSING"
  /\ LET held == \E r \in Requests : job[r].key = k /\ pc[r] \in Running
     IN  /\ held => "slow" \in Faults
         /\ lapsed' = IF held THEN lapsed \cup {k} ELSE lapsed
  /\ store' = [store EXCEPT ![k] = Free]
  /\ UNCHANGED <<links, access, answer, told, pc, job, cut>>

-----------------------------------------------------------------------------
(* The rest of the system.                                                 *)

\* He signs or rejects from his account, which revokes his sessions.
AnswerElsewhere ==
  /\ Awaited /\ signer' \in {"SIGNED", "REJECTED"}
  /\ sessions' = ClosedSessions
  /\ UNCHANGED <<links, code, over, open, signatures, keys, pc, job, cut>>

\* The document is cancelled or another signer rejects it.
CloseDocument ==
  /\ open /\ open' = FALSE /\ sessions' = ClosedSessions
  /\ UNCHANGED <<links, code, over, signer, signatures, keys, pc, job, cut>>

Inviting(r) == \/ Resend(r) \/ Renew(r) \/ StartLaunch(r) \/ EnsureOpen(r)
               \/ Revoke(r) \/ Insert(r) \/ InsertFails(r) \/ IssueLaunch(r)
Entering(r) == ReadInvitation(r) \/ OpenSession(r)
Signing(r)  == \/ Reserve(r) \/ Lookup(r) \/ Check(r) \/ Claim(r)
               \/ Store(r) \/ StoreFails(r) \/ Release(r)

Next == \/ \E r \in Requests : \/ Inviting(r) \/ Entering(r)
                               \/ StartSigning(r) \/ Signing(r) \/ Crash(r)
        \/ \E i \in Invitations : Expire(i) \/ OpenLink(i) \/ RequestCode(i)
        \/ \E l \in Launches : RedeemLaunch(l)
        \/ \E s \in Sessions : EndSession(s)
        \/ \E k \in Keys : Lapse(k)
        \/ AnswerElsewhere \/ CloseDocument

\* A request that runs goes on, and time passes: a reservation nobody holds
\* expires in Redis.  Nobody has to start or retry anything.
Fairness == /\ \A r \in Requests : WF_vars(Signing(r))
            /\ \A k \in Keys : WF_vars(Lapse(k))

Spec == Init /\ [][Next]_vars
FairSpec == Spec /\ Fairness

-----------------------------------------------------------------------------
(* What it promises.                                                       *)

\* Types of the state.
TypeOK ==
  /\ invitations \in [Invitations -> {"none", "open", "revoked"}]
  /\ expired \subseteq Invitations /\ cookies \subseteq Invitations
  /\ launches \in [Launches -> [state : {"none", "open", "used"},
                                invitation : Invitations \cup {NoOne}]]
  /\ code \in BOOLEAN /\ open \in BOOLEAN /\ cut \in BOOLEAN
  /\ sessions \in [Sessions -> [state : {"none", "active", "consumed", "revoked"},
                                invitation : Invitations \cup {NoOne}]]
  /\ over \subseteq Sessions /\ signer \in {"PENDING", "SIGNED", "REJECTED"}
  /\ store \in [Keys -> [state : {"free", "PROCESSING", "COMPLETED"},
                         content : Contents \cup {NoOne}]]
  /\ pc \in [Requests -> Points] /\ job \in [Requests -> Job]
  /\ signatures \subseteq Keys \X Contents
  /\ told \in [Keys -> SUBSET Contents] /\ lapsed \subseteq Keys

\* Two requests that issue at the same time leave one invitation open, never
\* two, and never none: the signer always has a link that works or can be
\* renewed, unless an issue was cut between its two statements
\* (SigningInvitationService.issue, which runs outside a transaction).
OneInvitation ==
  LET opened == {i \in Invitations : invitations[i] = "open"}
      quiet  == \A r \in Requests : pc[r] \notin Issuing
  IN  /\ Cardinality(opened) <= 1
      /\ quiet /\ ~cut /\ (\E i \in Invitations : invitations[i] # "none")
           => opened # {}

\* Two requests never run a signature under the same key, unless the first
\* outlived the ten minutes of its reservation (SigningIdempotencyService.run).
OneRunPerKey ==
  \A r, o \in Requests :
    /\ r # o /\ pc[r] \in Running /\ pc[o] \in Running
    /\ job[r].key = job[o].key
    => job[r].key \in lapsed

\* Who was told that his signature is registered is told so again when he
\* repeats the request, whatever other requests under the key came in between,
\* unless the reservation lapsed under a signature that was still running.
AnswerIsKept ==
  \A k \in Keys \ lapsed : \A c \in told[k] :
    store[k] = [state |-> "COMPLETED", content |-> c]

\* A key is never left reserved for good: not by a crash, nor by a signature
\* that fails and cannot delete its key.
KeyIsFreed ==
  \A k \in Keys : store[k].state = "PROCESSING" ~> store[k].state # "PROCESSING"

\* "... sin esto un reintento de red recibiria 'ya respondiste' en vez de la
\* respuesta de la firma que si se registro" (signing-idempotency.service.ts,
\* on the class): once a signature is registered and its request over, a retry
\* with its key gets its answer.
RegisteredIsAnswered ==
  \A s \in signatures :
    \/ store[s[1]] = [state |-> "COMPLETED", content |-> s[2]]
    \/ \E r \in Requests : job[r].key = s[1] /\ pc[r] \in Running
=============================================================================
