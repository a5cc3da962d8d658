------------------------ MODULE PublicSigning_proofs ------------------------
(***************************************************************************)
(* Proofs about PublicSigning, for any number of invitations, launches,    *)
(* sessions, keys, contents and requests: one invitation open at a time,   *)
(* one signature run per idempotency key, and one answer told under it.    *)
(*                                                                         *)
(* Whoever revokes goes on to insert, so an invitation may be missing only *)
(* while somebody is about to insert one, or after a cut (SomeOpened); and *)
(* whoever runs under a key that has not lapsed holds its reservation      *)
(* (Reserves), so nobody else runs and nobody has been told yet.           *)
(***************************************************************************)
EXTENDS PublicSigning, FiniteSetTheorems, TLAPS

\* What the job of a request holds at each point.
Equipped(r) ==
  /\ pc[r] \in Running \cup {"reserve", "lookup"} =>
       /\ job[r].key \in Keys /\ job[r].content \in Contents
       /\ job[r].session \in Sessions
  /\ pc[r] \in Issuing \cup {"launch", "verify"} => job[r].invitation \in Invitations

\* A launch that was issued is of an invitation.
Launched == \A l \in Launches :
  launches[l].state # "none" => launches[l].invitation \in Invitations

Types == TypeOK /\ Launched /\ \A r \in Requests : Equipped(r)

\* The invitations that are open, at most one whatever the requests.
OneOpened == \A i, j \in Invitations :
  invitations[i] = "open" /\ invitations[j] = "open" => i = j

\* Who revoked goes on to insert: while nobody is about to, one is open.
SomeOpened ==
  /\ ~cut /\ \E i \in Invitations : invitations[i] # "none"
  /\ \A r \in Requests : pc[r] # "insert"
  => \E i \in Invitations : invitations[i] = "open"

\* Who runs a signature has the reservation of its key, for its content.
Reserves(r) ==
  pc[r] \in Running /\ job[r].key \notin lapsed =>
    store[job[r].key] = [state |-> "PROCESSING", content |-> job[r].content]

KeyInvariant == /\ \A r \in Requests : Reserves(r)
                /\ OneRunPerKey /\ AnswerIsKept

PublicInvariant == Types /\ OneOpened /\ SomeOpened /\ KeyInvariant

\* What a step of r leaves to the others.
OthersKept(r) == \A o \in Requests \ {r} : pc'[o] = pc[o] /\ job'[o] = job[o]

-----------------------------------------------------------------------------
(* Types. *)

\* A request that goes to a point it may be at, with a job it may have.
LEMMA MoveTyped ==
  ASSUME Types, NEW r \in Requests, NEW q \in Points, NEW j \in Job,
         pc' = [pc EXCEPT ![r] = q], job' = [job EXCEPT ![r] = j],
         q \in Running \cup {"reserve", "lookup"} =>
           j.key \in Keys /\ j.content \in Contents /\ j.session \in Sessions,
         q \in Issuing \cup {"launch", "verify"} => j.invitation \in Invitations
  PROVE  /\ pc' \in [Requests -> Points] /\ job' \in [Requests -> Job]
         /\ \A o \in Requests : Equipped(o)'
         /\ OthersKept(r) /\ pc'[r] = q /\ job'[r] = j
<1> HIDE DEF Points, Job
<1>1. pc' \in [Requests -> Points] /\ job' \in [Requests -> Job]
  BY DEF Types, TypeOK
<1>2. OthersKept(r) /\ pc'[r] = q /\ job'[r] = j
  BY DEF Types, TypeOK, OthersKept
<1>3. \A o \in Requests : Equipped(o)'
  BY <1>2 DEF Types, Equipped, OthersKept
<1>4. QED
  BY <1>1, <1>2, <1>3

\* One that ends.
LEMMA EndTyped ==
  ASSUME Types, NEW r \in Requests, End(r)
  PROVE  /\ pc' \in [Requests -> Points] /\ job' \in [Requests -> Job]
         /\ \A o \in Requests : Equipped(o)'
         /\ OthersKept(r) /\ pc'[r] = "idle"
<1>1. NoJob \in Job /\ "idle" \in Points
  BY DEF NoJob, Job, Points
<1>2. "idle" \notin Running \cup {"reserve", "lookup"} \cup Issuing \cup {"launch", "verify"}
  BY DEF Running, Issuing
<1>3. QED
  BY <1>1, <1>2, MoveTyped DEF End

\* One that goes on with its job.
LEMMA GotoTyped ==
  ASSUME Types, NEW r \in Requests, NEW q \in Points, Goto(r, q),
         q \in Running \cup {"reserve", "lookup"} =>
           pc[r] \in Running \cup {"reserve", "lookup"},
         q \in Issuing \cup {"launch", "verify"} =>
           pc[r] \in Issuing \cup {"launch", "verify"}
  PROVE  /\ pc' \in [Requests -> Points] /\ job' \in [Requests -> Job]
         /\ \A o \in Requests : Equipped(o)'
         /\ OthersKept(r) /\ pc'[r] = q /\ job'[r] = job[r]
<1> HIDE DEF Points, Job
<1>1. job[r] \in Job /\ job' = [job EXCEPT ![r] = job[r]] /\ Equipped(r)
  BY DEF Types, TypeOK, Goto
<1>2. QED
  BY <1>1, MoveTyped DEF Goto, Equipped

\* Nothing but the types of the requests is at stake when only they move.
LEMMA OnlyMoves ==
  ASSUME Types, UNCHANGED <<links, access, answer, keys>>, cut' \in BOOLEAN,
         pc' \in [Requests -> Points], job' \in [Requests -> Job],
         \A o \in Requests : Equipped(o)'
  PROVE  Types'
  BY DEF Types, TypeOK, Launched, links, access, answer, keys

\* A session that is closed stays a session.
LEMMA ClosedTyped ==
  ASSUME TypeOK
  PROVE  ClosedSessions \in [Sessions -> [state : {"none", "active", "consumed", "revoked"},
                                          invitation : Invitations \cup {NoOne}]]
  BY DEF TypeOK, ClosedSessions

\* The requests that invite keep the types.
LEMMA InvitingTyped ==
  ASSUME Types, NEW r \in Requests, Inviting(r)
  PROVE  Types'
<1> HIDE DEF Job
<1>0. TypeOK /\ Equipped(r) /\ job[r] \in Job
  BY DEF Types, TypeOK
<1>1. CASE Resend(r) \/ Renew(r)
  <2>1. PICK i \in Invitations : job' = [job EXCEPT ![r].invitation = i]
    BY <1>1 DEF Resend, Renew, Deliver, FreshInvitations
  <2>2. pc' = [pc EXCEPT ![r] = "revoke"] /\ UNCHANGED <<links, access, answer, keys, cut>>
    BY <1>1 DEF Resend, Renew, Deliver
  <2> DEFINE j == [job[r] EXCEPT !.invitation = i]
  <2>3. /\ job' = [job EXCEPT ![r] = j] /\ j \in Job /\ j.invitation = i
    BY <1>0, <2>1 DEF Job, TypeOK
  <2>4. "revoke" \in Points /\ "revoke" \notin Running \cup {"reserve", "lookup"}
    BY DEF Points, Issuing, Running
  <2> HIDE DEF j
  <2>5. /\ pc' \in [Requests -> Points] /\ job' \in [Requests -> Job]
        /\ \A o \in Requests : Equipped(o)'
    BY <2>2, <2>3, <2>4, MoveTyped
  <2>6. QED
    BY <1>0, <2>2, <2>5, OnlyMoves DEF TypeOK
<1>2. CASE StartLaunch(r)
  <2>1. PICK l \in Launches : job' = [job EXCEPT ![r].launch = l]
    BY <1>2 DEF StartLaunch, FreshLaunches
  <2>2. pc' = [pc EXCEPT ![r] = "find"] /\ UNCHANGED <<links, access, answer, keys, cut>>
    BY <1>2 DEF StartLaunch
  <2> DEFINE j == [job[r] EXCEPT !.launch = l]
  <2>3. job' = [job EXCEPT ![r] = j] /\ j \in Job
    BY <1>0, <2>1 DEF Job, TypeOK
  <2>4. "find" \in Points /\ "find" \notin Running \cup {"reserve", "lookup"}
        /\ "find" \notin Issuing \cup {"launch", "verify"}
    BY DEF Points, Issuing, Running
  <2> HIDE DEF j
  <2>5. /\ pc' \in [Requests -> Points] /\ job' \in [Requests -> Job]
        /\ \A o \in Requests : Equipped(o)'
    BY <2>2, <2>3, <2>4, MoveTyped
  <2>6. QED
    BY <1>0, <2>2, <2>5, OnlyMoves DEF TypeOK
<1>3. CASE EnsureOpen(r)
  <2>1. PICK i \in Invitations : job' = [job EXCEPT ![r].invitation = i]
    BY <1>3 DEF EnsureOpen, FreshInvitations
  <2>2. PICK q \in {"launch", "revoke"} : pc' = [pc EXCEPT ![r] = q]
    BY <1>3 DEF EnsureOpen
  <2>3. UNCHANGED <<links, access, answer, keys, cut>>
    BY <1>3 DEF EnsureOpen
  <2> DEFINE j == [job[r] EXCEPT !.invitation = i]
  <2>4. /\ job' = [job EXCEPT ![r] = j] /\ j \in Job /\ j.invitation = i
    BY <1>0, <2>1 DEF Job, TypeOK
  <2>5. q \in Points /\ q \notin Running \cup {"reserve", "lookup"}
    BY DEF Points, Issuing, Running
  <2> HIDE DEF j
  <2>6. /\ pc' \in [Requests -> Points] /\ job' \in [Requests -> Job]
        /\ \A o \in Requests : Equipped(o)'
    BY <2>2, <2>4, <2>5, MoveTyped
  <2>7. QED
    BY <1>0, <2>3, <2>6, OnlyMoves DEF TypeOK
<1>4. CASE Revoke(r)
  <2>1. /\ pc' \in [Requests -> Points] /\ job' \in [Requests -> Job]
        /\ \A o \in Requests : Equipped(o)'
    BY <1>4, GotoTyped DEF Revoke, Points, Issuing, Running
  <2>2. invitations' \in [Invitations -> {"none", "open", "revoked"}]
    BY <1>0, <1>4 DEF TypeOK, Revoke
  <2>3. QED
    BY <1>4, <2>1, <2>2 DEF Revoke, Types, TypeOK, Launched, access, answer, keys
<1>5. CASE Insert(r) \/ InsertFails(r)
  <2>1. CASE End(r) /\ UNCHANGED <<links, access, answer, keys>> /\ cut' \in BOOLEAN
    BY <2>1, EndTyped, OnlyMoves
  <2>2. CASE pc[r] = "insert" /\ Inserted(r)
    <3>1. /\ pc' \in [Requests -> Points] /\ job' \in [Requests -> Job]
          /\ \A o \in Requests : Equipped(o)'
      <4>1. CASE End(r)
        BY <4>1, EndTyped
      <4>2. CASE Goto(r, "launch")
        BY <2>2, <4>2, GotoTyped DEF Points, Issuing, Running
      <4>3. QED
        BY <2>2, <4>1, <4>2 DEF Inserted
    <3>2. invitations' \in [Invitations -> {"none", "open", "revoked"}]
      BY <1>0, <2>2 DEF TypeOK, Inserted
    <3>3. QED
      BY <2>2, <3>1, <3>2 DEF Inserted, Types, TypeOK, Launched, access, answer, keys
  <2>3. QED
    BY <1>0, <1>5, <2>1, <2>2 DEF Insert, InsertFails, TypeOK
<1>6. CASE IssueLaunch(r)
  <2>1. /\ pc' \in [Requests -> Points] /\ job' \in [Requests -> Job]
        /\ \A o \in Requests : Equipped(o)'
    BY <1>6, EndTyped DEF IssueLaunch
  <2>2. /\ job[r].invitation \in Invitations
        /\ launches' = [launches EXCEPT ![job[r].launch] =
                          [state |-> "open", invitation |-> job[r].invitation]]
    BY <1>0, <1>6 DEF IssueLaunch, Equipped
  <2>3. launches' \in [Launches -> [state : {"none", "open", "used"},
                                    invitation : Invitations \cup {NoOne}]]
    BY <1>0, <2>2 DEF TypeOK
  <2>4. Launched'
    BY <2>2 DEF Types, TypeOK, Launched
  <2>5. QED
    BY <1>6, <2>1, <2>3, <2>4 DEF IssueLaunch, Types, TypeOK, access, answer, keys
<1>7. QED
  BY <1>1, <1>2, <1>3, <1>4, <1>5, <1>6 DEF Inviting

\* So do those that enter.
LEMMA EnteringTyped ==
  ASSUME Types, NEW r \in Requests, Entering(r)
  PROVE  Types'
<1> HIDE DEF Job
<1>0. TypeOK /\ Equipped(r) /\ job[r] \in Job
  BY DEF Types, TypeOK
<1>1. CASE ReadInvitation(r)
  <2>1. PICK i \in Invitations : job' = [job EXCEPT ![r].invitation = i]
    BY <1>0, <1>1 DEF ReadInvitation, TypeOK
  <2>2. pc' = [pc EXCEPT ![r] = "verify"] /\ UNCHANGED <<links, access, answer, keys, cut>>
    BY <1>1 DEF ReadInvitation
  <2> DEFINE j == [job[r] EXCEPT !.invitation = i]
  <2>3. /\ job' = [job EXCEPT ![r] = j] /\ j \in Job /\ j.invitation = i
    BY <1>0, <2>1 DEF Job, TypeOK
  <2>4. "verify" \in Points /\ "verify" \notin Running \cup {"reserve", "lookup"}
    BY DEF Points, Issuing, Running
  <2> HIDE DEF j
  <2>5. /\ pc' \in [Requests -> Points] /\ job' \in [Requests -> Job]
        /\ \A o \in Requests : Equipped(o)'
    BY <2>2, <2>3, <2>4, MoveTyped
  <2>6. QED
    BY <1>0, <2>2, <2>5, OnlyMoves DEF TypeOK
<1>2. CASE OpenSession(r)
  <2>1. /\ pc' \in [Requests -> Points] /\ job' \in [Requests -> Job]
        /\ \A o \in Requests : Equipped(o)'
    BY <1>2, EndTyped DEF OpenSession
  <2>2. job[r].invitation \in Invitations
    BY <1>0, <1>2 DEF OpenSession, Equipped
  <2>3. sessions' \in [Sessions -> [state : {"none", "active", "consumed", "revoked"},
                                    invitation : Invitations \cup {NoOne}]]
        /\ code' \in BOOLEAN
    <3>1. CASE UNCHANGED <<code, sessions>>
      BY <1>0, <3>1 DEF TypeOK
    <3>2. CASE /\ code' = FALSE
               /\ \E s \in Sessions : sessions' = [ClosedSessions EXCEPT ![s] =
                    [state |-> "active", invitation |-> job[r].invitation]]
      <4>1. [state |-> "active", invitation |-> job[r].invitation]
              \in [state : {"none", "active", "consumed", "revoked"},
                   invitation : Invitations \cup {NoOne}]
        BY <2>2
      <4>2. QED
        BY <1>0, <3>2, <4>1, ClosedTyped
    <3>3. QED
      BY <1>2, <3>1, <3>2 DEF OpenSession
  <2>4. QED
    BY <1>2, <2>1, <2>3 DEF OpenSession, Types, TypeOK, Launched, links, answer, keys
<1>3. QED
  BY <1>1, <1>2 DEF Entering

\* So do those that sign.
LEMMA SigningTyped ==
  ASSUME Types, NEW r \in Requests, StartSigning(r) \/ Signing(r) \/ Crash(r)
  PROVE  Types'
<1> HIDE DEF Job
<1>0. TypeOK /\ Equipped(r) /\ job[r] \in Job
  BY DEF Types, TypeOK
<1> DEFINE Moved == /\ pc' \in [Requests -> Points] /\ job' \in [Requests -> Job]
                    /\ \A o \in Requests : Equipped(o)'
           Locks == [state : {"free", "PROCESSING", "COMPLETED"},
                     content : Contents \cup {NoOne}]
<1>1. CASE StartSigning(r)
  <2>1. PICK s \in Sessions, k \in Keys, c \in Contents :
          job' = [job EXCEPT ![r] = [@ EXCEPT !.session = s, !.key = k,
                                     !.content = c, !.available = Awaited]]
    BY <1>1 DEF StartSigning
  <2>2. pc' = [pc EXCEPT ![r] = "reserve"] /\ UNCHANGED <<links, access, answer, keys, cut>>
    BY <1>1 DEF StartSigning
  <2> DEFINE j == [job[r] EXCEPT !.session = s, !.key = k, !.content = c, !.available = Awaited]
  <2>3. job' = [job EXCEPT ![r] = j]
    BY <1>0, <2>1 DEF TypeOK
  <2>4. Awaited \in BOOLEAN
    BY DEF Awaited
  <2>5. j \in Job /\ j.session = s /\ j.key = k /\ j.content = c
    BY <1>0, <2>4 DEF Job
  <2>6. "reserve" \in Points /\ "reserve" \notin Issuing \cup {"launch", "verify"}
    BY DEF Points, Issuing, Running
  <2> HIDE DEF j
  <2>7. Moved
    BY <2>2, <2>3, <2>5, <2>6, MoveTyped
  <2>8. QED
    BY <1>0, <2>2, <2>7, OnlyMoves DEF TypeOK
<1>2. CASE Reserve(r)
  <2>1. job[r].key \in Keys /\ job[r].content \in Contents
    BY <1>0, <1>2 DEF Reserve, Equipped
  <2>2. Moved
    <3>1. CASE Goto(r, "check")
      BY <1>2, <3>1, GotoTyped DEF Reserve, Points, Issuing, Running
    <3>2. CASE Goto(r, "lookup")
      BY <1>2, <3>2, GotoTyped DEF Reserve, Points, Issuing, Running
    <3>3. QED
      BY <1>2, <3>1, <3>2 DEF Reserve
  <2>3. store' \in [Keys -> Locks]
    BY <1>0, <1>2, <2>1 DEF Reserve, TypeOK
  <2>4. QED
    BY <1>2, <2>2, <2>3 DEF Reserve, Types, TypeOK, Launched, links, access, answer
<1>3. CASE Lookup(r)
  <2>1. Moved
    BY <1>3, EndTyped DEF Lookup
  <2>2. job[r].content \in Contents
    BY <1>0, <1>3 DEF Lookup, Equipped
  <2>3. told' \in [Keys -> SUBSET Contents]
    BY <1>0, <1>3, <2>2 DEF Lookup, TypeOK
  <2>4. QED
    BY <1>3, <2>1, <2>3 DEF Lookup, Types, TypeOK, Launched, links, access, answer
<1>4. CASE Check(r) \/ StoreFails(r)
  <2>1. PICK q \in {"claim", "release"} : Goto(r, q)
    BY <1>4 DEF Check, StoreFails
  <2>2. /\ pc[r] \in {"check", "finish"}
        /\ UNCHANGED <<links, access, answer, keys, cut>>
    BY <1>4 DEF Check, StoreFails
  <2>3. Moved
    BY <2>1, <2>2, GotoTyped DEF Points, Issuing, Running
  <2>4. QED
    BY <1>0, <2>2, <2>3, OnlyMoves DEF TypeOK
<1>5. CASE Claim(r)
  <2>1. /\ job[r].key \in Keys /\ job[r].content \in Contents
        /\ job[r].session \in Sessions
    BY <1>0, <1>5 DEF Claim, Equipped, Running
  <2>2. PICK q \in {"finish", "release"} : Goto(r, q)
    BY <1>5 DEF Claim
  <2>3. Moved
    BY <1>5, <2>2, GotoTyped DEF Claim, Points, Issuing, Running
  <2>4. sessions' \in [Sessions -> [state : {"none", "active", "consumed", "revoked"},
                                    invitation : Invitations \cup {NoOne}]]
    <3>1. [sessions[job[r].session] EXCEPT !.state = "consumed"]
            \in [state : {"none", "active", "consumed", "revoked"},
                 invitation : Invitations \cup {NoOne}]
      BY <1>0, <2>1 DEF TypeOK
    <3>2. CASE sessions' = sessions
      BY <1>0, <3>2 DEF TypeOK
    <3>3. CASE sessions' = [ClosedSessions EXCEPT ![job[r].session] =
                              [sessions[job[r].session] EXCEPT !.state = "consumed"]]
      BY <1>0, <3>1, <3>3, ClosedTyped
    <3>4. QED
      BY <1>5, <3>2, <3>3 DEF Claim
  <2>5. signer' \in {"PENDING", "SIGNED", "REJECTED"} /\ signatures' \subseteq Keys \X Contents
    BY <1>0, <1>5, <2>1 DEF Claim, TypeOK
  <2>6. QED
    BY <1>5, <2>3, <2>4, <2>5 DEF Claim, Types, TypeOK, Launched, links, keys
<1>6. CASE Store(r)
  <2>1. Moved
    BY <1>6, EndTyped DEF Store
  <2>2. job[r].key \in Keys /\ job[r].content \in Contents
    BY <1>0, <1>6 DEF Store, Equipped, Running
  <2>3. store' \in [Keys -> Locks] /\ told' \in [Keys -> SUBSET Contents]
    BY <1>0, <1>6, <2>2 DEF Store, TypeOK
  <2>4. QED
    BY <1>6, <2>1, <2>3 DEF Store, Types, TypeOK, Launched, links, access, answer
<1>7. CASE Release(r)
  <2>1. Moved
    BY <1>7, EndTyped DEF Release
  <2>2. store' \in [Keys -> Locks]
    BY <1>0, <1>7 DEF Release, TypeOK, Free
  <2>3. QED
    BY <1>7, <2>1, <2>2 DEF Release, Types, TypeOK, Launched, links, access, answer
<1>8. CASE Crash(r)
  BY <1>0, <1>8, EndTyped, OnlyMoves DEF Crash, TypeOK
<1>9. QED
  BY <1>1, <1>2, <1>3, <1>4, <1>5, <1>6, <1>7, <1>8 DEF Signing

\* What no request does.
Elsewhere ==
  \/ \E i \in Invitations : Expire(i) \/ OpenLink(i) \/ RequestCode(i)
  \/ \E l \in Launches : RedeemLaunch(l)
  \/ \E s \in Sessions : EndSession(s)
  \/ \E k \in Keys : Lapse(k)
  \/ AnswerElsewhere \/ CloseDocument

\* What others do keeps the types.
LEMMA ElsewhereTyped == Types /\ Elsewhere => Types'
<1> SUFFICES ASSUME Types, Elsewhere PROVE Types'
  OBVIOUS
<1>0. TypeOK /\ UNCHANGED <<pc, job, cut>>
  BY DEF Types, Elsewhere, Expire, OpenLink, RequestCode, RedeemLaunch, EndSession,
     Lapse, AnswerElsewhere, CloseDocument
<1>1. \A o \in Requests : Equipped(o)'
  BY <1>0 DEF Types, Equipped
<1>2. ASSUME NEW i \in Invitations, Expire(i) \/ OpenLink(i) \/ RequestCode(i)
      PROVE  Types'
  BY <1>0, <1>1, <1>2 DEF Types, TypeOK, Launched, Expire, OpenLink, RequestCode,
     links, access, answer, keys
<1>3. ASSUME NEW l \in Launches, RedeemLaunch(l) PROVE Types'
  <2>1. launches[l].invitation \in Invitations
    BY <1>3 DEF Types, Launched, RedeemLaunch
  <2>2. launches' = [launches EXCEPT ![l].state = "used"]
    BY <1>3 DEF RedeemLaunch
  <2>3. launches' \in [Launches -> [state : {"none", "open", "used"},
                                    invitation : Invitations \cup {NoOne}]]
    BY <1>0, <2>2 DEF TypeOK
  <2>4. Launched'
    BY <2>1, <2>2 DEF Types, TypeOK, Launched
  <2>5. cookies' \subseteq Invitations
    BY <1>0, <1>3, <2>1 DEF TypeOK, RedeemLaunch
  <2>6. QED
    BY <1>0, <1>1, <1>3, <2>3, <2>4, <2>5 DEF Types, TypeOK, RedeemLaunch, access, answer, keys
<1>4. ASSUME NEW s \in Sessions, EndSession(s) PROVE Types'
  BY <1>0, <1>1, <1>4 DEF Types, TypeOK, Launched, EndSession, links, answer, keys
<1>5. ASSUME NEW k \in Keys, Lapse(k) PROVE Types'
  <2>1. Free \in [state : {"free", "PROCESSING", "COMPLETED"}, content : Contents \cup {NoOne}]
    BY DEF Free
  <2>2. store' \in [Keys -> [state : {"free", "PROCESSING", "COMPLETED"},
                             content : Contents \cup {NoOne}]]
        /\ lapsed' \subseteq Keys
    BY <1>0, <1>5, <2>1 DEF TypeOK, Lapse
  <2>3. QED
    BY <1>0, <1>1, <1>5, <2>2 DEF Types, TypeOK, Launched, Lapse, links, access, answer
<1>6. CASE AnswerElsewhere \/ CloseDocument
  BY <1>0, <1>1, <1>6, ClosedTyped DEF Types, TypeOK, Launched, AnswerElsewhere,
     CloseDocument, links, keys
<1>7. QED
  BY <1>2, <1>3, <1>4, <1>5, <1>6 DEF Elsewhere

\* Every step keeps the types.
LEMMA TypeStep == Types /\ [Next]_vars => Types'
<1> SUFFICES ASSUME Types, [Next]_vars PROVE Types'
  OBVIOUS
<1>1. CASE UNCHANGED vars
  BY <1>1 DEF vars, links, access, answer, keys, Types, TypeOK, Launched, Equipped
<1>2. QED
  BY <1>1, InvitingTyped, EnteringTyped, SigningTyped, ElsewhereTyped DEF Next, Elsewhere

-----------------------------------------------------------------------------
(* Invitations. *)

InvitationInvariant == OneOpened /\ SomeOpened

\* A step that writes no invitation, and in which nobody leaves the INSERT.
LEMMA InvitationsKept ==
  ASSUME InvitationInvariant, UNCHANGED <<invitations, cut>>,
         \A q \in Requests : pc[q] = "insert" => pc'[q] = "insert"
  PROVE  InvitationInvariant'
  BY DEF InvitationInvariant, OneOpened, SomeOpened

\* In whatever moves r from a point that is not the INSERT, nobody leaves it.
LEMMA InsertsKept ==
  ASSUME TypeOK, NEW r \in Requests, pc[r] # "insert", \E q : pc' = [pc EXCEPT ![r] = q]
  PROVE  \A q \in Requests : pc[q] = "insert" => pc'[q] = "insert"
  BY DEF TypeOK

\* The UPDATE and the INSERT of an issue, whatever other issues do in between.
LEMMA InvitingKeeps ==
  ASSUME Types, InvitationInvariant, NEW r \in Requests, Inviting(r)
  PROVE  InvitationInvariant'
<1>0. TypeOK
  BY DEF Types
<1>1. CASE Resend(r) \/ Renew(r) \/ StartLaunch(r) \/ EnsureOpen(r) \/ IssueLaunch(r)
  <2>1. /\ pc[r] # "insert" /\ UNCHANGED <<invitations, cut>>
        /\ \E q : pc' = [pc EXCEPT ![r] = q]
    BY <1>1 DEF Resend, Renew, Deliver, StartLaunch, EnsureOpen, IssueLaunch, End, links
  <2>2. QED
    BY <1>0, <2>1, InsertsKept, InvitationsKept
<1>2. CASE Revoke(r)
  <2>1. /\ pc'[r] = "insert" /\ cut' = cut
        /\ invitations' = [i \in Invitations |->
             IF invitations[i] = "open" THEN "revoked" ELSE invitations[i]]
    BY <1>0, <1>2 DEF Revoke, Goto, TypeOK
  <2>2. \A i \in Invitations : invitations'[i] # "open"
    BY <2>1
  <2>3. QED
    BY <2>1, <2>2 DEF InvitationInvariant, OneOpened, SomeOpened
<1>3. CASE Insert(r)
  <2>1. CASE \E i \in Invitations : invitations[i] = "open"
    BY <1>3, <2>1 DEF Insert, links, InvitationInvariant, OneOpened, SomeOpened
  <2>2. CASE ~\E i \in Invitations : invitations[i] = "open"
    <3>1. /\ invitations' = [invitations EXCEPT ![job[r].invitation] = "open"]
          /\ job[r].invitation \in Invitations
      BY <1>3, <2>2 DEF Insert, Inserted, Types, Equipped, Issuing
    <3>2. \A i \in Invitations : invitations'[i] = "open" <=> i = job[r].invitation
      BY <1>0, <2>2, <3>1 DEF TypeOK
    <3>3. QED
      BY <3>1, <3>2 DEF InvitationInvariant, OneOpened, SomeOpened
  <2>3. QED
    BY <2>1, <2>2
<1>4. CASE InsertFails(r)
  BY <1>4 DEF InsertFails, links, InvitationInvariant, OneOpened, SomeOpened
<1>5. QED
  BY <1>1, <1>2, <1>3, <1>4 DEF Inviting

\* Every step keeps one invitation open, or leaves one to be inserted.
LEMMA InvitationStep == Types /\ InvitationInvariant /\ [Next]_vars => InvitationInvariant'
<1> SUFFICES ASSUME Types, InvitationInvariant, [Next]_vars PROVE InvitationInvariant'
  OBVIOUS
<1>0. TypeOK
  BY DEF Types
<1>1. ASSUME NEW r \in Requests, Entering(r) \/ StartSigning(r) \/ Signing(r) \/ Crash(r)
      PROVE  InvitationInvariant'
  <2>1. /\ pc[r] # "insert" /\ UNCHANGED <<invitations, cut>>
        /\ \E q : pc' = [pc EXCEPT ![r] = q]
    <3>1. CASE Entering(r) \/ StartSigning(r) \/ Crash(r)
      BY <3>1 DEF Entering, ReadInvitation, OpenSession, StartSigning, Crash, End,
         links, Running
    <3>2. CASE Signing(r)
      BY <3>2 DEF Signing, Reserve, Lookup, Check, Claim, Store, StoreFails, Release,
         Goto, End, links
    <3>3. QED
      BY <1>1, <3>1, <3>2
  <2>2. QED
    BY <1>0, <2>1, InsertsKept, InvitationsKept
<1>2. CASE Elsewhere \/ UNCHANGED vars
  BY <1>2, InvitationsKept DEF Elsewhere, Expire, OpenLink, RequestCode, RedeemLaunch,
     EndSession, Lapse, AnswerElsewhere, CloseDocument, vars, links
<1>3. QED
  BY <1>1, <1>2, InvitingKeeps DEF Next, Elsewhere

-----------------------------------------------------------------------------
(* Keys. *)

\* A step that touches no key, in which nobody begins to run.
LEMMA KeysKept ==
  ASSUME KeyInvariant, UNCHANGED <<store, told, lapsed>>,
         \A o \in Requests : pc'[o] \in Running =>
           /\ pc[o] \in Running /\ job'[o].key = job[o].key
           /\ job'[o].content = job[o].content
  PROVE  KeyInvariant'
  BY DEF KeyInvariant, Reserves, OneRunPerKey, AnswerIsKept

\* That is so of a step of r that does not reserve a key.
LEMMA RunsKept ==
  ASSUME TypeOK, NEW r \in Requests,
         \/ End(r)
         \/ \E q : Goto(r, q) /\ (q \in Running => pc[r] \in Running)
         \/ /\ \E q \in Points \ Running : pc' = [pc EXCEPT ![r] = q]
            /\ \E j : job' = [job EXCEPT ![r] = j]
  PROVE  \A o \in Requests : pc'[o] \in Running =>
           /\ pc[o] \in Running /\ job'[o].key = job[o].key
           /\ job'[o].content = job[o].content
<1>1. CASE End(r)
  BY <1>1 DEF End, TypeOK, Running
<1>2. CASE \E q : Goto(r, q) /\ (q \in Running => pc[r] \in Running)
  BY <1>2 DEF Goto, TypeOK
<1>3. CASE /\ \E q \in Points \ Running : pc' = [pc EXCEPT ![r] = q]
           /\ \E j : job' = [job EXCEPT ![r] = j]
  BY <1>3 DEF TypeOK
<1>4. QED
  BY <1>1, <1>2, <1>3

\* The reservation of a key: nobody else runs under it.
LEMMA ReserveKeeps ==
  ASSUME Types, KeyInvariant, NEW r \in Requests, Reserve(r)
  PROVE  KeyInvariant'
<1> DEFINE k == job[r].key
           c == job[r].content
           held == [state |-> "PROCESSING", content |-> c]
<1>0. TypeOK /\ k \in Keys
  BY DEF Types, Equipped, Reserve
<1>1. CASE store[k] = Free
  <2>1. /\ store' = [store EXCEPT ![k] = held] /\ UNCHANGED <<told, lapsed>>
        /\ job' = job /\ pc' = [pc EXCEPT ![r] = "check"]
    BY <1>1 DEF Reserve, Goto
  <2>2. /\ pc'[r] = "check" /\ \A o \in Requests \ {r} : pc'[o] = pc[o]
        /\ store'[k] = held /\ \A l \in Keys \ {k} : store'[l] = store[l]
    BY <1>0, <2>1 DEF TypeOK
  <2>3. ASSUME NEW o \in Requests, pc[o] \in Running, job[o].key = k
        PROVE  k \in lapsed
    <3>1. Reserves(o) /\ store[k].state = "free"
      BY <1>1 DEF KeyInvariant, Free
    <3>2. k \notin lapsed => store[k].state = "PROCESSING"
      BY <2>3, <3>1 DEF Reserves
    <3>3. QED
      BY <3>1, <3>2
  <2>4. OneRunPerKey'
    BY <2>1, <2>2, <2>3 DEF KeyInvariant, OneRunPerKey
  <2>5. ASSUME NEW o \in Requests, pc'[o] \in Running, job[o].key \notin lapsed
        PROVE  store'[job[o].key] = [state |-> "PROCESSING", content |-> job[o].content]
    <3>1. CASE o = r
      BY <2>2, <3>1
    <3>2. CASE o # r
      <4>1. pc[o] \in Running /\ job[o].key # k /\ job[o].key \in Keys
        BY <2>2, <2>3, <2>5, <3>2 DEF Types, Equipped
      <4>2. QED
        BY <2>2, <2>5, <4>1 DEF KeyInvariant, Reserves
    <3>3. QED
      BY <3>1, <3>2
  <2>6. AnswerIsKept'
    <3>1. k \notin lapsed => told[k] = {}
      BY <1>0, <1>1 DEF KeyInvariant, AnswerIsKept, Free, TypeOK
    <3>2. QED
      BY <2>1, <2>2, <3>1 DEF KeyInvariant, AnswerIsKept
  <2>7. QED
    BY <2>1, <2>4, <2>5, <2>6 DEF KeyInvariant, Reserves
<1>2. CASE store[k] # Free
  <2>1. Goto(r, "lookup") /\ UNCHANGED <<store, told, lapsed>> /\ "lookup" \notin Running
    BY <1>2 DEF Reserve, Running
  <2>2. QED
    BY <1>0, <2>1, RunsKept, KeysKept
<1>3. QED
  BY <1>1, <1>2

\* The answer stored is that of the only one who ran under the key, and nobody
\* had been told another.
LEMMA EndKeeps ==
  ASSUME Types, KeyInvariant, NEW r \in Requests,
         Store(r) \/ (Release(r) /\ store' # store)
  PROVE  KeyInvariant'
<1> DEFINE k == job[r].key
           c == job[r].content
           x == IF Store(r) THEN [state |-> "COMPLETED", content |-> c] ELSE Free
<1>0. TypeOK /\ k \in Keys /\ c \in Contents /\ pc[r] \in Running
  BY DEF Types, Equipped, Store, Release, Running
<1>1. /\ store' = [store EXCEPT ![k] = x] /\ lapsed' = lapsed /\ End(r)
      /\ told' = IF Store(r) THEN [told EXCEPT ![k] = @ \cup {c}] ELSE told
  BY DEF Store, Release
<1> HIDE DEF x
<1>2. /\ store'[k] = x /\ \A l \in Keys \ {k} : store'[l] = store[l]
      /\ told'[k] = IF Store(r) THEN told[k] \cup {c} ELSE told[k]
      /\ \A l \in Keys \ {k} : told'[l] = told[l]
  BY <1>0, <1>1 DEF TypeOK
<1>3. /\ pc'[r] = "idle"
      /\ \A o \in Requests \ {r} : pc'[o] = pc[o] /\ job'[o] = job[o]
  BY <1>0, <1>1 DEF End, TypeOK
<1>4. "idle" \notin Running
  BY DEF Running
<1>5. OneRunPerKey'
  BY <1>1, <1>3, <1>4 DEF KeyInvariant, OneRunPerKey
<1>6. ASSUME NEW o \in Requests PROVE Reserves(o)'
  <2>1. CASE o = r
    BY <1>3, <1>4, <2>1 DEF Reserves
  <2>2. CASE o # r /\ pc[o] \in Running /\ job[o].key \notin lapsed
    <3>1. job[o].key # k /\ job[o].key \in Keys
      BY <1>0, <2>2 DEF KeyInvariant, OneRunPerKey, Types, Equipped
    <3>2. QED
      BY <1>1, <1>2, <1>3, <2>2, <3>1 DEF KeyInvariant, Reserves
  <2>3. CASE o # r /\ ~(pc[o] \in Running /\ job[o].key \notin lapsed)
    BY <1>1, <1>3, <2>3 DEF Reserves
  <2>4. QED
    BY <2>1, <2>2, <2>3
<1>7. AnswerIsKept'
  <2>1. k \notin lapsed => store[k].state = "PROCESSING"
    <3>1. Reserves(r)
      BY DEF KeyInvariant
    <3>2. QED
      BY <1>0, <3>1 DEF Reserves
  <2>2. k \notin lapsed => told[k] = {}
    BY <1>0, <2>1 DEF KeyInvariant, AnswerIsKept, TypeOK
  <2>3. ASSUME k \notin lapsed, NEW d \in told'[k]
        PROVE  store'[k] = [state |-> "COMPLETED", content |-> d]
    BY <1>2, <2>2, <2>3 DEF x
  <2>4. ASSUME NEW l \in Keys \ lapsed, NEW d \in told'[l]
        PROVE  store'[l] = [state |-> "COMPLETED", content |-> d]
    <3>1. CASE l = k
      BY <2>3, <2>4, <3>1
    <3>2. CASE l # k
      BY <1>2, <2>4, <3>2 DEF KeyInvariant, AnswerIsKept
    <3>3. QED
      BY <3>1, <3>2
  <2>5. QED
    BY <1>1, <2>4 DEF AnswerIsKept
<1>8. QED
  BY <1>5, <1>6, <1>7 DEF KeyInvariant

\* The answer given again is the one stored.
LEMMA LookupKeeps ==
  ASSUME Types, KeyInvariant, NEW r \in Requests, Lookup(r)
  PROVE  KeyInvariant'
<1> DEFINE k == job[r].key
           c == job[r].content
<1>0. TypeOK
  BY DEF Types
<1>1. /\ End(r) /\ UNCHANGED <<store, lapsed>>
      /\ told' = IF store[k] = [state |-> "COMPLETED", content |-> c]
                 THEN [told EXCEPT ![k] = @ \cup {c}] ELSE told
  BY DEF Lookup
<1>2. \A o \in Requests : pc'[o] \in Running =>
        pc[o] \in Running /\ job'[o].key = job[o].key /\ job'[o].content = job[o].content
  BY <1>0, <1>1, RunsKept
<1>3. \A l \in Keys : \A d \in told'[l] :
        d \in told[l] \/ (l = k /\ d = c /\ store[k] = [state |-> "COMPLETED", content |-> c])
  BY <1>0, <1>1 DEF TypeOK
<1>4. AnswerIsKept'
  BY <1>1, <1>3 DEF KeyInvariant, AnswerIsKept
<1>5. QED
  BY <1>1, <1>2, <1>4 DEF KeyInvariant, Reserves, OneRunPerKey

\* A reservation that lapses was nobody's, or is remembered as lapsed.
LEMMA LapseKeeps ==
  ASSUME Types, KeyInvariant, NEW k \in Keys, Lapse(k)
  PROVE  KeyInvariant'
<1> DEFINE held == \E r \in Requests : job[r].key = k /\ pc[r] \in Running
<1>0. TypeOK
  BY DEF Types
<1>1. /\ store[k].state = "PROCESSING" /\ store' = [store EXCEPT ![k] = Free]
      /\ lapsed' = (IF held THEN lapsed \cup {k} ELSE lapsed)
      /\ UNCHANGED <<told, pc, job>>
  BY DEF Lapse
<1>2. \A l \in Keys \ {k} : store'[l] = store[l]
  BY <1>0, <1>1 DEF TypeOK
<1>3. ASSUME NEW o \in Requests PROVE Reserves(o)'
  <2>1. CASE pc[o] \in Running /\ job[o].key \notin lapsed'
    <3>1. job[o].key # k /\ job[o].key \in Keys
      BY <1>1, <2>1 DEF Types, Equipped
    <3>2. QED
      BY <1>1, <1>2, <2>1, <3>1 DEF KeyInvariant, Reserves
  <2>2. CASE ~(pc[o] \in Running /\ job[o].key \notin lapsed')
    BY <1>1, <2>2 DEF Reserves
  <2>3. QED
    BY <2>1, <2>2
<1>4. AnswerIsKept'
  <2>1. k \notin lapsed => told[k] = {}
    BY <1>0, <1>1 DEF KeyInvariant, AnswerIsKept, TypeOK
  <2>2. QED
    BY <1>1, <1>2, <2>1 DEF KeyInvariant, AnswerIsKept
<1>5. OneRunPerKey'
  BY <1>1 DEF KeyInvariant, OneRunPerKey
<1>6. QED
  BY <1>3, <1>4, <1>5 DEF KeyInvariant

\* Every step keeps the keys.
LEMMA KeyStep == Types /\ KeyInvariant /\ [Next]_vars => KeyInvariant'
<1> SUFFICES ASSUME Types, KeyInvariant, [Next]_vars PROVE KeyInvariant'
  OBVIOUS
<1>0. TypeOK
  BY DEF Types
<1>1. ASSUME NEW r \in Requests, Inviting(r) \/ Entering(r) \/ StartSigning(r) \/ Crash(r)
      PROVE  KeyInvariant'
  <2>1. UNCHANGED <<store, told, lapsed>>
    BY <1>1 DEF Inviting, Resend, Renew, Deliver, StartLaunch, EnsureOpen, Revoke, Insert,
       Inserted, InsertFails, IssueLaunch, Entering, ReadInvitation, OpenSession,
       StartSigning, Crash, keys
  <2>2. \/ End(r)
        \/ \E q : Goto(r, q) /\ (q \in Running => pc[r] \in Running)
        \/ /\ \E q \in Points \ Running : pc' = [pc EXCEPT ![r] = q]
           /\ \E j : job' = [job EXCEPT ![r] = j]
    <3>1. CASE Inviting(r)
      BY <3>1 DEF Inviting, Resend, Renew, Deliver, StartLaunch, EnsureOpen, Revoke, Insert,
         Inserted, InsertFails, IssueLaunch, Points, Issuing, Running
    <3>2. CASE Entering(r) \/ StartSigning(r) \/ Crash(r)
      BY <3>2 DEF Entering, ReadInvitation, OpenSession, StartSigning, Crash, Points, Running
    <3>3. QED
      BY <1>1, <3>1, <3>2
  <2>3. QED
    BY <1>0, <2>1, <2>2, RunsKept, KeysKept
<1>2. ASSUME NEW r \in Requests, Signing(r) PROVE KeyInvariant'
  <2>1. CASE Check(r) \/ Claim(r) \/ StoreFails(r)
    <3>1. /\ UNCHANGED <<store, told, lapsed>> /\ pc[r] \in Running
          /\ \E q : Goto(r, q)
      BY <2>1 DEF Check, Claim, StoreFails, keys, Running
    <3>2. QED
      BY <1>0, <3>1, RunsKept, KeysKept
  <2>2. CASE Release(r) /\ store' = store
    BY <1>0, <2>2, RunsKept, KeysKept DEF Release
  <2>3. QED
    BY <1>2, <2>1, <2>2, ReserveKeeps, EndKeeps, LookupKeeps DEF Signing
<1>3. ASSUME NEW k \in Keys, Lapse(k) PROVE KeyInvariant'
  BY <1>3, LapseKeeps
<1>4. CASE UNCHANGED <<store, told, lapsed, pc, job>>
  BY <1>4, KeysKept
<1>5. CASE Elsewhere /\ ~\E k \in Keys : Lapse(k)
  BY <1>4, <1>5 DEF Elsewhere, Expire, OpenLink, RequestCode, RedeemLaunch, EndSession,
     AnswerElsewhere, CloseDocument, keys
<1>6. CASE UNCHANGED vars
  BY <1>4, <1>6 DEF vars, keys
<1>7. QED
  BY <1>1, <1>2, <1>3, <1>5, <1>6 DEF Next, Elsewhere

-----------------------------------------------------------------------------
(* The theorems. *)

\* At first there is nothing.
LEMMA PublicInit == Init => PublicInvariant
<1> SUFFICES ASSUME Init PROVE PublicInvariant
  OBVIOUS
<1>1. /\ \A r \in Requests : pc[r] = "idle"
      /\ "idle" \notin Running \cup Issuing \cup {"reserve", "lookup", "launch", "verify"}
  BY DEF Init, Running, Issuing
<1>2. /\ \A i \in Invitations : invitations[i] = "none"
      /\ \A l \in Launches : launches[l].state = "none"
      /\ \A k \in Keys : told[k] = {}
  BY DEF Init
<1>3. TypeOK
  <2>1. NoJob \in Job /\ "idle" \in Points
    BY DEF NoJob, Job, Points
  <2>2. Free \in [state : {"free", "PROCESSING", "COMPLETED"}, content : Contents \cup {NoOne}]
    BY DEF Free
  <2> HIDE DEF NoJob, Job, Points, Free
  <2>3. QED
    BY <2>1, <2>2 DEF Init, TypeOK
<1>4. QED
  BY <1>1, <1>2, <1>3 DEF PublicInvariant, Types, Launched, Equipped, OneOpened, SomeOpened,
     KeyInvariant, Reserves, OneRunPerKey, AnswerIsKept

\* The invariant of the invitations and of the keys is inductive.
THEOREM PublicInvariantHolds == Spec => []PublicInvariant
<1>1. PublicInvariant /\ [Next]_vars => PublicInvariant'
  BY TypeStep, InvitationStep, KeyStep DEF PublicInvariant, InvitationInvariant
<1>2. QED
  BY <1>1, PublicInit, PTL DEF Spec

\* At most one invitation is open.
LEMMA OpenedCount ==
  ASSUME OneOpened
  PROVE  Cardinality({i \in Invitations : invitations[i] = "open"}) <= 1
<1> DEFINE opened == {i \in Invitations : invitations[i] = "open"}
<1>1. CASE opened = {}
  BY <1>1, FS_EmptySet
<1>2. CASE opened # {}
  <2>1. PICK i : opened = {i}
    BY <1>2 DEF OneOpened
  <2>2. Cardinality(opened) = 1
    BY <2>1, FS_Singleton, Zenon
  <2>3. QED
    BY <2>2
<1>3. QED
  BY <1>1, <1>2

\* A signer has at most one invitation open, and has one once invited, while nobody is
\* renewing it (SigningInvitationService.issue revokes before it inserts).
THEOREM OneInvitationOpen == Spec => []OneInvitation
<1>1. PublicInvariant => OneInvitation
  BY OpenedCount DEF PublicInvariant, SomeOpened, OneInvitation, Issuing
<1>2. QED
  BY <1>1, PublicInvariantHolds, PTL

\* Under a key whose reservation has not lapsed one request at most signs
\* (SigningIdempotencyService.run).
THEOREM KeysRunOnce == Spec => []OneRunPerKey
<1>1. PublicInvariant => OneRunPerKey
  BY DEF PublicInvariant, KeyInvariant
<1>2. QED
  BY <1>1, PublicInvariantHolds, PTL

\* All who ask under a key that has not lapsed are told the answer that is stored
\* (SigningIdempotencyService.run).
THEOREM AnswersAreKept == Spec => []AnswerIsKept
<1>1. PublicInvariant => AnswerIsKept
  BY DEF PublicInvariant, KeyInvariant
<1>2. QED
  BY <1>1, PublicInvariantHolds, PTL
=============================================================================
