-------------------- MODULE IdentityVerification_proofs --------------------
(***************************************************************************)
(* Proofs about IdentityVerification for any sessions, tabs, attempts and  *)
(* troubles.  What an approval leaves (Earned) is never taken back, so it  *)
(* is enough that whoever is about to write a status that lets the user go *)
(* on knows it holds: the delivery that is past its images, and the tab    *)
(* that read SIGNATURE_PENDING before it writes CONFIGURED (Careful).      *)
(* Two more invariants rest on that one: each session was opened for an    *)
(* attempt inserted before (CountInvariant), so an event whose session has *)
(* none finds one without a session, unless it came in between; and so no  *)
(* approval is answered before it has counted (ApprovedInvariant).         *)
(***************************************************************************)
EXTENDS IdentityVerification, FiniteSetTheorems, SequenceTheorems, TLAPS

Earning == {"SIGNATURE_PENDING", "CONFIGURED"}
Earned == verified /\ images /\ \E s \in Sessions : didit[s] = "APPROVED"

Attempts == [status : Verdicts \cup {"FAILED"}, session : Sessions \cup {None},
             hosted : Sessions \cup {None}]
Rubrics == [image : {"none", "drawn", "blank"}, card : BOOLEAN]
Points == {"idle", "inserting", "calling", "saving", "failing", "unsent", "sent", "searching",
           "binding", "storing", "updating", "verifying", "reading", "writing", "ending",
           "done"}
Controls == [pc : Points, row : Nat, session : Sessions \cup {None},
             seen : Verdicts \cup {"FAILED", "none"}, todo : Seq(Credentials)]

\* TypeOK without the rows, which RowIsThere bounds.
Typed ==
  /\ didit \in [Sessions -> Verdicts \cup {"none"}] /\ known \cup lapsed \subseteq Sessions
  /\ attempts \in Seq(Attempts)
  /\ credential \in Credentials /\ verified \in BOOLEAN /\ images \in BOOLEAN
  /\ rubric \in Rubrics
  /\ anomalies \subseteq {"erased", "missed", "raced"}
  /\ proc \in [Procs -> Controls]

\* The attempt a process works on exists, and has the session a tab will answer.
RowIsThere(p) ==
  /\ proc[p].row \in 0..Len(attempts)
  /\ proc[p].pc \in {"calling", "saving", "failing", "binding", "storing", "updating"}
       => proc[p].row # 0
  /\ proc[p].pc \in {"idle", "inserting"} => proc[p].row = 0
  /\ p \in Tabs /\ proc[p].session # None => proc[p].row # 0
  /\ p \in Tabs /\ proc[p].pc = "saving" => proc[p].session \in Sessions
  /\ p \in Tabs /\ proc[p].pc \in {"reading", "writing", "ending"} /\ proc[p].row # 0
       => attempts[proc[p].row].hosted # None

\* What a delivery has done before it moves the credential.
Delivering(d) ==
  /\ Approves(d) /\ proc[d].pc # "unsent" => didit[d[1]] = "APPROVED"
  /\ Approves(d) /\ proc[d].pc \in {"updating", "verifying"} => images
  /\ proc[d].pc = "verifying" => Approves(d)
  /\ proc[d].pc \in {"reading", "writing"} =>
       \/ Approves(d) /\ Earned
       \/ ~Approves(d) /\ \E c \in Credentials \ Earning : proc[d].todo = <<c>>

\* What a process knows before it writes the credential.
Careful(p) ==
  /\ proc[p].pc \in {"reading", "writing"} => proc[p].todo # << >>
  /\ p \in Events => Delivering(p)
  /\ p \in Tabs /\ proc[p].pc = "writing" /\ Head(proc[p].todo) = "CONFIGURED" =>
       Earned \/ "erased" \in anomalies

EarnedInvariant ==
  /\ Typed
  /\ \A p \in Procs : RowIsThere(p) /\ Careful(p)
  /\ EarnedUnlessErased

-----------------------------------------------------------------------------
(* What a step leaves. *)

\* What no step takes back.
Grows ==
  /\ \A i \in DOMAIN attempts : /\ i \in DOMAIN attempts'
                                /\ attempts[i].hosted # None => attempts'[i].hosted # None
  /\ images => images'
  /\ verified => verified'
  /\ \A s \in Sessions : didit[s] = "APPROVED" => didit'[s] = "APPROVED"
  /\ anomalies \subseteq anomalies'

LEMMA EarnedStays == ASSUME Grows, Earned PROVE Earned'
BY DEF Grows, Earned

\* A process that does not move keeps what it relies on.
LEMMA Unmoved ==
  ASSUME Typed, Typed', Grows, NEW p \in Procs, RowIsThere(p), Careful(p), proc'[p] = proc[p]
  PROVE  RowIsThere(p)' /\ Careful(p)'
<1>1. Len(attempts') >= Len(attempts)
  BY DEF Grows, Typed
<1>2. RowIsThere(p)'
  BY <1>1 DEF RowIsThere, Grows, Typed
<1>3. p \in Events => Delivering(p)'
  <2> SUFFICES ASSUME p \in Events PROVE Delivering(p)'
    OBVIOUS
  <2>1. p[1] \in Sessions
    BY DEF Events
  <2> QED BY <2>1, EarnedStays DEF Careful, Delivering, Grows, Approves
<1>4. Careful(p)'
  BY <1>3, EarnedStays DEF Careful, Grows
<1> QED BY <1>2, <1>4

\* A process that moves by itself.
LEMMA MovedAlone ==
  ASSUME EarnedInvariant, Typed', Grows, NEW p \in Procs,
         \A q \in Procs \ {p} : proc'[q] = proc[q],
         RowIsThere(p)', Careful(p)', EarnedUnlessErased'
  PROVE  EarnedInvariant'
<1>1. \A q \in Procs : RowIsThere(q)' /\ Careful(q)'
  <2> SUFFICES ASSUME NEW q \in Procs, q # p PROVE RowIsThere(q)' /\ Careful(q)'
    OBVIOUS
  <2> QED BY Unmoved DEF EarnedInvariant
<1> QED BY <1>1 DEF EarnedInvariant

LEMMA GotoIs ==
  ASSUME Typed, NEW p \in Procs, NEW x \in Points, Goto(p, x)
  PROVE  /\ proc' \in [Procs -> Controls]
         /\ \A q \in Procs \ {p} : proc'[q] = proc[q]
         /\ proc'[p].pc = x /\ proc'[p].row = proc[p].row
         /\ proc'[p].session = proc[p].session /\ proc'[p].todo = proc[p].todo
BY DEF Typed, Controls, Goto

LEMMA MovesIs ==
  ASSUME Typed, NEW p \in Procs, NEW targets \in Seq(Credentials), Moves(p, targets)
  PROVE  /\ proc' \in [Procs -> Controls]
         /\ \A q \in Procs \ {p} : proc'[q] = proc[q]
         /\ proc'[p].pc = (IF targets = << >> THEN "ending" ELSE "reading")
         /\ proc'[p].row = proc[p].row /\ proc'[p].todo = targets
         /\ proc'[p].session = proc[p].session
<1> DEFINE x == IF targets = << >> THEN "ending" ELSE "reading"
<1>1. proc' = [proc EXCEPT ![p].todo = targets, ![p].pc = x]
  BY DEF Moves
<1> HIDE DEF x
<1>2. x \in Points
  BY DEF x, Points
<1>3. x = (IF targets = << >> THEN "ending" ELSE "reading")
  BY DEF x
<1>4. [proc[p] EXCEPT !.todo = targets, !.pc = x] \in Controls
  BY <1>2 DEF Typed, Controls
<1>5. proc' = [proc EXCEPT ![p] = [proc[p] EXCEPT !.todo = targets, !.pc = x]]
  BY <1>1 DEF Typed, Controls
<1>6. /\ proc' \in [Procs -> Controls] /\ \A q \in Procs \ {p} : proc'[q] = proc[q]
      /\ proc'[p] = [proc[p] EXCEPT !.todo = targets, !.pc = x]
  BY <1>4, <1>5 DEF Typed
<1> QED BY <1>3, <1>6 DEF Typed, Controls

\* An approval does not stop being one, nor a status that is not earned become one by itself.
LEMMA SameCredential ==
  ASSUME EarnedUnlessErased, Grows, credential' = credential
  PROVE  EarnedUnlessErased'
BY DEF EarnedUnlessErased, CredentialIsEarned, Grows

LEMMA SetTo ==
  ASSUME Typed, NEW p \in Procs, NEW r \in Controls, proc' = [proc EXCEPT ![p] = r]
  PROVE  /\ proc' \in [Procs -> Controls]
         /\ \A q \in Procs \ {p} : proc'[q] = proc[q]
         /\ proc'[p] = r
BY DEF Typed

LEMMA BusyIs ==
  ASSUME NEW x \in Points, NEW i \in Nat, NEW targets \in Seq(Credentials)
  PROVE  /\ Busy(x, i, targets) \in Controls
         /\ Busy(x, i, targets).pc = x /\ Busy(x, i, targets).row = i
         /\ Busy(x, i, targets).todo = targets /\ Busy(x, i, targets).session = None
BY DEF Busy, Controls

LEMMA IdleIs ==
  ASSUME NEW x \in Points
  PROVE  Idle(x) \in Controls /\ Idle(x).pc = x /\ Idle(x).row = 0 /\ Idle(x).session = None
<1>1. << >> \in Seq(Credentials) /\ None \in Sessions \cup {None}
      /\ "none" \in Verdicts \cup {"FAILED", "none"}
  OBVIOUS
<1> QED BY <1>1 DEF Idle, Busy, Controls

\* What a step writes down.
LEMMA Noted ==
  ASSUME Typed, NEW what \in {"erased", "missed", "raced"}, NEW cond, Note(what, cond)
  PROVE  anomalies \subseteq anomalies' /\ anomalies' \subseteq {"erased", "missed", "raced"}
BY DEF Typed, Note

\* A process that moves by itself and leaves the attempts and the credential alone.
LEMMA PlainStep ==
  ASSUME EarnedInvariant, Typed', Grows, UNCHANGED <<attempts, credential>>, NEW p \in Procs,
         \A q \in Procs \ {p} : proc'[q] = proc[q], RowIsThere(p)', Careful(p)'
  PROVE  EarnedInvariant'
<1>1. EarnedUnlessErased'
  BY SameCredential DEF EarnedInvariant
<1> QED BY <1>1, MovedAlone

-----------------------------------------------------------------------------
(* Steps of the processes. *)

LEMMA Singleton == ASSUME NEW c \in Credentials
                   PROVE  /\ <<c>> \in Seq(Credentials) /\ <<c>> # << >>
                          /\ Head(<<c>>) = c /\ Tail(<<c>>) = << >>
OBVIOUS

\* Reading the credential: a tab that goes on to write CONFIGURED has read SIGNATURE_PENDING.
LEMMA ReadCredentialKeeps ==
  ASSUME EarnedInvariant, NEW p \in Procs, ReadCredential(p) PROVE EarnedInvariant'
<1>0. Typed /\ RowIsThere(p) /\ Careful(p) /\ proc[p].todo \in Seq(Credentials)
  BY DEF EarnedInvariant, Typed, Controls
<1>1. UNCHANGED <<didit, known, lapsed, attempts, credential, verified, images, rubric,
                  anomalies>> /\ proc[p].pc = "reading"
  BY DEF ReadCredential, At, provider, identity
<1>2. Grows /\ EarnedUnlessErased'
  BY <1>1, SameCredential DEF EarnedInvariant, Grows
<1>3. CASE Allowed(credential, Head(proc[p].todo))
  <2>1. Goto(p, "writing")
    BY <1>3 DEF ReadCredential
  <2>a. "writing" \in Points
    BY DEF Points
  <2>2. /\ proc' \in [Procs -> Controls] /\ \A q \in Procs \ {p} : proc'[q] = proc[q]
        /\ proc'[p].pc = "writing" /\ proc'[p].row = proc[p].row
        /\ proc'[p].todo = proc[p].todo /\ proc'[p].session = proc[p].session
    BY <1>0, <2>1, <2>a, GotoIs
  <2>3. Head(proc[p].todo) = "CONFIGURED" => credential = "SIGNATURE_PENDING"
    BY <1>3 DEF Allowed
  <2>4. Careful(p)'
    BY <1>0, <1>1, <2>2, <2>3
       DEF Careful, Delivering, Approves, Earned, EarnedInvariant, EarnedUnlessErased,
           CredentialIsEarned
  <2>5. RowIsThere(p)'
    BY <1>0, <1>1, <2>2 DEF RowIsThere
  <2>6. Typed'
    BY <1>0, <1>1, <2>2 DEF Typed
  <2> QED BY <1>2, <2>2, <2>4, <2>5, <2>6, MovedAlone
<1>4. CASE ~Allowed(credential, Head(proc[p].todo))
  <2>1. Moves(p, Tail(proc[p].todo))
    BY <1>4 DEF ReadCredential
  <2>2. Tail(proc[p].todo) \in Seq(Credentials)
    BY <1>0, <1>1 DEF Careful
  <2>3. /\ proc' \in [Procs -> Controls] /\ \A q \in Procs \ {p} : proc'[q] = proc[q]
        /\ proc'[p].pc = (IF Tail(proc[p].todo) = << >> THEN "ending" ELSE "reading")
        /\ proc'[p].row = proc[p].row /\ proc'[p].todo = Tail(proc[p].todo)
        /\ proc'[p].session = proc[p].session
    BY <1>0, <2>1, <2>2, MovesIs
  <2>4. p \in Events => Delivering(p)'
    <3>1. (\E c \in Credentials : proc[p].todo = <<c>>) => Tail(proc[p].todo) = << >>
      BY Singleton
    <3> QED BY <1>0, <1>1, <2>3, <3>1 DEF Careful, Delivering, Approves, Earned
  <2>5. Careful(p)'
    BY <1>1, <2>3, <2>4 DEF Careful
  <2>6. RowIsThere(p)'
    BY <1>0, <1>1, <2>3 DEF RowIsThere
  <2>7. Typed'
    BY <1>0, <1>1, <2>3 DEF Typed
  <2> QED BY <1>2, <2>3, <2>5, <2>6, <2>7, MovedAlone
<1> QED BY <1>3, <1>4

LEMMA WriteCredentialKeeps ==
  ASSUME EarnedInvariant, NEW p \in Procs, WriteCredential(p) PROVE EarnedInvariant'
<1>0. /\ Typed /\ RowIsThere(p) /\ Careful(p) /\ proc[p].todo \in Seq(Credentials)
      /\ proc[p].pc = "writing"
  BY DEF EarnedInvariant, Typed, Controls, WriteCredential, At
<1>1. /\ UNCHANGED <<didit, known, lapsed, attempts, verified, images, rubric>>
      /\ credential' = Head(proc[p].todo) /\ Moves(p, Tail(proc[p].todo))
      /\ Note("erased", /\ p \in Tabs /\ credential' = "SIGNATURE_PENDING"
                        /\ credential # "CONFIGURED")
  BY DEF WriteCredential, provider, identity
<1>2. /\ Tail(proc[p].todo) \in Seq(Credentials) /\ Head(proc[p].todo) \in Credentials
      /\ proc[p].todo # << >>
  BY <1>0 DEF Careful
<1>3. /\ proc' \in [Procs -> Controls] /\ \A q \in Procs \ {p} : proc'[q] = proc[q]
      /\ proc'[p].pc = (IF Tail(proc[p].todo) = << >> THEN "ending" ELSE "reading")
      /\ proc'[p].row = proc[p].row /\ proc'[p].todo = Tail(proc[p].todo)
      /\ proc'[p].session = proc[p].session
  BY <1>0, <1>1, <1>2, MovesIs
<1>4. /\ anomalies \subseteq anomalies'
      /\ anomalies' \subseteq {"erased", "missed", "raced"}
  BY <1>0, <1>1, Noted
<1>5. Typed' /\ Grows
  BY <1>0, <1>1, <1>2, <1>3, <1>4 DEF Typed, Grows, EarnedInvariant
<1>6. p \in Events => Delivering(p)'
  <2>1. (\E c \in Credentials : proc[p].todo = <<c>>) => Tail(proc[p].todo) = << >>
    BY Singleton
  <2> QED BY <1>0, <1>1, <1>3, <2>1 DEF Careful, Delivering, Approves, Earned
<1>7. Careful(p)' /\ RowIsThere(p)'
  BY <1>0, <1>1, <1>3, <1>6 DEF Careful, RowIsThere
<1>8. credential' \in Earning => Earned \/ "erased" \in anomalies'
  <2>1. CASE p \in Events
    <3>1. \A c \in Credentials \ Earning : Head(<<c>>) = c
      OBVIOUS
    <3> QED BY <1>0, <1>1, <2>1, <3>1 DEF Careful, Delivering
  <2>2. CASE p \in Tabs /\ credential' = "CONFIGURED"
    BY <1>0, <1>1, <1>4, <2>2 DEF Careful
  <2>3. CASE p \in Tabs /\ credential' = "SIGNATURE_PENDING"
    BY <1>1, <1>4, <2>3
       DEF Note, EarnedInvariant, EarnedUnlessErased, CredentialIsEarned, Earned
  <2> QED BY <2>1, <2>2, <2>3 DEF Earning, Procs
<1>9. EarnedUnlessErased'
  BY <1>1, <1>8 DEF EarnedUnlessErased, CredentialIsEarned, Earned, Earning
<1> QED BY <1>3, <1>5, <1>7, <1>9, MovedAlone

\* A tab at rest owes nothing.
LEMMA TabIsFree ==
  ASSUME NEW t \in Tabs, proc'[t].row \in 0..Len(attempts'),
         proc'[t].pc \notin {"calling", "saving", "failing", "binding", "storing", "updating",
                             "reading", "writing", "ending"},
         proc'[t].pc \in {"idle", "inserting"} => proc'[t].row = 0,
         proc'[t].session # None => proc'[t].row # 0
  PROVE  RowIsThere(t)' /\ Careful(t)'
<1>1. t \notin Events
  BY TabsAssumption
<1> QED BY <1>1 DEF RowIsThere, Careful

\* A tab that goes on to move the credential.
LEMMA TabWillMove ==
  ASSUME NEW t \in Tabs, proc'[t].row \in 0..Len(attempts'), proc'[t].pc = "reading",
         proc'[t].todo # << >>,
         proc'[t].row # 0 => attempts'[proc'[t].row].hosted # None,
         proc'[t].session # None => proc'[t].row # 0
  PROVE  RowIsThere(t)' /\ Careful(t)'
<1>1. t \notin Events
  BY TabsAssumption
<1> QED BY <1>1 DEF RowIsThere, Careful

LEMMA StartKeeps ==
  ASSUME EarnedInvariant, NEW t \in Tabs, Start(t) PROVE EarnedInvariant'
<1>0. /\ Typed /\ RowIsThere(t) /\ t \in Procs /\ proc[t].pc = "idle" /\ proc[t].row = 0
      /\ attempts \in Seq(Attempts) /\ proc[t].session = None
  BY DEF EarnedInvariant, Typed, Start, At, Procs, RowIsThere
<1>1. UNCHANGED <<didit, known, lapsed, attempts, credential, verified, images, rubric,
                  anomalies>>
  BY DEF Start, provider, identity
<1>3. "reading" \in Points /\ "inserting" \in Points /\ "PENDING" \in Credentials
      /\ "MAX_ATTEMPTS" \in Credentials
  BY DEF Points, Credentials
<1>4. SUFFICES /\ proc' \in [Procs -> Controls] /\ \A q \in Procs \ {t} : proc'[q] = proc[q]
               /\ RowIsThere(t)' /\ Careful(t)'
  BY <1>0, <1>1, PlainStep DEF Typed, Grows
<1>5. CASE attempts # << >> /\ Reusable(Last(attempts))
  <2>1. /\ Len(attempts) \in DOMAIN attempts /\ Last(attempts) = attempts[Len(attempts)]
        /\ Len(attempts) \in Nat
    BY <1>0, <1>5 DEF Last
  <2>2. attempts[Len(attempts)].hosted # None
    BY <1>5, <2>1 DEF Reusable
  <2>3. <<"PENDING">> \in Seq(Credentials) /\ <<"PENDING">> # << >>
    BY <1>3
  <2>4. /\ proc' \in [Procs -> Controls] /\ \A q \in Procs \ {t} : proc'[q] = proc[q]
        /\ proc'[t].pc = "reading" /\ proc'[t].row = Len(attempts)
        /\ proc'[t].todo = <<"PENDING">> /\ proc'[t].session = None
    <3>1. proc' = [proc EXCEPT ![t] = Busy("reading", Len(attempts), <<"PENDING">>)]
      BY <1>5 DEF Start
    <3>2. LET r == Busy("reading", Len(attempts), <<"PENDING">>)
          IN  r \in Controls /\ r.pc = "reading" /\ r.row = Len(attempts)
              /\ r.todo = <<"PENDING">> /\ r.session = None
      BY <1>3, <2>1, <2>3 DEF Busy, Controls
    <3> QED BY <1>0, <3>1, <3>2, SetTo
  <2>5. attempts'[proc'[t].row].hosted # None /\ proc'[t].row \in 0..Len(attempts')
    BY <1>1, <2>1, <2>2, <2>4
  <2>6. RowIsThere(t)' /\ Careful(t)'
    BY <2>3, <2>4, <2>5, TabWillMove
  <2> QED BY <2>4, <2>6
<1>6. CASE ~(attempts # << >> /\ Reusable(Last(attempts))) /\ Consumed >= MaxAllowed
  <2>1. <<"MAX_ATTEMPTS">> \in Seq(Credentials) /\ <<"MAX_ATTEMPTS">> # << >>
    BY <1>3
  <2>2. Moves(t, <<"MAX_ATTEMPTS">>)
    BY <1>6 DEF Start
  <2>3. /\ proc' \in [Procs -> Controls] /\ \A q \in Procs \ {t} : proc'[q] = proc[q]
        /\ proc'[t].pc = "reading" /\ proc'[t].row = 0
        /\ proc'[t].todo = <<"MAX_ATTEMPTS">> /\ proc'[t].session = None
    BY <1>0, <2>1, <2>2, MovesIs
  <2>4. RowIsThere(t)' /\ Careful(t)'
    <3>1. proc'[t].row \in 0..Len(attempts') /\ proc'[t].todo # << >>
      BY <1>0, <1>1, <2>1, <2>3
    <3> QED BY <2>3, <3>1, TabWillMove
  <2> QED BY <2>3, <2>4
<1>7. CASE Goto(t, "inserting")
  <2>1. /\ proc' \in [Procs -> Controls] /\ \A q \in Procs \ {t} : proc'[q] = proc[q]
        /\ proc'[t].pc = "inserting" /\ proc'[t].row = 0 /\ proc'[t].session = None
    BY <1>0, <1>3, <1>7, GotoIs
  <2> QED BY <1>0, <1>1, <2>1, TabIsFree
<1> QED BY <1>5, <1>6, <1>7 DEF Start

\* Who answers, or is cut, is at rest.
LEMMA Rests ==
  ASSUME EarnedInvariant, NEW t \in Tabs, proc' = [proc EXCEPT ![t] = Idle("idle")]
  PROVE  /\ proc' \in [Procs -> Controls] /\ \A q \in Procs \ {t} : proc'[q] = proc[q]
         /\ Len(attempts') \in Nat => RowIsThere(t)' /\ Careful(t)'
<1>1. t \in Procs /\ Typed /\ "idle" \in Points
  BY DEF EarnedInvariant, Procs, Points
<1>2. /\ proc' \in [Procs -> Controls] /\ \A q \in Procs \ {t} : proc'[q] = proc[q]
      /\ proc'[t].pc = "idle" /\ proc'[t].row = 0 /\ proc'[t].session = None
  BY <1>1, IdleIs, SetTo
<1>3. Len(attempts') \in Nat => proc'[t].row \in 0..Len(attempts')
  BY <1>2
<1> QED BY <1>2, <1>3, TabIsFree

\* A tab that asks for the credential on its own account.
LEMMA AsksFor ==
  ASSUME EarnedInvariant, NEW t \in Tabs, NEW c \in Credentials,
         proc' = [proc EXCEPT ![t] = Busy("reading", 0, <<c>>)], UNCHANGED attempts
  PROVE  /\ proc' \in [Procs -> Controls] /\ \A q \in Procs \ {t} : proc'[q] = proc[q]
         /\ RowIsThere(t)' /\ Careful(t)'
<1>1. /\ t \in Procs /\ Typed /\ "reading" \in Points /\ <<c>> \in Seq(Credentials)
      /\ <<c>> # << >> /\ 0 \in 0..Len(attempts)
  BY Singleton DEF EarnedInvariant, Procs, Points, Typed
<1>2. LET r == Busy("reading", 0, <<c>>)
      IN  r \in Controls /\ r.pc = "reading" /\ r.row = 0 /\ r.todo = <<c>>
          /\ r.session = None
  BY <1>1 DEF Busy, Controls
<1>3. /\ proc' \in [Procs -> Controls] /\ \A q \in Procs \ {t} : proc'[q] = proc[q]
      /\ proc'[t].pc = "reading" /\ proc'[t].row = 0 /\ proc'[t].todo = <<c>>
      /\ proc'[t].session = None
  BY <1>1, <1>2, SetTo
<1> QED BY <1>1, <1>3, TabWillMove

LEMMA RubricKeeps ==
  ASSUME EarnedInvariant, NEW t \in Tabs,
         \/ UploadSignature(t) \/ UpdateSignature(t) \/ DeactivateSignature(t)
         \/ DeleteSignature(t) \/ DeleteOfficialFile(t)
  PROVE  EarnedInvariant'
<1>0. Typed /\ t \in Procs /\ RowIsThere(t) /\ Careful(t)
  BY DEF EarnedInvariant, Procs
<1>a. rubric \in Rubrics /\ rubric.card \in BOOLEAN
  BY <1>0 DEF Typed, Rubrics
<1>b. rubric' \in Rubrics
  <2>1. CASE UploadSignature(t)
    <3>1. PICK c \in BOOLEAN : rubric' = [image |-> "drawn", card |-> c]
      BY <1>a, <2>1 DEF UploadSignature
    <3> QED BY <3>1 DEF Rubrics
  <2>2. CASE UpdateSignature(t)
    BY <1>a, <2>2 DEF UpdateSignature, Rubrics
  <2>3. CASE DeactivateSignature(t)
    BY <1>a, <2>3 DEF DeactivateSignature, Rubrics
  <2>4. CASE DeleteSignature(t) \/ DeleteOfficialFile(t)
    BY <1>a, <2>4 DEF DeleteSignature, DeleteOfficialFile, Rubrics
  <2> QED BY <2>1, <2>2, <2>3, <2>4
<1>1. /\ UNCHANGED <<didit, known, lapsed, attempts, credential, verified, images, anomalies>>
      /\ rubric' \in Rubrics
  BY <1>b DEF UploadSignature, UpdateSignature, DeactivateSignature, DeleteSignature,
              DeleteOfficialFile, provider, identity
<1>3. \/ \E c \in Credentials : proc' = [proc EXCEPT ![t] = Busy("reading", 0, <<c>>)]
      \/ proc' = proc
  BY DEF UploadSignature, UpdateSignature, DeactivateSignature, DeleteSignature,
         DeleteOfficialFile, Credentials
<1>4. Grows
  BY <1>1 DEF Grows
<1>5. proc' \in [Procs -> Controls] /\ \A q \in Procs \ {t} : proc'[q] = proc[q]
  BY <1>0, <1>1, <1>3, AsksFor DEF Typed
<1>6. Typed'
  BY <1>0, <1>1, <1>5 DEF Typed
<1>7. RowIsThere(t)' /\ Careful(t)'
  BY <1>0, <1>1, <1>3, <1>4, <1>6, AsksFor, Unmoved
<1> QED BY <1>0, <1>1, <1>4, <1>5, <1>6, <1>7, PlainStep

LEMMA InsertAttemptKeeps ==
  ASSUME EarnedInvariant, NEW t \in Tabs, InsertAttempt(t) PROVE EarnedInvariant'
<1>0. Typed /\ t \in Procs /\ t \notin Events /\ attempts \in Seq(Attempts)
  BY TabsAssumption DEF EarnedInvariant, Procs, Typed
<1>1. /\ UNCHANGED <<didit, known, lapsed, credential, verified, images, rubric, anomalies>>
      /\ attempts' = Append(attempts, [status |-> "PENDING", session |-> None,
                                       hosted |-> None])
      /\ proc' = [proc EXCEPT ![t] = Busy("calling", Len(attempts'), << >>)]
  BY DEF InsertAttempt, provider, identity
<1>2. [status |-> "PENDING", session |-> None, hosted |-> None] \in Attempts
  BY DEF Attempts, Verdicts
<1>3. /\ attempts' \in Seq(Attempts) /\ Len(attempts') = Len(attempts) + 1
      /\ \A i \in DOMAIN attempts : i \in DOMAIN attempts' /\ attempts'[i] = attempts[i]
      /\ Len(attempts) \in Nat
  BY <1>0, <1>1, <1>2
<1>4. LET r == Busy("calling", Len(attempts'), << >>)
      IN  r \in Controls /\ r.pc = "calling" /\ r.row = Len(attempts')
  <2>1. << >> \in Seq(Credentials) /\ Len(attempts') \in Nat /\ "calling" \in Points
    BY <1>3 DEF Points
  <2> QED BY <2>1 DEF Busy, Controls
<1>5. /\ proc' \in [Procs -> Controls] /\ \A q \in Procs \ {t} : proc'[q] = proc[q]
      /\ proc'[t].pc = "calling" /\ proc'[t].row = Len(attempts')
  BY <1>0, <1>1, <1>4, SetTo
<1>6. Typed' /\ Grows
  BY <1>0, <1>1, <1>3, <1>5 DEF Typed, Grows, EarnedInvariant
<1>7. RowIsThere(t)' /\ Careful(t)'
  BY <1>0, <1>3, <1>5 DEF RowIsThere, Careful
<1> QED BY <1>0, <1>1, <1>5, <1>6, <1>7, MovedAlone, SameCredential DEF EarnedInvariant

\* Changing one attempt.
LEMMA OneAttempt ==
  ASSUME Typed, NEW i \in DOMAIN attempts, NEW x \in Attempts,
         attempts' = [attempts EXCEPT ![i] = x], attempts[i].hosted # None => x.hosted # None
  PROVE  /\ attempts' \in Seq(Attempts) /\ DOMAIN attempts' = DOMAIN attempts
         /\ Len(attempts') = Len(attempts) /\ attempts'[i] = x
         /\ \A j \in DOMAIN attempts : /\ j # i => attempts'[j] = attempts[j]
                                       /\ attempts[j].hosted # None
                                            => attempts'[j].hosted # None
BY DEF Typed

\* Giving an attempt another status, or the session it lacked.
LEMMA OneStatus ==
  ASSUME Typed, NEW i \in DOMAIN attempts, NEW st \in Verdicts \cup {"FAILED"},
         attempts' = [attempts EXCEPT ![i].status = st]
  PROVE  /\ attempts' \in Seq(Attempts) /\ DOMAIN attempts' = DOMAIN attempts
         /\ Len(attempts') = Len(attempts)
         /\ \A j \in DOMAIN attempts : attempts[j].hosted # None => attempts'[j].hosted # None
<1>1. attempts[i] \in Attempts
  BY DEF Typed
<1> DEFINE x == [attempts[i] EXCEPT !.status = st]
<1>2. x \in Attempts /\ x.session = attempts[i].session /\ x.hosted = attempts[i].hosted
  BY <1>1 DEF Attempts
<1>3. attempts' = [attempts EXCEPT ![i] = x]
  OBVIOUS
<1> HIDE DEF x
<1>4. /\ attempts' \in Seq(Attempts) /\ DOMAIN attempts' = DOMAIN attempts
      /\ Len(attempts') = Len(attempts) /\ attempts'[i] = x
      /\ \A j \in DOMAIN attempts : /\ j # i => attempts'[j] = attempts[j]
                                    /\ attempts[j].hosted # None => attempts'[j].hosted # None
  BY <1>2, <1>3, OneAttempt
<1> QED BY <1>4

LEMMA FailStartKeeps ==
  ASSUME EarnedInvariant, NEW t \in Tabs, FailStart(t) PROVE EarnedInvariant'
<1>0. Typed /\ t \in Procs /\ proc[t].row \in DOMAIN attempts
  BY DEF EarnedInvariant, Procs, RowIsThere, FailStart, At, Typed
<1>1. /\ UNCHANGED <<didit, known, lapsed, credential, verified, images, rubric, anomalies>>
      /\ attempts' = [attempts EXCEPT ![proc[t].row].status = "FAILED"]
      /\ proc' = [proc EXCEPT ![t] = Idle("idle")]
  BY DEF FailStart, provider, identity
<1>2. /\ attempts' \in Seq(Attempts) /\ DOMAIN attempts' = DOMAIN attempts
      /\ Len(attempts') \in Nat
      /\ \A j \in DOMAIN attempts : attempts[j].hosted # None => attempts'[j].hosted # None
  <2> DEFINE i == proc[t].row
  <2>1. i \in DOMAIN attempts /\ attempts' = [attempts EXCEPT ![i].status = "FAILED"]
    BY <1>0, <1>1
  <2>2. Len(attempts) \in Nat
    BY <1>0 DEF Typed
  <2> HIDE DEF i
  <2> QED BY <1>0, <2>1, <2>2, OneStatus
<1>3. /\ proc' \in [Procs -> Controls] /\ \A q \in Procs \ {t} : proc'[q] = proc[q]
      /\ RowIsThere(t)' /\ Careful(t)'
  BY <1>1, <1>2, Rests
<1>4. Typed' /\ Grows
  BY <1>0, <1>1, <1>2, <1>3 DEF Typed, Grows
<1> QED BY <1>0, <1>1, <1>2, <1>3, <1>4, MovedAlone, SameCredential DEF EarnedInvariant

LEMMA AnswerKeeps ==
  ASSUME EarnedInvariant, NEW t \in Tabs, Answer(t) PROVE EarnedInvariant'
<1>0. /\ Typed /\ t \in Procs /\ RowIsThere(t) /\ proc[t].pc = "ending"
      /\ Len(attempts) \in Nat
  BY DEF EarnedInvariant, Procs, Answer, At, Typed
<1>1. /\ UNCHANGED <<didit, lapsed, attempts, credential, verified, images, rubric, anomalies>>
      /\ proc' = [proc EXCEPT ![t] = Idle("idle")]
      /\ known' = IF proc[t].row = 0 THEN known
                  ELSE known \cup {attempts[proc[t].row].hosted}
  BY DEF Answer, identity
<1>2. known' \subseteq Sessions
  <2>1. CASE proc[t].row = 0
    BY <1>0, <1>1, <2>1 DEF Typed
  <2>2. CASE proc[t].row # 0
    <3>1. proc[t].row \in DOMAIN attempts /\ attempts[proc[t].row].hosted # None
      BY <1>0, <2>2 DEF RowIsThere, Typed
    <3>2. attempts[proc[t].row] \in Attempts
      BY <1>0, <3>1 DEF Typed
    <3> QED BY <1>0, <1>1, <2>2, <3>1, <3>2 DEF Typed, Attempts
  <2> QED BY <2>1, <2>2
<1>3. /\ proc' \in [Procs -> Controls] /\ \A q \in Procs \ {t} : proc'[q] = proc[q]
      /\ RowIsThere(t)' /\ Careful(t)'
  BY <1>0, <1>1, Rests
<1>4. Typed' /\ Grows
  BY <1>0, <1>1, <1>2, <1>3 DEF Typed, Grows
<1> QED BY <1>0, <1>1, <1>3, <1>4, PlainStep

LEMMA AbortRequestKeeps ==
  ASSUME EarnedInvariant, NEW t \in Tabs, AbortRequest(t) PROVE EarnedInvariant'
<1>0. /\ Typed /\ t \in Procs /\ t \notin Events /\ RowIsThere(t) /\ Len(attempts) \in Nat
  BY TabsAssumption DEF EarnedInvariant, Procs, Typed
<1>1. UNCHANGED <<didit, known, lapsed, attempts, credential, verified, images, rubric,
                  anomalies>>
  BY DEF AbortRequest, provider, identity
<1>3. CASE proc' = [proc EXCEPT ![t] = Idle("idle")]
  <2>1. /\ proc' \in [Procs -> Controls] /\ \A q \in Procs \ {t} : proc'[q] = proc[q]
        /\ RowIsThere(t)' /\ Careful(t)'
    BY <1>0, <1>1, <1>3, Rests
  <2> QED BY <1>0, <1>1, <2>1, PlainStep DEF Typed, Grows
<1>4. CASE proc[t].session # None /\ Goto(t, "failing")
  <2>1. "failing" \in Points
    BY DEF Points
  <2>2. /\ proc' \in [Procs -> Controls] /\ \A q \in Procs \ {t} : proc'[q] = proc[q]
        /\ proc'[t].pc = "failing" /\ proc'[t].row = proc[t].row
    BY <1>0, <1>4, <2>1, GotoIs
  <2>3. RowIsThere(t)' /\ Careful(t)'
    BY <1>0, <1>1, <1>4, <2>2 DEF RowIsThere, Careful
  <2> QED BY <1>0, <1>1, <2>2, <2>3, PlainStep DEF Typed, Grows
<1> QED BY <1>3, <1>4 DEF AbortRequest

\* Didit opens a session: the event that tells so is on its way.
LEMMA CreateSessionKeeps ==
  ASSUME EarnedInvariant, NEW t \in Tabs, CreateSession(t) PROVE EarnedInvariant'
<1>0. /\ Typed /\ t \in Procs /\ t \notin Events /\ RowIsThere(t) /\ Len(attempts) \in Nat
      /\ proc[t].pc = "calling" /\ proc[t] \in Controls
  BY TabsAssumption DEF EarnedInvariant, Procs, Typed, CreateSession, At
<1>1. UNCHANGED <<known, lapsed, attempts, credential, verified, images, rubric, anomalies>>
  BY DEF CreateSession, identity
<1>2. "failing" \in Points /\ "saving" \in Points /\ "sent" \in Points /\ "PENDING" \in Verdicts
  BY DEF Points, Verdicts
<1>3. CASE Fault /\ Goto(t, "failing") /\ UNCHANGED didit
  <2>1. /\ proc' \in [Procs -> Controls] /\ \A q \in Procs \ {t} : proc'[q] = proc[q]
        /\ proc'[t].pc = "failing" /\ proc'[t].row = proc[t].row
    BY <1>0, <1>2, <1>3, GotoIs
  <2>2. RowIsThere(t)' /\ Careful(t)'
    BY <1>0, <1>1, <2>1 DEF RowIsThere, Careful
  <2> QED BY <1>0, <1>1, <1>3, <2>1, <2>2, PlainStep DEF Typed, Grows
<1>4. ASSUME NEW s \in Sessions, didit[s] = "none", didit' = [didit EXCEPT ![s] = "PENDING"],
             \/ proc' = [proc EXCEPT ![<<s, "PENDING">>].pc = "sent",
                                     ![t].pc = "saving", ![t].session = s]
             \/ proc' = [proc EXCEPT ![<<s, "PENDING">>].pc = "sent", ![t].pc = "failing"]
      PROVE  EarnedInvariant'
  <2> DEFINE e == <<s, "PENDING">>
  <2>1. e \in Events /\ e \in Procs /\ e # t /\ e \notin Tabs /\ ~Approves(e)
    BY <1>0, <1>2, TabsAssumption DEF Events, Procs, Approves
  <2>2. /\ proc' \in [Procs -> Controls]
        /\ \A q \in Procs \ {t, e} : proc'[q] = proc[q]
        /\ proc'[e].pc = "sent" /\ proc'[e].row = proc[e].row
        /\ proc'[t].row = proc[t].row
        /\ \/ proc'[t].pc = "failing"
           \/ proc'[t].pc = "saving" /\ proc'[t].session \in Sessions
    <3>1. proc[e] \in Controls
      BY <1>0, <2>1 DEF Typed
    <3>2. CASE proc' = [proc EXCEPT ![e].pc = "sent", ![t].pc = "failing"]
      <4>1. /\ proc' = [proc EXCEPT ![e] = [proc[e] EXCEPT !.pc = "sent"],
                                    ![t] = [proc[t] EXCEPT !.pc = "failing"]]
            /\ [proc[e] EXCEPT !.pc = "sent"] \in Controls
            /\ [proc[t] EXCEPT !.pc = "failing"] \in Controls
        BY <1>0, <1>2, <2>1, <3>1, <3>2 DEF Typed, Controls
      <4> QED BY <1>0, <2>1, <3>1, <4>1 DEF Typed, Controls
    <3>3. CASE proc' = [proc EXCEPT ![e].pc = "sent", ![t].pc = "saving", ![t].session = s]
      <4>1. /\ proc' = [proc EXCEPT ![e] = [proc[e] EXCEPT !.pc = "sent"],
                                    ![t] = [proc[t] EXCEPT !.pc = "saving", !.session = s]]
            /\ [proc[e] EXCEPT !.pc = "sent"] \in Controls
            /\ [proc[t] EXCEPT !.pc = "saving", !.session = s] \in Controls
        BY <1>0, <1>2, <2>1, <3>1, <3>3 DEF Typed, Controls
      <4> QED BY <1>0, <2>1, <3>1, <4>1 DEF Typed, Controls
    <3> QED BY <1>4, <3>2, <3>3
  <2>3. didit' \in [Sessions -> Verdicts \cup {"none"}] /\ Typed' /\ Grows
    BY <1>0, <1>1, <1>2, <1>4, <2>2 DEF Typed, Grows
  <2>4. RowIsThere(t)' /\ Careful(t)'
    BY <1>0, <1>1, <2>2 DEF RowIsThere, Careful
  <2>5. RowIsThere(e)' /\ Careful(e)'
    <3>1. RowIsThere(e)
      BY <2>1 DEF EarnedInvariant
    <3>2. RowIsThere(e)'
      BY <1>1, <2>1, <2>2, <3>1 DEF RowIsThere
    <3>3. Careful(e)'
      BY <2>1, <2>2 DEF Careful, Delivering
    <3> QED BY <3>2, <3>3
  <2> HIDE DEF e
  <2>6. \A q \in Procs : RowIsThere(q)' /\ Careful(q)'
    <3> SUFFICES ASSUME NEW q \in Procs, q # t, q # e PROVE RowIsThere(q)' /\ Careful(q)'
      BY <2>4, <2>5
    <3> QED BY <1>0, <2>2, <2>3, Unmoved DEF EarnedInvariant
  <2>7. EarnedUnlessErased'
    BY <1>1, <2>3, SameCredential DEF EarnedInvariant
  <2> QED BY <2>3, <2>6, <2>7 DEF EarnedInvariant
<1> QED BY <1>3, <1>4 DEF CreateSession

LEMMA SaveSessionKeeps ==
  ASSUME EarnedInvariant, NEW t \in Tabs, SaveSession(t) PROVE EarnedInvariant'
<1> DEFINE i == proc[t].row
           s == proc[t].session
<1>0. /\ Typed /\ t \in Procs /\ t \notin Events /\ RowIsThere(t) /\ Len(attempts) \in Nat
      /\ proc[t].pc = "saving" /\ i \in DOMAIN attempts /\ s \in Sessions
  BY TabsAssumption DEF EarnedInvariant, Procs, Typed, SaveSession, At, RowIsThere
<1>1. UNCHANGED <<didit, known, lapsed, credential, verified, images, rubric, anomalies>>
  BY DEF SaveSession, provider, identity
<1>2. "failing" \in Points /\ <<"PENDING">> \in Seq(Credentials) /\ <<"PENDING">> # << >>
  BY DEF Points, Credentials
<1>3. CASE Goto(t, "failing") /\ UNCHANGED attempts
  <2>1. /\ proc' \in [Procs -> Controls] /\ \A q \in Procs \ {t} : proc'[q] = proc[q]
        /\ proc'[t].pc = "failing" /\ proc'[t].row = i
    BY <1>0, <1>2, <1>3, GotoIs
  <2>2. RowIsThere(t)' /\ Careful(t)'
    BY <1>0, <1>3, <2>1 DEF RowIsThere, Careful
  <2> QED BY <1>0, <1>1, <1>3, <2>1, <2>2, PlainStep DEF Typed, Grows
<1>4. CASE /\ attempts' = [attempts EXCEPT ![i].session = s, ![i].hosted = s]
           /\ Moves(t, <<"PENDING">>)
  <2> DEFINE x == [attempts[i] EXCEPT !.session = s, !.hosted = s]
  <2>1. attempts[i] \in Attempts
    BY <1>0 DEF Typed
  <2>2. x \in Attempts /\ x.hosted = s /\ s # None
    BY <1>0, <2>1, NamesAssumption DEF Attempts
  <2>3. attempts' = [attempts EXCEPT ![i] = x]
    BY <1>0, <1>4 DEF Typed
  <2>4. /\ proc' \in [Procs -> Controls] /\ \A q \in Procs \ {t} : proc'[q] = proc[q]
        /\ proc'[t].pc = "reading" /\ proc'[t].row = i /\ proc'[t].todo = <<"PENDING">>
    BY <1>0, <1>2, <1>4, MovesIs
  <2> HIDE DEF x, i, s
  <2>5. /\ attempts' \in Seq(Attempts) /\ DOMAIN attempts' = DOMAIN attempts
        /\ Len(attempts') = Len(attempts) /\ attempts'[i] = x
        /\ \A j \in DOMAIN attempts : /\ j # i => attempts'[j] = attempts[j]
                                      /\ attempts[j].hosted # None
                                           => attempts'[j].hosted # None
    BY <1>0, <2>2, <2>3, OneAttempt
  <2>7. Typed' /\ Grows
    BY <1>0, <1>1, <2>4, <2>5 DEF Typed, Grows
  <2>8. RowIsThere(t)' /\ Careful(t)'
    <3>1. /\ proc'[t].row \in 0..Len(attempts')
          /\ attempts'[proc'[t].row].hosted # None
      BY <1>0, <2>2, <2>4, <2>5 DEF Typed
    <3>2. proc'[t].row # 0
      BY <1>0, <2>4
    <3> QED BY <1>2, <2>4, <3>1, <3>2, TabWillMove
  <2> QED BY <1>0, <1>1, <2>4, <2>7, <2>8, MovedAlone, SameCredential DEF EarnedInvariant
<1> QED BY <1>3, <1>4 DEF SaveSession

-----------------------------------------------------------------------------
(* Steps of Didit and of its deliveries. *)

\* A delivery has only the event to lose.
LEMMA EventIs ==
  ASSUME EarnedInvariant, NEW d \in Events
  PROVE  /\ Typed /\ d \in Procs /\ d \notin Tabs /\ RowIsThere(d) /\ Careful(d)
         /\ Delivering(d) /\ d[1] \in Sessions /\ d[2] \in Verdicts /\ proc[d] \in Controls
         /\ Len(attempts) \in Nat
BY TabsAssumption DEF EarnedInvariant, Procs, Events, Careful, Typed

\* A delivery that is not about to move the credential, where it has come to.
LEMMA DeliveryIsAt ==
  ASSUME EarnedInvariant, NEW d \in Events, Grows, proc[d].pc # "unsent",
         proc'[d].row \in 0..Len(attempts'),
         proc'[d].pc \in {"sent", "searching", "binding", "storing", "updating", "verifying",
                          "ending", "done"},
         proc'[d].pc \in {"binding", "storing", "updating"} => proc'[d].row # 0,
         Approves(d) /\ proc'[d].pc \in {"updating", "verifying"} => images',
         proc'[d].pc = "verifying" => Approves(d)
  PROVE  RowIsThere(d)' /\ Careful(d)'
<1>1. d \notin Tabs /\ d[1] \in Sessions /\ Delivering(d)
  BY EventIs
<1>2. RowIsThere(d)'
  BY <1>1 DEF RowIsThere
<1>3. Delivering(d)'
  BY <1>1 DEF Delivering, Grows, Approves
<1> QED BY <1>1, <1>2, <1>3 DEF Careful

LEMMA ApplyIs ==
  ASSUME EarnedInvariant, NEW d \in Events, NEW i \in Nat, NEW st, Apply(d, i, st)
  PROVE  /\ proc' \in [Procs -> Controls] /\ \A q \in Procs \ {d} : proc'[q] = proc[q]
         /\ proc'[d].row = i /\ proc'[d].pc \in {"ending", "storing", "updating"}
         /\ proc'[d].pc = "updating" => ~Approves(d)
<1> DEFINE x == IF Stale(d, st) THEN "ending" ELSE IF Approves(d) THEN "storing" ELSE "updating"
<1>1. proc' = [proc EXCEPT ![d].row = i, ![d].pc = x]
  BY DEF Apply
<1>2. x \in {"ending", "storing", "updating"} /\ x \in Points
      /\ (x = "updating" => ~Approves(d))
  BY DEF Points
<1> HIDE DEF x
<1>3. Typed /\ d \in Procs /\ proc[d] \in Controls
  BY EventIs
<1>4. proc' = [proc EXCEPT ![d] = [proc[d] EXCEPT !.row = i, !.pc = x]]
  BY <1>1, <1>3 DEF Typed
<1>5. LET r == [proc[d] EXCEPT !.row = i, !.pc = x]
      IN  r \in Controls /\ r.row = i /\ r.pc = x
  BY <1>2, <1>3 DEF Controls
<1>6. /\ proc' \in [Procs -> Controls] /\ \A q \in Procs \ {d} : proc'[q] = proc[q]
      /\ proc'[d].row = i /\ proc'[d].pc = x
  BY <1>3, <1>4, <1>5, SetTo
<1> QED BY <1>2, <1>6

LEMMA FindAttemptKeeps ==
  ASSUME EarnedInvariant, NEW d \in Events, FindAttempt(d) PROVE EarnedInvariant'
<1>0. Typed /\ d \in Procs /\ RowIsThere(d) /\ Len(attempts) \in Nat /\ proc[d].pc = "sent"
  BY EventIs DEF FindAttempt, At
<1>1. UNCHANGED <<didit, known, lapsed, attempts, credential, verified, images, rubric,
                  anomalies>>
  BY DEF FindAttempt, provider, identity
<1>3. Grows
  BY <1>1 DEF Grows
<1>4. ASSUME NEW i \in DOMAIN attempts, Apply(d, i, attempts[i].status)
      PROVE  EarnedInvariant'
  <2>1. i \in Nat /\ i \in 1..Len(attempts)
    BY <1>0 DEF Typed
  <2>2. /\ proc' \in [Procs -> Controls] /\ \A q \in Procs \ {d} : proc'[q] = proc[q]
        /\ proc'[d].row = i /\ proc'[d].pc \in {"ending", "storing", "updating"}
        /\ proc'[d].pc = "updating" => ~Approves(d)
    BY <1>4, <2>1, ApplyIs
  <2>3. RowIsThere(d)' /\ Careful(d)'
    BY <1>0, <1>1, <1>3, <2>1, <2>2, DeliveryIsAt
  <2> QED BY <1>0, <1>1, <1>3, <2>2, <2>3, PlainStep DEF Typed
<1>5. CASE Goto(d, "searching")
  <2>1. "searching" \in Points
    BY DEF Points
  <2>2. /\ proc' \in [Procs -> Controls] /\ \A q \in Procs \ {d} : proc'[q] = proc[q]
        /\ proc'[d].pc = "searching" /\ proc'[d].row = proc[d].row
    BY <1>0, <1>5, <2>1, GotoIs
  <2>3. RowIsThere(d)' /\ Careful(d)'
    BY <1>0, <1>1, <1>3, <2>2, DeliveryIsAt DEF RowIsThere
  <2> QED BY <1>0, <1>1, <1>3, <2>2, <2>3, PlainStep DEF Typed
<1> QED BY <1>4, <1>5 DEF FindAttempt

LEMMA FindOrphanKeeps ==
  ASSUME EarnedInvariant, NEW d \in Events, FindOrphan(d) PROVE EarnedInvariant'
<1>0. /\ Typed /\ d \in Procs /\ RowIsThere(d) /\ Len(attempts) \in Nat
      /\ proc[d] \in Controls /\ proc[d].pc = "searching"
  BY EventIs DEF FindOrphan, At
<1>1. /\ UNCHANGED <<didit, known, lapsed, attempts, credential, verified, images, rubric>>
      /\ anomalies \subseteq anomalies' /\ anomalies' \subseteq {"erased", "missed", "raced"}
  BY <1>0, Noted DEF FindOrphan, provider, identity
<1>2. Grows
  BY <1>1 DEF Grows
<1>3. ASSUME NEW i \in Orphans,
             proc' = [proc EXCEPT ![d].row = i, ![d].seen = attempts[i].status,
                                  ![d].pc = "binding"]
      PROVE  EarnedInvariant'
  <2>1. i \in Nat /\ i \in 1..Len(attempts) /\ attempts[i] \in Attempts /\ "binding" \in Points
    BY <1>0 DEF Typed, Orphans, Points
  <2> DEFINE st == attempts[i].status
  <2>2. st \in Verdicts \cup {"FAILED", "none"}
    BY <2>1 DEF Attempts
  <2>3. proc' = [proc EXCEPT ![d] = [proc[d] EXCEPT !.row = i, !.seen = st, !.pc = "binding"]]
    BY <1>0, <1>3 DEF Typed
  <2> HIDE DEF st
  <2>4. LET r == [proc[d] EXCEPT !.row = i, !.seen = st, !.pc = "binding"]
        IN  r \in Controls /\ r.row = i /\ r.pc = "binding"
    BY <1>0, <2>1, <2>2 DEF Controls
  <2>5. /\ proc' \in [Procs -> Controls] /\ \A q \in Procs \ {d} : proc'[q] = proc[q]
        /\ proc'[d].row = i /\ proc'[d].pc = "binding"
    BY <1>0, <2>3, <2>4, SetTo
  <2>6. RowIsThere(d)' /\ Careful(d)'
    BY <1>0, <1>1, <1>2, <2>1, <2>5, DeliveryIsAt
  <2> QED BY <1>0, <1>1, <1>2, <2>5, <2>6, PlainStep DEF Typed
<1>4. CASE Goto(d, "ending")
  <2>1. "ending" \in Points
    BY DEF Points
  <2>2. /\ proc' \in [Procs -> Controls] /\ \A q \in Procs \ {d} : proc'[q] = proc[q]
        /\ proc'[d].pc = "ending" /\ proc'[d].row = proc[d].row
    BY <1>0, <1>4, <2>1, GotoIs
  <2>3. RowIsThere(d)' /\ Careful(d)'
    BY <1>0, <1>1, <1>2, <2>2, DeliveryIsAt DEF RowIsThere
  <2> QED BY <1>0, <1>1, <1>2, <2>2, <2>3, PlainStep DEF Typed
<1> QED BY <1>3, <1>4 DEF FindOrphan

LEMMA StoreImagesKeeps ==
  ASSUME EarnedInvariant, NEW d \in Events, StoreImages(d) PROVE EarnedInvariant'
<1>0. Typed /\ d \in Procs /\ RowIsThere(d) /\ Len(attempts) \in Nat /\ proc[d].pc = "storing"
  BY EventIs DEF StoreImages, At
<1>1. /\ UNCHANGED <<didit, known, lapsed, attempts, credential, verified, rubric, anomalies>>
      /\ images' = TRUE /\ Goto(d, "updating") /\ "updating" \in Points
  BY DEF StoreImages, provider, Points
<1>2. /\ proc' \in [Procs -> Controls] /\ \A q \in Procs \ {d} : proc'[q] = proc[q]
      /\ proc'[d].pc = "updating" /\ proc'[d].row = proc[d].row
  BY <1>0, <1>1, GotoIs
<1>3. Grows /\ Typed'
  BY <1>0, <1>1, <1>2 DEF Grows, Typed
<1>4. RowIsThere(d)' /\ Careful(d)'
  BY <1>0, <1>1, <1>2, <1>3, DeliveryIsAt DEF RowIsThere
<1> QED BY <1>0, <1>1, <1>2, <1>3, <1>4, PlainStep

\* A delivery that ends, or will be made again.
LEMMA DeliveryRests ==
  ASSUME EarnedInvariant, NEW d \in Events, proc[d].pc # "unsent", Grows,
         NEW x \in {"sent", "done"}, proc' = [proc EXCEPT ![d] = Idle(x)],
         Len(attempts') \in Nat
  PROVE  /\ proc' \in [Procs -> Controls] /\ \A q \in Procs \ {d} : proc'[q] = proc[q]
         /\ RowIsThere(d)' /\ Careful(d)'
<1>1. Typed /\ d \in Procs /\ x \in Points
  BY EventIs DEF Points
<1>2. /\ proc' \in [Procs -> Controls] /\ \A q \in Procs \ {d} : proc'[q] = proc[q]
      /\ proc'[d].pc = x /\ proc'[d].row = 0
  BY <1>1, IdleIs, SetTo
<1>3. proc'[d].row \in 0..Len(attempts')
  BY <1>2
<1> QED BY <1>2, <1>3, DeliveryIsAt

LEMMA EndsKeep ==
  ASSUME EarnedInvariant, NEW d \in Events, MarkProcessed(d) \/ AbortDelivery(d)
  PROVE  EarnedInvariant'
<1>0. Typed /\ d \in Procs /\ Len(attempts) \in Nat /\ proc[d].pc # "unsent"
  BY EventIs DEF MarkProcessed, AbortDelivery, At, Active
<1>1. /\ UNCHANGED <<didit, known, lapsed, attempts, credential, verified, images, rubric>>
      /\ anomalies \subseteq anomalies' /\ anomalies' \subseteq {"erased", "missed", "raced"}
      /\ \E x \in {"sent", "done"} : proc' = [proc EXCEPT ![d] = Idle(x)]
  <2>1. CASE MarkProcessed(d)
    BY <1>0, <2>1 DEF MarkProcessed, provider, identity, Typed
  <2>2. CASE AbortDelivery(d)
    BY <1>0, <2>2, Noted DEF AbortDelivery, provider, identity, Typed
  <2> QED BY <2>1, <2>2
<1>2. Grows
  BY <1>1 DEF Grows
<1>3. /\ proc' \in [Procs -> Controls] /\ \A q \in Procs \ {d} : proc'[q] = proc[q]
      /\ RowIsThere(d)' /\ Careful(d)'
  BY <1>0, <1>1, <1>2, DeliveryRests
<1> QED BY <1>0, <1>1, <1>2, <1>3, PlainStep DEF Typed

LEMMA BindOrphanKeeps ==
  ASSUME EarnedInvariant, NEW d \in Events, BindOrphan(d) PROVE EarnedInvariant'
<1> DEFINE i == proc[d].row
<1>0. /\ Typed /\ d \in Procs /\ d[1] \in Sessions /\ Len(attempts) \in Nat
      /\ proc[d].pc = "binding" /\ i \in DOMAIN attempts /\ i \in Nat
  <2>1. At(d, "binding")
    BY DEF BindOrphan
  <2> QED BY <2>1, EventIs DEF At, RowIsThere, Typed
<1>1. UNCHANGED <<didit, known, lapsed, credential, verified, images, rubric, anomalies>>
  BY DEF BindOrphan, provider, identity
<1>2. CASE proc' = [proc EXCEPT ![d] = Idle("sent")] /\ UNCHANGED attempts
  <2>1. Grows
    BY <1>1, <1>2 DEF Grows
  <2>2. /\ proc' \in [Procs -> Controls] /\ \A q \in Procs \ {d} : proc'[q] = proc[q]
        /\ RowIsThere(d)' /\ Careful(d)'
    BY <1>0, <1>2, <2>1, DeliveryRests
  <2> QED BY <1>0, <1>1, <1>2, <2>1, <2>2, PlainStep DEF Typed
<1>3. CASE attempts' = [attempts EXCEPT ![i].session = d[1]] /\ Apply(d, i, proc[d].seen)
  <2> DEFINE x == [attempts[i] EXCEPT !.session = d[1]]
  <2>1. attempts[i] \in Attempts
    BY <1>0 DEF Typed
  <2>2. x \in Attempts /\ x.hosted = attempts[i].hosted
    BY <1>0, <2>1 DEF Attempts
  <2>3. attempts' = [attempts EXCEPT ![i] = x]
    BY <1>3
  <2>4. /\ proc' \in [Procs -> Controls] /\ \A q \in Procs \ {d} : proc'[q] = proc[q]
        /\ proc'[d].row = i /\ proc'[d].pc \in {"ending", "storing", "updating"}
        /\ proc'[d].pc = "updating" => ~Approves(d)
    BY <1>0, <1>3, ApplyIs
  <2> HIDE DEF x, i
  <2>5. /\ attempts' \in Seq(Attempts) /\ DOMAIN attempts' = DOMAIN attempts
        /\ Len(attempts') = Len(attempts) /\ attempts'[i] = x
        /\ \A j \in DOMAIN attempts : /\ j # i => attempts'[j] = attempts[j]
                                      /\ attempts[j].hosted # None
                                           => attempts'[j].hosted # None
    BY <1>0, <2>2, <2>3, OneAttempt
  <2>7. Typed' /\ Grows
    BY <1>0, <1>1, <2>4, <2>5 DEF Typed, Grows
  <2>8. proc'[d].row \in 0..Len(attempts') /\ proc'[d].row # 0
    BY <1>0, <2>4, <2>5 DEF Typed
  <2>9. RowIsThere(d)' /\ Careful(d)'
    BY <1>0, <2>4, <2>7, <2>8, DeliveryIsAt
  <2> QED BY <1>0, <1>1, <2>4, <2>7, <2>9, MovedAlone, SameCredential DEF EarnedInvariant
<1> QED BY <1>2, <1>3 DEF BindOrphan

LEMMA UpdateAttemptKeeps ==
  ASSUME EarnedInvariant, NEW d \in Events, UpdateAttempt(d) PROVE EarnedInvariant'
<1> DEFINE i == proc[d].row
<1>0. /\ Typed /\ d \in Procs /\ d \notin Tabs /\ d[2] \in Verdicts
      /\ Len(attempts) \in Nat /\ Delivering(d) /\ proc[d].pc = "updating"
      /\ i \in DOMAIN attempts
  <2>1. At(d, "updating")
    BY DEF UpdateAttempt
  <2> QED BY <2>1, EventIs DEF At, RowIsThere, Typed
<1>1. /\ UNCHANGED <<didit, known, lapsed, credential, verified, images, rubric, anomalies>>
      /\ attempts' = [attempts EXCEPT ![i].status = d[2]]
  BY DEF UpdateAttempt, provider, identity
<1>3. /\ attempts' \in Seq(Attempts) /\ DOMAIN attempts' = DOMAIN attempts
      /\ Len(attempts') = Len(attempts)
      /\ \A j \in DOMAIN attempts : attempts[j].hosted # None => attempts'[j].hosted # None
  <2>1. attempts' = [attempts EXCEPT ![i].status = d[2]]
    BY <1>1
  <2> HIDE DEF i
  <2> QED BY <1>0, <2>1, OneStatus
<1>4. Grows
  BY <1>1, <1>3 DEF Grows
<1>5. CASE Approves(d)
  <2>1. Goto(d, "verifying") /\ "verifying" \in Points
    BY <1>5 DEF UpdateAttempt, Points
  <2>2. /\ proc' \in [Procs -> Controls] /\ \A q \in Procs \ {d} : proc'[q] = proc[q]
        /\ proc'[d].pc = "verifying" /\ proc'[d].row = i
    BY <1>0, <2>1, GotoIs
  <2>3. proc'[d].row \in 0..Len(attempts')
    BY <1>0, <1>3, <2>2 DEF Typed
  <2>4. RowIsThere(d)' /\ Careful(d)'
    BY <1>0, <1>1, <1>4, <1>5, <2>2, <2>3, DeliveryIsAt DEF Delivering
  <2>5. Typed'
    BY <1>0, <1>1, <1>3, <2>2 DEF Typed
  <2> QED BY <1>0, <1>1, <1>3, <1>4, <2>2, <2>4, <2>5, MovedAlone, SameCredential
          DEF EarnedInvariant
<1>6. CASE ~Approves(d)
  <2> DEFINE c == IF d[2] \in TerminalStatuses THEN "RETRY_REQUIRED" ELSE d[2]
  <2>1. Moves(d, <<c>>)
    BY <1>6 DEF UpdateAttempt
  <2>2. c \in Credentials \ Earning
    BY <1>0, <1>6 DEF Verdicts, TerminalStatuses, Credentials, Earning, Approves
  <2> HIDE DEF c
  <2>3. <<c>> \in Seq(Credentials) /\ <<c>> # << >>
    BY <2>2
  <2>4. /\ proc' \in [Procs -> Controls] /\ \A q \in Procs \ {d} : proc'[q] = proc[q]
        /\ proc'[d].pc = "reading" /\ proc'[d].row = i /\ proc'[d].todo = <<c>>
    BY <1>0, <2>1, <2>3, MovesIs
  <2>5. RowIsThere(d)'
    BY <1>0, <1>3, <2>4 DEF RowIsThere, Typed
  <2>6. Careful(d)'
    BY <1>0, <1>6, <2>2, <2>3, <2>4 DEF Careful, Delivering, Approves
  <2>7. Typed'
    BY <1>0, <1>1, <1>3, <2>4 DEF Typed
  <2> QED BY <1>0, <1>1, <1>3, <1>4, <2>4, <2>5, <2>6, <2>7, MovedAlone, SameCredential
          DEF EarnedInvariant
<1> QED BY <1>5, <1>6

LEMMA VerifyKeeps ==
  ASSUME EarnedInvariant, NEW d \in Events, Verify(d) PROVE EarnedInvariant'
<1>0. /\ Typed /\ d \in Procs /\ d \notin Tabs /\ d[1] \in Sessions /\ RowIsThere(d)
      /\ Delivering(d) /\ proc[d].pc = "verifying"
  BY EventIs DEF Verify, At
<1> DEFINE targets == (IF credential = "RETRY_REQUIRED" THEN <<"PENDING">> ELSE << >>)
                      \o <<"SIGNATURE_PENDING">> \o (IF HasRow THEN <<"CONFIGURED">> ELSE << >>)
<1>1. /\ UNCHANGED <<didit, known, lapsed, attempts, credential, images, rubric, anomalies>>
      /\ verified' = TRUE /\ Moves(d, targets)
  BY DEF Verify, provider
<1>2. targets \in Seq(Credentials) /\ targets # << >>
  <2>1. /\ <<"PENDING">> \in Seq(Credentials) /\ <<"SIGNATURE_PENDING">> \in Seq(Credentials)
        /\ <<"CONFIGURED">> \in Seq(Credentials) /\ << >> \in Seq(Credentials)
    BY DEF Credentials
  <2> DEFINE a == IF credential = "RETRY_REQUIRED" THEN <<"PENDING">> ELSE << >>
             b == IF HasRow THEN <<"CONFIGURED">> ELSE << >>
  <2>2. a \in Seq(Credentials) /\ b \in Seq(Credentials)
    BY <2>1
  <2> HIDE DEF a, b
  <2>3. /\ (a \o <<"SIGNATURE_PENDING">>) \o b \in Seq(Credentials)
        /\ Len((a \o <<"SIGNATURE_PENDING">>) \o b) = Len(a) + 1 + Len(b)
        /\ Len(a) \in Nat /\ Len(b) \in Nat
    BY <2>1, <2>2
  <2>4. Len(a) + 1 + Len(b) # 0
    BY <2>3
  <2>5. (a \o <<"SIGNATURE_PENDING">>) \o b # << >>
    BY <2>3, <2>4
  <2> QED BY <2>3, <2>5 DEF a, b
<1> HIDE DEF targets
<1>4. /\ proc' \in [Procs -> Controls] /\ \A q \in Procs \ {d} : proc'[q] = proc[q]
      /\ proc'[d].pc = "reading" /\ proc'[d].row = proc[d].row /\ proc'[d].todo = targets
  BY <1>0, <1>1, <1>2, MovesIs
<1>5. Grows /\ Typed'
  BY <1>0, <1>1, <1>4 DEF Grows, Typed
<1>6. Approves(d) /\ Earned'
  BY <1>0, <1>1 DEF Delivering, Earned
<1>7. RowIsThere(d)'
  BY <1>0, <1>1, <1>4 DEF RowIsThere
<1>8. Careful(d)'
  BY <1>0, <1>1, <1>2, <1>4, <1>6 DEF Careful, Delivering, Approves
<1> QED BY <1>0, <1>1, <1>4, <1>5, <1>7, <1>8, PlainStep

LEMMA VerdictKeeps ==
  ASSUME EarnedInvariant, NEW s \in Sessions, Verdict(s) PROVE EarnedInvariant'
<1>0. Typed /\ "sent" \in Points
  BY DEF EarnedInvariant, Points
<1>1. UNCHANGED <<known, attempts, credential, verified, images, rubric, anomalies>>
  BY DEF Verdict, identity
<1>2. PICK v \in Verdicts : didit' = [didit EXCEPT ![s] = v] /\ didit[s] # "APPROVED"
  <2>1. CASE didit[s] = "PENDING" /\ didit' = [didit EXCEPT ![s] = "IN_PROGRESS"]
    BY <2>1 DEF Verdicts
  <2>2. CASE /\ didit[s] \in {"IN_PROGRESS", "IN_REVIEW"}
             /\ \E v \in (Outcomes \ {"EXPIRED", didit[s]}) : didit' = [didit EXCEPT ![s] = v]
    BY <2>2, OutcomesAssumption DEF Verdicts
  <2>3. CASE /\ didit[s] \in {"PENDING", "IN_PROGRESS"}
             /\ didit' = [didit EXCEPT ![s] = "EXPIRED"]
    BY <2>3 DEF Verdicts
  <2>4. CASE didit[s] = "EXPIRED" /\ didit' = [didit EXCEPT ![s] = "APPROVED"]
    BY <2>4 DEF Verdicts
  <2> QED BY <2>1, <2>2, <2>3, <2>4 DEF Verdict
<1>3. /\ didit' \in [Sessions -> Verdicts \cup {"none"}] /\ didit'[s] = v
      /\ \A r \in Sessions : didit[r] = "APPROVED" => didit'[r] = "APPROVED"
  BY <1>0, <1>2 DEF Typed
<1> DEFINE e == <<s, v>>
<1>4. Goto(e, "sent") /\ e \in Events
  BY <1>3 DEF Verdict, Events
<1>5. e \in Procs /\ e \notin Tabs /\ e[1] = s /\ e[2] = v /\ RowIsThere(e)
  BY <1>4, EventIs
<1> HIDE DEF e
<1>6. /\ proc' \in [Procs -> Controls] /\ \A q \in Procs \ {e} : proc'[q] = proc[q]
      /\ proc'[e].pc = "sent" /\ proc'[e].row = proc[e].row
  BY <1>0, <1>4, <1>5, GotoIs
<1>7. lapsed' \subseteq Sessions
  BY <1>0 DEF Verdict, Typed
<1>8. Typed' /\ Grows
  BY <1>0, <1>1, <1>3, <1>6, <1>7 DEF Typed, Grows
<1>9. RowIsThere(e)' /\ Careful(e)'
  BY <1>1, <1>3, <1>5, <1>6 DEF RowIsThere, Careful, Delivering, Approves
<1> QED BY <1>1, <1>5, <1>6, <1>8, <1>9, PlainStep

-----------------------------------------------------------------------------
(* The specification. *)

LEMMA EarnedInit == Init => EarnedInvariant
<1> SUFFICES ASSUME Init PROVE EarnedInvariant
  OBVIOUS
<1>1. Tabs \cap Events = {} /\ "idle" \in Points /\ "unsent" \in Points
  BY TabsAssumption DEF Points
<1>2. \A x \in Points : /\ Idle(x) \in Controls /\ Idle(x).pc = x /\ Idle(x).row = 0
                         /\ Idle(x).session = None
  BY IdleIs
<1>3. /\ proc \in [Procs -> Controls]
      /\ \A p \in Procs : /\ proc[p].row = 0 /\ proc[p].pc \in {"idle", "unsent"}
                         /\ proc[p].session = None
      /\ \A d \in Events : proc[d].pc = "unsent"
  BY <1>1, <1>2 DEF Init, Procs
<1>4. Typed /\ Len(attempts) = 0
  <2>1. rubric \in Rubrics
    <3>1. /\ [image |-> "none", card |-> FALSE] \in Rubrics
          /\ [image |-> "drawn", card |-> FALSE] \in Rubrics
          /\ [image |-> "drawn", card |-> TRUE] \in Rubrics
      BY DEF Rubrics
    <3> QED BY <3>1, Zenon DEF Init
  <2>2. attempts = << >> /\ << >> \in Seq(Attempts) /\ Len(<< >>) = 0
    BY DEF Init
  <2>3. didit \in [Sessions -> Verdicts \cup {"none"}]
    BY DEF Init
  <2> QED BY <1>3, <2>1, <2>2, <2>3 DEF Init, Typed, Credentials
<1>5. EarnedUnlessErased
  BY DEF Init, EarnedUnlessErased, CredentialIsEarned
<1>6. \A p \in Procs : RowIsThere(p) /\ Careful(p)
  BY <1>3, <1>4 DEF RowIsThere, Careful, Delivering
<1> QED BY <1>4, <1>5, <1>6 DEF EarnedInvariant

LEMMA EarnedStep == ASSUME EarnedInvariant, [Next]_vars PROVE EarnedInvariant'
<1>1. ASSUME NEW t \in Tabs, Request(t) \/ Continue(t) \/ AbortRequest(t)
      PROVE  EarnedInvariant'
  <2>1. t \in Procs
    BY DEF Procs
  <2> QED BY <1>1, <2>1, StartKeeps, RubricKeeps, InsertAttemptKeeps, CreateSessionKeeps,
             SaveSessionKeeps, FailStartKeeps, AnswerKeeps, ReadCredentialKeeps,
             WriteCredentialKeeps, AbortRequestKeeps DEF Request, Continue
<1>2. ASSUME NEW d \in Events, Handle(d) \/ AbortDelivery(d) PROVE EarnedInvariant'
  <2>1. d \in Procs
    BY DEF Procs
  <2> QED BY <1>2, <2>1, FindAttemptKeeps, FindOrphanKeeps, BindOrphanKeeps, StoreImagesKeeps,
             UpdateAttemptKeeps, VerifyKeeps, EndsKeep, ReadCredentialKeeps,
             WriteCredentialKeeps DEF Handle
<1>3. ASSUME NEW s \in Sessions, Verdict(s) PROVE EarnedInvariant'
  BY <1>3, VerdictKeeps
<1>4. CASE UNCHANGED vars
  <2>1. UNCHANGED <<didit, known, lapsed, attempts, credential, verified, images, rubric, proc,
                    anomalies>>
    BY <1>4 DEF vars
  <2>2. Typed' /\ Grows /\ EarnedUnlessErased' /\ Typed
    BY <2>1, SameCredential DEF EarnedInvariant, Typed, Grows
  <2>3. \A p \in Procs : RowIsThere(p)' /\ Careful(p)'
    BY <2>1, <2>2, Unmoved DEF EarnedInvariant
  <2> QED BY <2>2, <2>3 DEF EarnedInvariant
<1> QED BY <1>1, <1>2, <1>3, <1>4 DEF Next

LEMMA EarnedInvariantHolds == Spec => []EarnedInvariant
  BY EarnedInit, EarnedStep, PTL DEF Spec

\* The state is well typed, and the attempt a request or a delivery works on exists.
THEOREM TypeCorrect == Spec => []TypeOK
<1>1. EarnedInvariant => TypeOK
  BY DEF EarnedInvariant, Typed, TypeOK, RowIsThere, Attempts, Rubrics
<1> QED BY <1>1, EarnedInvariantHolds, PTL

\* Whatever is lost, repeated or crossed, only who was approved by Didit and has his card
\* stored may sign, unless a rubric was deleted during the verification (applyIfAllowed of
\* UpdateSigningCredentialStatusUseCase).
THEOREM CredentialEarned == Spec => []EarnedUnlessErased
<1>1. EarnedInvariant => EarnedUnlessErased
  BY DEF EarnedInvariant
<1> QED BY <1>1, EarnedInvariantHolds, PTL

-----------------------------------------------------------------------------
(* What else holds: of the sessions of Didit and their attempts. *)

Opened == {s \in Sessions : didit[s] # "none"}
Callers == {t \in Tabs : At(t, "calling")}

\* No session has two attempts, and only what Didit has opened is written or told.
SessionsAreReal ==
  /\ \A i, j \in DOMAIN attempts :
       attempts[i].session = attempts[j].session /\ attempts[i].session # None => i = j
  /\ \A i \in DOMAIN attempts : attempts[i].session # None => attempts[i].session \in Opened
  /\ \A t \in Tabs : At(t, "saving") => proc[t].session \in Opened
  /\ \A d \in Events : ~At(d, "unsent") => d[1] \in Opened

\* Each session was opened for an attempt of its own, inserted before.
SessionsAreCounted ==
  /\ IsFiniteSet(Opened) /\ IsFiniteSet(Callers)
  /\ Cardinality(Opened) + Cardinality(Callers) <= Len(attempts)

CountInvariant == SessionsAreReal /\ SessionsAreCounted

\* An approval that has gone all the way has counted.
Excused == anomalies \cap {"missed", "raced"} # {}
ApprovedInvariant ==
  Excused \/ \A d \in Events : Approves(d) /\ proc[d].pc \in {"ending", "done"}
                               => verified /\ images

-----------------------------------------------------------------------------
(* The steps, one by one. *)

\* Only p moves.
Others(p) == \A q \in Procs \ {p} : proc'[q] = proc[q]

\* No attempt comes, and none changes its session.
SameSessions ==
  /\ DOMAIN attempts' = DOMAIN attempts /\ Len(attempts') = Len(attempts)
  /\ \A i \in DOMAIN attempts : attempts'[i].session = attempts[i].session

LEMMA ReadIs ==
  ASSUME EarnedInvariant, NEW p \in Procs, ReadCredential(p)
  PROVE  /\ At(p, "reading") /\ Others(p) /\ proc'[p].row = proc[p].row
         /\ UNCHANGED <<didit, known, lapsed, attempts, credential, verified, images, rubric,
                        anomalies>>
         /\ \/ /\ Allowed(credential, Head(proc[p].todo)) /\ proc'[p].pc = "writing"
               /\ proc'[p].todo = proc[p].todo
            \/ /\ ~Allowed(credential, Head(proc[p].todo)) /\ proc'[p].todo = Tail(proc[p].todo)
               /\ proc'[p].pc = IF Tail(proc[p].todo) = << >> THEN "ending" ELSE "reading"
<1>0. Typed /\ Careful(p) /\ proc[p].todo \in Seq(Credentials) /\ "writing" \in Points
  BY DEF EarnedInvariant, Typed, Controls, Points
<1>1. /\ At(p, "reading")
      /\ UNCHANGED <<didit, known, lapsed, attempts, credential, verified, images, rubric,
                     anomalies>>
  BY DEF ReadCredential, provider, identity
<1>2. CASE Allowed(credential, Head(proc[p].todo))
  <2>1. Goto(p, "writing")
    BY <1>2 DEF ReadCredential
  <2> QED BY <1>0, <1>1, <1>2, <2>1, GotoIs DEF Others
<1>3. CASE ~Allowed(credential, Head(proc[p].todo))
  <2>1. Moves(p, Tail(proc[p].todo)) /\ Tail(proc[p].todo) \in Seq(Credentials)
    BY <1>0, <1>1, <1>3 DEF ReadCredential, Careful, At
  <2> QED BY <1>0, <1>1, <1>3, <2>1, MovesIs DEF Others
<1> QED BY <1>2, <1>3

LEMMA WriteIs ==
  ASSUME EarnedInvariant, NEW p \in Procs, WriteCredential(p)
  PROVE  /\ At(p, "writing") /\ Others(p) /\ proc'[p].row = proc[p].row
         /\ UNCHANGED <<didit, known, lapsed, attempts, verified, images, rubric>>
         /\ credential' = Head(proc[p].todo) /\ proc'[p].todo = Tail(proc[p].todo)
         /\ proc'[p].pc = IF Tail(proc[p].todo) = << >> THEN "ending" ELSE "reading"
         /\ anomalies \subseteq anomalies'
         /\ anomalies' \ {"erased"} = anomalies \ {"erased"}
<1>0. Typed /\ Careful(p) /\ proc[p].todo \in Seq(Credentials) /\ At(p, "writing")
  BY DEF EarnedInvariant, Typed, Controls, WriteCredential
<1>1. /\ UNCHANGED <<didit, known, lapsed, attempts, verified, images, rubric>>
      /\ credential' = Head(proc[p].todo) /\ Moves(p, Tail(proc[p].todo))
      /\ anomalies \subseteq anomalies'
      /\ anomalies' \ {"erased"} = anomalies \ {"erased"}
  BY DEF WriteCredential, provider, identity, Note
<1>2. Tail(proc[p].todo) \in Seq(Credentials)
  BY <1>0 DEF Careful, At
<1> QED BY <1>0, <1>1, <1>2, MovesIs DEF Others

LEMMA BusyAt ==
  ASSUME Typed, NEW p \in Procs, NEW x \in Points, NEW i \in Nat,
         NEW targets \in Seq(Credentials), proc' = [proc EXCEPT ![p] = Busy(x, i, targets)]
  PROVE  /\ Others(p) /\ proc'[p].pc = x /\ proc'[p].row = i /\ proc'[p].todo = targets
<1> DEFINE r == Busy(x, i, targets)
<1>1. r \in Controls /\ r.pc = x /\ r.row = i /\ r.todo = targets
  BY BusyIs
<1>2. proc' = [proc EXCEPT ![p] = r]
  OBVIOUS
<1> HIDE DEF r
<1> QED BY <1>1, <1>2, SetTo DEF Others

LEMMA StartIs ==
  ASSUME EarnedInvariant, NEW t \in Tabs, Start(t)
  PROVE  /\ At(t, "idle") /\ Others(t) /\ t \in Procs
         /\ UNCHANGED <<didit, attempts>>
         /\ proc'[t].pc \in {"inserting", "reading"}
<1>0. /\ Typed /\ t \in Procs /\ proc[t].row = 0 /\ "inserting" \in Points
      /\ <<"MAX_ATTEMPTS">> \in Seq(Credentials) /\ <<"MAX_ATTEMPTS">> # << >>
      /\ Len(attempts) \in Nat
  BY DEF EarnedInvariant, Procs, Points, Start, At, RowIsThere, Credentials, Typed
<1>1. UNCHANGED <<didit, attempts>> /\ At(t, "idle")
  BY DEF Start, provider
<1>2. CASE proc' = [proc EXCEPT ![t] = Busy("reading", Len(attempts), <<"PENDING">>)]
  <2>1. "reading" \in Points /\ <<"PENDING">> \in Seq(Credentials)
    BY DEF Points, Credentials
  <2>2. Others(t) /\ proc'[t].pc = "reading" /\ proc'[t].todo = <<"PENDING">>
    BY <1>0, <1>2, <2>1, BusyAt
  <2> QED BY <1>0, <1>1, <2>2
<1>3. CASE Moves(t, <<"MAX_ATTEMPTS">>)
  BY <1>0, <1>1, <1>3, MovesIs DEF Others
<1>4. CASE Goto(t, "inserting")
  BY <1>0, <1>1, <1>4, GotoIs DEF Others
<1> QED BY <1>2, <1>3, <1>4 DEF Start

LEMMA RubricIs ==
  ASSUME EarnedInvariant, NEW t \in Tabs,
         \/ UploadSignature(t) \/ UpdateSignature(t) \/ DeactivateSignature(t)
         \/ DeleteSignature(t) \/ DeleteOfficialFile(t)
  PROVE  /\ At(t, "idle") /\ Others(t) /\ t \in Procs
         /\ UNCHANGED <<didit, attempts>>
         /\ proc' = proc \/ proc'[t].pc = "reading"
<1>0. /\ Typed /\ t \in Procs /\ "reading" \in Points
      /\ <<"CONFIGURED">> \in Seq(Credentials) /\ <<"SIGNATURE_PENDING">> \in Seq(Credentials)
  BY DEF EarnedInvariant, Procs, Points, Credentials
<1>1. UNCHANGED <<didit, attempts>> /\ At(t, "idle")
  BY DEF UploadSignature, UpdateSignature, DeactivateSignature, DeleteSignature,
         DeleteOfficialFile, provider
<1>2. \/ proc' = proc
      \/ \E targets \in Seq(Credentials) :
           proc' = [proc EXCEPT ![t] = Busy("reading", 0, targets)]
  BY <1>0 DEF UploadSignature, UpdateSignature, DeactivateSignature, DeleteSignature,
              DeleteOfficialFile
<1>3. ASSUME NEW targets \in Seq(Credentials),
             proc' = [proc EXCEPT ![t] = Busy("reading", 0, targets)]
      PROVE  Others(t) /\ proc'[t].pc = "reading"
  BY <1>0, <1>3, BusyAt
<1> QED BY <1>0, <1>1, <1>2, <1>3 DEF Others

LEMMA InsertIs ==
  ASSUME EarnedInvariant, NEW t \in Tabs, InsertAttempt(t)
  PROVE  /\ At(t, "inserting") /\ Others(t) /\ t \in Procs
         /\ UNCHANGED <<didit, known, lapsed, credential, verified, images, rubric, anomalies>>
         /\ Len(attempts') = Len(attempts) + 1 /\ DOMAIN attempts' = 1..Len(attempts')
         /\ \A i \in DOMAIN attempts : i \in DOMAIN attempts' /\ attempts'[i] = attempts[i]
         /\ attempts'[Len(attempts')].session = None
         /\ attempts'[Len(attempts')].status = "PENDING"
         /\ proc'[t].pc = "calling" /\ proc'[t].row = Len(attempts')
<1> DEFINE x == [status |-> "PENDING", session |-> None, hosted |-> None]
<1>1. /\ UNCHANGED <<didit, known, lapsed, credential, verified, images, rubric, anomalies>>
      /\ At(t, "inserting") /\ attempts' = Append(attempts, x)
      /\ proc' = [proc EXCEPT ![t] = Busy("calling", Len(attempts'), << >>)]
  BY DEF InsertAttempt, provider, identity
<1>2. Typed /\ t \in Procs /\ attempts \in Seq(Attempts) /\ "calling" \in Points
  BY DEF EarnedInvariant, Procs, Typed, Points
<1>3. x \in Attempts /\ x.session = None /\ x.status = "PENDING"
  BY DEF Attempts, Verdicts
<1> HIDE DEF x
<1>4. /\ Len(attempts') = Len(attempts) + 1 /\ DOMAIN attempts' = 1..Len(attempts')
      /\ \A i \in DOMAIN attempts : i \in DOMAIN attempts' /\ attempts'[i] = attempts[i]
      /\ attempts'[Len(attempts')] = x /\ Len(attempts') \in Nat
  BY <1>1, <1>2, <1>3
<1>5. Others(t) /\ proc'[t].pc = "calling" /\ proc'[t].row = Len(attempts')
  <2> DEFINE n == Len(attempts')
  <2>1. /\ << >> \in Seq(Credentials) /\ n \in Nat
        /\ proc' = [proc EXCEPT ![t] = Busy("calling", n, << >>)]
    BY <1>1, <1>4
  <2> HIDE DEF n
  <2>2. Others(t) /\ proc'[t].pc = "calling" /\ proc'[t].row = n
    BY <1>2, <2>1, BusyAt
  <2> QED BY <2>2 DEF n
<1> QED BY <1>1, <1>2, <1>3, <1>4, <1>5

\* Didit opens a session, whose event is on its way, or it opens none.
Opens(t, s) ==
  /\ s \in Sessions /\ didit[s] = "none" /\ didit' = [didit EXCEPT ![s] = "PENDING"]
  /\ \A q \in Procs \ {t, <<s, "PENDING">>} : proc'[q] = proc[q]
  /\ proc'[<<s, "PENDING">>].pc = "sent"
  /\ proc'[t].pc \in {"saving", "failing"}
  /\ proc'[t].pc = "saving" => proc'[t].session = s

LEMMA CreateIs ==
  ASSUME EarnedInvariant, NEW t \in Tabs, CreateSession(t)
  PROVE  /\ At(t, "calling") /\ t \in Procs /\ proc'[t].row = proc[t].row
         /\ UNCHANGED <<known, lapsed, attempts, credential, verified, images, rubric,
                        anomalies>>
         /\ \/ \E s \in Sessions : Opens(t, s)
            \/ Others(t) /\ proc'[t].pc = "failing" /\ UNCHANGED didit
<1>0. Typed /\ t \in Procs /\ t \notin Events /\ proc[t] \in Controls /\ "failing" \in Points
  BY TabsAssumption DEF EarnedInvariant, Procs, Typed, Points
<1>1. /\ UNCHANGED <<known, lapsed, attempts, credential, verified, images, rubric, anomalies>>
      /\ At(t, "calling")
  BY DEF CreateSession, identity
<1>2. CASE Goto(t, "failing") /\ UNCHANGED didit
  BY <1>0, <1>1, <1>2, GotoIs DEF Others
<1>3. ASSUME NEW s \in Sessions, didit[s] = "none", didit' = [didit EXCEPT ![s] = "PENDING"],
             \/ proc' = [proc EXCEPT ![<<s, "PENDING">>].pc = "sent",
                                     ![t].pc = "saving", ![t].session = s]
             \/ proc' = [proc EXCEPT ![<<s, "PENDING">>].pc = "sent", ![t].pc = "failing"]
      PROVE  Opens(t, s) /\ proc'[t].row = proc[t].row
  <2> DEFINE e == <<s, "PENDING">>
  <2>1. e \in Events /\ e \in Procs /\ e # t /\ proc[e] \in Controls
    BY <1>0 DEF Events, Procs, Verdicts, Typed
  <2>2. /\ \A q \in Procs \ {t, e} : proc'[q] = proc[q]
        /\ proc'[e].pc = "sent" /\ proc'[t].row = proc[t].row
        /\ \/ proc'[t].pc = "failing"
           \/ proc'[t].pc = "saving" /\ proc'[t].session = s
    <3>1. CASE proc' = [proc EXCEPT ![e].pc = "sent", ![t].pc = "failing"]
      <4>1. proc' = [proc EXCEPT ![e] = [proc[e] EXCEPT !.pc = "sent"],
                                 ![t] = [proc[t] EXCEPT !.pc = "failing"]]
        BY <1>0, <2>1, <3>1 DEF Typed, Controls
      <4> QED BY <1>0, <2>1, <4>1 DEF Typed, Controls
    <3>2. CASE proc' = [proc EXCEPT ![e].pc = "sent", ![t].pc = "saving", ![t].session = s]
      <4>1. proc' = [proc EXCEPT ![e] = [proc[e] EXCEPT !.pc = "sent"],
                                 ![t] = [proc[t] EXCEPT !.pc = "saving", !.session = s]]
        BY <1>0, <2>1, <3>2 DEF Typed, Controls
      <4> QED BY <1>0, <2>1, <4>1 DEF Typed, Controls
    <3> QED BY <1>3, <3>1, <3>2
  <2> QED BY <1>3, <2>2 DEF Opens
<1> QED BY <1>0, <1>1, <1>2, <1>3 DEF CreateSession

LEMMA SaveIs ==
  ASSUME EarnedInvariant, NEW t \in Tabs, SaveSession(t)
  PROVE  /\ At(t, "saving") /\ Others(t) /\ t \in Procs /\ proc'[t].row = proc[t].row
         /\ UNCHANGED <<didit, known, lapsed, credential, verified, images, rubric, anomalies>>
         /\ \/ proc'[t].pc = "failing" /\ UNCHANGED attempts
            \/ /\ proc'[t].pc = "reading" /\ proc'[t].todo = <<"PENDING">>
               /\ \A j \in DOMAIN attempts \ {proc[t].row} :
                    attempts[j].session # proc[t].session /\ attempts'[j] = attempts[j]
               /\ DOMAIN attempts' = DOMAIN attempts /\ Len(attempts') = Len(attempts)
               /\ attempts'[proc[t].row].session = proc[t].session
               /\ attempts'[proc[t].row].status = attempts[proc[t].row].status
<1> DEFINE i == proc[t].row
           s == proc[t].session
<1>0. /\ Typed /\ t \in Procs /\ RowIsThere(t) /\ Len(attempts) \in Nat
      /\ At(t, "saving") /\ i \in DOMAIN attempts /\ s \in Sessions
  BY DEF EarnedInvariant, Procs, Typed, SaveSession, At, RowIsThere
<1>1. UNCHANGED <<didit, known, lapsed, credential, verified, images, rubric, anomalies>>
  BY DEF SaveSession, provider, identity
<1>2. "failing" \in Points /\ <<"PENDING">> \in Seq(Credentials) /\ <<"PENDING">> # << >>
  BY DEF Points, Credentials
<1>3. CASE \E j \in DOMAIN attempts \ {i} : attempts[j].session = s
  <2>1. Goto(t, "failing") /\ UNCHANGED attempts
    BY <1>3 DEF SaveSession
  <2> QED BY <1>0, <1>1, <1>2, <2>1, GotoIs DEF Others
<1>4. CASE ~\E j \in DOMAIN attempts \ {i} : attempts[j].session = s
  <2>1. /\ attempts' = [attempts EXCEPT ![i].session = s, ![i].hosted = s]
        /\ Moves(t, <<"PENDING">>)
    BY <1>4 DEF SaveSession
  <2>2. attempts[i] \in Attempts
    BY <1>0 DEF Typed
  <2>3. /\ Others(t) /\ proc'[t].row = proc[t].row
        /\ proc'[t].pc = "reading" /\ proc'[t].todo = <<"PENDING">>
    BY <1>0, <1>2, <2>1, MovesIs DEF Others
  <2> DEFINE x == [attempts[i] EXCEPT !.session = s, !.hosted = s]
  <2>4. x \in Attempts /\ x.session = s /\ x.status = attempts[i].status /\ s # None
    BY <1>0, <2>2, NamesAssumption DEF Attempts
  <2>5. attempts' = [attempts EXCEPT ![i] = x]
    BY <1>0, <2>1 DEF Typed
  <2> HIDE DEF x, i, s
  <2>6. /\ DOMAIN attempts' = DOMAIN attempts /\ Len(attempts') = Len(attempts)
        /\ attempts'[i] = x /\ \A j \in DOMAIN attempts : j # i => attempts'[j] = attempts[j]
    BY <1>0, <2>4, <2>5, OneAttempt
  <2> QED BY <1>0, <1>1, <1>4, <2>3, <2>4, <2>6 DEF i, s
<1> QED BY <1>3, <1>4

LEMMA IdleAt ==
  ASSUME Typed, NEW p \in Procs, NEW x \in Points, proc' = [proc EXCEPT ![p] = Idle(x)]
  PROVE  Others(p) /\ proc'[p].pc = x /\ proc'[p].row = 0
BY IdleIs, SetTo DEF Others

\* A new status for an attempt.
Rewrites(i, st) ==
  /\ attempts'[i].status = st
  /\ \A j \in DOMAIN attempts \ {i} : attempts'[j] = attempts[j]

LEMMA StatusIs ==
  ASSUME Typed, NEW i \in DOMAIN attempts, NEW st \in Verdicts \cup {"FAILED"},
         attempts' = [attempts EXCEPT ![i].status = st]
  PROVE  SameSessions /\ Rewrites(i, st)
<1>1. attempts[i] \in Attempts
  BY DEF Typed
<1> DEFINE x == [attempts[i] EXCEPT !.status = st]
<1>2. x \in Attempts /\ x.session = attempts[i].session /\ x.status = st
  BY <1>1 DEF Attempts
<1>3. attempts' = [attempts EXCEPT ![i] = x]
  OBVIOUS
<1> HIDE DEF x
<1>4. /\ DOMAIN attempts' = DOMAIN attempts /\ Len(attempts') = Len(attempts)
      /\ attempts'[i] = x /\ \A j \in DOMAIN attempts : j # i => attempts'[j] = attempts[j]
  BY <1>2, <1>3, OneAttempt
<1> QED BY <1>2, <1>4 DEF SameSessions, Rewrites

LEMMA FailIs ==
  ASSUME EarnedInvariant, NEW t \in Tabs, FailStart(t)
  PROVE  /\ At(t, "failing") /\ Others(t) /\ t \in Procs /\ proc'[t].pc = "idle"
         /\ UNCHANGED <<didit, known, lapsed, credential, verified, images, rubric, anomalies>>
         /\ proc[t].row \in DOMAIN attempts
         /\ SameSessions /\ Rewrites(proc[t].row, "FAILED")
<1>1. Typed /\ t \in Procs /\ proc[t].row \in DOMAIN attempts /\ "idle" \in Points
  BY DEF EarnedInvariant, Procs, RowIsThere, FailStart, At, Typed, Points
<1>2. /\ At(t, "failing") /\ proc' = [proc EXCEPT ![t] = Idle("idle")]
      /\ UNCHANGED <<didit, known, lapsed, credential, verified, images, rubric, anomalies>>
  BY DEF FailStart, provider, identity
<1>3. SameSessions /\ Rewrites(proc[t].row, "FAILED")
  <2> DEFINE i == proc[t].row
  <2>1. attempts' = [attempts EXCEPT ![i].status = "FAILED"] /\ i \in DOMAIN attempts
    BY <1>1 DEF FailStart
  <2> HIDE DEF i
  <2>2. SameSessions /\ Rewrites(i, "FAILED")
    BY <1>1, <2>1, StatusIs
  <2> QED BY <2>2 DEF i
<1> QED BY <1>1, <1>2, <1>3, IdleAt

LEMMA AnswerIs ==
  ASSUME EarnedInvariant, NEW t \in Tabs, Answer(t)
  PROVE  /\ At(t, "ending") /\ Others(t) /\ t \in Procs /\ proc'[t].pc = "idle"
         /\ UNCHANGED <<didit, lapsed, attempts, credential, verified, images, rubric,
                        anomalies>>
         /\ known \subseteq known' /\ (proc[t].row = 0 => known' = known)
<1>1. Typed /\ t \in Procs /\ "idle" \in Points
  BY DEF EarnedInvariant, Procs, Points
<1> QED BY <1>1, IdleAt DEF Answer, identity

LEMMA AbortIs ==
  ASSUME EarnedInvariant, NEW t \in Tabs, AbortRequest(t)
  PROVE  /\ Active(t) /\ Others(t) /\ t \in Procs
         /\ UNCHANGED <<didit, attempts>> /\ proc'[t].pc \in {"failing", "idle"}
<1>1. Typed /\ t \in Procs /\ "idle" \in Points /\ "failing" \in Points
  BY DEF EarnedInvariant, Procs, Points
<1>2. UNCHANGED <<didit, attempts>> /\ Active(t)
  BY DEF AbortRequest, provider
<1>3. CASE proc' = [proc EXCEPT ![t] = Idle("idle")]
  BY <1>1, <1>2, <1>3, IdleAt
<1>4. CASE Goto(t, "failing")
  BY <1>1, <1>2, <1>4, GotoIs DEF Others
<1> QED BY <1>3, <1>4 DEF AbortRequest

\* What a delivery does to the attempt it takes.
Applied(d, status) ==
  proc'[d].pc = IF Stale(d, status) THEN "ending"
                ELSE IF Approves(d) THEN "storing" ELSE "updating"

LEMMA AppliedIs ==
  ASSUME EarnedInvariant, NEW d \in Events, NEW i \in Nat, NEW st, Apply(d, i, st)
  PROVE  Others(d) /\ Applied(d, st) /\ proc'[d].row = i
<1> DEFINE x == IF Stale(d, st) THEN "ending" ELSE IF Approves(d) THEN "storing" ELSE "updating"
<1>1. proc' = [proc EXCEPT ![d].row = i, ![d].pc = x]
  BY DEF Apply
<1>2. x \in Points
  BY DEF Points
<1> HIDE DEF x
<1>3. Typed /\ d \in Procs /\ proc[d] \in Controls
  BY EventIs
<1>4. proc' = [proc EXCEPT ![d] = [proc[d] EXCEPT !.row = i, !.pc = x]]
  BY <1>1, <1>3 DEF Typed
<1> DEFINE r == [proc[d] EXCEPT !.row = i, !.pc = x]
<1>5. r \in Controls /\ r.pc = x /\ r.row = i
  BY <1>2, <1>3 DEF Controls
<1> HIDE DEF r
<1>6. Others(d) /\ proc'[d].pc = x /\ proc'[d].row = i
  BY <1>3, <1>4, <1>5, SetTo DEF Others, r
<1> QED BY <1>6 DEF Applied, x

LEMMA FindAttemptIs ==
  ASSUME EarnedInvariant, NEW d \in Events, FindAttempt(d)
  PROVE  /\ At(d, "sent") /\ Others(d) /\ d \in Procs
         /\ UNCHANGED <<didit, attempts>>
         /\ \/ \E i \in DOMAIN attempts : Applied(d, attempts[i].status) /\ proc'[d].row = i
            \/ /\ proc'[d].pc = "searching"
               /\ \A i \in DOMAIN attempts : attempts[i].session # d[1]
<1>1. Typed /\ d \in Procs /\ "searching" \in Points /\ Len(attempts) \in Nat
  BY EventIs DEF Points
<1>2. UNCHANGED <<didit, attempts>> /\ At(d, "sent")
  BY DEF FindAttempt, provider
<1>3. ASSUME NEW i \in DOMAIN attempts, Apply(d, i, attempts[i].status)
      PROVE  /\ Others(d)
             /\ \E j \in DOMAIN attempts : Applied(d, attempts[j].status) /\ proc'[d].row = j
  <2>1. i \in Nat
    BY <1>1 DEF Typed
  <2>2. Others(d) /\ Applied(d, attempts[i].status) /\ proc'[d].row = i
    BY <1>3, <2>1, AppliedIs
  <2> QED BY <2>2
<1>4. CASE /\ \A i \in DOMAIN attempts : attempts[i].session # d[1]
           /\ Goto(d, "searching")
  BY <1>1, <1>2, <1>4, GotoIs DEF Others
<1> QED BY <1>1, <1>2, <1>3, <1>4 DEF FindAttempt, HasAttempt

LEMMA FindOrphanIs ==
  ASSUME EarnedInvariant, NEW d \in Events, FindOrphan(d)
  PROVE  /\ At(d, "searching") /\ Others(d) /\ d \in Procs
         /\ UNCHANGED <<didit, attempts>>
         /\ \/ /\ proc'[d].pc = "binding" /\ proc'[d].row \in Orphans
               /\ proc'[d].seen = attempts[proc'[d].row].status
            \/ /\ proc'[d].pc = "ending" /\ Orphans = {}
               /\ Approves(d) /\ HasAttempt(d[1]) => "missed" \in anomalies'
<1>0. /\ Typed /\ d \in Procs /\ Len(attempts) \in Nat /\ "ending" \in Points
      /\ "binding" \in Points /\ proc[d] \in Controls
  BY EventIs DEF Points
<1>1. /\ UNCHANGED <<didit, attempts>> /\ At(d, "searching")
      /\ Orphans = {} /\ Approves(d) /\ HasAttempt(d[1]) => "missed" \in anomalies'
  BY DEF FindOrphan, provider, Note
<1>3. ASSUME NEW i \in Orphans,
             proc' = [proc EXCEPT ![d].row = i, ![d].seen = attempts[i].status,
                                  ![d].pc = "binding"]
      PROVE  /\ Others(d) /\ proc'[d].pc = "binding" /\ proc'[d].row = i
             /\ proc'[d].seen = attempts[i].status
  <2>1. i \in Nat /\ attempts[i] \in Attempts
    BY <1>0 DEF Typed, Orphans
  <2> DEFINE st == attempts[i].status
             r == [proc[d] EXCEPT !.row = i, !.seen = st, !.pc = "binding"]
  <2>2. st \in Verdicts \cup {"FAILED", "none"}
    BY <2>1 DEF Attempts
  <2>3. proc' = [proc EXCEPT ![d] = r]
    BY <1>0, <1>3 DEF Typed
  <2>4. r \in Controls /\ r.row = i /\ r.pc = "binding" /\ r.seen = attempts[i].status
    <3> HIDE DEF st
    <3>1. r \in Controls /\ r.row = i /\ r.pc = "binding" /\ r.seen = st
      BY <1>0, <2>1, <2>2 DEF Controls
    <3> QED BY <3>1 DEF st
  <2> HIDE DEF st, r
  <2> QED BY <1>0, <2>3, <2>4, SetTo DEF Others
<1>4. CASE Orphans = {} /\ Goto(d, "ending")
  BY <1>0, <1>1, <1>4, GotoIs DEF Others
<1> QED BY <1>0, <1>1, <1>3, <1>4 DEF FindOrphan

LEMMA BindIs ==
  ASSUME EarnedInvariant, NEW d \in Events, BindOrphan(d)
  PROVE  /\ At(d, "binding") /\ Others(d) /\ d \in Procs
         /\ UNCHANGED <<didit, known, lapsed, credential, verified, images, rubric, anomalies>>
         /\ proc[d].row \in DOMAIN attempts
         /\ \/ proc'[d].pc = "sent" /\ UNCHANGED attempts
            \/ /\ Applied(d, proc[d].seen) /\ proc'[d].row = proc[d].row
               /\ \A j \in DOMAIN attempts \ {proc[d].row} :
                    attempts[j].session # d[1] /\ attempts'[j] = attempts[j]
               /\ DOMAIN attempts' = DOMAIN attempts /\ Len(attempts') = Len(attempts)
               /\ attempts'[proc[d].row].session = d[1]
               /\ attempts'[proc[d].row].status = attempts[proc[d].row].status
<1> DEFINE i == proc[d].row
<1>0. /\ Typed /\ d \in Procs /\ d[1] \in Sessions /\ Len(attempts) \in Nat /\ "sent" \in Points
      /\ At(d, "binding") /\ i \in DOMAIN attempts /\ i \in Nat
  <2>1. At(d, "binding")
    BY DEF BindOrphan
  <2> QED BY <2>1, EventIs DEF At, RowIsThere, Typed, Points
<1>1. UNCHANGED <<didit, known, lapsed, credential, verified, images, rubric, anomalies>>
  BY DEF BindOrphan, provider, identity
<1>2. CASE \E j \in DOMAIN attempts \ {i} : attempts[j].session = d[1]
  <2>1. proc' = [proc EXCEPT ![d] = Idle("sent")] /\ UNCHANGED attempts
    BY <1>2 DEF BindOrphan
  <2> QED BY <1>0, <1>1, <2>1, IdleAt
<1>3. CASE ~\E j \in DOMAIN attempts \ {i} : attempts[j].session = d[1]
  <2>1. attempts' = [attempts EXCEPT ![i].session = d[1]] /\ Apply(d, i, proc[d].seen)
    BY <1>3 DEF BindOrphan
  <2>2. Others(d) /\ Applied(d, proc[d].seen) /\ proc'[d].row = i
    BY <1>0, <2>1, AppliedIs
  <2> DEFINE x == [attempts[i] EXCEPT !.session = d[1]]
  <2>3. attempts[i] \in Attempts
    BY <1>0 DEF Typed
  <2>4. x \in Attempts /\ x.session = d[1] /\ x.status = attempts[i].status /\ d[1] # None
    BY <1>0, <2>3, NamesAssumption DEF Attempts
  <2>5. attempts' = [attempts EXCEPT ![i] = x]
    BY <2>1
  <2> HIDE DEF x, i
  <2>6. /\ DOMAIN attempts' = DOMAIN attempts /\ Len(attempts') = Len(attempts)
        /\ attempts'[i] = x /\ \A j \in DOMAIN attempts : j # i => attempts'[j] = attempts[j]
    BY <1>0, <2>4, <2>5, OneAttempt
  <2> QED BY <1>0, <1>1, <1>3, <2>2, <2>4, <2>6 DEF i
<1> QED BY <1>2, <1>3

LEMMA StoreIs ==
  ASSUME EarnedInvariant, NEW d \in Events, StoreImages(d)
  PROVE  /\ At(d, "storing") /\ Others(d) /\ d \in Procs /\ proc'[d].pc = "updating"
         /\ proc'[d].row = proc[d].row
         /\ UNCHANGED <<didit, known, lapsed, attempts, credential, verified, rubric,
                        anomalies>>
<1>1. Typed /\ d \in Procs /\ "updating" \in Points
  BY EventIs DEF Points
<1> QED BY <1>1, GotoIs DEF StoreImages, provider, Others

LEMMA UpdateIs ==
  ASSUME EarnedInvariant, NEW d \in Events, UpdateAttempt(d)
  PROVE  /\ At(d, "updating") /\ Others(d) /\ d \in Procs /\ proc[d].row \in DOMAIN attempts
         /\ UNCHANGED didit /\ SameSessions /\ Rewrites(proc[d].row, d[2])
         /\ \/ Approves(d) /\ proc'[d].pc = "verifying"
            \/ /\ ~Approves(d) /\ proc'[d].pc = "reading"
               /\ proc'[d].todo =
                    <<IF d[2] \in TerminalStatuses THEN "RETRY_REQUIRED" ELSE d[2]>>
<1> DEFINE i == proc[d].row
<1>0. /\ Typed /\ d \in Procs /\ d[2] \in Verdicts /\ At(d, "updating") /\ i \in DOMAIN attempts
      /\ "verifying" \in Points
  <2>1. At(d, "updating")
    BY DEF UpdateAttempt
  <2> QED BY <2>1, EventIs DEF At, RowIsThere, Typed, Points
<1>1. UNCHANGED didit
  BY DEF UpdateAttempt, provider
<1>2. SameSessions /\ Rewrites(i, d[2])
  <2>1. attempts' = [attempts EXCEPT ![i].status = d[2]]
    BY DEF UpdateAttempt
  <2> HIDE DEF i
  <2> QED BY <1>0, <2>1, StatusIs
<1>3. CASE Approves(d)
  <2>1. Goto(d, "verifying")
    BY <1>3 DEF UpdateAttempt
  <2> QED BY <1>0, <1>1, <1>2, <1>3, <2>1, GotoIs DEF Others
<1>4. CASE ~Approves(d)
  <2> DEFINE c == IF d[2] \in TerminalStatuses THEN "RETRY_REQUIRED" ELSE d[2]
  <2>1. Moves(d, <<c>>)
    BY <1>4 DEF UpdateAttempt
  <2>2. c \in Credentials
    BY <1>0, <1>4 DEF Verdicts, TerminalStatuses, Credentials, Approves
  <2> HIDE DEF c
  <2>3. <<c>> \in Seq(Credentials) /\ <<c>> # << >>
    BY <2>2
  <2>4. Others(d) /\ proc'[d].pc = "reading" /\ proc'[d].todo = <<c>>
    BY <1>0, <2>1, <2>3, MovesIs DEF Others
  <2> QED BY <1>0, <1>1, <1>2, <1>4, <2>4 DEF c
<1> QED BY <1>3, <1>4

\* The moves an approval asks for.
Asked == (IF credential = "RETRY_REQUIRED" THEN <<"PENDING">> ELSE << >>)
         \o <<"SIGNATURE_PENDING">> \o (IF HasRow THEN <<"CONFIGURED">> ELSE << >>)

\* One more at the end.
LEMMA OneMore ==
  ASSUME NEW S, NEW a \in S, NEW b \in S, NEW c \in S
  PROVE  <<a>> \o <<b>> = <<a, b>> /\ <<a, b>> \o <<c>> = <<a, b, c>>
<1>1. <<a>> \o <<b>> = <<a, b>>
  <2> DEFINE s == <<a>> \o <<b>>
             t == <<a, b>>
  <2>1. s \in Seq(S) /\ Len(s) = 2 /\ s[1] = a /\ s[2] = b
    OBVIOUS
  <2>2. t \in Seq(S) /\ Len(t) = 2 /\ t[1] = a /\ t[2] = b
    OBVIOUS
  <2> HIDE DEF s, t
  <2>3. \A i \in 1..Len(s) : s[i] = t[i]
    BY <2>1, <2>2
  <2>4. s = t
    BY <2>1, <2>2, <2>3, SeqEqual
  <2> QED BY <2>4 DEF s, t
<1>2. <<a, b>> \o <<c>> = <<a, b, c>>
  <2> DEFINE s == <<a, b>> \o <<c>>
             t == <<a, b, c>>
  <2>1. s \in Seq(S) /\ Len(s) = 3 /\ s[1] = a /\ s[2] = b /\ s[3] = c
    OBVIOUS
  <2>2. t \in Seq(S) /\ Len(t) = 3 /\ t[1] = a /\ t[2] = b /\ t[3] = c
    OBVIOUS
  <2> HIDE DEF s, t
  <2>3. \A i \in 1..Len(s) : s[i] = t[i]
    BY <2>1, <2>2
  <2>4. s = t
    BY <2>1, <2>2, <2>3, SeqEqual
  <2> QED BY <2>4 DEF s, t
<1> QED BY <1>1, <1>2

LEMMA AskedIs ==
  Asked = IF credential = "RETRY_REQUIRED"
          THEN IF HasRow THEN <<"PENDING", "SIGNATURE_PENDING", "CONFIGURED">>
               ELSE <<"PENDING", "SIGNATURE_PENDING">>
          ELSE IF HasRow THEN <<"SIGNATURE_PENDING", "CONFIGURED">> ELSE <<"SIGNATURE_PENDING">>
<1> DEFINE one == <<"SIGNATURE_PENDING">>
           two == <<"PENDING", "SIGNATURE_PENDING">>
<1>0. one \in Seq(Credentials) /\ two \in Seq(Credentials)
      /\ <<"PENDING">> \in Seq(Credentials) /\ <<"CONFIGURED">> \in Seq(Credentials)
      /\ <<"SIGNATURE_PENDING", "CONFIGURED">> \in Seq(Credentials)
      /\ <<"PENDING", "SIGNATURE_PENDING", "CONFIGURED">> \in Seq(Credentials)
  BY DEF Credentials
<1>1. << >> \o one = one /\ one \o << >> = one /\ two \o << >> = two
  <2> HIDE DEF one, two
  <2> QED BY <1>0, ConcatEmptySeq
<1>2. "PENDING" \in Credentials /\ "SIGNATURE_PENDING" \in Credentials
      /\ "CONFIGURED" \in Credentials
  BY DEF Credentials
<1>3. <<"PENDING">> \o one = two
      /\ one \o <<"CONFIGURED">> = <<"SIGNATURE_PENDING", "CONFIGURED">>
  BY <1>2, OneMore
<1>4. two \o <<"CONFIGURED">> = <<"PENDING", "SIGNATURE_PENDING", "CONFIGURED">>
  BY <1>2, OneMore
<1> QED BY <1>1, <1>3, <1>4, Zenon DEF Asked

LEMMA VerifyIs ==
  ASSUME EarnedInvariant, NEW d \in Events, Verify(d)
  PROVE  /\ At(d, "verifying") /\ Others(d) /\ d \in Procs /\ Approves(d) /\ verified'
         /\ UNCHANGED <<didit, attempts>> /\ proc'[d].pc = "reading" /\ proc'[d].todo = Asked
<1>0. Typed /\ d \in Procs /\ Delivering(d)
  BY EventIs
<1>1. /\ UNCHANGED <<didit, attempts>> /\ verified' = TRUE /\ Moves(d, Asked)
      /\ At(d, "verifying")
  BY DEF Verify, provider, Asked
<1>2. Asked \in Seq(Credentials) /\ Asked # << >>
  <2>1. /\ <<"PENDING", "SIGNATURE_PENDING", "CONFIGURED">> \in Seq(Credentials)
        /\ <<"PENDING", "SIGNATURE_PENDING">> \in Seq(Credentials)
        /\ <<"SIGNATURE_PENDING", "CONFIGURED">> \in Seq(Credentials)
        /\ <<"SIGNATURE_PENDING">> \in Seq(Credentials)
    BY DEF Credentials
  <2>2. /\ <<"PENDING", "SIGNATURE_PENDING", "CONFIGURED">> # << >>
        /\ <<"PENDING", "SIGNATURE_PENDING">> # << >>
        /\ <<"SIGNATURE_PENDING", "CONFIGURED">> # << >>
        /\ <<"SIGNATURE_PENDING">> # << >>
    OBVIOUS
  <2> QED BY <2>1, <2>2, AskedIs
<1>3. Others(d) /\ proc'[d].pc = "reading" /\ proc'[d].todo = Asked
  BY <1>0, <1>1, <1>2, MovesIs DEF Others
<1> QED BY <1>0, <1>1, <1>3 DEF Delivering, At

LEMMA EndIs ==
  ASSUME EarnedInvariant, NEW d \in Events, MarkProcessed(d) \/ AbortDelivery(d)
  PROVE  /\ Active(d) /\ Others(d) /\ d \in Procs
         /\ UNCHANGED <<didit, attempts>>
         /\ \/ At(d, "ending") /\ proc'[d].pc = "done"
            \/ proc'[d].pc = "sent"
            \/ proc'[d].pc = "done" /\ (Approves(d) => "raced" \in anomalies')
<1>1. Typed /\ d \in Procs /\ "sent" \in Points /\ "done" \in Points
  BY EventIs DEF Points
<1>2. CASE MarkProcessed(d)
  BY <1>1, <1>2, IdleAt DEF MarkProcessed, provider, identity, At, Active
<1>3. CASE AbortDelivery(d)
  BY <1>1, <1>3, IdleAt DEF AbortDelivery, provider, identity, Note
<1> QED BY <1>2, <1>3

LEMMA VerdictIs ==
  ASSUME EarnedInvariant, NEW s \in Sessions, Verdict(s)
  PROVE  /\ UNCHANGED <<known, attempts, credential, verified, images, rubric, anomalies>>
         /\ didit[s] # "none"
         /\ \E v \in Verdicts :
              /\ didit' = [didit EXCEPT ![s] = v]
              /\ <<s, v>> \in Events /\ Others(<<s, v>>) /\ proc'[<<s, v>>].pc = "sent"
              /\ \/ s \in known \/ didit[s] \in {"IN_PROGRESS", "IN_REVIEW"}
                 \/ v = "EXPIRED"
<1>0. Typed /\ "sent" \in Points
  BY DEF EarnedInvariant, Points
<1>1. UNCHANGED <<known, attempts, credential, verified, images, rubric, anomalies>>
  BY DEF Verdict, identity
<1>2. PICK v \in Verdicts : /\ didit' = [didit EXCEPT ![s] = v] /\ didit[s] # "none"
                            /\ \/ s \in known \/ didit[s] \in {"IN_PROGRESS", "IN_REVIEW"}
                               \/ v = "EXPIRED"
  <2>1. CASE s \in known /\ didit[s] = "PENDING" /\ didit' = [didit EXCEPT ![s] = "IN_PROGRESS"]
    BY <2>1 DEF Verdicts
  <2>2. CASE /\ didit[s] \in {"IN_PROGRESS", "IN_REVIEW"}
             /\ \E v \in (Outcomes \ {"EXPIRED", didit[s]}) : didit' = [didit EXCEPT ![s] = v]
    BY <2>2, OutcomesAssumption DEF Verdicts
  <2>3. CASE /\ didit[s] \in {"PENDING", "IN_PROGRESS"}
             /\ didit' = [didit EXCEPT ![s] = "EXPIRED"]
    BY <2>3 DEF Verdicts
  <2>4. CASE s \in known /\ didit[s] = "EXPIRED" /\ didit' = [didit EXCEPT ![s] = "APPROVED"]
    BY <2>4 DEF Verdicts
  <2> QED BY <2>1, <2>2, <2>3, <2>4 DEF Verdict
<1>3. didit'[s] = v
  BY <1>0, <1>2 DEF Typed
<1> DEFINE e == <<s, v>>
<1>4. Goto(e, "sent") /\ e \in Events
  BY <1>3 DEF Verdict, Events
<1>5. e \in Procs
  BY <1>4 DEF Procs
<1> HIDE DEF e
<1>6. Others(e) /\ proc'[e].pc = "sent"
  BY <1>0, <1>4, <1>5, GotoIs DEF Others
<1> QED BY <1>1, <1>2, <1>4, <1>6 DEF e

-----------------------------------------------------------------------------
(* The sessions of Didit and their attempts. *)

LEMMA CountInit == ASSUME Init PROVE CountInvariant
<1>1. Tabs \cap Events = {} /\ \A p \in Procs : proc[p].pc \in {"idle", "unsent"}
  BY TabsAssumption DEF Init, Idle, Busy
<1>2. \A d \in Events : At(d, "unsent")
  BY <1>1 DEF Init, At, Idle, Busy, Procs
<1>3. Opened = {} /\ Callers = {}
  BY <1>1 DEF Init, Opened, Callers, At, Procs
<1>4. Len(attempts) = 0 /\ DOMAIN attempts = {}
  <2>1. attempts = << >>
    BY DEF Init
  <2> QED BY <2>1
<1>5. SessionsAreReal
  BY <1>1, <1>2, <1>4 DEF SessionsAreReal, At, Procs
<1>6. IsFiniteSet({}) /\ Cardinality({}) = 0
  BY FS_EmptySet
<1> QED BY <1>3, <1>4, <1>5, <1>6 DEF CountInvariant, SessionsAreCounted

\* No session is opened and nobody starts to ask for one.
LEMMA CountSame ==
  ASSUME SessionsAreCounted, Opened' = Opened, Callers' \subseteq Callers,
         Len(attempts) \in Nat, Len(attempts') \in Nat, Len(attempts') >= Len(attempts)
  PROVE  SessionsAreCounted'
<1>1. IsFiniteSet(Callers') /\ Cardinality(Callers') <= Cardinality(Callers)
  BY FS_Subset DEF SessionsAreCounted
<1>2. /\ Cardinality(Callers) \in Nat /\ Cardinality(Callers') \in Nat
      /\ Cardinality(Opened) \in Nat
  BY <1>1, FS_CardinalityType DEF SessionsAreCounted
<1> QED BY <1>1, <1>2 DEF SessionsAreCounted

\* A step of p that leaves the sessions alone.
LEMMA CountPlain ==
  ASSUME EarnedInvariant, CountInvariant, NEW p \in Procs, Others(p), UNCHANGED didit,
         SameSessions, proc'[p].pc \notin {"calling", "saving"},
         p \in Events => ~At(p, "unsent")
  PROVE  CountInvariant'
<1>1. Opened' = Opened
  BY DEF Opened
<1>2. Callers' \subseteq Callers
  BY DEF Callers, Others, At, Procs
<1>3. Len(attempts) \in Nat /\ Len(attempts') = Len(attempts)
  BY DEF EarnedInvariant, Typed, SameSessions
<1>4. SessionsAreCounted'
  BY <1>1, <1>2, <1>3, CountSame DEF CountInvariant
<1>5. \A d \in Events : ~At(d, "unsent")' => ~At(d, "unsent")
  BY DEF Others, At, Procs
<1>6. \A t \in Tabs : At(t, "saving")' => At(t, "saving") /\ proc'[t].session = proc[t].session
  BY DEF Others, At, Procs
<1>7. SessionsAreReal'
  BY <1>1, <1>5, <1>6 DEF SessionsAreReal, CountInvariant, SameSessions
<1> QED BY <1>4, <1>7 DEF CountInvariant

\* A session is bound to an attempt, and no other has it.
LEMMA CountBound ==
  ASSUME EarnedInvariant, CountInvariant, NEW p \in Procs, Others(p), UNCHANGED didit,
         NEW i \in DOMAIN attempts, NEW s \in Opened,
         \A j \in DOMAIN attempts \ {i} :
           attempts[j].session # s /\ attempts'[j] = attempts[j],
         DOMAIN attempts' = DOMAIN attempts, Len(attempts') = Len(attempts),
         attempts'[i].session = s,
         proc'[p].pc \notin {"calling", "saving"}, p \in Events => ~At(p, "unsent")
  PROVE  CountInvariant'
<1>1. Opened' = Opened
  BY DEF Opened
<1>2. Callers' \subseteq Callers
  BY DEF Callers, Others, At, Procs
<1>3. Len(attempts) \in Nat
  BY DEF EarnedInvariant, Typed
<1>4. SessionsAreCounted'
  BY <1>1, <1>2, <1>3, CountSame DEF CountInvariant
<1>5. \A d \in Events : ~At(d, "unsent")' => ~At(d, "unsent")
  BY DEF Others, At, Procs
<1>6. \A t \in Tabs : At(t, "saving")' => At(t, "saving") /\ proc'[t].session = proc[t].session
  BY DEF Others, At, Procs
<1>7. SessionsAreReal'
  BY <1>1, <1>5, <1>6 DEF SessionsAreReal, CountInvariant
<1> QED BY <1>4, <1>7 DEF CountInvariant

LEMMA CountInsert ==
  ASSUME EarnedInvariant, CountInvariant, NEW t \in Tabs, InsertAttempt(t) PROVE CountInvariant'
<1>1. /\ At(t, "inserting") /\ Others(t) /\ t \in Procs /\ UNCHANGED didit
      /\ Len(attempts') = Len(attempts) + 1 /\ DOMAIN attempts' = 1..Len(attempts')
      /\ \A i \in DOMAIN attempts : i \in DOMAIN attempts' /\ attempts'[i] = attempts[i]
      /\ attempts'[Len(attempts')].session = None /\ proc'[t].pc = "calling"
  BY InsertIs
<1>2. Opened' = Opened /\ t \notin Events
  BY <1>1, TabsAssumption DEF Opened
<1>3. Callers' = Callers \cup {t} /\ t \notin Callers
  BY <1>1 DEF Callers, Others, At, Procs
<1>4. Len(attempts) \in Nat /\ DOMAIN attempts = 1..Len(attempts)
  BY DEF EarnedInvariant, Typed
<1>5. SessionsAreCounted'
  <2>1. IsFiniteSet(Callers') /\ Cardinality(Callers') = Cardinality(Callers) + 1
    BY <1>3, FS_AddElement DEF CountInvariant, SessionsAreCounted
  <2>2. Cardinality(Callers) \in Nat /\ Cardinality(Opened) \in Nat
    BY FS_CardinalityType DEF CountInvariant, SessionsAreCounted
  <2> QED BY <1>1, <1>2, <1>4, <2>1, <2>2 DEF CountInvariant, SessionsAreCounted
<1>6. \A i \in DOMAIN attempts' : attempts'[i].session # None =>
        i \in DOMAIN attempts /\ attempts'[i].session = attempts[i].session
  BY <1>1, <1>4
<1>7. \A d \in Events : ~At(d, "unsent")' => ~At(d, "unsent")
  BY <1>1, <1>2 DEF Others, At, Procs
<1>8. \A r \in Tabs : At(r, "saving")' => At(r, "saving") /\ proc'[r].session = proc[r].session
  BY <1>1 DEF Others, At, Procs
<1>9. SessionsAreReal'
  BY <1>2, <1>6, <1>7, <1>8 DEF SessionsAreReal, CountInvariant
<1> QED BY <1>5, <1>9 DEF CountInvariant

LEMMA CountCreate ==
  ASSUME EarnedInvariant, CountInvariant, NEW t \in Tabs, CreateSession(t) PROVE CountInvariant'
<1>0. /\ At(t, "calling") /\ t \in Procs /\ t \notin Events /\ UNCHANGED attempts
      /\ didit \in [Sessions -> Verdicts \cup {"none"}] /\ Len(attempts) \in Nat
  BY CreateIs, TabsAssumption DEF EarnedInvariant, Typed
<1>1. CASE Others(t) /\ proc'[t].pc = "failing" /\ UNCHANGED didit
  <2>1. SameSessions
    BY <1>0 DEF SameSessions
  <2> QED BY <1>0, <1>1, <2>1, CountPlain
<1>2. ASSUME NEW s \in Sessions, Opens(t, s) PROVE CountInvariant'
  <2> DEFINE e == <<s, "PENDING">>
  <2>1. /\ didit[s] = "none" /\ didit' = [didit EXCEPT ![s] = "PENDING"]
        /\ \A q \in Procs \ {t, e} : proc'[q] = proc[q]
        /\ proc'[e].pc = "sent" /\ proc'[t].pc \in {"saving", "failing"}
        /\ proc'[t].pc = "saving" => proc'[t].session = s
        /\ e \in Events /\ e[1] = s
    BY <1>2 DEF Opens, Events, Verdicts
  <2> HIDE DEF e
  <2>2. Opened' = Opened \cup {s} /\ s \notin Opened
    BY <1>0, <2>1 DEF Opened
  <2>3. Callers' = Callers \ {t} /\ t \in Callers
    BY <1>0, <2>1, TabsAssumption DEF Callers, At, Procs
  <2>4. SessionsAreCounted'
    <3>1. /\ IsFiniteSet(Callers') /\ Cardinality(Callers') = Cardinality(Callers) - 1
      BY <2>3, FS_RemoveElement DEF CountInvariant, SessionsAreCounted
    <3>2. /\ IsFiniteSet(Opened') /\ Cardinality(Opened') = Cardinality(Opened) + 1
      BY <2>2, FS_AddElement DEF CountInvariant, SessionsAreCounted
    <3>3. Cardinality(Callers) \in Nat /\ Cardinality(Opened) \in Nat
      BY FS_CardinalityType DEF CountInvariant, SessionsAreCounted
    <3> QED BY <1>0, <3>1, <3>2, <3>3 DEF CountInvariant, SessionsAreCounted
  <2>5. \A d \in Events : ~At(d, "unsent")' => ~At(d, "unsent") \/ d = e
    BY <1>0, <2>1 DEF At, Procs
  <2>6. \A r \in Tabs : At(r, "saving")' =>
          \/ At(r, "saving") /\ proc'[r].session = proc[r].session
          \/ proc'[r].session = s
    BY <2>1, TabsAssumption DEF At, Procs
  <2>7. SessionsAreReal'
    BY <1>0, <2>1, <2>2, <2>5, <2>6 DEF SessionsAreReal, CountInvariant
  <2> QED BY <2>4, <2>7 DEF CountInvariant
<1> QED BY <1>1, <1>2, CreateIs

LEMMA CountVerdict ==
  ASSUME EarnedInvariant, CountInvariant, NEW s \in Sessions, Verdict(s) PROVE CountInvariant'
<1>1. PICK v \in Verdicts :
        /\ didit' = [didit EXCEPT ![s] = v]
        /\ <<s, v>> \in Events /\ Others(<<s, v>>) /\ proc'[<<s, v>>].pc = "sent"
  BY VerdictIs
<1> DEFINE e == <<s, v>>
<1>2. /\ UNCHANGED attempts /\ didit[s] # "none" /\ e[1] = s /\ "none" \notin Verdicts
      /\ e \in Events /\ Others(e) /\ proc'[e].pc = "sent" /\ e \notin Tabs
  BY <1>1, VerdictIs, TabsAssumption DEF Verdicts
<1> HIDE DEF e
<1>3. Opened' = Opened /\ s \in Opened
  BY <1>1, <1>2 DEF Opened, EarnedInvariant, Typed
<1>4. Callers' \subseteq Callers
  BY <1>2 DEF Callers, Others, At, Procs
<1>5. SessionsAreCounted'
  <2>1. Len(attempts) \in Nat
    BY DEF EarnedInvariant, Typed
  <2> QED BY <1>2, <1>3, <1>4, <2>1, CountSame DEF CountInvariant
<1>6. \A d \in Events : ~At(d, "unsent")' => ~At(d, "unsent") \/ d = e
  BY <1>2 DEF At, Procs, Others
<1>7. \A r \in Tabs : At(r, "saving")' => At(r, "saving") /\ proc'[r].session = proc[r].session
  BY <1>2 DEF Others, At, Procs
<1>8. SessionsAreReal'
  BY <1>2, <1>3, <1>6, <1>7 DEF SessionsAreReal, CountInvariant
<1> QED BY <1>5, <1>8 DEF CountInvariant

LEMMA CountTabs ==
  ASSUME EarnedInvariant, CountInvariant, NEW t \in Tabs,
         Request(t) \/ Continue(t) \/ AbortRequest(t)
  PROVE  CountInvariant'
<1>0. t \in Procs /\ t \notin Events /\ (UNCHANGED attempts => SameSessions)
  BY TabsAssumption DEF Procs, SameSessions
<1>1. CASE Start(t)
  BY <1>0, <1>1, StartIs, CountPlain DEF SameSessions
<1>2. CASE \/ UploadSignature(t) \/ UpdateSignature(t) \/ DeactivateSignature(t)
           \/ DeleteSignature(t) \/ DeleteOfficialFile(t)
  <2>1. /\ At(t, "idle") /\ Others(t) /\ UNCHANGED <<didit, attempts>>
        /\ proc' = proc \/ proc'[t].pc = "reading"
    BY <1>2, RubricIs
  <2> QED BY <1>0, <2>1, CountPlain DEF At
<1>3. CASE InsertAttempt(t)
  BY <1>3, CountInsert
<1>4. CASE CreateSession(t)
  BY <1>4, CountCreate
<1>5. CASE SaveSession(t)
  <2>1. CASE proc'[t].pc = "failing" /\ UNCHANGED attempts
    BY <1>0, <1>5, <2>1, SaveIs, CountPlain
  <2>2. CASE ~(proc'[t].pc = "failing" /\ UNCHANGED attempts)
    <3>1. proc[t].row \in DOMAIN attempts /\ proc[t].session \in Opened
      BY <1>0, <1>5, SaveIs
         DEF EarnedInvariant, RowIsThere, Typed, At, CountInvariant, SessionsAreReal
    <3>2. /\ Others(t) /\ UNCHANGED didit /\ proc'[t].pc = "reading"
          /\ \A j \in DOMAIN attempts \ {proc[t].row} :
               attempts[j].session # proc[t].session /\ attempts'[j] = attempts[j]
          /\ DOMAIN attempts' = DOMAIN attempts /\ Len(attempts') = Len(attempts)
          /\ attempts'[proc[t].row].session = proc[t].session
      BY <1>5, <2>2, SaveIs
    <3> QED BY <1>0, <3>1, <3>2, CountBound
  <2> QED BY <2>1, <2>2
<1>6. CASE FailStart(t)
  BY <1>0, <1>6, FailIs, CountPlain
<1>7. CASE Answer(t)
  BY <1>0, <1>7, AnswerIs, CountPlain
<1>8. CASE AbortRequest(t)
  <2>1. /\ Others(t) /\ UNCHANGED <<didit, attempts>> /\ proc'[t].pc \in {"failing", "idle"}
    BY <1>8, AbortIs
  <2> QED BY <1>0, <2>1, CountPlain
<1>9. CASE ReadCredential(t)
  <2>1. /\ Others(t) /\ UNCHANGED <<didit, attempts>>
        /\ proc'[t].pc \in {"reading", "writing", "ending"}
    BY <1>0, <1>9, ReadIs
  <2> QED BY <1>0, <2>1, CountPlain
<1>10. CASE WriteCredential(t)
  <2>1. /\ Others(t) /\ UNCHANGED <<didit, attempts>> /\ proc'[t].pc \in {"reading", "ending"}
    BY <1>0, <1>10, WriteIs
  <2> QED BY <1>0, <2>1, CountPlain
<1> QED BY <1>1, <1>2, <1>3, <1>4, <1>5, <1>6, <1>7, <1>8, <1>9, <1>10 DEF Request, Continue

LEMMA CountEvents ==
  ASSUME EarnedInvariant, CountInvariant, NEW d \in Events, Handle(d) \/ AbortDelivery(d)
  PROVE  CountInvariant'
<1>0. d \in Procs /\ (UNCHANGED attempts => SameSessions)
  BY DEF Procs, SameSessions
<1>1. CASE FindAttempt(d)
  <2>1. /\ At(d, "sent") /\ Others(d) /\ UNCHANGED <<didit, attempts>>
        /\ proc'[d].pc \notin {"calling", "saving"}
    BY <1>1, FindAttemptIs DEF Applied
  <2> QED BY <1>0, <2>1, CountPlain DEF At
<1>2. CASE FindOrphan(d)
  <2>1. /\ At(d, "searching") /\ Others(d) /\ UNCHANGED <<didit, attempts>>
        /\ proc'[d].pc \notin {"calling", "saving"}
    BY <1>2, FindOrphanIs
  <2> QED BY <1>0, <2>1, CountPlain DEF At
<1>3. CASE BindOrphan(d)
  <2>1. /\ At(d, "binding") /\ Others(d) /\ UNCHANGED didit /\ proc[d].row \in DOMAIN attempts
        /\ ~At(d, "unsent") /\ proc'[d].pc \notin {"calling", "saving"}
    BY <1>3, BindIs DEF Applied, At
  <2>2. CASE UNCHANGED attempts
    BY <1>0, <2>1, <2>2, CountPlain
  <2>3. CASE ~UNCHANGED attempts
    <3>1. d[1] \in Opened
      BY <2>1 DEF CountInvariant, SessionsAreReal
    <3>2. /\ \A j \in DOMAIN attempts \ {proc[d].row} :
               attempts[j].session # d[1] /\ attempts'[j] = attempts[j]
          /\ DOMAIN attempts' = DOMAIN attempts /\ Len(attempts') = Len(attempts)
          /\ attempts'[proc[d].row].session = d[1]
      BY <1>3, <2>3, BindIs
    <3> QED BY <1>0, <2>1, <3>1, <3>2, CountBound
  <2> QED BY <2>2, <2>3
<1>4. CASE StoreImages(d)
  BY <1>0, <1>4, StoreIs, CountPlain DEF At
<1>5. CASE UpdateAttempt(d)
  <2>1. /\ At(d, "updating") /\ Others(d) /\ UNCHANGED didit /\ SameSessions
        /\ proc'[d].pc \in {"verifying", "reading"}
    BY <1>5, UpdateIs
  <2> QED BY <1>0, <2>1, CountPlain DEF At
<1>6. CASE Verify(d)
  BY <1>0, <1>6, VerifyIs, CountPlain DEF At
<1>7. CASE MarkProcessed(d) \/ AbortDelivery(d)
  <2>1. /\ Active(d) /\ Others(d) /\ UNCHANGED <<didit, attempts>>
        /\ proc'[d].pc \in {"done", "sent"}
    BY <1>7, EndIs
  <2> QED BY <1>0, <2>1, CountPlain DEF At, Active
<1>8. CASE ReadCredential(d)
  <2>1. /\ At(d, "reading") /\ Others(d) /\ UNCHANGED <<didit, attempts>>
        /\ proc'[d].pc \in {"reading", "writing", "ending"}
    BY <1>0, <1>8, ReadIs
  <2> QED BY <1>0, <2>1, CountPlain DEF At
<1>9. CASE WriteCredential(d)
  <2>1. /\ At(d, "writing") /\ Others(d) /\ UNCHANGED <<didit, attempts>>
        /\ proc'[d].pc \in {"reading", "ending"}
    BY <1>0, <1>9, WriteIs
  <2> QED BY <1>0, <2>1, CountPlain DEF At
<1> QED BY <1>1, <1>2, <1>3, <1>4, <1>5, <1>6, <1>7, <1>8, <1>9 DEF Handle

LEMMA CountStep ==
  ASSUME EarnedInvariant, CountInvariant, [Next]_vars PROVE CountInvariant'
<1>1. CASE UNCHANGED vars
  BY <1>1 DEF vars, CountInvariant, SessionsAreReal, SessionsAreCounted, Opened, Callers, At
<1> QED BY <1>1, CountTabs, CountEvents, CountVerdict DEF Next

LEMMA CountInvariantHolds == Spec => []CountInvariant
<1>1. Init => CountInvariant
  BY CountInit
<1>2. EarnedInvariant /\ CountInvariant /\ [Next]_vars => CountInvariant'
  BY CountStep
<1> QED BY <1>1, <1>2, EarnedInvariantHolds, PTL DEF Spec

\* The attempts with a session are as many as the sessions with an attempt, and there are
\* no fewer attempts than sessions.
LEMMA NoSessionIsLost == ASSUME EarnedInvariant, CountInvariant PROVE SessionsHaveAttempts
<1> DEFINE Rows == DOMAIN attempts
           Held == {s \in Opened : \E i \in Rows : attempts[i].session = s}
           Lost == {s \in Sessions : didit[s] # "none"
                                     /\ \A i \in Rows : attempts[i].session # s}
           Bound == Rows \ Orphans
           f == [i \in Bound |-> attempts[i].session]
<1>1. /\ Len(attempts) \in Nat /\ Rows = 1..Len(attempts) /\ Orphans \subseteq Rows
      /\ \A i \in Rows : attempts[i] \in Attempts
  BY DEF EarnedInvariant, Typed, Orphans
<1>2. IsFiniteSet(Rows) /\ Cardinality(Rows) = Len(attempts)
  <2> DEFINE n == Len(attempts)
  <2>1. n \in Nat /\ n \in Int /\ 1 \in Int /\ Rows = 1..n
    BY <1>1
  <2> HIDE DEF n, Rows
  <2>2. IsFiniteSet(1..n) /\ Cardinality(1..n) = IF 1 > n THEN 0 ELSE n - 1 + 1
    BY <2>1, FS_Interval
  <2>3. Cardinality(1..n) = n
    BY <2>1, <2>2
  <2> QED BY <2>1, <2>2, <2>3 DEF n
<1>3. /\ IsFiniteSet(Orphans) /\ IsFiniteSet(Bound)
      /\ Cardinality(Bound) = Cardinality(Rows) - Cardinality(Orphans)
  <2>1. Rows \cap Orphans = Orphans /\ Orphans \in SUBSET Rows
    BY <1>1
  <2> HIDE DEF Rows
  <2>2. IsFiniteSet(Orphans)
    BY <1>2, <2>1, FS_Subset
  <2>3. /\ IsFiniteSet(Rows \ Orphans)
        /\ Cardinality(Rows \ Orphans) = Cardinality(Rows) - Cardinality(Rows \cap Orphans)
    BY <1>2, FS_Difference
  <2> QED BY <2>1, <2>2, <2>3
<1>4. f \in Bijection(Bound, Held)
  <2>1. f \in [Bound -> Held]
    BY DEF CountInvariant, SessionsAreReal, Orphans
  <2>2. \A i, j \in Bound : f[i] = f[j] => i = j
    BY DEF CountInvariant, SessionsAreReal, Orphans
  <2>3. \A s \in Held : \E i \in Bound : f[i] = s
    <3>1. \A s \in Held : s # None
      BY NamesAssumption DEF Opened
    <3> QED BY <3>1 DEF Orphans
  <2> HIDE DEF f, Bound, Held
  <2> QED BY <2>1, <2>2, <2>3 DEF Bijection, Injection, Surjection, IsInjective
<1>5. Cardinality(Held) = Cardinality(Bound)
  <2>1. ExistsBijection(Bound, Held)
    BY <1>4 DEF ExistsBijection
  <2> HIDE DEF Bound, Held
  <2> QED BY <1>3, <2>1, FS_Bijection
<1>6. Cardinality(Lost) = Cardinality(Opened) - Cardinality(Held)
  <2>1. Lost = Opened \ Held /\ Opened \cap Held = Held
    BY DEF Opened
  <2>2. Cardinality(Opened \ Held) = Cardinality(Opened) - Cardinality(Opened \cap Held)
    BY FS_Difference DEF CountInvariant, SessionsAreCounted
  <2> QED BY <2>1, <2>2
<1>7. /\ Cardinality(Opened) \in Nat /\ Cardinality(Callers) \in Nat
      /\ Cardinality(Orphans) \in Nat /\ Cardinality(Bound) \in Nat
  BY <1>3, FS_CardinalityType DEF CountInvariant, SessionsAreCounted
<1>8. Cardinality(Opened) + Cardinality(Callers) <= Len(attempts)
  BY DEF CountInvariant, SessionsAreCounted
<1> HIDE DEF Rows, Held, Bound, f
<1>9. Cardinality(Lost) <= Cardinality(Orphans)
  BY <1>1, <1>2, <1>3, <1>5, <1>6, <1>7, <1>8
<1> QED BY <1>9 DEF SessionsHaveAttempts, Rows

\* Every session Didit has opened has an attempt its webhooks will find, or one is left for
\* it (findAttempt of ProcessDiditVerificationResultUseCase).
THEOREM SessionsKeepAttempts == Spec => []SessionsHaveAttempts
  BY NoSessionIsLost, CountInvariantHolds, EarnedInvariantHolds, PTL

-----------------------------------------------------------------------------
(* What becomes of an approval. *)

\* An event whose session has no attempt finds one.
LEMMA OrphanForLost ==
  ASSUME EarnedInvariant, CountInvariant, NEW d \in Events, ~At(d, "unsent"),
         \A i \in DOMAIN attempts : attempts[i].session # d[1]
  PROVE  Orphans # {}
<1> DEFINE Lost == {s \in Sessions : didit[s] # "none"
                                     /\ \A i \in DOMAIN attempts : attempts[i].session # s}
<1>1. d[1] \in Lost
  BY DEF CountInvariant, SessionsAreReal, Opened
<1>2. IsFiniteSet(Lost)
  <2>1. Lost \in SUBSET Opened
    BY DEF Opened
  <2> HIDE DEF Lost
  <2> QED BY <2>1, FS_Subset DEF CountInvariant, SessionsAreCounted
<1>3. Cardinality(Lost) # 0 /\ Cardinality(Lost) \in Nat
  <2> HIDE DEF Lost
  <2> QED BY <1>1, <1>2, FS_EmptySet, FS_CardinalityType
<1>4. Cardinality(Lost) <= Cardinality(Orphans)
  BY NoSessionIsLost DEF SessionsHaveAttempts
<1> HIDE DEF Lost
<1>5. Cardinality({}) = 0
  BY FS_EmptySet
<1> QED BY <1>3, <1>4, <1>5

\* Nobody takes back what has counted, nor forgets what has happened.
LEMMA CountedStays ==
  ASSUME [Next]_vars
  PROVE  /\ verified => verified'
         /\ images => images'
         /\ anomalies \subseteq anomalies'
<1>1. ASSUME NEW p \in Procs, ReadCredential(p) \/ WriteCredential(p)
      PROVE  verified' = verified /\ images' = images /\ anomalies \subseteq anomalies'
  BY <1>1 DEF ReadCredential, WriteCredential, identity, Note
<1>2. ASSUME NEW t \in Tabs, Request(t)
      PROVE  verified' = verified /\ images' = images /\ anomalies' = anomalies
  BY <1>2 DEF Request, Start, UploadSignature, UpdateSignature, DeactivateSignature,
              DeleteSignature, DeleteOfficialFile, identity
<1>3. ASSUME NEW t \in Tabs, Continue(t) \/ AbortRequest(t)
      PROVE  verified' = verified /\ images' = images /\ anomalies \subseteq anomalies'
  BY <1>1, <1>3 DEF Procs, Continue, InsertAttempt, CreateSession, SaveSession, FailStart,
                    Answer, AbortRequest, identity
<1>4. ASSUME NEW d \in Events, Handle(d) \/ AbortDelivery(d)
      PROVE  /\ verified => verified'
             /\ images => images'
             /\ anomalies \subseteq anomalies'
  <2>1. CASE ReadCredential(d) \/ WriteCredential(d)
    BY <1>1, <2>1 DEF Procs
  <2>2. CASE FindAttempt(d) \/ BindOrphan(d) \/ UpdateAttempt(d) \/ MarkProcessed(d)
    BY <2>2 DEF FindAttempt, BindOrphan, UpdateAttempt, MarkProcessed, identity
  <2>3. CASE FindOrphan(d)
    BY <2>3 DEF FindOrphan, identity, Note
  <2>4. CASE StoreImages(d)
    BY <2>4 DEF StoreImages
  <2>5. CASE Verify(d)
    BY <2>5 DEF Verify
  <2>6. CASE AbortDelivery(d)
    BY <2>6 DEF AbortDelivery, identity, Note
  <2> QED BY <1>4, <2>1, <2>2, <2>3, <2>4, <2>5, <2>6 DEF Handle
<1>5. ASSUME NEW s \in Sessions, Verdict(s)
      PROVE  verified' = verified /\ images' = images /\ anomalies' = anomalies
  BY <1>5 DEF Verdict, identity
<1>6. CASE UNCHANGED vars
  BY <1>6 DEF vars
<1> QED BY <1>2, <1>3, <1>4, <1>5, <1>6 DEF Next

\* Who comes to the end with an approval has written what it says, unless it found no
\* attempt or the server died over a duplicate.
LEMMA ApprovalCounts ==
  ASSUME EarnedInvariant, CountInvariant, NEW d \in Events, Approves(d),
         Handle(d) \/ AbortDelivery(d), proc'[d].pc \in {"ending", "done"}
  PROVE  (verified /\ images) \/ At(d, "ending") \/ Excused'
<1>0. d \in Procs /\ Delivering(d)
  BY EventIs
<1>1. CASE FindAttempt(d)
  <2>1. \A st : ~Stale(d, st)
    BY DEF Stale
  <2> QED BY <1>1, <2>1, FindAttemptIs DEF Applied
<1>2. CASE FindOrphan(d)
  <2>1. Orphans = {} /\ (HasAttempt(d[1]) => "missed" \in anomalies') /\ ~At(d, "unsent")
    BY <1>2, FindOrphanIs DEF At
  <2>2. HasAttempt(d[1])
    BY <2>1, OrphanForLost DEF HasAttempt
  <2> QED BY <2>1, <2>2 DEF Excused
<1>3. CASE BindOrphan(d)
  <2>1. ~Stale(d, proc[d].seen)
    BY DEF Stale
  <2> QED BY <1>3, <2>1, BindIs DEF Applied
<1>4. CASE StoreImages(d)
  BY <1>4, StoreIs
<1>5. CASE UpdateAttempt(d)
  BY <1>5, UpdateIs
<1>6. CASE Verify(d)
  BY <1>6, VerifyIs
<1>7. CASE MarkProcessed(d) \/ AbortDelivery(d)
  BY <1>7, EndIs DEF Excused
<1>8. CASE ReadCredential(d)
  BY <1>0, <1>8, ReadIs DEF Delivering, Earned, At
<1>9. CASE WriteCredential(d)
  BY <1>0, <1>9, WriteIs DEF Delivering, Earned, At
<1> QED BY <1>1, <1>2, <1>3, <1>4, <1>5, <1>6, <1>7, <1>8, <1>9 DEF Handle

\* Only the delivery of an event comes to its end.
LEMMA OnlyItsDelivery ==
  ASSUME EarnedInvariant, [Next]_vars, NEW d \in Events,
         proc'[d].pc \in {"ending", "done"}, proc'[d].pc # proc[d].pc
  PROVE  Handle(d) \/ AbortDelivery(d)
<1>0. d \in Procs /\ d \notin Tabs
  BY EventIs
<1>1. ASSUME NEW t \in Tabs, Request(t) \/ Continue(t) \/ AbortRequest(t) PROVE FALSE
  <2>1. t \in Procs /\ t # d
    BY <1>0 DEF Procs
  <2>2. CASE CreateSession(t)
    <3>1. CASE Others(t)
      BY <1>0, <2>1, <3>1 DEF Others
    <3>2. ASSUME NEW s \in Sessions, Opens(t, s) PROVE FALSE
      BY <1>0, <2>1, <3>2 DEF Opens
    <3> QED BY <2>2, <3>1, <3>2, CreateIs
  <2>3. CASE ~CreateSession(t)
    <3>1. Others(t)
      BY <1>1, <2>1, <2>3, StartIs, RubricIs, InsertIs, SaveIs, FailIs, AnswerIs, AbortIs,
         ReadIs, WriteIs DEF Request, Continue
    <3> QED BY <1>0, <2>1, <3>1 DEF Others
  <2> QED BY <2>2, <2>3
<1>2. ASSUME NEW e \in Events, e # d, Handle(e) \/ AbortDelivery(e) PROVE FALSE
  <2>1. e \in Procs
    BY DEF Procs
  <2>2. Others(e)
    BY <1>2, <2>1, FindAttemptIs, FindOrphanIs, BindIs, StoreIs, UpdateIs, VerifyIs, EndIs,
       ReadIs, WriteIs DEF Handle
  <2> QED BY <1>0, <1>2, <2>2 DEF Others
<1>3. ASSUME NEW s \in Sessions, Verdict(s) PROVE FALSE
  <2>1. PICK v \in Verdicts : Others(<<s, v>>) /\ proc'[<<s, v>>].pc = "sent"
    BY <1>3, VerdictIs
  <2> QED BY <1>0, <2>1 DEF Others
<1>4. CASE UNCHANGED vars
  BY <1>4 DEF vars
<1> QED BY <1>1, <1>2, <1>3, <1>4 DEF Next

LEMMA ApprovedStep ==
  ASSUME EarnedInvariant, CountInvariant, ApprovedInvariant, [Next]_vars
  PROVE  ApprovedInvariant'
<1>1. Excused => Excused'
  BY CountedStays DEF Excused
<1>2. ASSUME NEW d \in Events, Approves(d), proc'[d].pc \in {"ending", "done"}, ~Excused'
      PROVE  verified' /\ images'
  <2>1. CASE proc'[d].pc = proc[d].pc
    BY <1>1, <1>2, <2>1, CountedStays DEF ApprovedInvariant
  <2>2. CASE proc'[d].pc # proc[d].pc
    <3>1. Handle(d) \/ AbortDelivery(d)
      BY <1>2, <2>2, OnlyItsDelivery
    <3>2. (verified /\ images) \/ At(d, "ending")
      BY <1>2, <3>1, ApprovalCounts
    <3> QED BY <1>1, <1>2, <3>2, CountedStays DEF ApprovedInvariant, At
  <2> QED BY <2>1, <2>2
<1> QED BY <1>2 DEF ApprovedInvariant, Approves

LEMMA ApprovedInvariantHolds == Spec => []ApprovedInvariant
<1>1. Init => ApprovedInvariant
  <2>1. Init => \A d \in Events : proc[d].pc = "unsent"
    BY TabsAssumption DEF Init, Idle, Busy, Procs
  <2> QED BY <2>1 DEF ApprovedInvariant
<1>2. /\ EarnedInvariant /\ CountInvariant /\ ApprovedInvariant /\ [Next]_vars
      => ApprovedInvariant'
  BY ApprovedStep
<1> QED BY <1>1, <1>2, EarnedInvariantHolds, CountInvariantHolds, PTL DEF Spec

\* An approval Didit was told to have been taken has verified the user, whatever was lost,
\* repeated or crossed: its session has an attempt or one is left for it, and no status an
\* attempt has come to stops an approval (findAttempt and execute of
\* ProcessDiditVerificationResultUseCase).
THEOREM ApprovalIsTaken == Spec => []ApprovedIsVerified
<1>1. ApprovedInvariant => ApprovedIsVerified
  <2>1. \A s \in Sessions : <<s, "APPROVED">> \in Events /\ Approves(<<s, "APPROVED">>)
    BY DEF Events, Verdicts, Approves
  <2> QED BY <2>1 DEF ApprovedInvariant, ApprovedIsVerified, Excused
<1> QED BY <1>1, ApprovedInvariantHolds, PTL
=============================================================================
