----------------------- MODULE SwapMaintenance_proofs -----------------------
(* Proofs about SwapMaintenance, for any number of accounts, requests and     *)
(* attempts.                                                                  *)
(*   TypeCorrect        every reachable state is well typed                   *)
(*   EvidenceCurrent    evidence about the main and the degraded marker       *)
(*   MarkerCurrent      describe the live session,                            *)
(*   SwapsJustified     and no living main is swapped out as dead, but for    *)
(*                      the gaps that the histories record                    *)
(*   AttemptsStop       the job makes no more than MaxAttempts attempts       *)
EXTENDS SwapMaintenance, TLAPS

-----------------------------------------------------------------------------
(* Types. *)

LEMMA NoJobType == NoJob \in JobState
  BY AccountAssumption, LimitAssumption DEF NoJob, JobState, Passes, Sessions

LEMMA NoTriesType == NoTries \in Tries
  BY LimitAssumption DEF NoTries, Tries, Passes

\* Time only changes the ripe field of evidence and the due field of episodes.
LEMMA RipenedType ==
    ASSUME NEW S \in SUBSET Evidence PROVE Ripened(S) \in SUBSET Evidence
  BY DEF Ripened, Evidence

LEMMA ComeDueType ==
    ASSUME NEW S \in SUBSET Episode PROVE ComeDue(S) \in SUBSET Episode
  BY DEF ComeDue, Episode

LEMMA RipenedJob ==
    ASSUME NEW j \in JobState
    PROVE  [j EXCEPT !.deadMain = Ripened(@)] \in JobState
  <1>1. Ripened(j.deadMain) \in SUBSET Evidence
    BY RipenedType DEF JobState
  <1> QED BY <1>1 DEF JobState

LEMMA ComeDueJob ==
    ASSUME NEW j \in JobState
    PROVE  [j EXCEPT !.swapRetry = ComeDue(@)] \in JobState
  <1>1. ComeDue(j.swapRetry) \in SUBSET Episode
    BY ComeDueType DEF JobState
  <1> QED BY <1>1 DEF JobState

\* What update() reads is well typed.
LEMMA CallType ==
    ASSUME TypeOK, NEW m \in Mobiles, NEW named \in BOOLEAN, NEW renewed \in BOOLEAN,
           used.changes + 1 \in 1 .. MaxChanges
    PROVE  Call(m, named, renewed) \in Update
  <1> DEFINE to    == {a \in {m} : named}
             login == {s \in {<<m, used.changes + 1>>, stored[m]} :
                          renewed /\ (m = main <=> s # stored[m])}
  <1>1. to \in SUBSET Mobiles
    OBVIOUS
  <1>2. <<m, used.changes + 1>> \in Sessions /\ stored[m] \in Sessions
    BY DEF Sessions, TypeOK
  <1>3. login \in SUBSET Sessions
    BY <1>2
  <1>4. Call(m, named, renewed) =
           [n |-> used.changes + 1, main |-> main, session |-> session, to |-> to,
            login |-> login, marked |-> (degraded # {}), reported |-> (deadMain # {})]
    BY ZenonT(60) DEF Call
  <1>5. main \in Mobiles /\ session \in Sessions
    BY DEF TypeOK
  <1> HIDE DEF to, login
  <1> QED BY <1>1, <1>3, <1>4, <1>5 DEF Update

\* Telling a requester its answer keeps reports and job well typed.
LEMMA AnsweredType ==
    ASSUME TypeOK, NEW s \in setup, NEW outcome \in {"missed", "swapped"},
           Answered(s, outcome)
    PROVE  report' \in [Reports -> Report] /\ job' \in JobState
  <1>1. CASE s.by = Job
    BY <1>1 DEF Answered, TypeOK, JobState
  <1>2. CASE s.by # Job
    <2>1. NoReport \in Report
      BY AccountAssumption, LimitAssumption DEF NoReport, Report, Sessions
    <2> QED BY <1>2, <2>1 DEF Answered, TypeOK
  <1> QED BY <1>1, <1>2

LEMMA TypeInit == Init => TypeOK
  <1> SUFFICES ASSUME Init PROVE TypeOK
    OBVIOUS
  <1>1. <<InitMain, 0>> \in Sessions
    BY AccountAssumption, LimitAssumption DEF Sessions
  <1>2. NoReport \in Report
    BY <1>1, AccountAssumption DEF NoReport, Report
  <1>3. NoJob \in JobState
    BY NoJobType
  <1>4. session \in Sessions /\ proc \in Sessions
    BY <1>1 DEF Init
  <1>5. /\ stored \in [Mobiles -> Sessions]
        /\ report \in [Reports -> Report]
        /\ job \in JobState
    BY <1>2, <1>3, LimitAssumption DEF Init, Sessions
  <1>6. used \in [deaths : 0 .. MaxDeaths, reports : 0 .. MaxReports,
                  changes : 0 .. MaxChanges]
    BY LimitAssumption DEF Init
  <1>7. /\ main \in Mobiles /\ pool \in SUBSET Mobiles
        /\ deadMain = {} /\ degraded = {} /\ swapRetry = {} /\ dead = {}
        /\ update = {} /\ setup = {}
        /\ swapped \in BOOLEAN /\ fixed \in BOOLEAN
        /\ limited \in BOOLEAN /\ cool \in BOOLEAN /\ slipped \in BOOLEAN
        /\ tries \in Tries
    BY AccountAssumption, NoTriesType DEF Init
  <1> QED BY <1>4, <1>5, <1>6, <1>7 DEF TypeOK

LEMMA TypeStep == TypeOK /\ [Next]_vars => TypeOK'
  <1> SUFFICES ASSUME TypeOK, [Next]_vars PROVE TypeOK'
    OBVIOUS
  <1> USE AccountAssumption, LimitAssumption
         DEF client, buffer, world, flows
  <1>1. CASE SessionDies
    BY <1>1 DEF SessionDies, Spend, Bounds, TypeOK
  <1>2. CASE ProcessRestarts
    BY <1>2 DEF ProcessRestarts, TypeOK
  <1>3. CASE GraceEnds
    BY <1>3 DEF GraceEnds, TypeOK
  <1>4. CASE EvidenceRipens
    <2>1. deadMain' \in SUBSET Evidence
      BY <1>4, RipenedType DEF EvidenceRipens, TypeOK
    <2>2. job' \in JobState
      BY <1>4, RipenedJob DEF EvidenceRipens, TypeOK
    <2> QED BY <1>4, <2>1, <2>2 DEF EvidenceRipens, TypeOK
  <1>5. CASE RetryComesDue
    <2>1. swapRetry' \in SUBSET Episode
      BY <1>5, ComeDueType DEF RetryComesDue, TypeOK
    <2>2. job' \in JobState
      BY <1>5, ComeDueJob DEF RetryComesDue, TypeOK
    <2> QED BY <1>5, <2>1, <2>2 DEF RetryComesDue, TypeOK
  <1>24. CASE CopyAges
    <2>1. job' \in JobState
      BY <1>24, RipenedJob, ComeDueJob DEF CopyAges, TypeOK
    <2> QED BY <1>24, <2>1 DEF CopyAges, TypeOK
  <1>6. CASE CooldownEnds
    BY <1>6 DEF CooldownEnds, TypeOK
  <1>7. CASE PoolChanges
    BY <1>7, NoTriesType DEF PoolChanges, Spend, Bounds, TypeOK
  <1>8. CASE VerdictChanges
    BY <1>8 DEF VerdictChanges, Spend, Bounds, TypeOK
  <1>9. ASSUME NEW r \in Reports, ScreenReport(r) PROVE TypeOK'
    <2>1. [at |-> "screened", mobile |-> main, about |-> proc, seen |-> {session}] \in Report
      BY DEF TypeOK, Report
    <2> QED BY <1>9, <2>1 DEF ScreenReport, Spend, Bounds, TypeOK
  <1>10. ASSUME NEW r \in Reports, ScreenFails(r) PROVE TypeOK'
    <2>1. [at |-> "recorded", mobile |-> main, about |-> proc, seen |-> {}] \in Report
      BY DEF TypeOK, Report
    <2> QED BY <1>10, <2>1 DEF ScreenFails, Spend, Bounds, TypeOK
  <1>11. ASSUME NEW r \in Reports, RecordReport(r) PROVE TypeOK'
    <2>1. report' \in [Reports -> Report]
      BY <1>11 DEF RecordReport, TypeOK, Report
    <2>2. [mobile |-> main, about |-> report[r].about,
           late |-> (report[r].seen # {session}), ripe |-> FALSE] \in Evidence
      BY DEF TypeOK, Report, Evidence
    <2> QED BY <1>11, <2>1, <2>2 DEF RecordReport, TypeOK
  <1>12. ASSUME NEW r \in Reports, RequestSetup(r) PROVE TypeOK'
    <2>1. NoReport \in Report /\ [NoReport EXCEPT !.at = "setup"] \in Report
      BY DEF NoReport, Report, Sessions
    <2>2. report' \in [Reports -> Report]
      BY <1>12, <2>1 DEF RequestSetup, TypeOK
    <2>3. [by |-> r, why |-> "dead", old |-> main, from |-> 1] \in Setup
      BY DEF TypeOK, Setup
    <2> QED BY <1>12, <2>2, <2>3 DEF RequestSetup, TypeOK
  <1>13. CASE SetupSwaps
    <2>0. PICK s \in setup : \E m \in pool \ {main} : \E t \in MarkerTiers(s) :
             /\ main' = m
             /\ session' = stored[m]
             /\ degraded' = IF t = 1 THEN {} ELSE {[tier |-> t, on |-> m]}
             /\ limited' = (t # 1)
             /\ pool' = (pool \ {m}) \cup (IF s.why = "dead" THEN {} ELSE {main})
             /\ stored' = IF s.why = "dead" THEN stored
                          ELSE [stored EXCEPT ![main] = session]
             /\ cool' = (cool \/ s.by # Job)
             /\ slipped' = (slipped \/ m = proc[1])
             /\ Answered(s, "swapped")
      BY <1>13, ZenonT(60) DEF SetupSwaps
    <2>1. PICK m \in pool \ {main}, t \in MarkerTiers(s) :
             /\ main' = m
             /\ session' = stored[m]
             /\ degraded' = IF t = 1 THEN {} ELSE {[tier |-> t, on |-> m]}
             /\ limited' = (t # 1)
             /\ pool' = (pool \ {m}) \cup (IF s.why = "dead" THEN {} ELSE {main})
             /\ stored' = IF s.why = "dead" THEN stored
                          ELSE [stored EXCEPT ![main] = session]
             /\ cool' = (cool \/ s.by # Job)
             /\ slipped' = (slipped \/ m = proc[1])
             /\ Answered(s, "swapped")
      BY <2>0
    <2>2. m \in Mobiles /\ t \in Tiers \cup {1}
      BY DEF TypeOK, MarkerTiers
    <2>3. session' \in Sessions /\ stored' \in [Mobiles -> Sessions]
      BY <2>1, <2>2 DEF TypeOK
    <2>4. degraded' \in SUBSET Marker
      BY <2>1, <2>2 DEF Marker
    <2>5. report' \in [Reports -> Report] /\ job' \in JobState
      BY <2>1, AnsweredType
    <2>6. slipped' \in BOOLEAN /\ cool' \in BOOLEAN
      BY <2>1, ZenonT(60) DEF TypeOK
    <2> QED BY <1>13, <2>1, <2>2, <2>3, <2>4, <2>5, <2>6, NoTriesType DEF SetupSwaps, TypeOK
  <1>14. CASE SetupMisses
    <2>1. report' \in [Reports -> Report] /\ job' \in JobState
      BY <1>14, AnsweredType DEF SetupMisses
    <2>2. tries' \in Tries
      BY <1>14, NoTriesType DEF SetupMisses, TypeOK
    <2> QED BY <1>14, <2>1, <2>2 DEF SetupMisses, TypeOK
  <1>15. CASE UpdateReads
    <2>1. PICK m \in Mobiles, named \in BOOLEAN, renewed \in BOOLEAN :
             update' = update \cup {Call(m, named, renewed)}
      BY <1>15 DEF UpdateReads
    <2>2. used.changes + 1 \in 1 .. MaxChanges
      BY <1>15 DEF UpdateReads, Spend, Bounds, TypeOK
    <2>3. Call(m, named, renewed) \in Update
      BY <2>2, CallType
    <2>8. update' \in SUBSET Update
      BY <2>1, <2>3 DEF TypeOK
    <2> QED BY <1>15, <2>8 DEF UpdateReads, Spend, Bounds, TypeOK
  <1>16. CASE UpdateWrites
    <2>1. PICK u \in update :
             /\ main' \in Given(u.to, main)
             /\ session' \in Given(u.login, session)
             /\ degraded' = MarkerAfterUpdate(u)
             /\ deadMain' = EvidenceAfterUpdate(u)
             /\ swapped' = (swapped \/ Renews(u))
             /\ fixed' = (~Moves(u) /\ (fixed \/ Renews(u)))
             /\ pool' = pool \ u.to
             /\ update' = update \ {u}
             /\ slipped' = (slipped \/ Stale(u) \/ (Moves(u) /\ proc[1] \in u.to))
      BY <1>16, ZenonT(60) DEF UpdateWrites
    <2>2. u.to \in SUBSET Mobiles /\ u.login \in SUBSET Sessions
      BY DEF TypeOK, Update
    <2>3. main' \in Mobiles /\ session' \in Sessions
      BY <2>1, <2>2 DEF TypeOK, Given
    <2>4. degraded' \in SUBSET Marker /\ deadMain' \in SUBSET Evidence
      BY <2>1 DEF TypeOK, MarkerAfterUpdate, EvidenceAfterUpdate
    <2>5. swapped' \in BOOLEAN /\ fixed' \in BOOLEAN /\ slipped' \in BOOLEAN
      BY <2>1, ZenonT(60) DEF TypeOK
    <2>6. limited' \in BOOLEAN /\ tries' \in Tries
      BY <1>16, NoTriesType DEF UpdateWrites, TypeOK
    <2>7. pool' \in SUBSET Mobiles /\ update' \in SUBSET Update
      BY <2>1 DEF TypeOK
    <2> QED BY <1>16, <2>3, <2>4, <2>5, <2>6, <2>7 DEF UpdateWrites, TypeOK
  <1>17. CASE JobReads
    <2>1. NoJob \in JobState
      BY NoJobType
    <2>2. job' \in JobState
      BY <1>17, <2>1 DEF JobReads, JobState, TypeOK
    <2> QED BY <1>17, <2>2 DEF JobReads, TypeOK
  <1>18. CASE JobAttempts
    <2>1. AttemptsSoFar \in 0 .. (MaxAttempts - 1)
      <3>1. CASE \E e \in job.swapRetry : SameEpisode(e)
        <4> DEFINE f == CHOOSE e \in job.swapRetry : SameEpisode(e)
        <4>1. f \in job.swapRetry /\ SameEpisode(f)
          BY <3>1
        <4>2. ~Spent(f)
          BY <4>1, <1>18 DEF JobAttempts, Due
        <4>3. f.attempts \in 1 .. MaxAttempts
          BY <4>1 DEF TypeOK, JobState, Episode
        <4>4. AttemptsSoFar = f.attempts
          BY <3>1 DEF AttemptsSoFar
        <4> QED BY <4>2, <4>3, <4>4 DEF Spent
      <3>2. CASE ~\E e \in job.swapRetry : SameEpisode(e)
        BY <3>2 DEF AttemptsSoFar
      <3> QED BY <3>1, <3>2
    <2>0. tries' \in Tries
      BY <1>18 DEF JobAttempts, TypeOK, Tries, Pass, Passes
    <2>2. Pass \in Passes /\ SetupReason \in {"dead", "upgrade", "refill"}
      BY DEF Pass, Passes, SetupReason
    <2>3. job' \in JobState
      <3>1. NoJob \in JobState /\ job.main \in Mobiles
        BY NoJobType DEF TypeOK, JobState
      <3> QED BY <1>18, <2>1, <2>2, <3>1 DEF JobAttempts, JobState
    <2> DEFINE tier == IF Pass = "upgrade"
                       THEN (CHOOSE d \in job.degraded : TRUE).tier ELSE 1
    <2>4. tier \in Tiers \cup {1}
      <3>1. CASE Pass = "upgrade"
        <4>1. job.degraded # {} /\ job.degraded \subseteq Marker
          BY <3>1 DEF Pass, TypeOK, JobState
        <4>2. (CHOOSE d \in job.degraded : TRUE) \in Marker
          BY <4>1
        <4> QED BY <3>1, <4>2 DEF Marker
      <3> QED BY <3>1
    <2>5. [by |-> Job, why |-> SetupReason, old |-> main, from |-> tier] \in Setup
      BY <2>2, <2>4 DEF TypeOK, Setup
    <2> QED BY <1>18, <2>0, <2>3, <2>5 DEF JobAttempts, TypeOK
  <1>19. CASE JobSkips
    <2>1. NoJob \in JobState
      BY NoJobType
    <2> QED BY <1>19, <2>1 DEF JobSkips, TypeOK
  <1>20. CASE JobClearsMarker
    <2>1. NoJob \in JobState
      BY NoJobType
    <2> QED BY <1>20, <2>1, NoTriesType DEF JobClearsMarker, TypeOK
  <1>21. CASE JobNotes
    <2>1. NoJob \in JobState
      BY NoJobType
    <2>2. [pass |-> job.pass, mobile |-> job.main, attempts |-> job.attempts + 1,
           pool |-> pool, due |-> FALSE] \in Episode
      BY DEF TypeOK, JobState, Episode
    <2> QED BY <1>21, <2>1, <2>2 DEF JobNotes, TypeOK
  <1>22. CASE JobCrashes
    <2>1. NoJob \in JobState
      BY NoJobType
    <2> QED BY <1>22, <2>1, NoTriesType DEF JobCrashes, Spend, Bounds, TypeOK
  <1>23. CASE UNCHANGED vars
    BY <1>23 DEF vars, TypeOK
  <1> QED
    BY <1>1, <1>2, <1>3, <1>4, <1>5, <1>6, <1>7, <1>8, <1>9, <1>10, <1>11, <1>12,
       <1>13, <1>14, <1>15, <1>16, <1>17, <1>18, <1>19, <1>20, <1>21, <1>22, <1>23, <1>24
       DEF Next, ReportStep, SetupEnds, JobStep

\* Every reachable state is well typed: in particular no episode ever counts
\* more than MaxAttempts attempts (swapRetryDecision, notePassOutcome).
THEOREM TypeCorrect == Spec => []TypeOK
  <1>1. Init => TypeOK
    BY TypeInit
  <1>2. TypeOK /\ [Next]_vars => TypeOK'
    BY TypeStep
  <1> QED BY <1>1, <1>2, PTL DEF Spec

-----------------------------------------------------------------------------
(* Evidence, marker and requests are about the session the client is on. *)

\* Only sessions that Telegram has killed are ever reported.
AboutDead ==
    /\ \A e \in deadMain \cup job.deadMain : e.about \in dead
    /\ \A r \in Reports : report[r].at \in {"screened", "recorded"} => report[r].about \in dead

\* Outside the two windows the process runs on the client's session.
ProcessKnown ==
    ~slipped => /\ ~swapped => proc = session
                /\ proc[1] = main /\ ~fixed => proc = session

\* So a report that passes the screen is about the session it is screened for.
ReportsCurrent ==
    ~slipped => \A r \in Reports : report[r].at \in {"screened", "recorded"} =>
                                      report[r].seen \in {{}, {report[r].about}}

\* The job's copy was about the session the job has read.
JobCurrent ==
    ~slipped => \A e \in job.deadMain : e.mobile = job.main /\ ~e.late => e.about = job.session

CurrentInv ==
    /\ TypeOK
    /\ AboutDead
    /\ ProcessKnown
    /\ ReportsCurrent
    /\ JobCurrent
    /\ EvidenceIsCurrent
    /\ MarkerIsCurrent

LEMMA CurrentInit == Init => CurrentInv
  <1> SUFFICES ASSUME Init PROVE CurrentInv
    OBVIOUS
  <1>1. EvidenceIsCurrent /\ MarkerIsCurrent /\ ProcessKnown
    BY DEF Init, ProcessKnown, EvidenceIsCurrent, MarkerIsCurrent
  <1>2. deadMain = {} /\ job.deadMain = {} /\ \A r \in Reports : report[r].at = "idle"
    BY DEF Init, NoReport, NoJob
  <1>3. AboutDead /\ ReportsCurrent /\ JobCurrent
    BY <1>2 DEF AboutDead, ReportsCurrent, JobCurrent
  <1> QED BY <1>1, <1>3, TypeInit DEF CurrentInv

\* Ripening changes neither what evidence is about nor whom it names.
LEMMA RipenedAbout ==
    ASSUME NEW S \in SUBSET Evidence, NEW f \in Ripened(S)
    PROVE  \E e \in S : f.about = e.about /\ f.mobile = e.mobile /\ f.late = e.late
  BY DEF Ripened, Evidence

\* A step that leaves the requests' evidence alone, or drops some of it, keeps
\* all of CurrentInv but what is said of the document.
LEMMA CurrentKept ==
    ASSUME CurrentInv, dead \subseteq dead', ~slipped' => ~slipped,
           deadMain' \subseteq deadMain,
           job' = job \/ job'.deadMain = {},
           \A r \in Reports : report'[r] = report[r] \/ report'[r].at \in {"idle", "setup"}
    PROVE  AboutDead' /\ ReportsCurrent' /\ JobCurrent'
  <1> USE DEF CurrentInv
  <1>1. AboutDead'
    BY DEF AboutDead
  <1>2. ReportsCurrent'
    BY DEF ReportsCurrent
  <1>3. JobCurrent'
    BY DEF JobCurrent
  <1> QED BY <1>1, <1>2, <1>3

\* The steps of the world, in which time passes for evidence and its copies.
LEMMA CurrentWorld ==
    ASSUME CurrentInv, TypeOK',
           \/ SessionDies \/ ProcessRestarts \/ GraceEnds \/ EvidenceRipens
           \/ RetryComesDue \/ CopyAges \/ CooldownEnds \/ PoolChanges \/ VerdictChanges
    PROVE  CurrentInv'
  <1> USE DEF CurrentInv, client, buffer, world, flows
  <1>1. CASE \/ SessionDies \/ ProcessRestarts \/ GraceEnds
            \/ CooldownEnds \/ PoolChanges \/ VerdictChanges
    <2>1. /\ UNCHANGED <<main, session, deadMain, degraded, report, job>>
          /\ dead \subseteq dead'
      BY <1>1 DEF SessionDies, ProcessRestarts, GraceEnds, CooldownEnds, PoolChanges,
                  VerdictChanges
    <2>4. ~slipped' => ~slipped
      <3>1. slipped' = slipped \/ slipped' = (slipped \/ proc # session)
        BY <1>1, ZenonT(60) DEF SessionDies, ProcessRestarts, GraceEnds, CooldownEnds, PoolChanges,
                  VerdictChanges
      <3> QED BY <3>1, ZenonT(60)
    <2>2. AboutDead' /\ ReportsCurrent' /\ JobCurrent'
      BY <2>1, <2>4, CurrentKept
    <2>3. ProcessKnown'
      BY <1>1 DEF SessionDies, ProcessRestarts, GraceEnds, CooldownEnds, PoolChanges,
                  VerdictChanges, ProcessKnown
    <2> QED BY <2>1, <2>2, <2>3, <2>4 DEF EvidenceIsCurrent, MarkerIsCurrent
  <1>2. CASE EvidenceRipens
    <2>1. /\ UNCHANGED <<main, session, degraded, report, dead, slipped, proc, swapped, fixed>>
          /\ deadMain' = Ripened(deadMain)
      BY <1>2 DEF EvidenceRipens
    <2>2. job'.deadMain = Ripened(job.deadMain) /\ job'.main = job.main /\ job'.session = job.session
      BY <1>2 DEF EvidenceRipens, TypeOK, JobState
    <2>3. \A f \in deadMain' : \E e \in deadMain :
             f.about = e.about /\ f.mobile = e.mobile /\ f.late = e.late
      BY <2>1, RipenedAbout DEF TypeOK
    <2>4. \A f \in job'.deadMain : \E e \in job.deadMain :
             f.about = e.about /\ f.mobile = e.mobile /\ f.late = e.late
      BY <2>2, RipenedAbout DEF TypeOK, JobState
    <2>5. AboutDead'
      BY <2>1, <2>3, <2>4 DEF AboutDead
    <2>6. EvidenceIsCurrent'
      BY <2>1, <2>3 DEF EvidenceIsCurrent
    <2>7. JobCurrent'
      BY <2>1, <2>2, <2>4 DEF JobCurrent
    <2> QED BY <2>1, <2>5, <2>6, <2>7 DEF ProcessKnown, ReportsCurrent, MarkerIsCurrent
  <1>3. CASE RetryComesDue \/ CopyAges
    <2>1. UNCHANGED <<main, session, degraded, deadMain, report, dead, slipped, proc, swapped, fixed>>
      BY <1>3 DEF RetryComesDue, CopyAges
    <2>2. /\ job'.deadMain \in {job.deadMain, Ripened(job.deadMain)}
          /\ job'.main = job.main /\ job'.session = job.session
      BY <1>3 DEF RetryComesDue, CopyAges, TypeOK, JobState
    <2>3. \A f \in job'.deadMain : \E e \in job.deadMain :
             f.about = e.about /\ f.mobile = e.mobile /\ f.late = e.late
      BY <2>2, RipenedAbout DEF TypeOK, JobState
    <2>4. AboutDead'
      BY <2>1, <2>3 DEF AboutDead
    <2>5. JobCurrent'
      BY <2>1, <2>2, <2>3 DEF JobCurrent
    <2> QED BY <2>1, <2>4, <2>5 DEF ProcessKnown, ReportsCurrent, MarkerIsCurrent,
                                    EvidenceIsCurrent
  <1> QED BY <1>1, <1>2, <1>3

\* The steps of a report: the screen admits no report of a replaced process.
LEMMA CurrentReport ==
    ASSUME CurrentInv, TypeOK', NEW r \in Reports,
           ScreenReport(r) \/ ScreenFails(r) \/ ReportStep(r)
    PROVE  CurrentInv'
  <1> USE DEF CurrentInv, client, buffer, world, flows
  <1>0. /\ UNCHANGED <<main, session, degraded, dead, slipped, proc, swapped, fixed, job>>
        /\ \A q \in Reports \ {r} : report'[q] = report[q]
    BY DEF ScreenReport, ScreenFails, ReportStep, RecordReport, RequestSetup, TypeOK
  <1>1. ProcessKnown' /\ MarkerIsCurrent' /\ JobCurrent'
    BY <1>0 DEF ProcessKnown, MarkerIsCurrent, JobCurrent
  <1>2. CASE ScreenReport(r)
    <2>1. /\ report'[r].about = proc /\ report'[r].seen = {session}
          /\ proc \in dead /\ UNCHANGED deadMain
      BY <1>2 DEF ScreenReport, TypeOK
    <2>2. ~slipped => proc = session
      BY <1>2 DEF ScreenReport, Current, ProcessKnown
    <2>3. ReportsCurrent'
      BY <1>0, <2>1, <2>2 DEF ReportsCurrent
    <2>4. AboutDead'
      BY <1>0, <2>1 DEF AboutDead
    <2> QED BY <1>0, <1>1, <2>1, <2>3, <2>4 DEF EvidenceIsCurrent
  <1>3. CASE ScreenFails(r)
    <2>1. /\ report'[r].about = proc /\ report'[r].seen = {}
          /\ proc \in dead /\ UNCHANGED deadMain
      BY <1>3 DEF ScreenFails, TypeOK
    <2>2. ReportsCurrent'
      BY <1>0, <2>1 DEF ReportsCurrent
    <2>3. AboutDead'
      BY <1>0, <2>1 DEF AboutDead
    <2> QED BY <1>0, <1>1, <2>1, <2>2, <2>3 DEF EvidenceIsCurrent
  <1>4. CASE RecordReport(r)
    <2>1. /\ report[r].at = "screened"
          /\ report'[r].about = report[r].about /\ report'[r].seen = report[r].seen
      BY <1>4 DEF RecordReport, TypeOK, Report
    <2>2. \A e \in deadMain' : \/ e \in deadMain
                               \/ /\ e.about = report[r].about
                                  /\ e.late = (report[r].seen # {session})
      BY <1>4 DEF RecordReport
    <2>3. ReportsCurrent'
      BY <1>0, <2>1 DEF ReportsCurrent
    <2>4. AboutDead'
      BY <1>0, <2>1, <2>2 DEF AboutDead
    <2>5. ~slipped => report[r].seen # {session} \/ report[r].about = session
      BY <2>1 DEF ReportsCurrent
    <2>6. EvidenceIsCurrent'
      BY <1>0, <2>2, <2>5 DEF EvidenceIsCurrent
    <2> QED BY <1>1, <2>3, <2>4, <2>6
  <1>5. CASE RequestSetup(r)
    <2>1. report'[r].at \in {"idle", "setup"} /\ UNCHANGED deadMain
      BY <1>5 DEF RequestSetup, NoReport, TypeOK
    <2>2. AboutDead' /\ ReportsCurrent'
      BY <1>0, <2>1 DEF AboutDead, ReportsCurrent
    <2> QED BY <1>0, <1>1, <2>1, <2>2 DEF EvidenceIsCurrent
  <1> QED BY <1>2, <1>3, <1>4, <1>5 DEF ReportStep

\* An answer takes no new evidence into a request.
LEMMA AnsweredAway ==
    ASSUME TypeOK, NEW s \in setup, NEW outcome \in {"missed", "swapped"},
           Answered(s, outcome)
    PROVE  /\ \A r \in Reports : report'[r] = report[r] \/ report'[r].at = "idle"
           /\ job'.deadMain = job.deadMain /\ job'.main = job.main
           /\ job'.session = job.session
  <1>1. CASE s.by = Job
    BY <1>1 DEF Answered, TypeOK, JobState
  <1>2. CASE s.by # Job
    BY <1>2 DEF Answered, NoReport, TypeOK
  <1> QED BY <1>1, <1>2

\* The end of a run: a cutover leaves nothing that describes the old main.
LEMMA CurrentSetup ==
    ASSUME CurrentInv, TypeOK', SetupEnds PROVE CurrentInv'
  <1> USE DEF CurrentInv, client, buffer, world, flows
  <1>1. PICK s \in setup : Answered(s, "swapped") \/ Answered(s, "missed")
    BY DEF SetupEnds, SetupSwaps, SetupMisses
  <1>2. /\ \A r \in Reports : report'[r] = report[r] \/ report'[r].at = "idle"
        /\ job'.deadMain = job.deadMain /\ job'.main = job.main
        /\ job'.session = job.session
    BY <1>1, AnsweredAway
  <1>3. /\ deadMain' \subseteq deadMain /\ dead' = dead /\ proc' = proc
        /\ ~slipped' => ~slipped
    <2>1. deadMain' \subseteq deadMain /\ dead' = dead /\ proc' = proc
      BY DEF SetupEnds, SetupSwaps, SetupMisses
    <2>2. CASE SetupSwaps
      <3>1. PICK m \in pool : slipped' = (slipped \/ m = proc[1])
        BY <2>2, ZenonT(60) DEF SetupSwaps
      <3> QED BY <2>1, <3>1, ZenonT(60)
    <2>3. CASE SetupMisses
      BY <2>1, <2>3 DEF SetupMisses
    <2> QED BY <2>2, <2>3 DEF SetupEnds
  <1>4. AboutDead' /\ ReportsCurrent' /\ JobCurrent'
    BY <1>2, <1>3 DEF AboutDead, ReportsCurrent, JobCurrent
  <1>5. CASE SetupSwaps
    <2>1. PICK m \in pool \ {main} :
             /\ main' = m
             /\ \A d \in degraded' : d.on = m
             /\ slipped' = (slipped \/ m = proc[1])
      BY <1>5 DEF SetupSwaps
    <2>2. swapped' /\ deadMain' = {}
      BY <1>5 DEF SetupSwaps
    <2>3. ProcessKnown' /\ EvidenceIsCurrent' /\ MarkerIsCurrent'
      BY <1>3, <2>1, <2>2 DEF ProcessKnown, EvidenceIsCurrent, MarkerIsCurrent
    <2> QED BY <1>4, <2>3
  <1>6. CASE SetupMisses
    <2>1. UNCHANGED <<client, proc, slipped>>
      BY <1>6 DEF SetupMisses
    <2> QED BY <1>4, <2>1 DEF ProcessKnown, EvidenceIsCurrent, MarkerIsCurrent
  <1> QED BY <1>5, <1>6 DEF SetupEnds

\* update(): a write over the document as it was read drops what does not
\* describe the account and session it installs, and opens the right window.
LEMMA CurrentUpdate ==
    ASSUME CurrentInv, TypeOK', UpdateReads \/ UpdateWrites PROVE CurrentInv'
  <1> USE DEF CurrentInv, client, buffer, world, flows
  <1>1. CASE UpdateReads
    <2>1. UNCHANGED <<client, world, report, job, slipped>>
      BY <1>1 DEF UpdateReads
    <2> QED BY <2>1 DEF AboutDead, ProcessKnown, ReportsCurrent, JobCurrent,
                        EvidenceIsCurrent, MarkerIsCurrent
  <1>2. CASE UpdateWrites
    <2>1. PICK u \in update :
             /\ main' \in Given(u.to, main)
             /\ session' \in Given(u.login, session)
             /\ degraded' = MarkerAfterUpdate(u)
             /\ deadMain' = EvidenceAfterUpdate(u)
             /\ swapped' = (swapped \/ Renews(u))
             /\ fixed' = (~Moves(u) /\ (fixed \/ Renews(u)))
             /\ slipped' = (slipped \/ Stale(u) \/ (Moves(u) /\ proc[1] \in u.to))
      BY <1>2, ZenonT(60) DEF UpdateWrites
    <2>2. UNCHANGED <<world, report, job>>
      BY <1>2 DEF UpdateWrites
    <2>3. deadMain' \subseteq deadMain /\ (~slipped' => ~slipped)
      BY <2>1 DEF EvidenceAfterUpdate
    <2>4. AboutDead' /\ ReportsCurrent' /\ JobCurrent'
      BY <2>2, <2>3, CurrentKept
    <2>5. SUFFICES ASSUME ~slipped'
                   PROVE  ProcessKnown' /\ EvidenceIsCurrent' /\ MarkerIsCurrent'
      BY <2>4 DEF ProcessKnown, EvidenceIsCurrent, MarkerIsCurrent
    <2>6. ~slipped /\ ~Stale(u) /\ (Moves(u) => proc[1] \notin u.to)
      BY <2>1, <2>5
    <2>7. /\ main = u.main /\ session = u.session
          /\ degraded = {} \/ u.marked
          /\ deadMain = {} \/ u.reported
      BY <2>6 DEF Stale
    <2>8. ~Moves(u) => main' = main
      BY <2>1, <2>7 DEF Moves, Given
    <2>9. ~Renews(u) => session' = session
      BY <2>1, <2>7 DEF Renews, Given
    <2>10. Moves(u) => main' # proc[1]
      BY <2>1, <2>6 DEF Moves, Given
    <2>11. ProcessKnown'
      BY <2>1, <2>2, <2>6, <2>8, <2>9, <2>10 DEF ProcessKnown
    <2>12. EvidenceIsCurrent'
      BY <2>1, <2>6, <2>7, <2>8, <2>9 DEF EvidenceIsCurrent, EvidenceAfterUpdate
    <2>13. MarkerIsCurrent'
      BY <2>1, <2>6, <2>7, <2>8 DEF MarkerIsCurrent, MarkerAfterUpdate
    <2> QED BY <2>11, <2>12, <2>13
  <1> QED BY <1>1, <1>2

\* The steps of the job.
LEMMA CurrentJob ==
    ASSUME CurrentInv, TypeOK', JobStep \/ JobCrashes PROVE CurrentInv'
  <1> USE DEF CurrentInv, client, buffer, world, flows
  <1>1. CASE JobReads
    <2>1. /\ UNCHANGED <<client, world, report, slipped>>
          /\ job'.main = main /\ job'.session = session /\ job'.deadMain = deadMain
      BY <1>1 DEF JobReads, NoJob
    <2> QED BY <2>1 DEF AboutDead, ProcessKnown, ReportsCurrent, JobCurrent,
                        EvidenceIsCurrent, MarkerIsCurrent
  <1>2. CASE JobAttempts \/ JobSkips \/ JobClearsMarker \/ JobNotes \/ JobCrashes
    <2>1. /\ UNCHANGED <<main, session, deadMain, swapped, fixed, world, report, slipped>>
          /\ job'.deadMain = {} /\ degraded' \in {degraded, {}}
      <3>1. UNCHANGED <<main, session, deadMain, swapped, fixed, world, report, slipped>>
        BY <1>2 DEF JobAttempts, JobSkips, JobClearsMarker, JobNotes, JobCrashes
      <3>2. job'.deadMain = {}
        <4>1. CASE JobAttempts
          BY <4>1 DEF JobAttempts, NoJob
        <4>2. CASE JobSkips \/ JobClearsMarker \/ JobNotes \/ JobCrashes
          BY <4>2 DEF JobSkips, JobClearsMarker, JobNotes, JobCrashes, NoJob
        <4> QED BY <1>2, <4>1, <4>2
      <3>3. degraded' \in {degraded, {}}
        BY <1>2 DEF JobAttempts, JobSkips, JobClearsMarker, JobNotes, JobCrashes
      <3> QED BY <3>1, <3>2, <3>3
    <2>2. AboutDead' /\ ReportsCurrent' /\ JobCurrent'
      BY <2>1 DEF AboutDead, ReportsCurrent, JobCurrent
    <2> QED BY <2>1, <2>2 DEF ProcessKnown, EvidenceIsCurrent, MarkerIsCurrent
  <1> QED BY <1>1, <1>2 DEF JobStep

LEMMA CurrentStep == CurrentInv /\ [Next]_vars => CurrentInv'
  <1> SUFFICES ASSUME CurrentInv, [Next]_vars PROVE CurrentInv'
    OBVIOUS
  <1>1. TypeOK'
    BY TypeStep DEF CurrentInv
  <1>2. CASE UNCHANGED vars
    BY <1>1, <1>2 DEF vars, client, buffer, world, flows, CurrentInv, AboutDead,
       ProcessKnown, ReportsCurrent, JobCurrent, EvidenceIsCurrent, MarkerIsCurrent
  <1>3. CASE Next
    BY <1>1, <1>3, CurrentWorld, CurrentReport, CurrentSetup, CurrentUpdate, CurrentJob
       DEF Next
  <1> QED BY <1>2, <1>3

LEMMA CurrentInvariant == Spec => []CurrentInv
  <1> QED BY CurrentInit, CurrentStep, PTL DEF Spec

\* Until update() has written over what it had not read, or a window has ended
\* on a process that has not restarted, clients.deadMain never outlives the
\* session it is about, whatever overtakes whatever else: the windows of
\* screenSetupReport and the unsets of update() and of the cutover suffice.
THEOREM EvidenceCurrent == Spec => []EvidenceIsCurrent
  <1>1. CurrentInv => EvidenceIsCurrent
    BY DEF CurrentInv
  <1> QED BY <1>1, CurrentInvariant, PTL

\* Until then, too, clients.degraded describes the present main.
THEOREM MarkerCurrent == Spec => []MarkerIsCurrent
  <1>1. CurrentInv => MarkerIsCurrent
    BY DEF CurrentInv
  <1> QED BY <1>1, CurrentInvariant, PTL

\* Runs start from a request or from the job.
LEMMA SetupStarts ==
    ASSUME [Next]_vars
    PROVE  (\E r \in Reports : RequestSetup(r)) \/ JobAttempts \/ setup' \subseteq setup
  BY DEF Next, vars, client, buffer, world, flows, ReportStep, SetupEnds, JobStep,
     SessionDies, ProcessRestarts, GraceEnds, EvidenceRipens, RetryComesDue, CopyAges,
     CooldownEnds, PoolChanges, VerdictChanges, ScreenReport, ScreenFails, RecordReport,
     SetupSwaps, SetupMisses, UpdateReads, UpdateWrites, JobReads, JobSkips,
     JobClearsMarker, JobNotes, JobCrashes

\* Neither a report nor the rescue pass starts a swap for a dead reason while
\* the client's session is alive, unless that session has replaced the one the
\* request was screened for or the job has read.
THEOREM SwapsJustified == Spec => DeadSwapJustified
  <1>1. ASSUME CurrentInv, [Next]_vars
        PROVE  \A s \in setup' \ setup : s.why = "dead" => session \in dead \/ Overtaken(s)
    <2> SUFFICES ASSUME NEW s \in setup' \ setup, s.why = "dead", ~Overtaken(s)
                 PROVE  session \in dead
      OBVIOUS
    <2> USE <1>1 DEF CurrentInv
    <2>1. ASSUME NEW r \in Reports, RequestSetup(r) PROVE session \in dead
      <3>1. report[r].at = "recorded" /\ s.by = r /\ s.by # Job
        BY <2>1, AccountAssumption DEF RequestSetup
      <3>2. ~slipped /\ report[r].seen = {session}
        BY <3>1 DEF Overtaken
      <3>3. report[r].about = session
        BY <3>1, <3>2 DEF ReportsCurrent
      <3> QED BY <3>1, <3>3 DEF AboutDead
    <2>2. CASE JobAttempts
      <3>1. SetupReason = "dead" /\ s.by = Job
        BY <2>2 DEF JobAttempts
      <3>2. PICK e \in job.deadMain : e \in Reported
        BY <3>1 DEF SetupReason, Pass, Reported
      <3>3. ~slipped /\ job.session = session /\ ~e.late /\ e.mobile = job.main
        BY <3>1, <3>2 DEF Overtaken, Reported
      <3> QED BY <3>2, <3>3 DEF JobCurrent, AboutDead
    <2> QED BY <2>1, <2>2, SetupStarts
  <1> QED BY <1>1, CurrentInvariant, PTL DEF Spec, DeadSwapJustified

-----------------------------------------------------------------------------
(* The hard stop. *)

\* An episode that accounts for every attempt of the history.
Counted(episodes) ==
    /\ episodes # {}
    /\ \A e \in episodes : /\ e.pass = tries.pass /\ e.mobile = main /\ e.pool = pool
                           /\ e.attempts >= tries.n

\* The count is in the document, in the job's copy until it decides, and with
\* the attempt until it is noted.
TriesInv ==
    /\ tries.n <= MaxAttempts
    /\ tries.n > 0 =>
          /\ job.at \in {"idle", "read"} => Counted(swapRetry)
          /\ job.at = "read" => job.main = main /\ Counted(job.swapRetry)
          /\ job.at \in {"attempt", "missed"} =>
                /\ job.pass = tries.pass /\ job.main = main
                /\ job.attempts + 1 >= tries.n
          /\ job.at # "swapped"

LEMMA TriesInit == Init => TriesInv
  BY LimitAssumption DEF Init, NoTries, TriesInv

\* What a change around the job resets is accounted for.
LEMMA TriesReset == ASSUME tries' = NoTries PROVE TriesInv'
  BY LimitAssumption DEF NoTries, TriesInv

\* Nothing the count depends on has changed.
LEMMA TriesKept ==
    ASSUME TriesInv, UNCHANGED <<main, pool, swapRetry, job, tries>> PROVE TriesInv'
  BY DEF TriesInv, Counted

\* Time passing changes no count.
LEMMA TriesTime ==
    ASSUME TypeOK, TriesInv, UNCHANGED <<main, pool, tries>>,
           swapRetry' \in {swapRetry, ComeDue(swapRetry)},
           job'.at = job.at, job'.main = job.main, job'.pass = job.pass,
           job'.attempts = job.attempts,
           job'.swapRetry \in {job.swapRetry, ComeDue(job.swapRetry)}
    PROVE  TriesInv'
  <1>1. ASSUME NEW S \in SUBSET Episode, Counted(S) PROVE Counted(ComeDue(S))
    <2>1. \A f \in ComeDue(S) : \E e \in S : /\ f.pass = e.pass /\ f.mobile = e.mobile
                                            /\ f.pool = e.pool /\ f.attempts = e.attempts
      BY DEF ComeDue, Episode
    <2>2. PICK e \in S : TRUE
      BY <1>1 DEF Counted
    <2>3. [e EXCEPT !.due = TRUE] \in ComeDue(S)
      BY DEF ComeDue
    <2> QED BY <1>1, <2>1, <2>3 DEF Counted
  <1>2. swapRetry \in SUBSET Episode /\ job.swapRetry \in SUBSET Episode
    BY DEF TypeOK, JobState
  <1>3. /\ Counted(swapRetry) => Counted(ComeDue(swapRetry))
        /\ Counted(job.swapRetry) => Counted(ComeDue(job.swapRetry))
    BY <1>1, <1>2
  <1> QED BY <1>3 DEF TriesInv, Counted

\* The attempt is decided on a copy that accounts for the earlier ones.
LEMMA TriesAttempt ==
    ASSUME TypeOK, TriesInv, JobAttempts PROVE TriesInv'
  <1> USE DEF client, buffer, world, flows
  <1>1. /\ job.at = "read" /\ Due /\ UNCHANGED <<main, pool, swapRetry>>
        /\ job'.at = "attempt" /\ job'.main = job.main /\ job'.pass = Pass
        /\ job'.attempts = AttemptsSoFar
    BY DEF JobAttempts, NoJob
  <1>2. tries.n \in Nat /\ MaxAttempts \in Nat \ {0}
    BY LimitAssumption DEF TypeOK, Tries
  <1>3. AttemptsSoFar \in Nat
    <2>1. \A e \in job.swapRetry : e.attempts \in Nat
      BY LimitAssumption DEF TypeOK, JobState, Episode
    <2> QED BY <2>1 DEF AttemptsSoFar
  <1>4. CASE job.main # main
    <2>1. tries' = tries /\ tries.n = 0
      BY <1>1, <1>2, <1>4 DEF JobAttempts, TriesInv
    <2> QED BY <1>1, <1>2, <2>1 DEF TriesInv
  <1>5. CASE job.main = main /\ (tries.pass # Pass \/ tries.n = 0)
    <2>1. tries'.pass = Pass /\ tries'.n = 1
      BY <1>2, <1>5 DEF JobAttempts, TriesInv, TypeOK, Tries
    <2> QED BY <1>1, <1>2, <1>3, <1>5, <2>1 DEF TriesInv
  <1>6. CASE job.main = main /\ tries.pass = Pass /\ tries.n > 0
    <2>1. Counted(job.swapRetry)
      BY <1>1, <1>6 DEF TriesInv
    <2>2. \A e \in job.swapRetry : SameEpisode(e) /\ e.attempts >= tries.n /\ e.attempts \in Nat
      BY <1>6, <2>1, LimitAssumption DEF Counted, SameEpisode, TypeOK, JobState, Episode
    <2>3. \A e \in job.swapRetry : e.attempts < MaxAttempts
      BY <1>1, <1>2, <2>2 DEF Due, Spent
    <2>4. \E e \in job.swapRetry : SameEpisode(e)
      BY <2>1, <2>2 DEF Counted
    <2>5. PICK e \in job.swapRetry : AttemptsSoFar = e.attempts
      BY <2>4, ZenonT(60) DEF AttemptsSoFar
    <2>6. AttemptsSoFar >= tries.n /\ AttemptsSoFar < MaxAttempts
      BY <2>2, <2>3, <2>5
    <2>7. tries'.pass = Pass /\ tries'.n = tries.n + 1
      BY <1>2, <1>6, <2>6, <1>3 DEF JobAttempts, TriesInv
    <2> QED BY <1>1, <1>2, <1>3, <1>6, <2>6, <2>7 DEF TriesInv
  <1> QED BY <1>2, <1>4, <1>5, <1>6

\* The other steps of the job.
LEMMA TriesJob ==
    ASSUME TypeOK, TriesInv, JobReads \/ JobSkips \/ JobClearsMarker \/ JobNotes \/ JobCrashes
    PROVE  TriesInv'
  <1> USE DEF client, buffer, world, flows
  <1>0. tries.n \in Nat
    BY DEF TypeOK, Tries
  <1>1. CASE JobReads
    <2>1. /\ job.at = "idle" /\ UNCHANGED <<main, pool, swapRetry, tries>>
          /\ job'.at = "read" /\ job'.main = main /\ job'.swapRetry = swapRetry
      BY <1>1 DEF JobReads, NoJob
    <2> QED BY <2>1 DEF TriesInv, Counted
  <1>2. CASE JobSkips
    <2>1. /\ job.at = "read" /\ UNCHANGED <<main, pool, swapRetry, tries>>
          /\ job'.at = "idle"
      BY <1>2 DEF JobSkips, NoJob
    <2> QED BY <2>1 DEF TriesInv, Counted
  <1>3. CASE JobClearsMarker
    <2>1. tries' = NoTries \/ (job.at = "read" /\ UNCHANGED <<main, pool, swapRetry, tries>>
                                /\ job'.at = "idle")
      BY <1>3 DEF JobClearsMarker, NoJob
    <2> QED BY <2>1, TriesReset DEF TriesInv, Counted
  <1>4. CASE JobNotes
    <2>1. /\ job.at \in {"missed", "swapped"} /\ job'.at = "idle"
          /\ UNCHANGED <<main, pool, tries>>
      BY <1>4 DEF JobNotes, NoJob
    <2>2. CASE tries.n > 0
      <3>1. /\ job.at = "missed" /\ job.pass = tries.pass /\ job.main = main
            /\ job.attempts + 1 >= tries.n
        BY <2>1, <2>2 DEF TriesInv
      <3>2. swapRetry' = {[pass |-> job.pass, mobile |-> job.main,
                           attempts |-> job.attempts + 1, pool |-> pool, due |-> FALSE]}
        BY <1>4, <3>1 DEF JobNotes
      <3>3. Counted(swapRetry)'
        BY <2>1, <3>1, <3>2 DEF Counted
      <3> QED BY <2>1, <3>3 DEF TriesInv
    <2>3. CASE ~(tries.n > 0)
      BY <2>1, <2>3 DEF TriesInv
    <2> QED BY <2>2, <2>3
  <1>5. CASE JobCrashes
    <2>1. /\ job'.at = "idle"
          /\ tries' = NoTries \/ (job.at = "read" /\ UNCHANGED <<main, pool, swapRetry, tries>>)
      BY <1>5 DEF JobCrashes, NoJob
    <2> QED BY <2>1, TriesReset DEF TriesInv, Counted
  <1> QED BY <1>1, <1>2, <1>3, <1>4, <1>5

\* A run of the job is the attempt it waits for.
RunHeld == \A s \in setup : s.by = Job => job.at = "attempt"

LEMMA RunHeldStep == TypeOK /\ RunHeld /\ [Next]_vars => RunHeld'
  <1> SUFFICES ASSUME TypeOK, RunHeld, [Next]_vars PROVE RunHeld'
    OBVIOUS
  <1> USE DEF client, buffer, world, flows
  <1>1. CASE job'.at = job.at /\ setup' \subseteq setup
    BY <1>1 DEF RunHeld
  <1>2. ASSUME NEW r \in Reports, RequestSetup(r) PROVE RunHeld'
    BY <1>2, AccountAssumption DEF RequestSetup, RunHeld
  <1>3. CASE JobAttempts
    <2>1. job'.at = "attempt"
      BY <1>3 DEF JobAttempts, NoJob
    <2> QED BY <2>1 DEF RunHeld
  <1>4. CASE SetupEnds
    BY <1>4 DEF SetupEnds, SetupSwaps, SetupMisses, RunHeld
  <1>5. CASE JobReads \/ JobSkips \/ JobClearsMarker \/ JobNotes
    <2>1. job.at # "attempt" /\ UNCHANGED setup
      BY <1>5 DEF JobReads, JobSkips, JobClearsMarker, JobNotes
    <2> QED BY <2>1 DEF RunHeld
  <1>6. CASE JobCrashes
    BY <1>6 DEF JobCrashes, RunHeld
  <1>7. CASE EvidenceRipens \/ RetryComesDue \/ CopyAges
    <2>1. job'.at = job.at /\ UNCHANGED setup
      BY <1>7 DEF EvidenceRipens, RetryComesDue, CopyAges, TypeOK, JobState
    <2> QED BY <1>1, <2>1
  <1>8. CASE \/ SessionDies \/ ProcessRestarts \/ GraceEnds \/ CooldownEnds
            \/ PoolChanges \/ VerdictChanges \/ UpdateReads \/ UpdateWrites \/ UNCHANGED vars
    BY <1>1, <1>8 DEF SessionDies, ProcessRestarts, GraceEnds, CooldownEnds, PoolChanges,
       VerdictChanges, UpdateReads, UpdateWrites, vars
  <1>9. ASSUME NEW r \in Reports, ScreenReport(r) \/ ScreenFails(r) \/ RecordReport(r)
        PROVE  RunHeld'
    BY <1>1, <1>9 DEF ScreenReport, ScreenFails, RecordReport
  <1> QED
    BY <1>2, <1>3, <1>4, <1>5, <1>6, <1>7, <1>8, <1>9 DEF Next, ReportStep, JobStep

LEMMA TriesStep == TypeOK /\ RunHeld /\ TriesInv /\ [Next]_vars => TriesInv'
  <1> SUFFICES ASSUME TypeOK, RunHeld, TriesInv, [Next]_vars PROVE TriesInv'
    OBVIOUS
  <1> USE DEF client, buffer, world, flows
  <1>1. CASE \/ SessionDies \/ ProcessRestarts \/ GraceEnds \/ CooldownEnds
            \/ VerdictChanges \/ UpdateReads \/ UNCHANGED vars
    BY <1>1, TriesKept DEF SessionDies, ProcessRestarts, GraceEnds, CooldownEnds,
       VerdictChanges, UpdateReads, vars
  <1>2. ASSUME NEW r \in Reports, ScreenReport(r) \/ ScreenFails(r) \/ ReportStep(r)
        PROVE  TriesInv'
    BY <1>2, TriesKept DEF ScreenReport, ScreenFails, ReportStep, RecordReport, RequestSetup
  <1>3. CASE EvidenceRipens \/ RetryComesDue \/ CopyAges
    <2>1. /\ UNCHANGED <<main, pool, tries>>
          /\ swapRetry' \in {swapRetry, ComeDue(swapRetry)}
          /\ job'.at = job.at /\ job'.main = job.main /\ job'.pass = job.pass
          /\ job'.attempts = job.attempts
          /\ job'.swapRetry \in {job.swapRetry, ComeDue(job.swapRetry)}
      BY <1>3 DEF EvidenceRipens, RetryComesDue, CopyAges, TypeOK, JobState
    <2> QED BY <2>1, TriesTime
  <1>4. CASE PoolChanges \/ SetupSwaps
    BY <1>4, TriesReset DEF PoolChanges, SetupSwaps
  <1>5. CASE SetupMisses
    <2>1. PICK s \in setup : /\ Answered(s, "missed")
                             /\ tries' = IF s.by = Job \/ pool' = pool THEN tries ELSE NoTries
      BY <1>5 DEF SetupMisses
    <2>2. CASE s.by = Job
      <3>1. /\ UNCHANGED <<main, swapRetry, tries>>
            /\ job'.at = "missed" /\ job'.main = job.main /\ job'.pass = job.pass
            /\ job'.attempts = job.attempts
        BY <1>5, <2>1, <2>2 DEF SetupMisses, Answered, TypeOK, JobState
      <3>2. tries.n > 0 => job.at = "attempt"
        BY <2>2 DEF RunHeld
      <3> QED BY <3>1, <3>2 DEF TriesInv
    <2>3. CASE s.by # Job /\ pool' = pool
      BY <1>5, <2>1, <2>3, TriesKept DEF SetupMisses, Answered
    <2>4. CASE s.by # Job /\ pool' # pool
      BY <2>1, <2>4, TriesReset
    <2> QED BY <2>2, <2>3, <2>4
  <1>6. CASE UpdateWrites
    <2>1. tries' = NoTries \/ UNCHANGED <<main, pool, swapRetry, job, tries>>
      BY <1>6 DEF UpdateWrites
    <2> QED BY <2>1, TriesReset, TriesKept
  <1>7. CASE JobAttempts
    BY <1>7, TriesAttempt
  <1>8. CASE JobReads \/ JobSkips \/ JobClearsMarker \/ JobNotes \/ JobCrashes
    BY <1>8, TriesJob
  <1> QED
    BY <1>1, <1>2, <1>3, <1>4, <1>5, <1>6, <1>7, <1>8 DEF Next, SetupEnds, JobStep

\* PASS_MAX_ATTEMPTS bounds the attempts the job makes in one pass, on one main
\* and one pool, in every interleaving with requests, updates and crashes: the
\* safety half of AttemptsEnd.
THEOREM AttemptsStop == Spec => []AttemptsBounded
  <1>1. TriesInv => AttemptsBounded
    BY DEF TriesInv, AttemptsBounded
  <1>2. Init => RunHeld
    BY DEF Init, RunHeld
  <1>3. Spec => [](TypeOK /\ RunHeld /\ TriesInv)
    BY <1>2, TypeInit, TypeStep, RunHeldStep, TriesInit, TriesStep, PTL DEF Spec
  <1> QED BY <1>1, <1>3, PTL
=============================================================================
