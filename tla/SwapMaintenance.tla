-------------------------- MODULE SwapMaintenance --------------------------
(* Who asks for a swap of a main account, and on what evidence: the dead      *)
(* reports of the tg-aut process that runs on the client's live session       *)
(* (/setupClient), the operator's update() of the client document, and the    *)
(* half-hourly maintenance job with its rescue, upgrade and refill passes and *)
(* their persisted retry episode.  One client; a swap itself (ClientSwap) is  *)
(* one run that holds the swap lease and commits or misses.                   *)
EXTENDS Naturals, FiniteSets

CONSTANTS
    Mobiles,        \* accounts
    InitMain,       \* clients.mobile at the start
    Reports,        \* slots for /setupClient requests in flight
    Job,            \* the maintenance job, as the requester of a swap
    MaxAttempts,    \* PASS_MAX_ATTEMPTS
    MaxDeaths, MaxReports,  \* bounds
    MaxChanges      \* bound on updates, changes of pool or verdict, and crashes

ASSUME AccountAssumption == InitMain \in Mobiles /\ Job \notin Reports
ASSUME LimitAssumption ==
    /\ MaxAttempts \in Nat \ {0}
    /\ MaxDeaths \in Nat /\ MaxReports \in Nat /\ MaxChanges \in Nat

(* A field that may be missing is a set of at most one record; a session is   *)
(* an account and its version: a re-login makes a new one.                    *)
VARIABLES
    main, session,  \* clients.mobile, clients.session
    deadMain,       \* clients.deadMain; `about` is the session the report meant
    degraded,       \* clients.degraded; `on` is the account it was stamped for
    swapRetry,      \* clients.swapRetry
    swapped, fixed, \* swappedAt, sessionChangedAt less than the grace ago
    pool,           \* accounts a scan may pick: what the fingerprint is about
    stored,         \* bufferClients.session
    limited,        \* by its stored SpamBot verdict the main is not tier 1
    dead,           \* sessions Telegram has killed
    proc,           \* the session the client's tg-aut process runs on
    cool,           \* setupCooldownMap of the HTTP process
    report, update, job, setup,   \* requests in flight
    slipped,        \* history: update() has written over what it had not read,
                    \* or the process is on a session the windows do not tell
    tries,          \* history: the job's attempts, up to one too many, since the
                    \* main, the pool or the episode last changed under it
    used            \* counters for the bounds

client == <<main, session, deadMain, degraded, swapRetry, swapped, fixed>>
buffer == <<pool, stored, limited>>
world  == <<dead, proc>>
flows  == <<cool, report, update, job, setup>>
vars   == <<client, buffer, world, flows, slipped, tries, used>>

Sessions == Mobiles \X (0 .. MaxChanges)
Passes   == {"rescue", "upgrade", "refill"}
Tiers    == {3, 4}      \* of 2, 3, 4: one an upgrade may stay degraded from, one not
\* `late`: the session has changed between the screening and the record.
Evidence == [mobile : Mobiles, about : Sessions, late : BOOLEAN, ripe : BOOLEAN]
Marker   == [tier : Tiers, on : Mobiles]
Episode  == [pass : Passes, mobile : Mobiles, attempts : 1 .. MaxAttempts,
             pool : SUBSET Mobiles, due : BOOLEAN]
Setup    == [by : Reports \cup {Job}, why : {"dead", "upgrade", "refill"},
             old : Mobiles, from : Tiers \cup {1}]
\* `seen` is the client's session when the report was screened.
Report   == [at : {"idle", "screened", "recorded", "setup"},
             mobile : Mobiles, about : Sessions, seen : SUBSET Sessions]
\* What the operator gives (`to`, `login`) and what the document was when read.
Update   == [n : 1 .. MaxChanges, to : SUBSET Mobiles, login : SUBSET Sessions,
             main : Mobiles, session : Sessions, marked : BOOLEAN, reported : BOOLEAN]
JobState == [at : {"idle", "read", "attempt", "missed", "swapped"},
             main : Mobiles, session : Sessions,
             deadMain : SUBSET Evidence, degraded : SUBSET Marker,
             swapRetry : SUBSET Episode, limited : BOOLEAN,
             pass : Passes, attempts : 0 .. (MaxAttempts - 1)]
Tries    == [pass : Passes, n : 0 .. (MaxAttempts + 1)]
Bounds   == [deaths |-> MaxDeaths, reports |-> MaxReports, changes |-> MaxChanges]

NoReport == [at |-> "idle", mobile |-> InitMain, about |-> <<InitMain, 0>>, seen |-> {}]
NoJob    == [at |-> "idle", main |-> InitMain, session |-> <<InitMain, 0>>,
             deadMain |-> {}, degraded |-> {}, swapRetry |-> {}, limited |-> FALSE,
             pass |-> "rescue", attempts |-> 0]
NoTries  == [pass |-> "rescue", n |-> 0]

TypeOK ==
    /\ main \in Mobiles /\ session \in Sessions
    /\ deadMain \in SUBSET Evidence
    /\ degraded \in SUBSET Marker
    /\ swapRetry \in SUBSET Episode
    /\ swapped \in BOOLEAN /\ fixed \in BOOLEAN /\ limited \in BOOLEAN /\ cool \in BOOLEAN
    /\ pool \in SUBSET Mobiles
    /\ stored \in [Mobiles -> Sessions]
    /\ dead \in SUBSET Sessions /\ proc \in Sessions
    /\ report \in [Reports -> Report]
    /\ update \in SUBSET Update
    /\ job \in JobState
    /\ setup \in SUBSET Setup
    /\ slipped \in BOOLEAN /\ tries \in Tries
    /\ used \in [deaths : 0 .. MaxDeaths, reports : 0 .. MaxReports,
                 changes : 0 .. MaxChanges]

Init ==
    /\ main = InitMain /\ session = <<InitMain, 0>>
    /\ deadMain = {} /\ degraded = {} /\ swapRetry = {}
    /\ swapped = FALSE /\ fixed = FALSE /\ limited = FALSE /\ cool = FALSE
    /\ pool \in SUBSET (Mobiles \ {InitMain})
    /\ stored = [m \in Mobiles |-> <<m, 0>>]
    /\ dead = {} /\ proc = session
    /\ report = [r \in Reports |-> NoReport]
    /\ update = {} /\ job = NoJob /\ setup = {}
    /\ slipped = FALSE /\ tries = NoTries
    /\ used = [deaths |-> 0, reports |-> 0, changes |-> 0]

Spend(bound) == /\ used[bound] < Bounds[bound]
                /\ used' = [used EXCEPT ![bound] = @ + 1]

-----------------------------------------------------------------------------
(* The world around the handlers. *)

\* Telegram kills the session in use.
SessionDies ==
    /\ proc \notin dead
    /\ dead' = dead \cup {proc}
    /\ Spend("deaths")
    /\ UNCHANGED <<client, buffer, proc, flows, slipped, tries>>

\* tg-aut restarts on the client document's session.
ProcessRestarts ==
    /\ proc # session
    /\ proc' = session
    /\ UNCHANGED <<client, buffer, dead, flows, slipped, tries, used>>

\* SWAP_REPORT_GRACE_MS has passed; update() stamps both times or swappedAt
\* alone, so an open sessionChangedAt window ends with the other.  Nothing here
\* waits for the process to restart.
GraceEnds ==
    /\ swapped \/ fixed
    /\ swapped' = FALSE /\ fixed' = FALSE
    /\ slipped' = (slipped \/ proc # session)
    /\ UNCHANGED <<main, session, deadMain, degraded, swapRetry, buffer, world, flows,
                   tries, used>>

Ripened(evidence) == {[e EXCEPT !.ripe = TRUE] : e \in evidence}
ComeDue(episodes) == {[e EXCEPT !.due = TRUE] : e \in episodes}

\* DEAD_MAIN_HANDOFF_WAIT_MS since the latest report; a copy of the job is of
\* that report or of an earlier one.
EvidenceRipens ==
    /\ \E e \in deadMain : ~e.ripe
    /\ deadMain' = Ripened(deadMain)
    /\ job' = [job EXCEPT !.deadMain = Ripened(@)]
    /\ UNCHANGED <<main, session, degraded, swapRetry, swapped, fixed, buffer, world,
                   cool, report, update, setup, slipped, tries, used>>

\* swapRetry.nextAt comes.
RetryComesDue ==
    /\ \E e \in swapRetry : ~e.due
    /\ swapRetry' = ComeDue(swapRetry)
    /\ job' = [job EXCEPT !.swapRetry = ComeDue(@)]
    /\ UNCHANGED <<main, session, deadMain, degraded, swapped, fixed, buffer, world,
                   cool, report, update, setup, slipped, tries, used>>

\* Time passes for what the job has read, the document having changed since.
CopyAges ==
    /\ job.at = "read"
    /\ \/ /\ job.deadMain # deadMain
          /\ \E e \in job.deadMain : ~e.ripe
          /\ job' = [job EXCEPT !.deadMain = Ripened(@)]
       \/ /\ job.swapRetry # swapRetry
          /\ \E e \in job.swapRetry : ~e.due
          /\ job' = [job EXCEPT !.swapRetry = ComeDue(@)]
    /\ UNCHANGED <<client, buffer, world, cool, report, update, setup, slipped, tries, used>>

\* CONFIG.COOLDOWN_PERIOD after a swap of this process.
CooldownEnds ==
    /\ cool
    /\ cool' = FALSE
    /\ UNCHANGED <<client, buffer, world, report, update, job, setup, slipped, tries, used>>

\* Enrolment, warm-up, a date passing, another client's swap.
PoolChanges ==
    /\ \E m \in Mobiles \ {main} :
          pool' = IF m \in pool THEN pool \ {m} ELSE pool \cup {m}
    /\ tries' = NoTries
    /\ Spend("changes")
    /\ UNCHANGED <<client, stored, limited, world, flows, slipped>>

\* tg-aut writes the main's SpamBot verdict.
VerdictChanges ==
    /\ limited' = ~limited
    /\ Spend("changes")
    /\ UNCHANGED <<client, pool, stored, world, flows, slipped, tries>>

-----------------------------------------------------------------------------
(* /setupClient: screenSetupReport, recordDeadMainReport, runSetup. *)

\* screenSetupReport: a report that names its mobile must name the main and not
\* fall into the window after a session change; one that names none must not
\* fall into the window after a cutover.  The others are answered stale_report
\* or cooldown and change nothing.
Current(s, named) == IF named THEN s[1] = main /\ ~fixed ELSE ~swapped

\* The process finds its session dead and asks for a swap: the first read.
ScreenReport(r) ==
    /\ report[r].at = "idle"
    /\ proc \in dead
    /\ \E named \in BOOLEAN : Current(proc, named)
    /\ report' = [report EXCEPT ![r] = [at |-> "screened", mobile |-> main,
                                       about |-> proc, seen |-> {session}]]
    /\ Spend("reports")
    /\ UNCHANGED <<client, buffer, world, cool, update, job, setup, slipped, tries>>

\* The screening read throws: any report goes on, unscreened and unrecorded.
ScreenFails(r) ==
    /\ report[r].at = "idle"
    /\ proc \in dead
    /\ report' = [report EXCEPT ![r] = [at |-> "recorded", mobile |-> main,
                                       about |-> proc, seen |-> {}]]
    /\ Spend("reports")
    /\ UNCHANGED <<client, buffer, world, cool, update, job, setup, slipped, tries>>

\* recordDeadMainReport: guarded on the screened mobile; an error is logged.
RecordReport(r) ==
    /\ report[r].at = "screened"
    /\ \/ /\ main = report[r].mobile
          /\ deadMain' = {[mobile |-> main, about |-> report[r].about,
                           late |-> (report[r].seen # {session}), ripe |-> FALSE]}
       \/ UNCHANGED deadMain
    /\ report' = [report EXCEPT ![r].at = "recorded"]
    /\ UNCHANGED <<main, session, degraded, swapRetry, swapped, fixed, buffer, world,
                   cool, update, job, setup, slipped, tries, used>>

\* runSetup: the process's cooldown, a run to join, or the lease of another
\* process end the request; otherwise the run starts on the main of this moment.
RequestSetup(r) ==
    /\ report[r].at = "recorded"
    /\ IF cool \/ setup # {}
       THEN /\ report' = [report EXCEPT ![r] = NoReport]
            /\ UNCHANGED setup
       ELSE /\ report' = [report EXCEPT ![r] = [NoReport EXCEPT !.at = "setup"]]
            /\ setup' = {[by |-> r, why |-> "dead", old |-> main, from |-> 1]}
    /\ UNCHANGED <<client, buffer, world, cool, update, job, slipped, tries, used>>

-----------------------------------------------------------------------------
(* A setup run. *)

\* The tiers a run may stamp: 1 leaves no marker; an upgrade only moves up.
MarkerTiers(s) ==
    {t \in Tiers \cup {1} : CASE s.why = "dead"    -> TRUE
                              [] s.why = "upgrade" -> t < s.from
                              [] s.why = "refill"  -> t = 1}

\* The caller gets its answer.
Answered(s, outcome) ==
    IF s.by = Job
    THEN job' = [job EXCEPT !.at = outcome] /\ UNCHANGED report
    ELSE report' = [report EXCEPT ![s.by] = NoReport] /\ UNCHANGED job

\* commitClientCutover, guarded on the main the run started on, and the return
\* of a living old main with its session to the pool.
SetupSwaps ==
    /\ \E s \in setup : \E m \in pool \ {main} : \E t \in MarkerTiers(s) :
          /\ main = s.old
          /\ main' = m
          /\ session' = stored[m]
          /\ degraded' = IF t = 1 THEN {} ELSE {[tier |-> t, on |-> m]}
          /\ limited' = (t # 1)
          /\ pool' = (pool \ {m}) \cup (IF s.why = "dead" THEN {} ELSE {main})
          /\ stored' = IF s.why = "dead" THEN stored
                       ELSE [stored EXCEPT ![main] = session]
          /\ cool' = (cool \/ s.by # Job)
          /\ slipped' = (slipped \/ m = proc[1])
          /\ Answered(s, "swapped")
    /\ deadMain' = {}
    /\ swapRetry' = {} /\ fixed' = FALSE /\ swapped' = TRUE
    /\ setup' = {} /\ tries' = NoTries
    /\ UNCHANGED <<world, update, used>>

\* no_candidate or failed, the changed main of a refused commit among the
\* reasons; a probed or failed candidate may leave the pool.
SetupMisses ==
    /\ pool' = pool \/ \E m \in pool : pool' = pool \ {m}
    /\ \E s \in setup :
          /\ Answered(s, "missed")
          /\ tries' = IF s.by = Job \/ pool' = pool THEN tries ELSE NoTries
    /\ setup' = {}
    /\ UNCHANGED <<client, stored, limited, world, cool, update, slipped, used>>

-----------------------------------------------------------------------------
(* update(): an operator gives the client a mobile, a session or both.  A new  *)
(* login of the account, or for another account perhaps its stored session.   *)

Call(m, named, renewed) ==
    [n |-> used.changes + 1, main |-> main, session |-> session,
     to |-> {a \in {m} : named},
     login |-> {s \in {<<m, used.changes + 1>>, stored[m]} :
                   renewed /\ (m = main <=> s # stored[m])},
     marked |-> (degraded # {}), reported |-> (deadMain # {})]

UpdateReads ==
    /\ \E m \in Mobiles, named, renewed \in BOOLEAN :
          /\ named \/ (m = main /\ renewed)
          /\ update' = update \cup {Call(m, named, renewed)}
    /\ Spend("changes")
    /\ UNCHANGED <<client, buffer, world, cool, report, job, setup, slipped, tries>>

\* mobileChanged, sessionChanged: against the document as it was read.
Moves(u)  == u.to \notin {{}, {u.main}}
Renews(u) == u.login \notin {{}, {u.session}}

\* Mutant: the marker survives a manual change of the account.
MarkerAfterUpdateKept(u) == degraded

MarkerAfterUpdate(u) == IF Moves(u) /\ u.marked THEN {} ELSE degraded

\* Mutant: only a new mobile drops the evidence, a re-login does not.
EvidenceAfterMove(u) == IF Moves(u) /\ u.reported THEN {} ELSE deadMain

EvidenceAfterUpdate(u) == IF (Moves(u) \/ Renews(u)) /\ u.reported THEN {} ELSE deadMain

\* History: the write goes over a document that is not the one read.
Stale(u) == \/ main # u.main \/ session # u.session
            \/ degraded # {} /\ ~u.marked
            \/ deadMain # {} /\ ~u.reported

Given(field, old) == IF field = {} THEN {old} ELSE field

\* The write is on the clientId alone, with what the earlier read decided.  It may
\* bring back the account that the running process has not left yet.
UpdateWrites ==
    /\ \E u \in update :
          /\ main' \in Given(u.to, main)
          /\ session' \in Given(u.login, session)
          /\ degraded' = MarkerAfterUpdate(u)
          /\ deadMain' = EvidenceAfterUpdate(u)
          /\ swapped' = (swapped \/ Renews(u))
          /\ fixed' = (~Moves(u) /\ (fixed \/ Renews(u)))
          /\ pool' = pool \ u.to
          /\ update' = update \ {u}
          /\ slipped' = (slipped \/ Stale(u) \/ (Moves(u) /\ proc[1] \in u.to))
    /\ limited' \in (IF main' = main THEN {limited} ELSE BOOLEAN)
    /\ tries' = IF main' = main /\ pool' = pool THEN tries ELSE NoTries
    /\ UNCHANGED <<swapRetry, stored, world, cool, report, job, setup, used>>

-----------------------------------------------------------------------------
(* runSwapMaintenance. *)

\* The clients and their states are read once, before the first attempt.
JobReads ==
    /\ job.at = "idle"
    /\ job' = [NoJob EXCEPT !.at = "read", !.main = main, !.session = session,
                            !.deadMain = deadMain, !.degraded = degraded,
                            !.swapRetry = swapRetry, !.limited = limited]
    /\ UNCHANGED <<client, buffer, world, cool, report, update, setup, slipped, tries, used>>

\* isDeadMainEvidence, on the copy.
Reported == {e \in job.deadMain : e.mobile = job.main}

\* The one pass a client is in: a reported main is never upgraded or refilled,
\* a degraded one never refilled.
Pass == IF Reported # {} THEN "rescue" ELSE IF job.degraded # {} THEN "upgrade" ELSE "refill"

\* rescueDeadMains waits for the handoff, upgradeDegradedClients clears the
\* marker of a good account instead, refillLimitedMains needs a spare.
Wanted ==
    CASE Pass = "rescue"  -> \A e \in Reported : e.ripe
      [] Pass = "upgrade" -> job.limited
      [] Pass = "refill"  -> job.limited /\ pool # {}

\* Mutant: an episode of another pass counts.
SameEpisodeAnyPass(e) == e.mobile = job.main /\ e.pool = pool

\* swapRetryDecision: another pass, main or pool starts from zero.
SameEpisode(e) == e.pass = Pass /\ e.mobile = job.main /\ e.pool = pool

\* Mutant: the stop comes one attempt late.
SpentLate(e) == e.attempts > MaxAttempts

Spent(e) == e.attempts >= MaxAttempts

Due == \A e \in job.swapRetry : SameEpisode(e) => ~Spent(e) /\ e.due

\* Mutant: every miss is the first.
AttemptsSoFarZero == 0

AttemptsSoFar ==
    IF \E e \in job.swapRetry : SameEpisode(e)
    THEN (CHOOSE e \in job.swapRetry : SameEpisode(e)).attempts ELSE 0

\* Mutant: an upgrade passes the marker's reason on, which is a dead one.
SetupReasonOfMarker == IF Pass = "refill" THEN Pass ELSE "dead"

SetupReason == IF Pass = "rescue" THEN "dead" ELSE Pass

\* runPassAttempt: the run starts on the main of this moment, not the copy's.
JobAttempts ==
    /\ job.at = "read"
    /\ Wanted /\ Due /\ setup = {}
    /\ setup' = {[by |-> Job, why |-> SetupReason, old |-> main,
                  from |-> IF Pass = "upgrade"
                           THEN (CHOOSE d \in job.degraded : TRUE).tier ELSE 1]}
    /\ job' = [NoJob EXCEPT !.at = "attempt", !.main = job.main, !.pass = Pass,
                            !.attempts = AttemptsSoFar]
    /\ tries' = IF job.main # main \/ (tries.pass = Pass /\ tries.n > MaxAttempts)
                THEN tries
                ELSE [pass |-> Pass, n |-> (IF tries.pass = Pass THEN tries.n ELSE 0) + 1]
    /\ UNCHANGED <<client, buffer, world, cool, report, update, slipped, used>>

\* Waiting, backing off, stopped, or another process holds the lease.
JobSkips ==
    /\ job.at = "read"
    /\ ~(Wanted /\ Due /\ setup = {})
    /\ job' = NoJob
    /\ UNCHANGED <<client, buffer, world, cool, report, update, setup, slipped, tries, used>>

\* currentMeetsTier1: the marker goes, guarded on the copy's mobile.
JobClearsMarker ==
    /\ job.at = "read"
    /\ Pass = "upgrade" /\ ~job.limited
    /\ IF main = job.main /\ degraded # {}
       THEN degraded' = {} /\ swapRetry' = {} /\ tries' = NoTries
       ELSE UNCHANGED <<degraded, swapRetry, tries>>
    /\ job' = NoJob
    /\ UNCHANGED <<main, session, deadMain, swapped, fixed, buffer, world, cool, report,
                   update, setup, slipped, used>>

\* notePassOutcome: the fingerprint is the pool's after the attempt, the write
\* is guarded on the copy's mobile, a swap ends the episode.
JobNotes ==
    /\ job.at \in {"missed", "swapped"}
    /\ swapRetry' =
          IF job.at = "swapped" THEN {}
          ELSE IF main = job.main
          THEN {[pass |-> job.pass, mobile |-> job.main, attempts |-> job.attempts + 1,
                 pool |-> pool, due |-> FALSE]}
          ELSE swapRetry
    /\ job' = NoJob
    /\ UNCHANGED <<main, session, deadMain, degraded, swapped, fixed, buffer, world, cool,
                   report, update, setup, slipped, tries, used>>

\* The job's process dies; its lease runs out before the next job.
JobCrashes ==
    /\ job.at # "idle"
    /\ job' = NoJob
    /\ setup' = {s \in setup : s.by # Job}
    /\ tries' = IF job.at = "read" THEN tries ELSE NoTries
    /\ Spend("changes")
    /\ UNCHANGED <<client, buffer, world, cool, report, update, slipped>>

-----------------------------------------------------------------------------
ReportStep(r) == RecordReport(r) \/ RequestSetup(r)
SetupEnds     == SetupSwaps \/ SetupMisses
JobStep       == JobReads \/ JobAttempts \/ JobSkips \/ JobClearsMarker \/ JobNotes

Next ==
    \/ SessionDies
    \/ \E r \in Reports : ScreenReport(r) \/ ScreenFails(r) \/ ReportStep(r)
    \/ SetupEnds
    \/ UpdateReads \/ UpdateWrites
    \/ JobStep \/ JobCrashes
    \/ ProcessRestarts \/ GraceEnds
    \/ EvidenceRipens \/ RetryComesDue \/ CopyAges \/ CooldownEnds
    \/ PoolChanges \/ VerdictChanges

Spec == Init /\ [][Next]_vars

\* Every request that runs goes on, and time passes.  Nothing is assumed of
\* Telegram, operators, restarts, new reports, crashes or the pool.
Fairness ==
    /\ \A r \in Reports : WF_vars(ReportStep(r))
    /\ WF_vars(SetupEnds)
    /\ WF_vars(UpdateWrites)
    /\ WF_vars(JobStep)
    /\ WF_vars(EvidenceRipens)
    /\ WF_vars(RetryComesDue)

FairSpec == Spec /\ Fairness

-----------------------------------------------------------------------------
(* Properties. *)

\* The session a request for a swap relies on has been replaced since it was
\* screened or read, or the client has slipped: the gaps the code leaves open.
Overtaken(s) ==
    \/ slipped
    \/ s.by # Job /\ report[s.by].seen # {session}
    \/ s.by = Job /\ (job.session # session \/ \E e \in Reported : e.late)

\* A run for a dead reason starts only while the client's session really is
\* dead, unless the request has been overtaken: no report of a replaced process
\* passes the windows, and no evidence survives the session it is about
\* (screenSetupReport, isDeadMainEvidence, the unsets of cutover and update()).
DeadSwapJustified ==
    [][\A s \in setup' \ setup :
          s.why = "dead" => session \in dead \/ Overtaken(s)]_vars

\* Evidence the rescue pass would act on is about the session the client is on,
\* unless the session changed between its screening and its record.
EvidenceIsCurrent ==
    ~slipped => \A e \in deadMain : e.mobile = main /\ ~e.late => e.about = session

\* The degraded marker describes the account the client is on, so the upgrade
\* pass never swaps an account out for the sake of another one's limit.
MarkerIsCurrent == ~slipped => \A d \in degraded : d.on = main

\* In one pass, on one main and one pool, the job really makes no more than
\* MaxAttempts attempts, though it counts on copies read before other attempts,
\* stores the count under a fingerprint taken after its own probes, and meets
\* other requests' runs (swapRetryDecision, notePassOutcome).
AttemptsBounded == tries.n <= MaxAttempts

\* Recorded evidence about the main is answered: the client moves on, or the
\* evidence is withdrawn, or the rescue episode of this main is at its hard stop.
EvidenceAnswered ==
    (\E e \in deadMain : e.mobile = main)
        ~> \/ ~\E e \in deadMain : e.mobile = main
           \/ \E e \in swapRetry : /\ e.pass = "rescue"
                                   /\ e.mobile = main
                                   /\ e.attempts = MaxAttempts

\* Once nothing changes around it, the job stops asking for swaps: backoff and
\* hard stop bound the attempts on one main and one pool.
AttemptsEnd == <>[](setup = {})

\* Of update(), client.service.ts:536: "a new mobile or a new session (a manual
\* re-login: the account was fixed) drops it".
ChangeDropsEvidence ==
    [][main' # main \/ session' # session => deadMain' = {}]_vars

\* Of the rescue pass, client.service.ts:2277: "clients.deadMain for the CURRENT
\* mobile with an owner dead reason".
RescueOnEvidence ==
    [][\A s \in setup' \ setup : s.by = Job /\ s.why = "dead" =>
          \E e \in deadMain : e.mobile = main]_vars
=============================================================================
