----------------------------- MODULE JoinQueue -----------------------------
(* The join and leave queues of one account pool (base-client.service.ts):    *)
(* in-memory maps filled by the daily sweep and by refills, and drained by    *)
(* passes that timers start.  All of it is one process with one thread: an    *)
(* action is a stretch between two awaits, and sweeps, refills and passes     *)
(* interleave there.  The flags meant to keep them apart are modelled as what *)
(* they are, fields that several flows set and reset.                         *)
(*                                                                            *)
(* A queue holds how many channels are left for a mobile, not their names.    *)
EXTENDS Integers, FiniteSets

CONSTANTS
    Mobiles,        \* accounts of the pool
    NoMobile,
    Slots,          \* names for passes that run at once
    Refills,        \* names for refills that run at once
    Batch,          \* channels queued for a mobile in one go
    JoinCap,        \* maxChannelJoinsPerDay
    RoundJoins,     \* joinsPerMobilePerRound
    LeaveCap,       \* MAX_LEAVES_PER_DAY
    LeaveBatch,     \* leaveChannelBatchSize
    MaxFailures,    \* MAX_JOIN_FAILURES_PER_MOBILE
    MaxMapSize,     \* maxMapSize
    MaxTimers,      \* bound: join round timers pending at once
    MaxSweeps,      \* bound: sweeps started
    MaxRestarts,    \* bound: restarts of the process in one day
    MaxDays         \* bound: midnights

ASSUME LimitAssumption ==
    /\ Batch \in Nat /\ JoinCap \in Nat /\ RoundJoins \in Nat \ {0}
    /\ LeaveCap \in Nat /\ LeaveBatch \in Nat \ {0}
    /\ MaxFailures \in Nat /\ MaxMapSize \in Nat
    /\ MaxTimers \in Nat \ {0} /\ MaxSweeps \in Nat /\ MaxRestarts \in Nat /\ MaxDays \in Nat
ASSUME NoMobileAssumption == NoMobile \notin Mobiles

VARIABLES
    live,       \* mobiles whose pool row is active
    joins,      \* joinChannelMap
    leaves,     \* leaveChannelMap
    joinFlag,   \* isJoinChannelProcessing
    leaveFlag,  \* isLeaveChannelProcessing
    joinTimer,  \* round timers pending; does joinChannelIntervalId name one?
    leaveTimer, \* the same for leaveChannelIntervalId
    kicks,      \* start timers pending, of joinChannelQueue and leaveChannelQueue
    pass,       \* join passes (processJoinChannelSequentially)
    round,      \* leave passes (processLeaveChannelSequentially)
    refill,     \* refills that scheduleNextJoinRound awaits
    sweep,      \* the join sweep (runJoinSweep)
    joinCount,  \* dailyJoinCounts
    leaveCount, \* dailyLeaveCounts
    failures,   \* joinFailureCounts, saturated at their limit
    joined,     \* history: joins and join requests Telegram took today
    left,       \* history: chats it was asked to leave today
    doubled,    \* history: two join passes have run at once
    restarts,   \* of today
    sweeps, days
queues == <<joins, leaves>>
flags  == <<joinFlag, leaveFlag>>
timers == <<joinTimer, leaveTimer, kicks>>
tasks  == <<pass, round, refill, sweep>>
counts == <<joinCount, leaveCount, failures>>
today  == <<joined, left, doubled, restarts, sweeps, days>>
vars == <<live, queues, flags, timers, tasks, counts, today>>

Zero     == [m \in Mobiles |-> 0]
NoTimer  == [pending |-> 0, named |-> FALSE]
NoPass   == [at |-> "idle", keys |-> {}, on |-> NoMobile, limit |-> 0, rest |-> 0]
NoRound  == [at |-> "idle", keys |-> {}, on |-> NoMobile, took |-> 0]
NoScan   == [at |-> "idle", todo |-> {}, added |-> FALSE, leaving |-> FALSE]

Timers  == [pending : Nat, named : BOOLEAN]
Queue   == UNION {[S -> Nat] : S \in SUBSET Mobiles}
Visited == Mobiles \cup {NoMobile}
Scans   == [at : {"idle", "scope", "scan"}, todo : SUBSET Mobiles,
            added : BOOLEAN, leaving : BOOLEAN]

TypeOK ==
    /\ live \subseteq Mobiles
    /\ DOMAIN joins \subseteq Mobiles /\ \A m \in DOMAIN joins : joins[m] \in Nat
    /\ DOMAIN leaves \subseteq Mobiles
    /\ \A m \in DOMAIN leaves : leaves[m] \in Nat \ {0}
    /\ joinFlag \in BOOLEAN /\ leaveFlag \in BOOLEAN
    /\ joinTimer \in Timers /\ leaveTimer \in Timers
    /\ joinTimer.named => joinTimer.pending > 0
    /\ kicks \in [join : BOOLEAN, leave : BOOLEAN]
    /\ pass \in [Slots -> [at : {"idle", "pick", "join", "loop", "flooded"},
                           keys : SUBSET Mobiles, on : Visited,
                           limit : 0 .. RoundJoins, rest : Nat]]
    /\ round \in [Slots -> [at : {"idle", "pick", "out"}, keys : SUBSET Mobiles,
                            on : Visited, took : 0 .. LeaveBatch]]
    /\ refill \in [Refills -> Scans] /\ sweep \in Scans
    /\ joinCount \in [Mobiles -> Nat] /\ leaveCount \in [Mobiles -> Nat]
    /\ failures \in [Mobiles -> 0 .. MaxFailures]
    /\ joined \in [Mobiles -> Nat] /\ left \in [Mobiles -> Nat]
    /\ doubled \in BOOLEAN /\ restarts \in Nat
    /\ sweeps \in Nat /\ days \in Nat

Init ==
    /\ live = Mobiles
    /\ joins = [m \in {} |-> 0] /\ leaves = [m \in {} |-> 0]
    /\ joinFlag = FALSE /\ leaveFlag = FALSE
    /\ joinTimer = NoTimer /\ leaveTimer = NoTimer
    /\ kicks = [join |-> FALSE, leave |-> FALSE]
    /\ pass = [s \in Slots |-> NoPass] /\ round = [s \in Slots |-> NoRound]
    /\ refill = [s \in Refills |-> NoScan] /\ sweep = NoScan
    /\ joinCount = Zero /\ leaveCount = Zero /\ failures = Zero
    /\ joined = Zero /\ left = Zero /\ doubled = FALSE /\ restarts = 0
    /\ sweeps = 0 /\ days = 0

-----------------------------------------------------------------------------
(* Maps, counters and timers *)

Least(S) == CHOOSE n \in S : \A k \in S : n <= k

Queued(q, m) == IF m \in DOMAIN q THEN q[m] ELSE 0
Put(q, m, n) == [x \in DOMAIN q \cup {m} |-> IF x = m THEN n ELSE q[x]]
Drop(q, m)   == [x \in DOMAIN q \ {m} |-> q[x]]
Fits(q, m)   == m \in DOMAIN q \/ Cardinality(DOMAIN q) < MaxMapSize
SafeSet(q, m, n) == IF Fits(q, m) THEN Put(q, m, n) ELSE q

Capped(m)    == joinCount[m] >= JoinCap
Allowance(m) == IF leaveCount[m] < LeaveCap THEN LeaveCap - leaveCount[m] ELSE 0

Arm(t)   == [pending |-> t.pending + 1, named |-> TRUE]
Clear(t) == IF t.named THEN [pending |-> t.pending - 1, named |-> FALSE] ELSE t
(* A round timer that fires nulls the handle, whichever timer that names.     *)
Fire(t)  == [pending |-> t.pending - 1, named |-> FALSE]

(* removeFromLeaveMap: with the last entry goes the timer, not the flag.      *)
RemoveFromLeaveMap(m) ==
    /\ leaves' = Drop(leaves, m)
    /\ leaveTimer' = IF DOMAIN leaves \subseteq {m} THEN Clear(leaveTimer)
                     ELSE leaveTimer

(* clearJoinChannelInterval, with t the timers at that moment.                *)
StopJoins(t) == joinTimer' = Clear(t) /\ joinFlag' = FALSE

(* scheduleNextJoinRound for the queue q, up to its first await: a timer when *)
(* something is queued, else a refill, which gives up at once while a pass or *)
(* a client setup is running.                                                 *)
ScheduleJoins(q, t, joining, leaving) ==
    \/ /\ DOMAIN q # {} /\ t.pending < MaxTimers
       /\ joinTimer' = Arm(t) /\ joinFlag' = joining
       /\ UNCHANGED <<refill, failures>>
    \/ /\ DOMAIN q = {}
       /\ failures' = Zero
       /\ StopJoins(t)
       /\ UNCHANGED refill
    \/ /\ DOMAIN q = {} /\ ~joining /\ ~leaving
       /\ failures' = Zero
       /\ \E s \in Refills :
              /\ refill[s].at = "idle"
              /\ refill' = [refill EXCEPT ![s] =
                                [NoScan EXCEPT !.at = "scan", !.todo = live]]
       /\ joinTimer' = t /\ joinFlag' = joining

-----------------------------------------------------------------------------
(* Filling the queues *)

(* What a connected account turns out to need.  Nothing: it is capped, has    *)
(* channels enough, could not be read, or may not leave in its phase.         *)
NeedsNothing == UNCHANGED <<live, queues>>
NeedsJoins(m, n) ==
    /\ ~Capped(m)
    /\ joins' = SafeSet(joins, m, n)
    /\ UNCHANGED <<live, leaves>>
NeedsLeaves(m, n) ==
    /\ ~Capped(m) /\ m \notin DOMAIN leaves /\ Allowance(m) > 0
    /\ leaves' = SafeSet(leaves, m, n)
    /\ UNCHANGED <<live, joins>>
IsDead(m) ==
    /\ ~Capped(m)
    /\ live' = live \ {m}
    /\ UNCHANGED queues

(* One account of a refill.  The map is not asked again whether the mobile    *)
(* has been queued meanwhile.                                                 *)
RefillVisits(s, m) ==
    /\ refill[s].at = "scan" /\ m \in refill[s].todo
    /\ \/ /\ NeedsNothing \/ IsDead(m)
          /\ refill' = [refill EXCEPT ![s].todo = @ \ {m}]
       \/ \E n \in 1 .. Batch :
              /\ NeedsJoins(m, n)
              /\ refill' = [refill EXCEPT ![s].todo = @ \ {m},
                                          ![s].added = @ \/ Fits(joins, m)]
       \/ \E n \in 1 .. Batch :
              /\ NeedsLeaves(m, n)
              /\ refill' = [refill EXCEPT ![s].todo = @ \ {m},
                                          ![s].leaving = @ \/ Fits(leaves, m)]
    /\ UNCHANGED <<flags, timers, pass, round, sweep, counts, today>>

(* The rest of scheduleNextJoinRound: a timer when mobiles were added, else   *)
(* the interval is cleared (also when the refill's query throws).             *)
RefillEnds(s) ==
    /\ refill[s].at = "scan" /\ refill[s].todo = {}
    /\ refill' = [refill EXCEPT ![s] = NoScan]
    /\ kicks' = [kicks EXCEPT !.leave = @ \/ (refill[s].leaving /\ ~leaveTimer.named)]
    /\ \/ /\ refill[s].added /\ joinTimer.pending < MaxTimers
          /\ joinTimer' = Arm(joinTimer) /\ UNCHANGED joinFlag
       \/ /\ ~refill[s].added
          /\ StopJoins(joinTimer)
    /\ UNCHANGED <<live, queues, leaveFlag, leaveTimer, pass, round, sweep, counts, today>>

(* runJoinSweep up to the read of the primary mobiles.                        *)
SweepStarts ==
    /\ sweeps < MaxSweeps
    /\ sweep.at = "idle" /\ ~joinFlag /\ ~leaveFlag
    /\ sweep' = [NoScan EXCEPT !.at = "scope"]
    /\ sweeps' = sweeps + 1
    /\ UNCHANGED <<live, queues, flags, timers, pass, round, refill, counts,
                   joined, left, doubled, restarts, days>>

(* prepareJoinChannelRefresh(skipExisting = true, as every caller has it) and *)
(* the query of joinSweepAccounts.                                            *)
SweepRefreshes ==
    /\ sweep.at = "scope"
    /\ LET kept == {m \in DOMAIN joins : joins[m] > 0}
       IN  /\ joins' = [m \in kept |-> joins[m]]
           /\ sweep' = [sweep EXCEPT !.at = "scan", !.todo = live \ kept]
    /\ StopJoins(joinTimer)
    /\ UNCHANGED <<live, leaves, leaveFlag, leaveTimer, kicks, pass, round, refill,
                   counts, today>>

SweepVisits(m) ==
    /\ sweep.at = "scan" /\ m \in sweep.todo
    /\ \/ /\ NeedsNothing \/ IsDead(m)
          /\ sweep' = [sweep EXCEPT !.todo = @ \ {m}]
       \/ \E n \in 1 .. Batch :
              /\ m \notin DOMAIN joins
              /\ NeedsJoins(m, n)
              /\ sweep' = [sweep EXCEPT !.todo = @ \ {m}, !.added = @ \/ Fits(joins, m)]
       \/ \E n \in 1 .. Batch :
              /\ NeedsLeaves(m, n)
              /\ sweep' = [sweep EXCEPT !.todo = @ \ {m},
                                        !.leaving = @ \/ Fits(leaves, m)]
    /\ UNCHANGED <<flags, timers, pass, round, refill, counts, today>>

(* Mutant: the leave queue is not started after a sweep.                      *)
SweepEndsJoinsOnly ==
    /\ sweep.at = "scan" /\ sweep.todo = {}
    /\ sweep' = NoScan
    /\ kicks' = [kicks EXCEPT !.join = @ \/ sweep.added]
    /\ UNCHANGED <<live, queues, flags, joinTimer, leaveTimer, pass, round, refill,
                   counts, today>>

(* The queues are started only when this sweep added to them.                 *)
SweepEnds ==
    /\ sweep.at = "scan" /\ sweep.todo = {}
    /\ sweep' = NoScan
    /\ kicks' = [join |-> kicks.join \/ sweep.added, leave |-> kicks.leave \/ sweep.leaving]
    /\ UNCHANGED <<live, queues, flags, joinTimer, leaveTimer, pass, round, refill,
                   counts, today>>

-----------------------------------------------------------------------------
(* Draining the join queue *)

(* joinChannelQueue, some seconds after a sweep.                              *)
JoinKick ==
    /\ kicks.join
    /\ kicks' = [kicks EXCEPT !.join = FALSE]
    /\ joinTimer' = IF ~joinFlag /\ DOMAIN joins # {} /\ ~joinTimer.named
                    THEN Arm(joinTimer) ELSE joinTimer
    /\ UNCHANGED <<live, queues, flags, leaveTimer, tasks, counts, today>>

(* A round timer fires: processJoinChannelInterval.                           *)
JoinTimerFires ==
    /\ joinTimer.pending > 0
    /\ \/ /\ joinFlag
          /\ joinTimer' = Fire(joinTimer)
          /\ UNCHANGED <<joinFlag, pass, refill, failures, doubled>>
       \/ /\ ~joinFlag /\ DOMAIN joins = {}
          /\ ScheduleJoins(joins, Fire(joinTimer), FALSE, leaveFlag)
          /\ UNCHANGED <<pass, doubled>>
       \/ /\ ~joinFlag /\ DOMAIN joins # {}
          /\ joinTimer' = Fire(joinTimer)
          /\ joinFlag' = TRUE
          /\ doubled' = (doubled \/ \E o \in Slots : pass[o].at # "idle")
          /\ \E s \in Slots :
                 /\ pass[s].at = "idle"
                 /\ pass' = [pass EXCEPT ![s] =
                                 [NoPass EXCEPT !.at = "pick", !.keys = DOMAIN joins]]
          /\ UNCHANGED <<refill, failures>>
    /\ UNCHANGED <<live, queues, leaveFlag, leaveTimer, kicks, round, sweep,
                   joinCount, leaveCount, joined, left, restarts, sweeps, days>>

RoundLimit(m) == Least({RoundJoins, JoinCap - joinCount[m], joins[m]})

Shifted(r, m, limit, rest) ==
    [r EXCEPT !.at = "join", !.keys = @ \ {m}, !.on = m, !.limit = limit,
              !.rest = rest - 1]
LeftMobile(r) == [r EXCEPT !.at = "pick", !.on = NoMobile, !.limit = 0, !.rest = 0]

(* The next mobile of a pass, up to the await of its first join.              *)
JoinPick(s, m) ==
    /\ pass[s].at = "pick" /\ m \in pass[s].keys
    /\ \/ /\ Capped(m) \/ Queued(joins, m) = 0
          /\ joins' = Drop(joins, m)
          /\ pass' = [pass EXCEPT ![s].keys = @ \ {m}]
       \/ /\ ~Capped(m) /\ Queued(joins, m) > 0
          /\ joins' = Put(joins, m, joins[m] - 1)
          /\ pass' = [pass EXCEPT ![s] = Shifted(@, m, RoundLimit(m), joins[m])]
    /\ UNCHANGED <<live, leaves, flags, timers, round, refill, sweep, counts, today>>

(* Telegram took the join.                                                    *)
JoinTaken(s) ==
    /\ pass[s].at = "join"
    /\ LET m == pass[s].on
       IN  /\ joined' = [joined EXCEPT ![m] = @ + 1]
           /\ joinCount' = [joinCount EXCEPT ![m] = @ + 1]
    /\ pass' = [pass EXCEPT ![s].at = "loop", ![s].limit = @ - 1]
    /\ UNCHANGED <<live, queues, flags, timers, round, refill, sweep, leaveCount,
                   failures, left, doubled, restarts, sweeps, days>>

(* The candidate is no longer joinable; it does not count.                    *)
JoinSkipped(s) ==
    /\ pass[s].at = "join"
    /\ pass' = [pass EXCEPT ![s].at = "loop"]
    /\ UNCHANGED <<live, queues, flags, timers, round, refill, sweep, counts, today>>

(* The while loop after the pause: the next channel of the array the pass     *)
(* holds, which it puts back under the mobile; or the end of the mobile's     *)
(* round, where an empty or capped queue is removed.                          *)
JoinLoop(s) ==
    /\ pass[s].at = "loop"
    /\ LET m == pass[s].on
           more == pass[s].limit > 0 /\ pass[s].rest > 0
       IN  \/ /\ more
              /\ joins' = Put(joins, m, pass[s].rest - 1)
              /\ pass' = [pass EXCEPT ![s].at = "join", ![s].rest = @ - 1]
           \/ /\ ~more
              /\ joins' = IF pass[s].rest = 0 \/ Capped(m) THEN Drop(joins, m) ELSE joins
              /\ pass' = [pass EXCEPT ![s] = LeftMobile(@)]
    /\ UNCHANGED <<live, leaves, flags, timers, round, refill, sweep, counts, today>>

(* INVITE_REQUEST_SENT: not a failure, but it counts.                         *)
JoinRequested(s) ==
    /\ pass[s].at = "join"
    /\ LET m == pass[s].on
       IN  /\ joined' = [joined EXCEPT ![m] = @ + 1]
           /\ joinCount' = [joinCount EXCEPT ![m] = @ + 1]
    /\ pass' = [pass EXCEPT ![s] = LeftMobile(@)]
    /\ UNCHANGED <<live, queues, flags, timers, round, refill, sweep, leaveCount,
                   failures, left, doubled, restarts, sweeps, days>>

(* The other ways a join throws: a dead channel is dropped; a flood wait or a *)
(* banned account takes the mobile out; anything else puts the channel back   *)
(* and counts towards the quarantine.                                         *)
JoinThrows(s) ==
    /\ pass[s].at = "join"
    /\ LET m == pass[s].on
           back == IF m \in DOMAIN joins THEN Put(joins, m, joins[m] + 1) ELSE joins
       IN  \/ /\ pass' = [pass EXCEPT ![s] = LeftMobile(@)]
              /\ UNCHANGED <<live, joins, failures>>
           \/ /\ joins' = Drop(joins, m)
              /\ pass' = [pass EXCEPT ![s] = [LeftMobile(@) EXCEPT !.at = "flooded"]]
              /\ UNCHANGED <<live, failures>>
           \/ /\ joins' = Drop(joins, m)
              /\ live' = live \ {m}
              /\ pass' = [pass EXCEPT ![s] = LeftMobile(@)]
              /\ UNCHANGED failures
           \/ /\ failures' = [failures EXCEPT ![m] = Least({@ + 1, MaxFailures})]
              /\ joins' = IF failures[m] + 1 >= MaxFailures THEN Drop(joins, m) ELSE back
              /\ pass' = [pass EXCEPT ![s] = LeftMobile(@)]
              /\ UNCHANGED live
    /\ UNCHANGED <<leaves, flags, timers, round, refill, sweep, joinCount, leaveCount,
                   today>>

(* After a flood wait the channels are counted again.                         *)
JoinRecounted(s) ==
    /\ pass[s].at = "flooded"
    /\ pass' = [pass EXCEPT ![s].at = "pick"]
    /\ UNCHANGED <<live, queues, flags, timers, round, refill, sweep, counts, today>>

(* Mutant: a pass that throws keeps the flag.                                 *)
JoinPassEndsFlagged(s) ==
    /\ \/ pass[s].at = "pick" /\ pass[s].keys = {}
       \/ pass[s].at = "flooded"
    /\ pass' = [pass EXCEPT ![s] = NoPass]
    /\ IF pass[s].at = "flooded" THEN UNCHANGED <<joinFlag, joinTimer, refill, failures>>
       ELSE ScheduleJoins(joins, joinTimer, FALSE, leaveFlag)
    /\ UNCHANGED <<live, queues, leaveFlag, leaveTimer, kicks, round, sweep,
                   joinCount, leaveCount, today>>

(* The finally block: every key was visited, or the recount threw.            *)
JoinPassEnds(s) ==
    /\ \/ pass[s].at = "pick" /\ pass[s].keys = {}
       \/ pass[s].at = "flooded"
    /\ pass' = [pass EXCEPT ![s] = NoPass]
    /\ ScheduleJoins(joins, joinTimer, FALSE, leaveFlag)
    /\ UNCHANGED <<live, queues, leaveFlag, leaveTimer, kicks, round, sweep,
                   joinCount, leaveCount, today>>

-----------------------------------------------------------------------------
(* Draining the leave queue *)

(* leaveChannelQueue, some seconds after a sweep or a refill.                 *)
LeaveKick ==
    /\ kicks.leave
    /\ kicks' = [kicks EXCEPT !.leave = FALSE]
    /\ leaveTimer' = IF ~leaveFlag /\ DOMAIN leaves # {} /\ ~leaveTimer.named
                     THEN Arm(leaveTimer) ELSE leaveTimer
    /\ UNCHANGED <<live, queues, flags, joinTimer, tasks, counts, today>>

LeaveTimerFires ==
    /\ leaveTimer.pending > 0
    /\ leaveTimer' = Fire(leaveTimer)
    /\ \/ /\ leaveFlag \/ DOMAIN leaves = {}
          /\ UNCHANGED <<leaveFlag, round>>
       \/ /\ ~leaveFlag /\ DOMAIN leaves # {}
          /\ leaveFlag' = TRUE
          /\ \E s \in Slots :
                 /\ round[s].at = "idle"
                 /\ round' = [round EXCEPT ![s] =
                                  [NoRound EXCEPT !.at = "pick", !.keys = DOMAIN leaves]]
    /\ UNCHANGED <<live, queues, joinFlag, joinTimer, kicks, pass, refill, sweep,
                   counts, today>>

(* Mutant: a batch is taken whatever is left of the day's allowance.          *)
TakeWhole(m) == Least({LeaveBatch, leaves[m]})

Take(m) == Least({LeaveBatch, Allowance(m), leaves[m]})

(* The next mobile of a leave pass: its batch is taken off the queue before   *)
(* the account is connected.                                                  *)
LeavePick(s, m) ==
    /\ round[s].at = "pick" /\ m \in round[s].keys
    /\ \/ /\ m \notin DOMAIN leaves \/ Allowance(m) = 0
          /\ RemoveFromLeaveMap(m)
          /\ round' = [round EXCEPT ![s].keys = @ \ {m}]
       \/ /\ m \in DOMAIN leaves /\ Allowance(m) > 0
          /\ IF leaves[m] > Take(m) /\ Allowance(m) > Take(m)
             THEN leaves' = Put(leaves, m, leaves[m] - Take(m)) /\ UNCHANGED leaveTimer
             ELSE RemoveFromLeaveMap(m)
          /\ round' = [round EXCEPT ![s] = [at |-> "out", keys |-> @.keys \ {m},
                                            on |-> m, took |-> Take(m)]]
    /\ UNCHANGED <<live, joins, flags, joinTimer, kicks, pass, refill, sweep, counts,
                   today>>

BackToPick(r) == [r EXCEPT !.at = "pick", !.on = NoMobile, !.took = 0]

(* The chats were asked for, left or skipped; a failed attempt gives them     *)
(* back; a banned account leaves the pool.                                    *)
LeaveReturns(s) ==
    /\ round[s].at = "out"
    /\ LET m == round[s].on
           n == round[s].took
       IN  \/ /\ left' = [left EXCEPT ![m] = @ + n]
              /\ leaveCount' = [leaveCount EXCEPT ![m] = @ + n]
              /\ UNCHANGED <<live, leaves, leaveTimer>>
           \/ /\ leaves' = SafeSet(leaves, m, n + Queued(leaves, m))
              /\ UNCHANGED <<live, leaveTimer, left, leaveCount>>
           \/ /\ live' = live \ {m}
              /\ RemoveFromLeaveMap(m)
              /\ UNCHANGED <<left, leaveCount>>
    /\ round' = [round EXCEPT ![s] = BackToPick(@)]
    /\ UNCHANGED <<joins, flags, joinTimer, kicks, pass, refill, sweep, joinCount,
                   failures, joined, doubled, restarts, sweeps, days>>

(* The finally block of the pass: the next leave round, and the join queue    *)
(* when it looks idle.                                                        *)
LeavePassEnds(s) ==
    /\ round[s].at = "pick" /\ round[s].keys = {}
    /\ round' = [round EXCEPT ![s] = NoRound]
    /\ leaveFlag' = FALSE
    /\ leaveTimer' = IF DOMAIN leaves = {} THEN Clear(leaveTimer) ELSE Arm(leaveTimer)
    /\ IF joinTimer.named \/ joinFlag
       THEN UNCHANGED <<joinTimer, joinFlag, refill, failures>>
       ELSE ScheduleJoins(joins, joinTimer, FALSE, FALSE)
    /\ UNCHANGED <<live, queues, kicks, pass, sweep, joinCount, leaveCount, today>>

-----------------------------------------------------------------------------
(* Midnight: the counters start again (each at its next use).                 *)
NewDay ==
    /\ days < MaxDays
    /\ days' = days + 1
    /\ joinCount' = Zero /\ leaveCount' = Zero
    /\ joined' = Zero /\ left' = Zero /\ restarts' = 0
    /\ UNCHANGED <<live, queues, flags, timers, tasks, failures, doubled, sweeps>>

(* A restart forgets queues, timers and counters.                             *)
Restart ==
    /\ restarts < MaxRestarts
    /\ restarts' = restarts + 1
    /\ joins' = [m \in {} |-> 0] /\ leaves' = [m \in {} |-> 0]
    /\ joinFlag' = FALSE /\ leaveFlag' = FALSE
    /\ joinTimer' = NoTimer /\ leaveTimer' = NoTimer
    /\ kicks' = [join |-> FALSE, leave |-> FALSE]
    /\ pass' = [s \in Slots |-> NoPass] /\ round' = [s \in Slots |-> NoRound]
    /\ refill' = [s \in Refills |-> NoScan] /\ sweep' = NoScan
    /\ joinCount' = Zero /\ leaveCount' = Zero /\ failures' = Zero
    /\ UNCHANGED <<live, joined, left, doubled, sweeps, days>>

Filling ==
    \/ SweepRefreshes \/ SweepEnds
    \/ \E m \in Mobiles : SweepVisits(m)
    \/ \E s \in Refills, m \in Mobiles : RefillVisits(s, m)
    \/ \E s \in Refills : RefillEnds(s)
Joining ==
    \/ JoinKick \/ JoinTimerFires
    \/ \E s \in Slots, m \in Mobiles : JoinPick(s, m)
    \/ \E s \in Slots : \/ JoinTaken(s) \/ JoinSkipped(s) \/ JoinLoop(s) \/ JoinRequested(s)
                        \/ JoinThrows(s) \/ JoinRecounted(s) \/ JoinPassEnds(s)
Leaving ==
    \/ LeaveKick \/ LeaveTimerFires
    \/ \E s \in Slots, m \in Mobiles : LeavePick(s, m)
    \/ \E s \in Slots : LeaveReturns(s) \/ LeavePassEnds(s)
Next == Filling \/ Joining \/ Leaving \/ SweepStarts \/ NewDay \/ Restart

Spec == Init /\ [][Next]_vars

-----------------------------------------------------------------------------
(* At most one leave pass runs, its flag says so, and at most one timer will  *)
(* start the next: a chat is not left twice.  (removeFromLeaveMap must not    *)
(* reset the flag from inside the pass.)  A join pass may lose its flag to    *)
(* clearJoinChannelInterval, but the flag never stays behind without a pass,  *)
(* which would end joining for good.                                          *)
FlagsOwned ==
    /\ leaveFlag <=> \E s \in Slots : round[s].at # "idle"
    /\ \A s, o \in Slots : round[s].at # "idle" /\ round[o].at # "idle" => s = o
    /\ leaveTimer.pending <= 1 /\ (leaveFlag => leaveTimer.pending = 0)
    /\ joinFlag => \E s \in Slots : pass[s].at # "idle"

(* Whatever is queued to leave will be taken up: a pass or a timer is there,  *)
(* or a sweep or refill that will start one.                                  *)
LeaveNeverStalls ==
    DOMAIN leaves # {} =>
        \/ leaveFlag \/ leaveTimer.pending > 0 \/ kicks.leave
        \/ sweep.leaving \/ \E s \in Refills : refill[s].leaving

(* The daily limits that keep an account from looking like a machine hold for *)
(* what Telegram saw, in every life of the process, across midnight, flood    *)
(* waits and restored batches.  For joins, as long as no two passes ran at    *)
(* once.                                                                      *)
DailyCaps ==
    /\ \A m \in Mobiles : left[m] <= LeaveCap * (1 + restarts)
    /\ ~doubled => \A m \in Mobiles : joined[m] <= JoinCap * (1 + restarts)

(* What a mobile still owes: its queue q, and the batch that a pass of r has   *)
(* taken off it and not answered for.                                         *)
InHand(r, m) ==
    LET out == {s \in Slots : r[s].at = "out" /\ r[s].on = m}
    IN  IF out = {} THEN 0 ELSE r[CHOOSE s \in out : TRUE].took
Owed(q, r) == [m \in Mobiles |-> Queued(q, m) + InHand(r, m)]

Budget == INSTANCE LeaveBudget
              WITH owed <- Owed(leaves, round), gone <- left, lives <- restarts

(* However scans, timers, failed batches and full maps interleave, no account *)
(* leaves more chats than scans found for it: a batch taken, put back or cut  *)
(* is counted once, and the debt of an account does not grow with every scan  *)
(* (processLeaveChannelSequentially, removeFromLeaveMap).                     *)
ImplementsBudget == Budget!Spec

(* The join queue is not left with mobiles in it and nothing to take them up: *)
(* "silently stalling channel growth" is what the timer's callback is written *)
(* to avoid.  A second sweep breaks it (README, section 7).                   *)
JoinNeverStalls ==
    DOMAIN joins # {} =>
        \/ joinFlag \/ joinTimer.pending > 0 \/ kicks.join
        \/ sweep.at # "idle"
        \/ \E s \in Slots : pass[s].at # "idle"
        \/ \E s \in Refills : refill[s].at # "idle"
=============================================================================
