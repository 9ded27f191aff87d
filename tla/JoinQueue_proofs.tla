-------------------------- MODULE JoinQueue_proofs --------------------------
(* Proofs about JoinQueue, for any number of mobiles, passes and refills and  *)
(* any limits:                                                                *)
(*   TypeCorrect     every reachable state is well typed                      *)
(*   FlagsHeld       one leave pass at a time, and no flag without its pass   *)
(*   LeavesTakenUp   no queued leave is without a pass, a timer or a kick     *)
(*   CapsRespected   the daily limits hold for what Telegram saw              *)
(*   BudgetRefinement  chats are left as LeaveBudget promises                 *)
EXTENDS JoinQueue, TLAPS

-----------------------------------------------------------------------------
(* The inductive invariant. *)

\* A pass between two awaits is on a mobile and may still join; a batch that is
\* out is not empty; a scan that is over remembers nothing.
Shaped ==
    /\ \A s \in Slots : pass[s].at \in {"join", "loop"} => pass[s].on \in Mobiles
    /\ \A s \in Slots : pass[s].at = "join" => pass[s].limit > 0
    /\ \A s \in Slots : round[s].at = "out" => round[s].on \in Mobiles /\ round[s].took > 0
    /\ sweep.at = "idle" => ~sweep.leaving
    /\ \A s \in Refills : refill[s].at = "idle" => ~refill[s].leaving

\* The leave flag, the pass and the timer exclude each other, and the handle
\* names a timer exactly when one is pending.
OneLeaving ==
    /\ leaveFlag <=> \E s \in Slots : round[s].at # "idle"
    /\ \A s, o \in Slots : round[s].at # "idle" /\ round[o].at # "idle" => s = o
    /\ leaveTimer.pending <= 1
    /\ leaveTimer.named <=> leaveTimer.pending = 1
    /\ leaveFlag => leaveTimer.pending = 0

JoinFlagHeld == joinFlag => \E s \in Slots : pass[s].at # "idle"

\* What a process has counted bounds what Telegram saw of it; a batch that is
\* out is still within the day's allowance.
LeavesWithinCap ==
    /\ \A m \in Mobiles : leaveCount[m] <= LeaveCap
    /\ \A m \in Mobiles : left[m] <= LeaveCap * restarts + leaveCount[m]
    /\ \A s \in Slots :
           round[s].at = "out" => leaveCount[round[s].on] + round[s].took <= LeaveCap

JoinsWithinCap ==
    ~doubled =>
        /\ \A s, o \in Slots : pass[s].at # "idle" /\ pass[o].at # "idle" => s = o
        /\ \A m \in Mobiles : joinCount[m] <= JoinCap
        /\ \A m \in Mobiles : joined[m] <= JoinCap * restarts + joinCount[m]
        /\ \A s \in Slots : pass[s].at \in {"join", "loop"} =>
               joinCount[pass[s].on] + pass[s].limit <= JoinCap

Typed == TypeOK /\ Shaped
IInv  == Typed /\ OneLeaving /\ JoinFlagHeld /\ LeaveNeverStalls /\ LeavesWithinCap
         /\ JoinsWithinCap

-----------------------------------------------------------------------------
(* What the operators return. *)

LEMMA Numbers ==
    /\ Batch \in Nat /\ JoinCap \in Nat /\ RoundJoins \in Nat /\ RoundJoins > 0
    /\ LeaveCap \in Nat /\ LeaveBatch \in Nat /\ LeaveBatch > 0
    /\ MaxFailures \in Nat /\ MaxMapSize \in Nat /\ MaxTimers \in Nat
    /\ NoMobile \notin Mobiles
  BY LimitAssumption, NoMobileAssumption

LEMMA LeastOfTwo ==
    ASSUME NEW a \in Int, NEW b \in Int
    PROVE  /\ Least({a, b}) \in {a, b}
           /\ Least({a, b}) <= a /\ Least({a, b}) <= b
  <1>1. PICK n \in {a, b} : \A k \in {a, b} : n <= k
    <2>1. CASE a <= b
      BY <2>1
    <2>2. CASE ~(a <= b)
      BY <2>2
    <2> QED BY <2>1, <2>2
  <1> QED BY <1>1 DEF Least

LEMMA LeastOfThree ==
    ASSUME NEW a \in Int, NEW b \in Int, NEW c \in Int
    PROVE  /\ Least({a, b, c}) \in {a, b, c}
           /\ Least({a, b, c}) <= a /\ Least({a, b, c}) <= b /\ Least({a, b, c}) <= c
  <1>1. PICK n \in {a, b, c} : \A k \in {a, b, c} : n <= k
    <2>1. CASE a <= b /\ a <= c
      BY <2>1
    <2>2. CASE b <= a /\ b <= c
      BY <2>2
    <2>3. CASE c <= a /\ c <= b
      BY <2>3
    <2> QED BY <2>1, <2>2, <2>3
  <1> QED BY <1>1 DEF Least

LEMMA TimerOps ==
    ASSUME NEW t \in Timers
    PROVE  /\ Arm(t) \in Timers /\ Arm(t).named /\ Arm(t).pending = t.pending + 1
           /\ t.pending > 0 =>
                  /\ Fire(t) \in Timers /\ ~Fire(t).named
                  /\ Fire(t).pending = t.pending - 1
           /\ (t.named => t.pending > 0) => Clear(t) \in Timers /\ ~Clear(t).named
           /\ ~t.named => Clear(t) = t
  BY DEF Timers, Arm, Fire, Clear

\* A queue stays one when a positive count is put or an entry is dropped.
LEMMA QueueOps ==
    ASSUME NEW q, NEW V, DOMAIN q \subseteq Mobiles, \A x \in DOMAIN q : q[x] \in V,
           NEW m \in Mobiles
    PROVE  /\ DOMAIN Drop(q, m) \subseteq Mobiles
           /\ \A x \in DOMAIN Drop(q, m) : Drop(q, m)[x] \in V
           /\ \A n \in V :
                  /\ DOMAIN Put(q, m, n) \subseteq Mobiles
                  /\ \A x \in DOMAIN Put(q, m, n) : Put(q, m, n)[x] \in V
                  /\ DOMAIN SafeSet(q, m, n) \subseteq Mobiles
                  /\ \A x \in DOMAIN SafeSet(q, m, n) : SafeSet(q, m, n)[x] \in V
                  /\ ~Fits(q, m) => SafeSet(q, m, n) = q
  <1>1. /\ DOMAIN Drop(q, m) \subseteq Mobiles
        /\ \A x \in DOMAIN Drop(q, m) : Drop(q, m)[x] \in V
    BY DEF Drop
  <1>2. ASSUME NEW n \in V
        PROVE  /\ DOMAIN Put(q, m, n) \subseteq Mobiles
               /\ \A x \in DOMAIN Put(q, m, n) : Put(q, m, n)[x] \in V
    BY <1>2 DEF Put
  <1>3. ASSUME NEW n \in V
        PROVE  /\ DOMAIN SafeSet(q, m, n) \subseteq Mobiles
               /\ \A x \in DOMAIN SafeSet(q, m, n) : SafeSet(q, m, n)[x] \in V
               /\ ~Fits(q, m) => SafeSet(q, m, n) = q
    <2>1. CASE Fits(q, m)
      BY <2>1, <1>2, <1>3 DEF SafeSet
    <2>2. CASE ~Fits(q, m)
      BY <2>2 DEF SafeSet
    <2> QED BY <2>1, <2>2
  <1> QED BY <1>1, <1>2, <1>3

\* A round's limit: at least one join, within the round, the day and the queue.
LEMMA RoundLimits ==
    ASSUME NEW m \in Mobiles, TypeOK, m \in DOMAIN joins, joins[m] > 0, ~Capped(m)
    PROVE  /\ RoundLimit(m) \in 1 .. RoundJoins
           /\ joinCount[m] + RoundLimit(m) <= JoinCap
  <1> DEFINE D == JoinCap - joinCount[m]
             L == Least({RoundJoins, D, joins[m]})
  <1>1. /\ joins[m] \in Int /\ joinCount[m] \in Nat /\ D > 0 /\ D \in Int
        /\ RoundJoins \in Int /\ JoinCap \in Int
    BY Numbers DEF TypeOK, Capped
  <1>2. L = RoundLimit(m) /\ joinCount[m] + D = JoinCap
    BY <1>1 DEF RoundLimit
  <1> HIDE DEF D
  <1>3. L \in {RoundJoins, D, joins[m]} /\ L <= RoundJoins /\ L <= D
    BY <1>1, LeastOfThree
  <1> HIDE DEF L
  <1>4. L \in Int /\ L > 0
    BY <1>1, <1>3, Numbers
  <1> QED BY <1>1, <1>2, <1>3, <1>4, Numbers

\* A batch of leaves: at least one, within the batch, the allowance and the queue.
LEMMA TakeLimits ==
    ASSUME NEW m \in Mobiles, TypeOK, m \in DOMAIN leaves, Allowance(m) > 0
    PROVE  /\ Take(m) \in 1 .. LeaveBatch
           /\ leaveCount[m] + Take(m) <= LeaveCap
           /\ leaves[m] > Take(m) => leaves[m] - Take(m) \in Nat \ {0}
  <1>1. /\ leaves[m] \in Int /\ leaves[m] > 0 /\ leaveCount[m] \in Nat
        /\ Allowance(m) = LeaveCap - leaveCount[m] /\ Allowance(m) \in Int
        /\ LeaveBatch \in Int
    BY Numbers DEF TypeOK, Allowance
  <1> DEFINE L == Least({LeaveBatch, Allowance(m), leaves[m]})
  <1>2. /\ L \in {LeaveBatch, Allowance(m), leaves[m]}
        /\ L <= LeaveBatch /\ L <= Allowance(m)
    BY <1>1, LeastOfThree
  <1>3. L \in Int /\ L > 0
    BY <1>1, <1>2, Numbers
  <1>4. L = Take(m)
    BY DEF Take
  <1> HIDE DEF L
  <1> QED BY <1>1, <1>2, <1>3, <1>4, Numbers

\* scheduleNextJoinRound keeps the types, never raises the flag it was given,
\* and forgets no refill that has queued leaves.
LEMMA ScheduleFacts ==
    ASSUME Typed, NEW q, NEW t \in Timers, t.named => t.pending > 0,
           NEW joining \in BOOLEAN, NEW leaving, ScheduleJoins(q, t, joining, leaving)
    PROVE  /\ joinTimer' \in Timers /\ (joinTimer'.named => joinTimer'.pending > 0)
           /\ joinFlag' \in BOOLEAN /\ (~joining => ~joinFlag')
           /\ failures' \in [Mobiles -> 0 .. MaxFailures]
           /\ refill' \in [Refills -> Scans]
           /\ \A s \in Refills : /\ refill'[s].at = "idle" => ~refill'[s].leaving
                                 /\ refill[s].leaving => refill'[s].leaving
  <1>0. /\ Zero \in [Mobiles -> 0 .. MaxFailures] /\ failures \in [Mobiles -> 0 .. MaxFailures]
        /\ refill \in [Refills -> Scans] /\ live \subseteq Mobiles
        /\ \A s \in Refills : refill[s].at = "idle" => ~refill[s].leaving
    BY Numbers DEF Typed, TypeOK, Shaped, Zero
  <1>1. CASE /\ DOMAIN q # {} /\ t.pending < MaxTimers
             /\ joinTimer' = Arm(t) /\ joinFlag' = joining
             /\ UNCHANGED <<refill, failures>>
    BY <1>0, <1>1, TimerOps DEF Timers
  <1>2. CASE /\ DOMAIN q = {} /\ failures' = Zero /\ StopJoins(t) /\ UNCHANGED refill
    BY <1>0, <1>2, TimerOps DEF StopJoins
  <1>3. CASE /\ failures' = Zero /\ joinTimer' = t /\ joinFlag' = joining
             /\ \E s \in Refills :
                    /\ refill[s].at = "idle"
                    /\ refill' = [refill EXCEPT ![s] =
                                      [NoScan EXCEPT !.at = "scan", !.todo = live]]
    <2>1. PICK s \in Refills :
              /\ refill[s].at = "idle"
              /\ refill' = [refill EXCEPT ![s] = [NoScan EXCEPT !.at = "scan", !.todo = live]]
      BY <1>3
    <2>2. [NoScan EXCEPT !.at = "scan", !.todo = live] \in Scans
      BY <1>0 DEF NoScan, Scans
    <2>3. [NoScan EXCEPT !.at = "scan", !.todo = live].leaving = FALSE
      BY DEF NoScan
    <2> QED BY <1>0, <1>3, <2>1, <2>2, <2>3
  <1> QED BY <1>1, <1>2, <1>3, ScheduleJoins(q, t, joining, leaving) DEF ScheduleJoins

-----------------------------------------------------------------------------
(* Types: the filling of the queues. *)

Passes == [at : {"idle", "pick", "join", "loop", "flooded"}, keys : SUBSET Mobiles,
           on : Visited, limit : 0 .. RoundJoins, rest : Nat]
Rounds == [at : {"idle", "pick", "out"}, keys : SUBSET Mobiles, on : Visited,
           took : 0 .. LeaveBatch]

LEMMA Blanks ==
    /\ NoScan \in Scans /\ ~NoScan.leaving /\ NoScan.at = "idle"
    /\ NoTimer \in Timers /\ ~NoTimer.named
    /\ NoPass \in Passes /\ NoPass.at = "idle"
    /\ NoRound \in Rounds /\ NoRound.at = "idle"
    /\ \A K \in SUBSET Mobiles :
           /\ [NoPass EXCEPT !.at = "pick", !.keys = K] \in Passes
           /\ [NoPass EXCEPT !.at = "pick", !.keys = K].at = "pick"
           /\ [NoRound EXCEPT !.at = "pick", !.keys = K] \in Rounds
           /\ [NoRound EXCEPT !.at = "pick", !.keys = K].at = "pick"
           /\ [NoScan EXCEPT !.at = "scan", !.todo = K] \in Scans
  <1>1. /\ {} \in SUBSET Mobiles /\ NoMobile \in Visited /\ 0 \in 0 .. RoundJoins
        /\ 0 \in 0 .. LeaveBatch /\ 0 \in Nat
    BY Numbers DEF Visited
  <1>2. NoScan \in Scans /\ ~NoScan.leaving /\ NoScan.at = "idle"
    BY <1>1 DEF NoScan, Scans
  <1>3. NoTimer \in Timers /\ ~NoTimer.named
    BY DEF NoTimer, Timers
  <1>4. NoPass \in Passes /\ NoPass.at = "idle"
    BY <1>1 DEF NoPass, Passes
  <1>5. NoRound \in Rounds /\ NoRound.at = "idle"
    BY <1>1 DEF NoRound, Rounds
  <1>6. ASSUME NEW K \in SUBSET Mobiles
        PROVE  /\ [NoPass EXCEPT !.at = "pick", !.keys = K] \in Passes
               /\ [NoPass EXCEPT !.at = "pick", !.keys = K].at = "pick"
               /\ [NoRound EXCEPT !.at = "pick", !.keys = K] \in Rounds
               /\ [NoRound EXCEPT !.at = "pick", !.keys = K].at = "pick"
               /\ [NoScan EXCEPT !.at = "scan", !.todo = K] \in Scans
    <2>1. /\ [NoPass EXCEPT !.at = "pick", !.keys = K] \in Passes
          /\ [NoPass EXCEPT !.at = "pick", !.keys = K].at = "pick"
      BY <1>6, <1>4 DEF NoPass, Passes
    <2>2. /\ [NoRound EXCEPT !.at = "pick", !.keys = K] \in Rounds
          /\ [NoRound EXCEPT !.at = "pick", !.keys = K].at = "pick"
      BY <1>6, <1>5 DEF NoRound, Rounds
    <2>3. [NoScan EXCEPT !.at = "scan", !.todo = K] \in Scans
      BY <1>6, <1>2 DEF NoScan, Scans
    <2> QED BY <2>1, <2>2, <2>3
  <1> QED BY <1>2, <1>3, <1>4, <1>5, <1>6

LEMMA InitTyped == Init => Typed
  <1> SUFFICES ASSUME Init PROVE Typed
    OBVIOUS
  <1>1. Zero \in [Mobiles -> Nat] /\ Zero \in [Mobiles -> 0 .. MaxFailures]
    BY Numbers DEF Zero
  <1>2. /\ pass \in [Slots -> Passes] /\ round \in [Slots -> Rounds]
        /\ refill \in [Refills -> Scans] /\ sweep \in Scans
        /\ joinTimer \in Timers /\ ~joinTimer.named /\ leaveTimer \in Timers
        /\ \A s \in Slots : pass[s].at = "idle" /\ round[s].at = "idle"
        /\ ~sweep.leaving /\ \A s \in Refills : ~refill[s].leaving
    BY Blanks DEF Init
  <1>3. /\ DOMAIN joins = {} /\ DOMAIN leaves = {} /\ live \subseteq Mobiles
        /\ kicks \in [join : BOOLEAN, leave : BOOLEAN]
    BY DEF Init
  <1> QED BY <1>1, <1>2, <1>3 DEF Init, Typed, TypeOK, Shaped, Passes, Rounds

\* Starting and ending a scan, and the refresh between.
LEMMA SweepStartsTyped ==
    ASSUME Typed, SweepStarts PROVE Typed'
  <1>1. sweep' \in Scans /\ ~sweep'.leaving /\ sweeps' \in Nat
    <2>1. [NoScan EXCEPT !.at = "scope"] \in Scans /\ ~[NoScan EXCEPT !.at = "scope"].leaving
      BY Blanks DEF NoScan, Scans
    <2> QED BY <2>1 DEF Typed, TypeOK, SweepStarts
  <1> QED BY <1>1 DEF Typed, TypeOK, Shaped, SweepStarts, queues, flags, timers, counts

LEMMA SweepRefreshesTyped ==
    ASSUME Typed, SweepRefreshes PROVE Typed'
  <1>1. /\ DOMAIN joins' \subseteq Mobiles /\ \A m \in DOMAIN joins' : joins'[m] \in Nat
        /\ sweep' \in Scans /\ sweep'.at = "scan"
    BY DEF Typed, TypeOK, SweepRefreshes, Scans
  <1>2. /\ joinTimer' \in Timers /\ (joinTimer'.named => joinTimer'.pending > 0)
        /\ joinFlag' \in BOOLEAN
    BY TimerOps DEF Typed, TypeOK, SweepRefreshes, StopJoins
  <1> QED BY <1>1, <1>2 DEF Typed, TypeOK, Shaped, SweepRefreshes, counts, today

LEMMA SweepEndsTyped ==
    ASSUME Typed, SweepEnds PROVE Typed'
  <1>1. /\ sweep' \in Scans /\ ~sweep'.leaving
        /\ kicks' \in [join : BOOLEAN, leave : BOOLEAN]
    BY DEF Typed, TypeOK, SweepEnds, NoScan, Scans
  <1> QED BY <1>1 DEF Typed, TypeOK, Shaped, SweepEnds, queues, flags, counts, today

\* What an account needs leaves queues and pool well typed.
LEMMA NeedsTyped ==
    ASSUME Typed, NEW m \in Mobiles,
           \/ NeedsNothing
           \/ IsDead(m)
           \/ \E n \in 1 .. Batch : NeedsJoins(m, n) \/ NeedsLeaves(m, n)
    PROVE  /\ live' \subseteq Mobiles
           /\ DOMAIN joins' \subseteq Mobiles /\ \A x \in DOMAIN joins' : joins'[x] \in Nat
           /\ DOMAIN leaves' \subseteq Mobiles
           /\ \A x \in DOMAIN leaves' : leaves'[x] \in Nat \ {0}
  <1>0. /\ live \subseteq Mobiles
        /\ DOMAIN joins \subseteq Mobiles /\ \A x \in DOMAIN joins : joins[x] \in Nat
        /\ DOMAIN leaves \subseteq Mobiles /\ \A x \in DOMAIN leaves : leaves[x] \in Nat \ {0}
    BY DEF Typed, TypeOK
  <1>1. CASE NeedsNothing
    BY <1>0, <1>1 DEF NeedsNothing, queues
  <1>2. CASE IsDead(m)
    BY <1>0, <1>2 DEF IsDead, queues
  <1>3. ASSUME NEW n \in 1 .. Batch, NeedsJoins(m, n)
        PROVE  /\ live' = live /\ leaves' = leaves /\ DOMAIN joins' \subseteq Mobiles
               /\ \A x \in DOMAIN joins' : joins'[x] \in Nat
    <2>1. n \in Nat /\ joins' = SafeSet(joins, m, n)
      BY <1>3, Numbers DEF NeedsJoins
    <2> QED BY <2>1, <1>0, <1>3, QueueOps DEF NeedsJoins
  <1>4. ASSUME NEW n \in 1 .. Batch, NeedsLeaves(m, n)
        PROVE  /\ live' = live /\ joins' = joins /\ DOMAIN leaves' \subseteq Mobiles
               /\ \A x \in DOMAIN leaves' : leaves'[x] \in Nat \ {0}
    <2> DEFINE V == Nat \ {0}
    <2>1. n \in V /\ leaves' = SafeSet(leaves, m, n) /\ live' = live /\ joins' = joins
      BY <1>4, Numbers DEF NeedsLeaves
    <2>2. \A x \in DOMAIN leaves : leaves[x] \in V
      BY <1>0
    <2> HIDE DEF V
    <2>3. DOMAIN leaves' \subseteq Mobiles /\ \A x \in DOMAIN leaves' : leaves'[x] \in V
      BY <2>1, <2>2, <1>0, QueueOps
    <2> QED BY <2>1, <2>3 DEF V
  <1> QED BY <1>0, <1>1, <1>2, <1>3, <1>4

LEMMA SweepVisitsTyped ==
    ASSUME Typed, NEW m \in Mobiles, SweepVisits(m) PROVE Typed'
  <1>1. \/ NeedsNothing
        \/ IsDead(m)
        \/ \E n \in 1 .. Batch : NeedsJoins(m, n) \/ NeedsLeaves(m, n)
    BY DEF SweepVisits
  <1>2. sweep' \in Scans /\ sweep'.at = "scan"
    <2>1. sweep \in Scans /\ Fits(joins, m) \in BOOLEAN /\ Fits(leaves, m) \in BOOLEAN
      BY DEF Typed, TypeOK, Fits
    <2>2. \A a, l \in BOOLEAN :
              [sweep EXCEPT !.todo = @ \ {m}, !.added = a, !.leaving = l] \in Scans
      BY <2>1 DEF Scans
    <2> QED BY ZenonT(60), <2>1, <2>2 DEF SweepVisits, Scans
  <1> QED BY <1>1, <1>2, NeedsTyped
          DEF Typed, TypeOK, Shaped, SweepVisits, flags, timers, counts, today

LEMMA RefillVisitsTyped ==
    ASSUME Typed, NEW s \in Refills, NEW m \in Mobiles, RefillVisits(s, m) PROVE Typed'
  <1>1. \/ NeedsNothing
        \/ IsDead(m)
        \/ \E n \in 1 .. Batch : NeedsJoins(m, n) \/ NeedsLeaves(m, n)
    BY DEF RefillVisits
  <1>2. /\ refill' \in [Refills -> Scans] /\ refill'[s].at = "scan"
        /\ \A o \in Refills : o # s => refill'[o] = refill[o]
    <2>1. /\ refill \in [Refills -> Scans] /\ refill[s] \in Scans
          /\ Fits(joins, m) \in BOOLEAN /\ Fits(leaves, m) \in BOOLEAN
      BY DEF Typed, TypeOK, Fits
    <2>2. \E r \in Scans : r.at = "scan" /\ refill' = [refill EXCEPT ![s] = r]
      BY <2>1 DEF RefillVisits, Scans
    <2> QED BY <2>1, <2>2
  <1>3. \A o \in Refills : refill'[o].at = "idle" => ~refill'[o].leaving
    BY <1>2 DEF Typed, Shaped
  <1> QED BY <1>1, <1>2, <1>3, NeedsTyped
          DEF Typed, TypeOK, Shaped, RefillVisits, flags, timers, counts, today

LEMMA RefillEndsTyped ==
    ASSUME Typed, NEW s \in Refills, RefillEnds(s) PROVE Typed'
  <1>1. /\ refill' \in [Refills -> Scans]
        /\ \A o \in Refills : refill'[o].at = "idle" => ~refill'[o].leaving
    BY DEF Typed, TypeOK, Shaped, RefillEnds, NoScan, Scans
  <1>2. kicks' \in [join : BOOLEAN, leave : BOOLEAN]
    BY DEF Typed, TypeOK, RefillEnds
  <1>3. /\ joinTimer' \in Timers /\ (joinTimer'.named => joinTimer'.pending > 0)
        /\ joinFlag' \in BOOLEAN
    <2>1. joinTimer \in Timers /\ (joinTimer.named => joinTimer.pending > 0) /\ joinFlag \in BOOLEAN
      BY DEF Typed, TypeOK
    <2>2. CASE joinTimer' = Arm(joinTimer) /\ UNCHANGED joinFlag
      BY <2>1, <2>2, TimerOps DEF Timers
    <2>3. CASE StopJoins(joinTimer)
      BY <2>1, <2>3, TimerOps DEF StopJoins
    <2> QED BY <2>2, <2>3 DEF RefillEnds
  <1> QED BY <1>1, <1>2, <1>3
          DEF Typed, TypeOK, Shaped, RefillEnds, queues, counts, today

-----------------------------------------------------------------------------
(* Types: the passes. *)

LEMMA KicksTyped ==
    ASSUME Typed, JoinKick \/ LeaveKick PROVE Typed'
  <1>0. joinTimer \in Timers /\ leaveTimer \in Timers
    BY DEF Typed, TypeOK
  <1>1. CASE JoinKick
    <2>1. kicks' \in [join : BOOLEAN, leave : BOOLEAN]
      BY <1>1 DEF Typed, TypeOK, JoinKick
    <2>2. joinTimer' \in Timers /\ (joinTimer'.named => joinTimer'.pending > 0)
      <3>1. CASE joinTimer' = Arm(joinTimer)
        <4>1. joinTimer.pending \in Nat
          BY <1>0 DEF Timers
        <4> QED BY <1>0, <3>1, <4>1, TimerOps
      <3>2. CASE joinTimer' = joinTimer
        BY <1>0, <3>2 DEF Typed, TypeOK
      <3> QED BY <3>1, <3>2, <1>1 DEF JoinKick
    <2> QED BY <2>1, <2>2, <1>1
            DEF Typed, TypeOK, Shaped, JoinKick, queues, flags, tasks, counts, today
  <1>2. CASE LeaveKick
    <2>1. leaveTimer' \in Timers /\ kicks' \in [join : BOOLEAN, leave : BOOLEAN]
      BY <1>0, <1>2, TimerOps DEF Typed, TypeOK, LeaveKick
    <2> QED BY <2>1, <1>2
            DEF Typed, TypeOK, Shaped, LeaveKick, queues, flags, tasks, counts, today
  <1> QED BY <1>1, <1>2

\* A well-formed pass in the place of one keeps the passes well formed.
LEMMA PassSet ==
    ASSUME Typed, NEW s \in Slots, NEW r \in Passes, pass' = [pass EXCEPT ![s] = r],
           r.at \in {"join", "loop"} => r.on \in Mobiles, r.at = "join" => r.limit > 0
    PROVE  /\ pass' \in [Slots -> Passes]
           /\ \A o \in Slots : pass'[o].at \in {"join", "loop"} => pass'[o].on \in Mobiles
           /\ \A o \in Slots : pass'[o].at = "join" => pass'[o].limit > 0
  BY DEF Typed, TypeOK, Shaped, Passes

LEMMA JoinTimerFiresTyped ==
    ASSUME Typed, JoinTimerFires PROVE Typed'
  <1>0. /\ joinTimer \in Timers /\ joinFlag \in BOOLEAN /\ Fire(joinTimer) \in Timers
        /\ ~Fire(joinTimer).named
    BY TimerOps DEF Typed, TypeOK, JoinTimerFires
  <1>1. CASE joinFlag /\ joinTimer' = Fire(joinTimer)
             /\ UNCHANGED <<joinFlag, pass, refill, failures, doubled>>
    BY <1>0, <1>1 DEF Typed, TypeOK, Shaped, JoinTimerFires, queues
  <1>2. CASE /\ ScheduleJoins(joins, Fire(joinTimer), FALSE, leaveFlag)
             /\ UNCHANGED <<pass, doubled>>
    <2>1. /\ joinTimer' \in Timers /\ (joinTimer'.named => joinTimer'.pending > 0)
          /\ joinFlag' \in BOOLEAN /\ failures' \in [Mobiles -> 0 .. MaxFailures]
          /\ refill' \in [Refills -> Scans]
          /\ \A s \in Refills : refill'[s].at = "idle" => ~refill'[s].leaving
      BY <1>0, <1>2, ScheduleFacts
    <2> QED BY <2>1, <1>2 DEF Typed, TypeOK, Shaped, JoinTimerFires, queues
  <1>3. CASE /\ joinTimer' = Fire(joinTimer) /\ joinFlag' = TRUE
             /\ doubled' = (doubled \/ \E o \in Slots : pass[o].at # "idle")
             /\ \E s \in Slots :
                    /\ pass[s].at = "idle"
                    /\ pass' = [pass EXCEPT ![s] =
                                    [NoPass EXCEPT !.at = "pick", !.keys = DOMAIN joins]]
             /\ UNCHANGED <<refill, failures>>
    <2>1. PICK s \in Slots :
              pass' = [pass EXCEPT ![s] = [NoPass EXCEPT !.at = "pick", !.keys = DOMAIN joins]]
      BY <1>3
    <2> DEFINE r == [NoPass EXCEPT !.at = "pick", !.keys = DOMAIN joins]
    <2>2. r \in Passes /\ r.at = "pick"
      BY Blanks DEF Typed, TypeOK
    <2>3. /\ pass' \in [Slots -> Passes]
          /\ \A o \in Slots : pass'[o].at \in {"join", "loop"} => pass'[o].on \in Mobiles
          /\ \A o \in Slots : pass'[o].at = "join" => pass'[o].limit > 0
      <3> HIDE DEF r
      <3> QED BY <2>1, <2>2, PassSet DEF r
    <2>4. doubled' \in BOOLEAN
      BY <1>3 DEF Typed, TypeOK
    <2> QED BY <2>3, <2>4, <1>0, <1>3 DEF Typed, TypeOK, Shaped, JoinTimerFires, queues, Passes
  <1> QED BY <1>1, <1>2, <1>3 DEF JoinTimerFires

LEMMA JoinPickTyped ==
    ASSUME Typed, NEW s \in Slots, NEW m \in Mobiles, JoinPick(s, m) PROVE Typed'
  <1>0. /\ pass[s] \in Passes /\ pass[s].at = "pick"
        /\ DOMAIN joins \subseteq Mobiles /\ \A x \in DOMAIN joins : joins[x] \in Nat
    BY DEF Typed, TypeOK, JoinPick, Passes
  <1>1. CASE /\ joins' = Drop(joins, m)
             /\ pass' = [pass EXCEPT ![s].keys = @ \ {m}]
    <2> DEFINE r == [pass[s] EXCEPT !.keys = @ \ {m}]
    <2>1. r \in Passes /\ r.at = "pick"
      BY <1>0 DEF Passes
    <2>2. pass' = [pass EXCEPT ![s] = r]
      BY <1>1
    <2>3. DOMAIN joins' \subseteq Mobiles /\ \A x \in DOMAIN joins' : joins'[x] \in Nat
      BY <1>0, <1>1, QueueOps
    <2> HIDE DEF r
    <2>4. /\ pass' \in [Slots -> Passes]
          /\ \A o \in Slots : pass'[o].at \in {"join", "loop"} => pass'[o].on \in Mobiles
          /\ \A o \in Slots : pass'[o].at = "join" => pass'[o].limit > 0
      BY <2>1, <2>2, PassSet
    <2> QED BY <2>3, <2>4 DEF Typed, TypeOK, Shaped, JoinPick, Passes, flags, timers, counts, today
  <1>2. CASE /\ ~Capped(m) /\ Queued(joins, m) > 0
             /\ joins' = Put(joins, m, joins[m] - 1)
             /\ pass' = [pass EXCEPT ![s] = Shifted(@, m, RoundLimit(m), joins[m])]
    <2> DEFINE r == Shifted(pass[s], m, RoundLimit(m), joins[m])
    <2>1. m \in DOMAIN joins /\ joins[m] \in Nat /\ joins[m] > 0 /\ joins[m] - 1 \in Nat
      BY <1>0, <1>2 DEF Queued
    <2>2. RoundLimit(m) \in 1 .. RoundJoins
      BY <2>1, <1>2, RoundLimits DEF Typed
    <2>4. pass' = [pass EXCEPT ![s] = r]
      BY <1>2
    <2>5. RoundLimit(m) \in 0 .. RoundJoins /\ RoundLimit(m) > 0
      BY <2>2, Numbers
    <2>6. r \in Passes /\ r.at = "join" /\ r.on = m /\ r.limit > 0
      BY <2>1, <2>5, <1>0 DEF Shifted, Passes, Visited
    <2>7. DOMAIN joins' \subseteq Mobiles /\ \A x \in DOMAIN joins' : joins'[x] \in Nat
      BY <1>0, <1>2, <2>1, QueueOps
    <2> HIDE DEF r
    <2>8. /\ pass' \in [Slots -> Passes]
          /\ \A o \in Slots : pass'[o].at \in {"join", "loop"} => pass'[o].on \in Mobiles
          /\ \A o \in Slots : pass'[o].at = "join" => pass'[o].limit > 0
      BY <2>4, <2>6, PassSet
    <2> QED BY <2>7, <2>8 DEF Typed, TypeOK, Shaped, JoinPick, Passes, flags, timers, counts, today
  <1> QED BY <1>1, <1>2 DEF JoinPick

\* What follows a join attempt, in terms of the pass's next state.
LEMMA AfterJoin ==
    ASSUME Typed, NEW s \in Slots, pass[s].at = "join"
    PROVE  /\ pass[s] \in Passes /\ pass[s].on \in Mobiles
           /\ [pass[s] EXCEPT !.at = "loop", !.limit = @ - 1] \in Passes
           /\ [pass[s] EXCEPT !.at = "loop"] \in Passes
           /\ LeftMobile(pass[s]) \in Passes /\ LeftMobile(pass[s]).at = "pick"
           /\ [LeftMobile(pass[s]) EXCEPT !.at = "flooded"] \in Passes
           /\ [LeftMobile(pass[s]) EXCEPT !.at = "flooded"].at = "flooded"
  <1>1. /\ pass[s] \in Passes /\ pass[s].on \in Mobiles /\ pass[s].limit > 0
    BY DEF Typed, TypeOK, Shaped, Passes
  <1>2. pass[s].limit - 1 \in 0 .. RoundJoins /\ 0 \in 0 .. RoundJoins /\ 0 \in Nat
    BY <1>1, Numbers DEF Passes
  <1>3. NoMobile \in Visited
    BY DEF Visited
  <1>4. /\ [pass[s] EXCEPT !.at = "loop", !.limit = @ - 1] \in Passes
        /\ [pass[s] EXCEPT !.at = "loop"] \in Passes
    BY <1>1, <1>2 DEF Passes
  <1>5. LeftMobile(pass[s]) \in Passes /\ LeftMobile(pass[s]).at = "pick"
    BY <1>1, <1>2, <1>3 DEF Passes, LeftMobile
  <1>6. /\ [LeftMobile(pass[s]) EXCEPT !.at = "flooded"] \in Passes
        /\ [LeftMobile(pass[s]) EXCEPT !.at = "flooded"].at = "flooded"
    BY <1>5 DEF Passes
  <1> QED BY <1>1, <1>4, <1>5, <1>6

LEMMA JoinTakenTyped ==
    ASSUME Typed, NEW s \in Slots, JoinTaken(s) \/ JoinRequested(s) PROVE Typed'
  <1> DEFINE p == [pass[s] EXCEPT !.at = "loop", !.limit = @ - 1]
             q == LeftMobile(pass[s])
  <1>1. pass[s].at = "join"
    BY DEF JoinTaken, JoinRequested
  <1>2. /\ p \in Passes /\ p.at = "loop" /\ p.on \in Mobiles
        /\ q \in Passes /\ q.at = "pick" /\ pass[s].on \in Mobiles
    BY <1>1, AfterJoin DEF Passes
  <1>3. pass' = [pass EXCEPT ![s] = p] \/ pass' = [pass EXCEPT ![s] = q]
    BY DEF JoinTaken, JoinRequested
  <1> HIDE DEF p, q
  <1>4. /\ pass' \in [Slots -> Passes]
        /\ \A o \in Slots : pass'[o].at \in {"join", "loop"} => pass'[o].on \in Mobiles
        /\ \A o \in Slots : pass'[o].at = "join" => pass'[o].limit > 0
    BY <1>2, <1>3, PassSet
  <1>5. joined' \in [Mobiles -> Nat] /\ joinCount' \in [Mobiles -> Nat]
    <2>1. /\ joined \in [Mobiles -> Nat] /\ joinCount \in [Mobiles -> Nat]
          /\ joined[pass[s].on] + 1 \in Nat /\ joinCount[pass[s].on] + 1 \in Nat
      BY <1>2 DEF Typed, TypeOK
    <2>2. /\ joined' = [joined EXCEPT ![pass[s].on] = @ + 1]
          /\ joinCount' = [joinCount EXCEPT ![pass[s].on] = @ + 1]
      BY DEF JoinTaken, JoinRequested
    <2> QED BY <2>1, <2>2
  <1> QED BY <1>4, <1>5
          DEF Typed, TypeOK, Shaped, JoinTaken, JoinRequested, Passes, queues, flags, timers

LEMMA JoinSkippedTyped ==
    ASSUME Typed, NEW s \in Slots, JoinSkipped(s) PROVE Typed'
  <1> DEFINE p == [pass[s] EXCEPT !.at = "loop"]
  <1>1. p \in Passes /\ p.at = "loop" /\ p.on \in Mobiles /\ pass' = [pass EXCEPT ![s] = p]
    BY AfterJoin DEF JoinSkipped, Passes
  <1> HIDE DEF p
  <1>2. /\ pass' \in [Slots -> Passes]
        /\ \A o \in Slots : pass'[o].at \in {"join", "loop"} => pass'[o].on \in Mobiles
        /\ \A o \in Slots : pass'[o].at = "join" => pass'[o].limit > 0
    BY <1>1, PassSet
  <1> QED BY <1>2
          DEF Typed, TypeOK, Shaped, JoinSkipped, Passes, queues, flags, timers, counts, today

LEMMA JoinLoopTyped ==
    ASSUME Typed, NEW s \in Slots, JoinLoop(s) PROVE Typed'
  <1>0. /\ pass[s] \in Passes /\ pass[s].at = "loop" /\ pass[s].on \in Mobiles
        /\ DOMAIN joins \subseteq Mobiles /\ \A x \in DOMAIN joins : joins[x] \in Nat
    BY DEF Typed, TypeOK, Shaped, JoinLoop, Passes
  <1>1. CASE /\ pass[s].limit > 0 /\ pass[s].rest > 0
             /\ joins' = Put(joins, pass[s].on, pass[s].rest - 1)
             /\ pass' = [pass EXCEPT ![s].at = "join", ![s].rest = @ - 1]
    <2> DEFINE p == [pass[s] EXCEPT !.at = "join", !.rest = @ - 1]
    <2>1. pass[s].rest - 1 \in Nat /\ pass' = [pass EXCEPT ![s] = p]
      <3>1. pass[s].rest - 1 \in Nat
        BY <1>0, <1>1 DEF Passes
      <3>2. pass \in [Slots -> Passes]
        BY DEF Typed, TypeOK, Passes
      <3>3. pass'[s] = p
        BY <3>2, <1>1 DEF Passes
      <3>4. pass' = [pass EXCEPT ![s] = pass'[s]]
        BY <3>2, <1>1
      <3> QED BY <3>1, <3>3, <3>4
    <2>2. p \in Passes /\ p.at = "join" /\ p.on \in Mobiles /\ p.limit > 0
      BY <1>0, <1>1, <2>1 DEF Passes
    <2>3. DOMAIN joins' \subseteq Mobiles /\ \A x \in DOMAIN joins' : joins'[x] \in Nat
      BY <1>0, <1>1, <2>1, QueueOps
    <2> HIDE DEF p
    <2>4. /\ pass' \in [Slots -> Passes]
          /\ \A o \in Slots : pass'[o].at \in {"join", "loop"} => pass'[o].on \in Mobiles
          /\ \A o \in Slots : pass'[o].at = "join" => pass'[o].limit > 0
      BY <2>1, <2>2, PassSet
    <2> QED BY <2>3, <2>4 DEF Typed, TypeOK, Shaped, JoinLoop, Passes, flags, timers, counts, today
  <1>2. CASE /\ \/ joins' = Drop(joins, pass[s].on)
                \/ joins' = joins
             /\ pass' = [pass EXCEPT ![s] = LeftMobile(@)]
    <2> DEFINE p == LeftMobile(pass[s])
    <2>1. p \in Passes /\ p.at = "pick"
      <3>1. NoMobile \in Visited /\ 0 \in 0 .. RoundJoins /\ 0 \in Nat
        BY Numbers DEF Visited
      <3> QED BY <1>0, <3>1 DEF LeftMobile, Passes
    <2>2. pass' = [pass EXCEPT ![s] = p]
      BY <1>2
    <2>3. DOMAIN joins' \subseteq Mobiles /\ \A x \in DOMAIN joins' : joins'[x] \in Nat
      BY <1>0, <1>2, QueueOps
    <2> HIDE DEF p
    <2>4. /\ pass' \in [Slots -> Passes]
          /\ \A o \in Slots : pass'[o].at \in {"join", "loop"} => pass'[o].on \in Mobiles
          /\ \A o \in Slots : pass'[o].at = "join" => pass'[o].limit > 0
      BY <2>1, <2>2, PassSet
    <2> QED BY <2>3, <2>4 DEF Typed, TypeOK, Shaped, JoinLoop, Passes, flags, timers, counts, today
  <1> QED BY <1>1, <1>2 DEF JoinLoop

LEMMA JoinThrowsTyped ==
    ASSUME Typed, NEW s \in Slots, JoinThrows(s) PROVE Typed'
  <1> DEFINE m == pass[s].on
             p == LeftMobile(pass[s])
             q == [LeftMobile(pass[s]) EXCEPT !.at = "flooded"]
  <1>0. /\ m \in Mobiles /\ p \in Passes /\ p.at = "pick" /\ q \in Passes /\ q.at = "flooded"
    BY AfterJoin DEF JoinThrows
  <1>1. pass' = [pass EXCEPT ![s] = p] \/ pass' = [pass EXCEPT ![s] = q]
    BY DEF JoinThrows
  <1>2. live' \subseteq Mobiles
    BY DEF Typed, TypeOK, JoinThrows
  <1>3. failures' \in [Mobiles -> 0 .. MaxFailures]
    <2>1. failures \in [Mobiles -> 0 .. MaxFailures]
      BY DEF Typed, TypeOK
    <2> DEFINE f == failures[m]
               l == Least({f + 1, MaxFailures})
    <2>2. f \in 0 .. MaxFailures
      BY <2>1, <1>0
    <2> HIDE DEF f, m
    <2>3. l \in {f + 1, MaxFailures} /\ l <= MaxFailures
      BY <2>2, LeastOfTwo, Numbers
    <2> HIDE DEF l
    <2>4. l \in 0 .. MaxFailures
      BY <2>2, <2>3, Numbers
    <2>5. failures' = failures \/ failures' = [failures EXCEPT ![m] = l]
      BY DEF JoinThrows, l, f, m
    <2> QED BY <2>1, <2>4, <2>5
  <1>4. DOMAIN joins' \subseteq Mobiles /\ \A x \in DOMAIN joins' : joins'[x] \in Nat
    <2>1. DOMAIN joins \subseteq Mobiles /\ \A x \in DOMAIN joins : joins[x] \in Nat
      BY DEF Typed, TypeOK
    <2> HIDE DEF m
    <2>2. \/ joins' = joins
          \/ joins' = Drop(joins, m)
          \/ m \in DOMAIN joins /\ joins' = Put(joins, m, joins[m] + 1)
      BY DEF JoinThrows, m
    <2>3. CASE m \in DOMAIN joins /\ joins' = Put(joins, m, joins[m] + 1)
      <3>1. joins[m] + 1 \in Nat
        BY <2>1, <2>3
      <3> QED BY <2>1, <2>3, <3>1, <1>0, QueueOps
    <2> QED BY <2>1, <2>2, <2>3, <1>0, QueueOps
  <1> HIDE DEF p, q
  <1>5. /\ pass' \in [Slots -> Passes]
        /\ \A o \in Slots : pass'[o].at \in {"join", "loop"} => pass'[o].on \in Mobiles
        /\ \A o \in Slots : pass'[o].at = "join" => pass'[o].limit > 0
    BY <1>0, <1>1, PassSet
  <1> QED BY <1>2, <1>3, <1>4, <1>5
          DEF Typed, TypeOK, Shaped, JoinThrows, Passes, flags, timers, today

LEMMA JoinRecountedTyped ==
    ASSUME Typed, NEW s \in Slots, JoinRecounted(s) PROVE Typed'
  <1> DEFINE p == [pass[s] EXCEPT !.at = "pick"]
  <1>1. p \in Passes /\ p.at = "pick" /\ pass' = [pass EXCEPT ![s] = p]
    <2>1. pass[s] \in Passes
      BY DEF Typed, TypeOK, Passes
    <2> QED BY <2>1 DEF JoinRecounted, Passes
  <1> HIDE DEF p
  <1>2. /\ pass' \in [Slots -> Passes]
        /\ \A o \in Slots : pass'[o].at \in {"join", "loop"} => pass'[o].on \in Mobiles
        /\ \A o \in Slots : pass'[o].at = "join" => pass'[o].limit > 0
    BY <1>1, PassSet
  <1> QED BY <1>2
          DEF Typed, TypeOK, Shaped, JoinRecounted, Passes, queues, flags, timers, counts, today

LEMMA JoinPassEndsTyped ==
    ASSUME Typed, NEW s \in Slots, JoinPassEnds(s) PROVE Typed'
  <1>1. /\ pass' \in [Slots -> Passes]
        /\ \A o \in Slots : pass'[o].at \in {"join", "loop"} => pass'[o].on \in Mobiles
        /\ \A o \in Slots : pass'[o].at = "join" => pass'[o].limit > 0
    BY Blanks, PassSet DEF JoinPassEnds
  <1>2. /\ joinTimer' \in Timers /\ (joinTimer'.named => joinTimer'.pending > 0)
        /\ joinFlag' \in BOOLEAN /\ failures' \in [Mobiles -> 0 .. MaxFailures]
        /\ refill' \in [Refills -> Scans]
        /\ \A o \in Refills : refill'[o].at = "idle" => ~refill'[o].leaving
    <2>1. /\ ScheduleJoins(joins, joinTimer, FALSE, leaveFlag)
          /\ joinTimer \in Timers /\ (joinTimer.named => joinTimer.pending > 0)
      BY DEF Typed, TypeOK, JoinPassEnds
    <2> QED BY <2>1, ScheduleFacts
  <1> QED BY <1>1, <1>2 DEF Typed, TypeOK, Shaped, JoinPassEnds, Passes, queues, today

\* A well-formed round in the place of one keeps the rounds well formed.
LEMMA RoundSet ==
    ASSUME Typed, NEW s \in Slots, NEW r \in Rounds, round' = [round EXCEPT ![s] = r],
           r.at = "out" => r.on \in Mobiles /\ r.took > 0
    PROVE  /\ round' \in [Slots -> Rounds]
           /\ \A o \in Slots :
                  round'[o].at = "out" => round'[o].on \in Mobiles /\ round'[o].took > 0
  BY DEF Typed, TypeOK, Shaped, Rounds

\* removeFromLeaveMap keeps queue and timer well typed.
LEMMA RemovalTyped ==
    ASSUME Typed, OneLeaving, NEW m \in Mobiles, RemoveFromLeaveMap(m)
    PROVE  /\ DOMAIN leaves' \subseteq Mobiles
           /\ \A x \in DOMAIN leaves' : leaves'[x] \in Nat \ {0}
           /\ leaveTimer' \in Timers
  <1>1. /\ DOMAIN leaves \subseteq Mobiles /\ \A x \in DOMAIN leaves : leaves[x] \in Nat \ {0}
        /\ leaveTimer \in Timers /\ (leaveTimer.named => leaveTimer.pending > 0)
    BY DEF Typed, TypeOK, OneLeaving
  <1>2. DOMAIN leaves' \subseteq Mobiles /\ \A x \in DOMAIN leaves' : leaves'[x] \in Nat \ {0}
    BY <1>1 DEF RemoveFromLeaveMap, Drop
  <1>3. leaveTimer' \in Timers
    BY <1>1, TimerOps DEF RemoveFromLeaveMap
  <1> QED BY <1>2, <1>3

LEMMA LeaveTimerFiresTyped ==
    ASSUME Typed, LeaveTimerFires PROVE Typed'
  <1>1. leaveTimer' \in Timers
    BY TimerOps DEF Typed, TypeOK, LeaveTimerFires
  <1>2. /\ round' \in [Slots -> Rounds] /\ leaveFlag' \in BOOLEAN
        /\ \A o \in Slots :
               round'[o].at = "out" => round'[o].on \in Mobiles /\ round'[o].took > 0
    <2>1. CASE UNCHANGED <<leaveFlag, round>>
      BY <2>1 DEF Typed, TypeOK, Shaped, Rounds
    <2>2. CASE /\ leaveFlag' = TRUE
               /\ \E s \in Slots :
                      round' = [round EXCEPT ![s] =
                                    [NoRound EXCEPT !.at = "pick", !.keys = DOMAIN leaves]]
      <3>1. PICK s \in Slots :
                round' = [round EXCEPT ![s] =
                              [NoRound EXCEPT !.at = "pick", !.keys = DOMAIN leaves]]
        BY <2>2
      <3> DEFINE r == [NoRound EXCEPT !.at = "pick", !.keys = DOMAIN leaves]
      <3>2. r \in Rounds /\ r.at = "pick"
        BY Blanks DEF Typed, TypeOK
      <3> HIDE DEF r
      <3>3. round' = [round EXCEPT ![s] = r]
        BY <3>1 DEF r
      <3> QED BY <2>2, <3>2, <3>3, RoundSet
    <2> QED BY <2>1, <2>2 DEF LeaveTimerFires
  <1> QED BY <1>1, <1>2
          DEF Typed, TypeOK, Shaped, LeaveTimerFires, Rounds, queues, counts, today

LEMMA LeavePickTyped ==
    ASSUME Typed, OneLeaving, NEW s \in Slots, NEW m \in Mobiles, LeavePick(s, m)
    PROVE  Typed'
  <1>0. /\ round[s] \in Rounds /\ round[s].at = "pick" /\ leaveTimer \in Timers
        /\ DOMAIN leaves \subseteq Mobiles /\ \A x \in DOMAIN leaves : leaves[x] \in Nat \ {0}
    BY DEF Typed, TypeOK, LeavePick, Rounds
  <1>1. CASE /\ RemoveFromLeaveMap(m)
             /\ round' = [round EXCEPT ![s].keys = @ \ {m}]
    <2> DEFINE r == [round[s] EXCEPT !.keys = @ \ {m}]
    <2>1. r \in Rounds /\ r.at = "pick" /\ round' = [round EXCEPT ![s] = r]
      BY <1>0, <1>1 DEF Rounds
    <2> HIDE DEF r
    <2>2. /\ round' \in [Slots -> Rounds]
          /\ \A o \in Slots :
                 round'[o].at = "out" => round'[o].on \in Mobiles /\ round'[o].took > 0
      BY <2>1, RoundSet
    <2> QED BY <2>2, <1>1, RemovalTyped
            DEF Typed, TypeOK, Shaped, LeavePick, Rounds, flags, counts, today
  <1>2. CASE /\ m \in DOMAIN leaves /\ Allowance(m) > 0
             /\ IF leaves[m] > Take(m) /\ Allowance(m) > Take(m)
                THEN leaves' = Put(leaves, m, leaves[m] - Take(m)) /\ UNCHANGED leaveTimer
                ELSE RemoveFromLeaveMap(m)
             /\ round' = [round EXCEPT ![s] = [at |-> "out", keys |-> @.keys \ {m},
                                               on |-> m, took |-> Take(m)]]
    <2> DEFINE r == [at |-> "out", keys |-> round[s].keys \ {m}, on |-> m, took |-> Take(m)]
    <2>1. /\ Take(m) \in 1 .. LeaveBatch
          /\ leaves[m] > Take(m) => leaves[m] - Take(m) \in Nat \ {0}
      BY <1>2, TakeLimits DEF Typed
    <2>2. Take(m) \in 0 .. LeaveBatch /\ Take(m) > 0
      BY <2>1, Numbers
    <2>3. r \in Rounds /\ r.at = "out" /\ r.on \in Mobiles /\ r.took > 0
      BY <1>0, <2>2 DEF Rounds, Visited
    <2>4. round' = [round EXCEPT ![s] = r]
      BY <1>2
    <2> HIDE DEF r
    <2>5. /\ round' \in [Slots -> Rounds]
          /\ \A o \in Slots :
                 round'[o].at = "out" => round'[o].on \in Mobiles /\ round'[o].took > 0
      BY <2>3, <2>4, RoundSet
    <2>6. /\ DOMAIN leaves' \subseteq Mobiles
          /\ \A x \in DOMAIN leaves' : leaves'[x] \in Nat \ {0}
          /\ leaveTimer' \in Timers
      <3>1. CASE leaves[m] > Take(m) /\ Allowance(m) > Take(m)
        BY <1>0, <1>2, <2>1, <3>1 DEF Put
      <3>2. CASE ~(leaves[m] > Take(m) /\ Allowance(m) > Take(m))
        BY <1>2, <3>2, RemovalTyped
      <3> QED BY <3>1, <3>2
    <2> QED BY <2>5, <2>6
            DEF Typed, TypeOK, Shaped, LeavePick, Rounds, flags, counts, today
  <1> QED BY <1>1, <1>2 DEF LeavePick

LEMMA LeaveReturnsTyped ==
    ASSUME Typed, OneLeaving, NEW s \in Slots, LeaveReturns(s) PROVE Typed'
  <1> DEFINE m == round[s].on
             n == round[s].took
             r == BackToPick(round[s])
  <1>0. /\ round[s] \in Rounds /\ m \in Mobiles /\ n \in Nat \ {0}
        /\ DOMAIN leaves \subseteq Mobiles /\ \A x \in DOMAIN leaves : leaves[x] \in Nat \ {0}
    BY Numbers DEF Typed, TypeOK, Shaped, LeaveReturns, Rounds
  <1>1. r \in Rounds /\ r.at = "pick" /\ round' = [round EXCEPT ![s] = r]
    <2>1. NoMobile \in Visited /\ 0 \in 0 .. LeaveBatch
      BY Numbers DEF Visited
    <2>2. r \in Rounds /\ r.at = "pick"
      BY <2>1, <1>0 DEF BackToPick, Rounds
    <2> QED BY <2>2 DEF LeaveReturns
  <1> HIDE DEF r
  <1>2. /\ round' \in [Slots -> Rounds]
        /\ \A o \in Slots :
               round'[o].at = "out" => round'[o].on \in Mobiles /\ round'[o].took > 0
    BY <1>1, RoundSet
  <1>3. left' \in [Mobiles -> Nat] /\ leaveCount' \in [Mobiles -> Nat]
    <2>1. /\ left \in [Mobiles -> Nat] /\ leaveCount \in [Mobiles -> Nat]
          /\ left[m] + n \in Nat /\ leaveCount[m] + n \in Nat
      BY <1>0 DEF Typed, TypeOK
    <2>2. \/ UNCHANGED <<left, leaveCount>>
          \/ left' = [left EXCEPT ![m] = @ + n] /\ leaveCount' = [leaveCount EXCEPT ![m] = @ + n]
      BY DEF LeaveReturns
    <2> QED BY <2>1, <2>2
  <1>4. /\ DOMAIN leaves' \subseteq Mobiles
        /\ \A x \in DOMAIN leaves' : leaves'[x] \in Nat \ {0}
        /\ leaveTimer' \in Timers
    <2>1. CASE UNCHANGED <<leaves, leaveTimer>>
      BY <1>0, <2>1 DEF Typed, TypeOK
    <2>2. CASE leaves' = SafeSet(leaves, m, n + Queued(leaves, m)) /\ UNCHANGED leaveTimer
      <3>1. n + Queued(leaves, m) \in Nat \ {0}
        BY <1>0 DEF Queued
      <3> QED BY <1>0, <2>2, <3>1 DEF SafeSet, Put, Typed, TypeOK
    <2>3. CASE RemoveFromLeaveMap(m)
      BY <1>0, <2>3, RemovalTyped
    <2> QED BY <2>1, <2>2, <2>3 DEF LeaveReturns
  <1>5. live' \subseteq Mobiles
    BY DEF Typed, TypeOK, LeaveReturns
  <1> QED BY <1>2, <1>3, <1>4, <1>5
          DEF Typed, TypeOK, Shaped, LeaveReturns, Rounds, flags

LEMMA LeavePassEndsTyped ==
    ASSUME Typed, OneLeaving, NEW s \in Slots, LeavePassEnds(s) PROVE Typed'
  <1>1. /\ round' \in [Slots -> Rounds] /\ leaveFlag' \in BOOLEAN
        /\ \A o \in Slots :
               round'[o].at = "out" => round'[o].on \in Mobiles /\ round'[o].took > 0
    BY Blanks, RoundSet DEF LeavePassEnds
  <1>2. leaveTimer' \in Timers
    <2>1. leaveTimer \in Timers /\ (leaveTimer.named => leaveTimer.pending > 0)
      BY DEF Typed, TypeOK, OneLeaving
    <2> QED BY <2>1, TimerOps DEF LeavePassEnds
  <1>3. /\ joinTimer' \in Timers /\ (joinTimer'.named => joinTimer'.pending > 0)
        /\ joinFlag' \in BOOLEAN /\ failures' \in [Mobiles -> 0 .. MaxFailures]
        /\ refill' \in [Refills -> Scans]
        /\ \A o \in Refills : refill'[o].at = "idle" => ~refill'[o].leaving
    <2>1. CASE joinTimer.named \/ joinFlag
      BY <2>1 DEF Typed, TypeOK, Shaped, LeavePassEnds
    <2>2. CASE ~(joinTimer.named \/ joinFlag)
      <3>1. ScheduleJoins(joins, joinTimer, FALSE, FALSE) /\ joinTimer \in Timers
        BY <2>2 DEF Typed, TypeOK, LeavePassEnds
      <3> QED BY <2>2, <3>1, ScheduleFacts
    <2> QED BY <2>1, <2>2
  <1> QED BY <1>1, <1>2, <1>3
          DEF Typed, TypeOK, Shaped, LeavePassEnds, Rounds, queues, today

LEMMA DayTyped ==
    ASSUME Typed, NewDay \/ Restart PROVE Typed'
  <1>1. Zero \in [Mobiles -> Nat] /\ Zero \in [Mobiles -> 0 .. MaxFailures]
    BY Numbers DEF Zero
  <1>2. CASE NewDay
    BY <1>1, <1>2 DEF Typed, TypeOK, Shaped, NewDay, queues, flags, timers, tasks
  <1>3. CASE Restart
    <2>1. /\ pass' \in [Slots -> Passes] /\ round' \in [Slots -> Rounds]
          /\ refill' \in [Refills -> Scans] /\ sweep' \in Scans
          /\ joinTimer' \in Timers /\ ~joinTimer'.named /\ leaveTimer' \in Timers
          /\ \A s \in Slots : pass'[s].at = "idle" /\ round'[s].at = "idle"
          /\ ~sweep'.leaving /\ \A s \in Refills : ~refill'[s].leaving
      BY <1>3, Blanks DEF Restart
    <2>2. DOMAIN joins' = {} /\ DOMAIN leaves' = {}
      BY <1>3 DEF Restart
    <2>3. /\ kicks' \in [join : BOOLEAN, leave : BOOLEAN]
          /\ joinFlag' \in BOOLEAN /\ leaveFlag' \in BOOLEAN
      BY <1>3 DEF Restart
    <2>4. /\ restarts' \in Nat
          /\ joinCount' = Zero /\ leaveCount' = Zero /\ failures' = Zero
          /\ UNCHANGED <<live, joined, left, doubled, sweeps, days>>
      BY <1>3 DEF Typed, TypeOK, Restart
    <2> QED BY <1>1, <2>1, <2>2, <2>3, <2>4 DEF Typed, TypeOK, Shaped, Passes, Rounds
  <1> QED BY <1>2, <1>3

LEMMA TypedStep ==
    ASSUME Typed, OneLeaving, [Next]_vars PROVE Typed'
  <1>1. CASE Filling
    BY <1>1, SweepRefreshesTyped, SweepEndsTyped, SweepVisitsTyped, RefillVisitsTyped,
       RefillEndsTyped DEF Filling
  <1>2. CASE Joining
    BY <1>2, KicksTyped, JoinTimerFiresTyped, JoinPickTyped, JoinTakenTyped,
       JoinSkippedTyped, JoinLoopTyped, JoinThrowsTyped, JoinRecountedTyped,
       JoinPassEndsTyped DEF Joining
  <1>3. CASE Leaving
    BY <1>3, KicksTyped, LeaveTimerFiresTyped, LeavePickTyped, LeaveReturnsTyped,
       LeavePassEndsTyped DEF Leaving
  <1>4. CASE UNCHANGED vars
    BY <1>4 DEF vars, queues, flags, timers, tasks, counts, today, Typed, TypeOK, Shaped
  <1> QED BY <1>1, <1>2, <1>3, <1>4, SweepStartsTyped, DayTyped DEF Next

-----------------------------------------------------------------------------
(* One leave pass, and the flag of the join passes. *)

\* Every action but these five leaves the leave passes, their flag and timer alone.
LEMMA LeavingFrame ==
    ASSUME [Next]_vars
    PROVE  \/ UNCHANGED <<leaveFlag, leaveTimer, round>>
           \/ LeaveKick \/ LeaveTimerFires
           \/ \E s \in Slots, m \in Mobiles : LeavePick(s, m)
           \/ \E s \in Slots : LeaveReturns(s) \/ LeavePassEnds(s)
           \/ Restart
  <1>1. CASE Filling
    BY <1>1 DEF Filling, SweepRefreshes, SweepEnds, SweepVisits, RefillVisits, RefillEnds,
                flags, timers
  <1>2. CASE Joining
    BY <1>2 DEF Joining, JoinKick, JoinTimerFires, JoinPick, JoinTaken, JoinSkipped,
                JoinLoop, JoinRequested, JoinThrows, JoinRecounted, JoinPassEnds,
                flags, timers, tasks
  <1>3. CASE SweepStarts \/ NewDay \/ UNCHANGED vars
    BY <1>3 DEF SweepStarts, NewDay, vars, flags, timers, tasks
  <1> QED BY <1>1, <1>2, <1>3 DEF Next, Leaving

LEMMA OneLeavingStep ==
    ASSUME Typed, OneLeaving, [Next]_vars PROVE OneLeaving'
  <1>0. /\ leaveTimer \in Timers /\ leaveTimer.pending \in Nat /\ leaveFlag \in BOOLEAN
        /\ round \in [Slots -> Rounds]
    BY DEF Typed, TypeOK, Timers, Rounds
  <1>1. CASE UNCHANGED <<leaveFlag, leaveTimer, round>>
    BY <1>1 DEF OneLeaving
  <1>2. CASE LeaveKick
    <2>1. CASE leaveTimer' = leaveTimer
      BY <1>2, <2>1 DEF OneLeaving, LeaveKick, flags, tasks
    <2>2. CASE ~leaveFlag /\ ~leaveTimer.named /\ leaveTimer' = Arm(leaveTimer)
      <3>1. leaveTimer.pending = 0
        BY <1>0, <2>2 DEF OneLeaving
      <3>2. leaveTimer'.named /\ leaveTimer'.pending = 1
        BY <1>0, <2>2, <3>1, TimerOps
      <3> QED BY <1>2, <2>2, <3>2 DEF OneLeaving, LeaveKick, flags, tasks
    <2> QED BY <1>2, <2>1, <2>2 DEF LeaveKick
  <1>3. CASE LeaveTimerFires
    <2>1. leaveTimer.pending = 1 /\ ~leaveFlag
      BY <1>0, <1>3 DEF OneLeaving, LeaveTimerFires
    <2>2. ~leaveTimer'.named /\ leaveTimer'.pending = 0
      BY <1>0, <1>3, <2>1, TimerOps DEF LeaveTimerFires
    <2>3. CASE UNCHANGED <<leaveFlag, round>>
      BY <2>1, <2>2, <2>3 DEF OneLeaving
    <2>4. CASE /\ leaveFlag' = TRUE
               /\ \E s \in Slots :
                      round' = [round EXCEPT ![s] =
                                    [NoRound EXCEPT !.at = "pick", !.keys = DOMAIN leaves]]
      <3>1. PICK s \in Slots :
                round' = [round EXCEPT ![s] =
                              [NoRound EXCEPT !.at = "pick", !.keys = DOMAIN leaves]]
        BY <2>4
      <3>2. \A o \in Slots : round[o].at = "idle"
        BY <2>1 DEF OneLeaving
      <3>3. \A o \in Slots : round'[o].at # "idle" <=> o = s
        BY <1>0, <3>1, <3>2 DEF NoRound
      <3> QED BY <2>2, <2>4, <3>3 DEF OneLeaving
    <2> QED BY <1>3, <2>3, <2>4 DEF LeaveTimerFires
  <1>4. ASSUME NEW s \in Slots,
               LeaveReturns(s) \/ \E m \in Mobiles : LeavePick(s, m)
        PROVE  OneLeaving'
    <2>1. round[s].at # "idle" /\ leaveFlag /\ leaveTimer.pending = 0 /\ ~leaveTimer.named
      BY <1>0, <1>4 DEF OneLeaving, LeaveReturns, LeavePick
    <2>2. \A o \in Slots : round'[o].at # "idle" <=> o = s
      <3>1. round'[s].at # "idle"
        <4>1. CASE LeaveReturns(s)
          BY <1>0, <4>1 DEF LeaveReturns, BackToPick, Rounds
        <4>2. ASSUME NEW m \in Mobiles, LeavePick(s, m) PROVE round'[s].at # "idle"
          <5>1. CASE round' = [round EXCEPT ![s].keys = @ \ {m}]
            BY <1>0, <2>1, <5>1 DEF Rounds
          <5>2. CASE round' = [round EXCEPT ![s] = [at |-> "out", keys |-> @.keys \ {m},
                                                    on |-> m, took |-> Take(m)]]
            BY <1>0, <5>2
          <5> QED BY <4>2, <5>1, <5>2 DEF LeavePick
        <4> QED BY <1>4, <4>1, <4>2
      <3>2. \A o \in Slots : o # s => round'[o] = round[o]
        BY <1>0, <1>4 DEF LeaveReturns, LeavePick
      <3> QED BY <2>1, <3>1, <3>2 DEF OneLeaving
    <2>3. leaveTimer' = leaveTimer
      BY <1>0, <1>4, <2>1, TimerOps DEF LeaveReturns, LeavePick, RemoveFromLeaveMap
    <2>4. leaveFlag' = leaveFlag
      BY <1>4 DEF LeaveReturns, LeavePick, flags
    <2> QED BY <2>1, <2>2, <2>3, <2>4 DEF OneLeaving
  <1>5. ASSUME NEW s \in Slots, LeavePassEnds(s) PROVE OneLeaving'
    <2>1. leaveTimer.pending = 0 /\ ~leaveTimer.named /\ round[s].at # "idle"
      BY <1>0, <1>5 DEF OneLeaving, LeavePassEnds
    <2>2. \A o \in Slots : round'[o].at = "idle"
      BY <1>0, <1>5, <2>1, Blanks DEF OneLeaving, LeavePassEnds
    <2>3. leaveTimer' = leaveTimer \/ (leaveTimer'.named /\ leaveTimer'.pending = 1)
      BY <1>0, <1>5, <2>1, TimerOps DEF LeavePassEnds
    <2> QED BY <1>5, <2>1, <2>2, <2>3 DEF OneLeaving, LeavePassEnds
  <1>6. CASE Restart
    <2>1. /\ ~leaveFlag' /\ \A s \in Slots : round'[s].at = "idle"
          /\ ~leaveTimer'.named /\ leaveTimer'.pending = 0
      BY <1>6, Blanks DEF Restart, NoTimer
    <2> QED BY <2>1 DEF OneLeaving
  <1> QED BY <1>1, <1>2, <1>3, <1>4, <1>5, <1>6, LeavingFrame

LEMMA JoinFlagStep ==
    ASSUME Typed, JoinFlagHeld, [Next]_vars PROVE JoinFlagHeld'
  <1>0. pass \in [Slots -> Passes] /\ joinTimer \in Timers
    BY DEF Typed, TypeOK, Passes
  <1>1. CASE UNCHANGED <<joinFlag, pass>>
    BY <1>1 DEF JoinFlagHeld
  <1>2. CASE ~joinFlag'
    BY <1>2 DEF JoinFlagHeld
  <1>3. CASE Filling
    BY <1>1, <1>2, <1>3 DEF Filling, SweepRefreshes, SweepEnds, SweepVisits, RefillVisits,
                            RefillEnds, flags, StopJoins
  <1>4. CASE JoinTimerFires
    <2>1. joinTimer.pending > 0 /\ Fire(joinTimer) \in Timers /\ ~Fire(joinTimer).named
      BY <1>0, <1>4, TimerOps DEF JoinTimerFires
    <2>2. CASE ScheduleJoins(joins, Fire(joinTimer), FALSE, leaveFlag)
      BY <1>2, <2>1, <2>2, ScheduleFacts
    <2>3. CASE \E s \in Slots :
                   pass' = [pass EXCEPT ![s] =
                                [NoPass EXCEPT !.at = "pick", !.keys = DOMAIN joins]]
      <3>1. PICK s \in Slots :
                pass' = [pass EXCEPT ![s] =
                             [NoPass EXCEPT !.at = "pick", !.keys = DOMAIN joins]]
        BY <2>3
      <3>2. pass'[s].at = "pick"
        BY <1>0, <3>1 DEF NoPass
      <3> QED BY <3>2 DEF JoinFlagHeld
    <2> QED BY <1>1, <1>4, <2>2, <2>3 DEF JoinTimerFires
  <1>5. ASSUME NEW s \in Slots,
               \/ \E m \in Mobiles : JoinPick(s, m)
               \/ JoinTaken(s) \/ JoinSkipped(s) \/ JoinLoop(s) \/ JoinRequested(s)
               \/ JoinThrows(s) \/ JoinRecounted(s)
        PROVE  JoinFlagHeld'
    <2>1. ASSUME NEW m \in Mobiles, JoinPick(s, m) PROVE pass'[s].at # "idle"
      BY <1>0, <2>1 DEF JoinPick, Shifted, Passes
    <2>2. CASE JoinTaken(s) \/ JoinSkipped(s)
      <3>1. pass'[s].at = "loop"
        BY <1>0, <2>2 DEF JoinTaken, JoinSkipped, Passes
      <3> QED BY <3>1 DEF JoinFlagHeld
    <2>3. CASE JoinLoop(s)
      <3>1. pass'[s].at \in {"join", "pick"}
        BY <1>0, <2>3 DEF JoinLoop, LeftMobile, Passes
      <3> QED BY <3>1 DEF JoinFlagHeld
    <2>4. CASE JoinRequested(s)
      <3>1. pass'[s].at = "pick"
        BY <1>0, <2>4 DEF JoinRequested, LeftMobile, Passes
      <3> QED BY <3>1 DEF JoinFlagHeld
    <2>5. CASE JoinThrows(s)
      <3>1. pass'[s].at # "idle"
        BY <1>0, <2>5 DEF JoinThrows, LeftMobile, Passes
      <3> QED BY <3>1 DEF JoinFlagHeld
    <2>6. CASE JoinRecounted(s)
      <3>1. pass'[s].at # "idle"
        BY <1>0, <2>6 DEF JoinRecounted, LeftMobile, Passes
      <3> QED BY <3>1 DEF JoinFlagHeld
    <2> QED BY <1>5, <2>1, <2>2, <2>3, <2>4, <2>5, <2>6 DEF JoinFlagHeld
  <1>6. ASSUME NEW s \in Slots, JoinPassEnds(s) \/ LeavePassEnds(s) PROVE JoinFlagHeld'
    <2>1. CASE UNCHANGED <<joinFlag, pass>>
      BY <2>1, <1>1
    <2>2. ASSUME NEW leaving, ScheduleJoins(joins, joinTimer, FALSE, leaving)
          PROVE  ~joinFlag'
      BY <2>2, <1>0, ScheduleFacts DEF Typed, TypeOK
    <2> QED BY <1>2, <1>6, <2>1, <2>2 DEF JoinPassEnds, LeavePassEnds
  <1>7. CASE JoinKick \/ LeaveKick \/ LeaveTimerFires \/ SweepStarts \/ NewDay
             \/ \E s \in Slots : LeaveReturns(s) \/ \E m \in Mobiles : LeavePick(s, m)
    BY <1>1, <1>7 DEF JoinKick, LeaveKick, LeaveTimerFires, SweepStarts, NewDay,
                      LeaveReturns, LeavePick, flags, tasks
  <1>8. CASE Restart \/ UNCHANGED vars
    BY <1>1, <1>2, <1>8 DEF Restart, vars, flags, tasks
  <1> QED BY <1>3, <1>4, <1>5, <1>6, <1>7, <1>8 DEF Next, Joining, Leaving

-----------------------------------------------------------------------------
(* What is queued to leave is taken up. *)

\* A scan that has queued leaves stays until it ends and kicks the queue.
LEMMA QueuedIsRemembered ==
    ASSUME NEW m \in Mobiles, NEW n, NeedsLeaves(m, n), ~Fits(leaves, m)
    PROVE  leaves' = leaves
  BY DEF NeedsLeaves, SafeSet

LEMMA LeavesStep ==
    ASSUME Typed, OneLeaving, LeaveNeverStalls, [Next]_vars PROVE LeaveNeverStalls'
  <1>0. /\ leaveTimer \in Timers /\ leaveTimer.pending \in Nat
        /\ round \in [Slots -> Rounds] /\ refill \in [Refills -> Scans] /\ sweep \in Scans
        /\ (leaveTimer.named => leaveTimer.pending > 0)
        /\ (leaveFlag <=> \E s \in Slots : round[s].at # "idle")
    BY DEF Typed, TypeOK, Timers, Rounds, OneLeaving
  <1>1. CASE UNCHANGED <<leaves, leaveFlag, leaveTimer, kicks, sweep, refill>>
    BY <1>1 DEF LeaveNeverStalls
  <1>2. CASE SweepStarts \/ SweepRefreshes
    <2>1. UNCHANGED <<leaves, leaveFlag, leaveTimer, kicks, refill>>
      BY <1>2 DEF SweepStarts, SweepRefreshes, queues, flags, timers
    <2>2. sweep.leaving => sweep'.leaving
      BY <1>0, <1>2 DEF SweepStarts, SweepRefreshes, Scans, Typed, Shaped
    <2> QED BY <2>1, <2>2 DEF LeaveNeverStalls
  <1>3. CASE SweepEnds
    <2>1. UNCHANGED <<leaves, leaveFlag, leaveTimer, refill>>
      BY <1>3 DEF SweepEnds, queues, flags
    <2>2. kicks'.leave = (kicks.leave \/ sweep.leaving)
      BY <1>3 DEF SweepEnds
    <2> QED BY <2>1, <2>2 DEF LeaveNeverStalls
  <1>4. ASSUME NEW m \in Mobiles, SweepVisits(m) PROVE LeaveNeverStalls'
    <2>1. UNCHANGED <<leaveFlag, leaveTimer, kicks, refill>>
      BY <1>4 DEF SweepVisits, flags, timers
    <2>2. CASE UNCHANGED leaves /\ (sweep.leaving => sweep'.leaving)
      BY <2>1, <2>2 DEF LeaveNeverStalls
    <2>3. CASE NeedsNothing \/ IsDead(m)
      <3>1. UNCHANGED leaves
        BY <2>3 DEF NeedsNothing, IsDead, queues
      <3>2. CASE sweep' = [sweep EXCEPT !.todo = @ \ {m}]
        BY <1>0, <2>2, <3>1, <3>2 DEF Scans
      <3>3. CASE sweep' = [sweep EXCEPT !.todo = @ \ {m}, !.added = @ \/ Fits(joins, m)]
        BY <1>0, <2>2, <3>1, <3>3 DEF Scans
      <3>4. CASE sweep' = [sweep EXCEPT !.todo = @ \ {m}, !.leaving = @ \/ Fits(leaves, m)]
        BY <1>0, <2>2, <3>1, <3>4 DEF Scans
      <3> QED BY <1>4, <3>2, <3>3, <3>4 DEF SweepVisits
    <2>4. ASSUME NEW n \in 1 .. Batch, NeedsJoins(m, n),
                 sweep' = [sweep EXCEPT !.todo = @ \ {m}, !.added = @ \/ Fits(joins, m)]
          PROVE  LeaveNeverStalls'
      <3>1. UNCHANGED leaves
        BY <2>4 DEF NeedsJoins
      <3>2. sweep.leaving => sweep'.leaving
        BY <1>0, <2>4 DEF Scans
      <3> QED BY <2>2, <3>1, <3>2
    <2>5. ASSUME NEW n \in 1 .. Batch, NeedsLeaves(m, n),
                 sweep' = [sweep EXCEPT !.todo = @ \ {m}, !.leaving = @ \/ Fits(leaves, m)]
          PROVE  LeaveNeverStalls'
      <3>1. sweep'.leaving = (sweep.leaving \/ Fits(leaves, m))
        BY <1>0, <2>5 DEF Scans
      <3>2. CASE Fits(leaves, m)
        BY <3>1, <3>2 DEF LeaveNeverStalls
      <3>3. CASE ~Fits(leaves, m)
        BY <2>2, <2>5, <3>1, <3>3, QueuedIsRemembered
      <3> QED BY <3>2, <3>3
    <2> QED BY <1>4, <2>3, <2>4, <2>5 DEF SweepVisits
  <1>5. ASSUME NEW s \in Refills, NEW m \in Mobiles, RefillVisits(s, m)
        PROVE  LeaveNeverStalls'
    <2>1. UNCHANGED <<leaveFlag, leaveTimer, kicks, sweep>>
      BY <1>5 DEF RefillVisits, flags, timers
    <2>2. /\ \A o \in Refills : o # s => refill'[o] = refill[o]
          /\ refill[s].leaving => refill'[s].leaving
      BY <1>0, <1>5 DEF RefillVisits, Scans
    <2>3. CASE UNCHANGED leaves
      BY <2>1, <2>2, <2>3 DEF LeaveNeverStalls
    <2>4. CASE NeedsNothing \/ IsDead(m) \/ \E n \in 1 .. Batch : NeedsJoins(m, n)
      BY <2>3, <2>4 DEF NeedsNothing, IsDead, NeedsJoins, queues
    <2>5. ASSUME NEW n \in 1 .. Batch, NeedsLeaves(m, n),
                 refill' = [refill EXCEPT ![s].todo = @ \ {m},
                                          ![s].leaving = @ \/ Fits(leaves, m)]
          PROVE  LeaveNeverStalls'
      <3>1. Fits(leaves, m) => refill'[s].leaving
        BY <1>0, <2>5 DEF Scans
      <3>2. CASE Fits(leaves, m)
        BY <3>1, <3>2 DEF LeaveNeverStalls
      <3>3. CASE ~Fits(leaves, m)
        BY <2>3, <2>5, <3>3, QueuedIsRemembered
      <3> QED BY <3>2, <3>3
    <2> QED BY <1>5, <2>4, <2>5 DEF RefillVisits
  <1>6. ASSUME NEW s \in Refills, RefillEnds(s) PROVE LeaveNeverStalls'
    <2>1. UNCHANGED <<leaves, leaveFlag, leaveTimer, sweep>>
      BY <1>6 DEF RefillEnds, queues
    <2>2. \A o \in Refills : o # s => refill'[o] = refill[o]
      BY <1>0, <1>6 DEF RefillEnds
    <2>3. /\ kicks.leave => kicks'.leave
          /\ refill[s].leaving => kicks'.leave \/ leaveTimer.named
      BY <1>6 DEF RefillEnds, Typed, TypeOK
    <2> QED BY <1>0, <2>1, <2>2, <2>3 DEF LeaveNeverStalls
  <1>7. CASE JoinKick
    <2>1. UNCHANGED <<leaves, leaveFlag, leaveTimer, sweep, refill>> /\ kicks'.leave = kicks.leave
      BY <1>7 DEF JoinKick, queues, flags, tasks, Typed, TypeOK
    <2> QED BY <2>1 DEF LeaveNeverStalls
  <1>8. ASSUME NEW t \in Timers, t.named => t.pending > 0, NEW leaving,
               ScheduleJoins(joins, t, FALSE, leaving)
        PROVE  \A s \in Refills : refill[s].leaving => refill'[s].leaving
    BY <1>8, ScheduleFacts
  <1>9. CASE JoinTimerFires \/ \E s \in Slots : JoinPassEnds(s)
    <2>1. UNCHANGED <<leaves, leaveFlag, leaveTimer, kicks, sweep>>
      BY <1>9 DEF JoinTimerFires, JoinPassEnds, queues
    <2>2. \A s \in Refills : refill[s].leaving => refill'[s].leaving
      <3>1. CASE JoinTimerFires
        <4>1. Fire(joinTimer) \in Timers /\ ~Fire(joinTimer).named
          BY <3>1, TimerOps DEF JoinTimerFires, Typed, TypeOK
        <4> QED BY <1>8, <3>1, <4>1 DEF JoinTimerFires
      <3>2. CASE \E s \in Slots : JoinPassEnds(s)
        <4>1. /\ ScheduleJoins(joins, joinTimer, FALSE, leaveFlag)
              /\ joinTimer \in Timers /\ (joinTimer.named => joinTimer.pending > 0)
          BY <3>2 DEF JoinPassEnds, Typed, TypeOK
        <4> QED BY <1>8, <4>1
      <3> QED BY <1>9, <3>1, <3>2
    <2> QED BY <2>1, <2>2 DEF LeaveNeverStalls
  <1>10. CASE \E s \in Slots :
                  \/ \E m \in Mobiles : JoinPick(s, m)
                  \/ JoinTaken(s) \/ JoinSkipped(s) \/ JoinLoop(s) \/ JoinRequested(s)
                  \/ JoinThrows(s) \/ JoinRecounted(s)
    BY <1>1, <1>10 DEF JoinPick, JoinTaken, JoinSkipped, JoinLoop, JoinRequested,
                       JoinThrows, JoinRecounted, queues, flags, timers
  <1>11. CASE LeaveKick
    <2>1. UNCHANGED <<leaves, leaveFlag, sweep, refill>>
      BY <1>11 DEF LeaveKick, queues, flags, tasks
    <2>2. DOMAIN leaves # {} /\ ~leaveFlag => leaveTimer'.pending > 0
      BY <1>0, <1>11, TimerOps DEF LeaveKick
    <2> QED BY <2>1, <2>2 DEF LeaveNeverStalls
  <1>12. CASE LeaveTimerFires
    <2>1. UNCHANGED leaves /\ (DOMAIN leaves # {} => leaveFlag')
      BY <1>12 DEF LeaveTimerFires, queues
    <2> QED BY <2>1 DEF LeaveNeverStalls
  <1>13. CASE \E s \in Slots : LeaveReturns(s) \/ \E m \in Mobiles : LeavePick(s, m)
    <2>1. leaveFlag
      BY <1>0, <1>13 DEF LeaveReturns, LeavePick
    <2>2. leaveFlag' = leaveFlag
      BY <1>13 DEF LeaveReturns, LeavePick, flags
    <2> QED BY <2>1, <2>2 DEF LeaveNeverStalls
  <1>14. CASE \E s \in Slots : LeavePassEnds(s)
    <2>1. UNCHANGED leaves /\ (DOMAIN leaves # {} => leaveTimer' = Arm(leaveTimer))
      BY <1>14 DEF LeavePassEnds, queues
    <2>2. Arm(leaveTimer).pending > 0
      BY <1>0, TimerOps
    <2> QED BY <2>1, <2>2 DEF LeaveNeverStalls
  <1>15. CASE Restart
    <2>1. DOMAIN leaves' = {}
      BY <1>15 DEF Restart
    <2> QED BY <2>1 DEF LeaveNeverStalls
  <1>16. CASE NewDay \/ UNCHANGED vars
    BY <1>1, <1>16 DEF NewDay, vars, queues, flags, timers, tasks
  <1> QED BY <1>2, <1>3, <1>4, <1>5, <1>6, <1>7, <1>9, <1>10, <1>11, <1>12, <1>13, <1>14,
             <1>15, <1>16 DEF Next, Filling, Joining, Leaving

-----------------------------------------------------------------------------
(* The daily limits. *)

\* One life more allows one limit more.
LEMMA OneMore ==
    ASSUME NEW c \in Nat, NEW r \in Nat
    PROVE  c * (r + 1) = c * r + c /\ c * (1 + r) = c * r + c /\ c * r \in Nat
  OBVIOUS

LEMMA LeaveCapFrame ==
    ASSUME [Next]_vars
    PROVE  \/ UNCHANGED <<leaveCount, left, restarts, round>>
           \/ LeaveTimerFires
           \/ \E s \in Slots, m \in Mobiles : LeavePick(s, m)
           \/ \E s \in Slots : LeaveReturns(s) \/ LeavePassEnds(s)
           \/ NewDay \/ Restart
  <1>1. CASE Filling
    BY <1>1 DEF Filling, SweepRefreshes, SweepEnds, SweepVisits, RefillVisits, RefillEnds,
                counts, today
  <1>2. CASE Joining
    BY ZenonT(60), <1>2 DEF Joining, JoinKick, JoinTimerFires, JoinPick, JoinTaken, JoinSkipped,
                JoinLoop, JoinRequested, JoinThrows, JoinRecounted, JoinPassEnds,
                counts, today, tasks
  <1>3. CASE SweepStarts \/ LeaveKick \/ UNCHANGED vars
    BY <1>3 DEF SweepStarts, LeaveKick, vars, counts, today, tasks
  <1> QED BY <1>1, <1>2, <1>3 DEF Next, Leaving

LEMMA LeaveCapStep ==
    ASSUME Typed, OneLeaving, LeavesWithinCap, [Next]_vars PROVE LeavesWithinCap'
  <1>0. /\ round \in [Slots -> Rounds] /\ leaveCount \in [Mobiles -> Nat]
        /\ left \in [Mobiles -> Nat] /\ restarts \in Nat
        /\ \A s \in Slots : round[s].at = "out" => round[s].on \in Mobiles
    BY DEF Typed, TypeOK, Shaped, Rounds
  <1>1. CASE UNCHANGED <<leaveCount, left, restarts, round>>
    BY <1>1 DEF LeavesWithinCap
  <1>2. ASSUME UNCHANGED <<leaveCount, left, restarts>>, NEW s \in Slots, NEW r,
               round' = [round EXCEPT ![s] = r],
               r.at = "out" => leaveCount[r.on] + r.took <= LeaveCap
        PROVE  LeavesWithinCap'
    BY <1>0, <1>2 DEF LeavesWithinCap
  <1>3. CASE LeaveTimerFires
    <2>1. UNCHANGED <<leaveCount, left, restarts>>
      BY <1>3 DEF LeaveTimerFires, counts, today
    <2>2. CASE \E s \in Slots :
                   round' = [round EXCEPT ![s] =
                                 [NoRound EXCEPT !.at = "pick", !.keys = DOMAIN leaves]]
      <3>1. PICK s \in Slots :
                round' = [round EXCEPT ![s] =
                              [NoRound EXCEPT !.at = "pick", !.keys = DOMAIN leaves]]
        BY <2>2
      <3> DEFINE r == [NoRound EXCEPT !.at = "pick", !.keys = DOMAIN leaves]
      <3>2. r.at = "pick"
        BY DEF NoRound
      <3>3. round' = [round EXCEPT ![s] = r]
        BY <3>1
      <3> HIDE DEF r
      <3> QED BY <1>2, <2>1, <3>2, <3>3
    <2> QED BY <1>1, <1>3, <2>1, <2>2 DEF LeaveTimerFires
  <1>4. ASSUME NEW s \in Slots, NEW m \in Mobiles, LeavePick(s, m) PROVE LeavesWithinCap'
    <2>1. UNCHANGED <<leaveCount, left, restarts>>
      BY <1>4 DEF LeavePick, counts, today
    <2>2. CASE round' = [round EXCEPT ![s].keys = @ \ {m}]
      <3> DEFINE r == [round[s] EXCEPT !.keys = @ \ {m}]
      <3>1. r.at = "pick" /\ round' = [round EXCEPT ![s] = r]
        BY <1>0, <1>4, <2>2 DEF LeavePick, Rounds
      <3> HIDE DEF r
      <3> QED BY <1>2, <2>1, <3>1
    <2>3. CASE /\ m \in DOMAIN leaves /\ Allowance(m) > 0
               /\ round' = [round EXCEPT ![s] = [at |-> "out", keys |-> @.keys \ {m},
                                                 on |-> m, took |-> Take(m)]]
      <3> DEFINE r == [at |-> "out", keys |-> round[s].keys \ {m}, on |-> m, took |-> Take(m)]
      <3>1. leaveCount[m] + Take(m) <= LeaveCap
        BY <2>3, TakeLimits DEF Typed
      <3>2. r.on = m /\ r.took = Take(m) /\ round' = [round EXCEPT ![s] = r]
        BY <2>3
      <3> HIDE DEF r
      <3> QED BY <1>2, <2>1, <3>1, <3>2
    <2> QED BY <1>4, <2>2, <2>3 DEF LeavePick
  <1>5. ASSUME NEW s \in Slots, LeaveReturns(s) PROVE LeavesWithinCap'
    <2> DEFINE m == round[s].on
               n == round[s].took
    <2>1. round[s].at = "out" /\ m \in Mobiles /\ n \in Nat /\ leaveCount[m] + n <= LeaveCap
      BY <1>0, <1>5 DEF LeavesWithinCap, LeaveReturns, Rounds
    <2>2. \A o \in Slots : round'[o].at # "out"
      <3>1. round'[s].at = "pick"
        BY <1>0, <1>5 DEF LeaveReturns, BackToPick, Rounds
      <3>2. \A o \in Slots : o # s => round'[o] = round[o] /\ round[o].at = "idle"
        BY <1>0, <1>5, <2>1 DEF LeaveReturns, OneLeaving
      <3> QED BY <3>1, <3>2
    <2>3. restarts' = restarts
      BY <1>5 DEF LeaveReturns
    <2>4. CASE UNCHANGED <<left, leaveCount>>
      BY <2>2, <2>3, <2>4 DEF LeavesWithinCap
    <2>5. CASE /\ left' = [left EXCEPT ![m] = @ + n]
               /\ leaveCount' = [leaveCount EXCEPT ![m] = @ + n]
      <3> HIDE DEF m, n
      <3>1. /\ left'[m] = left[m] + n /\ leaveCount'[m] = leaveCount[m] + n
            /\ \A x \in Mobiles : x # m => left'[x] = left[x] /\ leaveCount'[x] = leaveCount[x]
        BY <1>0, <2>1, <2>5
      <3>2. leaveCount[m] \in Nat /\ left[m] \in Nat /\ LeaveCap * restarts \in Nat
            /\ left[m] <= LeaveCap * restarts + leaveCount[m]
        BY <1>0, <2>1, OneMore, Numbers DEF LeavesWithinCap
      <3>3. left[m] + n <= LeaveCap * restarts + (leaveCount[m] + n)
        <4> DEFINE b == LeaveCap * restarts
        <4> HIDE DEF b
        <4>1. left[m] <= b + leaveCount[m] /\ b \in Nat
          BY <3>2 DEF b
        <4>2. left[m] + n <= b + (leaveCount[m] + n)
          BY <4>1, <3>2, <2>1
        <4> QED BY <4>2 DEF b
      <3>4. \A x \in Mobiles : left'[x] <= LeaveCap * restarts' + leaveCount'[x]
        BY <2>3, <3>1, <3>3 DEF LeavesWithinCap
      <3> QED BY <2>1, <2>2, <3>1, <3>4 DEF LeavesWithinCap
    <2> QED BY <1>5, <2>4, <2>5 DEF LeaveReturns
  <1>6. ASSUME NEW s \in Slots, LeavePassEnds(s) PROVE LeavesWithinCap'
    <2>1. UNCHANGED <<leaveCount, left, restarts>> /\ round' = [round EXCEPT ![s] = NoRound]
      BY <1>6 DEF LeavePassEnds, today
    <2> QED BY <1>2, <2>1, Blanks
  <1>7. ASSUME \A m \in Mobiles : leaveCount'[m] = 0 /\ left'[m] <= LeaveCap * restarts',
               LeaveCap * restarts' \in Nat,
               \A s \in Slots : round'[s].at = "out" =>
                   round'[s].on \in Mobiles /\ round'[s].took <= LeaveCap,
               \A s \in Slots : round'[s].at = "out" => round'[s].took \in Nat,
               \A m \in Mobiles : left'[m] \in Nat
        PROVE  LeavesWithinCap'
    BY <1>7, Numbers DEF LeavesWithinCap
  <1>8. CASE NewDay
    <2>1. \A m \in Mobiles : leaveCount'[m] = 0 /\ left'[m] = 0
      BY <1>8 DEF NewDay, Zero
    <2>2. restarts' = 0 /\ LeaveCap * restarts' = 0
      BY <1>8, Numbers DEF NewDay
    <2>3. \A s \in Slots : round[s].at = "out" =>
              round[s].on \in Mobiles /\ round[s].took \in Nat /\ round[s].took <= LeaveCap
      <3>1. \A s \in Slots : round[s].took \in Nat
        BY <1>0 DEF Rounds
      <3>2. \A s \in Slots : round[s].at = "out" =>
                round[s].on \in Mobiles /\ leaveCount[round[s].on] \in Nat
                /\ leaveCount[round[s].on] + round[s].took <= LeaveCap
        BY <1>0 DEF LeavesWithinCap
      <3> QED BY <3>1, <3>2, Numbers
    <2>4. round' = round
      BY <1>8 DEF NewDay, tasks
    <2> QED BY <1>7, <2>1, <2>2, <2>3, <2>4
  <1>9. CASE Restart
    <2>1. /\ \A m \in Mobiles : leaveCount'[m] = 0 /\ left'[m] = left[m]
          /\ \A s \in Slots : round'[s].at # "out"
          /\ restarts' = restarts + 1
      BY <1>9, Blanks DEF Restart, Zero
    <2>2. \A m \in Mobiles : left[m] <= LeaveCap * (restarts + 1)
      <3> DEFINE b == LeaveCap * restarts
      <3>1. b \in Nat /\ LeaveCap * (restarts + 1) = b + LeaveCap
        BY <1>0, OneMore, Numbers
      <3>2. \A m \in Mobiles : left[m] <= b + leaveCount[m] /\ leaveCount[m] <= LeaveCap
        BY DEF LeavesWithinCap
      <3> HIDE DEF b
      <3>3. \A m \in Mobiles : left[m] <= b + LeaveCap
        BY <1>0, <3>1, <3>2, Numbers
      <3> QED BY <3>1, <3>3
    <2>3. LeaveCap * restarts' \in Nat
      BY <1>0, <2>1, OneMore, Numbers
    <2>4. \A m \in Mobiles : left'[m] \in Nat
      BY <1>0, <2>1
    <2> QED BY <1>7, <2>1, <2>2, <2>3, <2>4
  <1> QED BY <1>1, <1>3, <1>4, <1>5, <1>6, <1>8, <1>9, LeaveCapFrame

LEMMA JoinCapFrame ==
    ASSUME [Next]_vars
    PROVE  \/ UNCHANGED <<doubled, pass, joinCount, joined, restarts>>
           \/ JoinTimerFires
           \/ \E s \in Slots, m \in Mobiles : JoinPick(s, m)
           \/ \E s \in Slots : \/ JoinTaken(s) \/ JoinSkipped(s) \/ JoinLoop(s)
                               \/ JoinRequested(s) \/ JoinThrows(s) \/ JoinRecounted(s)
                               \/ JoinPassEnds(s)
           \/ NewDay \/ Restart
  <1>1. CASE Filling
    BY <1>1 DEF Filling, SweepRefreshes, SweepEnds, SweepVisits, RefillVisits, RefillEnds,
                counts, today
  <1>2. CASE Leaving
    BY <1>2 DEF Leaving, LeaveKick, LeaveTimerFires, LeavePick, LeaveReturns, LeavePassEnds,
                counts, today, tasks
  <1>3. CASE SweepStarts \/ JoinKick \/ UNCHANGED vars
    BY <1>3 DEF SweepStarts, JoinKick, vars, counts, today, tasks
  <1> QED BY <1>1, <1>2, <1>3 DEF Next, Joining

\* A pass moves on without a join having been taken.
LEMMA PassMoves ==
    ASSUME Typed, JoinsWithinCap, NEW s \in Slots, NEW r, pass' = [pass EXCEPT ![s] = r],
           UNCHANGED <<doubled, joinCount, joined, restarts>>,
           r.at = "idle" \/ pass[s].at # "idle",
           r.at \in {"join", "loop"} => joinCount[r.on] + r.limit <= JoinCap
    PROVE  JoinsWithinCap'
  <1>1. pass \in [Slots -> Passes]
    BY DEF Typed, TypeOK, Passes
  <1>2. pass'[s] = r /\ \A o \in Slots : o # s => pass'[o] = pass[o]
    BY <1>1
  <1> QED BY <1>2 DEF JoinsWithinCap

\* Telegram takes a join within the round's limit.
LEMMA JoinCounts ==
    ASSUME Typed, JoinsWithinCap, NEW s \in Slots, pass[s].at = "join",
           NEW r, pass' = [pass EXCEPT ![s] = r],
           \/ r.at = "loop" /\ r.on = pass[s].on /\ r.limit = pass[s].limit - 1
           \/ r.at = "pick",
           joined' = [joined EXCEPT ![pass[s].on] = @ + 1],
           joinCount' = [joinCount EXCEPT ![pass[s].on] = @ + 1],
           UNCHANGED <<doubled, restarts>>
    PROVE  JoinsWithinCap'
  <1> SUFFICES ASSUME ~doubled PROVE JoinsWithinCap'
    BY DEF JoinsWithinCap
  <1> DEFINE m == pass[s].on
             b == JoinCap * restarts
  <1>1. /\ pass \in [Slots -> Passes] /\ joinCount \in [Mobiles -> Nat]
        /\ joined \in [Mobiles -> Nat] /\ m \in Mobiles /\ pass[s].limit > 0
        /\ pass[s].limit \in Nat /\ b \in Nat
    BY OneMore, Numbers DEF Typed, TypeOK, Shaped, Passes
  <1>2. /\ joinCount[m] + pass[s].limit <= JoinCap
        /\ \A x \in Mobiles : joinCount[x] <= JoinCap /\ joined[x] <= b + joinCount[x]
        /\ \A o \in Slots : o # s => pass[o].at = "idle"
    BY DEF JoinsWithinCap
  <1>3. pass'[s] = r /\ \A o \in Slots : o # s => pass'[o].at = "idle"
    BY <1>1, <1>2
  <1> HIDE DEF m, b
  <1>4. /\ joined'[m] = joined[m] + 1 /\ joinCount'[m] = joinCount[m] + 1
        /\ \A x \in Mobiles : x # m => joined'[x] = joined[x] /\ joinCount'[x] = joinCount[x]
    BY <1>1 DEF m
  <1>5. joined[m] \in Nat /\ joinCount[m] \in Nat
    BY <1>1
  <1>6. joined[m] + 1 <= b + (joinCount[m] + 1) /\ joinCount[m] + 1 <= JoinCap
    BY <1>1, <1>2, <1>5, Numbers
  <1>7. \A x \in Mobiles : joinCount'[x] <= JoinCap /\ joined'[x] <= b + joinCount'[x]
    BY <1>2, <1>4, <1>6
  <1>8. r.at \in {"join", "loop"} => joinCount'[r.on] + r.limit <= JoinCap
    <2>1. (joinCount[m] + 1) + (pass[s].limit - 1) <= JoinCap
      BY <1>1, <1>2, <1>5, Numbers
    <2> QED BY <1>4, <2>1 DEF m
  <1>9. restarts' = restarts
    OBVIOUS
  <1> QED BY <1>3, <1>7, <1>8, <1>9 DEF JoinsWithinCap, b

LEMMA JoinCapStep ==
    ASSUME Typed, JoinsWithinCap, [Next]_vars PROVE JoinsWithinCap'
  <1>0. /\ pass \in [Slots -> Passes] /\ joinCount \in [Mobiles -> Nat]
        /\ joined \in [Mobiles -> Nat] /\ restarts \in Nat /\ doubled \in BOOLEAN
    BY DEF Typed, TypeOK, Passes
  <1>1. CASE UNCHANGED <<doubled, pass, joinCount, joined, restarts>>
    BY <1>1 DEF JoinsWithinCap
  <1>2. CASE JoinTimerFires
    <2>1. UNCHANGED <<joinCount, joined, restarts>>
      BY <1>2 DEF JoinTimerFires
    <2>2. CASE UNCHANGED <<pass, doubled>>
      BY <1>1, <2>1, <2>2
    <2>3. CASE /\ doubled' = (doubled \/ \E o \in Slots : pass[o].at # "idle")
               /\ \E s \in Slots :
                      pass' = [pass EXCEPT ![s] =
                                   [NoPass EXCEPT !.at = "pick", !.keys = DOMAIN joins]]
      <3>1. PICK s \in Slots :
                pass' = [pass EXCEPT ![s] =
                             [NoPass EXCEPT !.at = "pick", !.keys = DOMAIN joins]]
        BY <2>3
      <3>2. pass'[s].at = "pick" /\ \A o \in Slots : o # s => pass'[o] = pass[o]
        BY <1>0, <3>1 DEF NoPass
      <3>3. ~doubled' => ~doubled /\ \A o \in Slots : pass[o].at = "idle"
        BY <2>3
      <3> QED BY <2>1, <3>2, <3>3 DEF JoinsWithinCap
    <2> QED BY <1>2, <2>2, <2>3 DEF JoinTimerFires
  <1>3. ASSUME NEW s \in Slots, NEW m \in Mobiles, JoinPick(s, m) PROVE JoinsWithinCap'
    <2>1. UNCHANGED <<doubled, joinCount, joined, restarts>> /\ pass[s].at = "pick"
      BY <1>3 DEF JoinPick, counts, today
    <2>2. CASE pass' = [pass EXCEPT ![s].keys = @ \ {m}]
      <3> DEFINE r == [pass[s] EXCEPT !.keys = @ \ {m}]
      <3>1. r.at = "pick" /\ pass' = [pass EXCEPT ![s] = r]
        BY <1>0, <2>1, <2>2 DEF Passes
      <3> HIDE DEF r
      <3> QED BY <2>1, <3>1, PassMoves
    <2>3. CASE /\ ~Capped(m) /\ Queued(joins, m) > 0
               /\ pass' = [pass EXCEPT ![s] = Shifted(@, m, RoundLimit(m), joins[m])]
      <3> DEFINE r == Shifted(pass[s], m, RoundLimit(m), joins[m])
      <3>1. m \in DOMAIN joins /\ joins[m] > 0
        BY <2>3 DEF Queued
      <3>2. joinCount[m] + RoundLimit(m) <= JoinCap
        BY <2>3, <3>1, RoundLimits DEF Typed
      <3>3. r.on = m /\ r.limit = RoundLimit(m) /\ pass' = [pass EXCEPT ![s] = r]
        BY <1>0, <2>3 DEF Shifted, Passes
      <3> HIDE DEF r
      <3> QED BY <2>1, <3>2, <3>3, PassMoves
    <2> QED BY <1>3, <2>2, <2>3 DEF JoinPick
  <1>4. ASSUME NEW s \in Slots, JoinTaken(s) PROVE JoinsWithinCap'
    <2> DEFINE r == [pass[s] EXCEPT !.at = "loop", !.limit = @ - 1]
    <2>1. /\ pass[s].at = "join" /\ UNCHANGED <<doubled, restarts>>
          /\ joined' = [joined EXCEPT ![pass[s].on] = @ + 1]
          /\ joinCount' = [joinCount EXCEPT ![pass[s].on] = @ + 1]
      BY <1>4 DEF JoinTaken
    <2>2. r.at = "loop" /\ r.on = pass[s].on /\ r.limit = pass[s].limit - 1
      BY <1>0 DEF Passes
    <2>3. pass' = [pass EXCEPT ![s] = r]
      <3>1. pass'[s] = r
        BY <1>0, <1>4 DEF JoinTaken, Passes
      <3>2. pass' = [pass EXCEPT ![s] = pass'[s]]
        BY <1>0, <1>4 DEF JoinTaken
      <3> QED BY <3>1, <3>2
    <2> HIDE DEF r
    <2> QED BY <2>1, <2>2, <2>3, JoinCounts
  <1>5. ASSUME NEW s \in Slots, JoinRequested(s) PROVE JoinsWithinCap'
    <2> DEFINE r == LeftMobile(pass[s])
    <2>1. /\ pass[s].at = "join" /\ UNCHANGED <<doubled, restarts>>
          /\ joined' = [joined EXCEPT ![pass[s].on] = @ + 1]
          /\ joinCount' = [joinCount EXCEPT ![pass[s].on] = @ + 1]
          /\ pass' = [pass EXCEPT ![s] = r]
      BY <1>5 DEF JoinRequested
    <2>2. r.at = "pick"
      BY <1>0 DEF LeftMobile, Passes
    <2> HIDE DEF r
    <2> QED BY <2>1, <2>2, JoinCounts
  <1>6. ASSUME NEW s \in Slots,
               \/ JoinSkipped(s) \/ JoinLoop(s) \/ JoinThrows(s) \/ JoinRecounted(s)
               \/ JoinPassEnds(s)
        PROVE  JoinsWithinCap'
    <2>1. UNCHANGED <<doubled, joinCount, joined, restarts>> /\ pass[s] \in Passes
      BY <1>0, <1>6 DEF JoinSkipped, JoinLoop, JoinThrows, JoinRecounted, JoinPassEnds,
                        counts, today
    <2>2. /\ pass' = [pass EXCEPT ![s] = pass'[s]]
          /\ pass'[s].at = "idle" \/ pass[s].at # "idle"
      BY <1>0, <1>6 DEF JoinSkipped, JoinLoop, JoinThrows, JoinRecounted, JoinPassEnds, NoPass
    <2>3. pass'[s].at \in {"join", "loop"} =>
              /\ pass[s].at \in {"join", "loop"}
              /\ pass'[s].on = pass[s].on /\ pass'[s].limit = pass[s].limit
      <3>1. CASE JoinSkipped(s)
        BY <1>0, <2>1, <3>1 DEF JoinSkipped, Passes
      <3>0. /\ LeftMobile(pass[s]).at = "pick"
            /\ [LeftMobile(pass[s]) EXCEPT !.at = "flooded"].at = "flooded"
        BY <2>1 DEF LeftMobile, Passes
      <3>2. CASE JoinLoop(s)
        <4>1. CASE pass' = [pass EXCEPT ![s].at = "join", ![s].rest = @ - 1]
          BY <1>0, <2>1, <3>2, <4>1 DEF JoinLoop, Passes
        <4>2. CASE pass' = [pass EXCEPT ![s] = LeftMobile(@)]
          BY <1>0, <3>0, <4>2
        <4> QED BY <3>2, <4>1, <4>2 DEF JoinLoop
      <3>3. CASE JoinThrows(s)
        <4>1. \/ pass' = [pass EXCEPT ![s] = LeftMobile(@)]
              \/ pass' = [pass EXCEPT ![s] = [LeftMobile(@) EXCEPT !.at = "flooded"]]
          BY <3>3 DEF JoinThrows
        <4>2. pass'[s].at \in {"pick", "flooded"}
          BY <1>0, <3>0, <4>1
        <4> QED BY <4>2
      <3>4. CASE JoinRecounted(s) \/ JoinPassEnds(s)
        <4>1. CASE JoinRecounted(s)
          BY <1>0, <2>1, <4>1 DEF JoinRecounted, Passes
        <4>2. CASE JoinPassEnds(s)
          BY <1>0, <4>2, Blanks DEF JoinPassEnds
        <4> QED BY <3>4, <4>1, <4>2
      <3> QED BY <1>6, <3>1, <3>2, <3>3, <3>4
    <2>4. CASE doubled
      BY <2>1, <2>4 DEF JoinsWithinCap
    <2>5. CASE ~doubled
      <3>1. pass'[s].at \in {"join", "loop"} =>
                joinCount[pass'[s].on] + pass'[s].limit <= JoinCap
        BY <2>3, <2>5 DEF JoinsWithinCap
      <3> QED BY <2>1, <2>2, <3>1, PassMoves
    <2> QED BY <1>0, <2>4, <2>5
  <1>7. CASE NewDay
    <2>1. /\ \A m \in Mobiles : joinCount'[m] = 0 /\ joined'[m] = 0
          /\ restarts' = 0 /\ doubled' = doubled /\ pass' = pass
      BY <1>7 DEF NewDay, Zero, tasks
    <2>2. JoinCap * restarts' = 0
      BY <2>1, Numbers
    <2>3. ASSUME ~doubled, NEW s \in Slots, pass[s].at \in {"join", "loop"}
          PROVE  pass[s].on \in Mobiles /\ 0 + pass[s].limit <= JoinCap
      <3>1. pass[s].on \in Mobiles /\ pass[s].limit \in Nat
        BY <1>0, <2>3, Numbers DEF Typed, Shaped, Passes
      <3>2. joinCount[pass[s].on] \in Nat
            /\ joinCount[pass[s].on] + pass[s].limit <= JoinCap
        BY <1>0, <2>3, <3>1 DEF JoinsWithinCap
      <3> QED BY <3>1, <3>2, Numbers
    <2> QED BY <2>1, <2>2, <2>3, Numbers DEF JoinsWithinCap
  <1>8. CASE Restart
    <2>1. /\ \A m \in Mobiles : joinCount'[m] = 0 /\ joined'[m] = joined[m]
          /\ \A s \in Slots : pass'[s].at = "idle"
          /\ restarts' = restarts + 1 /\ doubled' = doubled
      BY <1>8, Blanks DEF Restart, Zero
    <2>2. ~doubled => \A m \in Mobiles : joined[m] <= JoinCap * (restarts + 1) + 0
      <3> DEFINE b == JoinCap * restarts
      <3>1. b \in Nat /\ JoinCap * (restarts + 1) = b + JoinCap
        BY <1>0, OneMore, Numbers
      <3>2. ~doubled => \A m \in Mobiles : joined[m] <= b + joinCount[m] /\ joinCount[m] <= JoinCap
        BY DEF JoinsWithinCap
      <3> HIDE DEF b
      <3>3. ~doubled => \A m \in Mobiles : joined[m] <= b + JoinCap
        BY <1>0, <3>1, <3>2, Numbers
      <3>4. b + JoinCap + 0 = b + JoinCap
        BY <3>1, Numbers
      <3> QED BY <3>1, <3>3, <3>4
    <2> QED BY <2>1, <2>2, Numbers DEF JoinsWithinCap
  <1> QED BY <1>1, <1>2, <1>3, <1>4, <1>5, <1>6, <1>7, <1>8, JoinCapFrame

-----------------------------------------------------------------------------
(* The theorems. *)

LEMMA InitInductive == Init => IInv
  <1> SUFFICES ASSUME Init PROVE IInv
    OBVIOUS
  <1>1. /\ \A s \in Slots : pass[s].at = "idle" /\ round[s].at = "idle"
        /\ ~leaveFlag /\ ~joinFlag /\ leaveTimer.pending = 0 /\ ~leaveTimer.named
        /\ DOMAIN leaves = {} /\ restarts = 0 /\ joinCount = Zero /\ leaveCount = Zero
        /\ joined = Zero /\ left = Zero
    BY Blanks DEF Init, NoTimer
  <1>2. OneLeaving /\ JoinFlagHeld /\ LeaveNeverStalls
    BY <1>1 DEF OneLeaving, JoinFlagHeld, LeaveNeverStalls
  <1>3. LeaveCap * restarts = 0 /\ JoinCap * restarts = 0
    BY <1>1, Numbers
  <1>4. \A m \in Mobiles : Zero[m] = 0
    BY DEF Zero
  <1>5. LeavesWithinCap /\ JoinsWithinCap
    BY <1>1, <1>3, <1>4, Numbers DEF LeavesWithinCap, JoinsWithinCap
  <1> QED BY <1>2, <1>5, InitTyped DEF IInv

LEMMA StepInductive == IInv /\ [Next]_vars => IInv'
  BY TypedStep, OneLeavingStep, JoinFlagStep, LeavesStep, LeaveCapStep, JoinCapStep DEF IInv

LEMMA Inductive == Spec => []IInv
  BY InitInductive, StepInductive, PTL DEF Spec

\* Every reachable state of the queues is well typed: no counter leaves its
\* range, no timer is cleared that is not pending.
THEOREM TypeCorrect == Spec => []TypeOK
  <1>1. IInv => TypeOK
    BY DEF IInv, Typed
  <1> QED BY <1>1, Inductive, PTL

\* isLeaveChannelProcessing is set exactly while one leave pass runs, and
\* isJoinChannelProcessing is never left behind without a pass.
THEOREM FlagsHeld == Spec => []FlagsOwned
  <1>1. IInv => FlagsOwned
    BY DEF IInv, OneLeaving, JoinFlagHeld, FlagsOwned
  <1> QED BY <1>1, Inductive, PTL

\* No entry of leaveChannelMap is without a pass, a timer, a kick, or a sweep or
\* refill that will give one.
THEOREM LeavesTakenUp == Spec => []LeaveNeverStalls
  <1>1. IInv => LeaveNeverStalls
    BY DEF IInv
  <1> QED BY <1>1, Inductive, PTL

\* MAX_LEAVES_PER_DAY and maxChannelJoinsPerDay bound what Telegram saw in a day,
\* once for every life of the process.
THEOREM CapsRespected == Spec => []DailyCaps
  <1>1. IInv => DailyCaps
    <2> SUFFICES ASSUME IInv PROVE DailyCaps
      OBVIOUS
    <2> DEFINE l == LeaveCap * restarts
               j == JoinCap * restarts
    <2>1. /\ l \in Nat /\ j \in Nat
          /\ LeaveCap * (1 + restarts) = l + LeaveCap
          /\ JoinCap * (1 + restarts) = j + JoinCap
      BY OneMore, Numbers DEF IInv, Typed, TypeOK
    <2>2. /\ \A m \in Mobiles : left[m] <= l + leaveCount[m] /\ leaveCount[m] <= LeaveCap
          /\ ~doubled => \A m \in Mobiles :
                 joined[m] <= j + joinCount[m] /\ joinCount[m] <= JoinCap
      BY DEF IInv, LeavesWithinCap, JoinsWithinCap
    <2>3. /\ left \in [Mobiles -> Nat] /\ leaveCount \in [Mobiles -> Nat]
          /\ joined \in [Mobiles -> Nat] /\ joinCount \in [Mobiles -> Nat]
      BY DEF IInv, Typed, TypeOK
    <2> HIDE DEF l, j
    <2>4. \A m \in Mobiles : left[m] <= l + LeaveCap
      BY <2>1, <2>2, <2>3, Numbers
    <2>5. ~doubled => \A m \in Mobiles : joined[m] <= j + JoinCap
      BY <2>1, <2>2, <2>3, Numbers
    <2> QED BY <2>1, <2>4, <2>5 DEF DailyCaps
  <1> QED BY <1>1, Inductive, PTL

-----------------------------------------------------------------------------
(* The refinement of LeaveBudget. *)

\* What a batch in hand adds: one batch at most, and only for its mobile.
LEMMA HandOfNone ==
    ASSUME NEW r, NEW m, \A s \in Slots : r[s].at = "out" => r[s].on # m
    PROVE  InHand(r, m) = 0
  BY DEF InHand

LEMMA HandOfOne ==
    ASSUME NEW r, NEW m, NEW s \in Slots, r[s].at = "out", r[s].on = m,
           \A o \in Slots : r[o].at = "out" => o = s
    PROVE  InHand(r, m) = r[s].took
  <1> DEFINE out == {o \in Slots : r[o].at = "out" /\ r[o].on = m}
  <1>1. out # {} /\ (CHOOSE o \in out : TRUE) = s
    <2>1. \A o : o \in out <=> o = s
      OBVIOUS
    <2>2. out = {s}
      BY <2>1
    <2> HIDE DEF out
    <2> QED BY <2>2
  <1> QED BY <1>1 DEF InHand

LEMMA HandSame ==
    ASSUME NEW r, NEW q, NEW m,
           \A s \in Slots : r[s].at = "out" \/ q[s].at = "out" => q[s] = r[s]
    PROVE  InHand(q, m) = InHand(r, m)
  <1> DEFINE out == {s \in Slots : r[s].at = "out" /\ r[s].on = m}
  <1>1. out = {s \in Slots : q[s].at = "out" /\ q[s].on = m}
    OBVIOUS
  <1>2. ASSUME out # {}
        PROVE  q[CHOOSE s \in out : TRUE] = r[CHOOSE s \in out : TRUE]
    <2>1. (CHOOSE s \in out : TRUE) \in out
      BY <1>2
    <2> QED BY <2>1
  <1>3. InHand(r, m) = IF out = {} THEN 0 ELSE r[CHOOSE s \in out : TRUE].took
    BY DEF InHand
  <1>4. InHand(q, m) = IF {s \in Slots : q[s].at = "out" /\ q[s].on = m} = {} THEN 0
                       ELSE q[CHOOSE s \in {s \in Slots : q[s].at = "out" /\ q[s].on = m}
                                 : TRUE].took
    BY DEF InHand
  <1> HIDE DEF out
  <1> QED BY <1>1, <1>2, <1>3, <1>4

\* What the queue of a mobile is after an entry is put or dropped.
LEMMA QueuedAfter ==
    ASSUME NEW q, NEW m, NEW x, NEW n
    PROVE  /\ Queued(Drop(q, m), x) = IF x = m THEN 0 ELSE Queued(q, x)
           /\ Queued(Put(q, m, n), x) = IF x = m THEN n ELSE Queued(q, x)
  <1>1. Queued(Drop(q, m), x) = IF x = m THEN 0 ELSE Queued(q, x)
    BY DEF Queued, Drop
  <1>2. Queued(Put(q, m, n), x) = IF x = m THEN n ELSE Queued(q, x)
    BY DEF Queued, Put
  <1> QED BY <1>1, <1>2

\* What is owed: natural numbers, and the batch in hand is the only one.
LEMMA OwedFacts ==
    ASSUME Typed, OneLeaving
    PROVE  /\ \A m \in Mobiles : /\ Queued(leaves, m) \in Nat
                                 /\ InHand(round, m) \in 0 .. LeaveBatch
           /\ Owed(leaves, round) \in [Mobiles -> Nat]
           /\ \A s, o \in Slots : round[s].at # "idle" /\ round[o].at # "idle" => s = o
           /\ \A s \in Slots : round[s].at = "out" =>
                  /\ round[s].on \in Mobiles /\ round[s].took \in Nat /\ round[s].took > 0
                  /\ InHand(round, round[s].on) = round[s].took
           /\ \A s \in Slots : round[s].at = "pick" =>
                  \A m \in Mobiles : InHand(round, m) = 0
  <1>1. /\ round \in [Slots -> Rounds]
        /\ \A s \in Slots : round[s].took \in 0 .. LeaveBatch /\ round[s].took \in Nat
        /\ \A s \in Slots : round[s].at = "out" => round[s].on \in Mobiles /\ round[s].took > 0
    BY DEF Typed, TypeOK, Shaped, Rounds
  <1>2. \A m \in Mobiles : Queued(leaves, m) \in Nat
    BY DEF Typed, TypeOK, Queued
  <1>3. \A s, o \in Slots : round[s].at # "idle" /\ round[o].at # "idle" => s = o
    BY DEF OneLeaving
  <1>4. ASSUME NEW s \in Slots, round[s].at = "out"
        PROVE  InHand(round, round[s].on) = round[s].took
    BY <1>3, <1>4, HandOfOne
  <1>5. ASSUME NEW s \in Slots, round[s].at = "pick", NEW m \in Mobiles
        PROVE  InHand(round, m) = 0
    <2>1. \A o \in Slots : round[o].at # "out"
      BY <1>3, <1>5
    <2> QED BY <2>1, HandOfNone
  <1>6. ASSUME NEW m \in Mobiles PROVE InHand(round, m) \in 0 .. LeaveBatch
    <2>1. CASE \E s \in Slots : round[s].at = "out" /\ round[s].on = m
      BY <1>1, <1>4, <2>1
    <2>2. CASE ~ \E s \in Slots : round[s].at = "out" /\ round[s].on = m
      BY <2>2, HandOfNone, Numbers
    <2> QED BY <2>1, <2>2
  <1>7. Owed(leaves, round) \in [Mobiles -> Nat]
    <2>1. \A m \in Mobiles : Queued(leaves, m) + InHand(round, m) \in Nat
      BY <1>2, <1>6, Numbers
    <2> QED BY <2>1 DEF Owed
  <1> QED BY <1>1, <1>2, <1>3, <1>4, <1>5, <1>6, <1>7

\* Steps of LeaveBudget, from what they do to one mobile.
LEMMA BudgetStep ==
    ASSUME NEW d, NEW e, NEW m \in Mobiles,
           d \in [Mobiles -> Nat], e \in [Mobiles -> Nat],
           \A x \in Mobiles \ {m} : e[x] = d[x]
    PROVE  e = [d EXCEPT ![m] = e[m]]
  OBVIOUS

Same == Owed(leaves, round)' = Owed(leaves, round) /\ UNCHANGED <<left, restarts>>

LEMMA OwedSame ==
    ASSUME UNCHANGED <<left, restarts>>,
           \A m \in Mobiles : Queued(leaves', m) + InHand(round', m)
                                  = Queued(leaves, m) + InHand(round, m)
    PROVE  Same
  BY DEF Same, Owed

\* What a scan queues is owed from then on.
LEMMA ScanOwes ==
    ASSUME Typed, OneLeaving, NEW m \in Mobiles, NEW n \in 1 .. Batch, NeedsLeaves(m, n),
           UNCHANGED <<round, left, restarts>>
    PROVE  Same \/ Budget!Owe(m, n)
  <1> DEFINE d == Owed(leaves, round)
             e == Owed(leaves', round')
  <1>1. CASE ~Fits(leaves, m)
    <2>1. leaves' = leaves
      BY <1>1 DEF NeedsLeaves, SafeSet
    <2> QED BY <2>1 DEF Same
  <1>2. CASE Fits(leaves, m)
    <2>1. leaves' = Put(leaves, m, n) /\ Queued(leaves, m) = 0
      BY <1>2 DEF NeedsLeaves, SafeSet, Queued
    <2>2. /\ \A x \in Mobiles \ {m} : Queued(leaves', x) = Queued(leaves, x)
          /\ Queued(leaves', m) = n
      BY <2>1, QueuedAfter
    <2>3. /\ d \in [Mobiles -> Nat] /\ d[m] = InHand(round, m) /\ d[m] <= LeaveBatch
          /\ InHand(round, m) \in Nat
      BY <2>1, OwedFacts, Numbers DEF Owed
    <2>4. /\ e = [x \in Mobiles |-> e[x]] /\ e[m] = d[m] + n
          /\ \A x \in Mobiles \ {m} : e[x] = d[x]
      BY <2>2, <2>3 DEF Owed
    <2> HIDE DEF d, e
    <2>5. e \in [Mobiles -> Nat]
      <3>1. \A x \in Mobiles : e[x] \in Nat
        BY <2>3, <2>4
      <3> QED BY <2>4, <3>1
    <2>6. e = [d EXCEPT ![m] = d[m] + n]
      BY <2>3, <2>4, <2>5, BudgetStep
    <2> QED BY <2>3, <2>6 DEF Budget!Owe, d, e
  <1> QED BY <1>1, <1>2

\* A step that leaves mobile m owing less, and gone no further.
LEMMA Forgets ==
    ASSUME Typed, OneLeaving, NEW m \in Mobiles, NEW n \in Nat,
           UNCHANGED <<left, restarts>>,
           \A x \in Mobiles \ {m} : Queued(leaves', x) + InHand(round', x)
                                        = Queued(leaves, x) + InHand(round, x),
           Queued(leaves', m) + InHand(round', m) = n,
           n <= Queued(leaves, m) + InHand(round, m)
    PROVE  Same \/ \E k \in 0 .. Owed(leaves, round)[m] : Budget!Forget(m, k)
  <1> DEFINE d == Owed(leaves, round)
             e == Owed(leaves', round')
  <1>1. /\ d \in [Mobiles -> Nat] /\ d[m] = Queued(leaves, m) + InHand(round, m)
        /\ e = [x \in Mobiles |-> e[x]] /\ e[m] = n
        /\ \A x \in Mobiles \ {m} : e[x] = d[x]
    BY OwedFacts DEF Owed
  <1> HIDE DEF d, e
  <1>2. e \in [Mobiles -> Nat]
    <2>1. \A x \in Mobiles : e[x] \in Nat
      BY <1>1
    <2> QED BY <1>1, <2>1
  <1>3. e = [d EXCEPT ![m] = n]
    BY <1>1, <1>2, BudgetStep
  <1>4. CASE n = d[m]
    <2>1. e = d
      BY <1>1, <1>3, <1>4
    <2> QED BY <2>1 DEF Same, d, e
  <1>5. CASE n # d[m]
    <2>1. n < d[m] /\ n \in 0 .. d[m]
      BY <1>1, <1>5
    <2> QED BY <1>3, <2>1 DEF Budget!Forget, d, e
  <1> QED BY <1>4, <1>5

LEMMA TakeWithinQueue ==
    ASSUME NEW m \in Mobiles, TypeOK, m \in DOMAIN leaves, Allowance(m) > 0
    PROVE  /\ Take(m) \in Nat /\ Take(m) <= leaves[m] /\ leaves[m] \in Nat
           /\ Queued(leaves, m) = leaves[m]
  <1>1. LeaveBatch \in Int /\ Allowance(m) \in Int /\ leaves[m] \in Int /\ leaves[m] \in Nat
    BY Numbers DEF TypeOK, Allowance
  <1>2. Take(m) <= leaves[m]
    BY <1>1, LeastOfThree DEF Take
  <1> QED BY <1>1, <1>2, TakeLimits, Numbers DEF Queued

\* A batch taken off the queue is still owed; what does not fit into the day is
\* forgotten.
LEMMA PickForgets ==
    ASSUME Typed, OneLeaving, NEW s \in Slots, NEW m \in Mobiles, LeavePick(s, m)
    PROVE  Same \/ \E k \in 0 .. Owed(leaves, round)[m] : Budget!Forget(m, k)
  <1>1. /\ UNCHANGED <<left, restarts>>
        /\ round \in [Slots -> Rounds] /\ round[s].at = "pick"
        /\ \A x \in Mobiles : InHand(round, x) = 0 /\ Queued(leaves, x) \in Nat
        /\ \A o \in Slots \ {s} : round[o].at = "idle"
    BY OwedFacts DEF LeavePick, today, Typed, TypeOK, Rounds
  <1>2. CASE /\ RemoveFromLeaveMap(m)
             /\ round' = [round EXCEPT ![s].keys = @ \ {m}]
    <2>1. \A o \in Slots : round'[o].at # "out"
      BY <1>1, <1>2 DEF Rounds
    <2>2. \A x \in Mobiles : InHand(round', x) = 0
      BY <2>1, HandOfNone
    <2>a. leaves' = Drop(leaves, m)
      BY <1>2 DEF RemoveFromLeaveMap
    <2>3. \A x \in Mobiles : Queued(leaves', x) = IF x = m THEN 0 ELSE Queued(leaves, x)
      BY <2>a, QueuedAfter
    <2>4. /\ Queued(leaves', m) + InHand(round', m) = 0 /\ 0 \in Nat
          /\ 0 <= Queued(leaves, m) + InHand(round, m)
      BY <1>1, <2>2, <2>3
    <2>5. \A x \in Mobiles \ {m} : Queued(leaves', x) + InHand(round', x)
                                      = Queued(leaves, x) + InHand(round, x)
      BY <1>1, <2>2, <2>3
    <2>6. UNCHANGED <<left, restarts>>
      BY <1>1
    <2> QED BY <2>4, <2>5, <2>6, Forgets
  <1>3. CASE /\ m \in DOMAIN leaves /\ Allowance(m) > 0
             /\ IF leaves[m] > Take(m) /\ Allowance(m) > Take(m)
                THEN leaves' = Put(leaves, m, leaves[m] - Take(m)) /\ UNCHANGED leaveTimer
                ELSE RemoveFromLeaveMap(m)
             /\ round' = [round EXCEPT ![s] = [at |-> "out", keys |-> @.keys \ {m},
                                               on |-> m, took |-> Take(m)]]
    <2>1. /\ Take(m) \in Nat /\ Take(m) <= leaves[m] /\ leaves[m] \in Nat
          /\ Queued(leaves, m) = leaves[m]
      BY <1>3, TakeWithinQueue DEF Typed
    <2>2. /\ round'[s].at = "out" /\ round'[s].on = m /\ round'[s].took = Take(m)
          /\ \A o \in Slots : round'[o].at = "out" => o = s
      BY <1>1, <1>3
    <2>3. /\ InHand(round', m) = Take(m)
          /\ \A x \in Mobiles \ {m} : InHand(round', x) = 0
      BY <2>2, HandOfOne, HandOfNone
    <2>4. CASE leaves' = Put(leaves, m, leaves[m] - Take(m))
      <3>1. \A x \in Mobiles :
                Queued(leaves', x) = IF x = m THEN leaves[m] - Take(m) ELSE Queued(leaves, x)
        BY <2>4, QueuedAfter
      <3>2. Queued(leaves', m) + InHand(round', m) = leaves[m]
        BY <2>1, <2>3, <3>1
      <3> QED BY <1>1, <2>1, <2>3, <3>1, <3>2, OwedSame
    <2>5. CASE RemoveFromLeaveMap(m)
      <3>1. \A x \in Mobiles : Queued(leaves', x) = IF x = m THEN 0 ELSE Queued(leaves, x)
        BY <2>5, QueuedAfter DEF RemoveFromLeaveMap
      <3>2. Queued(leaves', m) + InHand(round', m) = Take(m)
        BY <2>1, <2>3, <3>1
      <3>3. Take(m) <= Queued(leaves, m) + InHand(round, m)
        BY <1>1, <2>1
      <3> QED BY <1>1, <2>1, <2>3, <3>1, <3>2, <3>3, Forgets
    <2> QED BY <1>3, <2>4, <2>5
  <1> QED BY <1>2, <1>3 DEF LeavePick

\* A batch comes back: its chats are left, owed as before, or forgotten.
LEMMA ReturnAnswers ==
    ASSUME Typed, OneLeaving, LeavesWithinCap, NEW s \in Slots, LeaveReturns(s)
    PROVE  \/ Same
           \/ \E m \in Mobiles :
                  \/ \E n \in 1 .. Owed(leaves, round)[m] : Budget!Leave(m, n)
                  \/ \E n \in 0 .. Owed(leaves, round)[m] : Budget!Forget(m, n)
  <1> DEFINE m == round[s].on
             n == round[s].took
             d == Owed(leaves, round)
             e == Owed(leaves', round')
  <1>1. /\ restarts' = restarts /\ round \in [Slots -> Rounds] /\ round[s].at = "out"
        /\ m \in Mobiles /\ n \in Nat /\ n > 0 /\ InHand(round, m) = n
        /\ \A x \in Mobiles : Queued(leaves, x) \in Nat
        /\ \A o \in Slots \ {s} : round[o].at = "idle"
        /\ d \in [Mobiles -> Nat]
    BY OwedFacts DEF LeaveReturns, Typed, TypeOK, Rounds
  <1>2. \A x \in Mobiles \ {m} : InHand(round, x) = 0
    BY <1>1, HandOfNone
  <1>3. \A o \in Slots : round'[o].at # "out"
    BY <1>1 DEF LeaveReturns, BackToPick, Rounds
  <1>4. \A x \in Mobiles : InHand(round', x) = 0
    BY <1>3, HandOfNone
  <1>5. CASE /\ left' = [left EXCEPT ![m] = @ + n]
             /\ leaveCount' = [leaveCount EXCEPT ![m] = @ + n]
             /\ leaves' = leaves
    <2>1. /\ d[m] = Queued(leaves, m) + n /\ e[m] = Queued(leaves, m)
          /\ e = [x \in Mobiles |-> e[x]]
          /\ \A x \in Mobiles \ {m} : e[x] = d[x]
      BY <1>1, <1>2, <1>4, <1>5 DEF Owed
    <2>2. left[m] + n <= LeaveCap * (1 + restarts)
      <3> DEFINE b == LeaveCap * restarts
      <3>1. b \in Nat /\ LeaveCap * (1 + restarts) = b + LeaveCap
        BY OneMore, Numbers DEF Typed, TypeOK
      <3>2. /\ left[m] \in Nat /\ leaveCount[m] \in Nat
            /\ left[m] <= b + leaveCount[m] /\ leaveCount[m] + n <= LeaveCap
        BY <1>1 DEF LeavesWithinCap, Typed, TypeOK
      <3> HIDE DEF b, m, n
      <3>3. left[m] + n <= b + LeaveCap
        BY <1>1, <3>1, <3>2, Numbers
      <3> QED BY <3>1, <3>3
    <2> HIDE DEF d, e, m, n
    <2>3. e \in [Mobiles -> Nat]
      <3>1. \A x \in Mobiles : e[x] \in Nat
        BY <1>1, <2>1
      <3> QED BY <2>1, <3>1
    <2>4. e[m] = d[m] - n /\ n \in 1 .. d[m]
      BY <1>1, <2>1
    <2>5. e = [d EXCEPT ![m] = d[m] - n]
      BY <1>1, <2>1, <2>3, <2>4, BudgetStep
    <2>6. Budget!Leave(m, n)
      BY <1>1, <1>5, <2>2, <2>4, <2>5 DEF Budget!Leave, d, e
    <2> QED BY <1>1, <2>4, <2>6 DEF d
  <1>6. CASE leaves' = SafeSet(leaves, m, n + Queued(leaves, m)) /\ left' = left
    <2>1. CASE Fits(leaves, m)
      <3>1. \A x \in Mobiles : Queued(leaves', x) =
                IF x = m THEN n + Queued(leaves, m) ELSE Queued(leaves, x)
        BY <1>6, <2>1, QueuedAfter DEF SafeSet
      <3> HIDE DEF m, n
      <3>2. \A x \in Mobiles : Queued(leaves', x) + InHand(round', x)
                                   = Queued(leaves, x) + InHand(round, x)
        BY <1>1, <1>2, <1>4, <3>1
      <3> QED BY <1>1, <1>6, <3>2, OwedSame
    <2>2. CASE ~Fits(leaves, m)
      <3>1. leaves' = leaves /\ Queued(leaves, m) = 0
        BY <1>6, <2>2 DEF SafeSet, Fits, Queued
      <3> HIDE DEF m, n
      <3>2. Queued(leaves', m) + InHand(round', m) = 0
        BY <1>1, <1>4, <3>1
      <3> QED BY <1>1, <1>2, <1>4, <1>6, <3>1, <3>2, Forgets
    <2> QED BY <2>1, <2>2
  <1>7. CASE RemoveFromLeaveMap(m) /\ left' = left
    <2>1. \A x \in Mobiles : Queued(leaves', x) = IF x = m THEN 0 ELSE Queued(leaves, x)
      BY <1>7, QueuedAfter DEF RemoveFromLeaveMap
    <2> HIDE DEF m, n
    <2>2. Queued(leaves', m) + InHand(round', m) = 0
      BY <1>1, <1>4, <2>1
    <2>3. 0 <= Queued(leaves, m) + InHand(round, m)
      BY <1>1
    <2> QED BY <1>1, <1>2, <1>4, <1>7, <2>1, <2>2, <2>3, Forgets
  <1> QED BY <1>5, <1>6, <1>7 DEF LeaveReturns

\* Every action but these leaves queue, batches and history alone.
LEMMA BudgetFrame ==
    ASSUME [Next]_vars
    PROVE  \/ UNCHANGED <<leaves, round, left, restarts>>
           \/ /\ UNCHANGED <<round, left, restarts>>
              /\ \E m \in Mobiles, n \in 1 .. Batch : NeedsLeaves(m, n)
           \/ LeaveTimerFires \/ NewDay \/ Restart
           \/ \E s \in Slots, m \in Mobiles : LeavePick(s, m)
           \/ \E s \in Slots : LeaveReturns(s) \/ LeavePassEnds(s)
  <1>1. CASE Filling
    BY ZenonT(60), <1>1 DEF Filling, SweepRefreshes, SweepEnds, SweepVisits, RefillVisits, RefillEnds,
                NeedsNothing, NeedsJoins, IsDead, queues, today
  <1>2. CASE Joining
    BY ZenonT(60), <1>2 DEF Joining, JoinKick, JoinTimerFires, JoinPick, JoinTaken, JoinSkipped,
                JoinLoop, JoinRequested, JoinThrows, JoinRecounted, JoinPassEnds,
                queues, tasks, today
  <1>3. CASE SweepStarts \/ LeaveKick \/ UNCHANGED vars
    BY <1>3 DEF SweepStarts, LeaveKick, vars, queues, tasks, today
  <1> QED BY <1>1, <1>2, <1>3 DEF Next, Leaving

LEMMA BudgetSteps ==
    ASSUME Typed, OneLeaving, LeavesWithinCap, [Next]_vars
    PROVE  [Budget!Next]_<<Owed(leaves, round), left, restarts>>
  <1>0. round \in [Slots -> Rounds]
    BY DEF Typed, TypeOK, Rounds
  <1>1. CASE UNCHANGED <<leaves, round, left, restarts>>
    BY <1>1
  <1>2. ASSUME UNCHANGED <<round, left, restarts>>, NEW m \in Mobiles, NEW n \in 1 .. Batch,
               NeedsLeaves(m, n)
        PROVE  Same \/ Budget!Next
    BY <1>2, ScanOwes DEF Budget!Next
  <1>3. ASSUME UNCHANGED <<leaves, left, restarts>>,
               \A s \in Slots : round[s].at # "out" /\ round'[s].at # "out"
        PROVE  Same
    <2>1. \A m \in Mobiles : InHand(round', m) = 0 /\ InHand(round, m) = 0
      BY <1>3, HandOfNone
    <2> QED BY <1>3, <2>1, OwedSame
  <1>4. ASSUME LeaveTimerFires PROVE Same
    <2>1. UNCHANGED <<leaves, left, restarts>>
      BY <1>4 DEF LeaveTimerFires, queues, today
    <2>2. CASE UNCHANGED round
      BY <2>1, <2>2 DEF Same
    <2>3. CASE /\ ~leaveFlag
               /\ \E s \in Slots :
                      round' = [round EXCEPT ![s] =
                                    [NoRound EXCEPT !.at = "pick", !.keys = DOMAIN leaves]]
      <3>1. \A s \in Slots : round[s].at = "idle"
        BY <2>3 DEF OneLeaving
      <3>2. \A s \in Slots : round'[s].at # "out"
        BY <1>0, <2>3, <3>1 DEF NoRound
      <3>3. \A s \in Slots : round[s].at # "out"
        BY <3>1
      <3> QED BY <1>3, <2>1, <3>2, <3>3
    <2> QED BY <1>4, <2>2, <2>3 DEF LeaveTimerFires
  <1>5. ASSUME NEW s \in Slots, LeavePassEnds(s) PROVE Same
    <2>1. UNCHANGED <<leaves, left, restarts>> /\ round[s].at = "pick"
      BY <1>5 DEF LeavePassEnds, queues, today
    <2>2. \A o \in Slots : round[o].at # "out" /\ round'[o].at # "out"
      BY <1>0, <1>5, <2>1, Blanks DEF LeavePassEnds, OneLeaving
    <2> QED BY <1>3, <2>1, <2>2
  <1>6. CASE NewDay
    <2>1. UNCHANGED <<leaves, round>> /\ left' = Zero /\ restarts' = 0
      BY <1>6 DEF NewDay, queues, tasks
    <2> QED BY <2>1 DEF Budget!Next, Budget!NewDay, Budget!Zero, Zero
  <1>7. CASE Restart
    <2>1. /\ DOMAIN leaves' = {} /\ \A s \in Slots : round'[s].at # "out"
          /\ restarts' = restarts + 1 /\ left' = left
      BY <1>7, Blanks DEF Restart
    <2>2. \A m \in Mobiles : Queued(leaves', m) = 0 /\ InHand(round', m) = 0
      BY <2>1, HandOfNone DEF Queued
    <2>3. Owed(leaves', round') = [m \in Mobiles |-> 0]
      BY <2>2 DEF Owed
    <2> QED BY <2>1, <2>3 DEF Budget!Next, Budget!Restart, Budget!Zero
  <1>8. Same \/ Budget!Next => [Budget!Next]_<<Owed(leaves, round), left, restarts>>
    BY DEF Same
  <1>9. ASSUME NEW s \in Slots, LeaveReturns(s) PROVE Same \/ Budget!Next
    BY <1>9, ReturnAnswers DEF Budget!Next
  <1>10. ASSUME NEW s \in Slots, NEW m \in Mobiles, LeavePick(s, m)
         PROVE  Same \/ Budget!Next
    BY <1>10, PickForgets DEF Budget!Next
  <1> QED BY <1>1, <1>2, <1>4, <1>5, <1>6, <1>7, <1>8, <1>9, <1>10, BudgetFrame

\* The leave queue keeps the books of LeaveBudget: no more is left than scans have
\* found, no more in a day than the cap, and what an account owes does not pile up.
THEOREM BudgetRefinement == Spec => ImplementsBudget
  <1>1. Init => Budget!Init
    <2> SUFFICES ASSUME Init PROVE Budget!Init
      OBVIOUS
    <2>1. /\ DOMAIN leaves = {} /\ \A s \in Slots : round[s].at # "out"
          /\ left = Zero /\ restarts = 0
      BY Blanks DEF Init
    <2>2. \A m \in Mobiles : Queued(leaves, m) = 0 /\ InHand(round, m) = 0
      BY <2>1, HandOfNone DEF Queued
    <2>3. Owed(leaves, round) = [m \in Mobiles |-> 0]
      BY <2>2 DEF Owed
    <2> QED BY <2>1, <2>3 DEF Budget!Init, Budget!Zero, Zero
  <1>2. IInv /\ [Next]_vars => [Budget!Next]_<<Owed(leaves, round), left, restarts>>
    BY BudgetSteps DEF IInv
  <1> QED BY <1>1, <1>2, Inductive, PTL DEF Spec, ImplementsBudget, Budget!Spec
=============================================================================
