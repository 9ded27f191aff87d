--------------------------- MODULE Warmup_proofs ---------------------------
(* Proofs about Warmup, for any thresholds, gaps and bounds.                  *)
(* For any number of processes:                                               *)
(*   TypeCorrect        every reachable state is well typed                   *)
(*   SupplyPrepared     an account offered as supply is prepared              *)
(*   RevokeProtected    sessions are revoked behind our password only         *)
(* When one process runs checks and rotations:                                *)
(*   PhasesForward      no account goes back to an earlier phase              *)
(*   NoneStranded       no READY account is cut off from its rotation         *)
(*   StepsApart         every step keeps its distance from the one before     *)
(*   AccountRefinement  the pool sees READY, supply and main in this order     *)
EXTENDS Warmup, TLAPS

-----------------------------------------------------------------------------
(* Types. *)

LEMMA Numbers ==
    /\ Floor \in Nat /\ Cooldown \in Nat /\ ResetAfter \in Nat /\ FailCap \in Nat
    /\ AgeCap \in Nat /\ GapCap \in Nat /\ MaxCrashes \in Nat /\ MaxReturns \in Nat
    /\ Threshold.growing \in 0 .. AgeCap
    /\ 0 \in 0 .. FailCap /\ 0 \in 0 .. Cooldown /\ Cooldown \in 0 .. Cooldown
    /\ 0 \in 0 .. (ResetAfter + 1) /\ ResetAfter + 1 \in 0 .. (ResetAfter + 1)
    /\ 0 \in 0 .. GapCap /\ GapCap \in 0 .. GapCap
    /\ 0 \in 0 .. Floor /\ Floor \in 0 .. Floor
    /\ 0 \in 0 .. AgeCap /\ AgeCap \in 0 .. AgeCap /\ 0 \in 0 .. MaxCrashes
    /\ 0 \in 0 .. MaxReturns
  BY ThresholdAssumption, FailureAssumption, CapAssumption

\* A document stays one when a field is set to a value of its type.
LEMMA DocField ==
    ASSUME NEW d \in Doc
    PROVE  /\ \A x \in Phases : [d EXCEPT !.phase = x] \in Doc
           /\ \A x \in BOOLEAN : /\ [d EXCEPT !.active = x] \in Doc
                                 /\ [d EXCEPT !.inUse = x] \in Doc
                                 /\ [d EXCEPT !.rotated = x] \in Doc
           /\ \A x \in 0 .. Floor : [d EXCEPT !.channels = x] \in Doc
           /\ \A x \in 0 .. AgeCap : [d EXCEPT !.age = x] \in Doc
           /\ \A x \in SUBSET Steps : [d EXCEPT !.done = x] \in Doc
           /\ \A x \in [Steps -> 0 .. GapCap] : [d EXCEPT !.since = x] \in Doc
           /\ \A x \in 0 .. FailCap : [d EXCEPT !.fails = x] \in Doc
           /\ \A x \in 0 .. (ResetAfter + 1) : [d EXCEPT !.failed = x] \in Doc
           /\ \A x \in 0 .. Cooldown : [d EXCEPT !.tried = x] \in Doc
  <1> DEFINE Times == [Steps -> 0 .. GapCap]
  <1>1. \A x \in Phases : [d EXCEPT !.phase = x] \in Doc
    BY DEF Doc
  <1>2. \A x \in BOOLEAN : /\ [d EXCEPT !.active = x] \in Doc
                           /\ [d EXCEPT !.inUse = x] \in Doc
                           /\ [d EXCEPT !.rotated = x] \in Doc
    BY DEF Doc
  <1>3. \A x \in 0 .. Floor : [d EXCEPT !.channels = x] \in Doc
    BY DEF Doc
  <1>4. \A x \in 0 .. AgeCap : [d EXCEPT !.age = x] \in Doc
    BY DEF Doc
  <1>5. \A x \in SUBSET Steps : [d EXCEPT !.done = x] \in Doc
    BY DEF Doc
  <1>6. \A x \in Times : [d EXCEPT !.since = x] \in Doc
    BY DEF Doc
  <1>7. \A x \in 0 .. FailCap : [d EXCEPT !.fails = x] \in Doc
    BY DEF Doc
  <1>8. \A x \in 0 .. (ResetAfter + 1) : [d EXCEPT !.failed = x] \in Doc
    BY DEF Doc
  <1>9. \A x \in 0 .. Cooldown : [d EXCEPT !.tried = x] \in Doc
    BY DEF Doc
  <1> QED BY <1>1, <1>2, <1>3, <1>4, <1>5, <1>6, <1>7, <1>8, <1>9

\* What the operators on documents return.
LEMMA DocOps ==
    ASSUME NEW d \in Doc
    PROVE  /\ View(d) \in Seen
           /\ Cleared(d) \in Doc /\ Deactivated(d) \in Doc
           /\ \A s \in Steps : Stamped(d, s) \in Doc
           /\ \A n \in 0 .. FailCap : Failed(d, n) \in Doc
  <1>1. View(d) \in Seen
    BY DEF View, Seen, Doc
  <1>2. Cleared(d) \in Doc
    <2>1. [d EXCEPT !.fails = 0] \in Doc
      BY Numbers, DocField
    <2> QED BY <2>1, Numbers, DocField DEF Cleared
  <1>3. Deactivated(d) \in Doc
    <2>1. [d EXCEPT !.active = FALSE] \in Doc
      BY DocField
    <2> QED BY <2>1, DocField DEF Deactivated
  <1>4. ASSUME NEW s \in Steps PROVE Stamped(d, s) \in Doc
    <2> DEFINE e == Cleared(d)
               f == [e EXCEPT !.done = e.done \cup {s}]
               g == [f EXCEPT !.since = [f.since EXCEPT ![s] = 0]]
    <2>1. e.done \cup {s} \in SUBSET Steps
      BY <1>2 DEF Doc
    <2>2. f \in Doc
      BY <1>2, <2>1, DocField
    <2>3. [f.since EXCEPT ![s] = 0] \in [Steps -> 0 .. GapCap]
      BY <2>2, Numbers DEF Doc
    <2>4. g \in Doc
      BY <2>2, <2>3, DocField
    <2>5. Stamped(d, s) = [g EXCEPT !.tried = 0]
      BY DEF Stamped
    <2> HIDE DEF g
    <2> QED BY <2>4, <2>5, Numbers, DocField
  <1>5. ASSUME NEW n \in 0 .. FailCap PROVE Failed(d, n) \in Doc
    <2> DEFINE e == [d EXCEPT !.fails = Capped(n + 1)]
               f == [e EXCEPT !.failed = 0]
    <2>1. Capped(n + 1) \in 0 .. FailCap
      BY Numbers DEF Capped
    <2>2. e \in Doc
      BY <2>1, DocField
    <2>3. f \in Doc
      BY <2>2, Numbers, DocField
    <2>4. Failed(d, n) = [f EXCEPT !.tried = 0]
      BY DEF Failed
    <2> HIDE DEF f
    <2> QED BY <2>3, <2>4, Numbers, DocField
  <1> QED BY <1>1, <1>2, <1>3, <1>4, <1>5

\* The phase machine answers with a phase and an action.
LEMMA PlanTyped ==
    ASSUME NEW d \in Doc
    PROVE  WarmupAction(d).phase \in Phases /\ WarmupAction(d).action \in Actions
  <1>1. /\ SettlingStep(d) \in Actions \cup {"none"}
        /\ IdentityStep(d) \in Actions \cup {"none"}
        /\ FinalStep(d) \in Actions
    BY DEF SettlingStep, IdentityStep, FinalStep, After, Actions, Steps, Revoke
  <1>2. MissedStep(d) \in Actions \cup {"none"}
    BY <1>1 DEF MissedStep, After, Actions
  <1>3. /\ FromSettling(d).phase \in Phases /\ FromSettling(d).action \in Actions
        /\ FromIdentity(d).phase \in Phases /\ FromIdentity(d).action \in Actions
    BY <1>1 DEF FromSettling, FromIdentity, To, Phases, Actions, Steps
  <1>4. /\ FromGrowing(d).phase \in Phases /\ FromGrowing(d).action \in Actions
        /\ FromMaturing(d).phase \in Phases /\ FromMaturing(d).action \in Actions
        /\ FromReady(d).phase \in Phases /\ FromReady(d).action \in Actions
    BY <1>1, <1>2 DEF FromGrowing, FromMaturing, FromReady, To, Phases, Actions
  <1>5. d.phase \in Phases
    BY DEF Doc
  <1> QED BY <1>3, <1>4, <1>5
          DEF WarmupAction, To, Phases, Actions, Steps

CheckType == [at : {"idle", "health", "planned", "begun", "acting", "stamp"},
              phase : Phases, action : Actions, seen : Seen, first : 0 .. FailCap]
SweepType == [at : {"idle", "asked", "resolving", "verifying"},
              fails : 0 .. FailCap, backup : Kept \cup Procs]
SwapType  == [picked : BOOLEAN, main : BOOLEAN, returns : 0 .. MaxReturns]

LEMMA FreshTyped ==
    FreshDoc \in Doc /\ NoCheck \in CheckType /\ NoSweep \in SweepType
  <1> USE Numbers
  <1>1. FreshDoc \in Doc
    BY DEF FreshDoc, Doc, Phases, Steps
  <1>2. NoCheck \in CheckType
    BY <1>1, DocOps DEF NoCheck, CheckType, Phases, Actions
  <1>3. NoSweep \in SweepType
    BY DEF NoSweep, SweepType, Kept
  <1> QED BY <1>1, <1>2, <1>3

\* What is stamped is a step: without it a stamp could leave the steps.
StampsStep == \A p \in Procs : check[p].at = "stamp" => check[p].action \in Steps
TypeInv == TypeOK /\ StampsStep

LEMMA TypeInit == Init => TypeInv
  <1> SUFFICES ASSUME Init PROVE TypeInv
    OBVIOUS
  <1>4. StampsStep
    BY DEF Init, StampsStep, NoCheck
  <1>1. doc \in Doc
    <2>1. CASE doc = FreshDoc
      BY <2>1, FreshTyped
    <2>2. ASSUME NEW f \in {"growing", "maturing"}, NEW s \in Legacy, NEW c \in {0, Floor},
                 NEW a \in {Threshold.growing, AgeCap},
                 doc = [FreshDoc EXCEPT !.phase = f, !.done = s, !.channels = c, !.age = a]
          PROVE  doc \in Doc
      <3>1. s \in SUBSET Steps /\ f \in Phases /\ c \in 0 .. Floor
        BY LegacyAssumption, Numbers DEF Phases
      <3>2. a \in 0 .. AgeCap
        BY Numbers
      <3> QED BY <2>2, <3>1, <3>2, FreshTyped DEF Doc
    <2> QED BY <2>1, <2>2 DEF Init
  <1>2. check \in [Procs -> CheckType] /\ sweep \in [Procs -> SweepType]
    BY FreshTyped DEF Init
  <1>3. crashes \in 0 .. MaxCrashes
    <2>1. crashes = 0
      BY DEF Init
    <2> QED BY <2>1, Numbers
  <1>5. swap \in SwapType
    BY Numbers DEF Init, SwapType
  <1> QED BY <1>1, <1>2, <1>3, <1>4, <1>5
          DEF Init, TypeOK, CheckType, SweepType, SwapType, TypeInv

\* A run that is over keeps its process well typed.
LEMMA LeaveTyped ==
    ASSUME TypeOK, NEW p \in Procs, Leave(p)
    PROVE  check' \in [Procs -> CheckType]
  BY FreshTyped DEF TypeOK, Leave, CheckType

LEMMA EndSweepTyped ==
    ASSUME TypeOK, NEW p \in Procs, EndSweep(p)
    PROVE  sweep' \in [Procs -> SweepType]
  BY FreshTyped DEF TypeOK, EndSweep, SweepType

LEMMA TypeStep == TypeInv /\ [Next]_vars => TypeOK'
  <1> SUFFICES ASSUME TypeOK, StampsStep, [Next]_vars PROVE TypeOK'
    BY DEF TypeInv
  <1>0. /\ doc \in Doc
        /\ check \in [Procs -> CheckType]
        /\ sweep \in [Procs -> SweepType]
    BY DEF TypeOK, CheckType, SweepType
  <1>1. ASSUME NEW p \in Procs, Plan(p) PROVE TypeOK'
    <2>1. WarmupAction(doc).phase \in Phases /\ WarmupAction(doc).action \in Actions
      BY <1>0, PlanTyped
    <2>2. View(doc) \in Seen /\ 0 \in 0 .. FailCap
      BY <1>0, DocOps, FailureAssumption
    <2>3. check' \in [Procs -> CheckType]
      BY <1>0, <1>1, <2>1, <2>2 DEF Plan, CheckType
    <2> QED BY <1>1, <2>3 DEF Plan, TypeOK, CheckType
  <1>2. ASSUME NEW p \in Procs, CheckHealth(p) PROVE TypeOK'
    <2>1. CASE /\ \E c \in 0 .. Floor : doc' = [doc EXCEPT !.channels = c]
               /\ check' = [check EXCEPT ![p].at = "planned"]
      <3>1. doc' \in Doc
        BY <1>0, <2>1, DocField
      <3>2. check' \in [Procs -> CheckType]
        BY <1>0, <2>1 DEF CheckType
      <3> QED BY <1>2, <3>1, <3>2 DEF CheckHealth, TypeOK, CheckType
    <2>2. CASE doc' \in {doc, Deactivated(doc)} /\ Leave(p)
      <3>1. doc' \in Doc
        BY <1>0, <2>2, DocOps
      <3>2. check' \in [Procs -> CheckType]
        BY <2>2, LeaveTyped
      <3> QED BY <1>2, <3>1, <3>2 DEF CheckHealth, TypeOK, CheckType
    <2> QED BY <1>2, <2>1, <2>2 DEF CheckHealth
  <1>3. ASSUME NEW p \in Procs, Begin(p) PROVE TypeOK'
    <2> DEFINE seen == check[p].seen
               now  == IF Resets(seen) THEN View(Cleared(doc)) ELSE seen
    <2>1. seen \in Seen /\ now \in Seen /\ seen.fails \in 0 .. FailCap
      BY <1>0, DocOps DEF CheckType, Seen
    <2>2. doc' \in Doc
      BY <1>0, <1>3, DocOps DEF Begin
    <2>3. check' \in [Procs -> CheckType]
      <3>1. CASE Leave(p)
        BY <3>1, LeaveTyped
      <3>2. ASSUME NEW s \in Seen, NEW n \in 0 .. FailCap,
                   check' = [check EXCEPT ![p].at = "begun", ![p].seen = s,
                                          ![p].first = n]
            PROVE  check' \in [Procs -> CheckType]
        BY ZenonT(60), <1>0, <3>2 DEF CheckType
      <3> QED BY <1>3, <2>1, <3>1, <3>2 DEF Begin
    <2> QED BY <1>3, <2>2, <2>3 DEF Begin, TypeOK, CheckType
  <1>4. ASSUME NEW p \in Procs, Move(p) PROVE TypeOK'
    <2>1. doc' \in Doc
      BY <1>0, <1>4 DEF Move, Doc, CheckType
    <2>2. check' \in [Procs -> CheckType]
      BY <1>0, <1>4 DEF Move, CheckType
    <2> QED BY <1>4, <2>1, <2>2 DEF Move, TypeOK, CheckType
  <1>5. ASSUME NEW p \in Procs, ActLightly(p) PROVE TypeOK'
    <2>1. doc' \in Doc
      BY <1>0, <1>5, ThresholdAssumption DEF ActLightly, Doc, Phases
    <2>2. check' \in [Procs -> CheckType]
      BY <1>5, LeaveTyped DEF ActLightly
    <2> QED BY <1>5, <2>1, <2>2 DEF ActLightly, TypeOK, CheckType
  <1>6. ASSUME NEW p \in Procs, Perform(p) PROVE TypeOK'
    <2>1. tele' \in [password : Passwords, externals : BOOLEAN]
      BY <1>6 DEF Perform, TypeOK, Passwords
    <2>2. check' \in [Procs -> CheckType]
      BY <1>0, <1>6 DEF Perform, CheckType
    <2> QED BY <1>6, <2>1, <2>2 DEF Perform, TypeOK, CheckType
  <1>7. ASSUME NEW p \in Procs, GiveUp(p) PROVE TypeOK'
    <2>1. doc' \in Doc
      BY <1>0, <1>7, DocOps DEF GiveUp
    <2>2. check' \in [Procs -> CheckType]
      BY <1>7, LeaveTyped DEF GiveUp
    <2> QED BY <1>7, <2>1, <2>2 DEF GiveUp, TypeOK, CheckType
  <1>8. ASSUME NEW p \in Procs, Stamp(p) PROVE TypeOK'
    <2>1. doc' \in Doc
      BY <1>0, <1>8, DocOps DEF Stamp, StampsStep
    <2>2. check' \in [Procs -> CheckType]
      BY <1>8, LeaveTyped DEF Stamp
    <2> QED BY <1>8, <2>1, <2>2 DEF Stamp, TypeOK, CheckType
  <1>9. ASSUME NEW p \in Procs, FailStep(p) PROVE TypeOK'
    <2>1. doc' \in Doc
      <3>1. PICK n \in (IF check[p].action \in Steps THEN {check[p].first} ELSE {})
                \cup (IF check[p].at = "acting" THEN {check[p].seen.fails} ELSE {}) :
                   doc' \in {Failed(doc, n), Deactivated(Failed(doc, n))}
        BY <1>9 DEF FailStep
      <3>2. n \in 0 .. FailCap
        BY <1>0, <3>1 DEF CheckType, Seen
      <3> QED BY <1>0, <3>1, <3>2, DocOps
    <2>2. check' \in [Procs -> CheckType]
      BY <1>9, LeaveTyped DEF FailStep
    <2> QED BY <1>9, <2>1, <2>2 DEF FailStep, TypeOK, CheckType
  <1>10. ASSUME NEW p \in Procs, StartSweep(p) PROVE TypeOK'
    <2>1. doc' \in Doc /\ doc.fails \in 0 .. FailCap
      BY <1>0, <1>10, ThresholdAssumption DEF StartSweep, Doc
    <2>2. sweep' \in [Procs -> SweepType]
      BY <1>0, <1>10, <2>1 DEF StartSweep, SweepType, Kept
    <2> QED BY <1>10, <2>1, <2>2 DEF StartSweep, TypeOK, SweepType
  <1>11. ASSUME NEW p \in Procs, CheckRotation(p) \/ SkipParked(p) PROVE TypeOK'
    <2>1. sweep' \in [Procs -> SweepType]
      BY <1>0, <1>11, EndSweepTyped DEF CheckRotation, SkipParked, SweepType
    <2> QED BY <1>11, <2>1 DEF CheckRotation, SkipParked, TypeOK, SweepType
  <1>12. ASSUME NEW p \in Procs, ResolveBackup(p) PROVE TypeOK'
    <2>1. backup' \in Kept \cup Procs
      BY <1>12 DEF ResolveBackup, TypeOK
    <2>2. sweep' = [sweep EXCEPT ![p].at = "verifying", ![p].backup = backup']
      BY <1>12 DEF ResolveBackup
    <2>3. ASSUME NEW b \in Kept \cup Procs
          PROVE  [sweep EXCEPT ![p].at = "verifying", ![p].backup = b]
                     \in [Procs -> SweepType]
      <3>1. [[sweep[p] EXCEPT !.at = "verifying"] EXCEPT !.backup = b] \in SweepType
        <4>1. ASSUME NEW r \in SweepType
              PROVE  [[r EXCEPT !.at = "verifying"] EXCEPT !.backup = b] \in SweepType
          BY DEF SweepType
        <4> QED BY <1>0, <4>1
      <3>2. [sweep EXCEPT ![p].at = "verifying", ![p].backup = b]
                = [sweep EXCEPT ![p] = [[sweep[p] EXCEPT !.at = "verifying"]
                                            EXCEPT !.backup = b]]
        BY <1>0
      <3> QED BY <1>0, <3>1, <3>2
    <2>4. sweep' \in [Procs -> SweepType]
      BY <2>1, <2>2, <2>3
    <2> QED BY <1>12, <2>1, <2>4 DEF ResolveBackup, TypeOK, SweepType
  <1>13. ASSUME NEW p \in Procs, Rotate(p) PROVE TypeOK'
    <2>1. doc' \in Doc
      BY <1>0, <1>13 DEF Rotate, Doc, Phases
    <2>2. sweep' \in [Procs -> SweepType]
      BY <1>13, EndSweepTyped DEF Rotate
    <2> QED BY <1>13, <2>1, <2>2 DEF Rotate, TypeOK, SweepType
  <1>14. ASSUME NEW p \in Procs, FailRotation(p) PROVE TypeOK'
    <2>1. doc' \in Doc
      BY <1>0, <1>14, DocOps DEF FailRotation, SweepType
    <2>2. sweep' \in [Procs -> SweepType]
      BY <1>14, EndSweepTyped DEF FailRotation
    <2> QED BY <1>14, <2>1, <2>2 DEF FailRotation, TypeOK, SweepType
  <1>15. ASSUME NEW p \in Procs, Crash(p) PROVE TypeOK'
    <2>1. crashes' \in 0 .. MaxCrashes
      BY <1>15, CapAssumption DEF Crash, TypeOK
    <2>2. check' \in [Procs -> CheckType] /\ sweep' \in [Procs -> SweepType]
      BY <1>15, LeaveTyped, EndSweepTyped DEF Crash
    <2> QED BY <1>15, <2>1, <2>2 DEF Crash, TypeOK, CheckType, SweepType
  <1>16. CASE JoinChannel \/ LoseChannel \/ Expire \/ Reactivate
    <2>1. doc.channels \in 0 .. Floor
      BY <1>0 DEF Doc
    <2>2. doc.channels < Floor => doc.channels + 1 \in 0 .. Floor
      BY <2>1, Numbers
    <2>3. doc.channels > 0 => doc.channels - 1 \in 0 .. Floor
      BY <2>1, Numbers
    <2>4. doc' \in Doc
      BY ZenonT(60), <1>0, <1>16, <2>2, <2>3, DocField, DocOps
         DEF JoinChannel, LoseChannel, Expire, Reactivate
    <2> QED BY <1>16, <2>4 DEF JoinChannel, LoseChannel, Expire, Reactivate, TypeOK
  <1>20. CASE Swaps
    <2>0. swap \in SwapType
      BY DEF TypeOK, SwapType
    <2>1. swap' \in SwapType
      <3>1. CASE Pick \/ DropPick \/ CheckOut
        BY <2>0, <3>1 DEF Pick, DropPick, CheckOut, SwapType
      <3>0. swap.returns \in 0 .. MaxReturns /\ MaxReturns \in Nat
        BY <2>0, Numbers DEF SwapType
      <3>2. CASE Replace
        <4>1. swap.returns + 1 \in 0 .. MaxReturns
          BY <3>0, <3>2 DEF Replace
        <4> QED BY <2>0, <3>2, <4>1 DEF Replace, SwapType
      <3>3. CASE CheckIn
        <4>0. swap.returns > 0
          BY ZenonT(60), <3>3 DEF CheckIn
        <4>1. swap.returns - 1 \in 0 .. MaxReturns
          BY <3>0, <4>0
        <4>2. swap' = [swap EXCEPT !.returns = swap.returns - 1]
          BY <3>3 DEF CheckIn
        <4> QED BY <2>0, <4>1, <4>2 DEF SwapType
      <3> QED BY <1>20, <3>1, <3>2, <3>3 DEF Swaps
    <2>2. CASE Pick \/ DropPick \/ CheckOut \/ Replace
      <3>1. doc' \in Doc
        BY <1>0, <2>2 DEF Pick, DropPick, CheckOut, Replace, Doc
      <3> QED BY <2>1, <2>2, <3>1 DEF Pick, DropPick, CheckOut, Replace, TypeOK, SwapType
    <2>3. CASE CheckIn
      <3>1. ASSUME NEW a \in BOOLEAN
            PROVE  [doc EXCEPT !.inUse = FALSE, !.active = a, !.phase = "session_rotated",
                               !.channels = Floor] \in Doc
        BY <1>0, Numbers DEF Doc, Phases
      <3>2. doc' \in Doc
        BY <1>0, <2>3, <3>1, DocOps DEF CheckIn
      <3> QED BY <2>1, <2>3, <3>2 DEF CheckIn, TypeOK, SwapType
    <2> QED BY <1>20, <2>2, <2>3 DEF Swaps
  <1>17. CASE OwnerSetsPassword
    BY <1>17 DEF OwnerSetsPassword, TypeOK, Passwords
  <1>18. CASE Tick
    <2> DEFINE Times == [Steps -> 0 .. GapCap]
               old == [s \in Steps |-> Older(doc.since[s], GapCap)]
               d1  == [doc EXCEPT !.age = Older(doc.age, AgeCap)]
               d2  == [d1 EXCEPT !.since = old]
               d3  == [d2 EXCEPT !.failed = Older(doc.failed, ResetAfter + 1)]
    <2>1. ASSUME NEW n \in Nat, NEW x \in 0 .. n PROVE Older(x, n) \in 0 .. n
      BY DEF Older
    <2>2. /\ doc.age \in 0 .. AgeCap /\ doc.failed \in 0 .. (ResetAfter + 1)
          /\ doc.tried \in 0 .. Cooldown /\ doc.since \in Times
      BY <1>0 DEF Doc
    <2>3. old \in Times
      BY <2>1, <2>2, Numbers
    <2>4. /\ Older(doc.age, AgeCap) \in 0 .. AgeCap
          /\ Older(doc.failed, ResetAfter + 1) \in 0 .. (ResetAfter + 1)
          /\ Older(doc.tried, Cooldown) \in 0 .. Cooldown
      BY SMTT(30), <2>1, <2>2, Numbers
    <2>5. doc' = [d3 EXCEPT !.tried = Older(doc.tried, Cooldown)]
      BY <1>18, <1>0 DEF Tick, Doc
    <2> HIDE DEF old
    <2>6. d1 \in Doc
      BY <1>0, <2>4, DocField
    <2>7. d2 \in Doc
      BY <2>3, <2>6, DocField
    <2>8. d3 \in Doc
      BY <2>4, <2>7, DocField
    <2> HIDE DEF d3
    <2>9. doc' \in Doc
      BY <2>4, <2>5, <2>8, DocField
    <2>10. ASSUME NEW p \in Procs
           PROVE  [check[p] EXCEPT
                     !.seen.failed = Older(check[p].seen.failed, ResetAfter + 1),
                     !.seen.tried = Older(check[p].seen.tried, Cooldown)] \in CheckType
      <3> DEFINE a == Older(check[p].seen.failed, ResetAfter + 1)
                 b == Older(check[p].seen.tried, Cooldown)
      <3>1. check[p] \in CheckType /\ check[p].seen \in Seen
        BY <1>0 DEF CheckType
      <3>4. /\ check[p].seen.failed \in 0 .. (ResetAfter + 1)
            /\ check[p].seen.tried \in 0 .. Cooldown
        BY <3>1 DEF Seen
      <3>5. ResetAfter + 1 \in Nat /\ Cooldown \in Nat
        BY Numbers
      <3>2. a \in 0 .. (ResetAfter + 1) /\ b \in 0 .. Cooldown
        BY <2>1, <3>4, <3>5
      <3> HIDE DEF a, b
      <3>3. [check[p] EXCEPT !.seen.failed = a, !.seen.tried = b] \in CheckType
        BY <3>1, <3>2 DEF CheckType, Seen
      <3> QED BY <3>3 DEF a, b
    <2>11. check' \in [Procs -> CheckType]
      BY <1>18, <2>10 DEF Tick
    <2> QED BY <1>18, <2>9, <2>11 DEF Tick, TypeOK, CheckType
  <1>19. CASE UNCHANGED vars
    BY <1>19 DEF vars, TypeOK
  <1> QED
    BY <1>1, <1>2, <1>3, <1>4, <1>5, <1>6, <1>7, <1>8, <1>9, <1>10, <1>11, <1>12,
       <1>13, <1>14, <1>15, <1>16, <1>17, <1>18, <1>19, <1>20
       DEF Next, CheckStep, SweepStep, Attempt, World

\* The rest of the world and the swaps touch neither runs nor sweeps.
LEMMA WorldKeeps ==
    ASSUME World \/ Swaps
    PROVE  check' = check /\ sweep' = sweep /\ backup' = backup
  BY DEF World, JoinChannel, LoseChannel, OwnerSetsPassword, Expire, Reactivate,
         Swaps, Pick, DropPick, CheckOut, Replace, CheckIn

\* Only swaps change what swaps do.
LEMMA SwapMoves ==
    ASSUME [Next]_vars
    PROVE  swap' = swap \/ Pick \/ DropPick \/ CheckOut \/ Replace \/ CheckIn
  <1>1. ASSUME NEW p \in Procs, CheckStep(p) PROVE swap' = swap
    BY <1>1 DEF CheckStep, Plan, CheckHealth, Begin, Move, ActLightly, Attempt, Perform,
                GiveUp, Stamp, FailStep
  <1>2. ASSUME NEW p \in Procs, SweepStep(p) \/ Crash(p) PROVE swap' = swap
    BY <1>2 DEF SweepStep, StartSweep, CheckRotation, SkipParked, ResolveBackup, Rotate,
                FailRotation, Crash
  <1>3. CASE World \/ Tick \/ UNCHANGED vars
    BY <1>3 DEF World, JoinChannel, LoseChannel, OwnerSetsPassword, Expire, Reactivate,
                Tick, vars
  <1> QED BY <1>1, <1>2, <1>3 DEF Next, Swaps

\* Only a step performed is stamped.
LEMMA StampStep == TypeInv /\ [Next]_vars => StampsStep'
  <1> SUFFICES ASSUME TypeInv, [Next]_vars, NEW q \in Procs,
                      check'[q].at = "stamp"
               PROVE  check'[q].action \in Steps
    BY DEF StampsStep
  <1>0. check \in [Procs -> CheckType] /\ (check[q].at = "stamp" => check[q].action \in Steps)
    BY DEF TypeInv, TypeOK, CheckType, StampsStep
  <1>1. ASSUME NEW p \in Procs, CheckStep(p) PROVE check'[q].action \in Steps
    BY <1>0, <1>1
       DEF CheckStep, Plan, CheckHealth, Begin, Move, ActLightly, Attempt, Perform,
           GiveUp, Stamp, FailStep, Leave, NoCheck, CheckType
  <1>2. ASSUME NEW p \in Procs, SweepStep(p) \/ Crash(p)
        PROVE  check'[q].action \in Steps
    BY <1>0, <1>2
       DEF SweepStep, StartSweep, CheckRotation, SkipParked, ResolveBackup, Rotate,
           FailRotation, Crash, Leave, NoCheck, CheckType
  <1>3. CASE World \/ Swaps \/ UNCHANGED vars
    BY <1>0, <1>3, WorldKeeps DEF vars
  <1>4. CASE Tick
    BY <1>0, <1>4 DEF Tick, CheckType
  <1> QED BY <1>1, <1>2, <1>3, <1>4 DEF Next

LEMMA Typed == Spec => []TypeInv
  <1>1. TypeInv /\ [Next]_vars => TypeInv'
    BY TypeStep, StampStep DEF TypeInv
  <1> QED BY TypeInit, <1>1, PTL DEF Spec

(* Every reachable state is well typed: the state space the code's schema and *)
(* flags span is all the runs ever use.                                       *)
THEOREM TypeCorrect == Spec => []TypeOK
  <1>1. TypeInv => TypeOK
    BY DEF TypeInv
  <1> QED BY Typed, <1>1, PTL

-----------------------------------------------------------------------------
(* What the operators on documents keep, and what the plan relies on.         *)

LEMMA Effects ==
    ASSUME NEW d \in Doc
    PROVE  /\ \A e \in {Cleared(d), Deactivated(d)} \cup {Failed(d, n) : n \in 0 .. FailCap} :
                  /\ e.phase = d.phase /\ e.done = d.done /\ e.since = d.since
                  /\ e.rotated = d.rotated
           /\ \A s \in Steps :
                  /\ Stamped(d, s).phase = d.phase
                  /\ Stamped(d, s).done = d.done \cup {s}
                  /\ Stamped(d, s).since = [d.since EXCEPT ![s] = 0]
                  /\ Stamped(d, s).rotated = d.rotated
  <1>1. /\ Cleared(d).phase = d.phase /\ Cleared(d).done = d.done
        /\ Cleared(d).since = d.since /\ Cleared(d).rotated = d.rotated
    BY DEF Cleared, Doc
  <1>2. /\ Deactivated(d).phase = d.phase /\ Deactivated(d).done = d.done
        /\ Deactivated(d).since = d.since /\ Deactivated(d).rotated = d.rotated
    BY DEF Deactivated, Doc
  <1>3. ASSUME NEW n \in 0 .. FailCap
        PROVE  /\ Failed(d, n).phase = d.phase /\ Failed(d, n).done = d.done
               /\ Failed(d, n).since = d.since /\ Failed(d, n).rotated = d.rotated
    BY DEF Failed, Doc
  <1>4. ASSUME NEW s \in Steps
        PROVE  /\ Stamped(d, s).phase = d.phase
               /\ Stamped(d, s).done = d.done \cup {s}
               /\ Stamped(d, s).since = [d.since EXCEPT ![s] = 0]
               /\ Stamped(d, s).rotated = d.rotated
    <2>1. Cleared(d) \in Doc
      BY DocOps
    <2>2. ASSUME NEW e \in Doc, e.phase = d.phase, e.done = d.done, e.since = d.since,
                 e.rotated = d.rotated
          PROVE  LET f == [e EXCEPT !.done = @ \cup {s}, !.since[s] = 0, !.tried = 0] IN
                 /\ f.phase = d.phase /\ f.done = d.done \cup {s}
                 /\ f.since = [d.since EXCEPT ![s] = 0] /\ f.rotated = d.rotated
      BY <2>2 DEF Doc
    <2> QED BY <1>1, <2>1, <2>2 DEF Stamped
  <1> QED BY <1>1, <1>2, <1>3, <1>4

\* The parts of a document the invariants below are about; most steps keep them.
SameParts(d, e) == /\ e.phase = d.phase /\ e.done = d.done /\ e.since = d.since
               /\ e.rotated = d.rotated

\* Every step of Next, by what it does to these parts.
StampEffect(p) ==
    /\ Stamp(p) /\ check[p].action \in Steps /\ doc'.phase = doc.phase
    /\ doc'.done = doc.done \cup {check[p].action}
    /\ doc'.since = [doc.since EXCEPT ![check[p].action] = 0]
    /\ doc'.rotated = doc.rotated
MoveEffect(p) ==
    /\ Move(p) /\ doc'.done = doc.done /\ doc'.since = doc.since
    /\ doc'.rotated = doc.rotated
    /\ doc'.phase = IF check[p].phase # check[p].seen.phase
                    THEN check[p].phase ELSE doc.phase
ActEffect(p) ==
    /\ ActLightly(p) /\ doc'.done = doc.done /\ doc'.since = doc.since
    /\ doc'.rotated = doc.rotated
    /\ doc'.phase = IF check[p].action = "advance_to_ready" THEN "ready" ELSE doc.phase
RotateEffect(p) ==
    /\ Rotate(p) /\ doc'.done = doc.done /\ doc'.since = doc.since
    /\ doc'.rotated /\ doc'.phase = "session_rotated"
Quiet(p) ==
    /\ Plan(p) \/ CheckHealth(p) \/ Begin(p) \/ Perform(p) \/ GiveUp(p) \/ FailStep(p)
       \/ StartSweep(p) \/ CheckRotation(p) \/ SkipParked(p) \/ ResolveBackup(p)
       \/ FailRotation(p) \/ Crash(p)
    /\ SameParts(doc, doc')
WorldEffect == World /\ swap' = swap /\ SameParts(doc, doc')
SwapEffect ==
    /\ Swaps /\ doc'.done = doc.done /\ doc'.since = doc.since
    /\ doc'.rotated = doc.rotated
    /\ doc'.phase = doc.phase \/ (CheckIn /\ doc'.phase = "session_rotated")
TickEffect ==
    /\ Tick /\ doc'.phase = doc.phase /\ doc'.done = doc.done
    /\ doc'.since = [s \in Steps |-> Older(doc.since[s], GapCap)]
    /\ doc'.rotated = doc.rotated

LEMMA StepEffects ==
    ASSUME TypeInv, [Next]_vars
    PROVE  \/ \E p \in Procs : \/ StampEffect(p) \/ MoveEffect(p) \/ ActEffect(p)
                               \/ RotateEffect(p) \/ Quiet(p)
           \/ WorldEffect \/ SwapEffect
           \/ TickEffect
           \/ UNCHANGED vars
  <1>0. doc \in Doc /\ check \in [Procs -> CheckType] /\ sweep \in [Procs -> SweepType]
    BY DEF TypeInv, TypeOK, CheckType, SweepType
  <1>1. ASSUME NEW p \in Procs, Stamp(p) PROVE StampEffect(p)
    BY <1>0, <1>1, Effects DEF Stamp, StampEffect, TypeInv, StampsStep
  <1>2. ASSUME NEW p \in Procs, Move(p) PROVE MoveEffect(p)
    BY <1>0, <1>2 DEF Move, MoveEffect, Doc
  <1>3. ASSUME NEW p \in Procs, ActLightly(p) PROVE ActEffect(p)
    BY <1>0, <1>3 DEF ActLightly, ActEffect, Doc
  <1>4. ASSUME NEW p \in Procs, Rotate(p) PROVE RotateEffect(p)
    BY <1>0, <1>4 DEF Rotate, RotateEffect, Doc
  <1>5. ASSUME NEW p \in Procs,
               Plan(p) \/ CheckHealth(p) \/ Begin(p) \/ Perform(p) \/ GiveUp(p)
        PROVE  Quiet(p)
    <2>1. CASE CheckHealth(p)
      BY <1>0, <2>1, Effects DEF CheckHealth, Quiet, SameParts, Doc
    <2>2. CASE Plan(p) \/ Begin(p) \/ Perform(p) \/ GiveUp(p)
      BY <1>0, <2>2, Effects DEF Plan, Begin, Perform, GiveUp, Quiet, SameParts
    <2> QED BY <1>5, <2>1, <2>2
  <1>6. ASSUME NEW p \in Procs, FailStep(p) PROVE Quiet(p)
    <2>1. PICK n \in (IF check[p].action \in Steps THEN {check[p].first} ELSE {})
                \cup (IF check[p].at = "acting" THEN {check[p].seen.fails} ELSE {}) :
                 doc' \in {Failed(doc, n), Deactivated(Failed(doc, n))}
      BY <1>6 DEF FailStep
    <2>2. n \in 0 .. FailCap
      BY <1>0, <2>1 DEF CheckType, Seen
    <2>3. Failed(doc, n) \in Doc /\ SameParts(doc, Failed(doc, n))
      BY <1>0, <2>2, DocOps, Effects DEF SameParts
    <2> QED BY <1>6, <2>1, <2>3, Effects DEF Quiet, SameParts
  <1>7. ASSUME NEW p \in Procs, FailRotation(p) PROVE Quiet(p)
    <2>1. sweep[p].fails \in 0 .. FailCap
      BY <1>0 DEF SweepType
    <2>2. Failed(doc, sweep[p].fails) \in Doc /\ SameParts(doc, Failed(doc, sweep[p].fails))
      BY <1>0, <2>1, DocOps, Effects DEF SameParts
    <2> QED BY <1>7, <2>2, Effects DEF FailRotation, Quiet, SameParts
  <1>8. ASSUME NEW p \in Procs,
               StartSweep(p) \/ CheckRotation(p) \/ SkipParked(p) \/ ResolveBackup(p)
               \/ Crash(p)
        PROVE  Quiet(p)
    <2>1. CASE StartSweep(p)
      BY <1>0, <2>1 DEF StartSweep, Quiet, SameParts, Doc
    <2>2. CASE CheckRotation(p) \/ SkipParked(p) \/ ResolveBackup(p) \/ Crash(p)
      BY <2>2 DEF CheckRotation, SkipParked, ResolveBackup, Crash, Quiet, SameParts
    <2> QED BY <1>8, <2>1, <2>2
  <1>9. CASE World
    BY <1>0, <1>9, Effects DEF World, JoinChannel, LoseChannel, Expire, Reactivate,
                               OwnerSetsPassword, WorldEffect, SameParts, Doc
  <1>11. CASE Swaps
    <2>1. CASE Pick \/ DropPick \/ CheckOut \/ Replace
      BY <1>0, <1>11, <2>1 DEF Pick, DropPick, CheckOut, Replace, SwapEffect, Doc
    <2>2. CASE CheckIn
      <3>1. CASE doc' \in {Deactivated(doc), doc}
        BY <1>0, <1>11, <3>1, Effects DEF SwapEffect
      <3>2. ASSUME NEW a \in BOOLEAN,
                   doc' = [doc EXCEPT !.inUse = FALSE, !.active = a,
                               !.phase = "session_rotated", !.channels = Floor]
            PROVE  SwapEffect
        BY <1>0, <1>11, <2>2, <3>2 DEF SwapEffect, Doc
      <3> QED BY <2>2, <3>1, <3>2 DEF CheckIn
    <2> QED BY <1>11, <2>1, <2>2 DEF Swaps
  <1>10. CASE Tick
    BY <1>0, <1>10 DEF Tick, TickEffect, Doc
  <1> QED
    BY <1>1, <1>2, <1>3, <1>4, <1>5, <1>6, <1>7, <1>8, <1>9, <1>10, <1>11
       DEF Next, CheckStep, SweepStep, Attempt

-----------------------------------------------------------------------------
(* Any number of processes: supply is prepared, revocation is protected.      *)

\* The plan revokes on accounts with 2FA only, and takes only an account with a
\* recorded rotation for a rotated one.
LEMMA PlanSafe ==
    ASSUME NEW d \in Doc
    PROVE  /\ WarmupAction(d).action = Revoke => "set_2fa" \in d.done
           /\ WarmupAction(d).phase = "session_rotated"
                  => d.rotated \/ d.phase = "session_rotated"
  <1> DEFINE Safe(a) == a = Revoke => "set_2fa" \in d.done
  <1>1. Safe(SettlingStep(d)) /\ Safe(IdentityStep(d)) /\ Safe(FinalStep(d))
    BY DEF SettlingStep, IdentityStep, FinalStep, After, Revoke
  <1>2. Safe(MissedStep(d))
    BY <1>1 DEF MissedStep, After, Revoke
  <1>3. /\ Safe(FromSettling(d).action) /\ FromSettling(d).phase # "session_rotated"
        /\ Safe(FromIdentity(d).action) /\ FromIdentity(d).phase # "session_rotated"
    BY <1>1 DEF FromSettling, FromIdentity, To, Revoke
  <1>4. /\ Safe(FromGrowing(d).action) /\ FromGrowing(d).phase # "session_rotated"
        /\ Safe(FromMaturing(d).action) /\ FromMaturing(d).phase # "session_rotated"
    BY <1>1, <1>2 DEF FromGrowing, FromMaturing, To, Revoke
  <1>5. /\ Safe(FromReady(d).action)
        /\ FromReady(d).phase = "session_rotated" => d.rotated
    BY DEF FromReady, To, Revoke, Doc
  <1>6. d.phase \in Phases
    BY DEF Doc
  <1> QED BY <1>3, <1>4, <1>5, <1>6 DEF WarmupAction, To, Phases, Revoke

Prepared == Steps \subseteq doc.done /\ doc.rotated /\ backup \notin {"none", "unusable"}

(* The invariant.  A stamp for 2FA is true of Telegram, and so is one about to*)
(* be written; a plan to revoke rests on such a stamp; whatever says or is    *)
(* about to write SESSION_ROTATED does so for a prepared account, also when   *)
(* it is the stale plan of another process, or a late return to the pool.     *)
StampTrue    == "set_2fa" \in doc.done => tele.password = "ours"
PlanTrue     == \A p \in Procs :
    /\ check[p].action = Revoke => "set_2fa" \in doc.done
    /\ check[p].action = "set_2fa" /\ check[p].at = "stamp" => tele.password = "ours"
    /\ check[p].phase = "session_rotated" => Prepared
RotatedTrue  == doc.rotated \/ doc.phase = "session_rotated" => Prepared
SweepTrue    == \A p \in Procs :
    /\ sweep[p].at \in {"resolving", "verifying"} => Steps \subseteq doc.done
    /\ sweep[p].at = "verifying" => sweep[p].backup \notin {"none", "unusable"}
SwapTrue     == swap.picked \/ swap.main \/ swap.returns > 0 => Prepared
PreparedInv  == StampTrue /\ PlanTrue /\ RotatedTrue /\ SweepTrue /\ SwapTrue

\* No swap has to do with the account at first.
LEMMA NoSwap ==
    ASSUME Init
    PROVE  ~(swap.picked \/ swap.main \/ swap.returns > 0)
  <1>1. ~swap.picked /\ ~swap.main /\ swap.returns = 0
    BY ZenonT(60) DEF Init
  <1> QED BY <1>1

LEMMA PreparedInit == Init => PreparedInv
  <1> SUFFICES ASSUME Init PROVE PreparedInv
    OBVIOUS
  <1>1. ~doc.rotated /\ doc.phase # "session_rotated"
    <2>1. CASE doc = FreshDoc
      BY <2>1 DEF FreshDoc
    <2>2. ASSUME NEW f \in {"growing", "maturing"}, NEW s \in Legacy, NEW c \in {0, Floor},
                 NEW a \in {Threshold.growing, AgeCap},
                 doc = [FreshDoc EXCEPT !.phase = f, !.done = s, !.channels = c, !.age = a]
          PROVE  ~doc.rotated /\ doc.phase # "session_rotated"
      BY <2>2 DEF FreshDoc
    <2> QED BY <2>1, <2>2 DEF Init
  <1>2. \A p \in Procs : check[p] = NoCheck /\ sweep[p] = NoSweep
    BY DEF Init
  <1>3. StampTrue
    BY DEF Init, StampTrue
  <1>4. SwapTrue
    BY NoSwap DEF SwapTrue
  <1> QED BY <1>1, <1>2, <1>3, <1>4
          DEF PreparedInv, PlanTrue, RotatedTrue, SweepTrue, NoCheck, NoSweep, Revoke

\* Our password and a backup stay.
LEMMA Stays ==
    ASSUME TypeInv, [Next]_vars
    PROVE  /\ tele.password = "ours" => tele'.password = "ours"
           /\ backup \notin {"none", "unusable"} => backup' = backup
  <1>0. tele \in [password : Passwords, externals : BOOLEAN]
    BY DEF TypeInv, TypeOK
  <1>1. ASSUME NEW p \in Procs, CheckStep(p)
        PROVE  /\ tele.password = "ours" => tele'.password = "ours"
               /\ backup' = backup
    BY <1>0, <1>1 DEF CheckStep, Plan, CheckHealth, Begin, Move, ActLightly, Attempt,
                      Perform, GiveUp, Stamp, FailStep
  <1>2. ASSUME NEW p \in Procs, SweepStep(p) \/ Crash(p)
        PROVE  /\ tele' = tele
               /\ backup \notin {"none", "unusable"} => backup' = backup
    BY <1>2 DEF SweepStep, StartSweep, CheckRotation, SkipParked, ResolveBackup, Rotate,
                FailRotation, Crash
  <1>3. CASE World \/ Tick \/ UNCHANGED vars
    BY <1>0, <1>3 DEF World, JoinChannel, LoseChannel, Expire, Reactivate,
                      OwnerSetsPassword, Tick, vars
  <1>4. CASE Swaps
    BY <1>4 DEF Swaps, Pick, DropPick, CheckOut, Replace, CheckIn
  <1> QED BY <1>1, <1>2, <1>3, <1>4 DEF Next

\* The two growing parts of a document grow, and a prepared account stays so.
LEMMA Grows ==
    ASSUME TypeInv, PreparedInv, [Next]_vars
    PROVE  /\ doc.done \subseteq doc'.done
           /\ Prepared => Prepared'
           /\ doc'.rotated \/ doc'.phase = "session_rotated" => Prepared'
  <1>0. doc \in Doc
    BY DEF TypeInv, TypeOK
  <1>1. doc.done \subseteq doc'.done /\ (doc.rotated => doc'.rotated)
    BY StepEffects DEF StampEffect, MoveEffect, ActEffect, RotateEffect, Quiet,
                       SameParts, WorldEffect, SwapEffect, TickEffect, vars
  <1>2. Prepared => Prepared'
    BY <1>1, Stays DEF Prepared
  <1>3. ASSUME doc'.rotated \/ doc'.phase = "session_rotated" PROVE Prepared'
    <2>1. CASE doc.rotated \/ doc.phase = "session_rotated"
      BY <2>1, <1>2 DEF PreparedInv, RotatedTrue
    <2>2. CASE ~(doc.rotated \/ doc.phase = "session_rotated")
      <3>1. (\E p \in Procs : MoveEffect(p) \/ RotateEffect(p)) \/ CheckIn
        <4>1. ASSUME NEW p \in Procs, StampEffect(p) \/ ActEffect(p) \/ Quiet(p)
              PROVE  FALSE
          BY <1>3, <2>2, <4>1 DEF StampEffect, ActEffect, Quiet, SameParts
        <4>2. ~WorldEffect /\ ~TickEffect /\ ~UNCHANGED vars
          BY <1>3, <2>2 DEF SameParts, WorldEffect, TickEffect, vars
        <4>3. SwapEffect => CheckIn
          BY <1>3, <2>2 DEF SwapEffect
        <4> QED BY <4>1, <4>2, <4>3, StepEffects
      <3>2. ASSUME NEW p \in Procs, MoveEffect(p) PROVE Prepared'
        <4>1. check[p].phase = "session_rotated"
          BY <1>3, <2>2, <3>2 DEF MoveEffect
        <4> QED BY <4>1, <1>2 DEF PreparedInv, PlanTrue
      <3>3. ASSUME NEW p \in Procs, RotateEffect(p) PROVE Prepared'
        <4>1. /\ Steps \subseteq doc.done /\ backup \notin {"none", "unusable"}
              /\ doc'.rotated /\ doc'.done = doc.done
          BY <3>3 DEF RotateEffect, Rotate, PreparedInv, SweepTrue
        <4> QED BY <4>1, Stays DEF Prepared
      <3>4. CASE CheckIn
        BY <3>4, <1>2 DEF CheckIn, PreparedInv, SwapTrue
      <3> QED BY <3>1, <3>2, <3>3, <3>4
    <2> QED BY <2>1, <2>2
  <1> QED BY <1>1, <1>2, <1>3

LEMMA PreparedStep == TypeInv /\ PreparedInv /\ [Next]_vars => PreparedInv'
  <1> SUFFICES ASSUME TypeInv, PreparedInv, [Next]_vars PROVE PreparedInv'
    OBVIOUS
  <1>0. /\ doc \in Doc /\ check \in [Procs -> CheckType] /\ sweep \in [Procs -> SweepType]
        /\ tele \in [password : Passwords, externals : BOOLEAN]
    BY DEF TypeInv, TypeOK, CheckType, SweepType
  <1>1. StampTrue'
    <2>1. CASE "set_2fa" \in doc.done
      BY <2>1, Stays DEF PreparedInv, StampTrue
    <2>2. CASE "set_2fa" \notin doc.done /\ "set_2fa" \in doc'.done
      <3>1. PICK p \in Procs : StampEffect(p) /\ check[p].action = "set_2fa"
        BY <2>2, StepEffects DEF StampEffect, MoveEffect, ActEffect, RotateEffect, Quiet,
                                 SameParts, WorldEffect, SwapEffect, TickEffect, vars
      <3> QED BY <3>1, Stays DEF StampEffect, Stamp, PreparedInv, PlanTrue, StampTrue
    <2> QED BY <2>1, <2>2 DEF StampTrue
  <1>2. ASSUME NEW q \in Procs
        PROVE  /\ check'[q].action = Revoke => "set_2fa" \in doc'.done
               /\ check'[q].action = "set_2fa" /\ check'[q].at = "stamp"
                      => tele'.password = "ours"
               /\ check'[q].phase = "session_rotated" => Prepared'
    <2>1. CASE /\ check'[q].action = check[q].action /\ check'[q].phase = check[q].phase
               /\ check'[q].at = "stamp" => check[q].at = "stamp"
      BY <2>1, Grows, Stays DEF PreparedInv, PlanTrue
    <2>2. CASE check'[q] = NoCheck
      BY <2>2 DEF NoCheck, Revoke
    <2>3. CASE Plan(q)
      <3>1. /\ check'[q].phase = WarmupAction(doc).phase
            /\ check'[q].action = WarmupAction(doc).action
            /\ check'[q].at # "stamp"
        BY <1>0, <2>3 DEF Plan
      <3>2. check'[q].action = Revoke => "set_2fa" \in doc'.done
        BY <1>0, <3>1, PlanSafe, Grows
      <3>3. check'[q].phase = "session_rotated" => Prepared'
        BY <1>0, <3>1, PlanSafe, Grows DEF PreparedInv, RotatedTrue
      <3> QED BY <3>1, <3>2, <3>3
    <2>4. CASE Perform(q)
      <3>1. check'[q].action = check[q].action /\ check'[q].phase = check[q].phase
        BY <1>0, <2>4 DEF Perform, CheckType
      <3>2. check[q].action = "set_2fa" => tele'.password = "ours"
        BY <1>0, <2>4 DEF Perform
      <3> QED BY <3>1, <3>2, Grows DEF PreparedInv, PlanTrue
    <2>5. \/ /\ check'[q].action = check[q].action /\ check'[q].phase = check[q].phase
             /\ check'[q].at = "stamp" => check[q].at = "stamp"
          \/ check'[q] = NoCheck \/ Plan(q) \/ Perform(q)
      <3>1. ASSUME NEW p \in Procs, Plan(p) \/ Perform(p), p # q
            PROVE  check'[q] = check[q]
        BY <1>0, <3>1 DEF Plan, Perform
      <3>2. ASSUME NEW p \in Procs, CheckHealth(p) \/ Begin(p) \/ Move(p) \/ ActLightly(p)
                       \/ GiveUp(p) \/ Stamp(p) \/ FailStep(p) \/ Crash(p)
            PROVE  \/ /\ check'[q].action = check[q].action
                      /\ check'[q].phase = check[q].phase
                      /\ check'[q].at = "stamp" => check[q].at = "stamp"
                   \/ check'[q] = NoCheck
        BY <1>0, <3>2 DEF CheckHealth, Begin, Move, ActLightly, GiveUp, Stamp, FailStep,
                          Crash, Leave, CheckType
      <3>3. ASSUME NEW p \in Procs, SweepStep(p) PROVE check' = check
        BY <3>3 DEF SweepStep, StartSweep, CheckRotation, SkipParked, ResolveBackup,
                    Rotate, FailRotation
      <3>4. CASE World \/ Swaps \/ UNCHANGED vars
        BY <3>4, WorldKeeps DEF vars
      <3>5. CASE Tick
        BY <1>0, <3>5 DEF Tick, CheckType
      <3> QED BY <3>1, <3>2, <3>3, <3>4, <3>5 DEF Next, CheckStep, Attempt
    <2> QED BY <2>1, <2>2, <2>3, <2>4, <2>5
  <1>3. RotatedTrue'
    BY Grows DEF RotatedTrue
  <1>4. ASSUME NEW q \in Procs
        PROVE  /\ sweep'[q].at \in {"resolving", "verifying"} => Steps \subseteq doc'.done
               /\ sweep'[q].at = "verifying" => sweep'[q].backup \notin {"none", "unusable"}
    <2>1. CASE sweep'[q] = sweep[q]
      BY <2>1, Grows DEF PreparedInv, SweepTrue
    <2>2. CASE sweep'[q].at \in {"idle", "asked"}
      BY <2>2
    <2>3. CASE CheckRotation(q)
      BY <1>0, <2>3, Grows DEF CheckRotation, MayRotate
    <2>4. CASE ResolveBackup(q)
      <3>1. backup' \notin {"none", "unusable"}
        BY <2>4, ProcsAssumption DEF ResolveBackup
      <3>2. sweep'[q].backup = backup' /\ sweep[q].at = "resolving"
        BY <1>0, <2>4 DEF ResolveBackup, SweepType
      <3> QED BY <3>1, <3>2, Grows DEF PreparedInv, SweepTrue
    <2>5. \/ sweep'[q] = sweep[q] \/ sweep'[q].at \in {"idle", "asked"}
          \/ CheckRotation(q) \/ ResolveBackup(q)
      <3>1. ASSUME NEW p \in Procs, CheckStep(p) PROVE sweep' = sweep
        BY <3>1 DEF CheckStep, Plan, CheckHealth, Begin, Move, ActLightly, Attempt,
                    Perform, GiveUp, Stamp, FailStep
      <3>2. ASSUME NEW p \in Procs, SweepStep(p) \/ Crash(p), p # q
            PROVE  sweep'[q] = sweep[q]
        BY <1>0, <3>2 DEF SweepStep, StartSweep, CheckRotation, SkipParked, ResolveBackup,
                          Rotate, FailRotation, Crash, EndSweep
      <3>3. CASE StartSweep(q) \/ SkipParked(q) \/ Rotate(q) \/ FailRotation(q) \/ Crash(q)
        BY <1>0, <3>3 DEF StartSweep, SkipParked, Rotate, FailRotation, Crash, EndSweep,
                          NoSweep
      <3>4. CASE World \/ Swaps \/ Tick \/ UNCHANGED vars
        BY <3>4, WorldKeeps DEF Tick, vars
      <3> QED BY <3>1, <3>2, <3>3, <3>4 DEF Next, SweepStep
    <2> QED BY <2>1, <2>2, <2>3, <2>4, <2>5
  <1>5. SwapTrue'
    <2>1. CASE swap.picked \/ swap.main \/ swap.returns > 0
      BY <2>1, Grows DEF PreparedInv, SwapTrue
    <2>2. CASE ~(swap.picked \/ swap.main \/ swap.returns > 0)
      <3>1. ASSUME swap' # swap PROVE Pick
        BY <2>2, <3>1, SwapMoves DEF DropPick, CheckOut, Replace, CheckIn
      <3>2. CASE Pick
        <4>1. Prepared
          BY <3>2 DEF Pick, PreparedInv, RotatedTrue
        <4> QED BY <4>1, Grows DEF SwapTrue
      <3>3. CASE swap' = swap
        BY <2>2, <3>3 DEF SwapTrue
      <3> QED BY <3>1, <3>2, <3>3
    <2> QED BY <2>1, <2>2
  <1> QED BY <1>1, <1>2, <1>3, <1>4, <1>5 DEF PreparedInv, PlanTrue, SweepTrue

LEMMA PreparedAlways == Spec => [](TypeInv /\ PreparedInv)
  <1>1. TypeInv /\ PreparedInv /\ [Next]_vars => (TypeInv /\ PreparedInv)'
    BY TypeStep, StampStep, PreparedStep DEF TypeInv
  <1> QED BY TypeInit, PreparedInit, <1>1, PTL DEF Spec

(* An account the swap is offered as supply has been through every step and   *)
(* has a recorded rotation and a backup session, however many processes run   *)
(* warm-up and rotation at once and whenever they die.                        *)
THEOREM SupplyPrepared == Spec => []RotatedIsPrepared
  <1>1. PreparedInv => RotatedIsPrepared
    BY DEF PreparedInv, RotatedTrue, Prepared, RotatedIsPrepared
  <1> QED BY PreparedAlways, <1>1, PTL

(* Only an account that our own password protects has its other sessions      *)
(* revoked, though 2FA is set in one run and sessions are revoked in another  *)
(* and a crash may come between any two steps.                                *)
THEOREM RevokeProtected == Spec => RevokeOnlyBehindPassword
  <1> DEFINE Protected == tele.externals /\ ~tele'.externals => tele.password = "ours"
  <1>1. TypeInv /\ PreparedInv /\ [Next]_vars => [Protected]_vars
    <2> SUFFICES ASSUME TypeInv, PreparedInv, [Next]_vars,
                        tele.externals, ~tele'.externals
                 PROVE  tele.password = "ours"
      OBVIOUS
    <2>0. tele \in [password : Passwords, externals : BOOLEAN]
      BY DEF TypeInv, TypeOK
    <2>1. PICK p \in Procs : Perform(p) /\ check[p].action = Revoke
      <3>1. ASSUME NEW p \in Procs, CheckStep(p), ~Perform(p) PROVE tele' = tele
        BY <3>1 DEF CheckStep, Plan, CheckHealth, Begin, Move, ActLightly, Attempt,
                    GiveUp, Stamp, FailStep
      <3>2. ASSUME NEW p \in Procs, SweepStep(p) \/ Crash(p) PROVE tele' = tele
        BY <3>2 DEF SweepStep, StartSweep, CheckRotation, SkipParked, ResolveBackup,
                    Rotate, FailRotation, Crash
      <3>3. ASSUME World \/ Tick \/ UNCHANGED vars PROVE tele'.externals = tele.externals
        BY <2>0, <3>3 DEF World, JoinChannel, LoseChannel, Expire, Reactivate,
                          OwnerSetsPassword, Tick, vars
      <3>5. ASSUME Swaps PROVE tele' = tele
        BY <3>5 DEF Swaps, Pick, DropPick, CheckOut, Replace, CheckIn
      <3>4. ASSUME NEW p \in Procs, Perform(p) PROVE check[p].action = Revoke
        BY <2>0, <3>4 DEF Perform
      <3> QED BY <3>1, <3>2, <3>3, <3>4, <3>5 DEF Next
    <2> QED BY <2>1 DEF PreparedInv, PlanTrue, StampTrue
  <1> QED BY PreparedAlways, <1>1, PTL DEF Spec, RevokeOnlyBehindPassword

-----------------------------------------------------------------------------
(* One process: the plan is still good when it is carried out.                *)

Alone == \A p, q \in Procs : p = q

LEMMA RankValues ==
    /\ Rank["enrolled"] = 0 /\ Rank["settling"] = 1 /\ Rank["identity"] = 2
    /\ Rank["growing"] = 3 /\ Rank["maturing"] = 4 /\ Rank["ready"] = 5
    /\ Rank["session_rotated"] = 6
    /\ \A f \in Phases : Rank[f] \in 0 .. 6
  BY DEF Rank, Phases

\* The plan never goes back, and makes READY of maturing accounts only.
LEMMA PlanForward ==
    ASSUME NEW d \in Doc
    PROVE  /\ Rank[d.phase] <= Rank[WarmupAction(d).phase]
           /\ WarmupAction(d).action = "advance_to_ready"
                  => WarmupAction(d).phase = "maturing"
           /\ WarmupAction(d).phase = "identity" => WarmupAction(d).action # Revoke
  <1>1. /\ SettlingStep(d) # "advance_to_ready" /\ IdentityStep(d) # "advance_to_ready"
        /\ IdentityStep(d) # Revoke
    BY DEF SettlingStep, IdentityStep, After, Revoke
  <1>2. MissedStep(d) # "advance_to_ready"
    BY <1>1 DEF MissedStep, After
  <1>3. /\ FromSettling(d).phase \in {"settling", "identity"}
        /\ FromSettling(d).action # "advance_to_ready"
        /\ FromSettling(d).phase = "identity" => FromSettling(d).action # Revoke
    BY <1>1 DEF FromSettling, To, Revoke
  <1>4. /\ FromIdentity(d).phase \in {"identity", "growing"}
        /\ FromIdentity(d).action # "advance_to_ready"
        /\ FromIdentity(d).action # Revoke
    BY <1>1 DEF FromIdentity, To, Revoke
  <1>5. /\ FromGrowing(d).phase \in {"growing", "maturing"}
        /\ FromGrowing(d).action = "advance_to_ready" => FromGrowing(d).phase = "maturing"
        /\ FromMaturing(d).phase = "maturing"
    BY <1>2 DEF FromGrowing, FromMaturing, To
  <1>6. /\ FromReady(d).phase \in {"ready", "session_rotated"}
        /\ FromReady(d).action # "advance_to_ready"
    BY DEF FromReady, To
  <1>7. d.phase \in Phases
    BY DEF Doc
  <1> QED BY <1>3, <1>4, <1>5, <1>6, <1>7, RankValues DEF WarmupAction, To, Phases

RevokedLongAgo(d) == Revoke \in d.done /\ d.since[Revoke] >= Gap.auth
SpacedIn(d, s) == \A t \in Spacing : t[1] = s => t[2] \in d.done /\ d.since[t[2]] >= t[3]

\* A planned step has its distance from the step before.
LEMMA PlanSpaced ==
    ASSUME NEW d \in Doc, d.phase = "identity" => RevokedLongAgo(d)
    PROVE  /\ SpacedIn(d, WarmupAction(d).action)
           /\ WarmupAction(d).phase = "identity" => RevokedLongAgo(d)
  <1>1. \A s : (\/ s \notin {"set_2fa", Revoke, "delete_photos", "update_name_bio",
                             "update_username", "upload_photo"}
                \/ /\ s = "set_2fa" /\ "set_privacy" \in d.done
                   /\ d.since["set_privacy"] >= Gap.step
                \/ /\ s = Revoke /\ "set_2fa" \in d.done
                   /\ d.since["set_2fa"] >= Gap.step
                \/ /\ s = "delete_photos" /\ RevokedLongAgo(d)
                \/ /\ s = "update_name_bio" /\ "delete_photos" \in d.done
                   /\ d.since["delete_photos"] >= Gap.step
                \/ /\ s = "update_username" /\ "update_name_bio" \in d.done
                   /\ d.since["update_name_bio"] >= Gap.username
                \/ /\ s = "upload_photo" /\ "update_username" \in d.done
                   /\ d.since["update_username"] >= Gap.growing)
               => SpacedIn(d, s)
    BY DEF SpacedIn, Spacing, RevokedLongAgo, Revoke
  <1>2. SpacedIn(d, SettlingStep(d)) /\ (SettlingStep(d) = "none" => Revoke \in d.done)
    BY <1>1 DEF SettlingStep, After, Revoke
  <1>3. /\ RevokedLongAgo(d) => SpacedIn(d, IdentityStep(d))
        /\ IdentityStep(d) = "none" => "update_username" \in d.done
    BY <1>1 DEF IdentityStep, After, Revoke
  <1>4. SpacedIn(d, "organic_only") /\ SpacedIn(d, "join_channels") /\ SpacedIn(d, "wait")
        /\ SpacedIn(d, "advance_to_ready") /\ SpacedIn(d, "rotate_session")
        /\ SpacedIn(d, "set_privacy") /\ SpacedIn(d, "none")
    BY <1>1 DEF Revoke
  <1>5. /\ SpacedIn(d, MissedStep(d))
        /\ MissedStep(d) = "none"
               => "update_username" \in d.done /\ d.since["update_username"] >= Gap.growing
    <2>1. CASE SettlingStep(d) # "none"
      BY <2>1, <1>2 DEF MissedStep
    <2>2. CASE SettlingStep(d) = "none" /\ d.since[Revoke] < Gap.auth
      BY <2>2, <1>4 DEF MissedStep
    <2>3. CASE SettlingStep(d) = "none" /\ ~(d.since[Revoke] < Gap.auth)
      <3>1. d.since[Revoke] \in Nat /\ Gap.auth \in Nat
        BY Numbers, ThresholdAssumption DEF Doc, Steps
      <3>2. RevokedLongAgo(d)
        BY <2>3, <3>1, <1>2 DEF RevokedLongAgo
      <3> QED BY <2>3, <3>2, <1>3, <1>4 DEF MissedStep, After
    <2> QED BY <2>1, <2>2, <2>3
  <1>6. MissedStep(d) = "none" => SpacedIn(d, FinalStep(d))
    BY <1>1, <1>4, <1>5 DEF FinalStep
  <1>7. /\ SpacedIn(d, FromSettling(d).action)
        /\ FromSettling(d).phase = "identity" => RevokedLongAgo(d)
    <2>1. CASE SettlingStep(d) # "none"
      BY <2>1, <1>2 DEF FromSettling, To
    <2>2. CASE SettlingStep(d) = "none"
      BY <2>2, <1>1, <1>2, <1>4 DEF FromSettling, To, RevokedLongAgo
    <2> QED BY <2>1, <2>2
  <1>8. RevokedLongAgo(d) => SpacedIn(d, FromIdentity(d).action)
    BY <1>3, <1>4 DEF FromIdentity, To
  <1>9. /\ SpacedIn(d, FromGrowing(d).action) /\ FromGrowing(d).phase # "identity"
        /\ SpacedIn(d, FromMaturing(d).action) /\ FromMaturing(d).phase # "identity"
    BY <1>4, <1>5, <1>6 DEF FromGrowing, FromMaturing, To
  <1>10. SpacedIn(d, FromReady(d).action) /\ FromReady(d).phase # "identity"
    BY <1>4 DEF FromReady, To
  <1>11. d.phase \in Phases
    BY DEF Doc
  <1> QED BY <1>4, <1>7, <1>8, <1>9, <1>10, <1>11 DEF WarmupAction, To, Phases

(* The invariant.  While a rotation is under way the account is READY and no  *)
(* check of it runs; a check moves on from the phase it read and acts in the  *)
(* phase it has written; its action is still properly spaced.                 *)
SweepAlone   == \A p \in Procs :
    sweep[p].at # "idle" => check[p].at = "idle" /\ doc.phase = "ready"
PhaseCurrent == \A p \in Procs :
    /\ check[p].at \in {"health", "planned", "begun"} => doc.phase = check[p].seen.phase
    /\ check[p].at \in {"acting", "stamp"} => doc.phase = check[p].phase
Forward      == \A p \in Procs :
    /\ Rank[check[p].seen.phase] <= Rank[check[p].phase]
    /\ check[p].action = "advance_to_ready" => check[p].phase = "maturing"
RotatedLast  == doc.rotated => doc.phase = "session_rotated"
SpacedPlan   ==
    /\ doc.phase = "identity" => RevokedLongAgo(doc)
    /\ \A p \in Procs :
           /\ check[p].phase = "identity" => RevokedLongAgo(doc) /\ check[p].action # Revoke
           /\ SpacedIn(doc, check[p].action)
AloneInv == SweepAlone /\ PhaseCurrent /\ Forward /\ RotatedLast /\ SpacedPlan

\* What a swap has picked, made the main or is about to return is rotated.
SwapRotated ==
    /\ swap.picked \/ swap.main \/ swap.returns > 0 => doc.phase = "session_rotated"
    /\ swap.picked => ~swap.main

\* The part of the invariant about one process that is not checking.
LEMMA NoCheckFacts ==
    /\ NoCheck.at = "idle" /\ NoCheck.phase = "enrolled" /\ NoCheck.action = "wait"
    /\ NoCheck.seen.phase = "enrolled"
    /\ \A d : SpacedIn(d, "wait")
  BY DEF NoCheck, View, FreshDoc, SpacedIn, Spacing, Revoke

LEMMA AloneInit == Init => AloneInv
  <1> SUFFICES ASSUME Init PROVE AloneInv
    OBVIOUS
  <1>1. ~doc.rotated /\ doc.phase # "identity"
    <2>1. CASE doc = FreshDoc
      BY <2>1 DEF FreshDoc
    <2>2. ASSUME NEW f \in {"growing", "maturing"}, NEW s \in Legacy, NEW c \in {0, Floor},
                 NEW a \in {Threshold.growing, AgeCap},
                 doc = [FreshDoc EXCEPT !.phase = f, !.done = s, !.channels = c, !.age = a]
          PROVE  ~doc.rotated /\ doc.phase # "identity"
      BY <2>2 DEF FreshDoc
    <2> QED BY <2>1, <2>2 DEF Init
  <1>2. \A p \in Procs : check[p] = NoCheck /\ sweep[p].at = "idle"
    BY DEF Init, NoSweep
  <1> QED BY <1>1, <1>2, NoCheckFacts, RankValues
          DEF AloneInv, SweepAlone, PhaseCurrent, Forward, RotatedLast, SpacedPlan

\* Distances do not shrink, unless a step is stamped.
LEMMA SpacingKept ==
    ASSUME doc \in Doc,
           \/ doc'.done = doc.done /\ doc'.since = doc.since
           \/ TickEffect
    PROVE  /\ RevokedLongAgo(doc) => RevokedLongAgo(doc')
           /\ \A s : SpacedIn(doc, s) => SpacedIn(doc', s)
  <1>1. CASE doc'.done = doc.done /\ doc'.since = doc.since
    BY <1>1 DEF RevokedLongAgo, SpacedIn
  <1>2. CASE TickEffect
    <2>1. ASSUME NEW x \in 0 .. GapCap, NEW g \in 0 .. GapCap, x >= g
          PROVE  Older(x, GapCap) >= g
      BY <2>1, Numbers DEF Older
    <2>2. \A t \in Spacing : t[2] \in Steps /\ t[3] \in 0 .. GapCap
      BY ThresholdAssumption, CapAssumption DEF Spacing, Steps, Revoke
    <2>3. Revoke \in Steps /\ Gap.auth \in 0 .. GapCap
      BY ThresholdAssumption, CapAssumption DEF Steps
    <2>4. doc'.done = doc.done
      BY <1>2 DEF TickEffect
    <2>5. ASSUME NEW r \in Steps, NEW g \in 0 .. GapCap, doc.since[r] >= g
          PROVE  doc'.since[r] >= g
      <3>1. doc'.since[r] = Older(doc.since[r], GapCap) /\ doc.since[r] \in 0 .. GapCap
        BY <1>2 DEF TickEffect, Doc
      <3> QED BY <2>1, <2>5, <3>1
    <2> QED BY <2>2, <2>3, <2>4, <2>5 DEF RevokedLongAgo, SpacedIn
  <1> QED BY <1>1, <1>2

LEMMA AloneStep ==
    Alone /\ TypeInv /\ AloneInv /\ SwapRotated /\ [Next]_vars => AloneInv'
  <1> SUFFICES ASSUME Alone, TypeInv, AloneInv, SwapRotated, [Next]_vars PROVE AloneInv'
    OBVIOUS
  <1>0. /\ doc \in Doc /\ check \in [Procs -> CheckType] /\ sweep \in [Procs -> SweepType]
    BY DEF TypeInv, TypeOK, CheckType, SweepType
  <1> USE DEF AloneInv, SweepAlone, PhaseCurrent, Forward, RotatedLast, SpacedPlan
  \* A check that ends leaves nothing to show but the document.
  <1>1. ASSUME NEW p \in Procs, check'[p] = NoCheck, sweep'[p] = NoSweep \/ sweep' = sweep,
               sweep[p].at # "idle" => doc'.phase = "ready",
               doc'.rotated => doc'.phase = "session_rotated",
               doc'.phase = "identity" => RevokedLongAgo(doc')
        PROVE  AloneInv'
    <2>1. \A q \in Procs : q = p
      BY DEF Alone
    <2>2. sweep'[p].at # "idle" => doc'.phase = "ready"
      BY <1>1 DEF NoSweep
    <2> QED BY <1>1, <2>1, <2>2, NoCheckFacts, RankValues
  <1>2. ASSUME NEW p \in Procs, StampEffect(p) PROVE AloneInv'
    <2>1. /\ check'[p] = NoCheck /\ sweep' = sweep
          /\ check[p].at = "stamp" /\ doc.phase = check[p].phase
      BY <1>0, <1>2 DEF StampEffect, Stamp, Leave
    <2>2. sweep[p].at = "idle"
      BY <2>1
    <2>3. doc'.rotated => doc'.phase = "session_rotated"
      BY <1>2 DEF StampEffect
    <2>4. ASSUME doc'.phase = "identity" PROVE RevokedLongAgo(doc')
      <3>1. RevokedLongAgo(doc) /\ check[p].action # Revoke
        BY <1>2, <2>1, <2>4 DEF StampEffect
      <3>2. doc.since \in [Steps -> 0 .. GapCap] /\ Revoke \in Steps
        BY <1>0 DEF Doc, Steps
      <3>3. doc'.since[Revoke] = doc.since[Revoke] /\ doc.done \subseteq doc'.done
        BY <1>2, <3>1, <3>2 DEF StampEffect
      <3> QED BY <3>1, <3>3 DEF RevokedLongAgo
    <2> QED BY <1>1, <2>1, <2>2, <2>3, <2>4
  <1>3. ASSUME NEW p \in Procs, MoveEffect(p) PROVE AloneInv'
    <2>1. /\ check[p].at = "begun" /\ check' = [check EXCEPT ![p].at = "acting"]
          /\ sweep' = sweep
      BY <1>3 DEF MoveEffect, Move
    <2>2. /\ check'[p].at = "acting" /\ check'[p].phase = check[p].phase
          /\ check'[p].action = check[p].action /\ check'[p].seen = check[p].seen
      BY <1>0, <2>1 DEF CheckType
    <2>3. doc.phase = check[p].seen.phase /\ doc'.phase = check[p].phase
      BY <1>3, <2>1 DEF MoveEffect
    <2>4. check[p].phase \in Phases
      BY <1>0 DEF CheckType
    <2>5. doc'.rotated => doc'.phase = "session_rotated"
      <3>1. SUFFICES ASSUME doc.rotated PROVE check[p].phase = "session_rotated"
        BY <1>3, <2>3 DEF MoveEffect
      <3>2. 6 <= Rank[check[p].phase]
        BY <2>3, <3>1, RankValues
      <3> QED BY <2>4, <3>2, RankValues DEF Phases
    <2>6. /\ RevokedLongAgo(doc) => RevokedLongAgo(doc')
          /\ \A s : SpacedIn(doc, s) => SpacedIn(doc', s)
      BY <1>0, <1>3, SpacingKept DEF MoveEffect
    <2>7. sweep[p].at = "idle" /\ \A q \in Procs : q = p
      BY <2>1 DEF Alone
    <2> QED BY <2>1, <2>2, <2>3, <2>5, <2>6, <2>7
  <1>4. ASSUME NEW p \in Procs, ActEffect(p) PROVE AloneInv'
    <2>1. /\ check'[p] = NoCheck /\ sweep' = sweep
          /\ check[p].at = "acting" /\ doc.phase = check[p].phase
      BY <1>0, <1>4 DEF ActEffect, ActLightly, Leave
    <2>2. sweep[p].at = "idle"
      BY <2>1
    <2>3. doc'.rotated => doc'.phase = "session_rotated"
      BY <1>4, <2>1 DEF ActEffect
    <2>4. doc'.phase = "identity" => RevokedLongAgo(doc')
      BY <1>0, <1>4, <2>1, SpacingKept DEF ActEffect
    <2> QED BY <1>1, <2>1, <2>2, <2>3, <2>4
  <1>5. ASSUME NEW p \in Procs, RotateEffect(p) PROVE AloneInv'
    <2>1. check' = check /\ sweep'[p].at = "idle" /\ check[p].at = "idle"
      BY <1>0, <1>5 DEF RotateEffect, Rotate, EndSweep, NoSweep
    <2>2. /\ RevokedLongAgo(doc) => RevokedLongAgo(doc')
          /\ \A s : SpacedIn(doc, s) => SpacedIn(doc', s)
      BY <1>0, <1>5, SpacingKept DEF RotateEffect
    <2>3. doc'.phase = "session_rotated" /\ \A q \in Procs : q = p
      BY <1>5 DEF RotateEffect, Alone
    <2> QED BY <2>1, <2>2, <2>3
  <1>6. ASSUME NEW p \in Procs, Quiet(p) PROVE AloneInv'
    <2>0. /\ doc'.phase = doc.phase /\ doc'.rotated = doc.rotated
          /\ \A q \in Procs : q = p
          /\ RevokedLongAgo(doc) => RevokedLongAgo(doc')
          /\ \A s : SpacedIn(doc, s) => SpacedIn(doc', s)
      BY <1>0, <1>6, SpacingKept DEF Quiet, SameParts, Alone
    <2>1. CASE Plan(p)
      <3>1. /\ check'[p].at \in {"health", "planned"}
            /\ check'[p].phase = WarmupAction(doc).phase
            /\ check'[p].action = WarmupAction(doc).action
            /\ check'[p].seen.phase = doc.phase
        BY <1>0, <2>1 DEF Plan, View
      <3>2. sweep' = sweep /\ sweep[p].at = "idle" /\ doc' = doc
        BY <2>1 DEF Plan
      <3>3. /\ SpacedIn(doc, check'[p].action)
            /\ check'[p].phase = "identity" => RevokedLongAgo(doc)
        BY <1>0, <3>1, PlanSpaced
      <3>4. /\ Rank[check'[p].seen.phase] <= Rank[check'[p].phase]
            /\ check'[p].action = "advance_to_ready" => check'[p].phase = "maturing"
            /\ check'[p].phase = "identity" => check'[p].action # Revoke
        BY <1>0, <3>1, PlanForward
      <3> QED BY <2>0, <3>1, <3>2, <3>3, <3>4
    <2>2. ASSUME CheckHealth(p) \/ Begin(p) \/ Perform(p), check'[p] # NoCheck
          PROVE  AloneInv'
      <3>1. /\ sweep' = sweep /\ check[p].at # "idle"
            /\ check'[p].phase = check[p].phase /\ check'[p].action = check[p].action
        BY <1>0, <2>2 DEF CheckHealth, Begin, Perform, Leave, CheckType
      <3>2. CASE CheckHealth(p)
        <4>1. /\ check[p].at = "health" /\ check'[p].at = "planned"
              /\ check'[p].seen = check[p].seen
          BY <1>0, <2>2, <3>2 DEF CheckHealth, Leave, CheckType
        <4> QED BY <2>0, <3>1, <4>1
      <3>3. CASE Begin(p)
        <4>1. check[p].at = "planned" /\ doc.phase = check[p].seen.phase
          BY <3>3 DEF Begin
        <4>2. check'[p].at = "begun"
          BY <1>0, <2>2, <3>3 DEF Begin, Leave, CheckType
        <4>3. check'[p].seen.phase = doc.phase
          <5>1. View(Cleared(doc)).phase = doc.phase
            BY <1>0, Effects DEF View
          <5>2. ~Leave(p)
            BY <1>0, <2>2 DEF Leave
          <5>3. check'[p].seen = IF Resets(check[p].seen) THEN View(Cleared(doc))
                                 ELSE check[p].seen
            BY <1>0, <3>3, <5>2 DEF Begin, CheckType
          <5> QED BY <4>1, <5>1, <5>3
        <4> QED BY <2>0, <3>1, <4>1, <4>2, <4>3
      <3>4. CASE Perform(p)
        <4>1. /\ check[p].at = "acting" /\ check'[p].at = "stamp"
              /\ check'[p].seen = check[p].seen
          BY <1>0, <3>4 DEF Perform, CheckType
        <4> QED BY <2>0, <3>1, <4>1
      <3> QED BY <2>2, <3>2, <3>3, <3>4
    <2>3. ASSUME check'[p] = NoCheck, sweep'[p] = NoSweep \/ sweep' = sweep
          PROVE  AloneInv'
      BY <1>1, <2>0, <2>3
    <2>4. CASE StartSweep(p) \/ CheckRotation(p) \/ SkipParked(p) \/ ResolveBackup(p)
               \/ FailRotation(p)
      <3>1. check' = check
        BY <2>4 DEF StartSweep, CheckRotation, SkipParked, ResolveBackup, FailRotation
      <3>2. sweep'[p].at # "idle" => check[p].at = "idle" /\ doc.phase = "ready"
        <4>1. CASE StartSweep(p)
          BY <4>1 DEF StartSweep, MayRotate
        <4>2. CASE SkipParked(p) \/ FailRotation(p)
          BY <1>0, <4>2 DEF SkipParked, FailRotation, EndSweep, NoSweep
        <4>3. CASE CheckRotation(p) \/ ResolveBackup(p)
          BY <4>3 DEF CheckRotation, ResolveBackup
        <4> QED BY <2>4, <4>1, <4>2, <4>3
      <3> QED BY <2>0, <3>1, <3>2
    <2>5. CASE CheckHealth(p) \/ Begin(p) \/ Perform(p)
      <3>1. sweep' = sweep
        BY <2>5 DEF CheckHealth, Begin, Perform
      <3> HIDE DEF AloneInv
      <3> QED BY <2>2, <2>3, <2>5, <3>1
    <2>6. CASE GiveUp(p) \/ FailStep(p) \/ Crash(p)
      <3>1. check'[p] = NoCheck
        BY <1>0, <2>6 DEF GiveUp, FailStep, Crash, Leave
      <3>2. sweep'[p] = NoSweep \/ sweep' = sweep
        BY <1>0, <2>6 DEF GiveUp, FailStep, Crash, EndSweep
      <3> HIDE DEF AloneInv
      <3> QED BY <2>3, <3>1, <3>2
    <2> HIDE DEF AloneInv
    <2> QED BY <1>6, <2>1, <2>4, <2>5, <2>6 DEF Quiet
  <1>7. CASE WorldEffect \/ SwapEffect
    <2>1. check' = check /\ sweep' = sweep
      BY <1>7, WorldKeeps DEF WorldEffect, SwapEffect
    <2>2. SameParts(doc, doc')
      BY <1>7 DEF WorldEffect, SwapEffect, SameParts, CheckIn, SwapRotated
    <2> QED BY <1>0, <2>1, <2>2, SpacingKept DEF SameParts
  <1>8. CASE TickEffect
    <2>1. sweep' = sweep /\ doc'.phase = doc.phase /\ doc'.rotated = doc.rotated
      BY <1>8 DEF TickEffect, Tick
    <2>2. ASSUME NEW q \in Procs
          PROVE  /\ check'[q].at = check[q].at /\ check'[q].phase = check[q].phase
                 /\ check'[q].action = check[q].action
                 /\ check'[q].seen.phase = check[q].seen.phase
      <3> DEFINE c == check[q]
                 x == Older(check[q].seen.failed, ResetAfter + 1)
                 y == Older(check[q].seen.tried, Cooldown)
      <3>1. c \in CheckType
        BY <1>0
      <3>2. check'[q] = [c EXCEPT !.seen.failed = x, !.seen.tried = y]
        BY <1>8 DEF TickEffect, Tick
      <3>3. ASSUME NEW e, e = [c EXCEPT !.seen.failed = x, !.seen.tried = y]
            PROVE  /\ e.at = c.at /\ e.phase = c.phase /\ e.action = c.action
                   /\ e.seen.phase = c.seen.phase
        <4> HIDE DEF c, x, y
        <4> QED BY <3>1, <3>3 DEF CheckType, Seen
      <3> QED BY <3>2, <3>3
    <2> QED BY <1>0, <1>8, <2>1, <2>2, SpacingKept
  <1>9. CASE UNCHANGED vars
    BY <1>9 DEF vars, RevokedLongAgo, SpacedIn
  <1> QED BY <1>2, <1>3, <1>4, <1>5, <1>6, <1>7, <1>8, <1>9, StepEffects

\* An account that is rotated stays so.
LEMMA RotatedKept ==
    ASSUME TypeInv, AloneInv, [Next]_vars, doc.phase = "session_rotated"
    PROVE  doc'.phase = "session_rotated"
  <1>1. ASSUME NEW p \in Procs, MoveEffect(p) PROVE doc'.phase = "session_rotated"
    <2>1. doc.phase = check[p].seen.phase /\ 6 <= Rank[check[p].phase]
      BY <1>1, RankValues DEF MoveEffect, Move, AloneInv, PhaseCurrent, Forward
    <2>2. check[p].phase \in Phases
      BY DEF TypeInv, TypeOK
    <2>3. check[p].phase = "session_rotated"
      BY <2>1, <2>2, RankValues DEF Phases
    <2> QED BY <1>1, <2>3 DEF MoveEffect
  <1>2. ASSUME NEW p \in Procs, ActEffect(p) PROVE doc'.phase = "session_rotated"
    BY <1>2 DEF ActEffect, ActLightly, AloneInv, PhaseCurrent, Forward
  <1> QED BY <1>1, <1>2, StepEffects
          DEF StampEffect, RotateEffect, Quiet, SameParts, WorldEffect, SwapEffect,
              TickEffect, vars

LEMMA SwapStep ==
    ASSUME TypeInv, AloneInv, SwapRotated, [Next]_vars
    PROVE  SwapRotated'
  <1>0. swap \in SwapType
    BY DEF TypeInv, TypeOK, SwapType
  <1>1. CASE swap' = swap
    BY <1>1, RotatedKept DEF SwapRotated
  <1>2. CASE Pick
    BY <1>0, <1>2 DEF Pick, SwapRotated, SwapType
  <1>3. CASE DropPick \/ CheckOut \/ Replace \/ CheckIn
    <2>1. doc'.phase = "session_rotated"
      BY <1>3, RotatedKept DEF DropPick, CheckOut, Replace, CheckIn, SwapRotated
    <2>2. swap'.picked => ~swap'.main
      BY <1>0, <1>3 DEF DropPick, CheckOut, Replace, CheckIn, SwapRotated, SwapType
    <2> QED BY <2>1, <2>2 DEF SwapRotated
  <1> QED BY <1>1, <1>2, <1>3, SwapMoves

LEMMA AloneAlways == Alone => (Spec => [](TypeInv /\ AloneInv /\ SwapRotated))
  <1> DEFINE Inv == TypeInv /\ AloneInv /\ SwapRotated
  <1> SUFFICES ASSUME Alone PROVE Spec => []Inv
    OBVIOUS
  <1>1. Init => SwapRotated
    BY NoSwap DEF SwapRotated
  <1>2. Inv /\ [Next]_vars => Inv'
    BY TypeStep, StampStep, AloneStep, SwapStep DEF TypeInv
  <1> QED BY TypeInit, AloneInit, <1>1, <1>2, PTL DEF Spec

(* With one process, the phase only ever advances, although it is written     *)
(* from a plan made several awaits earlier.                                   *)
THEOREM PhasesForward == Alone => (Spec => PhaseNeverBack)
  <1> SUFFICES ASSUME Alone PROVE Spec => PhaseNeverBack
    OBVIOUS
  <1>1. TypeInv /\ AloneInv /\ SwapRotated /\ [Next]_vars
            => [Rank[doc.phase] <= Rank[doc'.phase]]_vars
    <2> SUFFICES ASSUME TypeInv, AloneInv, SwapRotated, [Next]_vars
                 PROVE  Rank[doc.phase] <= Rank[doc'.phase]
      OBVIOUS
    <2>0. doc.phase \in Phases /\ Rank[doc.phase] \in 0 .. 6
      BY RankValues DEF TypeInv, TypeOK, Doc
    <2>1. ASSUME NEW p \in Procs, MoveEffect(p) PROVE Rank[doc.phase] <= Rank[doc'.phase]
      BY <2>0, <2>1 DEF MoveEffect, Move, AloneInv, PhaseCurrent, Forward
    <2>2. ASSUME NEW p \in Procs, ActEffect(p) PROVE Rank[doc.phase] <= Rank[doc'.phase]
      BY <2>0, <2>2, RankValues
         DEF ActEffect, ActLightly, AloneInv, PhaseCurrent, Forward
    <2>3. ASSUME NEW p \in Procs, RotateEffect(p)
          PROVE  Rank[doc.phase] <= Rank[doc'.phase]
      BY <2>0, <2>3, RankValues DEF RotateEffect
    <2>4. ASSUME doc'.phase = doc.phase PROVE Rank[doc.phase] <= Rank[doc'.phase]
      BY <2>0, <2>4
    <2>5. SwapEffect => doc'.phase = doc.phase
      BY DEF SwapEffect, CheckIn, SwapRotated
    <2> QED BY <2>1, <2>2, <2>3, <2>4, <2>5, StepEffects
            DEF StampEffect, Quiet, SameParts, WorldEffect, TickEffect, vars
  <1> QED BY AloneAlways, <1>1, PTL DEF Spec, PhaseNeverBack

(* With one process, no READY account is left without a way to its rotation.  *)
THEOREM NoneStranded == Alone => (Spec => []NeverStranded)
  <1> SUFFICES ASSUME Alone PROVE Spec => []NeverStranded
    OBVIOUS
  <1>1. AloneInv => NeverStranded
    BY DEF AloneInv, RotatedLast, NeverStranded
  <1> QED BY AloneAlways, <1>1, PTL

(* With one process, a step is carried out only when the step before it is    *)
(* done and long enough ago, although it was planned from an older document.  *)
THEOREM StepsApart == Alone => (Spec => StepsSpaced)
  <1> SUFFICES ASSUME Alone PROVE Spec => StepsSpaced
    OBVIOUS
  <1>1. AloneInv => \A p \in Procs : Spaced(check[p].action)
    BY DEF AloneInv, SpacedPlan, SpacedIn, Spaced
  <1>2. (\A p \in Procs : Spaced(check[p].action))
            => [\A p \in Procs : check[p].at = "acting" /\ check'[p].at = "stamp"
                                     => Spaced(check[p].action)]_vars
    OBVIOUS
  <1> QED BY AloneAlways, <1>1, <1>2, PTL DEF StepsSpaced

-----------------------------------------------------------------------------
(* One process: the refinement of PoolAccount.                                *)

(* No check is on its way to READY, or to a rotation that it did not find     *)
(* recorded.                                                                  *)
ChecksBelow == \A p \in Procs :
    /\ check[p].phase # "ready"
    /\ check[p].phase = "session_rotated" => check[p].seen.phase = "session_rotated"

\* A plan made for an account that is not READY does not make it so.
LEMMA PlanBelow ==
    ASSUME NEW d \in Doc, d.phase # "ready"
    PROVE  /\ WarmupAction(d).phase # "ready"
           /\ WarmupAction(d).phase = "session_rotated" => d.phase = "session_rotated"
  <1>1. d.phase \in Phases
    BY DEF Doc
  <1>2. /\ FromSettling(d).phase \in {"settling", "identity"}
        /\ FromIdentity(d).phase \in {"identity", "growing"}
        /\ FromGrowing(d).phase \in {"growing", "maturing"}
        /\ FromMaturing(d).phase = "maturing"
    BY DEF FromSettling, FromIdentity, FromGrowing, FromMaturing, To
  <1> QED BY <1>1, <1>2 DEF WarmupAction, To, Phases

LEMMA ChecksBelowStep ==
    ASSUME Alone, TypeInv, AloneInv, ChecksBelow, [Next]_vars
    PROVE  ChecksBelow'
  <1>0. doc \in Doc /\ check \in [Procs -> CheckType]
    BY DEF TypeInv, TypeOK, CheckType
  <1>1. ASSUME NEW p \in Procs, Plan(p) PROVE ChecksBelow'
    <2>1. /\ check'[p].phase = WarmupAction(doc).phase
          /\ check'[p].seen.phase = doc.phase
          /\ \A q \in Procs \ {p} : check'[q] = check[q]
      BY <1>0, <1>1 DEF Plan, View
    <2>2. doc.phase # "ready"
      BY <1>1 DEF Plan
    <2> QED BY <1>0, <2>1, <2>2, PlanBelow DEF ChecksBelow
  <1>2. ASSUME NEW p \in Procs, check'[p] = NoCheck,
               \A q \in Procs \ {p} : check'[q] = check[q]
        PROVE  ChecksBelow'
    BY <1>2, NoCheckFacts DEF ChecksBelow
  <1>3. ASSUME NEW p \in Procs, Leave(p) PROVE ChecksBelow'
    BY <1>0, <1>2, <1>3 DEF Leave
  <1>4. ASSUME NEW p \in Procs, check'[p].phase = check[p].phase,
               check'[p].seen.phase = check[p].seen.phase,
               \A q \in Procs \ {p} : check'[q] = check[q]
        PROVE  ChecksBelow'
    BY <1>4 DEF ChecksBelow
  <1>5. ASSUME NEW p \in Procs, CheckHealth(p) \/ Move(p) \/ Perform(p)
        PROVE  Leave(p) \/ (/\ check'[p].phase = check[p].phase
                            /\ check'[p].seen.phase = check[p].seen.phase
                            /\ \A q \in Procs \ {p} : check'[q] = check[q])
    BY <1>0, <1>5 DEF CheckHealth, Move, Perform, CheckType
  <1>6. ASSUME NEW p \in Procs, Begin(p)
        PROVE  Leave(p) \/ (/\ check'[p].phase = check[p].phase
                            /\ check'[p].seen.phase = check[p].seen.phase
                            /\ \A q \in Procs \ {p} : check'[q] = check[q])
    <2> DEFINE now == IF Resets(check[p].seen) THEN View(Cleared(doc)) ELSE check[p].seen
    <2>1. now.phase = check[p].seen.phase
      BY <1>0, <1>6, Effects DEF Begin, View, AloneInv, PhaseCurrent
    <2>2. \/ Leave(p)
          \/ check' = [check EXCEPT ![p].at = "begun", ![p].seen = now,
                                    ![p].first = check[p].seen.fails]
      BY <1>6 DEF Begin
    <2> HIDE DEF now
    <2> QED BY <1>0, <2>1, <2>2 DEF CheckType
  <1>7. CASE Tick
    <2>1. ASSUME NEW q \in Procs
          PROVE  check'[q].phase = check[q].phase /\ check'[q].seen.phase = check[q].seen.phase
      <3> DEFINE c == check[q]
                 x == Older(check[q].seen.failed, ResetAfter + 1)
                 y == Older(check[q].seen.tried, Cooldown)
      <3>1. c \in CheckType
        BY <1>0
      <3>2. check'[q] = [c EXCEPT !.seen.failed = x, !.seen.tried = y]
        BY <1>7 DEF Tick
      <3>3. ASSUME NEW e, e = [c EXCEPT !.seen.failed = x, !.seen.tried = y]
            PROVE  e.phase = c.phase /\ e.seen.phase = c.seen.phase
        <4> HIDE DEF c, x, y
        <4> QED BY <3>1, <3>3 DEF CheckType, Seen
      <3> QED BY <3>2, <3>3
    <2> QED BY <2>1 DEF ChecksBelow
  <1>8. ASSUME NEW p \in Procs,
               ActLightly(p) \/ GiveUp(p) \/ Stamp(p) \/ FailStep(p) \/ Crash(p)
        PROVE  Leave(p)
    BY <1>8 DEF ActLightly, GiveUp, Stamp, FailStep, Crash
  <1>9. CASE (\E p \in Procs : SweepStep(p)) \/ World \/ Swaps \/ UNCHANGED vars
    <2>1. check' = check
      BY <1>9, WorldKeeps DEF SweepStep, StartSweep, CheckRotation, SkipParked,
                              ResolveBackup, Rotate, FailRotation, vars
    <2> QED BY <2>1 DEF ChecksBelow
  <1> QED BY <1>1, <1>3, <1>4, <1>5, <1>6, <1>7, <1>8, <1>9 DEF Next, CheckStep, Attempt

\* How the phase of an account moves, and that none that moves is a main.
LEMMA PhaseMoves ==
    ASSUME Alone, TypeInv, AloneInv, SwapRotated, ChecksBelow, [Next]_vars
    PROVE  \/ doc'.phase = doc.phase
           \/ /\ swap' = swap /\ ~swap.main
              /\ \/ {doc.phase, doc'.phase} \cap Terminal = {}
                 \/ doc.phase \notin Terminal /\ doc'.phase = "ready"
                 \/ doc.phase = "ready" /\ doc'.phase = "session_rotated"
  <1>0. /\ doc \in Doc /\ check \in [Procs -> CheckType]
        /\ doc.phase \in Phases /\ \A p \in Procs : check[p].phase \in Phases
    BY DEF TypeInv, TypeOK, CheckType, Doc
  <1>1. ASSUME NEW p \in Procs, MoveEffect(p), doc'.phase # doc.phase
        PROVE  /\ swap' = swap /\ ~swap.main
               /\ {doc.phase, doc'.phase} \cap Terminal = {}
    <2>1. /\ doc.phase = check[p].seen.phase /\ doc'.phase = check[p].phase
          /\ Rank[doc.phase] <= Rank[doc'.phase]
      BY <1>1 DEF MoveEffect, Move, AloneInv, PhaseCurrent, Forward
    <2>2. doc'.phase # "ready" /\ doc'.phase # "session_rotated"
      BY <1>1, <2>1 DEF ChecksBelow
    <2>3. doc.phase # "ready" /\ doc.phase # "session_rotated"
      <3>1. doc'.phase \in Phases
        BY <1>0, <2>1
      <3> QED BY <2>1, <2>2, <3>1, RankValues DEF Phases
    <2> QED BY <1>1, <2>2, <2>3 DEF MoveEffect, Move, SwapRotated, Terminal
  <1>2. ASSUME NEW p \in Procs, ActEffect(p), doc'.phase # doc.phase
        PROVE  /\ swap' = swap /\ ~swap.main
               /\ doc.phase \notin Terminal /\ doc'.phase = "ready"
    <2>1. doc.phase = "maturing" /\ doc'.phase = "ready"
      BY <1>2 DEF ActEffect, ActLightly, AloneInv, PhaseCurrent, Forward
    <2> QED BY <1>2, <2>1 DEF ActEffect, ActLightly, SwapRotated, Terminal
  <1>3. ASSUME NEW p \in Procs, RotateEffect(p)
        PROVE  /\ swap' = swap /\ ~swap.main
               /\ doc.phase = "ready" /\ doc'.phase = "session_rotated"
    <2>1. doc.phase = "ready"
      BY <1>3 DEF RotateEffect, Rotate, AloneInv, SweepAlone
    <2> QED BY <1>3, <2>1 DEF SwapRotated, RotateEffect, Rotate
  <1>4. SwapEffect => doc'.phase = doc.phase
    BY DEF SwapEffect, CheckIn, SwapRotated
  <1> QED BY <1>1, <1>2, <1>3, <1>4, StepEffects
          DEF StampEffect, Quiet, SameParts, WorldEffect, TickEffect, vars

(* The stages of PoolAccount are passed through in its order: a step changes  *)
(* the phase of the document or whose main the account is, never both.        *)
LEMMA AccountStep ==
    ASSUME Alone, TypeInv, AloneInv, SwapRotated, ChecksBelow, [Next]_vars
    PROVE  [Account!Next]_Stage
  <1> USE DEF Stage
  <1>1. doc.phase \in Phases /\ swap \in SwapType
    BY DEF TypeInv, TypeOK, Doc, SwapType
  <1>2. CASE doc'.phase # doc.phase
    <2>1. /\ swap' = swap /\ ~swap.main
          /\ \/ {doc.phase, doc'.phase} \cap Terminal = {}
             \/ doc.phase \notin Terminal /\ doc'.phase = "ready"
             \/ doc.phase = "ready" /\ doc'.phase = "session_rotated"
      BY <1>2, PhaseMoves
    <2>2. CASE {doc.phase, doc'.phase} \cap Terminal = {}
      <3>1. Stage' = Stage
        BY <2>1, <2>2 DEF Terminal
      <3> QED BY <3>1
    <2>3. CASE doc.phase \notin Terminal /\ doc'.phase = "ready"
      <3>1. Stage = "warming" /\ Stage' = "ready"
        BY <2>1, <2>3 DEF Terminal
      <3> QED BY <3>1 DEF Account!Next, Account!Ready, Account!Turns
    <2>4. CASE doc.phase = "ready" /\ doc'.phase = "session_rotated"
      <3>1. Stage = "ready" /\ Stage' = "supply"
        BY <2>1, <2>4
      <3> QED BY <3>1 DEF Account!Next, Account!Rotate, Account!Turns
    <2> QED BY <2>1, <2>2, <2>3, <2>4
  <1>3. CASE doc'.phase = doc.phase
    <2>1. CASE swap'.main = swap.main
      <3>1. Stage' = Stage
        BY <1>3, <2>1
      <3> QED BY <3>1
    <2>2. CASE CheckOut
      <3>1. swap'.main /\ ~swap.main /\ doc.phase = "session_rotated"
        BY <1>1, <2>2 DEF CheckOut, SwapRotated, SwapType
      <3>2. Stage = "supply" /\ Stage' = "main"
        BY <3>1
      <3> QED BY <3>2 DEF Account!Next, Account!Lend, Account!Turns
    <2>3. CASE Replace
      <3>1. ~swap'.main /\ swap.main /\ doc.phase = "session_rotated"
        BY <1>1, <2>3 DEF Replace, SwapRotated, SwapType
      <3>2. Stage = "main" /\ Stage' = "supply"
        BY <1>3, <3>1
      <3> QED BY <3>2 DEF Account!Next, Account!Return, Account!Turns
    <2>4. ASSUME Pick \/ DropPick \/ CheckIn PROVE swap'.main = swap.main
      BY <1>1, <2>4 DEF Pick, DropPick, CheckIn, SwapType
    <2> QED BY <2>1, <2>2, <2>3, <2>4, SwapMoves
  <1> QED BY <1>2, <1>3

(* With one process, an account is READY, supply and a main in the order that *)
(* the pool is promised, although the commit of a swap and the return to the  *)
(* pool ask nothing of the row they write; with two, a check whose plan is    *)
(* old may take it back.                                                      *)
THEOREM AccountRefinement == Alone => (Spec => ImplementsAccount)
  <1> SUFFICES ASSUME Alone PROVE Spec => ImplementsAccount
    OBVIOUS
  <1>1. Init => ChecksBelow /\ Account!Init
    <2> SUFFICES ASSUME Init PROVE ChecksBelow /\ Stage = "warming"
      BY DEF Account!Init
    <2>1. doc.phase \notin Terminal /\ ~swap.main
      <3>1. CASE doc = FreshDoc
        BY <3>1 DEF FreshDoc, Terminal, Init
      <3>2. ASSUME NEW f \in {"growing", "maturing"}, NEW s \in Legacy,
                   NEW c \in {0, Floor}, NEW a \in {Threshold.growing, AgeCap},
                   doc = [FreshDoc EXCEPT !.phase = f, !.done = s, !.channels = c,
                                          !.age = a]
            PROVE  doc.phase \notin Terminal /\ ~swap.main
        BY <3>2 DEF FreshDoc, Terminal, Init
      <3> QED BY <3>1, <3>2 DEF Init
    <2>2. \A p \in Procs : check[p] = NoCheck
      BY DEF Init
    <2> QED BY <2>1, <2>2, NoCheckFacts DEF ChecksBelow, Stage, Terminal
  <1>2. TypeInv /\ AloneInv /\ SwapRotated /\ ChecksBelow /\ [Next]_vars
            => ChecksBelow' /\ [Account!Next]_Stage
    BY ChecksBelowStep, AccountStep
  <1>3. Spec => [](TypeInv /\ AloneInv /\ SwapRotated)
    BY AloneAlways
  <1> QED BY <1>1, <1>2, <1>3, PTL DEF Spec, ImplementsAccount, Account!Spec
=============================================================================
