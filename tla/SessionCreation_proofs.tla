----------------------- MODULE SessionCreation_proofs -----------------------
(***************************************************************************)
(* Proofs about SessionCreation, for any number of requests and any        *)
(* limits.                                                                 *)
(*                                                                         *)
(* That creations are kept apart does not follow from the lock, which runs *)
(* out under its holder.  The invariant says what takes over: as long as   *)
(* the placeholder of a creation has not been cleaned away, it is there    *)
(* (Covered), the lock is the creation's or nobody's (Owned), and once the *)
(* lock can be taken nobody is past the check to take it (Shut).           *)
(***************************************************************************)
EXTENDS SessionCreation, TLAPS

(* Every request but c stays where it is.                                  *)
Others(c) == \A d \in Calls : d # c => call'[d] = call[d]
USE DEF Others

Creating(c) == call[c].at = "create"
Safe(c) == Creating(c) /\ c \notin exposed

(* The lock is held by creations only.                                     *)
HolderCreates == lock # NoCall => Creating(lock)

Covered == \A c \in Calls : Safe(c) => entry # "none"
Owned == \A c \in Calls : Safe(c) => lock \in {c, NoCall}
Shut ==
    \A c \in Calls : Safe(c) /\ LockFree =>
        \A d \in Calls : call[d].at \notin {"validate", "wait"}

Apart ==
    /\ TypeOK
    /\ HolderCreates
    /\ Covered
    /\ Owned
    /\ Shut
    /\ OverlapNeedsSweep

(* A moment without an episode is one for everybody, and a request that    *)
(* the guard has cleared has met one.                                      *)
Met ==
    /\ ~parked => unparked = Calls
    /\ \A c \in Calls : call[c].at = "cleared" => c \in unparked

-----------------------------------------------------------------------------
(* Records of requests.                                                    *)

(* The next state of one request is a request again.                       *)
LEMMA BecomesTyped ==
    ASSUME TypeOK, NEW c \in Calls, NEW r \in CallRecords, Becomes(c, r)
    PROVE  /\ call' \in [Calls -> CallRecords]
           /\ call'[c] = r
           /\ Others(c)
  BY DEF TypeOK, Becomes

LEMMA IdleTyped == Idle \in CallRecords
  BY Limits DEF Idle, CallRecords, Places, Plans

LEMMA CallTyped ==
    ASSUME TypeOK, NEW c \in Calls
    PROVE  /\ call[c] \in CallRecords
           /\ call[c].left \in 0 .. MaxStored
           /\ call[c].tries \in 0 .. MaxAttempts
  BY DEF TypeOK, CallRecords

LEMMA MovesTyped ==
    ASSUME TypeOK, NEW c \in Calls, NEW a \in Places, Moves(c, a)
    PROVE  call' \in [Calls -> CallRecords]
  <1> DEFINE r == [call[c] EXCEPT !.at = a]
  <1>1. r \in CallRecords
    BY CallTyped DEF CallRecords
  <1> QED
    BY <1>1, BecomesTyped DEF Moves

LEMMA GuardedTyped ==
    ASSUME TypeOK, NEW c \in Calls, NEW p \in Plans, Guarded(c, p)
    PROVE  call' \in [Calls -> CallRecords]
  <1> DEFINE r == [call[c] EXCEPT !.at = "guard", !.plan = p]
  <1>1. r \in CallRecords
    BY CallTyped DEF CallRecords, Places
  <1> QED
    BY <1>1, BecomesTyped DEF Guarded

LEMMA EndsTyped ==
    ASSUME TypeOK, NEW c \in Calls, Becomes(c, Idle)
    PROVE  call' \in [Calls -> CallRecords]
  BY IdleTyped, BecomesTyped

LEMMA FewerTyped ==
    ASSUME TypeOK, NEW c \in Calls, call[c].left > 1,
           Becomes(c, [call[c] EXCEPT !.at = "guard", !.left = @ - 1])
    PROVE  call' \in [Calls -> CallRecords]
  <1> DEFINE r == [call[c] EXCEPT !.at = "guard", !.left = @ - 1]
  <1>1. call[c].left - 1 \in 0 .. MaxStored
    BY CallTyped, Limits
  <1>2. r \in CallRecords
    BY <1>1, CallTyped DEF CallRecords, Places
  <1> QED
    BY <1>2, BecomesTyped

LEMMA NextTyped ==
    ASSUME TypeOK, NEW c \in Calls, TriesNext(c)
    PROVE  call' \in [Calls -> CallRecords]
  <1>1. CASE call[c].plan = "given"
    <2>1. Guarded(c, "manager")
      BY <1>1 DEF TriesNext
    <2> QED
      BY <2>1, GuardedTyped DEF Plans
  <1>2. CASE call[c].plan = "manager"
    <2>1. Moves(c, "list")
      BY <1>2 DEF TriesNext
    <2> QED
      BY <2>1, MovesTyped DEF Places
  <1>3. CASE call[c].plan \notin {"given", "manager"}
    BY <1>3, FewerTyped, EndsTyped DEF TriesNext
  <1> QED
    BY <1>1, <1>2, <1>3

LEMMA FreshTyped ==
    ASSUME TypeOK, NEW c \in Calls, NEW a \in Places, NEW p \in Plans,
           NEW g \in BOOLEAN,
           \/ Becomes(c, [Idle EXCEPT !.at = a, !.given = g])
           \/ Becomes(c, [Idle EXCEPT !.at = a, !.plan = p])
           \/ Becomes(c, [Idle EXCEPT !.at = a])
    PROVE  call' \in [Calls -> CallRecords]
  <1>1. /\ [Idle EXCEPT !.at = a, !.given = g] \in CallRecords
        /\ [Idle EXCEPT !.at = a, !.plan = p] \in CallRecords
        /\ [Idle EXCEPT !.at = a] \in CallRecords
    BY IdleTyped DEF CallRecords
  <1> QED
    BY <1>1, BecomesTyped

LEMMA FallsBackTyped ==
    ASSUME TypeOK, NEW c \in Calls, FallsBack(c)
    PROVE  call' \in [Calls -> CallRecords]
  <1>1. CASE Becomes(c, Idle)
    BY <1>1, EndsTyped
  <1>2. CASE Becomes(c, [Idle EXCEPT !.at = "guard"])
    <2>1. "guard" \in Places /\ "entry" \in Plans
      BY DEF Places, Plans
    <2> QED
      BY <1>2, <2>1, FreshTyped
  <1> QED
    BY <1>1, <1>2 DEF FallsBack

LEMMA InitTyped == Init => TypeOK
  <1> SUFFICES ASSUME Init PROVE TypeOK
    OBVIOUS
  <1>1. call \in [Calls -> CallRecords]
    BY IdleTyped DEF Init
  <1>2. window \in [count : 0 .. MaxPerHour, over : BOOLEAN]
    BY Limits DEF Init
  <1>3. unparked \subseteq Calls
    BY DEF Init
  <1> QED
    BY <1>1, <1>2, <1>3 DEF Init, TypeOK

LEMMA TypeStep == TypeOK /\ [Next]_vars => TypeOK'
  <1> SUFFICES ASSUME TypeOK, [Next]_vars PROVE TypeOK'
    OBVIOUS
  <1>p. /\ "idle" \in Places /\ "extract" \in Places /\ "guard" \in Places
        /\ "cleared" \in Places /\ "validate" \in Places
        /\ "wait" \in Places /\ "create" \in Places /\ "borrow" \in Places
        /\ "list" \in Places /\ "query" \in Places /\ "probe" \in Places
        /\ "save" \in Places
    BY DEF Places
  <1>q. /\ "entry" \in Plans /\ "given" \in Plans /\ "manager" \in Plans
        /\ "audit" \in Plans /\ "lookup" \in Plans /\ "candidate" \in Plans
    BY DEF Plans
  <1>1. ASSUME NEW c \in Calls, CreateArrives(c) PROVE TypeOK'
    <2>1. ASSUME NEW g \in BOOLEAN,
                 Becomes(c, [Idle EXCEPT !.at = "guard", !.given = g])
          PROVE  call' \in [Calls -> CallRecords]
      BY <2>1, <1>p, <1>q, FreshTyped
    <2>2. Becomes(c, [Idle EXCEPT !.at = "extract", !.given = TRUE])
              => call' \in [Calls -> CallRecords]
      BY <1>p, <1>q, FreshTyped
    <2>3. call' \in [Calls -> CallRecords]
      BY <1>1, <2>1, <2>2 DEF CreateArrives
    <2> QED
      BY <1>1, <2>3 DEF CreateArrives, TypeOK, LetsGo
  <1>2. ASSUME NEW c \in Calls, OldestArrives(c) PROVE TypeOK'
    <2>1. call' \in [Calls -> CallRecords]
      BY <1>2, <1>p, <1>q, FreshTyped DEF OldestArrives
    <2> QED
      BY <1>2, <2>1 DEF OldestArrives, TypeOK, LetsGo
  <1>3. ASSUME NEW c \in Calls, Extracted(c) PROVE TypeOK'
    <2>1. call' \in [Calls -> CallRecords]
      BY <1>3, <1>p, MovesTyped, EndsTyped DEF Extracted
    <2> QED
      BY <1>3, <2>1 DEF Extracted, TypeOK, LetsGo
  <1>4. ASSUME NEW c \in Calls, GuardClears(c) PROVE TypeOK'
    <2>1. call' \in [Calls -> CallRecords]
      BY <1>4, <1>p, MovesTyped DEF GuardClears
    <2> QED
      BY <1>4, <2>1 DEF GuardClears, TypeOK
  <1>5. ASSUME NEW c \in Calls, GuardRefuses(c) PROVE TypeOK'
    <2>1. call' \in [Calls -> CallRecords]
      BY <1>5, EndsTyped DEF GuardRefuses
    <2> QED
      BY <1>5, <2>1 DEF GuardRefuses, TypeOK
  <1>6. ASSUME NEW c \in Calls, Admitted(c) PROVE TypeOK'
    <2>1. CASE RateLimited
      BY <1>6, <2>1, EndsTyped DEF Admitted, TypeOK
    <2>2. CASE ~RateLimited
      <3>1. Guarded(c, "manager") => call' \in [Calls -> CallRecords]
        BY <1>q, GuardedTyped
      <3>2. ASSUME Becomes(c, [call[c] EXCEPT !.at = "validate",
                                              !.plan = "given"])
            PROVE  call' \in [Calls -> CallRecords]
        <4> DEFINE r == [call[c] EXCEPT !.at = "validate", !.plan = "given"]
        <4>1. r \in CallRecords
          BY <1>p, <1>q, CallTyped DEF CallRecords
        <4> QED
          BY <3>2, <4>1, BecomesTyped
      <3>3. call' \in [Calls -> CallRecords]
        BY <1>6, <2>2, <3>1, <3>2 DEF Admitted, Starts
      <3>4. window' \in [count : 0 .. MaxPerHour, over : BOOLEAN]
        <4>1. window' = Billed
          BY <1>6, <2>2 DEF Admitted
        <4>2. Billed.count \in 0 .. MaxPerHour /\ ~Billed.over
          BY <2>2, Limits DEF Billed, RateLimited, TypeOK
        <4> QED
          BY <4>1, <4>2 DEF Billed
      <3> QED
        BY <1>6, <3>3, <3>4 DEF Admitted, TypeOK
    <2> QED
      BY <2>1, <2>2
  <1>7. ASSUME NEW c \in Calls, ManagerStarts(c) PROVE TypeOK'
    <2>1. call' \in [Calls -> CallRecords]
      BY <1>7, <1>p, MovesTyped, NextTyped DEF ManagerStarts
    <2> QED
      BY <1>7, <2>1 DEF ManagerStarts, TypeOK
  <1>8. ASSUME NEW c \in Calls, AuditStarts(c) PROVE TypeOK'
    <2>1. call' \in [Calls -> CallRecords]
      BY <1>8, <1>p, MovesTyped, NextTyped DEF AuditStarts
    <2> QED
      BY <1>8, <2>1 DEF AuditStarts, TypeOK
  <1>9. ASSUME NEW c \in Calls, AuditListed(c) PROVE TypeOK'
    <2>1. Becomes(c, Idle) => call' \in [Calls -> CallRecords]
      BY EndsTyped
    <2>2. ASSUME NEW n \in 1 .. MaxStored,
                 Becomes(c, [call[c] EXCEPT !.at = "guard", !.plan = "audit",
                                            !.left = IF n > 2 THEN 2 ELSE n])
          PROVE  call' \in [Calls -> CallRecords]
      <3> DEFINE m == IF n > 2 THEN 2 ELSE n
                 r == [call[c] EXCEPT !.at = "guard", !.plan = "audit",
                                      !.left = m]
      <3>1. m \in 0 .. MaxStored
        BY Limits
      <3>2. r \in CallRecords
        BY <3>1, <1>p, <1>q, CallTyped DEF CallRecords
      <3> QED
        BY <2>2, <3>2, BecomesTyped
    <2>3. call' \in [Calls -> CallRecords]
      BY <1>9, <2>1, <2>2 DEF AuditListed
    <2> QED
      BY <1>9, <2>3 DEF AuditListed, TypeOK
  <1>10. ASSUME NEW c \in Calls, Validated(c) PROVE TypeOK'
    <2>1. call' \in [Calls -> CallRecords]
      BY <1>10, <1>p, MovesTyped DEF Validated
    <2> QED
      BY <1>10, <2>1 DEF Validated, TypeOK, LetsGo
  <1>11. ASSUME NEW c \in Calls, TakesLock(c) PROVE TypeOK'
    <2> DEFINE r == [call[c] EXCEPT !.at = "create", !.tries = 1]
    <2>1. 1 \in 0 .. MaxAttempts
      BY Limits
    <2>2. r \in CallRecords
      BY <2>1, <1>p, CallTyped DEF CallRecords
    <2>3. call' \in [Calls -> CallRecords]
      BY <1>11, <2>2, BecomesTyped DEF TakesLock
    <2> QED
      BY <1>11, <2>3 DEF TakesLock, TypeOK
  <1>12. ASSUME NEW c \in Calls, WaitTimesOut(c) PROVE TypeOK'
    <2>1. call' \in [Calls -> CallRecords]
      BY <1>12, <1>p, MovesTyped DEF WaitTimesOut
    <2> QED
      BY <1>12, <2>1 DEF WaitTimesOut, TypeOK, LetsGo
  <1>13. ASSUME NEW c \in Calls, AttemptFails(c) PROVE TypeOK'
    <2> DEFINE r == [call[c] EXCEPT !.tries = @ + 1]
    <2>1. call[c].tries + 1 \in 0 .. MaxAttempts
      BY <1>13, CallTyped, Limits DEF AttemptFails, Attempts
    <2>2. r \in CallRecords
      BY <2>1, CallTyped DEF CallRecords
    <2>3. call' \in [Calls -> CallRecords]
      BY <1>13, <2>2, BecomesTyped DEF AttemptFails
    <2> QED
      BY <1>13, <2>3 DEF AttemptFails, TypeOK
  <1>14. ASSUME NEW c \in Calls, CreationEnds(c) PROVE TypeOK'
    <2>1. PICK to \in {"save", "borrow"} :
              Becomes(c, [call[c] EXCEPT !.at = to, !.tries = 0])
      BY <1>14 DEF CreationEnds
    <2> DEFINE r == [call[c] EXCEPT !.at = to, !.tries = 0]
    <2>2. to \in Places /\ 0 \in 0 .. MaxAttempts
      BY <1>p, Limits
    <2>3. r \in CallRecords
      BY <2>2, CallTyped DEF CallRecords
    <2>4. call' \in [Calls -> CallRecords]
      BY <2>1, <2>3, BecomesTyped
    <2> QED
      BY <1>14, <2>4 DEF CreationEnds, TypeOK, Cleans, LetsGo
  <1>15. ASSUME NEW c \in Calls, BorrowEnds(c) PROVE TypeOK'
    <2>1. call' \in [Calls -> CallRecords]
      BY <1>15, <1>p, MovesTyped, NextTyped DEF BorrowEnds
    <2> QED
      BY <1>15, <2>1 DEF BorrowEnds, TypeOK
  <1>16. ASSUME NEW c \in Calls, Saved(c) PROVE TypeOK'
    <2>1. call' \in [Calls -> CallRecords]
      BY <1>16, EndsTyped DEF Saved
    <2> QED
      BY <1>16, <2>1 DEF Saved, TypeOK
  <1>17. ASSUME NEW c \in Calls, LookUp(c) PROVE TypeOK'
    <2>1. call' \in [Calls -> CallRecords]
      BY <1>17, <1>p, MovesTyped DEF LookUp
    <2> QED
      BY <1>17, <2>1 DEF LookUp, TypeOK
  <1>18. ASSUME NEW c \in Calls, Queried(c) PROVE TypeOK'
    <2>1. FallsBack(c) => call' \in [Calls -> CallRecords]
      BY FallsBackTyped
    <2>2. ASSUME NEW n \in 1 .. MaxStored,
                 Becomes(c, [call[c] EXCEPT !.at = "guard", !.left = n,
                                            !.plan = "candidate"])
          PROVE  call' \in [Calls -> CallRecords]
      <3> DEFINE r == [call[c] EXCEPT !.at = "guard", !.left = n,
                                      !.plan = "candidate"]
      <3>1. n \in 0 .. MaxStored
        BY Limits
      <3>2. r \in CallRecords
        BY <3>1, <1>p, <1>q, CallTyped DEF CallRecords
      <3> QED
        BY <2>2, <3>2, BecomesTyped
    <2>3. call' \in [Calls -> CallRecords]
      BY <1>18, <2>1, <2>2 DEF Queried
    <2> QED
      BY <1>18, <2>3 DEF Queried, TypeOK
  <1>19. ASSUME NEW c \in Calls, ProbeStarts(c) PROVE TypeOK'
    <2>1. call' \in [Calls -> CallRecords]
      BY <1>19, <1>p, MovesTyped DEF ProbeStarts
    <2> QED
      BY <1>19, <2>1 DEF ProbeStarts, TypeOK
  <1>20. ASSUME NEW c \in Calls, Probed(c) PROVE TypeOK'
    <2>1. call' \in [Calls -> CallRecords]
      BY <1>20, <1>p, MovesTyped, FewerTyped, FallsBackTyped DEF Probed
    <2> QED
      BY <1>20, <2>1 DEF Probed, TypeOK, LetsGo
  <1>21. CASE LockLapses
    BY <1>21 DEF LockLapses, TypeOK
  <1>22. CASE LocksSwept
    BY <1>22 DEF LocksSwept, TypeOK
  <1>23. CASE EntryAges
    BY <1>23 DEF EntryAges, TypeOK
  <1>24. CASE EntriesSwept
    BY <1>24 DEF EntriesSwept, TypeOK
  <1>25. CASE WindowEnds
    BY <1>25 DEF WindowEnds, TypeOK
  <1>26. CASE EpisodeOpens
    BY <1>26 DEF EpisodeOpens, TypeOK
  <1>27. CASE EpisodeCloses
    BY <1>27 DEF EpisodeCloses, TypeOK
  <1>28. CASE UNCHANGED vars
    BY <1>28 DEF vars, TypeOK
  <1> QED
    BY <1>1, <1>2, <1>3, <1>4, <1>5, <1>6, <1>7, <1>8, <1>9, <1>10,
       <1>11, <1>12, <1>13, <1>14, <1>15, <1>16, <1>17, <1>18, <1>19,
       <1>20, <1>21, <1>22, <1>23, <1>24, <1>25, <1>26, <1>27, <1>28
    DEF Next, Arrives, Steps, Sweeps

(* No action but CreationEnds, LocksSwept and TakesLock changes the lock,  *)
(* and what most actions do to Apart is to move one request between awaits *)
(* that are neither a creation nor between the check and the lock.         *)
LEMMA QuietStep ==
    ASSUME Apart, TypeOK', NEW c \in Calls,
           UNCHANGED <<lock, lapsed, entry, exposed>>,
           Others(c),
           call'[c].at = "create" => call[c].at = "create",
           call[c].at = "create" => call'[c].at = "create",
           call'[c].at \in {"validate", "wait"}
               => call[c].at \in {"validate", "wait"} \/ ~InProgress
    PROVE  Apart'
  <1> USE DEF Creating, Safe
  <1>1. \A d \in Calls : Creating(d)' <=> Creating(d)
    OBVIOUS
  <1>2. HolderCreates'
    BY <1>1 DEF Apart, HolderCreates, TypeOK
  <1>3. Covered' /\ Owned'
    BY <1>1 DEF Apart, Covered, Owned
  <1>4. ASSUME NEW b \in Calls, Safe(b)', LockFree', NEW d \in Calls
        PROVE  call'[d].at \notin {"validate", "wait"}
    <2>1. Safe(b) /\ LockFree
      BY <1>1, <1>4 DEF LockFree
    <2>2. InProgress
      BY <2>1 DEF Apart, Covered, InProgress
    <2>3. call[d].at \notin {"validate", "wait"}
      BY <2>1 DEF Apart, Shut
    <2> QED
      BY <2>2, <2>3
  <1>5. OverlapNeedsSweep'
    BY <1>1 DEF Apart, OverlapNeedsSweep
  <1> QED
    BY <1>2, <1>3, <1>4, <1>5 DEF Apart, Shut

(* Where a request stands after the ways of moving it.                     *)
LEMMA Frame ==
    ASSUME TypeOK, NEW c \in Calls, NEW r, Becomes(c, r)
    PROVE  call'[c] = r /\ Others(c)
  BY DEF TypeOK, Becomes

LEMMA MovesTo ==
    ASSUME TypeOK, NEW c \in Calls, NEW a, Moves(c, a)
    PROVE  call'[c].at = a /\ Others(c)
  BY DEF TypeOK, CallRecords, Becomes, Moves

LEMMA IdleTo ==
    ASSUME TypeOK, NEW c \in Calls, Becomes(c, Idle)
    PROVE  /\ call'[c].at = "idle"
           /\ Others(c)
  BY Frame DEF Idle

LEMMA FewerTo ==
    ASSUME TypeOK, NEW c \in Calls,
           Becomes(c, [call[c] EXCEPT !.at = "guard", !.left = @ - 1])
    PROVE  /\ call'[c].at = "guard"
           /\ Others(c)
  BY DEF TypeOK, CallRecords, Becomes

LEMMA GuardedTo ==
    ASSUME TypeOK, NEW c \in Calls, NEW p, Guarded(c, p)
    PROVE  /\ call'[c].at = "guard"
           /\ Others(c)
  BY DEF TypeOK, CallRecords, Becomes, Guarded

LEMMA NextTo ==
    ASSUME TypeOK, NEW c \in Calls, TriesNext(c)
    PROVE  /\ call'[c].at \in {"guard", "list", "idle"}
           /\ Others(c)
  <1>1. CASE call[c].plan = "given"
    BY <1>1, GuardedTo DEF TriesNext
  <1>2. CASE call[c].plan = "manager"
    BY <1>2, MovesTo DEF TriesNext
  <1>3. CASE call[c].plan \notin {"given", "manager"}
    BY <1>3, FewerTo, IdleTo DEF TriesNext
  <1> QED
    BY <1>1, <1>2, <1>3

LEMMA FallsBackTo ==
    ASSUME TypeOK, NEW c \in Calls, FallsBack(c)
    PROVE  /\ call'[c].at \in {"guard", "idle"}
           /\ Others(c)
  <1>1. CASE Becomes(c, Idle)
    BY <1>1, IdleTo
  <1>2. CASE Becomes(c, [Idle EXCEPT !.at = "guard"])
    <2>1. [Idle EXCEPT !.at = "guard"].at = "guard"
      BY DEF Idle
    <2> QED
      BY <1>2, <2>1, Frame
  <1> QED
    BY <1>1, <1>2 DEF FallsBack

LEMMA ApartStep == Apart /\ [Next]_vars => Apart'
  <1> SUFFICES ASSUME Apart, [Next]_vars PROVE Apart'
    OBVIOUS
  <1>t. TypeOK /\ TypeOK'
    BY TypeStep DEF Apart
  <1>1. ASSUME NEW c \in Calls, CreateArrives(c) PROVE Apart'
    <2>1. PICK g \in BOOLEAN :
              \/ Becomes(c, [Idle EXCEPT !.at = "guard", !.given = g])
              \/ Becomes(c, [Idle EXCEPT !.at = "extract", !.given = TRUE])
      BY <1>1 DEF CreateArrives
    <2>2. /\ [Idle EXCEPT !.at = "guard", !.given = g].at = "guard"
          /\ [Idle EXCEPT !.at = "extract", !.given = TRUE].at = "extract"
      BY DEF Idle
    <2>3. call'[c].at \in {"guard", "extract"} /\ Others(c)
      BY <1>t, <2>1, <2>2, Frame
    <2>4. call[c].at = "idle"
      BY <1>1 DEF CreateArrives
    <2>8. /\ call'[c].at \notin {"create", "validate", "wait"}
          /\ call[c].at # "create" /\ Others(c)
      BY <2>3, <2>4
    <2>9. UNCHANGED <<lock, lapsed, entry, exposed>>
      BY <1>1 DEF CreateArrives
    <2> QED
      BY <1>t, <2>8, <2>9, QuietStep
  <1>2. ASSUME NEW c \in Calls, OldestArrives(c) PROVE Apart'
    <2>1. /\ UNCHANGED <<lock, lapsed, entry, exposed>>
          /\ Others(c)
      BY <1>2, <1>t
      DEF OldestArrives, Idle, Becomes, LetsGo, TypeOK, CallRecords
    <2>2. /\ call'[c].at = "create" <=> call[c].at = "create"
          /\ call'[c].at \in {"validate", "wait"}
                 => call[c].at \in {"validate", "wait"} \/ ~InProgress
      BY <1>2, <1>t
      DEF OldestArrives, Idle, Becomes, LetsGo, TypeOK, CallRecords
    <2> QED
      BY <1>t, <2>1, <2>2, QuietStep
  <1>3. ASSUME NEW c \in Calls, Extracted(c) PROVE Apart'
    <2>1. /\ UNCHANGED <<lock, lapsed, entry, exposed>>
          /\ Others(c)
      BY <1>3, <1>t
      DEF Extracted, Moves, Idle, Becomes, LetsGo, TypeOK, CallRecords
    <2>2. /\ call'[c].at = "create" <=> call[c].at = "create"
          /\ call'[c].at \in {"validate", "wait"}
                 => call[c].at \in {"validate", "wait"} \/ ~InProgress
      BY <1>3, <1>t
      DEF Extracted, Moves, Idle, Becomes, LetsGo, TypeOK, CallRecords
    <2> QED
      BY <1>t, <2>1, <2>2, QuietStep
  <1>4. ASSUME NEW c \in Calls, GuardClears(c) PROVE Apart'
    <2>1. /\ UNCHANGED <<lock, lapsed, entry, exposed>>
          /\ Others(c)
      BY <1>4, <1>t
      DEF GuardClears, Moves, Becomes, LetsGo, TypeOK, CallRecords
    <2>2. /\ call'[c].at = "create" <=> call[c].at = "create"
          /\ call'[c].at \in {"validate", "wait"}
                 => call[c].at \in {"validate", "wait"} \/ ~InProgress
      BY <1>4, <1>t
      DEF GuardClears, Moves, Becomes, LetsGo, TypeOK, CallRecords
    <2> QED
      BY <1>t, <2>1, <2>2, QuietStep
  <1>5. ASSUME NEW c \in Calls, GuardRefuses(c) PROVE Apart'
    <2>1. /\ UNCHANGED <<lock, lapsed, entry, exposed>>
          /\ Others(c)
      BY <1>5, <1>t
      DEF GuardRefuses, Idle, Becomes, LetsGo, TypeOK, CallRecords
    <2>2. /\ call'[c].at = "create" <=> call[c].at = "create"
          /\ call'[c].at \in {"validate", "wait"}
                 => call[c].at \in {"validate", "wait"} \/ ~InProgress
      BY <1>5, <1>t
      DEF GuardRefuses, Idle, Becomes, LetsGo, TypeOK, CallRecords
    <2> QED
      BY <1>t, <2>1, <2>2, QuietStep
  <1>6. ASSUME NEW c \in Calls, Admitted(c) PROVE Apart'
    <2>1. ASSUME RateLimited \/ ~call[c].given \/ InProgress
          PROVE  call'[c].at \in {"idle", "guard"} /\ Others(c)
      <3>1. \/ Becomes(c, Idle) \/ Guarded(c, "manager")
        BY <1>6, <2>1 DEF Admitted, Starts
      <3> QED
        BY <1>t, <3>1, IdleTo, GuardedTo
    <2>2. ASSUME ~RateLimited /\ call[c].given /\ ~InProgress
          PROVE  call'[c].at = "validate" /\ ~InProgress /\ Others(c)
      <3> DEFINE r == [call[c] EXCEPT !.at = "validate", !.plan = "given"]
      <3>1. Becomes(c, r)
        BY <1>6, <2>2 DEF Admitted, Starts
      <3>2. r.at = "validate"
        BY <1>t, CallTyped DEF CallRecords
      <3> QED
        BY <1>t, <2>2, <3>1, <3>2, Frame
    <2>3. call[c].at = "cleared"
      BY <1>6 DEF Admitted
    <2>8. /\ call'[c].at # "create" /\ call[c].at # "create" /\ Others(c)
          /\ call'[c].at \in {"validate", "wait"} => ~InProgress
      BY <2>1, <2>2, <2>3
    <2>9. UNCHANGED <<lock, lapsed, entry, exposed>>
      BY <1>6 DEF Admitted
    <2> QED
      BY <1>t, <2>8, <2>9, QuietStep
  <1>7. ASSUME NEW c \in Calls, ManagerStarts(c) PROVE Apart'
    <2>1. /\ UNCHANGED <<lock, lapsed, entry, exposed>>
          /\ Others(c)
      BY <1>7, <1>t
      DEF ManagerStarts, TriesNext, Guarded, Moves, Idle, Becomes, LetsGo,
          TypeOK, CallRecords
    <2>2. /\ call'[c].at = "create" <=> call[c].at = "create"
          /\ call'[c].at \in {"validate", "wait"}
                 => call[c].at \in {"validate", "wait"} \/ ~InProgress
      BY <1>7, <1>t
      DEF ManagerStarts, TriesNext, Guarded, Moves, Idle, Becomes, LetsGo,
          TypeOK, CallRecords
    <2> QED
      BY <1>t, <2>1, <2>2, QuietStep
  <1>8. ASSUME NEW c \in Calls, AuditStarts(c) PROVE Apart'
    <2>1. /\ call'[c].at \in {"guard", "list", "idle", "validate"} /\ Others(c)
          /\ call'[c].at = "validate" => ~InProgress
      BY <1>8, <1>t, MovesTo, NextTo DEF AuditStarts
    <2>2. call[c].at = "cleared"
      BY <1>8 DEF AuditStarts
    <2>8. /\ call'[c].at # "create" /\ call[c].at # "create" /\ Others(c)
          /\ call'[c].at \in {"validate", "wait"} => ~InProgress
      BY <2>1, <2>2
    <2>9. UNCHANGED <<lock, lapsed, entry, exposed>>
      BY <1>8 DEF AuditStarts
    <2> QED
      BY <1>t, <2>8, <2>9, QuietStep
  <1>9. ASSUME NEW c \in Calls, AuditListed(c) PROVE Apart'
    <2>1. call'[c].at \in {"guard", "idle"} /\ Others(c)
      <3>1. CASE Becomes(c, Idle)
        BY <1>t, <3>1, IdleTo
      <3>2. ASSUME NEW m,
                   Becomes(c, [call[c] EXCEPT !.at = "guard",
                                              !.plan = "audit", !.left = m])
            PROVE  call'[c].at = "guard" /\ Others(c)
        BY <1>t, <3>2 DEF TypeOK, CallRecords, Becomes
      <3> QED
        BY <1>9, <3>1, <3>2 DEF AuditListed
    <2>2. call[c].at = "list"
      BY <1>9 DEF AuditListed
    <2>8. /\ call'[c].at \notin {"create", "validate", "wait"}
          /\ call[c].at # "create" /\ Others(c)
      BY <2>1, <2>2
    <2>9. UNCHANGED <<lock, lapsed, entry, exposed>>
      BY <1>9 DEF AuditListed
    <2> QED
      BY <1>t, <2>8, <2>9, QuietStep
  <1>10. ASSUME NEW c \in Calls, Validated(c) PROVE Apart'
    <2>1. /\ UNCHANGED <<lock, lapsed, entry, exposed>>
          /\ Others(c)
      BY <1>10, <1>t
      DEF Validated, Moves, Becomes, LetsGo, TypeOK, CallRecords
    <2>2. /\ call'[c].at = "create" <=> call[c].at = "create"
          /\ call'[c].at \in {"validate", "wait"}
                 => call[c].at \in {"validate", "wait"} \/ ~InProgress
      BY <1>10, <1>t
      DEF Validated, Moves, Becomes, LetsGo, TypeOK, CallRecords
    <2> QED
      BY <1>t, <2>1, <2>2, QuietStep
  <1>11. ASSUME NEW c \in Calls, TakesLock(c) PROVE Apart'
    <2> USE DEF Creating, Safe
    <2>1. /\ call[c].at = "wait" /\ LockFree
          /\ lock' = c /\ ~lapsed' /\ entry' = "fresh" /\ exposed' = exposed
          /\ call'[c].at = "create"
          /\ Others(c)
      BY <1>11, <1>t DEF TakesLock, Becomes, TypeOK, CallRecords
    <2>2. \A d \in Calls : ~Safe(d)
      BY <2>1 DEF Apart, Shut
    <2>3. \A d \in Calls : Safe(d)' => d = c
      BY <2>1, <2>2
    <2>4. HolderCreates' /\ Covered' /\ Owned'
      BY <2>1, <2>3 DEF HolderCreates, Covered, Owned
    <2>5. ~LockFree'
      BY <2>1, NoCallIsNone DEF LockFree
    <2>6. Shut'
      BY <2>5 DEF Shut
    <2>7. OverlapNeedsSweep'
      BY <2>1, <2>3 DEF OverlapNeedsSweep
    <2> QED
      BY <1>t, <2>4, <2>6, <2>7 DEF Apart
  <1>12. ASSUME NEW c \in Calls, WaitTimesOut(c) PROVE Apart'
    <2>1. /\ UNCHANGED <<lock, lapsed, entry, exposed>>
          /\ Others(c)
      BY <1>12, <1>t
      DEF WaitTimesOut, Moves, Becomes, LetsGo, TypeOK, CallRecords
    <2>2. /\ call'[c].at = "create" <=> call[c].at = "create"
          /\ call'[c].at \in {"validate", "wait"}
                 => call[c].at \in {"validate", "wait"} \/ ~InProgress
      BY <1>12, <1>t
      DEF WaitTimesOut, Moves, Becomes, LetsGo, TypeOK, CallRecords
    <2> QED
      BY <1>t, <2>1, <2>2, QuietStep
  <1>13. ASSUME NEW c \in Calls, AttemptFails(c) PROVE Apart'
    <2>1. /\ UNCHANGED <<lock, lapsed, entry, exposed>>
          /\ Others(c)
      BY <1>13, <1>t
      DEF AttemptFails, Becomes, LetsGo, TypeOK, CallRecords
    <2>2. /\ call'[c].at = "create" <=> call[c].at = "create"
          /\ call'[c].at \in {"validate", "wait"}
                 => call[c].at \in {"validate", "wait"} \/ ~InProgress
      BY <1>13, <1>t
      DEF AttemptFails, Becomes, LetsGo, TypeOK, CallRecords
    <2> QED
      BY <1>t, <2>1, <2>2, QuietStep
  <1>14. ASSUME NEW c \in Calls, CreationEnds(c) PROVE Apart'
    <2> USE DEF Creating, Safe
    <2>1. /\ call[c].at = "create" /\ ~Creating(c)'
          /\ call'[c].at \notin {"validate", "wait"}
          /\ Others(c)
      BY <1>14, <1>t DEF CreationEnds, Becomes, TypeOK, CallRecords
    <2>2. /\ lock' = IF lock = c THEN NoCall ELSE lock
          /\ lapsed' = IF lock = c THEN FALSE ELSE lapsed
          /\ entry' = IF lock = c THEN "none" ELSE entry
          /\ exposed' = exposed \ {c}
      BY <1>14 DEF CreationEnds, Cleans
    <2>3. \A d \in Calls : Safe(d)' => Safe(d) /\ d # c
      BY <2>1, <2>2
    <2>4. ASSUME NEW d \in Calls, Safe(d)'
          PROVE  /\ lock # c
                 /\ entry' # "none" /\ lock' \in {d, NoCall}
                 /\ LockFree' => LockFree
      <3>1. Safe(d) /\ d # c
        BY <2>3, <2>4
      <3>2. lock # c
        BY <3>1, NoCallIsNone DEF Apart, Owned
      <3> QED
        BY <3>1, <3>2, <2>2 DEF Apart, Covered, Owned, LockFree
    <2>5. HolderCreates'
      BY <2>1, <2>2, <1>t DEF Apart, HolderCreates, TypeOK
    <2>6. Covered' /\ Owned'
      BY <2>4 DEF Covered, Owned
    <2>7. Shut'
      BY <2>1, <2>3, <2>4 DEF Apart, Shut
    <2>8. OverlapNeedsSweep'
      BY <2>1, <2>2, <2>3 DEF Apart, OverlapNeedsSweep
    <2> QED
      BY <1>t, <2>5, <2>6, <2>7, <2>8 DEF Apart
  <1>15. ASSUME NEW c \in Calls, BorrowEnds(c) PROVE Apart'
    <2>1. call'[c].at \in {"guard", "list", "idle", "save"} /\ Others(c)
      BY <1>15, <1>t, MovesTo, NextTo DEF BorrowEnds
    <2>2. call[c].at = "borrow"
      BY <1>15 DEF BorrowEnds
    <2>8. /\ call'[c].at \notin {"create", "validate", "wait"}
          /\ call[c].at # "create" /\ Others(c)
      BY <2>1, <2>2
    <2>9. UNCHANGED <<lock, lapsed, entry, exposed>>
      BY <1>15 DEF BorrowEnds
    <2> QED
      BY <1>t, <2>8, <2>9, QuietStep
  <1>16. ASSUME NEW c \in Calls, Saved(c) PROVE Apart'
    <2>1. /\ UNCHANGED <<lock, lapsed, entry, exposed>>
          /\ Others(c)
      BY <1>16, <1>t
      DEF Saved, Idle, Becomes, LetsGo, TypeOK, CallRecords
    <2>2. /\ call'[c].at = "create" <=> call[c].at = "create"
          /\ call'[c].at \in {"validate", "wait"}
                 => call[c].at \in {"validate", "wait"} \/ ~InProgress
      BY <1>16, <1>t
      DEF Saved, Idle, Becomes, LetsGo, TypeOK, CallRecords
    <2> QED
      BY <1>t, <2>1, <2>2, QuietStep
  <1>17. ASSUME NEW c \in Calls, LookUp(c) PROVE Apart'
    <2>1. /\ UNCHANGED <<lock, lapsed, entry, exposed>>
          /\ Others(c)
      BY <1>17, <1>t
      DEF LookUp, Moves, Becomes, LetsGo, TypeOK, CallRecords
    <2>2. /\ call'[c].at = "create" <=> call[c].at = "create"
          /\ call'[c].at \in {"validate", "wait"}
                 => call[c].at \in {"validate", "wait"} \/ ~InProgress
      BY <1>17, <1>t
      DEF LookUp, Moves, Becomes, LetsGo, TypeOK, CallRecords
    <2> QED
      BY <1>t, <2>1, <2>2, QuietStep
  <1>18. ASSUME NEW c \in Calls, Queried(c) PROVE Apart'
    <2>1. call'[c].at \in {"guard", "idle"} /\ Others(c)
      <3>1. CASE FallsBack(c)
        BY <1>t, <3>1, FallsBackTo
      <3>2. ASSUME NEW m,
                   Becomes(c, [call[c] EXCEPT !.at = "guard", !.left = m,
                                              !.plan = "candidate"])
            PROVE  call'[c].at = "guard" /\ Others(c)
        BY <1>t, <3>2 DEF TypeOK, CallRecords, Becomes
      <3> QED
        BY <1>18, <3>1, <3>2 DEF Queried
    <2>2. call[c].at = "query"
      BY <1>18 DEF Queried
    <2>8. /\ call'[c].at \notin {"create", "validate", "wait"}
          /\ call[c].at # "create" /\ Others(c)
      BY <2>1, <2>2
    <2>9. UNCHANGED <<lock, lapsed, entry, exposed>>
      BY <1>18 DEF Queried
    <2> QED
      BY <1>t, <2>8, <2>9, QuietStep
  <1>19. ASSUME NEW c \in Calls, ProbeStarts(c) PROVE Apart'
    <2>1. /\ UNCHANGED <<lock, lapsed, entry, exposed>>
          /\ Others(c)
      BY <1>19, <1>t
      DEF ProbeStarts, Moves, Becomes, LetsGo, TypeOK, CallRecords
    <2>2. /\ call'[c].at = "create" <=> call[c].at = "create"
          /\ call'[c].at \in {"validate", "wait"}
                 => call[c].at \in {"validate", "wait"} \/ ~InProgress
      BY <1>19, <1>t
      DEF ProbeStarts, Moves, Becomes, LetsGo, TypeOK, CallRecords
    <2> QED
      BY <1>t, <2>1, <2>2, QuietStep
  <1>20. ASSUME NEW c \in Calls, Probed(c) PROVE Apart'
    <2>1. call'[c].at \in {"guard", "idle", "save"} /\ Others(c)
      BY <1>20, <1>t, MovesTo, FewerTo, FallsBackTo DEF Probed
    <2>2. call[c].at = "probe"
      BY <1>20 DEF Probed
    <2>8. /\ call'[c].at \notin {"create", "validate", "wait"}
          /\ call[c].at # "create" /\ Others(c)
      BY <2>1, <2>2
    <2>9. UNCHANGED <<lock, lapsed, entry, exposed>>
      BY <1>20 DEF Probed
    <2> QED
      BY <1>t, <2>8, <2>9, QuietStep
  <1>21. CASE LockLapses
    <2> USE DEF Creating, Safe
    <2>1. HolderCreates' /\ Covered' /\ Owned' /\ OverlapNeedsSweep'
      BY <1>21
      DEF LockLapses, Apart, HolderCreates, Covered, Owned,
          OverlapNeedsSweep
    <2>2. Shut'
      BY <1>21 DEF LockLapses, Shut
    <2> QED
      BY <1>t, <2>1, <2>2 DEF Apart
  <1>22. CASE LocksSwept
    <2> USE DEF Creating, Safe
    <2>1. HolderCreates' /\ Covered' /\ Owned' /\ OverlapNeedsSweep'
      BY <1>22
      DEF LocksSwept, Apart, HolderCreates, Covered, Owned,
          OverlapNeedsSweep
    <2>2. LockFree
      BY <1>22 DEF LocksSwept, LockFree
    <2>3. Shut'
      BY <1>22, <2>2 DEF LocksSwept, Apart, Shut
    <2> QED
      BY <1>t, <2>1, <2>3 DEF Apart
  <1>23. CASE EntryAges
    BY <1>23, <1>t
    DEF EntryAges, Apart, HolderCreates, Covered, Owned, Shut, LockFree,
        Creating,
        Safe, OverlapNeedsSweep
  <1>24. CASE EntriesSwept
    <2> USE DEF Creating, Safe
    <2>1. \A d \in Calls : ~Safe(d)'
      BY <1>24 DEF EntriesSwept
    <2>2. HolderCreates'
      BY <1>24 DEF EntriesSwept, Apart, HolderCreates
    <2>3. Covered' /\ Owned' /\ Shut'
      BY <2>1 DEF Covered, Owned, Shut
    <2>4. OverlapNeedsSweep'
      BY <2>1 DEF OverlapNeedsSweep
    <2> QED
      BY <1>t, <2>2, <2>3, <2>4 DEF Apart
  <1>25. CASE WindowEnds
    BY <1>25, <1>t
    DEF WindowEnds, Apart, HolderCreates, Covered, Owned, Shut, LockFree,
        Creating,
        Safe, OverlapNeedsSweep
  <1>26. CASE EpisodeOpens
    BY <1>26, <1>t
    DEF EpisodeOpens, Apart, HolderCreates, Covered, Owned, Shut, LockFree,
        Creating,
        Safe, OverlapNeedsSweep
  <1>27. CASE EpisodeCloses
    BY <1>27, <1>t
    DEF EpisodeCloses, Apart, HolderCreates, Covered, Owned, Shut, LockFree,
        Creating,
        Safe, OverlapNeedsSweep
  <1>28. CASE UNCHANGED vars
    BY <1>28, <1>t
    DEF vars, Apart, HolderCreates, Covered, Owned, Shut, LockFree,
        Creating,
        Safe, OverlapNeedsSweep
  <1> QED
    BY <1>1, <1>2, <1>3, <1>4, <1>5, <1>6, <1>7, <1>8, <1>9, <1>10,
       <1>11, <1>12, <1>13, <1>14, <1>15, <1>16, <1>17, <1>18, <1>19,
       <1>20, <1>21, <1>22, <1>23, <1>24, <1>25, <1>26, <1>27, <1>28
    DEF Next, Arrives, Steps, Sweeps

LEMMA ApartInit == Init => Apart
  <1> SUFFICES ASSUME Init PROVE Apart
    OBVIOUS
  <1>1. \A c \in Calls : call[c].at = "idle"
    BY DEF Init, Idle
  <1>2. HolderCreates
    BY DEF Init, HolderCreates
  <1>3. Covered /\ Owned /\ Shut /\ OverlapNeedsSweep
    BY <1>1 DEF Covered, Owned, Shut, Safe, Creating, OverlapNeedsSweep
  <1> QED
    BY <1>2, <1>3, InitTyped DEF Apart

-----------------------------------------------------------------------------
(* The parked account.                                                     *)

(* Where each step of a request finds it and takes it.                     *)
LEMMA StepsTo ==
    ASSUME TypeOK, NEW c \in Calls, Arrives(c) \/ Steps(c)
    PROVE  /\ Others(c)
           /\ call'[c].at = "cleared"
                  => call[c].at = "guard" /\ ~parked /\ unparked' = unparked
           /\ call[c].at \notin OnString /\ call'[c].at \in OnString
                  => call[c].at = "cleared"
           /\ parked' = parked
           /\ unparked' = unparked \/ LetsGo(c)
  <1> USE DEF OnString
  <1>1. CASE CreateArrives(c)
    <2>1. PICK g \in BOOLEAN :
              \/ Becomes(c, [Idle EXCEPT !.at = "guard", !.given = g])
              \/ Becomes(c, [Idle EXCEPT !.at = "extract", !.given = TRUE])
      BY <1>1 DEF CreateArrives
    <2>2. /\ [Idle EXCEPT !.at = "guard", !.given = g].at = "guard"
          /\ [Idle EXCEPT !.at = "extract", !.given = TRUE].at = "extract"
      BY DEF Idle
    <2>3. call'[c].at \in {"guard", "extract"} /\ Others(c)
      BY <2>1, <2>2, Frame
    <2>4. call[c].at = "idle"
      BY <1>1 DEF CreateArrives
    <2> QED
      BY <1>1, <2>3 DEF CreateArrives
  <1>2. CASE OldestArrives(c)
    BY <1>2 DEF OldestArrives, Idle, Becomes, TypeOK, CallRecords
  <1>3. CASE Extracted(c)
    BY <1>3 DEF Extracted, Moves, Idle, Becomes, TypeOK, CallRecords
  <1>4. CASE GuardClears(c)
    BY <1>4 DEF GuardClears, Moves, Becomes, TypeOK, CallRecords
  <1>5. CASE GuardRefuses(c)
    BY <1>5 DEF GuardRefuses, Idle, Becomes, TypeOK, CallRecords
  <1>6. CASE Admitted(c)
    <2>1. ASSUME RateLimited \/ ~call[c].given \/ InProgress
          PROVE  call'[c].at \in {"idle", "guard"} /\ Others(c)
      <3>1. \/ Becomes(c, Idle) \/ Guarded(c, "manager")
        BY <1>6, <2>1 DEF Admitted, Starts
      <3> QED
        BY <3>1, IdleTo, GuardedTo
    <2>2. ASSUME ~RateLimited /\ call[c].given /\ ~InProgress
          PROVE  call'[c].at = "validate" /\ ~InProgress /\ Others(c)
      <3> DEFINE r == [call[c] EXCEPT !.at = "validate", !.plan = "given"]
      <3>1. Becomes(c, r)
        BY <1>6, <2>2 DEF Admitted, Starts
      <3>2. r.at = "validate"
        BY CallTyped DEF CallRecords
      <3> QED
        BY <2>2, <3>1, <3>2, Frame
    <2>3. call[c].at = "cleared"
      BY <1>6 DEF Admitted
    <2> QED
      BY <1>6, <2>1, <2>2, <2>3 DEF Admitted
  <1>7. CASE ManagerStarts(c)
    BY <1>7
    DEF ManagerStarts, TriesNext, Guarded, Moves, Idle, Becomes, TypeOK,
        CallRecords
  <1>8. CASE AuditStarts(c)
    <2>1. /\ call'[c].at \in {"guard", "list", "idle", "validate"} /\ Others(c)
          /\ call'[c].at = "validate" => ~InProgress
      BY <1>8, MovesTo, NextTo DEF AuditStarts
    <2>2. call[c].at = "cleared"
      BY <1>8 DEF AuditStarts
    <2> QED
      BY <1>8, <2>1, <2>2 DEF AuditStarts
  <1>9. CASE AuditListed(c)
    <2>1. call'[c].at \in {"guard", "idle"} /\ Others(c)
      <3>1. CASE Becomes(c, Idle)
        BY <3>1, IdleTo
      <3>2. ASSUME NEW m,
                   Becomes(c, [call[c] EXCEPT !.at = "guard",
                                              !.plan = "audit", !.left = m])
            PROVE  call'[c].at = "guard" /\ Others(c)
        BY <3>2 DEF TypeOK, CallRecords, Becomes
      <3> QED
        BY <1>9, <3>1, <3>2 DEF AuditListed
    <2>2. call[c].at = "list"
      BY <1>9 DEF AuditListed
    <2> QED
      BY <1>9, <2>1, <2>2 DEF AuditListed
  <1>10. CASE Validated(c)
    BY <1>10 DEF Validated, Moves, Becomes, TypeOK, CallRecords
  <1>11. CASE TakesLock(c)
    BY <1>11 DEF TakesLock, Becomes, TypeOK, CallRecords
  <1>12. CASE WaitTimesOut(c)
    BY <1>12 DEF WaitTimesOut, Moves, Becomes, TypeOK, CallRecords
  <1>13. CASE AttemptFails(c)
    BY <1>13 DEF AttemptFails, Becomes, TypeOK, CallRecords
  <1>14. CASE CreationEnds(c)
    BY <1>14 DEF CreationEnds, Becomes, TypeOK, CallRecords
  <1>15. CASE BorrowEnds(c)
    <2>1. call'[c].at \in {"guard", "list", "idle", "save"} /\ Others(c)
      BY <1>15, MovesTo, NextTo DEF BorrowEnds
    <2>2. call[c].at = "borrow"
      BY <1>15 DEF BorrowEnds
    <2> QED
      BY <1>15, <2>1, <2>2 DEF BorrowEnds
  <1>16. CASE Saved(c)
    BY <1>16 DEF Saved, Idle, Becomes, TypeOK, CallRecords
  <1>17. CASE LookUp(c)
    BY <1>17 DEF LookUp, Moves, Becomes, TypeOK, CallRecords
  <1>18. CASE Queried(c)
    <2>1. call'[c].at \in {"guard", "idle"} /\ Others(c)
      <3>1. CASE FallsBack(c)
        BY <3>1, FallsBackTo
      <3>2. ASSUME NEW m,
                   Becomes(c, [call[c] EXCEPT !.at = "guard", !.left = m,
                                              !.plan = "candidate"])
            PROVE  call'[c].at = "guard" /\ Others(c)
        BY <3>2 DEF TypeOK, CallRecords, Becomes
      <3> QED
        BY <1>18, <3>1, <3>2 DEF Queried
    <2>2. call[c].at = "query"
      BY <1>18 DEF Queried
    <2> QED
      BY <1>18, <2>1, <2>2 DEF Queried
  <1>19. CASE ProbeStarts(c)
    BY <1>19 DEF ProbeStarts, Moves, Becomes, TypeOK, CallRecords
  <1>20. CASE Probed(c)
    <2>1. call'[c].at \in {"guard", "idle", "save"} /\ Others(c)
      BY <1>20, MovesTo, FewerTo, FallsBackTo DEF Probed
    <2>2. call[c].at = "probe"
      BY <1>20 DEF Probed
    <2> QED
      BY <1>20, <2>1, <2>2 DEF Probed
  <1> QED
    BY <1>1, <1>2, <1>3, <1>4, <1>5, <1>6, <1>7, <1>8, <1>9, <1>10,
       <1>11, <1>12, <1>13, <1>14, <1>15, <1>16, <1>17, <1>18, <1>19,
       <1>20
    DEF Arrives, Steps

LEMMA MetInit == Init => Met
  BY DEF Init, Met, Idle

LEMMA MetStep == TypeOK /\ Met /\ [Next]_vars => Met'
  <1> SUFFICES ASSUME TypeOK, Met, [Next]_vars PROVE Met'
    OBVIOUS
  <1>1. ASSUME NEW c \in Calls, Arrives(c) \/ Steps(c)
        PROVE  Met'
    <2>1. /\ Others(c)
          /\ call'[c].at = "cleared"
                 => call[c].at = "guard" /\ ~parked /\ unparked' = unparked
          /\ parked' = parked
          /\ unparked' = unparked \/ LetsGo(c)
      BY <1>1, StepsTo
    <2>2. ~parked' => unparked' = Calls
      BY <2>1 DEF Met, LetsGo
    <2>3. \A d \in Calls : d # c /\ call'[d].at = "cleared" => d \in unparked'
      BY <2>1 DEF Met, LetsGo
    <2>4. call'[c].at = "cleared" => c \in unparked'
      BY <2>1 DEF Met
    <2> QED
      BY <2>2, <2>3, <2>4 DEF Met
  <1>2. CASE \/ LockLapses \/ Sweeps \/ WindowEnds
             \/ EpisodeOpens \/ UNCHANGED vars
    BY <1>2
    DEF LockLapses, Sweeps, LocksSwept, EntryAges, EntriesSwept, WindowEnds,
        EpisodeOpens, vars, Met
  <1>3. CASE EpisodeCloses
    BY <1>3 DEF EpisodeCloses, Met
  <1> QED
    BY <1>1, <1>2, <1>3 DEF Next

LEMMA AloneStep ==
    ASSUME TypeOK, Met, [Next]_vars, NEW c \in Calls,
           call[c].at \notin OnString, call'[c].at \in OnString
    PROVE  c \in unparked
  <1>1. ASSUME NEW d \in Calls, Arrives(d) \/ Steps(d)
        PROVE  c \in unparked
    BY <1>1, StepsTo DEF Met
  <1>2. CASE LockLapses \/ Sweeps \/ WindowEnds \/ EpisodeOpens
             \/ EpisodeCloses \/ UNCHANGED vars
    BY <1>2
    DEF LockLapses, Sweeps, LocksSwept, EntryAges, EntriesSwept, WindowEnds,
        EpisodeOpens, EpisodeCloses, vars
  <1> QED
    BY <1>1, <1>2 DEF Next

-----------------------------------------------------------------------------
(* The theorems.                                                           *)

(* Every reachable state is well typed; no hour bills more requests than   *)
(* MaxPerHour (checkRateLimit).                                            *)
THEOREM TypeCorrect == Spec => []TypeOK
  BY InitTyped, TypeStep, PTL DEF Spec

(* Creations from stored sessions overlap only after the inactivity timer  *)
(* has removed the placeholder of one under way (acquireLock,              *)
(* checkExistingSession, cleanupInactiveClients), however many requests    *)
(* there are.                                                              *)
THEOREM CreationsApart == Spec => []OverlapNeedsSweep
  <1>1. Apart => OverlapNeedsSweep
    BY DEF Apart
  <1> QED
    BY <1>1, ApartInit, ApartStep, PTL DEF Spec

(* Every lock that is held belongs to a creation under way, and a creation *)
(* whose placeholder was not cleaned away still has it and shares the lock *)
(* with nobody (acquireLock, releaseLock, removeClient).  So a lock nobody *)
(* remembers never blocks the mobile; a placeholder may, until it is   *)
(* swept (EntriesSwept), which MobileFrees needs fairness for.             *)
THEOREM LocksCovered == Spec => []LockCovered
  <1>1. Apart => LockCovered
    BY DEF Apart, HolderCreates, Covered, Owned, Safe, Creating, LockCovered
  <1> QED
    BY <1>1, ApartInit, ApartStep, PTL DEF Spec

(* A request lets go of one stored string and connects the next only if    *)
(* the account was not parked all the time in between (parkedRefusal).     *)
THEOREM ParkedRespected == Spec => ParkedLeftAlone
  <1>1. TypeOK /\ Met /\ [Next]_vars
            => [\A c \in Calls :
                   call[c].at \notin OnString /\ call'[c].at \in OnString
                       => c \in unparked]_vars
    BY AloneStep
  <1>2. Spec => [](TypeOK /\ Met)
    BY InitTyped, TypeStep, MetInit, MetStep, PTL DEF Spec
  <1> QED
    BY <1>1, <1>2, PTL DEF Spec, ParkedLeftAlone
=============================================================================
