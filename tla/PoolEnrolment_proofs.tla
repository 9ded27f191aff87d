------------------------ MODULE PoolEnrolment_proofs ------------------------
(* Proofs about PoolEnrolment, for any number of enrolments and processes.  *)
EXTENDS PoolEnrolment, TLAPS

----------------------------------------------------------------------------
(* Type correctness.                                                       *)

LEMMA IdleType == Idle \in Jobs
  BY DEF Idle, Jobs, Places, Pools, Ways

LEMMA InitType == Init => TypeOK
  BY IdleType DEF Init, TypeOK, NoClaim, Claims, Pools, Idle

(* What a step of an enrolment leaves of the chain.                        *)
LEMMA LeavesType ==
    ASSUME TypeOK, NEW a \in Attempts, job[a].at # "idle", Heads(a), Leaves(a)
    PROVE  /\ job' \in [Attempts -> Jobs]
           /\ \A b \in Attempts : job'[b].at # "idle" => job'[b].proc \in Procs
           /\ chain' \in [Procs -> Seq(Attempts)]
<1>1. job[a].proc \in Procs /\ chain[job[a].proc] \in Seq(Attempts)
  BY DEF TypeOK
<1>2. chain[job[a].proc] # <<>>
  BY DEF Heads
<1>3. Tail(chain[job[a].proc]) \in Seq(Attempts)
  BY <1>1, <1>2
<1>4. chain' \in [Procs -> Seq(Attempts)]
  BY <1>1, <1>3 DEF TypeOK, Leaves
<1>5. job' \in [Attempts -> Jobs]
  BY IdleType DEF TypeOK, Leaves
<1>6. \A b \in Attempts : job'[b].at # "idle" => job'[b].proc \in Procs
  BY DEF TypeOK, Leaves, Idle
<1> QED  BY <1>4, <1>5, <1>6

(* The holder of the lock is the head of its chain.                        *)
LockInv == \A a \in Attempts : Locked(a) => Heads(a)

LEMMA FaultType == TypeOK /\ Fault => faults' \in Nat
  BY DEF TypeOK, Fault

(* A step that changes one record of job keeps the rest of it.             *)
LEMMA MoveType ==
    ASSUME TypeOK, NEW a \in Attempts, job[a].at # "idle",
           NEW r \in Jobs, r.proc = job[a].proc,
           job' = [job EXCEPT ![a] = r]
    PROVE  /\ job' \in [Attempts -> Jobs]
           /\ \A b \in Attempts : job'[b].at # "idle" => job'[b].proc \in Procs
  BY DEF TypeOK

LEMMA MovesOn ==
    ASSUME TypeOK, NEW a \in Attempts, job[a].at # "idle",
           NEW to \in Places, job' = [job EXCEPT ![a].at = to]
    PROVE  /\ job' \in [Attempts -> Jobs]
           /\ \A b \in Attempts : job'[b].at # "idle" => job'[b].proc \in Procs
<1> DEFINE r == [job[a] EXCEPT !.at = to]
<1>1. r \in Jobs /\ r.proc = job[a].proc
  BY DEF TypeOK, Jobs
<1>2. job' = [job EXCEPT ![a] = r]
  BY DEF TypeOK
<1> HIDE DEF r
<1> QED  BY <1>1, <1>2, MoveType

(* The record with which an enrolment begins.                              *)
LEMMA NewJobType ==
    ASSUME NEW e \in Entries
    PROVE  /\ e = <<e[1], e[2], e[3]>> /\ e[1] \in Procs
           /\ NewJob(e) \in Jobs
  BY EntriesFit DEF NewJob, Jobs, Places

LEMMA BeginType ==
    ASSUME TypeOK, NEW a \in Attempts, Begin(a)
    PROVE  TypeOK'
<1>1. PICK e \in Entries :
         /\ job' = [job EXCEPT ![a] = NewJob(e)]
         /\ chain' = IF e[3] = "create" THEN [chain EXCEPT ![e[1]] = Append(@, a)]
                                       ELSE chain
  BY DEF Begin
<1>2. e[1] \in Procs /\ NewJob(e) \in Jobs /\ NewJob(e).proc = e[1]
  BY NewJobType DEF NewJob
<1>3. job' \in [Attempts -> Jobs]
  BY <1>1, <1>2 DEF TypeOK
<1>4. \A b \in Attempts : job'[b].at # "idle" => job'[b].proc \in Procs
  BY <1>1, <1>2 DEF TypeOK
<1>5. chain' \in [Procs -> Seq(Attempts)]
  <2>1. Append(chain[e[1]], a) \in Seq(Attempts)
    BY <1>2 DEF TypeOK
  <2> QED  BY <1>1, <1>2, <2>1 DEF TypeOK
<1>6. /\ rows' \in [Pools -> Attempts \cup {NoAttempt}] /\ claim' \in Claims
      /\ faults' \in Nat /\ met' \subseteq Attempts
  BY DEF TypeOK, Begin
<1> QED  BY <1>3, <1>4, <1>5, <1>6 DEF TypeOK

LEMMA StepType ==
    ASSUME TypeOK, LockInv, NEW a \in Attempts, Step(a)
    PROVE  TypeOK'
<1> DEFINE JobType(j) == /\ j \in [Attempts -> Jobs]
                         /\ \A b \in Attempts : j[b].at # "idle" => j[b].proc \in Procs
           Rest == /\ rows' \in [Pools -> Attempts \cup {NoAttempt}]
                   /\ claim' \in Claims
                   /\ chain' \in [Procs -> Seq(Attempts)]
                   /\ faults' \in Nat /\ met' \subseteq Attempts
<1>0. SUFFICES JobType(job') /\ Rest
  BY DEF TypeOK
<1>t. job[a] \in Jobs
  BY DEF TypeOK
<1>1. CASE Read(a)
  <2>1. PICK k \in job[a].unread :
          job' = [job EXCEPT
                    ![a].unread = @ \ {k},
                    ![a].seen = IF rows[k] # NoAttempt THEN @ \cup {k} ELSE @]
    BY <1>1 DEF Read
  <2> DEFINE r == [job[a] EXCEPT
                     !.unread = @ \ {k},
                     !.seen = IF rows[k] # NoAttempt THEN @ \cup {k} ELSE @]
  <2>2. r \in Jobs /\ r.proc = job[a].proc
    BY <1>t DEF Jobs
  <2>3. job' = [job EXCEPT ![a] = r]
    BY <2>1 DEF TypeOK
  <2>4. job[a].at # "idle"
    BY <1>1 DEF Read
  <2> HIDE DEF r
  <2>5. JobType(job')
    BY <2>2, <2>3, <2>4, MoveType
  <2>6. Rest
    BY <1>1 DEF Read, TypeOK
  <2> QED  BY <2>5, <2>6
<1>2. CASE PassesCheck(a)
  <2>1. JobType(job')
    BY <1>2, <1>t, MovesOn DEF PassesCheck, Places
  <2> QED  BY <1>2, <2>1 DEF PassesCheck, TypeOK
<1>3. CASE GivesUp(a)
  BY <1>3, IdleType DEF GivesUp, Idle, TypeOK
<1>4. CASE Queue(a)
  <2> DEFINE r == [job[a] EXCEPT !.at = "queued", !.seen = {}]
  <2>1. r \in Jobs /\ r.proc = job[a].proc
    BY <1>t DEF Jobs, Places
  <2>2. job' = [job EXCEPT ![a] = r]
    BY <1>4 DEF Queue, TypeOK
  <2>3. job[a].at # "idle" /\ job[a].proc \in Procs
    BY <1>4 DEF Queue, TypeOK
  <2> HIDE DEF r
  <2>4. JobType(job')
    BY <2>1, <2>2, <2>3, MoveType
  <2>5. Append(chain[job[a].proc], a) \in Seq(Attempts)
    BY <2>3 DEF TypeOK
  <2>6. Rest
    BY <1>4, <2>3, <2>5 DEF Queue, TypeOK
  <2> QED  BY <2>4, <2>6
<1>5. CASE Stamp(a)
  <2>1. CASE Leaves(a)
    BY <1>5, <2>1, LeavesType DEF Stamp, TypeOK
  <2>2. CASE ~Leaves(a)
    <3> DEFINE r == [job[a] EXCEPT !.at = "stamped", !.absent = (claim = NoClaim)]
    <3>1. r \in Jobs /\ r.proc = job[a].proc
      BY <1>t DEF Jobs, Places
    <3>2. job' = [job EXCEPT ![a] = r]
      BY <1>5, <2>2 DEF Stamp, TypeOK
    <3>3. job[a].at # "idle"
      BY <1>5 DEF Stamp
    <3> HIDE DEF r
    <3>4. JobType(job')
      BY <3>1, <3>2, <3>3, MoveType
    <3> QED  BY <1>5, <2>2, <3>4 DEF Stamp, TypeOK
  <2> QED  BY <2>1, <2>2
<1>6. CASE Claim(a)
  <2>1. claim' \in Claims
    BY <1>6, <1>t DEF Claim, Claims, Jobs
  <2>2. CASE Leaves(a) /\ Fault
    BY <1>6, <2>1, <2>2, LeavesType, FaultType DEF Claim, LockInv, Locked, TypeOK
  <2>3. CASE ~(Leaves(a) /\ Fault)
    <3> DEFINE r == [job[a] EXCEPT !.at = "reading", !.unread = Pools]
    <3>1. r \in Jobs /\ r.proc = job[a].proc
      BY <1>t DEF Jobs, Places
    <3>2. job' = [job EXCEPT ![a] = r]
      BY <1>6, <2>3 DEF Claim, TypeOK
    <3>3. job[a].at # "idle"
      BY <1>6 DEF Claim
    <3> HIDE DEF r
    <3>4. JobType(job')
      BY <3>1, <3>2, <3>3, MoveType
    <3> QED  BY <1>6, <2>1, <2>3, <3>4 DEF Claim, TypeOK
  <2> QED  BY <2>2, <2>3
<1>7. CASE ClaimRefused(a)
  <2>1. faults' \in Nat
    BY <1>7, FaultType DEF ClaimRefused, TypeOK
  <2> QED  BY <1>7, <2>1, LeavesType DEF ClaimRefused, LockInv, Locked, TypeOK
<1>8. CASE Recheck(a)
  <2>1. JobType(job')
    BY <1>8, <1>t, MovesOn DEF Recheck, Places
  <2> QED  BY <1>8, <2>1 DEF Recheck, TypeOK
<1>9. CASE Write(a)
  <2>1. rows' \in [Pools -> Attempts \cup {NoAttempt}]
    BY <1>9 DEF Write, TypeOK
  <2>2. JobType(job')
    BY <1>9, <1>t, MovesOn DEF Write, Places
  <2> QED  BY <1>9, <2>1, <2>2 DEF Write, TypeOK
<1>10. CASE Release(a)
  <2>1. faults' \in Nat
    BY <1>10, FaultType DEF Release, TypeOK
  <2>2. claim' \in Claims
    BY <1>10 DEF Release, Released, Claims, TypeOK
  <2> QED  BY <1>10, <2>1, <2>2, LeavesType DEF Release, LockInv, Locked, TypeOK
<1> QED  BY <1>1, <1>2, <1>3, <1>4, <1>5, <1>6, <1>7, <1>8, <1>9, <1>10 DEF Step

LEMMA OthersType ==
    ASSUME TypeOK,
           Expire \/ (\E p \in Procs : Crash(p)) \/ (\E k \in Pools : Remove(k))
    PROVE  TypeOK'
<1> USE DEF TypeOK
<1>1. CASE Expire
  BY <1>1 DEF Expire, Claims
<1>2. ASSUME NEW p \in Procs, Crash(p)  PROVE TypeOK'
  <2>1. faults' \in Nat
    BY <1>2, FaultType DEF Crash
  <2>2. job' \in [Attempts -> Jobs]
    BY <1>2, IdleType DEF Crash
  <2>3. chain' \in [Procs -> Seq(Attempts)]
    BY <1>2 DEF Crash
  <2> QED  BY <1>2, <2>1, <2>2, <2>3 DEF Crash, Idle
<1>3. ASSUME NEW k \in Pools, Remove(k)  PROVE TypeOK'
  BY <1>3 DEF Remove
<1> QED  BY <1>1, <1>2, <1>3

----------------------------------------------------------------------------
(* The lock of a process.                                                  *)

LEMMA LockInit == Init => LockInv
  BY DEF Init, LockInv, Locked, Idle

(* Two holders of one lock are the same enrolment.                         *)
LEMMA OneHolder ==
    ASSUME LockInv, NEW a \in Attempts, NEW b \in Attempts,
           Locked(a), Locked(b), job[a].proc = job[b].proc
    PROVE  a = b
  BY DEF LockInv, Heads

(* A chain that grows keeps its head.                                      *)
LEMMA AppendKeepsHead ==
    ASSUME TypeOK, NEW p \in Procs, NEW a \in Attempts, NEW b \in Attempts,
           job[b].proc \in Procs, Heads(b), job'[b] = job[b],
           chain' = [chain EXCEPT ![p] = Append(@, a)]
    PROVE  Heads(b)'
<1>1. /\ chain[p] \in Seq(Attempts) /\ chain[job[b].proc] \in Seq(Attempts)
      /\ chain[job[b].proc] # <<>> /\ Head(chain[job[b].proc]) = b
  BY DEF TypeOK, Heads
<1>2. CASE job[b].proc = p
  <2>1. chain'[p] = Append(chain[p], a)
    BY DEF TypeOK
  <2>2. Append(chain[p], a) # <<>> /\ Head(Append(chain[p], a)) = b
    BY <1>1, <1>2
  <2> QED  BY <1>2, <2>1, <2>2 DEF Heads
<1>3. CASE job[b].proc # p
  BY <1>1, <1>3 DEF Heads, TypeOK
<1> QED  BY <1>2, <1>3

(* The head that leaves disturbs no other holder.                          *)
LEMMA LeavesLock ==
    ASSUME TypeOK, LockInv, NEW a \in Attempts, Heads(a), Leaves(a)
    PROVE  LockInv'
<1>1. SUFFICES ASSUME NEW b \in Attempts, Locked(b)'
               PROVE  Heads(b)'
  BY DEF LockInv
<1>2. b # a
  BY <1>1 DEF TypeOK, Leaves, Locked, Idle
<1>3. job'[b] = job[b]
  BY <1>2 DEF TypeOK, Leaves
<1>4. Locked(b) /\ Heads(b)
  BY <1>1, <1>3 DEF LockInv, Locked
<1>5. job[a].proc # job[b].proc
  BY <1>2, <1>4 DEF Heads
<1>6. job[b].proc \in Procs
  BY <1>4 DEF TypeOK, Locked
<1> QED  BY <1>3, <1>4, <1>5, <1>6 DEF Leaves, Heads, TypeOK

(* A holder that goes on under its lock disturbs nobody either.            *)
LEMMA OnLock ==
    ASSUME TypeOK, LockInv, NEW a \in Attempts, Heads(a), UNCHANGED chain,
           \A b \in Attempts \ {a} : job'[b] = job[b],
           job'[a].proc = job[a].proc
    PROVE  LockInv'
  BY DEF LockInv, Locked, Heads

(* So does a step before the lock.                                         *)
LEMMA BeforeLock ==
    ASSUME TypeOK, LockInv, NEW a \in Attempts, ~Locked(a)', UNCHANGED chain,
           \A b \in Attempts \ {a} : job'[b] = job[b]
    PROVE  LockInv'
  BY DEF LockInv, Locked, Heads

LEMMA LockStep == TypeOK /\ LockInv /\ [Next]_vars => LockInv'
<1> SUFFICES ASSUME TypeOK, LockInv, [Next]_vars  PROVE LockInv'
  OBVIOUS
<1>1. ASSUME NEW a \in Attempts, Begin(a)  PROVE LockInv'
  <2>1. /\ ~Locked(a)' /\ \A b \in Attempts \ {a} : job'[b] = job[b]
        /\ \/ UNCHANGED chain
           \/ \E p \in Procs : chain' = [chain EXCEPT ![p] = Append(@, a)]
    <3>1. PICK e \in Entries :
             /\ job' = [job EXCEPT ![a] = NewJob(e)]
             /\ chain' = IF e[3] = "create" THEN [chain EXCEPT ![e[1]] = Append(@, a)]
                                           ELSE chain
      BY <1>1 DEF Begin
    <3>2. e[1] \in Procs
      BY NewJobType
    <3>3. job'[a].at \in {"queued", "check"} /\ \A b \in Attempts \ {a} : job'[b] = job[b]
      BY <3>1 DEF TypeOK, NewJob
    <3> QED  BY <3>1, <3>2, <3>3 DEF Locked
  <2>2. CASE UNCHANGED chain
    BY <2>1, <2>2, BeforeLock
  <2>3. ASSUME NEW p \in Procs, chain' = [chain EXCEPT ![p] = Append(@, a)]
        PROVE  LockInv'
    BY <2>1, <2>3, AppendKeepsHead DEF LockInv, Locked, TypeOK
  <2> QED  BY <2>1, <2>2, <2>3
<1>2. ASSUME NEW a \in Attempts, Read(a)  PROVE LockInv'
  <2>1. /\ job'[a].at = job[a].at /\ job'[a].proc = job[a].proc
        /\ \A b \in Attempts \ {a} : job'[b] = job[b]
    BY <1>2 DEF Read, TypeOK, Jobs
  <2> QED  BY <1>2, <2>1 DEF Read, LockInv, Locked, Heads
<1>3. ASSUME NEW a \in Attempts, PassesCheck(a) \/ GivesUp(a)  PROVE LockInv'
  <2>1. /\ ~Locked(a)' /\ \A b \in Attempts \ {a} : job'[b] = job[b]
    BY <1>3 DEF PassesCheck, GivesUp, TypeOK, Jobs, Locked, Idle
  <2> QED  BY <1>3, <2>1, BeforeLock DEF PassesCheck, GivesUp
<1>4. ASSUME NEW a \in Attempts, Queue(a)  PROVE LockInv'
  <2>1. /\ ~Locked(a)' /\ \A b \in Attempts \ {a} : job'[b] = job[b]
        /\ job[a].proc \in Procs
    BY <1>4 DEF Queue, TypeOK, Locked
  <2>2. chain' = [chain EXCEPT ![job[a].proc] = Append(@, a)]
    BY <1>4 DEF Queue
  <2> QED  BY <2>1, <2>2, AppendKeepsHead DEF LockInv, Locked, TypeOK
<1>5. ASSUME NEW a \in Attempts, Stamp(a)  PROVE LockInv'
  <2>1. CASE Leaves(a)
    BY <1>5, <2>1, LeavesLock DEF Stamp
  <2>2. CASE ~Leaves(a)
    <3>1. /\ \A b \in Attempts \ {a} : job'[b] = job[b]
          /\ job'[a].proc = job[a].proc
      BY <1>5, <2>2 DEF Stamp, TypeOK, Jobs
    <3> QED  BY <1>5, <2>2, <3>1, OnLock DEF Stamp
  <2> QED  BY <2>1, <2>2
<1>6. ASSUME NEW a \in Attempts, Claim(a) \/ ClaimRefused(a) \/ Release(a)
      PROVE  LockInv'
  <2>1. Heads(a)
    BY <1>6 DEF Claim, ClaimRefused, Release, LockInv, Locked
  <2>2. CASE Leaves(a)
    BY <2>1, <2>2, LeavesLock
  <2>3. CASE ~Leaves(a)
    <3>1. /\ \A b \in Attempts \ {a} : job'[b] = job[b]
          /\ job'[a].proc = job[a].proc /\ UNCHANGED chain
      BY <1>6, <2>3 DEF Claim, ClaimRefused, Release, TypeOK, Jobs
    <3> QED  BY <2>1, <3>1, OnLock
  <2> QED  BY <2>2, <2>3
<1>7. ASSUME NEW a \in Attempts, Recheck(a) \/ Write(a)  PROVE LockInv'
  <2>1. Heads(a)
    BY <1>7 DEF Recheck, Write, LockInv, Locked
  <2>2. /\ \A b \in Attempts \ {a} : job'[b] = job[b]
        /\ job'[a].proc = job[a].proc /\ UNCHANGED chain
    BY <1>7 DEF Recheck, Write, TypeOK, Jobs
  <2> QED  BY <2>1, <2>2, OnLock
<1>8. CASE Expire \/ (\E k \in Pools : Remove(k)) \/ UNCHANGED vars
  BY <1>8 DEF Expire, Remove, vars, LockInv, Locked, Heads
<1>9. ASSUME NEW p \in Procs, Crash(p)  PROVE LockInv'
  <2>1. SUFFICES ASSUME NEW b \in Attempts, Locked(b)'  PROVE Heads(b)'
    BY DEF LockInv
  <2>2. job[b].proc # p /\ job'[b] = job[b]
    BY <1>9, <2>1 DEF Crash, Locked, Idle
  <2>3. Heads(b)
    BY <2>1, <2>2 DEF LockInv, Locked
  <2> QED  BY <1>9, <2>2, <2>3 DEF Crash, Heads, TypeOK
<1> QED  BY <1>1, <1>2, <1>3, <1>4, <1>5, <1>6, <1>7, <1>8, <1>9 DEF Next, Step

LEMMA TypeStep == TypeOK /\ LockInv /\ [Next]_vars => TypeOK'
<1>1. TypeOK /\ UNCHANGED vars => TypeOK'
  BY DEF TypeOK, vars
<1> QED  BY <1>1, BeginType, StepType, OthersType DEF Next

(* Every variable keeps its type.                                          *)
THEOREM TypeCorrect == Spec => []TypeOK
<1>1. Spec => [](TypeOK /\ LockInv)
  <2>1. Init => TypeOK /\ LockInv
    BY InitType, LockInit
  <2>2. TypeOK /\ LockInv /\ [Next]_vars => (TypeOK /\ LockInv)'
    BY TypeStep, LockStep
  <2> QED  BY <2>1, <2>2, PTL DEF Spec
<1> QED  BY <1>1, PTL

----------------------------------------------------------------------------
(* One pool per account.                                                   *)

(* What is under way is one of the deployment's entries.                   *)
Entered(a) ==
    job[a].at # "idle" => <<job[a].proc, job[a].pool, job[a].way>> \in Entries

(* Who is in fn has the claim, and nobody has taken or renewed it.         *)
HoldsClaim(a) ==
    InFn(a) => claim = [pool |-> job[a].pool, by |-> a, live |-> TRUE]

(* Nothing has been read before the re-check.                              *)
Unread(a) ==
    job[a].at \in {"telegram", "queued", "stamped"} => job[a].seen = {}

(* What the re-check has found so far still holds when the row is written. *)
Rechecked(a) ==
    \A o \in Pools \ {job[a].pool} :
        /\ job[a].at = "reading" =>
              \/ rows[o] = NoAttempt
              \/ job[a].pool \notin job[a].seen /\ o \in job[a].unread \cup job[a].seen
        /\ job[a].at = "write" => rows[o] = NoAttempt

PoolInv ==
    /\ OnePool
    /\ \A a \in Attempts :
          Entered(a) /\ HoldsClaim(a) /\ Unread(a) /\ Rechecked(a)

(* Who may not have met an account without rows has not passed the check.  *)
MetInv ==
    /\ NoRows(rows) => met = Attempts
    /\ \A a \in Attempts : a \notin met =>
          /\ job[a].at = "check" =>
                \A k \in Pools : rows[k] # NoAttempt =>
                                    k \in job[a].unread \cup job[a].seen
          /\ job[a].at \in {"telegram", "queued", "stamped", "reading", "write"} =>
                job[a].way = "create"

Local(a) == Entered(a) /\ HoldsClaim(a) /\ Unread(a) /\ Rechecked(a)

(* An enrolment that has ended has nothing to keep.                        *)
LEMMA EndedLocal ==
    ASSUME NEW a \in Attempts, job'[a] = Idle
    PROVE  Local(a)'
  BY DEF Local, Entered, HoldsClaim, Unread, Rechecked, InFn, Idle

(* The others keep theirs as long as nobody writes or claims next to fn.   *)
LEMMA OtherLocal ==
    ASSUME NEW b \in Attempts, Local(b), job'[b] = job[b],
           InFn(b) => claim' = claim,
           InFn(b) => \A k \in Pools : rows'[k] \in {rows[k], NoAttempt}
    PROVE  Local(b)'
  BY DEF Local, Entered, HoldsClaim, Unread, Rechecked, InFn

(* Only one enrolment is between its claim and its write.                  *)
LEMMA SoleFn ==
    ASSUME PoolInv, NEW a \in Attempts, NEW b \in Attempts, InFn(a), InFn(b)
    PROVE  a = b
  BY DEF PoolInv, HoldsClaim

(* Nobody can claim while another enrolment is in fn.                      *)
LEMMA FnShutsOut ==
    ASSUME OneHost, TypeOK, LockInv, PoolInv, NEW a \in Attempts,
           NEW b \in Attempts, InFn(b), job[a].at = "stamped"
    PROVE  ~Claimable(a)
<1>1. claim = [pool |-> job[b].pool, by |-> b, live |-> TRUE]
  BY DEF PoolInv, HoldsClaim
<1>2. claim # NoClaim /\ claim.live /\ claim.pool = job[b].pool
  BY <1>1 DEF NoClaim
<1>3. job[a].pool # job[b].pool
  <2>1. SUFFICES ASSUME job[a].pool = job[b].pool  PROVE FALSE
    OBVIOUS
  <2>2. /\ <<job[a].proc, job[a].pool, job[a].way>> \in Entries
        /\ <<job[b].proc, job[b].pool, job[b].way>> \in Entries
    BY DEF PoolInv, Entered, InFn
  <2>3. job[a].proc = job[b].proc
    <3> DEFINE e == <<job[a].proc, job[a].pool, job[a].way>>
               f == <<job[b].proc, job[b].pool, job[b].way>>
    <3>1. e[2] = f[2] /\ e[1] = job[a].proc /\ f[1] = job[b].proc
      BY <2>1
    <3>2. e \in Entries /\ f \in Entries
      BY <2>2
    <3> HIDE DEF e, f
    <3> QED  BY <3>1, <3>2 DEF OneHost
  <2>4. a = b
    BY <2>3, OneHolder DEF Locked, InFn
  <2> QED  BY <2>4 DEF InFn
<1> QED  BY <1>2, <1>3 DEF Claimable

LEMMA PoolInit == Init => PoolInv
  BY DEF Init, PoolInv, OnePool, Entered, HoldsClaim, Unread, Rechecked, InFn, Idle,
         Pools

(* A step of a that leaves rows and claim alone, but for its own record.   *)
LEMMA QuietStep ==
    ASSUME TypeOK, PoolInv, NEW a \in Attempts, UNCHANGED <<rows, claim>>,
           \A b \in Attempts \ {a} : job'[b] = job[b], Local(a)'
    PROVE  PoolInv'
<1>1. \A b \in Attempts : Local(b)
  BY DEF PoolInv, Local
<1>2. \A b \in Attempts \ {a} : Local(b)'
  BY <1>1, OtherLocal
<1>3. OnePool'
  BY DEF PoolInv, OnePool
<1> QED  BY <1>2, <1>3 DEF PoolInv, Local

LEMMA BeginPool ==
    ASSUME TypeOK, PoolInv, NEW a \in Attempts, Begin(a)
    PROVE  PoolInv'
<1>1. PICK e \in Entries : job' = [job EXCEPT ![a] = NewJob(e)]
  BY DEF Begin
<1>2. e = <<e[1], e[2], e[3]>>
  BY NewJobType
<1>3. /\ job'[a].at \in {"queued", "check"} /\ job'[a].seen = {}
      /\ job'[a].proc = e[1] /\ job'[a].pool = e[2] /\ job'[a].way = e[3]
      /\ \A b \in Attempts \ {a} : job'[b] = job[b]
  BY <1>1 DEF TypeOK, NewJob
<1>4. Local(a)'
  <2>1. Entered(a)'
    BY <1>2, <1>3 DEF Entered
  <2>2. (HoldsClaim(a) /\ Unread(a) /\ Rechecked(a))'
    BY <1>3 DEF HoldsClaim, Unread, Rechecked, InFn
  <2> QED  BY <2>1, <2>2 DEF Local
<1> QED  BY <1>3, <1>4, QuietStep DEF Begin

LEMMA ReadPool ==
    ASSUME TypeOK, PoolInv, NEW a \in Attempts, Read(a)
    PROVE  PoolInv'
<1>1. PICK k \in job[a].unread :
         job' = [job EXCEPT
                   ![a].unread = @ \ {k},
                   ![a].seen = IF rows[k] # NoAttempt THEN @ \cup {k} ELSE @]
  BY DEF Read
<1>2. /\ job'[a].at = job[a].at /\ job'[a].proc = job[a].proc
      /\ job'[a].pool = job[a].pool /\ job'[a].way = job[a].way
      /\ job'[a].unread = job[a].unread \ {k}
      /\ job'[a].seen = IF rows[k] # NoAttempt THEN job[a].seen \cup {k} ELSE job[a].seen
      /\ \A b \in Attempts \ {a} : job'[b] = job[b]
      /\ job[a].pool \in Pools /\ k \in Pools
  BY <1>1 DEF TypeOK, Jobs
<1>3. /\ Entered(a) /\ HoldsClaim(a) /\ Unread(a) /\ Rechecked(a) /\ OnePool
      /\ job[a].at \in {"check", "reading"} /\ UNCHANGED <<rows, claim>>
  BY DEF PoolInv, Read
<1>4. Rechecked(a)'
  BY <1>2, <1>3 DEF Rechecked, OnePool, Pools
<1>5. (Entered(a) /\ HoldsClaim(a) /\ Unread(a))'
  BY <1>2, <1>3 DEF Entered, HoldsClaim, Unread, InFn
<1> QED  BY <1>2, <1>3, <1>4, <1>5, QuietStep DEF Local

(* The steps that end the enrolment, or bring it to a place before fn.     *)
LEMMA LeavesPool ==
    ASSUME TypeOK, PoolInv, NEW a \in Attempts, job'[a] = Idle,
           \A b \in Attempts \ {a} : job'[b] = job[b] /\ (InFn(b) => claim' = claim),
           UNCHANGED rows
    PROVE  PoolInv'
<1>1. Local(a)'
  BY EndedLocal
<1>2. \A b \in Attempts \ {a} : Local(b)'
  BY OtherLocal DEF PoolInv, Local
<1>3. OnePool'
  BY DEF PoolInv, OnePool
<1> QED  BY <1>1, <1>2, <1>3 DEF PoolInv, Local

LEMMA BeforeFnPool ==
    ASSUME TypeOK, PoolInv, NEW a \in Attempts,
           PassesCheck(a) \/ Queue(a) \/ (Stamp(a) /\ ~Leaves(a))
    PROVE  PoolInv'
<1>1. /\ job[a].at # "idle" /\ job'[a].at \in {"telegram", "queued", "stamped"}
      /\ job'[a].proc = job[a].proc /\ job'[a].pool = job[a].pool
      /\ job'[a].way = job[a].way /\ job'[a].seen = {}
      /\ \A b \in Attempts \ {a} : job'[b] = job[b]
  BY DEF PassesCheck, Queue, Stamp, TypeOK, Jobs, PoolInv, Unread
<1>2. Entered(a)'
  BY <1>1 DEF PoolInv, Entered
<1>3. (HoldsClaim(a) /\ Unread(a) /\ Rechecked(a))'
  BY <1>1 DEF HoldsClaim, Unread, Rechecked, InFn
<1> QED  BY <1>1, <1>2, <1>3, QuietStep DEF Local, PassesCheck, Queue, Stamp

LEMMA ClaimPool ==
    ASSUME OneHost, TypeOK, LockInv, PoolInv, NEW a \in Attempts, Claim(a)
    PROVE  PoolInv'
<1>1. \A b \in Attempts : ~InFn(b)
  BY FnShutsOut DEF Claim
<1>2. CASE Leaves(a)
  BY <1>1, <1>2, LeavesPool DEF Claim, Leaves, TypeOK
<1>3. CASE ~Leaves(a)
  <2>1. /\ job[a].at = "stamped" /\ job'[a].at = "reading"
        /\ job'[a].proc = job[a].proc /\ job'[a].pool = job[a].pool
        /\ job'[a].way = job[a].way /\ job'[a].seen = job[a].seen
        /\ job'[a].unread = Pools
        /\ \A b \in Attempts \ {a} : job'[b] = job[b]
        /\ claim' = [pool |-> job[a].pool, by |-> a, live |-> TRUE]
        /\ UNCHANGED rows
    BY <1>3 DEF Claim, TypeOK, Jobs
  <2>2. Local(a)'
    BY <2>1 DEF PoolInv, Local, Entered, HoldsClaim, Unread, Rechecked, InFn
  <2>3. \A b \in Attempts \ {a} : Local(b)'
    BY <1>1, <2>1, OtherLocal DEF PoolInv, Local
  <2>4. OnePool'
    BY <2>1 DEF PoolInv, OnePool
  <2> QED  BY <2>2, <2>3, <2>4 DEF PoolInv, Local
<1> QED  BY <1>2, <1>3

LEMMA RecheckPool ==
    ASSUME TypeOK, PoolInv, NEW a \in Attempts, Recheck(a)
    PROVE  PoolInv'
<1>1. /\ job[a].at = "reading" /\ job'[a].at \in {"write", "release"}
      /\ job'[a].proc = job[a].proc /\ job'[a].pool = job[a].pool
      /\ job'[a].way = job[a].way
      /\ job'[a].at = "write" => job[a].unread = {} /\ MayWrite(a)
      /\ \A b \in Attempts \ {a} : job'[b] = job[b]
      /\ UNCHANGED <<rows, claim>>
  BY DEF Recheck, TypeOK, Jobs
<1>2. Rechecked(a)'
  BY <1>1 DEF Rechecked, PoolInv, MayWrite
<1>3. (Entered(a) /\ HoldsClaim(a) /\ Unread(a))'
  BY <1>1 DEF PoolInv, Entered, HoldsClaim, Unread, InFn
<1> QED  BY <1>1, <1>2, <1>3, QuietStep DEF Local

LEMMA WritePool ==
    ASSUME TypeOK, PoolInv, NEW a \in Attempts, Write(a)
    PROVE  PoolInv'
<1>1. /\ job[a].at = "write" /\ job'[a].at = "release"
      /\ job'[a].proc = job[a].proc /\ job'[a].pool = job[a].pool
      /\ job'[a].way = job[a].way /\ job[a].pool \in Pools
      /\ \A b \in Attempts \ {a} : job'[b] = job[b]
      /\ UNCHANGED claim
  BY DEF Write, TypeOK, Jobs
<1>2. \A b \in Attempts \ {a} : ~InFn(b)
  BY <1>1, SoleFn DEF InFn
<1>3. \A b \in Attempts \ {a} : Local(b)'
  BY <1>1, <1>2, OtherLocal DEF PoolInv, Local
<1>4. Local(a)'
  BY <1>1 DEF PoolInv, Local, Entered, HoldsClaim, Unread, Rechecked, InFn
<1>5. OnePool'
  <2>1. \A o \in Pools \ {job[a].pool} : rows[o] = NoAttempt
    BY <1>1 DEF PoolInv, Rechecked
  <2>2. CASE UNCHANGED rows
    BY <2>2 DEF PoolInv, OnePool
  <2>3. CASE rows' = [rows EXCEPT ![job[a].pool] = a]
    BY <1>1, <2>1, <2>3 DEF TypeOK, OnePool, Pools
  <2> QED  BY <2>2, <2>3 DEF Write
<1> QED  BY <1>3, <1>4, <1>5 DEF PoolInv, Local

LEMMA ReleasePool ==
    ASSUME TypeOK, PoolInv, NEW a \in Attempts, Release(a)
    PROVE  PoolInv'
<1>1. \A b \in Attempts \ {a} : InFn(b) => claim' = claim
  BY DEF Release, Released, PoolInv, HoldsClaim
<1> QED  BY <1>1, LeavesPool DEF Release, Leaves, TypeOK

LEMMA OthersPool ==
    ASSUME Prompt, TypeOK, PoolInv,
           Expire \/ (\E p \in Procs : Crash(p)) \/ (\E k \in Pools : Remove(k))
    PROVE  PoolInv'
<1>1. CASE Expire
  <2>1. \A a \in Attempts : ~InFn(a)
    BY <1>1 DEF Expire, MayExpire, PoolInv, HoldsClaim
  <2> QED  BY <1>1, <2>1, OtherLocal DEF Expire, PoolInv, Local, OnePool
<1>2. ASSUME NEW p \in Procs, Crash(p)  PROVE PoolInv'
  <2>1. ASSUME NEW a \in Attempts  PROVE Local(a)'
    <3>1. CASE job'[a] = Idle
      BY <3>1, EndedLocal
    <3>2. CASE job'[a] = job[a]
      BY <1>2, <3>2, OtherLocal DEF Crash, PoolInv, Local
    <3> QED  BY <1>2, <3>1, <3>2 DEF Crash
  <2> QED  BY <1>2, <2>1 DEF Crash, PoolInv, OnePool, Local
<1>3. ASSUME NEW k \in Pools, Remove(k)  PROVE PoolInv'
  <2>1. \A o \in Pools : rows'[o] \in {rows[o], NoAttempt}
    BY <1>3 DEF Remove, TypeOK
  <2>2. \A a \in Attempts : Local(a)'
    BY <1>3, <2>1, OtherLocal DEF Remove, PoolInv, Local
  <2>3. OnePool'
    BY <2>1 DEF PoolInv, OnePool, Pools
  <2> QED  BY <2>2, <2>3 DEF PoolInv, Local
<1> QED  BY <1>1, <1>2, <1>3

LEMMA PoolStep ==
    ASSUME OneHost, Prompt, TypeOK, LockInv, PoolInv, [Next]_vars
    PROVE  PoolInv'
<1>1. ASSUME NEW a \in Attempts, GivesUp(a) \/ (Stamp(a) /\ Leaves(a)) \/ ClaimRefused(a)
      PROVE  PoolInv'
  BY <1>1, LeavesPool DEF GivesUp, Stamp, ClaimRefused, Leaves, TypeOK
<1>2. CASE UNCHANGED vars
  BY <1>2 DEF vars, PoolInv, OnePool, Entered, HoldsClaim, Unread, Rechecked, InFn
<1> QED  BY <1>1, <1>2, BeginPool, ReadPool, BeforeFnPool, ClaimPool, RecheckPool,
            WritePool, ReleasePool, OthersPool DEF Next, Step

(* Where each pool is enrolled by one process and a re-check with its      *)
(* write fits into the lease, no account is ever in both pools.            *)
THEOREM OneAccountOnePool ==
    ASSUME OneHost, Prompt
    PROVE  Spec => []OnePool
<1>1. Init => TypeOK /\ LockInv /\ PoolInv
  BY InitType, LockInit, PoolInit
<1>2. TypeOK /\ LockInv /\ PoolInv /\ [Next]_vars => (TypeOK /\ LockInv /\ PoolInv)'
  BY TypeStep, LockStep, PoolStep
<1>3. PoolInv => OnePool
  BY DEF PoolInv
<1> QED  BY <1>1, <1>2, <1>3, PTL DEF Spec

(* A step writes at most one row: an enrolment's own pool, or a removal.    *)
LEMMA RowStep ==
    ASSUME TypeOK, [Next]_vars
    PROVE  \/ UNCHANGED rows
           \/ \E k \in Pools, a \in Attempts : rows' = [rows EXCEPT ![k] = a]
           \/ \E k \in Pools : rows[k] # NoAttempt /\ rows' = [rows EXCEPT ![k] = NoAttempt]
<1>1. ASSUME NEW a \in Attempts, Write(a)
      PROVE  \/ UNCHANGED rows
             \/ \E k \in Pools : rows' = [rows EXCEPT ![k] = a]
  BY <1>1 DEF Write, TypeOK, Jobs
<1>2. ASSUME NEW k \in Pools, Remove(k)
      PROVE  rows[k] # NoAttempt /\ rows' = [rows EXCEPT ![k] = NoAttempt]
  BY <1>2 DEF Remove
<1> QED  BY <1>1, <1>2
    DEF Next, vars, Step, Begin, Read, PassesCheck, GivesUp, Queue, Stamp, Claim,
        ClaimRefused, Recheck, Release, Expire, Crash

LEMMA MembershipStep ==
    ASSUME TypeOK, OnePool, OnePool', [Next]_vars
    PROVE  [Membership!Next]_({k \in Pools : rows[k] # NoAttempt})
<1> DEFINE place == {k \in Pools : rows[k] # NoAttempt}
<1>1. CASE UNCHANGED rows
  BY <1>1
<1>2. ASSUME NEW k \in Pools, NEW a \in Attempts, rows' = [rows EXCEPT ![k] = a]
      PROVE  Membership!Enrol(k) \/ UNCHANGED place
  <2>1. a # NoAttempt /\ \A o \in Pools : rows'[o] = IF o = k THEN a ELSE rows[o]
    BY <1>2, NoAttemptIsNone DEF TypeOK
  <2>2. \A o \in Pools \ {k} : rows[o] = NoAttempt
    BY <2>1 DEF OnePool, Pools
  <2>3. place' = {k} /\ place \subseteq {k}
    BY <2>1, <2>2
  <2> QED  BY <2>3 DEF Membership!Enrol
<1>3. ASSUME NEW k \in Pools, rows[k] # NoAttempt, rows' = [rows EXCEPT ![k] = NoAttempt]
      PROVE  Membership!Leave(k)
  <2>1. \A o \in Pools : rows'[o] = IF o = k THEN NoAttempt ELSE rows[o]
    BY <1>3 DEF TypeOK
  <2>2. \A o \in Pools \ {k} : rows[o] = NoAttempt
    BY <1>3 DEF OnePool, Pools
  <2>3. place = {k} /\ place' = {}
    BY <1>3, <2>1, <2>2
  <2> QED  BY <2>3 DEF Membership!Leave
<1> QED  BY <1>1, <1>2, <1>3, RowStep DEF Membership!Next

(* Every step of the enrolments, of crashes, deadlines and removals is an   *)
(* entry into one pool, the departure from it, or nothing to a reader of   *)
(* the two collections.                                                    *)
THEOREM MembershipRefinement ==
    ASSUME OneHost, Prompt
    PROVE  Spec => ImplementsMembership
<1>1. Init => Membership!Init
  BY DEF Init, Membership!Init
<1>2. Init => TypeOK /\ LockInv /\ PoolInv
  BY InitType, LockInit, PoolInit
<1>3. TypeOK /\ LockInv /\ PoolInv /\ [Next]_vars => (TypeOK /\ LockInv /\ PoolInv)'
  BY TypeStep, LockStep, PoolStep
<1>4. PoolInv => OnePool
  BY DEF PoolInv
<1>5. TypeOK /\ OnePool /\ OnePool' /\ [Next]_vars =>
          [Membership!Next]_({k \in Pools : rows[k] # NoAttempt})
  BY MembershipStep
<1> QED  BY <1>1, <1>2, <1>3, <1>4, <1>5, PTL
         DEF Spec, ImplementsMembership, Membership!Spec

----------------------------------------------------------------------------
(* The chain of a process is its waiters and its holder.                   *)

LEMMA AppendItems ==
    ASSUME NEW S, NEW s \in Seq(S), NEW x \in S
    PROVE  /\ Len(Append(s, x)) = Len(s) + 1
           /\ \A i \in 1..Len(s) : Append(s, x)[i] = s[i]
           /\ Append(s, x)[Len(s) + 1] = x
  OBVIOUS

LEMMA TailItems ==
    ASSUME NEW S, NEW s \in Seq(S), s # <<>>
    PROVE  /\ Len(s) \in Nat /\ Len(s) >= 1 /\ Len(Tail(s)) = Len(s) - 1
           /\ \A i \in 1..Len(Tail(s)) : Tail(s)[i] = s[i + 1]
           /\ Head(s) = s[1]
  OBVIOUS

LEMMA ChainItems ==
    ASSUME TypeOK, NEW p \in Procs
    PROVE  /\ chain[p] \in Seq(Attempts) /\ Len(chain[p]) \in Nat
           /\ \A i \in 1..Len(chain[p]) : chain[p][i] \in Attempts
<1>1. chain[p] \in Seq(Attempts)
  BY DEF TypeOK
<1> QED  BY <1>1

(* A step that lets nobody in or out.                                      *)
LEMMA ChainFrame ==
    ASSUME TypeOK, ChainsLive, LockInv', UNCHANGED chain,
           \A b \in Attempts : InChain(b)' <=> InChain(b),
           \A b \in Attempts : InChain(b) => job'[b].proc = job[b].proc
    PROVE  ChainsLive'
<1>1. \A p \in Procs : \A i \in 1..Len(chain[p]) :
         chain[p][i] \in Attempts /\ InChain(chain[p][i]) /\ job[chain[p][i]].proc = p
  BY ChainItems DEF ChainsLive
<1>2. ASSUME NEW p \in Procs, NEW i \in 1..Len(chain[p]), NEW b, b = chain[p][i]
      PROVE  InChain(b)' /\ job'[b].proc = p
  BY <1>1, <1>2
<1>3. \A p \in Procs : \A i \in 1..Len(chain'[p]) :
         InChain(chain[p][i])' /\ job'[chain'[p][i]].proc = p
  BY <1>2
<1>4. \A b \in Attempts : InChain(b)' =>
         \E i \in 1..Len(chain'[job'[b].proc]) : chain'[job'[b].proc][i] = b
  BY DEF ChainsLive
<1>5. \A p \in Procs : \A i, j \in 1..Len(chain'[p]) : chain'[p][i] = chain'[p][j] => i = j
  BY DEF ChainsLive
<1> QED  BY <1>3, <1>4, <1>5 DEF ChainsLive, LockInv

(* A newcomer goes to the end.                                             *)
LEMMA ChainAppend ==
    ASSUME TypeOK, ChainsLive, LockInv', NEW a \in Attempts, NEW p \in Procs,
           ~InChain(a), job'[a].at = "queued", job'[a].proc = p,
           \A b \in Attempts \ {a} : job'[b] = job[b],
           chain' = [chain EXCEPT ![p] = Append(@, a)]
    PROVE  ChainsLive'
<1> DEFINE n == Len(chain[p])
           In(b) == job'[b].at \in {"queued", "stamped", "reading", "write", "release"}
<1>1. /\ n \in Nat /\ Len(chain'[p]) = n + 1
      /\ \A i \in 1..n : chain'[p][i] = chain[p][i]
      /\ chain'[p][n + 1] = a
      /\ \A q \in Procs : q # p => chain'[q] = chain[q]
  BY ChainItems, AppendItems DEF TypeOK
<1>2. \A q \in Procs : \A i \in 1..Len(chain[q]) :
         /\ chain[q][i] \in Attempts /\ chain[q][i] # a
         /\ In(chain[q][i]) /\ job'[chain[q][i]].proc = q
  BY ChainItems DEF ChainsLive, InChain, Locked
<1>3. In(a)
  OBVIOUS
<1> HIDE DEF In, n
<1>4. \A i \in 1..Len(chain'[p]) : i \in 1..n \/ i = n + 1
  BY <1>1
<1>5. ASSUME NEW q \in Procs, NEW i \in 1..Len(chain'[q])
      PROVE  In(chain'[q][i]) /\ job'[chain'[q][i]].proc = q
  <2>1. CASE q = p
    BY <1>1, <1>2, <1>3, <1>4, <2>1 DEF n
  <2>2. CASE q # p
    BY <1>1, <1>2, <2>2
  <2> QED  BY <2>1, <2>2
<1>6. ASSUME NEW q \in Procs, NEW i \in 1..Len(chain'[q]), NEW j \in 1..Len(chain'[q]),
             chain'[q][i] = chain'[q][j]
      PROVE  i = j
  <2>1. CASE q = p
    <3>1. CASE i \in 1..n /\ j \in 1..n
      BY <1>1, <1>6, <2>1, <3>1 DEF ChainsLive, n
    <3>2. CASE ~(i \in 1..n /\ j \in 1..n)
      BY <1>1, <1>2, <1>4, <1>6, <2>1, <3>2 DEF n
    <3> QED  BY <3>1, <3>2
  <2>2. CASE q # p
    BY <1>1, <1>6, <2>2 DEF ChainsLive
  <2> QED  BY <2>1, <2>2
<1>7. ASSUME NEW b \in Attempts, In(b)
      PROVE  \E i \in 1..Len(chain'[job'[b].proc]) : chain'[job'[b].proc][i] = b
  <2>1. CASE b = a
    <3>1. n + 1 \in 1..Len(chain'[p])
      BY <1>1
    <3> QED  BY <1>1, <2>1, <3>1
  <2>2. CASE b # a
    <3>1. InChain(b) /\ job'[b] = job[b] /\ job[b].proc \in Procs
      BY <1>7, <2>2 DEF In, InChain, Locked, TypeOK
    <3>2. PICK i \in 1..Len(chain[job[b].proc]) : chain[job[b].proc][i] = b
      BY <3>1 DEF ChainsLive
    <3>3. CASE job[b].proc = p
      <4>1. i \in 1..Len(chain'[p]) /\ chain'[p][i] = b
        BY <1>1, <3>2, <3>3 DEF n
      <4> QED  BY <3>1, <3>3, <4>1
    <3>4. CASE job[b].proc # p
      BY <1>1, <3>1, <3>2, <3>4
    <3> QED  BY <3>3, <3>4
  <2> QED  BY <2>1, <2>2
<1> QED  BY SMTT(30), <1>5, <1>6, <1>7 DEF ChainsLive, LockInv, InChain, Locked, In

(* The holder leaves; everybody else moves up by one.                      *)
LEMMA ChainLeaves ==
    ASSUME TypeOK, ChainsLive, LockInv', NEW a \in Attempts, InChain(a), Heads(a), Leaves(a)
    PROVE  ChainsLive'
<1> DEFINE p == job[a].proc
           n == Len(chain[p])
           In(b) == job'[b].at \in {"queued", "stamped", "reading", "write", "release"}
<1>0. p \in Procs /\ chain[p] \in Seq(Attempts) /\ chain[p] # <<>>
  BY ChainItems DEF TypeOK, InChain, Locked, Heads
<1>1. /\ n \in Nat /\ n >= 1 /\ Len(chain'[p]) = n - 1
      /\ \A i \in 1..Len(chain'[p]) : chain'[p][i] = chain[p][i + 1]
      /\ chain[p][1] = a
      /\ \A q \in Procs : q # p => chain'[q] = chain[q]
  <2>1. chain'[p] = Tail(chain[p]) /\ \A q \in Procs : q # p => chain'[q] = chain[q]
    BY <1>0 DEF Leaves, TypeOK
  <2>2. chain[p][1] = a
    BY <1>0, TailItems DEF Heads
  <2> QED  BY <1>0, <2>1, <2>2, TailItems
<1>2. \A b \in Attempts \ {a} : job'[b] = job[b]
  BY DEF Leaves, TypeOK
<1>3. ~In(a)
  BY DEF Leaves, TypeOK, Idle
<1>4. \A q \in Procs : \A i \in 1..Len(chain[q]) :
         /\ chain[q][i] \in Attempts /\ (chain[q][i] = a => q = p /\ i = 1)
         /\ chain[q][i] # a => In(chain[q][i]) /\ job'[chain[q][i]].proc = q
  <2> SUFFICES ASSUME NEW q \in Procs, NEW i \in 1..Len(chain[q])
               PROVE  /\ chain[q][i] \in Attempts
                      /\ (chain[q][i] = a => q = p /\ i = 1)
                      /\ chain[q][i] # a => In(chain[q][i]) /\ job'[chain[q][i]].proc = q
      OBVIOUS
  <2>1. /\ chain[q][i] \in Attempts /\ InChain(chain[q][i])
        /\ job[chain[q][i]].proc = q
    BY ChainItems DEF ChainsLive
  <2>2. chain[q][i] = a => q = p /\ i = 1
    <3>1. 1 \in 1..Len(chain[p]) /\ chain[p][1] = a
      BY <1>1
    <3>2. ASSUME chain[q][i] = a  PROVE q = p
      BY <2>1, <3>2
    <3>3. \A j, l \in 1..Len(chain[p]) : chain[p][j] = chain[p][l] => j = l
      BY <1>0 DEF ChainsLive
    <3> HIDE DEF p, n
    <3> QED  BY <3>1, <3>2, <3>3
  <2> QED  BY <1>2, <2>1, <2>2 DEF InChain, Locked
<1> HIDE DEF In, p, n
<1>5. \A i \in 1..Len(chain'[p]) : i + 1 \in 1..Len(chain[p]) /\ i + 1 # 1
  BY <1>1 DEF n
<1>6. ASSUME NEW q \in Procs, NEW i \in 1..Len(chain'[q])
      PROVE  In(chain'[q][i]) /\ job'[chain'[q][i]].proc = q
  <2>1. CASE q = p
    <3>1. i \in 1..Len(chain'[p]) /\ chain'[q] = chain'[p]
      BY <2>1
    <3>2. i + 1 \in 1..Len(chain[p]) /\ i + 1 # 1
      BY <1>5, <3>1
    <3>3. chain'[q][i] = chain[p][i + 1]
      BY <1>1, <3>1
    <3> DEFINE k == i + 1
    <3>4. k \in 1..Len(chain[p]) /\ k # 1 /\ chain'[q][i] = chain[p][k]
      BY <3>2, <3>3
    <3> HIDE DEF k
    <3>5. chain[p][k] # a
      BY <1>0, <1>4, <3>4
    <3>6. In(chain[p][k]) /\ job'[chain[p][k]].proc = p
      BY <1>0, <1>4, <3>4, <3>5
    <3> QED  BY <2>1, <3>4, <3>6
  <2>2. CASE q # p
    BY <1>1, <1>4, <2>2
  <2> QED  BY <2>1, <2>2
<1>7. ASSUME NEW q \in Procs, NEW i \in 1..Len(chain'[q]), NEW j \in 1..Len(chain'[q]),
             chain'[q][i] = chain'[q][j]
      PROVE  i = j
  <2>1. CASE q = p
    <3>1. i + 1 = j + 1
      BY <1>0, <1>1, <1>5, <1>7, <2>1 DEF ChainsLive
    <3> QED  BY <1>1, <2>1, <3>1
  <2>2. CASE q # p
    BY <1>1, <1>7, <2>2 DEF ChainsLive
  <2> QED  BY <2>1, <2>2
<1>8. ASSUME NEW b \in Attempts, In(b)
      PROVE  \E i \in 1..Len(chain'[job'[b].proc]) : chain'[job'[b].proc][i] = b
  <2>1. b # a /\ job'[b] = job[b]
    BY <1>2, <1>3, <1>8
  <2>2. InChain(b) /\ job[b].proc \in Procs
    BY <1>8, <2>1 DEF In, InChain, Locked, TypeOK
  <2>3. PICK i \in 1..Len(chain[job[b].proc]) : chain[job[b].proc][i] = b
    BY <2>2 DEF ChainsLive
  <2>4. CASE job[b].proc = p
    <3>1. i # 1
      BY <1>1, <2>1, <2>3, <2>4
    <3>2. i - 1 \in 1..Len(chain'[p]) /\ (i - 1) + 1 = i
      BY <1>1, <2>3, <2>4, <3>1 DEF n
    <3>3. chain'[p][i - 1] = b
      BY <1>1, <2>3, <2>4, <3>2
    <3> QED  BY <2>1, <2>4, <3>2, <3>3
  <2>5. CASE job[b].proc # p
    BY <1>1, <2>1, <2>2, <2>3, <2>5
  <2> QED  BY <2>4, <2>5
<1> QED  BY <1>6, <1>7, <1>8 DEF ChainsLive, LockInv, InChain, Locked, In

(* The lock of a dead process dies with everybody who waited for it.       *)
LEMMA ChainCrash ==
    ASSUME TypeOK, ChainsLive, LockInv', NEW p \in Procs, Crash(p)
    PROVE  ChainsLive'
<1> DEFINE In(b) == job'[b].at \in {"queued", "stamped", "reading", "write", "release"}
<1>1. /\ chain'[p] = <<>> /\ Len(chain'[p]) = 0
      /\ \A q \in Procs : q # p => chain'[q] = chain[q]
  BY DEF Crash, TypeOK
<1>2. \A b \in Attempts : /\ job[b].proc = p => ~In(b)
                          /\ job[b].proc # p => job'[b] = job[b]
  BY DEF Crash, Idle
<1>3. \A q \in Procs : \A i \in 1..Len(chain[q]) :
         chain[q][i] \in Attempts /\ InChain(chain[q][i]) /\ job[chain[q][i]].proc = q
  BY ChainItems DEF ChainsLive
<1>4. ASSUME NEW q \in Procs, NEW i \in 1..Len(chain'[q])
      PROVE  In(chain'[q][i]) /\ job'[chain'[q][i]].proc = q
  <2>1. q # p
    BY <1>1
  <2> QED  BY <1>1, <1>2, <1>3, <2>1 DEF InChain, Locked
<1>5. ASSUME NEW q \in Procs, NEW i \in 1..Len(chain'[q]), NEW j \in 1..Len(chain'[q]),
             chain'[q][i] = chain'[q][j]
      PROVE  i = j
  BY <1>1, <1>5 DEF ChainsLive
<1>6. ASSUME NEW b \in Attempts, In(b)
      PROVE  \E i \in 1..Len(chain'[job'[b].proc]) : chain'[job'[b].proc][i] = b
  <2>1. job[b].proc # p /\ job'[b] = job[b]
    BY <1>2, <1>6
  <2>2. InChain(b) /\ job[b].proc \in Procs
    BY <1>6, <2>1 DEF InChain, Locked, TypeOK
  <2> QED  BY <1>1, <2>1, <2>2 DEF ChainsLive
<1> QED  BY <1>4, <1>5, <1>6 DEF ChainsLive, LockInv, InChain, Locked

LEMMA ChainStep == TypeOK /\ ChainsLive /\ [Next]_vars => ChainsLive'
<1> SUFFICES ASSUME TypeOK, ChainsLive, [Next]_vars  PROVE ChainsLive'
  OBVIOUS
<1>0. LockInv /\ LockInv'
  <2>1. LockInv
    BY DEF ChainsLive, LockInv
  <2> QED  BY <2>1, LockStep
<1>1. ASSUME NEW a \in Attempts, Begin(a)  PROVE ChainsLive'
  <2>1. PICK e \in Entries :
           /\ job' = [job EXCEPT ![a] = NewJob(e)]
           /\ chain' = IF e[3] = "create" THEN [chain EXCEPT ![e[1]] = Append(@, a)]
                                         ELSE chain
    BY <1>1 DEF Begin
  <2>2. /\ e[1] \in Procs /\ ~InChain(a)
        /\ job'[a].at = (IF e[3] = "create" THEN "queued" ELSE "check")
        /\ job'[a].proc = e[1]
        /\ \A b \in Attempts \ {a} : job'[b] = job[b]
    BY <1>1, <2>1, NewJobType DEF TypeOK, NewJob, Begin, InChain, Locked
  <2>3. CASE e[3] = "create"
    BY <1>0, <2>1, <2>2, <2>3, ChainAppend
  <2>4. CASE e[3] # "create"
    <3>1. \A b \in Attempts : InChain(b)' <=> InChain(b)
      BY <2>2, <2>4 DEF InChain, Locked
    <3> QED  BY <1>0, <2>1, <2>2, <2>4, <3>1, ChainFrame
  <2> QED  BY <2>3, <2>4
<1>2. ASSUME NEW a \in Attempts, Queue(a)  PROVE ChainsLive'
  <2>1. /\ job[a].proc \in Procs /\ ~InChain(a)
        /\ job'[a].at = "queued" /\ job'[a].proc = job[a].proc
        /\ \A b \in Attempts \ {a} : job'[b] = job[b]
        /\ chain' = [chain EXCEPT ![job[a].proc] = Append(@, a)]
    BY <1>2 DEF Queue, TypeOK, Jobs, InChain, Locked
  <2> QED  BY <1>0, <2>1, ChainAppend
<1>3. ASSUME NEW a \in Attempts, Leaves(a),
             Stamp(a) \/ Claim(a) \/ ClaimRefused(a) \/ Release(a)
      PROVE  ChainsLive'
  <2>1. InChain(a) /\ Heads(a)
    BY <1>0, <1>3 DEF Stamp, Claim, ClaimRefused, Release, LockInv, InChain, Locked
  <2> QED  BY <1>0, <1>3, <2>1, ChainLeaves
<1>4. ASSUME NEW a \in Attempts, UNCHANGED chain,
             \A b \in Attempts \ {a} : job'[b] = job[b],
             InChain(a)' <=> InChain(a), InChain(a) => job'[a].proc = job[a].proc
      PROVE  ChainsLive'
  <2>1. \A b \in Attempts : InChain(b)' <=> InChain(b)
    BY <1>4 DEF InChain, Locked
  <2> QED  BY <1>0, <1>4, <2>1, ChainFrame
<1>5. ASSUME NEW a \in Attempts,
             \/ Read(a) \/ PassesCheck(a) \/ GivesUp(a) \/ Recheck(a) \/ Write(a)
             \/ (Stamp(a) \/ Claim(a)) /\ ~Leaves(a)
      PROVE  ChainsLive'
  <2>1. /\ UNCHANGED chain /\ \A b \in Attempts \ {a} : job'[b] = job[b]
        /\ InChain(a)' <=> InChain(a)
        /\ InChain(a) => job'[a].proc = job[a].proc
    <3>1. CASE Read(a)
      BY <3>1 DEF Read, TypeOK, Jobs, InChain, Locked
    <3>2. CASE PassesCheck(a) \/ Recheck(a) \/ Write(a)
      BY <3>2 DEF PassesCheck, Recheck, Write, TypeOK, Jobs, InChain, Locked
    <3>3. CASE GivesUp(a)
      BY <3>3 DEF GivesUp, TypeOK, InChain, Locked, Idle
    <3>4. CASE (Stamp(a) \/ Claim(a)) /\ ~Leaves(a)
      BY <3>4 DEF Stamp, Claim, TypeOK, Jobs, InChain, Locked
    <3> QED  BY <1>5, <3>1, <3>2, <3>3, <3>4
  <2> QED  BY <1>4, <2>1
<1>6. ASSUME NEW p \in Procs, Crash(p)  PROVE ChainsLive'
  BY <1>0, <1>6, ChainCrash
<1>7. CASE Expire \/ (\E k \in Pools : Remove(k)) \/ UNCHANGED vars
  <2>1. UNCHANGED <<chain, job>>
    BY <1>7 DEF Expire, Remove, vars
  <2>2. \A b \in Attempts : InChain(b)' <=> InChain(b)
    BY <2>1 DEF InChain, Locked
  <2> QED  BY <1>0, <2>1, <2>2, ChainFrame
<1> QED  BY <1>1, <1>2, <1>3, <1>5, <1>6, <1>7 DEF Next, Step, ClaimRefused, Release

(* The lock of a process is never left behind and never lost: with calls    *)
(* that are answered, everybody in the chain gets its turn.                *)
THEOREM ChainIntegrity == Spec => []ChainsLive
<1>1. Init => TypeOK /\ LockInv /\ ChainsLive
  <2>1. Init => ChainsLive
    BY DEF Init, ChainsLive, InChain, Locked, Idle
  <2> QED  BY <2>1, InitType, LockInit
<1>2. TypeOK /\ LockInv /\ ChainsLive /\ [Next]_vars => (TypeOK /\ LockInv /\ ChainsLive)'
  BY TypeStep, LockStep, ChainStep
<1> QED  BY <1>1, <1>2, PTL DEF Spec

----------------------------------------------------------------------------
(* No enrolled account's row is taken over.                                *)

LEMMA MetInit == Init => MetInv
  BY DEF Init, MetInv

LEMMA MetStep ==
    ASSUME TypeOK, LockInv, PoolInv, MetInv, [Next]_vars
    PROVE  MetInv'
<1> DEFINE Known(a) == a \notin met =>
             /\ job[a].at = "check" =>
                   \A k \in Pools : rows[k] # NoAttempt =>
                                       k \in job[a].unread \cup job[a].seen
             /\ job[a].at \in {"telegram", "queued", "stamped", "reading", "write"} =>
                   job[a].way = "create"
<1>0. \A a \in Attempts : Known(a)
  BY DEF MetInv
<1>q. ASSUME NEW a \in Attempts, UNCHANGED <<rows, met>>, Known(a)',
             \A b \in Attempts \ {a} : job'[b] = job[b]
      PROVE  MetInv'
  BY <1>0, <1>q DEF MetInv, NoRows
<1>1. ASSUME NEW a \in Attempts, Begin(a)  PROVE MetInv'
  <2>1. /\ \A b \in Attempts \ {a} : job'[b] = job[b] /\ (b \in met' <=> b \in met)
        /\ UNCHANGED rows /\ met' \subseteq Attempts
        /\ NoRows(rows) => met' = met \cup {a}
    BY <1>1 DEF Begin, TypeOK
  <2>2. \/ job'[a].at = "queued" /\ job'[a].way = "create"
        \/ job'[a].at = "check" /\ job'[a].unread = Pools
    BY <1>1 DEF Begin, TypeOK, NewJob
  <2>3. Known(a)'
    BY <2>2
  <2>4. NoRows(rows') => met' = Attempts
    BY <2>1 DEF MetInv
  <2> QED  BY <1>0, <2>1, <2>3, <2>4 DEF MetInv
<1>2. ASSUME NEW a \in Attempts, Read(a)  PROVE MetInv'
  <2>1. PICK k \in job[a].unread :
          job' = [job EXCEPT
                    ![a].unread = @ \ {k},
                    ![a].seen = IF rows[k] # NoAttempt THEN @ \cup {k} ELSE @]
    BY <1>2 DEF Read
  <2>2. /\ job'[a].at = job[a].at /\ job'[a].way = job[a].way
        /\ job'[a].unread = job[a].unread \ {k}
        /\ job'[a].seen = IF rows[k] # NoAttempt THEN job[a].seen \cup {k} ELSE job[a].seen
        /\ \A b \in Attempts \ {a} : job'[b] = job[b]
    BY <2>1 DEF TypeOK, Jobs
  <2>3. UNCHANGED <<rows, met>>
    BY <1>2 DEF Read
  <2>4. Known(a)'
    BY <1>0, <2>2, <2>3
  <2> QED  BY <2>2, <2>3, <2>4, <1>q
<1>3. ASSUME NEW a \in Attempts, PassesCheck(a)  PROVE MetInv'
  <2>1. a \in met
    BY <1>0, <1>3 DEF PassesCheck, MetInv, NoRows
  <2>2. \A b \in Attempts \ {a} : job'[b] = job[b]
    BY <1>3 DEF PassesCheck, TypeOK
  <2> QED  BY <1>3, <2>1, <2>2, <1>q DEF PassesCheck
<1>4. ASSUME NEW a \in Attempts,
             Queue(a) \/ (Stamp(a) /\ ~Leaves(a)) \/ (Claim(a) /\ ~Leaves(a)) \/ Recheck(a)
      PROVE  MetInv'
  <2>1. /\ job[a].at \in {"telegram", "queued", "stamped", "reading"}
        /\ job'[a].at \in {"queued", "stamped", "reading", "write", "release"}
        /\ job'[a].way = job[a].way
        /\ \A b \in Attempts \ {a} : job'[b] = job[b]
        /\ UNCHANGED <<rows, met>>
    BY <1>4 DEF Queue, Stamp, Claim, Recheck, TypeOK, Jobs
  <2>2. Known(a)'
    BY <1>0, <2>1
  <2> QED  BY <2>1, <2>2, <1>q
<1>5. ASSUME NEW a \in Attempts,
             \/ GivesUp(a) \/ (Stamp(a) /\ Leaves(a)) \/ (Claim(a) /\ Leaves(a))
             \/ ClaimRefused(a) \/ Release(a)
      PROVE  MetInv'
  <2>1. /\ job'[a] = Idle /\ \A b \in Attempts \ {a} : job'[b] = job[b]
        /\ UNCHANGED <<rows, met>>
    BY <1>5 DEF GivesUp, Stamp, Claim, ClaimRefused, Release, Leaves, TypeOK
  <2>2. Known(a)'
    BY <2>1 DEF Idle
  <2> QED  BY <2>1, <2>2, <1>q
<1>6. ASSUME NEW a \in Attempts, Write(a)  PROVE MetInv'
  <2>1. /\ job[a].at = "write" /\ job'[a].at = "release" /\ job[a].pool \in Pools
        /\ \A b \in Attempts \ {a} : job'[b] = job[b] /\ UNCHANGED met
    BY <1>6 DEF Write, TypeOK, Jobs
  <2>2. \A o \in Pools \ {job[a].pool} : rows[o] = NoAttempt
    BY <2>1 DEF PoolInv, Rechecked
  <2>3. CASE UNCHANGED rows
    <3>1. Known(a)'
      BY <2>1
    <3> QED  BY <1>6, <2>1, <2>3, <3>1, <1>q DEF Write
  <2>4. CASE rows' = [rows EXCEPT ![job[a].pool] = a]
    <3>1. rows'[job[a].pool] = a /\ a # NoAttempt
      BY <2>1, <2>4, NoAttemptIsNone DEF TypeOK
    <3>2. CASE rows[job[a].pool] = NoAttempt
      <4>1. NoRows(rows)
        BY <2>2, <3>2 DEF NoRows
      <4>2. met' = Attempts
        BY <1>6, <4>1 DEF MetInv, Write
      <4> QED  BY <4>2 DEF MetInv
    <3>3. CASE rows[job[a].pool] # NoAttempt
      <4>1. \A k \in Pools : rows'[k] # NoAttempt => rows[k] # NoAttempt
        BY <2>1, <2>4, <3>3 DEF TypeOK
      <4>2. \A b \in Attempts \ {a} : Known(b)'
        BY <1>0, <1>6, <2>1, <4>1 DEF Write
      <4>3. Known(a)'
        BY <2>1
      <4> QED  BY <2>1, <3>1, <4>2, <4>3 DEF MetInv, NoRows
    <3> QED  BY <3>2, <3>3
  <2> QED  BY <1>6, <2>3, <2>4 DEF Write
<1>7. CASE Expire \/ UNCHANGED vars
  BY <1>7 DEF Expire, vars, MetInv, NoRows
<1>8. ASSUME NEW p \in Procs, Crash(p)  PROVE MetInv'
  <2>1. ASSUME NEW a \in Attempts  PROVE job'[a] \in {Idle, job[a]}
    BY <1>8 DEF Crash
  <2>2. \A a \in Attempts : Known(a)'
    BY <1>0, <1>8, <2>1 DEF Crash, Idle
  <2> QED  BY <1>8, <2>2 DEF Crash, MetInv, NoRows
<1>9. ASSUME NEW k \in Pools, Remove(k)  PROVE MetInv'
  <2>1. CASE NoRows(rows')
    BY <1>9, <2>1 DEF Remove, MetInv
  <2>2. CASE ~NoRows(rows')
    <3>1. \A o \in Pools : rows'[o] # NoAttempt => rows[o] # NoAttempt
      BY <1>9 DEF Remove, TypeOK
    <3>2. UNCHANGED <<met, job>>
      BY <1>9, <2>2 DEF Remove
    <3> QED  BY <1>0, <2>2, <3>1, <3>2 DEF MetInv
  <2> QED  BY <2>1, <2>2
<1> QED  BY <1>1, <1>2, <1>3, <1>4, <1>5, <1>6, <1>7, <1>8, <1>9 DEF Next, Step

(* An enrolment takes over another one's row only if at some moment since  *)
(* it began the account had no row.                                        *)
LEMMA TakesRacedStep ==
    ASSUME TypeOK, MetInv, [Next]_vars, NEW k \in Pools,
           rows[k] # NoAttempt, rows'[k] \notin {rows[k], NoAttempt}
    PROVE  rows'[k] \in met
<1>1. PICK a \in Attempts : Write(a)
  BY DEF Next, vars, Step, Begin, Read, PassesCheck, GivesUp, Queue, Stamp, Claim,
         ClaimRefused, Recheck, Release, Expire, Crash, Remove, TypeOK
<1>2. job[a].at = "write" /\ job[a].pool \in Pools
  BY <1>1 DEF Write, TypeOK, Jobs
<1>3. k = job[a].pool /\ rows'[k] = a /\ job[a].way # "create"
  BY <1>1, <1>2 DEF Write, TypeOK
<1> QED  BY <1>2, <1>3 DEF MetInv

(* The check before Telegram and the re-check under the lock keep the row  *)
(* of an account that stayed enrolled from being taken over.               *)
THEOREM TakesRaced ==
    ASSUME OneHost, Prompt
    PROVE  Spec => TakesOnlyRaced
<1> DEFINE Good == TypeOK /\ LockInv /\ PoolInv /\ MetInv
<1>1. Init => Good
  BY InitType, LockInit, PoolInit, MetInit
<1>2. Good /\ [Next]_vars => Good'
  BY TypeStep, LockStep, PoolStep, MetStep
<1>3. Good /\ [Next]_vars =>
        [\A k \in Pools :
           rows[k] # NoAttempt /\ rows'[k] \notin {rows[k], NoAttempt}
           => rows'[k] \in met]_vars
  BY TakesRacedStep
<1> QED  BY <1>1, <1>2, <1>3, PTL DEF Spec, TakesOnlyRaced
=============================================================================
