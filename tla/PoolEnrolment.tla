--------------------------- MODULE PoolEnrolment ---------------------------
(***************************************************************************)
(* Enrolment of an account into a pool (shared/onboarding, the enrolment   *)
(* lock and the create() of both pool services).  An account may live in   *)
(* bufferClients or in promoteClients, never in both: two live sessions on *)
(* it would be revoked.  Within a process a lock per mobile serialises the *)
(* enrolments, between processes a lease on the mobile does, which is free *)
(* for everybody of its own pool.                                          *)
(*                                                                         *)
(* The module is one mobile: lock, claim and rows are keyed by it.         *)
(* Attempts are the enrolments under way at once; a finished one may come  *)
(* again, in another process, for another pool or in another way.          *)
(***************************************************************************)
EXTENDS Naturals, Sequences

CONSTANTS
    Attempts,   \* enrolments that may be under way at once
    NoAttempt,  \* nobody: no row, no claim
    Procs,      \* processes
    Entries,    \* what is enrolled where, and how: <<process, pool, way>>
    Prompt,     \* TRUE: a re-check and its write fit into the claim's minute
    MaxFaults   \* bound on crashes, lost replies and lost releases

Pools == {"bufferClients", "promoteClients"}

(* A scheduled candidate, an operator's setAs, and create() of a service.  *)
Ways == {"auto", "setAs", "create"}

ASSUME NoAttemptIsNone == NoAttempt \notin Attempts
ASSUME EntriesFit == Entries \subseteq Procs \X Pools \X Ways
ASSUME Settings == Prompt \in BOOLEAN /\ MaxFaults \in Nat

VARIABLES
    rows,    \* per pool: the enrolment that wrote the row of the mobile
    claim,   \* the document of poolEnrolmentClaims
    chain,   \* per process: the enrolments in chains.get(mobile), in order
    job,     \* each enrolment's position and local variables
    faults,  \* faults so far
    met      \* history: enrolments that met a moment without any row

vars == <<rows, claim, chain, job, faults, met>>

Places == {"idle", "check", "telegram", "queued", "stamped", "reading",
           "write", "release"}

Jobs == [at : Places, proc : Procs \cup {NoAttempt}, pool : Pools, way : Ways,
         unread : SUBSET Pools, seen : SUBSET Pools,  \* isMobileEnrolledAnywhere
         absent : BOOLEAN]    \* no claim document when the claim was stamped

Idle == [at |-> "idle", proc |-> NoAttempt, pool |-> "bufferClients",
         way |-> "auto", unread |-> {}, seen |-> {}, absent |-> FALSE]

(* by is the stamp: it names the enrolment, two stamps never coincide.     *)
Claims == [pool : Pools, by : Attempts \cup {NoAttempt}, live : BOOLEAN]

(* No document yet.                                                        *)
NoClaim == [pool |-> "bufferClients", by |-> NoAttempt, live |-> FALSE]

(* The holder of the lock of its process, and the part of it that is       *)
(* withPoolClaim's fn.                                                     *)
Locked(a) == job[a].at \in {"stamped", "reading", "write", "release"}
InFn(a)   == job[a].at \in {"reading", "write"}

TypeOK ==
    /\ rows \in [Pools -> Attempts \cup {NoAttempt}]
    /\ claim \in Claims
    /\ chain \in [Procs -> Seq(Attempts)]
    /\ job \in [Attempts -> Jobs]
    /\ \A a \in Attempts : job[a].at # "idle" => job[a].proc \in Procs
    /\ faults \in Nat
    /\ met \subseteq Attempts

Init ==
    /\ rows = [k \in Pools |-> NoAttempt]
    /\ claim = NoClaim
    /\ chain = [p \in Procs |-> <<>>]
    /\ job = [a \in Attempts |-> Idle]
    /\ faults = 0
    /\ met = Attempts

Fault == faults < MaxFaults /\ faults' = faults + 1

NoRows(r) == \A k \in Pools : r[k] = NoAttempt

----------------------------------------------------------------------------
(* Before the lock.                                                        *)

(* create() queues at once, the other two first check that the account is  *)
(* enrolled nowhere.                                                       *)
NewJob(e) ==
    [at     |-> IF e[3] = "create" THEN "queued" ELSE "check",
     proc   |-> e[1], pool |-> e[2], way |-> e[3],
     unread |-> IF e[3] = "create" THEN {} ELSE Pools,
     seen   |-> {}, absent |-> FALSE]

(* enrolPoolClientFromUser, setAsPoolClient or create() is called.         *)
Begin(a) ==
    /\ job[a].at = "idle"
    /\ \E e \in Entries :
          /\ job' = [job EXCEPT ![a] = NewJob(e)]
          /\ chain' = IF e[3] = "create" THEN [chain EXCEPT ![e[1]] = Append(@, a)]
                                        ELSE chain
    /\ met' = IF NoRows(rows) THEN met \cup {a} ELSE met \ {a}
    /\ UNCHANGED <<rows, claim, faults>>

(* One of the reads of isMobileEnrolledAnywhere, which run side by side.    *)
(* setAs asks before the lock for its own pool first, then for the other.  *)
Read(a) ==
    /\ job[a].at \in {"check", "reading"}
    /\ \E k \in job[a].unread :
        /\ (job[a].at = "check" /\ job[a].way = "setAs" /\ job[a].pool \in job[a].unread)
              => k = job[a].pool
        /\ job' = [job EXCEPT
                    ![a].unread = @ \ {k},
                    ![a].seen = IF rows[k] # NoAttempt THEN @ \cup {k} ELSE @]
    /\ UNCHANGED <<rows, claim, chain, faults, met>>

(* Mutant: the check before Telegram asks for the other pool only.         *)
PassesCheckOtherPool(a) ==
    /\ job[a].at = "check"
    /\ job[a].unread = {}
    /\ job[a].seen \subseteq {job[a].pool}
    /\ job' = [job EXCEPT ![a].at = "telegram"]
    /\ UNCHANGED <<rows, claim, chain, faults, met>>

(* Enrolled nowhere, and the cached list of mains does not name it.        *)
PassesCheck(a) ==
    /\ job[a].at = "check"
    /\ job[a].unread = {}
    /\ job[a].seen = {}
    /\ job' = [job EXCEPT ![a].at = "telegram"]
    /\ UNCHANGED <<rows, claim, chain, faults, met>>

(* Enrolled somewhere, a main, not eligible, no claim index, a failed read *)
(* or, on Telegram, a password, a missing session or an error.             *)
GivesUp(a) ==
    /\ job[a].at \in {"check", "telegram"}
    /\ job' = [job EXCEPT ![a] = Idle]
    /\ UNCHANGED <<rows, claim, chain, faults, met>>

(* Connected and its channels counted: withEnrollmentLock.                 *)
Queue(a) ==
    /\ job[a].at = "telegram"
    /\ job' = [job EXCEPT ![a].at = "queued", ![a].seen = {}]
    /\ chain' = [chain EXCEPT ![job[a].proc] = Append(@, a)]
    /\ UNCHANGED <<rows, claim, faults, met>>

----------------------------------------------------------------------------
(* Under the lock.                                                         *)

(* Mutant: a failure does not pass the lock on.                            *)
LeavesKeepingChain(a) ==
    /\ job' = [job EXCEPT ![a] = Idle]
    /\ UNCHANGED chain

(* The lock goes to the next in the chain, whether fn failed or not.       *)
Leaves(a) ==
    /\ job' = [job EXCEPT ![a] = Idle]
    /\ chain' = [chain EXCEPT ![job[a].proc] = Tail(@)]

Heads(a) == chain[job[a].proc] # <<>> /\ Head(chain[job[a].proc]) = a

(* The turn of a: `at` is taken, and the upsert looks for the document.    *)
Stamp(a) ==
    /\ job[a].at = "queued"
    /\ Heads(a)
    /\ \/ /\ job' = [job EXCEPT ![a].at = "stamped", ![a].absent = (claim = NoClaim)]
          /\ UNCHANGED chain
       \/ Leaves(a)   \* the index is not ready
    /\ UNCHANGED <<rows, claim, faults, met>>

(* Mutant: the filter asks for no pool and no time.                        *)
ClaimableAlways(a) == TRUE

(* No document, one of the own pool, or one that is older than the lease.  *)
(* The code compares with the stamp it took before the call; judging at    *)
(* the moment the call applies only lets more claims through.              *)
Claimable(a) == claim = NoClaim \/ claim.pool = job[a].pool \/ ~claim.live

(* findOneAndUpdate applies; its reply may get lost, then fn does not run  *)
(* and nobody releases.                                                    *)
Claim(a) ==
    /\ job[a].at = "stamped"
    /\ Claimable(a)
    /\ claim' = [pool |-> job[a].pool, by |-> a, live |-> TRUE]
    /\ \/ /\ job' = [job EXCEPT ![a].at = "reading", ![a].unread = Pools]
          /\ UNCHANGED <<chain, faults>>
       \/ Leaves(a) /\ Fault
    /\ UNCHANGED <<rows, met>>

(* A duplicate key: the other pool holds it, or the document appeared since *)
(* the upsert looked.  Or the update failed without being applied.          *)
ClaimRefused(a) ==
    /\ job[a].at = "stamped"
    /\ Leaves(a)
    /\ \/ ~Claimable(a) /\ UNCHANGED faults
       \/ job[a].absent /\ claim # NoClaim /\ UNCHANGED faults
       \/ Fault
    /\ UNCHANGED <<rows, claim, met>>

(* already && already !== own pool: the own pool is looked at first.       *)
MayWrite(a) == job[a].pool \in job[a].seen \/ job[a].seen = {}

(* The re-check before the write.  The cached list of mains may refuse as  *)
(* well, and so does a read that fails.                                    *)
Recheck(a) ==
    /\ job[a].at = "reading"
    /\ \/ /\ job[a].unread = {}
          /\ MayWrite(a)
          /\ job' = [job EXCEPT ![a].at = "write"]
       \/ job' = [job EXCEPT ![a].at = "release"]
    /\ UNCHANGED <<rows, claim, chain, faults, met>>

(* The upsert of the row, or create()'s insert, which the unique index     *)
(* refuses on a row that exists.  A write may fail, or only its reply.     *)
Write(a) ==
    /\ job[a].at = "write"
    /\ \/ UNCHANGED rows
       \/ /\ job[a].way = "create" => rows[job[a].pool] = NoAttempt
          /\ rows' = [rows EXCEPT ![job[a].pool] = a]
    /\ job' = [job EXCEPT ![a].at = "release"]
    /\ UNCHANGED <<claim, chain, faults, met>>

(* Only the claim with the own stamp is set back to the epoch.             *)
Released(a) == IF claim.by = a THEN [claim EXCEPT !.live = FALSE] ELSE claim

(* The finally block; a lost release is not an error.                      *)
Release(a) ==
    /\ job[a].at = "release"
    /\ \/ claim' = Released(a) /\ UNCHANGED faults
       \/ Fault /\ UNCHANGED claim
    /\ Leaves(a)
    /\ UNCHANGED <<rows, met>>

----------------------------------------------------------------------------
(* Time, crashes and operators.                                            *)

(* Mutant: claims have no lease, only a release frees them.                *)
MayExpireNever == FALSE

(* A minute has passed since the stamp.                                    *)
MayExpire ==
    /\ claim.live
    /\ Prompt => \A a \in Attempts : InFn(a) => claim.by # a

Expire ==
    /\ MayExpire
    /\ claim' = [claim EXCEPT !.live = FALSE]
    /\ UNCHANGED <<rows, chain, job, faults, met>>

(* A process dies with its lock and its enrolments; the claim stays.       *)
Crash(p) ==
    /\ Fault
    /\ job' = [a \in Attempts |-> IF job[a].proc = p THEN Idle ELSE job[a]]
    /\ chain' = [chain EXCEPT ![p] = <<>>]
    /\ UNCHANGED <<rows, claim, met>>

(* remove() of either service, which takes neither lock nor claim.         *)
Remove(k) ==
    /\ rows[k] # NoAttempt
    /\ rows' = [rows EXCEPT ![k] = NoAttempt]
    /\ met' = IF NoRows(rows') THEN Attempts ELSE met
    /\ UNCHANGED <<claim, chain, job, faults>>

Step(a) ==
    \/ Read(a)   \/ PassesCheck(a) \/ GivesUp(a) \/ Queue(a)
    \/ Stamp(a)  \/ Claim(a)       \/ ClaimRefused(a)
    \/ Recheck(a) \/ Write(a)      \/ Release(a)

Next ==
    \/ \E a \in Attempts : Begin(a) \/ Step(a)
    \/ Expire
    \/ \E p \in Procs : Crash(p)
    \/ \E k \in Pools : Remove(k)

Spec == Init /\ [][Next]_vars

(* Every call of an enrolment is answered or times out, and time passes.   *)
FairSpec ==
    /\ Spec
    /\ \A a \in Attempts : WF_vars(Step(a))
    /\ WF_vars(Expire)

----------------------------------------------------------------------------
(* Properties.                                                             *)

(* Each pool is enrolled by one process: "buffer enrols on CMS and promote *)
(* on UMS" (pool-claim.ts).                                                *)
OneHost == \A e, f \in Entries : e[2] = f[2] => e[1] = f[1]

(* An account is in one pool at most, however its enrolments into both     *)
(* overlap, crash, fail half-way or meet removals (withPoolClaim and the   *)
(* re-check, enrollment-lock.ts).                                          *)
OnePool == rows["bufferClients"] = NoAttempt \/ rows["promoteClients"] = NoAttempt

(* Seen from outside, an account enters one pool out of none and leaves it *)
(* again: no interleaving of enrolments, crashes and removals moves it     *)
(* from pool to pool in one step or shows a reader two of them.            *)
Membership == INSTANCE PoolMembership WITH place <- {k \in Pools : rows[k] # NoAttempt}

ImplementsMembership == Membership!Spec

(* An enrolment takes over the row of another one only when there was no   *)
(* row at some moment since it began: an account that is enrolled, or that *)
(* moves from pool to pool while the reads go on, keeps its row.           *)
TakesOnlyRaced ==
    [][\A k \in Pools :
          rows[k] # NoAttempt /\ rows'[k] \notin {rows[k], NoAttempt}
          => rows'[k] \in met]_vars

(* Every enrolment ends: the chain of the mobile never stands still.       *)
EnrolmentsEnd == \A a \in Attempts : job[a].at # "idle" ~> job[a].at = "idle"

(* Whoever waits for the lock of its process or holds it.                  *)
InChain(a) == job[a].at = "queued" \/ Locked(a)

(* The chain of a process is exactly its waiters and its holder, each of   *)
(* them once and the holder first: no dead, failed or finished enrolment   *)
(* is ever waited for, and none that waits is forgotten (withEnrollmentLock,*)
(* whose chain goes on when a predecessor fails).                          *)
ChainsLive ==
    /\ \A p \in Procs : \A i \in 1..Len(chain[p]) :
          InChain(chain[p][i]) /\ job[chain[p][i]].proc = p
    /\ \A p \in Procs : \A i, j \in 1..Len(chain[p]) :
          chain[p][i] = chain[p][j] => i = j
    /\ \A a \in Attempts :
          InChain(a) => \E i \in 1..Len(chain[job[a].proc]) : chain[job[a].proc][i] = a
    /\ \A a \in Attempts : Locked(a) => Heads(a)

(* A claim never shuts the other pool out for good, also when its holder   *)
(* dies, never learns that it holds it or cannot release it.               *)
ClaimFrees == []<>~claim.live
=============================================================================
