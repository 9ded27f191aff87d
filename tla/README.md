# CommonTgService: TLA+ models, model checking and proofs

CommonTgService ("CMS") runs a fleet of Telegram accounts.  A *client* is a persona
that answers users; it always runs on one account, its *main* (`clients.mobile`).
Around it lies a pool of *buffer* accounts (`bufferClients`) that are warmed up for
weeks, and from which a replacement is taken when a main is frozen, banned or
limited.  Sessions cannot be renewed, so an account lost by mistake is lost for good:
the rules about who may connect, expire, lend or swap which account are the heart of
the program, and they are enforced by code that runs in several processes
(the CMS job and the `ums` / `ums-test` HTTP processes) sharing one MongoDB and no
memory.

The specifications here model that core.  They are translated from
`src/src/components`, and every definition that stands for code is listed with its lines in
`PROJECT.json` (`map`).

## 1. Inventory

| part | state it keeps | operations | what is hard |
|---|---|---|---|
| Main-account swap, `clients/client.service.ts` | `clients.mobile`, `clients.swapLease`; per process `clientsMap`, `setupCooldownMap`, `setupInFlightMap`; `TelegramManager.activeClientSetups` | `setupClient`: lease, candidate tiers, probe, cutover, return of the replaced account | several processes; minutes of awaits between a query and the commit; leases; stale caches; partial failure after the commit |
| Pool reservation, `buffer-clients/buffer-client.service.ts` | `clientId`, `inUse`, `status`, `availableDate`, `probeLease` of a row | `acquireProbeLease`, `setPrimaryInUse`, `reassignClientId`, `createOrUpdate` | order of writes against a partial unique index; unconditional writes by late flows |
| Account expiry, `users/users.service.ts`, `shared/base-client.service.ts` | `users.expired`, row `status` | `expireAccount`, `markAsInactive` | called from every connection in the program, whatever the account is used for |
| Dead-main reports and maintenance passes, `clients/client.service.ts` | `deadMain`, `degraded`, `swapRetry`, `swappedAt`, `sessionChangedAt` | `screenSetupReport`, `recordDeadMainReport`, `update`, rescue / upgrade / refill | late reports of a replaced process; read-then-write; retry episodes |
| Connection manager, `Telegram/utils/connection-manager.ts` | `clients` and `inFlight` maps | `getClient`, `unregisterClient`, `forceReconnect`, cleanup, `shutdown` | teardown and build overlap across awaits; a limit checked before an await |
| Session creation, `session-manager`, `clients/parked-session-guard.ts` | locks and placeholders per mobile, hourly counters | `createSession`, `getOldestSessionOrCreate`, `waitForLock`, `removeClient`, two timers | four strategies of minutes each; a lock that expires under its holder; a guard's verdict that ages |
| Telegram signup, `TgSignup/tg-signup.service.ts` | `activeClients`, `phoneLocks`, `inflightSends`, `rejectCache` | `sendCode`, `verifyCode`, expiry timer, cleanup | one sign-in over several HTTP calls; double taps; teardowns that take no lock; every client built on a failing path |
| Warm-up lifecycle, `shared/warmup-phases.ts`, `shared/base-client.service.ts` | `warmupPhase`, the steps' timestamps, failure count, `users.session` | `getWarmupPhaseAction`, `processClient` and its steps, `rotateSession` | weeks of steps in order and at a distance; plans carried out long after they are made; guards that hold in one process only |
| Join and leave queues, `shared/base-client.service.ts` | two maps, two flags, two timers, daily counters | `runJoinSweep`, `refillJoinQueue`, `processJoinChannelQueue`, `processLeaveChannelQueue` | flags and timers that several flows set and clear across awaits; daily limits; flood waits, restarts |
| Pool enrolment, `shared/onboarding`, `shared/enrollment-lock.ts`, both pool services | `bufferClients`, `promoteClients`, `poolEnrolmentClaims`; per process `chains` | `enrolPoolClientFromUser`, `setAsPoolClient`, `create`, `remove`, `withPoolClaim`, `withEnrollmentLock` | two processes, no common index; a lease that is renewed, lost or outlived; a check minutes before the write |
| Scheduled maintenance, `control-plane/maintenance` | running flag, failure counters | batch selection, backoff | overlapping runs, starvation |
| Parked-responder episodes | `parkedAccounts`, `parkedControl` | open, supersede, stop | a swap racing the holder of an episode |
| IP and proxy assignment | counters | round robin | read-then-write |
| CRUD and presentation (transactions, bots, files, dashboards, statistics, DTOs, guards) | single documents | create, read, update | nothing that a state machine would show |

How they interact: `tg-aut`, the process on the live account, calls `/setupClient`
when its account dies; the swap saga reads and writes the pool rows, connects
accounts through the connection manager, and expires accounts through the users
service; warm-up and maintenance feed the pool and may expire any account at any
time; maintenance passes call the saga when nobody else did.

What makes each part correct:

* **swap**: one run per client over all processes; one run per account; the main and the
  reservation of its account change together; nothing but a report about the main
  retires the main; a failing run leaves mains alone; every run ends and every
  lease comes back.
* **pool**: at most one reserved account per client, and it is the main; an
  active main keeps its reservation.
* **reports and passes**: a report of a replaced process never marks the new
  main; an episode makes a bounded number of attempts.
* **connection manager**: at most one live connection per account; nothing is
  connected and unregistered; shutdown leaves nothing behind.
* **session creation**: two creations for one mobile do not read each other's login codes;
  a parked account's stored strings are left alone; no mobile is blocked for good.
* **signup**: no client is left connected without an owner; a session ends; a call asks for
  what its session waits for; a rejected number is not asked for again; calls are answered.
* **join and leave queues**: one leave pass at a time; nothing stays queued without
  something that takes it up; the daily limits hold for what Telegram saw.
* **enrolment**: an account is in one pool; an enrolled account's row is not taken over; the
  lock passes on and the claim comes free.
* **warm-up**: phases go forward; an account is rotated once; the sweep rotates
  at most one account at a time.

## 2. Plan

| order | module | models | abstract specification | runs and bounds | theorems |
|---|---|---|---|---|---|
| done | `ClientSwap`, `MainAssignment`, `ClientSwap_proofs` | the swap saga and the pool rows it reserves | `MainAssignment`: main and reservation change in one step | section 3 | eleven, section 3 |
| done | `ConnectionManager`, `ConnectionManager_proofs` | the connection registry of one process | – (its invariants are the promise) | section 4 | six, section 4 |
| done | `SwapMaintenance`, `SwapMaintenance_proofs` | reports, `deadMain` evidence, manual updates, passes and retry episodes around an atomic swap | – | section 5 | five, section 5 |
| done | `Warmup`, `PoolAccount`, `Warmup_proofs` | phase machine, warm-up run and rotation of one account | `PoolAccount`: READY once, supply once, a main from supply only, and supply again | section 6 | seven, section 6 |
| done | `JoinQueue`, `LeaveBudget`, `JoinQueue_proofs` | join and leave queues of a pool | `LeaveBudget`: what is owed bounds what is left, and the day's cap | section 7 | five, section 7 |
| done | `Signup`, `SignupProgress`, `Signup_proofs` | the sign-in of one phone over several HTTP calls | `SignupProgress`: one sign-in at a time, from code to password | section 8 | seven, section 8 |
| done | `SessionCreation`, `SessionCreation_proofs` | requests for a session string, the lock and the placeholder | – | section 9 | four, section 9 |
| done | `PoolEnrolment`, `PoolMembership`, `PoolEnrolment_proofs` | enrolments of one account into the two pools, from several processes | `PoolMembership`: in no pool or in one, from none into one | section 10 | five, section 10 |
| left | `AccountMaintenance`, `IpRoundRobin` | batches, backoff and exclusion of accounts; counters | – | two accounts each | type correctness |

Every invariant, action property and refinement that a run checks is also proved, for every value of the
constants.  The ten properties that are not are liveness (`LeaseReturns`, `SetupEnds`, `CallsEnd`,
`EvidenceAnswered`, `AttemptsEnd`, `SupplyArrives`, `CallsAnswered`, `MobileFrees`, `EnrolmentsEnd`,
`ClaimFrees`): they rest on fairness, hence on ENABLED, which is out of the prover's reach.  For seven of
them their *safety core* is proved instead: that what is waited for is there (a lease has a running
owner, a joined build runs, everyone in a queue has a holder before it) and that every step goes
forward.  What TLC adds on a small instance is then only that the steps are taken.  `TypeOK` of each module is proved and
not run any more.

| liveness (TLC) | safety core (proved) |
|---|---|
| `LeaseReturns`, `SetupEnds` | `LeasesOwned`, `SetupsAdvance` |
| `CallsEnd` | `JoinsAnswered`, `CallsForward` |
| `AttemptsEnd` | `AttemptsStop` |
| `CallsAnswered` | `WaitersKept` |
| `MobileFrees` | `LocksCovered` (locks only; a placeholder is freed by the sweep) |
| `EnrolmentsEnd` | `ChainIntegrity` |

Section 11 says what is not modelled and why.

A property that fails under a documented assumption is described below with the setting that
shows it.  Where the code does what a comment or a test of it rules out, the claim is a property of the
module, and TLC ends in the counterexample: `FloodKeepsSession` (the run `signup_flood`), and, on the instances named
there, `NothingLost` (section 4), `ChangeDropsEvidence` and `RescueOnEvidence` (section 5).

## 3. `ClientSwap`: the swap saga

One action per stretch of `setupClient` between two awaits that matter.

| action | code |
|---|---|
| `StartSetup` | `runSetup`, `runLeasedSetup`: cooldown, one run per client and process, the lease |
| `LoadClient` | `handleSetupClient`: the cached client, the mobiles that may not be candidates |
| `Scan` | one candidate query (due, future, siblings' spares, own limited accounts) |
| `TakeProbeLease`, `SkipCandidate`, `ProbeRejects`, `ProbeAccepts` | `findSafeSetupBufferCandidate`, `isSpamSafeForSwap` |
| `NextStage`, `NoCandidate` | the tier order; the answer without a candidate, which retires a dead main |
| `Register` | the last conflict check and `setActiveClientSetup`, with no await between them |
| `ConnectFails`, `SessionUpdateFails`, `CommitCutover`, `CommitAborts` | `updateClientSession`, `commitClientCutover` |
| `CheckOwner`, `Penalise` | the catch block: who runs on the account, then expire it or push it out |
| `RetireReplaced`, `ReturnReplaced`, `ReleaseReplaced`, `SkipReturn`, `ReturnFails` | `handleReplacedClient` and `returnOldClientToBufferPool` |
| `Finish` | the finally blocks |
| `RenewLeases`, `SwapLeaseExpires`, `ProbeLeaseExpires` | the renewal timer and the deadlines |
| `Crash`, `RefreshCache`, `CooldownEnds`, `BecomesDue`, `ExpireElsewhere` | restarts, timers and the rest of the program |

State: `main` is `clients.mobile`; `row` holds of a `bufferClients` row what the
swap reads (owner, `inUse`, `status`, whether `availableDate` has come);
`swapLease` and `probeLease` hold an owner and whether the deadline is still
ahead; `cache` is each process's `clientsMap`; `setups` its `activeClientSetups`;
`cool` its cooldown map; `pc` and `run` are a run's position and local variables
(`existingClientMobile`, the candidate snapshot, the pick, the tier).

Abstractions.  A lease deadline is one bit that an expiry action clears: always possible
for a holder that died (its owner string never comes back, `Gone`), for a running
holder only when `RenewalFails`.  A SpamBot probe, a backup-session check and a connection
are nondeterministic outcomes.  Every account of the model is finished
(`session_rotated`, enough channels), so the warm-up conditions of the query always
hold.  Reasons are three kinds: `normal`, `dead` (permanent, retires the old main, may
use future and degraded candidates) and `upgrade` (degraded tiers only, retires nobody).
Notices, event history and the parked-responder hooks change none of this state and
are left out.

`MainAssignment` is what the saga promises: an abstract `Switch` changes the main and its
reservation in one step, `Drop` loses a reservation; nothing else does.  `ClientSwap`
implements it with `held` mapped to the set of rows that are `inUse`.

### Runs

All runs use two processes, two clients with a main each and spares of the first
client (`MCClientSwap`).  Two processes and two clients are the least with every
race between processes and between siblings; a third account is the spare both
want, five are needed where a lender keeps two spares (`SIBLING_MIN_SPARES_AFTER = 2`;
the three-account instances take 0, a configuration with the same code path and fewer
rows).  `MaxStarts` bounds the runs started (two, so that each pair of runs overlaps in every
way), `MaxCrashes` the crashes, `Frail` the accounts another flow may expire.  The
processes are interchangeable and are a symmetry set, except in the liveness run.  Deadlock is not
checked: when `MaxStarts` runs are over, the system has nothing left to do.

| run | shows |
|---|---|
| `safety` | `LeaseMutex`, `PickExclusive`: runs of one client and runs on one account exclude each other; `PenaltySparesMain`: the guarded failure path is safe although its check and its write are two steps; `ImplementsAssignment` |
| `strangers` | without lending: `MainHeld`, an active main keeps its reservation, through crashes, expiries and late returns; `FailureSparesMain`, no failure path touches a main |
| `liveness` | `LeaseReturns`, `SetupEnds` and `PrimaryAgrees` (a reservation names the main), even when leases run out under running holders, with a crash at any point |

Fairness (`FairSpec`): weak fairness of every step of a run, because each external call in
it is bounded by a timeout and a process that is alive goes on; weak fairness of the deadlines,
because time passes.  Nothing is assumed of crashes, cache refreshes, renewals or new requests.

### Divergences

Both need siblings, which is why `strangers` has none.  They appear when `MainHeld` and
`FailureSparesMain` are added to the instance of `safety`.

* `MainHeld`: after the commit the replaced account is idle, active and due until the
  pool return is written.  A sibling in another process can borrow and commit it in
  that time; the return then writes the whole row, owner and `inUse: false` included.  A
  live main is left without its reservation.
* `FailureSparesMain`: a lender's candidate list is read once; the probe lease does not look at
  `inUse` or `clientId` again.  When the lender itself commits the account and ends its run, the
  borrower leases, connects and, on a permanent error, expires an account that is a main.
  The failure path of `handleSetupClient` asks first; the two inside `updateClientSession`
  do not.

A second caller of `updateClientSession` is not modelled: `users.service.ts:144-146` commits a pending
setup when a login for the new mobile is saved by hand while the setup is registered; it would be a
second run of the same setup, without its lease.  `NoSiblings` is a restriction on the configuration:
the default `DEGRADED_SWAP_TIERS` includes the siblings' tier, so `strangers` and the two theorems that
assume it speak of a deployment that turns it off or has one client per persona.

Two more races are in the model and visible in the code at once, so no run is spent on them: the main
that a no-candidate answer retires comes from a cache up to five minutes old, and nothing
re-reads `status` between the candidate query and `setPrimaryInUse`, which writes `active`.

### Proofs (`ClientSwap_proofs`)

For every choice of the constants that satisfies the assumptions of the module (any number of
processes, clients and accounts; any kinds, personas and bounds):

* `TypeCorrect`, `PrimaryAgreement`, `Refinement`: from the inductive
  invariant `AssignmentInv`: types, a pick in every state that uses one, distinct mains, and
  `PrimaryAgrees`.  Distinct mains is needed because `PrimaryAgrees` is about rows and
  `PrimaryInUse` rewrites all rows of a client: a row of another client must not have
  become the new main.  Nothing here uses a lease.
* `DistinctMains`: no two clients run on one account, from the same invariant: the unique index is
  asked inside the commit's transaction, so no lease is needed for it.
* `LeasesOwned`, `SetupsAdvance`: the safety cores of `LeaseReturns` and `SetupEnds`.  A lease that names a run
  names one of that client that still goes on; what a dead run left is only a deadline.  A
  step of a run takes it to a later state (`Place`), or within the selection loop to a later tier
  (`Tier`), fewer candidates, or from a probe back to the choice.  Neither assumes that
  renewals get through.
* `SetupExclusion`, `CandidateExclusion`, `PenaltySafety`: under `~RenewalFails`, from
  `ExclusionInv`, which adds that an active run owns the live lease of its client
  (`LeaseHeld`), that a run with an account in hand owns that account's live probe lease
  (`PickLeased`), and that a run about to penalise has an account nobody runs on
  (`PenaltySafe`).  None of the three properties is inductive without these: exclusion
  follows because a lease has one owner, and the penalty is safe because only the holder of
  the probe lease could commit the account after the owner was read.

* `MainStaysHeld`, `FailureSafety`: `MainHeld` and `FailureSparesMain` under `~RenewalFails` and
  `NoSiblings` (no client may borrow from another), the assumptions of the run `strangers`.
  The invariant is `HomeInv`: every row, main and cached main stays with the client it
  started with, and of each run it says what it may have in hand (`RunHome`).  Its old account
  was collected as busy before the first query, so it is never a candidate; its candidates
  were spares when they were read, so none is the main, and the main cannot have become one of them
  since, because only the holder of the swap lease moves it; after the commit the main is the
  pick.  So the account a late return writes is nobody's main, and the account an unguarded
  failure path expires is still a spare.  A borrowed account breaks the first conjunct, which
  is what the two divergences above exploit.

Each theorem rests on one lemma per action; the last steps are PTL.  `LeaseReturns` and `SetupEnds`
themselves are only model-checked.

## 4. `ConnectionManager`: one registry of connections per process

The module models `Telegram/utils/connection-manager.ts` with the part of
`Telegram/manager/client-operations.ts` that destroys a client or lets its timer do so.
Every flow of the program (warm-up, maintenance, the swap saga, HTTP handlers) asks
`getClient(mobile)` for a connection and calls `unregisterClient(mobile)` when it is
done.  There is one thread; what makes the module hard is that nearly every step is an
await, and that the map may change during each.

| variable | code |
|---|---|
| `entry` | the map `clients`, by the call whose build created the client |
| `inFlight` | the map `inFlight` |
| `state`, `conn`, `fresh` | `ClientInfo.state`; the socket: `dropped` may reconnect, `destroyed` may not; `lastUsed` less than `IDLE_TIMEOUT` ago |
| `mob`, `keep`, `force` | the arguments of a call: mobile, `autoDisconnect: false`, `forceReconnect` |
| `pc`, `wait`, `victims` | where a call is, whose build it joined, what it still has to evict |
| `tears` | `unregisterClient` calls that wait for `destroy()` |
| `down` | `isShuttingDown`, and whether the map has been cleared |
| `astray` | history: clients whose entry the end of another client's teardown has removed; no action reads it |

`GetClient` is the part of `getClient` after the limit check: no await lies between it
and the insertion into `inFlight`, so reusing, joining and starting a build are one
step.  `StartEviction`, `Evict` and `LimitReached` are `forceCleanup` and the second check; `Closed`
to `FailBuild` are the build, one action between two awaits.  A teardown is split
at its only await: `Teardown` sets the state and calls `destroy()`, `TeardownEnds`
deletes the entry, *whichever client it holds by then*.  A client that is not connected yet has no
socket (`TelegramManager.client` is null until `createClient` returns), so tearing it down
removes the entry at once and the build goes on; `Validate` writes the entry again.
`Reap` is the cleanup timer.  `Unregister` is any other flow's
`unregisterClient`, including the ten-second timer `handleClientError` starts on a timeout.

Left out: `connectionAttempts` (always 1 in the code, so the retry limit in `cleanup`
never applies), the limit of ten removals per cleanup, log and notice texts, the
expiry of the account after a permanent failure (it is `Expire` of `ClientSwap`).  A
`destroy()` that runs into its 30 s timeout counts as done.

### Runs

| run | instance | shows |
|---|---|---|
| `connections` | 2 mobiles, 3 calls, 2 slots, no forced reconnect | `SingleConnection`, `NoLeak` |
| `calls_end` | 1 mobile, 2 calls, 1 slot, forced and plain calls | `CallsEnd` |

Three calls are what the hazards need: one to build, one to rebuild during a
teardown, one to find the map empty; two slots for two mobiles make the third call
evict.  The safety properties are proved for any numbers, so the bounds
only have to make the cases happen.  `Keeps` and `Forces` restrict the arguments a run
explores.  Deadlock is not checked because every call is made once and shutdown is
final: the system stops.

Teardowns end in any order and at any time: a build waits for its own teardown and three more
seconds, but not for the others, and a call that finds the entry already deleted by one of two
overlapping teardowns does not pause at all.  So the last teardown to end may delete the entry of
a newer, living client (`connection-manager.ts:285`).  `astray` remembers whose entry that was, and
the two invariants say that nothing else goes wrong: evictions, failed builds, reaps, entries
written again and teardowns of clients that are not yet connected never lose a connection, and no
session is connected twice, unless that deletion comes first.

Properties: `SingleConnection`, `NoLeak` and `BuildsShared` (two builds of one mobile never
overlap; proved, not run) hold when no call forces a reconnect.
`getClient` lets a forced call start a second build by design, and nothing in `src/src`
calls it; `calls_end` exercises it.  `SingleConnection` and `NoLeak` end when
`shutdown` has cleared the map: a client that is still connecting then is registered
afterwards and stays connected until the process exits.

Fairness (`FairSpec`): every step of a call and every teardown is taken
eventually.  `destroy` (30 s), `connect` (180 s) and `getMe` (three tries) run under
`withTimeout`, and the database call and the notice of a failed build either answer or throw.
Nothing is assumed of the network, of timers or of other flows.

### Divergence

* Lost connections (`connection-manager.ts:285`): two flows tear the same client down; the first
  teardown to end frees the mobile, the next call builds and registers a client, and the second
  teardown to end deletes that client's entry.  It stays connected, no cleanup sees it, and the
  next call connects the session a second time.  The comment at lines 38-41 gives the leaked
  connection as the reason for sharing builds; sharing them does not prevent this one.
  `NothingLost` is `NoLeak` without the exception for `astray` clients.  It fails as an
  invariant with one mobile, two calls and no forced reconnect.

The connection limit can be overshot too: a build in flight is not counted until
`RegisterNew`, so two calls for different mobiles both pass the check at line 78.

### Proofs (`ConnectionManager_proofs`)

| theorem | says | assumes |
|---|---|---|
| `TypeCorrect` | `Spec => []TypeOK` | `NoCallAssumption`, `LimitAssumption` |
| `SharedBuild` | `Spec => []BuildsShared` | the same |
| `OneConnection` | `Spec => []SingleConnection` | the same |
| `NothingLeaks` | `Spec => []NoLeak` | the same |
| `JoinsAnswered` | `Spec => []JoinsRunning` | `NoCallAssumption`, `LimitAssumption` |
| `CallsForward` | `Spec => CallsAdvance` | the same |

`BuildsShared` follows from `Owned`: a running build owns the in-flight entry of its
mobile.  The other two need `SingleInv`, which adds that only clients past `createClient`
have a socket (`Unconnected`), that entries and teardowns are about the mobile they name
(`OneTarget`), that a build that waits for an entry to go has a teardown of its own, finds its
mobile free when it looks the user up, and is alone there once it has registered (`Cleared`), and
that a connected client keeps its entry unless it is just being validated or is astray
(`Tracked`).  Without `Cleared` a registration could overwrite a live client.  `TeardownEffect` and
`TeardownKeeps` state what `unregisterClient` does once for the six actions that start one.

`JoinsAnswered` and `CallsForward` are the safety core of `CallsEnd` and need none of the assumptions on
timing: whoever joins a build waits for one of its own mobile that runs or has been answered, because
the in-flight map names builds that still run (`InFlightRuns`), even where a forced reconnect has
replaced an entry; and a call only moves forward, or loses a victim.  So no two calls can wait for
each other, and none goes round in circles.  `CallsEnd` itself is model-checked: it depends on fairness.

## 5. `SwapMaintenance`: who asks for a swap, and on what evidence

`ClientSwap` shows what a swap does once it runs.  This module shows when one is asked
for: by the `tg-aut` process that finds its session dead (`/setupClient`), and by the
half-hourly job, which rescues reported mains, upgrades degraded ones and refills
limited ones.  An operator's `update()` changes account or session by hand at any
time.  A permanent reason makes the swap retire the old main, so a dead report about
the wrong session costs a living account.

| variable | code |
|---|---|
| `main`, `session`, `deadMain`, `degraded`, `swapRetry` | the fields of `clients`; a session is an account and a version, so that a re-login is visible |
| `swapped`, `fixed` | `swappedAt`, `sessionChangedAt` less than `SWAP_REPORT_GRACE_MS` ago |
| `pool`, `limited`, `stored` | what `swapPoolFingerprint` is about; the main's SpamBot verdict; `bufferClients.session` |
| `dead`, `proc` | the sessions Telegram has killed; the session `tg-aut` runs on |
| `report`, `update`, `job`, `setup` | what each request has read so far, and the one run that holds the swap lease |
| `cool` | the HTTP process's `setupCooldownMap` entry |
| `slipped`, `tries` | histories, read by no step; so are `seen` and `late` of reports and evidence, `about`, and the job's `session` |

| action | code |
|---|---|
| `ScreenReport`, `ScreenFails` | `screenSetupReport`, with and without an answer from the database |
| `RecordReport`, `RequestSetup` | `recordDeadMainReport`; `runSetup` up to the lease |
| `SetupSwaps`, `SetupMisses` | a run that commits (`commitClientCutover`, pool return), and one that does not |
| `UpdateReads`, `UpdateWrites` | the two database calls of `update()`, given a mobile, a session or both: a new login, or the session another account has stored |
| `JobReads`, `JobAttempts`, `JobSkips`, `JobClearsMarker`, `JobNotes` | `runSwapMaintenance` for one client: the read before all attempts, the decision, the attempt, `notePassOutcome` |
| `JobCrashes` | the job's process dies; its claim and lease run out |
| `CopyAges` | time passes for what the job has read |
| `SessionDies`, `ProcessRestarts`, `GraceEnds`, `EvidenceRipens`, `RetryComesDue`, `CooldownEnds`, `PoolChanges`, `VerdictChanges` | the world and the clocks |

Nothing orders these steps but what the code tests: a report may be screened, an `update()` read or the
job's copy taken in the middle of any other request, a run may commit in between, and what a later step uses
is what its request has read.  Each wait is one bit which an action ends: evidence is `ripe` after
`DEAD_MAIN_HANDOFF_WAIT_MS`, an episode `due` after its `nextAt`; both may fall anywhere after their start.
The attempt limit is a constant (2 in the runs, 6 in the code); the doubling of the waits is not kept.
The fingerprint that `passDecision` reads and the start of the run it allows are one step.

The code leaves gaps, and the histories say when a step has gone through one:

* `slipped`: `update()` has written over a document other than the one it read
  (`client.service.ts:571`), the 15 minutes of a window were over before the process had restarted, or a swap or an
  `update()` has brought back the very account whose replaced process has not restarted yet;
* `late`, `seen`: the session was replaced between the screening and the record of a report (`client.service.ts:855` guards
  on the mobile only), or between the screening and the start of its run; a report let through by a read
  that throws has no `seen` and is never relied on;
* the job's `session`: it was replaced between the read of all clients and the attempt.

`Overtaken` is the union for a request that starts a run.  The properties speak of what is left, and every
other interleaving is in it.

### Runs

| run | instance | shows |
|---|---|---|
| `maintenance` | 2 accounts, 1 slot for requests, 1 death, 2 reports, 1 update or change of pool or verdict or crash, 2 attempts | all properties below |

* `DeadSwapJustified`: a run for a dead reason starts only while the client's session is dead, unless the
  request has been overtaken.
* `EvidenceIsCurrent`: evidence about the main is about the session it is on, through
  cutovers, re-logins and late reports, unless it was recorded late or the client has slipped.
* `MarkerIsCurrent`: the degraded marker describes the main, unless the client has slipped.
* `AttemptsBounded`: on one main, one pool and one episode, the job makes at most `MaxAttempts` attempts of a pass,
  although it counts on a copy, takes the fingerprint after its own probes and meets other requests' runs.
  `tries` counts attempts as they start, not as the episode notes them, and starts again where the code
  re-arms, where a marker is cleared with its episode, and at a crash before the attempt is noted.
* `EvidenceAnswered`: recorded evidence ends in a change of main, its withdrawal, or the hard
  stop of the rescue episode, although episodes of other passes use the same field.
* `AttemptsEnd`: when nothing changes around it, the job stops asking.

Two accounts make every change of main come back to an earlier account, which is what
evidence, marker and episode must tell apart.  One death and two reports let the replaced process report again, before
and after the cutover or the login that replaced it; the job is the second requester, and one update,
crash or change of the pool reaches each gap of the others.  Several of them in one behaviour are left to the proofs:
the safety properties hold for any numbers.  Two slots were also checked for the safety properties
alone (1.5 million states).  Deadlock is not checked: when the bounds are used up, the system rests.

Fairness (`FairSpec`): a request that runs goes on, for the same reason as in section 3; the job
is run by a scheduler; time passes.  Nothing is assumed of Telegram, the operator, restarts,
new reports or the pool.

### Divergences

* `ChangeDropsEvidence` (`client.service.ts:571`): `update()` drops the evidence of a session it replaces, "or rescue would
  retire a healthy main" (`client.service.ts:536-537`).  It decides that on a read and writes on the `clientId` alone; a
  report recorded in between stays, names the mobile that stays, and the rescue pass acts on it.  The gap the code's
  comment does name (`client.service.ts:594-596`) is another: the account in a `swapped_out` event.
* `RescueOnEvidence` (`client.service.ts:2440`): the job reads all clients once and then makes up to
  three attempts of minutes each.  An attempt runs on the main of its moment, for the
  evidence read at the start, where the pass is documented to act on evidence "for the CURRENT mobile"
  (`client.service.ts:2277`).  When an operator has logged the account in again or an HTTP process has swapped the dead main
  meanwhile, the rescue retires the living main just installed: the cooldown that would stop it is kept per process.

TLC finds both on the instance of `maintenance` with one report, when the property is put in the place of the
others and the specification is `Spec`.

### Proofs (`SwapMaintenance_proofs`)

| theorem | says | assumes |
|---|---|---|
| `TypeCorrect` | `Spec => []TypeOK` | `AccountAssumption`, `LimitAssumption` |
| `EvidenceCurrent` | `Spec => []EvidenceIsCurrent` | the same |
| `MarkerCurrent` | `Spec => []MarkerIsCurrent` | the same |
| `SwapsJustified` | `Spec => DeadSwapJustified` | the same |
| `AttemptsStop` | `Spec => []AttemptsBounded` | the same |

`EvidenceCurrent`, `MarkerCurrent` and `SwapsJustified` rest on `CurrentInv`.  It adds that outside the two windows after a change the
process runs on the client's session (`ProcessKnown`), which is why a screened report is
about the session it was screened for (`ReportsCurrent`); that only dead sessions are ever reported
(`AboutDead`); and that the job's copy is about the session the job has read (`JobCurrent`).
`ProcessKnown` is where the restart within the window is used, so it, and what rests on it, hold until the client has slipped.

`AttemptsStop` rests on `TriesInv`: every attempt counted in `tries` is in the episode of the document, in the copy
the job decides on, or with the attempt until it is noted (`Counted`); and on `RunHeld`, that a run of the job
is the attempt it waits for.  The stale copy is no harm here: what changes main, pool or episode under it also
starts the count again, and where only the job writes episodes, copy and document agree.

The two liveness properties are model-checked only; `AttemptsStop` is the safety core of `AttemptsEnd`.

## 6. `Warmup`: from enrolment to supply

An enrolled account is prepared over about 24 days: privacy, our 2FA password, the former
owner's sessions revoked, photos, name, username, channels, a new photo.  READY accounts get a
backup session ("rotation") and are then offered to swaps as SESSION_ROTATED.  A *check* (four times a
day) reads the whole pool, plans an action per account and carries the plans out one after
the other, tens of seconds each; the hourly *sweep* rotates one READY account.  Accounts
share nothing here but the run's caps, which only postpone, so the module is about one account.

| variable | code |
|---|---|
| `doc` | the pool document: `warmupPhase`, `status`, `inUse`, `channels`, the seven step timestamps (`done`, `since`), `sessionRotatedAt`, `failedUpdateAttempts`, `lastUpdateFailure`, `lastUpdateAttempt`, the days since `enrolledAt` |
| `tele` | Telegram: whose 2FA password, whether other sessions are logged in |
| `backup` | `users.session`: none, dead or the very session in use, live, or created by a rotation |
| `check`, `sweep` | per process, what `processClient` and `rotateSession` hold of the account, and where they are |
| `swap` | what swaps do with the account: some run holds it as its candidate, it is a main, and how many returns to the pool are still to be written |

| definition | code |
|---|---|
| `WarmupAction` and the operators before it | `getWarmupPhaseAction` |
| `Plan`, `CheckHealth` | `runWarmupMaintenance` for this account |
| `Begin`, `Move`, `ActLightly` | `processClient` up to its first Telegram call: failure resets, cooldown, the phase written, the actions that need no connection |
| `Attempt` (`Perform`, `GiveUp`), `Stamp`, `FailStep` | a step: its effect on Telegram, its timestamp, its failure before or after the effect, with or without a permanent error |
| `StartSweep`; `CheckRotation`, `SkipParked`, `ResolveBackup`, `Rotate`, `FailRotation` | `processReadyRotation`; `rotateSession` |
| `Pick`, `DropPick` | `buildEligibleBufferQuery`: a swap holds the account as its candidate, and lets go of it |
| `CheckOut`, `Replace` | `setPrimaryInUse` on this account and on another one: the commit of a swap |
| `CheckIn` | `returnOldClientToBufferPool`, or the retirement, or neither |
| `Expire`, `Reactivate` | `markAsInactive`, `markAsActive` from any other flow |
| `JoinChannel`, `LoseChannel`, `OwnerSetsPassword`, `Crash`, `Tick` | join queue, Telegram, the former owner, the process, the clock |

Only the candidate query looks at status, phase and channels.  The commit comes after connection and
session checks, minutes later, and writes `inUse` and `active` over whatever the row has become; so does the
return, which also writes SESSION_ROTATED, active or inactive by the days it has to rest, when a later
commit may have the account as its main again (`MaxReturns` bounds the returns not yet written).

Timestamps are ages that saturate at the largest bound they are compared with, so time is
unbounded and the state space finite.  The account's jitter is part of `Threshold`.
`processClient`'s case `rotate_session` cannot be reached: a run leaves READY accounts out.  Not
modelled: how a step computes the persona it applies, caps and priorities of a run,
`healDeadSessions`, `refreshProfilePhotosOnDemand`, the cascade of a permanent failure to
other documents, failed database writes, notices, and an operator's `update()` that makes a main of an
account no query picked (section 5), whose later return would offer it as supply.  A backup session is not killed again after
the rotation, so the properties speak of the moment it is made.

### Runs

| run | instance | shows |
|---|---|---|
| `warmup` | 1 process, 1 crash, 2 channels as the floor, legacy accounts with no step or two out of order; thresholds 1, 4, 9, 10, 11, gaps 1 and 2, deadline 3, failure limit 2 | all below |

* `RotatedIsPrepared`: supply has done every step, has a recorded rotation and a usable backup.
* `ImplementsAccount`: to the pool, the account is `PoolAccount`: warming, READY once, supply once, a main
  from supply only, and supply again when it is replaced.  Nothing in the commit or the return asks for
  that: it holds because nothing takes a rotated account back, so what the query saw is still so at
  the commit, and a return only writes the phase that is there already.  Status is no part of it: an
  account found dead and a main are made active again by these writes.
* `RevokeOnlyBehindPassword`: other sessions are revoked behind our own password only.
* `StepsSpaced`: a step is carried out after the step before it, at the distance asked for.
* `AgeNeverStrands`: elapsed time alone brings every account to READY, without any channel.
* `SupplyArrives`: an account that keeps enough channels becomes supply or is retired.

Two further properties are proved, not run: `PhaseNeverBack`, the phase only advances, and
`NeverStranded`, no READY account has a recorded rotation, so each can still be rotated.

The gaps and thresholds keep the order of the real ones; the deadline leaves room for the
halved target before it.  One return not yet written suffices to fall on
a row that is picked, a main again, or retired.  One process suffices for the run because that is where the
pacing properties hold; the two safety properties that need no pacing are proved for any number.
Deadlock is not checked, as the clock always ticks.

Fairness (`FairSpec`): weak for checks, sweeps and time, as a scheduler starts them and every
call they make is bounded.  Strong for `Attempt`, `Stamp`, `CheckRotation` and `Rotate`:
failed steps are tried again for as long as the account is active, the failure count is reset
after a day or a week, and the priority of a run grows with the days since the last attempt, so a
step that may succeed does in the end.  Nothing is assumed of channel joins, swaps or
failures; a property that needs channels says so.

### Divergence

* With two processes `NeverStranded` fails (`base-client.service.ts:2515`): both
  plan `advance_to_ready` for one
  account.  The first makes it READY and a sweep rotates it; the second then writes READY
  again.  READY accounts are left out of checks, and `processReadyRotation` defers an account with
  `sessionRotatedAt`, so it is stuck.  The flags that prevent this are fields of one process.

### Proofs (`Warmup_proofs`)

| theorem | says | assumes |
|---|---|---|
| `TypeCorrect` | `Spec => []TypeOK` | the module's assumptions |
| `SupplyPrepared` | `Spec => []RotatedIsPrepared` | the same |
| `RevokeProtected` | `Spec => RevokeOnlyBehindPassword` | the same |
| `PhasesForward` | `Spec => PhaseNeverBack` | also `Alone`: one process |
| `NoneStranded` | `Spec => []NeverStranded` | the same |
| `StepsApart` | `Spec => StepsSpaced` | the same |
| `AccountRefinement` | `Spec => ImplementsAccount` | the same |

`PoolAccount` is the promise of the warm-up with `stage` mapped to `Stage`, which reads `warmupPhase` and
whether the account is a main.  That its steps map to steps or stutters needs `SwapRotated` (what a swap has
picked, has made the main, or is about to return is rotated) and
`ChecksBelow` (a check never carries READY, and SESSION_ROTATED only where it has read it) beside
`AloneInv`; with two processes, a late `advance_to_ready` takes supply back to READY, which
`PoolAccount` does not allow (the divergence above).
`TypeOK` needs `StampsStep` (only a step performed is stamped).  `SupplyPrepared` and
`RevokeProtected` follow from `PreparedInv`, which is about what runs hold in memory as
much as about the document: a plan to revoke rests on a stamp for 2FA, that stamp is true of
Telegram, and a plan that says SESSION_ROTATED was made for a prepared account, as was a return still to come.  All of these
facts only grow, which is why a second process does no harm to them.  The other three follow from
`AloneInv`: during a rotation the account is READY and unchecked, because checks pass READY
accounts over; a check moves on from the phase it read; its action keeps its distance.  This is what
the flags of a process buy; a second one loses it.  `PlanSafe`,
`PlanForward` and `PlanSpaced` are the facts about `getWarmupPhaseAction`; `StepEffects` says once
what each step does to the parts of the document the invariants read.

Model-checked only: `AgeNeverStrands` and `SupplyArrives`, which depend on fairness.

## 7. `JoinQueue`: channels to join and to leave

The accounts of a pool join channels while they warm up and leave some when they have too
many.  A daily *sweep* fills two in-memory queues, *passes* started by timers drain them, and a
*refill* adds to them when the join queue runs dry.  It is one process with one thread,
but every step is an await, and two boolean fields are all that keeps passes, sweeps and refills
apart.  A queue is, for a mobile, the number of channels left.

| variable | code |
|---|---|
| `live` | mobiles of the pool whose row is active |
| `joins`, `leaves` | `joinChannelMap`, `leaveChannelMap` |
| `joinFlag`, `leaveFlag` | `isJoinChannelProcessing`, `isLeaveChannelProcessing` |
| `joinTimer`, `leaveTimer` | round timers that are pending, and whether `joinChannelIntervalId` / `leaveChannelIntervalId` names one |
| `kicks` | the start timers a sweep or a refill leaves behind |
| `pass`, `round`, `refill`, `sweep` | the local variables of a running join pass, leave pass, refill, sweep |
| `joinCount`, `leaveCount`, `failures` | `dailyJoinCounts`, `dailyLeaveCounts`, `joinFailureCounts` |
| `joined`, `left`, `doubled`, `restarts` | history: what Telegram saw today, whether two join passes overlapped, restarts today |

| action | code |
|---|---|
| `SweepStarts`, `SweepRefreshes`, `SweepVisits`, `SweepEnds` | `runJoinSweep` with `prepareJoinChannelRefresh` and `joinSweepAccounts` |
| `RefillVisits`, `RefillEnds`; `ScheduleJoins` | `refillJoinQueue`; `scheduleNextJoinRound` |
| `JoinKick`, `JoinTimerFires`; `JoinPick` to `JoinPassEnds` | `joinChannelQueue`, the round's timer; `processJoinChannelSequentially`, with a join, a join request, a skipped channel, a flood wait and every other error |
| `LeaveKick`, `LeaveTimerFires`; `LeavePick`, `LeaveReturns`, `LeavePassEnds` | the same for leaving; a batch leaves the queue before the account is connected and comes back if that fails |
| `NewDay`, `Restart` | midnight; the process forgets queues, timers and counters |

Abstractions.  Which channels are chosen and the stored channel counts are left out; what an
account needs is nondeterministic.  A query that throws during a sweep or a refill is a scan in which no
account needs anything.  `hasActiveClientSetup` is either answer (the alternative of `ScheduleJoins`
that stops).  `failures` saturates at its limit.  A pass counts what it holds itself, as its array
does.  `clearJoinMap` and `clearLeaveMap`, reached by HTTP only, and the option
`skipExisting: false`, which no caller uses, are left out.

### Run

`join_queue`: two mobiles, two passes at once, one refill, one
sweep, one restart or one midnight, daily limits of one with batches of two, so that every limit cuts
a batch.  `MCBound` keeps a restart and a midnight out of one behaviour (the larger instance
without it, 3.1 million states, passes as well).  `MaxTimers` bounds the round timers pending at once, `MaxSweeps`, `MaxRestarts` and
`MaxDays` what happens how often.  Mobiles and pass names are symmetric.  Deadlock is not checked:
with the queues empty the system waits for a sweep, and sweeps are bounded.

* `FlagsOwned`: the leave flag is set exactly while one leave pass runs, at most one timer is to start
  the next, and the join flag is never left behind without a pass, which would end joining for good.
* `LeaveNeverStalls`: no queued leave is without a pass, a timer, a kick or a scan that will give one.
* `DailyCaps`: the daily limits bound what Telegram saw, through batches taken and put
  back, flood waits and midnight.  Counters are in memory, so the bound is per life of the process
  (`1 + restarts`); for joins it needs that no two join passes overlapped.

### Divergences

* `JoinNeverStalls`, the counterpart for joining, fails when added to this run with
  `MaxSweeps = 2` (`base-client.service.ts:1745`).  `prepareJoinChannelRefresh` keeps the mobiles that
  are queued and clears the timer of their next round; `joinSweepAccounts` starts the queue only
  for mobiles it added itself (line 1383).  A sweep that adds none leaves the kept ones with
  no timer until a later sweep or leave pass.  The comment at lines 2692-2696 wants to
  avoid "silently stalling channel growth".
* `clearJoinChannelInterval` also resets `isJoinChannelProcessing` of a pass that is running, so a
  second one can start; the comment at lines 1695-1698 explains why the leave side does not.
  `doubled` records it, and joins can then pass the daily limit.
* A refill that adds nothing clears whichever timer is named, also one that the kick of a sweep set.

### Proofs (`JoinQueue_proofs`)

| theorem | says | assumes |
|---|---|---|
| `TypeCorrect` | `Spec => []TypeOK` | the module's assumptions |
| `FlagsHeld` | `Spec => []FlagsOwned` | the same |
| `LeavesTakenUp` | `Spec => []LeaveNeverStalls` | the same |
| `CapsRespected` | `Spec => []DailyCaps` | the same |
| `BudgetRefinement` | `Spec => ImplementsBudget` | the same |

`LeaveBudget` is what the leave queue promises, with no passes and no batches: chats are owed because a scan
found them, no more are left than are owed, and in every life of the process no more than the cap in a day;
what is owed may be forgotten.  Chats are counted, not told apart: a batch that is put back is not owed
twice, but which chat of the queue a leave was is not said.  `owed` is mapped to the queue plus the batches in the passes' hands
(`Owed`), which one pass at a time (`OneLeaving`) makes a single number; so a batch taken off the queue, put
back by a failure or cut by the daily limit is a stutter, and only `LeaveReturns` leaves.  A run does not check
`ImplementsBudget`: with the instance of `join_queue` it takes TLC longer than a short run; it was
checked on the first 6 million states, and the theorem covers all.

`TypeOK` says that no timer is cleared that is not pending, so it needs `Shaped`: a named
timer is pending, and a pass holds what its place says.  `OneLeaving` strengthens `FlagsOwned`, `LeavesWithinCap`
and `JoinsWithinCap` relate what Telegram saw to the counter and to the batch
in hand.  `JoinsWithinCap` holds only while there was one join pass at a time, which is why `DailyCaps`
says so.  Liveness of the passes is not stated: without fairness of Telegram's flood waits there is
none, and the safety form (`LeaveNeverStalls`) says what the code is responsible for.

## 8. `Signup`: one sign-in over several calls

`TgSignupService` signs a phone in: `sendCode`, then `verifyCode` with the code and, when 2FA is
on, again with the password.  Between the calls a connected client waits in memory with a timer
of five minutes.  Everything is keyed by the phone, so the module is one phone in one process.

| variable | code |
|---|---|
| `active`, `sess`, `link` | `activeClients`, the `ActiveSignupSession` objects, `client.connected` |
| `holder`, `queue` | `phoneLocks`: who runs in `withPhoneLock`, who is chained behind |
| `inflight` | `inflightSends` |
| `call` | the local variables of an HTTP call, and its await |
| `tearing` | `disconnectClient` runs of the timer and of the cleanup, which take no lock |
| `reject` | the entry of `rejectCache`, until it runs out |
| `overlapped` | history: a teardown and a locked call have overlapped |

| action | code |
|---|---|
| `SendArrives`, `VerifyArrives`, `Answer` | `sendCode` and `verifyCode` up to the lock (a second send joins the first), and the answer with what it hands on |
| `SendRefused`, `SendCooling`, `SendAgain`, `SendFresh` | `sendCodeLocked`: cached rejection, resend cooldown, resend, new client |
| `ClientConnects`, `ConnectFails`, `RebuildConnects`, `RebuildFails` | `ensureConnectedClient` |
| `Resent`, `ResendFails`, `BuildConnects`, `BuildFails`, `AskedFresh`, `AskFails` | the outcomes of the resend and of the new client, with `mapSendError` |
| `VerifyRefused`, `VerifyStarts`, `SignIn`, `FetchParams`, `Accepted`, `NotAccepted`, `Store` | `verifyCodeLocked`, `handle2FALogin`, `processLoginResult` |
| `DropStarts`, `DropEnds` | `disconnectClient` called under the lock |
| `TimerFires`, `CleanupStale`, `TeardownEnds` | the same from the timer and from `cleanupStaleSessions` |
| `ConnectionLost`, `RejectionEnds`, `Restart` | the network, the cache's clock, the process |

Abstractions.  Whether the cooldown runs and whether a call brings the password is
nondeterministic.  The code's hash and delivery channel, the learned home DC and the cache's
capacity are left out; the SRP retry is folded into the second step of the password; a flood wait of
unknown length is not remembered, as in the code.  Session and client names are used again once
nothing refers to them, so calls and sessions go on for ever with few names.

### Runs

| run | instance | shows |
|---|---|---|
| `signup` | 2 calls, 1 session, 3 clients | `OrphansNeedOverlap`, `SessionsExpire`, `CallMatchesStage`, `RejectionsHonoured`, `CallsAnswered` |
| `signup_flood` | 2 calls, 2 sessions, 3 clients, symmetric names | `FloodKeepsSession` is violated |

Two calls give every race of the lock (one inside, one waiting or joined); three clients let a
rebuild and a fallback happen beside a registered one.  A session's name is free again once
nothing refers to it, so with one name sessions follow each other; that one is still being torn down
while the next is registered takes two.  The instance of `signup_flood` has them: under `Spec` and
without `CallsAnswered`, whose check is too large there, the safety properties hold on its 709,067
states as well, and they are proved for any number.

* `OrphansNeedOverlap`: until a teardown overlaps a call, every connected client is the registered
  session's or the one the lock's holder is building, whatever fails on the way.
* `SessionsExpire`: a registered session has its timer ahead or a teardown under way.
* `CallMatchesStage`: what a call asks of Telegram is what its session waits for, through its awaits.
* `RejectionsHonoured`: no code is asked for while a rejection is remembered, nor by a call
  that one has already stopped.
* `CallsAnswered`: every call is answered, the queued and the joined ones included.

Fairness (`FairSpec`, for `CallsAnswered`): weak, for each call's steps.  Telegram's and the database's
promises settle, `destroy` is raced against a timeout.  Nothing is assumed of timers or new calls.

### Divergences

* `signup_flood` (`tg-signup.service.ts:621`): a resend that meets a flood wait keeps the session and
  remembers the wait.  The next tap within the wait throws from `cachedRejection` (line 516) with
  `keepExistingSession` still false, and the catch block disconnects that session.  The
  comment at line 509 and the test at `tg-signup.service.spec.ts:1361` say that it survives a
  flood on resend.
* `TimerSparesNewer` fails on the instance of `signup_flood` (line 397): the timer compares the session
  before the await of `destroy()`, and the finally block then deletes whichever entry the phone has
  by then.  The comment at line 243 says the timer never tears down a newer session.

### Proofs (`Signup_proofs`)

| theorem | says | assumes |
|---|---|---|
| `TypeCorrect` | `Spec => []TypeOK` | `NoneIsNothing` |
| `OrphansExplained` | `Spec => []OrphansNeedOverlap` | the same |
| `Expiry` | `Spec => []SessionsExpire` | the same |
| `StageRespected` | `Spec => []CallMatchesStage` | the same |
| `RejectionsRespected` | `Spec => RejectionsHonoured` | the same |
| `WaitersKept` | `Spec => []WaitersServed` | the same |
| `ProgressRefinement` | `Spec => ImplementsProgress` | the same |

The first five follow from `IInv`.  `LockHeld`: a call inside the lock is its holder, so there is one.
`Equipped`: a call holds the session and client its place needs.  `StageHeld` says whose
stage it is: only the holder changes a stage.  `Unrejected`: a call that may still ask has met no
rejection.  `OwnedUnlessOverlapped` adds to `OrphansNeedOverlap` what a client under teardown or
being built belongs to.

`WaitersServed` is inductive beside types and `LockHeld`: a free lock has nobody waiting, the queue is exactly the
calls that wait, each once, and whoever joined a send has a sender under way.  It is the safety core of
`CallsAnswered`, which is model-checked.

`SignupProgress` is the signup with no locks, timers and connections: one sign-in of the phone, opened by a
code, at most going on to the password, and a new one only after its end.  `open` is mapped to `active` and
`awaits` to the stage of its session.  The step that needs an argument is `AskedFresh`, which writes
`activeClients` after two awaits: `Vacant` says that a call that builds or asks has met no entry, and since only the
lock's holder makes one, teardowns can only take entries away meanwhile.  `StageHeld` gives that `SignIn`
leaves the stage `code` only from `code`.  `ImplementsProgress` holds where teardowns overlap calls too, which is
where `TimerSparesNewer` fails: a sign-in may end early, but is never replaced while it is open.
It is no property of a run: TLC found no violation of it on the instances of `signup` (132,543 states) and `signup_flood`
(8.0 million without its symmetry) before it was proved.

## 9. `SessionCreation`: requests for a session string

`createSession` makes a new session string of an account, by up to four strategies in turn: log in
with a given session's help, have the connection manager log in, or the same with the newest two
audit sessions; `getOldestSessionOrCreate` first looks for a stored string that still
works.  Creating from a stored string means reading the login code Telegram sends to it, for
minutes, so two creations for one mobile would read each other's codes.  And a string of
an account that the parked responder uses must not be connected.

| variable | code |
|---|---|
| `lock`, `lapsed` | `ClientRegistry.locks`, and whether the lock is older than `LOCK_EXPIRY` (2 min) |
| `entry` | `ClientRegistry.clients`: the placeholder of `markClientCreating`, `aged` after `CLIENT_TIMEOUT` (5 min) |
| `window` | `rateLimitMap` |
| `parked` | an episode or lease of the parked responder (external; read by the guard) |
| `call` | a request: its strategy (`plan`), its await (`at`), whether a session was given, strings and attempts left |
| `exposed`, `unparked` | history: creations whose placeholder was swept; requests that met a moment without an episode since they last let go of a string |

| action | code |
|---|---|
| `CreateArrives`, `Extracted`, `OldestArrives` | the two entry points; `extractMobileFromSession` |
| `GuardClears`, `GuardRefuses` | `checkParkedSession`, at the entry and before each strategy or candidate |
| `Admitted`, `ManagerStarts`, `AuditListed`, `AuditStarts` | rate limit, `checkExistingSession`, the strategies |
| `Validated`, `TakesLock`, `WaitTimesOut`, `AttemptFails`, `CreationEnds` | `createFromOldSession` |
| `BorrowEnds`, `Saved` | `createFromExistingManager`, which takes neither lock nor placeholder; `updateAuditOnSuccess` |
| `LookUp`, `Queried`, `ProbeStarts`, `Probed`, `FallsBack` | `findOldestValidSession` and the fallback |
| `LockLapses`, `LocksSwept`, `EntryAges`, `EntriesSwept`, `WindowEnds` | clocks and the registry's two interval timers |
| `EpisodeOpens`, `EpisodeCloses` | the parked responder |

The module is one mobile in one process, as locks, placeholders and limits are maps keyed by
the mobile.  Names of requests are used again.  Time is two orderings the code's constants
give: a request between the check and the lock validates (45 s at most) and waits (30 s), less than the
two minutes of the lock it waits for (`LockLapses`); five minutes are more than two
(`EntryAges`).  Left out: what a code's message says and how old it may be, retry delays, the audit
records' content and age filter, and operations nothing in `src/` calls (`registerClient`,
`updateActivity`, `forceCleanup`, `markExpired`).  A restart loses everything but audit records,
which makes it a new run, so there is no action for it.

### Run

`session_creation`: two requests at once, two per hour, two attempts, two stored
strings.  Two requests are enough for each race over the lock, the placeholder and the guard; the
three safety properties are proved for any number.

* `OverlapNeedsSweep`: two creations from stored strings are under way at once only when the
  inactivity timer has removed the placeholder of one.  It is the placeholder, not the lock of two
  minutes, that keeps creations apart.
* `ParkedLeftAlone`: a request connects a stored string only if the account was without an episode
  at some moment since the request let go of the string before, through all strategies.
* `MobileFrees`: a mobile is never blocked for good.  A creation that lost its lock to a later one may
  not remove its placeholder, so only the sweep that ignores `isCreating` frees the mobile.

Fairness (`FairSpec`): weak, for each request's steps, and for the registry's two interval timers.
Most awaits run under a timeout or settle on an error; the logins inside `performSessionCreation`
have none of their own and are assumed to answer or fail.  `MobileFrees` rests on the timers alone: a request
that hangs there for good keeps neither its lock nor its placeholder.  Nothing is assumed of new requests or of episodes.

### What the model makes visible

No run is spent on these; they can be read off the actions named.

* A waiter that times out goes on to the existing manager without lock while the holder creates
  (`WaitTimesOut`), though `acquireLock` is there "to prevent concurrent operations"
  (`client-registry.ts:70`).
* `Extracted` comes before the guard: a request without a mobile connects the given string to learn
  it (`parked-session-guard.ts:9`: "Every such path asks this guard first").
* A failed validation falls through to the existing manager, and attempts two and three reconnect,
  without a new guard (`Validated`, `AttemptFails`; compare `session.service.ts:528-531`).  This is
  why `ParkedLeftAlone` speaks of letting go of a string, not of each connection.

### Proofs (`SessionCreation_proofs`)

| theorem | says | assumes |
|---|---|---|
| `TypeCorrect` | `Spec => []TypeOK` | `NoCallIsNone`, `Limits` |
| `CreationsApart` | `Spec => []OverlapNeedsSweep` | the same |
| `ParkedRespected` | `Spec => ParkedLeftAlone` | the same |
| `LocksCovered` | `Spec => []LockCovered` | the same |

`OverlapNeedsSweep` is not inductive: it needs `Apart`, which says that a lock's holder is creating
(`HolderCreates`), that a creation whose placeholder was not swept still has one (`Covered`) and the lock is
its own or nobody's (`Owned`), and that while such a creation has no live lock nobody is between the
check and the lock (`Shut`), which is where the timing above is used.  The same invariant gives
`LockCovered`: no lock is left behind by a creation that failed, timed out or was overtaken.  `ParkedLeftAlone` follows from
`Met`: a request behind a guard has met a moment without an episode.  `MobileFrees` is
model-checked only.

## 10. `PoolEnrolment`: an account's way into one pool

An account may be in `bufferClients` or in `promoteClients`; in both, two live sessions would run on
it and Telegram would revoke them.  The two collections share no index.  A promise chain per mobile
(`enrollment-lock.ts`) serialises the enrolments of a process, a lease on the mobile
(`pool-claim.ts`) keeps processes apart, and under both the enrolment reads both pools once more
before it writes.

| variable | in the code |
|---|---|
| `rows` | whether the mobile has a row in each pool, and which enrolment wrote it |
| `claim` | the mobile's document in `poolEnrolmentClaims`: `pool`, the stamp `at` (as the enrolment that set it, `by`), and whether it is younger than a minute (`live`) |
| `chain` | `chains.get(mobile)` of each process: who waits, in order; the head holds the lock |
| `job` | each enrolment's await and locals |
| `faults` | bound on crashes, lost replies, lost releases |
| `met` | history: who met a moment without any row since it began |

The module is one mobile, because lock, claim and rows are keyed by it.  `Entries` says which
process enrols into which pool by which way: `auto` (`enrolPoolClientFromUser`) and `setAs`
(`setAsPoolClient`) check, go to Telegram, and queue for the lock; `create` queues at once and
inserts instead of upserting.  Under the lock come `Stamp` (the time `at` is taken before the upsert is
sent), `Claim` or `ClaimRefused`, the reads of `isMobileEnrolledAnywhere` one by one (`Read`), `Recheck`,
`Write` and `Release`.  The claim may be applied without its reply arriving; then nobody releases it and
`Expire` does.  An upsert that found no document is refused when another one has been inserted meanwhile, also by
the own pool.  The list of mains, cached by each process, appears as a refusal that is always possible.

### Run

| run | instance | shows |
|---|---|---|
| `enrolment` | 2 enrolments, 2 processes, buffer in one by `auto` and `create`, promote in the other by `setAs`, 2 faults | all below |

* `OnePool`: the account is in one pool at most.
* `ImplementsMembership`: to a reader of the two collections the account is in no pool or in one, and goes from one
  pool into the other only by way of none (`PoolMembership`).
* `TakesOnlyRaced`: an enrolment overwrites another one's row only if at some moment since it
  began there was no row: the re-check lets the own pool pass, so of two overlapping
  enrolments into one pool the later write wins, but an account that was enrolled all the while,
  or moved between pools under the reads, keeps its row.
* `EnrolmentsEnd`: every enrolment ends; the chain never stands still.
* `ClaimFrees`: the claim comes free again and again, whoever died with it.

Two enrolments are one in each pool or two in one; they start over after they end, so a
third comes as the next life of the first.  Two faults let a claim be abandoned and a crash follow.
With three enrolments and two faults the two safety properties hold as well (about 7 million states,
beyond a short run).

Fairness (`FairSpec`): weak for each enrolment's steps, as database and Telegram calls answer or time out,
and for `Expire`, as time passes.  Nothing is assumed of new enrolments, crashes or removals.

### What the model makes visible

* **`Prompt`.** The lease is taken once and not renewed: a re-check and write that take longer than a
  minute outlive it, the other pool may claim, and `OnePool` fails (`Prompt = FALSE`).
  The comment at `pool-claim.ts:17` calls the minute longer than any of them; nothing in the code bounds it.
* **`OneHost`.** A live claim is renewed by any enrolment of the same pool (`pool-claim.ts:91`), and a release
  frees the claim that has its own stamp (line 111).  If two processes enrol into one pool
  (`MCShared`: promote and buffer in the second process, buffer in the first), the second buffer
  enrolment renews the claim of the first, is done first and frees it; promote may then claim, find the
  account free and write, while the first is between its re-check and its write.  TLC finds it without any
  fault (32 states).  The header of `pool-claim.ts` says that buffer enrols on one process and promote on the
  other, which rules it out; the operator endpoints of both pools exist in every process and step outside
  it, and the return of a replaced main (`Warmup`, `ClientSwap`) writes its buffer row in whatever process
  ran the swap.  The properties are those of the documented deployment.

### Proofs (`PoolEnrolment_proofs`)

| theorem | says | assumes |
|---|---|---|
| `TypeCorrect` | `Spec => []TypeOK` | the module's assumptions |
| `OneAccountOnePool` | `Spec => []OnePool` | also `OneHost`, `Prompt` |
| `MembershipRefinement` | `Spec => ImplementsMembership` | the same |
| `TakesRaced` | `Spec => TakesOnlyRaced` | the same |
| `ChainIntegrity` | `Spec => []ChainsLive` | the module's assumptions |

`TypeOK` needs `LockInv`: whoever holds the lock is the head of its chain, so there is a `Tail` to leave.
`PoolInv` carries `OnePool`: `HoldsClaim`, who is in `fn` has the live claim with its own stamp, so two are
never in `fn`; it survives another's claim because that one would need the same pool, hence by `OneHost` the
same process, hence the same lock.  `Rechecked` keeps what the reads found true until the write.  `MetInv` does the
same for the check before Telegram: it relies on `OnePool`, since an account that has a row in one
pool gets none in the other between two reads.  `MembershipRefinement` needs `OnePool` before
and after each step: a write or removal touches one row, so it is an entry from none, a departure to none,
or the row of the own pool written again, a stutter of `place`.  `ChainIntegrity` strengthens `LockInv`: the chain of a process is
exactly its waiters and its holder, each once and the holder first, so no dead or failed enrolment is
waited for; it is the safety core of `EnrolmentsEnd`.  `EnrolmentsEnd` and `ClaimFrees` are model-checked.

## 11. Not modelled

* **Scheduled maintenance** (`control-plane/maintenance`) and **IP and proxy assignment**: one
  pass under a flag, a document per account, counters; what they could do wrong to a shared account
  is what `ClientSwap` has as `ExpireElsewhere`.
* **Refills of the pools** (which candidates are taken, how many a day), the promote pool's own fields,
  persona assignment, notices: single-document writes around the modelled protocols.
* **Parked-responder episodes**: kept by another package (`tg-platform`); this repository only reads
  them (section 9).
* **CRUD, statistics, bots, files, web layer**: no protocol between two actors that a state machine
  would show.
* **Build products** (`src/out`, 52 thousand lines) are generated from the rest.

Together these are most of the repository's lines; the modelled services are the ones whose
steps interleave.
