----------------------------- MODULE ClientSwap -----------------------------
(* The main-account swap of ClientService (src/components/clients): several  *)
(* CMS processes share the `clients` and `bufferClients` collections but not *)
(* memory, and each may run one setup per client.  A run takes the client's  *)
(* swap lease, scans for candidates, leases and probes them one by one,      *)
(* registers the pick in its process, commits the cutover in one transaction *)
(* and then, outside that transaction, puts the replaced account away.       *)
EXTENDS Naturals, FiniteSets

CONSTANTS
    Procs,         \* CMS processes
    Clients,       \* clientIds
    Mobiles,       \* finished accounts (session_rotated, >= 200 channels)
    NoClient, NoMobile, NoOwner, Gone,
    InitMain,      \* clients.mobile at the start
    InitOwner,     \* bufferClients.clientId at the start
    Persona,       \* clients.dbcoll: only same-persona siblings lend spares
    Kinds,         \* kinds of request in play: "normal", "dead", "upgrade"
    SparesAfter,   \* SIBLING_MIN_SPARES_AFTER
    RenewalFails,  \* TRUE: a running holder may miss its lease renewals
    Frail,         \* bound: accounts some other flow may expire
    MaxStarts,     \* bound on setup runs
    MaxCrashes     \* bound on process crashes

ASSUME MainAssumption ==
    /\ InitMain \in [Clients -> Mobiles]
    /\ \A c, d \in Clients : InitMain[c] = InitMain[d] => c = d
    /\ InitOwner \in [Mobiles -> Clients]
    /\ \A c \in Clients : InitOwner[InitMain[c]] = c
ASSUME NoneAssumption ==
    /\ NoClient \notin Clients
    /\ NoMobile \notin Mobiles
    /\ NoOwner \notin Procs \X Clients
    /\ Gone \notin Procs \X Clients
    /\ NoOwner # Gone
ASSUME BoundAssumption ==
    /\ RenewalFails \in BOOLEAN
    /\ SparesAfter \in Nat
    /\ MaxStarts \in Nat
    /\ MaxCrashes \in Nat
    /\ Frail \subseteq Mobiles
    /\ Kinds \subseteq {"normal", "dead", "upgrade"}

VARIABLES
    main,        \* clients.mobile of every client
    row,         \* the bufferClients row of every account
    swapLease,   \* clients.swapLease
    probeLease,  \* bufferClients.probeLease
    cache,       \* clientsMap of every process
    setups,      \* TelegramManager.activeClientSetups of every process
    cool,        \* setupCooldownMap: clients on cooldown, per process
    pc,          \* control state of the run of a client in a process
    run,         \* data of that run
    starts,      \* runs started so far
    crashes      \* crashes so far

db    == <<main, row, swapLease, probeLease>>
local == <<cache, setups, cool>>
bound == <<starts, crashes>>
vars  == <<db, local, pc, run, bound>>

Runs   == Procs \X Clients
Stages == {"due", "future", "sibling", "limited"}
States == {"idle", "leased", "scan", "choose", "probe", "picked", "cutover",
           "replaced", "failing", "penalise", "finish"}

Row   == [client : Clients, inUse : BOOLEAN,
          status : {"active", "inactive"}, due : BOOLEAN]
Lease == [owner : Runs \cup {NoOwner, Gone}, live : BOOLEAN]
Run   == [kind : {"normal", "dead", "upgrade"}, stage : Stages,
          old : Mobiles \cup {NoMobile}, busy : SUBSET Mobiles,
          cands : SUBSET (Mobiles \X Clients),
          pick : Mobiles \cup {NoMobile}, from : Clients \cup {NoClient},
          pending : BOOLEAN, perm : BOOLEAN]

NoLease == [owner |-> NoOwner, live |-> FALSE]
NoRun   == [kind |-> "normal", stage |-> "due", old |-> NoMobile, busy |-> {},
            cands |-> {}, pick |-> NoMobile, from |-> NoClient,
            pending |-> FALSE, perm |-> FALSE]

TypeOK ==
    /\ main \in [Clients -> Mobiles]
    /\ row \in [Mobiles -> Row]
    /\ swapLease \in [Clients -> Lease]
    /\ probeLease \in [Mobiles -> Lease]
    /\ cache \in [Procs -> [Clients -> Mobiles]]
    /\ setups \in [Procs -> [Mobiles -> Clients \cup {NoClient}]]
    /\ cool \in [Procs -> SUBSET Clients]
    /\ pc \in [Runs -> States]
    /\ run \in [Runs -> Run]
    /\ starts \in Nat
    /\ crashes \in Nat

Init ==
    /\ main = InitMain
    /\ row = [m \in Mobiles |->
                 [client |-> InitOwner[m], status |-> "active", due |-> TRUE,
                  inUse |-> (m = InitMain[InitOwner[m]])]]
    /\ swapLease = [c \in Clients |-> NoLease]
    /\ probeLease = [m \in Mobiles |-> NoLease]
    /\ cache = [p \in Procs |-> InitMain]
    /\ setups = [p \in Procs |-> [m \in Mobiles |-> NoClient]]
    /\ cool = [p \in Procs |-> {}]
    /\ pc = [r \in Runs |-> "idle"]
    /\ run = [r \in Runs |-> NoRun]
    /\ starts = 0
    /\ crashes = 0

-----------------------------------------------------------------------------
(* Leases: an owner and a deadline that has or has not passed. *)

\* Mutant: the lease filter is gone.
FreeAlways(lease) == TRUE

Free(lease) == lease.owner = NoOwner \/ ~lease.live

HeldBy(r) == [owner |-> r, live |-> TRUE]

\* Mutant: a probe lease held by another run is taken over.
ProbeFreeAlways(m, r) == TRUE

\* leaseFreeFilter, or already ours: acquireProbeLease re-enters.
ProbeFree(m, r) == Free(probeLease[m]) \/ probeLease[m].owner = r

\* Releases match on the owner, so a lease somebody else took over stays.
Without(leases, r) ==
    [x \in DOMAIN leases |-> IF leases[x].owner = r THEN NoLease ELSE leases[x]]

Renewed(leases, r) ==
    [x \in DOMAIN leases |-> IF leases[x].owner = r THEN HeldBy(r) ELSE leases[x]]

\* The owner string of a dead run never comes back; only its deadline frees it.
Orphaned(leases, dead) ==
    [x \in DOMAIN leases |-> IF leases[x].owner \in dead
                              THEN [leases[x] EXCEPT !.owner = Gone]
                              ELSE leases[x]]

-----------------------------------------------------------------------------
(* Candidates. *)

OwnedByAnother(p, c, m) == setups[p][m] \notin {NoClient, c}

\* New and existing mobiles of every setup registered in process p.
SetupMobiles(p) ==
    {m \in Mobiles : \/ setups[p][m] # NoClient
                     \/ \E n \in Mobiles : /\ setups[p][n] # NoClient
                                           /\ run[<<p, setups[p][n]>>].old = m}

\* The client's own main and every other client's, as this process knows them.
Busy(p) == SetupMobiles(p) \cup {cache[p][d] : d \in Clients}

Spares(owner, busy) ==
    {m \in Mobiles : /\ row[m].client = owner
                     /\ row[m].status = "active"
                     /\ ~row[m].inUse
                     /\ m \notin busy}

Siblings(c) == {d \in Clients \ {c} : Persona[d] = Persona[c]}

SiblingSpares(p, c, d) ==
    {m \in Spares(d, run[<<p, c>>].busy \cup {cache[p][d]}) : row[m].due}

\* A lender keeps SparesAfter usable spares; only the rest may be tried.
Tryable(p, c) ==
    LET offers == {o \in Mobiles \X Siblings(c) : o[1] \in SiblingSpares(p, c, o[2])}
    IN  {T \in SUBSET offers :
            \A d \in Siblings(c) :
                LET n == Cardinality({o \in offers : o[2] = d})
                IN  Cardinality({t \in T : t[2] = d}) =
                        IF n > SparesAfter THEN n - SparesAfter ELSE 0}

\* What one scan may return: a set of <<account, owning client>>.
Scans(p, c) ==
    LET own == Spares(c, run[<<p, c>>].busy)
    IN  CASE run[<<p, c>>].stage = "due"     -> {{m \in own : row[m].due} \X {c}}
          [] run[<<p, c>>].stage = "future"  -> {{m \in own : ~row[m].due} \X {c}}
          [] run[<<p, c>>].stage = "limited" -> {own \X {c}}
          [] run[<<p, c>>].stage = "sibling" -> Tryable(p, c)

\* Mutant: candidates left unprobed are queried again before the run answers.
NextStagesRescan(r) == IF run[r].pending THEN {run[r].stage} ELSE {}

\* The stage after an empty one.  The degraded tiers (siblings, then the own
\* limited accounts, each switchable by configuration) open only when tier 1 has
\* no candidate left unprobed, and never for an ordinary request.
NextStages(r) ==
    LET now == run[r].stage
    IN  {s \in Stages :
            \/ s = "future" /\ now = "due" /\ run[r].kind = "dead"
            \/ /\ s \in {"sibling", "limited"}
               /\ now = "future" \/ (now = "due" /\ run[r].kind = "upgrade")
               /\ ~run[r].pending
            \/ s = "limited" /\ now = "sibling"}

-----------------------------------------------------------------------------
(* Row writes. *)

\* expireAccount: markAsInactive skips a row that already is inactive.
Expired(rows, m) ==
    IF rows[m].status = "inactive" THEN rows
    ELSE [rows EXCEPT ![m] = [@ EXCEPT !.status = "inactive", !.inUse = FALSE]]

\* Mutant: the stale reservation is not revoked.
PrimaryNotRevoked(c, new) ==
    [row EXCEPT ![new] = [@ EXCEPT !.client = c, !.inUse = TRUE, !.status = "active"]]

\* Mutant: the reservation is revoked after it was assigned.
PrimaryRevokedLast(c, new) ==
    [m \in Mobiles |->
        IF row[m].client = c THEN [row[m] EXCEPT !.inUse = FALSE]
        ELSE IF m = new THEN [row[m] EXCEPT !.client = c, !.inUse = TRUE, !.status = "active"]
        ELSE row[m]]

\* setPrimaryInUse (and reassignClientId before it, for a borrowed spare).
PrimaryInUse(c, new) ==
    [m \in Mobiles |->
        IF m = new THEN [row[m] EXCEPT !.client = c, !.inUse = TRUE, !.status = "active"]
        ELSE IF row[m].client = c THEN [row[m] EXCEPT !.inUse = FALSE]
        ELSE row[m]]

\* Every guard of the transaction: the current-mobile guard, the unique index
\* on clients.mobile, reassignClientId's filter and setPrimaryInUse's check.
CanCommit(p, c) ==
    LET r == run[<<p, c>>]
    IN  /\ main[c] = r.old
        /\ \A d \in Clients \ {c} : main[d] # r.pick
        /\ row[r.pick].client = r.from
        /\ r.from # c => row[r.pick].status = "active" /\ ~row[r.pick].inUse

IsLiveMain(m) == \E c \in Clients : main[c] = m

-----------------------------------------------------------------------------
(* Selection. *)

Goto(r, state) == pc' = [pc EXCEPT ![r] = state]

Put(r, data) == run' = [run EXCEPT ![r] = data]

\* runSetup and runLeasedSetup: cooldown, one run per client and process, lease.
StartSetup(p, c, k) ==
    /\ starts < MaxStarts
    /\ pc[<<p, c>>] = "idle"
    /\ c \notin cool[p]
    /\ Free(swapLease[c])
    /\ swapLease' = [swapLease EXCEPT ![c] = HeldBy(<<p, c>>)]
    /\ Put(<<p, c>>, [NoRun EXCEPT !.kind = k])
    /\ Goto(<<p, c>>, "leased")
    /\ starts' = starts + 1
    /\ UNCHANGED <<main, row, probeLease, local, crashes>>

\* The existing main comes from this process's cache, and the mobiles that may
\* not be candidates are collected once, before the first query.
LoadClient(p, c) ==
    /\ pc[<<p, c>>] = "leased"
    /\ Put(<<p, c>>, [run[<<p, c>>] EXCEPT !.old = cache[p][c], !.busy = Busy(p)])
    /\ Goto(<<p, c>>, "scan")
    /\ UNCHANGED <<db, local, bound>>

\* One candidate query; its rows are a snapshot from here on.
Scan(p, c) ==
    /\ pc[<<p, c>>] = "scan"
    /\ \E C \in Scans(p, c) : Put(<<p, c>>, [run[<<p, c>>] EXCEPT !.cands = C])
    /\ Goto(<<p, c>>, "choose")
    /\ UNCHANGED <<db, local, bound>>

\* The row is leased before anything can connect the account.
TakeProbeLease(p, c) ==
    /\ pc[<<p, c>>] = "choose"
    /\ \E cand \in run[<<p, c>>].cands :
          /\ ~OwnedByAnother(p, c, cand[1])
          /\ ProbeFree(cand[1], <<p, c>>)
          /\ probeLease' = [probeLease EXCEPT ![cand[1]] = HeldBy(<<p, c>>)]
          /\ Put(<<p, c>>, [run[<<p, c>>] EXCEPT !.cands = @ \ {cand},
                                                 !.pick = cand[1],
                                                 !.from = cand[2]])
    /\ Goto(<<p, c>>, "probe")
    /\ UNCHANGED <<main, row, swapLease, local, bound>>

\* A parked episode, the main's own session, another client's setup in this
\* process or a failed lease write; or another run's lease: left unprobed.
SkipCandidate(p, c) ==
    /\ pc[<<p, c>>] = "choose"
    /\ \E cand \in run[<<p, c>>].cands, leased \in BOOLEAN :
          /\ leased => ~OwnedByAnother(p, c, cand[1]) /\ ~ProbeFree(cand[1], <<p, c>>)
          /\ Put(<<p, c>>, [run[<<p, c>>] EXCEPT !.cands = @ \ {cand},
                                                 !.pending = @ \/ leased])
    /\ UNCHANGED <<db, local, pc, bound>>

\* No distinct backup, unsafe, busy, unreachable or over budget; a dated limit
\* moves availableDate out.  The lease is given back at once.
ProbeRejects(p, c) ==
    /\ pc[<<p, c>>] = "probe"
    /\ \E later, unprobed \in BOOLEAN :
          /\ row' = IF later THEN [row EXCEPT ![run[<<p, c>>].pick].due = FALSE] ELSE row
          /\ Put(<<p, c>>, [run[<<p, c>>] EXCEPT !.pick = NoMobile,
                                                 !.from = NoClient,
                                                 !.pending = @ \/ unprobed])
    /\ probeLease' = IF probeLease[run[<<p, c>>].pick].owner = <<p, c>>
                     THEN [probeLease EXCEPT ![run[<<p, c>>].pick] = NoLease]
                     ELSE probeLease
    /\ Goto(<<p, c>>, "choose")
    /\ UNCHANGED <<main, swapLease, local, bound>>

\* Only the limited tier takes an account whose dated limit was just found.
ProbeAccepts(p, c) ==
    /\ pc[<<p, c>>] = "probe"
    /\ ~OwnedByAnother(p, c, run[<<p, c>>].pick)
    /\ \E later \in BOOLEAN :
          /\ later => run[<<p, c>>].stage = "limited"
          /\ row' = IF later THEN [row EXCEPT ![run[<<p, c>>].pick].due = FALSE] ELSE row
    /\ Put(<<p, c>>, [run[<<p, c>>] EXCEPT !.cands = {}, !.busy = {}])
    /\ Goto(<<p, c>>, "picked")
    /\ UNCHANGED <<main, swapLease, probeLease, local, bound>>

NextStage(p, c) ==
    /\ pc[<<p, c>>] = "choose"
    /\ run[<<p, c>>].cands = {}
    /\ \E s \in NextStages(<<p, c>>) : Put(<<p, c>>, [run[<<p, c>>] EXCEPT !.stage = s])
    /\ Goto(<<p, c>>, "scan")
    /\ UNCHANGED <<db, local, bound>>

\* no_candidate; a permanent reason retires the account the run believes is
\* the main.  A dead request always tries the future candidates first; the
\* tiers after them end where the configuration or the probe budget ends.
NoCandidate(p, c) ==
    /\ pc[<<p, c>>] = "choose"
    /\ run[<<p, c>>].cands = {}
    /\ run[<<p, c>>].kind = "dead" => run[<<p, c>>].stage # "due"
    /\ row' = IF run[<<p, c>>].kind = "dead" THEN Expired(row, run[<<p, c>>].old) ELSE row
    /\ Goto(<<p, c>>, "finish")
    /\ UNCHANGED <<main, swapLease, probeLease, local, run, bound>>

\* The last check and the registration happen without an await between them.
Register(p, c) ==
    /\ pc[<<p, c>>] = "picked"
    /\ \/ /\ OwnedByAnother(p, c, run[<<p, c>>].pick)
          /\ Goto(<<p, c>>, "finish")
          /\ UNCHANGED <<setups, cool>>
       \/ /\ ~OwnedByAnother(p, c, run[<<p, c>>].pick)
          /\ setups' = [setups EXCEPT ![p][run[<<p, c>>].pick] = c]
          /\ cool' = [cool EXCEPT ![p] = @ \cup {c}]
          /\ Goto(<<p, c>>, "cutover")
    /\ UNCHANGED <<db, cache, run, bound>>

-----------------------------------------------------------------------------
(* Cutover. *)

Unregistered(p, c) ==
    IF run[<<p, c>>].pick # NoMobile /\ setups[p][run[<<p, c>>].pick] = c
    THEN [setups EXCEPT ![p][run[<<p, c>>].pick] = NoClient]
    ELSE setups

\* The first connection of the new account fails, before updateClientSession.
ConnectFails(p, c) ==
    /\ pc[<<p, c>>] = "cutover"
    /\ \E perm \in BOOLEAN : Put(<<p, c>>, [run[<<p, c>>] EXCEPT !.perm = perm])
    /\ Goto(<<p, c>>, "failing")
    /\ UNCHANGED <<db, local, bound>>

\* updateClientSession fails before the commit: a permanent error expires the
\* new account on the spot, whoever runs on it.
SessionUpdateFails(p, c) ==
    /\ pc[<<p, c>>] = "cutover"
    /\ \E perm \in BOOLEAN :
          /\ Put(<<p, c>>, [run[<<p, c>>] EXCEPT !.perm = perm])
          /\ row' = IF perm THEN Expired(row, run[<<p, c>>].pick) ELSE row
    /\ setups' \in {setups, Unregistered(p, c)}
    /\ Goto(<<p, c>>, "failing")
    /\ UNCHANGED <<main, swapLease, probeLease, cache, cool, bound>>

\* The transaction of commitClientCutover.
CommitCutover(p, c) ==
    /\ pc[<<p, c>>] = "cutover"
    /\ CanCommit(p, c)
    /\ main' = [main EXCEPT ![c] = run[<<p, c>>].pick]
    /\ row' = PrimaryInUse(c, run[<<p, c>>].pick)
    /\ cache' = [cache EXCEPT ![p][c] = run[<<p, c>>].pick]
    /\ Goto(<<p, c>>, "replaced")
    /\ UNCHANGED <<swapLease, probeLease, setups, cool, run, bound>>

\* A guard failed: everything rolls back and the error is a transient one.
CommitAborts(p, c) ==
    /\ pc[<<p, c>>] = "cutover"
    /\ ~CanCommit(p, c)
    /\ setups' = Unregistered(p, c)
    /\ Goto(<<p, c>>, "failing")
    /\ UNCHANGED <<db, cache, cool, run, bound>>

\* Mutant: the failure path does not ask who runs on the account.
CheckNoOwner(p, c) ==
    /\ pc[<<p, c>>] = "failing"
    /\ Goto(<<p, c>>, "penalise")
    /\ UNCHANGED <<db, local, run, bound>>

\* The failure path asks who runs on the new account with a fresh read ...
CheckOwner(p, c) ==
    /\ pc[<<p, c>>] = "failing"
    /\ Goto(<<p, c>>, IF IsLiveMain(run[<<p, c>>].pick) THEN "finish" ELSE "penalise")
    /\ UNCHANGED <<db, local, run, bound>>

\* ... and only an account nobody runs on is expired or pushed out.
Penalise(p, c) ==
    /\ pc[<<p, c>>] = "penalise"
    /\ row' = IF run[<<p, c>>].perm THEN Expired(row, run[<<p, c>>].pick)
              ELSE [row EXCEPT ![run[<<p, c>>].pick].due = FALSE]
    /\ Goto(<<p, c>>, "finish")
    /\ UNCHANGED <<main, swapLease, probeLease, local, run, bound>>

-----------------------------------------------------------------------------
(* handleReplacedClient: after the commit and outside its transaction. *)

\* A permanent reason, a missing users doc, or a permanent error on the way.
RetireReplaced(p, c) ==
    /\ pc[<<p, c>>] = "replaced"
    /\ row' = Expired(row, run[<<p, c>>].old)
    /\ Goto(<<p, c>>, "finish")
    /\ UNCHANGED <<main, swapLease, probeLease, local, run, bound>>

\* returnOldClientToBufferPool: the row is written whole; days > 35 is inactive.
ReturnReplaced(p, c) ==
    /\ pc[<<p, c>>] = "replaced"
    /\ run[<<p, c>>].kind # "dead"
    /\ \E s \in {"active", "inactive"}, d \in BOOLEAN :
          row' = [row EXCEPT ![run[<<p, c>>].old] =
                     [client |-> c, inUse |-> FALSE, status |-> s, due |-> d]]
    /\ Goto(<<p, c>>, "finish")
    /\ UNCHANGED <<main, swapLease, probeLease, local, run, bound>>

\* The return failed for now: release the reservation.
ReleaseReplaced(p, c) ==
    /\ pc[<<p, c>>] = "replaced"
    /\ run[<<p, c>>].kind # "dead"
    /\ \E d \in BOOLEAN :
          row' = [row EXCEPT ![run[<<p, c>>].old] =
                     [@ EXCEPT !.inUse = FALSE, !.status = "active", !.due = d]]
    /\ Goto(<<p, c>>, "finish")
    /\ UNCHANGED <<main, swapLease, probeLease, local, run, bound>>

\* archiveOld = false: no return, the account is put away inactive.
SkipReturn(p, c) ==
    /\ pc[<<p, c>>] = "replaced"
    /\ run[<<p, c>>].kind # "dead"
    /\ row' = [row EXCEPT ![run[<<p, c>>].old] =
                  [@ EXCEPT !.inUse = FALSE, !.status = "inactive"]]
    /\ Goto(<<p, c>>, "finish")
    /\ UNCHANGED <<main, swapLease, probeLease, local, run, bound>>

\* Every write of the return failed, or an error after the commit reached
\* setupClient's own failure path.
ReturnFails(p, c) ==
    /\ pc[<<p, c>>] = "replaced"
    /\ \E s \in {"finish", "failing"} : Goto(<<p, c>>, s)
    /\ UNCHANGED <<db, local, run, bound>>

\* The finally blocks: unregister, then give the leases back (or fail to, and
\* leave them to their deadlines).
Finish(p, c) ==
    /\ pc[<<p, c>>] = "finish"
    /\ setups' = Unregistered(p, c)
    /\ \/ /\ swapLease' = Without(swapLease, <<p, c>>)
          /\ probeLease' = Without(probeLease, <<p, c>>)
       \/ /\ swapLease' = Orphaned(swapLease, {<<p, c>>})
          /\ probeLease' = Orphaned(probeLease, {<<p, c>>})
    /\ Put(<<p, c>>, NoRun)
    /\ Goto(<<p, c>>, "idle")
    /\ UNCHANGED <<main, row, cache, cool, bound>>

-----------------------------------------------------------------------------
(* Timers, crashes and the rest of the system. *)

\* renewSetupLeases, every SWAP_LEASE_RENEW_MS while the run lasts.
RenewLeases(p, c) ==
    /\ pc[<<p, c>>] # "idle"
    /\ swapLease' = Renewed(swapLease, <<p, c>>)
    /\ probeLease' = Renewed(probeLease, <<p, c>>)
    /\ <<swapLease, probeLease>>' # <<swapLease, probeLease>>
    /\ UNCHANGED <<main, row, local, pc, run, bound>>

\* Mutant: leases have no deadline, only their owner frees them.
MayExpireNever(lease) == FALSE

\* A deadline passes: always possible for a dead holder, for a running one only
\* when its renewals do not get through.
MayExpire(lease) ==
    lease.live /\ lease.owner # NoOwner /\ (lease.owner = Gone \/ RenewalFails)

SwapLeaseExpires(c) ==
    /\ MayExpire(swapLease[c])
    /\ swapLease' = [swapLease EXCEPT ![c].live = FALSE]
    /\ UNCHANGED <<main, row, probeLease, local, pc, run, bound>>

ProbeLeaseExpires(m) ==
    /\ MayExpire(probeLease[m])
    /\ probeLease' = [probeLease EXCEPT ![m].live = FALSE]
    /\ UNCHANGED <<main, row, swapLease, local, pc, run, bound>>

\* A process dies and restarts: its runs, registrations and cooldowns are gone,
\* its cache is read again.
Crash(p) ==
    /\ crashes < MaxCrashes
    /\ crashes' = crashes + 1
    /\ swapLease' = Orphaned(swapLease, {p} \X Clients)
    /\ probeLease' = Orphaned(probeLease, {p} \X Clients)
    /\ cache' = [cache EXCEPT ![p] = main]
    /\ setups' = [setups EXCEPT ![p] = [m \in Mobiles |-> NoClient]]
    /\ cool' = [cool EXCEPT ![p] = {}]
    /\ pc' = [r \in Runs |-> IF r[1] = p THEN "idle" ELSE pc[r]]
    /\ run' = [r \in Runs |-> IF r[1] = p THEN NoRun ELSE run[r]]
    /\ UNCHANGED <<main, row, starts>>

CooldownEnds(p, c) ==
    /\ c \in cool[p]
    /\ cool' = [cool EXCEPT ![p] = @ \ {c}]
    /\ UNCHANGED <<db, cache, setups, pc, run, bound>>

\* refreshCacheFromDatabase: every 5 minutes, or when the cache is too old.
RefreshCache(p) ==
    /\ cache[p] # main
    /\ cache' = [cache EXCEPT ![p] = main]
    /\ UNCHANGED <<db, setups, cool, pc, run, bound>>

\* Another flow (a connection error, a health check) expires an account.
ExpireElsewhere(m) ==
    /\ m \in Frail
    /\ row[m].status = "active"
    /\ row' = Expired(row, m)
    /\ UNCHANGED <<main, swapLease, probeLease, local, pc, run, bound>>

\* availableDate arrives.
BecomesDue(m) ==
    /\ ~row[m].due
    /\ row' = [row EXCEPT ![m].due = TRUE]
    /\ UNCHANGED <<main, swapLease, probeLease, local, pc, run, bound>>

SetupStep(p, c) ==
    \/ LoadClient(p, c)       \/ Scan(p, c)
    \/ TakeProbeLease(p, c)   \/ SkipCandidate(p, c)
    \/ ProbeRejects(p, c)     \/ ProbeAccepts(p, c)       \/ NextStage(p, c)
    \/ NoCandidate(p, c)      \/ Register(p, c)           \/ ConnectFails(p, c)
    \/ SessionUpdateFails(p, c) \/ CommitCutover(p, c)    \/ CommitAborts(p, c)
    \/ CheckOwner(p, c)       \/ Penalise(p, c)           \/ RetireReplaced(p, c)
    \/ ReturnReplaced(p, c)   \/ ReleaseReplaced(p, c)    \/ SkipReturn(p, c)
    \/ ReturnFails(p, c)      \/ Finish(p, c)

Next ==
    \/ \E p \in Procs, c \in Clients :
          \/ \E k \in Kinds : StartSetup(p, c, k)
          \/ SetupStep(p, c)
          \/ RenewLeases(p, c)
          \/ CooldownEnds(p, c)
    \/ \E p \in Procs : Crash(p) \/ RefreshCache(p)
    \/ \E c \in Clients : SwapLeaseExpires(c)
    \/ \E m \in Mobiles : ProbeLeaseExpires(m) \/ ExpireElsewhere(m) \/ BecomesDue(m)

Spec == Init /\ [][Next]_vars

\* Every external call of a run is bounded by a timeout, so a run keeps moving;
\* a lease deadline passes by itself.
FairSpec ==
    /\ Spec
    /\ \A p \in Procs, c \in Clients : WF_vars(SetupStep(p, c))
    /\ \A c \in Clients : WF_vars(SwapLeaseExpires(c))
    /\ \A m \in Mobiles : WF_vars(ProbeLeaseExpires(m))

-----------------------------------------------------------------------------
(* Properties. *)

Active(r)  == pc[r] # "idle"
InHand     == {"probe", "picked", "cutover", "replaced", "failing", "penalise"}
Picking(r) == pc[r] \in InHand

\* From its first probe to its last write a run has an account in hand; no
\* two clients run on one account.
HasPick       == \A r \in Runs : Picking(r) => run[r].pick \in Mobiles
MainsDistinct == \A c, d \in Clients : main[c] = main[d] => c = d

\* While renewals get through: a run keeps its swap lease and the probe lease of
\* the account in its hand, and one about to penalise it penalises no main.
LeaseHeld   == \A p \in Procs, c \in Clients :
                   Active(<<p, c>>) => swapLease[c] = HeldBy(<<p, c>>)
PickLeased  == \A r \in Runs : Picking(r) => probeLease[run[r].pick] = HeldBy(r)
PenaltySafe == \A r \in Runs : pc[r] = "penalise" => ~IsLiveMain(run[r].pick)

\* Two setup runs of one client never overlap, whichever processes they are in:
\* the swap lease of runLeasedSetup, renewed for as long as the run lasts.
LeaseMutex ==
    \A p, q \in Procs, c \in Clients :
        Active(<<p, c>>) /\ Active(<<q, c>>) => p = q

\* Two runs never probe, connect or commit one account at once, for whatever
\* clients and processes (findSafeSetupBufferCandidate and acquireProbeLease).
PickExclusive ==
    \A r, s \in Runs :
        /\ Picking(r) /\ Picking(s)
        /\ run[r].pick = run[s].pick
        => r = s

\* bufferClients.inUse never names another account than clients.mobile does,
\* crashes and failed pool returns included (the promise of commitClientCutover).
PrimaryAgrees ==
    \A m \in Mobiles : row[m].inUse => main[row[m].client] = m

\* The converse: the live main of a client keeps its reservation for as long as
\* it is active, so no selection can hand it out again.  It does not survive
\* lending between siblings (README, section 3).
MainHeld ==
    \A c \in Clients :
        row[main[c]].status = "active" =>
            row[main[c]].client = c /\ row[main[c]].inUse

\* A failing setup never expires or delays an account some client runs on
\* (updateClientSession's and handleSetupClient's error paths).
FailureSparesMain ==
    [][\A r \in Runs :
          /\ pc[r] \in {"cutover", "failing", "penalise"}
          /\ pc'[r] \in {"failing", "penalise", "finish"} \ {pc[r]}
          => \A c \in Clients : row'[main[c]] = row[main[c]]]_vars

\* The guarded part of that path: no account that is a main at the moment of
\* the write is penalised, although its owner was read a step earlier.
PenaltySparesMain ==
    [][\A r \in Runs :
          pc[r] = "penalise" /\ pc'[r] # "penalise" =>
              \A c \in Clients : row'[main[c]] = row[main[c]]]_vars

\* A lease is always given back or runs out, even when its holder dies: no
\* client is locked out of being swapped for good.
LeaseReturns ==
    \A c \in Clients : []<>Free(swapLease[c])

\* Every setup run ends, whatever its candidates, probes and connections do.
SetupEnds ==
    \A r \in Runs : Active(r) ~> ~Active(r)

\* A lease names a run that still goes on, or nobody that could renew it: what a
\* run leases it gives back, and what a dead run left is only a deadline.
LeaseOwned ==
    /\ \A c \in Clients :
          swapLease[c].owner \in Runs =>
              swapLease[c].owner[2] = c /\ Active(swapLease[c].owner)
    /\ \A m \in Mobiles :
          probeLease[m].owner \in Runs => Active(probeLease[m].owner)

\* How far a run is: the tiers of findSafeSetupBufferCandidate in their order,
\* the states of runLeasedSetup in theirs.
Tier  == [due |-> 0, future |-> 1, sibling |-> 2, limited |-> 3]
Place == [leased |-> 0, scan |-> 1, choose |-> 1, probe |-> 1, picked |-> 2,
          cutover |-> 3, replaced |-> 4, failing |-> 5, penalise |-> 6,
          finish |-> 7, idle |-> 8]

\* A selection opens a later tier, has its query answered, uses up a candidate,
\* or has its probe answered.
SelectionAdvances(r) ==
    \/ Tier[run'[r].stage] > Tier[run[r].stage]
    \/ /\ run'[r].stage = run[r].stage
       /\ \/ pc[r] = "scan" /\ pc'[r] = "choose"
          \/ /\ pc[r] = "choose" /\ pc'[r] \in {"choose", "probe"}
             /\ run'[r].cands \subseteq run[r].cands
             /\ run'[r].cands # run[r].cands
          \/ /\ pc[r] = "probe" /\ pc'[r] = "choose"
             /\ run'[r].cands = run[r].cands

\* Every step of a setup run brings it nearer to its end: no tier is queried
\* twice, no candidate is tried twice, and nothing before the step it is in is
\* done again, whatever is probed, refused, cut over or penalised.
SetupAdvances ==
    [][\A r \in Runs :
          Active(r) /\ (pc'[r] # pc[r] \/ run'[r] # run[r]) =>
              \/ Place[pc'[r]] > Place[pc[r]]
              \/ Place[pc'[r]] = Place[pc[r]] /\ SelectionAdvances(r)]_vars

\* Whatever the saga does around it, the main of a client and the reservation
\* of its account change together (commitClientCutover's transaction).
Assignment == INSTANCE MainAssignment WITH held <- {m \in Mobiles : row[m].inUse}

ImplementsAssignment == Assignment!Spec
=============================================================================
