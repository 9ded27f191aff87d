-------------------------- MODULE SessionCreation --------------------------
(***************************************************************************)
(* SessionService and SessionManager (session-manager/session.service.ts)  *)
(* with the ClientRegistry (client-registry.ts): a request for a session   *)
(* string of an account.  Up to four strategies are tried in turn, and     *)
(* each may take minutes: it connects a stored string, waits for the lock  *)
(* of the mobile, logs in with the code it reads from the stored session,  *)
(* or has the connection manager log in.                                   *)
(*                                                                         *)
(* The module is one mobile in one process: locks, placeholders and rate   *)
(* limits are maps keyed by the mobile, and the services are singletons.   *)
(* Calls are the requests under way at once; an answered one may come      *)
(* again.                                                                  *)
(***************************************************************************)
EXTENDS Naturals

CONSTANTS
    Calls,        \* requests that may be under way at once
    NoCall,       \* nobody holds the lock
    MaxPerHour,   \* MAX_SESSIONS_PER_HOUR
    MaxAttempts,  \* maxRetries of a given session
    MaxStored     \* stored strings that one read returns, at most

ASSUME NoCallIsNone == NoCall \notin Calls
ASSUME Limits == /\ MaxPerHour \in Nat \ {0}
                 /\ MaxAttempts \in Nat \ {0}
                 /\ MaxStored \in Nat

VARIABLES
    lock,      \* locks.get(mobile): the call whose lockId it holds
    lapsed,    \* that lock is older than LOCK_EXPIRY
    entry,     \* clients.get(mobile): the placeholder of a creation
    window,    \* rateLimitMap.get(mobile)
    parked,    \* the parked responder has an episode or a lease
    call,      \* each request's position and local variables
    exposed,   \* history: creations whose placeholder was cleaned away
    unparked   \* history: requests that met a moment without an episode
               \* since they last let go of a stored string

vars == <<lock, lapsed, entry, window, parked, call, exposed, unparked>>

(* The await at which a request stands.                                    *)
Places == {"idle", "extract", "guard", "cleared", "validate", "wait",
           "create", "borrow", "list", "query", "probe", "save"}

(* The strategy it stands in: the entry of createSession, priorities 1, 2  *)
(* and 3, and the oldest-session lookup with its candidates.               *)
Plans == {"entry", "given", "manager", "audit", "lookup", "candidate"}

CallRecords ==
    [at : Places, plan : Plans,
     given : BOOLEAN,             \* options.oldSession
     left : 0 .. MaxStored,       \* stored strings not given up yet
     tries : 0 .. MaxAttempts]    \* attempt

Idle == [at |-> "idle", plan |-> "entry", given |-> FALSE, left |-> 0,
         tries |-> 0]

(* A stored string is connected, or about to be used by the same strategy. *)
OnString == {"validate", "wait", "create", "probe"}

Init ==
    /\ lock = NoCall
    /\ lapsed = FALSE
    /\ entry = "none"
    /\ window = [count |-> 0, over |-> FALSE]
    /\ parked \in BOOLEAN
    /\ call = [c \in Calls |-> Idle]
    /\ exposed = {}
    /\ unparked = IF parked THEN {} ELSE Calls

Becomes(c, r) == call' = [call EXCEPT ![c] = r]
Moves(c, to) == Becomes(c, [call[c] EXCEPT !.at = to])
Guarded(c, plan) == Becomes(c, [call[c] EXCEPT !.at = "guard", !.plan = plan])

(* What the next guard has to cover begins when a string is let go.        *)
LetsGo(c) == unparked' = IF parked THEN unparked \ {c} ELSE unparked

(* Mutant: a placeholder, which has no client yet, does not count.          *)
InProgressIgnored == FALSE

(* checkExistingSession: nothing but placeholders is ever registered.      *)
InProgress == entry # "none"

(* checkRateLimit and peekRateLimit: a window that is over does not count. *)
RateLimited == ~window.over /\ window.count >= MaxPerHour
Billed == [count |-> IF window.over THEN 1 ELSE window.count + 1,
           over |-> FALSE]

-----------------------------------------------------------------------------
(* The requests arrive.                                                    *)

(* createSession; without a mobile it first asks the given session for it. *)
CreateArrives(c) ==
    /\ call[c].at = "idle"
    /\ \/ \E g \in BOOLEAN :
              Becomes(c, [Idle EXCEPT !.at = "guard", !.given = g])
       \/ Becomes(c, [Idle EXCEPT !.at = "extract", !.given = TRUE])
    /\ LetsGo(c)
    /\ UNCHANGED <<lock, lapsed, entry, window, parked, exposed>>

(* getOldestSessionOrCreate, unless the rate limit refuses it.             *)
OldestArrives(c) ==
    /\ call[c].at = "idle"
    /\ ~RateLimited
    /\ Becomes(c, [Idle EXCEPT !.at = "guard", !.plan = "lookup"])
    /\ LetsGo(c)
    /\ UNCHANGED <<lock, lapsed, entry, window, parked, exposed>>

(* extractMobileFromSession, which connects the given session: it may be   *)
(* this mobile's or not.                                                   *)
Extracted(c) ==
    /\ call[c].at = "extract"
    /\ Moves(c, "guard") \/ Becomes(c, Idle)
    /\ LetsGo(c)
    /\ UNCHANGED <<lock, lapsed, entry, window, parked, exposed>>

(* parkedRefusal, checkParkedSession: the verdict is of one moment.        *)
GuardClears(c) ==
    /\ call[c].at = "guard"
    /\ ~parked
    /\ Moves(c, "cleared")
    /\ UNCHANGED <<lock, lapsed, entry, window, parked, exposed, unparked>>

(* Busy, or the read failed.                                               *)
GuardRefuses(c) ==
    /\ call[c].at = "guard"
    /\ Becomes(c, Idle)
    /\ UNCHANGED <<lock, lapsed, entry, window, parked, exposed, unparked>>

-----------------------------------------------------------------------------
(* createSession: the strategies in turn.                                  *)

(* Mutant: the guard is asked before the first audit session only.         *)
TriesNextUnguarded(c) ==
    CASE call[c].plan = "given" -> Guarded(c, "manager")
      [] call[c].plan = "manager" -> Moves(c, "list")
      [] OTHER -> IF call[c].left > 1
                  THEN Becomes(c, [call[c] EXCEPT !.at = "cleared",
                                                  !.left = @ - 1])
                  ELSE Becomes(c, Idle)

(* The strategy has failed; the service tries the next one.                *)
TriesNext(c) ==
    CASE call[c].plan = "given" -> Guarded(c, "manager")
      [] call[c].plan = "manager" -> Moves(c, "list")
      [] OTHER -> IF call[c].left > 1
                  THEN Becomes(c, [call[c] EXCEPT !.at = "guard",
                                                  !.left = @ - 1])
                  ELSE Becomes(c, Idle)

(* SessionManager.createSession: refused while a creation is in progress,  *)
(* else on to the strategy's first await.                                  *)
Starts(c, plan, first) ==
    IF InProgress
    THEN Guarded(c, "manager")
    ELSE Becomes(c, [call[c] EXCEPT !.at = first, !.plan = plan])

(* The entry's guard has cleared the request: it is billed, and priority 1 *)
(* is started or, without a given session, priority 2's guard.             *)
Admitted(c) ==
    /\ call[c].at = "cleared" /\ call[c].plan = "entry"
    /\ IF RateLimited
       THEN Becomes(c, Idle) /\ window' = window
       ELSE /\ window' = Billed
            /\ IF call[c].given
               THEN Starts(c, "given", "validate")
               ELSE Guarded(c, "manager")
    /\ UNCHANGED <<lock, lapsed, entry, parked, exposed, unparked>>

(* Priority 2, and an audit session of priority 3.                         *)
ManagerStarts(c) ==
    /\ call[c].at = "cleared" /\ call[c].plan = "manager"
    /\ IF InProgress THEN TriesNext(c) ELSE Moves(c, "borrow")
    /\ UNCHANGED <<lock, lapsed, entry, window, parked, exposed, unparked>>

AuditStarts(c) ==
    /\ call[c].at = "cleared" /\ call[c].plan = "audit"
    /\ IF InProgress THEN TriesNext(c) ELSE Moves(c, "validate")
    /\ UNCHANGED <<lock, lapsed, entry, window, parked, exposed, unparked>>

(* tryAuditSessions: the newest two of the sessions on record.             *)
AuditListed(c) ==
    /\ call[c].at = "list"
    /\ \/ Becomes(c, Idle)
       \/ \E n \in 1 .. MaxStored :
              Becomes(c, [call[c] EXCEPT !.at = "guard", !.plan = "audit",
                                         !.left = IF n > 2 THEN 2 ELSE n])
    /\ UNCHANGED <<lock, lapsed, entry, window, parked, exposed, unparked>>

(* validateSession; a session that fails it leaves the existing manager.   *)
Validated(c) ==
    /\ call[c].at = "validate"
    /\ \/ Moves(c, "wait") /\ UNCHANGED unparked
       \/ Moves(c, "borrow") /\ LetsGo(c)
    /\ UNCHANGED <<lock, lapsed, entry, window, parked, exposed>>

LockFree == lock = NoCall \/ lapsed

(* acquireLock and markClientCreating, with no other's step between them.  *)
TakesLock(c) ==
    /\ call[c].at = "wait"
    /\ LockFree
    /\ lock' = c /\ lapsed' = FALSE
    /\ entry' = "fresh"
    /\ Becomes(c, [call[c] EXCEPT !.at = "create", !.tries = 1])
    /\ UNCHANGED <<window, parked, exposed, unparked>>

(* waitForLock throws; the existing manager is the next strategy.          *)
WaitTimesOut(c) ==
    /\ call[c].at = "wait"
    /\ Moves(c, "borrow")
    /\ LetsGo(c)
    /\ UNCHANGED <<lock, lapsed, entry, window, parked, exposed>>

Attempts(c) == IF call[c].plan = "audit" THEN 1 ELSE MaxAttempts

(* performSessionCreation fails in a way that is worth another attempt.    *)
AttemptFails(c) ==
    /\ call[c].at = "create"
    /\ call[c].tries < Attempts(c)
    /\ Becomes(c, [call[c] EXCEPT !.tries = @ + 1])
    /\ UNCHANGED <<lock, lapsed, entry, window, parked, exposed, unparked>>

(* The finally block of createFromOldSession: removeClient and releaseLock *)
(* do nothing for a lock that is no longer the call's.                     *)
Cleans(c) ==
    /\ lock' = IF lock = c THEN NoCall ELSE lock
    /\ lapsed' = IF lock = c THEN FALSE ELSE lapsed
    /\ entry' = IF lock = c THEN "none" ELSE entry
    /\ exposed' = exposed \ {c}

CreationEnds(c) ==
    /\ call[c].at = "create"
    /\ \E to \in {"save", "borrow"} :
           Becomes(c, [call[c] EXCEPT !.at = to, !.tries = 0])
    /\ Cleans(c)
    /\ LetsGo(c)
    /\ UNCHANGED <<window, parked>>

(* createFromExistingManager: neither lock nor placeholder.                *)
BorrowEnds(c) ==
    /\ call[c].at = "borrow"
    /\ Moves(c, "save") \/ TriesNext(c)
    /\ UNCHANGED <<lock, lapsed, entry, window, parked, exposed, unparked>>

(* updateAuditOnSuccess; a failure is logged.                              *)
Saved(c) ==
    /\ call[c].at = "save"
    /\ Becomes(c, Idle)
    /\ UNCHANGED <<lock, lapsed, entry, window, parked, exposed, unparked>>

-----------------------------------------------------------------------------
(* getOldestSessionOrCreate: the sessions on record, the oldest first.     *)

LookUp(c) ==
    /\ call[c].at = "cleared" /\ call[c].plan = "lookup"
    /\ Moves(c, "query")
    /\ UNCHANGED <<lock, lapsed, entry, window, parked, exposed, unparked>>

(* The request ends, or creates a session if that is allowed.              *)
FallsBack(c) ==
    \/ Becomes(c, Idle)
    \/ Becomes(c, [Idle EXCEPT !.at = "guard"])

Queried(c) ==
    /\ call[c].at = "query"
    /\ \/ FallsBack(c)
       \/ \E n \in 1 .. MaxStored :
              Becomes(c, [call[c] EXCEPT !.at = "guard", !.left = n,
                                         !.plan = "candidate"])
    /\ UNCHANGED <<lock, lapsed, entry, window, parked, exposed, unparked>>

ProbeStarts(c) ==
    /\ call[c].at = "cleared" /\ call[c].plan = "candidate"
    /\ Moves(c, "probe")
    /\ UNCHANGED <<lock, lapsed, entry, window, parked, exposed, unparked>>

(* validateSession of a candidate: it is live, or it is revoked if need be *)
(* and the next one is tried; none is left, or the revocation fails.       *)
Probed(c) ==
    /\ call[c].at = "probe"
    /\ \/ Moves(c, "save")
       \/ /\ call[c].left > 1
          /\ Becomes(c, [call[c] EXCEPT !.at = "guard", !.left = @ - 1])
       \/ FallsBack(c)
    /\ LetsGo(c)
    /\ UNCHANGED <<lock, lapsed, entry, window, parked, exposed>>

-----------------------------------------------------------------------------
(* Time, and the parked responder.                                         *)

(* Two minutes pass.  A request that had passed the check before the lock  *)
(* was taken has validated (45 s at most) and waited (30 s) by then.       *)
LockLapses ==
    /\ lock # NoCall /\ ~lapsed
    /\ \A c \in Calls : call[c].at \notin {"validate", "wait"}
    /\ lapsed' = TRUE
    /\ UNCHANGED <<lock, entry, window, parked, call, exposed, unparked>>

(* cleanupExpiredLocks, every 30 seconds.                                  *)
LocksSwept ==
    /\ lapsed
    /\ lock' = NoCall /\ lapsed' = FALSE
    /\ UNCHANGED <<entry, window, parked, call, exposed, unparked>>

(* Five minutes pass: more than the lock lasts that was taken with it.     *)
EntryAges ==
    /\ entry = "fresh"
    /\ LockFree
    /\ entry' = "aged"
    /\ UNCHANGED <<lock, lapsed, window, parked, call, exposed, unparked>>

(* Mutant: an entry marked isCreating, as every placeholder is, is spared. *)
EntriesSweptIdle ==
    /\ entry = "aged" /\ ~InProgress
    /\ entry' = "none"
    /\ UNCHANGED <<lock, lapsed, window, parked, call, exposed, unparked>>

(* cleanupInactiveClients, every minute: without a lock, and whether the   *)
(* placeholder's creation is still under way or not.                       *)
EntriesSwept ==
    /\ entry = "aged"
    /\ entry' = "none"
    /\ exposed' = {c \in Calls : call[c].at = "create"}
    /\ UNCHANGED <<lock, lapsed, window, parked, call, unparked>>

WindowEnds ==
    /\ window.count > 0 /\ ~window.over
    /\ window' = [window EXCEPT !.over = TRUE]
    /\ UNCHANGED <<lock, lapsed, entry, parked, call, exposed, unparked>>

EpisodeOpens ==
    /\ ~parked
    /\ parked' = TRUE
    /\ UNCHANGED <<lock, lapsed, entry, window, call, exposed, unparked>>

EpisodeCloses ==
    /\ parked
    /\ parked' = FALSE
    /\ unparked' = Calls
    /\ UNCHANGED <<lock, lapsed, entry, window, call, exposed>>

-----------------------------------------------------------------------------
Arrives(c) == CreateArrives(c) \/ OldestArrives(c)

Steps(c) ==
    \/ Extracted(c) \/ GuardClears(c) \/ GuardRefuses(c) \/ Admitted(c)
    \/ ManagerStarts(c) \/ AuditStarts(c) \/ AuditListed(c) \/ Validated(c)
    \/ TakesLock(c) \/ WaitTimesOut(c) \/ AttemptFails(c) \/ CreationEnds(c)
    \/ BorrowEnds(c) \/ Saved(c) \/ LookUp(c) \/ Queried(c)
    \/ ProbeStarts(c) \/ Probed(c)

Sweeps == LocksSwept \/ EntryAges \/ EntriesSwept

Next ==
    \/ \E c \in Calls : Arrives(c) \/ Steps(c)
    \/ LockLapses \/ Sweeps \/ WindowEnds \/ EpisodeOpens \/ EpisodeCloses

Spec == Init /\ [][Next]_vars

(* A request goes on: its awaits are bounded, or, in the logins of         *)
(* performSessionCreation, taken to answer or fail at last.  The           *)
(* registry's two timers run as long as the process does.                  *)
FairSpec ==
    /\ Spec
    /\ \A c \in Calls : WF_vars(Steps(c))
    /\ WF_vars(LocksSwept) /\ WF_vars(EntryAges) /\ WF_vars(EntriesSwept)

-----------------------------------------------------------------------------
(* Properties.                                                             *)

(* Types; at most MaxPerHour requests are billed in an hour.               *)
TypeOK ==
    /\ lock \in Calls \cup {NoCall}
    /\ lapsed \in BOOLEAN
    /\ entry \in {"none", "fresh", "aged"}
    /\ window \in [count : 0 .. MaxPerHour, over : BOOLEAN]
    /\ parked \in BOOLEAN
    /\ call \in [Calls -> CallRecords]
    /\ exposed \subseteq Calls
    /\ unparked \subseteq Calls

(* Two creations from stored sessions, each reading the other's code, are  *)
(* under way at once only when the inactivity timer has removed the        *)
(* placeholder of one of them, five minutes into its creation: the lock    *)
(* alone, which lasts for two minutes, is not what keeps them apart.       *)
OverlapNeedsSweep ==
    \A c, d \in Calls :
        call[c].at = "create" /\ call[d].at = "create" /\ c # d
            => c \in exposed \/ d \in exposed

(* A request of many minutes leaves a parked account's strings alone: it   *)
(* connects the next one only if the account was free at some moment since *)
(* it let go of the one before.                                            *)
ParkedLeftAlone ==
    [][\A c \in Calls :
           call[c].at \notin OnString /\ call'[c].at \in OnString
               => c \in unparked]_vars

(* No lock is left behind: its holder is a creation under way, through     *)
(* failed attempts, waits that time out and locks that run out and are     *)
(* taken over (acquireLock, releaseLock).  And as long as nothing cleaned  *)
(* a creation's placeholder away, it stands, and no other holds the lock.  *)
LockCovered ==
    /\ lock # NoCall => call[lock].at = "create"
    /\ \A c \in Calls : call[c].at = "create" /\ c \notin exposed
           => entry # "none" /\ lock \in {c, NoCall}

(* A mobile is never blocked for good: also when the creation that put the *)
(* placeholder lost its lock and may not remove it, a moment comes when a  *)
(* new request can start.                                                  *)
MobileFrees == []<>(entry = "none")
=============================================================================
