------------------------- MODULE ConnectionManager -------------------------
(* The connection registry of one process (Telegram/utils/connection-manager). *)
(* getClient reuses, joins or builds a client; unregisterClient destroys the  *)
(* registered one and removes the entry after an await.  A client is named    *)
(* after the getClient call whose build created it.                           *)
EXTENDS Naturals, FiniteSets

CONSTANTS
    Mobiles,
    Calls,           \* getClient calls (a bound: each is made once)
    NoCall,
    Stopper,         \* shutdown, as the owner of its teardowns
    MaxConnections,  \* MAX_CONNECTIONS
    EvictTarget,     \* 20% of it, rounded up
    Keeps,           \* which values of autoDisconnect: false the calls use
    Forces           \* which values of forceReconnect

ASSUME NoCallAssumption == NoCall \notin Calls /\ Stopper \notin Calls /\ NoCall # Stopper
ASSUME LimitAssumption ==
    /\ MaxConnections \in Nat
    /\ EvictTarget \in Nat \ {0}
    /\ Keeps \subseteq BOOLEAN
    /\ Forces \subseteq BOOLEAN

VARIABLES
    entry,     \* clients: the registered client of a mobile
    inFlight,  \* inFlight: the build other calls join
    state,     \* ClientInfo.state
    conn,      \* the connection: "dropped" may come back, "destroyed" may not
    fresh,     \* lastUsed less than IDLE_TIMEOUT ago
    mob,       \* the mobile a call asks for
    keep,      \* autoDisconnect: false
    force,     \* forceReconnect: true
    pc,        \* control state of a call
    wait,      \* the build a call has joined
    victims,   \* entries a call has still to evict
    tears,     \* teardowns under way: destroy was called, the entry is not yet removed
    down,      \* "up", "stopping", "down"
    astray     \* history: clients whose entry another client's teardown has removed

calls == <<mob, keep, force, wait>>
vars  == <<entry, inFlight, state, conn, fresh, calls, pc, victims, tears, down, astray>>

Tear == [mobile : Mobiles, client : Calls, by : Calls \cup {NoCall, Stopper}]

TypeOK ==
    /\ entry \in [Mobiles -> Calls \cup {NoCall}]
    /\ inFlight \in [Mobiles -> Calls \cup {NoCall}]
    /\ state \in [Calls -> {"none", "connecting", "connected", "error", "disconnected"}]
    /\ conn \in [Calls -> {"none", "open", "dropped", "destroyed"}]
    /\ fresh \in [Calls -> BOOLEAN]
    /\ mob \in [Calls -> Mobiles]
    /\ keep \in [Calls -> BOOLEAN]
    /\ force \in [Calls -> BOOLEAN]
    /\ wait \in [Calls -> Calls \cup {NoCall}]
    /\ pc \in [Calls -> {"idle", "reconnecting", "evicting", "closing", "searching",
                         "connecting", "validating", "reporting", "dropping",
                         "joined", "done", "failed"}]
    /\ victims \in [Calls -> SUBSET Mobiles]
    /\ tears \subseteq Tear
    /\ down \in {"up", "stopping", "down"}
    /\ astray \subseteq Calls

Init ==
    /\ entry = [m \in Mobiles |-> NoCall]
    /\ inFlight = [m \in Mobiles |-> NoCall]
    /\ state = [c \in Calls |-> "none"]
    /\ conn = [c \in Calls |-> "none"]
    /\ fresh = [c \in Calls |-> FALSE]
    /\ mob \in [Calls -> Mobiles]
    /\ keep \in [Calls -> Keeps]
    /\ force \in [Calls -> Forces]
    /\ wait = [c \in Calls |-> NoCall]
    /\ pc = [c \in Calls |-> "idle"]
    /\ victims = [c \in Calls |-> {}]
    /\ tears = {}
    /\ down = "up"
    /\ astray = {}

-----------------------------------------------------------------------------
Alive(c)    == conn[c] \in {"open", "dropped"}
Registered  == {m \in Mobiles : entry[m] # NoCall}
Building(c) == pc[c] \in {"closing", "searching", "connecting", "validating",
                          "reporting", "dropping"}
Full        == Cardinality(Registered) >= MaxConnections

\* isClientHealthy of the registered client.
Healthy(m) ==
    /\ entry[m] # NoCall
    /\ state[entry[m]] = "connected"
    /\ conn[entry[m]] = "open"
    /\ fresh[entry[m]]

Goto(c, label) == pc' = [pc EXCEPT ![c] = label]

\* unregisterClient up to its await, for a set of mobiles: a client that is not
\* connected yet, or is destroyed already, has nothing to wait for.
Teardown(M, by) ==
    LET owned  == {m \in M : entry[m] # NoCall}
        living == {m \in owned : Alive(entry[m])}
    IN  /\ state' = [c \in Calls |-> IF \E m \in owned : entry[m] = c
                                     THEN "disconnected" ELSE state[c]]
        /\ tears' = tears \cup {[mobile |-> m, client |-> entry[m], by |-> by] : m \in living}
        /\ entry' = [m \in Mobiles |-> IF m \in owned \ living THEN NoCall ELSE entry[m]]

Waits(c) == \E t \in tears : t.by = c

\* Settling a build clears the in-flight entry only if it is still its own.
Settled(c) ==
    [inFlight EXCEPT ![mob[c]] = IF @ = c THEN NoCall ELSE @]

\* forceCleanup evicts disposable clients first.
Priority(m) ==
    CASE state[entry[m]] = "error"                              -> 0
      [] state[entry[m]] # "error" /\ ~keep[entry[m]]           -> 1
      [] state[entry[m]] = "disconnected" /\ keep[entry[m]]     -> 2
      [] OTHER                                                  -> 3

Evictable ==
    {V \in SUBSET Registered :
        /\ \/ Cardinality(V) = EvictTarget
           \/ V = Registered /\ Cardinality(V) < EvictTarget
        /\ \A m \in V, n \in Registered \ V : Priority(m) <= Priority(n)}

-----------------------------------------------------------------------------
(* getClient. *)

\* Mutant: the call registers its build before it looks for a pending one.
ProceedSelfJoin(c) ==
    LET m == mob[c]
    IN  \/ /\ Healthy(m) /\ ~force[c]
           /\ fresh' = [fresh EXCEPT ![entry[m]] = TRUE]
           /\ Goto(c, "done")
           /\ UNCHANGED <<entry, inFlight, state, tears, wait>>
        \/ /\ ~(Healthy(m) /\ ~force[c])
           /\ ~force[c]
           /\ inFlight' = [inFlight EXCEPT ![m] = c]
           /\ wait' = [wait EXCEPT ![c] = c]
           /\ Goto(c, "joined")
           /\ UNCHANGED <<entry, state, fresh, tears>>

\* Mutant: nobody joins a build that is in flight.
ProceedAlone(c) ==
    LET m == mob[c]
    IN  \/ /\ Healthy(m) /\ ~force[c]
           /\ fresh' = [fresh EXCEPT ![entry[m]] = TRUE]
           /\ Goto(c, "done")
           /\ UNCHANGED <<entry, inFlight, state, tears, wait>>
        \/ /\ ~Healthy(m) \/ force[c]
           /\ inFlight' = [inFlight EXCEPT ![m] = c]
           /\ Teardown({m}, c)
           /\ Goto(c, IF entry[m] = NoCall THEN "searching" ELSE "closing")
           /\ UNCHANGED <<fresh, wait>>

\* After the limit check, and without an await: reuse, join or build.
Proceed(c) ==
    LET m == mob[c]
    IN  \/ /\ Healthy(m) /\ ~force[c]
           /\ fresh' = [fresh EXCEPT ![entry[m]] = TRUE]
           /\ Goto(c, "done")
           /\ UNCHANGED <<entry, inFlight, state, tears, wait>>
        \/ /\ ~Healthy(m) /\ ~force[c] /\ inFlight[m] # NoCall
           /\ wait' = [wait EXCEPT ![c] = inFlight[m]]
           /\ Goto(c, "joined")
           /\ UNCHANGED <<entry, inFlight, state, fresh, tears>>
        \/ /\ force[c] \/ (~Healthy(m) /\ inFlight[m] = NoCall)
           /\ inFlight' = [inFlight EXCEPT ![m] = c]
           /\ Teardown({m}, c)
           /\ Goto(c, IF entry[m] = NoCall THEN "searching" ELSE "closing")
           /\ UNCHANGED <<fresh, wait>>

\* forceReconnect: tear the registered client down first.
Reconnect(c) ==
    /\ pc[c] = "idle"
    /\ force[c]
    /\ Teardown({mob[c]}, c)
    /\ Goto(c, "reconnecting")
    /\ UNCHANGED <<inFlight, conn, fresh, calls, victims, down, astray>>

Ready(c) == IF force[c] THEN pc[c] = "reconnecting" /\ ~Waits(c) ELSE pc[c] = "idle"

\* Shutting down: refused.  At the limit: evict first, one entry after the other.
Refuse(c) ==
    /\ Ready(c)
    /\ down # "up"
    /\ Goto(c, "failed")
    /\ UNCHANGED <<entry, inFlight, state, conn, fresh, calls, victims, tears, down, astray>>

StartEviction(c) ==
    /\ Ready(c)
    /\ down = "up"
    /\ Full
    /\ \E V \in Evictable : victims' = [victims EXCEPT ![c] = V]
    /\ Goto(c, "evicting")
    /\ UNCHANGED <<entry, inFlight, state, conn, fresh, calls, tears, down, astray>>

\* Mutant: the victim is dropped from the map, its client not destroyed.
EvictForget(c) ==
    /\ pc[c] = "evicting"
    /\ \E m \in victims[c] :
          /\ entry' = [entry EXCEPT ![m] = NoCall]
          /\ victims' = [victims EXCEPT ![c] = @ \ {m}]
    /\ UNCHANGED <<state, tears, inFlight, conn, fresh, calls, pc, down, astray>>

Evict(c) ==
    /\ pc[c] = "evicting"
    /\ ~Waits(c)
    /\ \E m \in victims[c] :
          /\ Teardown({m}, c)
          /\ victims' = [victims EXCEPT ![c] = @ \ {m}]
    /\ UNCHANGED <<inFlight, conn, fresh, calls, pc, down, astray>>

LimitReached(c) ==
    /\ pc[c] = "evicting"
    /\ ~Waits(c) /\ victims[c] = {}
    /\ Full
    /\ Goto(c, "failed")
    /\ UNCHANGED <<entry, inFlight, state, conn, fresh, calls, victims, tears, down, astray>>

GetClient(c) ==
    /\ \/ Ready(c) /\ down = "up"
       \/ pc[c] = "evicting" /\ ~Waits(c) /\ victims[c] = {}
    /\ ~Full
    /\ Proceed(c)
    /\ UNCHANGED <<conn, mob, keep, force, victims, down, astray>>

JoinEnds(c) ==
    /\ pc[c] = "joined"
    /\ pc[wait[c]] \in {"done", "failed"}
    /\ Goto(c, pc[wait[c]])
    /\ UNCHANGED <<entry, inFlight, state, conn, fresh, calls, victims, tears, down, astray>>

-----------------------------------------------------------------------------
(* The build: createNewClient. *)

\* The old client is gone; three seconds later the user is looked up.
Closed(c) ==
    /\ pc[c] = "closing"
    /\ ~Waits(c)
    /\ Goto(c, "searching")
    /\ UNCHANGED <<entry, inFlight, state, conn, fresh, calls, victims, tears, down, astray>>

UserMissing(c) ==
    /\ pc[c] = "searching"
    /\ inFlight' = Settled(c)
    /\ Goto(c, "failed")
    /\ UNCHANGED <<entry, state, conn, fresh, calls, victims, tears, down, astray>>

RegisterNew(c) ==
    /\ pc[c] = "searching"
    /\ entry' = [entry EXCEPT ![mob[c]] = c]
    /\ state' = [state EXCEPT ![c] = "connecting"]
    /\ fresh' = [fresh EXCEPT ![c] = TRUE]
    /\ Goto(c, "connecting")
    /\ UNCHANGED <<inFlight, conn, calls, victims, tears, down, astray>>

Connect(c) ==
    /\ pc[c] = "connecting"
    /\ conn' = [conn EXCEPT ![c] = "open"]
    /\ Goto(c, "validating")
    /\ UNCHANGED <<entry, inFlight, state, fresh, calls, victims, tears, down, astray>>

\* The entry is written again, whatever happened to it since.
Validate(c) ==
    /\ pc[c] = "validating"
    /\ conn[c] = "open"
    /\ state' = [state EXCEPT ![c] = "connected"]
    /\ entry' = [entry EXCEPT ![mob[c]] = c]
    /\ inFlight' = Settled(c)
    /\ Goto(c, "done")
    /\ astray' = astray \ {c}
    /\ UNCHANGED <<conn, fresh, calls, victims, tears, down>>

\* handleConnectionError: the failed client is registered as an error while the
\* account is expired (if the error is permanent) and the notice is sent.
BuildFails(c) ==
    /\ pc[c] \in {"connecting", "validating"}
    /\ state' = [state EXCEPT ![c] = "error"]
    /\ entry' = [entry EXCEPT ![mob[c]] = c]
    /\ Goto(c, "reporting")
    /\ astray' = astray \ {c}
    /\ UNCHANGED <<inFlight, conn, fresh, calls, victims, tears, down>>

\* ... and then whatever is registered for the mobile is torn down.
DropFailed(c) ==
    /\ pc[c] = "reporting"
    /\ Teardown({mob[c]}, c)
    /\ Goto(c, "dropping")
    /\ UNCHANGED <<inFlight, conn, fresh, calls, victims, down, astray>>

FailBuild(c) ==
    /\ pc[c] = "dropping"
    /\ ~Waits(c)
    /\ inFlight' = Settled(c)
    /\ Goto(c, "failed")
    /\ UNCHANGED <<entry, state, conn, fresh, calls, victims, tears, down, astray>>

-----------------------------------------------------------------------------
(* Teardown, timers, the network, shutdown. *)

\* The end of an unregisterClient: the entry goes, whichever client it holds.
TeardownEnds(t) ==
    /\ t \in tears
    /\ conn' = [conn EXCEPT ![t.client] = "destroyed"]
    /\ entry' = [entry EXCEPT ![t.mobile] = NoCall]
    /\ tears' = tears \ {t}
    /\ astray' = astray \cup ({entry[t.mobile]} \ {t.client, NoCall})
    /\ UNCHANGED <<inFlight, state, fresh, calls, pc, victims, down>>

\* Any flow's finally block, the reap timer of an old client, disconnectAll.
Unregister(m) ==
    /\ entry[m] # NoCall
    /\ Teardown({m}, NoCall)
    /\ UNCHANGED <<inFlight, conn, fresh, calls, pc, victims, down, astray>>

\* cleanup, every minute: idle clients unless kept, failed ones, dead sockets.
Reap(m) ==
    /\ down = "up"
    /\ entry[m] # NoCall
    /\ LET c == entry[m]
       IN  \/ ~keep[c] /\ ~fresh[c]
           \/ state[c] = "error"
           \/ ~fresh[c] /\ conn[c] # "open"
    /\ Teardown({m}, NoCall)
    /\ UNCHANGED <<inFlight, conn, fresh, calls, pc, victims, down, astray>>

GoesIdle(c) ==
    /\ fresh[c] /\ entry[mob[c]] = c
    /\ fresh' = [fresh EXCEPT ![c] = FALSE]
    /\ UNCHANGED <<entry, inFlight, state, conn, calls, pc, victims, tears, down, astray>>

LoseConnection(c) ==
    /\ conn[c] = "open"
    /\ conn' = [conn EXCEPT ![c] = "dropped"]
    /\ UNCHANGED <<entry, inFlight, state, fresh, calls, pc, victims, tears, down, astray>>

RegainConnection(c) ==
    /\ conn[c] = "dropped"
    /\ conn' = [conn EXCEPT ![c] = "open"]
    /\ UNCHANGED <<entry, inFlight, state, fresh, calls, pc, victims, tears, down, astray>>

Shutdown ==
    /\ down = "up"
    /\ down' = "stopping"
    /\ Teardown(Registered, Stopper)
    /\ UNCHANGED <<inFlight, conn, fresh, calls, pc, victims, astray>>

\* disconnectAll has settled; the map is cleared.
ShutdownEnds ==
    /\ down = "stopping"
    /\ ~Waits(Stopper)
    /\ down' = "down"
    /\ entry' = [m \in Mobiles |-> NoCall]
    /\ UNCHANGED <<inFlight, state, conn, fresh, calls, pc, victims, tears, astray>>

CallStep(c) ==
    \/ Reconnect(c)  \/ Refuse(c)      \/ StartEviction(c) \/ Evict(c)
    \/ LimitReached(c) \/ GetClient(c) \/ JoinEnds(c)      \/ Closed(c)
    \/ UserMissing(c) \/ RegisterNew(c) \/ Connect(c)      \/ Validate(c)
    \/ BuildFails(c) \/ DropFailed(c)  \/ FailBuild(c)

Next ==
    \/ \E c \in Calls : CallStep(c) \/ GoesIdle(c) \/ LoseConnection(c) \/ RegainConnection(c)
    \/ \E t \in tears : TeardownEnds(t)
    \/ \E m \in Mobiles : Unregister(m) \/ Reap(m)
    \/ Shutdown \/ ShutdownEnds

Spec == Init /\ [][Next]_vars

\* A build and a teardown are bounded by timeouts.
FairSpec ==
    /\ Spec
    /\ \A c \in Calls : WF_vars(CallStep(c))
    /\ \A t \in Tear : WF_vars(TeardownEnds(t))

-----------------------------------------------------------------------------
(* Properties. *)

\* A forced reconnect starts a build of its own beside the one in flight.
Unforced == \A c \in Calls : ~force[c]

\* Concurrent calls for a mobile share one build: unless a reconnect is forced, no
\* two builds of one mobile run at once (inFlight).
BuildsShared ==
    Unforced =>
        \A c, d \in Calls : Building(c) /\ Building(d) /\ mob[c] = mob[d] => c = d

\* Until shutdown clears the map, a session is connected twice from this process,
\* which can get it revoked, only if the end of a teardown of an earlier client has
\* removed the entry of one of the two: the deletion in unregisterClient's finally
\* block is the one thing that lets getClient build beside a living client.
SingleConnection ==
    Unforced /\ down # "down" =>
        \A c, d \in Calls :
            Alive(c) /\ Alive(d) /\ mob[c] = mob[d] => c = d \/ c \in astray \/ d \in astray

\* A connection nobody can find is never closed: until shutdown clears the map,
\* whatever is connected is registered or still being built, through evictions,
\* failed builds, reaps and teardowns of any order, unless that same deletion has
\* removed its entry (unregisterClient, the catch of createNewClient).
NoLeak ==
    Unforced /\ down # "down" =>
        \A c \in Calls : Alive(c) => entry[mob[c]] = c \/ Building(c) \/ c \in astray

\* What the comment on inFlight says sharing builds is for: no living connection is
\* lost from the registry while nobody is closing it.  The code breaks it.
NothingLost ==
    Unforced /\ down # "down" =>
        \A c \in Calls :
            Alive(c) => entry[mob[c]] = c \/ Building(c) \/ \E t \in tears : t.client = c

\* What makes the first two inductive.  A build owns the in-flight entry of its
\* mobile, when no reconnect is forced.
Owned ==
    Unforced /\ \A c \in Calls : Building(c) => inFlight[mob[c]] = c

\* Only a build that got as far as createNewClient has a connection.
Unconnected ==
    \A c \in Calls :
        pc[c] \notin {"validating", "reporting", "dropping", "done", "failed"} =>
            conn[c] = "none"

\* An entry and a teardown are about the mobile they name.
OneTarget ==
    /\ \A m \in Mobiles : entry[m] # NoCall => mob[entry[m]] = m
    /\ \A t \in tears :
          t.client \in Calls /\ mob[t.client] = t.mobile /\ conn[t.client] # "none"

\* Before it registers, a build has its mobile freed by a teardown of its own and
\* finds it free; after, nobody else registers.
Cleared ==
    \A c \in Calls :
        /\ pc[c] = "closing" /\ entry[mob[c]] # NoCall =>
              \E t \in tears : t.by = c /\ t.mobile = mob[c]
        /\ pc[c] = "searching" => entry[mob[c]] = NoCall
        /\ pc[c] \in {"connecting", "validating", "reporting", "dropping"} =>
              entry[mob[c]] \in {c, NoCall}

\* A living client keeps its entry but while it is validated, or is astray.
Tracked ==
    \A c \in Calls :
        Alive(c) /\ pc[c] # "validating" /\ down # "down" =>
            entry[mob[c]] = c \/ c \in astray

SingleInv == Owned /\ Unconnected /\ OneTarget /\ Cleared /\ Tracked

\* Whoever joins a build waits for a build: never for a call that waits itself,
\* and never for a build of another mobile, however many reconnects are forced.
JoinsRunning ==
    \A c \in Calls :
        pc[c] = "joined" =>
            /\ wait[c] \in Calls
            /\ mob[wait[c]] = mob[c]
            /\ Building(wait[c]) \/ pc[wait[c]] \in {"done", "failed"}

\* What makes it inductive: the in-flight map names builds that still run.
InFlightRuns ==
    \A m \in Mobiles :
        inFlight[m] # NoCall => Building(inFlight[m]) /\ mob[inFlight[m]] = m

\* How far a call is, in the order getClient and createNewClient run through.
Place == [idle |-> 0, reconnecting |-> 1, evicting |-> 2, closing |-> 3,
          searching |-> 4, connecting |-> 5, validating |-> 6, reporting |-> 7,
          dropping |-> 8, joined |-> 9, done |-> 10, failed |-> 10]

\* Every step of a getClient call brings it nearer to its answer: nothing is
\* done twice but evicting, and that runs out of victims.
CallsAdvance ==
    [][\A c \in Calls :
          pc'[c] # pc[c] \/ victims'[c] # victims[c] =>
              \/ Place[pc'[c]] > Place[pc[c]]
              \/ /\ pc'[c] = "evicting" /\ pc[c] = "evicting"
                 /\ victims'[c] \subseteq victims[c]]_vars

\* Every getClient call is answered, whatever it joins, evicts or waits for.
CallsEnd == \A c \in Calls : pc[c] # "idle" ~> pc[c] \in {"done", "failed"}
=============================================================================
