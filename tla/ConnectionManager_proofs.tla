---------------------- MODULE ConnectionManager_proofs ----------------------
(* Proofs about ConnectionManager, for any number of mobiles and calls.       *)
(*   TypeCorrect      every reachable state is well typed                     *)
(*   SharedBuild      without forced reconnects, builds are shared            *)
(*   OneConnection    ... a session is connected twice, and a connection      *)
(*   NothingLeaks     lost, only by a teardown that removes another's entry   *)
(*   JoinsAnswered    a call that waits waits for a running build             *)
(*   CallsForward     every step of a call brings it nearer to its answer     *)
EXTENDS ConnectionManager, TLAPS

\* The facts about one step that every proof needs: what unregisterClient does.
LEMMA TeardownEffect ==
    ASSUME TypeOK, NEW M \in SUBSET Mobiles,
           NEW by \in Calls \cup {NoCall, Stopper}, Teardown(M, by)
    PROVE  /\ entry' \in [Mobiles -> Calls \cup {NoCall}]
           /\ state' \in [Calls -> {"none", "connecting", "connected", "error", "disconnected"}]
           /\ tears' \subseteq Tear
           /\ tears \subseteq tears'
           /\ \A m \in Mobiles : entry'[m] \in {entry[m], NoCall}
           /\ \A m \in Mobiles :
                 entry[m] # NoCall /\ entry'[m] = NoCall => ~Alive(entry[m])
           /\ \A t \in tears' \ tears :
                 /\ t.client = entry[t.mobile]
                 /\ Alive(t.client)
           /\ \A m \in M :
                 entry'[m] # NoCall => \E t \in tears' : t.by = by /\ t.mobile = m
  <1> DEFINE owned  == {m \in M : entry[m] # NoCall}
             living == {m \in owned : Alive(entry[m])}
             New(m) == [mobile |-> m, client |-> entry[m], by |-> by]
  <1>1. /\ state' = [c \in Calls |-> IF \E m \in owned : entry[m] = c
                                     THEN "disconnected" ELSE state[c]]
        /\ tears' = tears \cup {New(m) : m \in living}
        /\ entry' = [m \in Mobiles |-> IF m \in owned \ living THEN NoCall ELSE entry[m]]
    BY DEF Teardown
  <1>2. \A m \in living : New(m) \in Tear
    BY NoCallAssumption DEF TypeOK, Tear
  <1>3. /\ tears' \subseteq Tear
        /\ tears \subseteq tears'
    BY <1>1, <1>2 DEF TypeOK
  <1>4. \A t \in tears' \ tears : t.client = entry[t.mobile] /\ Alive(t.client)
    <2> SUFFICES ASSUME NEW t \in tears' \ tears
                 PROVE  t.client = entry[t.mobile] /\ Alive(t.client)
      OBVIOUS
    <2>1. PICK m \in living : t = New(m)
      BY <1>1
    <2> QED BY <2>1
  <1>5. /\ entry' \in [Mobiles -> Calls \cup {NoCall}]
        /\ \A m \in Mobiles : entry'[m] \in {entry[m], NoCall}
        /\ \A m \in Mobiles :
              entry[m] # NoCall /\ entry'[m] = NoCall => ~Alive(entry[m])
    BY <1>1 DEF TypeOK
  <1>6. state' \in [Calls -> {"none", "connecting", "connected", "error", "disconnected"}]
    BY <1>1 DEF TypeOK
  <1>7. \A m \in M : entry'[m] # NoCall => \E t \in tears' : t.by = by /\ t.mobile = m
    <2> SUFFICES ASSUME NEW m \in M, entry'[m] # NoCall
                 PROVE  \E t \in tears' : t.by = by /\ t.mobile = m
      OBVIOUS
    <2>1. m \in living
      BY <1>1
    <2>2. New(m) \in tears' /\ New(m).by = by /\ New(m).mobile = m
      BY <1>1, <2>1
    <2> QED BY <2>2
  <1> QED BY <1>3, <1>4, <1>5, <1>6, <1>7

-----------------------------------------------------------------------------
(* Types. *)

LEMMA TypeStep == TypeOK /\ [Next]_vars => TypeOK'
  <1> SUFFICES ASSUME TypeOK, [Next]_vars PROVE TypeOK'
    OBVIOUS
  <1> USE NoCallAssumption, LimitAssumption DEF calls
  <1>1. ASSUME NEW c \in Calls, Reconnect(c) PROVE TypeOK'
    <2>1. Teardown({mob[c]}, c)
      BY <1>1 DEF Reconnect
    <2>2. {mob[c]} \in SUBSET Mobiles
      BY DEF TypeOK
    <2> HIDE NoCallAssumption, LimitAssumption
    <2> QED BY <1>1, <2>1, <2>2, TeardownEffect DEF TypeOK, Reconnect, Goto
  <1>2. ASSUME NEW c \in Calls, Refuse(c) PROVE TypeOK'
    BY <1>2 DEF TypeOK, Refuse, Goto
  <1>3. ASSUME NEW c \in Calls, StartEviction(c) PROVE TypeOK'
    BY <1>3 DEF TypeOK, StartEviction, Goto, Evictable, Registered
  <1>4. ASSUME NEW c \in Calls, Evict(c) PROVE TypeOK'
    <2>1. PICK m \in victims[c] :
             Teardown({m}, c) /\ victims' = [victims EXCEPT ![c] = @ \ {m}]
      BY <1>4 DEF Evict
    <2>2. {m} \in SUBSET Mobiles
      BY DEF TypeOK
    <2> QED BY <1>4, <2>1, <2>2, TeardownEffect DEF TypeOK, Evict
  <1>5. ASSUME NEW c \in Calls, LimitReached(c) PROVE TypeOK'
    BY <1>5 DEF TypeOK, LimitReached, Goto
  <1>6. ASSUME NEW c \in Calls, GetClient(c) PROVE TypeOK'
    <2> DEFINE m == mob[c]
    <2>0. m \in Mobiles /\ {m} \in SUBSET Mobiles
      BY DEF TypeOK
    <2>1. CASE Healthy(m) /\ ~force[c] /\ fresh' = [fresh EXCEPT ![entry[m]] = TRUE]
               /\ Goto(c, "done") /\ UNCHANGED <<entry, inFlight, state, tears, wait>>
      BY <1>6, <2>1 DEF TypeOK, GetClient, Goto
    <2>2. CASE /\ inFlight[m] # NoCall
               /\ wait' = [wait EXCEPT ![c] = inFlight[m]]
               /\ Goto(c, "joined") /\ UNCHANGED <<entry, inFlight, state, fresh, tears>>
      BY <1>6, <2>0, <2>2 DEF TypeOK, GetClient, Goto
    <2>3. CASE /\ inFlight' = [inFlight EXCEPT ![m] = c]
               /\ Teardown({m}, c)
               /\ Goto(c, IF entry[m] = NoCall THEN "searching" ELSE "closing")
               /\ UNCHANGED <<fresh, wait>>
      BY <1>6, <2>0, <2>3, TeardownEffect DEF TypeOK, GetClient, Goto
    <2> QED BY <1>6, <2>1, <2>2, <2>3 DEF GetClient, Proceed
  <1>7. ASSUME NEW c \in Calls, JoinEnds(c) PROVE TypeOK'
    BY <1>7 DEF TypeOK, JoinEnds, Goto
  <1>8. ASSUME NEW c \in Calls, Closed(c) PROVE TypeOK'
    BY <1>8 DEF TypeOK, Closed, Goto
  <1>9. ASSUME NEW c \in Calls, UserMissing(c) PROVE TypeOK'
    BY <1>9 DEF TypeOK, UserMissing, Goto, Settled
  <1>10. ASSUME NEW c \in Calls, RegisterNew(c) PROVE TypeOK'
    BY <1>10 DEF TypeOK, RegisterNew, Goto
  <1>11. ASSUME NEW c \in Calls, Connect(c) PROVE TypeOK'
    BY <1>11 DEF TypeOK, Connect, Goto
  <1>12. ASSUME NEW c \in Calls, Validate(c) PROVE TypeOK'
    BY <1>12 DEF TypeOK, Validate, Goto, Settled
  <1>13. ASSUME NEW c \in Calls, BuildFails(c) PROVE TypeOK'
    BY <1>13 DEF TypeOK, BuildFails, Goto
  <1>14. ASSUME NEW c \in Calls, DropFailed(c) PROVE TypeOK'
    <2>1. {mob[c]} \in SUBSET Mobiles
      BY DEF TypeOK
    <2> QED BY <1>14, <2>1, TeardownEffect DEF TypeOK, DropFailed, Goto
  <1>15. ASSUME NEW c \in Calls, FailBuild(c) PROVE TypeOK'
    BY <1>15 DEF TypeOK, FailBuild, Goto, Settled
  <1>16. ASSUME NEW t \in tears, TeardownEnds(t) PROVE TypeOK'
    BY <1>16 DEF TypeOK, TeardownEnds, Tear
  <1>17. ASSUME NEW m \in Mobiles, Unregister(m) PROVE TypeOK'
    <2>1. {m} \in SUBSET Mobiles
      OBVIOUS
    <2>3. Teardown({m}, NoCall)
      BY <1>17 DEF Unregister
    <2>4. /\ entry' \in [Mobiles -> Calls \cup {NoCall}]
          /\ state' \in [Calls -> {"none", "connecting", "connected", "error", "disconnected"}]
          /\ tears' \subseteq Tear
      BY <2>1, <2>3, TeardownEffect
    <2> QED BY <1>17, <2>4 DEF TypeOK, Unregister
  <1>18. ASSUME NEW m \in Mobiles, Reap(m) PROVE TypeOK'
    <2>1. {m} \in SUBSET Mobiles
      OBVIOUS
    <2> QED BY <1>18, <2>1, TeardownEffect DEF TypeOK, Reap
  <1>19. ASSUME NEW c \in Calls, GoesIdle(c) \/ LoseConnection(c) \/ RegainConnection(c)
         PROVE  TypeOK'
    <2>1. CASE GoesIdle(c)
      BY <2>1 DEF TypeOK, GoesIdle
    <2>2. CASE LoseConnection(c)
      BY <2>2 DEF TypeOK, LoseConnection
    <2>3. CASE RegainConnection(c)
      BY <2>3 DEF TypeOK, RegainConnection
    <2> QED BY <1>19, <2>1, <2>2, <2>3
  <1>20. ASSUME Shutdown PROVE TypeOK'
    <2>1. Registered \in SUBSET Mobiles
      BY DEF Registered
    <2> QED BY <1>20, <2>1, TeardownEffect DEF TypeOK, Shutdown
  <1>21. ASSUME ShutdownEnds PROVE TypeOK'
    BY <1>21 DEF TypeOK, ShutdownEnds
  <1>22. ASSUME UNCHANGED vars PROVE TypeOK'
    BY <1>22 DEF TypeOK, vars
  <1> QED
    BY <1>1, <1>2, <1>3, <1>4, <1>5, <1>6, <1>7, <1>8, <1>9, <1>10, <1>11, <1>12, <1>13,
       <1>14, <1>15, <1>16, <1>17, <1>18, <1>19, <1>20, <1>21, <1>22
    DEF Next, CallStep

\* Every reachable state is well typed, whatever getClient, the teardowns, the
\* cleanup timer and shutdown do.
THEOREM TypeCorrect == Spec => []TypeOK
  <1>1. Init => TypeOK
    <2> SUFFICES ASSUME Init PROVE TypeOK
      OBVIOUS
    <2>1. keep \in [Calls -> BOOLEAN]
      BY LimitAssumption DEF Init
    <2>2. force \in [Calls -> BOOLEAN]
      BY LimitAssumption DEF Init
    <2> QED BY <2>1, <2>2, NoCallAssumption DEF Init, TypeOK
  <1> QED BY <1>1, TypeStep, PTL DEF Spec

-----------------------------------------------------------------------------
(* Shared builds. *)

LEMMA OwnedStep == TypeOK /\ Owned /\ [Next]_vars => Owned'
  <1> SUFFICES ASSUME TypeOK, Owned, [Next]_vars PROVE Owned'
    OBVIOUS
  <1> USE DEF calls
  \* A step that starts no build and clears no entry of a running one.
  <1>0. ASSUME UNCHANGED <<mob, force, inFlight>>,
               \A c \in Calls : Building(c)' => Building(c)
        PROVE  Owned'
    BY <1>0 DEF Owned, Unforced
  <1>1. ASSUME NEW c \in Calls,
               Reconnect(c) \/ Refuse(c) \/ StartEviction(c) \/ LimitReached(c)
        PROVE  Owned'
    <2>1. \A d \in Calls : Building(d)' => Building(d)
      BY <1>1 DEF TypeOK, Building, Goto, Reconnect, Refuse, StartEviction, LimitReached
    <2> QED BY <1>0, <1>1, <2>1 DEF Reconnect, Refuse, StartEviction, LimitReached
  <1>2. ASSUME NEW c \in Calls, JoinEnds(c) PROVE Owned'
    <2>1. \A d \in Calls : Building(d)' => Building(d)
      BY <1>2 DEF TypeOK, Building, Goto, JoinEnds
    <2> QED BY <1>0, <1>2, <2>1 DEF JoinEnds
  <1>3. ASSUME NEW c \in Calls,
               Closed(c) \/ RegisterNew(c) \/ Connect(c) \/ BuildFails(c) \/ DropFailed(c)
        PROVE  Owned'
    <2>1. \A d \in Calls : Building(d)' => Building(d)
      BY <1>3 DEF TypeOK, Building, Goto, Closed, RegisterNew, Connect, BuildFails, DropFailed
    <2> QED BY <1>0, <1>3, <2>1 DEF Closed, RegisterNew, Connect, BuildFails, DropFailed
  <1>4. ASSUME NEW c \in Calls, GetClient(c) PROVE Owned'
    <2> DEFINE m == mob[c]
    <2>0. ~force[c] /\ ~Building(c) /\ m \in Mobiles
      BY <1>4 DEF TypeOK, Owned, Unforced, GetClient, Ready, Building
    <2>1. CASE Goto(c, "done") /\ UNCHANGED <<inFlight, wait>>
      <3>1. \A d \in Calls : Building(d)' => Building(d)
        BY <1>4, <2>1 DEF TypeOK, Building, Goto
      <3> QED BY <1>0, <1>4, <2>1, <3>1 DEF GetClient
    <2>2. CASE Goto(c, "joined") /\ UNCHANGED inFlight
      <3>1. \A d \in Calls : Building(d)' => Building(d)
        BY <1>4, <2>2 DEF TypeOK, Building, Goto
      <3> QED BY <1>0, <1>4, <2>2, <3>1 DEF GetClient
    <2>3. CASE /\ inFlight[m] = NoCall
               /\ inFlight' = [inFlight EXCEPT ![m] = c]
               /\ Goto(c, IF entry[m] = NoCall THEN "searching" ELSE "closing")
      <3>1. \A d \in Calls : Building(d)' => d = c \/ Building(d)
        BY <2>3 DEF TypeOK, Building, Goto
      <3>2. \A d \in Calls : Building(d) => mob[d] # m
        BY <2>3, NoCallAssumption DEF Owned
      <3>3. mob' = mob /\ force' = force
        BY <1>4 DEF GetClient
      <3> QED BY <2>0, <2>3, <3>1, <3>2, <3>3 DEF TypeOK, Owned, Unforced
    <2> QED BY <1>4, <2>0, <2>1, <2>2, <2>3 DEF GetClient, Proceed
  <1>5. ASSUME NEW c \in Calls, UserMissing(c) \/ Validate(c) \/ FailBuild(c) PROVE Owned'
    <2>1. \A d \in Calls : Building(d)' => d # c /\ Building(d)
      BY <1>5 DEF TypeOK, Building, Goto, UserMissing, Validate, FailBuild
    <2>2. Building(c) /\ inFlight' = Settled(c) /\ UNCHANGED <<mob, force>>
      BY <1>5 DEF Building, UserMissing, Validate, FailBuild
    <2>3. \A d \in Calls : Building(d) /\ d # c => mob[d] # mob[c]
      BY <2>2 DEF Owned
    <2> QED BY <2>1, <2>2, <2>3 DEF TypeOK, Owned, Unforced, Settled
  <1>6. ASSUME NEW c \in Calls,
               Evict(c) \/ GoesIdle(c) \/ LoseConnection(c) \/ RegainConnection(c)
        PROVE  Owned'
    BY <1>0, <1>6 DEF Evict, GoesIdle, LoseConnection, RegainConnection, Building
  <1>7. ASSUME NEW t \in tears, TeardownEnds(t) PROVE Owned'
    BY <1>0, <1>7 DEF TeardownEnds, Building
  <1>8. ASSUME NEW m \in Mobiles, Unregister(m) \/ Reap(m) PROVE Owned'
    BY <1>0, <1>8 DEF Unregister, Reap, Building
  <1>9. ASSUME Shutdown \/ ShutdownEnds PROVE Owned'
    BY <1>0, <1>9 DEF Shutdown, ShutdownEnds, Building
  <1>10. ASSUME UNCHANGED vars PROVE Owned'
    BY <1>0, <1>10 DEF vars, Building
  <1> QED
    BY <1>1, <1>2, <1>3, <1>4, <1>5, <1>6, <1>7, <1>8, <1>9, <1>10 DEF Next, CallStep

\* Whether a reconnect is forced is decided by the caller, once.
LEMMA ForceFixed == [Next]_vars /\ Unforced' => Unforced
  <1>1. ASSUME Next PROVE force' = force
    <2>1. ASSUME NEW c \in Calls, CallStep(c) PROVE force' = force
      BY <2>1 DEF calls, CallStep, Reconnect, Refuse, StartEviction, Evict, LimitReached,
         GetClient, JoinEnds, Closed, UserMissing, RegisterNew, Connect, Validate,
         BuildFails, DropFailed, FailBuild
    <2> QED
      BY <1>1, <2>1 DEF calls, Next, GoesIdle, LoseConnection, RegainConnection,
         TeardownEnds, Unregister, Reap, Shutdown, ShutdownEnds
  <1> QED BY <1>1 DEF Unforced, vars, calls

\* Without forced reconnects two builds of one mobile never overlap: the in-flight
\* map of getClient makes every other call join the one there is.
THEOREM SharedBuild == Spec => []BuildsShared
  <1>1. Init => (Unforced => Owned)
    BY DEF Init, Owned, Building
  <1>2. TypeOK /\ (Unforced => Owned) /\ [Next]_vars => (Unforced => Owned)'
    BY OwnedStep, ForceFixed
  <1>3. (Unforced => Owned) => BuildsShared
    BY DEF Owned, BuildsShared
  <1> QED BY <1>1, <1>2, <1>3, TypeCorrect, PTL DEF Spec

-----------------------------------------------------------------------------
(* One connection per session, and none that is lost. *)

Late(c) == pc[c] \in {"connecting", "validating", "reporting", "dropping"}

\* What a teardown leaves of the invariant, whoever starts it: only pc is open.
LEMMA TeardownKeeps ==
    ASSUME TypeOK, SingleInv, NEW M \in SUBSET Mobiles,
           NEW by \in Calls \cup {NoCall, Stopper}, Teardown(M, by),
           UNCHANGED <<mob, conn, astray>>
    PROVE  /\ OneTarget'
           /\ \A c \in Calls :
                 pc[c] = "closing" /\ entry'[mob[c]] # NoCall =>
                     \E t \in tears' : t.by = c /\ t.mobile = mob[c]
           /\ \A c \in Calls : entry[mob[c]] = NoCall => entry'[mob[c]] = NoCall
           /\ \A c \in Calls : Late(c) => entry'[mob[c]] \in {c, NoCall}
           /\ \A c \in Calls :
                 Alive(c) /\ pc[c] # "validating" /\ down # "down" =>
                     entry'[mob[c]] = c \/ c \in astray
  <1>1. /\ entry' \in [Mobiles -> Calls \cup {NoCall}]
        /\ tears' \subseteq Tear
        /\ tears \subseteq tears'
        /\ \A m \in Mobiles : entry'[m] \in {entry[m], NoCall}
        /\ \A m \in Mobiles :
              entry[m] # NoCall /\ entry'[m] = NoCall => ~Alive(entry[m])
        /\ \A t \in tears' \ tears : t.client = entry[t.mobile] /\ Alive(t.client)
    BY TeardownEffect
  <1>2. \A t \in tears' : t.mobile \in Mobiles
    BY <1>1 DEF Tear
  <1>3. \A t \in tears' \ tears : t.client \in Calls
    BY <1>1 DEF Tear
  <1>m. \A c \in Calls : mob[c] \in Mobiles
    BY DEF TypeOK
  <1>4. OneTarget'
    <2>1. \A m \in Mobiles : entry'[m] # NoCall => mob'[entry'[m]] = m
      BY <1>1 DEF SingleInv, OneTarget
    <2>2. \A t \in tears' : /\ t.client \in Calls /\ mob'[t.client] = t.mobile
                            /\ conn'[t.client] # "none"
      BY <1>1, <1>2, <1>3, NoCallAssumption DEF SingleInv, OneTarget, Alive
    <2> QED BY <2>1, <2>2 DEF OneTarget
  <1>5. \A c \in Calls :
           pc[c] = "closing" /\ entry'[mob[c]] # NoCall =>
               \E t \in tears' : t.by = c /\ t.mobile = mob[c]
    BY <1>1, <1>m DEF SingleInv, Cleared
  <1>6. \A c \in Calls : entry[mob[c]] = NoCall => entry'[mob[c]] = NoCall
    BY <1>1, <1>m
  <1>7. \A c \in Calls : Late(c) => entry'[mob[c]] \in {c, NoCall}
    BY <1>1, <1>m DEF SingleInv, Cleared, Late
  <1>8. \A c \in Calls :
           Alive(c) /\ pc[c] # "validating" /\ down # "down" =>
               entry'[mob[c]] = c \/ c \in astray
    BY <1>1, <1>m, NoCallAssumption DEF SingleInv, Tracked
  <1> QED BY <1>4, <1>5, <1>6, <1>7, <1>8

\* Every step keeps the invariant, in whatever order teardowns end.
LEMMA SingleStep ==
    ASSUME TypeOK, SingleInv, [Next]_vars
    PROVE  SingleInv'
  <1> USE DEF calls
  <1>0. Owned'
    BY OwnedStep DEF SingleInv
  <1>u. \A c \in Calls : Alive(c) => pc[c] \notin {"closing", "searching", "connecting"}
    BY DEF SingleInv, Unconnected, Alive
  <1>i. Unconnected'
    <2>1. ASSUME UNCHANGED conn, UNCHANGED pc PROVE Unconnected'
      BY <2>1 DEF SingleInv, Unconnected
    <2>2. ASSUME UNCHANGED conn, NEW c \in Calls, NEW l, Goto(c, l),
                 \/ l \in {"done", "failed", "reporting", "dropping"}
                 \/ pc[c] \in {"idle", "reconnecting", "evicting", "closing", "searching"}
          PROVE  Unconnected'
      BY <2>2 DEF TypeOK, SingleInv, Unconnected, Goto
    <2>3. ASSUME NEW c \in Calls, CallStep(c), ~Connect(c) PROVE Unconnected'
      <3>1. CASE \/ Reconnect(c) \/ Refuse(c) \/ StartEviction(c) \/ LimitReached(c)
                 \/ Closed(c) \/ UserMissing(c) \/ RegisterNew(c)
        BY <2>2, <3>1 DEF Reconnect, Refuse, StartEviction, LimitReached, Closed,
           UserMissing, RegisterNew, Ready
      <3>2. CASE Validate(c) \/ BuildFails(c) \/ DropFailed(c) \/ FailBuild(c)
        BY <2>2, <3>2 DEF Validate, BuildFails, DropFailed, FailBuild
      <3>3. CASE JoinEnds(c)
        BY <2>2, <3>3 DEF JoinEnds
      <3>4. CASE Evict(c)
        BY <2>1, <3>4 DEF Evict
      <3>5. CASE GetClient(c)
        BY <2>2, <3>5 DEF GetClient, Proceed, Ready
      <3> QED BY <2>3, <3>1, <3>2, <3>3, <3>4, <3>5 DEF CallStep
    <2>4. ASSUME NEW c \in Calls, Connect(c) PROVE Unconnected'
      BY <2>4 DEF TypeOK, SingleInv, Unconnected, Connect, Goto
    <2>5. ASSUME NEW t \in tears, TeardownEnds(t) PROVE Unconnected'
      <3>1. t.client \in Calls /\ conn[t.client] # "none"
        BY DEF SingleInv, OneTarget
      <3> QED BY <2>5, <3>1 DEF TypeOK, SingleInv, Unconnected, TeardownEnds
    <2>6. ASSUME NEW c \in Calls, GoesIdle(c) \/ LoseConnection(c) \/ RegainConnection(c)
          PROVE  Unconnected'
      BY <2>6 DEF TypeOK, SingleInv, Unconnected, GoesIdle, LoseConnection, RegainConnection
    <2>7. ASSUME NEW m \in Mobiles, Unregister(m) \/ Reap(m) PROVE Unconnected'
      BY <2>1, <2>7 DEF Unregister, Reap
    <2>8. ASSUME Shutdown \/ ShutdownEnds \/ UNCHANGED vars PROVE Unconnected'
      BY <2>1, <2>8 DEF Shutdown, ShutdownEnds, vars
    <2> QED BY <2>3, <2>4, <2>5, <2>6, <2>7, <2>8 DEF Next
  <1> DEFINE Rest == OneTarget /\ Cleared /\ Tracked
  <1>n. \A c \in Calls : mob[c] \in Mobiles /\ ~force[c]
    BY DEF TypeOK, SingleInv, Owned, Unforced
  \* Steps that leave the registry and the connections as they are.
  <1>s. ASSUME UNCHANGED <<entry, tears, mob, down, astray>>,
               \A c \in Calls : /\ Alive(c)' => Alive(c)
                                /\ conn[c] # "none" => conn'[c] # "none"
                                /\ pc'[c] = "closing" => pc[c] = "closing"
                                /\ pc'[c] = "searching" => entry[mob[c]] = NoCall
                                /\ Late(c)' => Late(c)
                                /\ pc[c] = "validating" => pc'[c] = "validating"
        PROVE  Rest'
    <2>1. OneTarget'
      BY <1>s DEF SingleInv, OneTarget
    <2>2. Cleared'
      BY <1>s DEF SingleInv, Cleared, Late
    <2>3. Tracked'
      BY <1>s DEF SingleInv, Tracked
    <2> QED BY <2>1, <2>2, <2>3
  \* Steps that begin a teardown.
  <1>t. ASSUME NEW M \in SUBSET Mobiles, NEW by \in Calls \cup {NoCall, Stopper},
               Teardown(M, by), UNCHANGED <<mob, conn, astray>>, down' # "down" => down # "down",
               \A c \in Calls :
                  /\ pc'[c] = "closing" => pc[c] = "closing" \/ (c = by /\ mob[c] \in M)
                  /\ pc'[c] = "searching" => pc[c] = "searching" \/ entry[mob[c]] = NoCall
                  /\ Late(c)' => Late(c)
                  /\ pc[c] = "validating" => pc'[c] = "validating"
        PROVE  Rest'
    <2>1. OneTarget'
      BY <1>t, TeardownKeeps
    <2>2. Cleared'
      <3>1. ASSUME NEW c \in Calls, pc'[c] = "closing", entry'[mob[c]] # NoCall
            PROVE  \E t \in tears' : t.by = c /\ t.mobile = mob[c]
        <4>1. CASE pc[c] = "closing"
          <5>1. \A d \in Calls :
                   pc[d] = "closing" /\ entry'[mob[d]] # NoCall =>
                       \E t \in tears' : t.by = d /\ t.mobile = mob[d]
            BY <1>t, TeardownKeeps
          <5> QED BY <3>1, <4>1, <5>1
        <4>2. CASE c = by /\ mob[c] \in M
          <5>1. \A m \in M : entry'[m] # NoCall => \E t \in tears' : t.by = by /\ t.mobile = m
            <6>1. TypeOK /\ M \in SUBSET Mobiles /\ Teardown(M, by)
              BY <1>t
            <6> QED BY <6>1, TeardownEffect, ZenonT(60)
          <5> QED BY <3>1, <4>2, <5>1
        <4> QED BY <1>t, <3>1, <4>1, <4>2
      <3>2. ASSUME NEW c \in Calls, pc'[c] = "searching" PROVE entry'[mob[c]] = NoCall
        <4>1. entry[mob[c]] = NoCall
          BY <1>t, <3>2 DEF SingleInv, Cleared
        <4> QED BY <1>t, <4>1, TeardownKeeps
      <3>3. ASSUME NEW c \in Calls, Late(c)' PROVE entry'[mob[c]] \in {c, NoCall}
        BY <1>t, <3>3, TeardownKeeps
      <3> QED BY <1>t, <3>1, <3>2, <3>3 DEF Cleared, Late
    <2>3. Tracked'
      <3>1. \A c \in Calls :
               Alive(c) /\ pc[c] # "validating" /\ down # "down" =>
                   entry'[mob[c]] = c \/ c \in astray
        BY <1>t, TeardownKeeps
      <3> QED BY <1>t, <3>1 DEF Tracked, Alive
    <2> QED BY <2>1, <2>2, <2>3
  <1>k. \A c \in Calls : pc[c] = "searching" => entry[mob[c]] = NoCall
    BY DEF SingleInv, Cleared
  <1>1. ASSUME NEW c \in Calls,
               \/ Refuse(c) \/ StartEviction(c) \/ LimitReached(c) \/ JoinEnds(c)
               \/ UserMissing(c) \/ FailBuild(c)
        PROVE  Rest'
    <2>1. /\ UNCHANGED <<entry, tears, mob, down, conn, astray>>
          /\ pc[c] # "validating"
          /\ \E l \in {"failed", "evicting", "done"} : Goto(c, l)
      BY <1>1 DEF Refuse, StartEviction, LimitReached, JoinEnds, UserMissing,
         FailBuild, Ready
    <2>2. \A d \in Calls : /\ pc'[d] = "closing" => pc[d] = "closing"
                           /\ pc'[d] = "searching" => pc[d] = "searching"
                           /\ Late(d)' => Late(d)
                           /\ pc[d] = "validating" => pc'[d] = "validating"
      BY <2>1 DEF TypeOK, Goto, Late
    <2> QED BY <1>s, <1>k, <2>1, <2>2 DEF Alive
  <1>c. ASSUME NEW c \in Calls, Closed(c) PROVE Rest'
    <2>1. /\ UNCHANGED <<entry, tears, mob, down, conn, astray>>
          /\ pc[c] = "closing" /\ Goto(c, "searching") /\ ~Waits(c)
      BY <1>c DEF Closed
    <2>2. entry[mob[c]] = NoCall
      BY <2>1 DEF SingleInv, Cleared, Waits
    <2>3. \A d \in Calls : /\ pc'[d] = "closing" => pc[d] = "closing"
                           /\ pc'[d] = "searching" => d = c \/ pc[d] = "searching"
                           /\ Late(d)' => Late(d)
                           /\ pc[d] = "validating" => pc'[d] = "validating"
      BY <2>1 DEF TypeOK, Goto, Late
    <2> QED BY <1>s, <1>k, <2>1, <2>2, <2>3 DEF Alive
  <1>2. ASSUME NEW c \in Calls, GetClient(c) PROVE Rest'
    <2>0. /\ pc[c] \in {"idle", "evicting"}
          /\ UNCHANGED <<conn, mob, down, astray>>
      BY <1>2, <1>n DEF GetClient, Ready
    <2>1. CASE /\ UNCHANGED <<entry, tears>>
               /\ Goto(c, "done") \/ Goto(c, "joined")
      <3>1. \A d \in Calls : /\ pc'[d] = "closing" => pc[d] = "closing"
                             /\ pc'[d] = "searching" => pc[d] = "searching"
                             /\ Late(d)' => Late(d)
                             /\ pc[d] = "validating" => pc'[d] = "validating"
        BY <2>0, <2>1 DEF TypeOK, Goto, Late
      <3> QED BY <1>s, <1>k, <2>0, <2>1, <3>1 DEF Alive
    <2>2. CASE /\ Teardown({mob[c]}, c)
               /\ Goto(c, IF entry[mob[c]] = NoCall THEN "searching" ELSE "closing")
      <3>1. \A d \in Calls :
               /\ pc'[d] = "closing" =>
                     pc[d] = "closing" \/ (d = c /\ mob[d] \in {mob[c]})
               /\ pc'[d] = "searching" => pc[d] = "searching" \/ entry[mob[d]] = NoCall
               /\ Late(d)' => Late(d)
               /\ pc[d] = "validating" => pc'[d] = "validating"
        BY <2>0, <2>2 DEF TypeOK, Goto, Late
      <3>2. {mob[c]} \in SUBSET Mobiles
        BY <1>n
      <3> QED BY <1>t, <2>0, <2>2, <3>1, <3>2
    <2> QED BY <1>2, <2>1, <2>2 DEF GetClient, Proceed
  <1>3. ASSUME NEW c \in Calls, Evict(c) PROVE Rest'
    <2>1. PICK m \in victims[c] : Teardown({m}, c)
      BY <1>3 DEF Evict
    <2>2. {m} \in SUBSET Mobiles
      BY DEF TypeOK
    <2> QED BY <1>3, <1>t, <2>1, <2>2 DEF Evict, Late
  <1>4. ASSUME NEW c \in Calls, DropFailed(c) PROVE Rest'
    <2>1. \A d \in Calls : /\ pc'[d] = "closing" => pc[d] = "closing"
                           /\ pc'[d] = "searching" => pc[d] = "searching"
                           /\ Late(d)' => Late(d)
                           /\ pc[d] = "validating" => pc'[d] = "validating"
      BY <1>4 DEF TypeOK, DropFailed, Goto, Late
    <2>2. {mob[c]} \in SUBSET Mobiles
      BY <1>n
    <2> QED BY <1>4, <1>t, <2>1, <2>2 DEF DropFailed
  <1>5. ASSUME NEW m \in Mobiles, Unregister(m) \/ Reap(m) PROVE Rest'
    <2>1. {m} \in SUBSET Mobiles
      OBVIOUS
    <2> QED BY <1>5, <1>t, <2>1 DEF Unregister, Reap, Late
  <1>6. ASSUME Shutdown PROVE Rest'
    <2>1. Registered \in SUBSET Mobiles
      BY DEF Registered
    <2> QED BY <1>6, <1>t, <2>1 DEF Shutdown, Late
  <1>7. ASSUME NEW c \in Calls, GoesIdle(c) \/ LoseConnection(c) \/ RegainConnection(c)
        PROVE  Rest'
    <2>1. /\ UNCHANGED <<entry, tears, mob, down, pc, astray>>
          /\ \A d \in Calls : /\ Alive(d)' => Alive(d)
                              /\ conn[d] # "none" => conn'[d] # "none"
      BY <1>7 DEF TypeOK, GoesIdle, LoseConnection, RegainConnection, Alive
    <2> QED BY <1>s, <1>k, <2>1 DEF Late
  <1>8. ASSUME NEW c \in Calls, Connect(c) PROVE Rest'
    <2>1. /\ UNCHANGED <<entry, tears, mob, down, astray>>
          /\ pc' = [pc EXCEPT ![c] = "validating"]
          /\ conn' = [conn EXCEPT ![c] = "open"]
          /\ pc[c] = "connecting"
      BY <1>8 DEF Connect, Goto
    <2>2. OneTarget'
      BY <2>1 DEF TypeOK, SingleInv, OneTarget
    <2>3. Cleared'
      BY <2>1 DEF TypeOK, SingleInv, Cleared
    <2>4. Tracked'
      BY <2>1 DEF TypeOK, SingleInv, Tracked, Alive
    <2> QED BY <2>2, <2>3, <2>4
  \* A registration: no other client of the mobile is registered.
  <1>w. ASSUME NEW c \in Calls, entry' = [entry EXCEPT ![mob[c]] = c],
               UNCHANGED <<tears, mob, down, conn>>,
               entry[mob[c]] \in {c, NoCall},
               astray \ {c} \subseteq astray',
               Building(c), pc'[c] \notin {"closing", "searching", "validating"},
               \A d \in Calls : d # c => pc'[d] = pc[d]
        PROVE  Rest'
    <2>0. entry'[mob[c]] = c /\ \A m \in Mobiles : m # mob[c] => entry'[m] = entry[m]
      BY <1>n, <1>w DEF TypeOK
    <2>1. OneTarget'
      BY <1>w, <2>0 DEF SingleInv, OneTarget
    <2>2. Cleared'
      <3>1. \A d \in Calls : Building(d) /\ mob[d] = mob[c] => d = c
        BY <1>w DEF SingleInv, Owned
      <3>2. ASSUME NEW d \in Calls, pc'[d] \in {"closing", "searching"}
            PROVE  /\ pc'[d] = pc[d] /\ entry'[mob[d]] = entry[mob[d]]
        <4>1. d # c /\ pc'[d] = pc[d]
          BY <1>w, <3>2
        <4>2. mob[d] # mob[c]
          BY <3>1, <3>2, <4>1 DEF Building
        <4> QED BY <1>n, <2>0, <4>1, <4>2
      <3>3. ASSUME NEW d \in Calls, Late(d)' PROVE entry'[mob[d]] \in {d, NoCall}
        <4>1. CASE d = c
          BY <2>0, <4>1
        <4>2. CASE d # c
          <5>1. Late(d) /\ mob[d] # mob[c]
            BY <1>w, <3>1, <3>3, <4>2 DEF Late, Building
          <5> QED BY <1>n, <2>0, <5>1 DEF SingleInv, Cleared, Late
        <4> QED BY <4>1, <4>2
      <3> QED BY <1>w, <3>2, <3>3 DEF SingleInv, Cleared, Late
    <2>3. Tracked'
      <3>1. ASSUME NEW d \in Calls, Alive(d), pc'[d] # "validating", down # "down"
            PROVE  entry'[mob[d]] = d \/ d \in astray'
        <4>1. CASE d = c
          BY <2>0, <4>1
        <4>2. CASE d # c
          <5>1. entry[mob[d]] = d \/ d \in astray
            BY <1>w, <3>1, <4>2 DEF SingleInv, Tracked
          <5>2. entry[mob[d]] = d => mob[d] # mob[c]
            BY <1>n, <1>w, <4>2, NoCallAssumption
          <5> QED BY <1>n, <1>w, <2>0, <4>2, <5>1, <5>2
        <4> QED BY <4>1, <4>2
      <3> QED BY <1>w, <3>1 DEF Tracked, Alive
    <2> QED BY <2>1, <2>2, <2>3
  <1>9. ASSUME NEW c \in Calls, RegisterNew(c) PROVE Rest'
    <2>1. pc[c] = "searching" /\ pc' = [pc EXCEPT ![c] = "connecting"]
      BY <1>9 DEF RegisterNew, Goto
    <2>2. entry[mob[c]] = NoCall
      BY <1>k, <2>1
    <2>3. Building(c) /\ pc'[c] \notin {"closing", "searching", "validating"}
      BY <2>1 DEF TypeOK, Building
    <2>4. \A d \in Calls : d # c => pc'[d] = pc[d]
      BY <2>1 DEF TypeOK
    <2> QED BY <1>9, <1>w, <2>2, <2>3, <2>4 DEF RegisterNew
  <1>10. ASSUME NEW c \in Calls, Validate(c) \/ BuildFails(c) PROVE Rest'
    <2>1. Late(c) /\ Building(c)
      BY <1>10 DEF Validate, BuildFails, Late, Building
    <2>2. entry[mob[c]] \in {c, NoCall}
      BY <2>1 DEF SingleInv, Cleared, Late
    <2>3. \E l \in {"done", "reporting"} : pc' = [pc EXCEPT ![c] = l]
      BY <1>10 DEF Validate, BuildFails, Goto
    <2>4. /\ pc'[c] \notin {"closing", "searching", "validating"}
          /\ \A d \in Calls : d # c => pc'[d] = pc[d]
      BY <2>3 DEF TypeOK
    <2>5. /\ entry' = [entry EXCEPT ![mob[c]] = c]
          /\ astray' = astray \ {c}
          /\ UNCHANGED <<tears, mob, down, conn>>
      BY <1>10 DEF Validate, BuildFails
    <2> QED BY <1>w, <2>1, <2>2, <2>4, <2>5
  \* The end of a teardown: another client it finds registered goes astray.
  <1>11. ASSUME NEW t \in tears, TeardownEnds(t) PROVE Rest'
    <2>0. t.mobile \in Mobiles /\ t.client \in Calls /\ mob[t.client] = t.mobile
      BY DEF TypeOK, Tear, SingleInv, OneTarget
    <2>1. /\ conn' = [conn EXCEPT ![t.client] = "destroyed"]
          /\ entry' = [entry EXCEPT ![t.mobile] = NoCall]
          /\ tears' = tears \ {t}
          /\ astray' = astray \cup ({entry[t.mobile]} \ {t.client, NoCall})
          /\ UNCHANGED <<pc, mob, down>>
      BY <1>11 DEF TeardownEnds
    <2>2. OneTarget'
      <3>1. \A u \in tears' : u.mobile \in Mobiles /\ u.client \in Calls
        BY <2>1 DEF TypeOK, Tear, SingleInv, OneTarget
      <3> QED BY <2>0, <2>1, <3>1 DEF TypeOK, SingleInv, OneTarget
    <2>3. Cleared'
      <3>1. ASSUME NEW c \in Calls, pc[c] = "closing", entry'[mob[c]] # NoCall
            PROVE  \E u \in tears' : u.by = c /\ u.mobile = mob[c]
        <4>1. mob[c] # t.mobile /\ entry[mob[c]] # NoCall
          BY <1>n, <2>0, <2>1, <3>1 DEF TypeOK
        <4>2. PICK u \in tears : u.by = c /\ u.mobile = mob[c]
          BY <3>1, <4>1 DEF SingleInv, Cleared
        <4> QED BY <2>1, <4>1, <4>2
      <3>2. \A c \in Calls : entry'[mob[c]] \in {entry[mob[c]], NoCall}
        BY <1>n, <2>0, <2>1 DEF TypeOK
      <3> QED BY <2>1, <3>1, <3>2 DEF SingleInv, Cleared
    <2>4. Tracked'
      <3>1. ASSUME NEW c \in Calls, Alive(c)', pc[c] # "validating", down # "down"
            PROVE  entry'[mob[c]] = c \/ c \in astray'
        <4>1. c # t.client /\ Alive(c)
          BY <2>0, <2>1, <3>1 DEF TypeOK, Alive
        <4>2. entry[mob[c]] = c \/ c \in astray
          BY <3>1, <4>1 DEF SingleInv, Tracked
        <4> QED BY <1>n, <2>0, <2>1, <4>1, <4>2, NoCallAssumption DEF TypeOK
      <3> QED BY <2>1, <3>1 DEF Tracked
    <2> QED BY <2>2, <2>3, <2>4
  <1>12. ASSUME ShutdownEnds PROVE Rest'
    <2>1. /\ entry' = [m \in Mobiles |-> NoCall] /\ down' = "down"
          /\ UNCHANGED <<tears, pc, mob, conn>>
      BY <1>12 DEF ShutdownEnds
    <2>2. OneTarget'
      BY <2>1 DEF SingleInv, OneTarget
    <2>3. Cleared'
      BY <1>n, <2>1 DEF SingleInv, Cleared
    <2>4. Tracked'
      BY <2>1 DEF Tracked
    <2> QED BY <2>2, <2>3, <2>4
  <1>13. ASSUME UNCHANGED vars PROVE Rest'
    BY <1>s, <1>k, <1>13 DEF vars, Alive, Late
  <1>14. ASSUME NEW c \in Calls PROVE ~Reconnect(c)
    BY <1>n DEF Reconnect
  <1>15. Rest'
    BY <1>1, <1>2, <1>3, <1>4, <1>5, <1>6, <1>7, <1>8, <1>9, <1>10, <1>11, <1>12, <1>13,
       <1>14, <1>c DEF Next, CallStep
  <1> QED BY <1>0, <1>i, <1>15 DEF SingleInv

LEMMA SingleInvariant == Spec => [](Unforced => SingleInv)
  <1>1. Init => (Unforced => SingleInv)
    <2> SUFFICES ASSUME Init, Unforced PROVE SingleInv
      OBVIOUS
    <2>1. Unconnected /\ Tracked /\ \A c \in Calls : ~Alive(c)
      BY DEF Init, Unconnected, Tracked, Alive
    <2>2. OneTarget /\ Cleared
      BY DEF Init, OneTarget, Cleared
    <2>3. Owned
      BY DEF Init, Owned, Building
    <2> QED BY <2>1, <2>2, <2>3 DEF SingleInv
  <1>2. TypeOK /\ (Unforced => SingleInv) /\ [Next]_vars => (Unforced => SingleInv)'
    BY SingleStep, ForceFixed
  <1> QED BY <1>1, <1>2, TypeCorrect, PTL DEF Spec

\* Only the end of another client's teardown (unregisterClient's finally block)
\* makes a living connection unfindable: until shutdown clears the map, any other is
\* registered or still being built.
THEOREM NothingLeaks == Spec => []NoLeak
  <1>1. (Unforced => SingleInv) => NoLeak
    BY DEF SingleInv, Tracked, NoLeak, Building
  <1> QED BY <1>1, SingleInvariant, PTL

\* And only then is a session connected twice from one process before shutdown.
THEOREM OneConnection == Spec => []SingleConnection
  <1>1. ASSUME SingleInv,
               NEW c \in Calls \ astray, NEW d \in Calls \ astray,
               Alive(c), Alive(d), mob[c] = mob[d], down # "down"
        PROVE  c = d
    <2>1. \A k \in Calls : pc[k] = "validating" => inFlight[mob[k]] = k
      BY <1>1 DEF SingleInv, Owned, Building
    <2>2. \A k \in Calls \ astray : Alive(k) =>
              pc[k] = "validating" \/ entry[mob[k]] = k
      BY <1>1 DEF SingleInv, Tracked
    <2>3. \A k \in Calls : pc[k] = "validating" => entry[mob[k]] \in {k, NoCall}
      BY <1>1 DEF SingleInv, Cleared
    <2> QED BY <1>1, <2>1, <2>2, <2>3, NoCallAssumption
  <1>2. (Unforced => SingleInv) => SingleConnection
    BY <1>1 DEF SingleConnection
  <1> QED BY <1>2, SingleInvariant, PTL

-----------------------------------------------------------------------------
(* Every call moves on, and none waits for a call that waits: no assumption. *)

JoinInv == InFlightRuns /\ JoinsRunning

\* Only the call that takes a step changes its place.
LEMMA CallFrame ==
    ASSUME TypeOK, NEW c \in Calls, CallStep(c), NEW d \in Calls, d # c
    PROVE  pc'[d] = pc[d] /\ wait'[d] = wait[d] /\ victims'[d] = victims[d]
  <1>1. pc'[d] = pc[d]
    <2>1. \/ pc' = pc
          \/ \E l : Goto(c, l)
      BY DEF CallStep, Reconnect, Refuse, StartEviction, Evict, LimitReached, GetClient,
         Proceed, JoinEnds, Closed, UserMissing, RegisterNew, Connect, Validate,
         BuildFails, DropFailed, FailBuild
    <2> QED BY <2>1 DEF TypeOK, Goto
  <1>2. wait'[d] = wait[d] /\ victims'[d] = victims[d]
    BY DEF TypeOK, calls, CallStep, Reconnect, Refuse, StartEviction, Evict,
       LimitReached, GetClient, Proceed, JoinEnds, Closed, UserMissing, RegisterNew,
       Connect, Validate, BuildFails, DropFailed, FailBuild
  <1> QED BY <1>1, <1>2

\* Everything else leaves all of them where they are.
LEMMA OthersFrame ==
    ASSUME \/ \E c \in Calls : GoesIdle(c) \/ LoseConnection(c) \/ RegainConnection(c)
           \/ \E t \in tears : TeardownEnds(t)
           \/ \E m \in Mobiles : Unregister(m) \/ Reap(m)
           \/ Shutdown \/ ShutdownEnds
           \/ UNCHANGED vars
    PROVE  UNCHANGED <<mob, wait, pc, victims, inFlight>>
BY DEF calls, GoesIdle, LoseConnection, RegainConnection, TeardownEnds, Unregister, Reap,
   Shutdown, ShutdownEnds, vars

\* What one call may do: join a build that runs, start one, or move on inside it.
LEMMA CallMoves ==
    ASSUME TypeOK, NEW c \in Calls, CallStep(c)
    PROVE  /\ mob' = mob
           /\ \/ /\ pc[c] \in {"idle", "reconnecting", "evicting"} /\ pc'[c] = "joined"
                 /\ wait'[c] = inFlight[mob[c]] /\ inFlight[mob[c]] # NoCall
                 /\ inFlight' = inFlight
              \/ /\ pc[c] \in {"idle", "reconnecting", "evicting"} /\ Building(c)'
                 /\ inFlight' = [inFlight EXCEPT ![mob[c]] = c]
              \/ /\ Building(c) /\ pc'[c] \in {"done", "failed"}
                 /\ inFlight' = Settled(c)
              \/ /\ Building(c) /\ Building(c)' /\ inFlight' = inFlight
              \/ /\ ~Building(c) /\ pc[c] \notin {"done", "failed"} /\ ~Building(c)'
                 /\ pc'[c] # "joined" /\ inFlight' = inFlight
  <1> USE DEF calls
  <1>1. CASE GetClient(c)
    <2> DEFINE m == mob[c]
    <2>1. pc[c] \in {"idle", "reconnecting", "evicting"} /\ mob' = mob
      BY <1>1 DEF GetClient, Ready
    <2>2. CASE Goto(c, "done") /\ UNCHANGED inFlight
      BY <2>1, <2>2 DEF TypeOK, Goto, Building
    <2>3. CASE /\ inFlight[m] # NoCall
               /\ wait' = [wait EXCEPT ![c] = inFlight[m]]
               /\ Goto(c, "joined") /\ UNCHANGED inFlight
      BY <2>1, <2>3 DEF TypeOK, Goto
    <2>4. CASE /\ inFlight' = [inFlight EXCEPT ![m] = c]
               /\ Goto(c, IF entry[m] = NoCall THEN "searching" ELSE "closing")
      BY <2>1, <2>4 DEF TypeOK, Goto, Building
    <2> QED BY <1>1, <2>2, <2>3, <2>4 DEF GetClient, Proceed
  <1>2. CASE UserMissing(c) \/ Validate(c) \/ FailBuild(c)
    BY <1>2 DEF TypeOK, UserMissing, Validate, FailBuild, Goto, Building
  <1>3. CASE Closed(c) \/ RegisterNew(c) \/ Connect(c) \/ BuildFails(c) \/ DropFailed(c)
    BY <1>3 DEF TypeOK, Closed, RegisterNew, Connect, BuildFails, DropFailed, Goto, Building
  <1>4. CASE Reconnect(c) \/ Refuse(c) \/ StartEviction(c) \/ Evict(c) \/ LimitReached(c)
    BY <1>4 DEF TypeOK, Reconnect, Refuse, StartEviction, Evict, LimitReached, Ready,
       Goto, Building
  <1>5. CASE JoinEnds(c)
    BY <1>5 DEF TypeOK, JoinEnds, Goto, Building
  <1> QED BY <1>1, <1>2, <1>3, <1>4, <1>5 DEF CallStep

LEMMA JoinStep == TypeOK /\ JoinInv /\ [Next]_vars => JoinInv'
  <1> SUFFICES ASSUME TypeOK, JoinInv, [Next]_vars PROVE JoinInv'
    OBVIOUS
  <1> DEFINE Builds(c) == pc'[c] \in {"closing", "searching", "connecting", "validating",
                                      "reporting", "dropping"}
  <1>1. ASSUME NEW c \in Calls, CallStep(c) PROVE JoinInv'
    <2>0. \A d \in Calls : d # c => pc'[d] = pc[d] /\ wait'[d] = wait[d]
      BY <1>1, CallFrame
    <2>1. /\ mob' = mob /\ mob[c] \in Mobiles
          /\ inFlight \in [Mobiles -> Calls \cup {NoCall}]
      BY <1>1, CallMoves DEF TypeOK
    <2>2. InFlightRuns'
      <3> SUFFICES ASSUME NEW m \in Mobiles, NEW b, b = inFlight'[m], b # NoCall
                   PROVE  Builds(b) /\ mob[b] = m
        BY <2>1 DEF InFlightRuns, Building
      <3>0. b = inFlight[m] => b \in Calls /\ Building(b) /\ mob[b] = m
        BY <2>1 DEF JoinInv, InFlightRuns
      <3>1. b \in {inFlight[m], c} /\ (b # inFlight[m] => m = mob[c])
        BY <1>1, <2>1, CallMoves DEF Settled
      <3>2. CASE b # c
        BY <2>0, <3>0, <3>1, <3>2 DEF Building
      <3>3. CASE b = c /\ m # mob[c]
        BY <3>0, <3>1, <3>3
      <3>4. CASE b = c /\ m = mob[c]
        <4>1. inFlight' = Settled(c) => inFlight'[m] # c
          BY <2>1, <3>4, NoCallAssumption DEF Settled
        <4>2. inFlight' = inFlight => Building(c)
          BY <3>0, <3>4
        <4>3. Building(c)'
          BY <1>1, <3>4, <4>1, <4>2, CallMoves DEF Building
        <4> QED BY <3>4, <4>3 DEF Building
      <3> QED BY <3>2, <3>3, <3>4
    <2>3. JoinsRunning'
      <3> SUFFICES ASSUME NEW d \in Calls, pc'[d] = "joined", NEW b, b = wait'[d]
                   PROVE  /\ b \in Calls
                          /\ mob[b] = mob[d]
                          /\ Builds(b) \/ pc'[b] \in {"done", "failed"}
        BY <2>1 DEF JoinsRunning, Building
      <3>1. CASE d = c
        <4>1. b = inFlight[mob[c]] /\ b # NoCall /\ ~Building(c)
          BY <1>1, <3>1, CallMoves DEF Building
        <4>2. b \in Calls /\ Building(b) /\ mob[b] = mob[c]
          BY <2>1, <4>1 DEF JoinInv, InFlightRuns
        <4> QED BY <2>0, <3>1, <4>1, <4>2 DEF Building
      <3>2. CASE d # c
        <4>1. /\ b \in Calls /\ mob[b] = mob[d]
              /\ Building(b) \/ pc[b] \in {"done", "failed"}
          BY <2>0, <3>2 DEF JoinInv, JoinsRunning
        <4>2. CASE b = c
          BY <1>1, <4>1, <4>2, CallMoves DEF Building
        <4>3. CASE b # c
          BY <2>0, <4>1, <4>3 DEF Building
        <4> QED BY <4>1, <4>2, <4>3
      <3> QED BY <3>1, <3>2
    <2> QED BY <2>2, <2>3 DEF JoinInv
  <1>2. ASSUME UNCHANGED <<mob, wait, pc, inFlight>> PROVE JoinInv'
    BY <1>2 DEF JoinInv, InFlightRuns, JoinsRunning, Building
  <1> QED BY <1>1, <1>2, OthersFrame DEF Next

\* Whoever joins a build waits for one that runs or has been answered, however
\* many reconnects are forced and however late teardowns end: no two getClient
\* calls can wait for each other.
THEOREM JoinsAnswered == Spec => []JoinsRunning
  <1>1. Init => JoinInv
    BY DEF Init, JoinInv, InFlightRuns, JoinsRunning
  <1>2. JoinInv => JoinsRunning
    BY DEF JoinInv
  <1> QED BY <1>1, <1>2, TypeCorrect, JoinStep, PTL DEF Spec

LEMMA CallAdvance ==
    ASSUME TypeOK, NEW c \in Calls, CallStep(c),
           pc'[c] # pc[c] \/ victims'[c] # victims[c]
    PROVE  \/ Place[pc'[c]] > Place[pc[c]]
           \/ /\ pc'[c] = "evicting" /\ pc[c] = "evicting"
              /\ victims'[c] \subseteq victims[c]
  <1>1. CASE GetClient(c)
    <2>1. pc[c] \in {"idle", "reconnecting", "evicting"}
      BY <1>1 DEF GetClient, Ready
    <2>2. pc'[c] \in {"done", "joined", "searching", "closing"}
      <3>1. \E l \in {"done", "joined", "searching", "closing"} : Goto(c, l)
        BY <1>1 DEF GetClient, Proceed
      <3> QED BY <3>1 DEF TypeOK, Goto
    <2> QED BY <2>1, <2>2 DEF Place
  <1>2. CASE Evict(c)
    BY <1>2 DEF TypeOK, Evict
  <1>3. CASE ~GetClient(c) /\ ~Evict(c)
    <2>1. \/ pc[c] = "idle" /\ pc'[c] = "reconnecting"
          \/ /\ pc[c] \in {"idle", "reconnecting"}
             /\ pc'[c] \in {"failed", "evicting"}
          \/ pc[c] = "evicting" /\ pc'[c] = "failed"
          \/ pc[c] = "joined" /\ pc'[c] \in {"done", "failed"}
          \/ pc[c] = "closing" /\ pc'[c] = "searching"
          \/ pc[c] = "searching" /\ pc'[c] \in {"failed", "connecting"}
          \/ pc[c] = "connecting" /\ pc'[c] \in {"validating", "reporting"}
          \/ pc[c] = "validating" /\ pc'[c] \in {"done", "reporting"}
          \/ pc[c] = "reporting" /\ pc'[c] = "dropping"
          \/ pc[c] = "dropping" /\ pc'[c] = "failed"
      BY <1>3 DEF TypeOK, CallStep, Reconnect, Refuse, StartEviction, LimitReached,
         JoinEnds, Closed, UserMissing, RegisterNew, Connect, Validate, BuildFails,
         DropFailed, FailBuild, Ready, Goto
    <2> QED BY <2>1 DEF Place
  <1> QED BY <1>1, <1>2, <1>3

\* A call only moves forward, down to its last victim: with JoinsAnswered and
\* calls that do not stop half-way, every one of them is answered.
THEOREM CallsForward == Spec => CallsAdvance
  <1>1. ASSUME TypeOK, [Next]_vars
        PROVE  \A c \in Calls :
                  pc'[c] # pc[c] \/ victims'[c] # victims[c] =>
                      \/ Place[pc'[c]] > Place[pc[c]]
                      \/ /\ pc'[c] = "evicting" /\ pc[c] = "evicting"
                         /\ victims'[c] \subseteq victims[c]
    <2> SUFFICES ASSUME NEW c \in Calls, pc'[c] # pc[c] \/ victims'[c] # victims[c]
                 PROVE  \/ Place[pc'[c]] > Place[pc[c]]
                        \/ /\ pc'[c] = "evicting" /\ pc[c] = "evicting"
                           /\ victims'[c] \subseteq victims[c]
      OBVIOUS
    <2>1. CallStep(c)
      BY <1>1, CallFrame, OthersFrame DEF Next
    <2> QED BY <1>1, <2>1, CallAdvance
  <1> QED BY <1>1, TypeCorrect, PTL DEF Spec, CallsAdvance
=============================================================================
