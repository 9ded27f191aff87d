--------------------------- MODULE Signup_proofs ---------------------------
(***************************************************************************)
(* Theorems about Signup, for every number of calls, sessions and clients. *)
(***************************************************************************)
EXTENDS Signup, TLAPS

(* A task that runs holds the phone's lock.                                *)
LockHeld == \A c \in Calls : call[c].pc \in Inside => holder = c

(* The pcs at which a call works on the session it found.                  *)
InSession == {"connect", "rebuild", "resend", "signin", "signup", "params",
              "password", "store"}

(* Sessions in use have a client, and so has a fresh send that asks.       *)
Equipped ==
    /\ active # None => sess[active].client \in Clients
    /\ \A c \in Calls :
          /\ call[c].pc \in InSession =>
                /\ call[c].session \in Sessions
                /\ sess[call[c].session].client \in Clients
          /\ call[c].pc = "ask" => call[c].client \in Clients

(* CallMatchesStage, from the moment the call chose what to ask for.       *)
StageHeld ==
    /\ CallMatchesStage
    /\ \A c \in Calls :
          call[c].pc \in {"connect", "rebuild"} /\ call[c].op = "send" =>
              sess[call[c].session].stage = "code"

(* A call that will ask for a code has met no rejection.                   *)
WillAsk(c) ==
    \/ call[c].pc \in {"build", "ask", "resend"}
    \/ call[c].pc \in {"connect", "rebuild"} /\ call[c].op = "send"
    \/ call[c].pc \in {"drop", "dropping"} /\ call[c].then = "build"

Unrejected ==
    \A c \in Calls :
        /\ call[c].pc = "begin" => call[c].err = "none"
        /\ WillAsk(c) => reject = "none" /\ call[c].err = "none"

(* Who owns the connected clients, as long as no teardown and no call have *)
(* overlapped.                                                             *)
Dark == active # None => ~link[sess[active].client]

Owned ==
    /\ \A k \in Clients : link[k] =>
          \/ active # None /\ sess[active].client = k
          \/ \E c \in Calls : call[c].pc = "ask" /\ call[c].client = k
    /\ tearing # {} => Dark /\ \A c \in Calls : call[c].pc \notin Inside
    /\ \A c \in Calls :
          /\ call[c].pc \in InSession => call[c].session = active
          /\ call[c].pc \in {"dropping", "rebuild"} => Dark
          /\ call[c].pc \in {"build", "ask"} => active = None

OwnedUnlessOverlapped == overlapped \/ Owned

IInv ==
    /\ TypeOK
    /\ LockHeld
    /\ Equipped
    /\ StageHeld
    /\ Unrejected
    /\ SessionsExpire
    /\ OwnedUnlessOverlapped

-----------------------------------------------------------------------------
(* Well-formed records in place of well-formed records.                    *)
LEMMA Names ==
    /\ Inside \subseteq PCs
    /\ {"joined", "begin", "idle"} \subseteq PCs
    /\ {"connect", "rebuild", "resend", "drop", "dropping", "build", "ask",
        "signin", "signup", "params", "password", "store", "answer"}
          \subseteq PCs
    /\ {"none", "cached", "flood", "banned", "other"} = Errors
BY DEF PCs, Inside, Errors

LEMMA Blanks == Idle \in CallRecords /\ Blank \in SessionRecords
BY DEF Idle, CallRecords, Blank, SessionRecords, PCs, Errors

LEMMA CallSet ==
    ASSUME call \in [Calls -> CallRecords], NEW c \in Calls,
           NEW r \in CallRecords
    PROVE  [call EXCEPT ![c] = r] \in [Calls -> CallRecords]
OBVIOUS

LEMMA MovesTyped ==
    ASSUME call \in [Calls -> CallRecords], NEW c \in Calls,
           NEW to \in PCs, Moves(c, to)
    PROVE  call' \in [Calls -> CallRecords]
BY DEF CallRecords, Moves

LEMMA FailsTyped ==
    ASSUME call \in [Calls -> CallRecords], NEW c \in Calls,
           NEW to \in PCs, NEW e \in Errors, Fails(c, to, e)
    PROVE  call' \in [Calls -> CallRecords]
<1> DEFINE r == [call[c] EXCEPT !.pc = to, !.err = e]
<1>1. r \in CallRecords
  BY DEF CallRecords
<1>2. call' = [call EXCEPT ![c] = r]
  BY DEF Fails
<1> QED BY <1>1, <1>2, CallSet

LEMMA DropsThenTyped ==
    ASSUME call \in [Calls -> CallRecords], NEW c \in Calls,
           NEW to \in {"build", "answer"}, DropsThen(c, to)
    PROVE  call' \in [Calls -> CallRecords]
<1> DEFINE r == [call[c] EXCEPT !.pc = "drop", !.then = to, !.session = None]
<1>1. r \in CallRecords
  BY Names DEF CallRecords
<1>2. call' = [call EXCEPT ![c] = r]
  BY DEF DropsThen
<1> QED BY <1>1, <1>2, CallSet

LEMMA FailsAndDropsTyped ==
    ASSUME call \in [Calls -> CallRecords], NEW c \in Calls,
           NEW e \in Errors, FailsAndDrops(c, e)
    PROVE  call' \in [Calls -> CallRecords]
<1> DEFINE r == [call[c] EXCEPT !.pc = "drop", !.then = "answer", !.err = e,
                                !.session = None]
<1>1. r \in CallRecords
  BY Names DEF CallRecords
<1>2. call' = [call EXCEPT ![c] = r]
  BY DEF FailsAndDrops
<1> QED BY <1>1, <1>2, CallSet

LEMMA FieldsTyped ==
    ASSUME sess \in [Sessions -> SessionRecords], NEW s
    PROVE  /\ \A v \in BOOLEAN :
                [sess EXCEPT ![s].armed = v] \in [Sessions -> SessionRecords]
           /\ \A v \in {"code", "password"} :
                [sess EXCEPT ![s].stage = v] \in [Sessions -> SessionRecords]
           /\ \A v \in Clients :
                [sess EXCEPT ![s].client = v] \in [Sessions -> SessionRecords]
           /\ \A v \in Clients \cup {None} :
                [sess EXCEPT ![s] = [Blank EXCEPT !.client = v, !.armed = TRUE]]
                    \in [Sessions -> SessionRecords]
BY DEF SessionRecords, Blank

(* Types: the calls first, then everything else.                           *)
LEMMA CallsTypedStep ==
    ASSUME TypeOK, [Next]_vars
    PROVE  call' \in [Calls -> CallRecords]
<1> USE NoneIsNothing, Names
<1>0. /\ call \in [Calls -> CallRecords]
      /\ active \in Sessions \cup {None}
  BY DEF TypeOK
<1>1. ASSUME NEW c \in Calls, SendArrives(c)
      PROVE  call' \in [Calls -> CallRecords]
  <2>1. CASE inflight # None
    BY <1>0, <1>1, <2>1, MovesTyped DEF SendArrives
  <2>2. CASE inflight = None
    <3> DEFINE r == [Idle EXCEPT !.pc = "begin"]
    <3>1. r \in CallRecords
      BY Blanks DEF CallRecords
    <3>2. call' = [call EXCEPT ![c] = r]
      BY <1>1, <2>2 DEF SendArrives
    <3> QED BY <1>0, <3>1, <3>2, CallSet
  <2> QED BY <2>1, <2>2
<1>2. ASSUME NEW c \in Calls, VerifyArrives(c)
      PROVE  call' \in [Calls -> CallRecords]
  <2> DEFINE r == [Idle EXCEPT !.op = "verify", !.pc = "begin"]
  <2>1. r \in CallRecords
    BY <1>0, <1>2, Blanks DEF VerifyArrives, CallRecords
  <2>2. call' = [call EXCEPT ![c] = r]
    BY <1>2 DEF VerifyArrives
  <2> QED BY <1>0, <2>1, <2>2, CallSet
<1>3. ASSUME NEW c \in Calls, SendRefused(c)
      PROVE  call' \in [Calls -> CallRecords]
  BY <1>0, <1>3, FailsAndDropsTyped DEF SendRefused
<1>4. ASSUME NEW c \in Calls, SendCooling(c)
      PROVE  call' \in [Calls -> CallRecords]
  BY <1>0, <1>4, MovesTyped DEF SendCooling
<1>5. ASSUME NEW c \in Calls, SendAgain(c)
      PROVE  call' \in [Calls -> CallRecords]
  <2> DEFINE r == [call[c] EXCEPT !.pc = "connect", !.session = active]
  <2>1. r \in CallRecords
    BY <1>0, <1>5, Blanks DEF SendAgain, CallRecords
  <2>2. call' = [call EXCEPT ![c] = r]
    BY <1>5 DEF SendAgain
  <2> QED BY <1>0, <2>1, <2>2, CallSet
<1>6. ASSUME NEW c \in Calls, SendFresh(c)
      PROVE  call' \in [Calls -> CallRecords]
  BY <1>0, <1>6, DropsThenTyped DEF SendFresh
<1>7. ASSUME NEW c \in Calls, Resent(c)
      PROVE  call' \in [Calls -> CallRecords]
  BY <1>0, <1>7, MovesTyped DEF Resent
<1>8. ASSUME NEW c \in Calls, ResendFails(c)
      PROVE  call' \in [Calls -> CallRecords]
  BY <1>0, <1>8, FailsTyped, FailsAndDropsTyped, DropsThenTyped DEF ResendFails
<1>9. ASSUME NEW c \in Calls, BuildConnects(c)
      PROVE  call' \in [Calls -> CallRecords]
  <2>1. PICK k \in Clients :
              call' = [call EXCEPT ![c].pc = "ask", ![c].client = k]
    BY <1>9 DEF BuildConnects
  <2> DEFINE r == [call[c] EXCEPT !.pc = "ask", !.client = k]
  <2>2. r \in CallRecords
    BY ZenonT(60), <1>0 DEF CallRecords
  <2>3. call' = [call EXCEPT ![c] = r]
    BY <2>1
  <2> QED BY <1>0, <2>2, <2>3, CallSet
<1>10. ASSUME NEW c \in Calls, BuildFails(c)
      PROVE  call' \in [Calls -> CallRecords]
  BY <1>0, <1>10, FailsAndDropsTyped DEF BuildFails
<1>11. ASSUME NEW c \in Calls, AskedFresh(c)
      PROVE  call' \in [Calls -> CallRecords]
  BY <1>0, <1>11, MovesTyped DEF AskedFresh
<1>12. ASSUME NEW c \in Calls, AskFails(c)
      PROVE  call' \in [Calls -> CallRecords]
  <2>1. PICK e \in Errors :
              call' = [call EXCEPT ![c].pc = "drop", ![c].then = "answer",
                                   ![c].err = e, ![c].client = None]
    BY <1>12 DEF AskFails
  <2> DEFINE r == [call[c] EXCEPT !.pc = "drop", !.then = "answer",
                                  !.err = e, !.client = None]
  <2> DEFINE q == [call[c] EXCEPT !.pc = "drop", !.then = "answer"]
  <2>2. q \in CallRecords
    BY ZenonT(60), <1>0 DEF CallRecords
  <2>3. r = [q EXCEPT !.err = e, !.client = None]
    OBVIOUS
  <2>4. r \in CallRecords
    <3> HIDE DEF q, r
    <3> QED BY <2>2, <2>3 DEF CallRecords
  <2>5. call' = [call EXCEPT ![c] = r]
    BY <2>1
  <2> QED BY <1>0, <2>4, <2>5, CallSet
<1>13. ASSUME NEW c \in Calls, VerifyRefused(c)
      PROVE  call' \in [Calls -> CallRecords]
  BY <1>0, <1>13, FailsTyped DEF VerifyRefused
<1>14. ASSUME NEW c \in Calls, VerifyStarts(c)
      PROVE  call' \in [Calls -> CallRecords]
  <2> DEFINE r == [call[c] EXCEPT !.pc = "connect", !.session = active]
  <2>1. r \in CallRecords
    BY <1>0, <1>14, Blanks DEF VerifyStarts, CallRecords
  <2>2. call' = [call EXCEPT ![c] = r]
    BY <1>14 DEF VerifyStarts
  <2> QED BY <1>0, <2>1, <2>2, CallSet
<1>15. ASSUME NEW c \in Calls, SignIn(c)
      PROVE  call' \in [Calls -> CallRecords]
  BY <1>0, <1>15, MovesTyped, FailsTyped, FailsAndDropsTyped DEF SignIn
<1>16. ASSUME NEW c \in Calls, FetchParams(c)
      PROVE  call' \in [Calls -> CallRecords]
  BY <1>0, <1>16, MovesTyped DEF FetchParams
<1>17. ASSUME NEW c \in Calls, Accepted(c)
      PROVE  call' \in [Calls -> CallRecords]
  BY <1>0, <1>17, MovesTyped DEF Accepted
<1>18. ASSUME NEW c \in Calls, NotAccepted(c)
      PROVE  call' \in [Calls -> CallRecords]
  BY <1>0, <1>18, FailsTyped, FailsAndDropsTyped DEF NotAccepted
<1>19. ASSUME NEW c \in Calls, Store(c)
      PROVE  call' \in [Calls -> CallRecords]
  BY <1>0, <1>19, DropsThenTyped, FailsTyped DEF Store
<1>20. ASSUME NEW c \in Calls, ClientConnects(c)
      PROVE  call' \in [Calls -> CallRecords]
  BY <1>0, <1>20, MovesTyped DEF ClientConnects, Onward
<1>21. ASSUME NEW c \in Calls, ConnectFails(c)
      PROVE  call' \in [Calls -> CallRecords]
  BY <1>0, <1>21, MovesTyped DEF ConnectFails
<1>22. ASSUME NEW c \in Calls, RebuildConnects(c)
      PROVE  call' \in [Calls -> CallRecords]
  BY <1>0, <1>22, MovesTyped DEF RebuildConnects, Onward
<1>23. ASSUME NEW c \in Calls, RebuildFails(c)
      PROVE  call' \in [Calls -> CallRecords]
  BY <1>0, <1>23, DropsThenTyped, FailsTyped, FailsAndDropsTyped DEF RebuildFails
<1>24. ASSUME NEW c \in Calls, DropStarts(c)
      PROVE  call' \in [Calls -> CallRecords]
  <2>1. CASE active = None
    <3>1. call[c].then \in PCs
      BY <1>0 DEF CallRecords
    <3> QED BY <1>0, <1>24, <2>1, <3>1, MovesTyped DEF DropStarts
  <2>2. CASE active # None
    <3> DEFINE r == [call[c] EXCEPT !.pc = "dropping", !.victim = active]
    <3>1. r \in CallRecords
      BY ZenonT(60), <1>0, <2>2 DEF CallRecords
    <3>2. call' = [call EXCEPT ![c] = r]
      BY <1>24, <2>2 DEF DropStarts
    <3> QED BY <1>0, <3>1, <3>2, CallSet
  <2> QED BY <2>1, <2>2
<1>25. ASSUME NEW c \in Calls, DropEnds(c)
      PROVE  call' \in [Calls -> CallRecords]
  <2> DEFINE r == [call[c] EXCEPT !.pc = call[c].then, !.victim = None]
  <2>1. r \in CallRecords
    BY <1>0, <1>25, Blanks DEF DropEnds, CallRecords
  <2>2. call' = [call EXCEPT ![c] = r]
    BY <1>25 DEF DropEnds
  <2> QED BY <1>0, <2>1, <2>2, CallSet
<1>26. ASSUME NEW c \in Calls, Answer(c)
      PROVE  call' \in [Calls -> CallRecords]
  BY <1>0, <1>26, Blanks DEF Answer
<1>27. CASE Restart
  BY <1>27, Blanks DEF Restart
<1>28. CASE (Outside /\ ~Restart) \/ UNCHANGED vars
  BY <1>0, <1>28 DEF Outside, TimerFires, TeardownEnds, ConnectionLost,
     CleanupStale, RejectionEnds, vars
<1> QED
  BY <1>1, <1>2, <1>3, <1>4, <1>5, <1>6, <1>7, <1>8, <1>9, <1>10, <1>11,
     <1>12, <1>13, <1>14, <1>15, <1>16, <1>17, <1>18, <1>19, <1>20, <1>21,
     <1>22, <1>23, <1>24, <1>25, <1>26, <1>27, <1>28
     DEF Next, Arrives, Sends, Verifies, Shared, Step

TypedRest ==
    /\ active \in Sessions \cup {None}
    /\ sess \in [Sessions -> SessionRecords]
    /\ link \in [Clients -> BOOLEAN]
    /\ holder \in Calls \cup {None}
    /\ queue \in Seq(Calls)
    /\ inflight \in Calls \cup {None}
    /\ tearing \in SUBSET (Sources \X Sessions)
    /\ reject \in {"none", "flood", "banned"}
    /\ overlapped \in BOOLEAN

LEMMA TornTyped ==
    ASSUME TypeOK, active \in Sessions, NEW source \in Sources,
           TearsDown(source)
    PROVE  /\ link' \in [Clients -> BOOLEAN]
           /\ tearing' \in SUBSET (Sources \X Sessions)
           /\ overlapped' \in BOOLEAN
<1>1. <<source, active>> \in Sources \X Sessions
  OBVIOUS
<1>2. overlapped' = (overlapped \/ holder # None)
  BY DEF TearsDown
<1> QED BY <1>1, <1>2 DEF TypeOK, TearsDown

LEMMA RestTypedStep ==
    ASSUME TypeOK, [Next]_vars
    PROVE  TypedRest'
<1> USE NoneIsNothing DEF TypeOK, TypedRest, Sources
<1>1. ASSUME NEW c \in Calls, SendArrives(c)
      PROVE  TypedRest'
  <2>1. CASE inflight # None
    BY <1>1, <2>1 DEF SendArrives
  <2>2. CASE inflight = None
    <3>1. holder' \in Calls \cup {None} /\ queue' \in Seq(Calls)
      <4>1. Locks(c)
        BY <1>1, <2>2 DEF SendArrives
      <4>2. CASE holder = None
        BY <4>1, <4>2 DEF Locks
      <4>3. CASE holder # None
        BY <4>1, <4>3 DEF Locks
      <4> QED BY <4>2, <4>3
    <3> QED BY <1>1, <2>2, <3>1 DEF SendArrives
  <2> QED BY <2>1, <2>2
<1>2. ASSUME NEW c \in Calls, VerifyArrives(c)
      PROVE  TypedRest'
  BY SMTT(30), <1>2 DEF VerifyArrives, Locks
<1>3. ASSUME NEW c \in Calls, SendRefused(c)
      PROVE  TypedRest'
  BY <1>3 DEF SendRefused, Enters, Holds
<1>4. ASSUME NEW c \in Calls, SendCooling(c)
      PROVE  TypedRest'
  BY <1>4, FieldsTyped DEF SendCooling, Enters, Holds, Resendable, Refreshed
<1>5. ASSUME NEW c \in Calls, SendAgain(c)
      PROVE  TypedRest'
  BY <1>5, FieldsTyped DEF SendAgain, Enters, Holds, Resendable, Refreshed
<1>6. ASSUME NEW c \in Calls, SendFresh(c)
      PROVE  TypedRest'
  BY <1>6 DEF SendFresh, Enters, Holds, Resendable
<1>7. ASSUME NEW c \in Calls, Resent(c)
      PROVE  TypedRest'
  BY <1>7, FieldsTyped DEF Resent, CodeSent
<1>8. ASSUME NEW c \in Calls, ResendFails(c)
      PROVE  TypedRest'
  BY <1>8 DEF ResendFails
<1>9. ASSUME NEW c \in Calls, BuildConnects(c)
      PROVE  TypedRest'
  BY <1>9 DEF BuildConnects
<1>10. ASSUME NEW c \in Calls, BuildFails(c)
      PROVE  TypedRest'
  BY <1>10 DEF BuildFails
<1>11. ASSUME NEW c \in Calls, AskedFresh(c)
      PROVE  TypedRest'
  <2>1. call[c].client \in Clients \cup {None}
    BY DEF CallRecords
  <2>2. PICK s \in Sessions : sess' = Registered(s, call[c].client) /\ active' = s
    BY <1>11 DEF AskedFresh
  <2>3. sess' \in [Sessions -> SessionRecords]
    BY <2>1, <2>2, FieldsTyped DEF Registered
  <2> QED BY <1>11, <2>2, <2>3 DEF AskedFresh
<1>12. ASSUME NEW c \in Calls, AskFails(c)
      PROVE  TypedRest'
  BY <1>12 DEF AskFails
<1>13. ASSUME NEW c \in Calls, VerifyRefused(c)
      PROVE  TypedRest'
  BY <1>13 DEF VerifyRefused, Enters, Holds
<1>14. ASSUME NEW c \in Calls, VerifyStarts(c)
      PROVE  TypedRest'
  BY <1>14, FieldsTyped DEF VerifyStarts, Enters, Holds, Refreshed
<1>15. ASSUME NEW c \in Calls, SignIn(c)
      PROVE  TypedRest'
  <2>1. sess' \in [Sessions -> SessionRecords]
    <3>1. \/ sess' = sess
          \/ sess' = [sess EXCEPT ![call[c].session].stage = "password"]
      BY <1>15 DEF SignIn
    <3>2. [sess EXCEPT ![call[c].session].stage = "password"]
              \in [Sessions -> SessionRecords]
      BY FieldsTyped
    <3> QED BY <3>1, <3>2
  <2> QED BY <1>15, <2>1 DEF SignIn
<1>16. ASSUME NEW c \in Calls, FetchParams(c)
      PROVE  TypedRest'
  BY <1>16 DEF FetchParams
<1>17. ASSUME NEW c \in Calls, Accepted(c)
      PROVE  TypedRest'
  BY <1>17 DEF Accepted
<1>18. ASSUME NEW c \in Calls, NotAccepted(c)
      PROVE  TypedRest'
  BY <1>18 DEF NotAccepted
<1>19. ASSUME NEW c \in Calls, Store(c)
      PROVE  TypedRest'
  BY <1>19 DEF Store
<1>20. ASSUME NEW c \in Calls, ClientConnects(c)
      PROVE  TypedRest'
  BY <1>20 DEF ClientConnects, Onward
<1>21. ASSUME NEW c \in Calls, ConnectFails(c)
      PROVE  TypedRest'
  BY <1>21 DEF ConnectFails
<1>22. ASSUME NEW c \in Calls, RebuildConnects(c)
      PROVE  TypedRest'
  <2>1. PICK k \in Clients :
              /\ link' = [link EXCEPT ![k] = TRUE]
              /\ sess' = [sess EXCEPT ![call[c].session].client = k]
    BY <1>22 DEF RebuildConnects
  <2>2. sess' \in [Sessions -> SessionRecords]
    BY <2>1, FieldsTyped
  <2>3. link' \in [Clients -> BOOLEAN]
    BY <2>1
  <2> QED BY <1>22, <2>2, <2>3 DEF RebuildConnects
<1>23. ASSUME NEW c \in Calls, RebuildFails(c)
      PROVE  TypedRest'
  BY <1>23 DEF RebuildFails
<1>24. ASSUME NEW c \in Calls, DropStarts(c)
      PROVE  TypedRest'
  <2>1. sess' \in [Sessions -> SessionRecords]
    <3>1. sess' = sess \/ sess' = [sess EXCEPT ![active].armed = FALSE]
      BY <1>24 DEF DropStarts
    <3>2. [sess EXCEPT ![active].armed = FALSE]
              \in [Sessions -> SessionRecords]
      BY FieldsTyped
    <3> QED BY <3>1, <3>2
  <2>2. link' \in [Clients -> BOOLEAN]
    BY <1>24 DEF DropStarts
  <2> QED BY <1>24, <2>1, <2>2 DEF DropStarts
<1>25. ASSUME NEW c \in Calls, DropEnds(c)
      PROVE  TypedRest'
  BY <1>25 DEF DropEnds
<1>26. ASSUME NEW c \in Calls, Answer(c)
      PROVE  TypedRest'
  <2>1. holder' \in Calls \cup {None} /\ queue' \in Seq(Calls)
    <3>1. CASE queue = <<>>
      BY <1>26, <3>1 DEF Answer, PassesOn
    <3>2. CASE queue # <<>>
      <4>1. Head(queue) \in Calls /\ Tail(queue) \in Seq(Calls)
        BY <3>2
      <4> QED BY <1>26, <3>2, <4>1 DEF Answer, PassesOn
    <3> QED BY <3>1, <3>2
  <2>2. reject' \in {"none", "flood", "banned"}
    BY <1>26 DEF Answer, Remembers
  <2> QED BY <1>26, <2>1, <2>2 DEF Answer
<1>27. ASSUME NEW s \in Sessions, TimerFires(s)
      PROVE  TypedRest'
  <2>1. sess' \in [Sessions -> SessionRecords]
    <3>1. sess' = [sess EXCEPT ![s].armed = FALSE]
      BY <1>27 DEF TimerFires
    <3> QED BY <3>1, FieldsTyped
  <2>2. CASE active = s
    BY <1>27, <2>1, <2>2, TornTyped DEF TimerFires
  <2>3. CASE active # s
    BY <1>27, <2>1, <2>3 DEF TimerFires
  <2> QED BY <2>2, <2>3
<1>28. ASSUME NEW source \in Sources, NEW s \in Sessions, TeardownEnds(source, s)
      PROVE  TypedRest'
  BY <1>28 DEF TeardownEnds
<1>29. ASSUME NEW k \in Clients, ConnectionLost(k)
      PROVE  TypedRest'
  BY <1>29 DEF ConnectionLost
<1>30. ASSUME CleanupStale
      PROVE  TypedRest'
  <2>1. active \in Sessions
    BY <1>30 DEF CleanupStale
  <2> QED BY <1>30, <2>1, TornTyped DEF CleanupStale
<1>31. ASSUME RejectionEnds
      PROVE  TypedRest'
  BY <1>31 DEF RejectionEnds
<1>32. ASSUME Restart
      PROVE  TypedRest'
  <2>1. sess' \in [Sessions -> SessionRecords]
    BY <1>32, Blanks DEF Restart
  <2>2. link' \in [Clients -> BOOLEAN] /\ queue' \in Seq(Calls)
    BY <1>32 DEF Restart
  <2> QED BY <1>32, <2>1, <2>2 DEF Restart
<1>33. CASE UNCHANGED vars
  BY <1>33 DEF vars
<1> QED
  BY <1>1, <1>2, <1>3, <1>4, <1>5, <1>6, <1>7, <1>8, <1>9, <1>10, <1>11,
     <1>12, <1>13, <1>14, <1>15, <1>16, <1>17, <1>18, <1>19, <1>20, <1>21,
     <1>22, <1>23, <1>24, <1>25, <1>26, <1>27, <1>28, <1>29, <1>30, <1>31,
     <1>32, <1>33
     DEF Next, Arrives, Sends, Verifies, Shared, Step, Outside

LEMMA TypedStep ==
    ASSUME TypeOK, [Next]_vars
    PROVE  TypeOK'
BY CallsTypedStep, RestTypedStep DEF TypeOK, TypedRest

(* Only the holder of the lock has a task running.                         *)
LEMMA LockStep ==
    ASSUME TypeOK, LockHeld, [Next]_vars
    PROVE  LockHeld'
<1> USE NoneIsNothing DEF TypeOK, LockHeld, CallRecords, Inside
<1>1. ASSUME NEW c \in Calls, SendArrives(c)
      PROVE  LockHeld'
  BY SMTT(30), <1>1 DEF SendArrives, Moves, Locks, Idle
<1>2. ASSUME NEW c \in Calls, VerifyArrives(c)
      PROVE  LockHeld'
  BY <1>2 DEF VerifyArrives, Locks, Idle
<1>3. ASSUME NEW c \in Calls, SendRefused(c)
      PROVE  LockHeld'
  BY <1>3 DEF SendRefused, Enters, Holds, FailsAndDrops
<1>4. ASSUME NEW c \in Calls, SendCooling(c)
      PROVE  LockHeld'
  BY <1>4 DEF SendCooling, Enters, Holds, Resendable, Refreshed, Moves
<1>5. ASSUME NEW c \in Calls, SendAgain(c)
      PROVE  LockHeld'
  BY <1>5 DEF SendAgain, Enters, Holds, Resendable, Refreshed
<1>6. ASSUME NEW c \in Calls, SendFresh(c)
      PROVE  LockHeld'
  BY <1>6 DEF SendFresh, Enters, Holds, Resendable, DropsThen
<1>7. ASSUME NEW c \in Calls, Resent(c)
      PROVE  LockHeld'
  BY <1>7 DEF Resent, CodeSent, Moves
<1>8. ASSUME NEW c \in Calls, ResendFails(c)
      PROVE  LockHeld'
  BY <1>8 DEF ResendFails, Fails, FailsAndDrops, DropsThen
<1>9. ASSUME NEW c \in Calls, BuildConnects(c)
      PROVE  LockHeld'
  BY <1>9 DEF BuildConnects
<1>10. ASSUME NEW c \in Calls, BuildFails(c)
      PROVE  LockHeld'
  BY <1>10 DEF BuildFails, FailsAndDrops
<1>11. ASSUME NEW c \in Calls, AskedFresh(c)
      PROVE  LockHeld'
  BY <1>11 DEF AskedFresh, Registered, Blank, Moves
<1>12. ASSUME NEW c \in Calls, AskFails(c)
      PROVE  LockHeld'
  BY <1>12 DEF AskFails
<1>13. ASSUME NEW c \in Calls, VerifyRefused(c)
      PROVE  LockHeld'
  BY <1>13 DEF VerifyRefused, Enters, Holds, Fails
<1>14. ASSUME NEW c \in Calls, VerifyStarts(c)
      PROVE  LockHeld'
  BY <1>14 DEF VerifyStarts, Enters, Holds, Refreshed
<1>15. ASSUME NEW c \in Calls, SignIn(c)
      PROVE  LockHeld'
  BY <1>15 DEF SignIn, Moves, Fails, FailsAndDrops
<1>16. ASSUME NEW c \in Calls, FetchParams(c)
      PROVE  LockHeld'
  BY <1>16 DEF FetchParams, Moves
<1>17. ASSUME NEW c \in Calls, Accepted(c)
      PROVE  LockHeld'
  BY <1>17 DEF Accepted, Moves
<1>18. ASSUME NEW c \in Calls, NotAccepted(c)
      PROVE  LockHeld'
  BY <1>18 DEF NotAccepted, Fails, FailsAndDrops
<1>19. ASSUME NEW c \in Calls, Store(c)
      PROVE  LockHeld'
  BY <1>19 DEF Store, DropsThen, Fails
<1>20. ASSUME NEW c \in Calls, ClientConnects(c)
      PROVE  LockHeld'
  BY <1>20 DEF ClientConnects, Onward, Moves
<1>21. ASSUME NEW c \in Calls, ConnectFails(c)
      PROVE  LockHeld'
  BY <1>21 DEF ConnectFails, Moves
<1>22. ASSUME NEW c \in Calls, RebuildConnects(c)
      PROVE  LockHeld'
  BY <1>22 DEF RebuildConnects, Onward, Moves
<1>23. ASSUME NEW c \in Calls, RebuildFails(c)
      PROVE  LockHeld'
  BY <1>23 DEF RebuildFails, DropsThen, Fails, FailsAndDrops
<1>24. ASSUME NEW c \in Calls, DropStarts(c)
      PROVE  LockHeld'
  BY <1>24 DEF DropStarts, Moves
<1>25. ASSUME NEW c \in Calls, DropEnds(c)
      PROVE  LockHeld'
  BY <1>25 DEF DropEnds
<1>26. ASSUME NEW c \in Calls, Answer(c)
      PROVE  LockHeld'
  BY <1>26 DEF Answer, PassesOn, Remembers, Idle
<1>27. ASSUME NEW s \in Sessions, TimerFires(s)
      PROVE  LockHeld'
  BY <1>27 DEF TimerFires, TearsDown
<1>28. ASSUME NEW source \in Sources, NEW s \in Sessions, TeardownEnds(source, s)
      PROVE  LockHeld'
  BY <1>28 DEF TeardownEnds
<1>29. ASSUME NEW k \in Clients, ConnectionLost(k)
      PROVE  LockHeld'
  BY <1>29 DEF ConnectionLost
<1>30. ASSUME CleanupStale
      PROVE  LockHeld'
  BY <1>30 DEF CleanupStale, TearsDown
<1>31. ASSUME RejectionEnds
      PROVE  LockHeld'
  BY <1>31 DEF RejectionEnds
<1>32. ASSUME Restart
      PROVE  LockHeld'
  BY <1>32 DEF Restart, Idle, Blank
<1>33. CASE UNCHANGED vars
  BY <1>33 DEF vars
<1> QED
  BY <1>1, <1>2, <1>3, <1>4, <1>5, <1>6, <1>7, <1>8, <1>9, <1>10, <1>11,
     <1>12, <1>13, <1>14, <1>15, <1>16, <1>17, <1>18, <1>19, <1>20, <1>21,
     <1>22, <1>23, <1>24, <1>25, <1>26, <1>27, <1>28, <1>29, <1>30, <1>31,
     <1>32, <1>33
     DEF Next, Arrives, Sends, Verifies, Shared, Step, Outside

(* A call under way has the objects it works on.                           *)
LEMMA EquippedStep ==
    ASSUME TypeOK, LockHeld, Equipped, [Next]_vars
    PROVE  Equipped'
<1> USE NoneIsNothing DEF TypeOK, CallRecords, Inside, LockHeld, Equipped, InSession, SessionRecords
<1>1. ASSUME NEW c \in Calls, SendArrives(c)
      PROVE  Equipped'
  <2>1. /\ \A x \in Calls : x # c => call'[x] = call[x]
        /\ call[c].pc = "idle" /\ call'[c].pc \in {"joined", "begin"}
    <3>1. CASE inflight # None
      BY <1>1, <3>1 DEF SendArrives, Moves
    <3>2. CASE inflight = None
      BY <1>1, <3>2 DEF SendArrives, Idle
    <3> QED BY <3>1, <3>2
  <2>2. UNCHANGED <<active, sess, link, tearing, overlapped>>
    BY <1>1 DEF SendArrives
  <2> QED BY <2>1, <2>2
<1>2. ASSUME NEW c \in Calls, VerifyArrives(c)
      PROVE  Equipped'
  BY <1>2 DEF VerifyArrives, Locks, Idle
<1>3. ASSUME NEW c \in Calls, SendRefused(c)
      PROVE  Equipped'
  BY <1>3 DEF SendRefused, Enters, Holds, FailsAndDrops
<1>4. ASSUME NEW c \in Calls, SendCooling(c)
      PROVE  Equipped'
  BY <1>4 DEF SendCooling, Enters, Holds, Resendable, Refreshed, Moves
<1>5. ASSUME NEW c \in Calls, SendAgain(c)
      PROVE  Equipped'
  BY <1>5 DEF SendAgain, Enters, Holds, Resendable, Refreshed
<1>6. ASSUME NEW c \in Calls, SendFresh(c)
      PROVE  Equipped'
  BY <1>6 DEF SendFresh, Enters, Holds, Resendable, DropsThen
<1>7. ASSUME NEW c \in Calls, Resent(c)
      PROVE  Equipped'
  BY <1>7 DEF Resent, CodeSent, Moves
<1>8. ASSUME NEW c \in Calls, ResendFails(c)
      PROVE  Equipped'
  <2>1. CASE Fails(c, "answer", "flood")
    BY <1>8, <2>1 DEF ResendFails, Fails
  <2>2. CASE \E e \in {"banned", "other"} : FailsAndDrops(c, e)
    BY <1>8, <2>2 DEF ResendFails, FailsAndDrops
  <2>3. CASE DropsThen(c, "build")
    BY <1>8, <2>3 DEF ResendFails, DropsThen
  <2> QED BY <1>8, <2>1, <2>2, <2>3 DEF ResendFails
<1>9. ASSUME NEW c \in Calls, BuildConnects(c)
      PROVE  Equipped'
  BY <1>9 DEF BuildConnects
<1>10. ASSUME NEW c \in Calls, BuildFails(c)
      PROVE  Equipped'
  BY <1>10 DEF BuildFails, FailsAndDrops
<1>11. ASSUME NEW c \in Calls, AskedFresh(c)
      PROVE  Equipped'
  BY <1>11 DEF AskedFresh, Registered, Blank, Moves
<1>12. ASSUME NEW c \in Calls, AskFails(c)
      PROVE  Equipped'
  BY <1>12 DEF AskFails
<1>13. ASSUME NEW c \in Calls, VerifyRefused(c)
      PROVE  Equipped'
  BY <1>13 DEF VerifyRefused, Enters, Holds, Fails
<1>14. ASSUME NEW c \in Calls, VerifyStarts(c)
      PROVE  Equipped'
  BY <1>14 DEF VerifyStarts, Enters, Holds, Refreshed
<1>15. ASSUME NEW c \in Calls, SignIn(c)
      PROVE  Equipped'
  <2>1. CASE Moves(c, "store") /\ UNCHANGED sess
    BY <1>15, <2>1 DEF SignIn, Moves
  <2>2. CASE /\ Moves(c, "params")
            /\ sess' = [sess EXCEPT ![call[c].session].stage = "password"]
    BY <1>15, <2>2 DEF SignIn, Moves
  <2>3. CASE Moves(c, "signup") /\ UNCHANGED sess
    BY <1>15, <2>3 DEF SignIn, Moves
  <2>4. CASE FailsAndDrops(c, "other") /\ UNCHANGED sess
    BY <1>15, <2>4 DEF SignIn, FailsAndDrops
  <2>5. CASE Fails(c, "answer", "other") /\ UNCHANGED sess
    BY <1>15, <2>5 DEF SignIn, Fails
  <2> QED BY <1>15, <2>1, <2>2, <2>3, <2>4, <2>5 DEF SignIn
<1>16. ASSUME NEW c \in Calls, FetchParams(c)
      PROVE  Equipped'
  BY <1>16 DEF FetchParams, Moves
<1>17. ASSUME NEW c \in Calls, Accepted(c)
      PROVE  Equipped'
  BY <1>17 DEF Accepted, Moves
<1>18. ASSUME NEW c \in Calls, NotAccepted(c)
      PROVE  Equipped'
  <2>1. CASE Fails(c, "answer", "other")
    BY <1>18, <2>1 DEF NotAccepted, Fails
  <2>2. CASE FailsAndDrops(c, "other")
    BY <1>18, <2>2 DEF NotAccepted, FailsAndDrops
  <2> QED BY <1>18, <2>1, <2>2 DEF NotAccepted
<1>19. ASSUME NEW c \in Calls, Store(c)
      PROVE  Equipped'
  <2>1. CASE DropsThen(c, "answer")
    BY <1>19, <2>1 DEF Store, DropsThen
  <2>2. CASE Fails(c, "answer", "other")
    BY <1>19, <2>2 DEF Store, Fails
  <2> QED BY <1>19, <2>1, <2>2 DEF Store
<1>20. ASSUME NEW c \in Calls, ClientConnects(c)
      PROVE  Equipped'
  BY <1>20 DEF ClientConnects, Onward, Moves
<1>21. ASSUME NEW c \in Calls, ConnectFails(c)
      PROVE  Equipped'
  BY <1>21 DEF ConnectFails, Moves
<1>22. ASSUME NEW c \in Calls, RebuildConnects(c)
      PROVE  Equipped'
  BY <1>22 DEF RebuildConnects, Onward, Moves
<1>23. ASSUME NEW c \in Calls, RebuildFails(c)
      PROVE  Equipped'
  <2>1. CASE call[c].op = "send" /\ DropsThen(c, "build")
    BY <1>23, <2>1 DEF RebuildFails, DropsThen
  <2>2. CASE FailsAndDrops(c, "other")
    BY <1>23, <2>2 DEF RebuildFails, FailsAndDrops
  <2>3. CASE Fails(c, "answer", "other")
    BY <1>23, <2>3 DEF RebuildFails, Fails
  <2> QED BY <1>23, <2>1, <2>2, <2>3 DEF RebuildFails
<1>24. ASSUME NEW c \in Calls, DropStarts(c)
      PROVE  Equipped'
  <2>1. CASE active = None
    <3>1. /\ \A x \in Calls : x # c => call'[x] = call[x]
          /\ call'[c].pc \in {"build", "answer"}
          /\ UNCHANGED <<active, sess, link, tearing, overlapped>>
      BY <1>24, <2>1 DEF DropStarts, Moves
    <3>2. \A x \in Calls : x # c => call'[x].pc \notin Inside
      BY <1>24, <3>1 DEF DropStarts
    <3>3. call[c].pc = "drop"
      BY <1>24 DEF DropStarts
    <3> QED BY <2>1, <3>1, <3>2, <3>3
  <2>2. CASE active # None
    <3>1. /\ \A x \in Calls : x # c => call'[x] = call[x]
          /\ call'[c].pc = "dropping"
          /\ UNCHANGED <<active, tearing, overlapped>>
      BY <1>24, <2>2 DEF DropStarts
    <3>2. /\ sess' = [sess EXCEPT ![active].armed = FALSE]
          /\ link' = [link EXCEPT ![sess[active].client] = FALSE]
          /\ holder = c
      BY <1>24, <2>2 DEF DropStarts
    <3>3. \A s \in Sessions : /\ sess'[s].client = sess[s].client
                             /\ sess'[s].stage = sess[s].stage
      BY <3>2
    <3>4. \A x \in Calls : x # c => call'[x].pc \notin Inside
      BY <3>1, <3>2
    <3>5. call[c].pc = "drop"
      BY <1>24 DEF DropStarts
    <3> QED BY <2>2, <3>1, <3>2, <3>3, <3>4, <3>5
  <2> QED BY <2>1, <2>2
<1>25. ASSUME NEW c \in Calls, DropEnds(c)
      PROVE  Equipped'
  BY <1>25 DEF DropEnds
<1>26. ASSUME NEW c \in Calls, Answer(c)
      PROVE  Equipped'
  BY <1>26 DEF Answer, PassesOn, Remembers, Idle
<1>27. ASSUME NEW s \in Sessions, TimerFires(s)
      PROVE  Equipped'
  BY <1>27 DEF TimerFires, TearsDown
<1>28. ASSUME NEW source \in Sources, NEW s \in Sessions, TeardownEnds(source, s)
      PROVE  Equipped'
  BY <1>28 DEF TeardownEnds
<1>29. ASSUME NEW k \in Clients, ConnectionLost(k)
      PROVE  Equipped'
  BY <1>29 DEF ConnectionLost
<1>30. ASSUME CleanupStale
      PROVE  Equipped'
  BY <1>30 DEF CleanupStale, TearsDown
<1>31. ASSUME RejectionEnds
      PROVE  Equipped'
  BY <1>31 DEF RejectionEnds
<1>32. ASSUME Restart
      PROVE  Equipped'
  BY <1>32 DEF Restart, Idle, Blank
<1>33. CASE UNCHANGED vars
  BY <1>33 DEF vars
<1> QED
  BY <1>1, <1>2, <1>3, <1>4, <1>5, <1>6, <1>7, <1>8, <1>9, <1>10, <1>11,
     <1>12, <1>13, <1>14, <1>15, <1>16, <1>17, <1>18, <1>19, <1>20, <1>21,
     <1>22, <1>23, <1>24, <1>25, <1>26, <1>27, <1>28, <1>29, <1>30, <1>31,
     <1>32, <1>33
     DEF Next, Arrives, Sends, Verifies, Shared, Step, Outside

(* Nobody else changes the stage of the session a call works on.           *)
LEMMA StageStep ==
    ASSUME TypeOK, LockHeld, Equipped, StageHeld, [Next]_vars
    PROVE  StageHeld'
<1> USE NoneIsNothing DEF TypeOK, CallRecords, Inside, LockHeld, Equipped, InSession, SessionRecords, StageHeld, CallMatchesStage
<1>1. ASSUME NEW c \in Calls, SendArrives(c)
      PROVE  StageHeld'
  <2>1. /\ \A x \in Calls : x # c => call'[x] = call[x]
        /\ call[c].pc = "idle" /\ call'[c].pc \in {"joined", "begin"}
    <3>1. CASE inflight # None
      BY <1>1, <3>1 DEF SendArrives, Moves
    <3>2. CASE inflight = None
      BY <1>1, <3>2 DEF SendArrives, Idle
    <3> QED BY <3>1, <3>2
  <2>2. UNCHANGED <<active, sess, link, tearing, overlapped>>
    BY <1>1 DEF SendArrives
  <2> QED BY SMTT(30), <2>1, <2>2
<1>2. ASSUME NEW c \in Calls, VerifyArrives(c)
      PROVE  StageHeld'
  BY <1>2 DEF VerifyArrives, Locks, Idle
<1>3. ASSUME NEW c \in Calls, SendRefused(c)
      PROVE  StageHeld'
  BY <1>3 DEF SendRefused, Enters, Holds, FailsAndDrops
<1>4. ASSUME NEW c \in Calls, SendCooling(c)
      PROVE  StageHeld'
  BY <1>4 DEF SendCooling, Enters, Holds, Resendable, Refreshed, Moves
<1>5. ASSUME NEW c \in Calls, SendAgain(c)
      PROVE  StageHeld'
  BY <1>5 DEF SendAgain, Enters, Holds, Resendable, Refreshed
<1>6. ASSUME NEW c \in Calls, SendFresh(c)
      PROVE  StageHeld'
  BY <1>6 DEF SendFresh, Enters, Holds, Resendable, DropsThen
<1>7. ASSUME NEW c \in Calls, Resent(c)
      PROVE  StageHeld'
  BY <1>7 DEF Resent, CodeSent, Moves
<1>8. ASSUME NEW c \in Calls, ResendFails(c)
      PROVE  StageHeld'
  <2>1. CASE Fails(c, "answer", "flood")
    BY <1>8, <2>1 DEF ResendFails, Fails
  <2>2. CASE \E e \in {"banned", "other"} : FailsAndDrops(c, e)
    BY SMTT(30), <1>8, <2>2 DEF ResendFails, FailsAndDrops
  <2>3. CASE DropsThen(c, "build")
    BY <1>8, <2>3 DEF ResendFails, DropsThen
  <2> QED BY <1>8, <2>1, <2>2, <2>3 DEF ResendFails
<1>9. ASSUME NEW c \in Calls, BuildConnects(c)
      PROVE  StageHeld'
  BY <1>9 DEF BuildConnects
<1>10. ASSUME NEW c \in Calls, BuildFails(c)
      PROVE  StageHeld'
  BY <1>10 DEF BuildFails, FailsAndDrops
<1>11. ASSUME NEW c \in Calls, AskedFresh(c)
      PROVE  StageHeld'
  BY <1>11 DEF AskedFresh, Registered, Blank, Moves
<1>12. ASSUME NEW c \in Calls, AskFails(c)
      PROVE  StageHeld'
  BY <1>12 DEF AskFails
<1>13. ASSUME NEW c \in Calls, VerifyRefused(c)
      PROVE  StageHeld'
  BY <1>13 DEF VerifyRefused, Enters, Holds, Fails
<1>14. ASSUME NEW c \in Calls, VerifyStarts(c)
      PROVE  StageHeld'
  BY <1>14 DEF VerifyStarts, Enters, Holds, Refreshed
<1>15. ASSUME NEW c \in Calls, SignIn(c)
      PROVE  StageHeld'
  <2>1. CASE Moves(c, "store") /\ UNCHANGED sess
    BY <1>15, <2>1 DEF SignIn, Moves
  <2>2. CASE /\ Moves(c, "params")
            /\ sess' = [sess EXCEPT ![call[c].session].stage = "password"]
    BY <1>15, <2>2 DEF SignIn, Moves
  <2>3. CASE Moves(c, "signup") /\ UNCHANGED sess
    BY <1>15, <2>3 DEF SignIn, Moves
  <2>4. CASE FailsAndDrops(c, "other") /\ UNCHANGED sess
    BY <1>15, <2>4 DEF SignIn, FailsAndDrops
  <2>5. CASE Fails(c, "answer", "other") /\ UNCHANGED sess
    BY <1>15, <2>5 DEF SignIn, Fails
  <2> QED BY <1>15, <2>1, <2>2, <2>3, <2>4, <2>5 DEF SignIn
<1>16. ASSUME NEW c \in Calls, FetchParams(c)
      PROVE  StageHeld'
  BY <1>16 DEF FetchParams, Moves
<1>17. ASSUME NEW c \in Calls, Accepted(c)
      PROVE  StageHeld'
  BY <1>17 DEF Accepted, Moves
<1>18. ASSUME NEW c \in Calls, NotAccepted(c)
      PROVE  StageHeld'
  <2>1. CASE Fails(c, "answer", "other")
    BY <1>18, <2>1 DEF NotAccepted, Fails
  <2>2. CASE FailsAndDrops(c, "other")
    BY <1>18, <2>2 DEF NotAccepted, FailsAndDrops
  <2> QED BY <1>18, <2>1, <2>2 DEF NotAccepted
<1>19. ASSUME NEW c \in Calls, Store(c)
      PROVE  StageHeld'
  <2>1. CASE DropsThen(c, "answer")
    BY <1>19, <2>1 DEF Store, DropsThen
  <2>2. CASE Fails(c, "answer", "other")
    BY <1>19, <2>2 DEF Store, Fails
  <2> QED BY <1>19, <2>1, <2>2 DEF Store
<1>20. ASSUME NEW c \in Calls, ClientConnects(c)
      PROVE  StageHeld'
  BY <1>20 DEF ClientConnects, Onward, Moves
<1>21. ASSUME NEW c \in Calls, ConnectFails(c)
      PROVE  StageHeld'
  BY <1>21 DEF ConnectFails, Moves
<1>22. ASSUME NEW c \in Calls, RebuildConnects(c)
      PROVE  StageHeld'
  BY <1>22 DEF RebuildConnects, Onward, Moves
<1>23. ASSUME NEW c \in Calls, RebuildFails(c)
      PROVE  StageHeld'
  <2>1. CASE call[c].op = "send" /\ DropsThen(c, "build")
    BY <1>23, <2>1 DEF RebuildFails, DropsThen
  <2>2. CASE FailsAndDrops(c, "other")
    BY <1>23, <2>2 DEF RebuildFails, FailsAndDrops
  <2>3. CASE Fails(c, "answer", "other")
    BY <1>23, <2>3 DEF RebuildFails, Fails
  <2> QED BY <1>23, <2>1, <2>2, <2>3 DEF RebuildFails
<1>24. ASSUME NEW c \in Calls, DropStarts(c)
      PROVE  StageHeld'
  <2>1. CASE active = None
    <3>1. /\ \A x \in Calls : x # c => call'[x] = call[x]
          /\ call'[c].pc \in {"build", "answer"}
          /\ UNCHANGED <<active, sess, link, tearing, overlapped>>
      BY <1>24, <2>1 DEF DropStarts, Moves
    <3>2. \A x \in Calls : x # c => call'[x].pc \notin Inside
      BY <1>24, <3>1 DEF DropStarts
    <3>3. call[c].pc = "drop"
      BY <1>24 DEF DropStarts
    <3> QED BY <2>1, <3>1, <3>2, <3>3
  <2>2. CASE active # None
    <3>1. /\ \A x \in Calls : x # c => call'[x] = call[x]
          /\ call'[c].pc = "dropping"
          /\ UNCHANGED <<active, tearing, overlapped>>
      BY <1>24, <2>2 DEF DropStarts
    <3>2. /\ sess' = [sess EXCEPT ![active].armed = FALSE]
          /\ link' = [link EXCEPT ![sess[active].client] = FALSE]
          /\ holder = c
      BY <1>24, <2>2 DEF DropStarts
    <3>3. \A s \in Sessions : /\ sess'[s].client = sess[s].client
                             /\ sess'[s].stage = sess[s].stage
      BY <3>2
    <3>4. \A x \in Calls : x # c => call'[x].pc \notin Inside
      BY <3>1, <3>2
    <3>5. call[c].pc = "drop"
      BY <1>24 DEF DropStarts
    <3> QED BY <2>2, <3>1, <3>2, <3>3, <3>4, <3>5
  <2> QED BY <2>1, <2>2
<1>25. ASSUME NEW c \in Calls, DropEnds(c)
      PROVE  StageHeld'
  BY <1>25 DEF DropEnds
<1>26. ASSUME NEW c \in Calls, Answer(c)
      PROVE  StageHeld'
  BY <1>26 DEF Answer, PassesOn, Remembers, Idle
<1>27. ASSUME NEW s \in Sessions, TimerFires(s)
      PROVE  StageHeld'
  BY <1>27 DEF TimerFires, TearsDown
<1>28. ASSUME NEW source \in Sources, NEW s \in Sessions, TeardownEnds(source, s)
      PROVE  StageHeld'
  BY <1>28 DEF TeardownEnds
<1>29. ASSUME NEW k \in Clients, ConnectionLost(k)
      PROVE  StageHeld'
  BY <1>29 DEF ConnectionLost
<1>30. ASSUME CleanupStale
      PROVE  StageHeld'
  BY <1>30 DEF CleanupStale, TearsDown
<1>31. ASSUME RejectionEnds
      PROVE  StageHeld'
  BY <1>31 DEF RejectionEnds
<1>32. ASSUME Restart
      PROVE  StageHeld'
  BY <1>32 DEF Restart, Idle, Blank
<1>33. CASE UNCHANGED vars
  BY <1>33 DEF vars
<1> QED
  BY <1>1, <1>2, <1>3, <1>4, <1>5, <1>6, <1>7, <1>8, <1>9, <1>10, <1>11,
     <1>12, <1>13, <1>14, <1>15, <1>16, <1>17, <1>18, <1>19, <1>20, <1>21,
     <1>22, <1>23, <1>24, <1>25, <1>26, <1>27, <1>28, <1>29, <1>30, <1>31,
     <1>32, <1>33
     DEF Next, Arrives, Sends, Verifies, Shared, Step, Outside

(* No rejection is remembered while a call is about to ask.                *)
LEMMA RejectStep ==
    ASSUME TypeOK, LockHeld, Unrejected, [Next]_vars
    PROVE  Unrejected'
<1> USE NoneIsNothing DEF TypeOK, CallRecords, Inside, LockHeld, Unrejected, WillAsk
<1>1. ASSUME NEW c \in Calls, SendArrives(c)
      PROVE  Unrejected'
  BY SMTT(30), <1>1 DEF SendArrives, Moves, Locks, Idle
<1>2. ASSUME NEW c \in Calls, VerifyArrives(c)
      PROVE  Unrejected'
  BY <1>2 DEF VerifyArrives, Locks, Idle
<1>3. ASSUME NEW c \in Calls, SendRefused(c)
      PROVE  Unrejected'
  BY <1>3 DEF SendRefused, Enters, Holds, FailsAndDrops
<1>4. ASSUME NEW c \in Calls, SendCooling(c)
      PROVE  Unrejected'
  BY <1>4 DEF SendCooling, Enters, Holds, Resendable, Refreshed, Moves
<1>5. ASSUME NEW c \in Calls, SendAgain(c)
      PROVE  Unrejected'
  BY <1>5 DEF SendAgain, Enters, Holds, Resendable, Refreshed
<1>6. ASSUME NEW c \in Calls, SendFresh(c)
      PROVE  Unrejected'
  BY <1>6 DEF SendFresh, Enters, Holds, Resendable, DropsThen
<1>7. ASSUME NEW c \in Calls, Resent(c)
      PROVE  Unrejected'
  BY <1>7 DEF Resent, CodeSent, Moves
<1>8. ASSUME NEW c \in Calls, ResendFails(c)
      PROVE  Unrejected'
  BY SMTT(30), <1>8 DEF ResendFails, Fails, FailsAndDrops, DropsThen
<1>9. ASSUME NEW c \in Calls, BuildConnects(c)
      PROVE  Unrejected'
  BY <1>9 DEF BuildConnects
<1>10. ASSUME NEW c \in Calls, BuildFails(c)
      PROVE  Unrejected'
  BY <1>10 DEF BuildFails, FailsAndDrops
<1>11. ASSUME NEW c \in Calls, AskedFresh(c)
      PROVE  Unrejected'
  BY <1>11 DEF AskedFresh, Registered, Blank, Moves
<1>12. ASSUME NEW c \in Calls, AskFails(c)
      PROVE  Unrejected'
  BY <1>12 DEF AskFails
<1>13. ASSUME NEW c \in Calls, VerifyRefused(c)
      PROVE  Unrejected'
  BY <1>13 DEF VerifyRefused, Enters, Holds, Fails
<1>14. ASSUME NEW c \in Calls, VerifyStarts(c)
      PROVE  Unrejected'
  BY <1>14 DEF VerifyStarts, Enters, Holds, Refreshed
<1>15. ASSUME NEW c \in Calls, SignIn(c)
      PROVE  Unrejected'
  BY <1>15 DEF SignIn, Moves, Fails, FailsAndDrops
<1>16. ASSUME NEW c \in Calls, FetchParams(c)
      PROVE  Unrejected'
  BY <1>16 DEF FetchParams, Moves
<1>17. ASSUME NEW c \in Calls, Accepted(c)
      PROVE  Unrejected'
  BY <1>17 DEF Accepted, Moves
<1>18. ASSUME NEW c \in Calls, NotAccepted(c)
      PROVE  Unrejected'
  BY <1>18 DEF NotAccepted, Fails, FailsAndDrops
<1>19. ASSUME NEW c \in Calls, Store(c)
      PROVE  Unrejected'
  BY <1>19 DEF Store, DropsThen, Fails
<1>20. ASSUME NEW c \in Calls, ClientConnects(c)
      PROVE  Unrejected'
  BY <1>20 DEF ClientConnects, Onward, Moves
<1>21. ASSUME NEW c \in Calls, ConnectFails(c)
      PROVE  Unrejected'
  BY <1>21 DEF ConnectFails, Moves
<1>22. ASSUME NEW c \in Calls, RebuildConnects(c)
      PROVE  Unrejected'
  BY <1>22 DEF RebuildConnects, Onward, Moves
<1>23. ASSUME NEW c \in Calls, RebuildFails(c)
      PROVE  Unrejected'
  BY <1>23 DEF RebuildFails, DropsThen, Fails, FailsAndDrops
<1>24. ASSUME NEW c \in Calls, DropStarts(c)
      PROVE  Unrejected'
  BY <1>24 DEF DropStarts, Moves
<1>25. ASSUME NEW c \in Calls, DropEnds(c)
      PROVE  Unrejected'
  BY <1>25 DEF DropEnds
<1>26. ASSUME NEW c \in Calls, Answer(c)
      PROVE  Unrejected'
  BY <1>26 DEF Answer, PassesOn, Remembers, Idle
<1>27. ASSUME NEW s \in Sessions, TimerFires(s)
      PROVE  Unrejected'
  BY <1>27 DEF TimerFires, TearsDown
<1>28. ASSUME NEW source \in Sources, NEW s \in Sessions, TeardownEnds(source, s)
      PROVE  Unrejected'
  BY <1>28 DEF TeardownEnds
<1>29. ASSUME NEW k \in Clients, ConnectionLost(k)
      PROVE  Unrejected'
  BY <1>29 DEF ConnectionLost
<1>30. ASSUME CleanupStale
      PROVE  Unrejected'
  BY <1>30 DEF CleanupStale, TearsDown
<1>31. ASSUME RejectionEnds
      PROVE  Unrejected'
  BY <1>31 DEF RejectionEnds
<1>32. ASSUME Restart
      PROVE  Unrejected'
  BY <1>32 DEF Restart, Idle, Blank
<1>33. CASE UNCHANGED vars
  BY <1>33 DEF vars
<1> QED
  BY <1>1, <1>2, <1>3, <1>4, <1>5, <1>6, <1>7, <1>8, <1>9, <1>10, <1>11,
     <1>12, <1>13, <1>14, <1>15, <1>16, <1>17, <1>18, <1>19, <1>20, <1>21,
     <1>22, <1>23, <1>24, <1>25, <1>26, <1>27, <1>28, <1>29, <1>30, <1>31,
     <1>32, <1>33
     DEF Next, Arrives, Sends, Verifies, Shared, Step, Outside

(* Every registered session keeps its timer or is being torn down.         *)
LEMMA ExpireStep ==
    ASSUME TypeOK, LockHeld, SessionsExpire, [Next]_vars
    PROVE  SessionsExpire'
<1> USE NoneIsNothing DEF TypeOK, CallRecords, Inside, LockHeld, SessionRecords, SessionsExpire, Sources
<1>1. ASSUME NEW c \in Calls, SendArrives(c)
      PROVE  SessionsExpire'
  BY <1>1 DEF SendArrives, Moves, Locks, Idle
<1>2. ASSUME NEW c \in Calls, VerifyArrives(c)
      PROVE  SessionsExpire'
  BY <1>2 DEF VerifyArrives, Locks, Idle
<1>3. ASSUME NEW c \in Calls, SendRefused(c)
      PROVE  SessionsExpire'
  BY <1>3 DEF SendRefused, Enters, Holds, FailsAndDrops
<1>4. ASSUME NEW c \in Calls, SendCooling(c)
      PROVE  SessionsExpire'
  BY <1>4 DEF SendCooling, Enters, Holds, Resendable, Refreshed, Moves
<1>5. ASSUME NEW c \in Calls, SendAgain(c)
      PROVE  SessionsExpire'
  BY <1>5 DEF SendAgain, Enters, Holds, Resendable, Refreshed
<1>6. ASSUME NEW c \in Calls, SendFresh(c)
      PROVE  SessionsExpire'
  BY <1>6 DEF SendFresh, Enters, Holds, Resendable, DropsThen
<1>7. ASSUME NEW c \in Calls, Resent(c)
      PROVE  SessionsExpire'
  BY <1>7 DEF Resent, CodeSent, Moves
<1>8. ASSUME NEW c \in Calls, ResendFails(c)
      PROVE  SessionsExpire'
  BY <1>8 DEF ResendFails, Fails, FailsAndDrops, DropsThen
<1>9. ASSUME NEW c \in Calls, BuildConnects(c)
      PROVE  SessionsExpire'
  BY <1>9 DEF BuildConnects
<1>10. ASSUME NEW c \in Calls, BuildFails(c)
      PROVE  SessionsExpire'
  BY <1>10 DEF BuildFails, FailsAndDrops
<1>11. ASSUME NEW c \in Calls, AskedFresh(c)
      PROVE  SessionsExpire'
  BY <1>11 DEF AskedFresh, Registered, Blank, Moves
<1>12. ASSUME NEW c \in Calls, AskFails(c)
      PROVE  SessionsExpire'
  BY <1>12 DEF AskFails
<1>13. ASSUME NEW c \in Calls, VerifyRefused(c)
      PROVE  SessionsExpire'
  BY <1>13 DEF VerifyRefused, Enters, Holds, Fails
<1>14. ASSUME NEW c \in Calls, VerifyStarts(c)
      PROVE  SessionsExpire'
  BY <1>14 DEF VerifyStarts, Enters, Holds, Refreshed
<1>15. ASSUME NEW c \in Calls, SignIn(c)
      PROVE  SessionsExpire'
  <2>1. CASE Moves(c, "store") /\ UNCHANGED sess
    BY <1>15, <2>1 DEF SignIn, Moves
  <2>2. CASE /\ Moves(c, "params")
            /\ sess' = [sess EXCEPT ![call[c].session].stage = "password"]
    BY <1>15, <2>2 DEF SignIn, Moves
  <2>3. CASE Moves(c, "signup") /\ UNCHANGED sess
    BY <1>15, <2>3 DEF SignIn, Moves
  <2>4. CASE FailsAndDrops(c, "other") /\ UNCHANGED sess
    BY <1>15, <2>4 DEF SignIn, FailsAndDrops
  <2>5. CASE Fails(c, "answer", "other") /\ UNCHANGED sess
    BY <1>15, <2>5 DEF SignIn, Fails
  <2> QED BY <1>15, <2>1, <2>2, <2>3, <2>4, <2>5 DEF SignIn
<1>16. ASSUME NEW c \in Calls, FetchParams(c)
      PROVE  SessionsExpire'
  BY <1>16 DEF FetchParams, Moves
<1>17. ASSUME NEW c \in Calls, Accepted(c)
      PROVE  SessionsExpire'
  BY <1>17 DEF Accepted, Moves
<1>18. ASSUME NEW c \in Calls, NotAccepted(c)
      PROVE  SessionsExpire'
  BY <1>18 DEF NotAccepted, Fails, FailsAndDrops
<1>19. ASSUME NEW c \in Calls, Store(c)
      PROVE  SessionsExpire'
  BY <1>19 DEF Store, DropsThen, Fails
<1>20. ASSUME NEW c \in Calls, ClientConnects(c)
      PROVE  SessionsExpire'
  BY <1>20 DEF ClientConnects, Onward, Moves
<1>21. ASSUME NEW c \in Calls, ConnectFails(c)
      PROVE  SessionsExpire'
  BY <1>21 DEF ConnectFails, Moves
<1>22. ASSUME NEW c \in Calls, RebuildConnects(c)
      PROVE  SessionsExpire'
  BY <1>22 DEF RebuildConnects, Onward, Moves
<1>23. ASSUME NEW c \in Calls, RebuildFails(c)
      PROVE  SessionsExpire'
  BY <1>23 DEF RebuildFails, DropsThen, Fails, FailsAndDrops
<1>24. ASSUME NEW c \in Calls, DropStarts(c)
      PROVE  SessionsExpire'
  BY <1>24 DEF DropStarts, Moves
<1>25. ASSUME NEW c \in Calls, DropEnds(c)
      PROVE  SessionsExpire'
  BY <1>25 DEF DropEnds
<1>26. ASSUME NEW c \in Calls, Answer(c)
      PROVE  SessionsExpire'
  BY <1>26 DEF Answer, PassesOn, Remembers, Idle
<1>27. ASSUME NEW s \in Sessions, TimerFires(s)
      PROVE  SessionsExpire'
  BY <1>27 DEF TimerFires, TearsDown
<1>28. ASSUME NEW source \in Sources, NEW s \in Sessions, TeardownEnds(source, s)
      PROVE  SessionsExpire'
  BY <1>28 DEF TeardownEnds
<1>29. ASSUME NEW k \in Clients, ConnectionLost(k)
      PROVE  SessionsExpire'
  BY <1>29 DEF ConnectionLost
<1>30. ASSUME CleanupStale
      PROVE  SessionsExpire'
  BY <1>30 DEF CleanupStale, TearsDown
<1>31. ASSUME RejectionEnds
      PROVE  SessionsExpire'
  BY <1>31 DEF RejectionEnds
<1>32. ASSUME Restart
      PROVE  SessionsExpire'
  BY <1>32 DEF Restart, Idle, Blank
<1>33. CASE UNCHANGED vars
  BY <1>33 DEF vars
<1> QED
  BY <1>1, <1>2, <1>3, <1>4, <1>5, <1>6, <1>7, <1>8, <1>9, <1>10, <1>11,
     <1>12, <1>13, <1>14, <1>15, <1>16, <1>17, <1>18, <1>19, <1>20, <1>21,
     <1>22, <1>23, <1>24, <1>25, <1>26, <1>27, <1>28, <1>29, <1>30, <1>31,
     <1>32, <1>33
     DEF Next, Arrives, Sends, Verifies, Shared, Step, Outside

(* Every connected client keeps its owner.                                 *)
LEMMA OwnedStep ==
    ASSUME TypeOK, LockHeld, Equipped, OwnedUnlessOverlapped, [Next]_vars
    PROVE  OwnedUnlessOverlapped'
<1> USE NoneIsNothing DEF TypeOK, CallRecords, Inside, LockHeld, Equipped, InSession, SessionRecords, OwnedUnlessOverlapped, Owned, Dark
<1>1. ASSUME NEW c \in Calls, SendArrives(c)
      PROVE  OwnedUnlessOverlapped'
  <2>1. /\ \A x \in Calls : x # c => call'[x] = call[x]
        /\ call[c].pc = "idle" /\ call'[c].pc \in {"joined", "begin"}
    <3>1. CASE inflight # None
      BY <1>1, <3>1 DEF SendArrives, Moves
    <3>2. CASE inflight = None
      BY <1>1, <3>2 DEF SendArrives, Idle
    <3> QED BY <3>1, <3>2
  <2>2. UNCHANGED <<active, sess, link, tearing, overlapped>>
    BY <1>1 DEF SendArrives
  <2>3. CASE overlapped
    BY <2>2, <2>3
  <2>4. CASE Owned
    <3>1. ASSUME NEW k \in Clients, link[k]
          PROVE  \/ active # None /\ sess[active].client = k
                 \/ \E x \in Calls : call'[x].pc = "ask" /\ call'[x].client = k
      BY <2>1, <2>4, <3>1
    <3>2. tearing # {} => Dark /\ \A x \in Calls : call'[x].pc \notin Inside
      BY <2>1, <2>4
    <3>3. \A x \in Calls :
             /\ call'[x].pc \in InSession => call'[x].session = active
             /\ call'[x].pc \in {"dropping", "rebuild"} => Dark
             /\ call'[x].pc \in {"build", "ask"} => active = None
      BY <2>1, <2>4
    <3> QED BY <2>2, <3>1, <3>2, <3>3
  <2> QED BY <2>3, <2>4
<1>2. ASSUME NEW c \in Calls, VerifyArrives(c)
      PROVE  OwnedUnlessOverlapped'
  <2>1. /\ \A x \in Calls : x # c => call'[x] = call[x]
        /\ call[c].pc = "idle" /\ call'[c].pc = "begin"
    BY <1>2 DEF VerifyArrives, Idle
  <2>2. UNCHANGED <<active, sess, link, tearing, overlapped>>
    BY <1>2 DEF VerifyArrives
  <2>3. CASE overlapped
    BY <2>2, <2>3
  <2>4. CASE Owned
    <3>1. ASSUME NEW k \in Clients, link[k]
          PROVE  \/ active # None /\ sess[active].client = k
                 \/ \E x \in Calls : call'[x].pc = "ask" /\ call'[x].client = k
      BY SMTT(30), <2>1, <2>4, <3>1
    <3>2. tearing # {} => Dark /\ \A x \in Calls : call'[x].pc \notin Inside
      BY <2>1, <2>4
    <3>3. \A x \in Calls :
             /\ call'[x].pc \in InSession => call'[x].session = active
             /\ call'[x].pc \in {"dropping", "rebuild"} => Dark
             /\ call'[x].pc \in {"build", "ask"} => active = None
      BY <2>1, <2>4
    <3> QED BY <2>2, <3>1, <3>2, <3>3
  <2> QED BY <2>3, <2>4
<1>3. ASSUME NEW c \in Calls, SendRefused(c)
      PROVE  OwnedUnlessOverlapped'
  BY ZenonT(60), <1>3 DEF SendRefused, Enters, Holds, FailsAndDrops
<1>4. ASSUME NEW c \in Calls, SendCooling(c)
      PROVE  OwnedUnlessOverlapped'
  <2>1. CASE tearing # {}
    BY <1>4, <2>1 DEF SendCooling, Enters
  <2>2. CASE tearing = {}
    BY <1>4, <2>2 DEF SendCooling, Enters, Holds, Resendable, Refreshed, Moves
  <2> QED BY <2>1, <2>2
<1>5. ASSUME NEW c \in Calls, SendAgain(c)
      PROVE  OwnedUnlessOverlapped'
  <2>1. CASE tearing # {}
    BY <1>5, <2>1 DEF SendAgain, Enters
  <2>2. CASE tearing = {}
    BY <1>5, <2>2 DEF SendAgain, Enters, Holds, Resendable, Refreshed
  <2> QED BY <2>1, <2>2
<1>6. ASSUME NEW c \in Calls, SendFresh(c)
      PROVE  OwnedUnlessOverlapped'
  BY ZenonT(60), <1>6 DEF SendFresh, Enters, Holds, Resendable, DropsThen
<1>7. ASSUME NEW c \in Calls, Resent(c)
      PROVE  OwnedUnlessOverlapped'
  BY <1>7 DEF Resent, CodeSent, Moves
<1>8. ASSUME NEW c \in Calls, ResendFails(c)
      PROVE  OwnedUnlessOverlapped'
  <2>1. CASE Fails(c, "answer", "flood")
    BY <1>8, <2>1 DEF ResendFails, Fails
  <2>2. CASE \E e \in {"banned", "other"} : FailsAndDrops(c, e)
    BY SMTT(30), <1>8, <2>2 DEF ResendFails, FailsAndDrops
  <2>3. CASE DropsThen(c, "build")
    BY <1>8, <2>3 DEF ResendFails, DropsThen
  <2> QED BY <1>8, <2>1, <2>2, <2>3 DEF ResendFails
<1>9. ASSUME NEW c \in Calls, BuildConnects(c)
      PROVE  OwnedUnlessOverlapped'
  BY <1>9 DEF BuildConnects
<1>10. ASSUME NEW c \in Calls, BuildFails(c)
      PROVE  OwnedUnlessOverlapped'
  BY <1>10 DEF BuildFails, FailsAndDrops
<1>11. ASSUME NEW c \in Calls, AskedFresh(c)
      PROVE  OwnedUnlessOverlapped'
  BY <1>11 DEF AskedFresh, Registered, Blank, Moves
<1>12. ASSUME NEW c \in Calls, AskFails(c)
      PROVE  OwnedUnlessOverlapped'
  BY SMTT(30), <1>12 DEF AskFails
<1>13. ASSUME NEW c \in Calls, VerifyRefused(c)
      PROVE  OwnedUnlessOverlapped'
  <2>1. CASE tearing # {}
    BY <1>13, <2>1 DEF VerifyRefused, Enters
  <2>2. CASE tearing = {}
    BY <1>13, <2>2 DEF VerifyRefused, Enters, Holds, Fails
  <2> QED BY <2>1, <2>2
<1>14. ASSUME NEW c \in Calls, VerifyStarts(c)
      PROVE  OwnedUnlessOverlapped'
  <2>1. CASE tearing # {}
    BY <1>14, <2>1 DEF VerifyStarts, Enters
  <2>2. CASE tearing = {}
    BY <1>14, <2>2 DEF VerifyStarts, Enters, Holds, Refreshed
  <2> QED BY <2>1, <2>2
<1>15. ASSUME NEW c \in Calls, SignIn(c)
      PROVE  OwnedUnlessOverlapped'
  <2>1. CASE Moves(c, "store") /\ UNCHANGED sess
    BY <1>15, <2>1 DEF SignIn, Moves
  <2>2. CASE /\ Moves(c, "params")
            /\ sess' = [sess EXCEPT ![call[c].session].stage = "password"]
    BY <1>15, <2>2 DEF SignIn, Moves
  <2>3. CASE Moves(c, "signup") /\ UNCHANGED sess
    BY <1>15, <2>3 DEF SignIn, Moves
  <2>4. CASE FailsAndDrops(c, "other") /\ UNCHANGED sess
    BY SMTT(30), <1>15, <2>4 DEF SignIn, FailsAndDrops
  <2>5. CASE Fails(c, "answer", "other") /\ UNCHANGED sess
    BY <1>15, <2>5 DEF SignIn, Fails
  <2> QED BY <1>15, <2>1, <2>2, <2>3, <2>4, <2>5 DEF SignIn
<1>16. ASSUME NEW c \in Calls, FetchParams(c)
      PROVE  OwnedUnlessOverlapped'
  BY <1>16 DEF FetchParams, Moves
<1>17. ASSUME NEW c \in Calls, Accepted(c)
      PROVE  OwnedUnlessOverlapped'
  BY <1>17 DEF Accepted, Moves
<1>18. ASSUME NEW c \in Calls, NotAccepted(c)
      PROVE  OwnedUnlessOverlapped'
  <2>1. CASE Fails(c, "answer", "other")
    BY <1>18, <2>1 DEF NotAccepted, Fails
  <2>2. CASE FailsAndDrops(c, "other")
    BY <1>18, <2>2 DEF NotAccepted, FailsAndDrops
  <2> QED BY <1>18, <2>1, <2>2 DEF NotAccepted
<1>19. ASSUME NEW c \in Calls, Store(c)
      PROVE  OwnedUnlessOverlapped'
  <2>1. CASE DropsThen(c, "answer")
    BY <1>19, <2>1 DEF Store, DropsThen
  <2>2. CASE Fails(c, "answer", "other")
    BY <1>19, <2>2 DEF Store, Fails
  <2> QED BY <1>19, <2>1, <2>2 DEF Store
<1>20. ASSUME NEW c \in Calls, ClientConnects(c)
      PROVE  OwnedUnlessOverlapped'
  BY <1>20 DEF ClientConnects, Onward, Moves
<1>21. ASSUME NEW c \in Calls, ConnectFails(c)
      PROVE  OwnedUnlessOverlapped'
  BY <1>21 DEF ConnectFails, Moves
<1>22. ASSUME NEW c \in Calls, RebuildConnects(c)
      PROVE  OwnedUnlessOverlapped'
  BY <1>22 DEF RebuildConnects, Onward, Moves
<1>23. ASSUME NEW c \in Calls, RebuildFails(c)
      PROVE  OwnedUnlessOverlapped'
  <2>1. CASE call[c].op = "send" /\ DropsThen(c, "build")
    BY <1>23, <2>1 DEF RebuildFails, DropsThen
  <2>2. CASE FailsAndDrops(c, "other")
    BY SMTT(30), <1>23, <2>2 DEF RebuildFails, FailsAndDrops
  <2>3. CASE Fails(c, "answer", "other")
    BY <1>23, <2>3 DEF RebuildFails, Fails
  <2> QED BY <1>23, <2>1, <2>2, <2>3 DEF RebuildFails
<1>24. ASSUME NEW c \in Calls, DropStarts(c)
      PROVE  OwnedUnlessOverlapped'
  <2>1. CASE active = None
    <3>1. /\ \A x \in Calls : x # c => call'[x] = call[x]
          /\ call'[c].pc \in {"build", "answer"}
          /\ UNCHANGED <<active, sess, link, tearing, overlapped>>
      BY <1>24, <2>1 DEF DropStarts, Moves
    <3>2. \A x \in Calls : x # c => call'[x].pc \notin Inside
      BY <1>24, <3>1 DEF DropStarts
    <3>3. call[c].pc = "drop"
      BY <1>24 DEF DropStarts
    <3> QED BY <2>1, <3>1, <3>2, <3>3
  <2>2. CASE active # None
    <3>1. /\ \A x \in Calls : x # c => call'[x] = call[x]
          /\ call'[c].pc = "dropping"
          /\ UNCHANGED <<active, tearing, overlapped>>
      BY <1>24, <2>2 DEF DropStarts
    <3>2. /\ sess' = [sess EXCEPT ![active].armed = FALSE]
          /\ link' = [link EXCEPT ![sess[active].client] = FALSE]
          /\ holder = c
      BY <1>24, <2>2 DEF DropStarts
    <3>3. \A s \in Sessions : /\ sess'[s].client = sess[s].client
                             /\ sess'[s].stage = sess[s].stage
      BY <3>2
    <3>4. \A x \in Calls : x # c => call'[x].pc \notin Inside
      BY <3>1, <3>2
    <3>5. call[c].pc = "drop"
      BY <1>24 DEF DropStarts
    <3> QED BY <2>2, <3>1, <3>2, <3>3, <3>4, <3>5
  <2> QED BY <2>1, <2>2
<1>25. ASSUME NEW c \in Calls, DropEnds(c)
      PROVE  OwnedUnlessOverlapped'
  BY <1>25 DEF DropEnds
<1>26. ASSUME NEW c \in Calls, Answer(c)
      PROVE  OwnedUnlessOverlapped'
  BY <1>26 DEF Answer, PassesOn, Remembers, Idle
<1>27. ASSUME NEW s \in Sessions, TimerFires(s)
      PROVE  OwnedUnlessOverlapped'
  BY <1>27 DEF TimerFires, TearsDown
<1>28. ASSUME NEW source \in Sources, NEW s \in Sessions, TeardownEnds(source, s)
      PROVE  OwnedUnlessOverlapped'
  BY <1>28 DEF TeardownEnds
<1>29. ASSUME NEW k \in Clients, ConnectionLost(k)
      PROVE  OwnedUnlessOverlapped'
  BY <1>29 DEF ConnectionLost
<1>30. ASSUME CleanupStale
      PROVE  OwnedUnlessOverlapped'
  BY <1>30 DEF CleanupStale, TearsDown
<1>31. ASSUME RejectionEnds
      PROVE  OwnedUnlessOverlapped'
  BY <1>31 DEF RejectionEnds
<1>32. ASSUME Restart
      PROVE  OwnedUnlessOverlapped'
  BY <1>32 DEF Restart, Idle, Blank
<1>33. CASE UNCHANGED vars
  BY <1>33 DEF vars
<1> QED
  BY <1>1, <1>2, <1>3, <1>4, <1>5, <1>6, <1>7, <1>8, <1>9, <1>10, <1>11,
     <1>12, <1>13, <1>14, <1>15, <1>16, <1>17, <1>18, <1>19, <1>20, <1>21,
     <1>22, <1>23, <1>24, <1>25, <1>26, <1>27, <1>28, <1>29, <1>30, <1>31,
     <1>32, <1>33
     DEF Next, Arrives, Sends, Verifies, Shared, Step, Outside

(* A call comes to ask only from where it was about to.                    *)
LEMMA AskersWillAsk ==
    ASSUME TypeOK, [Next]_vars, NEW c \in Calls,
           call[c].pc \notin {"resend", "ask"}, call'[c].pc \in {"resend", "ask"}
    PROVE  WillAsk(c)
<1> USE NoneIsNothing DEF TypeOK, CallRecords, WillAsk
<1>1. ASSUME NEW d \in Calls, SendArrives(d)
      PROVE  WillAsk(c)
  <2>1. CASE inflight # None
    BY <1>1, <2>1 DEF SendArrives, Moves
  <2>2. CASE inflight = None
    BY <1>1, <2>2 DEF SendArrives, Idle
  <2> QED BY <2>1, <2>2
<1>2. ASSUME NEW d \in Calls, VerifyArrives(d)
      PROVE  WillAsk(c)
  BY <1>2 DEF VerifyArrives, Locks, Idle
<1>3. ASSUME NEW d \in Calls, SendRefused(d)
      PROVE  WillAsk(c)
  BY <1>3 DEF SendRefused, Enters, Holds, FailsAndDrops
<1>4. ASSUME NEW d \in Calls, SendCooling(d)
      PROVE  WillAsk(c)
  BY <1>4 DEF SendCooling, Enters, Holds, Resendable, Refreshed, Moves
<1>5. ASSUME NEW d \in Calls, SendAgain(d)
      PROVE  WillAsk(c)
  BY <1>5 DEF SendAgain, Enters, Holds, Resendable, Refreshed
<1>6. ASSUME NEW d \in Calls, SendFresh(d)
      PROVE  WillAsk(c)
  BY <1>6 DEF SendFresh, Enters, Holds, Resendable, DropsThen
<1>7. ASSUME NEW d \in Calls, Resent(d)
      PROVE  WillAsk(c)
  BY <1>7 DEF Resent, CodeSent, Moves
<1>8. ASSUME NEW d \in Calls, ResendFails(d)
      PROVE  WillAsk(c)
  BY <1>8 DEF ResendFails, Fails, FailsAndDrops, DropsThen
<1>9. ASSUME NEW d \in Calls, BuildConnects(d)
      PROVE  WillAsk(c)
  BY <1>9 DEF BuildConnects
<1>10. ASSUME NEW d \in Calls, BuildFails(d)
      PROVE  WillAsk(c)
  BY <1>10 DEF BuildFails, FailsAndDrops
<1>11. ASSUME NEW d \in Calls, AskedFresh(d)
      PROVE  WillAsk(c)
  BY <1>11 DEF AskedFresh, Registered, Blank, Moves
<1>12. ASSUME NEW d \in Calls, AskFails(d)
      PROVE  WillAsk(c)
  BY <1>12 DEF AskFails
<1>13. ASSUME NEW d \in Calls, VerifyRefused(d)
      PROVE  WillAsk(c)
  BY <1>13 DEF VerifyRefused, Enters, Holds, Fails
<1>14. ASSUME NEW d \in Calls, VerifyStarts(d)
      PROVE  WillAsk(c)
  BY <1>14 DEF VerifyStarts, Enters, Holds, Refreshed
<1>15. ASSUME NEW d \in Calls, SignIn(d)
      PROVE  WillAsk(c)
  BY <1>15 DEF SignIn, Moves, Fails, FailsAndDrops
<1>16. ASSUME NEW d \in Calls, FetchParams(d)
      PROVE  WillAsk(c)
  BY <1>16 DEF FetchParams, Moves
<1>17. ASSUME NEW d \in Calls, Accepted(d)
      PROVE  WillAsk(c)
  BY <1>17 DEF Accepted, Moves
<1>18. ASSUME NEW d \in Calls, NotAccepted(d)
      PROVE  WillAsk(c)
  BY SMTT(30), <1>18 DEF NotAccepted, Fails, FailsAndDrops
<1>19. ASSUME NEW d \in Calls, Store(d)
      PROVE  WillAsk(c)
  BY SMTT(30), <1>19 DEF Store, DropsThen, Fails
<1>20. ASSUME NEW d \in Calls, ClientConnects(d)
      PROVE  WillAsk(c)
  BY <1>20 DEF ClientConnects, Onward, Moves
<1>21. ASSUME NEW d \in Calls, ConnectFails(d)
      PROVE  WillAsk(c)
  BY <1>21 DEF ConnectFails, Moves
<1>22. ASSUME NEW d \in Calls, RebuildConnects(d)
      PROVE  WillAsk(c)
  BY <1>22 DEF RebuildConnects, Onward, Moves
<1>23. ASSUME NEW d \in Calls, RebuildFails(d)
      PROVE  WillAsk(c)
  <2>1. CASE call[d].op = "send" /\ DropsThen(d, "build")
    BY <1>23, <2>1 DEF RebuildFails, DropsThen
  <2>2. CASE FailsAndDrops(d, "other")
    BY <1>23, <2>2 DEF RebuildFails, FailsAndDrops
  <2>3. CASE Fails(d, "answer", "other")
    BY <1>23, <2>3 DEF RebuildFails, Fails
  <2> QED BY <1>23, <2>1, <2>2, <2>3 DEF RebuildFails
<1>24. ASSUME NEW d \in Calls, DropStarts(d)
      PROVE  WillAsk(c)
  <2>1. CASE active = None
    BY <1>24, <2>1 DEF DropStarts, Moves
  <2>2. CASE active # None
    BY <1>24, <2>2 DEF DropStarts
  <2> QED BY <1>24, <2>1, <2>2 DEF DropStarts
<1>25. ASSUME NEW d \in Calls, DropEnds(d)
      PROVE  WillAsk(c)
  BY <1>25 DEF DropEnds
<1>26. ASSUME NEW d \in Calls, Answer(d)
      PROVE  WillAsk(c)
  BY <1>26 DEF Answer, PassesOn, Remembers, Idle
<1>27. CASE Restart
  BY <1>27 DEF Restart, Idle
<1>28. CASE (Outside /\ ~Restart) \/ UNCHANGED vars
  BY <1>28 DEF Outside, TimerFires, TeardownEnds, ConnectionLost,
     CleanupStale, RejectionEnds, vars
<1> QED
  BY <1>1, <1>2, <1>3, <1>4, <1>5, <1>6, <1>7, <1>8, <1>9, <1>10, <1>11,
     <1>12, <1>13, <1>14, <1>15, <1>16, <1>17, <1>18, <1>19, <1>20, <1>21,
     <1>22, <1>23, <1>24, <1>25, <1>26, <1>27, <1>28
     DEF Next, Arrives, Sends, Verifies, Shared, Step

-----------------------------------------------------------------------------
LEMMA IInvInit == Init => IInv
<1> SUFFICES ASSUME Init PROVE IInv
  OBVIOUS
<1> USE NoneIsNothing DEF Init
<1>1. TypeOK
  <2>1. sess \in [Sessions -> SessionRecords] /\ call \in [Calls -> CallRecords]
    BY Blanks
  <2>2. link \in [Clients -> BOOLEAN] /\ queue \in Seq(Calls)
    OBVIOUS
  <2> QED BY <2>1, <2>2 DEF TypeOK
<1>2. active = None /\ tearing = {} /\ \A c \in Calls : call[c].pc = "idle"
  BY DEF Idle
<1>3. LockHeld /\ Equipped /\ StageHeld /\ Unrejected /\ SessionsExpire
  BY <1>2 DEF LockHeld, Inside, Equipped, InSession, StageHeld,
     CallMatchesStage, Unrejected, WillAsk, SessionsExpire
<1>4. OwnedUnlessOverlapped
  BY <1>2 DEF OwnedUnlessOverlapped, Owned, Dark, InSession
<1> QED BY <1>1, <1>3, <1>4 DEF IInv

LEMMA IInvStep == IInv /\ [Next]_vars => IInv'
BY TypedStep, LockStep, EquippedStep, StageStep, RejectStep, ExpireStep,
   OwnedStep DEF IInv

LEMMA Invariance == Spec => []IInv
BY IInvInit, IInvStep, PTL DEF Spec

(* The maps, the calls and the history variables keep their types.         *)
THEOREM TypeCorrect == Spec => []TypeOK
<1>1. IInv => TypeOK
  BY DEF IInv
<1> QED BY <1>1, Invariance, PTL

(* No session is registered without a timer ahead of it or a teardown      *)
(* under way, for any number of calls and overlapping teardowns.           *)
THEOREM Expiry == Spec => []SessionsExpire
<1>1. IInv => SessionsExpire
  BY DEF IInv
<1> QED BY <1>1, Invariance, PTL

(* A call asks Telegram for what its session waits for: nothing changes    *)
(* the stage between the decision and the request.                         *)
THEOREM StageRespected == Spec => []CallMatchesStage
<1>1. IInv => CallMatchesStage
  BY DEF IInv, StageHeld
<1> QED BY <1>1, Invariance, PTL

(* A connected client without an owner needs a teardown that overlapped a  *)
(* call: Owned is what the steps preserve until then.                      *)
THEOREM OrphansExplained == Spec => []OrphansNeedOverlap
<1>1. IInv => OrphansNeedOverlap
  <2> SUFFICES ASSUME IInv, ~overlapped, NEW k \in Clients, link[k]
               PROVE  \/ active # None /\ sess[active].client = k
                      \/ holder # None /\ call[holder].client = k
    BY DEF OrphansNeedOverlap
  <2>1. CASE active # None /\ sess[active].client = k
    BY <2>1
  <2>2. ASSUME NEW c \in Calls, call[c].pc = "ask", call[c].client = k
        PROVE  holder # None /\ call[holder].client = k
    BY <2>2, NoneIsNothing DEF IInv, LockHeld, Inside
  <2> QED BY <2>1, <2>2 DEF IInv, OwnedUnlessOverlapped, Owned
<1> QED BY <1>1, Invariance, PTL

(* Telegram is never asked for a code against a remembered rejection, nor  *)
(* again by a call it has stopped: whoever goes on to ask has been         *)
(* Unrejected since it entered.                                            *)
THEOREM RejectionsRespected == Spec => RejectionsHonoured
<1>1. IInv /\ [Next]_vars =>
        [\A c \in Calls :
            (call[c].pc \notin {"resend", "ask"} /\ call'[c].pc \in {"resend", "ask"})
            => reject = "none" /\ call[c].err \notin {"flood", "banned", "cached"}]_vars
  <2> SUFFICES ASSUME IInv, [Next]_vars, NEW c \in Calls,
                      call[c].pc \notin {"resend", "ask"},
                      call'[c].pc \in {"resend", "ask"}
               PROVE  reject = "none" /\ call[c].err \notin {"flood", "banned", "cached"}
    OBVIOUS
  <2>1. WillAsk(c)
    BY AskersWillAsk DEF IInv
  <2> QED BY <2>1 DEF IInv, Unrejected
<1> QED BY <1>1, Invariance, PTL DEF Spec, RejectionsHonoured

-----------------------------------------------------------------------------
(* The queue of the phone: its calls, once each, behind their holder.      *)
LEMMA AppendItems ==
    ASSUME NEW S, NEW s \in Seq(S), NEW x \in S
    PROVE  /\ Len(s) \in Nat /\ Len(Append(s, x)) = Len(s) + 1
           /\ \A i \in 1..Len(s) : Append(s, x)[i] = s[i]
           /\ Append(s, x)[Len(s) + 1] = x
  OBVIOUS

LEMMA TailItems ==
    ASSUME NEW S, NEW s \in Seq(S), s # <<>>
    PROVE  /\ Len(s) \in Nat /\ Len(s) >= 1 /\ Len(Tail(s)) = Len(s) - 1
           /\ \A i \in 1..Len(Tail(s)) : Tail(s)[i] = s[i + 1]
           /\ Head(s) = s[1]
  OBVIOUS

LEMMA QueueItems ==
    ASSUME TypeOK
    PROVE  Len(queue) \in Nat /\ \A i \in 1..Len(queue) : queue[i] \in Calls
BY DEF TypeOK

(* A step of the holder, which stays in its task.                          *)
LEMMA HolderMoves ==
    ASSUME TypeOK, WaitersServed, NEW c \in Calls, holder = c,
           UNCHANGED <<holder, queue, inflight>>,
           call'[c].pc \in Inside, call'[c].op = call[c].op,
           \A b \in Calls \ {c} : call'[b] = call[b]
    PROVE  WaitersServed'
<1>1. \A b \in Calls : InLock(b)' <=> InLock(b)
  BY NoneIsNothing DEF WaitersServed, InLock
<1>2. \A i \in 1..Len(queue') : call'[queue'[i]].pc = "begin" /\ queue'[i] # holder'
  BY QueueItems DEF WaitersServed
<1>3. \A b \in Calls : InLock(b)' =>
         \/ holder' = b
         \/ call'[b].pc = "begin" /\ \E i \in 1..Len(queue') : queue'[i] = b
  BY <1>1 DEF WaitersServed
<1>4. \A b \in Calls : InLock(b)' /\ call'[b].op = "send" <=> inflight' = b
  BY <1>1 DEF WaitersServed
<1>5. \A b \in Calls : call'[b].pc = "joined" => inflight' # None
  BY DEF WaitersServed, Inside
<1>6. holder' # None => InLock(holder)'
  BY DEF InLock
<1> QED  BY <1>2, <1>3, <1>4, <1>5, <1>6 DEF WaitersServed

(* A step of nobody.                                                       *)
LEMMA QueueFrame ==
    ASSUME WaitersServed, UNCHANGED <<holder, queue, inflight, call>>
    PROVE  WaitersServed'
BY DEF WaitersServed, InLock

(* A call comes and waits for the lock, or has it at once.                 *)
LEMMA CallQueues ==
    ASSUME TypeOK, WaitersServed, NEW c \in Calls,
           call[c].pc = "idle", call'[c].pc = "begin",
           \A b \in Calls \ {c} : call'[b] = call[b],
           Locks(c),
           \/ call'[c].op = "send" /\ inflight = None /\ inflight' = c
           \/ call'[c].op = "verify" /\ inflight' = inflight
    PROVE  WaitersServed'
<1> USE NoneIsNothing
<1> DEFINE n == Len(queue)
           In(b) == call'[b].pc \in Inside \cup {"begin"}
<1>1. /\ n \in Nat
      /\ \A i \in 1..n : queue[i] \in Calls
      /\ ~InLock(c) /\ holder # c /\ inflight # c
      /\ In(c)
      /\ \A b \in Calls \ {c} : In(b) <=> InLock(b)
  BY QueueItems DEF WaitersServed, InLock, Inside
<1> HIDE DEF In
<1>2. \A i \in 1..n : queue[i] # c /\ call'[queue[i]].pc = "begin"
  BY <1>1 DEF WaitersServed
<1>3. \A b \in Calls : In(b) /\ call'[b].op = "send" <=> inflight' = b
  BY <1>1 DEF WaitersServed
<1>4. \A b \in Calls : call'[b].pc = "joined" => inflight' # None
  BY DEF WaitersServed
<1>5. CASE holder = None
  <2>1. holder' = c /\ queue' = queue /\ n = 0
    BY <1>5 DEF Locks, WaitersServed
  <2>2. \A b \in Calls : In(b) => holder' = b
    BY <1>1, <1>5, <2>1 DEF WaitersServed
  <2>3. In(holder')
    BY <1>1, <2>1
  <2> QED  BY <1>3, <1>4, <1>5, <2>1, <2>2, <2>3 DEF WaitersServed, InLock, In
<1>6. CASE holder # None
  <2>1. /\ holder' = holder /\ Len(queue') = n + 1
        /\ \A i \in 1..n : queue'[i] = queue[i]
        /\ queue'[n + 1] = c
    BY <1>6, AppendItems DEF Locks, TypeOK
  <2>2. \A i \in 1..Len(queue') : i \in 1..n \/ i = n + 1
    BY <1>1, <2>1
  <2>3. \A i \in 1..Len(queue') : call'[queue'[i]].pc = "begin" /\ queue'[i] # holder'
    BY <1>1, <1>2, <2>1, <2>2 DEF WaitersServed
  <2>4. ASSUME NEW i \in 1..Len(queue'), NEW j \in 1..Len(queue'), queue'[i] = queue'[j]
        PROVE  i = j
    <3>1. CASE i \in 1..n /\ j \in 1..n
      BY <2>1, <2>4, <3>1 DEF WaitersServed
    <3>2. CASE ~(i \in 1..n /\ j \in 1..n)
      BY <1>2, <2>1, <2>2, <2>4, <3>2
    <3> QED  BY <3>1, <3>2
  <2>5. ASSUME NEW b \in Calls, In(b)
        PROVE  \/ holder' = b
               \/ call'[b].pc = "begin" /\ \E i \in 1..Len(queue') : queue'[i] = b
    <3>1. CASE b = c
      <4>1. n + 1 \in 1..Len(queue')
        BY <1>1, <2>1
      <4> QED  BY <2>1, <3>1, <4>1
    <3>2. CASE b # c
      <4>1. InLock(b) /\ call'[b] = call[b]
        BY <1>1, <2>5, <3>2
      <4>2. CASE holder = b
        BY <2>1, <4>2
      <4>3. CASE holder # b
        <5>1. PICK i \in 1..n : queue[i] = b
          BY <4>1, <4>3 DEF WaitersServed
        <5>2. i \in 1..Len(queue') /\ queue'[i] = b
          BY <1>1, <2>1, <5>1
        <5> QED  BY <4>1, <4>3, <5>2 DEF WaitersServed
      <4> QED  BY <4>2, <4>3
    <3> QED  BY <3>1, <3>2
  <2>6. In(holder')
    BY <1>1, <1>6, <2>1 DEF WaitersServed, TypeOK
  <2>7. holder' # None
    BY <1>6, <2>1
  <2>8. \A b \in Calls : InLock(b)' <=> In(b)
    BY DEF InLock, In
  <2>9. InLock(holder)'
    BY <2>6 DEF InLock, In
  <2> HIDE DEF n
  <2> QED  BY <1>3, <1>4, <2>3, <2>4, <2>5, <2>7, <2>8, <2>9 DEF WaitersServed
<1> QED  BY <1>5, <1>6

(* A call settles: the next of the queue holds the lock, and whoever       *)
(* joined it settles too.                                                  *)
LEMMA CallSettles ==
    ASSUME TypeOK, WaitersServed, NEW c \in Calls, holder = c, Answer(c)
    PROVE  WaitersServed'
<1> USE NoneIsNothing
<1> DEFINE n == Len(queue)
           In(b) == call'[b].pc \in Inside \cup {"begin"}
<1>1. /\ n \in Nat
      /\ \A i \in 1..n : queue[i] \in Calls
  BY QueueItems
<1>2. InLock(c) /\ ~In(c)
  BY DEF Answer, InLock, Inside, Idle
<1>3. \A b \in Calls \ {c} :
         /\ In(b) <=> InLock(b)
         /\ InLock(b) => call'[b] = call[b]
         /\ call'[b].pc = "joined" => call[b].pc = "joined" /\ inflight # c
  BY DEF Answer, InLock, Inside, Idle
<1> HIDE DEF In
<1>4. \A b \in Calls : In(b) /\ call'[b].op = "send" <=> inflight' = b
  <2>1. inflight' = IF inflight = c THEN None ELSE inflight
    BY DEF Answer
  <2>2. \A b \in Calls : inflight' = b <=> b # c /\ inflight = b
    BY <2>1 DEF TypeOK
  <2> QED  BY <1>2, <1>3, <2>2 DEF WaitersServed
<1>5. \A b \in Calls : call'[b].pc = "joined" => inflight' # None
  <2>1. call'[c].pc # "joined"
    BY DEF Answer, Idle
  <2> QED  BY <1>3, <2>1 DEF WaitersServed, Answer
<1>6. \A i \in 1..n : queue[i] # c /\ InLock(queue[i]) /\ call'[queue[i]].pc = "begin"
  BY <1>1, <1>3 DEF WaitersServed, InLock
<1>7. CASE queue = <<>>
  <2>1. holder' = None /\ queue' = <<>> /\ n = 0
    BY <1>7 DEF Answer, PassesOn
  <2>2. \A b \in Calls : ~In(b)
    BY <1>2, <1>3, <2>1 DEF WaitersServed
  <2> QED  BY <1>4, <1>5, <2>1, <2>2 DEF WaitersServed, InLock, In
<1>8. CASE queue # <<>>
  <2>1. /\ n >= 1 /\ holder' = queue[1] /\ Len(queue') = n - 1
        /\ \A i \in 1..Len(queue') : queue'[i] = queue[i + 1]
    BY <1>8, TailItems DEF Answer, PassesOn, TypeOK
  <2>2. \A i \in 1..Len(queue') : i + 1 \in 1..n /\ i + 1 # 1
    BY <1>1, <2>1
  <2>3. 1 \in 1..n /\ holder' \in Calls /\ call'[holder'].pc = "begin"
    BY <1>1, <1>6, <2>1
  <2>4. \A i \in 1..Len(queue') : call'[queue'[i]].pc = "begin" /\ queue'[i] # holder'
    BY <1>6, <2>1, <2>2, <2>3 DEF WaitersServed
  <2>5. ASSUME NEW i \in 1..Len(queue'), NEW j \in 1..Len(queue'), queue'[i] = queue'[j]
        PROVE  i = j
    <3>1. i + 1 = j + 1
      BY <2>1, <2>2, <2>5 DEF WaitersServed
    <3> QED  BY <1>1, <2>1, <3>1
  <2>6. ASSUME NEW b \in Calls, In(b)
        PROVE  \/ holder' = b
               \/ call'[b].pc = "begin" /\ \E i \in 1..Len(queue') : queue'[i] = b
    <3>1. b # c /\ InLock(b)
      BY <1>2, <1>3, <2>6
    <3>2. PICK i \in 1..n : queue[i] = b
      BY <3>1 DEF WaitersServed
    <3>3. CASE i = 1
      BY <2>1, <3>2, <3>3
    <3>4. CASE i # 1
      <4>1. i - 1 \in 1..Len(queue') /\ (i - 1) + 1 = i
        BY <1>1, <2>1, <3>4
      <4>2. queue'[i - 1] = b
        BY <2>1, <3>2, <4>1
      <4> QED  BY <1>6, <3>2, <4>1, <4>2
    <3> QED  BY <3>3, <3>4
  <2>7. In(holder')
    BY <2>3 DEF In
  <2> QED  BY <1>4, <1>5, <2>4, <2>5, <2>6, <2>7, <2>3 DEF WaitersServed, InLock, In
<1> QED  BY <1>7, <1>8

(* What every step under the lock but the answer does to the calls.        *)
LEMMA HolderSteps ==
    ASSUME TypeOK, LockHeld, NEW c \in Calls, Step(c), ~Answer(c)
    PROVE  /\ holder = c /\ UNCHANGED <<holder, queue, inflight>>
           /\ call'[c].pc \in Inside /\ call'[c].op = call[c].op
           /\ \A b \in Calls \ {c} : call'[b] = call[b]
<1> DEFINE Goal == /\ holder = c /\ UNCHANGED <<holder, queue, inflight>>
                   /\ call'[c].pc \in Inside /\ call'[c].op = call[c].op
                   /\ \A b \in Calls \ {c} : call'[b] = call[b]
<1> USE DEF TypeOK, LockHeld, CallRecords, Inside
<1>1. CASE SendRefused(c)
  BY <1>1 DEF SendRefused, Enters, Holds, FailsAndDrops
<1>2. CASE SendCooling(c)
  BY <1>2 DEF SendCooling, Enters, Holds, Moves
<1>3. CASE SendAgain(c)
  BY <1>3 DEF SendAgain, Enters, Holds
<1>4. CASE SendFresh(c)
  BY <1>4 DEF SendFresh, Enters, Holds, DropsThen
<1>5. CASE Resent(c)
  BY <1>5 DEF Resent, Moves
<1>6. CASE ResendFails(c)
  BY <1>6 DEF ResendFails, Fails, FailsAndDrops, DropsThen
<1>7. CASE BuildConnects(c)
  BY <1>7 DEF BuildConnects
<1>8. CASE BuildFails(c)
  BY <1>8 DEF BuildFails, FailsAndDrops
<1>9. CASE AskedFresh(c)
  BY <1>9 DEF AskedFresh, Moves
<1>10. CASE AskFails(c)
  BY <1>10 DEF AskFails
<1>11. CASE VerifyRefused(c)
  BY <1>11 DEF VerifyRefused, Enters, Holds, Fails
<1>12. CASE VerifyStarts(c)
  BY <1>12 DEF VerifyStarts, Enters, Holds
<1>13. CASE SignIn(c)
  BY <1>13 DEF SignIn, Moves, Fails, FailsAndDrops
<1>14. CASE FetchParams(c)
  BY <1>14 DEF FetchParams, Moves
<1>15. CASE Accepted(c)
  BY <1>15 DEF Accepted, Moves
<1>16. CASE NotAccepted(c)
  BY <1>16 DEF NotAccepted, Fails, FailsAndDrops
<1>17. CASE Store(c)
  BY <1>17 DEF Store, DropsThen, Fails
<1>18. CASE ClientConnects(c)
  BY <1>18 DEF ClientConnects, Onward, Moves
<1>19. CASE ConnectFails(c)
  BY <1>19 DEF ConnectFails, Moves
<1>20. CASE RebuildConnects(c)
  BY <1>20 DEF RebuildConnects, Onward, Moves
<1>21. CASE RebuildFails(c)
  BY <1>21 DEF RebuildFails, DropsThen, Fails, FailsAndDrops
<1>22. CASE DropStarts(c)
  BY <1>22 DEF DropStarts, Moves
<1>23. CASE DropEnds(c)
  BY <1>23 DEF DropEnds
<1> HIDE DEF Goal
<1> QED
  BY <1>1, <1>2, <1>3, <1>4, <1>5, <1>6, <1>7, <1>8, <1>9, <1>10, <1>11, <1>12, <1>13, <1>14, <1>15, <1>16, <1>17, <1>18, <1>19, <1>20, <1>21, <1>22, <1>23
     DEF Goal, Step, Sends, Verifies, Shared

LEMMA WaitersStep ==
    ASSUME TypeOK, LockHeld, WaitersServed, [Next]_vars
    PROVE  WaitersServed'
<1>1. ASSUME NEW c \in Calls, SendArrives(c)
      PROVE  WaitersServed'
  <2>1. CASE inflight = None
    <3>1. /\ call[c].pc = "idle" /\ call'[c].pc = "begin" /\ call'[c].op = "send"
          /\ \A b \in Calls \ {c} : call'[b] = call[b]
          /\ Locks(c) /\ inflight' = c
      BY <1>1, <2>1 DEF SendArrives, TypeOK, Idle
    <3> QED  BY <2>1, <3>1, CallQueues
  <2>2. CASE inflight # None
    <3>1. /\ UNCHANGED <<holder, queue, inflight>>
          /\ ~InLock(c) /\ ~InLock(c)'
          /\ \A b \in Calls \ {c} : call'[b] = call[b]
      BY <1>1, <2>2 DEF SendArrives, Moves, TypeOK, CallRecords, InLock, Inside
    <3>2. \A b \in Calls : InLock(b) => b # c /\ InLock(b)'
      BY <3>1 DEF InLock
    <3>3. \A b \in Calls : InLock(b)' => b # c /\ InLock(b)
      BY <3>1 DEF InLock
    <3>4. \A i \in 1..Len(queue') : call'[queue'[i]].pc = "begin" /\ queue'[i] # holder'
      BY <3>1, QueueItems DEF WaitersServed, InLock
    <3>5. \A b \in Calls : InLock(b)' =>
             \/ holder' = b
             \/ call'[b].pc = "begin" /\ \E i \in 1..Len(queue') : queue'[i] = b
      BY <3>1, <3>3 DEF WaitersServed
    <3>6. \A b \in Calls : InLock(b)' /\ call'[b].op = "send" <=> inflight' = b
      BY <3>1, <3>2, <3>3 DEF WaitersServed
    <3>7. holder' # None => InLock(holder)'
      BY <3>1, <3>2 DEF WaitersServed, TypeOK
    <3> QED  BY <2>2, <3>1, <3>4, <3>5, <3>6, <3>7 DEF WaitersServed
  <2> QED  BY <2>1, <2>2
<1>2. ASSUME NEW c \in Calls, VerifyArrives(c)
      PROVE  WaitersServed'
  <2>1. /\ call[c].pc = "idle" /\ call'[c].pc = "begin" /\ call'[c].op = "verify"
        /\ \A b \in Calls \ {c} : call'[b] = call[b]
        /\ Locks(c) /\ inflight' = inflight
    BY <1>2 DEF VerifyArrives, TypeOK, Idle
  <2> QED  BY <2>1, CallQueues
<1>3. ASSUME NEW c \in Calls, Step(c)
      PROVE  WaitersServed'
  <2>1. CASE Answer(c)
    <3>1. holder = c
      BY <2>1 DEF Answer, LockHeld, Inside
    <3> QED  BY <2>1, <3>1, CallSettles
  <2>2. CASE ~Answer(c)
    BY <1>3, <2>2, HolderSteps, HolderMoves
  <2> QED  BY <2>1, <2>2
<1>4. CASE Restart
  BY <1>4, NoneIsNothing DEF Restart, WaitersServed, InLock, Inside, Idle
<1>5. CASE (Outside /\ ~Restart) \/ UNCHANGED vars
  <2>1. UNCHANGED <<holder, queue, inflight, call>>
    BY <1>5 DEF Outside, TimerFires, TeardownEnds, ConnectionLost, CleanupStale,
       RejectionEnds, vars
  <2> QED  BY <2>1, QueueFrame
<1> QED  BY <1>1, <1>2, <1>3, <1>4, <1>5 DEF Next, Arrives

(* No call of the phone is forgotten: the queue behind the lock is exactly *)
(* the calls that wait, and a joined send has its send.  Beside types and  *)
(* the lock this needs nothing; CallsAnswered needs the fairness on top.   *)
THEOREM WaitersKept == Spec => []WaitersServed
<1>1. Init => WaitersServed
  BY NoneIsNothing DEF Init, WaitersServed, InLock, Inside, Idle
<1>2. TypeOK /\ LockHeld /\ WaitersServed /\ [Next]_vars => WaitersServed'
  BY WaitersStep
<1>3. IInv => TypeOK /\ LockHeld
  BY DEF IInv
<1> QED  BY <1>1, <1>2, <1>3, Invariance, PTL DEF Spec

-----------------------------------------------------------------------------
(* The sign-in as its callers see it.                                      *)

(* A fresh send has the phone to itself, whatever teardowns overlap it.    *)
Vacant == \A c \in Calls : call[c].pc \in {"build", "ask"} => active = None

(* A step of the lock's holder keeps Vacant if the entry goes or stays     *)
(* and the holder is not on its way to build.                              *)
LEMMA VacantHolder ==
    ASSUME LockHeld, Vacant, NEW c \in Calls, holder = c,
           \A b \in Calls \ {c} : call'[b] = call[b],
           call'[c].pc \in {"build", "ask"} => active' = None
    PROVE  Vacant'
<1> SUFFICES ASSUME NEW b \in Calls, call'[b].pc \in {"build", "ask"}
             PROVE  active' = None
  BY DEF Vacant
<1>1. CASE b # c
  BY <1>1 DEF LockHeld, Inside
<1>2. CASE b = c
  BY <1>2
<1> QED  BY <1>1, <1>2

LEMMA VacantCall ==
    ASSUME TypeOK, LockHeld, Vacant, NEW c \in Calls, Step(c), ~Answer(c)
    PROVE  Vacant'
<1>0. holder = c /\ \A b \in Calls \ {c} : call'[b] = call[b]
  BY HolderSteps
<1> SUFFICES call'[c].pc \in {"build", "ask"} => active' = None
  BY <1>0, VacantHolder
<1> USE DEF TypeOK, CallRecords
<1>1. CASE SendRefused(c) \/ SendCooling(c) \/ SendAgain(c) \/ SendFresh(c)
  BY <1>1 DEF SendRefused, SendCooling, SendAgain, SendFresh, FailsAndDrops, DropsThen,
              Moves
<1>2. CASE Resent(c) \/ ResendFails(c)
  BY <1>2 DEF Resent, ResendFails, Fails, FailsAndDrops, DropsThen, Moves
<1>3. CASE BuildConnects(c) \/ BuildFails(c)
  BY <1>3 DEF BuildConnects, BuildFails, FailsAndDrops, Vacant
<1>4. CASE AskedFresh(c) \/ AskFails(c)
  BY <1>4 DEF AskedFresh, AskFails, Moves
<1>5. CASE VerifyRefused(c) \/ VerifyStarts(c) \/ SignIn(c) \/ FetchParams(c)
  BY <1>5 DEF VerifyRefused, VerifyStarts, SignIn, FetchParams, Fails, FailsAndDrops,
              Moves
<1>6. CASE Accepted(c) \/ NotAccepted(c) \/ Store(c)
  BY <1>6 DEF Accepted, NotAccepted, Store, Fails, FailsAndDrops, DropsThen, Moves
<1>7. CASE ClientConnects(c) \/ RebuildConnects(c)
  BY <1>7 DEF ClientConnects, RebuildConnects, Onward, Moves
<1>8. CASE ConnectFails(c) \/ RebuildFails(c)
  BY <1>8 DEF ConnectFails, RebuildFails, Fails, FailsAndDrops, DropsThen, Moves
<1>9. CASE DropStarts(c)
  BY <1>9 DEF DropStarts, Moves
<1>10. CASE DropEnds(c)
  BY <1>10 DEF DropEnds
<1> QED
  BY <1>1, <1>2, <1>3, <1>4, <1>5, <1>6, <1>7, <1>8, <1>9, <1>10
     DEF Step, Sends, Verifies, Shared

LEMMA VacantStep ==
    TypeOK /\ LockHeld /\ Vacant /\ [Next]_vars => Vacant'
<1> SUFFICES ASSUME TypeOK, LockHeld, Vacant, [Next]_vars  PROVE Vacant'
  OBVIOUS
<1>1. ASSUME NEW c \in Calls, Arrives(c) \/ Answer(c)  PROVE Vacant'
  <2>1. active' = active
    BY <1>1 DEF Arrives, SendArrives, VerifyArrives, Answer
  <2>2. \A b \in Calls : call'[b].pc \in {"build", "ask"} => call[b].pc = call'[b].pc
    <3>1. CASE SendArrives(c)
      BY <3>1, SMTT(30) DEF SendArrives, Moves, Idle, TypeOK, CallRecords
    <3>2. CASE VerifyArrives(c)
      BY <3>2 DEF VerifyArrives, Idle, TypeOK
    <3>3. CASE Answer(c)
      BY <3>3 DEF Answer, Idle
    <3> QED  BY <1>1, <3>1, <3>2, <3>3 DEF Arrives
  <2> QED  BY <2>1, <2>2 DEF Vacant
<1>2. ASSUME NEW c \in Calls, Step(c), ~Answer(c)  PROVE Vacant'
  BY <1>2, VacantCall
<1>3. CASE Outside
  <2>1. call' = call \/ call' = [c \in Calls |-> Idle]
    BY <1>3 DEF Outside, TimerFires, TeardownEnds, ConnectionLost, CleanupStale,
                RejectionEnds, Restart
  <2>2. active' \in {active, None}
    BY <1>3 DEF Outside, TimerFires, TeardownEnds, ConnectionLost, CleanupStale,
                RejectionEnds, Restart
  <2> QED  BY <2>1, <2>2 DEF Vacant, Idle
<1>4. CASE UNCHANGED vars
  BY <1>4 DEF vars, Vacant
<1> QED  BY <1>1, <1>2, <1>3, <1>4 DEF Next

(* Steps that rewrite a session leave what it waits for.                   *)
LEMMA AwaitsSame ==
    ASSUME active' = active,
           active # None => sess'[active].stage = sess[active].stage
    PROVE  UNCHANGED <<active, Awaits>>
  BY DEF Awaits

LEMMA ProgressCall ==
    ASSUME TypeOK, StageHeld, Vacant, NEW c \in Calls, Arrives(c) \/ Step(c)
    PROVE  [Progress!Next]_<<active, Awaits>>
<1> DEFINE Quiet == /\ active' = active
                    /\ active # None => sess'[active].stage = sess[active].stage
<1>0. Quiet => UNCHANGED <<active, Awaits>>
  BY AwaitsSame
<1>1. CASE UNCHANGED <<active, sess>>
  BY <1>0, <1>1
<1>2. CASE DropStarts(c)
  <2>1. Quiet
    BY <1>2 DEF DropStarts, TypeOK, SessionRecords
  <2> QED  BY <1>0, <2>1
<1>3. CASE DropEnds(c)
  BY <1>3 DEF DropEnds, Awaits, Progress!Next, Progress!Close
<1>4. CASE SendCooling(c) \/ SendAgain(c) \/ VerifyStarts(c)
  <2>1. Quiet
    BY <1>4 DEF SendCooling, SendAgain, VerifyStarts, Refreshed, TypeOK, SessionRecords
  <2> QED  BY <1>0, <2>1
<1>5. CASE RebuildConnects(c)
  <2>1. Quiet
    BY <1>5, NoneIsNothing DEF RebuildConnects, TypeOK, SessionRecords
  <2> QED  BY <1>0, <2>1
<1>6. CASE Resent(c)
  <2>1. sess[call[c].session].stage = "code"
    BY <1>6 DEF Resent, StageHeld, CallMatchesStage
  <2>2. Quiet
    BY <1>6, <2>1, NoneIsNothing DEF Resent, CodeSent, TypeOK, SessionRecords
  <2> QED  BY <1>0, <2>2
<1>7. CASE SignIn(c)
  <2>1. sess[call[c].session].stage = "code"
    BY <1>7 DEF SignIn, StageHeld, CallMatchesStage
  <2>2. active' = active
    BY <1>7 DEF SignIn
  <2>3. CASE UNCHANGED sess
    BY <1>1, <2>2, <2>3
  <2>4. CASE sess' = [sess EXCEPT ![call[c].session].stage = "password"]
    <3>1. CASE active = None \/ active # call[c].session
      <4>1. Quiet
        BY <2>2, <2>4, <3>1, NoneIsNothing DEF TypeOK
      <4> QED  BY <1>0, <4>1
    <3>2. CASE active # None /\ active = call[c].session
      <4>1. sess'[active].stage = "password" /\ sess[active].stage = "code"
        BY <2>1, <2>4, <3>2 DEF TypeOK, SessionRecords
      <4> QED  BY <2>2, <3>2, <4>1 DEF Awaits, Progress!Next, Progress!AskPassword
    <3> QED  BY <3>1, <3>2
  <2> QED  BY <1>7, <2>3, <2>4 DEF SignIn
<1>8. CASE AskedFresh(c)
  <2>1. active = None
    BY <1>8 DEF AskedFresh, Vacant
  <2>2. PICK s \in Sessions : sess' = Registered(s, call[c].client) /\ active' = s
    BY <1>8 DEF AskedFresh
  <2>3. s # None /\ sess'[s].stage = "code"
    BY <2>2, NoneIsNothing DEF Registered, Blank, TypeOK
  <2> QED  BY <2>1, <2>2, <2>3 DEF Awaits, Progress!Next, Progress!Open
<1>9. \/ UNCHANGED <<active, sess>> \/ DropStarts(c) \/ DropEnds(c) \/ SendCooling(c)
      \/ SendAgain(c) \/ VerifyStarts(c) \/ RebuildConnects(c) \/ Resent(c)
      \/ SignIn(c) \/ AskedFresh(c)
  BY DEF Arrives, SendArrives, VerifyArrives, Step, Sends, Verifies, Shared,
         SendRefused, SendFresh, ResendFails, BuildConnects, BuildFails, AskFails,
         VerifyRefused, FetchParams, Accepted, NotAccepted, Store, ClientConnects,
         ConnectFails, RebuildFails, Answer
<1> QED  BY <1>1, <1>2, <1>3, <1>4, <1>5, <1>6, <1>7, <1>8, <1>9

LEMMA ProgressStep ==
    TypeOK /\ StageHeld /\ Vacant /\ [Next]_vars => [Progress!Next]_<<active, Awaits>>
<1> SUFFICES ASSUME TypeOK, StageHeld, Vacant, [Next]_vars
             PROVE  [Progress!Next]_<<active, Awaits>>
  OBVIOUS
<1>1. ASSUME NEW c \in Calls, Arrives(c) \/ Step(c)
      PROVE  [Progress!Next]_<<active, Awaits>>
  BY <1>1, ProgressCall
<1>2. ASSUME NEW s \in Sessions, TimerFires(s)
      PROVE  UNCHANGED <<active, Awaits>>
  <2>1. active' = active /\ (active # None => sess'[active].stage = sess[active].stage)
    BY <1>2 DEF TimerFires, TypeOK, SessionRecords
  <2> QED  BY <2>1, AwaitsSame
<1>3. ASSUME active' = None, active # None
      PROVE  Progress!Close
  BY <1>3 DEF Awaits, Progress!Close
<1>4. ASSUME active' = None, active = None
      PROVE  UNCHANGED <<active, Awaits>>
  BY <1>4 DEF Awaits
<1>5. CASE UNCHANGED <<active, sess>>
  BY <1>5, AwaitsSame
<1>6. \/ \E c \in Calls : Arrives(c) \/ Step(c)
      \/ \E s \in Sessions : TimerFires(s)
      \/ active' = None
      \/ UNCHANGED <<active, sess>>
  BY DEF Next, vars, Outside, TeardownEnds, ConnectionLost, CleanupStale, RejectionEnds,
         Restart
<1> QED  BY <1>1, <1>2, <1>3, <1>4, <1>5, <1>6 DEF Progress!Next

(* To its callers the service is SignupProgress, for any number of calls,   *)
(* also where a teardown overlaps a call: no open sign-in is replaced, and *)
(* none goes back from the password to the code.                           *)
THEOREM ProgressRefinement == Spec => ImplementsProgress
<1>1. Init => Progress!Init /\ Vacant
  BY DEF Init, Progress!Init, Awaits, Vacant, Idle
<1>2. IInv => TypeOK /\ LockHeld /\ StageHeld
  BY DEF IInv
<1>3. Spec => []Vacant
  BY <1>1, <1>2, VacantStep, Invariance, PTL DEF Spec
<1> QED  BY <1>1, <1>2, <1>3, ProgressStep, Invariance, PTL
         DEF Spec, ImplementsProgress, Progress!Spec
=============================================================================
