------------------------------- MODULE Signup -------------------------------
(***************************************************************************)
(* TgSignupService (TgSignup/tg-signup.service.ts): a phone number is      *)
(* signed in to Telegram in several HTTP calls.  sendCode has Telegram     *)
(* send a code, verifyCode signs in with it, with the 2FA password in the  *)
(* same or in a later call, and stores the account.  Between the calls a   *)
(* connected client waits in activeClients, together with the code's hash  *)
(* and a five-minute timer.                                                *)
(*                                                                         *)
(* The module is the life of one phone in one process: every map of the    *)
(* service is keyed by the phone and the locks are per phone.  Calls of    *)
(* the phone queue up behind phoneLocks; the timer and the cleanup tear a  *)
(* session down without taking that lock.                                  *)
(***************************************************************************)
EXTENDS Naturals, Sequences, TLC

CONSTANTS
    Calls,      \* HTTP calls that may be under way at once
    Sessions,   \* identities of ActiveSignupSession objects
    Clients,    \* identities of TelegramClient objects
    None        \* no session, no client, no call

ASSUME NoneIsNothing == None \notin Calls \cup Sessions \cup Clients

VARIABLES
    active,      \* activeClients.get(phone)
    sess,        \* the session objects, registered or not
    link,        \* client.connected
    holder,      \* the call whose task runs under withPhoneLock
    queue,       \* the calls chained behind it, in order
    inflight,    \* inflightSends.get(phone)
    call,        \* each call's position and local variables
    tearing,     \* disconnectClient runs of the timer and of the cleanup
    reject,      \* rejectCache.get(phone), unless it has run out
    overlapped   \* history: a teardown and a locked call have overlapped

vars == <<active, sess, link, holder, queue, inflight, call, tearing, reject,
          overlapped>>

Sources == {"timer", "cleanup"}

(* pc is the await at which the call stands; the pcs of Inside are those   *)
(* of a task that the lock has let in.                                     *)
Inside == {"connect", "rebuild", "resend", "drop", "dropping", "build",
           "ask", "signin", "signup", "params", "password", "store",
           "answer"}
PCs == Inside \cup {"idle", "joined", "begin"}

(* What the call has met: nothing that stops it, a cached rejection, a     *)
(* flood wait, a rejected number, any other error.                         *)
Errors == {"none", "cached", "flood", "banned", "other"}

CallRecords ==
    [op : {"send", "verify"}, pc : PCs,
     session : Sessions \cup {None}, client : Clients \cup {None},
     victim : Sessions \cup {None}, then : {"build", "answer"},
     err : Errors]

SessionRecords ==
    [client : Clients \cup {None},
     stage : {"code", "password"},   \* code_sent, awaiting_password
     armed : BOOLEAN]                \* timeoutId is set

Idle == [op |-> "send", pc |-> "idle", session |-> None, client |-> None,
         victim |-> None, then |-> "answer", err |-> "none"]

Blank == [client |-> None, stage |-> "code", armed |-> FALSE]

Init ==
    /\ active = None
    /\ sess = [s \in Sessions |-> Blank]
    /\ link = [k \in Clients |-> FALSE]
    /\ holder = None
    /\ queue = <<>>
    /\ inflight = None
    /\ call = [c \in Calls |-> Idle]
    /\ tearing = {}
    /\ reject = "none"
    /\ overlapped = FALSE

(* An object nothing refers to any more may stand for the next one.        *)
UnusedSession(s) ==
    /\ s # active
    /\ ~sess[s].armed
    /\ \A c \in Calls : s \notin {call[c].session, call[c].victim}
    /\ \A t \in tearing : t[2] # s

UnusedClient(k) ==
    /\ ~link[k]
    /\ \A s \in Sessions : ~UnusedSession(s) => sess[s].client # k
    /\ \A c \in Calls : call[c].client # k

Moves(c, to) == call' = [call EXCEPT ![c].pc = to]
Fails(c, to, e) == call' = [call EXCEPT ![c].pc = to, ![c].err = e]

(* disconnectClient, after the catch of sendCodeLocked, at the end of      *)
(* verifyCodeLocked or before a fresh send.                                *)
DropsThen(c, then) ==
    call' = [call EXCEPT ![c].pc = "drop", ![c].then = then,
                         ![c].session = None]
FailsAndDrops(c, e) ==
    call' = [call EXCEPT ![c].pc = "drop", ![c].then = "answer",
                         ![c].err = e, ![c].session = None]

-----------------------------------------------------------------------------
(* The calls arrive.                                                       *)

(* withPhoneLock: the task starts when the chain of the phone is empty, or *)
(* else after all that are in it.                                          *)
Locks(c) ==
    IF holder = None
    THEN holder' = c /\ queue' = queue
    ELSE holder' = holder /\ queue' = Append(queue, c)

(* Mutant: a call that waits behind another starts all the same.           *)
HoldsOrNot(c) == holder # None

Holds(c) == holder = c

SendArrives(c) ==
    /\ call[c].pc = "idle"
    /\ IF inflight # None
       THEN /\ Moves(c, "joined")
            /\ UNCHANGED <<holder, queue, inflight>>
       ELSE /\ call' = [call EXCEPT ![c] = [Idle EXCEPT !.pc = "begin"]]
            /\ inflight' = c
            /\ Locks(c)
    /\ UNCHANGED <<active, sess, link, tearing, reject, overlapped>>

VerifyArrives(c) ==
    /\ call[c].pc = "idle"
    /\ call' = [call EXCEPT ![c] = [Idle EXCEPT !.op = "verify",
                                             !.pc = "begin"]]
    /\ Locks(c)
    /\ UNCHANGED <<active, sess, link, inflight, tearing, reject, overlapped>>

(* Mutant: the next call of the chain is not started.                      *)
PassesNothingOn ==
    IF queue = <<>>
    THEN holder' = None /\ queue' = queue
    ELSE holder' = None /\ queue' = Tail(queue)

PassesOn ==
    IF queue = <<>>
    THEN holder' = None /\ queue' = queue
    ELSE holder' = Head(queue) /\ queue' = Tail(queue)

(* The call settles: mapSendError remembers what Telegram rejected, the    *)
(* lock passes on, a send's entry leaves inflightSends and the calls that  *)
(* joined it settle with it.  A flood wait of unknown length is not kept.  *)
Remembers(e) ==
    CASE e = "banned" -> {"banned"}
      [] e = "flood" -> {"flood", reject}
      [] OTHER -> {reject}

Answer(c) ==
    /\ call[c].pc = "answer"
    /\ reject' \in IF call[c].op = "send" THEN Remembers(call[c].err)
                                          ELSE {reject}
    /\ PassesOn
    /\ inflight' = IF inflight = c THEN None ELSE inflight
    /\ call' = [x \in Calls |->
                  IF x = c \/ (inflight = c /\ call[x].pc = "joined")
                  THEN Idle ELSE call[x]]
    /\ UNCHANGED <<active, sess, link, tearing, overlapped>>

-----------------------------------------------------------------------------
(* disconnectClient under the lock: the entry is read and its timer        *)
(* cleared, the client is destroyed, and then the phone's entry is         *)
(* deleted, whichever session it names by then.                            *)

DropStarts(c) ==
    /\ call[c].pc = "drop"
    /\ IF active = None
       THEN /\ Moves(c, call[c].then)
            /\ UNCHANGED <<sess, link>>
       ELSE /\ call' = [call EXCEPT ![c].pc = "dropping",
                                    ![c].victim = active]
            /\ sess' = [sess EXCEPT ![active].armed = FALSE]
            /\ link' = [link EXCEPT ![sess[active].client] = FALSE]
    /\ UNCHANGED <<active, holder, queue, inflight, tearing, reject,
                   overlapped>>

DropEnds(c) ==
    /\ call[c].pc = "dropping"
    /\ active' = None
    /\ call' = [call EXCEPT ![c].pc = call[c].then, ![c].victim = None]
    /\ UNCHANGED <<sess, link, holder, queue, inflight, tearing, reject,
                   overlapped>>

-----------------------------------------------------------------------------
(* The first stretch of a call under the lock.                             *)

(* refreshSessionTimeout *)
Refreshed(s) == [sess EXCEPT ![s].armed = TRUE]

Enters(c) ==
    /\ call[c].pc = "begin"
    /\ Holds(c)
    /\ overlapped' = (overlapped \/ tearing # {})

(* sendCodeLocked: a number Telegram has rejected is refused, and the      *)
(* catch block disconnects whatever session the phone has.                 *)
SendRefused(c) ==
    /\ Enters(c)
    /\ call[c].op = "send"
    /\ reject # "none"
    /\ FailsAndDrops(c, "cached")
    /\ UNCHANGED <<active, sess, link, holder, queue, inflight, tearing,
                   reject>>

Resendable == active # None /\ sess[active].stage = "code"

(* While resendAvailableAt lies ahead, the code already sent is answered   *)
(* again; whether it does is left open.                                    *)
SendCooling(c) ==
    /\ Enters(c)
    /\ call[c].op = "send"
    /\ reject = "none"
    /\ Resendable
    /\ sess' = Refreshed(active)
    /\ Moves(c, "answer")
    /\ UNCHANGED <<active, link, holder, queue, inflight, tearing, reject>>

SendAgain(c) ==
    /\ Enters(c)
    /\ call[c].op = "send"
    /\ reject = "none"
    /\ Resendable
    /\ sess' = Refreshed(active)
    /\ call' = [call EXCEPT ![c].pc = "connect", ![c].session = active]
    /\ UNCHANGED <<active, link, holder, queue, inflight, tearing, reject>>

SendFresh(c) ==
    /\ Enters(c)
    /\ call[c].op = "send"
    /\ reject = "none"
    /\ ~Resendable
    /\ DropsThen(c, "build")
    /\ UNCHANGED <<active, sess, link, holder, queue, inflight, tearing,
                   reject>>

(* verifyCodeLocked: a code of the wrong shape, or no session.             *)
VerifyRefused(c) ==
    /\ Enters(c)
    /\ call[c].op = "verify"
    /\ active # None => sess[active].stage = "code"
    /\ Fails(c, "answer", "other")
    /\ UNCHANGED <<active, sess, link, holder, queue, inflight, tearing,
                   reject>>

VerifyStarts(c) ==
    /\ Enters(c)
    /\ call[c].op = "verify"
    /\ active # None
    /\ sess' = Refreshed(active)
    /\ call' = [call EXCEPT ![c].pc = "connect", ![c].session = active]
    /\ UNCHANGED <<active, link, holder, queue, inflight, tearing, reject>>

-----------------------------------------------------------------------------
(* ensureConnectedClient *)

(* A password session asks for the password, if the call brings one.       *)
Onward(c) ==
    CASE call[c].op = "send" -> {"resend"}
      [] call[c].op = "verify" /\ sess[call[c].session].stage = "code"
            -> {"signin"}
      [] OTHER -> {"password", "answer"}

ClientConnects(c) ==
    /\ call[c].pc = "connect"
    /\ link' = [link EXCEPT ![sess[call[c].session].client] = TRUE]
    /\ \E to \in Onward(c) : Moves(c, to)
    /\ UNCHANGED <<active, sess, holder, queue, inflight, tearing, reject,
                   overlapped>>

(* connect() fails: the client is destroyed and a new one is built from    *)
(* the session's snapshot.                                                 *)
ConnectFails(c) ==
    /\ call[c].pc = "connect"
    /\ ~link[sess[call[c].session].client]
    /\ Moves(c, "rebuild")
    /\ UNCHANGED <<active, sess, link, holder, queue, inflight, tearing,
                   reject, overlapped>>

RebuildConnects(c) ==
    /\ call[c].pc = "rebuild"
    /\ \E k \in Clients :
          /\ UnusedClient(k)
          /\ link' = [link EXCEPT ![k] = TRUE]
          /\ sess' = [sess EXCEPT ![call[c].session].client = k]
    /\ \E to \in Onward(c) : Moves(c, to)
    /\ UNCHANGED <<active, holder, queue, inflight, tearing, reject,
                   overlapped>>

(* A resend falls back to a fresh send; a verification fails, and drops    *)
(* the session when the error reads "Connection failed".                   *)
RebuildFails(c) ==
    /\ call[c].pc = "rebuild"
    /\ \/ call[c].op = "send" /\ DropsThen(c, "build")
       \/ call[c].op = "verify" /\ FailsAndDrops(c, "other")
       \/ call[c].op = "verify" /\ Fails(c, "answer", "other")
    /\ UNCHANGED <<active, sess, link, holder, queue, inflight, tearing,
                   reject, overlapped>>

-----------------------------------------------------------------------------
(* sendCodeLocked goes on: ResendCode, or SendCode, on the client of the   *)
(* session, or SendCode on a client of its own.                            *)

(* applySentCode *)
CodeSent(s) == [sess EXCEPT ![s].stage = "code"]

Resent(c) ==
    /\ call[c].pc = "resend"
    /\ sess' = CodeSent(call[c].session)
    /\ Moves(c, "answer")
    /\ UNCHANGED <<active, link, holder, queue, inflight, tearing, reject,
                   overlapped>>

(* Mutant: every failed resend leads to a fresh send.                      *)
ResendFailsOn(c) ==
    /\ call[c].pc = "resend"
    /\ \/ \E e \in {"flood", "banned", "other"} :
             call' = [call EXCEPT ![c].pc = "drop", ![c].then = "build",
                                  ![c].err = e, ![c].session = None]
       \/ DropsThen(c, "build")
    /\ UNCHANGED <<active, sess, link, holder, queue, inflight, tearing,
                   reject, overlapped>>

(* isTerminalSendError: after a flood the session is kept; any other       *)
(* terminal error drops it, any other error leads to a fresh send.         *)
ResendFails(c) ==
    /\ call[c].pc = "resend"
    /\ \/ Fails(c, "answer", "flood")
       \/ \E e \in {"banned", "other"} : FailsAndDrops(c, e)
       \/ DropsThen(c, "build")
    /\ UNCHANGED <<active, sess, link, holder, queue, inflight, tearing,
                   reject, overlapped>>

BuildConnects(c) ==
    /\ call[c].pc = "build"
    /\ \E k \in Clients :
          /\ UnusedClient(k)
          /\ link' = [link EXCEPT ![k] = TRUE]
          /\ call' = [call EXCEPT ![c].pc = "ask", ![c].client = k]
    /\ UNCHANGED <<active, sess, holder, queue, inflight, tearing, reject,
                   overlapped>>

BuildFails(c) ==
    /\ call[c].pc = "build"
    /\ FailsAndDrops(c, "other")
    /\ UNCHANGED <<active, sess, link, holder, queue, inflight, tearing,
                   reject, overlapped>>

(* Mutant: no expiry is scheduled for a fresh session.                     *)
RegisteredUntimed(s, k) ==
    [sess EXCEPT ![s] = [Blank EXCEPT !.client = k]]

(* The code is sent: the session is registered with its timer.             *)
Registered(s, k) ==
    [sess EXCEPT ![s] = [Blank EXCEPT !.client = k, !.armed = TRUE]]

AskedFresh(c) ==
    /\ call[c].pc = "ask"
    /\ \E s \in Sessions :
          /\ UnusedSession(s)
          /\ sess' = Registered(s, call[c].client)
          /\ active' = s
    /\ Moves(c, "answer")
    /\ UNCHANGED <<link, holder, queue, inflight, tearing, reject, overlapped>>

(* Mutant: a fresh client whose send fails is not destroyed.               *)
AskFailsConnected(c) ==
    /\ call[c].pc = "ask"
    /\ \E e \in {"flood", "banned", "other"} :
          call' = [call EXCEPT ![c].pc = "drop", ![c].then = "answer",
                               ![c].err = e, ![c].client = None]
    /\ UNCHANGED <<active, sess, link, holder, queue, inflight, tearing,
                   reject, overlapped>>

AskFails(c) ==
    /\ call[c].pc = "ask"
    /\ link' = [link EXCEPT ![call[c].client] = FALSE]
    /\ \E e \in {"flood", "banned", "other"} :
          call' = [call EXCEPT ![c].pc = "drop", ![c].then = "answer",
                               ![c].err = e, ![c].client = None]
    /\ UNCHANGED <<active, sess, holder, queue, inflight, tearing, reject,
                   overlapped>>

-----------------------------------------------------------------------------
(* verifyCodeLocked goes on.                                               *)

(* SignIn: the account is in; it needs its password; it does not exist     *)
(* yet; the code or the number is no longer good; any other error keeps    *)
(* the session.  A code that does not fit what was sent is one of these.   *)
SignIn(c) ==
    /\ call[c].pc = "signin"
    /\ \/ Moves(c, "store") /\ UNCHANGED sess
       \/ /\ Moves(c, "params")
          /\ sess' = [sess EXCEPT ![call[c].session].stage = "password"]
       \/ Moves(c, "signup") /\ UNCHANGED sess
       \/ FailsAndDrops(c, "other") /\ UNCHANGED sess
       \/ Fails(c, "answer", "other") /\ UNCHANGED sess
    /\ UNCHANGED <<active, link, holder, queue, inflight, tearing, reject,
                   overlapped>>

(* fetchPasswordParams, whose failure is no error.                         *)
FetchParams(c) ==
    /\ call[c].pc = "params"
    /\ \E to \in {"password", "answer"} : Moves(c, to)
    /\ UNCHANGED <<active, sess, link, holder, queue, inflight, tearing,
                   reject, overlapped>>

(* handleNewUserRegistration, whose error may read "Connection failed" and *)
(* drop the session, or the password check of handle2FALogin.              *)
Accepted(c) ==
    /\ call[c].pc \in {"signup", "password"}
    /\ Moves(c, "store")
    /\ UNCHANGED <<active, sess, link, holder, queue, inflight, tearing, reject,
                   overlapped>>

NotAccepted(c) ==
    /\ call[c].pc \in {"signup", "password"}
    /\ \/ Fails(c, "answer", "other")
       \/ call[c].pc = "signup" /\ FailsAndDrops(c, "other")
    /\ UNCHANGED <<active, sess, link, holder, queue, inflight, tearing,
                   reject, overlapped>>

(* processLoginResult: a stored account needs its session no more; when    *)
(* storing fails the session stays.                                        *)
Store(c) ==
    /\ call[c].pc = "store"
    /\ \/ DropsThen(c, "answer")
       \/ Fails(c, "answer", "other")
    /\ UNCHANGED <<active, sess, link, holder, queue, inflight, tearing,
                   reject, overlapped>>

-----------------------------------------------------------------------------
(* What happens outside the lock.                                          *)

(* disconnectClient for the timer or the cleanup, to its await.            *)
TearsDown(source) ==
    /\ <<source, active>> \notin tearing
    /\ tearing' = tearing \cup {<<source, active>>}
    /\ link' = [link EXCEPT ![sess[active].client] = FALSE]
    /\ overlapped' = (overlapped \/ holder # None)

(* scheduleExpiry's callback: only for the session the phone still has.    *)
TimerFires(s) ==
    /\ sess[s].armed
    /\ sess' = [sess EXCEPT ![s].armed = FALSE]
    /\ IF active = s THEN TearsDown("timer")
                     ELSE UNCHANGED <<link, tearing, overlapped>>
    /\ UNCHANGED <<active, holder, queue, inflight, call, reject>>

(* cleanupStaleSessions: idle for as long as the timer runs, and not       *)
(* connected; so old a session has no timer ahead of it.                   *)
CleanupStale ==
    /\ active # None
    /\ ~sess[active].armed
    /\ ~link[sess[active].client]
    /\ TearsDown("cleanup")
    /\ UNCHANGED <<active, sess, holder, queue, inflight, call, reject>>

(* The finally block: the phone's entry goes, whichever it is by now.      *)
TeardownEnds(source, s) ==
    /\ <<source, s>> \in tearing
    /\ tearing' = tearing \ {<<source, s>>}
    /\ active' = None
    /\ UNCHANGED <<sess, link, holder, queue, inflight, call, reject,
                   overlapped>>

(* Telegram: a connection is lost.                                         *)
ConnectionLost(k) ==
    /\ link[k]
    /\ link' = [link EXCEPT ![k] = FALSE]
    /\ UNCHANGED <<active, sess, holder, queue, inflight, call, tearing,
                   reject, overlapped>>

(* The entry of rejectCache runs out.                                      *)
RejectionEnds ==
    /\ reject # "none"
    /\ reject' = "none"
    /\ UNCHANGED <<active, sess, link, holder, queue, inflight, call,
                   tearing, overlapped>>

(* onModuleDestroy, or the process dies: memory and connections are gone.  *)
Restart ==
    /\ active' = None
    /\ sess' = [s \in Sessions |-> Blank]
    /\ link' = [k \in Clients |-> FALSE]
    /\ holder' = None
    /\ queue' = <<>>
    /\ inflight' = None
    /\ call' = [c \in Calls |-> Idle]
    /\ tearing' = {}
    /\ reject' = "none"
    /\ overlapped' = FALSE

-----------------------------------------------------------------------------
Arrives(c) == SendArrives(c) \/ VerifyArrives(c)

Sends(c) ==
    \/ SendRefused(c) \/ SendCooling(c) \/ SendAgain(c) \/ SendFresh(c)
    \/ Resent(c) \/ ResendFails(c)
    \/ BuildConnects(c) \/ BuildFails(c) \/ AskedFresh(c) \/ AskFails(c)

Verifies(c) ==
    \/ VerifyRefused(c) \/ VerifyStarts(c)
    \/ SignIn(c) \/ FetchParams(c) \/ Accepted(c) \/ NotAccepted(c)
    \/ Store(c)

Shared(c) ==
    \/ ClientConnects(c) \/ ConnectFails(c)
    \/ RebuildConnects(c) \/ RebuildFails(c)
    \/ DropStarts(c) \/ DropEnds(c) \/ Answer(c)

Step(c) == Sends(c) \/ Verifies(c) \/ Shared(c)

Outside ==
    \/ \E s \in Sessions : TimerFires(s)
    \/ \E source \in Sources, s \in Sessions : TeardownEnds(source, s)
    \/ \E k \in Clients : ConnectionLost(k)
    \/ CleanupStale
    \/ RejectionEnds
    \/ Restart

Next == (\E c \in Calls : Arrives(c) \/ Step(c)) \/ Outside

(* A promise of Telegram, of the database or of a destroy settles; the     *)
(* event loop then runs what waits for it.                                 *)
Fairness == \A c \in Calls : WF_vars(Step(c))

Spec == Init /\ [][Next]_vars
FairSpec == Spec /\ Fairness

-----------------------------------------------------------------------------
(* Type correctness of the maps, the calls and the history variables.      *)
TypeOK ==
    /\ active \in Sessions \cup {None}
    /\ sess \in [Sessions -> SessionRecords]
    /\ link \in [Clients -> BOOLEAN]
    /\ holder \in Calls \cup {None}
    /\ queue \in Seq(Calls)
    /\ inflight \in Calls \cup {None}
    /\ call \in [Calls -> CallRecords]
    /\ tearing \in SUBSET (Sources \X Sessions)
    /\ reject \in {"none", "flood", "banned"}
    /\ overlapped \in BOOLEAN

(* Only a teardown that overlaps a call can leave a connected client that  *)
(* no session and no call owns: whatever fails in a send, its fallback, a  *)
(* rebuild or a verification, every client they built is registered or     *)
(* destroyed (sendCodeLocked, ensureConnectedClient, disconnectClient).    *)
OrphansNeedOverlap ==
    overlapped \/ \A k \in Clients : link[k] =>
        \/ active # None /\ sess[active].client = k
        \/ holder # None /\ call[holder].client = k

(* No signup session waits forever: a registered session has its timer     *)
(* ahead of it, or a disconnectClient that will delete it is under way,    *)
(* also when teardowns, refreshes and calls overlap (scheduleExpiry,       *)
(* refreshSessionTimeout, disconnectClient).                               *)
SessionsExpire ==
    active # None =>
        \/ sess[active].armed
        \/ \E source \in Sources : <<source, active>> \in tearing
        \/ \E c \in Calls : call[c].pc = "dropping" /\ call[c].victim = active

(* What a call asks of Telegram is what its session waits for: no code is  *)
(* resent and none is signed in with once Telegram has taken it and waits  *)
(* for the password, and no password is checked before that, whatever the  *)
(* calls of the phone do to the session meanwhile (verifyCodeLocked,       *)
(* sendCodeLocked, withPhoneLock).                                         *)
CallMatchesStage ==
    \A c \in Calls :
        /\ call[c].pc \in {"resend", "signin", "signup"} =>
              sess[call[c].session].stage = "code"
        /\ call[c].pc \in {"params", "password"} =>
              sess[call[c].session].stage = "password"

(* Telegram is not asked for a code while a rejection of the number is     *)
(* remembered, nor once more by a call that a flood or a rejection has     *)
(* already stopped, however the calls queue up (cachedRejection,           *)
(* isTerminalSendError, mapSendError).                                     *)
RejectionsHonoured ==
    [][\A c \in Calls :
          (call[c].pc \notin {"resend", "ask"} /\ call'[c].pc \in {"resend", "ask"})
          => reject = "none" /\ call[c].err \notin {"flood", "banned", "cached"}]_vars

(* Who waits for the lock of the phone, or holds it.                       *)
InLock(c) == call[c].pc \in Inside \cup {"begin"}

(* No call of the phone is forgotten: a lock that nobody holds has nobody  *)
(* waiting, its holder is a call under way, the queue behind it is exactly *)
(* the other calls that wait, each of them once, and no task runs beside   *)
(* the holder (withPhoneLock).  One send is under way at most, and whoever *)
(* joined it has a send to settle with (inflightSends).                    *)
WaitersServed ==
    /\ holder = None => queue = <<>>
    /\ holder # None => InLock(holder)
    /\ \A i \in 1..Len(queue) : call[queue[i]].pc = "begin" /\ queue[i] # holder
    /\ \A i, j \in 1..Len(queue) : queue[i] = queue[j] => i = j
    /\ \A c \in Calls : InLock(c) =>
          \/ holder = c
          \/ call[c].pc = "begin" /\ \E i \in 1..Len(queue) : queue[i] = c
    /\ \A c \in Calls : InLock(c) /\ call[c].op = "send" <=> inflight = c
    /\ \A c \in Calls : call[c].pc = "joined" => inflight # None

(* What the open sign-in of the phone waits for.                            *)
Awaits == IF active = None THEN "nothing" ELSE sess[active].stage

Progress == INSTANCE SignupProgress WITH open <- active, awaits <- Awaits

(* However sends, resends, verifications and teardowns overlap, a sign-in   *)
(* never replaces another one that is still open, and never waits for the  *)
(* code again once Telegram has taken it (sendCodeLocked, applySentCode,   *)
(* verifyCodeLocked, disconnectClient).                                    *)
ImplementsProgress == Progress!Spec

(* Every HTTP call is answered: the queue of the phone never stands still, *)
(* and a call that joined a send settles with it (withPhoneLock,           *)
(* inflightSends).                                                         *)
CallsAnswered == \A c \in Calls : call[c].pc # "idle" ~> call[c].pc = "idle"

(* tg-signup.service.ts:509: "A flood on resend does not invalidate the    *)
(* code already delivered; keep that session usable."  So a send refused   *)
(* for a flood does not remove the phone's session.                        *)
FloodKeepsSession ==
    [][\A c \in Calls :
          (DropEnds(c) /\ call[c].op = "send" /\ call[c].then = "answer"
             /\ call[c].err \in {"flood", "cached"} /\ reject = "flood")
          => active' = active]_vars

(* tg-signup.service.ts:243: "The timer only tears down the session it was *)
(* created for, never a newer one for the same phone."  The finally block  *)
(* of disconnectClient breaks it (README, section 8).                      *)
TimerSparesNewer ==
    [][\A s \in Sessions :
          TeardownEnds("timer", s) => active \in {s, None}]_vars
=============================================================================
