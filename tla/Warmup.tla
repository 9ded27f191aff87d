------------------------------ MODULE Warmup ------------------------------
(* The warm-up of one pool account: the phase machine of warmup-phases.ts,    *)
(* the warm-up run that plans an action from the document it read and carries *)
(* it out much later (runWarmupMaintenance, processClient), and the paced     *)
(* rotation that turns a READY account into supply (processReadyRotation,     *)
(* rotateSession).  Accounts do not share state here, so one is enough; the   *)
(* run's caps only postpone the moment an account is reached.                 *)
(*                                                                            *)
(* Time is kept as ages, in ticks: a timestamp is the time since it was       *)
(* written, saturated at the largest bound it is compared with.               *)
EXTENDS Naturals

CONSTANTS
    Procs,      \* processes that run checks and rotations
    Threshold,  \* WARMUP_PHASE_THRESHOLDS, the account's jitter included
    Gap,        \* MIN_DAYS_...: between steps, after auth, name/bio, username
    Deadline,   \* GROWING_ADVANCE_DEADLINE_DAYS
    Floor,      \* operationalChannelThreshold
    Cooldown,   \* getEffectiveCooldownMs
    MaxFailed,  \* MAX_FAILED_ATTEMPTS
    Backoff,    \* FAILURE_RETRY_BACKOFF_HOURS
    ResetAfter, \* FAILURE_RESET_DAYS
    AgeCap, GapCap, FailCap,    \* saturation of ages and of the failure count
    Legacy,     \* sets of steps done on accounts placed in growing or maturing
    MaxCrashes, \* bound
    MaxReturns  \* bound: returns to the pool pending at once

ASSUME ThresholdAssumption ==
    /\ Threshold \in [{"settling", "identity", "growing", "maturing", "ready"} -> Nat]
    /\ Threshold.growing <= Threshold.maturing
    /\ Gap \in [{"step", "auth", "username", "growing"} -> Nat]
    /\ Deadline \in Nat /\ Floor \in Nat /\ Cooldown \in Nat
ASSUME FailureAssumption ==
    /\ MaxFailed \in Nat \ {0} /\ Backoff \in Nat /\ ResetAfter \in Nat
    /\ FailCap \in Nat /\ MaxFailed <= FailCap
ASSUME CapAssumption ==
    /\ AgeCap \in Nat /\ GapCap \in Nat /\ MaxCrashes \in Nat /\ MaxReturns \in Nat
    /\ \A g \in {"step", "auth", "username", "growing"} : Gap[g] <= GapCap
    /\ \A t \in {"settling", "identity", "growing", "maturing", "ready"} :
           Threshold[t] <= AgeCap
    /\ Threshold.growing + Deadline < AgeCap
    /\ Threshold.growing + 2 * (Threshold.maturing - Threshold.growing) < AgeCap

Revoke == "remove_external_login_sessions"
(* A step is named by its action; `done` holds the steps whose timestamp is   *)
(* set, `since` their ages.  The age of a step not done is GapCap: daysSince  *)
(* of a missing date is Infinity.                                             *)
Steps == {"set_privacy", "set_2fa", Revoke, "delete_photos", "update_name_bio",
          "update_username", "upload_photo"}
ASSUME LegacyAssumption == Legacy \subseteq SUBSET Steps
ASSUME ProcsAssumption == Procs \cap {"none", "unusable"} = {}

Phases   == {"enrolled", "settling", "identity", "growing", "maturing", "ready",
             "session_rotated"}
Terminal == {"ready", "session_rotated"}
Actions  == Steps \cup {"wait", "organic_only", "join_channels", "advance_to_ready",
                        "rotate_session"}

VARIABLES
    doc,        \* the pool document
    tele,       \* Telegram's side: 2FA password, other login sessions
    backup,     \* users.session
    check,      \* the warm-up run of each process, as far as this account goes
    sweep,      \* the rotation sweep of each process
    swap,       \* what swaps do with the account: picked, main, returns still to be written
    crashes
vars == <<doc, tele, backup, check, sweep, swap, crashes>>

Doc == [phase : Phases, active : BOOLEAN, inUse : BOOLEAN, channels : 0 .. Floor,
        age : 0 .. AgeCap, done : SUBSET Steps, since : [Steps -> 0 .. GapCap],
        rotated : BOOLEAN,      \* sessionRotatedAt is set
        fails : 0 .. FailCap,   \* failedUpdateAttempts
        failed : 0 .. (ResetAfter + 1),    \* lastUpdateFailure
        tried : 0 .. Cooldown]             \* lastUpdateAttempt
Seen == [phase : Phases, fails : 0 .. FailCap, failed : 0 .. (ResetAfter + 1),
         tried : 0 .. Cooldown]
(* users.session: missing; the session in use, or one Telegram has killed; a  *)
(* live one of its own; or the one a rotation of a process has created.       *)
Kept      == {"none", "unusable", "live"}
Passwords == {"none", "ours", "foreign"}

(* What processClient uses of the document it was handed.                     *)
View(d) == [phase |-> d.phase, fails |-> d.fails, failed |-> d.failed,
            tried |-> d.tried]

TypeOK ==
    /\ doc \in Doc
    /\ tele \in [password : Passwords, externals : BOOLEAN]
    /\ backup \in Kept \cup Procs
    /\ check \in [Procs -> [at : {"idle", "health", "planned", "begun", "acting", "stamp"},
                            phase : Phases, action : Actions, seen : Seen,
                            first : 0 .. FailCap]]
    /\ sweep \in [Procs -> [at : {"idle", "asked", "resolving", "verifying"},
                            fails : 0 .. FailCap, backup : Kept \cup Procs]]
    /\ swap \in [picked : BOOLEAN, main : BOOLEAN, returns : 0 .. MaxReturns]
    /\ crashes \in 0 .. MaxCrashes

FreshDoc ==
    [phase |-> "enrolled", active |-> TRUE, inUse |-> FALSE, channels |-> 0, age |-> 0,
     done |-> {}, since |-> [s \in Steps |-> GapCap], rotated |-> FALSE, fails |-> 0,
     failed |-> ResetAfter + 1, tried |-> Cooldown]
NoCheck == [at |-> "idle", phase |-> "enrolled", action |-> "wait",
            seen |-> View(FreshDoc), first |-> 0]
NoSweep == [at |-> "idle", fails |-> 0, backup |-> "none"]

(* An enrolled account, or one of the legacy accounts that were placed in     *)
(* growing or maturing by their channel count; Telegram may hold a password,  *)
(* the account's former owner may still be logged in.                         *)
Init ==
    /\ \/ doc = FreshDoc
       \/ \E f \in {"growing", "maturing"}, s \in Legacy, c \in {0, Floor},
             a \in {Threshold.growing, AgeCap} :
              doc = [FreshDoc EXCEPT !.phase = f, !.done = s, !.channels = c, !.age = a]
    /\ tele \in [password : Passwords, externals : BOOLEAN]
    /\ "set_2fa" \in doc.done => tele.password = "ours"
    /\ backup \in Kept
    /\ check = [p \in Procs |-> NoCheck]
    /\ sweep = [p \in Procs |-> NoSweep]
    /\ swap = [picked |-> FALSE, main |-> FALSE, returns |-> 0]
    /\ crashes = 0

-----------------------------------------------------------------------------
(* The phase machine *)

After(d, step, gap, next) == IF d.since[step] >= gap THEN next ELSE "organic_only"

(* Mutant: the other sessions are revoked as soon as privacy is set.          *)
SettlingStepRevokes(d) ==
    IF "set_privacy" \notin d.done THEN "set_privacy"
    ELSE IF Revoke \notin d.done THEN After(d, "set_privacy", Gap.step, Revoke)
    ELSE IF "set_2fa" \notin d.done THEN After(d, Revoke, Gap.step, "set_2fa")
    ELSE "none"

(* Privacy, then 2FA, then the other login sessions.                          *)
SettlingStep(d) ==
    IF "set_privacy" \notin d.done THEN "set_privacy"
    ELSE IF "set_2fa" \notin d.done THEN After(d, "set_privacy", Gap.step, "set_2fa")
    ELSE IF Revoke \notin d.done THEN After(d, "set_2fa", Gap.step, Revoke)
    ELSE "none"

IdentityStep(d) ==
    IF "delete_photos" \notin d.done THEN "delete_photos"
    ELSE IF "update_name_bio" \notin d.done
         THEN After(d, "delete_photos", Gap.step, "update_name_bio")
    ELSE IF "update_username" \notin d.done
         THEN After(d, "update_name_bio", Gap.username, "update_username")
    ELSE "none"

(* Mutant: the catch-up does not wait after the security steps.               *)
MissedStepAtOnce(d) ==
    IF SettlingStep(d) # "none" THEN SettlingStep(d)
    ELSE IF IdentityStep(d) # "none" THEN IdentityStep(d)
    ELSE After(d, "update_username", Gap.growing, "none")

(* The catch-up of growing and maturing: every earlier step comes first.      *)
MissedStep(d) ==
    IF SettlingStep(d) # "none" THEN SettlingStep(d)
    ELSE IF d.since[Revoke] < Gap.auth THEN "organic_only"
    ELSE IF IdentityStep(d) # "none" THEN IdentityStep(d)
    ELSE After(d, "update_username", Gap.growing, "none")

(* Mutant: the target is halved in the end, but stays a gate.                 *)
ChannelTargetStays(d) ==
    IF d.age > Threshold.growing + 2 * (Threshold.maturing - Threshold.growing)
    THEN Floor \div 2 ELSE Floor

(* The channel target decays: halved when stalled, gone past the deadline.    *)
ChannelTarget(d) ==
    IF d.age > Threshold.growing + Deadline THEN 0
    ELSE IF d.age > Threshold.growing + 2 * (Threshold.maturing - Threshold.growing)
         THEN Floor \div 2
    ELSE Floor

FinalStep(d) ==
    IF "upload_photo" \notin d.done THEN "upload_photo"
    ELSE IF d.age >= Threshold.ready THEN "advance_to_ready"
    ELSE "organic_only"

To(phase, action) == [phase |-> phase, action |-> action]

FromSettling(d) ==
    IF SettlingStep(d) # "none" THEN To("settling", SettlingStep(d))
    ELSE IF d.since[Revoke] >= Gap.auth /\ d.age >= Threshold.identity
         THEN To("identity", "delete_photos")
    ELSE To("settling", "organic_only")

FromIdentity(d) ==
    IF IdentityStep(d) # "none" THEN To("identity", IdentityStep(d))
    ELSE IF d.since["update_username"] >= Gap.growing /\ d.age >= Threshold.growing
         THEN To("growing", "join_channels")
    ELSE To("identity", "organic_only")

FromGrowing(d) ==
    IF MissedStep(d) # "none" THEN To("growing", MissedStep(d))
    ELSE IF d.channels < ChannelTarget(d) THEN To("growing", "join_channels")
    ELSE IF d.age >= Threshold.maturing THEN To("maturing", FinalStep(d))
    ELSE To("growing", "organic_only")

FromMaturing(d) ==
    IF MissedStep(d) # "none" THEN To("maturing", MissedStep(d))
    ELSE To("maturing", FinalStep(d))

FromReady(d) ==
    IF d.channels < Floor THEN To("ready", "join_channels")
    ELSE IF ~d.rotated THEN To("ready", "rotate_session")
    ELSE To("session_rotated", "wait")

WarmupAction(d) ==
    CASE d.phase = "enrolled" ->
             IF d.age >= Threshold.settling THEN To("settling", "set_privacy")
             ELSE To("enrolled", "wait")
      [] d.phase = "settling" -> FromSettling(d)
      [] d.phase = "identity" -> FromIdentity(d)
      [] d.phase = "growing"  -> FromGrowing(d)
      [] d.phase = "maturing" -> FromMaturing(d)
      [] d.phase = "ready"    -> FromReady(d)
      [] d.phase = "session_rotated" ->
             To("session_rotated", IF d.channels < Floor THEN "join_channels" ELSE "wait")

-----------------------------------------------------------------------------
(* The warm-up run of a process *)

Capped(n) == IF n < FailCap THEN n ELSE FailCap
Cleared(d)   == [d EXCEPT !.fails = 0, !.failed = ResetAfter + 1]
Stamped(d, s) == [Cleared(d) EXCEPT !.done = @ \cup {s}, !.since[s] = 0, !.tried = 0]
Failed(d, n) == [d EXCEPT !.fails = Capped(n + 1), !.failed = 0, !.tried = 0]
Deactivated(d) == [d EXCEPT !.active = FALSE, !.inUse = FALSE]

Leave(p) == check' = [check EXCEPT ![p] = NoCheck]

(* The run reads the account and plans its action.  READY accounts are left   *)
(* to the rotation sweep; SESSION_ROTATED ones have a health check first.     *)
Plan(p) ==
    /\ check[p].at = "idle"
    /\ doc.active /\ ~doc.inUse /\ doc.tried >= Cooldown /\ doc.phase # "ready"
    /\ check' = [check EXCEPT ![p] =
           [at |-> IF doc.phase = "session_rotated" THEN "health" ELSE "planned",
            phase |-> WarmupAction(doc).phase, action |-> WarmupAction(doc).action,
            seen |-> View(doc), first |-> 0]]
    /\ UNCHANGED <<doc, tele, backup, sweep, swap, crashes>>

(* The health check of a rotated account counts its channels, or fails, for   *)
(* good perhaps; only an account that passed goes on to processClient.        *)
CheckHealth(p) ==
    /\ check[p].at = "health"
    /\ \/ /\ \E c \in 0 .. Floor : doc' = [doc EXCEPT !.channels = c]
          /\ check' = [check EXCEPT ![p].at = "planned"]
       \/ /\ doc' \in {doc, Deactivated(doc)}
          /\ Leave(p)
    /\ UNCHANGED <<tele, backup, sweep, swap, crashes>>

(* Mutant: an account with too many failures is skipped before the reset.     *)
ResetsBelowMax(s) == s.fails > 0 /\ s.fails < MaxFailed /\ s.failed > ResetAfter

Resets(s) == s.fails > 0 /\ (s.failed > ResetAfter
                             \/ (s.fails >= MaxFailed /\ s.failed >= Backoff))

(* processClient on the document the run read: a failure count that is old    *)
(* enough is reset, and the document read again; an account with too many     *)
(* failures, or on its cooldown, is skipped.                                  *)
Begin(p) ==
    LET seen == check[p].seen
        now  == IF Resets(seen) THEN View(Cleared(doc)) ELSE seen IN
    /\ check[p].at = "planned"
    /\ doc' = IF Resets(seen) THEN Cleared(doc) ELSE doc
    /\ IF (~Resets(seen) /\ seen.fails >= MaxFailed) \/ now.tried < Cooldown
       THEN Leave(p)
       ELSE check' = [check EXCEPT ![p].at = "begun", ![p].seen = now,
                                   ![p].first = seen.fails]
    /\ UNCHANGED <<tele, backup, sweep, swap, crashes>>

(* The planned phase is written if the document in hand has another one.      *)
Move(p) ==
    /\ check[p].at = "begun"
    /\ doc' = IF check[p].phase # check[p].seen.phase
              THEN [doc EXCEPT !.phase = check[p].phase] ELSE doc
    /\ check' = [check EXCEPT ![p].at = "acting"]
    /\ UNCHANGED <<tele, backup, sweep, swap, crashes>>

(* The actions that need no step on Telegram.                                 *)
ActLightly(p) ==
    /\ check[p].at = "acting"
    /\ \/ check[p].action \in {"wait", "organic_only"} /\ doc' = [doc EXCEPT !.tried = 0]
       \/ check[p].action = "join_channels" /\ doc' = doc
       \/ check[p].action = "advance_to_ready" /\ doc' = [doc EXCEPT !.phase = "ready"]
    /\ Leave(p)
    /\ UNCHANGED <<tele, backup, sweep, swap, crashes>>

(* A step on Telegram.  An account with a foreign password is given up; on    *)
(* one with ours set_2fa has nothing to do.                                   *)
Perform(p) ==
    /\ check[p].at = "acting" /\ check[p].action \in Steps
    /\ ~(check[p].action = "set_2fa" /\ tele.password = "foreign")
    /\ tele' = [tele EXCEPT !.password = IF check[p].action = "set_2fa" THEN "ours" ELSE @,
                            !.externals = @ /\ check[p].action # Revoke]
    /\ check' = [check EXCEPT ![p].at = "stamp"]
    /\ UNCHANGED <<doc, backup, sweep, swap, crashes>>

GiveUp(p) ==
    /\ check[p].at = "acting" /\ check[p].action = "set_2fa"
    /\ tele.password = "foreign"
    /\ doc' = Deactivated(doc)
    /\ Leave(p)
    /\ UNCHANGED <<tele, backup, sweep, swap, crashes>>

Attempt(p) == Perform(p) \/ GiveUp(p)

Stamp(p) ==
    /\ check[p].at = "stamp"
    /\ doc' = Stamped(doc, check[p].action)
    /\ Leave(p)
    /\ UNCHANGED <<tele, backup, sweep, swap, crashes>>

(* A failure, before or after the step took effect.  The step's own handler   *)
(* counts from the failure count read before the reset, the handler around it *)
(* (no connection, organic activity) from the document after it.              *)
FailStep(p) ==
    /\ \/ check[p].at = "acting" /\ check[p].action \in Steps \cup {"organic_only"}
       \/ check[p].at = "stamp"
    /\ \E n \in (IF check[p].action \in Steps THEN {check[p].first} ELSE {})
                \cup (IF check[p].at = "acting" THEN {check[p].seen.fails} ELSE {}) :
           doc' \in {Failed(doc, n), Deactivated(Failed(doc, n))}
    /\ Leave(p)
    /\ UNCHANGED <<tele, backup, sweep, swap, crashes>>

-----------------------------------------------------------------------------
(* The rotation sweep of a process *)

(* What rotateSession, and before it the sweep's query, asks of the account.  *)
MayRotate(d) ==
    /\ d.active /\ ~d.inUse /\ d.phase = "ready" /\ d.channels >= Floor
    /\ Steps \subseteq d.done /\ ~d.rotated

EndSweep(p) == sweep' = [sweep EXCEPT ![p] = NoSweep]

(* A sweep does not start while a check of its own process runs; the attempt  *)
(* is recorded before anything is done.                                       *)
StartSweep(p) ==
    /\ sweep[p].at = "idle" /\ check[p].at = "idle"
    /\ MayRotate(doc) /\ doc.tried >= Cooldown
    /\ WarmupAction(doc).action = "rotate_session"
    /\ doc' = [doc EXCEPT !.tried = 0]
    /\ sweep' = [sweep EXCEPT ![p] = [at |-> "asked", fails |-> doc.fails, backup |-> "none"]]
    /\ UNCHANGED <<tele, backup, check, swap, crashes>>

(* rotateSession reads the account again.                                     *)
CheckRotation(p) ==
    /\ sweep[p].at = "asked"
    /\ MayRotate(doc)
    /\ sweep' = [sweep EXCEPT ![p].at = "resolving"]
    /\ UNCHANGED <<doc, tele, backup, check, swap, crashes>>

(* The parked responder holds the session: a skip, not a failure.             *)
SkipParked(p) ==
    /\ sweep[p].at = "asked" /\ MayRotate(doc)
    /\ EndSweep(p)
    /\ UNCHANGED <<doc, tele, backup, check, swap, crashes>>

(* Mutant: whatever backup there is counts as one.                            *)
ResolveBackupAny(p) ==
    /\ sweep[p].at = "resolving"
    /\ backup' = IF backup = "none" THEN p ELSE backup
    /\ sweep' = [sweep EXCEPT ![p].at = "verifying", ![p].backup = backup']
    /\ UNCHANGED <<doc, tele, check, swap, crashes>>

(* A live backup that is not the session in use is kept, else one is created. *)
ResolveBackup(p) ==
    /\ sweep[p].at = "resolving"
    /\ backup' = IF backup \in {"none", "unusable"} THEN p ELSE backup
    /\ sweep' = [sweep EXCEPT ![p].at = "verifying", ![p].backup = backup']
    /\ UNCHANGED <<doc, tele, check, swap, crashes>>

(* The persisted backup is read back and compared, then the rotation recorded.*)
Rotate(p) ==
    /\ sweep[p].at = "verifying"
    /\ backup = sweep[p].backup
    /\ doc' = [doc EXCEPT !.phase = "session_rotated", !.rotated = TRUE]
    /\ EndSweep(p)
    /\ UNCHANGED <<tele, backup, check, swap, crashes>>

FailRotation(p) ==
    /\ sweep[p].at \in {"asked", "verifying"}
    /\ doc' \in {Failed(doc, sweep[p].fails), Deactivated(Failed(doc, sweep[p].fails))}
    /\ EndSweep(p)
    /\ UNCHANGED <<tele, backup, check, swap, crashes>>

-----------------------------------------------------------------------------
(* The rest of the world *)

Crash(p) ==
    /\ crashes < MaxCrashes
    /\ check[p].at # "idle" \/ sweep[p].at # "idle"
    /\ Leave(p) /\ EndSweep(p)
    /\ crashes' = crashes + 1
    /\ UNCHANGED <<doc, tele, backup, swap>>

(* The join queue, whose capacity filter takes terminal accounts only below   *)
(* the floor; channels are left, and accounts removed from them.              *)
JoinChannel ==
    /\ doc.active /\ doc.channels < Floor
    /\ doc' = [doc EXCEPT !.channels = @ + 1]
    /\ UNCHANGED <<tele, backup, check, sweep, swap, crashes>>
LoseChannel ==
    /\ doc.channels > 0
    /\ doc' = [doc EXCEPT !.channels = @ - 1]
    /\ UNCHANGED <<tele, backup, check, sweep, swap, crashes>>

(* A swap of some client reads the account as a candidate; it commits it, and *)
(* thereby makes it the main, whatever has become of the row since; or not.   *)
Pick ==
    /\ doc.active /\ ~doc.inUse /\ doc.phase = "session_rotated" /\ doc.channels >= Floor
    /\ ~swap.main /\ ~swap.picked
    /\ swap' = [swap EXCEPT !.picked = TRUE]
    /\ UNCHANGED <<doc, tele, backup, check, sweep, crashes>>
DropPick ==
    /\ swap.picked
    /\ swap' = [swap EXCEPT !.picked = FALSE]
    /\ UNCHANGED <<doc, tele, backup, check, sweep, crashes>>
CheckOut ==
    /\ swap.picked
    /\ doc' = [doc EXCEPT !.inUse = TRUE, !.active = TRUE]
    /\ swap' = [swap EXCEPT !.picked = FALSE, !.main = TRUE]
    /\ UNCHANGED <<tele, backup, check, sweep, crashes>>

(* The commit of another account takes the reservation away; the return to    *)
(* the pool is written later, while the row may be anybody's again.           *)
Replace ==
    /\ swap.main /\ swap.returns < MaxReturns
    /\ doc' = [doc EXCEPT !.inUse = FALSE]
    /\ swap' = [swap EXCEPT !.main = FALSE, !.returns = @ + 1]
    /\ UNCHANGED <<tele, backup, check, sweep, crashes>>

(* Mutant: the account comes back as READY.                                   *)
CheckInReady ==
    /\ swap.returns > 0
    /\ doc' = [doc EXCEPT !.inUse = FALSE, !.active = TRUE, !.phase = "ready", !.channels = Floor]
    /\ swap' = [swap EXCEPT !.returns = @ - 1]
    /\ UNCHANGED <<tele, backup, check, sweep, crashes>>

(* The return writes the row over as supply, whatever it is by then, inactive *)
(* if it has no day left to be due in; or the account is retired; or neither. *)
CheckIn ==
    /\ swap.returns > 0
    /\ doc' \in {[doc EXCEPT !.inUse = FALSE, !.active = a, !.phase = "session_rotated",
                             !.channels = Floor] : a \in BOOLEAN}
                \cup {Deactivated(doc), doc}
    /\ swap' = [swap EXCEPT !.returns = @ - 1]
    /\ UNCHANGED <<tele, backup, check, sweep, crashes>>

(* Any flow may find the account dead; an operator may set it active again.   *)
Expire ==
    /\ doc.active
    /\ doc' = Deactivated(doc)
    /\ UNCHANGED <<tele, backup, check, sweep, swap, crashes>>
Reactivate ==
    /\ ~doc.active
    /\ doc' = [doc EXCEPT !.active = TRUE]
    /\ UNCHANGED <<tele, backup, check, sweep, swap, crashes>>

(* Whoever is still logged in may set a password of their own first.          *)
OwnerSetsPassword ==
    /\ tele.externals /\ tele.password = "none"
    /\ tele' = [tele EXCEPT !.password = "foreign"]
    /\ UNCHANGED <<doc, backup, check, sweep, swap, crashes>>

Older(x, cap) == IF x < cap THEN x + 1 ELSE cap
(* Time passes for the document and for the copies the runs hold of it.       *)
Tick ==
    /\ doc' = [doc EXCEPT !.age = Older(@, AgeCap),
                          !.since = [s \in Steps |-> Older(doc.since[s], GapCap)],
                          !.failed = Older(@, ResetAfter + 1), !.tried = Older(@, Cooldown)]
    /\ check' = [p \in Procs |-> [check[p] EXCEPT
                     !.seen.failed = Older(@, ResetAfter + 1),
                     !.seen.tried = Older(@, Cooldown)]]
    /\ UNCHANGED <<tele, backup, sweep, swap, crashes>>

CheckStep(p) == Plan(p) \/ CheckHealth(p) \/ Begin(p) \/ Move(p) \/ ActLightly(p)
                \/ Attempt(p) \/ Stamp(p) \/ FailStep(p)
SweepStep(p) == StartSweep(p) \/ CheckRotation(p) \/ SkipParked(p) \/ ResolveBackup(p)
                \/ Rotate(p) \/ FailRotation(p)
World == JoinChannel \/ LoseChannel \/ OwnerSetsPassword \/ Expire \/ Reactivate
Swaps == Pick \/ DropPick \/ CheckOut \/ Replace \/ CheckIn

Next == \/ \E p \in Procs : CheckStep(p) \/ SweepStep(p) \/ Crash(p)
        \/ World \/ Swaps \/ Tick

Spec == Init /\ [][Next]_vars

(* Runs are repeated and go on; time passes; a step tried again and again     *)
(* succeeds at last, and so does a rotation.  Joins are promised nothing.     *)
Fairness ==
    /\ WF_vars(Tick)
    /\ \A p \in Procs : /\ WF_vars(CheckStep(p))
                        /\ WF_vars(SweepStep(p))
                        /\ SF_vars(Attempt(p)) /\ SF_vars(Stamp(p))
                        /\ SF_vars(CheckRotation(p)) /\ SF_vars(Rotate(p))
FairSpec == Spec /\ Fairness
-----------------------------------------------------------------------------
(* Properties *)

(* An account offered as supply has been through every step, has its rotation *)
(* recorded, and a backup session other than the one in use exists, also for  *)
(* a legacy account that entered in the middle of the machine.                *)
RotatedIsPrepared ==
    doc.phase = "session_rotated" =>
        Steps \subseteq doc.done /\ doc.rotated /\ backup \notin {"none", "unusable"}

(* Other login sessions are revoked only on an account that our own password  *)
(* protects by then, whatever its former owner did in the meantime.           *)
RevokeOnlyBehindPassword ==
    [][tele.externals /\ ~tele'.externals => tele.password = "ours"]_vars

(* Sensitive changes are not clustered: when a step is carried out, the step  *)
(* before it has been done and is as long ago as the machine asks, although   *)
(* it was planned from a document that is old by then.                        *)
Spacing == {<<"set_2fa", "set_privacy", Gap.step>>, <<Revoke, "set_2fa", Gap.step>>,
            <<"delete_photos", Revoke, Gap.auth>>,
            <<"update_name_bio", "delete_photos", Gap.step>>,
            <<"update_username", "update_name_bio", Gap.username>>,
            <<"upload_photo", "update_username", Gap.growing>>}
Spaced(s) == \A t \in Spacing :
    t[1] = s => t[2] \in doc.done /\ doc.since[t[2]] >= t[3]
StepsSpaced ==
    [][\A p \in Procs : check[p].at = "acting" /\ check'[p].at = "stamp"
                            => Spaced(check[p].action)]_vars

(* The warm-up never takes an account back to an earlier phase.               *)
Rank == [enrolled |-> 0, settling |-> 1, identity |-> 2, growing |-> 3, maturing |-> 4,
         ready |-> 5, session_rotated |-> 6]
PhaseNeverBack == [][Rank[doc.phase] <= Rank[doc'.phase]]_vars

(* A READY account can still be rotated.  Warm-up runs pass READY accounts    *)
(* over and the rotation refuses an account whose rotation is recorded, so    *)
(* one that is both never moves again.                                        *)
NeverStranded == doc.active /\ doc.phase = "ready" => ~doc.rotated

(* The pool's view of the account.                                            *)
Stage == IF swap.main THEN "main"
         ELSE IF doc.phase = "session_rotated" THEN "supply"
         ELSE IF doc.phase = "ready" THEN "ready" ELSE "warming"

Account == INSTANCE PoolAccount WITH stage <- Stage

(* The phase machine, the plans carried out late, the rotation and the swaps  *)
(* keep to what the pool is promised, although a commit and a return test     *)
(* neither phase nor status of the row: no account becomes a main that was    *)
(* not rotated, and no warm-up run, expiry or return in the meantime makes it *)
(* anything but supply again (processClient, rotateSession, setPrimaryInUse,  *)
(* returnOldClientToBufferPool).                                              *)
ImplementsAccount == Account!Spec

(* Elapsed time alone takes every account that is never retired through the   *)
(* machine, with however few channels.                                        *)
AgeNeverStrands == <>(doc.phase \in Terminal \/ ~doc.active)

(* An account that keeps its channels is rotated into supply in the end.      *)
SupplyArrives ==
    <>[](doc.channels >= Floor) => <>(doc.phase = "session_rotated" \/ ~doc.active)
=============================================================================
