--------------------------- MODULE ClientSwap_proofs ---------------------------
(* Theorems of ClientSwap, for any number of processes, clients and accounts. *)
EXTENDS ClientSwap, TLAPS

(* What the operators return. *)

LEMMA RunIndex ==
    ASSUME NEW p \in Procs, NEW c \in Clients
    PROVE  <<p, c>> \in Runs
BY DEF Runs

LEMMA NoRunType == NoRun \in Run
BY DEF NoRun, Run, Stages

LEMMA PutType ==
    ASSUME run \in [Runs -> Run], NEW r \in Runs, NEW v \in Run, Put(r, v)
    PROVE  run' \in [Runs -> Run]
BY DEF Put

LEMMA GotoType ==
    ASSUME pc \in [Runs -> States], NEW r \in Runs, NEW s \in States, Goto(r, s)
    PROVE  pc' \in [Runs -> States]
BY DEF Goto

LEMMA ExpiredType ==
    ASSUME NEW rows \in [Mobiles -> Row], NEW m
    PROVE  Expired(rows, m) \in [Mobiles -> Row]
BY DEF Expired, Row

LEMMA DueType ==
    ASSUME row \in [Mobiles -> Row], NEW m, NEW d \in BOOLEAN
    PROVE  [row EXCEPT ![m].due = d] \in [Mobiles -> Row]
<1> DEFINE rows == [row EXCEPT ![m].due = d]
<1>1. ASSUME NEW n \in Mobiles
      PROVE  rows[n] \in Row
  <2>1. row[n] \in Row
    OBVIOUS
  <2>2. [row[n] EXCEPT !.due = d] \in Row
    BY <2>1 DEF Row
  <2>3. rows[n] = row[n] \/ rows[n] = [row[n] EXCEPT !.due = d]
    OBVIOUS
  <2>4. QED
    BY <2>1, <2>2, <2>3
<1>2. QED
  BY <1>1

LEMMA LeaseTypes ==
    /\ NoLease \in Lease
    /\ \A r \in Runs : HeldBy(r) \in Lease
BY DEF NoLease, HeldBy, Lease

LEMMA LeaseMapTypes ==
    ASSUME NEW S, NEW leases \in [S -> Lease], NEW r \in Runs, NEW dead
    PROVE  /\ Without(leases, r) \in [S -> Lease]
           /\ Renewed(leases, r) \in [S -> Lease]
           /\ Orphaned(leases, dead) \in [S -> Lease]
<1>1. Without(leases, r) \in [S -> Lease]
  BY LeaseTypes DEF Without
<1>2. Renewed(leases, r) \in [S -> Lease]
  BY LeaseTypes DEF Renewed
<1>3. Orphaned(leases, dead) \in [S -> Lease]
  BY DEF Orphaned, Lease
<1>4. QED
  BY <1>1, <1>2, <1>3

LEMMA UnregisteredType ==
    ASSUME TypeOK, NEW p \in Procs, NEW c \in Clients
    PROVE  Unregistered(p, c) \in [Procs -> [Mobiles -> Clients \cup {NoClient}]]
BY DEF TypeOK, Unregistered

LEMMA ScansType ==
    ASSUME TypeOK, NEW p \in Procs, NEW c \in Clients
    PROVE  Scans(p, c) \subseteq SUBSET (Mobiles \X Clients)
<1> DEFINE own == Spares(c, run[<<p, c>>].busy)
<1>1. own \subseteq Mobiles
  BY DEF Spares
<1>2. Tryable(p, c) \subseteq SUBSET (Mobiles \X Clients)
  BY DEF Tryable, Siblings
<1>3. \A T \in SUBSET own : T \X {c} \in SUBSET (Mobiles \X Clients)
  BY <1>1
<1>4. /\ {m \in own : row[m].due} \in SUBSET own
      /\ {m \in own : ~row[m].due} \in SUBSET own
      /\ own \in SUBSET own
  OBVIOUS
<1>5. run[<<p, c>>].stage \in Stages
  BY RunIndex DEF TypeOK, Run
<1>6. QED
  BY <1>2, <1>3, <1>4, <1>5 DEF Scans, Stages

-----------------------------------------------------------------------------
(* Type correctness, one lemma for each group of actions. *)

LEMMA InitType == Init => TypeOK
<1> SUFFICES ASSUME Init PROVE TypeOK
    OBVIOUS
<1>1. row \in [Mobiles -> Row]
  BY MainAssumption DEF Init, Row
<1>2. /\ swapLease \in [Clients -> Lease]
      /\ probeLease \in [Mobiles -> Lease]
  BY LeaseTypes DEF Init
<1>3. run \in [Runs -> Run]
  BY NoRunType DEF Init
<1>4. pc \in [Runs -> States]
  BY DEF Init, States
<1>5. QED
  BY <1>1, <1>2, <1>3, <1>4, MainAssumption DEF Init, TypeOK

\* Taking the lease and looking for a candidate.
LEMMA SelectionType ==
    ASSUME TypeOK, NEW p \in Procs, NEW c \in Clients,
           \/ \E k \in Kinds : StartSetup(p, c, k)
           \/ LoadClient(p, c)
           \/ Scan(p, c)
           \/ TakeProbeLease(p, c)
           \/ SkipCandidate(p, c)
    PROVE  TypeOK'
<1> DEFINE r == <<p, c>>
<1>1. r \in Runs /\ run[r] \in Run
  BY RunIndex DEF TypeOK
<1>2. CASE \E k \in Kinds : StartSetup(p, c, k)
  <2>1. PICK k \in Kinds : StartSetup(p, c, k)
    BY <1>2
  <2>2. [NoRun EXCEPT !.kind = k] \in Run
    BY BoundAssumption DEF NoRun, Run, Stages
  <2>3. run' \in [Runs -> Run]
    BY <1>1, <2>1, <2>2, PutType DEF StartSetup, TypeOK
  <2>4. swapLease' \in [Clients -> Lease]
    BY <1>1, <2>1, LeaseTypes DEF StartSetup, TypeOK
  <2>5. pc' \in [Runs -> States]
    BY <1>1, <2>1, GotoType DEF StartSetup, TypeOK, States
  <2>6. starts' \in Nat
    BY <2>1 DEF StartSetup, TypeOK
  <2>7. QED
    BY <2>1, <2>3, <2>4, <2>5, <2>6 DEF StartSetup, TypeOK, local
<1>3. CASE LoadClient(p, c)
  <2>1. Busy(p) \subseteq Mobiles /\ cache[p][c] \in Mobiles
    BY DEF Busy, SetupMobiles, TypeOK
  <2>2. [run[r] EXCEPT !.old = cache[p][c], !.busy = Busy(p)] \in Run
    BY <1>1, <2>1 DEF Run
  <2>3. run' \in [Runs -> Run]
    BY <1>1, <1>3, <2>2, PutType DEF LoadClient, TypeOK
  <2>4. pc' \in [Runs -> States]
    BY <1>1, <1>3, GotoType DEF LoadClient, TypeOK, States
  <2>5. QED
    BY <1>3, <2>3, <2>4 DEF LoadClient, TypeOK, db, local, bound
<1>4. CASE Scan(p, c)
  <2>1. PICK C \in Scans(p, c) : Put(r, [run[r] EXCEPT !.cands = C])
    BY <1>4 DEF Scan
  <2>2. C \in SUBSET (Mobiles \X Clients)
    BY <2>1, ScansType
  <2>3. [run[r] EXCEPT !.cands = C] \in Run
    BY <1>1, <2>2 DEF Run
  <2>4. run' \in [Runs -> Run]
    BY <1>1, <2>1, <2>3, PutType DEF TypeOK
  <2>5. pc' \in [Runs -> States]
    BY <1>1, <1>4, GotoType DEF Scan, TypeOK, States
  <2>6. QED
    BY <1>4, <2>4, <2>5 DEF Scan, TypeOK, db, local, bound
<1>5. CASE TakeProbeLease(p, c)
  <2>1. PICK cand \in run[r].cands :
           /\ probeLease' = [probeLease EXCEPT ![cand[1]] = HeldBy(r)]
           /\ Put(r, [run[r] EXCEPT !.cands = @ \ {cand}, !.pick = cand[1], !.from = cand[2]])
    BY <1>5 DEF TakeProbeLease
  <2>2. cand[1] \in Mobiles /\ cand[2] \in Clients
    BY <1>1, <2>1 DEF Run
  <2>3. [run[r] EXCEPT !.cands = @ \ {cand}, !.pick = cand[1], !.from = cand[2]] \in Run
    BY <1>1, <2>2 DEF Run
  <2>4. run' \in [Runs -> Run]
    BY <1>1, <2>1, <2>3, PutType DEF TypeOK
  <2>5. probeLease' \in [Mobiles -> Lease]
    BY <1>1, <2>1, LeaseTypes DEF TypeOK
  <2>6. pc' \in [Runs -> States]
    BY <1>1, <1>5, GotoType DEF TakeProbeLease, TypeOK, States
  <2>7. QED
    BY <1>5, <2>4, <2>5, <2>6 DEF TakeProbeLease, TypeOK, local, bound
<1>6. CASE SkipCandidate(p, c)
  <2>1. PICK cand \in run[r].cands, leased \in BOOLEAN :
           Put(r, [run[r] EXCEPT !.cands = @ \ {cand}, !.pending = @ \/ leased])
    BY <1>6 DEF SkipCandidate
  <2>2. [run[r] EXCEPT !.cands = @ \ {cand}, !.pending = @ \/ leased] \in Run
    BY <1>1 DEF Run
  <2>3. run' \in [Runs -> Run]
    BY <1>1, <2>1, <2>2, PutType DEF TypeOK
  <2>4. QED
    BY <1>6, <2>3 DEF SkipCandidate, TypeOK, db, local, bound
<1>7. QED
  BY <1>2, <1>3, <1>4, <1>5, <1>6

\* The rest of the selection.
LEMMA ProbeType ==
    ASSUME TypeOK, NEW p \in Procs, NEW c \in Clients,
           \/ ProbeRejects(p, c)
           \/ ProbeAccepts(p, c)
           \/ NextStage(p, c)
           \/ NoCandidate(p, c)
           \/ Register(p, c)
    PROVE  TypeOK'
<1> DEFINE r == <<p, c>>
<1>1. r \in Runs /\ run[r] \in Run
  BY RunIndex DEF TypeOK
<1>2. CASE ProbeRejects(p, c)
  <2>1. PICK later \in BOOLEAN, unprobed \in BOOLEAN :
           /\ row' = IF later THEN [row EXCEPT ![run[r].pick].due = FALSE] ELSE row
           /\ Put(r, [run[r] EXCEPT !.pick = NoMobile, !.from = NoClient,
                                    !.pending = @ \/ unprobed])
    BY <1>2 DEF ProbeRejects
  <2>2. row' \in [Mobiles -> Row]
    BY <2>1, DueType DEF TypeOK
  <2>3. [run[r] EXCEPT !.pick = NoMobile, !.from = NoClient, !.pending = @ \/ unprobed] \in Run
    BY <1>1 DEF Run
  <2>4. run' \in [Runs -> Run]
    BY <1>1, <2>1, <2>3, PutType DEF TypeOK
  <2>5. probeLease' \in [Mobiles -> Lease]
    BY <1>2, LeaseTypes DEF ProbeRejects, TypeOK
  <2>6. pc' \in [Runs -> States]
    BY <1>1, <1>2, GotoType DEF ProbeRejects, TypeOK, States
  <2>7. QED
    BY <1>2, <2>2, <2>4, <2>5, <2>6 DEF ProbeRejects, TypeOK, local, bound
<1>3. CASE ProbeAccepts(p, c)
  <2> row' \in [Mobiles -> Row]
    <3>1. [row EXCEPT ![run[r].pick].due = FALSE] \in [Mobiles -> Row]
      BY DueType DEF TypeOK
    <3>2. QED
      BY <1>3, <3>1 DEF ProbeAccepts, TypeOK
  <2>1. [run[r] EXCEPT !.cands = {}, !.busy = {}] \in Run
    BY <1>1 DEF Run
  <2>2. run' \in [Runs -> Run]
    BY <1>1, <1>3, <2>1, PutType DEF ProbeAccepts, TypeOK
  <2>3. pc' \in [Runs -> States]
    BY <1>1, <1>3, GotoType DEF ProbeAccepts, TypeOK, States
  <2>4. QED
    BY <1>3, <2>2, <2>3 DEF ProbeAccepts, TypeOK, local, bound
<1>4. CASE NextStage(p, c)
  <2>1. PICK s \in NextStages(r) : Put(r, [run[r] EXCEPT !.stage = s])
    BY <1>4 DEF NextStage
  <2>2. s \in Stages
    BY <2>1 DEF NextStages, Stages
  <2>3. [run[r] EXCEPT !.stage = s] \in Run
    BY <1>1, <2>2 DEF Run
  <2>4. run' \in [Runs -> Run]
    BY <1>1, <2>1, <2>3, PutType DEF TypeOK
  <2>5. pc' \in [Runs -> States]
    BY <1>1, <1>4, GotoType DEF NextStage, TypeOK, States
  <2>6. QED
    BY <1>4, <2>4, <2>5 DEF NextStage, TypeOK, db, local, bound
<1>5. CASE NoCandidate(p, c)
  <2>1. row' \in [Mobiles -> Row]
    BY <1>5, ExpiredType DEF NoCandidate, TypeOK
  <2>2. pc' \in [Runs -> States]
    BY <1>1, <1>5, GotoType DEF NoCandidate, TypeOK, States
  <2>3. QED
    BY <1>5, <2>1, <2>2 DEF NoCandidate, TypeOK, local, bound
<1>6. CASE Register(p, c)
  <2>1. /\ setups' \in [Procs -> [Mobiles -> Clients \cup {NoClient}]]
        /\ cool' \in [Procs -> SUBSET Clients]
    <3>1. [setups EXCEPT ![p][run[r].pick] = c] \in [Procs -> [Mobiles -> Clients \cup {NoClient}]]
      BY DEF TypeOK
    <3>2. [cool EXCEPT ![p] = @ \cup {c}] \in [Procs -> SUBSET Clients]
      BY DEF TypeOK
    <3>3. QED
      BY <1>6, <3>1, <3>2 DEF Register, TypeOK
  <2>2. pc' \in [Runs -> States]
    BY <1>1, <1>6, GotoType DEF Register, TypeOK, States
  <2>3. QED
    BY <1>6, <2>1, <2>2 DEF Register, TypeOK, db, bound
<1>7. QED
  BY <1>2, <1>3, <1>4, <1>5, <1>6

\* The cutover and its failure path.
LEMMA CutoverType ==
    ASSUME TypeOK, HasPick, NEW p \in Procs, NEW c \in Clients,
           \/ ConnectFails(p, c)
           \/ SessionUpdateFails(p, c)
           \/ CommitCutover(p, c)
           \/ CommitAborts(p, c)
           \/ CheckOwner(p, c)
           \/ Penalise(p, c)
    PROVE  TypeOK'
<1> DEFINE r == <<p, c>>
<1>1. r \in Runs /\ run[r] \in Run
  BY RunIndex DEF TypeOK
<1>2. \A perm \in BOOLEAN : [run[r] EXCEPT !.perm = perm] \in Run
  BY <1>1 DEF Run
<1>3. CASE ConnectFails(p, c)
  <2>1. run' \in [Runs -> Run]
    BY <1>1, <1>2, <1>3, PutType DEF ConnectFails, TypeOK
  <2>2. pc' \in [Runs -> States]
    BY <1>1, <1>3, GotoType DEF ConnectFails, TypeOK, States
  <2>3. QED
    BY <1>3, <2>1, <2>2 DEF ConnectFails, TypeOK, db, local, bound
<1>4. CASE SessionUpdateFails(p, c)
  <2>1. PICK perm \in BOOLEAN :
           /\ Put(r, [run[r] EXCEPT !.perm = perm])
           /\ row' = IF perm THEN Expired(row, run[r].pick) ELSE row
    BY <1>4 DEF SessionUpdateFails
  <2>2. run' \in [Runs -> Run]
    BY <1>1, <1>2, <2>1, PutType DEF TypeOK
  <2>3. row' \in [Mobiles -> Row]
    BY <2>1, ExpiredType DEF TypeOK
  <2>4. setups' \in [Procs -> [Mobiles -> Clients \cup {NoClient}]]
    BY <1>4, UnregisteredType DEF SessionUpdateFails, TypeOK
  <2>5. pc' \in [Runs -> States]
    BY <1>1, <1>4, GotoType DEF SessionUpdateFails, TypeOK, States
  <2>6. QED
    BY <1>4, <2>2, <2>3, <2>4, <2>5 DEF SessionUpdateFails, TypeOK, bound
<1>5. CASE CommitCutover(p, c)
  <2>1. run[r].pick \in Mobiles
    BY <1>1, <1>5 DEF CommitCutover, HasPick, Picking, InHand
  <2>2. /\ main' \in [Clients -> Mobiles]
        /\ cache' \in [Procs -> [Clients -> Mobiles]]
    BY <1>5, <2>1 DEF CommitCutover, TypeOK
  <2>3. row' \in [Mobiles -> Row]
    BY ZenonT(60), <1>5, <2>1 DEF CommitCutover, PrimaryInUse, TypeOK, Row
  <2>4. pc' \in [Runs -> States]
    BY <1>1, <1>5, GotoType DEF CommitCutover, TypeOK, States
  <2>5. QED
    BY <1>5, <2>2, <2>3, <2>4 DEF CommitCutover, TypeOK, bound
<1>6. CASE CommitAborts(p, c)
  <2>1. setups' \in [Procs -> [Mobiles -> Clients \cup {NoClient}]]
    BY <1>6, UnregisteredType DEF CommitAborts
  <2>2. pc' \in [Runs -> States]
    BY <1>1, <1>6, GotoType DEF CommitAborts, TypeOK, States
  <2>3. QED
    BY <1>6, <2>1, <2>2 DEF CommitAborts, TypeOK, db, bound
<1>7. CASE CheckOwner(p, c)
  <2>1. pc' \in [Runs -> States]
    BY <1>1, <1>7, GotoType DEF CheckOwner, TypeOK, States
  <2>2. QED
    BY <1>7, <2>1 DEF CheckOwner, TypeOK, db, local, bound
<1>8. CASE Penalise(p, c)
  <2>1. row' \in [Mobiles -> Row]
    <3>1. [row EXCEPT ![run[r].pick].due = FALSE] \in [Mobiles -> Row]
      BY DueType DEF TypeOK
    <3>2. QED
      BY <1>8, <3>1, ExpiredType DEF Penalise, TypeOK
  <2>2. pc' \in [Runs -> States]
    BY <1>1, <1>8, GotoType DEF Penalise, TypeOK, States
  <2>3. QED
    BY <1>8, <2>1, <2>2 DEF Penalise, TypeOK, local, bound
<1>9. QED
  BY <1>3, <1>4, <1>5, <1>6, <1>7, <1>8

\* Putting the replaced account away.
LEMMA ReplacedType ==
    ASSUME TypeOK, NEW p \in Procs, NEW c \in Clients,
           \/ RetireReplaced(p, c)
           \/ ReturnReplaced(p, c)
           \/ ReleaseReplaced(p, c)
           \/ SkipReturn(p, c)
           \/ ReturnFails(p, c)
           \/ Finish(p, c)
    PROVE  TypeOK'
<1> DEFINE r == <<p, c>>
<1>1. r \in Runs
  BY RunIndex
<1>2. CASE RetireReplaced(p, c)
  <2>1. row' \in [Mobiles -> Row]
    BY <1>2, ExpiredType DEF RetireReplaced, TypeOK
  <2>2. pc' \in [Runs -> States]
    BY <1>1, <1>2, GotoType DEF RetireReplaced, TypeOK, States
  <2>3. QED
    BY <1>2, <2>1, <2>2 DEF RetireReplaced, TypeOK, local, bound
<1>3. CASE ReturnReplaced(p, c)
  <2>1. row' \in [Mobiles -> Row]
    <3>1. PICK s \in {"active", "inactive"}, d \in BOOLEAN :
             row' = [row EXCEPT ![run[r].old] =
                        [client |-> c, inUse |-> FALSE, status |-> s, due |-> d]]
      BY <1>3 DEF ReturnReplaced
    <3>2. [client |-> c, inUse |-> FALSE, status |-> s, due |-> d] \in Row
      BY DEF Row
    <3>3. QED
      BY <3>1, <3>2 DEF TypeOK
  <2>2. pc' \in [Runs -> States]
    BY <1>1, <1>3, GotoType DEF ReturnReplaced, TypeOK, States
  <2>3. QED
    BY <1>3, <2>1, <2>2 DEF ReturnReplaced, TypeOK, local, bound
<1>4. CASE ReleaseReplaced(p, c)
  <2>1. row' \in [Mobiles -> Row]
    <3>1. PICK d \in BOOLEAN :
             row' = [row EXCEPT ![run[r].old] =
                        [@ EXCEPT !.inUse = FALSE, !.status = "active", !.due = d]]
      BY <1>4 DEF ReleaseReplaced
    <3>2. ASSUME NEW m \in Mobiles
          PROVE  row'[m] \in Row
      <4>1. row[m] \in Row
        BY DEF TypeOK
      <4>2. [row[m] EXCEPT !.inUse = FALSE, !.status = "active", !.due = d] \in Row
        BY <4>1 DEF Row
      <4>3. QED
        BY <3>1, <4>1, <4>2 DEF TypeOK
    <3>3. QED
      BY <3>1, <3>2 DEF TypeOK
  <2>2. pc' \in [Runs -> States]
    BY <1>1, <1>4, GotoType DEF ReleaseReplaced, TypeOK, States
  <2>3. QED
    BY <1>4, <2>1, <2>2 DEF ReleaseReplaced, TypeOK, local, bound
<1>5. CASE SkipReturn(p, c)
  <2>1. row' \in [Mobiles -> Row]
    BY ZenonT(60), <1>5 DEF SkipReturn, TypeOK, Row
  <2>2. pc' \in [Runs -> States]
    BY <1>1, <1>5, GotoType DEF SkipReturn, TypeOK, States
  <2>3. QED
    BY <1>5, <2>1, <2>2 DEF SkipReturn, TypeOK, local, bound
<1>6. CASE ReturnFails(p, c)
  <2>1. pc' \in [Runs -> States]
    BY <1>1, <1>6, GotoType DEF ReturnFails, TypeOK, States
  <2>2. QED
    BY <1>6, <2>1 DEF ReturnFails, TypeOK, db, local, bound
<1>7. CASE Finish(p, c)
  <2>1. /\ swapLease' \in [Clients -> Lease]
        /\ probeLease' \in [Mobiles -> Lease]
    <3>1. /\ Without(swapLease, r) \in [Clients -> Lease]
          /\ Orphaned(swapLease, {r}) \in [Clients -> Lease]
      BY <1>1, LeaseMapTypes DEF TypeOK
    <3>2. /\ Without(probeLease, r) \in [Mobiles -> Lease]
          /\ Orphaned(probeLease, {r}) \in [Mobiles -> Lease]
      BY <1>1, LeaseMapTypes DEF TypeOK
    <3>3. QED
      BY <1>7, <3>1, <3>2 DEF Finish
  <2>2. setups' \in [Procs -> [Mobiles -> Clients \cup {NoClient}]]
    BY <1>7, UnregisteredType DEF Finish
  <2>3. run' \in [Runs -> Run]
    BY <1>1, <1>7, NoRunType, PutType DEF Finish, TypeOK
  <2>4. pc' \in [Runs -> States]
    BY <1>1, <1>7, GotoType DEF Finish, TypeOK, States
  <2>5. QED
    BY <1>7, <2>1, <2>2, <2>3, <2>4 DEF Finish, TypeOK, bound
<1>8. QED
  BY <1>2, <1>3, <1>4, <1>5, <1>6, <1>7

\* Timers, crashes and other flows.
LEMMA EnvironmentType ==
    ASSUME TypeOK,
           \/ \E p \in Procs, c \in Clients : RenewLeases(p, c) \/ CooldownEnds(p, c)
           \/ \E p \in Procs : Crash(p) \/ RefreshCache(p)
           \/ \E c \in Clients : SwapLeaseExpires(c)
           \/ \E m \in Mobiles : ProbeLeaseExpires(m) \/ ExpireElsewhere(m) \/ BecomesDue(m)
    PROVE  TypeOK'
<1>1. ASSUME NEW p \in Procs, NEW c \in Clients, RenewLeases(p, c)
      PROVE  TypeOK'
  <2>1. /\ swapLease' \in [Clients -> Lease]
        /\ probeLease' \in [Mobiles -> Lease]
    BY <1>1, RunIndex, LeaseMapTypes DEF RenewLeases, TypeOK
  <2>2. QED
    BY <1>1, <2>1 DEF RenewLeases, TypeOK, local, bound
<1>2. ASSUME NEW p \in Procs, NEW c \in Clients, CooldownEnds(p, c)
      PROVE  TypeOK'
  BY <1>2 DEF CooldownEnds, TypeOK, db, bound
<1>3. ASSUME NEW p \in Procs, Crash(p)
      PROVE  TypeOK'
  <2>1. /\ swapLease' \in [Clients -> Lease]
        /\ probeLease' \in [Mobiles -> Lease]
    <3>1. \A S, dead : \A leases \in [S -> Lease] : Orphaned(leases, dead) \in [S -> Lease]
      BY DEF Orphaned, Lease
    <3>2. QED
      BY <1>3, <3>1 DEF Crash, TypeOK
  <2>2. /\ cache' \in [Procs -> [Clients -> Mobiles]]
        /\ setups' \in [Procs -> [Mobiles -> Clients \cup {NoClient}]]
        /\ cool' \in [Procs -> SUBSET Clients]
    BY <1>3 DEF Crash, TypeOK
  <2>3. pc' \in [Runs -> States]
    BY <1>3 DEF Crash, TypeOK, States
  <2>4. run' \in [Runs -> Run]
    BY <1>3, NoRunType DEF Crash, TypeOK
  <2>5. crashes' \in Nat
    BY <1>3 DEF Crash, TypeOK
  <2>6. QED
    BY <1>3, <2>1, <2>2, <2>3, <2>4, <2>5 DEF Crash, TypeOK
<1>4. ASSUME NEW p \in Procs, RefreshCache(p)
      PROVE  TypeOK'
  BY <1>4 DEF RefreshCache, TypeOK, db, bound
<1>5. ASSUME NEW c \in Clients, SwapLeaseExpires(c)
      PROVE  TypeOK'
  BY <1>5 DEF SwapLeaseExpires, TypeOK, Lease, local, bound
<1>6. ASSUME NEW m \in Mobiles, ProbeLeaseExpires(m)
      PROVE  TypeOK'
  BY <1>6 DEF ProbeLeaseExpires, TypeOK, Lease, local, bound
<1>7. ASSUME NEW m \in Mobiles, ExpireElsewhere(m)
      PROVE  TypeOK'
  BY <1>7, ExpiredType DEF ExpireElsewhere, TypeOK, local, bound
<1>8. ASSUME NEW m \in Mobiles, BecomesDue(m)
      PROVE  TypeOK'
  <2>1. row' \in [Mobiles -> Row]
    BY <1>8, DueType DEF BecomesDue, TypeOK
  <2>2. QED
    BY <1>8, <2>1 DEF BecomesDue, TypeOK, local, bound
<1>9. QED
  BY <1>1, <1>2, <1>3, <1>4, <1>5, <1>6, <1>7, <1>8

LEMMA TypeStep == TypeOK /\ HasPick /\ [Next]_vars => TypeOK'
<1> SUFFICES ASSUME TypeOK, HasPick, [Next]_vars PROVE TypeOK'
    OBVIOUS
<1>1. CASE UNCHANGED vars
  BY <1>1 DEF TypeOK, vars, db, local, bound
<1>2. CASE Next
  BY <1>2, SelectionType, ProbeType, CutoverType, ReplacedType, EnvironmentType
  DEF Next, SetupStep
<1>3. QED
  BY <1>1, <1>2

-----------------------------------------------------------------------------
(* What one step may change, once for all the invariants below. *)

\* Only the run that takes a step changes its control state and its data.
LEMMA RunFrame ==
    ASSUME TypeOK, NEW p \in Procs, NEW c \in Clients,
           SetupStep(p, c) \/ \E k \in Kinds : StartSetup(p, c, k),
           NEW s \in Runs, s # <<p, c>>
    PROVE  pc'[s] = pc[s] /\ run'[s] = run[s]
BY DEF SetupStep, StartSetup, LoadClient, Scan, TakeProbeLease, SkipCandidate,
       ProbeRejects, ProbeAccepts, NextStage, NoCandidate, Register, ConnectFails,
       SessionUpdateFails, CommitCutover, CommitAborts, CheckOwner, Penalise,
       RetireReplaced, ReturnReplaced, ReleaseReplaced, SkipReturn, ReturnFails,
       Finish, Goto, Put, TypeOK

\* A run has an account in hand because it just leased it, or had it before.
LEMMA PickFrame ==
    ASSUME TypeOK, NEW p \in Procs, NEW c \in Clients,
           SetupStep(p, c) \/ \E k \in Kinds : StartSetup(p, c, k),
           pc'[<<p, c>>] \in InHand
    PROVE  \/ /\ TakeProbeLease(p, c)
              /\ run'[<<p, c>>].pick \in Mobiles
              /\ ProbeFree(run'[<<p, c>>].pick, <<p, c>>)
              /\ probeLease' = [probeLease EXCEPT ![run'[<<p, c>>].pick] = HeldBy(<<p, c>>)]
           \/ /\ pc[<<p, c>>] \in InHand
              /\ run'[<<p, c>>].pick = run[<<p, c>>].pick
              /\ UNCHANGED <<probeLease, swapLease>>
<1> DEFINE r == <<p, c>>
<1>1. r \in Runs /\ run[r] \in Run
  BY RunIndex DEF TypeOK
<1>2. CASE TakeProbeLease(p, c)
  <2>1. PICK cand \in run[r].cands :
           /\ ProbeFree(cand[1], r)
           /\ probeLease' = [probeLease EXCEPT ![cand[1]] = HeldBy(r)]
           /\ Put(r, [run[r] EXCEPT !.cands = @ \ {cand}, !.pick = cand[1], !.from = cand[2]])
    BY <1>2 DEF TakeProbeLease
  <2>2. cand[1] \in Mobiles
    BY <1>1, <2>1 DEF Run
  <2>3. run'[r].pick = cand[1]
    BY <1>1, <2>1 DEF Put, TypeOK, Run
  <2>4. QED
    BY <1>2, <2>1, <2>2, <2>3
<1>3. CASE \/ ProbeAccepts(p, c)
           \/ Register(p, c)
           \/ ConnectFails(p, c)
           \/ SessionUpdateFails(p, c)
           \/ CommitCutover(p, c)
           \/ CommitAborts(p, c)
           \/ CheckOwner(p, c)
           \/ ReturnFails(p, c)
  <2>1. pc[r] \in InHand /\ UNCHANGED <<probeLease, swapLease>>
    BY <1>3
    DEF ProbeAccepts, Register, ConnectFails, SessionUpdateFails, CommitCutover,
        CommitAborts, CheckOwner, ReturnFails, InHand, db
  <2>2. CASE ProbeAccepts(p, c)
    BY <1>1, <2>1, <2>2 DEF ProbeAccepts, Put, TypeOK, Run
  <2>3. CASE ConnectFails(p, c) \/ SessionUpdateFails(p, c)
    <3>1. PICK perm \in BOOLEAN : Put(r, [run[r] EXCEPT !.perm = perm])
      BY <2>3 DEF ConnectFails, SessionUpdateFails
    <3>2. run'[r].pick = run[r].pick
      BY <1>1, <3>1 DEF Put, TypeOK, Run
    <3>3. QED
      BY <2>1, <3>2
  <2>4. CASE UNCHANGED run
    BY <2>1, <2>4
  <2>5. QED
    BY <1>3, <2>2, <2>3, <2>4
    DEF Register, CommitCutover, CommitAborts, CheckOwner, ReturnFails
<1>4. CASE \/ \E k \in Kinds : StartSetup(p, c, k)
           \/ LoadClient(p, c)
           \/ Scan(p, c)
           \/ SkipCandidate(p, c)
           \/ ProbeRejects(p, c)
           \/ NextStage(p, c)
           \/ NoCandidate(p, c)
           \/ Penalise(p, c)
           \/ RetireReplaced(p, c)
           \/ ReturnReplaced(p, c)
           \/ ReleaseReplaced(p, c)
           \/ SkipReturn(p, c)
           \/ Finish(p, c)
  BY <1>1, <1>4
  DEF StartSetup, LoadClient, Scan, SkipCandidate, ProbeRejects, NextStage,
      NoCandidate, Penalise, RetireReplaced, ReturnReplaced, ReleaseReplaced,
      SkipReturn, Finish, Goto, TypeOK, InHand
<1>5. QED
  BY <1>2, <1>3, <1>4 DEF SetupStep

\* Timers and other flows leave the runs alone, a crash only ends them.
LEMMA EnvironmentFrame ==
    ASSUME TypeOK,
           \/ UNCHANGED vars
           \/ \E p \in Procs, c \in Clients : RenewLeases(p, c) \/ CooldownEnds(p, c)
           \/ \E p \in Procs : Crash(p) \/ RefreshCache(p)
           \/ \E c \in Clients : SwapLeaseExpires(c)
           \/ \E m \in Mobiles : ProbeLeaseExpires(m) \/ ExpireElsewhere(m) \/ BecomesDue(m),
           NEW s \in Runs
    PROVE  \/ pc'[s] = "idle"
           \/ pc'[s] = pc[s] /\ run'[s] = run[s]
BY DEF RenewLeases, CooldownEnds, Crash, RefreshCache, SwapLeaseExpires,
       ProbeLeaseExpires, ExpireElsewhere, BecomesDue, TypeOK, vars, local

\* Only the cutover moves a main.
LEMMA MainFrame ==
    ASSUME [Next]_vars
    PROVE  \/ \E p \in Procs, c \in Clients : CommitCutover(p, c)
           \/ UNCHANGED main
<1>1. ASSUME NEW p \in Procs, NEW c \in Clients,
             SetupStep(p, c) \/ \E k \in Kinds : StartSetup(p, c, k)
      PROVE  CommitCutover(p, c) \/ UNCHANGED main
  BY <1>1
  DEF SetupStep, StartSetup, LoadClient, Scan, TakeProbeLease, SkipCandidate,
      ProbeRejects, ProbeAccepts, NextStage, NoCandidate, Register, ConnectFails,
      SessionUpdateFails, CommitAborts, CheckOwner, Penalise, RetireReplaced,
      ReturnReplaced, ReleaseReplaced, SkipReturn, ReturnFails, Finish, db
<1>2. CASE \/ UNCHANGED vars
           \/ \E p \in Procs, c \in Clients : RenewLeases(p, c) \/ CooldownEnds(p, c)
           \/ \E p \in Procs : Crash(p) \/ RefreshCache(p)
           \/ \E c \in Clients : SwapLeaseExpires(c)
           \/ \E m \in Mobiles : ProbeLeaseExpires(m) \/ ExpireElsewhere(m) \/ BecomesDue(m)
  BY <1>2
  DEF RenewLeases, CooldownEnds, Crash, RefreshCache, SwapLeaseExpires,
      ProbeLeaseExpires, ExpireElsewhere, BecomesDue, vars, db
<1>3. QED
  BY <1>1, <1>2 DEF Next

LEMMA HasPickStep == TypeOK /\ HasPick /\ [Next]_vars => HasPick'
<1> SUFFICES ASSUME TypeOK, HasPick, [Next]_vars, NEW s \in Runs, pc'[s] \in InHand
             PROVE  run'[s].pick \in Mobiles
    BY DEF HasPick, Picking
<1>1. ASSUME NEW p \in Procs, NEW c \in Clients,
             SetupStep(p, c) \/ \E k \in Kinds : StartSetup(p, c, k)
      PROVE  run'[s].pick \in Mobiles
  <2>1. CASE s = <<p, c>>
    BY <1>1, <2>1, PickFrame DEF HasPick, Picking
  <2>2. CASE s # <<p, c>>
    BY <1>1, <2>2, RunFrame DEF HasPick, Picking
  <2>3. QED
    BY <2>1, <2>2
<1>2. CASE pc'[s] = pc[s] /\ run'[s] = run[s]
  BY <1>2 DEF HasPick, Picking
<1>3. QED
  BY <1>1, <1>2, EnvironmentFrame DEF Next, InHand

\* Outside the cutover a step writes one row at most, and never reserves it.
LEMMA RowFrame ==
    ASSUME TypeOK, [Next]_vars
    PROVE  \/ \E p \in Procs, c \in Clients : CommitCutover(p, c)
           \/ \E x : \A m \in Mobiles :
                 /\ m # x => row'[m] = row[m]
                 /\ row'[m].inUse => row[m].inUse /\ row'[m].client = row[m].client
<1> DEFINE OneRow(x) == \A m \in Mobiles :
               /\ m # x => row'[m] = row[m]
               /\ row'[m].inUse => row[m].inUse /\ row'[m].client = row[m].client
<1>1. ASSUME UNCHANGED row PROVE OneRow(NoMobile)
  BY <1>1
<1>2. ASSUME NEW x, row' = Expired(row, x) PROVE OneRow(x)
  BY <1>2 DEF Expired, TypeOK, Row
<1>3. ASSUME NEW x, NEW d \in BOOLEAN, row' = [row EXCEPT ![x].due = d] PROVE OneRow(x)
  BY <1>3 DEF TypeOK, Row
<1>4. ASSUME NEW p \in Procs, NEW c \in Clients,
             SetupStep(p, c) \/ \E k \in Kinds : StartSetup(p, c, k),
             ~CommitCutover(p, c)
      PROVE  \E x : OneRow(x)
  <2> DEFINE r == <<p, c>>
  <2>1. CASE ProbeRejects(p, c) \/ ProbeAccepts(p, c)
    BY <2>1, <1>1, <1>3 DEF ProbeRejects, ProbeAccepts
  <2>2. CASE NoCandidate(p, c) \/ RetireReplaced(p, c)
    BY <2>2, <1>1, <1>2 DEF NoCandidate, RetireReplaced
  <2>3. CASE SessionUpdateFails(p, c)
    BY <2>3, <1>1, <1>2 DEF SessionUpdateFails
  <2>4. CASE Penalise(p, c)
    BY SMTT(30), <2>4, <1>2, <1>3 DEF Penalise
  <2>5. CASE ReturnReplaced(p, c)
    <3>1. PICK s \in {"active", "inactive"}, d \in BOOLEAN :
             row' = [row EXCEPT ![run[r].old] =
                        [client |-> c, inUse |-> FALSE, status |-> s, due |-> d]]
      BY <2>5 DEF ReturnReplaced
    <3>2. OneRow(run[r].old)
      BY <3>1 DEF TypeOK
    <3>3. QED
      BY <3>2
  <2>6. CASE ReleaseReplaced(p, c)
    <3>1. PICK d \in BOOLEAN :
             row' = [row EXCEPT ![run[r].old] =
                        [@ EXCEPT !.inUse = FALSE, !.status = "active", !.due = d]]
      BY <2>6 DEF ReleaseReplaced
    <3>2. OneRow(run[r].old)
      BY <3>1 DEF TypeOK, Row
    <3>3. QED
      BY <3>2
  <2>7. CASE SkipReturn(p, c)
    <3>1. OneRow(run[r].old)
      BY <2>7 DEF SkipReturn, TypeOK, Row
    <3>2. QED
      BY <3>1
  <2>8. CASE UNCHANGED row
    BY <2>8, <1>1
  <2>9. QED
    BY <1>4, <2>1, <2>2, <2>3, <2>4, <2>5, <2>6, <2>7, <2>8
    DEF SetupStep, StartSetup, LoadClient, Scan, TakeProbeLease, SkipCandidate,
        ProbeAccepts, NextStage, Register, ConnectFails, CommitAborts, CheckOwner,
        ReturnFails, Finish, db
<1>5. CASE \/ UNCHANGED vars
           \/ \E p \in Procs, c \in Clients : RenewLeases(p, c) \/ CooldownEnds(p, c)
           \/ \E p \in Procs : Crash(p) \/ RefreshCache(p)
           \/ \E c \in Clients : SwapLeaseExpires(c)
           \/ \E m \in Mobiles : ProbeLeaseExpires(m)
  <2>1. UNCHANGED row
    BY <1>5
    DEF RenewLeases, CooldownEnds, Crash, RefreshCache, SwapLeaseExpires,
        ProbeLeaseExpires, vars, db
  <2>2. QED
    BY <2>1, <1>1
<1>6. ASSUME NEW m \in Mobiles, ExpireElsewhere(m) \/ BecomesDue(m)
      PROVE  \E x : OneRow(x)
  BY <1>6, <1>2, <1>3 DEF ExpireElsewhere, BecomesDue
<1>7. QED
  BY <1>4, <1>5, <1>6 DEF Next

-----------------------------------------------------------------------------
(* The assignment of accounts to clients, with or without working leases. *)

AssignmentInv == TypeOK /\ HasPick /\ MainsDistinct /\ PrimaryAgrees

LEMMA AssignmentInit == Init => AssignmentInv
<1> SUFFICES ASSUME Init PROVE AssignmentInv
    OBVIOUS
<1>1. HasPick
  BY DEF Init, HasPick, Picking, InHand
<1>2. MainsDistinct
  BY MainAssumption DEF Init, MainsDistinct
<1>3. PrimaryAgrees
  BY MainAssumption DEF Init, PrimaryAgrees
<1>4. QED
  BY <1>1, <1>2, <1>3, InitType DEF AssignmentInv

LEMMA AssignmentStep == AssignmentInv /\ [Next]_vars => AssignmentInv'
<1> SUFFICES ASSUME AssignmentInv, [Next]_vars PROVE AssignmentInv'
    OBVIOUS
<1> USE DEF AssignmentInv
<1>1. TypeOK' /\ HasPick'
  BY TypeStep, HasPickStep
<1>2. ASSUME NEW p \in Procs, NEW c \in Clients, CommitCutover(p, c)
      PROVE  MainsDistinct' /\ PrimaryAgrees'
  <2> DEFINE new == run[<<p, c>>].pick
  <2>1. new \in Mobiles
    BY <1>2, RunIndex DEF CommitCutover, HasPick, Picking, InHand
  <2>2. /\ main' = [main EXCEPT ![c] = new]
        /\ \A d \in Clients \ {c} : main[d] # new
        /\ row' = PrimaryInUse(c, new)
    BY <1>2 DEF CommitCutover, CanCommit
  <2>3. MainsDistinct'
    BY <2>2 DEF MainsDistinct, TypeOK
  <2>4. PrimaryAgrees'
    <3> SUFFICES ASSUME NEW m \in Mobiles, row'[m].inUse
                 PROVE  main'[row'[m].client] = m
        BY DEF PrimaryAgrees
    <3>1. row[m] \in Row
      BY DEF TypeOK
    <3>2. CASE m = new
      BY <2>2, <3>1, <3>2 DEF PrimaryInUse, TypeOK, Row
    <3>3. CASE m # new
      <4>1. row[m].client # c /\ row'[m] = row[m]
        BY <2>2, <3>1, <3>3 DEF PrimaryInUse, Row
      <4>2. QED
        BY <2>2, <3>1, <4>1 DEF PrimaryAgrees, TypeOK, Row
    <3>4. QED
      BY <3>2, <3>3
  <2>5. QED
    BY <2>3, <2>4
<1>3. CASE ~\E p \in Procs, c \in Clients : CommitCutover(p, c)
  <2>1. UNCHANGED main
    BY <1>3, MainFrame
  <2>2. \A m \in Mobiles :
           row'[m].inUse => row[m].inUse /\ row'[m].client = row[m].client
    BY <1>3, RowFrame
  <2>3. MainsDistinct' /\ PrimaryAgrees'
    BY <2>1, <2>2 DEF MainsDistinct, PrimaryAgrees
  <2>4. QED
    BY <1>1, <2>3
<1>4. QED
  BY <1>1, <1>2, <1>3

\* The variables of every reachable state have their types (TypeOK).
THEOREM TypeCorrect == Spec => []TypeOK
<1>1. Spec => []AssignmentInv
  BY AssignmentInit, AssignmentStep, PTL DEF Spec
<1>2. AssignmentInv => TypeOK
  BY DEF AssignmentInv
<1>3. QED
  BY <1>1, <1>2, PTL

\* bufferClients.inUse and clients.mobile never disagree about the account a
\* client runs on, whatever leases expire and whatever processes die.
THEOREM PrimaryAgreement == Spec => []PrimaryAgrees
<1>1. Spec => []AssignmentInv
  BY AssignmentInit, AssignmentStep, PTL DEF Spec
<1>2. AssignmentInv => PrimaryAgrees
  BY DEF AssignmentInv
<1>3. QED
  BY <1>1, <1>2, PTL

\* Two clients never run on one account, even where leases lapse and lenders
\* give their spares away: the unique index is asked inside the transaction.
THEOREM DistinctMains == Spec => []MainsDistinct
<1>1. Spec => []AssignmentInv
  BY AssignmentInit, AssignmentStep, PTL DEF Spec
<1>2. AssignmentInv => MainsDistinct
  BY DEF AssignmentInv
<1>3. QED
  BY <1>1, <1>2, PTL

-----------------------------------------------------------------------------
(* The swap implements the atomic assignment of MainAssignment. *)

LEMMA AssignmentRefines ==
    AssignmentInv /\ [Next]_vars =>
        [Assignment!Next]_<<main, {m \in Mobiles : row[m].inUse}>>
<1> SUFFICES ASSUME AssignmentInv, [Next]_vars
             PROVE  [Assignment!Next]_<<main, {m \in Mobiles : row[m].inUse}>>
    OBVIOUS
<1> DEFINE Held == {m \in Mobiles : row[m].inUse}
<1> USE DEF AssignmentInv
<1>1. ASSUME NEW p \in Procs, NEW c \in Clients, CommitCutover(p, c)
      PROVE  \E m \in Mobiles : Assignment!Switch(c, m)
  <2> DEFINE new == run[<<p, c>>].pick
  <2>1. new \in Mobiles
    BY <1>1, RunIndex DEF CommitCutover, HasPick, Picking, InHand
  <2>2. /\ main' = [main EXCEPT ![c] = new]
        /\ \A d \in Clients \ {c} : main[d] # new
        /\ row' = PrimaryInUse(c, new)
    BY <1>1 DEF CommitCutover, CanCommit
  <2>3. Held' = (Held \ {main[c]}) \cup {new}
    <3>1. ASSUME NEW m \in Mobiles
          PROVE  row'[m].inUse <=> m = new \/ (row[m].inUse /\ m # main[c])
      <4>1. row[m] \in Row
        BY DEF TypeOK
      <4>2. row[m].inUse => main[row[m].client] = m /\ row[m].client \in Clients
        BY <4>1 DEF PrimaryAgrees, Row
      <4>3. row[m].inUse => (row[m].client = c <=> m = main[c])
        BY <4>2 DEF MainsDistinct
      <4>4. QED
        BY <2>2, <4>1, <4>3 DEF PrimaryInUse, Row
    <3>2. QED
      BY <2>1, <3>1
  <2>4. QED
    BY <2>1, <2>2, <2>3 DEF Assignment!Switch
<1>2. CASE ~\E p \in Procs, c \in Clients : CommitCutover(p, c)
  <2>1. UNCHANGED main
    BY <1>2, MainFrame
  <2>2. PICK x : \A m \in Mobiles :
                    /\ m # x => row'[m] = row[m]
                    /\ row'[m].inUse => row[m].inUse /\ row'[m].client = row[m].client
    BY <1>2, RowFrame
  <2>3. \/ Held' = Held
        \/ x \in Held /\ Held' = Held \ {x}
    BY <2>2
  <2>4. QED
    BY <2>1, <2>3 DEF Assignment!Next, Assignment!Drop
<1>3. QED
  BY <1>1, <1>2 DEF Assignment!Next

\* Every step of the saga is a switch of main and reservation together, the
\* loss of one reservation, or nothing at all to a reader of the assignment.
THEOREM Refinement == Spec => ImplementsAssignment
<1>1. Init => Assignment!Init
  <2> SUFFICES ASSUME Init PROVE {m \in Mobiles : row[m].inUse} = {InitMain[c] : c \in Clients}
      BY DEF Init, Assignment!Init
  <2>1. \A m \in Mobiles : row[m].inUse <=> m = InitMain[InitOwner[m]]
    BY DEF Init
  <2>2. QED
    BY <2>1, MainAssumption
<1>2. QED
  BY <1>1, AssignmentInit, AssignmentStep, AssignmentRefines, PTL
  DEF Spec, ImplementsAssignment, Assignment!Spec

-----------------------------------------------------------------------------
(* Leases name runs that go on: no assumption on their renewals. *)

\* An owner that a release or a death leaves is the one before it.
LEMMA OwnerKept ==
    ASSUME NEW S, NEW leases \in [S -> Lease], NEW x \in S, NEW r \in Runs
    PROVE  Without(leases, r)[x].owner \in Runs =>
               Without(leases, r)[x].owner = leases[x].owner /\ leases[x].owner # r
BY NoneAssumption DEF Without, NoLease, Runs

LEMMA OwnerAlive ==
    ASSUME NEW S, NEW leases \in [S -> Lease], NEW x \in S, NEW dead
    PROVE  Orphaned(leases, dead)[x].owner \in Runs =>
               /\ Orphaned(leases, dead)[x].owner = leases[x].owner
               /\ leases[x].owner \notin dead
BY NoneAssumption DEF Orphaned, Lease, Runs

LEMMA RenewedOwner ==
    ASSUME NEW S, NEW leases \in [S -> Lease], NEW x \in S, NEW r \in Runs
    PROVE  Renewed(leases, r)[x].owner = leases[x].owner
BY DEF Renewed, HeldBy

LEMMA LeaseOwnedStep == TypeOK /\ LeaseOwned /\ [Next]_vars => LeaseOwned'
<1> SUFFICES ASSUME TypeOK, LeaseOwned, [Next]_vars PROVE LeaseOwned'
    OBVIOUS
<1> DEFINE Kept(r) == pc[r] # "idle" => pc'[r] # "idle"
<1>1. swapLease \in [Clients -> Lease] /\ probeLease \in [Mobiles -> Lease]
  BY DEF TypeOK
<1>2. ASSUME \A r \in Runs : Kept(r), UNCHANGED <<swapLease, probeLease>>
      PROVE  LeaseOwned'
  BY <1>2 DEF LeaseOwned, Active
<1>3. ASSUME NEW p \in Procs, NEW c \in Clients, NEW k \in Kinds, StartSetup(p, c, k)
      PROVE  LeaseOwned'
  <2>1. <<p, c>> \in Runs /\ pc'[<<p, c>>] # "idle" /\ \A r \in Runs : Kept(r)
    BY <1>3, RunIndex DEF StartSetup, Goto, TypeOK, Active
  <2>2. /\ swapLease' = [swapLease EXCEPT ![c] = HeldBy(<<p, c>>)]
        /\ probeLease' = probeLease
    BY <1>3 DEF StartSetup
  <2>3. swapLease'[c].owner = <<p, c>>
    BY <1>1, <2>2 DEF HeldBy
  <2>4. \A d \in Clients : d # c => swapLease'[d] = swapLease[d]
    BY <1>1, <2>2
  <2>5. ASSUME NEW d \in Clients, swapLease'[d].owner \in Runs
        PROVE  swapLease'[d].owner[2] = d /\ pc'[swapLease'[d].owner] # "idle"
    <3>1. CASE d = c
      BY <2>1, <2>3, <3>1
    <3>2. CASE d # c
      BY <2>1, <2>4, <2>5, <3>2 DEF LeaseOwned, Active
    <3>3. QED
      BY <3>1, <3>2
  <2>6. QED
    BY <2>1, <2>2, <2>5 DEF LeaseOwned, Active
<1>4. ASSUME NEW p \in Procs, NEW c \in Clients, TakeProbeLease(p, c)
      PROVE  LeaseOwned'
  <2>1. PICK cand \in run[<<p, c>>].cands :
           probeLease' = [probeLease EXCEPT ![cand[1]] = HeldBy(<<p, c>>)]
    BY <1>4 DEF TakeProbeLease
  <2>2. <<p, c>> \in Runs /\ pc'[<<p, c>>] # "idle" /\ \A r \in Runs : Kept(r)
    BY <1>4, RunIndex DEF TakeProbeLease, Goto, TypeOK, Active
  <2>3. ASSUME NEW m \in Mobiles, probeLease'[m].owner \in Runs
        PROVE  pc'[probeLease'[m].owner] # "idle"
    BY <1>1, <2>1, <2>2, <2>3 DEF LeaseOwned, Active, HeldBy
  <2>4. swapLease' = swapLease
    BY <1>4 DEF TakeProbeLease
  <2>5. QED
    BY <2>2, <2>3, <2>4 DEF LeaseOwned, Active
<1>5. ASSUME NEW p \in Procs, NEW c \in Clients, ProbeRejects(p, c)
      PROVE  LeaseOwned'
  <2>1. \A r \in Runs : Kept(r)
    BY <1>5, RunIndex DEF ProbeRejects, Goto, TypeOK, Active
  <2>2. NoLease.owner \notin Runs
    BY NoneAssumption DEF NoLease, Runs
  <2>3. /\ swapLease' = swapLease
        /\ \/ probeLease' = [probeLease EXCEPT ![run[<<p, c>>].pick] = NoLease]
           \/ probeLease' = probeLease
    BY <1>5 DEF ProbeRejects
  <2>4. ASSUME NEW m \in Mobiles, probeLease'[m].owner \in Runs
        PROVE  pc'[probeLease'[m].owner] # "idle"
    BY <1>1, <2>1, <2>2, <2>3, <2>4 DEF LeaseOwned, Active
  <2>5. QED
    BY <2>1, <2>3, <2>4 DEF LeaseOwned, Active
<1>6. ASSUME NEW p \in Procs, NEW c \in Clients, Finish(p, c)
      PROVE  LeaseOwned'
  <2>1. <<p, c>> \in Runs /\ \A r \in Runs : r # <<p, c>> => Kept(r)
    BY <1>6, RunIndex DEF Finish, Goto, TypeOK, Active
  <2>2. \/ /\ swapLease' = Without(swapLease, <<p, c>>)
           /\ probeLease' = Without(probeLease, <<p, c>>)
        \/ /\ swapLease' = Orphaned(swapLease, {<<p, c>>})
           /\ probeLease' = Orphaned(probeLease, {<<p, c>>})
    BY <1>6 DEF Finish
  <2>3. ASSUME NEW d \in Clients, swapLease'[d].owner \in Runs
        PROVE  swapLease'[d].owner = swapLease[d].owner /\ swapLease[d].owner # <<p, c>>
    BY <1>1, <2>1, <2>2, <2>3, OwnerKept, OwnerAlive
  <2>4. ASSUME NEW m \in Mobiles, probeLease'[m].owner \in Runs
        PROVE  probeLease'[m].owner = probeLease[m].owner /\ probeLease[m].owner # <<p, c>>
    BY <1>1, <2>1, <2>2, <2>4, OwnerKept, OwnerAlive
  <2>5. QED
    BY <2>1, <2>3, <2>4 DEF LeaseOwned, Active
<1>7. ASSUME NEW p \in Procs, NEW c \in Clients, RenewLeases(p, c)
      PROVE  LeaseOwned'
  <2>1. /\ <<p, c>> \in Runs
        /\ \A r \in Runs : Kept(r)
        /\ swapLease' = Renewed(swapLease, <<p, c>>)
        /\ probeLease' = Renewed(probeLease, <<p, c>>)
    BY <1>7, RunIndex DEF RenewLeases, Active
  <2>2. /\ \A d \in Clients : swapLease'[d].owner = swapLease[d].owner
        /\ \A m \in Mobiles : probeLease'[m].owner = probeLease[m].owner
    BY <1>1, <2>1, RenewedOwner
  <2>3. QED
    BY <2>1, <2>2 DEF LeaseOwned, Active
<1>8. ASSUME NEW p \in Procs, Crash(p)
      PROVE  LeaseOwned'
  <2>1. \A r \in Runs : r \notin {p} \X Clients => Kept(r)
    BY <1>8 DEF Crash, TypeOK, Active, Runs
  <2>2. /\ swapLease' = Orphaned(swapLease, {p} \X Clients)
        /\ probeLease' = Orphaned(probeLease, {p} \X Clients)
    BY <1>8 DEF Crash
  <2>3. ASSUME NEW d \in Clients, swapLease'[d].owner \in Runs
        PROVE  /\ swapLease'[d].owner = swapLease[d].owner
               /\ swapLease[d].owner \notin {p} \X Clients
    BY <1>1, <2>2, <2>3, OwnerAlive
  <2>4. ASSUME NEW m \in Mobiles, probeLease'[m].owner \in Runs
        PROVE  /\ probeLease'[m].owner = probeLease[m].owner
               /\ probeLease[m].owner \notin {p} \X Clients
    BY <1>1, <2>2, <2>4, OwnerAlive
  <2>5. QED
    BY <2>1, <2>3, <2>4 DEF LeaseOwned, Active
<1>9. ASSUME \/ \E c \in Clients : SwapLeaseExpires(c)
             \/ \E m \in Mobiles : ProbeLeaseExpires(m)
      PROVE  LeaseOwned'
  <2>1. /\ pc' = pc
        /\ \A d \in Clients : swapLease'[d].owner = swapLease[d].owner
        /\ \A m \in Mobiles : probeLease'[m].owner = probeLease[m].owner
    BY <1>1, <1>9 DEF SwapLeaseExpires, ProbeLeaseExpires, Lease
  <2>2. QED
    BY <2>1 DEF LeaseOwned, Active
<1>10. ASSUME NEW p \in Procs, NEW c \in Clients, SetupStep(p, c)
       PROVE  LeaseOwned'
  <2>1. CASE ~(TakeProbeLease(p, c) \/ ProbeRejects(p, c) \/ Finish(p, c))
    <3>1. UNCHANGED <<swapLease, probeLease>> /\ \A r \in Runs : Kept(r)
      BY <1>10, <2>1, RunIndex
      DEF SetupStep, LoadClient, Scan, SkipCandidate, ProbeAccepts, NextStage,
          NoCandidate, Register, ConnectFails, SessionUpdateFails, CommitCutover,
          CommitAborts, CheckOwner, Penalise, RetireReplaced, ReturnReplaced,
          ReleaseReplaced, SkipReturn, ReturnFails, db, Goto, TypeOK, Active
    <3>2. QED
      BY <3>1, <1>2
  <2>2. QED
    BY <2>1, <1>4, <1>5, <1>6
<1>11. CASE \/ UNCHANGED vars
            \/ \E p \in Procs, c \in Clients : CooldownEnds(p, c)
            \/ \E p \in Procs : RefreshCache(p)
            \/ \E m \in Mobiles : ExpireElsewhere(m) \/ BecomesDue(m)
  <2>1. UNCHANGED <<swapLease, probeLease, pc>>
    BY <1>11 DEF CooldownEnds, RefreshCache, ExpireElsewhere, BecomesDue, vars, db
  <2>2. QED
    BY <2>1, <1>2
<1>12. QED
  BY <1>3, <1>7, <1>8, <1>9, <1>10, <1>11 DEF Next

\* A lease that is not free is either a running setup's own, or nobody's but the
\* clock's: nothing else can keep a client from its next swap.
THEOREM LeasesOwned == Spec => []LeaseOwned
<1>1. Init => LeaseOwned
  BY NoneAssumption DEF Init, LeaseOwned, NoLease, Runs
<1>2. AssignmentInv => TypeOK
  BY DEF AssignmentInv
<1>3. QED
  BY <1>1, <1>2, AssignmentInit, AssignmentStep, LeaseOwnedStep, PTL DEF Spec

-----------------------------------------------------------------------------
(* Every step of a run brings it nearer to its end. *)

LEMMA SelectionAdvance ==
    ASSUME TypeOK, NEW p \in Procs, NEW c \in Clients,
           pc[<<p, c>>] \in {"scan", "choose", "probe"}, SetupStep(p, c)
    PROVE  \/ pc'[<<p, c>>] \in {"picked", "finish"}
           \/ /\ pc'[<<p, c>>] \in {"scan", "choose", "probe"}
              /\ SelectionAdvances(<<p, c>>)
<1> DEFINE r == <<p, c>>
<1>1. r \in Runs /\ run[r] \in Run /\ run \in [Runs -> Run] /\ pc \in [Runs -> States]
  BY RunIndex DEF TypeOK
<1>2. CASE Scan(p, c)
  <2>1. PICK C \in Scans(p, c) : Put(r, [run[r] EXCEPT !.cands = C])
    BY <1>2 DEF Scan
  <2>2. run'[r].stage = run[r].stage
    BY <1>1, <2>1 DEF Put, Run
  <2>3. pc[r] = "scan" /\ pc'[r] = "choose"
    BY <1>1, <1>2 DEF Scan, Goto
  <2>4. QED
    BY <2>2, <2>3 DEF SelectionAdvances
<1>3. CASE TakeProbeLease(p, c)
  <2>1. PICK cand \in run[r].cands :
           Put(r, [run[r] EXCEPT !.cands = @ \ {cand}, !.pick = cand[1], !.from = cand[2]])
    BY <1>3 DEF TakeProbeLease
  <2>2. run'[r].stage = run[r].stage /\ run'[r].cands = run[r].cands \ {cand}
    BY <1>1, <2>1 DEF Put, Run
  <2>3. pc[r] = "choose" /\ pc'[r] = "probe"
    BY <1>1, <1>3 DEF TakeProbeLease, Goto
  <2>4. QED
    BY <2>1, <2>2, <2>3 DEF SelectionAdvances
<1>4. CASE SkipCandidate(p, c)
  <2>1. PICK cand \in run[r].cands, leased \in BOOLEAN :
           Put(r, [run[r] EXCEPT !.cands = @ \ {cand}, !.pending = @ \/ leased])
    BY <1>4 DEF SkipCandidate
  <2>2. run'[r].stage = run[r].stage /\ run'[r].cands = run[r].cands \ {cand}
    BY <1>1, <2>1 DEF Put, Run
  <2>3. pc[r] = "choose" /\ pc'[r] = "choose"
    BY <1>1, <1>4 DEF SkipCandidate
  <2>4. QED
    BY <2>1, <2>2, <2>3 DEF SelectionAdvances
<1>5. CASE ProbeRejects(p, c)
  <2>1. PICK unprobed \in BOOLEAN :
           Put(r, [run[r] EXCEPT !.pick = NoMobile, !.from = NoClient,
                                 !.pending = @ \/ unprobed])
    BY <1>5 DEF ProbeRejects
  <2>2. run'[r].stage = run[r].stage /\ run'[r].cands = run[r].cands
    BY <1>1, <2>1 DEF Put, Run
  <2>3. pc[r] = "probe" /\ pc'[r] = "choose"
    BY <1>1, <1>5 DEF ProbeRejects, Goto
  <2>4. QED
    BY <2>2, <2>3 DEF SelectionAdvances
<1>6. CASE NextStage(p, c)
  <2>1. PICK s \in NextStages(r) : Put(r, [run[r] EXCEPT !.stage = s])
    BY <1>6 DEF NextStage
  <2>2. run'[r].stage = s
    BY <1>1, <2>1 DEF Put, Run
  <2>3. Tier[s] > Tier[run[r].stage]
    BY <1>1, <2>1 DEF NextStages, Stages, Tier, Run
  <2>4. pc'[r] = "scan"
    BY <1>1, <1>6 DEF NextStage, Goto
  <2>5. QED
    BY <2>2, <2>3, <2>4 DEF SelectionAdvances
<1>7. CASE ProbeAccepts(p, c) \/ NoCandidate(p, c)
  BY <1>1, <1>7 DEF ProbeAccepts, NoCandidate, Goto
<1>8. QED
  BY <1>2, <1>3, <1>4, <1>5, <1>6, <1>7
  DEF SetupStep, LoadClient, Register, ConnectFails, SessionUpdateFails,
      CommitCutover, CommitAborts, CheckOwner, Penalise, RetireReplaced,
      ReturnReplaced, ReleaseReplaced, SkipReturn, ReturnFails, Finish

LEMMA RunAdvance ==
    ASSUME TypeOK, NEW p \in Procs, NEW c \in Clients, Active(<<p, c>>),
           SetupStep(p, c) \/ \E k \in Kinds : StartSetup(p, c, k)
    PROVE  \/ Place[pc'[<<p, c>>]] > Place[pc[<<p, c>>]]
           \/ /\ Place[pc'[<<p, c>>]] = Place[pc[<<p, c>>]]
              /\ SelectionAdvances(<<p, c>>)
<1>1. <<p, c>> \in Runs /\ pc \in [Runs -> States]
  BY RunIndex DEF TypeOK
<1>2. SetupStep(p, c)
  BY DEF StartSetup, Active
<1>3. CASE pc[<<p, c>>] \in {"scan", "choose", "probe"}
  BY <1>2, <1>3, SelectionAdvance DEF Place
<1>4. CASE pc[<<p, c>>] \notin {"scan", "choose", "probe"}
  <2>1. \/ pc[<<p, c>>] = "leased" /\ pc'[<<p, c>>] = "scan"
        \/ pc[<<p, c>>] = "picked" /\ pc'[<<p, c>>] \in {"cutover", "finish"}
        \/ pc[<<p, c>>] = "cutover" /\ pc'[<<p, c>>] \in {"replaced", "failing"}
        \/ pc[<<p, c>>] = "replaced" /\ pc'[<<p, c>>] \in {"failing", "finish"}
        \/ pc[<<p, c>>] = "failing" /\ pc'[<<p, c>>] \in {"penalise", "finish"}
        \/ pc[<<p, c>>] = "penalise" /\ pc'[<<p, c>>] = "finish"
        \/ pc[<<p, c>>] = "finish" /\ pc'[<<p, c>>] = "idle"
    BY <1>1, <1>2, <1>4
    DEF SetupStep, LoadClient, Scan, TakeProbeLease, SkipCandidate, ProbeRejects,
        ProbeAccepts, NextStage, NoCandidate, Register, ConnectFails,
        SessionUpdateFails, CommitCutover, CommitAborts, CheckOwner, Penalise,
        RetireReplaced, ReturnReplaced, ReleaseReplaced, SkipReturn, ReturnFails,
        Finish, Goto
  <2>2. QED
    BY <2>1 DEF Place
<1>5. QED
  BY <1>3, <1>4

\* A run only moves forward, down to its last candidate: with finitely many
\* accounts and no step that waits for ever, it ends.
THEOREM SetupsAdvance == Spec => SetupAdvances
<1>1. ASSUME AssignmentInv, [Next]_vars
      PROVE  \A r \in Runs :
                Active(r) /\ (pc'[r] # pc[r] \/ run'[r] # run[r]) =>
                    \/ Place[pc'[r]] > Place[pc[r]]
                    \/ Place[pc'[r]] = Place[pc[r]] /\ SelectionAdvances(r)
  <2> SUFFICES ASSUME NEW r \in Runs, Active(r), pc'[r] # pc[r] \/ run'[r] # run[r]
               PROVE  \/ Place[pc'[r]] > Place[pc[r]]
                      \/ Place[pc'[r]] = Place[pc[r]] /\ SelectionAdvances(r)
      OBVIOUS
  <2>1. TypeOK
    BY <1>1 DEF AssignmentInv
  <2>2. ASSUME NEW p \in Procs, NEW c \in Clients,
               SetupStep(p, c) \/ \E k \in Kinds : StartSetup(p, c, k)
        PROVE  \/ Place[pc'[r]] > Place[pc[r]]
               \/ Place[pc'[r]] = Place[pc[r]] /\ SelectionAdvances(r)
    <3>1. r = <<p, c>>
      BY <2>1, <2>2, RunFrame
    <3>2. QED
      BY <2>1, <2>2, <3>1, RunAdvance
  <2>3. CASE pc'[r] = "idle"
    BY <2>1, <2>3 DEF TypeOK, States, Active, Place
  <2>4. QED
    BY <1>1, <2>1, <2>2, <2>3, EnvironmentFrame DEF Next
<1>2. QED
  BY <1>1, AssignmentInit, AssignmentStep, PTL DEF Spec, SetupAdvances

-----------------------------------------------------------------------------
(* Exclusion: what the leases give while their renewals get through. *)

LEMMA LeaseKept ==
    ASSUME NEW S, NEW leases \in [S -> Lease], NEW x \in S,
           NEW r \in Runs, NEW s \in Runs, NEW dead, leases[x] = HeldBy(r)
    PROVE  /\ s # r => Without(leases, s)[x] = HeldBy(r)
           /\ r \notin dead => Orphaned(leases, dead)[x] = HeldBy(r)
           /\ Renewed(leases, s)[x] = HeldBy(r)
<1>1. DOMAIN leases = S /\ leases[x].owner = r
  BY DEF HeldBy
<1>2. s # r => Without(leases, s)[x] = HeldBy(r)
  BY <1>1 DEF Without
<1>3. r \notin dead => Orphaned(leases, dead)[x] = HeldBy(r)
  BY <1>1 DEF Orphaned
<1>4. Renewed(leases, s)[x] = HeldBy(r)
  BY <1>1 DEF Renewed
<1>5. QED
  BY <1>2, <1>3, <1>4

LEMMA HeldStays ==
    ASSUME ~RenewalFails, NEW r \in Runs
    PROVE  ~Free(HeldBy(r)) /\ ~MayExpire(HeldBy(r))
<1>1. HeldBy(r).owner = r /\ HeldBy(r).live
  BY DEF HeldBy
<1>2. r # NoOwner /\ r # Gone
  BY NoneAssumption DEF Runs
<1>3. QED
  BY <1>1, <1>2 DEF Free, MayExpire

LEMMA SwapLeaseKept ==
    ASSUME ~RenewalFails, TypeOK, [Next]_vars, NEW s \in Runs, NEW c \in Clients,
           swapLease[c] = HeldBy(s), pc'[s] # "idle"
    PROVE  swapLease'[c] = HeldBy(s)
<1>1. swapLease \in [Clients -> Lease]
  BY DEF TypeOK
<1>2. ASSUME NEW p \in Procs, NEW d \in Clients, \E k \in Kinds : StartSetup(p, d, k)
      PROVE  swapLease'[c] = HeldBy(s)
  <2>1. d # c
    BY <1>2, HeldStays DEF StartSetup
  <2>2. QED
    BY <1>1, <1>2, <2>1 DEF StartSetup
<1>3. ASSUME NEW p \in Procs, NEW d \in Clients, Finish(p, d)
      PROVE  swapLease'[c] = HeldBy(s)
  <2>1. <<p, d>> \in Runs /\ pc'[<<p, d>>] = "idle"
    BY <1>3, RunIndex DEF Finish, Goto, TypeOK
  <2>2. QED
    BY <1>1, <1>3, <2>1, LeaseKept DEF Finish
<1>4. ASSUME NEW p \in Procs, NEW d \in Clients, RenewLeases(p, d)
      PROVE  swapLease'[c] = HeldBy(s)
  <2>1. <<p, d>> \in Runs /\ swapLease' = Renewed(swapLease, <<p, d>>)
    BY <1>4, RunIndex DEF RenewLeases
  <2>2. QED
    BY <1>1, <2>1, LeaseKept
<1>5. ASSUME NEW d \in Clients, SwapLeaseExpires(d)
      PROVE  swapLease'[c] = HeldBy(s)
  <2>1. d # c
    BY <1>5, HeldStays DEF SwapLeaseExpires
  <2>2. QED
    BY <1>1, <1>5, <2>1 DEF SwapLeaseExpires
<1>6. ASSUME NEW p \in Procs, Crash(p)
      PROVE  swapLease'[c] = HeldBy(s)
  <2>1. s \notin {p} \X Clients
    BY <1>6 DEF Crash, Runs
  <2>2. QED
    BY <1>1, <1>6, <2>1, LeaseKept DEF Crash
<1>7. ASSUME NEW p \in Procs, NEW d \in Clients, SetupStep(p, d)
      PROVE  swapLease'[c] = HeldBy(s)
  BY <1>3, <1>7
  DEF SetupStep, LoadClient, Scan, TakeProbeLease, SkipCandidate,
      ProbeRejects, ProbeAccepts, NextStage, NoCandidate, Register, ConnectFails,
      SessionUpdateFails, CommitCutover, CommitAborts, CheckOwner, Penalise,
      RetireReplaced, ReturnReplaced, ReleaseReplaced, SkipReturn, ReturnFails, db
<1>8. CASE \/ UNCHANGED vars
           \/ \E p \in Procs, d \in Clients : CooldownEnds(p, d)
           \/ \E p \in Procs : RefreshCache(p)
           \/ \E m \in Mobiles : ProbeLeaseExpires(m) \/ ExpireElsewhere(m) \/ BecomesDue(m)
  BY <1>8
  DEF CooldownEnds, RefreshCache, ProbeLeaseExpires, ExpireElsewhere, BecomesDue, vars, db
<1>9. QED
  BY <1>2, <1>4, <1>5, <1>6, <1>7, <1>8 DEF Next

LEMMA ProbeLeaseKept ==
    ASSUME ~RenewalFails, TypeOK, [Next]_vars, NEW s \in Runs, NEW m \in Mobiles,
           probeLease[m] = HeldBy(s), pc[s] \in InHand, pc'[s] \in InHand
    PROVE  probeLease'[m] = HeldBy(s)
<1>1. probeLease \in [Mobiles -> Lease]
  BY DEF TypeOK
<1>2. ASSUME NEW p \in Procs, NEW d \in Clients, TakeProbeLease(p, d)
      PROVE  probeLease'[m] = HeldBy(s)
  <2>1. PICK cand \in run[<<p, d>>].cands :
           /\ ProbeFree(cand[1], <<p, d>>)
           /\ probeLease' = [probeLease EXCEPT ![cand[1]] = HeldBy(<<p, d>>)]
    BY <1>2 DEF TakeProbeLease
  <2>2. CASE cand[1] = m
    <3>1. s = <<p, d>>
      BY <2>1, <2>2, HeldStays DEF ProbeFree, HeldBy
    <3>2. QED
      BY <1>1, <2>1, <2>2, <3>1
  <2>3. CASE cand[1] # m
    BY <1>1, <2>1, <2>3
  <2>4. QED
    BY <2>2, <2>3
<1>3. ASSUME NEW p \in Procs, NEW d \in Clients, ProbeRejects(p, d)
      PROVE  probeLease'[m] = HeldBy(s)
  <2>1. s # <<p, d>>
    BY <1>3, RunIndex DEF ProbeRejects, Goto, TypeOK, InHand
  <2>2. probeLease[m].owner # <<p, d>>
    BY <2>1 DEF HeldBy
  <2>3. QED
    BY <1>1, <1>3, <2>2 DEF ProbeRejects
<1>4. ASSUME NEW p \in Procs, NEW d \in Clients, Finish(p, d)
      PROVE  probeLease'[m] = HeldBy(s)
  <2>1. <<p, d>> \in Runs /\ pc'[<<p, d>>] = "idle"
    BY <1>4, RunIndex DEF Finish, Goto, TypeOK
  <2>2. s # <<p, d>>
    BY <2>1 DEF InHand
  <2>3. QED
    BY <1>1, <1>4, <2>1, <2>2, LeaseKept DEF Finish
<1>5. ASSUME NEW p \in Procs, NEW d \in Clients, RenewLeases(p, d)
      PROVE  probeLease'[m] = HeldBy(s)
  <2>1. <<p, d>> \in Runs /\ probeLease' = Renewed(probeLease, <<p, d>>)
    BY <1>5, RunIndex DEF RenewLeases
  <2>2. QED
    BY <1>1, <2>1, LeaseKept
<1>6. ASSUME NEW n \in Mobiles, ProbeLeaseExpires(n)
      PROVE  probeLease'[m] = HeldBy(s)
  <2>1. n # m
    BY <1>6, HeldStays DEF ProbeLeaseExpires
  <2>2. QED
    BY <1>1, <1>6, <2>1 DEF ProbeLeaseExpires
<1>7. ASSUME NEW p \in Procs, Crash(p)
      PROVE  probeLease'[m] = HeldBy(s)
  <2>1. s \notin {p} \X Clients
    BY <1>7 DEF Crash, Runs, InHand
  <2>2. QED
    BY <1>1, <1>7, <2>1, LeaseKept DEF Crash
<1>8. ASSUME NEW p \in Procs, NEW d \in Clients,
             SetupStep(p, d) \/ \E k \in Kinds : StartSetup(p, d, k)
      PROVE  probeLease'[m] = HeldBy(s)
  BY <1>2, <1>3, <1>4, <1>8
  DEF SetupStep, StartSetup, LoadClient, Scan, SkipCandidate,
      ProbeAccepts, NextStage, NoCandidate, Register, ConnectFails,
      SessionUpdateFails, CommitCutover, CommitAborts, CheckOwner, Penalise,
      RetireReplaced, ReturnReplaced, ReleaseReplaced, SkipReturn, ReturnFails, db
<1>9. CASE \/ UNCHANGED vars
           \/ \E p \in Procs, d \in Clients : CooldownEnds(p, d)
           \/ \E p \in Procs : RefreshCache(p)
           \/ \E d \in Clients : SwapLeaseExpires(d)
           \/ \E n \in Mobiles : ExpireElsewhere(n) \/ BecomesDue(n)
  BY <1>9
  DEF CooldownEnds, RefreshCache, SwapLeaseExpires, ExpireElsewhere, BecomesDue, vars, db
<1>10. QED
  BY <1>5, <1>6, <1>7, <1>8, <1>9 DEF Next

\* An account in one run's hand is in no other's.
LEMMA OneHand ==
    ASSUME PickLeased, NEW r \in Runs, NEW s \in Runs,
           Picking(r), Picking(s), run[r].pick = run[s].pick
    PROVE  r = s
<1>1. HeldBy(r) = HeldBy(s)
  BY DEF PickLeased
<1>2. QED
  BY <1>1 DEF HeldBy

ExclusionInv == AssignmentInv /\ LeaseHeld /\ PickLeased /\ PenaltySafe

LEMMA ExclusionInit == Init => ExclusionInv
<1> SUFFICES ASSUME Init PROVE ExclusionInv
    OBVIOUS
<1>1. \A r \in Runs : pc[r] = "idle"
  BY DEF Init
<1>2. LeaseHeld /\ PickLeased /\ PenaltySafe
  BY <1>1, RunIndex DEF LeaseHeld, PickLeased, PenaltySafe, Active, Picking, InHand
<1>3. QED
  BY <1>2, AssignmentInit DEF ExclusionInv

LEMMA LeaseHeldStep ==
    ASSUME ~RenewalFails, ExclusionInv, [Next]_vars
    PROVE  LeaseHeld'
<1> USE DEF ExclusionInv, AssignmentInv
<1> SUFFICES ASSUME NEW p \in Procs, NEW c \in Clients, pc'[<<p, c>>] # "idle"
             PROVE  swapLease'[c] = HeldBy(<<p, c>>)
    BY DEF LeaseHeld, Active
<1>1. CASE pc[<<p, c>>] # "idle"
  BY <1>1, RunIndex, SwapLeaseKept DEF LeaseHeld, Active
<1>2. CASE pc[<<p, c>>] = "idle"
  <2>1. ASSUME NEW q \in Procs, NEW d \in Clients,
               SetupStep(q, d) \/ \E k \in Kinds : StartSetup(q, d, k)
        PROVE  <<q, d>> = <<p, c>>
    BY <1>2, <2>1, RunIndex, RunFrame
  <2>2. ~SetupStep(p, c)
    BY <1>2
    DEF SetupStep, LoadClient, Scan, TakeProbeLease, SkipCandidate,
        ProbeRejects, ProbeAccepts, NextStage, NoCandidate, Register, ConnectFails,
        SessionUpdateFails, CommitCutover, CommitAborts, CheckOwner, Penalise,
        RetireReplaced, ReturnReplaced, ReleaseReplaced, SkipReturn, ReturnFails, Finish
  <2>3. \E k \in Kinds : StartSetup(p, c, k)
    BY <1>2, <2>1, <2>2, RunIndex, EnvironmentFrame DEF Next
  <2>4. QED
    BY <2>3 DEF StartSetup, TypeOK
<1>3. QED
  BY <1>1, <1>2

LEMMA PickLeasedStep ==
    ASSUME ~RenewalFails, ExclusionInv, [Next]_vars
    PROVE  PickLeased'
<1> USE DEF ExclusionInv, AssignmentInv
<1> SUFFICES ASSUME NEW s \in Runs, pc'[s] \in InHand
             PROVE  probeLease'[run'[s].pick] = HeldBy(s)
    BY DEF PickLeased, Picking
<1>1. CASE pc[s] \in InHand /\ run'[s] = run[s]
  <2>1. run[s].pick \in Mobiles /\ probeLease[run[s].pick] = HeldBy(s)
    BY <1>1 DEF HasPick, PickLeased, Picking
  <2>2. QED
    BY <1>1, <2>1, ProbeLeaseKept
<1>2. ASSUME NEW p \in Procs, NEW c \in Clients,
             SetupStep(p, c) \/ \E k \in Kinds : StartSetup(p, c, k)
      PROVE  probeLease'[run'[s].pick] = HeldBy(s)
  <2>1. CASE s = <<p, c>>
    <3>1. \/ /\ run'[s].pick \in Mobiles
             /\ probeLease' = [probeLease EXCEPT ![run'[s].pick] = HeldBy(s)]
          \/ /\ pc[s] \in InHand
             /\ run'[s].pick = run[s].pick
             /\ UNCHANGED probeLease
      BY <1>2, <2>1, PickFrame
    <3>2. QED
      BY <3>1 DEF TypeOK, PickLeased, Picking
  <2>2. CASE s # <<p, c>>
    BY <1>1, <1>2, <2>2, RunFrame
  <2>3. QED
    BY <2>1, <2>2
<1>3. QED
  BY <1>1, <1>2, EnvironmentFrame DEF Next, InHand

LEMMA PenaltySafeStep ==
    ASSUME ~RenewalFails, ExclusionInv, [Next]_vars
    PROVE  PenaltySafe'
<1> USE DEF ExclusionInv, AssignmentInv
<1> SUFFICES ASSUME NEW s \in Runs, pc'[s] = "penalise"
             PROVE  ~IsLiveMain(run[s].pick)' /\ run'[s].pick = run[s].pick
    BY DEF PenaltySafe, IsLiveMain
<1>1. CASE pc[s] = "penalise" /\ run'[s] = run[s]
  <2>1. ASSUME NEW p \in Procs, NEW c \in Clients, CommitCutover(p, c)
        PROVE  \A d \in Clients : main'[d] # run[s].pick
    <3>1. <<p, c>> \in Runs /\ pc[<<p, c>>] = "cutover"
      BY <2>1, RunIndex DEF CommitCutover
    <3>2. run[<<p, c>>].pick # run[s].pick
      BY <1>1, <3>1, OneHand DEF Picking, InHand
    <3>3. \A d \in Clients : main[d] # run[s].pick
      BY <1>1 DEF PenaltySafe, IsLiveMain
    <3>4. QED
      BY <2>1, <3>2, <3>3 DEF CommitCutover, TypeOK
  <2>2. CASE UNCHANGED main
    BY <1>1, <2>2 DEF PenaltySafe, IsLiveMain
  <2>3. QED
    BY <1>1, <2>1, <2>2, MainFrame DEF IsLiveMain
<1>2. ASSUME NEW p \in Procs, NEW c \in Clients,
             SetupStep(p, c) \/ \E k \in Kinds : StartSetup(p, c, k)
      PROVE  ~IsLiveMain(run[s].pick)' /\ run'[s].pick = run[s].pick
  <2>1. CASE s = <<p, c>>
    <3>1. CheckOwner(p, c) /\ ~IsLiveMain(run[s].pick)
      BY <1>2, <2>1
      DEF SetupStep, StartSetup, LoadClient, Scan, TakeProbeLease, SkipCandidate,
          ProbeRejects, ProbeAccepts, NextStage, NoCandidate, Register, ConnectFails,
          SessionUpdateFails, CommitCutover, CommitAborts, CheckOwner, Penalise,
          RetireReplaced, ReturnReplaced, ReleaseReplaced, SkipReturn, ReturnFails,
          Finish, Goto, TypeOK
    <3>2. QED
      BY <3>1 DEF CheckOwner, IsLiveMain, db
  <2>2. CASE s # <<p, c>>
    BY <1>1, <1>2, <2>2, RunFrame
  <2>3. QED
    BY <2>1, <2>2
<1>3. QED
  BY <1>1, <1>2, EnvironmentFrame DEF Next

LEMMA ExclusionStep ==
    ASSUME ~RenewalFails
    PROVE  ExclusionInv /\ [Next]_vars => ExclusionInv'
BY AssignmentStep, LeaseHeldStep, PickLeasedStep, PenaltySafeStep DEF ExclusionInv

LEMMA Exclusion ==
    ASSUME ~RenewalFails
    PROVE  Spec => []ExclusionInv
<1>1. ExclusionInv /\ [Next]_vars => ExclusionInv'
  BY ExclusionStep
<1>2. QED
  BY <1>1, ExclusionInit, PTL DEF Spec

\* While renewals get through, one client is never set up twice at once, in one
\* process or in two: the lease of a live run is not free to anybody else.
THEOREM SetupExclusion ==
    ASSUME ~RenewalFails
    PROVE  Spec => []LeaseMutex
<1>1. ExclusionInv => LeaseMutex
  <2> SUFFICES ASSUME LeaseHeld, NEW p \in Procs, NEW q \in Procs, NEW c \in Clients,
                      Active(<<p, c>>), Active(<<q, c>>)
               PROVE  p = q
      BY DEF ExclusionInv, LeaseMutex
  <2>1. HeldBy(<<p, c>>) = HeldBy(<<q, c>>)
    BY DEF LeaseHeld
  <2>2. QED
    BY <2>1 DEF HeldBy
<1>2. QED
  BY <1>1, Exclusion, PTL

\* While renewals get through, no account is probed, connected or committed by
\* two runs at once, of whatever clients and in whatever processes.
THEOREM CandidateExclusion ==
    ASSUME ~RenewalFails
    PROVE  Spec => []PickExclusive
<1>1. ExclusionInv => PickExclusive
  BY OneHand DEF ExclusionInv, PickExclusive
<1>2. QED
  BY <1>1, Exclusion, PTL

\* The check that nobody runs on a failed account is still true when the account
\* is expired or pushed out one step later: its lease keeps every cutover off it.
THEOREM PenaltySafety ==
    ASSUME ~RenewalFails
    PROVE  Spec => PenaltySparesMain
<1>1. ASSUME ExclusionInv, [Next]_vars
      PROVE  \A r \in Runs :
                pc[r] = "penalise" /\ pc'[r] # "penalise" =>
                    \A c \in Clients : row'[main[c]] = row[main[c]]
  <2> USE DEF ExclusionInv, AssignmentInv
  <2> SUFFICES ASSUME NEW r \in Runs, pc[r] = "penalise", pc'[r] # "penalise",
                      NEW c \in Clients
               PROVE  row'[main[c]] = row[main[c]]
      OBVIOUS
  <2>1. run[r].pick # main[c]
    BY <1>1 DEF PenaltySafe, IsLiveMain
  <2>2. ASSUME NEW p \in Procs, NEW d \in Clients,
               SetupStep(p, d) \/ \E k \in Kinds : StartSetup(p, d, k)
        PROVE  row'[main[c]] = row[main[c]]
    <3>1. r = <<p, d>>
      BY <1>1, <2>2, RunFrame
    <3>2. Penalise(p, d)
      BY <2>2, <3>1
      DEF SetupStep, StartSetup, LoadClient, Scan, TakeProbeLease, SkipCandidate,
          ProbeRejects, ProbeAccepts, NextStage, NoCandidate, Register, ConnectFails,
          SessionUpdateFails, CommitCutover, CommitAborts, CheckOwner, RetireReplaced,
          ReturnReplaced, ReleaseReplaced, SkipReturn, ReturnFails, Finish
    <3>3. QED
      BY <1>1, <2>1, <3>1, <3>2 DEF Penalise, Expired, TypeOK
  <2>3. ASSUME NEW p \in Procs, Crash(p)
        PROVE  row'[main[c]] = row[main[c]]
    BY <2>3 DEF Crash
  <2>4. CASE UNCHANGED pc
    BY <2>4
  <2>5. QED
    BY <1>1, <2>2, <2>3, <2>4
    DEF Next, RenewLeases, CooldownEnds, RefreshCache, SwapLeaseExpires,
        ProbeLeaseExpires, ExpireElsewhere, BecomesDue, vars
<1>2. QED
  BY <1>1, Exclusion, PTL DEF Spec, PenaltySparesMain

-----------------------------------------------------------------------------
(* Where no client may borrow from another, every account stays with the     *)
(* client it started with, and a run only has accounts of its own client in  *)
(* hand: never the one it replaces, and not its main before it has committed. *)

NoSiblings == \A c \in Clients : Siblings(c) = {}

Loaded == States \ {"idle", "leased"}

HomeRows   == \A m \in Mobiles : row[m].client = InitOwner[m]
HomeMains  == \A c \in Clients : InitOwner[main[c]] = c
HomeCaches == \A p \in Procs, c \in Clients : InitOwner[cache[p][c]] = c

OldHome(p, c) ==
    pc[<<p, c>>] \in Loaded =>
        run[<<p, c>>].old \in Mobiles /\ InitOwner[run[<<p, c>>].old] = c

OldBusy(p, c) ==
    pc[<<p, c>>] \in {"scan", "choose", "probe"} => run[<<p, c>>].old \in run[<<p, c>>].busy

OwnCands(p, c) ==
    pc[<<p, c>>] \in {"choose", "probe"} =>
        \A x \in run[<<p, c>>].cands :
            InitOwner[x[1]] = c /\ x[1] # run[<<p, c>>].old /\ x[1] # main[c]

OwnPick(p, c) ==
    pc[<<p, c>>] \in InHand =>
        InitOwner[run[<<p, c>>].pick] = c /\ run[<<p, c>>].pick # run[<<p, c>>].old

FreshPick(p, c) ==
    pc[<<p, c>>] \in {"probe", "picked", "cutover"} => run[<<p, c>>].pick # main[c]

MovedMain(p, c) == pc[<<p, c>>] = "replaced" => main[c] = run[<<p, c>>].pick

RunHome(p, c) ==
    /\ OldHome(p, c)
    /\ OldBusy(p, c)
    /\ OwnCands(p, c)
    /\ OwnPick(p, c)
    /\ FreshPick(p, c)
    /\ MovedMain(p, c)

HomeInv ==
    /\ ExclusionInv
    /\ HomeRows
    /\ HomeMains
    /\ HomeCaches
    /\ \A p \in Procs, c \in Clients : RunHome(p, c)
    /\ MainHeld

LEMMA HomeInit == Init => HomeInv
<1> SUFFICES ASSUME Init PROVE HomeInv
    OBVIOUS
<1>1. HomeRows /\ HomeMains /\ HomeCaches
  BY MainAssumption DEF Init, HomeRows, HomeMains, HomeCaches
<1>2. ASSUME NEW p \in Procs, NEW c \in Clients
      PROVE  RunHome(p, c)
  <2>1. pc[<<p, c>>] = "idle"
    BY RunIndex DEF Init
  <2>2. QED
    BY <2>1 DEF RunHome, OldHome, OldBusy, OwnCands, OwnPick, FreshPick, MovedMain,
                Loaded, InHand
<1>3. MainHeld
  BY MainAssumption DEF Init, MainHeld
<1>4. QED
  BY <1>1, <1>2, <1>3, ExclusionInit DEF HomeInv

\* Without siblings every scan returns spares of the client itself.
LEMMA ScansOwn ==
    ASSUME NEW p \in Procs, NEW c \in Clients, Siblings(c) = {},
           run[<<p, c>>].stage \in Stages,
           NEW C \in Scans(p, c), NEW x \in C
    PROVE  x[1] \in Spares(c, run[<<p, c>>].busy)
<1> DEFINE own == Spares(c, run[<<p, c>>].busy)
<1>1. CASE run[<<p, c>>].stage = "sibling"
  <2>1. C \in Tryable(p, c)
    BY <1>1 DEF Scans
  <2>2. C \subseteq Mobiles \X Siblings(c)
    BY <2>1 DEF Tryable
  <2>3. QED
    BY <2>2
<1>2. CASE run[<<p, c>>].stage # "sibling"
  <2>1. \/ C = {m \in own : row[m].due} \X {c}
        \/ C = {m \in own : ~row[m].due} \X {c}
        \/ C = own \X {c}
    BY <1>2 DEF Scans, Stages
  <2>2. C \subseteq own \X {c}
    BY <2>1
  <2>3. QED
    BY <2>2
<1>3. QED
  BY <1>1, <1>2

\* A spare is neither busy nor the client's main, which is reserved or inactive.
LEMMA SparesFree ==
    ASSUME HomeInv, NEW c \in Clients, NEW busy, NEW m \in Spares(c, busy)
    PROVE  m \in Mobiles /\ InitOwner[m] = c /\ m \notin busy /\ m # main[c]
BY DEF HomeInv, HomeRows, Spares, MainHeld

\* The main of a client moves under no active run but the one that moves it.
LEMMA MainStays ==
    ASSUME HomeInv, [Next]_vars, NEW p \in Procs, NEW c \in Clients,
           pc[<<p, c>>] # "idle", ~CommitCutover(p, c)
    PROVE  main'[c] = main[c]
<1>1. ASSUME NEW q \in Procs, NEW d \in Clients, CommitCutover(q, d)
      PROVE  main'[c] = main[c]
  <2>1. d # c
    <3> SUFFICES ASSUME d = c PROVE FALSE
        OBVIOUS
    <3>1. pc[<<q, c>>] # "idle"
      BY <1>1 DEF CommitCutover
    <3>2. HeldBy(<<p, c>>) = HeldBy(<<q, c>>)
      BY <3>1 DEF HomeInv, ExclusionInv, LeaseHeld, Active
    <3>3. p = q
      BY <3>2 DEF HeldBy
    <3>4. QED
      BY <1>1, <3>3
  <2>2. QED
    BY <1>1, <2>1 DEF CommitCutover, HomeInv, ExclusionInv, AssignmentInv, TypeOK
<1>2. QED
  BY <1>1, MainFrame

\* From the lease to the last candidate: what a run looks at is its client's.
LEMMA SelectionHome ==
    ASSUME NoSiblings, HomeInv, NEW p \in Procs, NEW c \in Clients,
           \/ \E k \in Kinds : StartSetup(p, c, k)
           \/ LoadClient(p, c)
           \/ Scan(p, c)
           \/ TakeProbeLease(p, c)
           \/ SkipCandidate(p, c)
    PROVE  RunHome(p, c)'
<1> DEFINE r == <<p, c>>
<1> USE DEF OldHome, OldBusy, OwnCands, OwnPick, FreshPick, MovedMain, RunHome, Loaded, InHand
<1>1. /\ r \in Runs /\ run[r] \in Run
      /\ pc \in [Runs -> States] /\ run \in [Runs -> Run]
      /\ RunHome(p, c)
  BY RunIndex DEF HomeInv, ExclusionInv, AssignmentInv, TypeOK
<1>2. CASE \E k \in Kinds : StartSetup(p, c, k)
  BY <1>1, <1>2 DEF StartSetup, Goto
<1>3. CASE LoadClient(p, c)
  <2>1. pc'[r] = "scan" /\ run'[r].old = cache[p][c] /\ run'[r].busy = Busy(p)
    BY <1>1, <1>3 DEF LoadClient, Goto, Put, Run
  <2>2. cache[p][c] \in Mobiles /\ InitOwner[cache[p][c]] = c /\ cache[p][c] \in Busy(p)
    BY DEF HomeInv, HomeCaches, ExclusionInv, AssignmentInv, TypeOK, Busy
  <2>3. QED
    BY <2>1, <2>2
<1>4. CASE Scan(p, c)
  <2>1. PICK C \in Scans(p, c) : Put(r, [run[r] EXCEPT !.cands = C])
    BY <1>4 DEF Scan
  <2>2. /\ pc[r] = "scan" /\ pc'[r] = "choose" /\ UNCHANGED main
        /\ run'[r].old = run[r].old /\ run'[r].busy = run[r].busy /\ run'[r].cands = C
    BY <1>1, <1>4, <2>1 DEF Scan, Goto, Put, Run, db
  <2>3. ASSUME NEW x \in C
        PROVE  InitOwner[x[1]] = c /\ x[1] # run[r].old /\ x[1] # main[c]
    <3>1. Siblings(c) = {} /\ run[r].stage \in Stages
      BY <1>1 DEF NoSiblings, Run
    <3>2. x[1] \in Spares(c, run[r].busy)
      BY <3>1, ScansOwn
    <3>3. InitOwner[x[1]] = c /\ x[1] \notin run[r].busy /\ x[1] # main[c]
      BY <3>2, SparesFree
    <3>4. QED
      BY <1>1, <2>2, <3>3
  <2>4. QED
    BY <1>1, <2>2, <2>3
<1>5. CASE TakeProbeLease(p, c)
  <2>1. PICK cand \in run[r].cands :
           Put(r, [run[r] EXCEPT !.cands = @ \ {cand}, !.pick = cand[1], !.from = cand[2]])
    BY <1>5 DEF TakeProbeLease
  <2>2. /\ pc[r] = "choose" /\ pc'[r] = "probe" /\ UNCHANGED main
        /\ run'[r].old = run[r].old /\ run'[r].busy = run[r].busy
        /\ run'[r].cands = run[r].cands \ {cand} /\ run'[r].pick = cand[1]
    BY <1>1, <1>5, <2>1 DEF TakeProbeLease, Goto, Put, Run
  <2>3. QED
    BY <1>1, <2>2
<1>6. CASE SkipCandidate(p, c)
  <2>1. PICK cand \in run[r].cands, leased \in BOOLEAN :
           Put(r, [run[r] EXCEPT !.cands = @ \ {cand}, !.pending = @ \/ leased])
    BY <1>6 DEF SkipCandidate
  <2>2. /\ pc[r] = "choose" /\ pc'[r] = "choose" /\ UNCHANGED main
        /\ run'[r].old = run[r].old /\ run'[r].busy = run[r].busy
        /\ run'[r].cands = run[r].cands \ {cand}
    BY <1>1, <1>6, <2>1 DEF SkipCandidate, Put, Run, db
  <2>3. QED
    BY <1>1, <2>2
<1>7. QED
  BY <1>2, <1>3, <1>4, <1>5, <1>6

\* From the probe to the registration.
LEMMA ProbeHome ==
    ASSUME HomeInv, NEW p \in Procs, NEW c \in Clients,
           \/ ProbeRejects(p, c)
           \/ ProbeAccepts(p, c)
           \/ NextStage(p, c)
           \/ NoCandidate(p, c)
           \/ Register(p, c)
    PROVE  RunHome(p, c)'
<1> DEFINE r == <<p, c>>
<1> USE DEF OldHome, OldBusy, OwnCands, OwnPick, FreshPick, MovedMain, RunHome, Loaded, InHand
<1>1. /\ r \in Runs /\ run[r] \in Run
      /\ pc \in [Runs -> States] /\ run \in [Runs -> Run]
      /\ RunHome(p, c)
  BY RunIndex DEF HomeInv, ExclusionInv, AssignmentInv, TypeOK
<1>2. CASE ProbeRejects(p, c)
  <2>1. PICK unprobed \in BOOLEAN :
           Put(r, [run[r] EXCEPT !.pick = NoMobile, !.from = NoClient, !.pending = @ \/ unprobed])
    BY <1>2 DEF ProbeRejects
  <2>2. /\ pc[r] = "probe" /\ pc'[r] = "choose" /\ UNCHANGED main
        /\ run'[r].old = run[r].old /\ run'[r].busy = run[r].busy
        /\ run'[r].cands = run[r].cands
    BY <1>1, <1>2, <2>1 DEF ProbeRejects, Goto, Put, Run
  <2>3. QED
    BY <1>1, <2>2
<1>3. CASE ProbeAccepts(p, c)
  <2>1. /\ pc[r] = "probe" /\ pc'[r] = "picked" /\ UNCHANGED main
        /\ run'[r].old = run[r].old /\ run'[r].pick = run[r].pick
    BY <1>1, <1>3 DEF ProbeAccepts, Goto, Put, Run
  <2>2. QED
    BY <1>1, <2>1
<1>4. CASE NextStage(p, c)
  <2>1. PICK s \in NextStages(r) : Put(r, [run[r] EXCEPT !.stage = s])
    BY <1>4 DEF NextStage
  <2>2. /\ pc[r] = "choose" /\ pc'[r] = "scan"
        /\ run'[r].old = run[r].old /\ run'[r].busy = run[r].busy
    BY <1>1, <1>4, <2>1 DEF NextStage, Goto, Put, Run
  <2>3. QED
    BY <1>1, <2>2
<1>5. CASE NoCandidate(p, c) \/ Register(p, c)
  <2>1. /\ pc[r] \in {"choose", "picked"} /\ pc'[r] \in {"finish", "cutover"}
        /\ pc'[r] = "cutover" => pc[r] = "picked"
        /\ UNCHANGED <<main, run>>
    BY <1>1, <1>5 DEF NoCandidate, Register, Goto, db
  <2>2. QED
    BY <1>1, <2>1
<1>6. QED
  BY <1>2, <1>3, <1>4, <1>5

\* The cutover and everything after it.
LEMMA CutoverHome ==
    ASSUME HomeInv, NEW p \in Procs, NEW c \in Clients,
           \/ ConnectFails(p, c)    \/ SessionUpdateFails(p, c)
           \/ CommitCutover(p, c)   \/ CommitAborts(p, c)
           \/ CheckOwner(p, c)      \/ Penalise(p, c)
           \/ RetireReplaced(p, c)  \/ ReturnReplaced(p, c)
           \/ ReleaseReplaced(p, c) \/ SkipReturn(p, c)
           \/ ReturnFails(p, c)     \/ Finish(p, c)
    PROVE  RunHome(p, c)'
<1> DEFINE r == <<p, c>>
<1> USE DEF OldHome, OldBusy, OwnCands, OwnPick, FreshPick, MovedMain, RunHome, Loaded, InHand
<1>1. /\ r \in Runs /\ run[r] \in Run
      /\ pc \in [Runs -> States] /\ run \in [Runs -> Run]
      /\ main \in [Clients -> Mobiles]
      /\ RunHome(p, c)
  BY RunIndex DEF HomeInv, ExclusionInv, AssignmentInv, TypeOK
<1>2. CASE ConnectFails(p, c) \/ SessionUpdateFails(p, c)
  <2>1. PICK perm \in BOOLEAN : Put(r, [run[r] EXCEPT !.perm = perm])
    BY <1>2 DEF ConnectFails, SessionUpdateFails
  <2>2. /\ pc[r] = "cutover" /\ pc'[r] = "failing"
        /\ run'[r].old = run[r].old /\ run'[r].pick = run[r].pick
    BY <1>1, <1>2, <2>1 DEF ConnectFails, SessionUpdateFails, Goto, Put, Run
  <2>3. QED
    BY <1>1, <2>2
<1>3. CASE CommitCutover(p, c)
  <2>1. /\ pc[r] = "cutover" /\ pc'[r] = "replaced" /\ UNCHANGED run
        /\ main'[c] = run[r].pick
    BY <1>1, <1>3 DEF CommitCutover, Goto
  <2>2. QED
    BY <1>1, <2>1
<1>4. CASE \/ CommitAborts(p, c)    \/ CheckOwner(p, c)
           \/ Penalise(p, c)        \/ RetireReplaced(p, c)
           \/ ReturnReplaced(p, c)  \/ ReleaseReplaced(p, c)
           \/ SkipReturn(p, c)      \/ ReturnFails(p, c)
  <2>1. /\ pc[r] \in {"cutover", "failing", "penalise", "replaced"}
        /\ pc'[r] \in {"failing", "penalise", "finish"}
        /\ UNCHANGED run
    BY <1>1, <1>4
    DEF CommitAborts, CheckOwner, Penalise, RetireReplaced, ReturnReplaced,
        ReleaseReplaced, SkipReturn, ReturnFails, Goto
  <2>2. QED
    BY <1>1, <2>1
<1>5. CASE Finish(p, c)
  BY <1>1, <1>5 DEF Finish, Goto
<1>6. QED
  BY <1>2, <1>3, <1>4, <1>5

LEMMA RunHomeStep ==
    ASSUME NoSiblings, HomeInv, [Next]_vars, NEW p \in Procs, NEW c \in Clients
    PROVE  RunHome(p, c)'
<1> DEFINE r == <<p, c>>
<1>1. r \in Runs /\ TypeOK /\ RunHome(p, c)
  BY RunIndex DEF HomeInv, ExclusionInv, AssignmentInv
<1>2. CASE SetupStep(p, c) \/ \E k \in Kinds : StartSetup(p, c, k)
  BY <1>2, SelectionHome, ProbeHome, CutoverHome DEF SetupStep
<1>3. CASE pc'[r] = "idle"
  BY <1>3 DEF RunHome, OldHome, OldBusy, OwnCands, OwnPick, FreshPick, MovedMain,
              Loaded, InHand
<1>4. CASE pc'[r] # "idle" /\ pc'[r] = pc[r] /\ run'[r] = run[r]
  <2>1. ~CommitCutover(p, c)
    BY <1>1, <1>4 DEF CommitCutover, Goto, TypeOK
  <2>2. main'[c] = main[c]
    BY <1>4, <2>1, MainStays
  <2>3. QED
    BY <1>1, <1>4, <2>2
    DEF RunHome, OldHome, OldBusy, OwnCands, OwnPick, FreshPick, MovedMain
<1>5. QED
  <2>1. ASSUME NEW q \in Procs, NEW d \in Clients,
               SetupStep(q, d) \/ \E k \in Kinds : StartSetup(q, d, k),
               <<q, d>> # r
        PROVE  pc'[r] = pc[r] /\ run'[r] = run[r]
    BY <1>1, <2>1, RunFrame
  <2>2. ASSUME NEW q \in Procs, NEW d \in Clients,
               SetupStep(q, d) \/ \E k \in Kinds : StartSetup(q, d, k)
        PROVE  RunHome(p, c)'
    BY <1>2, <1>3, <1>4, <2>1, <2>2
  <2>3. QED
    BY <1>1, <1>3, <1>4, <2>2, EnvironmentFrame DEF Next

\* The account a run has just replaced is its client's, and nobody runs on it.
LEMMA ReplacedIdle ==
    ASSUME HomeInv, NEW p \in Procs, NEW c \in Clients, pc[<<p, c>>] = "replaced"
    PROVE  /\ run[<<p, c>>].old \in Mobiles
           /\ row[run[<<p, c>>].old].client = c
           /\ ~IsLiveMain(run[<<p, c>>].old)
<1> DEFINE old == run[<<p, c>>].old
<1>1. RunHome(p, c)
  BY DEF HomeInv
<1>2. old \in Mobiles /\ InitOwner[old] = c
  BY <1>1 DEF RunHome, OldHome, Loaded, States
<1>3. main[c] # old
  BY <1>1 DEF RunHome, OwnPick, MovedMain, InHand
<1>4. \A d \in Clients : main[d] # old
  BY <1>2, <1>3 DEF HomeInv, HomeMains
<1>5. QED
  BY <1>2, <1>4 DEF HomeInv, HomeRows, IsLiveMain

\* A step other than a cutover moves no row to another client, and the row of a
\* main may become inactive but is neither revived nor released.
LEMMA RowKept ==
    ASSUME HomeInv, [Next]_vars, NEW m \in Mobiles,
           ~\E p \in Procs, c \in Clients : CommitCutover(p, c)
    PROVE  /\ row'[m].client = row[m].client
           /\ IsLiveMain(m) /\ row'[m].status = "active" =>
                 row[m].status = "active" /\ row'[m].inUse = row[m].inUse
<1> DEFINE Kept == /\ row'[m].client = row[m].client
                   /\ IsLiveMain(m) /\ row'[m].status = "active" =>
                         row[m].status = "active" /\ row'[m].inUse = row[m].inUse
<1>1. row \in [Mobiles -> Row]
  BY DEF HomeInv, ExclusionInv, AssignmentInv, TypeOK
<1>2. ASSUME NEW x, row' = Expired(row, x) PROVE Kept
  BY <1>1, <1>2 DEF Expired, Row
<1>3. ASSUME NEW x, NEW d \in BOOLEAN, row' = [row EXCEPT ![x].due = d] PROVE Kept
  BY <1>1, <1>3 DEF Row
<1>4. ASSUME NEW p \in Procs, NEW c \in Clients, pc[<<p, c>>] = "replaced",
             NEW v, v.client = c, row' = [row EXCEPT ![run[<<p, c>>].old] = v]
      PROVE  Kept
  BY <1>1, <1>4, ReplacedIdle
<1>5. ASSUME NEW p \in Procs, NEW c \in Clients,
             SetupStep(p, c) \/ \E k \in Kinds : StartSetup(p, c, k)
      PROVE  Kept
  <2> DEFINE old == run[<<p, c>>].old
  <2>1. CASE ProbeRejects(p, c) \/ ProbeAccepts(p, c)
    BY <2>1, <1>3 DEF ProbeRejects, ProbeAccepts
  <2>2. CASE NoCandidate(p, c) \/ RetireReplaced(p, c)
    BY <2>2, <1>2 DEF NoCandidate, RetireReplaced
  <2>3. CASE SessionUpdateFails(p, c) \/ Penalise(p, c)
    BY <2>3, <1>2, <1>3 DEF SessionUpdateFails, Penalise
  <2>4. CASE ReturnReplaced(p, c)
    <3>1. PICK s \in {"active", "inactive"}, d \in BOOLEAN :
             row' = [row EXCEPT ![old] =
                        [client |-> c, inUse |-> FALSE, status |-> s, due |-> d]]
      BY <2>4 DEF ReturnReplaced
    <3> DEFINE new == [client |-> c, inUse |-> FALSE, status |-> s, due |-> d]
    <3>2. row' = [row EXCEPT ![old] = new] /\ new.client = c
      BY <3>1
    <3>3. pc[<<p, c>>] = "replaced"
      BY <2>4 DEF ReturnReplaced
    <3> HIDE DEF new
    <3>4. QED
      BY <3>2, <3>3, <1>4
  <2>5. CASE ReleaseReplaced(p, c)
    <3>1. PICK d \in BOOLEAN :
             row' = [row EXCEPT ![old] =
                        [@ EXCEPT !.inUse = FALSE, !.status = "active", !.due = d]]
      BY <2>5 DEF ReleaseReplaced
    <3> DEFINE new == [row[old] EXCEPT !.inUse = FALSE, !.status = "active", !.due = d]
    <3>2. pc[<<p, c>>] = "replaced"
      BY <2>5 DEF ReleaseReplaced
    <3>3. row' = [row EXCEPT ![old] = new] /\ new.client = c
      BY <1>1, <3>1, <3>2, ReplacedIdle DEF Row
    <3> HIDE DEF new
    <3>4. QED
      BY <3>2, <3>3, <1>4
  <2>6. CASE SkipReturn(p, c)
    <3> DEFINE new == [row[old] EXCEPT !.inUse = FALSE, !.status = "inactive"]
    <3>1. /\ pc[<<p, c>>] = "replaced"
          /\ row' = [row EXCEPT ![old] = [@ EXCEPT !.inUse = FALSE, !.status = "inactive"]]
      BY <2>6 DEF SkipReturn
    <3>2. row' = [row EXCEPT ![old] = new] /\ new.client = c
      BY <1>1, <3>1, ReplacedIdle DEF Row
    <3> HIDE DEF new
    <3>3. QED
      BY ZenonT(60), <3>1, <3>2, <1>4
  <2>7. CASE UNCHANGED row
    BY <2>7
  <2>8. QED
    BY <1>5, <2>1, <2>2, <2>3, <2>4, <2>5, <2>6, <2>7
    DEF SetupStep, StartSetup, LoadClient, Scan, TakeProbeLease, SkipCandidate,
        NextStage, Register, ConnectFails, CommitAborts, CheckOwner, ReturnFails,
        Finish, db
<1>6. CASE \/ UNCHANGED vars
           \/ \E p \in Procs, c \in Clients : RenewLeases(p, c) \/ CooldownEnds(p, c)
           \/ \E p \in Procs : Crash(p) \/ RefreshCache(p)
           \/ \E c \in Clients : SwapLeaseExpires(c)
           \/ \E n \in Mobiles : ProbeLeaseExpires(n)
  <2>1. UNCHANGED row
    BY <1>6
    DEF RenewLeases, CooldownEnds, Crash, RefreshCache, SwapLeaseExpires,
        ProbeLeaseExpires, vars, db
  <2>2. QED
    BY <2>1
<1>7. CASE \E n \in Mobiles : ExpireElsewhere(n) \/ BecomesDue(n)
  BY <1>7, <1>2, <1>3 DEF ExpireElsewhere, BecomesDue
<1>8. QED
  BY <1>5, <1>6, <1>7 DEF Next

\* A cache is read from the collection, or follows the process's own cutover.
LEMMA HomeCachesStep ==
    ASSUME HomeInv, [Next]_vars
    PROVE  HomeCaches'
<1>1. /\ main \in [Clients -> Mobiles] /\ cache \in [Procs -> [Clients -> Mobiles]]
      /\ HomeMains /\ HomeCaches
  BY DEF HomeInv, ExclusionInv, AssignmentInv, TypeOK
<1>2. ASSUME NEW p \in Procs, NEW c \in Clients, CommitCutover(p, c)
      PROVE  HomeCaches'
  <2>1. InitOwner[run[<<p, c>>].pick] = c
    BY <1>2 DEF CommitCutover, HomeInv, RunHome, OwnPick, InHand
  <2>2. QED
    BY <1>1, <1>2, <2>1 DEF CommitCutover, HomeCaches
<1>3. ASSUME NEW p \in Procs, cache' = [cache EXCEPT ![p] = main]
      PROVE  HomeCaches'
  BY <1>1, <1>3 DEF HomeCaches, HomeMains
<1>4. CASE UNCHANGED cache
  BY <1>1, <1>4 DEF HomeCaches
<1>5. ASSUME NEW p \in Procs, NEW c \in Clients,
             SetupStep(p, c) \/ \E k \in Kinds : StartSetup(p, c, k)
      PROVE  CommitCutover(p, c) \/ UNCHANGED cache
  BY <1>5
  DEF SetupStep, StartSetup, LoadClient, Scan, TakeProbeLease, SkipCandidate,
      ProbeRejects, ProbeAccepts, NextStage, NoCandidate, Register, ConnectFails,
      SessionUpdateFails, CommitAborts, CheckOwner, Penalise, RetireReplaced,
      ReturnReplaced, ReleaseReplaced, SkipReturn, ReturnFails, Finish, local
<1>6. CASE \/ UNCHANGED vars
           \/ \E p \in Procs, c \in Clients : RenewLeases(p, c) \/ CooldownEnds(p, c)
           \/ \E c \in Clients : SwapLeaseExpires(c)
           \/ \E m \in Mobiles : ProbeLeaseExpires(m) \/ ExpireElsewhere(m) \/ BecomesDue(m)
  BY <1>4, <1>6
  DEF RenewLeases, CooldownEnds, SwapLeaseExpires, ProbeLeaseExpires, ExpireElsewhere,
      BecomesDue, vars, local
<1>7. CASE \E p \in Procs : Crash(p) \/ RefreshCache(p)
  BY <1>3, <1>7 DEF Crash, RefreshCache
<1>8. QED
  BY <1>2, <1>4, <1>5, <1>6, <1>7 DEF Next

LEMMA AssignmentHomeStep ==
    ASSUME HomeInv, [Next]_vars
    PROVE  HomeRows' /\ HomeMains' /\ MainHeld'
<1>1. /\ main \in [Clients -> Mobiles] /\ row \in [Mobiles -> Row]
      /\ HomeRows /\ HomeMains /\ MainHeld
  BY DEF HomeInv, ExclusionInv, AssignmentInv, TypeOK
<1>2. ASSUME NEW p \in Procs, NEW c \in Clients, CommitCutover(p, c)
      PROVE  HomeRows' /\ HomeMains' /\ MainHeld'
  <2> DEFINE new == run[<<p, c>>].pick
  <2>1. new \in Mobiles /\ InitOwner[new] = c
    BY <1>2, RunIndex DEF CommitCutover, HomeInv, ExclusionInv, AssignmentInv, HasPick,
                          Picking, RunHome, OwnPick, InHand
  <2>2. main' = [main EXCEPT ![c] = new] /\ row' = PrimaryInUse(c, new)
    BY <1>2 DEF CommitCutover
  <2>3. \A m \in Mobiles : row'[m].client = row[m].client
    <3> SUFFICES ASSUME NEW m \in Mobiles PROVE row'[m].client = row[m].client
        OBVIOUS
    <3>1. row[m] \in Row /\ row[m].client = InitOwner[m]
      BY <1>1 DEF HomeRows
    <3>2. QED
      BY <2>1, <2>2, <3>1 DEF PrimaryInUse, Row
  <2>4. HomeRows'
    BY <1>1, <2>3 DEF HomeRows
  <2>5. HomeMains'
    BY <1>1, <2>1, <2>2 DEF HomeMains
  <2>6. ASSUME NEW d \in Clients, row'[main'[d]].status = "active"
        PROVE  row'[main'[d]].client = d /\ row'[main'[d]].inUse
    <3>1. CASE d = c
      <4>1. main'[d] = new /\ row[new] \in Row
        BY <1>1, <2>1, <2>2, <3>1
      <4>2. QED
        BY <2>1, <2>2, <3>1, <4>1 DEF PrimaryInUse, Row
    <3>2. CASE d # c
      <4>1. main'[d] = main[d] /\ main[d] \in Mobiles /\ InitOwner[main[d]] = d
        BY <1>1, <2>2, <3>2 DEF HomeMains
      <4>2. main[d] # new /\ row[main[d]].client = d
        BY <1>1, <2>1, <3>2, <4>1 DEF HomeRows
      <4>3. row'[main[d]] = row[main[d]]
        BY <2>2, <3>2, <4>1, <4>2 DEF PrimaryInUse
      <4>4. QED
        BY <1>1, <2>6, <4>1, <4>3 DEF MainHeld
    <3>3. QED
      BY <3>1, <3>2
  <2>7. QED
    BY <2>4, <2>5, <2>6 DEF MainHeld
<1>3. CASE ~\E p \in Procs, c \in Clients : CommitCutover(p, c)
  <2>1. UNCHANGED main
    BY <1>3, MainFrame
  <2>2. HomeRows'
    BY <1>1, <1>3, RowKept DEF HomeRows
  <2>3. HomeMains'
    BY <1>1, <2>1 DEF HomeMains
  <2>4. ASSUME NEW c \in Clients, row'[main[c]].status = "active"
        PROVE  row'[main[c]].client = c /\ row'[main[c]].inUse
    <3>1. main[c] \in Mobiles /\ IsLiveMain(main[c])
      BY <1>1 DEF IsLiveMain
    <3>2. /\ row'[main[c]].client = row[main[c]].client
          /\ row[main[c]].status = "active"
          /\ row'[main[c]].inUse = row[main[c]].inUse
      BY <1>3, <2>4, <3>1, RowKept
    <3>3. QED
      BY <1>1, <3>2 DEF MainHeld
  <2>5. QED
    BY <2>1, <2>2, <2>3, <2>4 DEF MainHeld
<1>4. QED
  BY <1>2, <1>3

LEMMA Home ==
    ASSUME ~RenewalFails, NoSiblings
    PROVE  Spec => []HomeInv
<1>1. HomeInv /\ [Next]_vars => HomeInv'
  BY ExclusionStep, RunHomeStep, HomeCachesStep, AssignmentHomeStep DEF HomeInv
<1>2. QED
  BY <1>1, HomeInit, PTL DEF Spec

\* Between clients that cannot lend to each other, and while renewals get
\* through, an active main is always reserved for its client: no scan finds it.
THEOREM MainStaysHeld ==
    ASSUME ~RenewalFails, NoSiblings
    PROVE  Spec => []MainHeld
<1>1. HomeInv => MainHeld
  BY DEF HomeInv
<1>2. QED
  BY <1>1, Home, PTL

\* Under the same assumptions no failure on any path of a setup touches the row
\* of an account some client runs on: the guarded one asks first, and on the
\* unguarded one the account was a spare when it was scanned and still is.
THEOREM FailureSafety ==
    ASSUME ~RenewalFails, NoSiblings
    PROVE  Spec => FailureSparesMain
<1>1. ASSUME HomeInv, [Next]_vars
      PROVE  \A r \in Runs :
                /\ pc[r] \in {"cutover", "failing", "penalise"}
                /\ pc'[r] \in {"failing", "penalise", "finish"} \ {pc[r]}
                => \A c \in Clients : row'[main[c]] = row[main[c]]
  <2> SUFFICES ASSUME NEW p \in Procs, NEW c \in Clients,
                      pc[<<p, c>>] \in {"cutover", "failing", "penalise"},
                      pc'[<<p, c>>] \in {"failing", "penalise", "finish"},
                      pc'[<<p, c>>] # pc[<<p, c>>],
                      NEW d \in Clients
               PROVE  row'[main[d]] = row[main[d]]
      BY DEF Runs
  <2> DEFINE r == <<p, c>>
  <2>1. /\ r \in Runs /\ TypeOK /\ RunHome(p, c)
        /\ main[d] \in Mobiles /\ InitOwner[main[d]] = d
    BY <1>1, RunIndex DEF HomeInv, ExclusionInv, AssignmentInv, TypeOK, HomeMains
  <2>2. SetupStep(p, c) \/ \E k \in Kinds : StartSetup(p, c, k)
    BY <1>1, <2>1, RunFrame, EnvironmentFrame DEF Next
  <2>3. \/ ConnectFails(p, c) \/ SessionUpdateFails(p, c) \/ CommitAborts(p, c)
        \/ CheckOwner(p, c)   \/ Penalise(p, c)
    BY <2>1, <2>2
    DEF SetupStep, StartSetup, LoadClient, Scan, TakeProbeLease, SkipCandidate,
        ProbeRejects, ProbeAccepts, NextStage, NoCandidate, Register, CommitCutover,
        RetireReplaced, ReturnReplaced, ReleaseReplaced, SkipReturn, ReturnFails,
        Finish, Goto, TypeOK
  <2>4. CASE ConnectFails(p, c) \/ CommitAborts(p, c) \/ CheckOwner(p, c)
    BY <2>4 DEF ConnectFails, CommitAborts, CheckOwner, db
  <2>5. CASE SessionUpdateFails(p, c)
    <3>1. run[r].pick # main[d]
      BY <2>1, <2>5 DEF SessionUpdateFails, RunHome, OwnPick, FreshPick, InHand
    <3>2. row' = row \/ row' = Expired(row, run[r].pick)
      BY <2>5 DEF SessionUpdateFails
    <3>3. QED
      BY <2>1, <3>1, <3>2 DEF Expired, TypeOK
  <2>6. CASE Penalise(p, c)
    <3>1. run[r].pick # main[d]
      BY <1>1, <2>1, <2>6 DEF Penalise, HomeInv, ExclusionInv, PenaltySafe, IsLiveMain
    <3>2. \/ row' = Expired(row, run[r].pick)
          \/ row' = [row EXCEPT ![run[r].pick].due = FALSE]
      BY <2>6 DEF Penalise
    <3>3. QED
      BY <2>1, <3>1, <3>2 DEF Expired, TypeOK
  <2>7. QED
    BY <2>3, <2>4, <2>5, <2>6
<1>2. QED
  BY <1>1, Home, PTL DEF Spec, FailureSparesMain
=============================================================================
