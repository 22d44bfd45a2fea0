--------------------------- MODULE BackendProofs ---------------------------
(* Backend is safe for any number of instances, migrations, nodes and         *)
(* requests.                                                                  *)
EXTENDS Backend, TLAPS

(* A selector resolves to nodes, none of them blocked. *)
LEMMA ResolveAvoidsBlocked ==
    ASSUME NEW sel \in Selectors
    PROVE  /\ Resolve(sel) \subseteq AllNodes
           /\ \A n \in Resolve(sel) : node[n] # "blocked"
<1>1. ByIds(sel.ids) \subseteq AllNodes /\ \A n \in ByIds(sel.ids) : node[n] # "blocked"
  BY DEF Selectors, ByIds
<1>2. ASSUME NEW N \in SUBSET AllNodes
      PROVE  /\ FilterAvailable(N, sel.offline) \subseteq AllNodes
             /\ \A n \in FilterAvailable(N, sel.offline) : node[n] # "blocked"
  BY <1>2 DEF FilterAvailable
<1>3. Tagged \subseteq AllNodes
  BY RegistryAssumption DEF AllNodes
<1>4. sel.by \in {"ids", "all", "tags"}
  BY DEF Selectors
<1>5. CASE sel.by = "ids"
  BY <1>1, <1>5 DEF Resolve
<1>6. CASE sel.by = "all"
  <2>1. Resolve(sel) = FilterAvailable(AllNodes, sel.offline)
    BY <1>6 DEF Resolve
  <2> QED
    BY <1>2, <2>1
<1>7. CASE sel.by = "tags"
  <2>1. Resolve(sel) = FilterAvailable(Tagged, sel.offline)
    BY <1>7 DEF Resolve
  <2> QED
    BY <1>2, <1>3, <2>1
<1> QED
  BY <1>4, <1>5, <1>6, <1>7

LEMMA InitHolds == Init => IInv
<1> SUFFICES ASSUME Init PROVE IInv
  OBVIOUS
<1>1. RegistryTypeOK
  BY DEF Init, RegistryInit, RegistryTypeOK
<1>2. BootTypeOK
  BY BackendAssumption DEF Init, BootTypeOK, Booting, Migrations
<1>3. NoSelector \in Selectors
  BY DEF NoSelector, Selectors
<1>4. (CHOOSE i \in Instances : TRUE) \in Instances
  BY BackendAssumption
<1>5. req \in [Requests -> Request]
  BY <1>3, <1>4 DEF Init, Request
<1>6. run \in [Requests -> RunRows] /\ crashes \in 0..MaxCrashes
  BY BackendAssumption DEF Init, RunRows
<1>7. BootedInOrder /\ ServingMeansReady
  BY DEF Init, BootedInOrder, ServingMeansReady, Booted
<1>8. BarredAreBlocked
  BY DEF Init, BarredAreBlocked
<1> QED
  BY <1>1, <1>2, <1>5, <1>6, <1>7, <1>8 DEF IInv, TypeOK

-----------------------------------------------------------------------------
(* Booting *)

(* The part of the invariant a booting instance could disturb. *)
BootInv == BootTypeOK /\ BootedInOrder /\ ServingMeansReady

(* The rest of it does not depend on how far the instances have come. *)
LEMMA RestStays ==
    ASSUME IInv, UNCHANGED <<registry, work>>, BootInv'
    PROVE  IInv'
BY DEF IInv, TypeOK, RegistryTypeOK, BarredAreBlocked, registry, work, BootInv

LEMMA MigrationSteps ==
    ASSUME IInv, NEW i \in Instances,
           Boot(i) \/ CheckMigration(i) \/ ExecMigration(i) \/ CommitMigration(i)
    PROVE  IInv'
<1> USE BackendAssumption DEF Migrations
<1> USE DEF IInv, TypeOK, BootTypeOK, BootedInOrder, ServingMeansReady, Booted, Booting,
            Exists, At
<1>1. CASE Boot(i)
  <2>1. BootInv'
    BY <1>1 DEF Boot, BootInv, registry
  <2> QED
    BY <1>1, <2>1, RestStays DEF Boot
<1>2. CASE CheckMigration(i)
  <2>1. BootInv'
    <3> m[i] \in 1..Last + 1
      OBVIOUS
    <3>1. CASE Migrated(i)
      <4>1. \A v \in Migrations : v < m[i] /\ v \in applied
        BY <1>2, <3>1 DEF CheckMigration, Migrated
      <4>2. applied = Migrations
        BY <4>1
      <4> QED
        BY <1>2, <3>1, <4>2 DEF CheckMigration, BootInv, registry
    <3>2. CASE ~Migrated(i) /\ Recorded(m[i])
      <4>1. m' = [m EXCEPT ![i] = m[i] + 1] /\ UNCHANGED <<pc, mine, applied, ddl, registry>>
        BY <1>2, <3>2 DEF CheckMigration
      <4>2. m[i] \in Migrations /\ m[i] \in applied
        BY <3>2 DEF Migrated, Recorded
      <4>3. BootTypeOK'
        BY <4>1, <4>2
      <4>4. BootedInOrder' /\ ServingMeansReady'
        BY <4>1, <4>2, <1>2 DEF CheckMigration, registry
      <4> QED
        BY <4>3, <4>4 DEF BootInv
    <3>3. CASE ~Migrated(i) /\ ~Recorded(m[i])
      BY <1>2, <3>3 DEF CheckMigration, Migrated, BootInv, registry
    <3> QED
      BY <3>1, <3>2, <3>3
  <2> QED
    BY <1>2, <2>1, RestStays DEF CheckMigration
<1>3. CASE ExecMigration(i)
  <2>1. BootInv'
    BY <1>3 DEF ExecMigration, BootInv, registry
  <2> QED
    BY <1>3, <2>1, RestStays DEF ExecMigration
<1>4. CASE CommitMigration(i)
  <2>1. m[i] \in Migrations /\ m[i] + 1 \in 1..Last + 1
    BY <1>4 DEF CommitMigration
  <2>2. BootTypeOK'
    <3>1. m' \in [Instances -> 1..Last + 1]
      BY <1>4, <2>1 DEF CommitMigration
    <3>2. applied' \subseteq Migrations
      BY <1>4, <2>1 DEF CommitMigration
    <3> QED
      BY <1>4, <3>1, <3>2 DEF CommitMigration
  <2>3. BootedInOrder' /\ ServingMeansReady'
    BY <1>4, <2>1 DEF CommitMigration, registry
  <2> QED
    BY <1>4, <2>2, <2>3, RestStays DEF CommitMigration, BootInv
<1> QED
  BY <1>1, <1>2, <1>3, <1>4

LEMMA EnsureSteps ==
    ASSUME IInv, NEW i \in Instances,
           GetVirtualNode(i) \/ CreateVirtualNode(i) \/ RereadVirtualNode(i)
    PROVE  IInv'
<1> USE DEF IInv, TypeOK, BootTypeOK, BootedInOrder, ServingMeansReady, Booted, Booting,
            Exists, At, Serve, LostRace
<1>1. CASE GetVirtualNode(i)
  <2>1. BootInv'
    BY <1>1 DEF GetVirtualNode, BootInv, registry
  <2> QED
    BY <1>1, <2>1, RestStays DEF GetVirtualNode
<1>2. CASE CreateVirtualNode(i)
  <2>1. CASE Exists(Virtual)
    <3>1. BootInv' /\ UNCHANGED <<registry, work>>
      BY <1>2, <2>1 DEF CreateVirtualNode, BootInv, registry
    <3> QED
      BY <3>1, RestStays
  <2>2. CASE ~Exists(Virtual)
    <3>1. node' = [node EXCEPT ![Virtual] = "open"] /\ Virtual \in AllNodes
      BY <1>2, <2>2 DEF CreateVirtualNode, AllNodes
    <3>2. RegistryTypeOK'
      BY <1>2, <3>1 DEF CreateVirtualNode, RegistryTypeOK
    <3>3. BootInv'
      BY <1>2, <2>2, <3>1 DEF CreateVirtualNode, BootInv, RegistryTypeOK
    <3>4. BarredAreBlocked'
      BY <1>2, <2>2, <3>1 DEF CreateVirtualNode, BarredAreBlocked, RegistryTypeOK, work
    <3> QED
      BY <1>2, <3>2, <3>3, <3>4 DEF CreateVirtualNode, BootInv, work
  <2> QED
    BY <2>1, <2>2
<1>3. CASE RereadVirtualNode(i)
  <2>1. BootInv'
    BY <1>3 DEF RereadVirtualNode, BootInv, registry
  <2> QED
    BY <1>3, <2>1, RestStays DEF RereadVirtualNode
<1> QED
  BY <1>1, <1>2, <1>3
-----------------------------------------------------------------------------
(* Serving *)

(* The registry and the requests may change beside the boot, as long as the
   virtual node's row stays and barred nodes stay blocked. *)
LEMMA BootStays ==
    ASSUME IInv, UNCHANGED boot, Exists(Virtual) => Exists(Virtual)',
           RegistryTypeOK', req' \in [Requests -> Request], run' \in [Requests -> RunRows],
           crashes' \in 0..MaxCrashes, BarredAreBlocked'
    PROVE  IInv'
BY DEF IInv, TypeOK, BootTypeOK, BootedInOrder, ServingMeansReady, boot, Exists

LEMMA RegistrySteps ==
    ASSUME IInv, \/ Admin
                 \/ \E n \in AllNodes : Lapse(n) /\ UNCHANGED <<boot, work>>
    PROVE  IInv'
<1> USE DEF IInv, TypeOK, RegistryTypeOK, BarredAreBlocked, work, Exists
<1>1. ASSUME NEW a \in Accounts, CreateAccount(a), UNCHANGED <<boot, work>> PROVE IInv'
  BY <1>1, BootStays DEF CreateAccount
<1>2. ASSUME NEW k \in Keys, CreateAPIKey(k) \/ RevokeAPIKey(k), UNCHANGED <<boot, work>>
      PROVE  IInv'
  BY <1>2, BootStays DEF CreateAPIKey, RevokeAPIKey
<1>3. ASSUME NEW n \in Nodes, CreateNode(n), UNCHANGED <<boot, work>> PROVE IInv'
  <2>1. node' = [node EXCEPT ![n] = "open"] /\ n \in AllNodes /\ node[n] = "none"
    BY <1>3 DEF CreateNode, AllNodes
  <2>2. node' \in [AllNodes -> {"none", "open", "blocked"}]
    BY <2>1
  <2>3. Exists(Virtual) => Exists(Virtual)'
    BY <2>1 DEF AllNodes
  <2>4. BarredAreBlocked'
    BY <1>3, <2>1 DEF Request
  <2> QED
    BY <1>3, <2>2, <2>3, <2>4, BootStays DEF CreateNode
<1>4. ASSUME NEW n \in AllNodes, Lapse(n), UNCHANGED <<boot, work>> PROVE IInv'
  BY <1>4, BootStays DEF Lapse
<1> QED
  BY <1>1, <1>2, <1>3, <1>4 DEF Admin

LEMMA BlockStep ==
    ASSUME IInv, NEW n \in AllNodes, NEW blocked \in BOOLEAN, Block(n, blocked)
    PROVE  IInv'
<1> USE DEF IInv, TypeOK, RegistryTypeOK, Exists
<1>1. node' = [node EXCEPT ![n] = IF blocked THEN "blocked" ELSE "open"]
  BY DEF Block, SetNodeBlocked
<1>2. ASSUME NEW r \in Requests
      PROVE  /\ req'[r] = [req[r] EXCEPT !.barred = IF blocked THEN @ ELSE @ \ {n}]
             /\ req[r] \in Request
  BY DEF Block
<1>3. req' \in [Requests -> Request]
  <2>1. ASSUME NEW r \in Requests PROVE req'[r] \in Request
    <3>1. PICK B \in SUBSET AllNodes : req'[r] = [req[r] EXCEPT !.barred = B]
      BY <1>2 DEF Request
    <3> QED
      BY <1>2, <3>1 DEF Request
  <2> QED
    BY <2>1 DEF Block
<1>4. RegistryTypeOK' /\ (Exists(Virtual) => Exists(Virtual)')
  BY <1>1 DEF Block, SetNodeBlocked, AllNodes
<1>5. BarredAreBlocked'
  <2>1. ASSUME NEW r \in Requests
        PROVE  /\ req'[r].barred \subseteq req[r].barred
               /\ ~blocked => n \notin req'[r].barred
               /\ req'[r].step = req[r].step /\ req'[r].ids = req[r].ids
    <3>1. PICK B : /\ req'[r] = [req[r] EXCEPT !.barred = B]
                   /\ B \subseteq req[r].barred /\ (~blocked => n \notin B)
      <4>1. CASE blocked
        <5>1. req'[r] = [req[r] EXCEPT !.barred = req[r].barred]
          BY <1>2, <4>1
        <5> QED
          BY <4>1, <5>1
      <4>2. CASE ~blocked
        <5>1. req'[r] = [req[r] EXCEPT !.barred = req[r].barred \ {n}]
          BY <1>2, <4>2
        <5>2. n \notin req[r].barred \ {n} /\ req[r].barred \ {n} \subseteq req[r].barred
          OBVIOUS
        <5> QED
          BY <5>1, <5>2, Zenon
      <4> QED
        BY <4>1, <4>2
    <3> QED
      BY <1>2, <3>1 DEF Request
  <2>2. ASSUME NEW r \in Requests, NEW x \in req'[r].barred PROVE node'[x] = "blocked"
    <3>1. x \in AllNodes /\ node[x] = "blocked"
      BY <2>1, <2>2, <1>2 DEF BarredAreBlocked, Request
    <3> QED
      BY <1>1, <2>1, <2>2, <3>1
  <2> QED
    BY <2>1, <2>2 DEF BarredAreBlocked
<1> QED
  BY <1>3, <1>4, <1>5, BootStays DEF Block

(* Claims, results and sweeps touch the rows of check_runs and heartbeats. *)
LEMMA RunSteps ==
    ASSUME IInv,
           \/ \E n \in Nodes : AgentPoll(n)
           \/ \E r \in Requests, n \in Nodes : AgentResult(r, n)
           \/ \E i \in Instances : Tick(i) \/ Sweep(i)
           \/ \E i \in Instances, r \in Requests : Execute(i, r)
    PROVE  IInv'
<1> USE DEF IInv, TypeOK, RegistryTypeOK, Exists
<1>1. ASSUME NEW n, NEW some, Claim(n, some) PROVE run' \in [Requests -> RunRows]
  BY <1>1 DEF Claim, RunRows
<1>2. ASSUME NEW r \in Requests, NEW n, Complete(r, n) PROVE run' \in [Requests -> RunRows]
  BY <1>2 DEF Complete, RunRows
<1>3. ASSUME NEW n \in AllNodes, TouchHeartbeat(n) PROVE seen' \subseteq AllNodes
  BY <1>3 DEF TouchHeartbeat
<1>4. UNCHANGED <<node, req>> => BarredAreBlocked'
  BY DEF BarredAreBlocked
<1>5. ASSUME NEW n \in Nodes, AgentPoll(n) PROVE IInv'
  <2>1. n \in AllNodes
    BY DEF AllNodes
  <2> QED
    BY <1>1, <1>3, <1>4, <1>5, <2>1, BootStays DEF AgentPoll
<1>6. ASSUME NEW r \in Requests, NEW n \in Nodes, AgentResult(r, n) PROVE IInv'
  BY <1>2, <1>4, <1>6, BootStays DEF AgentResult, registry
<1>7. ASSUME NEW i \in Instances, Tick(i) PROVE IInv'
  <2>1. mine[i] \in AllNodes
    BY <1>7 DEF Tick, Serving, ServingMeansReady, AllNodes
  <2> QED
    BY <1>1, <1>3, <1>4, <1>7, <2>1, BootStays DEF Tick
<1>8. ASSUME NEW i \in Instances, Sweep(i) PROVE IInv'
  <2>1. run' \in [Requests -> RunRows]
    BY <1>8 DEF Sweep, RunRows
  <2> QED
    BY <1>4, <1>8, <2>1, BootStays DEF Sweep, registry
<1>9. ASSUME NEW i \in Instances, NEW r \in Requests, Execute(i, r) PROVE IInv'
  BY <1>2, <1>4, <1>9, BootStays DEF Execute, registry
<1> QED
  BY <1>5, <1>6, <1>7, <1>8, <1>9

LEMMA RequestSteps ==
    ASSUME IInv, NEW r \in Requests, Handle(r)
    PROVE  IInv'
<1> USE DEF IInv, TypeOK
<1>1. ASSUME NEW i \in Instances, NEW k \in Keys, NEW sel \in Selectors,
             Authenticate(r, i, k, sel)
      PROVE  IInv'
  <2> DEFINE new == [step |-> IF Authentic(k) THEN "authentic" ELSE "refused", at |-> i,
                     sel |-> sel, ids |-> {},
                     barred |-> {n \in AllNodes : node[n] = "blocked"}]
  <2>1. new \in Request
    BY DEF Request
  <2>2. req' = [req EXCEPT ![r] = new] /\ UNCHANGED <<registry, boot, run, crashes>>
    BY <1>1 DEF Authenticate
  <2>3. req' \in [Requests -> Request]
    BY <2>1, <2>2
  <2>4. BarredAreBlocked'
    BY <2>2 DEF BarredAreBlocked, registry
  <2> QED
    BY <2>2, <2>3, <2>4, BootStays DEF registry, RegistryTypeOK, Exists
<1>2. CASE ResolveSelector(r)
  <2>1. req[r] \in Request
    OBVIOUS
  <2> DEFINE ids == Resolve(req[r].sel)
  <2>2. ids \subseteq AllNodes /\ \A n \in ids : node[n] # "blocked"
    BY <2>1, ResolveAvoidsBlocked DEF Request
  <2> HIDE DEF ids
  <2> DEFINE new == [req[r] EXCEPT !.step = IF ids = {} THEN "refused" ELSE "resolved",
                                   !.ids = ids]
  <2>3. req' = [req EXCEPT ![r] = new] /\ UNCHANGED <<registry, boot, run, crashes>>
    BY <1>2 DEF ResolveSelector, ids
  <2>4. new \in Request /\ new.ids = ids /\ new.barred = req[r].barred
    BY <2>1, <2>2 DEF Request
  <2> HIDE DEF new
  <2>5. req' \in [Requests -> Request]
    BY <2>3, <2>4
  <2>6. BarredAreBlocked'
    BY <2>2, <2>3, <2>4 DEF BarredAreBlocked, registry
  <2> QED
    BY <2>3, <2>5, <2>6, BootStays DEF registry, RegistryTypeOK, Exists
<1>3. CASE CreateCheck(r)
  <2>1. run' \in [Requests -> RunRows]
    BY <1>3 DEF CreateCheck, RunRows
  <2>2. req' \in [Requests -> Request]
    BY <1>3 DEF CreateCheck, Request
  <2>3. BarredAreBlocked'
    BY <1>3 DEF CreateCheck, BarredAreBlocked, registry, Request
  <2> QED
    BY <1>3, <2>1, <2>2, <2>3, BootStays DEF CreateCheck, registry, RegistryTypeOK, Exists
<1> QED
  BY <1>1, <1>2, <1>3 DEF Handle

LEMMA CrashStep ==
    ASSUME IInv, NEW i \in Instances, Crash(i)
    PROVE  IInv'
<1> USE DEF IInv, TypeOK
<1>1. /\ pc' = [pc EXCEPT ![i] = "down"] /\ mine' = [mine EXCEPT ![i] = "none"]
      /\ ddl' \in {ddl, Free}
      /\ UNCHANGED <<m, applied, registry, run>>
  BY DEF Crash, At
<1>2. BootTypeOK'
  BY <1>1 DEF BootTypeOK
<1>3. BootedInOrder' /\ ServingMeansReady'
  BY <1>1 DEF BootTypeOK, BootedInOrder, ServingMeansReady, Booted, Exists, registry
<1>4. ASSUME NEW r \in Requests
      PROVE  /\ req'[r] \in Request
             /\ req'[r].barred = req[r].barred /\ req'[r].ids = req[r].ids
             /\ req'[r].step = "resolved" => req[r].step = "resolved"
  BY DEF Crash, Request
<1>5. req' \in [Requests -> Request] /\ crashes' \in 0..MaxCrashes
  BY <1>4, BackendAssumption DEF Crash
<1>6. BarredAreBlocked'
  BY <1>1, <1>4 DEF BarredAreBlocked, registry
<1> QED
  BY <1>1, <1>2, <1>3, <1>5, <1>6 DEF registry, RegistryTypeOK

LEMMA StepHolds == IInv /\ [Next]_vars => IInv'
<1> SUFFICES ASSUME IInv, [Next]_vars PROVE IInv'
  OBVIOUS
<1>1. ASSUME NEW i \in Instances, BootStep(i) PROVE IInv'
  BY <1>1, MigrationSteps, EnsureSteps DEF BootStep
<1>2. ASSUME NEW i \in Instances, Tick(i) \/ Sweep(i) PROVE IInv'
  BY <1>2, RunSteps
<1>3. ASSUME NEW i \in Instances, Crash(i) PROVE IInv'
  BY <1>3, CrashStep
<1>4. ASSUME NEW i \in Instances, NEW r \in Requests, Execute(i, r) PROVE IInv'
  BY <1>4, RunSteps
<1>5. ASSUME NEW r \in Requests, Handle(r) PROVE IInv'
  BY <1>5, RequestSteps
<1>6. CASE External
  BY <1>6, RegistrySteps, BlockStep, RunSteps DEF External
<1>7. ASSUME NEW n \in AllNodes, Lapse(n), UNCHANGED <<boot, work>> PROVE IInv'
  BY <1>7, RegistrySteps
<1>8. CASE UNCHANGED vars
  BY <1>8 DEF vars, registry, boot, IInv, TypeOK, RegistryTypeOK, BootTypeOK,
              BootedInOrder, ServingMeansReady, BarredAreBlocked, Exists
<1> QED
  BY <1>1, <1>2, <1>3, <1>4, <1>5, <1>6, <1>7, <1>8 DEF Next

LEMMA Invariance == Spec => []IInv
  BY InitHolds, StepHolds, PTL DEF Spec

-----------------------------------------------------------------------------
(* Type correctness of the backend, for any instances, nodes and requests. *)
THEOREM TypeCorrect == Spec => []TypeOK
<1>1. IInv => TypeOK
  BY DEF IInv
<1> QED
  BY <1>1, Invariance, PTL

(* Whichever instances boot at once and wherever they crash, one that serves
   has a complete schema and the virtual node. *)
THEOREM ReadyToServe == Spec => []ServingMeansReady
<1>1. IInv => ServingMeansReady
  BY DEF IInv
<1> QED
  BY <1>1, Invariance, PTL

(* Losing the race for the virtual node never ends an instance. *)
THEOREM LostRaceHarmless == Spec => LostRaceIsHarmless
<1>1. ASSUME IInv, [Next]_vars, NEW i \in Instances,
             pc[i] \in {"ensure", "creating", "rereading"}, crashes' = crashes
      PROVE  pc'[i] # "down"
  <2> USE <1>1 DEF IInv, TypeOK, BootTypeOK
  <2>1. ASSUME NEW j \in Instances, BootStep(j) PROVE pc'[i] # "down"
    BY <2>1 DEF BootStep, Boot, CheckMigration, ExecMigration, CommitMigration,
                GetVirtualNode, CreateVirtualNode, RereadVirtualNode, Serve, LostRace, At
  <2>2. ASSUME NEW j \in Instances, Crash(j) PROVE FALSE
    BY <2>2, BackendAssumption DEF Crash
  <2>3. UNCHANGED pc => pc'[i] # "down"
    OBVIOUS
  <2>4. ASSUME NEW j \in Instances, Tick(j) \/ Sweep(j) PROVE UNCHANGED pc
    BY <2>4 DEF Tick, Sweep, boot
  <2>5. ASSUME NEW j \in Instances, NEW r \in Requests, Execute(j, r) PROVE UNCHANGED pc
    BY <2>5 DEF Execute, boot
  <2>6. ASSUME NEW r \in Requests, Handle(r) PROVE UNCHANGED pc
    BY <2>6 DEF Handle, Authenticate, ResolveSelector, CreateCheck, boot
  <2>7. External => UNCHANGED pc
    BY DEF External, Admin, Block, AgentPoll, AgentResult, boot
  <2> QED
    BY <2>1, <2>2, <2>3, <2>4, <2>5, <2>6, <2>7 DEF Next, vars, boot
<1>2. IInv /\ [Next]_vars =>
        [\A i \in Instances : pc[i] \in {"ensure", "creating", "rereading"}
                                /\ crashes' = crashes => pc'[i] # "down"]_vars
  BY <1>1
<1> QED
  BY <1>2, Invariance, PTL DEF Spec, LostRaceIsHarmless

(* A node that has been blocked since a request began gets no run from it. *)
THEOREM BlockedOut == Spec => BlockedStaysOut
<1>1. ASSUME IInv, [Next]_vars, NEW r \in Requests, NEW n \in AllNodes,
             run[r][n] = "none", run'[r][n] = "queued"
      PROVE  n \notin req[r].barred
  <2> USE <1>1 DEF IInv, TypeOK, RunRows
  <2>1. CASE CreateCheck(r)
    BY <2>1 DEF CreateCheck, BarredAreBlocked
  <2>2. ASSUME NEW q \in Requests, q # r, CreateCheck(q) PROVE FALSE
    BY <2>2 DEF CreateCheck
  <2>3. ASSUME NEW q \in Requests,
               \/ ResolveSelector(q)
               \/ \E i \in Instances, k \in Keys, sel \in Selectors : Authenticate(q, i, k, sel)
        PROVE  UNCHANGED run
    BY <2>3 DEF ResolveSelector, Authenticate
  <2>4. ASSUME NEW x, NEW some, Claim(x, some) PROVE FALSE
    BY <2>4 DEF Claim
  <2>5. ASSUME NEW q \in Requests, NEW x, Complete(q, x) PROVE FALSE
    BY <2>5 DEF Complete
  <2>6. ASSUME NEW j \in Instances, BootStep(j) \/ Crash(j) PROVE UNCHANGED run
    BY <2>6 DEF BootStep, Boot, CheckMigration, ExecMigration, CommitMigration,
                GetVirtualNode, CreateVirtualNode, RereadVirtualNode, Crash, work
  <2>7. ASSUME NEW j \in Instances, Sweep(j) PROVE FALSE
    BY <2>7 DEF Sweep
  <2>8. External => UNCHANGED run
    BY <2>4, <2>5 DEF External, Admin, Block, AgentPoll, AgentResult, work
  <2>9. ASSUME NEW j \in Instances, Tick(j) PROVE FALSE
    BY <2>4, <2>9 DEF Tick
  <2>10. ASSUME NEW j \in Instances, NEW q \in Requests, Execute(j, q) PROVE FALSE
    BY <2>5, <2>10 DEF Execute
  <2>11. UNCHANGED run => FALSE
    OBVIOUS
  <2> QED
    BY <2>1, <2>2, <2>3, <2>6, <2>7, <2>8, <2>9, <2>10, <2>11 DEF Next, Handle, vars, work
<1>2. IInv /\ [Next]_vars =>
        [\A r \in Requests, n \in AllNodes :
           run[r][n] = "none" /\ run'[r][n] = "queued" => n \notin req[r].barred]_vars
  BY <1>1
<1> QED
  BY <1>2, Invariance, PTL DEF Spec, BlockedStaysOut
=============================================================================
