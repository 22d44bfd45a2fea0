------------------------------- MODULE Backend -------------------------------
(***************************************************************************)
(* Instances of the backend (cmd/server) over one database: they boot, some   *)
(* of them at once, crash or are replaced, and serve.  Each one applies the   *)
(* migrations, finds or creates the virtual node, sweeps, and runs the        *)
(* virtual node's checks (internal/serveragent).  What a check run goes       *)
(* through inside the store is CheckLifecycle's; here it is one step.         *)
(***************************************************************************)
EXTENDS Registry

CONSTANTS
    Instances,
    Last,           \* migrations are numbered 1..Last
    Requests,       \* POST /checks requests, one check each
    MaxCrashes      \* bound: instances stopped or killed

ASSUME BackendAssumption == Last \in Nat \ {0} /\ Instances # {} /\ MaxCrashes \in Nat

Free == "free"

ASSUME FreeAssumption == Free \notin Instances

VARIABLES
    pc,             \* where each instance is in main
    m,              \* the migration it is looking at
    mine,           \* Runner.NodeID: the virtual node it was given
    applied,        \* rows of schema_migrations
    ddl,            \* the transaction that holds the locks of a migration
    req,            \* requests, and the instance each was sent to
    run,            \* run[r][n]: the row of check_runs
    crashes

boot == <<pc, m, mine, applied, ddl>>
vars == <<registry, boot, req, run, crashes>>

Migrations == 1..Last

Booting == {"migrating", "applying", "committing", "ensure", "creating", "rereading"}

BootTypeOK ==
    /\ pc \in [Instances -> Booting \cup {"down", "serving"}]
    /\ m \in [Instances -> 1..Last + 1]
    /\ mine \in [Instances -> {"none", Virtual}]
    /\ applied \subseteq Migrations
    /\ ddl \in Instances \cup {Free}

Request == [step : {"idle", "authentic", "resolved", "refused", "lost", "done"},
            at : Instances, sel : Selectors, ids : SUBSET AllNodes, barred : SUBSET AllNodes]

RunRows == [AllNodes -> {"none", "queued", "claimed", "done", "timeout"}]

TypeOK ==
    /\ RegistryTypeOK /\ BootTypeOK
    /\ req \in [Requests -> Request]
    /\ run \in [Requests -> RunRows]
    /\ crashes \in 0..MaxCrashes

NoSelector == [by |-> "all", ids |-> {}, offline |-> FALSE]

Init ==
    /\ RegistryInit
    /\ pc = [i \in Instances |-> "down"]
    /\ m = [i \in Instances |-> 1]
    /\ mine = [i \in Instances |-> "none"]
    /\ applied = {}
    /\ ddl = Free
    /\ req = [r \in Requests |-> [step |-> "idle", at |-> CHOOSE i \in Instances : TRUE,
                                  sel |-> NoSelector, ids |-> {}, barred |-> {}]]
    /\ run = [r \in Requests |-> [n \in AllNodes |-> "none"]]
    /\ crashes = 0

work == <<req, run, crashes>>

-----------------------------------------------------------------------------
(* RunMigrations *)

At(i, where) == pc' = [pc EXCEPT ![i] = where]

Boot(i) ==
    /\ pc[i] = "down"
    /\ At(i, "migrating")
    /\ m' = [m EXCEPT ![i] = 1]
    /\ UNCHANGED <<mine, applied, ddl, registry, work>>

MutRecorded(v) == FALSE      \* mutant: what was applied is not looked up

(* SELECT EXISTS(SELECT 1 FROM schema_migrations WHERE version = v) *)
Recorded(v) == v \in applied

MutMigrated(i) == m[i] >= Last     \* mutant: the last migration is forgotten

MutMigratedLate(i) == m[i] > Last + 1   \* mutant: one migration too many is looked for

Migrated(i) == m[i] > Last

CheckMigration(i) ==
    /\ pc[i] = "migrating"
    /\ IF Migrated(i) THEN At(i, "ensure") /\ UNCHANGED m
       ELSE IF Recorded(m[i]) THEN m' = [m EXCEPT ![i] = @ + 1] /\ UNCHANGED pc
       ELSE At(i, "applying") /\ UNCHANGED m
    /\ UNCHANGED <<mine, applied, ddl, registry, work>>

(* The first to change the schema makes the others wait; once it has committed
   their statements, or their row in schema_migrations, fail, and so does their
   boot. *)
ExecMigration(i) ==
    /\ pc[i] = "applying"
    /\ ddl = Free
    /\ IF m[i] \in applied THEN At(i, "down") /\ UNCHANGED ddl
       ELSE At(i, "committing") /\ ddl' = i
    /\ UNCHANGED <<m, mine, applied, registry, work>>

CommitMigration(i) ==
    /\ pc[i] = "committing"
    /\ applied' = applied \cup {m[i]}
    /\ m' = [m EXCEPT ![i] = @ + 1]
    /\ ddl' = Free
    /\ At(i, "migrating")
    /\ UNCHANGED <<mine, registry, work>>

-----------------------------------------------------------------------------
(* serveragent.Ensure *)

Serve(i) ==
    /\ mine' = [mine EXCEPT ![i] = Virtual]
    /\ At(i, "serving")

GetVirtualNode(i) ==
    /\ pc[i] = "ensure"
    /\ IF Exists(Virtual) THEN Serve(i) ELSE At(i, "creating") /\ UNCHANGED mine
    /\ UNCHANGED <<m, applied, ddl, registry, work>>

MutLostRace(i) == At(i, "down")   \* mutant: a unique violation is an error like any other

LostRace(i) == At(i, "rereading")

(* idx_nodes_one_virtual lets one of them win. *)
CreateVirtualNode(i) ==
    /\ pc[i] = "creating"
    /\ IF Exists(Virtual) THEN LostRace(i) /\ UNCHANGED <<mine, node>>
       ELSE Serve(i) /\ node' = [node EXCEPT ![Virtual] = "open"]
    /\ UNCHANGED <<m, applied, ddl, accounts, key, seen, work>>

RereadVirtualNode(i) ==
    /\ pc[i] = "rereading"
    /\ Serve(i)
    /\ UNCHANGED <<m, applied, ddl, registry, work>>

-----------------------------------------------------------------------------
(* A serving instance: the administrator, and the nodes' agents *)

Serving(i) == pc[i] = "serving"

Admin ==
    /\ \/ \E a \in Accounts : CreateAccount(a)
       \/ \E k \in Keys : CreateAPIKey(k) \/ RevokeAPIKey(k)
       \/ \E n \in Nodes : CreateNode(n)
    /\ UNCHANGED <<boot, work>>

(* req[r].barred: the nodes that have been blocked ever since r began. *)
Block(n, blocked) ==
    /\ SetNodeBlocked(n, blocked)
    /\ req' = [r \in Requests |-> [req[r] EXCEPT !.barred = IF blocked THEN @ ELSE @ \ {n}]]
    /\ UNCHANGED <<boot, run, crashes>>

(* ClaimQueuedRuns: some of the node's queued runs, as many as the batch limit
   allows and no other session has locked. *)
Claim(n, some) ==
    run' = [r \in Requests |->
              IF r \in some /\ run[r][n] = "queued"
              THEN [run[r] EXCEPT ![n] = "claimed"] ELSE run[r]]

Complete(r, n) == run' = [run EXCEPT ![r][n] = "done"]

(* Runs a result may come for.  CompleteCheckRun does not look at the status, so
   a run that was swept meanwhile is overwritten (also one that nobody had
   claimed, which the rows do not tell apart here). *)
Answerable == {"claimed", "timeout"}

(* A blocked node polls and reports like any other. *)
AgentPoll(n) ==
    /\ KnownNode(n)
    /\ TouchHeartbeat(n)
    /\ \E some \in SUBSET Requests : Claim(n, some)
    /\ UNCHANGED <<accounts, key, node, boot, req, crashes>>

AgentResult(r, n) ==
    /\ KnownNode(n)
    /\ run[r][n] \in Answerable
    /\ Complete(r, n)
    /\ UNCHANGED <<registry, boot, req, crashes>>

-----------------------------------------------------------------------------
(* POST /checks *)

Authenticate(r, i, k, sel) ==
    /\ req[r].step = "idle"
    /\ Serving(i)
    /\ req' = [req EXCEPT ![r] =
         [step |-> IF Authentic(k) THEN "authentic" ELSE "refused", at |-> i, sel |-> sel,
          ids |-> {}, barred |-> {n \in AllNodes : node[n] = "blocked"}]]
    /\ UNCHANGED <<registry, boot, run, crashes>>

ResolveSelector(r) ==
    /\ req[r].step = "authentic"
    /\ LET ids == Resolve(req[r].sel)
       IN  req' = [req EXCEPT ![r].step = IF ids = {} THEN "refused" ELSE "resolved",
                              ![r].ids = ids]
    /\ UNCHANGED <<registry, boot, run, crashes>>

CreateCheck(r) ==
    /\ req[r].step = "resolved"
    /\ run' = [run EXCEPT ![r] = [n \in AllNodes |-> IF n \in req[r].ids THEN "queued" ELSE @[n]]]
    /\ req' = [req EXCEPT ![r].step = "done"]
    /\ UNCHANGED <<registry, boot, crashes>>

-----------------------------------------------------------------------------
(* The runner and the sweeper of an instance *)

(* A heartbeat is written when one is due. *)
Tick(i) ==
    /\ Serving(i)
    /\ \/ TouchHeartbeat(mine[i])
       \/ UNCHANGED seen
    /\ \E some \in SUBSET Requests : Claim(mine[i], some)
    /\ UNCHANGED <<accounts, key, node, boot, req, crashes>>

Execute(i, r) ==
    /\ Serving(i)
    /\ run[r][mine[i]] \in Answerable
    /\ Complete(r, mine[i])
    /\ UNCHANGED <<registry, boot, req, crashes>>

Sweeping(i) == pc[i] \in {"ensure", "creating", "rereading", "serving"}

MutSweepable == {"queued"}      \* mutant: a run that was handed out is somebody else's

Sweepable == {"queued", "claimed"}

(* Runs older than the grace, whoever claimed them. *)
Sweep(i) ==
    /\ Sweeping(i)
    /\ \E r \in Requests, n \in AllNodes :
        /\ run[r][n] \in Sweepable
        /\ run' = [run EXCEPT ![r][n] = "timeout"]
    /\ UNCHANGED <<registry, boot, req, crashes>>

(* The process is killed, or told to stop: a cancelled context ends the checks
   under way and keeps their results out of the database. *)
Crash(i) ==
    /\ pc[i] # "down"
    /\ crashes < MaxCrashes
    /\ crashes' = crashes + 1
    /\ At(i, "down")
    /\ ddl' = IF ddl = i THEN Free ELSE ddl
    /\ mine' = [mine EXCEPT ![i] = "none"]
    /\ req' = [r \in Requests |->
                 IF req[r].at = i /\ req[r].step \in {"authentic", "resolved"}
                 THEN [req[r] EXCEPT !.step = "lost"] ELSE req[r]]
    /\ UNCHANGED <<m, applied, registry, run>>

-----------------------------------------------------------------------------

BootStep(i) ==
    \/ Boot(i) \/ CheckMigration(i) \/ ExecMigration(i) \/ CommitMigration(i)
    \/ GetVirtualNode(i) \/ CreateVirtualNode(i) \/ RereadVirtualNode(i)

Handle(r) ==
    \/ \E i \in Instances, k \in Keys, sel \in Selectors : Authenticate(r, i, k, sel)
    \/ ResolveSelector(r) \/ CreateCheck(r)

(* Requests need an instance that serves. *)
External ==
    /\ \E i \in Instances : Serving(i)
    /\ \/ Admin
       \/ \E n \in AllNodes, blocked \in BOOLEAN : Block(n, blocked)
       \/ \E n \in Nodes : AgentPoll(n)
       \/ \E r \in Requests, n \in Nodes : AgentResult(r, n)

Next ==
    \/ \E i \in Instances : BootStep(i) \/ Tick(i) \/ Sweep(i) \/ Crash(i)
    \/ \E i \in Instances, r \in Requests : Execute(i, r)
    \/ \E r \in Requests : Handle(r)
    \/ External
    \/ \E n \in AllNodes : Lapse(n) /\ UNCHANGED <<boot, work>>

Spec == Init /\ [][Next]_vars

(* An instance that exits is started again; its sweeper keeps its interval. *)
FairSpec == Spec /\ \A i \in Instances : WF_vars(BootStep(i)) /\ WF_vars(Sweep(i))

-----------------------------------------------------------------------------
(* Safety *)

(* An instance serves only once every migration is in the schema and its runner
   has the one virtual node, whichever instances boot at once or crash. *)
ServingMeansReady ==
    \A i \in Instances : pc[i] = "serving" =>
        applied = Migrations /\ mine[i] = Virtual /\ Exists(Virtual)

(* Losing the race for the virtual node does not end an instance: Ensure is
   safe to call by two instances booting at the same time. *)
LostRaceIsHarmless ==
    [][\A i \in Instances :
        pc[i] \in {"ensure", "creating", "rereading"} /\ crashes' = crashes => pc'[i] # "down"]_vars

(* A node that was blocked when a request began, and has been since, gets no
   run from it, though the check on it and the insert are steps apart. *)
BlockedStaysOut ==
    [][\A r \in Requests, n \in AllNodes :
        run[r][n] = "none" /\ run'[r][n] = "queued" => n \notin req[r].barred]_vars

(* Liveness *)

(* However many instances boot at once, and whatever crashed halfway, in the
   end they all serve. *)
AllServe == <>[](\A i \in Instances : pc[i] = "serving")

(* Every run comes to an end, though its node never polls or the instance that
   claimed it is gone. *)
EveryRunSettles ==
    \A r \in Requests, n \in AllNodes :
        run[r][n] \in {"queued", "claimed"} ~> run[r][n] \in {"done", "timeout"}
-----------------------------------------------------------------------------
(* The inductive invariant behind the safety properties (BackendProofs). *)

Booted == {"ensure", "creating", "rereading", "serving"}

(* An instance has seen the migrations before the one it looks at. *)
BootedInOrder ==
    \A i \in Instances :
        /\ pc[i] # "down" => \A v \in Migrations : v < m[i] => v \in applied
        /\ pc[i] \in {"applying", "committing"} => m[i] <= Last
        /\ pc[i] \in Booted => applied = Migrations
        /\ pc[i] = "rereading" => Exists(Virtual)

(* What a request was resolved to leaves the barred nodes out, and those are
   blocked still. *)
BarredAreBlocked ==
    \A r \in Requests :
        /\ \A n \in req[r].barred : node[n] = "blocked"
        /\ req[r].step = "resolved" => req[r].ids \cap req[r].barred = {}

IInv == TypeOK /\ BootedInOrder /\ ServingMeansReady /\ BarredAreBlocked
=============================================================================
