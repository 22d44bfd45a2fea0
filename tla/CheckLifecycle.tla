--------------------------- MODULE CheckLifecycle ---------------------------
(***************************************************************************)
(* The life of a check in the backend: internal/store (checks, check_runs, *)
(* results), the HTTP handlers that call it and the sweeper.  Every         *)
(* database transaction is a sequence of steps under PostgreSQL's default   *)
(* READ COMMITTED isolation, and any number of sessions (HTTP requests,     *)
(* the sweeper, the virtual server node) interleave:                        *)
(*                                                                         *)
(*   - a statement sees the committed rows and its own transaction's writes; *)
(*   - an UPDATE locks the rows it writes until its transaction ends, waits  *)
(*     for a row somebody else holds, then looks at the row again and leaves *)
(*     it alone if it no longer satisfies the WHERE clause;                  *)
(*   - a waits-for cycle ends with one of its transactions rolled back.      *)
(*                                                                         *)
(* A run is a row that may come to exist: its check and its node are fixed   *)
(* by CheckOf and NodeOf, its status is "none" until it is inserted.         *)
(***************************************************************************)
EXTENDS Integers, FiniteSets, Sequences, CheckStatuses

CONSTANTS
    Handlers,       \* requests being handled, the virtual node's loop included
    Sweepers,       \* one sweeper per running backend
    Checks, Runs, Nodes,
    CheckOf, NodeOf,  \* the check and the node of every run
    None,           \* no check, no run, no session
    PollLimit,      \* PollBatchLimit: runs one poll may claim
    MaxFaults,      \* bound on the failures injected
    MaxCancels      \* bound on the cancel requests of clients

Sessions == Handlers \cup Sweepers

ASSUME RunAssumption ==
    /\ CheckOf \in [Runs -> Checks]
    /\ NodeOf \in [Runs -> Nodes]
ASSUME NoneAssumption == None \notin Checks \cup Runs \cup Sessions
ASSUME RoleAssumption == Handlers \cap Sweepers = {}
ASSUME BoundAssumption ==
    PollLimit \in Nat \ {0} /\ MaxFaults \in Nat /\ MaxCancels \in Nat

RunsOf(c) == {r \in Runs : CheckOf[r] = c}

VARIABLES
    check,      \* committed status of each check
    run,        \* committed status of each run
    results,    \* committed rows of the results table, per run
    newC, newR, \* the latest version of each row, written or committed
    lockC, lockR,  \* the session that holds each row's lock
    pc,         \* what each session is executing
    req,        \* each session's local variables
    held,       \* runs whose job a node holds and has not reported yet
    overdue,    \* checks whose runs are older than the grace period
    dispatches, \* history: how often a claim of each run was committed
    addedLate,  \* history: checks whose runs came after a cancel had begun
    faults, cancels

rows == <<check, run, results>>
locks == <<newC, newR, lockC, lockR>>
history == <<dispatches, addedLate>>
budget == <<faults, cancels>>
vars == <<rows, locks, pc, req, held, overdue, history, budget>>

(* What a session works on: checks and runs its current statement has still
   to visit, the check and the verdict being derived, the result being
   recorded, the rest of the posted batch, the nodes a selector resolved to. *)
Local == [chks : SUBSET Checks, runs : SUBSET Runs,
          chk : Checks \cup {None}, verdict : Verdicts \cup {"none"},
          run : Runs \cup {None}, batch : SUBSET Runs, nodes : SUBSET Nodes]

Fresh == [chks |-> {}, runs |-> {}, chk |-> None, verdict |-> "none",
          run |-> None, batch |-> {}, nodes |-> {}]

Steps == {"idle", "insertCheck", "addRuns", "markRunning", "recordResult",
          "timeoutRuns", "derive", "finalize", "cancelScan", "cancelRuns"}

TypeOK ==
    /\ check \in [Checks -> CheckStatus]
    /\ run \in [Runs -> RunStatus]
    /\ results \in [Runs -> Seq(RunStatus)]
    /\ newC \in [Checks -> CheckStatus]
    /\ newR \in [Runs -> RunStatus]
    /\ lockC \in [Checks -> Sessions \cup {None}]
    /\ lockR \in [Runs -> Sessions \cup {None}]
    /\ pc \in [Sessions -> Steps]
    /\ req \in [Sessions -> Local]
    /\ \A s \in Sessions : pc[s] \in {"addRuns", "finalize", "cancelScan", "cancelRuns"}
                               => req[s].chk \in Checks
    /\ held \subseteq Runs
    /\ overdue \subseteq Checks
    /\ dispatches \in [Runs -> Nat]
    /\ addedLate \subseteq Checks
    /\ faults \in 0..MaxFaults
    /\ cancels \in 0..MaxCancels

Init ==
    /\ check = [c \in Checks |-> "none"]
    /\ run = [r \in Runs |-> "none"]
    /\ results = [r \in Runs |-> <<>>]
    /\ newC = check
    /\ newR = run
    /\ lockC = [c \in Checks |-> None]
    /\ lockR = [r \in Runs |-> None]
    /\ pc = [s \in Sessions |-> "idle"]
    /\ req = [s \in Sessions |-> Fresh]
    /\ held = {}
    /\ overdue = {}
    /\ dispatches = [r \in Runs |-> 0]
    /\ addedLate = {}
    /\ faults = 0
    /\ cancels = 0

-----------------------------------------------------------------------------
(* Transactions. *)

Goto(s, step, local) ==
    /\ pc' = [pc EXCEPT ![s] = step]
    /\ req' = [req EXCEPT ![s] = local]

(* An UPDATE of one row: it waits for the lock, and keeps it. *)
WriteCheck(s, c, status) ==
    /\ lockC[c] = None
    /\ lockC' = [lockC EXCEPT ![c] = s]
    /\ newC' = [newC EXCEPT ![c] = status]

MutWriteRun(s, r, status) ==        \* mutant: SKIP LOCKED on an UPDATE's row
    IF lockR[r] # None THEN UNCHANGED <<lockR, newR>>
    ELSE lockR' = [lockR EXCEPT ![r] = s] /\ newR' = [newR EXCEPT ![r] = status]

WriteRun(s, r, status) ==
    /\ lockR[r] = None
    /\ lockR' = [lockR EXCEPT ![r] = s]
    /\ newR' = [newR EXCEPT ![r] = status]

Release(s) ==
    /\ lockC' = [c \in Checks |-> IF lockC[c] = s THEN None ELSE lockC[c]]
    /\ lockR' = [r \in Runs |-> IF lockR[r] = s THEN None ELSE lockR[r]]

CommitRows(s) ==
    /\ check' = [c \in Checks |-> IF lockC[c] = s THEN newC[c] ELSE check[c]]
    /\ run' = [r \in Runs |-> IF lockR[r] = s THEN newR[r] ELSE run[r]]
    /\ Release(s)
    /\ UNCHANGED <<newC, newR>>

Rollback(s) ==
    /\ newC' = [c \in Checks |-> IF lockC[c] = s THEN check[c] ELSE newC[c]]
    /\ newR' = [r \in Runs |-> IF lockR[r] = s THEN run[r] ELSE newR[r]]
    /\ Release(s)
    /\ UNCHANGED rows

(* What a SELECT of session s reads. *)
MutView(s, r) == run[r]             \* mutant: the SELECT runs outside the transaction

View(s, r) == IF lockR[r] = s THEN newR[r] ELSE run[r]

-----------------------------------------------------------------------------
(* POST /checks: for every target an INSERT into checks, committed on its own,
   and then one transaction that inserts a run for every resolved node.  A
   target is a check that does not exist yet, a duplicated node id two runs of
   the check on one node. *)

Slots(c, N) == {r \in RunsOf(c) : NodeOf[r] \in N}

CreateCheck(s, B, N) ==
    /\ pc[s] = "idle"
    /\ B # {}
    /\ \A c \in B : check[c] = "none" /\ Slots(c, N) # {}
    /\ \A t \in Sessions : pc[t] \in {"insertCheck", "addRuns"} => req[t].chks \cap B = {}
    /\ Goto(s, "insertCheck", [Fresh EXCEPT !.chks = B, !.nodes = N])
    /\ UNCHANGED <<rows, locks, held, overdue, history, budget>>

InsertCheck(s, c) ==
    /\ pc[s] = "insertCheck"
    /\ c \in req[s].chks
    /\ check' = [check EXCEPT ![c] = "pending"]
    /\ newC' = [newC EXCEPT ![c] = "pending"]
    /\ Goto(s, "addRuns", [req[s] EXCEPT !.chks = @ \ {c}, !.chk = c])
    /\ UNCHANGED <<run, results, newR, lockC, lockR, held, overdue, history, budget>>

CancelBegun(c) == check[c] = "cancelled" \/ newC[c] = "cancelled"

CreateCheckRuns(s) ==
    /\ pc[s] = "addRuns"
    /\ LET c == req[s].chk
           new == Slots(c, req[s].nodes)
       IN  /\ run' = [r \in Runs |-> IF r \in new THEN "queued" ELSE run[r]]
           /\ newR' = [r \in Runs |-> IF r \in new THEN "queued" ELSE newR[r]]
           /\ addedLate' = IF CancelBegun(c) THEN addedLate \cup {c} ELSE addedLate
    /\ IF req[s].chks = {}
       THEN Goto(s, "idle", Fresh)
       ELSE Goto(s, "insertCheck", [req[s] EXCEPT !.chk = None])
    /\ UNCHANGED <<check, results, newC, lockC, lockR, held, overdue, dispatches, budget>>

-----------------------------------------------------------------------------
(* A node's poll: ClaimQueuedRuns.  FOR UPDATE SKIP LOCKED takes the queued
   runs nobody holds, then the checks still pending are marked running. *)

MutClaimable(n) ==                  \* mutant: FOR UPDATE without SKIP LOCKED or recheck
    {r \in Runs : NodeOf[r] = n /\ run[r] = "queued"}

MutRetryable(n) ==                  \* mutant: a timed-out run is handed out again
    {r \in Runs : NodeOf[r] = n /\ run[r] \in {"queued", "timeout"} /\ lockR[r] = None}

Claimable(n) == {r \in Runs : NodeOf[r] = n /\ run[r] = "queued" /\ lockR[r] = None}

Batches(n) == {S \in SUBSET Claimable(n) :
                  \/ S = Claimable(n) /\ Cardinality(S) <= PollLimit
                  \/ Cardinality(S) = PollLimit}

ClaimQueuedRuns(s, n) ==
    /\ pc[s] = "idle"
    /\ \E S \in Batches(n) \ {{}} :
          /\ lockR' = [r \in Runs |-> IF r \in S THEN s ELSE lockR[r]]
          /\ newR' = [r \in Runs |-> IF r \in S THEN "dispatched" ELSE newR[r]]
          /\ Goto(s, "markRunning",
                  [Fresh EXCEPT !.runs = S, !.chks = {CheckOf[r] : r \in S}])
    /\ UNCHANGED <<rows, newC, lockC, held, overdue, history, budget>>

MarkRunning(s, c) ==
    /\ pc[s] = "markRunning"
    /\ c \in req[s].chks
    /\ Goto(s, "markRunning", [req[s] EXCEPT !.chks = @ \ {c}])
    /\ \/ check[c] = "pending" /\ WriteCheck(s, c, "running")
       \/ check[c] # "pending" /\ UNCHANGED <<lockC, newC>>
    /\ UNCHANGED <<rows, newR, lockR, held, overdue, history, budget>>

(* The commit, and the response that carries the jobs: it may be lost. *)
CommitClaim(s) ==
    /\ pc[s] = "markRunning"
    /\ req[s].chks = {}
    /\ CommitRows(s)
    /\ dispatches' = [r \in Runs |-> dispatches[r] + IF r \in req[s].runs THEN 1 ELSE 0]
    /\ held' \in {held, held \cup req[s].runs}
    /\ Goto(s, "idle", Fresh)
    /\ UNCHANGED <<results, overdue, addedLate, budget>>

-----------------------------------------------------------------------------
(* finalizeCheckStatusTx: count the check's runs in one statement, and write
   the verdict in another once none is unfinished. *)

MutVerdictOf(s, c) ==               \* mutant: timeouts are not counted as errors
    LET seen == {View(s, r) : r \in RunsOf(c)}
    IN  IF "error" \notin seen THEN "completed"
        ELSE IF seen \cap Succeeded = {} THEN "failed"
        ELSE "partial"

MutVerdictError(s, c) == "error"    \* mutant: a run's status given to a check

VerdictOf(s, c) ==
    LET seen == {View(s, r) : r \in RunsOf(c)}
    IN  IF seen \cap Errored = {} THEN "completed"
        ELSE IF seen \cap Succeeded = {} THEN "failed"
        ELSE "partial"

MutPending(s, c) == \E r \in RunsOf(c) : View(s, r) = "queued"  \* mutant: not 'dispatched'

Pending(s, c) == \E r \in RunsOf(c) : View(s, r) \in Unfinished

CountRuns(s, c) ==
    /\ pc[s] = "derive"
    /\ c \in req[s].chks
    /\ IF Pending(s, c)
       THEN Goto(s, "derive", [req[s] EXCEPT !.chks = @ \ {c}])
       ELSE Goto(s, "finalize",
                 [req[s] EXCEPT !.chks = @ \ {c}, !.chk = c, !.verdict = VerdictOf(s, c)])
    /\ UNCHANGED <<rows, locks, held, overdue, history, budget>>

MutFinalizable(c) == TRUE           \* mutant: no "status <> 'cancelled'"

Finalizable(c) == check[c] # "cancelled"

FinalizeCheckStatus(s) ==
    /\ pc[s] = "finalize"
    /\ LET c == req[s].chk
       IN  \/ Finalizable(c) /\ WriteCheck(s, c, req[s].verdict)
           \/ ~Finalizable(c) /\ UNCHANGED <<lockC, newC>>
    /\ Goto(s, "derive", [req[s] EXCEPT !.chk = None, !.verdict = "none"])
    /\ UNCHANGED <<rows, newR, lockR, held, overdue, history, budget>>

-----------------------------------------------------------------------------
(* A node posts a batch of results: one CompleteCheckRun transaction after
   the other, until one fails.  A node reports each job it holds at most once. *)

MutUnreported(B) == held            \* mutant: a batch is kept and sent again

Unreported(B) == held \ B

PostResults(s, B) ==
    /\ pc[s] = "idle"
    /\ B # {}
    /\ \E n \in Nodes : \A r \in B : NodeOf[r] = n
    /\ held' = Unreported(B)
    /\ Goto(s, "recordResult", [Fresh EXCEPT !.batch = B])
    /\ UNCHANGED <<rows, locks, overdue, history, budget>>

CompleteCheckRun(s, r, status) ==
    /\ pc[s] = "recordResult"
    /\ r \in req[s].batch
    /\ WriteRun(s, r, status)
    /\ Goto(s, "derive", [req[s] EXCEPT !.run = r, !.batch = @ \ {r},
                                        !.chks = {CheckOf[r]}])
    /\ UNCHANGED <<rows, newC, lockC, held, overdue, history, budget>>

CommitResult(s) ==
    /\ pc[s] = "derive"
    /\ req[s].chks = {}
    /\ req[s].run # None
    /\ CommitRows(s)
    /\ results' = [results EXCEPT ![req[s].run] = Append(@, newR[req[s].run])]
    /\ IF req[s].batch = {}
       THEN Goto(s, "idle", Fresh)
       ELSE Goto(s, "recordResult", [Fresh EXCEPT !.batch = req[s].batch])
    /\ UNCHANGED <<held, overdue, history, budget>>

-----------------------------------------------------------------------------
(* The sweeper: TimeoutStaleRuns. *)

GracePasses(c) ==
    /\ c \notin overdue
    /\ \E r \in RunsOf(c) : run[r] # "none"
    /\ overdue' = overdue \cup {c}
    /\ UNCHANGED <<rows, locks, pc, req, held, history, budget>>

MutStale == {r \in Runs : run[r] = "dispatched" /\ CheckOf[r] \in overdue}  \* mutant: not 'queued'

Stale == {r \in Runs : run[r] \in Unfinished /\ CheckOf[r] \in overdue}

TimeoutStaleRuns(s) ==
    /\ pc[s] = "idle"
    /\ Stale # {}
    /\ Goto(s, "timeoutRuns", [Fresh EXCEPT !.runs = Stale])
    /\ UNCHANGED <<rows, locks, held, overdue, history, budget>>

(* A row that stopped matching while the UPDATE waited for it is left alone. *)
MutStillUnfinished(r) == TRUE       \* mutant: no recheck of the row

StillUnfinished(r) == run[r] \in Unfinished

TimeoutRun(s, r) ==
    /\ pc[s] = "timeoutRuns"
    /\ r \in req[s].runs
    /\ LET step == IF req[s].runs = {r} THEN "derive" ELSE "timeoutRuns"
       IN  \/ /\ StillUnfinished(r)
              /\ WriteRun(s, r, "timeout")
              /\ Goto(s, step, [req[s] EXCEPT !.runs = @ \ {r},
                                              !.chks = @ \cup {CheckOf[r]}])
           \/ /\ ~StillUnfinished(r)
              /\ Goto(s, step, [req[s] EXCEPT !.runs = @ \ {r}])
              /\ UNCHANGED <<lockR, newR>>
    /\ UNCHANGED <<rows, newC, lockC, held, overdue, history, budget>>

CommitSweep(s) ==
    /\ pc[s] = "derive"
    /\ req[s].chks = {}
    /\ req[s].run = None
    /\ CommitRows(s)
    /\ Goto(s, "idle", Fresh)
    /\ UNCHANGED <<results, held, overdue, history, budget>>

-----------------------------------------------------------------------------
(* A client cancels a check: the check's row first, then its runs. *)

MutCancellable(c) == check[c] # "none"  \* mutant: no status condition

Cancellable(c) == check[c] \in Open

CancelCheck(s, c) ==
    /\ pc[s] = "idle"
    /\ cancels < MaxCancels
    /\ cancels' = cancels + 1
    /\ Cancellable(c)
    /\ WriteCheck(s, c, "cancelled")
    /\ Goto(s, "cancelScan", [Fresh EXCEPT !.chk = c])
    /\ UNCHANGED <<rows, newR, lockR, held, overdue, history, faults>>

CancelScan(s) ==
    /\ pc[s] = "cancelScan"
    /\ Goto(s, "cancelRuns",
            [req[s] EXCEPT !.runs = {r \in RunsOf(req[s].chk) : run[r] \in Unfinished}])
    /\ UNCHANGED <<rows, locks, held, overdue, history, budget>>

CancelRun(s, r) ==
    /\ pc[s] = "cancelRuns"
    /\ r \in req[s].runs
    /\ Goto(s, "cancelRuns", [req[s] EXCEPT !.runs = @ \ {r}])
    /\ \/ StillUnfinished(r) /\ WriteRun(s, r, "error")
       \/ ~StillUnfinished(r) /\ UNCHANGED <<lockR, newR>>
    /\ UNCHANGED <<rows, newC, lockC, held, overdue, history, budget>>

CommitCancel(s) ==
    /\ pc[s] = "cancelRuns"
    /\ req[s].runs = {}
    /\ CommitRows(s)
    /\ Goto(s, "idle", Fresh)
    /\ UNCHANGED <<results, held, overdue, history, budget>>

-----------------------------------------------------------------------------
(* Failures.  A request's context ends (client gone, backend stopped), a
   statement or a commit fails: the open transaction is rolled back and the
   handler returns, leaving what it had not reached yet undone. *)

GiveUp(s) ==
    /\ Rollback(s)
    /\ Goto(s, "idle", Fresh)
    /\ UNCHANGED <<held, overdue, history, cancels>>

Fail(s) ==
    /\ pc[s] # "idle"
    /\ faults < MaxFaults
    /\ faults' = faults + 1
    /\ GiveUp(s)

(* t holds a row that s's current statement has to write. *)
BlockedBy(s, t) ==
    \/ pc[s] = "markRunning" /\ \E c \in req[s].chks : check[c] = "pending" /\ lockC[c] = t
    \/ pc[s] = "finalize" /\ Finalizable(req[s].chk) /\ lockC[req[s].chk] = t
    \/ pc[s] \in {"timeoutRuns", "cancelRuns"}
       /\ \E r \in req[s].runs : StillUnfinished(r) /\ lockR[r] = t

WaitCycle(C) ==
    /\ C # {}
    /\ \A s \in C : /\ \E t \in C : t # s /\ BlockedBy(s, t)
                    /\ \E t \in C : t # s /\ BlockedBy(t, s)

(* PostgreSQL's deadlock detector rolls back a transaction of the cycle. *)
DeadlockVictim(s) ==
    /\ \E C \in SUBSET Sessions : s \in C /\ WaitCycle(C)
    /\ GiveUp(s)
    /\ UNCHANGED faults

-----------------------------------------------------------------------------

Create(s) ==
    \/ \E B \in SUBSET Checks, N \in SUBSET Nodes : CreateCheck(s, B, N)
    \/ \E c \in Checks : InsertCheck(s, c)
    \/ CreateCheckRuns(s)

Poll(s) ==
    \/ \E n \in Nodes : ClaimQueuedRuns(s, n)
    \/ \E c \in Checks : MarkRunning(s, c)
    \/ CommitClaim(s)

Results(s) ==
    \/ \E B \in SUBSET held : PostResults(s, B)
    \/ \E r \in Runs, status \in {"done", "error"} : CompleteCheckRun(s, r, status)
    \/ CommitResult(s)

Sweep(s) ==
    \/ TimeoutStaleRuns(s)
    \/ \E r \in Runs : TimeoutRun(s, r)
    \/ CommitSweep(s)

Derive(s) ==
    \/ \E c \in Checks : CountRuns(s, c)
    \/ FinalizeCheckStatus(s)

Cancel(s) ==
    \/ \E c \in Checks : CancelCheck(s, c)
    \/ CancelScan(s)
    \/ \E r \in Runs : CancelRun(s, r)
    \/ CommitCancel(s)

Next ==
    \/ \E s \in Handlers : Create(s) \/ Poll(s) \/ Results(s) \/ Cancel(s)
    \/ \E s \in Sweepers : Sweep(s)
    \/ \E s \in Sessions : Derive(s) \/ Fail(s) \/ DeadlockVictim(s)
    \/ \E c \in Checks : GracePasses(c)

Spec == Init /\ [][Next]_vars

(* A transaction that has begun goes on (no handler pauses between two
   statements) and gets a row it waits for once the holder lets go of it
   (PostgreSQL queues the waiters), a deadlock is detected, time passes, and
   the sweeper's ticker fires again.  Clients and nodes owe nothing. *)
Serve(s) == pc[s] # "idle" /\ (Create(s) \/ Poll(s) \/ Results(s) \/ Cancel(s))

Fairness ==
    /\ \A s \in Handlers : SF_vars(Serve(s))
    /\ \A s \in Sweepers : SF_vars(Sweep(s))
    /\ \A s \in Sessions : SF_vars(Derive(s)) /\ WF_vars(DeadlockVictim(s))
    /\ \A c \in Checks : WF_vars(GracePasses(c))

FairSpec == Spec /\ Fairness

-----------------------------------------------------------------------------
(* Safety. *)

(* ClaimQueuedRuns' promise: overlapping polls never dispatch a run twice. *)
DispatchedOnce == \A r \in Runs : dispatches[r] <= 1

(* No constraint of the schema says so, but a run has at most one row in
   results: readers join the two tables and would show the run twice.  It takes
   nodes that report a job at most once. *)
OneResultPerRun == \A r \in Runs : Len(results[r]) <= 1

(* A recorded result stands: neither a sweep nor a cancel that looked at the
   run before the result came in overwrites its status. *)
RecordedResultStands ==
    \A r \in Runs : results[r] # <<>> => run[r] = results[r][Len(results[r])]

(* A verdict is never given while a run of the check can still be claimed or is
   out at a node: clients stop polling on a verdict. *)
VerdictMeansFinished ==
    \A r \in Runs : check[CheckOf[r]] \in Verdicts => run[r] \in Finished \cup {"none"}

(* 'completed' is never shown for a check one of whose runs has failed, timed
   out or was lost, however late results and sweeps interleave. *)
CompletedMeansAllDone ==
    \A r \in Runs : check[CheckOf[r]] = "completed" => run[r] \in Succeeded \cup {"none"}

(* CancelCheck errors out every unfinished run, a run a poll was claiming at
   that moment included, except runs inserted after the cancel had begun. *)
CancelReachesRuns ==
    \A r \in Runs : check[CheckOf[r]] = "cancelled" /\ CheckOf[r] \notin addedLate
                       => run[r] \in Finished \cup {"none"}

(* Once all runs of a check have finished and nobody is at work on them, the
   check has its verdict: CompleteCheckRun "re-derives the parent check's
   status once every run has finished". *)
VerdictFollowsRuns ==
    \A c \in Checks :
        /\ \E r \in RunsOf(c) : run[r] # "none"
        /\ \A r \in RunsOf(c) : run[r] \in Finished \cup {"none"}
        /\ \A s \in Sessions : pc[s] = "idle"
        => check[c] \notin Open

(* Actions. *)

(* A cancelled check stays cancelled, although results of its runs may still
   arrive and finalizeCheckStatusTx may have counted before the cancel. *)
CancelIsFinal == [][\A c \in Checks : check[c] = "cancelled" => check'[c] = "cancelled"]_vars

(* A finished run is never queued or dispatched again: no transaction that read
   it earlier brings it back. *)
FinishedStaysFinished == [][\A r \in Runs : run[r] \in Finished => run'[r] \in Finished]_vars

(* A check that has a verdict changes only to another verdict. *)
VerdictIsFinal == [][\A c \in Checks : check[c] \in Verdicts => check'[c] \in Verdicts]_vars

(* Every transaction, whatever it interleaves with, is one operation of the
   board that clients and nodes see, or none if it is rolled back. *)
Board == INSTANCE CheckBoard WITH
             Checks <- Checks, Runs <- Runs, CheckOf <- CheckOf,
             check <- check, run <- run
ImplementsBoard == Board!Spec

(* Liveness. *)

(* The sweeper's grace bounds every run: none stays unfinished for ever, lost
   responses, lost reports, rollbacks and deadlocks notwithstanding. *)
RunsFinish == \A r \in Runs : run[r] \in Unfinished ~> run[r] \in Finished

(* The sweeper's purpose: "so a check can't hang in 'pending'/'running' forever". *)
ChecksSettle == \A c \in Checks : check[c] \in Open ~> check[c] \notin Open
-----------------------------------------------------------------------------
(* The inductive invariant behind the safety properties (CheckLifecycleProofs). *)

Exists(r) == run[r] # "none"
Creating(s) == pc[s] \in {"insertCheck", "addRuns"}
HasRuns(c) == \E r \in RunsOf(c) : Exists(r)

(* Who may hold a lock at all, and what it has written: a claim marks checks
   running, a cancel cancels, only a derivation writes a verdict. *)
LocksFollowSteps ==
    /\ \A c \in Checks, s \in Sessions : lockC[c] = s =>
          \/ pc[s] = "markRunning" /\ newC[c] = "running"
          \/ pc[s] \in {"cancelScan", "cancelRuns"} /\ newC[c] = "cancelled"
          \/ pc[s] \in {"derive", "finalize"} /\ newC[c] \in Verdicts
    /\ \A r \in Runs, s \in Sessions : lockR[r] = s =>
          \/ pc[s] = "markRunning" /\ newR[r] = "dispatched" /\ r \in req[s].runs
          \/ pc[s] \in {"timeoutRuns", "derive", "finalize", "cancelRuns"} /\ newR[r] \in Finished

(* A row nobody holds has one version; a finished run or a cancelled check has
   no other version that would undo it. *)
VersionsAgree ==
    /\ \A c \in Checks : /\ (lockC[c] = None => newC[c] = check[c])
                         /\ (check[c] = "cancelled" => newC[c] = "cancelled")
                         /\ (check[c] \in Verdicts => newC[c] \in Verdicts)
    /\ \A r \in Runs : /\ (lockR[r] = None => newR[r] = run[r])
                       /\ (run[r] \in Finished => newR[r] \in Finished)

(* Rows that do not exist are nobody's, and no two requests create the same. *)
CreationIsPrivate ==
    /\ \A c \in Checks : check[c] = "none" => lockC[c] = None /\ ~HasRuns(c)
    /\ \A r \in Runs : ~Exists(r) => lockR[r] = None
    /\ \A s \in Sessions : Creating(s) => \A c \in req[s].chks : check[c] = "none"
    /\ \A s \in Sessions, c \in Checks :
          pc[s] = "addRuns" /\ req[s].chk = c => check[c] # "none" /\ ~HasRuns(c)
    /\ \A s, t \in Sessions : s # t /\ Creating(s) /\ Creating(t) =>
          /\ req[s].chks \cap req[t].chks = {}
          /\ (pc[s] = "addRuns" /\ pc[t] = "addRuns" => req[s].chk # req[t].chk)

(* What is being worked on exists. *)
WorkExists ==
    /\ \A r \in held : Exists(r)
    /\ \A s \in Sessions :
          /\ \A r \in req[s].batch : Exists(r)
          /\ (pc[s] = "markRunning" => \A r \in req[s].runs : Exists(r))
          /\ (pc[s] \in {"timeoutRuns", "derive", "finalize"} =>
                 \A c \in req[s].chks : HasRuns(c))

(* A verdict, from the moment its count is taken, is about finished runs. *)
JudgedBy(s, c) ==
    \/ pc[s] = "finalize" /\ req[s].chk = c
    \/ lockC[c] = s /\ newC[c] \in Verdicts

Settled(c) == HasRuns(c) /\ \A r \in RunsOf(c) : run[r] \in Finished \cup {"none"}
SettledFor(s, c) == HasRuns(c) /\ \A r \in RunsOf(c) : View(s, r) \in Finished \cup {"none"}

VerdictsAreSound ==
    /\ \A c \in Checks : check[c] \in Verdicts => Settled(c)
    /\ \A s \in Sessions : pc[s] = "finalize" => req[s].verdict \in Verdicts
    /\ \A s \in Sessions, c \in Checks : JudgedBy(s, c) => SettledFor(s, c)

IInv == /\ TypeOK
        /\ LocksFollowSteps
        /\ VersionsAgree
        /\ CreationIsPrivate
        /\ WorkExists
        /\ VerdictsAreSound

(* And the stronger one behind the histories, "completed", cancels and the board
   (CheckBoardProofs). *)

Wrote(s, c) == \E r \in RunsOf(c) : lockR[r] = s

(* A row is held for a reason, and is committed as it was when it was taken. *)
RunLockIsDue(s, r) ==
    \/ pc[s] = "markRunning" /\ r \in req[s].runs /\ run[r] = "queued"
    \/ pc[s] \in {"derive", "finalize"} /\ req[s].run = r /\ newR[r] \in {"done", "error"}
    \/ pc[s] \in {"timeoutRuns", "derive", "finalize"} /\ req[s].run = None
         /\ newR[r] = "timeout" /\ run[r] \in Unfinished
    \/ pc[s] = "cancelRuns" /\ req[s].chk = CheckOf[r]
         /\ newR[r] = "error" /\ run[r] \in Unfinished

CheckLockIsDue(s, c) ==
    \/ pc[s] = "markRunning" /\ check[c] = "pending" /\ \E r \in req[s].runs : CheckOf[r] = c
    \/ pc[s] \in {"cancelScan", "cancelRuns"} /\ req[s].chk = c /\ check[c] \in Open
    \/ pc[s] \in {"derive", "finalize"} /\ check[c] # "cancelled" /\ Wrote(s, c)

LocksAreDue(s) ==
    /\ \A r \in Runs : lockR[r] = s => RunLockIsDue(s, r)
    /\ \A c \in Checks : lockC[c] = s => CheckLockIsDue(s, c)

(* The rows a session's work rests on are its own until it ends. *)
WorkIsLocked(s) ==
    /\ pc[s] = "markRunning" => \A r \in req[s].runs :
          /\ lockR[r] = s
          /\ CheckOf[r] \in req[s].chks \/ lockC[CheckOf[r]] = s \/ check[CheckOf[r]] # "pending"
    /\ pc[s] \in {"cancelScan", "cancelRuns"} => lockC[req[s].chk] = s
    /\ req[s].run # None => pc[s] \in {"derive", "finalize"} /\ lockR[req[s].run] = s
    /\ pc[s] \in {"markRunning", "timeoutRuns", "derive", "finalize"} =>
          \A c \in req[s].chks : Wrote(s, c)
    /\ pc[s] = "finalize" => Wrote(s, req[s].chk)

(* A cancel has reached each run of its check, or is yet to visit it, or the run
   came late, and then it cannot go out before the cancel has ended. *)
Late(r) == run[r] = "queued" /\ CheckOf[r] \in addedLate /\ check[CheckOf[r]] = "pending"

CancelIsThorough(s) ==
    pc[s] = "cancelRuns" =>
        /\ req[s].runs \subseteq RunsOf(req[s].chk)
        /\ \A r \in RunsOf(req[s].chk) :
              r \in req[s].runs \/ View(s, r) \in Finished \cup {"none"} \/ Late(r)

(* "completed", from the count onwards, is about successes. *)
JudgedComplete(s, c) ==
    \/ pc[s] = "finalize" /\ req[s].chk = c /\ req[s].verdict = "completed"
    \/ lockC[c] = s /\ newC[c] = "completed"

CompletionIsSound(s) ==
    \A c \in Checks : JudgedComplete(s, c) =>
        \A r \in RunsOf(c) : View(s, r) \in Succeeded \cup {"none"}

SessionIsSound(s) ==
    LocksAreDue(s) /\ WorkIsLocked(s) /\ CancelIsThorough(s) /\ CompletionIsSound(s)

(* A job is out at a node or in one request that reports it, and only while it
   has no result. *)
Awaited(r) == run[r] \in {"dispatched"} \cup Finished /\ results[r] = <<>>
Reporting(s, r) == r \in req[s].batch \/ req[s].run = r

JobIsInOnePlace ==
    /\ \A r \in held : Awaited(r) /\ \A s \in Sessions : ~Reporting(s, r)
    /\ \A s \in Sessions, r \in Runs :
          Reporting(s, r) => Awaited(r) /\ ~(r \in req[s].batch /\ req[s].run = r)
    /\ \A s, t \in Sessions, r \in Runs : Reporting(s, r) /\ Reporting(t, r) => s = t

(* A result is a run's last word, and "done" is never said without one. *)
HistoryFitsRun ==
    \A r \in Runs :
        /\ run[r] # "running"
        /\ dispatches[r] <= 1
        /\ run[r] \in {"none", "queued"} => dispatches[r] = 0 /\ results[r] = <<>>
        /\ run[r] = "done" => results[r] # <<>>
        /\ results[r] # <<>> =>
              lockR[r] = None /\ results[r] = <<run[r]>> /\ run[r] \in {"done", "error"}

RowsAreSound ==
    /\ CancelReachesRuns
    /\ CompletedMeansAllDone
    /\ \A c \in Checks : check[c] = "running" => HasRuns(c)

BInv == /\ IInv
        /\ \A s \in Sessions : SessionIsSound(s)
        /\ JobIsInOnePlace
        /\ HistoryFitsRun
        /\ RowsAreSound

(* And what gives a check its verdict as soon as its runs have finished, as long
   as reports of two of its runs do not meet (CheckBoardProofs). *)

ReportsApart ==
    \A s, t \in Sessions :
        s # t /\ req[s].run # None /\ req[t].run # None => CheckOf[req[s].run] # CheckOf[req[t].run]

(* A sweep that has taken a run of a check takes all that are unfinished: they
   are equally old. *)
SweepIsWhole(s) ==
    pc[s] \in {"timeoutRuns", "derive", "finalize"} /\ req[s].run = None =>
        /\ \A r \in req[s].runs : Exists(r)
        /\ pc[s] # "timeoutRuns" => req[s].runs = {}
        /\ \A c \in Checks : Wrote(s, c) \/ req[s].runs \cap RunsOf(c) # {} =>
              \A r \in RunsOf(c) : run[r] \in Unfinished => r \in req[s].runs \/ lockR[r] = s

(* Who ends runs of a check gives it its verdict, or a report has left another
   run unfinished. *)
VerdictIsOwed(s) ==
    pc[s] \in {"timeoutRuns", "derive", "finalize"} =>
        \A c \in Checks : Wrote(s, c) =>
            \/ c \in req[s].chks
            \/ pc[s] = "finalize" /\ req[s].chk = c
            \/ lockC[c] = s
            \/ check[c] \notin Open
            \/ req[s].run # None /\ \E r \in RunsOf(c) : run[r] \in Unfinished /\ lockR[r] # s

VerdictIsGiven == \A c \in Checks : Settled(c) => check[c] \notin Open

VInv == /\ BInv
        /\ \A s \in Sessions : SweepIsWhole(s) /\ VerdictIsOwed(s)
        /\ \A s \in Sessions : req[s].run # None => s \in Handlers
        /\ VerdictIsGiven
=============================================================================
