# Pingachock, specified

TLA+ specifications of pingachock: a backend that hands out network checks, the
node agents that run them, and the bot that asks for them. Each module is
translated from the source under `src/`; TLC checks small instances, TLAPS
proves the theorems named below for every value of the constants.

## The system

A client posts a *check* (a type, one or more targets, a node selector). The
backend stores one check per target and one *run* per selected node. A node
polls every ~30 s, receives its queued runs, executes them and posts results.
The check's status follows from its runs'. A sweeper times out runs that nobody
reports. The bot is the main client: it posts checks, polls until they settle
and renders a report.

| Component | State | Operations | Talks to |
|---|---|---|---|
| Check lifecycle store (`internal/store`: check_runs, checks, results) | rows of `checks`, `check_runs`, `results` | CreateCheck, CreateCheckRuns, ClaimQueuedRuns, CompleteCheckRun, TimeoutStaleRuns, CancelCheck, finalizeCheckStatusTx | PostgreSQL, one transaction each |
| Sweeper | ticker | TimeoutStaleRuns | store |
| Agent API | per request | Poll, Results | store, agents |
| Public API | per request | CreateCheck, CancelCheck, GetCheck, ListChecks; nodes, accounts, keys; server ping and upgrade scan | store, dispatch, clients |
| Dispatch | none | Resolve a selector to node ids | node registry |
| Node registry and auth | `nodes`, accounts, keys | heartbeat, block, authenticate | store |
| Virtual server node (`internal/serveragent`) | one `nodes` row, last heartbeat | Ensure, tick | store, in process |
| Migrations and boot | `schema_migrations` | RunMigrations, Ensure, start the goroutines | PostgreSQL |
| Agent poller (`internal/poller/poller.go`) | tick's jobs, semaphore, results channel, pending batch | tick, streamResults, postBatch, execute | transport, checkers, self-test |
| Agent transport | `useFallback` | Poll, PostResults over direct or fronted | backend |
| Path self-test (`internal/poller/selftest.go`) | `suspect` | tick every two minutes | read by the poller |
| Agent program (`cmd/agent`, `internal/config`) | program files, `agent.json`, the registered service | setup, configure, menu, relocate, install, start, stop, update, remove | operator, service manager |
| Network interfaces (`internal/netiface`) and the choice of one | the machine's interfaces; the pinned name in the config | List, ByName, BindControl; the setup wizard's probes and default | operating system |
| Checkers (`internal/checks`) | per check: sockets, a process and temporary files (vless); the cached xray binary | one run each: resolve, dial, handshake, exchange, diagnose | network, poller, server ping and upgrade scan |
| Agent state and log | a status file, a log file | save, rotate | menu |
| Bot client (`bot/src/pingachock-client.ts`) | polls in flight | create, poll, follow up, tracked scan | public API |
| Bot scheduler, handlers, settings (`bot/src/index.ts`, `db.ts`) | per-user state, settings documents | periodic reports, menus, target expansion | bot client, Telegram |
| Plain HTTP script, handshake target, deployment | | | stand-alone |

**What is hard.** Nothing in the backend serialises requests: overlapping polls
of a node, reports of several nodes, the sweeper, cancels and creations meet
only in PostgreSQL's row locks under READ COMMITTED, where two statements of a
transaction see different data and an UPDATE rechecks a row it waited for.
Creating a check is several transactions. Responses to polls and batches of
results get lost and are not sent again. On the agent, a semaphore, a channel
and a wait group tie the loop to its jobs, and a self-test judges a network that
changes while it looks. Its interface may vanish between two steps of a check, and
the peers it talks to may never answer. Its operator starts the program from any
folder, under any name, closes windows and reboots at any moment. Backends boot
together and die at any step. The bot polls with deadlines and edits messages without
waiting. `PROJECT.json` lists each of these hazards at its line, with the
properties that watch it.

**What makes each component correct.**
The store: a run is dispatched once and recorded once, a finished run or a
cancelled check stays so, a verdict rests on finished runs and is given, every
unfinished run ends. The sweeper and the creation: no check hangs. The poller:
each job has exactly one outcome, a tick ends, the agent can be stopped, and where
there are slots enough results wait for nothing but POSTs. The self-test: right about a network that stands still. Dispatch and
the registry: a blocked node gets no new work. Boot: instances that start
together all come up, with every migration and one virtual node, and the work of
one that dies is ended by another. The program: the service stays where it can
run, one node stays one node, an update replaces what the service runs. The
checkers: a check ends, says which address it probed, names a lost interface as
such and leaves nothing behind. The bot: what it reports as final is final, and a
check never counts as failed only because the bot stopped waiting.

## Modules

| Module | Models |
|---|---|
| `CheckStatuses` | the status enums and the groups of statuses the SQL tells apart |
| `CheckBoard` | what clients and nodes may rely on: every operation at once |
| `CheckLifecycle` | the store's transactions, statement by statement, interleaved |
| `CheckLifecycleProofs`, `CheckLifecycleSafety` | theorems about `CheckLifecycle` |
| `CheckBoardProofs` | theorems about it: jobs, results and verdicts; it implements `CheckBoard` |
| `MCCheckLifecycle` | its instances |
| `Poller`, `PollerProofs`, `MCPoller` | the agent's loop, its jobs and its transport; theorems; instances |
| `PathSelfTest`, `MCPathSelfTest` | the differential self-test and the network it looks at |
| `PathSelfTestProofs` | its theorem |
| `Registry` | accounts, keys, nodes, heartbeats, and how a selector picks nodes |
| `Backend`, `BackendProofs`, `MCBackend` | instances of the backend that boot, serve and die over one database and `Registry`; theorems; instance |
| `AgentInstall`, `AgentInstallProofs`, `MCAgentInstall` | the program as its operator uses it; theorems; instance |
| `NetIface` | the machine's interfaces as the agent sees them |
| `InterfaceChoice` (extends `NetIface`) | how one of them comes to be pinned |
| `PinnedChecks` (extends `InterfaceChoice`), `PinnedChecksProofs`, `MCPinnedChecks` | the checkers at work on it; theorems; instance |

### CheckLifecycle

A *session* is one request being handled (a public or agent call, or the virtual
node's loop, which calls the same store functions) or the sweeper of one
backend. `check`, `run`, `results` are the committed rows; `newC`, `newR` hold
the latest version of each row and `lockC`, `lockR` who holds its lock;
`req[s]` are the session's local variables, `pc[s]` its next statement.

| Action | Code |
|---|---|
| `CreateCheck`, `InsertCheck`, `CreateCheckRuns` | `POST /checks`: per target one committed INSERT, then one transaction for its runs |
| `ClaimQueuedRuns`, `MarkRunning`, `CommitClaim` | a poll: SELECT … SKIP LOCKED with the UPDATE of the same rows, the UPDATE of their checks, the commit and the response, which may be lost |
| `PostResults`, `CompleteCheckRun`, `CommitResult` | a posted batch: one transaction per result |
| `CountRuns`, `FinalizeCheckStatus` | `finalizeCheckStatusTx`, its SELECT and its UPDATE apart |
| `GracePasses`, `TimeoutStaleRuns`, `TimeoutRun`, `CommitSweep` | a sweep, row by row |
| `CancelCheck`, `CancelScan`, `CancelRun`, `CommitCancel` | a cancel: the check's row, then its runs' |
| `Fail`, `DeadlockVictim` | a statement fails or the request ends; PostgreSQL breaks a deadlock |

How the database is abstracted:

- READ COMMITTED. A SELECT (`View`) reads committed rows and the session's own
  writes. An UPDATE of several rows fixes the set it visits when it starts
  (`TimeoutStaleRuns`, `CancelScan`), takes the rows in any order, waits for a row
  somebody else holds and rechecks its WHERE clause (`StillUnfinished`,
  `Finalizable`, `Cancellable`). A row lock kept after a recheck that failed is not
  modelled: nothing is written under it and it can only delay. The claim's
  SELECT and its UPDATE of the same locked rows are one step: nobody can come
  between them.
- `ORDER BY created_at` of the claim is any choice of at most `PollLimit` runs.
  (The code's cap of 50 or 100 is a constant here.)
- `SetCheckWarnings` writes a column no statement reads for its decisions; a
  failure there is the failure before `CreateCheckRuns`.
- Time is one bit per check, `overdue`: its runs are older than the grace period.
  All runs of a check are created in one transaction and share `created_at`.
- A node reports each job it was given at most once: the poller drops a batch
  whose POST failed. `held` is what nodes know of and have not reported yet. A node
  that posted a run twice would get it two rows in `results` (`check_runs.go:139`
  inserts on every call), which `OneResultPerRun` therefore does not exclude.
- Inputs: a batch of targets is a set of checks that do not exist yet, a selector
  the set of nodes it resolved to; a node named twice in `node_ids` has two runs of
  the check. Whether a probe succeeds is a free choice.

`CheckBoard` is what remains when each transaction happens at once. Its one
freedom, and the reason it is worth writing down, is `Judge`: after a report or a
sweep the verdict may be missing although all runs have finished, because the
code does allow that (see *Disagreements*). `ImplementsBoard` maps `check` and `run`
to themselves: every commit is one operation of the board.

### Poller

`step` is where the loop's goroutine is, `worker[j]` the goroutine of each job
(*sent*: its result is in the channel, its slot still taken; *returned*: the
deferred calls have run), `results` and `closed` the channel, `pending` the batch
being gathered, `via` the transport `Failover` uses, `elapsed` how long the POST
under way has taken. `age` and `fate` record how long a result has waited and what
became of it, `fails` how many calls failed over the primary.

- An HTTP call succeeds or fails; all failures, an error status included, are one
  to the agent (`HTTPTransport.do` returns an error, `Failover` switches).
- A job's probe always returns a result; how is the checkers' business.
- `suspect` turns at any time: any behaviour of the self-test is covered.
- Time advances by one flush interval while the loop waits for a probe (`Blocked`)
  or for the answer to a POST (`Posting`), which `postBatch` sends from the streaming
  loop itself: until it comes, at most `PostTime` intervals later, nothing is
  received or flushed, while probes go on and their results queue up. `PostTime`
  stands for the HTTP client's timeout (30 s, `main.go:105`, 60 intervals).
- `Ready(j)` is a result nobody has begun to send, so its age includes the POSTs of
  others that it waits behind, but not its own.
- A poll without jobs and the saved status snapshot change nothing modelled.
- The jobs of a tick start in any order.

### PathSelfTest

`DialBound` and `DialUnbound` are the two dials of a target; `TargetTurns` and
`InterceptionTurns` change the network at any moment, between the two included.
`seen` records what the last finished test had before it and whether the network
stood still meanwhile. Targets are taken in any order. Cancellation, after which
dials fail and the agent is about to exit, is left out.

### Registry and Backend

`Registry` has one action per operation that changes what authentication and
dispatch look at (`CreateAccount`, `CreateAPIKey`, `RevokeAPIKey`, `CreateNode`,
`SetNodeBlocked`, `TouchHeartbeat`, and `Lapse`: the threshold passes), and
`Resolve`, the pure part of dispatch: named nodes run unless blocked, offline or
not; *all* and *tags* pick open nodes that are online (or any, if asked), never
the virtual one.

`Backend` runs several instances over it. `pc[i]` is where instance *i* is in `main`.

| Action | Code |
|---|---|
| `Boot`, `CheckMigration`, `ExecMigration`, `CommitMigration` | `RunMigrations`: look, apply and record in one transaction, commit |
| `GetVirtualNode`, `CreateVirtualNode`, `RereadVirtualNode` | `serveragent.Ensure` |
| `Tick`, `Execute` | the virtual node's runner: heartbeat, claims, results |
| `Sweep` | the sweeper, which starts before `Ensure` |
| `Authenticate`, `ResolveSelector`, `CreateCheck` | `POST /checks` up to its runs |
| `AgentPoll`, `AgentResult` | the agents' two calls, heartbeat included |
| `Admin`, `Block` | the administrator's calls |
| `Crash` | the instance is killed or told to stop; its requests are lost |

- What a run goes through inside the store is `CheckLifecycle`'s; here a claim, a
  result and a sweep are one step each, and a run is *queued*, *claimed*, *done* or
  *timeout*. A result overwrites a timeout, as `CompleteCheckRun` does; that the run
  was claimed before it was swept is not recorded, so one that was not may get a
  result too, a behaviour more than the code has.
- A migration's DDL makes other instances wait, and makes theirs fail once it has
  committed: that is `ddl`. Two instances that create `schema_migrations` itself at
  the same instant have the same two outcomes and are not told apart.
- The time between `Resolve` and the insert is open: blocks, deaths and heartbeats
  fall in between. `barred` records which nodes have been blocked ever since the
  request began. (A named node that is offline gets its run with the warning that
  it "will wait for it to reconnect", `dispatch.go:58`; it waits no longer than the
  sweeper's grace, which `Sweep` shows.)

### AgentInstall

`files[d][n]` is the version of the program in folder *d* under name *n*,
`config[d]` the config there (*torn* while `Save` has emptied it, *blank* when it was
saved without answers), `service` what the operating system has registered and
runs, `cli` the operator's command: its step, the copy it runs from and the config
it works on.

| Action | Code |
|---|---|
| `DoubleClick`, `Command` | `main`: the copy, its config or the canonical one, wizard or menu |
| `Relocate`, `ReportDirProblem` | `relocateIfRisky` with the copy's re-execution |
| `Dispatch`, `Choose`, `Acknowledge` | the switch on the action; the menu |
| `ResolveConfig`, `ResolveNothing`, `Truncate`, `Write`, `SaveFails` | `resolveConfig` and `config.Save`, whose `os.WriteFile` is two steps |
| `Install`, `Stop`, `StopRefused`, `Start`, `StartRefused`, `DarwinBootstrapRecover`, `Uninstall`, `RemoveConfig` | `service.Control` and what each caller does with its error |
| `CopyBinary`, `CopyFails` | `runUpdate` between its stop and its start |
| `Drop`, `Close`, `ServiceDies`, `Reboot` | the operator and the machine |

Every service operation may fail, and so may the copy of the config in a relocation,
whose error is ignored: the program goes on with whatever is there. On Windows and Linux a running program's file
cannot be replaced; the service manager starts the service again after a reboot.
Commands use the default config name. One command runs at a time.

### NetIface, InterfaceChoice, PinnedChecks

`nic[i]` is what interface *i* consists of right now; `NicTurns` changes it between
any two steps, at most `MaxTurns` times. `InterfaceChoice` has one action per way
through the wizard (a name, automatic, by hand, unattended) with the probes in
between, and the agent's start, which reads the interface's address once
(`BuildNetConfig`). `PinnedChecks` gives every check a `stage`, its next step:

| Action | Code |
|---|---|
| `Start`, `ServerPing`, `ServerUpgradeScan` | a job of a tick; one target of a request, without an interface |
| `ResolveBoundInterface`, `ResolveIP`, `PickPreferredIP` | the interface as it is now; the one lookup and the address it takes |
| `Dial`, `Connect`, `Handshake`, `Exchange`, `Diagnose` | tcp, tls, http and upgrade checks, with the retries of tls and its packet after a failure |
| `Lookup`, `Exec`, `ServerPort` | dns; ping; the ports of a server ping |
| `EnsureXrayBinary` … `Spawn`, `WaitForPort`, `RunSpeedTest`, `Cleanup` | vless: binary, port, interface, config, process, download, deferred calls |
| `Expire`, `Cancel` | a deadline of the check; the agent is told to stop |
| `XrayRuns`, `XrayExits` | the child process |

- An answer is a free choice among the errors a checker tells apart; latencies,
  payloads and packet counts beyond *some* or *none* are left out.
- Every wait has a deadline of its own (`Bounded`): `tcp.go:37`, `http.go:42`,
  `dns.go:43` and `:49`, `tls.go:66`, `:91` and `:173`, `upgrade.go:67` and `:79`,
  `ping.go:76`, `vless.go:94` and `:347`, `checks.go:142`. The per-port waits of a server
  ping are taken to end.
- A lookup may return different addresses each time it is made.
- A bound socket fails when its interface is gone; one that merely lost its
  address may go either way, and only ping and vless look at the address.
- A file of the right size is taken for the xray binary, as in the code.

Read with the model in hand: a failed lookup leaves the name to the dialer, which
may look it up again through the system's resolver (`checks.go:145`); and the port
`freePort` finds is free again until xray takes it, so two vless checks may meet
on one port and one of them measures through the other's proxy or fails. The
properties allow both.

## Runs

| Run | Checks | Bounds |
|---|---|---|
| `fan` | the safety properties of the lifecycle and `ImplementsBoard` | 2 checks, 3 runs on 2 nodes, 2 requests at once and the sweeper, 1 cancel |
| `settle` | `RunsFinish` under fairness | 1 check with twin runs on a node, 2 requests and the sweeper, 1 failure, 1 cancel |
| `serial` | `VerdictFollowsRuns`, `ChecksSettle` when requests do not overlap one another | 1 check, 2 runs, 1 request and the sweeper, 1 cancel |
| `write_skew` | expected violation | 1 check, 2 runs, 2 requests |
| `half_created` | expected violation | 1 check, 1 request, 1 failure |
| `poller` | the poller's safety, `WaitsOnlyForPosts`, liveness | 3 jobs, 2 at a time, batches of 2, a fallback, POSTs of up to 1 interval |
| `big_tick` | expected violation | 3 jobs, 1 at a time, POSTs that take no time |
| `path_test` | the self-test's verdict on a still world, and its liveness | the 2 targets `cmd/agent` configures |
| `install` | the service's place, one node, updates that replace, commands that end | 3 folders (the standard one, downloads, another), 2 names, 2 versions, Windows and macOS, first saved among the downloads, 1 file put in place, 1 break |
| `stale_update` | expected violation | the same on Linux |
| `checkers` | the checkers' safety and that every check ends | 2 interfaces, 2 changes of them, one check of any type or two vless checks, 2 possible answers to a lookup, 1 port, 2 tries |
| `backend` | boot, dispatch and recovery, safety and liveness | 2 instances, 2 migrations, 1 request, 1 node and the virtual one, 1 account, 1 key, 1 crash |

Why these bounds show the interesting cases. In `fan` one poll claims runs of two
checks, one check has runs on two nodes, and three sessions suffice for every
pair of transactions to meet a third that waits for them; deadlocks between a
cancel and a claim, a report or a sweep occur in `fan` and `settle`. `MaxFaults`
and `MaxCancels` bound what is injected; the history counters follow from those.
In `poller` the tick is larger than the semaphore and than a batch, and a later
tick takes the jobs an earlier one left; a POST may last one interval, so that a
result can finish behind it and be due at its end, and `OnlyPostsHoldResults` holds
for any `PostTime`. `MaxAge` caps the age at one more than
the property allows, `MaxFails` the count of failures likewise.
In `install` the first copy is saved among the downloads (`Origins`; a copy in the
third folder is what the one drop may add before the first command), and a copy may lie in a risky folder, in the standard one
and in a third at once, under the service's name or another; one drop makes a
newer version appear anywhere or the installed one disappear, one break cuts a
command short at any step; commands themselves are not bounded. In `checkers` two
changes let the interface go and come back within one check; two checks are needed
only where checks share something, the xray binary and the ports. In `backend` two
instances suffice for each race (the third party to a race is the database), two
migrations for a boot that finds half of them applied, one crash for every point
at which an instance can die and be started again.

Deadlock checking is off (`CHECK_DEADLOCK FALSE`) for the lifecycle, which is done
once all checks exist and have settled, for the poller, which stops, and for the
program, whose last break may leave it at rest with nothing to start. Elsewhere it
is on.

**Fairness.** In `CheckLifecycle`, a transaction that has begun goes on, and gets
a row it waits for once the holder lets go (strong fairness: PostgreSQL queues
waiters, but locks come and go); the deadlock detector acts; the grace period
passes; the sweeper's ticker keeps firing. Clients and nodes owe nothing: no
fairness on polls, reports, cancels, and a report may never come. In `Poller`,
runnable goroutines run and probes and HTTP calls end because each has a timeout
of its own (`select` picks at random among ready cases, so none is starved). In
`PathSelfTest`, dials time out after five seconds and the ticker goes on. In
`AgentInstall`, a command that runs goes on by itself; nothing is owed by the
operator, who may leave the menu open for ever. In `PinnedChecks`, the program's own
steps and the deadlines a check sets happen; no answer ever has to come, not even
xray's. In `Backend`, an instance that exits is started again
(`docker-compose.prod.yml`: `restart: unless-stopped`), its boot goes on and its
sweeper keeps its interval; agents, clients and the virtual node's runner owe
nothing.

## Disagreements with the comments

- `write_skew`: two nodes report the last two runs of a check at the same time;
  each transaction counts the other's run as unfinished, neither writes the
  verdict, and the check stays *running* with all runs finished. `check_runs.go:110`
  says the status is re-derived "once every run has finished".
- `half_created`: a check whose runs were never inserted stays *pending*; the
  sweeper starts from runs. `sweeper.go:1` says a check "can't hang in
  'pending'/'running' forever".
- `big_tick`: with more jobs than slots the loop waits on the semaphore before it
  starts to stream. `poller.go:157` promises a report "within
  resultFlushInterval of finishing, full stop, regardless of batch size". POSTs take
  no time in this run, so the semaphore alone is the cause. In a tick that fits the
  slots "full stop" is too strong as well: the streaming loop waits for each POST
  (`poller.go:168`, `:204`), so a result that finishes meanwhile waits for as long as
  30 s a batch. What is left of the promise there is `WaitsOnlyForPosts`: one interval
  and the POSTs of other results, no probe and no batch size.
- `stale_update`: where programs have no extension, `installedBinaryPathIn` counts
  `agent.json` and `agent.state.json` as programs, so an update from a renamed file
  lands beside the program the service goes on running, and reports success.
  `main.go:698` says a lone binary "is it (whether or not its name happens to match
  newExePath's own)".

Smaller ones, found while reading: `docs/ARCHITECTURE.md:218` says a relocation that
fails "just continues from the original place", `reportDirProblem` exits;
`selftest.go:24` says the test "can never false-positive just because a target is
itself down", but a target that comes up between its two dials raises the alarm
(`StillWorldIsJudgedRight` is therefore about a world that stands still); an update
whose copy fails leaves the service stopped (`main.go:353`).

## Proofs

For all values of the constants that satisfy the modules' ASSUMEs (sets may be
infinite where the ASSUMEs do not say otherwise). `CheckLifecycle`: each run has a
check and a node, `None` is none of them, a session is either a request or a sweeper.

- `TypeCorrect` (`CheckLifecycleProofs`): `Spec => []TypeOK`.
- `Invariance` (`CheckLifecycleSafety`): `Spec => []IInv`. None of the safety
  properties is inductive: that a cancelled check stays cancelled depends on what
  the open transactions have written, and who may have. `IInv` adds
  - `LocksFollowSteps`: a lock's holder is at a step that takes such locks, and
    what it has written is what that step writes;
  - `VersionsAgree`: a row nobody holds has one version, and no version of a
    finished run or a cancelled check would undo it, so neither commit nor
    rollback can;
  - `CreationIsPrivate`: a row that does not exist is nobody's, and two requests
    never create the same one;
  - `WorkExists`: what a session or a node works on exists;
  - `VerdictsAreSound`: from the count onwards, through the write and up to the
    commit, a verdict is about finished runs. The heart of the argument: runs
    counted as finished stay finished, because the count's transaction either
    holds them or saw them committed, and runs of the check are never inserted
    later (`CreationIsPrivate`).
- From `IInv`: `VerdictsWait` (`VerdictMeansFinished`), `CancelStands`
  (`CancelIsFinal`), `VerdictStands` (`VerdictIsFinal`), `FinishedRunsStay`
  (`FinishedStaysFinished`).
- `BoardInvariance` (`CheckBoardProofs`): `Spec => []BInv`. `IInv` says what may be
  written; it does not say whose a run is or why a row is held. `BInv` adds
  - `LocksAreDue`: a row is held for one of four reasons (claim, result, sweep,
    cancel), and is committed as it was when it was taken;
  - `WorkIsLocked`: the rows a session's work rests on are its own until it ends;
  - `CancelIsThorough`: a cancel has reached each run of its check, or has still to
    visit it, or the run came after the cancel had begun;
  - `CompletionIsSound`: "completed", from the count onwards, is about successes;
  - `JobIsInOnePlace`: a job is out at a node or in one request that reports it,
    and has no result yet;
  - `HistoryFitsRun`, `RowsAreSound`: results and dispatches fit the run's status, and
    what is shown of a check is true of its runs.

  A step of one session disturbs the others very little (`LeavesOthers`, `Forward`),
  which `OthersStaySound` shows once; each action's lemma is about its own session.
  From `BInv`: `RunsGoOutOnce` (`DispatchedOnce`), `ResultsAreSingle`
  (`OneResultPerRun`; it rests on nodes that report each job at most once, since
  `CompleteCheckRun` would add a row for a second report), `ResultsStand` (`RecordedResultStands`), `CompletedIsHonest`
  (`CompletedMeansAllDone`), `CancelIsComplete` (`CancelReachesRuns`).
- `Implements` (`CheckBoardProofs`): `Spec => ImplementsBoard`, the rows mapped to
  themselves. `InsertCheck` is the board's `CreateCheck`, `CreateCheckRuns` its `AddRuns`,
  `CommitClaim` its `Dispatch`, `CommitResult` its `Report`, `CommitSweep` its `Expire`,
  `CommitCancel` its `CancelCheck`; every other step stutters.
- `VerdictNeedsReportsApart` (`CheckBoardProofs`): `Spec /\ []ReportsApart =>
  []VerdictFollowsRuns`, where `ReportsApart` says that no two transactions of
  `CompleteCheckRun` are at work on runs of one check. Nothing in the code makes it
  so (two nodes may well report together), but it shows that the race of
  `write_skew` is the only one that loses a verdict: sweeps, cancels, claims,
  creations, failures and deadlocks may interleave with reports as they like. The
  argument is `VInv`: a sweep that has taken one run of a check takes all that are
  unfinished, because they are equally old (`SweepIsWhole`), and who ends runs of a
  check owes it the verdict, unless it is a report that leaves another run
  unfinished (`VerdictIsOwed`). `VerdictFollowsOneByOne` is the case of one request at
  a time beside any number of sweepers, which `serial` runs.
- `StillWorldJudged` (`PathSelfTestProofs`): `StillWorldIsJudgedRight` for any set of
  targets, from `TestIsOnCourse`, which says what the test knows of the targets it
  has dialled so far.

- `PollerProofs`: `TypeCorrect`; `EveryJobSettled` (`TickAccountsForEveryJob`),
  `NoSendOnClosed` (`ClosedAfterSends`), `OnlyOneCallLost` (`OneCallLost`), for any number
  of jobs, slots and batch size. What has to be added: a result is in exactly one
  of channel, pending batch and fate (`ResultIsOnePlace`), goroutines that have not
  returned belong to the tick (`WorkersBelong`), a closed channel lies behind the
  last return and a finished tick is empty (`TickIsClosed`), the primary is used
  only while it has not failed (`PrimaryUnfailed`). The lemmas on `Tail` and `Append`
  say what each does to the range of a sequence without repetitions.
  `OnlyPostsHoldResults` (`WaitsOnlyForPosts`), for any length of a POST: with a slot for
  each job the loop never waits for one (`SlotsSuffice`, a count of the goroutines
  that hold slots). What a result may have waited is what the POSTs so far have
  taken (`Paid`), and no batch is empty, so each POST has a settled result to pay for
  it (`BatchCounts`, `OneMorePost`); a result that has waited for an interval more is
  in a batch whose flush is due before the next interval passes
  (`AgeBeginsAtTheEnd`, `FlushIsDue`).
- `BackendProofs`: `TypeCorrect`; `ReadyToServe` (`ServingMeansReady`), `LostRaceHarmless`
  (`LostRaceIsHarmless`), `BlockedOut` (`BlockedStaysOut`), for any number of instances,
  migrations, requests, nodes and crashes. `BootedInOrder`: every migration before
  the one an instance looks at is applied, so an instance past the last one has
  them all, and one that lost the race finds the winner's node. `BarredAreBlocked`:
  a node that still counts as barred is blocked, so what was resolved leaves it out.
- `AgentInstallProofs`: `TypeCorrect`; `ServiceStaysPut` (`ServiceOutOfRiskyDirs`),
  `NoSecondNode` (`NoSecondInstall`), for any folders, names, platforms and number of
  breaks. `InstallerIsPlaced`: a command that may install runs from a usable folder
  with a usable config, which rests on where relocation takes place (`ConfigIsNear`)
  and on the standard folder being writable if a config was written there
  (`SafeWasWritable`, `WritesWhereItMay`); `StepIsMeant`: only such commands reach the
  steps that change the service; `OtherNodeIsComplete`: a command at work elsewhere
  while the standard place has its node found a complete config there.
  `ClearUpdateDoesReplace` (`ClearUpdateReplaces`): the name `InstalledBinary` finds is the
  service's own when programs have an extension and only one is there, or when the
  new program has the service's name; and of an update's steps only the copy goes
  on to the start (`OnlyCopyGoesOn`).
- `PinnedChecksProofs`: `TypeCorrect`; `ReportedIsTheOneProbed` (`ReportedIsProbed`),
  `XrayIsInHand` (`XrayIsKeptInHand`), `LostInterfaceNamed` (`LostInterfaceIsNamed`), for any
  interfaces and changes of them, checks, answers to lookups, ports and tries. `IInv`
  adds what a check's stage says of the rest: which stages its type goes through
  and what it has resolved by then (`KeepsCourse`), that the address it reports was
  settled before the probe (`ProbeIsSettled`), which files and process it has at which
  stage (`FilesFitStage`), and how far a check gets whose interface was gone when it
  began and has not come back (`LostIsStuck`). Each action is shown over one check.

Proofs have one lemma per action and, where rows are committed or rolled back,
share the lemmas about commits; frames (`PrivateKept`, `GotoFrame`) say once what
a step that touches only its own session leaves alone.

Model-checked only: liveness (`RunsFinish`, `ChecksSettle`, `TickEnds`,
`StopsWhenCancelled`, `InterceptionIsNoticed`, `AlarmIsCleared`, `CommandEnds`,
`CheckEnds`, `AllServe`, `EveryRunSettles`), which rests on fairness and ENABLED and is
outside the prover's reach. Every safety property of the passing runs has its
theorem; `VerdictFollowsRuns` has one under the condition above, without which it is
false.

What the ASSUMEs ask, beyond types: `Jobs` is finite, because a tick is a list; a
lookup's answer is never empty, because a lookup that finds nothing fails; bounds
are numbers.

## Plan

Done so far, in the order of importance: the store's transactions and their
refinement of `CheckBoard`; the agent's poller and self-test; the backend's
instances with registry and dispatch; the agent program; interfaces and checkers;
theorems for all safety properties, and for the refinement. What would come next:

1. `BotClient`: the two-pass poll and the tracked scan against `CheckBoard`, with
   GetCheck's two queries; progress edits that overtake one another.
2. `PeriodicHealth`: the scheduler's per-user state when reports are switched off and
   on under way; settings that are read, changed and written across an await.
3. `Targets`: IPv4 range and CIDR expansion with 32-bit words against a reference
   definition.
4. `Poller` composed with `PathSelfTest`: what was measured during an interception
   and is posted, what was withheld and is lost.
5. Theorems about these modules, and the liveness of the store by hand: what the
   sweeper's fairness buys, as a chain of leads-to steps TLC can check one by one.

## Not modelled

- The bot (client, handlers, scheduler, settings): it is a client of the public
  API, nothing in the backend or the agent rests on what it does, and most of it is
  menus and wording. Its hazards are listed.
- The agent's log, the menu's status screen and log view, the handshake target, the
  plain HTTP script and the deployment files: I/O without a protocol of their own.
- Reads for display (GetCheck, ListChecks, lists of nodes, accounts and keys).
- Names, tags and addresses of nodes; wording, latencies and payloads of results.
- `UpdateCheckStatus` is never called, and the run status *running* is never written.
