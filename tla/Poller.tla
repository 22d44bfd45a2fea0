------------------------------- MODULE Poller -------------------------------
(***************************************************************************)
(* A node agent's main loop (internal/poller) and the transport it calls    *)
(* (internal/transport): poll, execute the jobs concurrently, stream the     *)
(* results back.  One goroutine runs the loop; each job has a goroutine of    *)
(* its own, and one more closes the results channel behind them.             *)
(*                                                                         *)
(* Time is counted in flush intervals.  It passes while the loop waits for a  *)
(* check to finish, and while it waits for the answer to a POST; next to      *)
(* these, its other steps take none.                                        *)
(***************************************************************************)
EXTENDS Integers, FiniteSets, Sequences, Functions

CONSTANTS
    Jobs,           \* check runs the backend may hand to this node, a finite number
    MaxConcurrent,
    FlushBatch,     \* resultFlushBatchSize
    HasFallback,    \* a fronted transport is configured
    PostTime,       \* the HTTP client's timeout, in flush intervals
    MaxAge,         \* bound on the age up to which a result is followed
    MaxFails        \* bound on the failures of the primary that are counted

ASSUME SizeAssumption ==
    /\ MaxConcurrent \in Nat \ {0} /\ FlushBatch \in Nat \ {0}
    /\ PostTime \in Nat /\ MaxAge \in Nat /\ MaxFails \in Nat
ASSUME FallbackAssumption == HasFallback \in BOOLEAN
ASSUME JobsAssumption == IsFiniteSet(Jobs)

VARIABLES
    step,       \* where the loop's goroutine is
    jobs,       \* the jobs of the current tick
    worker,     \* the goroutine of each job
    results,    \* resultsCh, a channel with room for every job of the tick
    closed,     \* resultsCh is closed
    pending,    \* results received and not posted yet
    flushDue,   \* the flush ticker has fired
    elapsed,    \* how long the POST under way has taken
    suspect,    \* what PathTest.Suspect() returns
    via,        \* the transport Failover.current() returns
    cancelled,  \* ctx is cancelled
    age,        \* intervals for which each result has been waiting
    fate,       \* history: what became of each result
    fails       \* history: calls that failed over the primary

loop == <<step, jobs, pending, flushDue, elapsed, age, fate>>
workers == <<worker, results, closed>>
network == <<via, fails>>
vars == <<loop, workers, network, suspect, cancelled>>

TypeOK ==
    /\ step \in {"idle", "launch", "stream", "flush", "post", "stopped"}
    /\ jobs \subseteq Jobs
    /\ worker \in [Jobs -> {"none", "running", "sent", "returned"}]
    /\ results \in Seq(Jobs)
    /\ closed \in BOOLEAN
    /\ pending \in Seq(Jobs)
    /\ flushDue \in BOOLEAN
    /\ elapsed \in 0..PostTime
    /\ suspect \in BOOLEAN
    /\ via \in {"primary", "fallback"}
    /\ cancelled \in BOOLEAN
    /\ age \in [Jobs -> 0..MaxAge]
    /\ fate \in [Jobs -> Seq({"posted", "refused", "withheld"})]
    /\ fails \in 0..MaxFails

Init ==
    /\ step = "idle"
    /\ jobs = {}
    /\ worker = [j \in Jobs |-> "none"]
    /\ results = <<>>
    /\ closed = FALSE
    /\ pending = <<>>
    /\ flushDue = FALSE
    /\ elapsed = 0
    /\ suspect = FALSE
    /\ via = "primary"
    /\ cancelled = FALSE
    /\ age = [j \in Jobs |-> 0]
    /\ fate = [j \in Jobs |-> <<>>]
    /\ fails = 0

-----------------------------------------------------------------------------
(* Transport.  A call may fail at any time: the backend is not reached, it
   answers with an error status, the context is cancelled.  The first error of
   the primary, whatever it is, moves the agent to the fronted transport. *)

MutFailedOver == via                \* mutant: markFailed does not switch

MutNoTransport == "none"            \* mutant: switches although there is no fallback

FailedOver == IF HasFallback THEN "fallback" ELSE via

Succeeds == ~cancelled /\ UNCHANGED network

Fails ==
    /\ via' = FailedOver
    /\ fails' = IF via = "primary" /\ fails < MaxFails THEN fails + 1 ELSE fails

-----------------------------------------------------------------------------
(* tick: poll and launch.  A poll that brings no jobs changes nothing. *)

PollFails ==
    /\ step = "idle"
    /\ Fails
    /\ UNCHANGED <<loop, workers, suspect, cancelled>>

PollSucceeds(S) ==
    /\ step = "idle"
    /\ S # {}
    /\ \A j \in S : worker[j] = "none"
    /\ Succeeds
    /\ step' = "launch"
    /\ jobs' = S
    /\ closed' = FALSE
    /\ UNCHANGED <<worker, results, pending, flushDue, elapsed, age, fate, suspect, cancelled>>

Waiting == {j \in jobs : worker[j] = "none"}
Slots == {j \in jobs : worker[j] \in {"running", "sent"}}
SlotFree == Cardinality(Slots) < MaxConcurrent

LaunchJob(j) ==
    /\ step = "launch"
    /\ j \in Waiting
    /\ SlotFree
    /\ worker' = [worker EXCEPT ![j] = "running"]
    /\ UNCHANGED <<loop, results, closed, network, suspect, cancelled>>

(* The closer is started and the loop becomes streamResults, whose ticker
   starts now. *)
StartStreaming ==
    /\ step = "launch"
    /\ Waiting = {}
    /\ step' = "stream"
    /\ UNCHANGED <<jobs, pending, flushDue, elapsed, age, fate, workers, network, suspect, cancelled>>

-----------------------------------------------------------------------------
(* The jobs' goroutines, and the closer's. *)

MutRoom == step = "stream" /\ results = <<>>    \* mutant: an unbuffered channel

Room == Len(results) < Cardinality(jobs)

Execute(j) ==
    /\ worker[j] = "running"
    /\ Room
    /\ worker' = [worker EXCEPT ![j] = "sent"]
    /\ results' = Append(results, j)
    /\ UNCHANGED <<loop, closed, network, suspect, cancelled>>

(* The deferred calls: the slot is released and the wait group counted down. *)
Return(j) ==
    /\ worker[j] = "sent"
    /\ worker' = [worker EXCEPT ![j] = "returned"]
    /\ UNCHANGED <<loop, results, closed, network, suspect, cancelled>>

MutAllReturned == \E j \in jobs : worker[j] = "returned"   \* mutant: one wg.Add for all

AllReturned == \A j \in jobs : worker[j] = "returned"

CloseResults ==
    /\ step \in {"stream", "flush", "post"}
    /\ AllReturned
    /\ ~closed
    /\ closed' = TRUE
    /\ UNCHANGED <<loop, worker, results, network, suspect, cancelled>>

-----------------------------------------------------------------------------
(* streamResults and postBatch. *)

Receive ==
    /\ step = "stream"
    /\ results # <<>>
    /\ results' = Tail(results)
    /\ pending' = Append(pending, Head(results))
    /\ step' = IF Len(pending') >= FlushBatch THEN "flush" ELSE "stream"
    /\ UNCHANGED <<jobs, flushDue, elapsed, age, fate, worker, closed, network, suspect, cancelled>>

FlushOnTick ==
    /\ step = "stream"
    /\ flushDue
    /\ flushDue' = FALSE
    /\ step' = IF pending = <<>> THEN "stream" ELSE "flush"
    /\ UNCHANGED <<jobs, pending, elapsed, age, fate, workers, network, suspect, cancelled>>

Drained == closed /\ results = <<>>

FlushOnClose ==
    /\ step = "stream"
    /\ Drained
    /\ pending # <<>>
    /\ step' = "flush"
    /\ UNCHANGED <<jobs, pending, flushDue, elapsed, age, fate, workers, network, suspect, cancelled>>

MutKept == Tail(pending)            \* mutant: only the first result is taken off pending

Kept == <<>>

Settle(outcome) ==
    /\ fate' = [j \in Jobs |->
                  IF j \in Range(pending) THEN Append(fate[j], outcome) ELSE fate[j]]
    /\ pending' = Kept
    /\ step' = "stream"
    /\ elapsed' = 0
    /\ UNCHANGED <<jobs, flushDue, age, workers, suspect, cancelled>>

Withhold ==
    /\ step = "flush"
    /\ suspect
    /\ Settle("withheld")
    /\ UNCHANGED network

(* The loop waits for the answer: nobody receives or flushes until it comes. *)
SendBatch ==
    /\ step = "flush"
    /\ ~suspect
    /\ step' = "post"
    /\ UNCHANGED <<jobs, pending, flushDue, elapsed, age, fate, workers, network, suspect, cancelled>>

PostResults ==
    /\ step = "post"
    /\ \/ Succeeds /\ Settle("posted")
       \/ Fails /\ Settle("refused")

EndTick ==
    /\ step = "stream"
    /\ Drained
    /\ pending = <<>>
    /\ step' = "idle"
    /\ flushDue' = FALSE
    /\ UNCHANGED <<jobs, pending, elapsed, age, fate, workers, network, suspect, cancelled>>

-----------------------------------------------------------------------------
(* The rest of the agent, and time. *)

(* The self-test's goroutine changes its mind. *)
PathTestTurns ==
    /\ suspect' = ~suspect
    /\ UNCHANGED <<loop, workers, network, cancelled>>

Stop ==
    /\ ~cancelled
    /\ cancelled' = TRUE
    /\ UNCHANGED <<loop, workers, network, suspect>>

Exit ==
    /\ step = "idle"
    /\ cancelled
    /\ step' = "stopped"
    /\ UNCHANGED <<jobs, pending, flushDue, elapsed, age, fate, workers, network, suspect, cancelled>>

(* The loop can go on only when some check finishes. *)
Blocked ==
    \/ step = "launch" /\ Waiting # {} /\ ~SlotFree
    \/ step = "stream" /\ results = <<>> /\ ~flushDue /\ ~AllReturned

(* The answer to a POST is on its way. *)
Posting == step = "post" /\ elapsed < PostTime

InPost == IF step = "post" THEN Range(pending) ELSE {}

(* A result nobody has begun to send. *)
Ready(j) == worker[j] \in {"sent", "returned"} /\ fate[j] = <<>> /\ j \notin InPost

MutTickerRuns == FALSE              \* mutant: no case <-ticker.C

TickerRuns == step \in {"stream", "post"}

IntervalPasses ==
    /\ Blocked \/ Posting
    /\ \A j \in Jobs : worker[j] # "sent"
    /\ age' = [j \in Jobs |-> IF Ready(j) /\ age[j] < MaxAge THEN age[j] + 1 ELSE age[j]]
    /\ flushDue' = TickerRuns
    /\ elapsed' = IF Posting THEN elapsed + 1 ELSE elapsed
    /\ UNCHANGED <<step, jobs, pending, fate, workers, network, suspect, cancelled>>

-----------------------------------------------------------------------------

Loop ==
    \/ \E j \in Jobs : LaunchJob(j)
    \/ StartStreaming
    \/ Receive
    \/ FlushOnTick
    \/ FlushOnClose
    \/ Withhold
    \/ SendBatch
    \/ PostResults
    \/ EndTick

Next ==
    \/ PollFails
    \/ \E S \in SUBSET Jobs : PollSucceeds(S)
    \/ Loop
    \/ \E j \in Jobs : Execute(j) \/ Return(j)
    \/ CloseResults
    \/ PathTestTurns
    \/ Stop
    \/ Exit
    \/ IntervalPasses

Spec == Init /\ [][Next]_vars

(* A goroutine that can run does, and a check finishes: every checker and every
   HTTP call has a timeout of its own.  When both cases of a select are ready
   Go picks one at random, so neither is passed over for ever. *)
Fairness ==
    /\ WF_vars(Loop)
    /\ WF_vars(CloseResults)
    /\ WF_vars(Exit)
    /\ \A j \in Jobs : WF_vars(Execute(j)) /\ WF_vars(Return(j))

FairSpec == Spec /\ Fairness

-----------------------------------------------------------------------------
(* Safety. *)

(* When a tick is over, each of its jobs has had exactly one outcome: no result
   is left in the channel or in the pending batch, and none is sent twice. *)
TickAccountsForEveryJob ==
    step = "idle" => \A j \in jobs : Len(fate[j]) = 1

(* No goroutine sends on the closed channel, which would crash the agent. *)
ClosedAfterSends ==
    closed => \A j \in jobs : worker[j] \notin {"none", "running"}

(* With a fronted transport configured, a blocked direct channel costs the
   agent one call: every later poll or batch goes round it. *)
OneCallLost == HasFallback => fails <= 1

(* streamResults' promise: "a result is now reported within resultFlushInterval
   of finishing, full stop, regardless of batch size". *)
ReportedPromptly == \A j \in Jobs : Ready(j) => age[j] <= 1

(* What is left of the promise in a tick with no more jobs than the agent runs
   at once: a result that nobody has begun to send has waited for one flush
   interval at most, and for the POSTs of others, each as long as the client's
   timeout and with a result of its own.  Neither the checks still running nor
   the size of the batch keep it. *)
Settled == {j \in jobs : fate[j] # <<>>}
Handed == Settled \cup InPost

WaitsOnlyForPosts ==
    Cardinality(jobs) <= MaxConcurrent =>
        \A j \in Jobs : Ready(j) => age[j] <= 1 + PostTime * Cardinality(Handed)

(* Liveness. *)

(* A tick ends: the semaphore, the channel and the wait group never leave the
   loop and the jobs waiting for one another. *)
TickEnds == step # "idle" ~> step \in {"idle", "stopped"}

(* Stopping the service stops the agent, whatever the tick is doing. *)
StopsWhenCancelled == cancelled ~> step = "stopped"
-----------------------------------------------------------------------------
(* The inductive invariant behind the safety properties (PollerProofs). *)

(* A goroutine that has not returned belongs to the current tick, and so does a
   result on its way. *)
WorkersBelong ==
    /\ \A j \in Jobs : worker[j] \in {"running", "sent"} => j \in jobs
    /\ Range(results) \cup Range(pending) \subseteq jobs

(* The channel is closed behind the last return, a tick ends empty, and a batch
   that is sent is not. *)
TickIsClosed ==
    /\ step \in {"flush", "post"} => pending # <<>>
    /\ step # "post" => elapsed = 0
    /\ step = "launch" => ~closed
    /\ closed => \A j \in jobs : worker[j] = "returned"
    /\ step \in {"idle", "stopped"} =>
          /\ results = <<>> /\ pending = <<>>
          /\ \A j \in jobs : worker[j] = "returned"

(* A result is in the channel, in the pending batch or settled, and only once. *)
ResultIsOnePlace ==
    /\ IsInjective(results) /\ IsInjective(pending)
    /\ Range(results) \cap Range(pending) = {}
    /\ \A j \in Jobs :
          IF worker[j] \in {"sent", "returned"} /\ j \notin Range(results) \cup Range(pending)
          THEN Len(fate[j]) = 1
          ELSE fate[j] = <<>>
    /\ \A j \in Range(results) \cup Range(pending) : worker[j] \in {"sent", "returned"}

(* The primary is used only as long as it has not failed. *)
PrimaryUnfailed == HasFallback => fails <= (IF via = "primary" THEN 0 ELSE 1)

IInv == TypeOK /\ WorkersBelong /\ TickIsClosed /\ ResultIsOnePlace /\ PrimaryUnfailed

(* Only a finished check grows old. *)
AgeBeginsAtTheEnd == \A j \in Jobs : worker[j] \in {"none", "running"} => age[j] = 0

(* What the POSTs of this tick have taken, at the most. *)
Paid == PostTime * Cardinality(Settled) + elapsed

(* A result that has waited for more than that is in the batch, and its flush is
   due or under way: no second interval passes before it. *)
FlushIsDue ==
    Cardinality(jobs) <= MaxConcurrent =>
        \A j \in Jobs : Ready(j) =>
            \/ age[j] <= Paid
            \/ /\ age[j] <= Paid + 1 /\ j \in Range(pending)
               /\ flushDue \/ step = "flush"

PInv == IInv /\ AgeBeginsAtTheEnd /\ FlushIsDue
=============================================================================
