---------------------------- MODULE PollerProofs ----------------------------
(* Poller is safe for any number of jobs, slots and batches, with or without a *)
(* fronted transport.                                                         *)
EXTENDS Poller, SequenceTheorems, FiniteSetTheorems, TLAPS

-----------------------------------------------------------------------------
(* Sequences of distinct jobs *)

LEMMA EmptyHasNone == Range(<<>>) = {} /\ IsInjective(<<>>)
BY DEF Range, IsInjective

(* Receiving from a channel takes its first job, and no other. *)
LEMMA TailLosesHead ==
    ASSUME NEW s \in Seq(Jobs), s # <<>>, IsInjective(s)
    PROVE  /\ Head(s) \in Jobs /\ Tail(s) \in Seq(Jobs)
           /\ Head(s) \in Range(s)
           /\ Range(Tail(s)) = Range(s) \ {Head(s)}
           /\ IsInjective(Tail(s))
<1>1. /\ Len(s) \in Nat \ {0} /\ DOMAIN s = 1..Len(s)
      /\ Tail(s) \in Seq(Jobs) /\ Len(Tail(s)) = Len(s) - 1
      /\ Head(s) = s[1] /\ DOMAIN Tail(s) = 1..Len(s) - 1
      /\ \A i \in 1..Len(s) - 1 : Tail(s)[i] = s[i + 1]
  BY HeadTailProperties, LenProperties
<1>2. Head(s) \in Jobs /\ Head(s) \in Range(s)
  BY <1>1, ElementOfSeq DEF Range
<1>3. ASSUME NEW j \in Range(Tail(s)) PROVE j \in Range(s) \ {Head(s)}
  BY <1>1 DEF Range, IsInjective
<1>4. ASSUME NEW j \in Range(s) \ {Head(s)} PROVE j \in Range(Tail(s))
  <2>1. PICK i \in 1..Len(s) : s[i] = j
    BY <1>1 DEF Range
  <2>2. i # 1
    BY <1>1, <2>1
  <2>3. i - 1 \in 1..Len(s) - 1 /\ Tail(s)[i - 1] = j
    BY <1>1, <2>1, <2>2
  <2> QED
    BY <1>1, <2>3 DEF Range
<1>5. IsInjective(Tail(s))
  BY <1>1 DEF IsInjective
<1> QED
  BY <1>1, <1>2, <1>3, <1>4, <1>5

LEMMA AppendAddsOne ==
    ASSUME NEW s \in Seq(Jobs), NEW j \in Jobs, IsInjective(s), j \notin Range(s)
    PROVE  /\ Append(s, j) \in Seq(Jobs)
           /\ Range(Append(s, j)) = Range(s) \cup {j}
           /\ IsInjective(Append(s, j))
<1>1. /\ Len(s) \in Nat /\ DOMAIN s = 1..Len(s)
      /\ Append(s, j) \in Seq(Jobs) /\ DOMAIN Append(s, j) = 1..Len(s) + 1
      /\ \A i \in 1..Len(s) : Append(s, j)[i] = s[i]
      /\ Append(s, j)[Len(s) + 1] = j
  BY AppendProperties, LenProperties
<1>2. Range(Append(s, j)) = Range(s) \cup {j}
  <2>1. ASSUME NEW k \in Range(Append(s, j)) PROVE k \in Range(s) \cup {j}
    BY <1>1 DEF Range
  <2>2. ASSUME NEW k \in Range(s) PROVE k \in Range(Append(s, j))
    BY <1>1 DEF Range
  <2>3. j \in Range(Append(s, j))
    BY <1>1 DEF Range
  <2> QED
    BY <2>1, <2>2, <2>3
<1>3. IsInjective(Append(s, j))
  BY <1>1 DEF IsInjective, Range
<1> QED
  BY <1>1, <1>2, <1>3

LEMMA InRangeIsJob ==
    ASSUME NEW s \in Seq(Jobs), NEW j \in Range(s)
    PROVE  j \in Jobs
BY LenProperties DEF Range

-----------------------------------------------------------------------------

LEMMA InitHolds == Init => IInv
<1> SUFFICES ASSUME Init PROVE IInv
  OBVIOUS
<1>1. TypeOK
  <2>1. 0 \in 0..MaxAge /\ 0 \in 0..MaxFails /\ 0 \in 0..PostTime
    BY SizeAssumption
  <2>2. results \in Seq(Jobs) /\ pending \in Seq(Jobs)
    BY DEF Init
  <2>3. fate \in [Jobs -> Seq({"posted", "refused", "withheld"})]
    BY EmptySeq DEF Init
  <2> QED
    BY <2>1, <2>2, <2>3 DEF Init, TypeOK
<1>2. WorkersBelong /\ TickIsClosed /\ PrimaryUnfailed
  BY EmptyHasNone DEF Init, WorkersBelong, TickIsClosed, PrimaryUnfailed
<1>3. ResultIsOnePlace
  BY EmptyHasNone DEF Init, ResultIsOnePlace
<1> QED
  BY <1>1, <1>2, <1>3 DEF IInv

(* A failed call moves the agent off the primary. *)
LEMMA FailsMovesOn ==
    ASSUME IInv, Fails
    PROVE  /\ via' \in {"primary", "fallback"} /\ fails' \in 0..MaxFails
           /\ PrimaryUnfailed'
BY SizeAssumption, FallbackAssumption DEF Fails, FailedOver, IInv, TypeOK, PrimaryUnfailed

(* The loop's steps that touch neither the results nor the workers. *)
LEMMA QuietSteps ==
    ASSUME IInv,
           \/ PollFails \/ PathTestTurns \/ Stop \/ Exit \/ StartStreaming
           \/ FlushOnTick \/ FlushOnClose \/ SendBatch \/ EndTick \/ CloseResults
    PROVE  IInv'
<1> USE DEF IInv, TypeOK, loop, workers, network, WorkersBelong, TickIsClosed,
            ResultIsOnePlace, PrimaryUnfailed
<1>1. CASE PollFails
  BY <1>1, FailsMovesOn DEF PollFails
<1>2. CASE PathTestTurns \/ Stop
  <2>1. suspect' \in BOOLEAN /\ cancelled' \in BOOLEAN
    BY <1>2, Zenon DEF PathTestTurns, Stop
  <2>2. UNCHANGED <<step, jobs, worker, results, closed, pending, flushDue, elapsed, via, age,
                    fate, fails>>
    BY <1>2 DEF PathTestTurns, Stop
  <2> QED
    BY <2>1, <2>2
<1>3. CASE Exit
  BY <1>3 DEF Exit
<1>4. CASE StartStreaming
  BY <1>4 DEF StartStreaming
<1>5. CASE FlushOnTick
  BY <1>5 DEF FlushOnTick
<1>6. CASE FlushOnClose
  BY <1>6 DEF FlushOnClose
<1>7. CASE EndTick
  BY <1>7 DEF EndTick, Drained
<1>8. CASE CloseResults
  BY <1>8 DEF CloseResults, AllReturned
<1>9. CASE SendBatch
  BY <1>9 DEF SendBatch
<1> QED
  BY <1>1, <1>2, <1>3, <1>4, <1>5, <1>6, <1>7, <1>8, <1>9

(* Time only makes results older. *)
LEMMA TimeStep == IInv /\ IntervalPasses => IInv'
<1> SUFFICES ASSUME IInv, IntervalPasses PROVE IInv'
  OBVIOUS
<1>1. age' \in [Jobs -> 0..MaxAge]
  BY SizeAssumption DEF IntervalPasses, IInv, TypeOK
<1>2. flushDue' \in BOOLEAN
  BY DEF IntervalPasses, TickerRuns
<1>3. elapsed' \in 0..PostTime /\ (step # "post" => elapsed' = 0)
  BY SizeAssumption DEF IntervalPasses, Posting, IInv, TypeOK, TickIsClosed
<1> QED
  BY <1>1, <1>2, <1>3 DEF IntervalPasses, IInv, TypeOK, workers, network, WorkersBelong,
                    TickIsClosed, ResultIsOnePlace, PrimaryUnfailed

LEMMA NewTick == ASSUME IInv, NEW S \in SUBSET Jobs, PollSucceeds(S) PROVE IInv'
BY DEF PollSucceeds, Succeeds, network, IInv, TypeOK, WorkersBelong, TickIsClosed,
       ResultIsOnePlace, PrimaryUnfailed

(* The goroutines of the jobs *)
LEMMA WorkerSteps ==
    ASSUME IInv, NEW j \in Jobs, LaunchJob(j) \/ Execute(j) \/ Return(j)
    PROVE  IInv'
<1> USE DEF IInv, TypeOK, loop, network, WorkersBelong, TickIsClosed, ResultIsOnePlace,
            PrimaryUnfailed
<1>1. CASE LaunchJob(j)
  BY <1>1 DEF LaunchJob, Waiting
<1>2. CASE Return(j)
  BY <1>2 DEF Return
<1>3. CASE Execute(j)
  <2>1. j \notin Range(results) /\ j \notin Range(pending) /\ fate[j] = <<>>
    BY <1>3 DEF Execute
  <2>2. /\ results' \in Seq(Jobs)
        /\ Range(results') = Range(results) \cup {j} /\ IsInjective(results')
    BY <1>3, <2>1, AppendAddsOne DEF Execute
  <2>3. /\ worker' = [worker EXCEPT ![j] = "sent"] /\ worker[j] = "running"
        /\ UNCHANGED <<step, jobs, pending, flushDue, elapsed, age, fate, closed, via,
                       fails, suspect, cancelled>>
    BY <1>3 DEF Execute
  <2>4. TypeOK'
    BY <2>2, <2>3
  <2>5. WorkersBelong' /\ TickIsClosed'
    <3>1. j \in jobs
      BY <2>3
    <3>2. Range(results') \cup Range(pending') \subseteq jobs'
      BY <2>2, <2>3, <3>1
    <3>3. step \notin {"idle", "stopped"} /\ ~closed
      BY <2>3, <3>1
    <3> QED
      BY <2>3, <3>2, <3>3
  <2>6. ResultIsOnePlace'
    <3>1. /\ Range(pending') = Range(pending) /\ IsInjective(pending')
          /\ Range(results') \cap Range(pending') = {}
      BY <2>1, <2>2, <2>3
    <3>2. \A k \in Jobs : worker'[k] = IF k = j THEN "sent" ELSE worker[k]
      BY <2>3
    <3>3. ASSUME NEW k \in Jobs
          PROVE  IF /\ worker'[k] \in {"sent", "returned"}
                    /\ k \notin Range(results') \cup Range(pending')
                 THEN Len(fate'[k]) = 1 ELSE fate'[k] = <<>>
      BY <2>1, <2>2, <2>3, <3>1, <3>2
    <3>4. ASSUME NEW k \in Range(results') \cup Range(pending')
          PROVE  worker'[k] \in {"sent", "returned"}
      <4>1. k \in Jobs
        BY <2>2, <3>1, InRangeIsJob
      <4> QED
        BY <2>2, <3>1, <3>2, <4>1
    <3> QED
      BY <2>2, <3>1, <3>3, <3>4
  <2> QED
    BY <2>3, <2>4, <2>5, <2>6
<1> QED
  BY <1>1, <1>2, <1>3

(* A result moves from the channel to the batch. *)
LEMMA ReceiveStep == IInv /\ Receive => IInv'
<1> SUFFICES ASSUME IInv, Receive PROVE IInv'
  OBVIOUS
<1> USE DEF IInv, TypeOK, ResultIsOnePlace
<1> DEFINE j == Head(results)
<1>1. /\ results' \in Seq(Jobs) /\ j \in Jobs
      /\ j \in Range(results) /\ Range(results') = Range(results) \ {j}
      /\ IsInjective(results')
  BY TailLosesHead DEF Receive
<1>2. /\ pending' \in Seq(Jobs)
      /\ Range(pending') = Range(pending) \cup {j}
      /\ IsInjective(pending')
  BY <1>1, AppendAddsOne DEF Receive
<1> HIDE DEF j
<1>3. /\ step = "stream" /\ step' \in {"stream", "flush"}
      /\ UNCHANGED <<jobs, flushDue, elapsed, age, fate, worker, closed, via, fails, suspect,
                     cancelled>>
  BY DEF Receive, network
<1>6. pending' # <<>>
  BY <1>2, EmptyHasNone
<1>4. TypeOK'
  BY <1>1, <1>2, <1>3
<1>5. ResultIsOnePlace'
  BY <1>1, <1>2, <1>3
<1> QED
  BY <1>1, <1>2, <1>3, <1>4, <1>5, <1>6 DEF WorkersBelong, TickIsClosed, PrimaryUnfailed

(* A flush gives every result of the batch its one outcome. *)
LEMMA SettleKeeps ==
    ASSUME IInv, NEW outcome \in {"posted", "refused", "withheld"}, Settle(outcome),
           via' \in {"primary", "fallback"}, fails' \in 0..MaxFails, PrimaryUnfailed'
    PROVE  IInv'
<1> USE DEF IInv, TypeOK
<1>1. /\ pending' = <<>> /\ step' = "stream" /\ elapsed' = 0
      /\ UNCHANGED <<jobs, flushDue, age, worker, results, closed, suspect, cancelled>>
      /\ \A j \in Jobs : fate'[j] = IF j \in Range(pending) THEN Append(fate[j], outcome)
                                    ELSE fate[j]
  BY DEF Settle, Kept, workers
<1>2. \A j \in Range(pending) : fate[j] = <<>> /\ j \in Jobs /\ j \notin Range(results)
  BY InRangeIsJob DEF ResultIsOnePlace
<1>3. ASSUME NEW j \in Range(pending)
      PROVE  fate'[j] = <<outcome>> /\ Len(fate'[j]) = 1
  <2>1. fate'[j] = Append(<<>>, outcome)
    BY <1>1, <1>2
  <2>2. Append(<<>>, outcome) = <<outcome>> /\ Len(<<outcome>>) = 1
    OBVIOUS
  <2> QED
    BY <2>1, <2>2
<1>4. fate' \in [Jobs -> Seq({"posted", "refused", "withheld"})]
  <2>1. ASSUME NEW j \in Jobs PROVE fate'[j] \in Seq({"posted", "refused", "withheld"})
    <3>1. Append(fate[j], outcome) \in Seq({"posted", "refused", "withheld"})
      BY AppendProperties
    <3> QED
      BY <1>1, <3>1
  <2> QED
    BY <2>1 DEF Settle
<1>5. TypeOK'
  BY <1>1, <1>4, SizeAssumption
<1>6. ResultIsOnePlace'
  BY <1>1, <1>2, <1>3, EmptyHasNone DEF ResultIsOnePlace
<1> QED
  <2>1. WorkersBelong' /\ TickIsClosed'
    BY <1>1, EmptyHasNone DEF WorkersBelong, TickIsClosed
  <2> QED
    BY <1>5, <1>6, <2>1

LEMMA FlushSteps == IInv /\ (Withhold \/ PostResults) => IInv'
<1> SUFFICES ASSUME IInv, Withhold \/ PostResults PROVE IInv'
  OBVIOUS
<1>1. UNCHANGED network => /\ via' \in {"primary", "fallback"} /\ fails' \in 0..MaxFails
                           /\ PrimaryUnfailed'
  BY DEF network, IInv, TypeOK, PrimaryUnfailed
<1>2. CASE Withhold
  BY <1>1, <1>2, SettleKeeps DEF Withhold
<1>3. CASE Succeeds /\ Settle("posted")
  BY <1>1, <1>3, SettleKeeps DEF Succeeds
<1>4. CASE Fails /\ Settle("refused")
  BY <1>4, FailsMovesOn, SettleKeeps
<1> QED
  BY <1>2, <1>3, <1>4 DEF PostResults

LEMMA StepHolds == IInv /\ [Next]_vars => IInv'
<1> SUFFICES ASSUME IInv, [Next]_vars PROVE IInv'
  OBVIOUS
<1>1. CASE Loop
  BY <1>1, WorkerSteps, QuietSteps, ReceiveStep, FlushSteps DEF Loop
<1>2. CASE UNCHANGED vars
  BY <1>2 DEF vars, loop, workers, network, IInv, TypeOK, WorkersBelong, TickIsClosed,
              ResultIsOnePlace, PrimaryUnfailed
<1> QED
  BY <1>1, <1>2, QuietSteps, NewTick, WorkerSteps, TimeStep DEF Next

LEMMA Invariance == Spec => []IInv
  BY InitHolds, StepHolds, PTL DEF Spec

-----------------------------------------------------------------------------
(* Type correctness of the poller, for any jobs and sizes. *)
THEOREM TypeCorrect == Spec => []TypeOK
<1>1. IInv => TypeOK
  BY DEF IInv
<1> QED
  BY <1>1, Invariance, PTL

(* However batches are cut and whatever fails, each job of a finished tick has
   had exactly one outcome. *)
THEOREM EveryJobSettled == Spec => []TickAccountsForEveryJob
<1>1. IInv => TickAccountsForEveryJob
  BY EmptyHasNone DEF IInv, TypeOK, TickAccountsForEveryJob, TickIsClosed, ResultIsOnePlace
<1> QED
  BY <1>1, Invariance, PTL

(* The channel is never closed before the last send. *)
THEOREM NoSendOnClosed == Spec => []ClosedAfterSends
<1>1. IInv => ClosedAfterSends
  BY DEF IInv, ClosedAfterSends, TickIsClosed
<1> QED
  BY <1>1, Invariance, PTL

(* With a fronted transport, at most one call ever fails over the primary. *)
THEOREM OnlyOneCallLost == Spec => []OneCallLost
<1>1. IInv => OneCallLost
  BY DEF IInv, TypeOK, OneCallLost, PrimaryUnfailed
<1> QED
  BY <1>1, Invariance, PTL

-----------------------------------------------------------------------------
(* Promptness *)

(* A tick with no more jobs than slots never waits for a slot. *)
LEMMA SlotsSuffice ==
    ASSUME TypeOK, Cardinality(jobs) <= MaxConcurrent, Waiting # {}
    PROVE  SlotFree
<1>1. IsFiniteSet(jobs) /\ Cardinality(jobs) \in Nat
  BY JobsAssumption, FS_Subset, FS_CardinalityType DEF TypeOK
<1>2. Slots \in SUBSET jobs /\ Slots # jobs
  BY DEF Slots, Waiting
<1>3. Cardinality(Slots) <= Cardinality(jobs) /\ Cardinality(Slots) # Cardinality(jobs)
      /\ Cardinality(Slots) \in Nat
  BY <1>1, <1>2, FS_Subset, FS_CardinalityType
<1> QED
  BY <1>1, <1>3, SizeAssumption DEF SlotFree

(* Between ticks nothing waits. *)
LEMMA IdleHasNothingReady ==
    ASSUME IInv, step = "idle", NEW j \in Jobs
    PROVE  ~Ready(j)
<1>1. results = <<>> /\ pending = <<>>
  BY DEF IInv, TickIsClosed
<1>2. j \notin Range(results) \cup Range(pending)
  BY <1>1, EmptyHasNone
<1>3. worker[j] \in {"sent", "returned"} => Len(fate[j]) = 1
  BY <1>2 DEF IInv, ResultIsOnePlace
<1>4. Len(<<>>) = 0
  BY EmptySeq
<1> QED
  BY <1>3, <1>4 DEF Ready

(* A POST is never begun without results, and none of them is settled yet. *)
LEMMA BatchCounts ==
    ASSUME IInv, step \in {"flush", "post"}
    PROVE  Cardinality(Settled) + 1 <= Cardinality(Settled \cup Range(pending))
<1>1. PICK j : j \in Range(pending) /\ j \in jobs /\ fate[j] = <<>>
  <2>1. pending # <<>> /\ pending \in Seq(Jobs)
    BY DEF IInv, TypeOK, TickIsClosed
  <2>2. Head(pending) \in Range(pending) /\ Head(pending) \in Jobs
    BY <2>1, TailLosesHead DEF IInv, ResultIsOnePlace
  <2> QED
    BY <2>2 DEF IInv, WorkersBelong, ResultIsOnePlace
<1>2. Settled \cup Range(pending) \subseteq jobs /\ IsFiniteSet(jobs)
  BY JobsAssumption, FS_Subset DEF IInv, TypeOK, WorkersBelong, Settled
<1>3. IsFiniteSet(Settled) /\ IsFiniteSet(Settled \cup Range(pending)) /\ j \notin Settled
  BY <1>1, <1>2, FS_Subset DEF Settled
<1>4. IsFiniteSet(Settled \cup {j}) /\ Cardinality(Settled \cup {j}) = Cardinality(Settled) + 1
  BY <1>3, FS_AddElement
<1>5. Settled \cup {j} \subseteq Settled \cup Range(pending)
  BY <1>1
<1> QED
  BY <1>3, <1>4, <1>5, FS_Subset

LEMMA SettledIsCounted ==
    ASSUME IInv
    PROVE  /\ Cardinality(Settled) \in Nat /\ Cardinality(Settled \cup Range(pending)) \in Nat
           /\ PostTime * Cardinality(Settled) \in Nat /\ elapsed \in 0..PostTime
           /\ Paid \in Nat
<1>1. IsFiniteSet(jobs) /\ Settled \subseteq jobs /\ Settled \cup Range(pending) \subseteq jobs
  BY JobsAssumption, FS_Subset DEF IInv, TypeOK, WorkersBelong, Settled
<1>2. Cardinality(Settled) \in Nat /\ Cardinality(Settled \cup Range(pending)) \in Nat
  BY <1>1, FS_Subset, FS_CardinalityType
<1>3. \A n \in Nat : PostTime * n \in Nat
  BY SizeAssumption
<1>4. elapsed \in 0..PostTime
  BY DEF IInv, TypeOK
<1> QED
  BY <1>2, <1>3, <1>4, SizeAssumption DEF Paid

(* One more result pays for one more POST. *)
LEMMA OneMorePost ==
    ASSUME NEW m \in Nat, NEW n \in Nat, m + 1 <= n
    PROVE  PostTime * m + PostTime <= PostTime * n
<1>1. PICK d \in Nat : n = m + 1 + d
  <2>1. n - (m + 1) \in Nat /\ n = m + 1 + (n - (m + 1))
    OBVIOUS
  <2> QED
    BY <2>1
<1>2. PostTime * d \in Nat /\ PostTime * m \in Nat
  BY SizeAssumption
<1>3. PostTime * (m + 1 + d) = PostTime * m + PostTime + PostTime * d
  BY SizeAssumption
<1> QED
  BY <1>1, <1>2, <1>3, SizeAssumption

(* While the loop waits for the answer to a POST, every interval is paid for; while
   it waits for a check, every finished result is in the batch and its flush is
   not due, so that none of them has waited for longer than it is allowed. *)
LEMMA TimeIsPrompt == PInv /\ IntervalPasses => (AgeBeginsAtTheEnd /\ FlushIsDue)'
<1> SUFFICES ASSUME PInv, IntervalPasses PROVE (AgeBeginsAtTheEnd /\ FlushIsDue)'
  OBVIOUS
<1>1. /\ UNCHANGED <<step, jobs, pending, fate, worker, results, closed>>
      /\ flushDue' = (step \in {"stream", "post"})
      /\ \A j \in Jobs : age'[j] = IF Ready(j) /\ age[j] < MaxAge THEN age[j] + 1 ELSE age[j]
      /\ elapsed' = IF Posting THEN elapsed + 1 ELSE elapsed
  BY DEF IntervalPasses, workers, TickerRuns
<1>2. AgeBeginsAtTheEnd'
  BY <1>1 DEF PInv, AgeBeginsAtTheEnd, Ready
<1>3. Paid' = IF Posting THEN Paid + 1 ELSE Paid
  <2>1. Settled' = Settled
    BY <1>1 DEF Settled
  <2>2. PostTime * Cardinality(Settled) \in Nat /\ elapsed \in 0..PostTime
    BY SettledIsCounted DEF PInv
  <2> QED
    BY <1>1, <2>1, <2>2, SizeAssumption DEF Paid
<1>4. \A j \in Jobs : age[j] \in Nat /\ age'[j] \in Nat /\ age'[j] <= age[j] + 1
  <2> SUFFICES ASSUME NEW j \in Jobs
               PROVE  age[j] \in Nat /\ age'[j] \in Nat /\ age'[j] <= age[j] + 1
    OBVIOUS
  <2>1. age[j] \in Nat
    BY SizeAssumption DEF PInv, IInv, TypeOK
  <2>2. age'[j] = age[j] \/ age'[j] = age[j] + 1
    BY <1>1
  <2> QED
    BY <2>1, <2>2
<1>5. Paid \in Nat
  BY SettledIsCounted DEF PInv
<1>6. ASSUME Cardinality(jobs) <= MaxConcurrent, NEW j \in Jobs, Ready(j)
      PROVE  \/ age'[j] <= Paid'
             \/ age'[j] <= Paid' + 1 /\ j \in Range(pending) /\ flushDue'
  <2>1. CASE Posting
    <3>1. j \notin Range(pending)
      BY <1>6, <2>1 DEF Ready, InPost, Posting
    <3>2. age[j] <= Paid
      BY <1>6, <3>1 DEF PInv, FlushIsDue
    <3> QED
      BY <1>3, <1>4, <1>5, <2>1, <3>2
  <2>2. CASE ~Posting
    <3>1. step = "stream" /\ results = <<>> /\ ~flushDue
      BY <1>6, <2>2, SlotsSuffice DEF IntervalPasses, Blocked, PInv, IInv
    <3>2. age[j] <= Paid
      BY <1>6, <3>1 DEF PInv, FlushIsDue
    <3>3. j \notin Range(results)
      BY <3>1, EmptyHasNone
    <3>4. Len(<<>>) = 0
      BY EmptySeq
    <3>5. j \in Range(pending)
      BY <1>6, <3>3, <3>4 DEF PInv, IInv, ResultIsOnePlace, Ready
    <3> QED
      <4>1. flushDue'
        BY <1>1, <3>1
      <4>2. age'[j] <= Paid' + 1
        BY <1>3, <1>4, <1>5, <2>2, <3>2
      <4> QED
        BY <3>5, <4>1, <4>2
  <2> QED
    BY <2>1, <2>2
<1>7. \A j \in Jobs : Ready(j)' => Ready(j)
  BY <1>1 DEF Ready, InPost
<1>8. FlushIsDue'
  BY <1>1, <1>6, <1>7 DEF FlushIsDue
<1> QED
  BY <1>2, <1>8

(* The steps that leave results, batch and workers alone, and no flush undone. *)
LEMMA QuietIsPrompt ==
    ASSUME PInv,
           \/ PollFails \/ PathTestTurns \/ Stop \/ Exit \/ StartStreaming
           \/ FlushOnTick \/ FlushOnClose \/ SendBatch \/ EndTick \/ CloseResults
           \/ UNCHANGED vars
    PROVE  (AgeBeginsAtTheEnd /\ FlushIsDue)'
<1>1. UNCHANGED <<jobs, worker, pending, elapsed, age, fate>> /\ (step = "post" => step' = "post")
  BY DEF PollFails, PathTestTurns, Stop, Exit, StartStreaming, FlushOnTick, FlushOnClose,
         SendBatch, EndTick, CloseResults, vars, loop, workers
<1>2. AgeBeginsAtTheEnd'
  BY <1>1 DEF PInv, AgeBeginsAtTheEnd
<1>3. ASSUME NEW j \in Range(pending)
      PROVE  (flushDue \/ step = "flush") => (flushDue \/ step \in {"flush", "post"})'
  <2>1. pending # <<>>
    BY EmptyHasNone
  <2>2. step # "idle"
    BY <2>1 DEF PInv, IInv, TickIsClosed
  <2> QED
    BY <2>1, <2>2 DEF PollFails, PathTestTurns, Stop, Exit, StartStreaming, FlushOnTick,
                      FlushOnClose, SendBatch, EndTick, CloseResults, vars, loop
<1>4. Paid' = Paid
  BY <1>1 DEF Paid, Settled
<1>5. \A j \in Jobs : Ready(j)' => Ready(j) /\ (step' = "post" => j \notin Range(pending))
  BY <1>1 DEF Ready, InPost
<1>6. FlushIsDue'
  BY <1>1, <1>3, <1>4, <1>5 DEF PInv, FlushIsDue
<1> QED
  BY <1>2, <1>6

(* A new tick, and its jobs' goroutines *)
LEMMA JobIsPrompt ==
    ASSUME PInv,
           \/ \E S \in SUBSET Jobs : PollSucceeds(S)
           \/ \E j \in Jobs : LaunchJob(j) \/ Execute(j) \/ Return(j)
    PROVE  (AgeBeginsAtTheEnd /\ FlushIsDue)'
<1>1. ASSUME NEW S \in SUBSET Jobs, PollSucceeds(S) PROVE (AgeBeginsAtTheEnd /\ FlushIsDue)'
  <2>1. step = "idle" /\ UNCHANGED <<worker, age, fate>>
    BY <1>1 DEF PollSucceeds
  <2>2. \A j \in Jobs : ~Ready(j)'
    BY <2>1, IdleHasNothingReady DEF PInv, Ready, InPost
  <2> QED
    BY <2>1, <2>2 DEF PInv, AgeBeginsAtTheEnd, FlushIsDue
<1>2. ASSUME NEW j \in Jobs, LaunchJob(j) \/ Execute(j) \/ Return(j)
      PROVE  (AgeBeginsAtTheEnd /\ FlushIsDue)'
  <2>1. UNCHANGED <<step, jobs, pending, flushDue, elapsed, age, fate>>
    BY <1>2 DEF LaunchJob, Execute, Return, loop
  <2>2. /\ \A k \in Jobs : k # j => worker'[k] = worker[k]
        /\ \/ worker[j] = "none" /\ worker'[j] = "running"
           \/ worker[j] = "running" /\ worker'[j] = "sent"
           \/ worker[j] = "sent" /\ worker'[j] = "returned"
    BY <1>2 DEF LaunchJob, Execute, Return, Waiting, PInv, IInv, TypeOK
  <2>3. AgeBeginsAtTheEnd'
    BY <2>1, <2>2 DEF PInv, AgeBeginsAtTheEnd
  <2>4. \A k \in Jobs : Ready(k)' => Ready(k) \/ age[k] = 0
    BY <2>1, <2>2 DEF PInv, AgeBeginsAtTheEnd, Ready, InPost
  <2>5. Paid' = Paid /\ Paid \in Nat
    BY <2>1, SettledIsCounted DEF PInv, Paid, Settled
  <2>6. FlushIsDue'
    BY <2>1, <2>4, <2>5 DEF PInv, FlushIsDue
  <2> QED
    BY <2>3, <2>6
<1> QED
  BY <1>1, <1>2

(* Into the batch *)
LEMMA ReceiveIsPrompt == PInv /\ Receive => (AgeBeginsAtTheEnd /\ FlushIsDue)'
<1> SUFFICES ASSUME PInv, Receive PROVE (AgeBeginsAtTheEnd /\ FlushIsDue)'
  OBVIOUS
<1>1. /\ step = "stream" /\ step' # "post"
      /\ UNCHANGED <<jobs, flushDue, elapsed, age, fate, worker>>
      /\ pending' = Append(pending, Head(results)) /\ results # <<>>
  BY DEF Receive
<1>2. Range(pending') = Range(pending) \cup {Head(results)}
  <2>1. Head(results) \in Range(results) /\ Head(results) \in Jobs
    BY <1>1, TailLosesHead DEF PInv, IInv, TypeOK, ResultIsOnePlace
  <2> QED
    BY <1>1, <2>1, AppendAddsOne DEF PInv, IInv, TypeOK, ResultIsOnePlace
<1>3. Paid' = Paid
  BY <1>1 DEF Paid, Settled
<1>4. \A j \in Jobs : Ready(j)' => Ready(j)
  BY <1>1 DEF Ready, InPost
<1>5. FlushIsDue'
  BY <1>1, <1>2, <1>3, <1>4 DEF PInv, FlushIsDue
<1> QED
  BY <1>1, <1>5 DEF PInv, AgeBeginsAtTheEnd

(* And out of it: what the batch's POST has taken is paid for by its results. *)
LEMMA SettleIsPrompt ==
    ASSUME PInv, step \in {"flush", "post"}, NEW outcome, Settle(outcome)
    PROVE  (AgeBeginsAtTheEnd /\ FlushIsDue)'
<1>1. /\ UNCHANGED <<jobs, age, worker>> /\ elapsed' = 0
      /\ \A j \in Jobs : fate'[j] = IF j \in Range(pending) THEN Append(fate[j], outcome)
                                    ELSE fate[j]
  BY DEF Settle, workers
<1>2. \A j \in Jobs : j \in Range(pending) => fate'[j] # <<>>
  <2> SUFFICES ASSUME NEW j \in Jobs, j \in Range(pending) PROVE fate'[j] # <<>>
    OBVIOUS
  <2>1. fate[j] = <<>>
    BY DEF PInv, IInv, ResultIsOnePlace
  <2>2. Append(<<>>, outcome) # <<>>
    OBVIOUS
  <2> QED
    BY <1>1, <2>1, <2>2
<1>3. Settled' = Settled \cup Range(pending)
  BY <1>1, <1>2 DEF PInv, IInv, TypeOK, WorkersBelong, Settled
<1>4. Paid <= Paid'
  <2>1. /\ Cardinality(Settled) \in Nat /\ Cardinality(Settled') \in Nat
        /\ Cardinality(Settled) + 1 <= Cardinality(Settled')
    BY <1>3, SettledIsCounted, BatchCounts DEF PInv
  <2>2. PostTime * Cardinality(Settled) + PostTime <= PostTime * Cardinality(Settled')
    BY <2>1, OneMorePost
  <2>3. Paid' = PostTime * Cardinality(Settled') + elapsed'
    BY DEF Paid
  <2> HIDE DEF Settled
  <2>4. PostTime * Cardinality(Settled') \in Nat
    BY <2>1, SizeAssumption
  <2>5. PostTime * Cardinality(Settled) \in Nat /\ elapsed \in 0..PostTime
    BY SettledIsCounted DEF PInv
  <2> QED
    BY <1>1, <2>2, <2>3, <2>4, <2>5, SizeAssumption DEF Paid
<1>5. \A j \in Jobs : Ready(j)' => Ready(j) /\ j \notin Range(pending)
  BY <1>1, <1>2 DEF Ready, InPost
<1>6. Paid \in Nat /\ Paid' \in Int
  <2>1. Cardinality(Settled') \in Nat
    BY <1>3, SettledIsCounted DEF PInv
  <2> QED
    BY <1>1, <2>1, SettledIsCounted, SizeAssumption DEF PInv, Paid
<1>7. \A j \in Jobs : age[j] \in Nat
  BY SizeAssumption DEF PInv, IInv, TypeOK
<1>8. FlushIsDue'
  BY <1>1, <1>4, <1>5, <1>6, <1>7 DEF PInv, FlushIsDue
<1> QED
  BY <1>1, <1>8 DEF PInv, AgeBeginsAtTheEnd

LEMMA PromptInvariance == Spec => []PInv
<1>1. Init => PInv
  BY InitHolds DEF Init, PInv, AgeBeginsAtTheEnd, FlushIsDue, Ready
<1>2. PInv /\ [Next]_vars => PInv'
  <2> SUFFICES ASSUME PInv, [Next]_vars PROVE PInv'
    OBVIOUS
  <2>1. IInv'
    BY StepHolds DEF PInv
  <2>2. (AgeBeginsAtTheEnd /\ FlushIsDue)'
    <3>1. CASE Withhold \/ PostResults
      BY <3>1, SettleIsPrompt DEF Withhold, PostResults
    <3> QED
      BY <3>1, TimeIsPrompt, QuietIsPrompt, JobIsPrompt, ReceiveIsPrompt DEF Next, Loop
  <2> QED
    BY <2>1, <2>2 DEF PInv
<1> QED
  BY <1>1, <1>2, PTL DEF Spec

(* streamResults: in a tick with a slot for each of its jobs, only the POSTs of
   other results keep a result longer than one flush interval, each of them for
   the HTTP client's timeout at the most, whatever that timeout is. *)
THEOREM OnlyPostsHoldResults == Spec => []WaitsOnlyForPosts
<1>1. ASSUME PInv, Cardinality(jobs) <= MaxConcurrent, NEW j \in Jobs, Ready(j)
      PROVE  age[j] <= 1 + PostTime * Cardinality(Handed)
  <2>1. /\ Cardinality(Settled) \in Nat /\ Cardinality(Settled \cup Range(pending)) \in Nat
        /\ PostTime * Cardinality(Settled) \in Nat /\ elapsed \in 0..PostTime
    BY <1>1, SettledIsCounted DEF PInv
  <2>2. age[j] \in Nat
    BY <1>1, SizeAssumption DEF PInv, IInv, TypeOK
  <2>3. CASE step = "post"
    <3>1. Handed = Settled \cup Range(pending)
      BY <2>3 DEF Handed, InPost
    <3>2. PostTime * Cardinality(Settled) + PostTime <= PostTime * Cardinality(Handed)
      BY <1>1, <2>1, <2>3, <3>1, BatchCounts, OneMorePost DEF PInv
    <3>3. PostTime * Cardinality(Handed) \in Nat
      BY <2>1, <3>1, SizeAssumption
    <3>4. age[j] <= Paid
      BY <1>1, <2>3 DEF PInv, FlushIsDue, Ready, InPost
    <3> QED
      BY <2>1, <2>2, <3>2, <3>3, <3>4, SizeAssumption DEF Paid
  <2>4. CASE step # "post"
    <3>1. Handed = Settled /\ elapsed = 0
      BY <1>1, <2>4 DEF Handed, InPost, PInv, IInv, TickIsClosed
    <3>2. age[j] <= Paid \/ age[j] <= Paid + 1
      BY <1>1 DEF PInv, FlushIsDue
    <3> QED
      BY <2>1, <2>2, <3>1, <3>2 DEF Paid
  <2> QED
    BY <2>3, <2>4
<1>2. PInv => WaitsOnlyForPosts
  BY <1>1 DEF WaitsOnlyForPosts
<1> QED
  BY <1>2, PromptInvariance, PTL
=============================================================================
