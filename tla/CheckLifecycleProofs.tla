------------------------ MODULE CheckLifecycleProofs ------------------------
(* Theorems about CheckLifecycle, for any checks, runs, nodes and sessions. *)
EXTENDS CheckLifecycle, TLAPS

-----------------------------------------------------------------------------
(* Type correctness. *)

LEMMA TypeInit == Init => TypeOK
<1> SUFFICES ASSUME Init PROVE TypeOK
  OBVIOUS
<1>1. Fresh \in Local
  BY DEF Local, Fresh
<1> QED
  BY <1>1, BoundAssumption DEF Init, TypeOK, CheckStatus, RunStatus, Steps

(* A step that only moves the session on keeps the types of everything else. *)
LEMMA TypeGoto ==
    ASSUME TypeOK, NEW s \in Sessions, NEW step \in Steps, NEW local \in Local,
           Goto(s, step, local)
    PROVE  pc' \in [Sessions -> Steps] /\ req' \in [Sessions -> Local]
  BY DEF Goto, TypeOK

LEMMA TypeMove ==
    ASSUME TypeOK, NEW s \in Sessions, NEW step \in Steps, NEW local \in Local,
           Goto(s, step, local),
           step \in {"addRuns", "finalize", "cancelScan", "cancelRuns"} => local.chk \in Checks
    PROVE  /\ pc' \in [Sessions -> Steps] /\ req' \in [Sessions -> Local]
           /\ \A t \in Sessions : pc'[t] \in {"addRuns", "finalize", "cancelScan", "cancelRuns"}
                                     => req'[t].chk \in Checks
  BY TypeGoto DEF Goto, TypeOK

LEMMA ReqIsLocal == ASSUME TypeOK, NEW s \in Sessions PROVE req[s] \in Local
  BY DEF TypeOK

LEMMA TypeWriteCheck ==
    ASSUME TypeOK, NEW s \in Sessions, NEW c \in Checks, NEW status \in CheckStatus,
           WriteCheck(s, c, status)
    PROVE  /\ newC' \in [Checks -> CheckStatus]
           /\ lockC' \in [Checks -> Sessions \cup {None}]
<1>1. newC \in [Checks -> CheckStatus] /\ newC' = [newC EXCEPT ![c] = status]
  BY DEF TypeOK, WriteCheck
<1>2. lockC \in [Checks -> Sessions \cup {None}] /\ lockC' = [lockC EXCEPT ![c] = s]
  BY DEF TypeOK, WriteCheck
<1> QED
  BY <1>1, <1>2

LEMMA TypeWriteRun ==
    ASSUME TypeOK, NEW s \in Sessions, NEW r \in Runs, NEW status \in RunStatus,
           WriteRun(s, r, status)
    PROVE  /\ newR' \in [Runs -> RunStatus]
           /\ lockR' \in [Runs -> Sessions \cup {None}]
<1>1. newR \in [Runs -> RunStatus] /\ newR' = [newR EXCEPT ![r] = status]
  BY DEF TypeOK, WriteRun
<1>2. lockR \in [Runs -> Sessions \cup {None}] /\ lockR' = [lockR EXCEPT ![r] = s]
  BY DEF TypeOK, WriteRun
<1> QED
  BY <1>1, <1>2

(* No write, no change of type. *)
LEMMA TypeWriteNone ==
    ASSUME TypeOK
    PROVE  /\ UNCHANGED <<lockC, newC>> => /\ newC' \in [Checks -> CheckStatus]
                                          /\ lockC' \in [Checks -> Sessions \cup {None}]
           /\ UNCHANGED <<lockR, newR>> => /\ newR' \in [Runs -> RunStatus]
                                          /\ lockR' \in [Runs -> Sessions \cup {None}]
  BY DEF TypeOK

LEMMA TypeCommit ==
    ASSUME TypeOK, NEW s \in Sessions, CommitRows(s)
    PROVE  /\ check' \in [Checks -> CheckStatus] /\ run' \in [Runs -> RunStatus]
           /\ newC' \in [Checks -> CheckStatus] /\ newR' \in [Runs -> RunStatus]
           /\ lockC' \in [Checks -> Sessions \cup {None}]
           /\ lockR' \in [Runs -> Sessions \cup {None}]
  BY DEF CommitRows, Release, TypeOK

LEMMA TypeCreate ==
    ASSUME TypeOK, NEW s \in Sessions, Create(s) PROVE TypeOK'
<1>1. ASSUME NEW B \in SUBSET Checks, NEW N \in SUBSET Nodes, CreateCheck(s, B, N)
      PROVE  TypeOK'
  <2>1. [Fresh EXCEPT !.chks = B, !.nodes = N] \in Local
    BY DEF Local, Fresh
  <2> QED
    BY <1>1, <2>1 DEF CreateCheck, Goto, TypeOK, Steps, rows, locks, history, budget
<1>2. ASSUME NEW c \in Checks, InsertCheck(s, c) PROVE TypeOK'
  <2>1. [req[s] EXCEPT !.chks = @ \ {c}, !.chk = c] \in Local
    BY ReqIsLocal DEF Local
  <2> QED
    BY <1>2, <2>1 DEF InsertCheck, Goto, TypeOK, Steps, CheckStatus, Open, history, budget
<1>3. ASSUME CreateCheckRuns(s) PROVE TypeOK'
  <2> DEFINE next == [req[s] EXCEPT !.chk = None]
  <2>1. Fresh \in Local /\ next \in Local
    BY ReqIsLocal DEF Local, Fresh
  <2>2. run' \in [Runs -> RunStatus] /\ newR' \in [Runs -> RunStatus]
    BY <1>3 DEF CreateCheckRuns, TypeOK, RunStatus, Unfinished
  <2>3. addedLate' \subseteq Checks
    BY <1>3 DEF CreateCheckRuns, TypeOK
  <2>4. Goto(s, "idle", Fresh) \/ Goto(s, "insertCheck", next)
    BY <1>3 DEF CreateCheckRuns
  <2> HIDE DEF next
  <2>5. /\ pc' \in [Sessions -> Steps] /\ req' \in [Sessions -> Local]
        /\ \A t \in Sessions : pc'[t] \in {"addRuns", "finalize", "cancelScan", "cancelRuns"}
                                  => req'[t].chk \in Checks
    BY <2>1, <2>4, TypeMove DEF Steps
  <2> QED
    BY <1>3, <2>2, <2>3, <2>5 DEF CreateCheckRuns, TypeOK, budget
<1> QED
  BY <1>1, <1>2, <1>3 DEF Create

LEMMA TypePoll ==
    ASSUME TypeOK, NEW s \in Sessions, Poll(s) PROVE TypeOK'
<1>1. ASSUME NEW n \in Nodes, ClaimQueuedRuns(s, n) PROVE TypeOK'
  <2> PICK S \in Batches(n) \ {{}} :
          /\ lockR' = [r \in Runs |-> IF r \in S THEN s ELSE lockR[r]]
          /\ newR' = [r \in Runs |-> IF r \in S THEN "dispatched" ELSE newR[r]]
          /\ Goto(s, "markRunning",
                  [Fresh EXCEPT !.runs = S, !.chks = {CheckOf[r] : r \in S}])
    BY <1>1 DEF ClaimQueuedRuns
  <2>1. S \subseteq Runs
    BY DEF Batches, Claimable
  <2>2. [Fresh EXCEPT !.runs = S, !.chks = {CheckOf[r] : r \in S}] \in Local
    BY <2>1, RunAssumption DEF Local, Fresh
  <2>3. newR' \in [Runs -> RunStatus] /\ lockR' \in [Runs -> Sessions \cup {None}]
    <3>1. "dispatched" \in RunStatus
      BY DEF RunStatus, Unfinished
    <3>2. newR \in [Runs -> RunStatus] /\ lockR \in [Runs -> Sessions \cup {None}]
      BY DEF TypeOK
    <3> QED
      BY <3>1, <3>2
  <2> QED
    BY <1>1, <2>2, <2>3 DEF ClaimQueuedRuns, Goto, TypeOK, Steps, rows, history, budget
<1>2. ASSUME NEW c \in Checks, MarkRunning(s, c) PROVE TypeOK'
  <2>1. [req[s] EXCEPT !.chks = @ \ {c}] \in Local
    BY ReqIsLocal DEF Local
  <2>2. newC' \in [Checks -> CheckStatus] /\ lockC' \in [Checks -> Sessions \cup {None}]
    <3>1. WriteCheck(s, c, "running") \/ UNCHANGED <<lockC, newC>>
      BY <1>2 DEF MarkRunning
    <3>2. "running" \in CheckStatus
      BY DEF CheckStatus, Open
    <3> QED
      BY <3>1, <3>2, TypeWriteCheck, TypeWriteNone
  <2> QED
    BY <1>2, <2>1, <2>2 DEF MarkRunning, Goto, TypeOK, Steps, rows, history, budget
<1>3. ASSUME CommitClaim(s) PROVE TypeOK'
  <2>1. Fresh \in Local
    BY DEF Local, Fresh
  <2>2. req[s].runs \subseteq Runs
    BY ReqIsLocal DEF Local
  <2>3. held' \subseteq Runs
    BY <1>3, <2>2 DEF CommitClaim, TypeOK
  <2>4. dispatches' \in [Runs -> Nat]
    BY <1>3 DEF CommitClaim, TypeOK
  <2> QED
    BY <1>3, <2>1, <2>3, <2>4, TypeCommit DEF CommitClaim, Goto, TypeOK, Steps, budget
<1> QED
  BY <1>1, <1>2, <1>3 DEF Poll

LEMMA TypeDerive ==
    ASSUME TypeOK, NEW s \in Sessions, Derive(s) PROVE TypeOK'
<1>1. ASSUME NEW c \in Checks, CountRuns(s, c) PROVE TypeOK'
  <2>1. [req[s] EXCEPT !.chks = @ \ {c}] \in Local
    BY ReqIsLocal DEF Local
  <2>2. VerdictOf(s, c) \in Verdicts
    BY DEF VerdictOf, Verdicts
  <2> DEFINE counted == [req[s] EXCEPT !.chks = @ \ {c}, !.chk = c, !.verdict = VerdictOf(s, c)]
  <2>3. counted \in Local /\ counted.chk = c
    BY <2>2, ReqIsLocal DEF Local
  <2> DEFINE next == [req[s] EXCEPT !.chks = @ \ {c}]
  <2>4. Goto(s, "derive", next) \/ Goto(s, "finalize", counted)
    BY <1>1 DEF CountRuns
  <2>5. next \in Local
    BY <2>1
  <2> HIDE DEF counted, next
  <2>6. /\ pc' \in [Sessions -> Steps] /\ req' \in [Sessions -> Local]
        /\ \A t \in Sessions : pc'[t] \in {"addRuns", "finalize", "cancelScan", "cancelRuns"}
                                  => req'[t].chk \in Checks
    BY <2>3, <2>4, <2>5, TypeMove DEF Steps
  <2> QED
    BY <1>1, <2>6 DEF CountRuns, TypeOK, rows, locks, history, budget
<1>2. ASSUME FinalizeCheckStatus(s) PROVE TypeOK'
  <2>1. [req[s] EXCEPT !.chk = None, !.verdict = "none"] \in Local
    BY ReqIsLocal DEF Local
  <2>2. req[s].verdict \in CheckStatus
    BY DEF TypeOK, Local, CheckStatus
  <2>3. newC' \in [Checks -> CheckStatus] /\ lockC' \in [Checks -> Sessions \cup {None}]
    <3>1. WriteCheck(s, req[s].chk, req[s].verdict) \/ UNCHANGED <<lockC, newC>>
      BY <1>2 DEF FinalizeCheckStatus
    <3>2. req[s].chk \in Checks
      BY <1>2 DEF FinalizeCheckStatus, TypeOK
    <3> QED
      BY <2>2, <3>1, <3>2, TypeWriteCheck, TypeWriteNone
  <2> QED
    BY <1>2, <2>1, <2>3 DEF FinalizeCheckStatus, Goto, TypeOK, Steps, rows, history, budget
<1> QED
  BY <1>1, <1>2 DEF Derive

LEMMA TypeResults ==
    ASSUME TypeOK, NEW s \in Sessions, Results(s) PROVE TypeOK'
<1>1. ASSUME NEW B \in SUBSET held, PostResults(s, B) PROVE TypeOK'
  <2>1. [Fresh EXCEPT !.batch = B] \in Local
    BY DEF Local, Fresh, TypeOK
  <2> QED
    BY <1>1, <2>1 DEF PostResults, Unreported, Goto, TypeOK, Steps, rows, locks, history, budget
<1>2. ASSUME NEW r \in Runs, NEW status \in {"done", "error"}, CompleteCheckRun(s, r, status)
      PROVE TypeOK'
  <2>1. [req[s] EXCEPT !.run = r, !.batch = @ \ {r}, !.chks = {CheckOf[r]}] \in Local
    <3>1. CheckOf[r] \in Checks /\ req[s] \in Local
      BY RunAssumption DEF TypeOK
    <3> QED
      BY <3>1 DEF Local
  <2>2. newR' \in [Runs -> RunStatus] /\ lockR' \in [Runs -> Sessions \cup {None}]
    <3>1. WriteRun(s, r, status)
      BY <1>2 DEF CompleteCheckRun
    <3>2. status \in RunStatus
      BY DEF RunStatus, Finished, Succeeded, Errored
    <3> QED
      BY <3>1, <3>2, TypeWriteRun
  <2> QED
    BY <1>2, <2>1, <2>2 DEF CompleteCheckRun, Goto, TypeOK, Steps, rows, history, budget
<1>3. ASSUME CommitResult(s) PROVE TypeOK'
  <2>1. Fresh \in Local /\ [Fresh EXCEPT !.batch = req[s].batch] \in Local
    BY DEF Local, Fresh, TypeOK
  <2>2. req[s].run \in Runs
    BY <1>3 DEF CommitResult, TypeOK, Local
  <2>3. newR[req[s].run] \in RunStatus /\ results[req[s].run] \in Seq(RunStatus)
    BY <2>2 DEF TypeOK
  <2>4. Append(results[req[s].run], newR[req[s].run]) \in Seq(RunStatus)
    BY <2>3
  <2>5. results' \in [Runs -> Seq(RunStatus)]
    BY <1>3, <2>2, <2>4 DEF CommitResult, TypeOK
  <2> DEFINE rest == [Fresh EXCEPT !.batch = req[s].batch]
  <2>6. Goto(s, "idle", Fresh) \/ Goto(s, "recordResult", rest)
    BY <1>3 DEF CommitResult
  <2>7. rest \in Local
    BY <2>1
  <2> HIDE DEF rest
  <2>8. pc' \in [Sessions -> Steps] /\ req' \in [Sessions -> Local]
    BY <2>1, <2>6, <2>7, TypeGoto DEF Steps
  <2>9. \A t \in Sessions : pc'[t] \in {"addRuns", "finalize", "cancelScan", "cancelRuns"}
                             => req'[t].chk \in Checks
    BY <2>6 DEF Goto, TypeOK
  <2>10. CommitRows(s) /\ UNCHANGED <<held, overdue, history, budget>>
    BY <1>3 DEF CommitResult
  <2> QED
    BY <2>5, <2>8, <2>9, <2>10, TypeCommit DEF TypeOK, history, budget
<1> QED
  BY <1>1, <1>2, <1>3 DEF Results

LEMMA TypeSweep ==
    ASSUME TypeOK, NEW s \in Sessions, Sweep(s) PROVE TypeOK'
<1>1. ASSUME TimeoutStaleRuns(s) PROVE TypeOK'
  <2>1. [Fresh EXCEPT !.runs = Stale] \in Local
    BY DEF Local, Fresh, Stale
  <2> QED
    BY <1>1, <2>1 DEF TimeoutStaleRuns, Goto, TypeOK, Steps, rows, locks, history, budget
<1>2. ASSUME NEW r \in Runs, TimeoutRun(s, r) PROVE TypeOK'
  <2>1. /\ [req[s] EXCEPT !.runs = @ \ {r}, !.chks = @ \cup {CheckOf[r]}] \in Local
        /\ [req[s] EXCEPT !.runs = @ \ {r}] \in Local
    <3>1. CheckOf[r] \in Checks /\ req[s] \in Local
      BY RunAssumption DEF TypeOK
    <3>2. PICK cs \in SUBSET Checks : cs = req[s].chks \cup {CheckOf[r]}
      BY <3>1 DEF Local
    <3>3. PICK rs \in SUBSET Runs : rs = req[s].runs \ {r}
      BY <3>1 DEF Local
    <3>4. [req[s] EXCEPT !.runs = rs, !.chks = cs] \in Local /\ [req[s] EXCEPT !.runs = rs] \in Local
      BY <3>1 DEF Local
    <3> QED
      BY <3>2, <3>3, <3>4
  <2> DEFINE step == IF req[s].runs = {r} THEN "derive" ELSE "timeoutRuns"
             next == [req[s] EXCEPT !.runs = @ \ {r}, !.chks = @ \cup {CheckOf[r]}]
             skip == [req[s] EXCEPT !.runs = @ \ {r}]
  <2>2. newR' \in [Runs -> RunStatus] /\ lockR' \in [Runs -> Sessions \cup {None}]
    <3>1. WriteRun(s, r, "timeout") \/ UNCHANGED <<lockR, newR>>
      BY <1>2 DEF TimeoutRun
    <3>2. "timeout" \in RunStatus
      BY DEF RunStatus, Finished, Errored
    <3> QED
      BY <3>1, <3>2, TypeWriteRun, TypeWriteNone
  <2>3. next \in Local /\ skip \in Local /\ step \in {"derive", "timeoutRuns"}
    BY <2>1
  <2>4. Goto(s, step, next) \/ Goto(s, step, skip)
    BY <1>2 DEF TimeoutRun
  <2> HIDE DEF step, next, skip
  <2>5. /\ pc' \in [Sessions -> Steps] /\ req' \in [Sessions -> Local]
        /\ \A t \in Sessions : pc'[t] \in {"addRuns", "finalize", "cancelScan", "cancelRuns"}
                                  => req'[t].chk \in Checks
    BY <2>3, <2>4, TypeMove DEF Steps
  <2> QED
    BY <1>2, <2>2, <2>5 DEF TimeoutRun, TypeOK, rows, history, budget
<1>3. ASSUME CommitSweep(s) PROVE TypeOK'
  <2>1. Fresh \in Local
    BY DEF Local, Fresh
  <2> QED
    BY <1>3, <2>1, TypeCommit DEF CommitSweep, Goto, TypeOK, Steps, history, budget
<1> QED
  BY <1>1, <1>2, <1>3 DEF Sweep

LEMMA TypeCancel ==
    ASSUME TypeOK, NEW s \in Sessions, Cancel(s) PROVE TypeOK'
<1>1. ASSUME NEW c \in Checks, CancelCheck(s, c) PROVE TypeOK'
  <2>1. [Fresh EXCEPT !.chk = c] \in Local /\ [Fresh EXCEPT !.chk = c].chk = c
    BY DEF Local, Fresh
  <2>2. newC' \in [Checks -> CheckStatus] /\ lockC' \in [Checks -> Sessions \cup {None}]
    <3>1. WriteCheck(s, c, "cancelled") /\ "cancelled" \in CheckStatus
      BY <1>1 DEF CancelCheck, CheckStatus
    <3> QED
      BY <3>1, TypeWriteCheck
  <2>3. cancels' \in 0..MaxCancels
    BY <1>1, BoundAssumption DEF CancelCheck, TypeOK
  <2> QED
    BY <1>1, <2>1, <2>2, <2>3 DEF CancelCheck, Goto, TypeOK, Steps, rows, history
<1>2. ASSUME CancelScan(s) PROVE TypeOK'
  <2> DEFINE local == [req[s] EXCEPT !.runs = {r \in RunsOf(req[s].chk) : run[r] \in Unfinished}]
  <2>1. local \in Local /\ local.chk = req[s].chk
    BY ReqIsLocal DEF Local, RunsOf
  <2>2. Goto(s, "cancelRuns", local)
    BY <1>2 DEF CancelScan
  <2> HIDE DEF local
  <2>3. req[s].chk \in Checks
    BY <1>2 DEF CancelScan, TypeOK
  <2>4. /\ pc' \in [Sessions -> Steps] /\ req' \in [Sessions -> Local]
        /\ \A t \in Sessions : pc'[t] \in {"addRuns", "finalize", "cancelScan", "cancelRuns"}
                                  => req'[t].chk \in Checks
    BY <2>1, <2>2, <2>3, TypeMove DEF Steps
  <2> QED
    BY <1>2, <2>4 DEF CancelScan, TypeOK, rows, locks, history, budget
<1>3. ASSUME NEW r \in Runs, CancelRun(s, r) PROVE TypeOK'
  <2>1. [req[s] EXCEPT !.runs = @ \ {r}] \in Local /\ [req[s] EXCEPT !.runs = @ \ {r}].chk = req[s].chk
    BY ReqIsLocal DEF Local
  <2>2. newR' \in [Runs -> RunStatus] /\ lockR' \in [Runs -> Sessions \cup {None}]
    <3>1. WriteRun(s, r, "error") \/ UNCHANGED <<lockR, newR>>
      BY <1>3 DEF CancelRun
    <3>2. "error" \in RunStatus
      BY DEF RunStatus, Finished, Errored
    <3> QED
      BY <3>1, <3>2, TypeWriteRun, TypeWriteNone
  <2> QED
    BY <1>3, <2>1, <2>2 DEF CancelRun, Goto, TypeOK, Steps, rows, history, budget
<1>4. ASSUME CommitCancel(s) PROVE TypeOK'
  <2>1. Fresh \in Local
    BY DEF Local, Fresh
  <2> QED
    BY <1>4, <2>1, TypeCommit DEF CommitCancel, Goto, TypeOK, Steps, history, budget
<1> QED
  BY <1>1, <1>2, <1>3, <1>4 DEF Cancel

LEMMA TypeGiveUp ==
    ASSUME TypeOK, NEW s \in Sessions, GiveUp(s), faults' \in 0..MaxFaults PROVE TypeOK'
<1>1. Fresh \in Local
  BY DEF Local, Fresh
<1> QED
  BY <1>1 DEF GiveUp, Rollback, Release, Goto, TypeOK, Steps, rows, history

LEMMA TypeStep == TypeOK /\ [Next]_vars => TypeOK'
<1> SUFFICES ASSUME TypeOK, [Next]_vars PROVE TypeOK'
  OBVIOUS
<1>1. ASSUME NEW s \in Sessions, Create(s) \/ Poll(s) \/ Results(s) \/ Cancel(s) \/ Sweep(s) \/ Derive(s)
      PROVE  TypeOK'
  BY <1>1, TypeCreate, TypePoll, TypeResults, TypeCancel, TypeSweep, TypeDerive
<1>2. ASSUME NEW s \in Sessions, Fail(s) PROVE TypeOK'
  <2>1. faults' \in 0..MaxFaults
    BY <1>2, BoundAssumption DEF Fail, TypeOK
  <2> QED
    BY <1>2, <2>1, TypeGiveUp DEF Fail
<1>3. ASSUME NEW s \in Sessions, DeadlockVictim(s) PROVE TypeOK'
  <2>1. faults' \in 0..MaxFaults
    BY <1>3 DEF DeadlockVictim, TypeOK
  <2> QED
    BY <1>3, <2>1, TypeGiveUp DEF DeadlockVictim
<1>4. ASSUME NEW c \in Checks, GracePasses(c) PROVE TypeOK'
  BY <1>4 DEF GracePasses, TypeOK, rows, locks, history, budget
<1>5. CASE UNCHANGED vars
  BY <1>5 DEF vars, TypeOK, rows, locks, history, budget
<1> QED
  BY <1>1, <1>2, <1>3, <1>4, <1>5 DEF Next, Sessions

(* The state of every component has its type in every reachable state. *)
THEOREM TypeCorrect == Spec => []TypeOK
  BY TypeInit, TypeStep, PTL DEF Spec
=============================================================================
