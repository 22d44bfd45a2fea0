-------------------------- MODULE CheckBoardProofs --------------------------
(***************************************************************************)
(* CheckLifecycle implements CheckBoard; and the safety properties about a   *)
(* run's jobs and results, "completed" and cancels.  Both rest on BInv.  A   *)
(* step of one session disturbs the others very little (LeavesOthers,        *)
(* Forward): that much is shown once, so that the lemma of an action, named   *)
(* Keeps<Action>, is about its own session.                                  *)
(***************************************************************************)
EXTENDS CheckLifecycleSafety

(* What a step of s leaves as it is: the other sessions, and the rows they hold. *)
LeavesOthers(s) ==
    \A t \in Sessions : t # s =>
        /\ pc'[t] = pc[t] /\ req'[t] = req[t]
        /\ \A r \in Runs : /\ lockR'[r] = t <=> lockR[r] = t
                           /\ lockR[r] = t => newR'[r] = newR[r] /\ run'[r] = run[r]
        /\ \A c \in Checks : /\ lockC'[c] = t <=> lockC[c] = t
                             /\ lockC[c] = t => newC'[c] = newC[c] /\ check'[c] = check[c]

(* The one way rows go: runs of a check come all at once and only end, a check
   that has started is never pending again. *)
Forward(s) ==
    /\ addedLate \subseteq addedLate'
    /\ \A c \in Checks : check[c] \notin {"none", "pending"} => check'[c] # "pending"
    /\ \A r \in Runs :
          /\ run[r] \in Finished => run'[r] \in Finished
          /\ run[r] = "done" => run'[r] = "done"
          /\ run[r] = "none" /\ run'[r] # "none" =>
                /\ run'[r] = "queued" /\ ~HasRuns(CheckOf[r])
                /\ CancelBegun(CheckOf[r]) => CheckOf[r] \in addedLate'
          /\ run[r] = "queued" /\ check[CheckOf[r]] = "pending"
                /\ lockC[CheckOf[r]] \notin {s, None} => run'[r] \in {"queued"} \cup Finished

BoardSound == /\ \A s \in Sessions : SessionIsSound(s)
              /\ JobIsInOnePlace
              /\ HistoryFitsRun
              /\ RowsAreSound

-----------------------------------------------------------------------------
(* The other sessions. *)

LEMMA OthersStaySound ==
    ASSUME BInv, NEW s \in Sessions, LeavesOthers(s), Forward(s),
           NEW t \in Sessions, t # s
    PROVE  SessionIsSound(t)'
<1>1. /\ pc'[t] = pc[t] /\ req'[t] = req[t]
      /\ \A r \in Runs : /\ lockR'[r] = t <=> lockR[r] = t
                         /\ lockR[r] = t => newR'[r] = newR[r] /\ run'[r] = run[r]
      /\ \A c \in Checks : /\ lockC'[c] = t <=> lockC[c] = t
                           /\ lockC[c] = t => newC'[c] = newC[c] /\ check'[c] = check[c]
  BY DEF LeavesOthers
<1>2. LocksAreDue(t) /\ WorkIsLocked(t) /\ CancelIsThorough(t) /\ CompletionIsSound(t)
  BY DEF BInv, SessionIsSound
<1>3. req[t] \in Local /\ \A r \in Runs : CheckOf[r] \in Checks
  BY RunAssumption DEF BInv, IInv, TypeOK
<1>4. \A c \in Checks : Wrote(t, c)' <=> Wrote(t, c)
  BY <1>1 DEF Wrote, RunsOf
<1>5. LocksAreDue(t)'
  <2>1. ASSUME NEW r \in Runs, lockR'[r] = t PROVE RunLockIsDue(t, r)'
    BY <1>1, <1>2, <2>1 DEF LocksAreDue, RunLockIsDue
  <2>2. ASSUME NEW c \in Checks, lockC'[c] = t PROVE CheckLockIsDue(t, c)'
    BY <1>1, <1>2, <1>4, <2>2 DEF LocksAreDue, CheckLockIsDue
  <2> QED
    BY <2>1, <2>2 DEF LocksAreDue
<1>6. WorkIsLocked(t)'
  <2>1. ASSUME pc[t] = "markRunning", NEW r \in req[t].runs
        PROVE  /\ lockR'[r] = t
               /\ CheckOf[r] \in req[t].chks \/ lockC'[CheckOf[r]] = t \/ check'[CheckOf[r]] # "pending"
    <3>1. r \in Runs /\ lockR[r] = t
      BY <1>2, <1>3, <2>1 DEF WorkIsLocked, Local
    <3>2. check[CheckOf[r]] # "none"
      BY <1>3, <3>1, NoneAssumption DEF BInv, IInv, CreationIsPrivate, HasRuns, RunsOf
    <3> QED
      BY <1>1, <1>2, <1>3, <2>1, <3>1, <3>2 DEF WorkIsLocked, Forward
  <2>2. pc[t] \in {"cancelScan", "cancelRuns", "finalize"} => req[t].chk \in Checks
    BY DEF BInv, IInv, TypeOK
  <2>3. req[t].run # None => req[t].run \in Runs
    BY <1>3 DEF Local
  <2>4. req[t].chks \subseteq Checks
    BY <1>3 DEF Local
  <2> QED
    BY <1>1, <1>2, <1>4, <2>1, <2>2, <2>3, <2>4 DEF WorkIsLocked
<1>7. CancelIsThorough(t)'
  <2> SUFFICES ASSUME pc[t] = "cancelRuns", NEW r \in RunsOf(req[t].chk)
               PROVE  r \in req[t].runs \/ View(t, r)' \in Finished \cup {"none"} \/ Late(r)'
    BY <1>1, <1>2 DEF CancelIsThorough, RunsOf
  <2> DEFINE c == req[t].chk
  <2>1. r \in Runs /\ CheckOf[r] = c /\ c \in Checks
    BY DEF RunsOf, BInv, IInv, TypeOK
  <2>2. lockC[c] = t /\ newC[c] = "cancelled" /\ check[c] \in Open
    BY <1>2, <2>1 DEF WorkIsLocked, LocksAreDue, CheckLockIsDue, BInv, IInv, LocksFollowSteps
  <2>3. check'[c] = check[c]
    BY <1>1, <2>1, <2>2
  <2>4. CASE lockR[r] = t
    BY <1>1, <2>1, <2>4 DEF View, BInv, IInv, LocksFollowSteps
  <2>5. CASE lockR[r] # t
    <3>1. View(t, r)' = run'[r] /\ View(t, r) = run[r]
      BY <1>1, <2>1, <2>5 DEF View
    <3>2. CASE run[r] = "none"
      <4>1. run'[r] # "none" => ~HasRuns(c) /\ check[c] = "pending"
        BY <2>1, <2>2, <3>2 DEF Forward, BInv, RowsAreSound, Open
      <4> QED
        BY <2>1, <2>2, <2>3, <3>1, <3>2, <4>1 DEF Forward, CancelBegun, Late
    <3>3. CASE Late(r)
      BY <2>1, <2>2, <2>3, <3>1, <3>3, NoneAssumption DEF Forward, Late
    <3>4. CASE run[r] \in Finished
      BY <2>1, <3>1, <3>4 DEF Forward
    <3> QED
      BY <1>2, <3>1, <3>2, <3>3, <3>4 DEF CancelIsThorough
  <2> QED
    BY <2>4, <2>5
<1>8. CompletionIsSound(t)'
  <2> SUFFICES ASSUME NEW c \in Checks, JudgedComplete(t, c)', NEW r \in RunsOf(c)
               PROVE  View(t, r)' \in Succeeded \cup {"none"}
    BY DEF CompletionIsSound
  <2>1. JudgedComplete(t, c)
    BY <1>1 DEF JudgedComplete
  <2>2. HasRuns(c)
    BY <2>1 DEF JudgedComplete, JudgedBy, Verdicts, SettledFor, BInv, IInv, VerdictsAreSound
  <2>3. View(t, r) \in Succeeded \cup {"none"}
    BY <1>2, <2>1 DEF CompletionIsSound
  <2>4. r \in Runs /\ CheckOf[r] = c
    BY DEF RunsOf
  <2>5. CASE lockR[r] = t
    BY <1>1, <2>3, <2>4, <2>5 DEF View
  <2>6. CASE lockR[r] # t
    <3>1. View(t, r) = run[r] /\ View(t, r)' = run'[r]
      BY <1>1, <2>4, <2>6 DEF View
    <3>2. run[r] = "done" => run'[r] = "done"
      BY <2>4 DEF Forward
    <3>3. run[r] = "none" => run'[r] = "none"
      BY <2>2, <2>4 DEF Forward
    <3> QED
      BY <2>3, <3>1, <3>2, <3>3 DEF Succeeded
  <2> QED
    BY <2>5, <2>6
<1> QED
  BY <1>5, <1>6, <1>7, <1>8 DEF SessionIsSound

-----------------------------------------------------------------------------
(* Steps that write no row. *)

(* A session outside a transaction, or about to end one, holds nothing. *)
LEMMA NothingHeld ==
    ASSUME IInv, NEW s \in Sessions, pc[s] \in {"idle", "insertCheck", "addRuns", "recordResult"}
    PROVE  (\A r \in Runs : lockR[r] # s) /\ (\A c \in Checks : lockC[c] # s)
  BY DEF IInv, LocksFollowSteps

LEMMA RunNamed ==
    ASSUME BInv, NEW s \in Sessions, pc[s] \notin {"derive", "finalize"}
    PROVE  req[s].run = None
  BY DEF BInv, SessionIsSound, WorkIsLocked

(* Nothing is expected of a session that holds nothing. *)
LEMMA Unburdened ==
    ASSUME NEW s \in Sessions, req'[s].run = None,
           \A r \in Runs : lockR'[r] # s, \A c \in Checks : lockC'[c] # s,
           \/ pc'[s] \in {"idle", "insertCheck", "addRuns", "recordResult"}
           \/ pc'[s] = "timeoutRuns" /\ req'[s].chks = {}
    PROVE  SessionIsSound(s)'
<1>1. LocksAreDue(s)'
  BY DEF LocksAreDue
<1>2. WorkIsLocked(s)'
  BY DEF WorkIsLocked
<1>3. CancelIsThorough(s)'
  BY DEF CancelIsThorough
<1>4. CompletionIsSound(s)'
  BY DEF CompletionIsSound, JudgedComplete
<1> QED
  BY <1>1, <1>2, <1>3, <1>4 DEF SessionIsSound

(* Everything else survives a step of s that takes locks on free rows or gives
   up its own, writes no row, and at most turns jobs held into jobs reported. *)
LEMMA QuietStep ==
    ASSUME BInv, NEW s \in Sessions, UNCHANGED rows, UNCHANGED history, held' \subseteq held,
           \A t \in Sessions : t # s => pc'[t] = pc[t] /\ req'[t] = req[t],
           \A r \in Runs : \/ lockR'[r] = lockR[r] /\ newR'[r] = newR[r]
                           \/ /\ {lockR[r], lockR'[r]} \subseteq {None, s}
                              /\ lockR'[r] = s => results[r] = <<>>,
           \A c \in Checks : \/ lockC'[c] = lockC[c] /\ newC'[c] = newC[c]
                             \/ {lockC[c], lockC'[c]} \subseteq {None, s},
           \A r \in Runs : Reporting(s, r)' =>
                /\ Reporting(s, r) \/ (r \in held /\ r \notin held')
                /\ ~(r \in req'[s].batch /\ req'[s].run = r),
           SessionIsSound(s)'
    PROVE  BoardSound'
<1>1. UNCHANGED <<check, run, results, dispatches, addedLate>>
  BY DEF rows, history
<1>2. LeavesOthers(s)
  BY <1>1, NoneAssumption DEF LeavesOthers
<1>3. Forward(s)
  <2>1. \A r \in Runs : run[r] # "queued" \/ run'[r] = "queued"
    BY <1>1
  <2>2. \A r \in Runs : run[r] = "none" => run'[r] = "none"
    BY <1>1
  <2> QED
    BY <1>1, <2>1, <2>2 DEF Forward
<1>4. \A t \in Sessions : SessionIsSound(t)'
  BY <1>2, <1>3, OthersStaySound
<1>5. JobIsInOnePlace'
  <2>1. \A r \in Runs : Awaited(r)' <=> Awaited(r)
    BY <1>1 DEF Awaited
  <2>2. \A t \in Sessions, r \in Runs : t # s => (Reporting(t, r)' <=> Reporting(t, r))
    BY DEF Reporting
  <2>3. /\ \A r \in held : r \in Runs /\ Awaited(r) /\ \A t \in Sessions : ~Reporting(t, r)
        /\ \A t \in Sessions, r \in Runs :
              Reporting(t, r) => Awaited(r) /\ ~(r \in req[t].batch /\ req[t].run = r)
        /\ \A t, u \in Sessions, r \in Runs : Reporting(t, r) /\ Reporting(u, r) => t = u
    BY DEF BInv, JobIsInOnePlace, IInv, TypeOK
  <2>4. ASSUME NEW r \in held' PROVE Awaited(r)' /\ \A t \in Sessions : ~Reporting(t, r)'
    BY <2>1, <2>2, <2>3, <2>4
  <2>5. ASSUME NEW t \in Sessions, NEW r \in Runs, Reporting(t, r)'
        PROVE  Awaited(r)' /\ ~(r \in req'[t].batch /\ req'[t].run = r)
    BY <2>1, <2>2, <2>3, <2>5
  <2>6. ASSUME NEW t \in Sessions, NEW u \in Sessions, NEW r \in Runs,
               Reporting(t, r)', Reporting(u, r)'
        PROVE  t = u
    BY <2>2, <2>3, <2>6
  <2> QED
    BY <2>4, <2>5, <2>6 DEF JobIsInOnePlace
<1>6. HistoryFitsRun'
  <2> SUFFICES ASSUME NEW r \in Runs, results[r] # <<>> PROVE lockR'[r] = None
    BY <1>1 DEF BInv, HistoryFitsRun
  <2>1. lockR[r] = None
    BY DEF BInv, HistoryFitsRun
  <2> QED
    BY <2>1
<1>7. RowsAreSound'
  BY <1>1 DEF BInv, RowsAreSound, CancelReachesRuns, CompletedMeansAllDone, HasRuns, Exists, RunsOf
<1> QED
  BY <1>4, <1>5, <1>6, <1>7 DEF BoardSound

-----------------------------------------------------------------------------
(* The actions that only begin a transaction or move within one. *)

LEMMA KeepsCreateCheck ==
    ASSUME BInv, NEW s \in Sessions, NEW B \in SUBSET Checks, NEW N \in SUBSET Nodes,
           CreateCheck(s, B, N)
    PROVE  BoardSound'
<1> DEFINE local == [Fresh EXCEPT !.chks = B, !.nodes = N]
<1>1. local.run = None /\ local.batch = {}
  BY DEF Fresh
<1>2. /\ pc[s] = "idle" /\ Goto(s, "insertCheck", local)
      /\ UNCHANGED <<rows, history, newC, newR, lockC, lockR, held>>
  BY DEF CreateCheck, locks
<1> HIDE DEF local
<1>3. /\ \A t \in Sessions : t # s => pc'[t] = pc[t] /\ req'[t] = req[t]
      /\ pc'[s] = "insertCheck" /\ req'[s].run = None /\ req'[s].batch = {}
  BY <1>1, <1>2, GotoFrame DEF BInv, IInv
<1>4. SessionIsSound(s)'
  BY <1>2, <1>3, NothingHeld, Unburdened DEF BInv
<1>5. \A r \in Runs : ~Reporting(s, r)'
  BY <1>3, NoneAssumption DEF Reporting
<1> QED
  BY <1>2, <1>3, <1>4, <1>5, QuietStep

LEMMA KeepsPostResults ==
    ASSUME BInv, NEW s \in Sessions, NEW B \in SUBSET held, PostResults(s, B)
    PROVE  BoardSound'
<1> DEFINE local == [Fresh EXCEPT !.batch = B]
<1>1. local.run = None /\ local.batch = B
  BY DEF Fresh
<1>2. /\ pc[s] = "idle" /\ Goto(s, "recordResult", local) /\ held' = held \ B
      /\ UNCHANGED <<rows, history, newC, newR, lockC, lockR>>
  BY DEF PostResults, Unreported, locks
<1> HIDE DEF local
<1>3. /\ \A t \in Sessions : t # s => pc'[t] = pc[t] /\ req'[t] = req[t]
      /\ pc'[s] = "recordResult" /\ req'[s].run = None /\ req'[s].batch = B
  BY <1>1, <1>2, GotoFrame DEF BInv, IInv
<1>4. SessionIsSound(s)'
  BY <1>2, <1>3, NothingHeld, Unburdened DEF BInv
<1>5. \A r \in Runs : Reporting(s, r)' => /\ r \in held /\ r \notin held'
                                          /\ ~(r \in req'[s].batch /\ req'[s].run = r)
  BY <1>2, <1>3, NoneAssumption DEF Reporting
<1> QED
  BY <1>2, <1>3, <1>4, <1>5, QuietStep

LEMMA KeepsTimeoutStaleRuns ==
    ASSUME BInv, NEW s \in Sessions, TimeoutStaleRuns(s)
    PROVE  BoardSound'
<1> DEFINE local == [Fresh EXCEPT !.runs = Stale]
<1>1. local.run = None /\ local.batch = {} /\ local.chks = {}
  BY DEF Fresh
<1>2. /\ pc[s] = "idle" /\ Goto(s, "timeoutRuns", local)
      /\ UNCHANGED <<rows, history, newC, newR, lockC, lockR, held>>
  BY DEF TimeoutStaleRuns, locks
<1> HIDE DEF local
<1>3. /\ \A t \in Sessions : t # s => pc'[t] = pc[t] /\ req'[t] = req[t]
      /\ pc'[s] = "timeoutRuns" /\ req'[s].run = None /\ req'[s].batch = {} /\ req'[s].chks = {}
  BY <1>1, <1>2, GotoFrame DEF BInv, IInv
<1>4. SessionIsSound(s)'
  BY <1>2, <1>3, NothingHeld, Unburdened DEF BInv
<1>5. \A r \in Runs : ~Reporting(s, r)'
  BY <1>3, NoneAssumption DEF Reporting
<1> QED
  BY <1>2, <1>3, <1>4, <1>5, QuietStep

(* A rollback lets go of everything; the jobs of the batch are lost. *)
LEMMA KeepsGiveUp ==
    ASSUME BInv, NEW s \in Sessions, GiveUp(s)
    PROVE  BoardSound'
<1>1. Fresh.run = None /\ Fresh.batch = {}
  BY DEF Fresh
<1>2. /\ Rollback(s) /\ Goto(s, "idle", Fresh)
      /\ UNCHANGED <<rows, history, held>>
  BY DEF GiveUp, Rollback
<1>3. /\ \A t \in Sessions : t # s => pc'[t] = pc[t] /\ req'[t] = req[t]
      /\ pc'[s] = "idle" /\ req'[s].run = None /\ req'[s].batch = {}
  BY <1>1, <1>2, GotoFrame DEF BInv, IInv
<1>4. /\ \A c \in Checks : \/ lockC[c] = s /\ lockC'[c] = None
                           \/ lockC[c] # s /\ lockC'[c] = lockC[c] /\ newC'[c] = newC[c]
      /\ \A r \in Runs : \/ lockR[r] = s /\ lockR'[r] = None
                         \/ lockR[r] # s /\ lockR'[r] = lockR[r] /\ newR'[r] = newR[r]
  BY <1>2 DEF Rollback, Release
<1>5. SessionIsSound(s)'
  BY <1>3, <1>4, NoneAssumption, Unburdened
<1>6. \A r \in Runs : ~Reporting(s, r)'
  BY <1>3, NoneAssumption DEF Reporting
<1> QED
  BY <1>2, <1>3, <1>4, <1>5, <1>6, NoneAssumption, QuietStep

(* A claim takes queued runs, which have no result yet. *)
LEMMA KeepsClaimQueuedRuns ==
    ASSUME BInv, NEW s \in Sessions, NEW n \in Nodes, ClaimQueuedRuns(s, n)
    PROVE  BoardSound'
<1>1. PICK S \in Batches(n) :
         /\ lockR' = [r \in Runs |-> IF r \in S THEN s ELSE lockR[r]]
         /\ newR' = [r \in Runs |-> IF r \in S THEN "dispatched" ELSE newR[r]]
         /\ Goto(s, "markRunning", [Fresh EXCEPT !.runs = S, !.chks = {CheckOf[r] : r \in S}])
  BY DEF ClaimQueuedRuns
<1> DEFINE local == [Fresh EXCEPT !.runs = S, !.chks = {CheckOf[r] : r \in S}]
<1>2. /\ local.runs = S /\ local.batch = {} /\ local.run = None
      /\ local.chks = {CheckOf[r] : r \in S}
  BY DEF Fresh
<1>3. /\ Goto(s, "markRunning", local) /\ pc[s] = "idle"
      /\ UNCHANGED <<rows, history, newC, lockC, held>>
  BY <1>1 DEF ClaimQueuedRuns
<1> HIDE DEF local
<1>4. /\ \A t \in Sessions : t # s => pc'[t] = pc[t] /\ req'[t] = req[t]
      /\ pc'[s] = "markRunning" /\ req'[s] = local
  BY <1>3, GotoFrame DEF BInv, IInv
<1>5. \A r \in S : r \in Runs /\ run[r] = "queued" /\ lockR[r] = None
  BY DEF Batches, Claimable
<1>6. \A r \in Runs : IF r \in S THEN lockR'[r] = s ELSE lockR'[r] = lockR[r] /\ newR'[r] = newR[r]
  BY <1>1
<1>7. (\A r \in Runs : lockR[r] # s) /\ (\A c \in Checks : lockC[c] # s)
  BY <1>3, NothingHeld DEF BInv
<1>8. LocksAreDue(s)'
  BY <1>2, <1>3, <1>4, <1>5, <1>6, <1>7 DEF LocksAreDue, RunLockIsDue, rows
<1>9. WorkIsLocked(s)'
  <2>1. \A c \in local.chks : Wrote(s, c)'
    BY <1>2, <1>5, <1>6 DEF Wrote, RunsOf
  <2> QED
    BY <1>2, <1>4, <1>5, <1>6, <2>1 DEF WorkIsLocked
<1>10. CancelIsThorough(s)' /\ CompletionIsSound(s)'
  BY <1>3, <1>4, <1>7 DEF CancelIsThorough, CompletionIsSound, JudgedComplete
<1>11. \A r \in S : results[r] = <<>>
  BY <1>5 DEF BInv, HistoryFitsRun
<1>12. \A r \in Runs : ~Reporting(s, r)'
  BY <1>2, <1>4, NoneAssumption DEF Reporting
<1>13. \A r \in Runs : \/ lockR'[r] = lockR[r] /\ newR'[r] = newR[r]
                       \/ /\ {lockR[r], lockR'[r]} \subseteq {None, s}
                          /\ lockR'[r] = s => results[r] = <<>>
  BY <1>5, <1>6, <1>11
<1>14. SessionIsSound(s)'
  BY <1>8, <1>9, <1>10 DEF SessionIsSound
<1> QED
  BY <1>3, <1>4, <1>12, <1>13, <1>14, QuietStep

LEMMA KeepsMarkRunning ==
    ASSUME BInv, NEW s \in Sessions, NEW c \in Checks, MarkRunning(s, c)
    PROVE  BoardSound'
<1> DEFINE local == [req[s] EXCEPT !.chks = @ \ {c}]
<1>1. /\ local.runs = req[s].runs /\ local.batch = req[s].batch /\ local.run = req[s].run
      /\ local.chks = req[s].chks \ {c}
  BY DEF BInv, IInv, TypeOK, Local
<1>2. /\ Goto(s, "markRunning", local) /\ pc[s] = "markRunning" /\ c \in req[s].chks
      /\ UNCHANGED <<rows, history, newR, lockR, held>>
  BY DEF MarkRunning
<1> HIDE DEF local
<1>3. /\ \A t \in Sessions : t # s => pc'[t] = pc[t] /\ req'[t] = req[t]
      /\ pc'[s] = "markRunning" /\ req'[s] = local
  BY <1>2, GotoFrame DEF BInv, IInv
<1>4. /\ \A d \in Checks : d # c => lockC'[d] = lockC[d] /\ newC'[d] = newC[d]
      /\ \/ check[c] = "pending" /\ lockC[c] = None /\ lockC'[c] = s /\ newC'[c] = "running"
         \/ check[c] # "pending" /\ lockC'[c] = lockC[c] /\ newC'[c] = newC[c]
  BY DEF MarkRunning, WriteCheck, BInv, IInv, TypeOK
<1>5. LocksAreDue(s) /\ WorkIsLocked(s) /\ CompletionIsSound(s)
  BY DEF BInv, SessionIsSound
<1>6. UNCHANGED <<check, run>>
  BY <1>2 DEF rows
<1>7. \A d \in Checks : Wrote(s, d)' <=> Wrote(s, d)
  BY <1>2 DEF Wrote, RunsOf
<1>8. LocksAreDue(s)'
  <2>1. ASSUME NEW r \in Runs, lockR'[r] = s PROVE RunLockIsDue(s, r)'
    BY <1>1, <1>2, <1>3, <1>5, <1>6, <2>1 DEF LocksAreDue, RunLockIsDue
  <2>2. PICK r \in Runs : CheckOf[r] = c /\ lockR[r] = s
    BY <1>2, <1>5 DEF WorkIsLocked, Wrote, RunsOf
  <2>3. r \in req[s].runs
    BY <1>2, <2>2 DEF BInv, IInv, LocksFollowSteps
  <2>4. ASSUME NEW d \in Checks, lockC'[d] = s PROVE CheckLockIsDue(s, d)'
    BY <1>1, <1>2, <1>3, <1>4, <1>5, <1>6, <2>2, <2>3, <2>4 DEF LocksAreDue, CheckLockIsDue
  <2> QED
    BY <2>1, <2>4 DEF LocksAreDue
<1>9. WorkIsLocked(s)'
  <2>1. req[s].runs \subseteq Runs /\ req[s].chks \subseteq Checks
    BY DEF BInv, IInv, TypeOK, Local
  <2>2. \A r \in req[s].runs : CheckOf[r] \in Checks
    BY <2>1, RunAssumption
  <2>3. req[s].run = None
    BY <1>2, RunNamed
  <2> QED
    BY <1>1, <1>2, <1>3, <1>4, <1>5, <1>6, <1>7, <2>1, <2>2, <2>3 DEF WorkIsLocked
<1>10. CancelIsThorough(s)' /\ CompletionIsSound(s)'
  <2>1. \A d \in Checks : JudgedComplete(s, d)' => JudgedComplete(s, d)
    BY <1>2, <1>3, <1>4 DEF JudgedComplete
  <2> QED
    BY <1>2, <1>3, <1>5, <1>6, <2>1 DEF CancelIsThorough, CompletionIsSound, View, RunsOf
<1>11. SessionIsSound(s)'
  BY <1>8, <1>9, <1>10 DEF SessionIsSound
<1>12. \A r \in Runs : Reporting(s, r)' => Reporting(s, r) /\ ~(r \in req'[s].batch /\ req'[s].run = r)
  BY <1>1, <1>3 DEF Reporting, BInv, JobIsInOnePlace
<1> QED
  BY <1>2, <1>3, <1>4, <1>11, <1>12, QuietStep

(* What s holds and works on is as due after a move as before it. *)
LEMMA HeldAlike ==
    ASSUME BInv, NEW s \in Sessions, UNCHANGED <<check, run, newC, newR, lockC, lockR>>,
           pc[s] \in {"derive", "finalize"}, pc'[s] \in {"derive", "finalize"},
           req'[s].run = req[s].run, req'[s].chks \subseteq req[s].chks,
           pc'[s] = "finalize" => req'[s].chk \in req[s].chks
    PROVE  LocksAreDue(s)' /\ WorkIsLocked(s)' /\ CancelIsThorough(s)'
<1>1. LocksAreDue(s) /\ WorkIsLocked(s)
  BY DEF BInv, SessionIsSound
<1>2. \A c \in Checks : Wrote(s, c)' <=> Wrote(s, c)
  BY DEF Wrote, RunsOf
<1>3. LocksAreDue(s)'
  <2>1. \A r \in Runs : RunLockIsDue(s, r) => RunLockIsDue(s, r)'
    BY DEF RunLockIsDue
  <2>2. \A c \in Checks : CheckLockIsDue(s, c) => CheckLockIsDue(s, c)'
    BY <1>2 DEF CheckLockIsDue
  <2> QED
    BY <1>1, <2>1, <2>2 DEF LocksAreDue
<1>4. WorkIsLocked(s)'
  <2>1. req[s].chks \subseteq Checks /\ \A c \in req[s].chks : Wrote(s, c)
    BY <1>1 DEF WorkIsLocked, BInv, IInv, TypeOK, Local
  <2>2. req[s].run # None => lockR'[req[s].run] = s
    BY <1>1 DEF WorkIsLocked
  <2>3. (\A c \in req'[s].chks : Wrote(s, c)') /\ (pc'[s] = "finalize" => Wrote(s, req[s].chk)')
    BY <1>2, <2>1
  <2> QED
    BY <1>2, <2>1, <2>2 DEF WorkIsLocked
<1> QED
  BY <1>3, <1>4 DEF CancelIsThorough

(* A count that finds only successes says so. *)
LEMMA KeepsCountRuns ==
    ASSUME BInv, NEW s \in Sessions, NEW c \in Checks, CountRuns(s, c)
    PROVE  BoardSound'
<1> DEFINE less == [req[s] EXCEPT !.chks = @ \ {c}]
           more == [req[s] EXCEPT !.chks = @ \ {c}, !.chk = c, !.verdict = VerdictOf(s, c)]
<1>1. /\ less.run = req[s].run /\ less.batch = req[s].batch /\ less.chks = req[s].chks \ {c}
      /\ more.run = req[s].run /\ more.batch = req[s].batch /\ more.chks = req[s].chks \ {c}
      /\ more.chk = c /\ more.verdict = VerdictOf(s, c)
  BY DEF BInv, IInv, TypeOK, Local
<1>2. /\ pc[s] = "derive" /\ c \in req[s].chks
      /\ \/ Goto(s, "derive", less)
         \/ ~Pending(s, c) /\ Goto(s, "finalize", more)
      /\ UNCHANGED <<rows, history, newC, newR, lockC, lockR, held>>
  BY DEF CountRuns, locks
<1> HIDE DEF less, more
<1>3. /\ \A t \in Sessions : t # s => pc'[t] = pc[t] /\ req'[t] = req[t]
      /\ \/ pc'[s] = "derive" /\ req'[s] = less
         \/ ~Pending(s, c) /\ pc'[s] = "finalize" /\ req'[s] = more
  BY <1>2, GotoFrame DEF BInv, IInv
<1>4. UNCHANGED <<check, run, newC, newR, lockC, lockR>>
  BY <1>2 DEF rows
<1>5. LocksAreDue(s)' /\ WorkIsLocked(s)' /\ CancelIsThorough(s)'
  BY <1>1, <1>2, <1>3, <1>4, HeldAlike
<1>6. CompletionIsSound(s)'
  <2>1. \A r \in Runs : View(s, r)' = View(s, r)
    BY <1>4 DEF View
  <2>2. CASE pc'[s] = "derive"
    BY <1>4, <2>1, <2>2 DEF CompletionIsSound, JudgedComplete, RunsOf, BInv, SessionIsSound
  <2>3. CASE ~Pending(s, c) /\ pc'[s] = "finalize" /\ req'[s] = more
    <3>1. ASSUME VerdictOf(s, c) = "completed", NEW r \in RunsOf(c)
          PROVE  View(s, r) \in Succeeded \cup {"none"}
      <4>1. View(s, r) \in RunStatus /\ View(s, r) \notin Unfinished
        BY <2>3 DEF RunsOf, Pending, View, BInv, IInv, TypeOK
      <4>2. View(s, r) \notin Errored
        BY <3>1 DEF VerdictOf
      <4> QED
        BY <4>1, <4>2 DEF RunStatus, Finished
    <3> QED
      BY <1>1, <1>4, <2>1, <2>3, <3>1
      DEF CompletionIsSound, JudgedComplete, RunsOf, BInv, SessionIsSound
  <2> QED
    BY <1>3, <2>2, <2>3
<1>7. \A r \in Runs : Reporting(s, r)' => Reporting(s, r) /\ ~(r \in req'[s].batch /\ req'[s].run = r)
  BY <1>1, <1>3 DEF Reporting, BInv, JobIsInOnePlace
<1> QED
  BY <1>2, <1>3, <1>5, <1>6, <1>7, QuietStep DEF SessionIsSound

(* A verdict is written as it was counted. *)
LEMMA KeepsFinalizeCheckStatus ==
    ASSUME BInv, NEW s \in Sessions, FinalizeCheckStatus(s)
    PROVE  BoardSound'
<1> DEFINE c == req[s].chk
           local == [req[s] EXCEPT !.chk = None, !.verdict = "none"]
<1>1. /\ local.run = req[s].run /\ local.batch = req[s].batch /\ local.chks = req[s].chks
      /\ c \in Checks
  BY DEF FinalizeCheckStatus, BInv, IInv, TypeOK, Local
<1>2. /\ pc[s] = "finalize" /\ Goto(s, "derive", local)
      /\ UNCHANGED <<rows, history, newR, lockR, held>>
  BY DEF FinalizeCheckStatus
<1>3. /\ \A d \in Checks : d # c => lockC'[d] = lockC[d] /\ newC'[d] = newC[d]
      /\ \/ check[c] # "cancelled" /\ lockC[c] = None /\ lockC'[c] = s /\ newC'[c] = req[s].verdict
         \/ lockC'[c] = lockC[c] /\ newC'[c] = newC[c]
  BY <1>1 DEF FinalizeCheckStatus, Finalizable, WriteCheck, BInv, IInv, TypeOK
<1> HIDE DEF local, c
<1>4. /\ \A t \in Sessions : t # s => pc'[t] = pc[t] /\ req'[t] = req[t]
      /\ pc'[s] = "derive" /\ req'[s] = local
  BY <1>2, GotoFrame DEF BInv, IInv
<1>5. LocksAreDue(s) /\ WorkIsLocked(s) /\ CompletionIsSound(s)
  BY DEF BInv, SessionIsSound
<1>6. UNCHANGED <<check, run>> /\ \A d \in Checks : Wrote(s, d)' <=> Wrote(s, d)
  BY <1>2 DEF rows, Wrote, RunsOf
<1>7. LocksAreDue(s)'
  <2>1. ASSUME NEW r \in Runs, lockR'[r] = s PROVE RunLockIsDue(s, r)'
    BY <1>1, <1>2, <1>4, <1>5, <1>6, <2>1 DEF LocksAreDue, RunLockIsDue
  <2>2. Wrote(s, c)
    BY <1>2, <1>5 DEF WorkIsLocked, c
  <2>3. ASSUME NEW d \in Checks, lockC'[d] = s PROVE CheckLockIsDue(s, d)'
    BY <1>2, <1>3, <1>4, <1>5, <1>6, <2>2, <2>3 DEF LocksAreDue, CheckLockIsDue
  <2> QED
    BY <2>1, <2>3 DEF LocksAreDue
<1>8. WorkIsLocked(s)'
  <2>1. req[s].chks \subseteq Checks
    BY DEF BInv, IInv, TypeOK, Local
  <2> QED
    BY <1>1, <1>2, <1>4, <1>5, <1>6, <2>1 DEF WorkIsLocked
<1>9. CancelIsThorough(s)'
  BY <1>4 DEF CancelIsThorough
<1>10. CompletionIsSound(s)'
  <2>1. \A d \in Checks : JudgedComplete(s, d)' => JudgedComplete(s, d)
    BY <1>2, <1>3, <1>4 DEF JudgedComplete, c
  <2>2. \A r \in Runs : View(s, r)' = View(s, r)
    BY <1>2, <1>6 DEF View
  <2> QED
    BY <1>5, <2>1, <2>2 DEF CompletionIsSound, RunsOf
<1>11. SessionIsSound(s)'
  BY <1>7, <1>8, <1>9, <1>10 DEF SessionIsSound
<1>12. \A r \in Runs : Reporting(s, r)' => Reporting(s, r) /\ ~(r \in req'[s].batch /\ req'[s].run = r)
  BY <1>1, <1>4 DEF Reporting, BInv, JobIsInOnePlace
<1> QED
  BY <1>2, <1>3, <1>4, <1>11, <1>12, QuietStep

(* A result goes to a run that has none. *)
LEMMA KeepsCompleteCheckRun ==
    ASSUME BInv, NEW s \in Sessions, NEW r \in Runs, NEW status \in {"done", "error"},
           CompleteCheckRun(s, r, status)
    PROVE  BoardSound'
<1> DEFINE local == [req[s] EXCEPT !.run = r, !.batch = @ \ {r}, !.chks = {CheckOf[r]}]
<1>1. local.run = r /\ local.batch = req[s].batch \ {r} /\ local.chks = {CheckOf[r]}
  BY DEF BInv, IInv, TypeOK, Local
<1>2. /\ pc[s] = "recordResult" /\ r \in req[s].batch /\ Goto(s, "derive", local)
      /\ UNCHANGED <<rows, history, newC, lockC, held>>
  BY DEF CompleteCheckRun
<1>3. /\ \A q \in Runs : q # r => lockR'[q] = lockR[q] /\ newR'[q] = newR[q]
      /\ lockR[r] = None /\ lockR'[r] = s /\ newR'[r] = status
  BY DEF CompleteCheckRun, WriteRun, BInv, IInv, TypeOK
<1> HIDE DEF local
<1>4. /\ \A t \in Sessions : t # s => pc'[t] = pc[t] /\ req'[t] = req[t]
      /\ pc'[s] = "derive" /\ req'[s] = local
  BY <1>2, GotoFrame DEF BInv, IInv
<1>5. (\A q \in Runs : lockR[q] # s) /\ (\A c \in Checks : lockC[c] # s)
  BY <1>2, NothingHeld DEF BInv
<1>6. LocksAreDue(s)'
  BY <1>1, <1>2, <1>3, <1>4, <1>5 DEF LocksAreDue, RunLockIsDue
<1>7. WorkIsLocked(s)'
  BY <1>1, <1>3, <1>4 DEF WorkIsLocked, Wrote, RunsOf
<1>8. CancelIsThorough(s)' /\ CompletionIsSound(s)'
  BY <1>2, <1>4, <1>5 DEF CancelIsThorough, CompletionIsSound, JudgedComplete
<1>9. SessionIsSound(s)'
  BY <1>6, <1>7, <1>8 DEF SessionIsSound
<1>10. results[r] = <<>>
  BY <1>2 DEF BInv, JobIsInOnePlace, Reporting, Awaited
<1>11. \A q \in Runs : Reporting(s, q)' => Reporting(s, q) /\ ~(q \in req'[s].batch /\ req'[s].run = q)
  BY <1>1, <1>2, <1>4 DEF Reporting
<1>12. \A q \in Runs : \/ lockR'[q] = lockR[q] /\ newR'[q] = newR[q]
                       \/ /\ {lockR[q], lockR'[q]} \subseteq {None, s}
                          /\ lockR'[q] = s => results[q] = <<>>
  BY <1>3, <1>10
<1> QED
  BY <1>2, <1>4, <1>9, <1>11, <1>12, QuietStep

(* The sweep visits only unfinished runs, and ends in the checks it touched. *)
LEMMA KeepsTimeoutRun ==
    ASSUME BInv, NEW s \in Sessions, NEW r \in Runs, TimeoutRun(s, r)
    PROVE  BoardSound'
<1>1. req[s].run = None
  BY RunNamed DEF TimeoutRun
<1>2. /\ \A t \in Sessions : t # s => pc'[t] = pc[t] /\ req'[t] = req[t]
      /\ pc'[s] \in {"timeoutRuns", "derive"} /\ req'[s].batch = req[s].batch /\ req'[s].run = None
      /\ \/ /\ run[r] \in Unfinished /\ WriteRun(s, r, "timeout")
            /\ req'[s].chks = req[s].chks \cup {CheckOf[r]}
         \/ UNCHANGED <<lockR, newR>> /\ req'[s].chks = req[s].chks
  <2> DEFINE kept == [req[s] EXCEPT !.runs = @ \ {r}]
             more == [req[s] EXCEPT !.runs = @ \ {r}, !.chks = @ \cup {CheckOf[r]}]
  <2>1. /\ kept.batch = req[s].batch /\ more.batch = req[s].batch
        /\ kept.run = None /\ more.run = None
        /\ kept.chks = req[s].chks /\ more.chks = req[s].chks \cup {CheckOf[r]}
    BY <1>1 DEF BInv, IInv, TypeOK, Local
  <2>2. PICK step \in {"timeoutRuns", "derive"} :
           \/ StillUnfinished(r) /\ WriteRun(s, r, "timeout") /\ Goto(s, step, more)
           \/ UNCHANGED <<lockR, newR>> /\ Goto(s, step, kept)
    BY DEF TimeoutRun
  <2> HIDE DEF kept, more
  <2>3. CASE StillUnfinished(r) /\ WriteRun(s, r, "timeout") /\ Goto(s, step, more)
    BY <2>1, <2>3, GotoFrame DEF BInv, IInv, StillUnfinished
  <2>4. CASE UNCHANGED <<lockR, newR>> /\ Goto(s, step, kept)
    BY <2>1, <2>4, GotoFrame DEF BInv, IInv
  <2> QED
    BY <2>2, <2>3, <2>4
<1>3. pc[s] = "timeoutRuns" /\ UNCHANGED <<rows, history, newC, lockC, held>>
  BY DEF TimeoutRun
<1>4. /\ \A q \in Runs : q # r => lockR'[q] = lockR[q] /\ newR'[q] = newR[q]
      /\ \/ /\ run[r] \in Unfinished /\ lockR[r] = None /\ lockR'[r] = s /\ newR'[r] = "timeout"
            /\ req'[s].chks = req[s].chks \cup {CheckOf[r]}
         \/ lockR'[r] = lockR[r] /\ newR'[r] = newR[r] /\ req'[s].chks = req[s].chks
  BY <1>2 DEF WriteRun, BInv, IInv, TypeOK
<1>5. LocksAreDue(s) /\ WorkIsLocked(s) /\ \A c \in Checks : lockC[c] # s
  BY <1>3 DEF BInv, SessionIsSound, IInv, LocksFollowSteps
<1>6. LocksAreDue(s)'
  BY <1>1, <1>2, <1>3, <1>4, <1>5 DEF LocksAreDue, RunLockIsDue, rows
<1>7. WorkIsLocked(s)'
  <2>1. req[s].chks \subseteq Checks /\ \A c \in req[s].chks : Wrote(s, c)
    BY <1>3, <1>5 DEF WorkIsLocked, BInv, IInv, TypeOK, Local
  <2>2. \A c \in Checks : Wrote(s, c) => Wrote(s, c)'
    BY <1>4, NoneAssumption DEF Wrote, RunsOf
  <2>3. lockR'[r] = s => Wrote(s, CheckOf[r])'
    BY DEF Wrote, RunsOf
  <2>4. \A c \in req'[s].chks : Wrote(s, c)'
    BY <1>4, <2>1, <2>2, <2>3
  <2> QED
    BY <1>2, <2>4 DEF WorkIsLocked
<1>8. CancelIsThorough(s)' /\ CompletionIsSound(s)'
  BY <1>2, <1>3, <1>5 DEF CancelIsThorough, CompletionIsSound, JudgedComplete
<1>9. SessionIsSound(s)'
  BY <1>6, <1>7, <1>8 DEF SessionIsSound
<1>10. run[r] \in Unfinished => results[r] = <<>>
  BY DEF BInv, HistoryFitsRun, Unfinished
<1>11. \A q \in Runs : Reporting(s, q)' => Reporting(s, q) /\ ~(q \in req'[s].batch /\ req'[s].run = q)
  BY <1>1, <1>2, NoneAssumption DEF Reporting
<1>12. \A q \in Runs : \/ lockR'[q] = lockR[q] /\ newR'[q] = newR[q]
                       \/ /\ {lockR[q], lockR'[q]} \subseteq {None, s}
                          /\ lockR'[q] = s => results[q] = <<>>
  BY <1>4, <1>10
<1> QED
  BY <1>2, <1>3, <1>9, <1>11, <1>12, QuietStep

LEMMA KeepsCancelCheck ==
    ASSUME BInv, NEW s \in Sessions, NEW c \in Checks, CancelCheck(s, c)
    PROVE  BoardSound'
<1> DEFINE local == [Fresh EXCEPT !.chk = c]
<1>1. local.run = None /\ local.batch = {} /\ local.chk = c /\ local.chks = {}
  BY DEF Fresh
<1>2. /\ pc[s] = "idle" /\ Goto(s, "cancelScan", local) /\ check[c] \in Open
      /\ UNCHANGED <<rows, history, newR, lockR, held>>
  BY DEF CancelCheck, Cancellable
<1>3. /\ \A d \in Checks : d # c => lockC'[d] = lockC[d] /\ newC'[d] = newC[d]
      /\ lockC[c] = None /\ lockC'[c] = s /\ newC'[c] = "cancelled"
  BY DEF CancelCheck, WriteCheck, BInv, IInv, TypeOK
<1> HIDE DEF local
<1>4. /\ \A t \in Sessions : t # s => pc'[t] = pc[t] /\ req'[t] = req[t]
      /\ pc'[s] = "cancelScan" /\ req'[s] = local
  BY <1>2, GotoFrame DEF BInv, IInv
<1>5. (\A r \in Runs : lockR[r] # s) /\ (\A d \in Checks : lockC[d] # s)
  BY <1>2, NothingHeld DEF BInv
<1>6. LocksAreDue(s)'
  BY <1>1, <1>2, <1>3, <1>4, <1>5 DEF LocksAreDue, CheckLockIsDue, rows
<1>7. WorkIsLocked(s)' /\ CancelIsThorough(s)' /\ CompletionIsSound(s)'
  BY <1>1, <1>3, <1>4, <1>5 DEF WorkIsLocked, CancelIsThorough, CompletionIsSound, JudgedComplete
<1>8. SessionIsSound(s)'
  BY <1>6, <1>7 DEF SessionIsSound
<1>9. \A r \in Runs : ~Reporting(s, r)'
  BY <1>1, <1>4, NoneAssumption DEF Reporting
<1> QED
  BY <1>2, <1>3, <1>4, <1>8, <1>9, QuietStep

(* The scan misses no run but those already finished. *)
LEMMA KeepsCancelScan ==
    ASSUME BInv, NEW s \in Sessions, CancelScan(s)
    PROVE  BoardSound'
<1> DEFINE local == [req[s] EXCEPT !.runs = {r \in RunsOf(req[s].chk) : run[r] \in Unfinished}]
<1>1. /\ local.batch = req[s].batch /\ local.run = req[s].run /\ local.chk = req[s].chk
      /\ local.runs = {r \in RunsOf(req[s].chk) : run[r] \in Unfinished}
  BY DEF BInv, IInv, TypeOK, Local
<1>2. /\ pc[s] = "cancelScan" /\ Goto(s, "cancelRuns", local)
      /\ UNCHANGED <<rows, history, newC, newR, lockC, lockR, held>>
  BY DEF CancelScan, locks
<1> HIDE DEF local
<1>3. /\ \A t \in Sessions : t # s => pc'[t] = pc[t] /\ req'[t] = req[t]
      /\ pc'[s] = "cancelRuns" /\ req'[s] = local
  BY <1>2, GotoFrame DEF BInv, IInv
<1>4. LocksAreDue(s) /\ WorkIsLocked(s) /\ req[s].run = None
  BY <1>2, RunNamed DEF BInv, SessionIsSound
<1>5. \A r \in Runs : lockR[r] # s
  BY <1>2 DEF BInv, IInv, LocksFollowSteps
<1>6. LocksAreDue(s)'
  BY <1>1, <1>2, <1>3, <1>4, <1>5 DEF LocksAreDue, CheckLockIsDue, rows
<1>7. WorkIsLocked(s)' /\ CompletionIsSound(s)'
  <2>1. \A c \in Checks : lockC[c] = s => newC[c] = "cancelled"
    BY <1>2 DEF BInv, IInv, LocksFollowSteps
  <2> QED
    BY <1>1, <1>2, <1>3, <1>4, <2>1 DEF WorkIsLocked, CompletionIsSound, JudgedComplete
<1>8. CancelIsThorough(s)'
  <2>1. \A r \in Runs : run[r] \in Unfinished \/ run[r] \in Finished \cup {"none"}
    BY DEF BInv, IInv, TypeOK, RunStatus
  <2> QED
    BY <1>1, <1>2, <1>3, <1>5, <2>1 DEF CancelIsThorough, View, RunsOf, rows
<1>9. SessionIsSound(s)'
  BY <1>6, <1>7, <1>8 DEF SessionIsSound
<1>10. \A r \in Runs : Reporting(s, r)' => Reporting(s, r) /\ ~(r \in req'[s].batch /\ req'[s].run = r)
  BY <1>1, <1>3, <1>4, NoneAssumption DEF Reporting
<1> QED
  BY <1>2, <1>3, <1>9, <1>10, QuietStep

LEMMA KeepsCancelRun ==
    ASSUME BInv, NEW s \in Sessions, NEW r \in Runs, CancelRun(s, r)
    PROVE  BoardSound'
<1> DEFINE local == [req[s] EXCEPT !.runs = @ \ {r}]
<1>1. /\ local.batch = req[s].batch /\ local.run = req[s].run /\ local.chk = req[s].chk
      /\ local.runs = req[s].runs \ {r}
  BY DEF BInv, IInv, TypeOK, Local
<1>2. /\ pc[s] = "cancelRuns" /\ r \in req[s].runs /\ Goto(s, "cancelRuns", local)
      /\ UNCHANGED <<rows, history, newC, lockC, held>>
  BY DEF CancelRun
<1>3. /\ \A q \in Runs : q # r => lockR'[q] = lockR[q] /\ newR'[q] = newR[q]
      /\ \/ run[r] \in Unfinished /\ lockR[r] = None /\ lockR'[r] = s /\ newR'[r] = "error"
         \/ run[r] \notin Unfinished /\ lockR'[r] = lockR[r] /\ newR'[r] = newR[r]
  BY DEF CancelRun, StillUnfinished, WriteRun, BInv, IInv, TypeOK
<1> HIDE DEF local
<1>4. /\ \A t \in Sessions : t # s => pc'[t] = pc[t] /\ req'[t] = req[t]
      /\ pc'[s] = "cancelRuns" /\ req'[s] = local
  BY <1>2, GotoFrame DEF BInv, IInv
<1>5. LocksAreDue(s) /\ WorkIsLocked(s) /\ CancelIsThorough(s) /\ req[s].run = None
  BY <1>2, RunNamed DEF BInv, SessionIsSound
<1>6. UNCHANGED <<check, run, addedLate>>
  BY <1>2 DEF rows, history
<1>7. LocksAreDue(s)'
  <2>1. CheckOf[r] = req[s].chk
    BY <1>2, <1>5 DEF CancelIsThorough, RunsOf
  <2>2. ASSUME NEW q \in Runs, lockR'[q] = s PROVE RunLockIsDue(s, q)'
    BY <1>1, <1>2, <1>3, <1>4, <1>5, <1>6, <2>1, <2>2 DEF LocksAreDue, RunLockIsDue
  <2>3. ASSUME NEW c \in Checks, lockC'[c] = s PROVE CheckLockIsDue(s, c)'
    BY <1>1, <1>2, <1>4, <1>5, <1>6, <2>3 DEF LocksAreDue, CheckLockIsDue
  <2> QED
    BY <2>2, <2>3 DEF LocksAreDue
<1>8. WorkIsLocked(s)' /\ CompletionIsSound(s)'
  <2>1. \A c \in Checks : lockC[c] = s => newC[c] = "cancelled"
    BY <1>2 DEF BInv, IInv, LocksFollowSteps
  <2> QED
    BY <1>1, <1>2, <1>4, <1>5, <2>1 DEF WorkIsLocked, CompletionIsSound, JudgedComplete
<1>9. CancelIsThorough(s)'
  <2> SUFFICES ASSUME NEW q \in RunsOf(req[s].chk)
               PROVE  q \in local.runs \/ View(s, q)' \in Finished \cup {"none"} \/ Late(q)
    BY <1>1, <1>2, <1>4, <1>5, <1>6 DEF CancelIsThorough, RunsOf, Late
  <2>1. q \in Runs /\ (q \in req[s].runs \/ View(s, q) \in Finished \cup {"none"} \/ Late(q))
    BY <1>2, <1>5 DEF CancelIsThorough, RunsOf
  <2>2. CASE q # r
    BY <1>1, <1>3, <1>6, <2>1, <2>2 DEF View
  <2>3. CASE q = r
    <3>1. lockR[r] = s => newR[r] \in Finished
      BY <1>2, <2>1, <2>3 DEF BInv, IInv, LocksFollowSteps
    <3>2. run[r] \in Unfinished \/ run[r] \in Finished \cup {"none"}
      BY <2>1, <2>3 DEF BInv, IInv, TypeOK, RunStatus
    <3> QED
      BY <1>3, <1>6, <2>3, <3>1, <3>2 DEF View, Finished, Errored
  <2> QED
    BY <2>2, <2>3
<1>10. SessionIsSound(s)'
  BY <1>7, <1>8, <1>9 DEF SessionIsSound
<1>11. run[r] \in Unfinished => results[r] = <<>>
  BY DEF BInv, HistoryFitsRun, Unfinished
<1>12. \A q \in Runs : Reporting(s, q)' => Reporting(s, q) /\ ~(q \in req'[s].batch /\ req'[s].run = q)
  BY <1>1, <1>4, <1>5, NoneAssumption DEF Reporting
<1>13. \A q \in Runs : \/ lockR'[q] = lockR[q] /\ newR'[q] = newR[q]
                       \/ /\ {lockR[q], lockR'[q]} \subseteq {None, s}
                          /\ lockR'[q] = s => results[q] = <<>>
  BY <1>3, <1>11
<1> QED
  BY <1>2, <1>4, <1>10, <1>12, <1>13, QuietStep

-----------------------------------------------------------------------------
(* Creating rows. *)

LEMMA KeepsInsertCheck ==
    ASSUME BInv, NEW s \in Sessions, NEW c \in Checks, InsertCheck(s, c)
    PROVE  BoardSound'
<1> DEFINE local == [req[s] EXCEPT !.chks = @ \ {c}, !.chk = c]
<1>1. local.run = req[s].run /\ local.batch = req[s].batch
  BY DEF BInv, IInv, TypeOK, Local
<1>2. /\ pc[s] = "insertCheck" /\ Goto(s, "addRuns", local)
      /\ UNCHANGED <<run, results, newR, lockC, lockR, held, dispatches, addedLate>>
      /\ check[c] = "none" /\ check'[c] = "pending"
      /\ \A d \in Checks : d # c => check'[d] = check[d] /\ newC'[d] = newC[d]
  BY DEF InsertCheck, history, BInv, IInv, TypeOK, CreationIsPrivate, Creating
<1> HIDE DEF local
<1>3. /\ \A t \in Sessions : t # s => pc'[t] = pc[t] /\ req'[t] = req[t]
      /\ pc'[s] = "addRuns" /\ req'[s] = local
  BY <1>2, GotoFrame DEF BInv, IInv
<1>4. req[s].run = None
  BY <1>2, RunNamed
<1>5. lockC[c] = None /\ ~HasRuns(c)
  BY <1>2 DEF BInv, IInv, CreationIsPrivate
<1>6. LeavesOthers(s)
  BY <1>2, <1>3, <1>5, NoneAssumption DEF LeavesOthers
<1>7. Forward(s)
  BY <1>2 DEF Forward
<1>8. SessionIsSound(s)'
  BY <1>1, <1>2, <1>3, <1>4, NothingHeld, Unburdened DEF BInv
<1>9. JobIsInOnePlace'
  <2>1. \A t \in Sessions, r \in Runs : Reporting(t, r)' <=> Reporting(t, r)
    BY <1>1, <1>3 DEF Reporting
  <2>2. \A t \in Sessions, r \in Runs :
           (r \in req'[t].batch /\ req'[t].run = r) <=> (r \in req[t].batch /\ req[t].run = r)
    BY <1>1, <1>3
  <2>3. (\A r \in Runs : Awaited(r)' <=> Awaited(r)) /\ held \subseteq Runs
    BY <1>2 DEF Awaited, BInv, IInv, TypeOK
  <2> QED
    BY <1>2, <2>1, <2>2, <2>3 DEF BInv, JobIsInOnePlace
<1>10. HistoryFitsRun'
  BY <1>2 DEF BInv, HistoryFitsRun
<1>11. RowsAreSound'
  <2>1. /\ \A r \in Runs : CheckOf[r] \in Checks
        /\ CancelReachesRuns /\ CompletedMeansAllDone
        /\ \A d \in Checks : check[d] = "running" => HasRuns(d)
    BY RunAssumption DEF BInv, RowsAreSound
  <2>2. CancelReachesRuns' /\ CompletedMeansAllDone'
    BY <1>2, <2>1 DEF CancelReachesRuns, CompletedMeansAllDone
  <2>3. \A d \in Checks : HasRuns(d)' <=> HasRuns(d)
    BY <1>2 DEF HasRuns, Exists, RunsOf
  <2> QED
    BY <1>2, <2>1, <2>2, <2>3 DEF RowsAreSound
<1> QED
  BY <1>6, <1>7, <1>8, <1>9, <1>10, <1>11, OthersStaySound DEF BoardSound

(* New runs are queued, and late if a cancel of their check had begun. *)
LEMMA KeepsCreateCheckRuns ==
    ASSUME BInv, NEW s \in Sessions, CreateCheckRuns(s)
    PROVE  BoardSound'
<1> DEFINE c == req[s].chk
           new == Slots(c, req[s].nodes)
           local == [req[s] EXCEPT !.chk = None]
<1>1. /\ local.run = req[s].run /\ local.batch = req[s].batch
      /\ Fresh.run = None /\ Fresh.batch = {}
  BY DEF Fresh, BInv, IInv, TypeOK, Local
<1>2. /\ pc[s] = "addRuns" /\ UNCHANGED <<check, results, newC, lockC, lockR, held, dispatches>>
      /\ \A r \in Runs : /\ run'[r] = (IF r \in new THEN "queued" ELSE run[r])
                         /\ newR'[r] = (IF r \in new THEN "queued" ELSE newR[r])
      /\ addedLate' = IF CancelBegun(c) THEN addedLate \cup {c} ELSE addedLate
      /\ Goto(s, "idle", Fresh) \/ Goto(s, "insertCheck", local)
  BY DEF CreateCheckRuns
<1>3. c \in Checks /\ check[c] # "none" /\ ~HasRuns(c)
  BY <1>2 DEF BInv, IInv, TypeOK, CreationIsPrivate
<1>4. \A r \in new : r \in Runs /\ CheckOf[r] = c /\ run[r] = "none" /\ lockR[r] = None
  BY <1>3 DEF Slots, RunsOf, HasRuns, Exists, BInv, IInv, CreationIsPrivate
<1> HIDE DEF local, c, new
<1>5. /\ \A t \in Sessions : t # s => pc'[t] = pc[t] /\ req'[t] = req[t]
      /\ pc'[s] \in {"idle", "insertCheck"} /\ req'[s] \in {local, Fresh}
  BY <1>2, GotoFrame DEF BInv, IInv
<1>6. req[s].run = None
  BY <1>2, RunNamed
<1>7. req'[s].run = None /\ req'[s].batch \subseteq req[s].batch
  BY <1>1, <1>5, <1>6
<1>8. LeavesOthers(s)
  BY <1>2, <1>4, <1>5, NoneAssumption DEF LeavesOthers
<1>9. Forward(s)
  <2>1. ASSUME NEW r \in Runs
        PROVE  \/ run'[r] = run[r]
               \/ /\ run[r] = "none" /\ run'[r] = "queued" /\ CheckOf[r] = c
                  /\ CancelBegun(c) => c \in addedLate'
    BY <1>2, <1>4
  <2>2. addedLate \subseteq addedLate'
    BY <1>2
  <2> QED
    BY <1>2, <1>3, <2>1, <2>2 DEF Forward, Finished, Succeeded, Errored
<1>10. SessionIsSound(s)'
  BY <1>2, <1>5, <1>7, NothingHeld, Unburdened DEF BInv
<1>11. JobIsInOnePlace'
  <2>1. \A t \in Sessions, r \in Runs : Reporting(t, r)' =>
           Reporting(t, r) /\ ~(r \in req'[t].batch /\ req'[t].run = r)
    BY <1>5, <1>7, NoneAssumption DEF Reporting, BInv, JobIsInOnePlace
  <2>2. \A r \in Runs : Awaited(r) => Awaited(r)'
    BY <1>2, <1>4 DEF Awaited, Finished, Succeeded, Errored
  <2>3. held \subseteq Runs
    BY DEF BInv, IInv, TypeOK
  <2> QED
    BY <1>2, <2>1, <2>2, <2>3 DEF BInv, JobIsInOnePlace
<1>12. HistoryFitsRun'
  BY <1>2, <1>4 DEF BInv, HistoryFitsRun
<1>13. RowsAreSound'
  <2>1. ASSUME NEW r \in Runs, check'[CheckOf[r]] = "cancelled", CheckOf[r] \notin addedLate'
        PROVE  run'[r] \in Finished \cup {"none"}
    <3>1. r \notin new
      BY <1>2, <1>3, <1>4, <2>1 DEF CancelBegun
    <3>2. CheckOf[r] \notin addedLate
      BY <1>2, <2>1
    <3> QED
      BY <1>2, <2>1, <3>1, <3>2 DEF BInv, RowsAreSound, CancelReachesRuns
  <2>2. ASSUME NEW r \in Runs, check'[CheckOf[r]] = "completed"
        PROVE  run'[r] \in Succeeded \cup {"none"}
    <3>1. r \notin new
      BY <1>2, <1>3, <1>4, <2>2 DEF BInv, IInv, VerdictsAreSound, Settled, Verdicts
    <3> QED
      BY <1>2, <2>2, <3>1 DEF BInv, RowsAreSound, CompletedMeansAllDone
  <2>3. \A d \in Checks : HasRuns(d) => HasRuns(d)'
    BY <1>2 DEF HasRuns, Exists, RunsOf
  <2>4. \A d \in Checks : check'[d] = "running" => HasRuns(d)'
    BY <1>2, <2>3 DEF BInv, RowsAreSound
  <2> QED
    BY <2>1, <2>2, <2>4 DEF RowsAreSound, CancelReachesRuns, CompletedMeansAllDone
<1> QED
  BY <1>8, <1>9, <1>10, <1>11, <1>12, <1>13, OthersStaySound DEF BoardSound

-----------------------------------------------------------------------------
(* Commits. *)

(* What the four commits have in common: the work of the transaction is done, at
   most the run it recorded gets its result, at most the runs it claimed go out,
   and what is left of the session is the rest of its batch. *)
Commits(s) ==
    /\ CommitRows(s)
    /\ \/ pc[s] \in {"markRunning", "derive"} /\ req[s].chks = {}
       \/ pc[s] = "cancelRuns" /\ req[s].runs = {}
    /\ \A t \in Sessions : t # s => pc'[t] = pc[t] /\ req'[t] = req[t]
    /\ pc'[s] \in {"idle", "recordResult"}
    /\ req'[s].run = None /\ req'[s].batch \subseteq req[s].batch
    /\ \A r \in Runs : results'[r] =
          IF r = req[s].run THEN Append(results[r], newR[r]) ELSE results[r]
    /\ \A r \in Runs : dispatches'[r] =
          dispatches[r] + IF pc[s] = "markRunning" /\ r \in req[s].runs THEN 1 ELSE 0
    /\ \A r \in held' : r \in held \/ (pc[s] = "markRunning" /\ r \in req[s].runs)
    /\ addedLate' = addedLate

(* The rows a commit publishes are those its session held. *)
LEMMA Published ==
    ASSUME BInv, NEW s \in Sessions, Commits(s)
    PROVE  /\ \A r \in Runs : \/ lockR[r] # s /\ run'[r] = run[r] /\ lockR'[r] = lockR[r]
                              \/ /\ lockR[r] = s /\ run'[r] = newR[r] /\ lockR'[r] = None
                                 /\ results[r] = <<>>
                                 /\ \/ /\ pc[s] = "markRunning" /\ r \in req[s].runs
                                       /\ run[r] = "queued" /\ newR[r] = "dispatched"
                                    \/ pc[s] = "derive" /\ req[s].run = r /\ newR[r] \in {"done", "error"}
                                    \/ /\ pc[s] \in {"derive", "cancelRuns"} /\ req[s].run = None
                                       /\ newR[r] \in Errored /\ run[r] \in Unfinished
           /\ \A c \in Checks : \/ lockC[c] # s /\ check'[c] = check[c] /\ lockC'[c] = lockC[c]
                                \/ /\ lockC[c] = s /\ check'[c] = newC[c] /\ lockC'[c] = None
                                   /\ check[c] # "none" /\ newC[c] \notin {"none", "pending"}
           /\ UNCHANGED <<newC, newR>>
<1>1. CommitRows(s)
  BY DEF Commits
<1>2. ASSUME NEW r \in Runs, lockR[r] = s
      PROVE  /\ run'[r] = newR[r] /\ lockR'[r] = None /\ results[r] = <<>>
             /\ \/ /\ pc[s] = "markRunning" /\ r \in req[s].runs
                   /\ run[r] = "queued" /\ newR[r] = "dispatched"
                \/ pc[s] = "derive" /\ req[s].run = r /\ newR[r] \in {"done", "error"}
                \/ /\ pc[s] \in {"derive", "cancelRuns"} /\ req[s].run = None
                   /\ newR[r] \in Errored /\ run[r] \in Unfinished
  <2>1. RunLockIsDue(s, r)
    BY <1>2 DEF BInv, SessionIsSound, LocksAreDue
  <2>2. pc[s] = "markRunning" => newR[r] = "dispatched"
    BY <1>2 DEF BInv, IInv, LocksFollowSteps
  <2>3. pc[s] = "cancelRuns" => req[s].run = None
    BY RunNamed
  <2>4. results[r] = <<>>
    BY <1>2, NoneAssumption DEF BInv, HistoryFitsRun
  <2> QED
    BY <1>1, <1>2, <2>1, <2>2, <2>3, <2>4 DEF Commits, RunLockIsDue, CommitRows, Release, Errored
<1>3. ASSUME NEW c \in Checks, lockC[c] = s
      PROVE  /\ check'[c] = newC[c] /\ lockC'[c] = None
             /\ check[c] # "none" /\ newC[c] \notin {"none", "pending"}
  <2>1. check[c] # "none"
    BY <1>3, NoneAssumption DEF BInv, IInv, CreationIsPrivate
  <2>2. newC[c] \notin {"none", "pending"}
    BY <1>3 DEF BInv, IInv, LocksFollowSteps, Verdicts
  <2> QED
    BY <1>1, <1>3, <2>1, <2>2 DEF CommitRows, Release
<1>4. /\ \A r \in Runs : lockR[r] # s => run'[r] = run[r] /\ lockR'[r] = lockR[r]
      /\ \A c \in Checks : lockC[c] # s => check'[c] = check[c] /\ lockC'[c] = lockC[c]
      /\ UNCHANGED <<newC, newR>>
  BY <1>1 DEF CommitRows, Release
<1> QED
  BY <1>2, <1>3, <1>4

(* A claim cannot take a queued run out while its check is pending and another
   session holds the check: it would be waiting to mark the check running. *)
LEMMA CommitForward ==
    ASSUME BInv, NEW s \in Sessions, Commits(s)
    PROVE  LeavesOthers(s) /\ Forward(s)
<1>1. LeavesOthers(s)
  BY Published, NoneAssumption DEF LeavesOthers, Commits
<1>2. \A c \in Checks : check[c] \notin {"none", "pending"} => check'[c] # "pending"
  BY Published
<1>3. \A r \in Runs : run[r] \in Finished => run'[r] \in Finished
  BY CommitFinished DEF BInv, Commits
<1>4. \A r \in Runs : run[r] = "done" => run'[r] = "done"
  BY Published DEF BInv, HistoryFitsRun
<1>5. \A r \in Runs : run[r] = "none" => run'[r] = "none"
  BY CommitExists DEF BInv, Commits, Exists
<1>6. ASSUME NEW r \in Runs, run[r] = "queued", check[CheckOf[r]] = "pending",
             lockC[CheckOf[r]] \notin {s, None}
      PROVE  run'[r] \in {"queued"} \cup Finished
  <2>1. ASSUME pc[s] = "markRunning", lockR[r] = s, r \in req[s].runs PROVE FALSE
    BY <1>6, <2>1 DEF Commits, BInv, SessionIsSound, WorkIsLocked
  <2> QED
    BY <1>6, <2>1, Published DEF Finished, Succeeded, Errored
<1>7. Forward(s)
  BY <1>2, <1>3, <1>4, <1>5, <1>6 DEF Forward, Commits
<1> QED
  BY <1>1, <1>7

(* A recorded result is the only thing said of a run, and a claim the only one. *)
LEMMA CommitHistory ==
    ASSUME BInv, NEW s \in Sessions, Commits(s)
    PROVE  HistoryFitsRun'
<1> SUFFICES ASSUME NEW r \in Runs
             PROVE  /\ run'[r] # "running"
                    /\ dispatches'[r] <= 1
                    /\ run'[r] \in {"none", "queued"} => dispatches'[r] = 0 /\ results'[r] = <<>>
                    /\ run'[r] = "done" => results'[r] # <<>>
                    /\ results'[r] # <<>> =>
                          lockR'[r] = None /\ results'[r] = <<run'[r]>> /\ run'[r] \in {"done", "error"}
  BY DEF HistoryFitsRun
<1>1. /\ run[r] # "running"
      /\ dispatches[r] <= 1
      /\ run[r] \in {"none", "queued"} => dispatches[r] = 0 /\ results[r] = <<>>
      /\ run[r] = "done" => results[r] # <<>>
      /\ results[r] # <<>> =>
            lockR[r] = None /\ results[r] = <<run[r]>> /\ run[r] \in {"done", "error"}
      /\ dispatches[r] \in Nat /\ newR[r] \in RunStatus
  BY DEF BInv, HistoryFitsRun, IInv, TypeOK
<1>2. /\ results'[r] = IF r = req[s].run THEN Append(results[r], newR[r]) ELSE results[r]
      /\ dispatches'[r] = dispatches[r] + IF pc[s] = "markRunning" /\ r \in req[s].runs THEN 1 ELSE 0
  BY DEF Commits
<1>3. CASE lockR[r] # s
  <2>1. r # req[s].run
    BY <1>3, NoneAssumption DEF BInv, SessionIsSound, WorkIsLocked
  <2>2. ~(pc[s] = "markRunning" /\ r \in req[s].runs)
    BY <1>3 DEF BInv, SessionIsSound, WorkIsLocked
  <2>3. dispatches'[r] = dispatches[r] /\ results'[r] = results[r]
    BY <1>1, <1>2, <2>1, <2>2
  <2> QED
    BY <1>1, <1>3, <2>3, Published
<1>4. CASE lockR[r] = s /\ pc[s] = "markRunning" /\ r \in req[s].runs
  <2>1. req[s].run = None
    BY <1>4, RunNamed
  <2>2. dispatches'[r] = dispatches[r] + 1 /\ results'[r] = results[r]
    BY <1>2, <1>4, <2>1, NoneAssumption
  <2>3. run[r] = "queued" /\ run'[r] = "dispatched"
    BY <1>4, Published
  <2> QED
    BY <1>1, <2>2, <2>3
<1>5. CASE lockR[r] = s /\ pc[s] # "markRunning" /\ req[s].run = r
  <2>1. /\ run'[r] = newR[r] /\ lockR'[r] = None /\ newR[r] \in {"done", "error"} /\ results[r] = <<>>
    BY <1>5, Published, NoneAssumption
  <2>2. dispatches'[r] = dispatches[r] /\ results'[r] = <<newR[r]>>
    BY <1>1, <1>2, <1>5, <2>1
  <2>3. results'[r] # <<>>
    BY <2>2
  <2> QED
    BY <1>1, <2>1, <2>2, <2>3
<1>6. CASE lockR[r] = s /\ pc[s] # "markRunning" /\ req[s].run # r
  <2>1. run'[r] \in Errored /\ results[r] = <<>>
    BY <1>6, Published
  <2>2. dispatches'[r] = dispatches[r] /\ results'[r] = <<>>
    BY <1>1, <1>2, <1>6, <2>1
  <2> QED
    BY <1>1, <2>1, <2>2 DEF Errored
<1> QED
  BY <1>3, <1>4, <1>5, <1>6, Published

(* A job leaves the place it was in when its result is recorded, and a claim's
   jobs were nowhere before. *)
LEMMA CommitJobs ==
    ASSUME BInv, NEW s \in Sessions, Commits(s)
    PROVE  JobIsInOnePlace'
<1>1. /\ \A r \in held : r \in Runs /\ Awaited(r) /\ \A t \in Sessions : ~Reporting(t, r)
      /\ \A t \in Sessions, r \in Runs :
            Reporting(t, r) => Awaited(r) /\ ~(r \in req[t].batch /\ req[t].run = r)
      /\ \A t, u \in Sessions, r \in Runs : Reporting(t, r) /\ Reporting(u, r) => t = u
  BY DEF BInv, JobIsInOnePlace, IInv, TypeOK
<1>2. \A t \in Sessions, r \in Runs : Reporting(t, r)' =>
         /\ Reporting(t, r) /\ (t = s => r # req[s].run)
         /\ ~(r \in req'[t].batch /\ req'[t].run = r)
  BY <1>1, NoneAssumption DEF Reporting, Commits
<1>3. ASSUME NEW r \in Runs, Awaited(r), r # req[s].run PROVE Awaited(r)'
  <2>1. results'[r] = <<>>
    BY <1>3 DEF Commits, Awaited
  <2>2. run'[r] \in {"dispatched"} \cup Finished
    BY <1>3, Published DEF Awaited, Finished, Succeeded
  <2> QED
    BY <2>1, <2>2 DEF Awaited
<1>4. ASSUME NEW r \in Runs, pc[s] = "markRunning", r \in req[s].runs
      PROVE  Awaited(r)' /\ \A t \in Sessions : ~Reporting(t, r)
  <2>1. lockR[r] = s /\ req[s].run = None
    BY <1>4, RunNamed DEF BInv, SessionIsSound, WorkIsLocked
  <2>2. run[r] = "queued" /\ run'[r] = "dispatched" /\ results[r] = <<>>
    BY <1>4, <2>1, Published
  <2>3. results'[r] = <<>>
    BY <2>1, <2>2, NoneAssumption DEF Commits
  <2>4. ~Awaited(r)
    BY <2>2 DEF Awaited, Finished, Succeeded, Errored
  <2> QED
    BY <1>1, <2>2, <2>3, <2>4 DEF Awaited
<1>5. \A r \in held' : r \in Runs /\ (r \in held \/ (pc[s] = "markRunning" /\ r \in req[s].runs))
  BY DEF Commits, BInv, IInv, TypeOK, Local
<1>6. \A r \in held : r # req[s].run
  BY <1>1 DEF Reporting
<1>7. \A r \in held' : Awaited(r)' /\ \A t \in Sessions : ~Reporting(t, r)'
  BY <1>1, <1>2, <1>3, <1>4, <1>5, <1>6
<1>8. ASSUME NEW t \in Sessions, NEW r \in Runs, Reporting(t, r)' PROVE Awaited(r)'
  <2>1. r # req[s].run
    BY <1>1, <1>2, <1>8 DEF Reporting
  <2> QED
    BY <1>1, <1>2, <1>3, <1>8, <2>1
<1> QED
  BY <1>1, <1>2, <1>7, <1>8 DEF JobIsInOnePlace

(* What a commit says of a check is true of its runs. *)
LEMMA CommitChecks ==
    ASSUME BInv, NEW s \in Sessions, Commits(s)
    PROVE  RowsAreSound'
<1>1. \A r \in Runs : CheckOf[r] \in Checks
  BY RunAssumption
<1>2. ASSUME NEW r \in Runs, check'[CheckOf[r]] = "cancelled", CheckOf[r] \notin addedLate'
      PROVE  run'[r] \in Finished \cup {"none"}
  <2>1. CASE lockC[CheckOf[r]] = s
    <3>1. newC[CheckOf[r]] = "cancelled"
      BY <1>1, <1>2, <2>1, Published
    <3>2. pc[s] = "cancelRuns" /\ req[s].runs = {}
      BY <1>1, <2>1, <3>1 DEF Commits, BInv, IInv, LocksFollowSteps, Verdicts
    <3>3. req[s].chk = CheckOf[r]
      BY <1>1, <2>1, <3>2 DEF BInv, SessionIsSound, LocksAreDue, CheckLockIsDue
    <3>4. View(s, r) \in Finished \cup {"none"}
      BY <1>2, <3>2, <3>3 DEF BInv, SessionIsSound, CancelIsThorough, Late, RunsOf, Commits
    <3> QED
      BY <3>4, CommitFinished DEF BInv, Commits
  <2>2. CASE lockC[CheckOf[r]] # s
    <3>1. run[r] \in Finished \cup {"none"}
      BY <1>1, <1>2, <2>2, Published DEF BInv, RowsAreSound, CancelReachesRuns, Commits
    <3> QED
      BY <3>1, CommitFinished, CommitExists DEF BInv, Commits, Exists
  <2> QED
    BY <2>1, <2>2
<1>3. ASSUME NEW r \in Runs, check'[CheckOf[r]] = "completed"
      PROVE  run'[r] \in Succeeded \cup {"none"}
  <2>1. CASE lockC[CheckOf[r]] = s
    <3>1. JudgedComplete(s, CheckOf[r])
      BY <1>1, <1>3, <2>1, Published DEF JudgedComplete
    <3>2. View(s, r) \in Succeeded \cup {"none"}
      BY <1>1, <3>1 DEF BInv, SessionIsSound, CompletionIsSound, RunsOf
    <3> QED
      BY <3>2, CommitFinished DEF BInv, Commits
  <2>2. CASE lockC[CheckOf[r]] # s
    <3>1. run[r] \in Succeeded \cup {"none"}
      BY <1>1, <1>3, <2>2, Published DEF BInv, RowsAreSound, CompletedMeansAllDone
    <3> QED
      BY <3>1, CommitForward, CommitExists DEF BInv, Commits, Exists, Forward, Succeeded
  <2> QED
    BY <2>1, <2>2
<1>4. ASSUME NEW c \in Checks, check'[c] = "running" PROVE HasRuns(c)'
  <2>1. CASE lockC[c] = s
    <3>1. pc[s] = "markRunning"
      BY <1>4, <2>1, Published DEF BInv, IInv, LocksFollowSteps, Verdicts
    <3>2. HasRuns(c)
      BY <2>1, <3>1
      DEF BInv, SessionIsSound, LocksAreDue, CheckLockIsDue, IInv, WorkExists, TypeOK, Local, HasRuns, RunsOf
    <3> QED
      BY <3>2, CommitExists DEF BInv, Commits
  <2>2. CASE lockC[c] # s
    BY <1>4, <2>2, Published, CommitExists DEF BInv, Commits, RowsAreSound
  <2> QED
    BY <2>1, <2>2
<1> QED
  BY <1>2, <1>3, <1>4 DEF RowsAreSound, CancelReachesRuns, CompletedMeansAllDone

LEMMA KeepsCommit ==
    ASSUME BInv, NEW s \in Sessions, Commits(s)
    PROVE  BoardSound'
<1>1. (\A r \in Runs : lockR'[r] # s) /\ (\A c \in Checks : lockC'[c] # s)
  BY NoneAssumption, Published
<1>2. SessionIsSound(s)'
  BY <1>1, Unburdened DEF Commits
<1> QED
  BY <1>2, CommitForward, OthersStaySound, CommitHistory, CommitJobs, CommitChecks DEF BoardSound

LEMMA ClaimCommits ==
    ASSUME BInv, NEW s \in Sessions, CommitClaim(s)
    PROVE  Commits(s)
<1>1. Fresh.run = None /\ Fresh.batch = {}
  BY DEF Fresh
<1>2. /\ pc[s] = "markRunning" /\ req[s].chks = {} /\ CommitRows(s) /\ Goto(s, "idle", Fresh)
      /\ results' = results /\ addedLate' = addedLate
  BY DEF CommitClaim
<1>3. req[s].run = None
  BY <1>2, RunNamed
<1>4. \A r \in Runs : dispatches'[r] = dispatches[r] + IF r \in req[s].runs THEN 1 ELSE 0
  BY DEF CommitClaim
<1>5. \A r \in held' : r \in held \/ r \in req[s].runs
  BY DEF CommitClaim
<1>6. /\ \A t \in Sessions : t # s => pc'[t] = pc[t] /\ req'[t] = req[t]
      /\ pc'[s] = "idle" /\ req'[s].run = None /\ req'[s].batch = {}
  BY <1>1, <1>2, GotoFrame DEF BInv, IInv
<1> QED
  BY <1>2, <1>3, <1>4, <1>5, <1>6, NoneAssumption DEF Commits

LEMMA ResultCommits ==
    ASSUME BInv, NEW s \in Sessions, CommitResult(s)
    PROVE  Commits(s)
<1> DEFINE local == [Fresh EXCEPT !.batch = req[s].batch]
<1>1. Fresh.run = None /\ Fresh.batch = {} /\ local.run = None /\ local.batch = req[s].batch
  BY DEF Fresh
<1>2. /\ pc[s] = "derive" /\ req[s].chks = {} /\ req[s].run # None /\ CommitRows(s)
      /\ Goto(s, "idle", Fresh) \/ Goto(s, "recordResult", local)
      /\ UNCHANGED <<held, dispatches, addedLate>>
      /\ results' = [results EXCEPT ![req[s].run] = Append(@, newR[req[s].run])]
  BY DEF CommitResult, history
<1> HIDE DEF local
<1>3. \A r \in Runs : results'[r] = IF r = req[s].run THEN Append(results[r], newR[r]) ELSE results[r]
  BY <1>2 DEF BInv, IInv, TypeOK
<1>4. /\ \A t \in Sessions : t # s => pc'[t] = pc[t] /\ req'[t] = req[t]
      /\ pc'[s] \in {"idle", "recordResult"} /\ req'[s].run = None /\ req'[s].batch \subseteq req[s].batch
  BY <1>1, <1>2, GotoFrame DEF BInv, IInv
<1>5. \A r \in Runs : dispatches[r] \in Nat
  BY DEF BInv, IInv, TypeOK
<1> QED
  BY <1>2, <1>3, <1>4, <1>5 DEF Commits

LEMMA SweepCommits ==
    ASSUME BInv, NEW s \in Sessions, CommitSweep(s) \/ CommitCancel(s)
    PROVE  Commits(s)
<1>1. Fresh.run = None /\ Fresh.batch = {}
  BY DEF Fresh
<1>2. /\ \/ pc[s] = "derive" /\ req[s].chks = {} /\ req[s].run = None
         \/ pc[s] = "cancelRuns" /\ req[s].runs = {}
      /\ CommitRows(s) /\ Goto(s, "idle", Fresh)
      /\ UNCHANGED <<results, held, dispatches, addedLate>>
  BY DEF CommitSweep, CommitCancel, history
<1>3. req[s].run = None
  BY <1>2, RunNamed
<1>4. /\ \A t \in Sessions : t # s => pc'[t] = pc[t] /\ req'[t] = req[t]
      /\ pc'[s] = "idle" /\ req'[s].run = None /\ req'[s].batch = {}
  BY <1>1, <1>2, GotoFrame DEF BInv, IInv
<1>5. \A r \in Runs : dispatches[r] \in Nat
  BY DEF BInv, IInv, TypeOK
<1> QED
  BY <1>2, <1>3, <1>4, <1>5, NoneAssumption DEF Commits

-----------------------------------------------------------------------------
(* The inductive invariant. *)

LEMMA BoardInit == Init => BInv
<1> SUFFICES ASSUME Init PROVE BInv
  OBVIOUS
<1>1. IInv
  BY TypeInit, InvInit DEF IInv, Coherent
<1>2. /\ \A c \in Checks : check[c] = "none" /\ lockC[c] = None
      /\ \A r \in Runs : /\ run[r] = "none" /\ lockR[r] = None
                         /\ results[r] = <<>> /\ dispatches[r] = 0
      /\ \A s \in Sessions : pc[s] = "idle" /\ req[s].run = None /\ req[s].batch = {}
      /\ held = {}
  BY DEF Init, Fresh
<1>3. \A s \in Sessions : SessionIsSound(s)
  BY <1>2, NoneAssumption
  DEF SessionIsSound, LocksAreDue, WorkIsLocked, CancelIsThorough, CompletionIsSound, JudgedComplete
<1>4. JobIsInOnePlace
  BY <1>2, NoneAssumption DEF JobIsInOnePlace, Reporting
<1>5. HistoryFitsRun
  BY <1>2 DEF HistoryFitsRun
<1>6. RowsAreSound
  BY <1>2, RunAssumption DEF RowsAreSound, CancelReachesRuns, CompletedMeansAllDone
<1> QED
  BY <1>1, <1>3, <1>4, <1>5, <1>6 DEF BInv

LEMMA BoardStep == BInv /\ [Next]_vars => BInv'
<1> SUFFICES ASSUME BInv, [Next]_vars PROVE BInv'
  OBVIOUS
<1>1. IInv'
  BY InvStep DEF BInv
<1>2. ASSUME NEW s \in Sessions, Create(s) PROVE BoardSound'
  BY <1>2, KeepsCreateCheck, KeepsInsertCheck, KeepsCreateCheckRuns DEF Create
<1>3. ASSUME NEW s \in Sessions, Poll(s) PROVE BoardSound'
  BY <1>3, KeepsClaimQueuedRuns, KeepsMarkRunning, ClaimCommits, KeepsCommit DEF Poll
<1>4. ASSUME NEW s \in Sessions, Results(s) PROVE BoardSound'
  BY <1>4, KeepsPostResults, KeepsCompleteCheckRun, ResultCommits, KeepsCommit DEF Results
<1>5. ASSUME NEW s \in Sessions, Sweep(s) PROVE BoardSound'
  BY <1>5, KeepsTimeoutStaleRuns, KeepsTimeoutRun, SweepCommits, KeepsCommit DEF Sweep
<1>6. ASSUME NEW s \in Sessions, Derive(s) PROVE BoardSound'
  BY <1>6, KeepsCountRuns, KeepsFinalizeCheckStatus DEF Derive
<1>7. ASSUME NEW s \in Sessions, Cancel(s) PROVE BoardSound'
  BY <1>7, KeepsCancelCheck, KeepsCancelScan, KeepsCancelRun, SweepCommits, KeepsCommit DEF Cancel
<1>8. ASSUME NEW s \in Sessions, Fail(s) \/ DeadlockVictim(s) PROVE BoardSound'
  BY <1>8, KeepsGiveUp DEF Fail, DeadlockVictim
<1>9. ASSUME UNCHANGED <<rows, locks, pc, req, held, history>> PROVE BoardSound'
  <2>1. UNCHANGED <<check, run, results, newC, newR, lockC, lockR, pc, req, held, dispatches, addedLate>>
    BY <1>9 DEF rows, locks, history
  <2>2. \A s \in Sessions : SessionIsSound(s)'
    BY <2>1 DEF BInv, SessionIsSound, LocksAreDue, RunLockIsDue, CheckLockIsDue, Wrote, WorkIsLocked,
                CancelIsThorough, Late, CompletionIsSound, JudgedComplete, View, RunsOf
  <2>3. JobIsInOnePlace'
    BY <2>1 DEF BInv, JobIsInOnePlace, Awaited, Reporting
  <2>4. HistoryFitsRun'
    BY <2>1 DEF BInv, HistoryFitsRun
  <2>5. RowsAreSound'
    BY <2>1 DEF BInv, RowsAreSound, CancelReachesRuns, CompletedMeansAllDone, HasRuns, Exists, RunsOf
  <2> QED
    BY <2>2, <2>3, <2>4, <2>5 DEF BoardSound
<1>10. ASSUME (\E c \in Checks : GracePasses(c)) \/ UNCHANGED vars PROVE BoardSound'
  BY <1>9, <1>10 DEF GracePasses, vars
<1>11. BoardSound'
  BY <1>2, <1>3, <1>4, <1>5, <1>6, <1>7, <1>8, <1>10 DEF Next, Sessions
<1> QED
  BY <1>1, <1>11 DEF BInv, BoardSound

(* Rows are held for a reason, jobs are in one place, results and dispatches fit
   their run, and what is shown of a check is true of its runs. *)
THEOREM BoardInvariance == Spec => []BInv
  BY BoardInit, BoardStep, PTL DEF Spec

-----------------------------------------------------------------------------
(* What follows from it. *)

(* Overlapping polls, rolled back or not, never hand a run out twice. *)
THEOREM RunsGoOutOnce == Spec => []DispatchedOnce
<1>1. BInv => DispatchedOnce
  BY DEF BInv, HistoryFitsRun, DispatchedOnce
<1> QED
  BY <1>1, BoardInvariance, PTL

(* As nodes report each job at most once, and drop a batch whose POST failed, no
   run ever has two rows in results, however reports, timeouts, cancels and
   failures meet.  CompleteCheckRun itself inserts a row whenever it is called. *)
THEOREM ResultsAreSingle == Spec => []OneResultPerRun
<1>1. BInv => OneResultPerRun
  <2> SUFFICES ASSUME BInv, NEW r \in Runs PROVE Len(results[r]) <= 1
    BY DEF OneResultPerRun
  <2>1. results[r] = <<>> \/ results[r] = <<run[r]>>
    BY DEF BInv, HistoryFitsRun
  <2>2. CASE results[r] = <<>>
    BY <2>2
  <2>3. CASE results[r] = <<run[r]>>
    <3>1. Len(<<run[r]>>) = 1
      OBVIOUS
    <3> QED
      BY <2>3, <3>1
  <2> QED
    BY <2>1, <2>2, <2>3
<1> QED
  BY <1>1, BoardInvariance, PTL

(* A sweep or a cancel that looked at a run earlier does not overwrite the status
   its result gave it. *)
THEOREM ResultsStand == Spec => []RecordedResultStands
<1>1. BInv => RecordedResultStands
  <2> SUFFICES ASSUME BInv, NEW r \in Runs, results[r] # <<>>
               PROVE  run[r] = results[r][Len(results[r])]
    BY DEF RecordedResultStands
  <2>1. results[r] = <<run[r]>>
    BY DEF BInv, HistoryFitsRun
  <2> QED
    BY <2>1
<1> QED
  BY <1>1, BoardInvariance, PTL

(* A check shown as completed has only runs that succeeded. *)
THEOREM CompletedIsHonest == Spec => []CompletedMeansAllDone
<1>1. BInv => CompletedMeansAllDone
  BY DEF BInv, RowsAreSound
<1> QED
  BY <1>1, BoardInvariance, PTL

(* A cancelled check has no run left to do, unless its runs came late. *)
THEOREM CancelIsComplete == Spec => []CancelReachesRuns
<1>1. BInv => CancelReachesRuns
  BY DEF BInv, RowsAreSound
<1> QED
  BY <1>1, BoardInvariance, PTL

-----------------------------------------------------------------------------
(* The refinement: the commits are the board's operations. *)

LEMMA BoardCreates ==
    ASSUME BInv, NEW s \in Sessions, NEW c \in Checks, InsertCheck(s, c)
    PROVE  Board!CreateCheck(c)
<1>1. check[c] = "none"
  BY DEF InsertCheck, BInv, IInv, CreationIsPrivate, Creating
<1> QED
  BY <1>1 DEF InsertCheck, Board!CreateCheck

LEMMA BoardAddsRuns ==
    ASSUME BInv, NEW s \in Sessions, CreateCheckRuns(s)
    PROVE  \E R \in SUBSET Runs : Board!AddRuns(R)
<1> DEFINE c == req[s].chk
           new == Slots(c, req[s].nodes)
<1>1. c \in Checks /\ check[c] # "none" /\ ~HasRuns(c)
  BY DEF CreateCheckRuns, BInv, IInv, TypeOK, CreationIsPrivate
<1>2. new \in SUBSET Runs /\ \A r \in new : CheckOf[r] = c /\ run[r] = "none"
  BY <1>1 DEF Slots, RunsOf, HasRuns, Exists
<1>3. run' = [r \in Runs |-> IF r \in new THEN "queued" ELSE run[r]] /\ check' = check
  BY DEF CreateCheckRuns
<1> HIDE DEF c, new
<1>4. Board!AddRuns(new)
  BY <1>1, <1>2, <1>3 DEF Board!AddRuns, Board!Turn
<1> QED
  BY <1>2, <1>4

LEMMA BoardDispatches ==
    ASSUME BInv, NEW s \in Sessions, CommitClaim(s)
    PROVE  \E R \in SUBSET Runs : Board!Dispatch(R)
<1> DEFINE R == req[s].runs
<1>1. Commits(s) /\ pc[s] = "markRunning" /\ req[s].chks = {} /\ CommitRows(s)
  BY ClaimCommits DEF CommitClaim
<1>2. R \in SUBSET Runs /\ \A r \in R : lockR[r] = s /\ CheckOf[r] \in Checks
  BY <1>1, RunAssumption DEF BInv, IInv, TypeOK, Local, SessionIsSound, WorkIsLocked
<1>3. \A r \in Runs : lockR[r] = s => r \in R /\ newR[r] = "dispatched" /\ run[r] = "queued"
  BY <1>1 DEF BInv, IInv, LocksFollowSteps, SessionIsSound, LocksAreDue, RunLockIsDue
<1>4. run' = [r \in Runs |-> IF r \in R THEN "dispatched" ELSE run[r]]
  BY <1>1, <1>2, <1>3 DEF CommitRows
<1>5. ASSUME NEW c \in Checks
      PROVE  /\ lockC[c] = s => /\ newC[c] = "running" /\ check[c] = "pending"
                                /\ \E r \in R : CheckOf[r] = c
             /\ check[c] = "pending" /\ (\E r \in R : CheckOf[r] = c) => lockC[c] = s
  <2>1. lockC[c] = s => /\ newC[c] = "running" /\ check[c] = "pending"
                        /\ \E r \in R : CheckOf[r] = c
    BY <1>1 DEF BInv, IInv, LocksFollowSteps, SessionIsSound, LocksAreDue, CheckLockIsDue
  <2>2. \A r \in R : lockC[CheckOf[r]] = s \/ check[CheckOf[r]] # "pending"
    BY <1>1 DEF BInv, SessionIsSound, WorkIsLocked
  <2> QED
    BY <2>1, <2>2
<1>6. check' = [c \in Checks |-> IF check[c] = "pending" /\ \E r \in R : CheckOf[r] = c
                                 THEN "running" ELSE check[c]]
  BY <1>1, <1>5 DEF CommitRows
<1> HIDE DEF R
<1>7. Board!Dispatch(R)
  BY <1>2, <1>3, <1>4, <1>6 DEF Board!Dispatch, Board!Turn
<1> QED
  BY <1>2, <1>7

(* The verdicts a commit publishes are ones the board may give. *)
LEMMA BoardJudges ==
    ASSUME BInv, NEW s \in Sessions, Commits(s), pc[s] = "derive", NEW R \in SUBSET Runs,
           \A r \in Runs : lockR[r] = s => r \in R
    PROVE  Board!Judge(R)
<1> DEFINE D == {c \in Checks : lockC[c] = s}
<1>1. D \in SUBSET {CheckOf[r] : r \in R}
  <2> SUFFICES ASSUME NEW c \in Checks, lockC[c] = s PROVE \E r \in R : c = CheckOf[r]
    OBVIOUS
  <2>1. Wrote(s, c)
    BY DEF BInv, SessionIsSound, LocksAreDue, CheckLockIsDue
  <2> QED
    BY <2>1 DEF Wrote, RunsOf
<1>2. \A c \in Checks \ D : check'[c] = check[c]
  BY Published
<1>3. ASSUME NEW c \in D PROVE check'[c] \in Board!Verdicts /\ Board!MayJudge(c, check'[c])
  <2>1. check'[c] = newC[c] /\ newC[c] \in Verdicts /\ check[c] \notin {"none", "cancelled"}
    BY <1>3, Published
    DEF BInv, IInv, LocksFollowSteps, SessionIsSound, LocksAreDue, CheckLockIsDue
  <2>2. \A r \in Runs : run'[r] = View(s, r)
    BY CommitFinished DEF BInv, Commits
  <2>3. \A r \in Runs : CheckOf[r] = c => run'[r] \in Finished \cup {"none"}
    BY <1>3, <2>1, <2>2 DEF BInv, IInv, VerdictsAreSound, JudgedBy, SettledFor, RunsOf
  <2>4. check'[c] = "completed" =>
           \A r \in Runs : CheckOf[r] = c => run'[r] \in Succeeded \cup {"none"}
    BY <1>3, <2>1, <2>2 DEF BInv, SessionIsSound, CompletionIsSound, JudgedComplete, RunsOf
  <2> QED
    BY <2>1, <2>3, <2>4
    DEF Board!Verdicts, Verdicts, Board!MayJudge, Board!Finished, Board!Succeeded, Board!Errored,
        Finished, Succeeded, Errored
<1>4. check' \in [Checks -> Board!CheckStatus]
  <2>1. check' \in [Checks -> CheckStatus]
    BY DEF Commits, CommitRows, BInv, IInv, TypeOK
  <2> QED
    BY <2>1 DEF CheckStatus, Open, Verdicts, Board!CheckStatus, Board!Open, Board!Verdicts
<1> HIDE DEF D
<1> QED
  BY <1>1, <1>2, <1>3, <1>4 DEF Board!Judge

LEMMA BoardReports ==
    ASSUME BInv, NEW s \in Sessions, CommitResult(s)
    PROVE  \E r \in Runs, status \in {"done", "error"} : Board!Report(r, status)
<1> DEFINE r == req[s].run
           status == newR[r]
<1>1. Commits(s) /\ pc[s] = "derive" /\ r # None /\ CommitRows(s)
  BY ResultCommits DEF CommitResult
<1>2. r \in Runs /\ lockR[r] = s
  BY <1>1 DEF BInv, IInv, TypeOK, Local, SessionIsSound, WorkIsLocked
<1>3. \A q \in Runs : lockR[q] = s => q = r
  BY <1>1, Published
<1>4. status \in {"done", "error"}
  BY <1>1, <1>2, Published, NoneAssumption
<1>5. run[r] \in {"dispatched"} \cup Finished
  BY <1>2 DEF BInv, JobIsInOnePlace, Reporting, Awaited
<1>6. run' = [q \in Runs |-> IF q \in {r} THEN status ELSE run[q]]
  BY <1>1, <1>2, <1>3 DEF CommitRows
<1> HIDE DEF r, status
<1>7. Board!Judge({r})
  BY <1>1, <1>2, <1>3, BoardJudges
<1>8. Board!Report(r, status)
  BY <1>5, <1>6, <1>7
  DEF Board!Report, Board!Turn, Board!Finished, Board!Succeeded, Board!Errored, Finished, Succeeded, Errored
<1> QED
  BY <1>2, <1>4, <1>8

LEMMA BoardExpires ==
    ASSUME BInv, NEW s \in Sessions, CommitSweep(s)
    PROVE  \E R \in SUBSET Runs : Board!Expire(R)
<1> DEFINE R == {r \in Runs : lockR[r] = s}
<1>1. Commits(s) /\ pc[s] = "derive" /\ req[s].run = None /\ CommitRows(s)
  BY SweepCommits DEF CommitSweep
<1>2. \A r \in R : newR[r] = "timeout" /\ run[r] \in Unfinished
  BY <1>1, NoneAssumption DEF BInv, SessionIsSound, LocksAreDue, RunLockIsDue
<1>3. run' = [r \in Runs |-> IF r \in R THEN "timeout" ELSE run[r]]
  BY <1>1, <1>2 DEF CommitRows
<1>4. R \in SUBSET Runs /\ \A r \in Runs : lockR[r] = s => r \in R
  OBVIOUS
<1> HIDE DEF R
<1>5. Board!Judge(R)
  BY <1>1, <1>4, BoardJudges
<1>6. Board!Expire(R)
  BY <1>2, <1>3, <1>5 DEF Board!Expire, Board!Turn, Board!Unfinished, Unfinished
<1> QED
  BY <1>4, <1>6

LEMMA BoardCancels ==
    ASSUME BInv, NEW s \in Sessions, CommitCancel(s)
    PROVE  \E c \in Checks : Board!CancelCheck(c)
<1> DEFINE c == req[s].chk
           R == {r \in Runs : lockR[r] = s}
<1>1. Commits(s) /\ pc[s] = "cancelRuns" /\ req[s].runs = {} /\ CommitRows(s)
  BY SweepCommits DEF CommitCancel
<1>2. c \in Checks /\ lockC[c] = s /\ check[c] \in Open
  BY <1>1 DEF BInv, IInv, TypeOK, SessionIsSound, WorkIsLocked, LocksAreDue, CheckLockIsDue
<1>3. \A d \in Checks : lockC[d] = s => d = c /\ newC[d] = "cancelled"
  BY <1>1 DEF BInv, IInv, LocksFollowSteps, SessionIsSound, LocksAreDue, CheckLockIsDue
<1>4. check' = [check EXCEPT ![c] = "cancelled"]
  BY <1>1, <1>2, <1>3 DEF CommitRows, BInv, IInv, TypeOK
<1>5. \A r \in R : CheckOf[r] = c /\ newR[r] = "error" /\ run[r] \in Unfinished
  BY <1>1 DEF BInv, SessionIsSound, LocksAreDue, RunLockIsDue
<1>6. run' = [r \in Runs |-> IF r \in R THEN "error" ELSE run[r]]
  BY <1>1, <1>5 DEF CommitRows
<1>7. ASSUME NEW r \in Runs \ R, CheckOf[r] = c PROVE run[r] \notin Unfinished \ {"queued"}
  <2>1. View(s, r) \in Finished \cup {"none"} \/ Late(r)
    BY <1>1, <1>7 DEF BInv, SessionIsSound, CancelIsThorough, RunsOf
  <2> QED
    BY <1>7, <2>1 DEF View, Late, Finished, Succeeded, Errored, Unfinished
<1>8. R \in SUBSET {r \in Runs : CheckOf[r] = c /\ run[r] \in Unfinished}
  BY <1>5
<1> HIDE DEF c, R
<1>9. Board!CancelCheck(c)
  BY <1>2, <1>4, <1>6, <1>7, <1>8
  DEF Board!CancelCheck, Board!Turn, Board!Unfinished, Board!Open, Unfinished, Open
<1> QED
  BY <1>2, <1>9

LEMMA BoardNext == BInv /\ [Next]_vars => [Board!Next]_(Board!board)
<1> SUFFICES ASSUME BInv, [Next]_vars PROVE Board!Next \/ UNCHANGED <<check, run>>
  BY DEF Board!board
<1>1. ASSUME NEW s \in Sessions, Create(s) PROVE Board!Next \/ UNCHANGED <<check, run>>
  BY <1>1, BoardCreates, BoardAddsRuns DEF Create, CreateCheck, rows, Board!Next
<1>2. ASSUME NEW s \in Sessions, Poll(s) PROVE Board!Next \/ UNCHANGED <<check, run>>
  BY <1>2, BoardDispatches DEF Poll, ClaimQueuedRuns, MarkRunning, rows, Board!Next
<1>3. ASSUME NEW s \in Sessions, Results(s) PROVE Board!Next \/ UNCHANGED <<check, run>>
  BY <1>3, BoardReports DEF Results, PostResults, CompleteCheckRun, rows, Board!Next
<1>4. ASSUME NEW s \in Sessions, Sweep(s) PROVE Board!Next \/ UNCHANGED <<check, run>>
  BY <1>4, BoardExpires DEF Sweep, TimeoutStaleRuns, TimeoutRun, rows, Board!Next
<1>5. ASSUME NEW s \in Sessions, Derive(s) PROVE UNCHANGED <<check, run>>
  BY <1>5 DEF Derive, CountRuns, FinalizeCheckStatus, rows
<1>6. ASSUME NEW s \in Sessions, Cancel(s) PROVE Board!Next \/ UNCHANGED <<check, run>>
  BY <1>6, BoardCancels DEF Cancel, CancelCheck, CancelScan, CancelRun, rows, Board!Next
<1>7. ASSUME NEW s \in Sessions, Fail(s) \/ DeadlockVictim(s) PROVE UNCHANGED <<check, run>>
  BY <1>7 DEF Fail, DeadlockVictim, GiveUp, Rollback, rows
<1>8. ASSUME (\E c \in Checks : GracePasses(c)) \/ UNCHANGED vars PROVE UNCHANGED <<check, run>>
  BY <1>8 DEF GracePasses, vars, rows
<1> QED
  BY <1>1, <1>2, <1>3, <1>4, <1>5, <1>6, <1>7, <1>8 DEF Next, Sessions

(* What clients and nodes see is the board's behaviour: every transaction that
   commits is one of its operations, and no other step shows. *)
THEOREM Implements == Spec => ImplementsBoard
<1>1. Init => Board!Init
  BY DEF Init, Board!Init
<1> QED
  BY <1>1, BoardNext, BoardInvariance, PTL DEF Spec, ImplementsBoard, Board!Spec
-----------------------------------------------------------------------------
(* Verdicts follow from runs, unless reports of two of them meet. *)

Acts(s) ==
    \/ s \in Handlers /\ (Create(s) \/ Poll(s) \/ Results(s) \/ Cancel(s))
    \/ s \in Sweepers /\ Sweep(s)
    \/ Derive(s) \/ Fail(s) \/ DeadlockVictim(s)

(* What a step that commits nothing does to the rows. *)
InsertsAtMost ==
    /\ \A c \in Checks : check'[c] = check[c] \/ (check[c] = "none" /\ check'[c] = "pending")
    /\ \A r \in Runs : \/ run'[r] = run[r]
                       \/ run[r] = "none" /\ run'[r] = "queued" /\ ~HasRuns(CheckOf[r])

LEMMA CommitsOrInserts ==
    ASSUME BInv, NEW s \in Sessions, Acts(s)
    PROVE  Commits(s) \/ InsertsAtMost
<1>1. UNCHANGED rows => InsertsAtMost
  BY DEF rows, InsertsAtMost
<1>2. ASSUME NEW c \in Checks, InsertCheck(s, c) PROVE InsertsAtMost
  <2>1. check[c] = "none"
    BY <1>2 DEF InsertCheck, Creating, BInv, IInv, CreationIsPrivate
  <2> QED
    BY <1>2, <2>1 DEF InsertCheck, InsertsAtMost, BInv, IInv, TypeOK
<1>3. ASSUME CreateCheckRuns(s) PROVE InsertsAtMost
  <2>1. req[s].chk \in Checks /\ ~HasRuns(req[s].chk)
    BY <1>3 DEF CreateCheckRuns, BInv, IInv, TypeOK, CreationIsPrivate
  <2> QED
    BY <1>3, <2>1 DEF CreateCheckRuns, Slots, InsertsAtMost, HasRuns, Exists, RunsOf
<1>4. CASE Create(s)
  BY <1>1, <1>2, <1>3, <1>4 DEF Create, CreateCheck
<1>5. CASE Poll(s)
  BY <1>1, <1>5, ClaimCommits DEF Poll, ClaimQueuedRuns, MarkRunning
<1>6. CASE Results(s)
  BY <1>1, <1>6, ResultCommits DEF Results, PostResults, CompleteCheckRun
<1>7. CASE Sweep(s)
  BY <1>1, <1>7, SweepCommits DEF Sweep, TimeoutStaleRuns, TimeoutRun
<1>8. CASE Cancel(s)
  BY <1>1, <1>8, SweepCommits DEF Cancel, CancelCheck, CancelScan, CancelRun
<1>9. CASE Derive(s) \/ Fail(s) \/ DeadlockVictim(s)
  BY <1>1, <1>9 DEF Derive, CountRuns, FinalizeCheckStatus, Fail, DeadlockVictim, GiveUp, Rollback
<1> QED
  BY <1>4, <1>5, <1>6, <1>7, <1>8, <1>9 DEF Acts

(* A session takes and gives up its own locks only. *)
LEMMA LocksAreOwn ==
    ASSUME BInv, NEW s \in Sessions, Acts(s), NEW t \in Sessions, t # s
    PROVE  /\ pc'[t] = pc[t] /\ req'[t] = req[t]
           /\ \A r \in Runs : lockR'[r] = t <=> lockR[r] = t
           /\ \A c \in Checks : lockC'[c] = t <=> lockC[c] = t
<1> DEFINE Moved == pc'[t] = pc[t] /\ req'[t] = req[t]
<1> DEFINE RunsKept == \A r \in Runs : lockR'[r] = t <=> lockR[r] = t
<1> DEFINE ChecksKept == \A c \in Checks : lockC'[c] = t <=> lockC[c] = t
<1> DEFINE Kept == Moved /\ RunsKept /\ ChecksKept
<1>1. TypeOK /\ t # None
  BY NoneAssumption DEF BInv, IInv
<1>2. \A step, local : Goto(s, step, local) => Moved
  BY <1>1, GotoFrame
<1>3. UNCHANGED lockR => RunsKept
  OBVIOUS
<1>4. UNCHANGED lockC => ChecksKept
  OBVIOUS
<1>5. \A c \in Checks : \A status : WriteCheck(s, c, status) => ChecksKept
  BY <1>1 DEF WriteCheck, TypeOK
<1>6. \A r \in Runs : \A status : WriteRun(s, r, status) => RunsKept
  BY <1>1 DEF WriteRun, TypeOK
<1>7. Release(s) => RunsKept /\ ChecksKept
  BY <1>1 DEF Release
<1> HIDE DEF Moved, RunsKept, ChecksKept
<1>8. ASSUME Create(s) PROVE Kept
  <2>1. Moved
    BY <1>2, <1>8 DEF Create, CreateCheck, InsertCheck, CreateCheckRuns
  <2> QED
    BY <1>3, <1>4, <1>8, <2>1 DEF Create, CreateCheck, InsertCheck, CreateCheckRuns, locks
<1>9. ASSUME NEW n \in Nodes, ClaimQueuedRuns(s, n) PROVE Kept
  <2>1. Moved /\ ChecksKept
    BY <1>2, <1>4, <1>9 DEF ClaimQueuedRuns
  <2>2. PICK S \in Batches(n) : lockR' = [r \in Runs |-> IF r \in S THEN s ELSE lockR[r]]
    BY <1>9 DEF ClaimQueuedRuns
  <2>3. \A r \in S : r \in Runs /\ lockR[r] = None
    BY DEF Batches, Claimable
  <2>4. RunsKept
    BY <1>1, <2>2, <2>3 DEF RunsKept
  <2> QED
    BY <2>1, <2>4
<1>10. ASSUME NEW c \in Checks, MarkRunning(s, c) PROVE Kept
  <2>1. Moved /\ RunsKept
    BY <1>2, <1>3, <1>10 DEF MarkRunning
  <2>2. ChecksKept
    BY <1>4, <1>5, <1>10 DEF MarkRunning
  <2> QED
    BY <2>1, <2>2
<1>11. ASSUME NEW r \in Runs, NEW status, CompleteCheckRun(s, r, status) PROVE Kept
  <2>1. Moved
    BY <1>2, <1>11 DEF CompleteCheckRun
  <2> QED
    BY <1>4, <1>6, <1>11, <2>1 DEF CompleteCheckRun
<1>12. ASSUME NEW r \in Runs, TimeoutRun(s, r) PROVE Kept
  <2>1. Moved
    BY <1>2, <1>12 DEF TimeoutRun
  <2>2. RunsKept
    BY <1>3, <1>6, <1>12 DEF TimeoutRun
  <2> QED
    BY <1>4, <1>12, <2>1, <2>2 DEF TimeoutRun
<1>13. ASSUME NEW c \in Checks, CancelCheck(s, c) PROVE Kept
  <2>1. Moved
    BY <1>2, <1>13 DEF CancelCheck
  <2> QED
    BY <1>3, <1>5, <1>13, <2>1 DEF CancelCheck
<1>14. ASSUME NEW r \in Runs, CancelRun(s, r) PROVE Kept
  <2>1. Moved
    BY <1>2, <1>14 DEF CancelRun
  <2>2. RunsKept
    BY <1>3, <1>6, <1>14 DEF CancelRun
  <2> QED
    BY <1>4, <1>14, <2>1, <2>2 DEF CancelRun
<1>15. ASSUME FinalizeCheckStatus(s) PROVE Kept
  <2>1. Moved
    BY <1>2, <1>15 DEF FinalizeCheckStatus
  <2>2. req[s].chk \in Checks
    BY <1>1, <1>15 DEF FinalizeCheckStatus, TypeOK
  <2>3. ChecksKept
    BY <1>4, <1>5, <1>15, <2>2 DEF FinalizeCheckStatus
  <2> QED
    BY <1>3, <1>15, <2>1, <2>3 DEF FinalizeCheckStatus
<1>16. ASSUME CommitClaim(s) \/ CommitResult(s) \/ CommitSweep(s) \/ CommitCancel(s) \/ GiveUp(s)
       PROVE  Kept
  <2>1. Moved
    BY <1>2, <1>16 DEF CommitClaim, CommitResult, CommitSweep, CommitCancel, GiveUp
  <2>2. Release(s)
    BY <1>16 DEF CommitClaim, CommitResult, CommitSweep, CommitCancel, GiveUp, CommitRows, Rollback
  <2> QED
    BY <1>7, <2>1, <2>2
<1>17. ASSUME \/ \E B \in SUBSET held : PostResults(s, B)
              \/ TimeoutStaleRuns(s)
              \/ CancelScan(s)
              \/ \E c \in Checks : CountRuns(s, c)
       PROVE  Kept
  <2>1. Moved
    BY <1>2, <1>17 DEF PostResults, TimeoutStaleRuns, CancelScan, CountRuns
  <2>2. UNCHANGED locks
    BY <1>17 DEF PostResults, TimeoutStaleRuns, CancelScan, CountRuns
  <2> QED
    BY <1>3, <1>4, <2>1, <2>2 DEF locks
<1> HIDE DEF Kept
<1>18. Kept
  BY <1>8, <1>9, <1>10, <1>11, <1>12, <1>13, <1>14, <1>15, <1>16, <1>17
  DEF Acts, Poll, Results, Sweep, Derive, Cancel, Fail, DeadlockVictim
<1> QED
  BY <1>18 DEF Kept, Moved, RunsKept, ChecksKept

(* A check that is no longer open stays so. *)
LEMMA ClosedStays ==
    ASSUME IInv, [Next]_vars, NEW c \in Checks, check[c] \notin Open, check[c] # "none"
    PROVE  check'[c] \notin Open
<1>1. check[c] \in Verdicts \cup {"cancelled"}
  BY DEF IInv, TypeOK, CheckStatus
<1> QED
  BY <1>1, CheckStep DEF IInv, VersionsAgree, Verdicts, Open

(* A session that ends a run closes its check, or it is a report, and another
   run of the check stays unfinished. *)
LEMMA EndsWithVerdict ==
    ASSUME VInv, [Next]_vars, NEW s \in Sessions, Commits(s),
           NEW r \in Runs, lockR[r] = s, run'[r] \in Finished
    PROVE  \/ check'[CheckOf[r]] \notin Open
           \/ /\ pc[s] = "derive" /\ req[s].run = r
              /\ \E q \in RunsOf(CheckOf[r]) : run[q] \in Unfinished /\ run'[q] = run[q]
<1> DEFINE c == CheckOf[r]
<1>1. c \in Checks /\ BInv /\ IInv /\ SessionIsSound(s) /\ VerdictIsOwed(s) /\ Wrote(s, c)
  BY RunAssumption DEF VInv, BInv, Wrote, RunsOf
<1>2. lockC[c] = s /\ pc[s] \in {"derive", "cancelRuns"} => check'[c] \notin Open
  BY <1>1, Published DEF IInv, LocksFollowSteps, Verdicts, Open
<1>3. check[c] # "none"
  BY <1>1, NoneAssumption DEF IInv, CreationIsPrivate, HasRuns, RunsOf
<1>4. check[c] \notin Open => check'[c] \notin Open
  BY <1>1, <1>3, ClosedStays
<1>5. CASE pc[s] = "cancelRuns"
  <2>1. lockC[c] = s
    BY <1>1, <1>5 DEF SessionIsSound, LocksAreDue, RunLockIsDue, WorkIsLocked
  <2> QED
    BY <1>2, <1>5, <2>1
<1>6. CASE pc[s] = "derive"
  <2>1. \/ lockC[c] = s
        \/ check[c] \notin Open
        \/ req[s].run # None /\ \E q \in RunsOf(c) : run[q] \in Unfinished /\ lockR[q] # s
    BY <1>1, <1>6 DEF Commits, VerdictIsOwed
  <2>2. req[s].run # None => req[s].run = r
    BY <1>1, <1>6 DEF SessionIsSound, LocksAreDue, RunLockIsDue
  <2>3. \A q \in RunsOf(c) : lockR[q] # s => run'[q] = run[q]
    BY <1>1, Published DEF RunsOf
  <2> QED
    BY <1>2, <1>4, <1>6, <2>1, <2>2, <2>3
<1>7. pc[s] # "markRunning"
  <2> SUFFICES ASSUME pc[s] = "markRunning" PROVE FALSE
    OBVIOUS
  <2>1. run'[r] = "dispatched"
    BY <1>1, Published DEF IInv, LocksFollowSteps
  <2> QED
    BY <2>1 DEF Finished, Succeeded, Errored
<1> QED
  BY <1>5, <1>6, <1>7 DEF Commits

LEMMA VerdictIsGivenKept ==
    ASSUME VInv, NEW s \in Sessions, Acts(s), [Next]_vars
    PROVE  VerdictIsGiven'
<1> SUFFICES ASSUME NEW c \in Checks, Settled(c)' PROVE check'[c] \notin Open
  BY DEF VerdictIsGiven
<1>1. BInv /\ IInv /\ RunsOf(c) \subseteq Runs /\ \A r \in RunsOf(c) : CheckOf[r] = c
  BY DEF VInv, BInv, RunsOf
<1>2. \A r \in RunsOf(c) : run'[r] \in Finished \cup {"none"}
  BY DEF Settled
<1>3. PICK e \in RunsOf(c) : run'[e] # "none"
  BY DEF Settled, HasRuns, Exists
<1>4. Exists(e)
  <2>1. CASE Commits(s)
    BY <1>1, <1>3, <2>1, CommitExists DEF Commits, Exists
  <2>2. CASE InsertsAtMost
    BY <1>1, <1>2, <1>3, <2>2 DEF InsertsAtMost, Finished, Succeeded, Errored, Exists
  <2> QED
    BY <1>1, <2>1, <2>2, CommitsOrInserts
<1>5. HasRuns(c) /\ check[c] # "none"
  BY <1>1, <1>4 DEF HasRuns, IInv, CreationIsPrivate
<1>6. CASE Settled(c)
  BY <1>1, <1>5, <1>6, ClosedStays DEF VInv, VerdictIsGiven
<1>7. CASE ~Settled(c)
  <2>1. PICK r \in RunsOf(c) : run[r] \notin Finished \cup {"none"}
    BY <1>5, <1>7 DEF Settled
  <2>2. Commits(s)
    BY <1>1, <1>2, <2>1, CommitsOrInserts DEF InsertsAtMost
  <2>3. lockR[r] = s /\ run'[r] \in Finished
    BY <1>1, <1>2, <2>1, <2>2, Published, CommitExists DEF Commits, Exists
  <2>4. ASSUME NEW q \in RunsOf(c), run[q] \in Unfinished, run'[q] = run[q] PROVE FALSE
    BY <1>2, <2>4 DEF Unfinished, Finished, Succeeded, Errored
  <2> QED
    BY <1>1, <2>2, <2>3, <2>4, EndsWithVerdict
<1> QED
  BY <1>6, <1>7

(* The others.  A run that one report counted as unfinished is ended by a sweep,
   which knows of both runs, or by a cancel, but by no other report. *)
LEMMA OthersOwe ==
    ASSUME VInv, ReportsApart, NEW s \in Sessions, Acts(s), [Next]_vars,
           NEW t \in Sessions, t # s
    PROVE  SweepIsWhole(t)' /\ VerdictIsOwed(t)'
<1>1. BInv /\ IInv /\ SweepIsWhole(t) /\ VerdictIsOwed(t) /\ req[t] \in Local
  BY DEF VInv, BInv, IInv, TypeOK
<1>2. /\ pc'[t] = pc[t] /\ req'[t] = req[t]
      /\ \A r \in Runs : lockR'[r] = t <=> lockR[r] = t
      /\ \A c \in Checks : lockC'[c] = t <=> lockC[c] = t
  BY <1>1, LocksAreOwn
<1>3. \A c \in Checks : Wrote(t, c)' <=> Wrote(t, c)
  BY <1>2 DEF Wrote, RunsOf
<1>4. Commits(s) \/ InsertsAtMost
  BY <1>1, CommitsOrInserts
<1>5. \A r \in Runs : Exists(r) => Exists(r)' /\ (run'[r] \in Unfinished => run[r] \in Unfinished)
  <2>1. CASE Commits(s)
    <3>1. \A r \in Runs : Exists(r) => Exists(r)'
      BY <1>1, <2>1, CommitExists DEF Commits
    <3>2. \A r \in Runs : Exists(r) => run[r] \in Unfinished \cup Finished
      BY <1>1 DEF IInv, TypeOK, RunStatus, Exists
    <3>3. \A r \in Runs : run[r] \in Finished => run'[r] \in Finished
      BY <1>1, <2>1, CommitFinished DEF Commits
    <3> QED
      BY <3>1, <3>2, <3>3 DEF Unfinished, Finished, Succeeded, Errored
  <2>2. CASE InsertsAtMost
    BY <2>2 DEF InsertsAtMost, Exists
  <2> QED
    BY <1>4, <2>1, <2>2
<1>6. \A r \in Runs : ~Exists(r) /\ run'[r] \in Unfinished => ~HasRuns(CheckOf[r])
  <2>1. CASE Commits(s)
    BY <1>1, <2>1, CommitExists DEF Commits, Exists, Unfinished
  <2>2. CASE InsertsAtMost
    BY <2>2 DEF InsertsAtMost, Exists, Unfinished
  <2> QED
    BY <1>4, <2>1, <2>2
<1>7. \A c \in Checks : Wrote(t, c) => HasRuns(c)
  BY <1>1, NoneAssumption DEF Wrote, HasRuns, RunsOf, IInv, CreationIsPrivate
<1>8. SweepIsWhole(t)'
  <2> SUFFICES ASSUME pc[t] \in {"timeoutRuns", "derive", "finalize"}, req[t].run = None
               PROVE  /\ \A r \in req[t].runs : Exists(r)'
                      /\ pc[t] # "timeoutRuns" => req[t].runs = {}
                      /\ \A c \in Checks : Wrote(t, c) \/ req[t].runs \cap RunsOf(c) # {} =>
                            \A r \in RunsOf(c) :
                                run'[r] \in Unfinished => r \in req[t].runs \/ lockR'[r] = t
    BY <1>2, <1>3 DEF SweepIsWhole
  <2>1. req[t].runs \subseteq Runs /\ \A r \in req[t].runs : Exists(r)
    BY <1>1 DEF Local, SweepIsWhole
  <2>2. ASSUME NEW c \in Checks, Wrote(t, c) \/ req[t].runs \cap RunsOf(c) # {},
               NEW r \in RunsOf(c), run'[r] \in Unfinished
        PROVE  r \in req[t].runs \/ lockR'[r] = t
    <3>1. HasRuns(c) /\ r \in Runs /\ CheckOf[r] = c
      BY <1>7, <2>1, <2>2 DEF HasRuns, RunsOf
    <3>2. run[r] \in Unfinished
      BY <1>5, <1>6, <2>2, <3>1
    <3> QED
      BY <1>1, <1>2, <2>2, <3>1, <3>2 DEF SweepIsWhole
  <2> QED
    BY <1>1, <1>5, <2>1, <2>2 DEF SweepIsWhole
<1>9. VerdictIsOwed(t)'
  <2> SUFFICES ASSUME pc[t] \in {"timeoutRuns", "derive", "finalize"}, NEW c \in Checks, Wrote(t, c)
               PROVE  \/ c \in req[t].chks
                      \/ pc[t] = "finalize" /\ req[t].chk = c
                      \/ lockC'[c] = t
                      \/ check'[c] \notin Open
                      \/ /\ req[t].run # None
                         /\ \E r \in RunsOf(c) : run'[r] \in Unfinished /\ lockR'[r] # t
    BY <1>2, <1>3 DEF VerdictIsOwed
  <2>1. CASE check[c] \notin Open
    <3>1. check[c] # "none"
      BY <1>1, <1>7 DEF IInv, CreationIsPrivate
    <3> QED
      BY <1>1, <2>1, <3>1, ClosedStays
  <2>2. ASSUME req[t].run # None, NEW r \in RunsOf(c), run[r] \in Unfinished, lockR[r] # t
        PROVE  check'[c] \notin Open \/ (run'[r] \in Unfinished /\ lockR'[r] # t)
    <3>1. r \in Runs /\ CheckOf[r] = c /\ lockR'[r] # t
      BY <1>2, <2>2 DEF RunsOf
    <3>2. CASE run'[r] = run[r]
      BY <2>2, <3>1, <3>2
    <3>3. CASE run'[r] # run[r]
      <4>1. Commits(s)
        BY <1>4, <2>2, <3>1, <3>3 DEF InsertsAtMost, Unfinished
      <4>2. lockR[r] = s /\ (run'[r] = "dispatched" \/ run'[r] \in Finished)
        BY <1>1, <3>1, <3>3, <4>1, Published DEF Finished, Succeeded, Errored
      <4>3. ASSUME pc[s] = "derive", req[s].run = r PROVE FALSE
        <5>1. PICK q \in Runs : CheckOf[q] = c /\ lockR[q] = t
          BY DEF Wrote, RunsOf
        <5>2. req[t].run = q
          BY <1>1, <2>2, <5>1 DEF BInv, SessionIsSound, LocksAreDue, WorkIsLocked, RunLockIsDue
        <5>3. req[s].run # None
          BY <3>1, <4>3, NoneAssumption
        <5> QED
          BY <2>2, <3>1, <4>3, <5>1, <5>2, <5>3 DEF ReportsApart
      <4> QED
        BY <3>1, <4>1, <4>2, <4>3, EndsWithVerdict DEF Unfinished
    <3> QED
      BY <3>2, <3>3
  <2> QED
    BY <1>1, <1>2, <2>1, <2>2 DEF VerdictIsOwed
<1> QED
  BY <1>8, <1>9

(* The session's own steps. *)

(* Of a session that ends no run nothing is owed. *)
LEMMA NothingOwed ==
    ASSUME BInv', NEW s \in Sessions, pc'[s] \notin {"timeoutRuns", "derive", "finalize"}
    PROVE  SweepIsWhole(s)' /\ VerdictIsOwed(s)' /\ req'[s].run = None
  BY DEF BInv, SessionIsSound, WorkIsLocked, SweepIsWhole, VerdictIsOwed

LEMMA OwesTimeoutStaleRuns ==
    ASSUME VInv, NEW s \in Sessions, TimeoutStaleRuns(s)
    PROVE  SweepIsWhole(s)' /\ VerdictIsOwed(s)' /\ req'[s].run = None
<1> DEFINE local == [Fresh EXCEPT !.runs = Stale]
<1>1. local.run = None /\ local.runs = Stale
  BY DEF Fresh
<1>2. pc[s] = "idle" /\ Goto(s, "timeoutRuns", local) /\ UNCHANGED <<run, lockR>>
  BY DEF TimeoutStaleRuns, rows, locks
<1> HIDE DEF local
<1>3. pc'[s] = "timeoutRuns" /\ req'[s].run = None /\ req'[s].runs = Stale
  BY <1>1, <1>2, GotoFrame DEF VInv, BInv, IInv
<1>4. \A c \in Checks : ~Wrote(s, c)'
  BY <1>2, NothingHeld DEF VInv, BInv, Wrote, RunsOf
<1>5. \A r \in Stale : run[r] # "none"
  BY DEF Stale, Unfinished
<1>6. ASSUME NEW c \in Checks, Stale \cap RunsOf(c) # {}, NEW r \in RunsOf(c), run[r] \in Unfinished
      PROVE  r \in Stale
  BY <1>6 DEF Stale, RunsOf
<1> QED
  BY <1>2, <1>3, <1>4, <1>5, <1>6 DEF SweepIsWhole, VerdictIsOwed, Exists

LEMMA OwesTimeoutRun ==
    ASSUME VInv, NEW s \in Sessions, NEW q \in Runs, TimeoutRun(s, q)
    PROVE  SweepIsWhole(s)' /\ VerdictIsOwed(s)' /\ req'[s].run = None
<1> DEFINE step == IF req[s].runs = {q} THEN "derive" ELSE "timeoutRuns"
<1> DEFINE written == [req[s] EXCEPT !.runs = @ \ {q}, !.chks = @ \cup {CheckOf[q]}]
<1> DEFINE skipped == [req[s] EXCEPT !.runs = @ \ {q}]
<1>1. /\ pc[s] = "timeoutRuns" /\ req[s] \in Local /\ req[s].run = None
      /\ TypeOK /\ BInv /\ IInv /\ SweepIsWhole(s) /\ VerdictIsOwed(s) /\ CheckOf[q] \in Checks
  BY RunNamed, RunAssumption DEF TimeoutRun, VInv, BInv, IInv, TypeOK
<1>2. /\ written.run = None /\ written.runs = req[s].runs \ {q}
      /\ written.chks = req[s].chks \cup {CheckOf[q]}
      /\ skipped.run = None /\ skipped.runs = req[s].runs \ {q} /\ skipped.chks = req[s].chks
  BY <1>1 DEF Local
<1>3. /\ q \in req[s].runs /\ UNCHANGED <<check, run, lockC>>
      /\ \/ StillUnfinished(q) /\ WriteRun(s, q, "timeout") /\ Goto(s, step, written)
         \/ ~StillUnfinished(q) /\ Goto(s, step, skipped) /\ UNCHANGED lockR
  BY DEF TimeoutRun, rows
<1> HIDE DEF written, skipped
<1>4. /\ pc'[s] = step /\ req'[s].run = None /\ req'[s].runs = req[s].runs \ {q}
      /\ req'[s].chks \in {req[s].chks, req[s].chks \cup {CheckOf[q]}}
  BY <1>1, <1>2, <1>3, GotoFrame
<1>5. ASSUME StillUnfinished(q)
      PROVE  /\ \A r \in Runs : lockR'[r] = s <=> (lockR[r] = s \/ r = q)
             /\ CheckOf[q] \in req'[s].chks
  BY <1>1, <1>2, <1>3, <1>5, GotoFrame DEF WriteRun, TypeOK
<1>6. ASSUME ~StillUnfinished(q) PROVE lockR' = lockR
  BY <1>3, <1>6
<1>7. \A r \in Runs : lockR[r] = s => lockR'[r] = s
  BY <1>5, <1>6
<1>8. \A c \in Checks : Wrote(s, c)' => Wrote(s, c) \/ (StillUnfinished(q) /\ c = CheckOf[q])
  BY <1>5, <1>6 DEF Wrote, RunsOf
<1>9. SweepIsWhole(s)'
  <2>1. \A r \in req'[s].runs : Exists(r)'
    BY <1>1, <1>3, <1>4 DEF SweepIsWhole, Exists
  <2>2. pc'[s] # "timeoutRuns" => req'[s].runs = {}
    BY <1>4
  <2>3. ASSUME NEW c \in Checks, Wrote(s, c)' \/ req'[s].runs \cap RunsOf(c) # {},
               NEW r \in RunsOf(c), run'[r] \in Unfinished
        PROVE  r \in req'[s].runs \/ lockR'[r] = s
    <3>1. Wrote(s, c) \/ req[s].runs \cap RunsOf(c) # {}
      BY <1>3, <1>4, <1>8, <2>3 DEF RunsOf
    <3>2. r \in Runs /\ run[r] \in Unfinished /\ (r \in req[s].runs \/ lockR[r] = s)
      BY <1>1, <1>3, <2>3, <3>1 DEF SweepIsWhole, RunsOf
    <3> QED
      BY <1>4, <1>5, <1>7, <3>2 DEF StillUnfinished
  <2> QED
    BY <2>1, <2>2, <2>3 DEF SweepIsWhole
<1>10. ASSUME NEW c \in Checks, Wrote(s, c)'
       PROVE  \/ c \in req'[s].chks
              \/ lockC'[c] = s
              \/ check'[c] \notin Open
  <2>1. CASE StillUnfinished(q) /\ c = CheckOf[q]
    BY <1>5, <2>1
  <2>2. CASE Wrote(s, c)
    BY <1>1, <1>3, <1>4, <2>2 DEF VerdictIsOwed
  <2> QED
    BY <1>8, <1>10, <2>1, <2>2
<1> QED
  BY <1>4, <1>9, <1>10 DEF VerdictIsOwed

LEMMA OwesCompleteCheckRun ==
    ASSUME VInv, NEW s \in Sessions, NEW q \in Runs, NEW status, CompleteCheckRun(s, q, status)
    PROVE  SweepIsWhole(s)' /\ VerdictIsOwed(s)'
<1> DEFINE local == [req[s] EXCEPT !.run = q, !.batch = @ \ {q}, !.chks = {CheckOf[q]}]
<1>1. TypeOK /\ IInv /\ req[s] \in Local
  BY DEF VInv, BInv, IInv, TypeOK
<1>2. local.run = q /\ local.chks = {CheckOf[q]}
  BY <1>1 DEF Local
<1>3. pc[s] = "recordResult" /\ WriteRun(s, q, status) /\ Goto(s, "derive", local)
  BY DEF CompleteCheckRun
<1> HIDE DEF local
<1>4. req'[s].run # None /\ req'[s].chks = {CheckOf[q]}
  BY <1>1, <1>2, <1>3, GotoFrame, NoneAssumption
<1>5. \A r \in Runs : lockR'[r] = s => r = q
  BY <1>1, <1>3, NothingHeld DEF WriteRun, TypeOK
<1> QED
  BY <1>4, <1>5 DEF SweepIsWhole, VerdictIsOwed, Wrote, RunsOf

LEMMA OwesCountRuns ==
    ASSUME VInv, NEW s \in Sessions, NEW d \in Checks, CountRuns(s, d)
    PROVE  SweepIsWhole(s)' /\ VerdictIsOwed(s)' /\ req'[s].run = req[s].run
<1> DEFINE counted == [req[s] EXCEPT !.chks = @ \ {d}, !.chk = d, !.verdict = VerdictOf(s, d)]
<1> DEFINE passed == [req[s] EXCEPT !.chks = @ \ {d}]
<1>1. /\ pc[s] = "derive" /\ req[s] \in Local /\ TypeOK /\ BInv /\ IInv
      /\ SweepIsWhole(s) /\ VerdictIsOwed(s)
  BY DEF CountRuns, VInv, BInv, IInv, TypeOK
<1>2. /\ counted.run = req[s].run /\ counted.runs = req[s].runs
      /\ counted.chks = req[s].chks \ {d} /\ counted.chk = d
      /\ passed.run = req[s].run /\ passed.runs = req[s].runs /\ passed.chks = req[s].chks \ {d}
  BY <1>1 DEF Local
<1>3. /\ UNCHANGED <<check, run, lockC, lockR>>
      /\ \/ Pending(s, d) /\ Goto(s, "derive", passed)
         \/ ~Pending(s, d) /\ Goto(s, "finalize", counted)
  BY DEF CountRuns, rows, locks
<1> HIDE DEF counted, passed
<1>4. /\ req'[s].run = req[s].run /\ req'[s].runs = req[s].runs /\ req'[s].chks = req[s].chks \ {d}
      /\ pc'[s] \in {"derive", "finalize"}
      /\ ~Pending(s, d) => pc'[s] = "finalize" /\ req'[s].chk = d
  BY <1>1, <1>2, <1>3, GotoFrame
<1>5. \A c \in Checks : Wrote(s, c)' <=> Wrote(s, c)
  BY <1>3 DEF Wrote, RunsOf
<1>6. SweepIsWhole(s)'
  <2> SUFFICES ASSUME req[s].run = None
               PROVE  /\ req[s].runs = {}
                      /\ \A c \in Checks : Wrote(s, c) =>
                            \A r \in RunsOf(c) : run[r] \in Unfinished => lockR[r] = s
    BY <1>3, <1>4, <1>5 DEF SweepIsWhole
  <2> QED
    BY <1>1 DEF SweepIsWhole
<1>7. ASSUME Pending(s, d), Wrote(s, d)
      PROVE  req[s].run # None /\ \E r \in RunsOf(d) : run[r] \in Unfinished /\ lockR[r] # s
  <2>1. PICK r \in RunsOf(d) : View(s, r) \in Unfinished
    BY <1>7 DEF Pending
  <2>2. r \in Runs
    BY DEF RunsOf
  <2>3. lockR[r] # s
    BY <1>1, <2>1, <2>2 DEF View, IInv, LocksFollowSteps, Unfinished, Finished, Succeeded, Errored
  <2>4. run[r] \in Unfinished
    BY <2>1, <2>3 DEF View
  <2> QED
    BY <1>1, <1>7, <2>3, <2>4 DEF SweepIsWhole
<1>8. ASSUME NEW c \in Checks, Wrote(s, c)
      PROVE  \/ c \in req'[s].chks
             \/ pc'[s] = "finalize" /\ req'[s].chk = c
             \/ lockC[c] = s
             \/ check[c] \notin Open
             \/ req[s].run # None /\ \E r \in RunsOf(c) : run[r] \in Unfinished /\ lockR[r] # s
  <2>1. CASE c = d
    BY <1>4, <1>7, <1>8, <2>1
  <2>2. CASE c # d
    BY <1>1, <1>4, <1>8, <2>2 DEF VerdictIsOwed
  <2> QED
    BY <2>1, <2>2
<1>9. VerdictIsOwed(s)'
  BY <1>3, <1>4, <1>5, <1>8 DEF VerdictIsOwed
<1> QED
  BY <1>4, <1>6, <1>9

LEMMA OwesFinalizeCheckStatus ==
    ASSUME VInv, NEW s \in Sessions, FinalizeCheckStatus(s)
    PROVE  SweepIsWhole(s)' /\ VerdictIsOwed(s)' /\ req'[s].run = req[s].run
<1> DEFINE local == [req[s] EXCEPT !.chk = None, !.verdict = "none"]
<1> DEFINE d == req[s].chk
<1>1. /\ pc[s] = "finalize" /\ req[s] \in Local /\ d \in Checks /\ TypeOK
      /\ SweepIsWhole(s) /\ VerdictIsOwed(s)
  BY DEF FinalizeCheckStatus, VInv, BInv, IInv, TypeOK
<1>2. local.run = req[s].run /\ local.runs = req[s].runs /\ local.chks = req[s].chks
  BY <1>1 DEF Local
<1>3. /\ UNCHANGED <<check, run, lockR>> /\ Goto(s, "derive", local)
      /\ \/ lockC' = [lockC EXCEPT ![d] = s]
         \/ check[d] = "cancelled" /\ UNCHANGED lockC
  BY DEF FinalizeCheckStatus, Finalizable, WriteCheck, rows
<1> HIDE DEF local
<1>4. /\ pc'[s] = "derive"
      /\ req'[s].run = req[s].run /\ req'[s].runs = req[s].runs /\ req'[s].chks = req[s].chks
  BY <1>1, <1>2, <1>3, GotoFrame
<1>5. \A c \in Checks : Wrote(s, c)' <=> Wrote(s, c)
  BY <1>3 DEF Wrote, RunsOf
<1>6. SweepIsWhole(s)'
  BY <1>1, <1>3, <1>4, <1>5 DEF SweepIsWhole, Exists
<1>7. \A c \in Checks : lockC[c] = s => lockC'[c] = s
  BY <1>1, <1>3 DEF TypeOK
<1>8. lockC'[d] = s \/ check'[d] \notin Open
  BY <1>1, <1>3 DEF TypeOK, Open
<1>9. VerdictIsOwed(s)'
  BY <1>1, <1>3, <1>4, <1>5, <1>7, <1>8 DEF VerdictIsOwed
<1> QED
  BY <1>4, <1>6, <1>9

LEMMA OwnOwe ==
    ASSUME VInv, BInv', NEW s \in Sessions, Acts(s)
    PROVE  SweepIsWhole(s)' /\ VerdictIsOwed(s)' /\ (req'[s].run # None => s \in Handlers)
<1> DEFINE Owes == SweepIsWhole(s)' /\ VerdictIsOwed(s)' /\ (req'[s].run # None => s \in Handlers)
<1>1. \A step, local : Goto(s, step, local) => pc'[s] = step
  BY GotoFrame DEF VInv, BInv, IInv
<1>2. pc'[s] \notin {"timeoutRuns", "derive", "finalize"} => Owes
  BY NothingOwed
<1>3. req[s].run # None => s \in Handlers
  BY DEF VInv
<1> HIDE DEF Owes
<1>4. ASSUME Create(s) PROVE Owes
  BY <1>1, <1>2, <1>4 DEF Create, CreateCheck, InsertCheck, CreateCheckRuns
<1>5. ASSUME Poll(s) PROVE Owes
  BY <1>1, <1>2, <1>5 DEF Poll, ClaimQueuedRuns, MarkRunning, CommitClaim
<1>6. ASSUME NEW q \in Runs, NEW status, CompleteCheckRun(s, q, status), s \in Handlers PROVE Owes
  BY <1>6, OwesCompleteCheckRun DEF Owes
<1>7. ASSUME Results(s), s \in Handlers PROVE Owes
  BY <1>1, <1>2, <1>6, <1>7 DEF Results, PostResults, CommitResult
<1>8. ASSUME Sweep(s) PROVE Owes
  <2>1. TimeoutStaleRuns(s) => Owes
    BY OwesTimeoutStaleRuns DEF Owes
  <2>2. \A q \in Runs : TimeoutRun(s, q) => Owes
    BY OwesTimeoutRun DEF Owes
  <2>3. CommitSweep(s) => Owes
    BY <1>1, <1>2 DEF CommitSweep
  <2> QED
    BY <1>8, <2>1, <2>2, <2>3 DEF Sweep
<1>9. ASSUME Cancel(s) PROVE Owes
  BY <1>1, <1>2, <1>9 DEF Cancel, CancelCheck, CancelScan, CancelRun, CommitCancel
<1>10. ASSUME Derive(s) PROVE Owes
  BY <1>3, <1>10, OwesCountRuns, OwesFinalizeCheckStatus DEF Derive, Owes
<1>11. ASSUME Fail(s) \/ DeadlockVictim(s) PROVE Owes
  BY <1>1, <1>2, <1>11 DEF Fail, DeadlockVictim, GiveUp
<1>12. Owes
  BY <1>4, <1>5, <1>7, <1>8, <1>9, <1>10, <1>11 DEF Acts
<1> QED
  BY <1>12 DEF Owes

LEMMA VerdictInit == Init => VInv
<1> SUFFICES ASSUME Init PROVE VInv
  OBVIOUS
<1>1. /\ \A s \in Sessions : pc[s] = "idle" /\ req[s].run = None
      /\ \A r \in Runs : run[r] = "none"
  BY DEF Init, Fresh
<1>2. \A s \in Sessions : SweepIsWhole(s) /\ VerdictIsOwed(s)
  BY <1>1 DEF SweepIsWhole, VerdictIsOwed
<1>3. VerdictIsGiven
  BY <1>1 DEF VerdictIsGiven, Settled, HasRuns, Exists, RunsOf
<1> QED
  BY <1>1, <1>2, <1>3, BoardInit DEF VInv

LEMMA VerdictStep == VInv /\ ReportsApart /\ [Next]_vars => VInv'
<1> SUFFICES ASSUME VInv, ReportsApart, [Next]_vars PROVE VInv'
  OBVIOUS
<1>1. BInv'
  BY BoardStep DEF VInv
<1>2. ASSUME NEW s \in Sessions, Acts(s) PROVE VInv'
  <2>1. VerdictIsGiven'
    BY <1>2, VerdictIsGivenKept
  <2>2. ASSUME NEW t \in Sessions
        PROVE  SweepIsWhole(t)' /\ VerdictIsOwed(t)' /\ (req'[t].run # None => t \in Handlers)
    <3>1. CASE t = s
      BY <1>1, <1>2, <3>1, OwnOwe
    <3>2. CASE t # s
      <4>1. req'[t] = req[t]
        BY <1>2, <3>2, LocksAreOwn DEF VInv
      <4> QED
        BY <1>2, <3>2, <4>1, OthersOwe DEF VInv
    <3> QED
      BY <3>1, <3>2
  <2> QED
    BY <1>1, <2>1, <2>2 DEF VInv
<1>3. ASSUME (\E c \in Checks : GracePasses(c)) \/ UNCHANGED vars PROVE VInv'
  <2>1. UNCHANGED <<check, run, lockC, lockR, pc, req>>
    BY <1>3 DEF GracePasses, vars, rows, locks
  <2>2. \A s \in Sessions : SweepIsWhole(s)' /\ VerdictIsOwed(s)'
    BY <2>1 DEF VInv, SweepIsWhole, VerdictIsOwed, Wrote, Exists, RunsOf
  <2>3. VerdictIsGiven'
    BY <2>1 DEF VInv, VerdictIsGiven, Settled, HasRuns, Exists, RunsOf
  <2> QED
    BY <1>1, <2>1, <2>2, <2>3 DEF VInv
<1> QED
  BY <1>2, <1>3 DEF Next, Acts, Sessions

LEMMA OwedMeansGiven == VInv => VerdictFollowsRuns
  BY DEF VInv, VerdictIsGiven, Settled, HasRuns, Exists, VerdictFollowsRuns

(* A check has its verdict as soon as its runs have finished, whatever claims,
   sweeps, cancels, creations and failures interleave, if no two transactions of
   CompleteCheckRun are at work on runs of one check at the same time. *)
THEOREM VerdictNeedsReportsApart == Spec /\ []ReportsApart => []VerdictFollowsRuns
  BY VerdictInit, VerdictStep, OwedMeansGiven, PTL DEF Spec

(* It has it always, if requests are handled one after the other, whatever the
   sweepers do meanwhile. *)
THEOREM VerdictFollowsOneByOne ==
    ASSUME \A s, t \in Handlers : s = t
    PROVE  Spec => []VerdictFollowsRuns
<1>1. VInv => ReportsApart
  BY DEF VInv, ReportsApart
<1> QED
  BY <1>1, VerdictInit, VerdictStep, OwedMeansGiven, PTL DEF Spec
=============================================================================
