------------------------ MODULE CheckLifecycleSafety ------------------------
(***************************************************************************)
(* IInv is an inductive invariant of CheckLifecycle, and the safety         *)
(* properties that follow from it.  Every lemma Inv<Action> shows that the   *)
(* action keeps the parts of IInv other than TypeOK; the steps that share a  *)
(* shape (a commit, a move that writes nothing, a run given a final status)  *)
(* share a lemma.                                                           *)
(***************************************************************************)
EXTENDS CheckLifecycleProofs

Coherent == /\ LocksFollowSteps
            /\ VersionsAgree
            /\ CreationIsPrivate
            /\ WorkExists
            /\ VerdictsAreSound

-----------------------------------------------------------------------------
(* Frames. *)

(* Goto moves one session and leaves the others where they are. *)
LEMMA GotoFrame ==
    ASSUME TypeOK, NEW s \in Sessions, NEW step, NEW local, Goto(s, step, local)
    PROVE  /\ pc'[s] = step /\ req'[s] = local
           /\ \A t \in Sessions : t # s => pc'[t] = pc[t] /\ req'[t] = req[t]
  BY DEF Goto, TypeOK

(* A step of a session that is not creating checks, and that neither creates
   rows nor locks rows that do not exist, leaves the others' creations alone. *)
LEMMA PrivateKept ==
    ASSUME IInv, NEW s \in Sessions, ~Creating(s)',
           \A t \in Sessions : t # s => pc'[t] = pc[t] /\ req'[t] = req[t],
           \A r \in Runs : (Exists(r)' <=> Exists(r)) /\ (~Exists(r) => lockR'[r] = None),
           \A c \in Checks : /\ HasRuns(c)' <=> HasRuns(c)
                             /\ check'[c] = "none" <=> check[c] = "none"
                             /\ (check[c] = "none" => lockC'[c] = None)
    PROVE  CreationIsPrivate'
<1>1. \A t \in Sessions : Creating(t)' => t # s /\ Creating(t)
  BY DEF Creating
<1>2. ASSUME NEW t \in Sessions, Creating(t)', NEW c \in Checks
      PROVE  /\ c \in req'[t].chks => check'[c] = "none"
             /\ pc'[t] = "addRuns" /\ req'[t].chk = c => check'[c] # "none" /\ ~HasRuns(c)'
  <2>1. t # s /\ Creating(t) /\ pc'[t] = pc[t] /\ req'[t] = req[t]
    BY <1>1, <1>2
  <2>2. /\ c \in req[t].chks => check[c] = "none"
        /\ pc[t] = "addRuns" /\ req[t].chk = c => check[c] # "none" /\ ~HasRuns(c)
    BY <2>1 DEF IInv, CreationIsPrivate
  <2> QED
    BY <2>1, <2>2
<1>3. \A t \in Sessions : Creating(t)' => req'[t].chks \subseteq Checks
  BY <1>1 DEF IInv, TypeOK, Local
<1>4. \A t, u \in Sessions : t # u /\ Creating(t)' /\ Creating(u)' =>
          /\ req'[t].chks \cap req'[u].chks = {}
          /\ (pc'[t] = "addRuns" /\ pc'[u] = "addRuns" => req'[t].chk # req'[u].chk)
  BY <1>1 DEF CreationIsPrivate, IInv
<1>5. \A c \in Checks : check'[c] = "none" => lockC'[c] = None /\ ~HasRuns(c)'
  BY DEF IInv, CreationIsPrivate
<1> QED
  BY <1>2, <1>3, <1>4, <1>5 DEF CreationIsPrivate, Creating

(* A step that writes no row only has to respect what its session works on. *)
LEMMA MoveOn ==
    ASSUME IInv, NEW s \in Sessions, UNCHANGED <<check, run, newC, newR, lockC, lockR>>,
           \A t \in Sessions : t # s => pc'[t] = pc[t] /\ req'[t] = req[t],
           \/ pc[s] = "idle" /\ pc'[s] \in {"recordResult", "timeoutRuns"}
           \/ pc[s] \in {"cancelScan", "cancelRuns"} /\ pc'[s] = "cancelRuns"
           \/ pc[s] = "timeoutRuns" /\ pc'[s] \in {"timeoutRuns", "derive"},
           pc'[s] \in {"timeoutRuns", "derive"} => \A c \in req'[s].chks : c \in Checks /\ HasRuns(c),
           \A r \in req'[s].batch : r \in Runs /\ Exists(r),
           held' \subseteq held
    PROVE  Coherent'
<1>1. (\A r \in Runs : Exists(r)' <=> Exists(r)) /\ (\A c \in Checks : HasRuns(c)' <=> HasRuns(c))
  BY DEF Exists, HasRuns, RunsOf
<1>2. LocksFollowSteps'
  <2>1. ASSUME NEW c \in Checks, NEW t \in Sessions, lockC'[c] = t
        PROVE  \/ pc'[t] = "markRunning" /\ newC'[c] = "running"
               \/ pc'[t] \in {"cancelScan", "cancelRuns"} /\ newC'[c] = "cancelled"
               \/ pc'[t] \in {"derive", "finalize"} /\ newC'[c] \in Verdicts
    BY <2>1 DEF IInv, LocksFollowSteps
  <2>2. ASSUME NEW r \in Runs, NEW t \in Sessions, lockR'[r] = t
        PROVE  \/ pc'[t] = "markRunning" /\ newR'[r] = "dispatched" /\ r \in req'[t].runs
               \/ pc'[t] \in {"timeoutRuns", "derive", "finalize", "cancelRuns"} /\ newR'[r] \in Finished
    BY <2>2 DEF IInv, LocksFollowSteps
  <2> QED
    BY <2>1, <2>2 DEF LocksFollowSteps
<1>3. VersionsAgree'
  BY DEF IInv, VersionsAgree
<1>4. CreationIsPrivate'
  <2>1. ~Creating(s)'
    BY DEF Creating
  <2>2. /\ \A r \in Runs : ~Exists(r) => lockR'[r] = None
        /\ \A c \in Checks : check[c] = "none" => lockC'[c] = None
    BY DEF IInv, CreationIsPrivate
  <2> QED
    BY <1>1, <2>1, <2>2, PrivateKept
<1>5. WorkExists'
  BY <1>1 DEF IInv, WorkExists, TypeOK, Local
<1>6. VerdictsAreSound'
  BY <1>1 DEF IInv, VerdictsAreSound, JudgedBy, Settled, SettledFor, View, RunsOf
<1> QED
  BY <1>2, <1>3, <1>4, <1>5, <1>6 DEF Coherent

-----------------------------------------------------------------------------
(* Commits and rollbacks. *)

(* A commit makes no row appear or disappear, ... *)
LEMMA CommitExists ==
    ASSUME IInv, NEW s \in Sessions, CommitRows(s)
    PROVE  /\ \A r \in Runs : Exists(r)' <=> Exists(r)
           /\ \A c \in Checks : HasRuns(c)' <=> HasRuns(c)
           /\ \A c \in Checks : check'[c] = "none" <=> check[c] = "none"
<1>1. ASSUME NEW r \in Runs PROVE Exists(r)' <=> Exists(r)
  <2>1. CASE lockR[r] = s
    <3>1. Exists(r)
      BY <2>1, NoneAssumption DEF IInv, CreationIsPrivate
    <3>2. newR[r] # "none"
      BY <2>1 DEF IInv, LocksFollowSteps, Finished, Succeeded, Errored
    <3> QED
      BY <2>1, <3>1, <3>2 DEF CommitRows, Exists, IInv, TypeOK
  <2>2. CASE lockR[r] # s
    BY <2>2 DEF CommitRows, Exists, IInv, TypeOK
  <2> QED
    BY <2>1, <2>2
<1>2. \A c \in Checks : HasRuns(c)' <=> HasRuns(c)
  BY <1>1 DEF HasRuns, RunsOf
<1>3. ASSUME NEW c \in Checks PROVE check'[c] = "none" <=> check[c] = "none"
  <2>1. CASE lockC[c] = s
    <3>1. check[c] # "none"
      BY <2>1, NoneAssumption DEF IInv, CreationIsPrivate
    <3>2. newC[c] # "none"
      BY <2>1 DEF IInv, LocksFollowSteps, Verdicts
    <3> QED
      BY <2>1, <3>1, <3>2 DEF CommitRows, IInv, TypeOK
  <2>2. CASE lockC[c] # s
    BY <2>2 DEF CommitRows, IInv, TypeOK
  <2> QED
    BY <2>1, <2>2
<1> QED
  BY <1>1, <1>2, <1>3

(* ... undoes no finished run, ... *)
LEMMA CommitFinished ==
    ASSUME IInv, NEW s \in Sessions, CommitRows(s)
    PROVE  /\ \A r \in Runs : run[r] \in Finished => run'[r] \in Finished
           /\ \A r \in Runs, t \in Sessions :
                 t # s /\ View(t, r) \in Finished \cup {"none"} => View(t, r)' \in Finished \cup {"none"}
           /\ \A r \in Runs : run'[r] = View(s, r)
<1>1. \A r \in Runs : run[r] \in Finished => run'[r] \in Finished
  BY DEF IInv, TypeOK, VersionsAgree, CommitRows
<1>2. \A r \in Runs : run'[r] = View(s, r)
  BY DEF IInv, TypeOK, CommitRows, View
<1>3. ASSUME NEW r \in Runs, NEW t \in Sessions, t # s, View(t, r) \in Finished \cup {"none"}
      PROVE  View(t, r)' \in Finished \cup {"none"}
  <2>1. CASE lockR[r] = t
    BY <1>3, <2>1, NoneAssumption DEF View, CommitRows, Release
  <2>2. CASE lockR[r] # t
    <3>1. lockR'[r] # t /\ View(t, r) = run[r] /\ View(t, r)' = run'[r]
      BY <1>3, <2>2, NoneAssumption DEF View, CommitRows, Release
    <3>2. CASE run[r] \in Finished
      BY <3>1, <3>2, <1>1
    <3>3. CASE run[r] = "none"
      BY <3>1, <3>3, CommitExists DEF Exists
    <3> QED
      BY <1>3, <3>1, <3>2, <3>3
  <2> QED
    BY <2>1, <2>2
<1> QED
  BY <1>1, <1>2, <1>3

(* ... and publishes only verdicts on finished runs. *)
LEMMA CommitVerdicts ==
    ASSUME IInv, NEW s \in Sessions, CommitRows(s), pc'[s] # "finalize",
           \A t \in Sessions : t # s => pc'[t] = pc[t] /\ req'[t] = req[t]
    PROVE  VerdictsAreSound'
<1>1. ASSUME NEW c \in Checks, check'[c] \in Verdicts PROVE Settled(c)'
  <2>1. CASE lockC[c] = s
    <3>1. newC[c] \in Verdicts
      BY <1>1, <2>1 DEF CommitRows, IInv, TypeOK
    <3>2. SettledFor(s, c)
      BY <2>1, <3>1 DEF IInv, VerdictsAreSound, JudgedBy
    <3> QED
      BY <3>2, CommitExists, CommitFinished DEF SettledFor, Settled, RunsOf
  <2>2. CASE lockC[c] # s
    <3>1. check[c] \in Verdicts
      BY <1>1, <2>2 DEF CommitRows, IInv, TypeOK
    <3>2. HasRuns(c) /\ \A r \in RunsOf(c) : run[r] \in Finished \cup {"none"}
      BY <3>1 DEF IInv, VerdictsAreSound, Settled
    <3>3. \A r \in RunsOf(c) : run'[r] \in Finished \cup {"none"}
      BY <3>2, CommitExists, CommitFinished DEF RunsOf, Exists
    <3> QED
      BY <3>2, <3>3, CommitExists DEF Settled, RunsOf
  <2> QED
    BY <2>1, <2>2
<1>2. \A t \in Sessions : pc'[t] = "finalize" => req'[t].verdict \in Verdicts
  BY DEF IInv, VerdictsAreSound
<1>3. ASSUME NEW t \in Sessions, NEW c \in Checks, JudgedBy(t, c)' PROVE SettledFor(t, c)'
  <2>1. t # s
    BY <1>3, NoneAssumption DEF JudgedBy, CommitRows, Release
  <2>2. JudgedBy(t, c)
    BY <1>3, <2>1, NoneAssumption DEF JudgedBy, CommitRows, Release
  <2>3. SettledFor(t, c)
    BY <2>2 DEF IInv, VerdictsAreSound
  <2> QED
    BY <2>1, <2>3, CommitExists, CommitFinished DEF SettledFor, RunsOf
<1> QED
  BY <1>1, <1>2, <1>3 DEF VerdictsAreSound

(* A commit leaves what others are creating alone. *)
LEMMA CommitPrivate ==
    ASSUME IInv, NEW s \in Sessions, CommitRows(s), ~Creating(s)',
           \A t \in Sessions : t # s => pc'[t] = pc[t] /\ req'[t] = req[t]
    PROVE  CreationIsPrivate'
<1>1. \A r \in Runs : ~Exists(r) => lockR'[r] = None
  BY NoneAssumption DEF CommitRows, Release, IInv, TypeOK, CreationIsPrivate
<1>2. \A c \in Checks : check[c] = "none" => lockC'[c] = None
  BY NoneAssumption DEF CommitRows, Release, IInv, TypeOK, CreationIsPrivate
<1> QED
  BY <1>1, <1>2, CommitExists, PrivateKept

(* What every commit does, whatever the transaction was for. *)
LEMMA Commit ==
    ASSUME IInv, NEW s \in Sessions, CommitRows(s), pc'[s] \in {"idle", "recordResult"},
           \A t \in Sessions : t # s => pc'[t] = pc[t] /\ req'[t] = req[t],
           req'[s].batch \subseteq req[s].batch,
           \A r \in held' : r \in held \/ (pc[s] = "markRunning" /\ r \in req[s].runs)
    PROVE  Coherent'
<1>1. ~Creating(s)' /\ pc'[s] # "finalize"
  BY DEF Creating
<1>2. LocksFollowSteps'
  <2>1. ASSUME NEW c \in Checks, NEW t \in Sessions, lockC'[c] = t
        PROVE  \/ pc'[t] = "markRunning" /\ newC'[c] = "running"
               \/ pc'[t] \in {"cancelScan", "cancelRuns"} /\ newC'[c] = "cancelled"
               \/ pc'[t] \in {"derive", "finalize"} /\ newC'[c] \in Verdicts
    <3>1. lockC[c] = t /\ t # s /\ newC'[c] = newC[c]
      BY <2>1, NoneAssumption DEF CommitRows, Release
    <3> QED
      BY <3>1 DEF IInv, LocksFollowSteps
  <2>2. ASSUME NEW r \in Runs, NEW t \in Sessions, lockR'[r] = t
        PROVE  \/ pc'[t] = "markRunning" /\ newR'[r] = "dispatched" /\ r \in req'[t].runs
               \/ pc'[t] \in {"timeoutRuns", "derive", "finalize", "cancelRuns"} /\ newR'[r] \in Finished
    <3>1. lockR[r] = t /\ t # s /\ newR'[r] = newR[r]
      BY <2>2, NoneAssumption DEF CommitRows, Release
    <3> QED
      BY <3>1 DEF IInv, LocksFollowSteps
  <2> QED
    BY <2>1, <2>2 DEF LocksFollowSteps
<1>3. VersionsAgree'
  BY DEF CommitRows, Release, IInv, TypeOK, VersionsAgree
<1>4. WorkExists'
  BY CommitExists DEF IInv, WorkExists, TypeOK, Local
<1> QED
  BY <1>1, <1>2, <1>3, <1>4, CommitPrivate, CommitVerdicts DEF Coherent

LEMMA InvCommitClaim ==
    ASSUME IInv, NEW s \in Sessions, CommitClaim(s)
    PROVE  Coherent'
<1>1. Fresh.batch \subseteq req[s].batch
  BY DEF Fresh
<1>2. CommitRows(s) /\ Goto(s, "idle", Fresh) /\ pc[s] = "markRunning" /\ held' \subseteq held \cup req[s].runs
  BY DEF CommitClaim
<1>3. /\ \A t \in Sessions : t # s => pc'[t] = pc[t] /\ req'[t] = req[t]
      /\ pc'[s] \in {"idle", "recordResult"} /\ req'[s].batch \subseteq req[s].batch
  BY <1>1, <1>2, GotoFrame DEF IInv
<1>4. \A r \in held' : r \in held \/ (pc[s] = "markRunning" /\ r \in req[s].runs)
  BY <1>2
<1> QED
  BY <1>2, <1>3, <1>4, Commit

LEMMA InvCommitResult ==
    ASSUME IInv, NEW s \in Sessions, CommitResult(s)
    PROVE  Coherent'
<1> DEFINE rest == [Fresh EXCEPT !.batch = req[s].batch]
<1>1. rest.batch \subseteq req[s].batch /\ Fresh.batch \subseteq req[s].batch
  BY DEF Fresh
<1>2. /\ CommitRows(s) /\ held' = held
      /\ Goto(s, "idle", Fresh) \/ Goto(s, "recordResult", rest)
  BY DEF CommitResult
<1> HIDE DEF rest
<1>3. /\ \A t \in Sessions : t # s => pc'[t] = pc[t] /\ req'[t] = req[t]
      /\ pc'[s] \in {"idle", "recordResult"} /\ req'[s].batch \subseteq req[s].batch
  BY <1>1, <1>2, GotoFrame DEF IInv
<1>4. \A r \in held' : r \in held \/ (pc[s] = "markRunning" /\ r \in req[s].runs)
  BY <1>2
<1> QED
  BY <1>2, <1>3, <1>4, Commit

LEMMA InvCommitSweep ==
    ASSUME IInv, NEW s \in Sessions, CommitSweep(s)
    PROVE  Coherent'
<1>1. Fresh.batch \subseteq req[s].batch
  BY DEF Fresh
<1>2. CommitRows(s) /\ Goto(s, "idle", Fresh) /\ held' = held
  BY DEF CommitSweep
<1>3. /\ \A t \in Sessions : t # s => pc'[t] = pc[t] /\ req'[t] = req[t]
      /\ pc'[s] \in {"idle", "recordResult"} /\ req'[s].batch \subseteq req[s].batch
  BY <1>1, <1>2, GotoFrame DEF IInv
<1>4. \A r \in held' : r \in held \/ (pc[s] = "markRunning" /\ r \in req[s].runs)
  BY <1>2
<1> QED
  BY <1>2, <1>3, <1>4, Commit

LEMMA InvCommitCancel ==
    ASSUME IInv, NEW s \in Sessions, CommitCancel(s)
    PROVE  Coherent'
<1>1. Fresh.batch \subseteq req[s].batch
  BY DEF Fresh
<1>2. CommitRows(s) /\ Goto(s, "idle", Fresh) /\ held' = held
  BY DEF CommitCancel
<1>3. /\ \A t \in Sessions : t # s => pc'[t] = pc[t] /\ req'[t] = req[t]
      /\ pc'[s] \in {"idle", "recordResult"} /\ req'[s].batch \subseteq req[s].batch
  BY <1>1, <1>2, GotoFrame DEF IInv
<1>4. \A r \in held' : r \in held \/ (pc[s] = "markRunning" /\ r \in req[s].runs)
  BY <1>2
<1> QED
  BY <1>2, <1>3, <1>4, Commit

(* A rollback takes back what the session wrote; what others read stays. *)
LEMMA InvGiveUp ==
    ASSUME IInv, NEW s \in Sessions, GiveUp(s)
    PROVE  Coherent'
<1>1. /\ \A t \in Sessions : t # s => pc'[t] = pc[t] /\ req'[t] = req[t]
      /\ pc'[s] = "idle" /\ req'[s].chks = {} /\ req'[s].batch = {}
      /\ UNCHANGED <<check, run, held>>
  BY GotoFrame DEF GiveUp, Rollback, rows, IInv, Fresh
<1>2. /\ \A c \in Checks : IF lockC[c] = s THEN lockC'[c] = None /\ newC'[c] = check[c]
                                           ELSE lockC'[c] = lockC[c] /\ newC'[c] = newC[c]
      /\ \A r \in Runs : IF lockR[r] = s THEN lockR'[r] = None /\ newR'[r] = run[r]
                                         ELSE lockR'[r] = lockR[r] /\ newR'[r] = newR[r]
  BY DEF GiveUp, Rollback, Release
<1>3. (\A r \in Runs : Exists(r)' <=> Exists(r)) /\ (\A c \in Checks : HasRuns(c)' <=> HasRuns(c))
  BY <1>1 DEF Exists, HasRuns, RunsOf
<1>4. LocksFollowSteps'
  <2>1. ASSUME NEW c \in Checks, NEW t \in Sessions, lockC'[c] = t
        PROVE  \/ pc'[t] = "markRunning" /\ newC'[c] = "running"
               \/ pc'[t] \in {"cancelScan", "cancelRuns"} /\ newC'[c] = "cancelled"
               \/ pc'[t] \in {"derive", "finalize"} /\ newC'[c] \in Verdicts
    BY <1>1, <1>2, <2>1, NoneAssumption DEF IInv, LocksFollowSteps
  <2>2. ASSUME NEW r \in Runs, NEW t \in Sessions, lockR'[r] = t
        PROVE  \/ pc'[t] = "markRunning" /\ newR'[r] = "dispatched" /\ r \in req'[t].runs
               \/ pc'[t] \in {"timeoutRuns", "derive", "finalize", "cancelRuns"} /\ newR'[r] \in Finished
    BY <1>1, <1>2, <2>2, NoneAssumption DEF IInv, LocksFollowSteps
  <2> QED
    BY <2>1, <2>2 DEF LocksFollowSteps
<1>5. VersionsAgree'
  BY <1>1, <1>2 DEF IInv, VersionsAgree
<1>6. CreationIsPrivate'
  <2>1. ~Creating(s)'
    BY <1>1 DEF Creating
  <2>2. /\ \A r \in Runs : ~Exists(r) => lockR'[r] = None
        /\ \A c \in Checks : check[c] = "none" => lockC'[c] = None
    BY <1>2 DEF IInv, CreationIsPrivate
  <2> QED
    BY <1>1, <1>3, <2>1, <2>2, PrivateKept
<1>7. WorkExists'
  BY <1>1, <1>3 DEF IInv, WorkExists, TypeOK, Local
<1>8. VerdictsAreSound'
  <2>1. \A c \in Checks : check'[c] \in Verdicts => Settled(c)'
    BY <1>1, <1>3 DEF IInv, VerdictsAreSound, Settled, RunsOf
  <2>2. \A t \in Sessions : pc'[t] = "finalize" => req'[t].verdict \in Verdicts
    BY <1>1 DEF IInv, VerdictsAreSound
  <2>3. ASSUME NEW t \in Sessions, NEW c \in Checks, JudgedBy(t, c)' PROVE SettledFor(t, c)'
    <3>1. t # s /\ JudgedBy(t, c)
      BY <1>1, <1>2, <2>3, NoneAssumption DEF JudgedBy
    <3>2. SettledFor(t, c)
      BY <3>1 DEF IInv, VerdictsAreSound
    <3>3. \A r \in Runs : View(t, r)' = View(t, r)
      BY <1>1, <1>2, <3>1, NoneAssumption DEF View
    <3> QED
      BY <1>3, <3>2, <3>3 DEF SettledFor, RunsOf
  <2> QED
    BY <2>1, <2>2, <2>3 DEF VerdictsAreSound
<1> QED
  BY <1>4, <1>5, <1>6, <1>7, <1>8 DEF Coherent

-----------------------------------------------------------------------------
(* Creating a check. *)
(* A request takes the targets nobody else is creating. *)
LEMMA InvCreateCheck ==
    ASSUME IInv, NEW s \in Sessions, NEW B \in SUBSET Checks, NEW N \in SUBSET Nodes,
           CreateCheck(s, B, N)
    PROVE  Coherent'
<1> DEFINE local == [Fresh EXCEPT !.chks = B, !.nodes = N]
<1>1. local.chks = B /\ local.batch = {}
  BY DEF Fresh
<1>2. /\ pc[s] = "idle" /\ Goto(s, "insertCheck", local)
      /\ \A c \in B : check[c] = "none"
      /\ \A t \in Sessions : Creating(t) => req[t].chks \cap B = {}
      /\ UNCHANGED <<check, run, newC, newR, lockC, lockR, held>>
  BY DEF CreateCheck, Creating, rows, locks
<1> HIDE DEF local
<1>3. /\ \A t \in Sessions : t # s => pc'[t] = pc[t] /\ req'[t] = req[t]
      /\ pc'[s] = "insertCheck" /\ req'[s].chks = B /\ req'[s].batch = {}
  BY <1>1, <1>2, GotoFrame DEF IInv
<1>4. (\A r \in Runs : Exists(r)' <=> Exists(r)) /\ (\A c \in Checks : HasRuns(c)' <=> HasRuns(c))
  BY <1>2 DEF Exists, HasRuns, RunsOf
<1>5. LocksFollowSteps'
  BY <1>2, <1>3 DEF IInv, LocksFollowSteps
<1>6. VersionsAgree'
  BY <1>2 DEF IInv, VersionsAgree
<1>7. CreationIsPrivate'
  BY <1>2, <1>3, <1>4 DEF IInv, CreationIsPrivate, Creating
<1>8. WorkExists'
  BY <1>2, <1>3, <1>4 DEF IInv, WorkExists, TypeOK, Local
<1>9. VerdictsAreSound'
  BY <1>2, <1>3, <1>4 DEF IInv, VerdictsAreSound, JudgedBy, Settled, SettledFor, View, RunsOf
<1> QED
  BY <1>5, <1>6, <1>7, <1>8, <1>9 DEF Coherent

(* A check is inserted before it has runs. *)
LEMMA InvInsertCheck ==
    ASSUME IInv, NEW s \in Sessions, NEW c \in Checks, InsertCheck(s, c)
    PROVE  Coherent'
<1> DEFINE local == [req[s] EXCEPT !.chks = @ \ {c}, !.chk = c]
<1>1. local.chks = req[s].chks \ {c} /\ local.chk = c /\ local.batch = req[s].batch
  BY DEF IInv, TypeOK, Local
<1>2. /\ pc[s] = "insertCheck" /\ c \in req[s].chks /\ Goto(s, "addRuns", local)
      /\ UNCHANGED <<run, newR, lockC, lockR, held>>
      /\ \A d \in Checks : IF d = c THEN check'[d] = "pending" /\ newC'[d] = "pending"
                                    ELSE check'[d] = check[d] /\ newC'[d] = newC[d]
  BY DEF InsertCheck, IInv, TypeOK
<1> HIDE DEF local
<1>3. /\ \A t \in Sessions : t # s => pc'[t] = pc[t] /\ req'[t] = req[t]
      /\ pc'[s] = "addRuns" /\ req'[s].chks = req[s].chks \ {c} /\ req'[s].chk = c
      /\ req'[s].batch = req[s].batch
  BY <1>1, <1>2, GotoFrame DEF IInv
<1>4. check[c] = "none" /\ lockC[c] = None /\ ~HasRuns(c)
  BY <1>2 DEF IInv, CreationIsPrivate, Creating
<1>5. (\A r \in Runs : Exists(r)' <=> Exists(r)) /\ (\A d \in Checks : HasRuns(d)' <=> HasRuns(d))
  BY <1>2 DEF Exists, HasRuns, RunsOf
<1>6. LocksFollowSteps'
  <2>1. ASSUME NEW d \in Checks, NEW t \in Sessions, lockC'[d] = t
        PROVE  \/ pc'[t] = "markRunning" /\ newC'[d] = "running"
               \/ pc'[t] \in {"cancelScan", "cancelRuns"} /\ newC'[d] = "cancelled"
               \/ pc'[t] \in {"derive", "finalize"} /\ newC'[d] \in Verdicts
    <3>1. d # c /\ lockC[d] = t
      BY <1>2, <1>4, <2>1, NoneAssumption
    <3> QED
      BY <1>2, <1>3, <3>1 DEF IInv, LocksFollowSteps
  <2>2. ASSUME NEW r \in Runs, NEW t \in Sessions, lockR'[r] = t
        PROVE  \/ pc'[t] = "markRunning" /\ newR'[r] = "dispatched" /\ r \in req'[t].runs
               \/ pc'[t] \in {"timeoutRuns", "derive", "finalize", "cancelRuns"} /\ newR'[r] \in Finished
    BY <1>2, <1>3, <2>2 DEF IInv, LocksFollowSteps
  <2> QED
    BY <2>1, <2>2 DEF LocksFollowSteps
<1>7. VersionsAgree'
  BY <1>2, <1>4 DEF IInv, VersionsAgree, Verdicts
<1>8. CreationIsPrivate'
  <2>1. ASSUME NEW d \in Checks, check'[d] = "none" PROVE lockC'[d] = None /\ ~HasRuns(d)'
    BY <1>2, <1>5, <2>1 DEF IInv, CreationIsPrivate
  <2>2. \A r \in Runs : ~Exists(r)' => lockR'[r] = None
    BY <1>2, <1>5 DEF IInv, CreationIsPrivate
  <2>3. ASSUME NEW t \in Sessions, Creating(t)' PROVE \A d \in req'[t].chks : check'[d] = "none"
    <3>1. Creating(t) /\ c \notin req'[t].chks /\ req'[t].chks \subseteq req[t].chks
      BY <1>2, <1>3, <2>3 DEF IInv, CreationIsPrivate, Creating
    <3> QED
      BY <1>2, <3>1 DEF IInv, CreationIsPrivate, TypeOK, Local
  <2>4. ASSUME NEW t \in Sessions, NEW d \in Checks, pc'[t] = "addRuns" /\ req'[t].chk = d
        PROVE  check'[d] # "none" /\ ~HasRuns(d)'
    BY <1>2, <1>3, <1>4, <1>5, <2>4 DEF IInv, CreationIsPrivate
  <2>5. ASSUME NEW t \in Sessions, NEW u \in Sessions, t # u, Creating(t)', Creating(u)'
        PROVE  /\ req'[t].chks \cap req'[u].chks = {}
               /\ (pc'[t] = "addRuns" /\ pc'[u] = "addRuns" => req'[t].chk # req'[u].chk)
    <3>1. Creating(t) /\ Creating(u)
      BY <1>2, <1>3, <2>5 DEF Creating
    <3>2. req'[t].chks \cap req'[u].chks = {}
      BY <1>3, <2>5, <3>1 DEF IInv, CreationIsPrivate
    <3>3. \A v \in Sessions : v # s /\ pc'[v] = "addRuns" => req'[v].chk # c
      BY <1>3, <1>4 DEF IInv, CreationIsPrivate
    <3> QED
      BY <1>3, <2>5, <3>1, <3>2, <3>3 DEF IInv, CreationIsPrivate
  <2> QED
    BY <2>1, <2>2, <2>3, <2>4, <2>5 DEF CreationIsPrivate
<1>9. WorkExists'
  <2>1. \A r \in held' : Exists(r)'
    BY <1>2, <1>5 DEF IInv, WorkExists, TypeOK
  <2>2. ASSUME NEW t \in Sessions
        PROVE  /\ \A r \in req'[t].batch : Exists(r)'
               /\ (pc'[t] = "markRunning" => \A r \in req'[t].runs : Exists(r)')
               /\ (pc'[t] \in {"timeoutRuns", "derive", "finalize"} =>
                      \A d \in req'[t].chks : HasRuns(d)')
    <3>1. req'[t].batch = req[t].batch /\ (t # s => pc'[t] = pc[t] /\ req'[t] = req[t])
      BY <1>3
    <3>2. req[t].batch \subseteq Runs /\ req[t].runs \subseteq Runs /\ req[t].chks \subseteq Checks
      BY DEF IInv, TypeOK, Local
    <3> QED
      BY <1>3, <1>5, <3>1, <3>2 DEF IInv, WorkExists
  <2> QED
    BY <2>1, <2>2 DEF WorkExists
<1>10. VerdictsAreSound'
  <2>1. \A d \in Checks : check'[d] \in Verdicts => check[d] \in Verdicts
    BY <1>2 DEF Verdicts
  <2>2. \A d \in Checks, t \in Sessions : JudgedBy(t, d)' => JudgedBy(t, d)
    BY <1>2, <1>3 DEF JudgedBy, Verdicts
  <2> QED
    BY <1>2, <1>3, <1>5, <2>1, <2>2 DEF IInv, VerdictsAreSound, Settled, SettledFor, View, RunsOf
<1> QED
  BY <1>6, <1>7, <1>8, <1>9, <1>10 DEF Coherent

(* Its runs come into being in one step, for a check that has none. *)
LEMMA InvCreateCheckRuns ==
    ASSUME IInv, NEW s \in Sessions, CreateCheckRuns(s)
    PROVE  Coherent'
<1> DEFINE c == req[s].chk
           new == Slots(c, req[s].nodes)
           rest == [req[s] EXCEPT !.chk = None]
<1>1. /\ pc[s] = "addRuns" /\ UNCHANGED <<check, newC, lockC, lockR, held>>
      /\ run' = [r \in Runs |-> IF r \in new THEN "queued" ELSE run[r]]
      /\ newR' = [r \in Runs |-> IF r \in new THEN "queued" ELSE newR[r]]
  BY DEF CreateCheckRuns
<1>2. c \in Checks /\ check[c] # "none" /\ ~HasRuns(c) /\ \A d \in req[s].chks : check[d] = "none"
  BY <1>1 DEF IInv, TypeOK, CreationIsPrivate, Creating, Local
<1>3. \A r \in new : r \in Runs /\ CheckOf[r] = c /\ ~Exists(r) /\ lockR[r] = None
  BY <1>2 DEF Slots, RunsOf, HasRuns, IInv, CreationIsPrivate
<1>4. rest.chks = req[s].chks /\ rest.batch = req[s].batch /\ Fresh.chks = {} /\ Fresh.batch = {}
  BY DEF IInv, TypeOK, Local, Fresh
<1>5. Goto(s, "idle", Fresh) \/ Goto(s, "insertCheck", rest)
  BY DEF CreateCheckRuns
<1> HIDE DEF c, new, rest
<1>6. /\ \A t \in Sessions : t # s => pc'[t] = pc[t] /\ req'[t] = req[t]
      /\ \/ pc'[s] = "idle" /\ req'[s].chks = {} /\ req'[s].batch = {}
         \/ pc'[s] = "insertCheck" /\ req'[s].chks = req[s].chks /\ req'[s].batch = req[s].batch
  BY <1>4, <1>5, GotoFrame DEF IInv
<1>7. \A r \in Runs : \/ r \in new /\ CheckOf[r] = c /\ run[r] = "none" /\ lockR[r] = None
                         /\ run'[r] = "queued" /\ newR'[r] = "queued"
                      \/ run'[r] = run[r] /\ newR'[r] = newR[r]
  BY <1>1, <1>3 DEF Exists, IInv, TypeOK
<1>8. LocksFollowSteps'
  <2>1. ASSUME NEW d \in Checks, NEW t \in Sessions, lockC'[d] = t
        PROVE  \/ pc'[t] = "markRunning" /\ newC'[d] = "running"
               \/ pc'[t] \in {"cancelScan", "cancelRuns"} /\ newC'[d] = "cancelled"
               \/ pc'[t] \in {"derive", "finalize"} /\ newC'[d] \in Verdicts
    BY <1>1, <1>6, <2>1 DEF IInv, LocksFollowSteps
  <2>2. ASSUME NEW r \in Runs, NEW t \in Sessions, lockR'[r] = t
        PROVE  \/ pc'[t] = "markRunning" /\ newR'[r] = "dispatched" /\ r \in req'[t].runs
               \/ pc'[t] \in {"timeoutRuns", "derive", "finalize", "cancelRuns"} /\ newR'[r] \in Finished
    <3>1. lockR[r] = t /\ newR'[r] = newR[r]
      BY <1>1, <1>7, <2>2, NoneAssumption
    <3> QED
      BY <1>1, <1>6, <3>1 DEF IInv, LocksFollowSteps
  <2> QED
    BY <2>1, <2>2 DEF LocksFollowSteps
<1>9. VersionsAgree'
  BY <1>1, <1>7 DEF IInv, VersionsAgree, Finished, Succeeded, Errored
<1>10. /\ \A r \in Runs : Exists(r) => Exists(r)'
       /\ \A d \in Checks : HasRuns(d) => HasRuns(d)'
       /\ \A d \in Checks : d # c => (HasRuns(d)' <=> HasRuns(d))
  BY <1>7 DEF Exists, HasRuns, RunsOf
<1>11. CreationIsPrivate'
  <2>1. ASSUME NEW d \in Checks, check'[d] = "none" PROVE lockC'[d] = None /\ ~HasRuns(d)'
    BY <1>1, <1>2, <1>10, <2>1 DEF IInv, CreationIsPrivate
  <2>2. \A r \in Runs : ~Exists(r)' => lockR'[r] = None
    BY <1>1, <1>10 DEF IInv, CreationIsPrivate
  <2>3. ASSUME NEW t \in Sessions, Creating(t)' PROVE \A d \in req'[t].chks : check'[d] = "none"
    BY <1>1, <1>2, <1>6, <2>3 DEF IInv, CreationIsPrivate, Creating
  <2>4. ASSUME NEW t \in Sessions, NEW d \in Checks, pc'[t] = "addRuns" /\ req'[t].chk = d
        PROVE  check'[d] # "none" /\ ~HasRuns(d)'
    <3>1. t # s /\ pc[t] = "addRuns" /\ req[t].chk = d
      BY <1>6, <2>4
    <3>2. d # c
      BY <1>1, <3>1 DEF IInv, CreationIsPrivate, Creating, c
    <3> QED
      BY <1>1, <1>10, <3>1, <3>2 DEF IInv, CreationIsPrivate
  <2>5. ASSUME NEW t \in Sessions, NEW u \in Sessions, t # u, Creating(t)', Creating(u)'
        PROVE  /\ req'[t].chks \cap req'[u].chks = {}
               /\ (pc'[t] = "addRuns" /\ pc'[u] = "addRuns" => req'[t].chk # req'[u].chk)
    BY <1>1, <1>6, <2>5 DEF IInv, CreationIsPrivate, Creating
  <2> QED
    BY <2>1, <2>2, <2>3, <2>4, <2>5 DEF CreationIsPrivate
<1>12. WorkExists'
  BY <1>1, <1>6, <1>10 DEF IInv, WorkExists, TypeOK, Local
<1>13. VerdictsAreSound'
  <2>1. ASSUME NEW d \in Checks, check'[d] \in Verdicts PROVE Settled(d)'
    <3>1. Settled(d)
      BY <1>1, <2>1 DEF IInv, VerdictsAreSound
    <3>2. d # c
      BY <1>2, <3>1 DEF Settled
    <3> QED
      BY <1>7, <1>10, <3>1, <3>2 DEF Settled, RunsOf
  <2>2. \A t \in Sessions : pc'[t] = "finalize" => req'[t].verdict \in Verdicts
    BY <1>6 DEF IInv, VerdictsAreSound
  <2>3. ASSUME NEW t \in Sessions, NEW d \in Checks, JudgedBy(t, d)' PROVE SettledFor(t, d)'
    <3>1. SettledFor(t, d)
      BY <1>1, <1>6, <2>3 DEF JudgedBy, IInv, VerdictsAreSound
    <3>2. d # c
      BY <1>2, <3>1 DEF SettledFor
    <3>3. \A r \in RunsOf(d) : View(t, r)' = View(t, r)
      BY <1>1, <1>7, <3>2 DEF View, RunsOf
    <3> QED
      BY <1>10, <3>1, <3>3 DEF SettledFor, RunsOf
  <2> QED
    BY <2>1, <2>2, <2>3 DEF VerdictsAreSound
<1> QED
  BY <1>8, <1>9, <1>11, <1>12, <1>13 DEF Coherent

-----------------------------------------------------------------------------
(* Polls. *)

(* A claim locks queued runs that nobody holds. *)
LEMMA InvClaimQueuedRuns ==
    ASSUME IInv, NEW s \in Sessions, NEW n \in Nodes, ClaimQueuedRuns(s, n)
    PROVE  Coherent'
<1>1. PICK S \in Batches(n) :
         /\ lockR' = [r \in Runs |-> IF r \in S THEN s ELSE lockR[r]]
         /\ newR' = [r \in Runs |-> IF r \in S THEN "dispatched" ELSE newR[r]]
         /\ Goto(s, "markRunning", [Fresh EXCEPT !.runs = S, !.chks = {CheckOf[r] : r \in S}])
  BY DEF ClaimQueuedRuns
<1> DEFINE local == [Fresh EXCEPT !.runs = S, !.chks = {CheckOf[r] : r \in S}]
<1>2. local.runs = S /\ local.batch = {}
  BY DEF Fresh
<1>3. Goto(s, "markRunning", local) /\ pc[s] = "idle" /\ UNCHANGED <<check, run, newC, lockC, held>>
  BY <1>1 DEF ClaimQueuedRuns, rows
<1> HIDE DEF local
<1>4. /\ \A t \in Sessions : t # s => pc'[t] = pc[t] /\ req'[t] = req[t]
      /\ pc'[s] = "markRunning" /\ req'[s].runs = S /\ req'[s].batch = {}
  BY <1>2, <1>3, GotoFrame DEF IInv
<1>5. \A r \in S : r \in Runs /\ run[r] = "queued" /\ lockR[r] = None
  BY DEF Batches, Claimable
<1>6. \A r \in Runs : IF r \in S THEN lockR'[r] = s /\ newR'[r] = "dispatched"
                                 ELSE lockR'[r] = lockR[r] /\ newR'[r] = newR[r]
  BY <1>1
<1>7. (\A r \in Runs : Exists(r)' <=> Exists(r)) /\ (\A c \in Checks : HasRuns(c)' <=> HasRuns(c))
  BY <1>3 DEF Exists, HasRuns, RunsOf
<1>8. LocksFollowSteps'
  <2>1. ASSUME NEW c \in Checks, NEW t \in Sessions, lockC'[c] = t
        PROVE  \/ pc'[t] = "markRunning" /\ newC'[c] = "running"
               \/ pc'[t] \in {"cancelScan", "cancelRuns"} /\ newC'[c] = "cancelled"
               \/ pc'[t] \in {"derive", "finalize"} /\ newC'[c] \in Verdicts
    BY <1>3, <1>4, <2>1 DEF IInv, LocksFollowSteps
  <2>2. ASSUME NEW r \in Runs, NEW t \in Sessions, lockR'[r] = t
        PROVE  \/ pc'[t] = "markRunning" /\ newR'[r] = "dispatched" /\ r \in req'[t].runs
               \/ pc'[t] \in {"timeoutRuns", "derive", "finalize", "cancelRuns"} /\ newR'[r] \in Finished
    BY <1>3, <1>4, <1>6, <2>2 DEF IInv, LocksFollowSteps
  <2> QED
    BY <2>1, <2>2 DEF LocksFollowSteps
<1>9. VersionsAgree'
  BY <1>3, <1>5, <1>6, NoneAssumption DEF IInv, VersionsAgree, Finished, Succeeded, Errored
<1>10. CreationIsPrivate'
  <2>1. ~Creating(s)'
    BY <1>4 DEF Creating
  <2>2. /\ \A r \in Runs : ~Exists(r) => lockR'[r] = None
        /\ \A c \in Checks : check[c] = "none" => lockC'[c] = None
    BY <1>3, <1>5, <1>6 DEF IInv, CreationIsPrivate, Exists
  <2> QED
    BY <1>3, <1>4, <1>7, <2>1, <2>2, PrivateKept
<1>11. WorkExists'
  <2>1. \A r \in S : Exists(r)
    BY <1>5 DEF Exists
  <2> QED
    BY <1>3, <1>4, <1>5, <1>7, <2>1 DEF IInv, WorkExists, TypeOK, Local
<1>12. VerdictsAreSound'
  <2>1. /\ \A c \in Checks : check'[c] \in Verdicts => Settled(c)'
        /\ \A t \in Sessions : pc'[t] = "finalize" => req'[t].verdict \in Verdicts
    BY <1>3, <1>4, <1>7 DEF IInv, VerdictsAreSound, Settled, RunsOf
  <2>2. ASSUME NEW t \in Sessions, NEW c \in Checks, JudgedBy(t, c)' PROVE SettledFor(t, c)'
    <3>1. JudgedBy(t, c) /\ t # s
      BY <1>3, <1>4, <2>2 DEF JudgedBy, IInv, LocksFollowSteps
    <3>2. SettledFor(t, c)
      BY <3>1 DEF IInv, VerdictsAreSound
    <3>3. \A r \in Runs : View(t, r)' = View(t, r)
      BY <1>3, <1>5, <1>6, <3>1, NoneAssumption DEF View
    <3> QED
      BY <1>7, <3>2, <3>3 DEF SettledFor, RunsOf
  <2> QED
    BY <2>1, <2>2 DEF VerdictsAreSound
<1> QED
  BY <1>8, <1>9, <1>10, <1>11, <1>12 DEF Coherent

(* Marking a check running holds its row, without publishing anything. *)
LEMMA InvMarkRunning ==
    ASSUME IInv, NEW s \in Sessions, NEW c \in Checks, MarkRunning(s, c)
    PROVE  Coherent'
<1> DEFINE local == [req[s] EXCEPT !.chks = @ \ {c}]
<1>1. local.runs = req[s].runs /\ local.batch = req[s].batch
  BY DEF IInv, TypeOK, Local
<1>2. Goto(s, "markRunning", local)
  BY DEF MarkRunning
<1> HIDE DEF local
<1>3. /\ \A t \in Sessions : t # s => pc'[t] = pc[t] /\ req'[t] = req[t]
      /\ pc[s] = "markRunning" /\ pc'[s] = "markRunning" /\ req'[s].runs = req[s].runs
      /\ req'[s].batch = req[s].batch
  BY <1>1, <1>2, GotoFrame DEF IInv, MarkRunning
<1>4. UNCHANGED <<check, run, newR, lockR, held>>
  BY DEF MarkRunning, rows
<1>5. \A d \in Checks : \/ lockC'[d] = lockC[d] /\ newC'[d] = newC[d]
                        \/ /\ d = c /\ lockC'[d] = s /\ newC'[d] = "running"
                           /\ check[d] = "pending"
  BY DEF MarkRunning, WriteCheck, IInv, TypeOK
<1>6. LocksFollowSteps'
  <2>1. ASSUME NEW d \in Checks, NEW t \in Sessions, lockC'[d] = t
        PROVE  \/ pc'[t] = "markRunning" /\ newC'[d] = "running"
               \/ pc'[t] \in {"cancelScan", "cancelRuns"} /\ newC'[d] = "cancelled"
               \/ pc'[t] \in {"derive", "finalize"} /\ newC'[d] \in Verdicts
    BY <1>3, <1>5, <2>1 DEF IInv, LocksFollowSteps
  <2>2. ASSUME NEW r \in Runs, NEW t \in Sessions, lockR'[r] = t
        PROVE  \/ pc'[t] = "markRunning" /\ newR'[r] = "dispatched" /\ r \in req'[t].runs
               \/ pc'[t] \in {"timeoutRuns", "derive", "finalize", "cancelRuns"} /\ newR'[r] \in Finished
    BY <1>3, <1>4, <2>2 DEF IInv, LocksFollowSteps
  <2> QED
    BY <2>1, <2>2 DEF LocksFollowSteps
<1>7. VersionsAgree'
  BY <1>4, <1>5, NoneAssumption DEF IInv, VersionsAgree, Verdicts
<1>8. (\A r \in Runs : Exists(r)' <=> Exists(r)) /\ (\A d \in Checks : HasRuns(d)' <=> HasRuns(d))
  BY <1>4 DEF Exists, HasRuns, RunsOf
<1>9. CreationIsPrivate'
  <2>1. ~Creating(s)'
    BY <1>3 DEF Creating
  <2>2. /\ \A r \in Runs : ~Exists(r) => lockR'[r] = None
        /\ \A d \in Checks : check[d] = "none" => lockC'[d] = None
    BY <1>4, <1>5 DEF IInv, CreationIsPrivate
  <2> QED
    BY <1>3, <1>4, <1>8, <2>1, <2>2, PrivateKept
<1>10. WorkExists'
  BY <1>3, <1>4, <1>8 DEF IInv, WorkExists, TypeOK, Local
<1>11. VerdictsAreSound'
  <2>1. \A d \in Checks, t \in Sessions : JudgedBy(t, d)' => JudgedBy(t, d)
    BY <1>3, <1>5 DEF JudgedBy, Verdicts
  <2>2. /\ \A d \in Checks : Settled(d)' <=> Settled(d)
        /\ \A d \in Checks, t \in Sessions : SettledFor(t, d)' <=> SettledFor(t, d)
    BY <1>4 DEF Settled, SettledFor, HasRuns, Exists, RunsOf, View
  <2> QED
    BY <1>3, <1>4, <2>1, <2>2 DEF IInv, VerdictsAreSound
<1> QED
  BY <1>6, <1>7, <1>9, <1>10, <1>11 DEF Coherent

-----------------------------------------------------------------------------
(* Verdicts. *)

(* The count sees no unfinished run: the verdict is about finished ones. *)
LEMMA InvCountRuns ==
    ASSUME IInv, NEW s \in Sessions, NEW c \in Checks, CountRuns(s, c)
    PROVE  Coherent'
<1>1. PICK local : /\ local.chks = req[s].chks \ {c} /\ local.batch = req[s].batch
                   /\ \/ Goto(s, "derive", local)
                      \/ Goto(s, "finalize", local) /\ local.chk = c /\ local.verdict \in Verdicts /\ ~Pending(s, c)
  <2>1. CASE Pending(s, c)
    BY <2>1 DEF CountRuns, IInv, TypeOK, Local
  <2>2. CASE ~Pending(s, c)
    <3>1. VerdictOf(s, c) \in Verdicts
      BY DEF VerdictOf, Verdicts
    <3>2. Goto(s, "finalize", [req[s] EXCEPT !.chks = @ \ {c}, !.chk = c, !.verdict = VerdictOf(s, c)])
      BY <2>2 DEF CountRuns
    <3> QED
      BY <2>2, <3>1, <3>2 DEF IInv, TypeOK, Local
  <2> QED
    BY <2>1, <2>2
<1>2. /\ \A t \in Sessions : t # s => pc'[t] = pc[t] /\ req'[t] = req[t]
      /\ pc[s] = "derive" /\ c \in req[s].chks
      /\ req'[s].chks = req[s].chks \ {c} /\ req'[s].batch = req[s].batch
      /\ \/ pc'[s] = "derive"
         \/ pc'[s] = "finalize" /\ req'[s].chk = c /\ req'[s].verdict \in Verdicts /\ ~Pending(s, c)
  BY <1>1, GotoFrame DEF IInv, CountRuns
<1>3. UNCHANGED <<check, run, newC, newR, lockC, lockR, held>>
  BY DEF CountRuns, rows, locks
<1>4. LocksFollowSteps'
  <2>1. ASSUME NEW d \in Checks, NEW t \in Sessions, lockC'[d] = t
        PROVE  \/ pc'[t] = "markRunning" /\ newC'[d] = "running"
               \/ pc'[t] \in {"cancelScan", "cancelRuns"} /\ newC'[d] = "cancelled"
               \/ pc'[t] \in {"derive", "finalize"} /\ newC'[d] \in Verdicts
    BY <1>2, <1>3, <2>1 DEF IInv, LocksFollowSteps
  <2>2. ASSUME NEW r \in Runs, NEW t \in Sessions, lockR'[r] = t
        PROVE  \/ pc'[t] = "markRunning" /\ newR'[r] = "dispatched" /\ r \in req'[t].runs
               \/ pc'[t] \in {"timeoutRuns", "derive", "finalize", "cancelRuns"} /\ newR'[r] \in Finished
    BY <1>2, <1>3, <2>2 DEF IInv, LocksFollowSteps
  <2> QED
    BY <2>1, <2>2 DEF LocksFollowSteps
<1>5. VersionsAgree'
  BY <1>3 DEF IInv, VersionsAgree
<1>6. (\A r \in Runs : Exists(r)' <=> Exists(r)) /\ (\A d \in Checks : HasRuns(d)' <=> HasRuns(d))
  BY <1>3 DEF Exists, HasRuns, RunsOf
<1>7. CreationIsPrivate'
  <2>1. \A r \in Runs : ~Exists(r) => lockR'[r] = None
    BY <1>3 DEF IInv, CreationIsPrivate
  <2>2. \A d \in Checks : check[d] = "none" => lockC'[d] = None
    BY <1>3 DEF IInv, CreationIsPrivate
  <2>3. ~Creating(s)'
    BY <1>2 DEF Creating
  <2> QED
    BY <1>2, <1>3, <1>6, <2>1, <2>2, <2>3, PrivateKept
<1>8. WorkExists'
  BY <1>2, <1>3, <1>6 DEF IInv, WorkExists, TypeOK, Local
<1>9. VerdictsAreSound'
  <2>1. \A d \in Checks, t \in Sessions : SettledFor(t, d)' <=> SettledFor(t, d)
    BY <1>3, <1>6 DEF SettledFor, RunsOf, View
  <2>2. \A d \in Checks : Settled(d)' <=> Settled(d)
    BY <1>3, <1>6 DEF Settled, RunsOf
  <2>3. pc'[s] = "finalize" => SettledFor(s, c)
    <3>1. ~Pending(s, c) => \A r \in RunsOf(c) : View(s, r) \in Finished \cup {"none"}
      BY DEF Pending, View, RunsOf, IInv, TypeOK, RunStatus
    <3>2. HasRuns(c)
      BY <1>2 DEF IInv, WorkExists
    <3> QED
      BY <1>2, <3>1, <3>2 DEF SettledFor
  <2>4. ASSUME NEW t \in Sessions, NEW d \in Checks, JudgedBy(t, d)' PROVE SettledFor(t, d)
    <3>1. CASE t = s /\ pc'[s] = "finalize" /\ d = c
      BY <3>1, <2>3
    <3>2. CASE JudgedBy(t, d)
      BY <3>2 DEF IInv, VerdictsAreSound
    <3> QED
      BY <2>4, <3>1, <3>2, <1>2, <1>3 DEF JudgedBy
  <2>5. \A t \in Sessions : pc'[t] = "finalize" => req'[t].verdict \in Verdicts
    BY <1>2 DEF IInv, VerdictsAreSound
  <2>6. \A d \in Checks : check'[d] \in Verdicts => Settled(d)'
    BY <1>3, <2>2 DEF IInv, VerdictsAreSound
  <2> QED
    BY <2>1, <2>4, <2>5, <2>6 DEF VerdictsAreSound
<1> QED
  BY <1>4, <1>5, <1>7, <1>8, <1>9 DEF Coherent

(* The verdict is written on the check's row, unless that is cancelled. *)
LEMMA InvFinalize ==
    ASSUME IInv, NEW s \in Sessions, FinalizeCheckStatus(s)
    PROVE  Coherent'
<1> DEFINE c == req[s].chk
<1>1. c \in Checks /\ pc[s] = "finalize" /\ req[s].verdict \in Verdicts
  BY DEF FinalizeCheckStatus, IInv, TypeOK, VerdictsAreSound
<1>2. /\ \A t \in Sessions : t # s => pc'[t] = pc[t] /\ req'[t] = req[t]
      /\ pc'[s] = "derive" /\ req'[s].chks = req[s].chks /\ req'[s].batch = req[s].batch
  <2> DEFINE local == [req[s] EXCEPT !.chk = None, !.verdict = "none"]
  <2>1. local.chks = req[s].chks /\ local.batch = req[s].batch
    BY DEF IInv, TypeOK, Local
  <2>2. Goto(s, "derive", local)
    BY DEF FinalizeCheckStatus
  <2> HIDE DEF local
  <2> QED
    BY <2>1, <2>2, GotoFrame DEF IInv
<1>3. UNCHANGED <<check, run, newR, lockR, held>>
  BY DEF FinalizeCheckStatus, rows
<1>4. \/ check[c] # "cancelled" /\ WriteCheck(s, c, req[s].verdict)
      \/ UNCHANGED <<lockC, newC>>
  BY DEF FinalizeCheckStatus, Finalizable
<1>5. SettledFor(s, c)
  BY <1>1 DEF IInv, VerdictsAreSound, JudgedBy
<1> HIDE DEF c
<1>6. \A d \in Checks : \/ lockC'[d] = lockC[d] /\ newC'[d] = newC[d]
                        \/ d = c /\ lockC[d] = None /\ lockC'[d] = s /\ newC'[d] \in Verdicts /\ check[c] # "cancelled"
  BY <1>1, <1>4 DEF WriteCheck, IInv, TypeOK, c
<1>7. LocksFollowSteps'
  <2>1. ASSUME NEW d \in Checks, NEW t \in Sessions, lockC'[d] = t
        PROVE  \/ pc'[t] = "markRunning" /\ newC'[d] = "running"
               \/ pc'[t] \in {"cancelScan", "cancelRuns"} /\ newC'[d] = "cancelled"
               \/ pc'[t] \in {"derive", "finalize"} /\ newC'[d] \in Verdicts
    BY <1>1, <1>2, <1>6, <2>1 DEF IInv, LocksFollowSteps
  <2>2. ASSUME NEW r \in Runs, NEW t \in Sessions, lockR'[r] = t
        PROVE  \/ pc'[t] = "markRunning" /\ newR'[r] = "dispatched" /\ r \in req'[t].runs
               \/ pc'[t] \in {"timeoutRuns", "derive", "finalize", "cancelRuns"} /\ newR'[r] \in Finished
    BY <1>1, <1>2, <1>3, <2>2 DEF IInv, LocksFollowSteps
  <2> QED
    BY <2>1, <2>2 DEF LocksFollowSteps
<1>8. VersionsAgree'
  BY <1>3, <1>6, NoneAssumption DEF IInv, VersionsAgree, Verdicts
<1>9. (\A r \in Runs : Exists(r)' <=> Exists(r)) /\ (\A d \in Checks : HasRuns(d)' <=> HasRuns(d))
  BY <1>3 DEF Exists, HasRuns, RunsOf
<1>10. CreationIsPrivate'
  <2>1. \A d \in Checks : check[d] = "none" => lockC'[d] = None
    BY <1>5, <1>6 DEF IInv, CreationIsPrivate, SettledFor
  <2>2. \A r \in Runs : ~Exists(r) => lockR'[r] = None
    BY <1>3 DEF IInv, CreationIsPrivate
  <2>3. ~Creating(s)'
    BY <1>2 DEF Creating
  <2> QED
    BY <1>2, <1>3, <1>9, <2>1, <2>2, <2>3, PrivateKept
<1>11. WorkExists'
  BY <1>1, <1>2, <1>3, <1>9 DEF IInv, WorkExists, TypeOK, Local
<1>12. VerdictsAreSound'
  <2>1. \A d \in Checks, t \in Sessions : SettledFor(t, d)' <=> SettledFor(t, d)
    BY <1>3, <1>9 DEF SettledFor, RunsOf, View
  <2>2. \A d \in Checks : Settled(d)' <=> Settled(d)
    BY <1>3, <1>9 DEF Settled, RunsOf
  <2>3. ASSUME NEW t \in Sessions, NEW d \in Checks, JudgedBy(t, d)' PROVE SettledFor(t, d)
    <3>1. CASE t = s /\ d = c
      BY <3>1, <1>5
    <3>2. CASE JudgedBy(t, d)
      BY <3>2 DEF IInv, VerdictsAreSound
    <3> QED
      BY <2>3, <3>1, <3>2, <1>2, <1>6 DEF JudgedBy
  <2>4. \A t \in Sessions : pc'[t] = "finalize" => req'[t].verdict \in Verdicts
    BY <1>2 DEF IInv, VerdictsAreSound
  <2>5. \A d \in Checks : check'[d] \in Verdicts => Settled(d)'
    BY <1>3, <2>2 DEF IInv, VerdictsAreSound
  <2> QED
    BY <2>1, <2>3, <2>4, <2>5 DEF VerdictsAreSound
<1> QED
  BY <1>7, <1>8, <1>10, <1>11, <1>12 DEF Coherent

(* Writing a finished status on a run nobody holds: the frame of every step
   that does so, whatever else it decides. *)
LEMMA FinishRun ==
    ASSUME IInv, NEW s \in Sessions, NEW r \in Runs, NEW status \in Finished,
           WriteRun(s, r, status), Exists(r),
           UNCHANGED <<check, run, newC, lockC>>,
           pc[s] \in {"recordResult", "timeoutRuns", "cancelRuns"},
           pc'[s] \in {"timeoutRuns", "derive", "cancelRuns"},
           pc[s] = "cancelRuns" => pc'[s] = "cancelRuns",
           \A t \in Sessions : t # s => pc'[t] = pc[t] /\ req'[t] = req[t]
    PROVE  LocksFollowSteps' /\ VersionsAgree' /\ CreationIsPrivate' /\ VerdictsAreSound'
<1>1. \A q \in Runs : \/ lockR'[q] = lockR[q] /\ newR'[q] = newR[q]
                      \/ q = r /\ lockR[q] = None /\ lockR'[q] = s /\ newR'[q] = status
  BY DEF WriteRun, IInv, TypeOK
<1>2. (\A q \in Runs : Exists(q)' <=> Exists(q)) /\ (\A d \in Checks : HasRuns(d)' <=> HasRuns(d))
  BY DEF Exists, HasRuns, RunsOf
<1>3. LocksFollowSteps'
  <2>1. ASSUME NEW d \in Checks, NEW t \in Sessions, lockC'[d] = t
        PROVE  \/ pc'[t] = "markRunning" /\ newC'[d] = "running"
               \/ pc'[t] \in {"cancelScan", "cancelRuns"} /\ newC'[d] = "cancelled"
               \/ pc'[t] \in {"derive", "finalize"} /\ newC'[d] \in Verdicts
    BY <2>1 DEF IInv, LocksFollowSteps
  <2>2. ASSUME NEW q \in Runs, NEW t \in Sessions, lockR'[q] = t
        PROVE  \/ pc'[t] = "markRunning" /\ newR'[q] = "dispatched" /\ q \in req'[t].runs
               \/ pc'[t] \in {"timeoutRuns", "derive", "finalize", "cancelRuns"} /\ newR'[q] \in Finished
    BY <1>1, <2>2 DEF IInv, LocksFollowSteps
  <2> QED
    BY <2>1, <2>2 DEF LocksFollowSteps
<1>4. VersionsAgree'
  BY <1>1, NoneAssumption DEF IInv, VersionsAgree
<1>5. CreationIsPrivate'
  <2>1. \A q \in Runs : ~Exists(q) => lockR'[q] = None
    BY <1>1 DEF IInv, CreationIsPrivate
  <2>2. \A d \in Checks : check[d] = "none" => lockC'[d] = None
    BY DEF IInv, CreationIsPrivate
  <2>3. ~Creating(s)'
    BY DEF Creating
  <2> QED
    BY <1>2, <2>1, <2>2, <2>3, PrivateKept
<1>6. VerdictsAreSound'
  <2>1. \A d \in Checks : check'[d] \in Verdicts => Settled(d)'
    BY <1>2 DEF IInv, VerdictsAreSound, Settled, RunsOf
  <2>2. \A t \in Sessions : pc'[t] = "finalize" => req'[t].verdict \in Verdicts
    BY DEF IInv, VerdictsAreSound
  <2>3. ASSUME NEW t \in Sessions, NEW d \in Checks, JudgedBy(t, d)' PROVE SettledFor(t, d)'
    <3>1. JudgedBy(t, d)
      BY <2>3 DEF JudgedBy
    <3>2. SettledFor(t, d)
      BY <3>1 DEF IInv, VerdictsAreSound
    <3>3. \A q \in Runs : View(t, q)' = View(t, q) \/ View(t, q)' \in Finished
      BY <1>1, NoneAssumption DEF View
    <3> QED
      BY <1>2, <3>2, <3>3 DEF SettledFor, RunsOf
  <2> QED
    BY <2>1, <2>2, <2>3 DEF VerdictsAreSound
<1> QED
  BY <1>3, <1>4, <1>5, <1>6

(* The sweeper's visit of one run, which it leaves alone if it is finished. *)
LEMMA InvTimeoutRun ==
    ASSUME IInv, NEW s \in Sessions, NEW r \in Runs, TimeoutRun(s, r)
    PROVE  Coherent'
<1>1. /\ \A t \in Sessions : t # s => pc'[t] = pc[t] /\ req'[t] = req[t]
      /\ pc'[s] \in {"timeoutRuns", "derive"} /\ req'[s].batch = req[s].batch
      /\ \/ /\ StillUnfinished(r) /\ WriteRun(s, r, "timeout")
            /\ req'[s].chks = req[s].chks \cup {CheckOf[r]}
         \/ UNCHANGED <<lockR, newR>> /\ req'[s].chks = req[s].chks
  <2> DEFINE kept == [req[s] EXCEPT !.runs = @ \ {r}]
             more == [req[s] EXCEPT !.runs = @ \ {r}, !.chks = @ \cup {CheckOf[r]}]
  <2>1. /\ kept.batch = req[s].batch /\ more.batch = req[s].batch
        /\ kept.chks = req[s].chks /\ more.chks = req[s].chks \cup {CheckOf[r]}
    BY DEF IInv, TypeOK, Local
  <2>2. PICK step \in {"timeoutRuns", "derive"} :
           \/ StillUnfinished(r) /\ WriteRun(s, r, "timeout") /\ Goto(s, step, more)
           \/ UNCHANGED <<lockR, newR>> /\ Goto(s, step, kept)
    BY DEF TimeoutRun
  <2> HIDE DEF kept, more
  <2>3. CASE StillUnfinished(r) /\ WriteRun(s, r, "timeout") /\ Goto(s, step, more)
    BY <2>1, <2>3, GotoFrame DEF IInv
  <2>4. CASE UNCHANGED <<lockR, newR>> /\ Goto(s, step, kept)
    BY <2>1, <2>4, GotoFrame DEF IInv
  <2> QED
    BY <2>2, <2>3, <2>4
<1>2. CheckOf[r] \in Checks
  BY RunAssumption
<1>3. pc[s] = "timeoutRuns" /\ UNCHANGED <<check, run, newC, lockC, held>>
  BY DEF TimeoutRun, rows
<1>4. (\A q \in Runs : Exists(q)' <=> Exists(q)) /\ (\A d \in Checks : HasRuns(d)' <=> HasRuns(d))
  BY <1>3 DEF Exists, HasRuns, RunsOf
<1>5. StillUnfinished(r) => Exists(r) /\ HasRuns(CheckOf[r])
  BY DEF StillUnfinished, Unfinished, Exists, HasRuns, RunsOf
<1>6. WorkExists'
  BY <1>1, <1>2, <1>3, <1>4, <1>5 DEF IInv, WorkExists, TypeOK, Local
<1>7. CASE StillUnfinished(r) /\ WriteRun(s, r, "timeout")
  <2>1. "timeout" \in Finished
    BY DEF Finished, Errored
  <2> QED
    BY <1>1, <1>3, <1>5, <1>6, <1>7, <2>1, FinishRun DEF Coherent
<1>8. CASE UNCHANGED <<lockR, newR>> /\ req'[s].chks = req[s].chks
  <2>1. \A c \in req[s].chks : c \in Checks /\ HasRuns(c)
    BY <1>3 DEF IInv, TypeOK, Local, WorkExists
  <2>2. \A q \in req[s].batch : q \in Runs /\ Exists(q)
    BY DEF IInv, TypeOK, Local, WorkExists
  <2> QED
    BY <1>1, <1>3, <1>8, <2>1, <2>2, MoveOn
<1> QED
  BY <1>1, <1>7, <1>8

(* A result is recorded whatever the run's status. *)
LEMMA InvCompleteCheckRun ==
    ASSUME IInv, NEW s \in Sessions, NEW r \in Runs, NEW status \in {"done", "error"},
           CompleteCheckRun(s, r, status)
    PROVE  Coherent'
<1> DEFINE local == [req[s] EXCEPT !.run = r, !.batch = @ \ {r}, !.chks = {CheckOf[r]}]
<1>1. local.batch = req[s].batch \ {r} /\ local.chks = {CheckOf[r]}
  BY DEF IInv, TypeOK, Local
<1>2. Goto(s, "derive", local)
  BY DEF CompleteCheckRun
<1> HIDE DEF local
<1>3. /\ \A t \in Sessions : t # s => pc'[t] = pc[t] /\ req'[t] = req[t]
      /\ pc'[s] = "derive" /\ req'[s] = local
  BY <1>2, GotoFrame DEF IInv
<1>4. /\ pc[s] = "recordResult" /\ r \in req[s].batch /\ WriteRun(s, r, status)
      /\ UNCHANGED <<check, run, newC, lockC, held>>
  BY DEF CompleteCheckRun, rows
<1>5. Exists(r) /\ HasRuns(CheckOf[r]) /\ status \in Finished
  BY <1>4 DEF IInv, WorkExists, HasRuns, RunsOf, Finished, Succeeded, Errored
<1>6. LocksFollowSteps' /\ VersionsAgree' /\ CreationIsPrivate' /\ VerdictsAreSound'
  BY <1>3, <1>4, <1>5, FinishRun
<1>7. WorkExists'
  <2>1. (\A q \in Runs : Exists(q)' <=> Exists(q)) /\ (\A d \in Checks : HasRuns(d)' <=> HasRuns(d))
    BY <1>4 DEF Exists, HasRuns, RunsOf
  <2>2. CheckOf[r] \in Checks
    BY RunAssumption
  <2> QED
    BY <1>1, <1>3, <1>4, <1>5, <2>1, <2>2, ZenonT(30) DEF IInv, WorkExists, TypeOK, Local
<1> QED
  BY <1>6, <1>7 DEF Coherent

(* A batch is taken from the jobs the node holds. *)
LEMMA InvPostResults ==
    ASSUME IInv, NEW s \in Sessions, NEW B \in SUBSET held, PostResults(s, B)
    PROVE  Coherent'
<1> DEFINE local == [Fresh EXCEPT !.batch = B]
<1>1. local.batch = B
  BY DEF Fresh
<1>2. /\ pc[s] = "idle" /\ Goto(s, "recordResult", local) /\ held' \subseteq held
      /\ UNCHANGED <<check, run, newC, newR, lockC, lockR>>
  BY DEF PostResults, Unreported, rows, locks
<1> HIDE DEF local
<1>3. /\ \A t \in Sessions : t # s => pc'[t] = pc[t] /\ req'[t] = req[t]
      /\ pc'[s] = "recordResult" /\ req'[s].batch = B
  BY <1>1, <1>2, GotoFrame DEF IInv
<1>4. \A r \in B : r \in Runs /\ Exists(r)
  BY DEF IInv, TypeOK, WorkExists
<1> QED
  BY <1>2, <1>3, <1>4, MoveOn

(* The sweeper starts with no check to derive. *)
LEMMA InvTimeoutStaleRuns ==
    ASSUME IInv, NEW s \in Sessions, TimeoutStaleRuns(s)
    PROVE  Coherent'
<1> DEFINE local == [Fresh EXCEPT !.runs = Stale]
<1>1. local.batch = {} /\ local.chks = {}
  BY DEF Fresh
<1>2. /\ pc[s] = "idle" /\ Goto(s, "timeoutRuns", local)
      /\ UNCHANGED <<check, run, newC, newR, lockC, lockR, held>>
  BY DEF TimeoutStaleRuns, rows, locks
<1> HIDE DEF local
<1>3. /\ \A t \in Sessions : t # s => pc'[t] = pc[t] /\ req'[t] = req[t]
      /\ pc'[s] = "timeoutRuns" /\ req'[s].batch = {} /\ req'[s].chks = {}
  BY <1>1, <1>2, GotoFrame DEF IInv
<1> QED
  BY <1>2, <1>3, MoveOn

-----------------------------------------------------------------------------
(* Cancelling. *)

(* The check's row is held until its runs have been visited. *)
LEMMA InvCancelCheck ==
    ASSUME IInv, NEW s \in Sessions, NEW c \in Checks, CancelCheck(s, c)
    PROVE  Coherent'
<1> DEFINE local == [Fresh EXCEPT !.chk = c]
<1>1. local.batch = {}
  BY DEF Fresh
<1>2. /\ pc[s] = "idle" /\ Goto(s, "cancelScan", local)
      /\ check[c] \in Open /\ WriteCheck(s, c, "cancelled")
      /\ UNCHANGED <<check, run, newR, lockR, held>>
  BY DEF CancelCheck, Cancellable, rows
<1> HIDE DEF local
<1>3. /\ \A t \in Sessions : t # s => pc'[t] = pc[t] /\ req'[t] = req[t]
      /\ pc'[s] = "cancelScan" /\ req'[s].batch = {}
  BY <1>1, <1>2, GotoFrame DEF IInv
<1>4. \A d \in Checks : IF d = c THEN lockC[d] = None /\ lockC'[d] = s /\ newC'[d] = "cancelled"
                                 ELSE lockC'[d] = lockC[d] /\ newC'[d] = newC[d]
  BY <1>2 DEF WriteCheck, IInv, TypeOK
<1>5. (\A r \in Runs : Exists(r)' <=> Exists(r)) /\ (\A d \in Checks : HasRuns(d)' <=> HasRuns(d))
  BY <1>2 DEF Exists, HasRuns, RunsOf
<1>6. LocksFollowSteps'
  <2>1. ASSUME NEW d \in Checks, NEW t \in Sessions, lockC'[d] = t
        PROVE  \/ pc'[t] = "markRunning" /\ newC'[d] = "running"
               \/ pc'[t] \in {"cancelScan", "cancelRuns"} /\ newC'[d] = "cancelled"
               \/ pc'[t] \in {"derive", "finalize"} /\ newC'[d] \in Verdicts
    BY <1>2, <1>3, <1>4, <2>1 DEF IInv, LocksFollowSteps
  <2>2. ASSUME NEW r \in Runs, NEW t \in Sessions, lockR'[r] = t
        PROVE  \/ pc'[t] = "markRunning" /\ newR'[r] = "dispatched" /\ r \in req'[t].runs
               \/ pc'[t] \in {"timeoutRuns", "derive", "finalize", "cancelRuns"} /\ newR'[r] \in Finished
    BY <1>2, <1>3, <2>2 DEF IInv, LocksFollowSteps
  <2> QED
    BY <2>1, <2>2 DEF LocksFollowSteps
<1>7. VersionsAgree'
  BY <1>2, <1>4, NoneAssumption DEF IInv, VersionsAgree, Verdicts, Open
<1>8. CreationIsPrivate'
  <2>1. ~Creating(s)'
    BY <1>3 DEF Creating
  <2>2. /\ \A r \in Runs : ~Exists(r) => lockR'[r] = None
        /\ \A d \in Checks : check[d] = "none" => lockC'[d] = None
    BY <1>2, <1>4 DEF IInv, CreationIsPrivate, Open
  <2> QED
    BY <1>2, <1>3, <1>5, <2>1, <2>2, PrivateKept
<1>9. WorkExists'
  BY <1>2, <1>3, <1>5 DEF IInv, WorkExists, TypeOK, Local
<1>10. VerdictsAreSound'
  <2>1. \A d \in Checks, t \in Sessions : JudgedBy(t, d)' => JudgedBy(t, d)
    BY <1>3, <1>4 DEF JudgedBy, Verdicts
  <2>2. /\ \A d \in Checks : Settled(d)' <=> Settled(d)
        /\ \A d \in Checks, t \in Sessions : SettledFor(t, d)' <=> SettledFor(t, d)
    BY <1>2, <1>5 DEF Settled, SettledFor, RunsOf, View
  <2> QED
    BY <1>2, <1>3, <2>1, <2>2 DEF IInv, VerdictsAreSound
<1> QED
  BY <1>6, <1>7, <1>8, <1>9, <1>10 DEF Coherent

(* The second statement's snapshot is only read here. *)
LEMMA InvCancelScan ==
    ASSUME IInv, NEW s \in Sessions, CancelScan(s)
    PROVE  Coherent'
<1> DEFINE local == [req[s] EXCEPT !.runs = {r \in RunsOf(req[s].chk) : run[r] \in Unfinished}]
<1>1. local.batch = req[s].batch
  BY DEF IInv, TypeOK, Local
<1>2. /\ pc[s] = "cancelScan" /\ Goto(s, "cancelRuns", local)
      /\ UNCHANGED <<check, run, newC, newR, lockC, lockR, held>>
  BY DEF CancelScan, rows, locks
<1> HIDE DEF local
<1>3. /\ \A t \in Sessions : t # s => pc'[t] = pc[t] /\ req'[t] = req[t]
      /\ pc'[s] = "cancelRuns" /\ req'[s].batch = req[s].batch
  BY <1>1, <1>2, GotoFrame DEF IInv
<1>4. \A r \in req[s].batch : r \in Runs /\ Exists(r)
  BY DEF IInv, TypeOK, WorkExists, Local
<1> QED
  BY <1>2, <1>3, <1>4, MoveOn

(* An unfinished run becomes 'error', any other is left alone. *)
LEMMA InvCancelRun ==
    ASSUME IInv, NEW s \in Sessions, NEW r \in Runs, CancelRun(s, r)
    PROVE  Coherent'
<1> DEFINE local == [req[s] EXCEPT !.runs = @ \ {r}]
<1>1. local.batch = req[s].batch
  BY DEF IInv, TypeOK, Local
<1>2. /\ pc[s] = "cancelRuns" /\ Goto(s, "cancelRuns", local)
      /\ UNCHANGED <<check, run, newC, lockC, held>>
      /\ \/ StillUnfinished(r) /\ WriteRun(s, r, "error")
         \/ UNCHANGED <<lockR, newR>>
  BY DEF CancelRun, rows
<1> HIDE DEF local
<1>3. /\ \A t \in Sessions : t # s => pc'[t] = pc[t] /\ req'[t] = req[t]
      /\ pc'[s] = "cancelRuns" /\ req'[s].batch = req[s].batch
  BY <1>1, <1>2, GotoFrame DEF IInv
<1>4. CASE StillUnfinished(r) /\ WriteRun(s, r, "error")
  <2>1. Exists(r) /\ "error" \in Finished
    BY <1>4 DEF StillUnfinished, Unfinished, Exists, Finished, Errored
  <2>2. LocksFollowSteps' /\ VersionsAgree' /\ CreationIsPrivate' /\ VerdictsAreSound'
    BY <1>2, <1>3, <1>4, <2>1, FinishRun
  <2>3. (\A q \in Runs : Exists(q)' <=> Exists(q)) /\ (\A d \in Checks : HasRuns(d)' <=> HasRuns(d))
    BY <1>2 DEF Exists, HasRuns, RunsOf
  <2>4. WorkExists'
    BY <1>2, <1>3, <2>3 DEF IInv, WorkExists, TypeOK, Local
  <2> QED
    BY <2>2, <2>4 DEF Coherent
<1>5. CASE UNCHANGED <<lockR, newR>>
  <2>1. \A q \in req[s].batch : q \in Runs /\ Exists(q)
    BY DEF IInv, TypeOK, WorkExists, Local
  <2> QED
    BY <1>2, <1>3, <1>5, <2>1, MoveOn
<1> QED
  BY <1>2, <1>4, <1>5

-----------------------------------------------------------------------------
(* The inductive invariant. *)

LEMMA InvInit == Init => Coherent
<1> SUFFICES ASSUME Init PROVE Coherent
  OBVIOUS
<1>1. /\ \A c \in Checks : check[c] = "none" /\ newC[c] = "none" /\ lockC[c] = None
      /\ \A r \in Runs : run[r] = "none" /\ newR[r] = "none" /\ lockR[r] = None
      /\ \A s \in Sessions : pc[s] = "idle" /\ req[s].batch = {}
      /\ held = {}
  BY DEF Init, Fresh
<1>2. LocksFollowSteps /\ CreationIsPrivate
  BY <1>1, NoneAssumption DEF LocksFollowSteps, CreationIsPrivate, Creating, HasRuns, Exists, RunsOf
<1>3. VersionsAgree /\ WorkExists
  BY <1>1 DEF VersionsAgree, WorkExists, Finished, Succeeded, Errored, Verdicts
<1>4. VerdictsAreSound
  BY <1>1 DEF VerdictsAreSound, JudgedBy, Verdicts
<1> QED
  BY <1>2, <1>3, <1>4 DEF Coherent

LEMMA InvStep == IInv /\ [Next]_vars => IInv'
<1> SUFFICES ASSUME IInv, [Next]_vars PROVE IInv'
  OBVIOUS
<1>1. TypeOK'
  BY TypeStep DEF IInv
<1>2. ASSUME NEW s \in Sessions, Create(s) PROVE Coherent'
  BY <1>2, InvCreateCheck, InvInsertCheck, InvCreateCheckRuns DEF Create
<1>3. ASSUME NEW s \in Sessions, Poll(s) PROVE Coherent'
  BY <1>3, InvClaimQueuedRuns, InvMarkRunning, InvCommitClaim DEF Poll
<1>4. ASSUME NEW s \in Sessions, Results(s) PROVE Coherent'
  BY <1>4, InvPostResults, InvCompleteCheckRun, InvCommitResult DEF Results
<1>5. ASSUME NEW s \in Sessions, Sweep(s) PROVE Coherent'
  BY <1>5, InvTimeoutStaleRuns, InvTimeoutRun, InvCommitSweep DEF Sweep
<1>6. ASSUME NEW s \in Sessions, Derive(s) PROVE Coherent'
  BY <1>6, InvCountRuns, InvFinalize DEF Derive
<1>7. ASSUME NEW s \in Sessions, Cancel(s) PROVE Coherent'
  BY <1>7, InvCancelCheck, InvCancelScan, InvCancelRun, InvCommitCancel DEF Cancel
<1>8. ASSUME NEW s \in Sessions, Fail(s) \/ DeadlockVictim(s) PROVE Coherent'
  BY <1>8, InvGiveUp DEF Fail, DeadlockVictim
<1>9. ASSUME UNCHANGED <<rows, locks, pc, req, held>> PROVE Coherent'
  <2>1. UNCHANGED <<check, run, newC, newR, lockC, lockR, pc, req, held>>
    BY <1>9 DEF rows, locks
  <2>2. LocksFollowSteps' /\ VersionsAgree'
    BY <2>1 DEF IInv, LocksFollowSteps, VersionsAgree
  <2>3. (\A r \in Runs : Exists(r)' <=> Exists(r)) /\ (\A c \in Checks : HasRuns(c)' <=> HasRuns(c))
    BY <2>1 DEF Exists, HasRuns, RunsOf
  <2>4. CreationIsPrivate'
    BY <2>1, <2>3 DEF IInv, CreationIsPrivate, Creating
  <2>5. WorkExists'
    BY <2>1, <2>3 DEF IInv, WorkExists, TypeOK, Local
  <2>6. VerdictsAreSound'
    BY <2>1, <2>3 DEF IInv, VerdictsAreSound, JudgedBy, Settled, SettledFor, View, RunsOf
  <2> QED
    BY <2>2, <2>4, <2>5, <2>6 DEF Coherent
<1>10. ASSUME (\E c \in Checks : GracePasses(c)) \/ UNCHANGED vars PROVE Coherent'
  BY <1>9, <1>10 DEF GracePasses, vars
<1>11. Coherent'
  BY <1>2, <1>3, <1>4, <1>5, <1>6, <1>7, <1>8, <1>10 DEF Next, Sessions
<1> QED
  BY <1>1, <1>11 DEF IInv, Coherent

(* Row locks, row versions, work in hand and verdicts stay coherent. *)
THEOREM Invariance == Spec => []IInv
<1>1. Init => IInv
  BY TypeInit, InvInit DEF IInv, Coherent
<1> QED
  BY <1>1, InvStep, PTL DEF Spec

-----------------------------------------------------------------------------
(* What follows from it. *)

(* A check shows a verdict only when none of its runs can still be claimed or
   is out at a node. *)
THEOREM VerdictsWait == Spec => []VerdictMeansFinished
<1>1. IInv => VerdictMeansFinished
  BY RunAssumption DEF IInv, VerdictsAreSound, Settled, VerdictMeansFinished, RunsOf
<1> QED
  BY <1>1, Invariance, PTL

LEMMA CheckStep ==
    ASSUME IInv, [Next]_vars, NEW c \in Checks
    PROVE  check'[c] = check[c] \/ check'[c] = newC[c] \/ check[c] = "none"
<1>1. ASSUME NEW s \in Sessions, CommitRows(s) PROVE check'[c] = check[c] \/ check'[c] = newC[c]
  BY <1>1 DEF CommitRows
<1>2. ASSUME NEW s \in Sessions, NEW d \in Checks, InsertCheck(s, d)
      PROVE  check'[c] = check[c] \/ check[c] = "none"
  <2>1. check[d] = "none"
    BY <1>2 DEF InsertCheck, IInv, CreationIsPrivate, Creating
  <2> QED
    BY <1>2, <2>1 DEF InsertCheck, IInv, TypeOK
<1>3. ASSUME NEW s \in Sessions, Create(s) PROVE check' = check \/ \E d \in Checks : InsertCheck(s, d)
  BY <1>3 DEF Create, CreateCheck, CreateCheckRuns, rows
<1>4. ASSUME NEW s \in Sessions, Poll(s) \/ Results(s) \/ Sweep(s) \/ Derive(s) \/ Cancel(s)
      PROVE  check' = check \/ CommitRows(s)
  <2>1. Poll(s) => check' = check \/ CommitRows(s)
    BY DEF Poll, ClaimQueuedRuns, MarkRunning, CommitClaim, rows
  <2>2. Results(s) => check' = check \/ CommitRows(s)
    BY DEF Results, PostResults, CompleteCheckRun, CommitResult, rows
  <2>3. Sweep(s) => check' = check \/ CommitRows(s)
    BY DEF Sweep, TimeoutStaleRuns, TimeoutRun, CommitSweep, rows
  <2>4. Derive(s) => check' = check
    BY DEF Derive, CountRuns, FinalizeCheckStatus, rows
  <2>5. Cancel(s) => check' = check \/ CommitRows(s)
    BY DEF Cancel, CancelCheck, CancelScan, CancelRun, CommitCancel, rows
  <2> QED
    BY <1>4, <2>1, <2>2, <2>3, <2>4, <2>5
<1>5. ASSUME NEW s \in Sessions, Fail(s) \/ DeadlockVictim(s) PROVE check' = check
  BY <1>5 DEF Fail, DeadlockVictim, GiveUp, Rollback, rows
<1>6. ASSUME NEW d \in Checks, GracePasses(d) PROVE check' = check
  BY <1>6 DEF GracePasses, rows
<1>7. UNCHANGED vars => check' = check
  BY DEF vars, rows
<1> QED
  BY <1>1, <1>2, <1>3, <1>4, <1>5, <1>6, <1>7 DEF Next, Sessions

(* No interleaving of results, sweeps and claims takes a check out of
   'cancelled'. *)
THEOREM CancelStands == Spec => CancelIsFinal
<1>1. IInv /\ [Next]_vars => [\A c \in Checks : check[c] = "cancelled" => check'[c] = "cancelled"]_vars
  BY CheckStep DEF IInv, VersionsAgree
<1> QED
  BY <1>1, Invariance, PTL DEF Spec, CancelIsFinal

(* A check that has a verdict never goes back to 'pending' or 'running' and is
   never cancelled. *)
THEOREM VerdictStands == Spec => VerdictIsFinal
<1>1. IInv /\ [Next]_vars => [\A c \in Checks : check[c] \in Verdicts => check'[c] \in Verdicts]_vars
  BY CheckStep DEF IInv, VersionsAgree, Verdicts
<1> QED
  BY <1>1, Invariance, PTL DEF Spec, VerdictIsFinal

LEMMA RunStep ==
    ASSUME IInv, [Next]_vars, NEW r \in Runs
    PROVE  run'[r] = run[r] \/ run'[r] = newR[r] \/ run[r] = "none"
<1>1. ASSUME NEW s \in Sessions, CommitRows(s) PROVE run'[r] = run[r] \/ run'[r] = newR[r]
  BY <1>1 DEF CommitRows
<1>2. ASSUME NEW s \in Sessions, CreateCheckRuns(s) PROVE run'[r] = run[r] \/ run[r] = "none"
  <2>1. req[s].chk \in Checks /\ ~HasRuns(req[s].chk)
    BY <1>2 DEF CreateCheckRuns, IInv, TypeOK, CreationIsPrivate
  <2> QED
    BY <1>2, <2>1 DEF CreateCheckRuns, Slots, HasRuns, Exists, RunsOf
<1>3. ASSUME NEW s \in Sessions, Create(s) PROVE run' = run \/ CreateCheckRuns(s)
  BY <1>3 DEF Create, CreateCheck, InsertCheck, rows
<1>4. ASSUME NEW s \in Sessions, Poll(s) \/ Results(s) \/ Sweep(s) \/ Derive(s) \/ Cancel(s)
      PROVE  run' = run \/ CommitRows(s)
  <2>1. Poll(s) => run' = run \/ CommitRows(s)
    BY DEF Poll, ClaimQueuedRuns, MarkRunning, CommitClaim, rows
  <2>2. Results(s) => run' = run \/ CommitRows(s)
    BY DEF Results, PostResults, CompleteCheckRun, CommitResult, rows
  <2>3. Sweep(s) => run' = run \/ CommitRows(s)
    BY DEF Sweep, TimeoutStaleRuns, TimeoutRun, CommitSweep, rows
  <2>4. Derive(s) => run' = run
    BY DEF Derive, CountRuns, FinalizeCheckStatus, rows
  <2>5. Cancel(s) => run' = run \/ CommitRows(s)
    BY DEF Cancel, CancelCheck, CancelScan, CancelRun, CommitCancel, rows
  <2> QED
    BY <1>4, <2>1, <2>2, <2>3, <2>4, <2>5
<1>5. ASSUME NEW s \in Sessions, Fail(s) \/ DeadlockVictim(s) PROVE run' = run
  BY <1>5 DEF Fail, DeadlockVictim, GiveUp, Rollback, rows
<1>6. ASSUME NEW d \in Checks, GracePasses(d) PROVE run' = run
  BY <1>6 DEF GracePasses, rows
<1>7. UNCHANGED vars => run' = run
  BY DEF vars, rows
<1> QED
  BY <1>1, <1>2, <1>3, <1>4, <1>5, <1>6, <1>7 DEF Next, Sessions

(* A run that has its result, or timed out, or was cancelled, is never handed
   out again. *)
THEOREM FinishedRunsStay == Spec => FinishedStaysFinished
<1>1. IInv /\ [Next]_vars => [\A r \in Runs : run[r] \in Finished => run'[r] \in Finished]_vars
  BY RunStep DEF IInv, VersionsAgree, Finished, Succeeded, Errored
<1> QED
  BY <1>1, Invariance, PTL DEF Spec, FinishedStaysFinished
=============================================================================
