------------------------- MODULE PathSelfTestProofs -------------------------
(* PathSelfTest's verdict is right whenever the world stood still, for any set
   of targets. *)
EXTENDS PathSelfTest, TLAPS

(* The first test has not begun and there is nothing to be right about. *)
LEMMA InitHolds == Init => IInv
<1> SUFFICES ASSUME Init PROVE IInv
  OBVIOUS
<1>1. seen \in Sights /\ seen.still = FALSE
  BY DEF Init, Sights
<1>2. TypeOK
  BY <1>1 DEF Init, TypeOK
<1>3. TestIsOnCourse
  BY DEF Init, TestIsOnCourse
<1>4. StillWorldIsJudgedRight
  BY <1>1 DEF StillWorldIsJudgedRight
<1> QED
  BY <1>2, <1>3, <1>4 DEF IInv

(* Every step keeps what the test knows in line with the world. *)
LEMMA StepHolds == IInv /\ [Next]_vars => IInv'
<1> SUFFICES ASSUME IInv, [Next]_vars PROVE IInv'
  OBVIOUS
<1> USE DEF IInv, TypeOK
<1>1. CASE StartTest
  BY <1>1 DEF StartTest, world, TestIsOnCourse, StillWorldIsJudgedRight, NoTrace
<1>2. ASSUME NEW t \in Targets, DialBound(t) PROVE IInv'
  <2>1. TypeOK'
    BY <1>2 DEF DialBound, world
  <2>2. StillWorldIsJudgedRight'
    BY <1>2 DEF DialBound, world, StillWorldIsJudgedRight
  <2>3. ~found /\ left # {}
    BY <1>2 DEF DialBound, TestIsOnCourse
  <2>4. Targets \ (left' \cup {target'}) = Targets \ left
    BY <1>2 DEF DialBound
  <2>5. TestIsOnCourse'
    BY <1>2, <2>3, <2>4 DEF DialBound, world, TestIsOnCourse, NoTrace
  <2> QED
    BY <2>1, <2>2, <2>5
<1>3. CASE DialUnbound
  <2>1. TypeOK'
    BY <1>3 DEF DialUnbound, world, Rest, ClassifyPathSuspect
  <2>2. StillWorldIsJudgedRight'
    BY <1>3 DEF DialUnbound, world, StillWorldIsJudgedRight
  <2>3. found' = (~boundOK /\ target \in up)
    BY <1>3 DEF DialUnbound, ClassifyPathSuspect
  <2>4. CASE found'
    BY <1>3, <2>3, <2>4 DEF DialUnbound, world, Rest, TestIsOnCourse, StillWorldIsJudgedRight
  <2>5. CASE ~found'
    <3>1. left' = left
      BY <1>3, <2>5 DEF DialUnbound, Rest
    <3>2. ~changes => ~intercepted \/ target \notin up
      BY <1>3, <2>3, <2>5 DEF DialUnbound, TestIsOnCourse
    <3>3. ~changes => NoTrace(Targets \ left)
      BY <1>3, <3>2 DEF DialUnbound, TestIsOnCourse, NoTrace
    <3>4. TestIsOnCourse'
      BY <1>3, <2>5, <3>1, <3>3 DEF DialUnbound, world, TestIsOnCourse, NoTrace
    <3> QED
      BY <2>1, <2>2, <3>4
  <2> QED
    BY <2>4, <2>5
<1>4. CASE FinishTest
  <2>1. ~changes /\ found => intercepted /\ up # {}
    BY <1>4 DEF FinishTest, TestIsOnCourse
  <2>2. ~changes /\ ~found => ~intercepted \/ up = {}
    BY <1>4 DEF FinishTest, TestIsOnCourse, NoTrace
  <2>3. StillWorldIsJudgedRight'
    BY <1>4, <2>1, <2>2 DEF FinishTest, world, Verdict, StillWorldIsJudgedRight
  <2>4. TypeOK'
    BY <1>4 DEF FinishTest, world, Verdict, Sights
  <2>5. TestIsOnCourse'
    BY <1>4 DEF FinishTest, TestIsOnCourse
  <2> QED
    BY <2>3, <2>4, <2>5
<1>5. ASSUME NEW t \in Targets, TargetTurns(t) PROVE IInv'
  BY <1>5 DEF TargetTurns, test, TestIsOnCourse, StillWorldIsJudgedRight
<1>6. CASE InterceptionTurns
  BY <1>6 DEF InterceptionTurns, test, TestIsOnCourse, StillWorldIsJudgedRight
<1>7. CASE UNCHANGED vars
  BY <1>7 DEF vars, world, test, TestIsOnCourse, NoTrace, StillWorldIsJudgedRight
<1> QED
  BY <1>1, <1>2, <1>3, <1>4, <1>5, <1>6, <1>7 DEF Next, Tick

(* A test during which nothing changed raises the alarm if and only if the
   pinned path was intercepted and some target could show it. *)
THEOREM StillWorldJudged == Spec => []StillWorldIsJudgedRight
<1>1. IInv => StillWorldIsJudgedRight
  BY DEF IInv
<1> QED
  BY InitHolds, StepHolds, <1>1, PTL DEF Spec
=============================================================================
