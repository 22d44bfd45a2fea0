---------------------------- MODULE PathSelfTest ----------------------------
(***************************************************************************)
(* The agent's path self-test (internal/poller/selftest.go): every target    *)
(* is dialled through the pinned interface and then over the default route,  *)
(* and a target that only the second dial reaches makes the path suspect.    *)
(* Poller withholds results while it is.  Outside the agent, targets become  *)
(* reachable and unreachable, and something below the sockets starts and     *)
(* stops intercepting what leaves through the pinned interface.             *)
(***************************************************************************)
EXTENDS Naturals

CONSTANTS Targets, None

ASSUME TargetsAssumption == Targets # {} /\ None \notin Targets

VARIABLES
    up,             \* targets that answer on the default route
    intercepted,    \* dials through the pinned interface fail
    step,           \* where tick is
    left,           \* targets the test has still to dial
    target,         \* the target being dialled
    boundOK,
    found,          \* tick's local variable suspect
    suspect,
    changes,        \* history: the world changed since the test began
    seen            \* history: what the last finished test had before it

world == <<up, intercepted>>
test == <<step, left, target, boundOK, found>>
vars == <<world, test, suspect, changes, seen>>

(* The world a finished test looked at, and whether it stood still meanwhile. *)
Sights == [up : SUBSET Targets, intercepted : BOOLEAN, still : BOOLEAN]

TypeOK ==
    /\ up \subseteq Targets
    /\ intercepted \in BOOLEAN
    /\ step \in {"idle", "bound", "unbound"}
    /\ left \subseteq Targets
    /\ target \in Targets \cup {None}
    /\ boundOK \in BOOLEAN
    /\ found \in BOOLEAN
    /\ suspect \in BOOLEAN
    /\ changes \in BOOLEAN
    /\ seen \in Sights

Init ==
    /\ up \in SUBSET Targets
    /\ intercepted \in BOOLEAN
    /\ step = "idle"
    /\ left = {}
    /\ target = None
    /\ boundOK = FALSE
    /\ found = FALSE
    /\ suspect = FALSE
    /\ changes = FALSE
    /\ seen = [up |-> {}, intercepted |-> FALSE, still |-> FALSE]

-----------------------------------------------------------------------------
(* tick *)

StartTest ==
    /\ step = "idle"
    /\ step' = "bound"
    /\ left' = Targets
    /\ found' = FALSE
    /\ changes' = FALSE
    /\ UNCHANGED <<world, target, boundOK, suspect, seen>>

DialBound(t) ==
    /\ step = "bound"
    /\ t \in left
    /\ step' = "unbound"
    /\ target' = t
    /\ left' = left \ {t}
    /\ boundOK' = (t \in up /\ ~intercepted)
    /\ UNCHANGED <<world, found, suspect, changes, seen>>

MutClassify(bound, unbound) == ~bound       \* mutant: not a differential test

ClassifyPathSuspect(bound, unbound) == ~bound /\ unbound

(* The first suspicious target ends the loop. *)
MutRest(verdict) == left            \* mutant: no break, the last target decides

Rest(verdict) == IF verdict THEN {} ELSE left

DialUnbound ==
    /\ step = "unbound"
    /\ found' = ClassifyPathSuspect(boundOK, target \in up)
    /\ left' = Rest(found')
    /\ step' = "bound"
    /\ target' = None
    /\ UNCHANGED <<world, boundOK, suspect, changes, seen>>

MutVerdict == suspect \/ found      \* mutant: the alarm is never cleared

Verdict == found

FinishTest ==
    /\ step = "bound"
    /\ left = {}
    /\ step' = "idle"
    /\ suspect' = Verdict
    /\ seen' = [up |-> up, intercepted |-> intercepted, still |-> ~changes]
    /\ UNCHANGED <<world, left, target, boundOK, found, changes>>

-----------------------------------------------------------------------------
(* The world outside. *)

TargetTurns(t) ==
    /\ up' = IF t \in up THEN up \ {t} ELSE up \cup {t}
    /\ changes' = TRUE
    /\ UNCHANGED <<intercepted, test, suspect, seen>>

InterceptionTurns ==
    /\ intercepted' = ~intercepted
    /\ changes' = TRUE
    /\ UNCHANGED <<up, test, suspect, seen>>

Tick ==
    \/ StartTest
    \/ \E t \in Targets : DialBound(t)
    \/ DialUnbound
    \/ FinishTest

Next ==
    \/ Tick
    \/ \E t \in Targets : TargetTurns(t)
    \/ InterceptionTurns

Spec == Init /\ [][Next]_vars

(* Every dial has a timeout and the ticker goes on until the agent stops. *)
FairSpec == Spec /\ WF_vars(Tick)

-----------------------------------------------------------------------------

(* A test during which the world stood still is right in both directions: it
   raises the alarm if and only if the bound path was intercepted and some
   target could tell, whichever targets were down. *)
StillWorldIsJudgedRight ==
    seen.still => suspect = (seen.intercepted /\ seen.up # {})

(* An interception that stays, with a target that stays up, is noticed and the
   alarm is not dropped while it lasts. *)
InterceptionIsNoticed ==
    \A t \in Targets : <>[](intercepted /\ t \in up) => <>[]suspect

(* Once it is over and targets stop changing, results flow again. *)
AlarmIsCleared ==
    <>[](~intercepted) /\ (\E U \in SUBSET Targets : <>[](up = U)) => <>[](~suspect)
-----------------------------------------------------------------------------
(* The inductive invariant behind StillWorldIsJudgedRight. *)

(* None of the targets in D could give an interception away. *)
NoTrace(D) == ~intercepted \/ D \cap up = {}

(* While the world stands still, the test knows what it should of the targets
   it has dialled so far. *)
TestIsOnCourse ==
    /\ step = "bound" =>
          /\ found => left = {}
          /\ ~changes /\ found => intercepted /\ up # {}
          /\ ~changes /\ ~found => NoTrace(Targets \ left)
    /\ step = "unbound" =>
          /\ ~found
          /\ target \in Targets \ left
          /\ ~changes => boundOK = (target \in up /\ ~intercepted)
          /\ ~changes => NoTrace(Targets \ (left \cup {target}))

IInv == TypeOK /\ TestIsOnCourse /\ StillWorldIsJudgedRight
=============================================================================
