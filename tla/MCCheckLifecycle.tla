-------------------------- MODULE MCCheckLifecycle --------------------------
(* Small instances of CheckLifecycle. *)
EXTENDS CheckLifecycle, TLC

CONSTANTS c1, c2, n1, n2, r1, r2, r3, h1, h2, h3, w1, w2

(* One check on two nodes. *)
PairChecks == r1 :> c1 @@ r2 :> c1
PairNodes  == r1 :> n1 @@ r2 :> n2

(* One check with two runs on one node: its selector named the node twice. *)
TwinNodes  == r1 :> n1 @@ r2 :> n1

(* Two checks: c1 on both nodes, c2 on the first, so one poll takes runs of
   both checks. *)
FanChecks == r1 :> c1 @@ r2 :> c1 @@ r3 :> c2
FanNodes  == r1 :> n1 @@ r2 :> n2 @@ r3 :> n1

HandlerSymmetry == Permutations(Handlers)
=============================================================================
