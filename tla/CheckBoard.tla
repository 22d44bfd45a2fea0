----------------------------- MODULE CheckBoard -----------------------------
(* What clients and nodes may rely on: the statuses of checks and runs as a
   board on which every operation of the API happens at once.  CheckLifecycle,
   where each is a transaction of many steps, implements it.  The one freedom
   left to the implementation is the verdict: a report or a sweep after which
   all runs of a check are finished may write one or leave the check as it is,
   because two reports that overlap do not see each other. *)
EXTENDS CheckStatuses

CONSTANTS Checks, Runs, CheckOf

VARIABLES check, run

board == <<check, run>>

Init ==
    /\ check = [c \in Checks |-> "none"]
    /\ run = [r \in Runs |-> "none"]

Turn(R, status) == run' = [r \in Runs |-> IF r \in R THEN status ELSE run[r]]

CreateCheck(c) ==
    /\ check[c] = "none"
    /\ check' = [check EXCEPT ![c] = "pending"]
    /\ UNCHANGED run

(* The runs of one existing check, all of them at once. *)
AddRuns(R) ==
    /\ \E c \in Checks : check[c] # "none" /\ \A r \in R : CheckOf[r] = c
    /\ \A r \in R : run[r] = "none"
    /\ Turn(R, "queued")
    /\ UNCHANGED check

(* Queued runs go out together with the start of their checks. *)
Dispatch(R) ==
    /\ \A r \in R : run[r] = "queued"
    /\ Turn(R, "dispatched")
    /\ check' = [c \in Checks |->
                    IF check[c] = "pending" /\ \E r \in R : CheckOf[r] = c
                    THEN "running" ELSE check[c]]

(* A verdict stands on finished runs only, and "completed" on successes only. *)
MayJudge(c, verdict) ==
    /\ check[c] \notin {"none", "cancelled"}
    /\ \A r \in Runs : CheckOf[r] = c => run'[r] \in Finished \cup {"none"}
    /\ verdict = "completed" =>
          \A r \in Runs : CheckOf[r] = c => run'[r] \in Succeeded \cup {"none"}

Judge(R) ==
    \E D \in SUBSET {CheckOf[r] : r \in R} :
       /\ \A c \in Checks \ D : check'[c] = check[c]
       /\ \A c \in D : check'[c] \in Verdicts /\ MayJudge(c, check'[c])
       /\ check' \in [Checks -> CheckStatus]

(* A node reports a run it was given; the run may have timed out or been
   cancelled meanwhile: the report then replaces that status. *)
Report(r, status) ==
    /\ run[r] \in {"dispatched"} \cup Finished
    /\ Turn({r}, status)
    /\ Judge({r})

Expire(R) ==
    /\ \A r \in R : run[r] \in Unfinished
    /\ Turn(R, "timeout")
    /\ Judge(R)

(* All unfinished runs end with the check, those it was only just given (still
   queued) possibly not. *)
CancelCheck(c) ==
    /\ check[c] \in Open
    /\ check' = [check EXCEPT ![c] = "cancelled"]
    /\ \E R \in SUBSET {r \in Runs : CheckOf[r] = c /\ run[r] \in Unfinished} :
          /\ \A r \in Runs \ R : CheckOf[r] = c => run[r] \notin Unfinished \ {"queued"}
          /\ Turn(R, "error")

Next ==
    \/ \E c \in Checks : CreateCheck(c) \/ CancelCheck(c)
    \/ \E R \in SUBSET Runs : AddRuns(R) \/ Dispatch(R) \/ Expire(R)
    \/ \E r \in Runs, status \in {"done", "error"} : Report(r, status)

Spec == Init /\ [][Next]_board
=============================================================================
