---------------------------- MODULE CheckStatuses ----------------------------
(* The enums check_status and check_run_status of migrations/0001_init, with
   "none" for a row that does not exist, and the groups of statuses that the
   statements of internal/store tell apart. *)

Unfinished  == {"queued", "dispatched", "running"}
Succeeded   == {"done"}
Errored     == {"error", "timeout"}
Finished    == Succeeded \cup Errored
RunStatus   == {"none"} \cup Unfinished \cup Finished

Open        == {"pending", "running"}
Verdicts    == {"completed", "partial", "failed"}
CheckStatus == {"none"} \cup Open \cup Verdicts \cup {"cancelled"}
=============================================================================
