--------------------------- MODULE MCAgentInstall ---------------------------
(* Small instances of AgentInstall: the standard place, the downloads folder
   and an ordinary one, copies of the program under two names. *)
EXTENDS AgentInstall
=============================================================================
