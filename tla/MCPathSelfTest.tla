--------------------------- MODULE MCPathSelfTest ---------------------------
(* Two targets, as cmd/agent configures them. *)
EXTENDS PathSelfTest

CONSTANTS cloudflare, google
=============================================================================
