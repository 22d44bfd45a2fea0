--------------------------- MODULE MCPinnedChecks ---------------------------
EXTENDS PinnedChecks

(* One check of any type, or two vless checks, which share the binary. *)
MCWorkloads == {[c1 |-> k, c2 |-> "none"] : k \in Kinds}
                   \cup {[c1 |-> "vless", c2 |-> "vless"]}

MCNicStates == {{}, {"link"}, {"link", "v4"}}

MCAnswers == {{"a4"}, {"b4", "c6"}}
=============================================================================
