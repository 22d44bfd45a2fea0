------------------------------ MODULE Registry ------------------------------
(***************************************************************************)
(* What the backend keeps about its callers: accounts and their API keys,     *)
(* the measuring nodes with their block flag and heartbeat, the virtual node  *)
(* (internal/store, internal/auth, the admin handlers of internal/api/public) *)
(* and which of the nodes a node_selector names (internal/dispatch).          *)
(***************************************************************************)
EXTENDS Naturals

CONSTANTS
    Accounts, Keys,
    Nodes,          \* nodes an administrator may create
    Virtual,        \* the row of the backend's own node
    Tagged          \* nodes whose tags an operator has set by hand

ASSUME RegistryAssumption == Virtual \notin Nodes /\ Tagged \subseteq Nodes

VARIABLES
    accounts,       \* rows of accounts
    key,            \* rows of api_keys: none, live or revoked
    node,           \* rows of nodes
    seen            \* last_heartbeat_at is within the online threshold

registry == <<accounts, key, node, seen>>

AllNodes == Nodes \cup {Virtual}

RegistryTypeOK ==
    /\ accounts \subseteq Accounts
    /\ key \in [Keys -> {"none", "live", "revoked"}]
    /\ node \in [AllNodes -> {"none", "open", "blocked"}]
    /\ seen \subseteq AllNodes

RegistryInit ==
    /\ accounts = {}
    /\ key = [k \in Keys |-> "none"]
    /\ node = [n \in AllNodes |-> "none"]
    /\ seen = {}

-----------------------------------------------------------------------------
(* The administrator's operations *)

CreateAccount(a) ==
    /\ a \notin accounts
    /\ accounts' = accounts \cup {a}
    /\ UNCHANGED <<key, node, seen>>

(* The account must exist; accounts are never deleted. *)
CreateAPIKey(k) ==
    /\ accounts # {}
    /\ key[k] = "none"
    /\ key' = [key EXCEPT ![k] = "live"]
    /\ UNCHANGED <<accounts, node, seen>>

RevokeAPIKey(k) ==
    /\ key[k] = "live"
    /\ key' = [key EXCEPT ![k] = "revoked"]
    /\ UNCHANGED <<accounts, node, seen>>

CreateNode(n) ==
    /\ node[n] = "none"
    /\ node' = [node EXCEPT ![n] = "open"]
    /\ UNCHANGED <<accounts, key, seen>>

(* PUT /nodes/{id}: any node, the virtual one included. *)
SetNodeBlocked(n, blocked) ==
    /\ node[n] # "none"
    /\ node' = [node EXCEPT ![n] = IF blocked THEN "blocked" ELSE "open"]
    /\ UNCHANGED <<accounts, key, seen>>

(* Heartbeats *)

TouchHeartbeat(n) == seen' = seen \cup {n}

Lapse(n) ==
    /\ n \in seen
    /\ seen' = seen \ {n}
    /\ UNCHANGED <<accounts, key, node>>

(* RequireAPIKey and RequireNodeSecret: a node's block is not looked at. *)
Authentic(k) == key[k] = "live"

KnownNode(n) == n \in Nodes /\ node[n] # "none"

-----------------------------------------------------------------------------
(* dispatch.Resolve *)

Exists(n) == node[n] # "none"

MutByIds(ids) == {n \in ids : Exists(n)}        \* mutant: a blocked node is named, so it is used

(* node_ids: named nodes run even when they are offline. *)
ByIds(ids) == {n \in ids : Exists(n) /\ node[n] # "blocked"}

(* all and tags: what is available now, never the backend itself. *)
FilterAvailable(nodes, offline) ==
    {n \in nodes : node[n] = "open" /\ n # Virtual /\ (offline \/ n \in seen)}

Selectors ==
    [by : {"ids"}, ids : SUBSET AllNodes \ {{}}, offline : {FALSE}]
        \cup [by : {"all", "tags"}, ids : {{}}, offline : BOOLEAN]

Resolve(sel) ==
    CASE sel.by = "ids"  -> ByIds(sel.ids)
      [] sel.by = "all"  -> FilterAvailable(AllNodes, sel.offline)
      [] sel.by = "tags" -> FilterAvailable(Tagged, sel.offline)
=============================================================================
