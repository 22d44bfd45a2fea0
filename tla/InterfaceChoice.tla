-------------------------- MODULE InterfaceChoice --------------------------
(***************************************************************************)
(* Which interface the node's checks run through: chosen by the operator in   *)
(* setup or configure (cmd/agent/main.go), read again when the agent starts.  *)
(* Interfaces change while they are being probed.                            *)
(***************************************************************************)
EXTENDS NetIface

CONSTANT None

ASSUME ChoiceAssumption == None \notin Ifaces

VARIABLES
    setup,          \* the wizard's locals
    pin,            \* interface_name in the saved config
    ownDNS,         \* dns_servers in the saved config
    agent,          \* "down", "up", "stopping"
    net             \* the running agent's checks.NetConfig

choice == <<setup, pin, ownDNS, agent, net>>

ChoiceTypeOK ==
    /\ setup \in [step : {"idle", "probing", "closed"}, auto : BOOLEAN, list : SUBSET Ifaces,
                  todo : SUBSET Ifaces, ok : SUBSET Ifaces]
    /\ pin \in Ifaces \cup {None}
    /\ ownDNS \in BOOLEAN
    /\ agent \in {"down", "up", "stopping"}
    /\ net \in [bind : Ifaces \cup {None}, family : {"v4", "v6", "none"}, resolver : BOOLEAN]

NotChoosing == [step |-> "idle", auto |-> FALSE, list |-> {}, todo |-> {}, ok |-> {}]

NoNetConfig == [bind |-> None, family |-> "none", resolver |-> FALSE]

(* An agent that was never configured, or by a build that pinned no interface. *)
ChoiceInit ==
    /\ setup = NotChoosing
    /\ pin = None /\ ownDNS = FALSE
    /\ agent = "down"
    /\ net = NoNetConfig

(* Over and done with: the choice is made once. *)
Closed == [NotChoosing EXCEPT !.step = "closed"]

(* resolveConfig after chooseInterface: the interface's own DNS servers may not
   be found, and then the system's are used. *)
Save(i) ==
    /\ pin' = i
    /\ ownDNS' \in BOOLEAN
    /\ setup' = Closed

(* -interface NAME: it must be there now. *)
PickInterface(i) ==
    /\ setup.step = "idle"
    /\ agent = "down"
    /\ IF i \in ListIfaces THEN Save(i) ELSE setup' = Closed /\ UNCHANGED <<pin, ownDNS>>
    /\ UNCHANGED <<agent, net>>

(* -interface auto, or none given: every interface is listed, then probed. *)
ListAll(auto) ==
    /\ setup.step = "idle"
    /\ agent = "down"
    /\ setup' = IF ListIfaces = {} THEN Closed
                ELSE [step |-> "probing", auto |-> auto, list |-> ListIfaces,
                      todo |-> ListIfaces, ok |-> {}]
    /\ UNCHANGED <<pin, ownDNS, agent, net>>

(* A poll of the backend bound to the interface, direct and then fronted. *)
ProbeInterface(i) ==
    /\ setup.step = "probing"
    /\ i \in setup.todo
    /\ \E ok \in {{}, {i} \ {j \in Ifaces : Unavailable(j)}} :
        setup' = [setup EXCEPT !.todo = @ \ {i}, !.ok = @ \cup ok]
    /\ UNCHANGED <<pin, ownDNS, agent, net>>

(* pickDefaultInterface: physical and reachable, physical, reachable. *)
Defaults(list, ok) ==
    IF list \cap Physical \cap ok # {} THEN list \cap Physical \cap ok
    ELSE IF list \cap Physical # {} THEN list \cap Physical
    ELSE ok

(* auto takes the first of the list when nothing qualifies. *)
ChooseAuto ==
    /\ setup.step = "probing" /\ setup.todo = {} /\ setup.auto
    /\ LET best == Defaults(setup.list, setup.ok)
       IN  \E i \in IF best = {} THEN setup.list ELSE best : Save(i)
    /\ UNCHANGED <<agent, net>>

(* promptIntDefault: any number of the list; Enter takes the default. *)
ChooseByHand ==
    /\ setup.step = "probing" /\ setup.todo = {} /\ ~setup.auto
    /\ \E i \in setup.list : Save(i)
    /\ UNCHANGED <<agent, net>>

(* A closed stdin: the default if there is one, else the program exits. *)
ChooseUnattended ==
    /\ setup.step = "probing" /\ setup.todo = {} /\ ~setup.auto
    /\ LET best == Defaults(setup.list, setup.ok)
       IN  IF best = {} THEN setup' = Closed /\ UNCHANGED <<pin, ownDNS>>
           ELSE \E i \in best : Save(i)
    /\ UNCHANGED <<agent, net>>

-----------------------------------------------------------------------------

(* buildNetConfig: the interface's address is read once, for its family. *)
BuildNetConfig ==
    [bind |-> pin,
     family |-> IF pin = None THEN "none" ELSE PreferredAddr(Addrs(pin)),
     resolver |-> ownDNS]

StartAgent ==
    /\ agent = "down"
    /\ setup.step # "probing"
    /\ agent' = "up"
    /\ net' = BuildNetConfig
    /\ UNCHANGED <<setup, pin, ownDNS>>

StopAgent ==
    /\ agent = "up"
    /\ agent' = "stopping"
    /\ UNCHANGED <<setup, pin, ownDNS, net>>

ChoiceNext ==
    \/ \E i \in Ifaces : PickInterface(i) \/ ProbeInterface(i)
    \/ \E auto \in BOOLEAN : ListAll(auto)
    \/ ChooseAuto \/ ChooseByHand \/ ChooseUnattended
    \/ StartAgent \/ StopAgent
=============================================================================
