------------------------------ MODULE NetIface ------------------------------
(***************************************************************************)
(* The node's network interfaces as internal/netiface sees them.  They come   *)
(* and go while the agent runs: an adapter is removed, a cable unplugged, an  *)
(* address renewed.                                                         *)
(***************************************************************************)
EXTENDS Naturals

CONSTANTS
    Ifaces,
    Physical,       \* the interfaces backed by hardware, not a VPN or a tunnel
    NicStates,      \* what an interface may consist of: "link", "v4", "v6"
    MaxTurns        \* bound: changes of an interface

ASSUME NetIfaceAssumption ==
    /\ Physical \subseteq Ifaces
    /\ NicStates \subseteq SUBSET {"link", "v4", "v6"}
    /\ \A s \in NicStates : s # {} => "link" \in s
    /\ MaxTurns \in Nat

VARIABLES
    nic,            \* nic[i] = {} when interface i does not exist
    turns

NicTypeOK == nic \in [Ifaces -> NicStates] /\ turns \in 0..MaxTurns

NicInit == nic \in [Ifaces -> NicStates \ {{}}] /\ turns = 0

(* net.InterfaceByName *)
Exists(i) == "link" \in nic[i]

(* fromNetInterface drops an interface without an address beyond the link. *)
Addrs(i) == nic[i] \cap {"v4", "v6"}

ListIfaces == {i \in Ifaces : Addrs(i) # {}}

(* The family of the address a check is given; "none" without one. *)
PreferredAddr(addrs) ==
    IF "v4" \in addrs THEN "v4" ELSE IF "v6" \in addrs THEN "v6" ELSE "none"

(* ByName fails with ErrInterfaceUnavailable. *)
Unavailable(i) == Addrs(i) = {}

NicTurns(i) ==
    /\ turns < MaxTurns
    /\ turns' = turns + 1
    /\ \E s \in NicStates \ {nic[i]} : nic' = [nic EXCEPT ![i] = s]
=============================================================================
