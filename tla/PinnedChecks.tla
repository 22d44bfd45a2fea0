---------------------------- MODULE PinnedChecks ----------------------------
(***************************************************************************)
(* The checkers of internal/checks at work on a node whose interfaces come    *)
(* and go (InterfaceChoice), and the backend's own server-ping and upgrade    *)
(* scan, which use the same checkers without an interface.                    *)
(* A wait for the network has three ends: an answer, the deadline the check   *)
(* set for it, or the cancellation of a stopping agent.                       *)
(***************************************************************************)
EXTENDS InterfaceChoice

CONSTANTS
    Checks,
    Workloads,      \* which checks run together: types of Checks, "none" for no check
    V4, V6,         \* addresses
    Literal,        \* the address of a target given as an address
    Answers,        \* what a lookup of a name may return: it need not stay the same
    Ports,          \* free local ports
    Tries           \* params.count of a tls check, and the ports of a server ping

Kinds == {"ping", "tcp", "http", "dns", "tls", "upgrade", "vless",
          "serverping", "serverupgrade"}

ASSUME ChecksAssumption ==
    /\ V4 \cap V6 = {} /\ "name" \notin V4 \cup V6
    /\ Literal \in V4 \cup V6
    /\ Answers \subseteq SUBSET (V4 \cup V6) /\ {} \notin Answers
    /\ Workloads \subseteq [Checks -> Kinds \cup {"none"}]
    /\ Tries \in Nat \ {0}
    /\ 0 \notin Ports

VARIABLES
    check,
    bin             \* the cached xray-core binary: "absent" (or of another size), "partial", "whole"

vars == <<nic, turns, choice, check, bin>>

Local == {"byname", "resolve", "dial", "ports", "binary", "install", "port", "bind",
          "config", "spawn", "cleanup"}

Waiting == {"lookup", "connect", "handshake", "exchange", "exec", "diagnose", "wait", "download"}

Errors == {"iface", "deadline", "cancelled", "refused", "dns", "cert", "other"}

Tokens == {"network interface unavailable", "timeout", "connection refused",
           "dns resolution failed", "certificate verification failed", "connection failed",
           "no reply", "ping failed", "ip unreachable", "port unreachable", "not accepted",
           "xray", "ok", "none"}

Stages == Local \cup Waiting \cup {"idle", "done"}

Results == Tokens \cup Errors

CheckRow ==
    [kind : Kinds \cup {"none"}, target : {Literal, "name"},
     stage : Stages, fam : {"v4", "v6", "none"},
     probe : V4 \cup V6 \cup {"name"}, reported : V4 \cup V6 \cup {"none"},
     hit : SUBSET (V4 \cup V6), left : 0..Tries, ok : BOOLEAN,
     result : Results, lost : BOOLEAN, port : Ports \cup {0},
     xray : {"none", "starting", "listening"}, conf : BOOLEAN, tmp : BOOLEAN]

TypeOK ==
    /\ NicTypeOK /\ ChoiceTypeOK
    /\ check \in [Checks -> CheckRow]
    /\ bin \in {"absent", "partial", "whole"}

Unstarted(kind, target) ==
    [kind |-> kind, target |-> target, stage |-> "idle", fam |-> "none", probe |-> target,
     reported |-> "none", hit |-> {}, left |-> 0, ok |-> FALSE, result |-> "none",
     lost |-> FALSE, port |-> 0, xray |-> "none", conf |-> FALSE, tmp |-> FALSE]

(* The target of a vless check is a label. *)
Targets(kind) == IF kind \in {"dns", "vless", "none"} THEN {"name"} ELSE {Literal, "name"}

Init ==
    /\ NicInit /\ ChoiceInit
    /\ \E kind \in Workloads :
        check \in {[c \in Checks |-> Unstarted(kind[c], target[c])] :
                     target \in [Checks -> {Literal, "name"}]}
    /\ \A c \in Checks : check[c].target \in Targets(check[c].kind)
    /\ bin \in {"absent", "whole"}

-----------------------------------------------------------------------------
(* NetConfig, as the checkers use it *)

OnServer(c) == check[c].kind \in {"serverping", "serverupgrade"}

Bind(c) == IF OnServer(c) THEN None ELSE net.bind

Gone(c) == Bind(c) # None /\ ~Exists(Bind(c))

OwnDNS(c) == ~OnServer(c) /\ net.resolver

(* resolveBoundInterface would succeed. *)
Usable(c) == IF Bind(c) = None THEN TRUE ELSE ~Unavailable(Bind(c))

(* The agent's context; a request's ends with its own deadlines here. *)
Cancelled(c) == ~OnServer(c) /\ agent = "stopping"

-----------------------------------------------------------------------------
(* What is said of an error *)

MutClassifyNetError(err) ==          \* mutant: a lost interface looks like any failure
    CASE err = "deadline" -> "timeout"
      [] err = "refused"  -> "connection refused"
      [] err = "dns"      -> "dns resolution failed"
      [] err = "cert"     -> "certificate verification failed"
      [] OTHER            -> "connection failed"

ClassifyNetError(err) ==
    CASE err = "iface"    -> "network interface unavailable"
      [] err = "deadline" -> "timeout"
      [] err = "refused"  -> "connection refused"
      [] err = "dns"      -> "dns resolution failed"
      [] err = "cert"     -> "certificate verification failed"
      [] OTHER            -> "connection failed"

(* http and dns checks give the error's own text, whose cause is in it. *)
MessageOf(c, err) == IF check[c].kind \in {"http", "dns"} THEN err ELSE ClassifyNetError(err)

Unresolved(c) == check[c].target = "name" /\ check[c].reported = "none"

ClassifyPingError(c, err, recv) ==
    CASE err = "deadline" -> "timeout"
      [] err # "deadline" /\ Unresolved(c) -> "dns resolution failed"
      [] err # "deadline" /\ ~Unresolved(c) /\ recv = 0 -> "no reply"
      [] OTHER -> "ping failed"

ClassifyUnreachable(recv) == IF recv > 0 THEN "port unreachable" ELSE "ip unreachable"

-----------------------------------------------------------------------------

Frame == UNCHANGED <<nic, turns, choice, bin>>

Goto(c, stage) == check' = [check EXCEPT ![c].stage = stage]

(* Run returns; a vless check's deferred calls come after. *)
End(c, result) ==
    check' = [check EXCEPT ![c].stage = IF check[c].conf THEN "cleanup" ELSE "done",
                           ![c].result = result, ![c].left = 0, ![c].ok = FALSE]

FirstStage(kind) ==
    CASE kind = "ping" -> "byname"
      [] kind = "http" -> "dial"
      [] kind = "dns" -> "lookup"
      [] kind = "vless" -> "binary"
      [] OTHER -> "resolve"

Begin(c) ==
    /\ check[c].stage = "idle"
    /\ check' = [check EXCEPT ![c].stage = FirstStage(check[c].kind),
                              ![c].left = Tries,
                              ![c].lost = Gone(c)]
    /\ Frame

(* A job of the agent's tick. *)
Start(c) == ~OnServer(c) /\ check[c].kind # "none" /\ agent = "up" /\ Begin(c)

(* One target of a request. *)
ServerPing(c) == check[c].kind = "serverping" /\ Begin(c)

ServerUpgradeScan(c) == check[c].kind = "serverupgrade" /\ Begin(c)

(* resolveBoundInterface: the interface as it is now. *)
ResolveBoundInterface(c) ==
    /\ check[c].stage = "byname"
    /\ IF Bind(c) = None THEN Goto(c, "resolve")
       ELSE IF ~Usable(c) THEN End(c, ClassifyNetError("iface"))
       ELSE check' = [check EXCEPT ![c].stage = "resolve",
                                   ![c].fam = PreferredAddr(Addrs(Bind(c)))]
    /\ Frame

(* A ping asks for the family its interface has now, the others for the one it
   had when the agent started. *)
PreferFamily(c) ==
    IF check[c].kind = "ping" THEN check[c].fam
    ELSE IF OnServer(c) THEN "none" ELSE net.family

PickPreferredIP(ips, fam) ==
    LET like == IF fam = "v4" THEN ips \cap V4 ELSE IF fam = "v6" THEN ips \cap V6 ELSE {}
    IN  IF like # {} THEN like ELSE IF ips \cap V4 # {} THEN ips \cap V4 ELSE ips

AfterResolve(kind) ==
    CASE kind = "ping" -> "exec" [] kind = "serverping" -> "ports" [] OTHER -> "dial"

MutProbeTarget(c, ip) == check[c].target    \* mutant: the name is probed, and looked up again

ProbeTarget(c, ip) == ip

(* resolveIP: a failed lookup leaves the name to be probed. *)
ResolveIP(c) ==
    /\ check[c].stage = "resolve"
    /\ \/ Goto(c, AfterResolve(check[c].kind))
       \/ /\ check[c].target = "name"
          /\ ~(OwnDNS(c) /\ Gone(c))
          /\ \E ips \in Answers : \E ip \in PickPreferredIP(ips, PreferFamily(c)) :
                check' = [check EXCEPT ![c].stage = AfterResolve(check[c].kind),
                                       ![c].probe = ProbeTarget(c, ip), ![c].reported = ip]
    /\ Frame

-----------------------------------------------------------------------------
(* tcp, tls, http, upgrade *)

(* The tls check's loop, and its diagnosis when the error says too little. *)
Attempted(c, err) ==
    LET ok == check[c].ok \/ err = "none"
    IN  IF check[c].left > 1 /\ ~Cancelled(c)
        THEN check' = [check EXCEPT ![c].stage = "dial", ![c].ok = ok, ![c].left = @ - 1]
        ELSE IF ok THEN End(c, "ok")
        ELSE IF ClassifyNetError(err) \in {"timeout", "connection failed"} /\ ~Cancelled(c)
             THEN Goto(c, "diagnose")
             ELSE End(c, ClassifyNetError(err))

Outcome(c, err) ==
    IF check[c].kind = "tls" THEN Attempted(c, err)
    ELSE End(c, IF err = "none" THEN "ok" ELSE MessageOf(c, err))

MutDestinations(c) == {check[c].probe}     \* mutant: a name is taken for an address

Destinations(c) == IF check[c].probe = "name" THEN UNION Answers ELSE {check[c].probe}

(* Only the tcp and http dialers look a name up with the interface's resolver. *)
LookupCut(c) ==
    check[c].probe = "name" /\ check[c].kind \in {"tcp", "http"} /\ OwnDNS(c) /\ Gone(c)

(* The dialer's own lookup of a name, then Control on the new socket. *)
Dial(c) ==
    /\ check[c].stage = "dial"
    /\ \/ check[c].probe = "name" /\ Outcome(c, "dns")
       \/ ~LookupCut(c) /\ Gone(c) /\ Outcome(c, "iface")
       \/ /\ ~Gone(c)
          /\ \E a \in Destinations(c) :
                check' = [check EXCEPT ![c].stage = "connect", ![c].hit = @ \cup {a}]
    /\ Frame

AfterConnect == [tls |-> "handshake", upgrade |-> "exchange", serverupgrade |-> "exchange",
                 http |-> "exchange"]

Connect(c) ==
    /\ check[c].stage = "connect"
    /\ \/ IF check[c].kind = "tcp" THEN Outcome(c, "none")
          ELSE Goto(c, AfterConnect[check[c].kind])
       \/ \E err \in {"refused", "other"} : Outcome(c, err)
    /\ Frame

Handshake(c) ==
    /\ check[c].stage = "handshake"
    /\ \E err \in {"none", "cert", "other"} : Outcome(c, err)
    /\ Frame

(* A refusal is an answer: any status but the expected one, any but 101. *)
Exchange(c) ==
    /\ check[c].stage = "exchange"
    /\ \/ \E err \in {"none", "other"} : Outcome(c, err)
       \/ End(c, "not accepted")
    /\ Frame

(* One packet, through the interface if it is still there. *)
Diagnose(c) ==
    /\ check[c].stage = "diagnose"
    /\ \E recv \in 0..1 :
        /\ recv = 1 => Usable(c)
        /\ End(c, ClassifyUnreachable(recv))
    /\ Frame

(* dns: with the resolver of the check's params, which is bound too, the
   interface's own, or the system's. *)
Lookup(c) ==
    /\ check[c].stage = "lookup"
    /\ \E bound \in {OwnDNS(c), Bind(c) # None} :
        \E err \in {"none", "dns"} :
            /\ bound /\ Gone(c) => err = "dns"
            /\ Outcome(c, err)
    /\ Frame

(* ping: the system's program, which looks a name up by itself. *)
Exec(c) ==
    /\ check[c].stage = "exec"
    /\ \E a \in Destinations(c), recv \in 0..1, ok \in BOOLEAN :
        /\ ok => recv = 1
        /\ recv = 1 => ~Gone(c)
        /\ check' = [check EXCEPT ![c].stage = "done", ![c].hit = @ \cup {a},
               ![c].result = IF ok THEN "ok" ELSE ClassifyPingError(c, "none", recv)]
    /\ Frame

(* runServerPingTarget: each port by a tcp check, icmp by a ping check, of the
   one address. *)
ServerPort(c) ==
    /\ check[c].stage = "ports"
    /\ \E a \in Destinations(c), ok \in BOOLEAN :
        check' = [check EXCEPT
            ![c].hit = @ \cup {a}, ![c].left = @ - 1, ![c].ok = @ \/ ok,
            ![c].stage = IF check[c].left = 1 THEN "done" ELSE "ports",
            ![c].result = IF check[c].left > 1 THEN "none"
                          ELSE IF ok \/ check[c].ok THEN "ok" ELSE "not accepted"]
    /\ Frame

-----------------------------------------------------------------------------
(* vless *)

(* A file of the right size is taken for the binary. *)
EnsureXrayBinary(c) ==
    /\ check[c].stage = "binary"
    /\ \/ bin = "whole" /\ Goto(c, "port")
       \/ bin # "whole" /\ check' = [check EXCEPT ![c].stage = "install", ![c].tmp = TRUE]
       \/ End(c, "xray")
    /\ Frame

MutWriteBinary(c) ==       \* mutant: written where it is run from
    \/ bin' = "partial" /\ UNCHANGED check
    \/ bin' = "whole" /\ check' = [check EXCEPT ![c].stage = "port", ![c].tmp = FALSE]

(* The whole temporary file is renamed; on a failure it is removed. *)
WriteBinary(c) ==
    \/ bin' = "whole" /\ check' = [check EXCEPT ![c].stage = "port", ![c].tmp = FALSE]
    \/ /\ UNCHANGED bin
       /\ check' = [check EXCEPT ![c].stage = "done", ![c].result = "xray", ![c].tmp = FALSE]

InstallBinary(c) ==
    /\ check[c].stage = "install"
    /\ WriteBinary(c)
    /\ UNCHANGED <<nic, turns, choice>>

Listening(p) == \E c \in Checks : check[c].xray = "listening" /\ check[c].port = p

(* The port is free again as soon as it is chosen. *)
FreePort(c) ==
    /\ check[c].stage = "port"
    /\ \/ \E p \in {q \in Ports : ~Listening(q)} :
            check' = [check EXCEPT ![c].stage = "bind", ![c].port = p]
       \/ End(c, "xray")
    /\ Frame

SendThrough(c) ==
    /\ check[c].stage = "bind"
    /\ IF ~Usable(c) THEN End(c, ClassifyNetError("iface"))
       ELSE Goto(c, "config")
    /\ Frame

(* patchInbound, writeTempConfig *)
WriteTempConfig(c) ==
    /\ check[c].stage = "config"
    /\ \/ check' = [check EXCEPT ![c].stage = "spawn", ![c].conf = TRUE]
       \/ End(c, "xray")
    /\ Frame

Spawn(c) ==
    /\ check[c].stage = "spawn"
    /\ \/ check' = [check EXCEPT ![c].stage = "wait", ![c].xray = "starting"]
       \/ End(c, "xray")
    /\ Frame

(* xray-core opens its listener, or exits if it cannot. *)
XrayRuns(c) ==
    /\ check[c].xray = "starting"
    /\ check' = [check EXCEPT ![c].xray =
                     IF Listening(check[c].port) THEN "none" ELSE "listening"]
    /\ Frame

XrayExits(c) ==
    /\ check[c].xray # "none"
    /\ check[c].stage # "cleanup"
    /\ check' = [check EXCEPT ![c].xray = "none"]
    /\ Frame

(* Any listener on the port will do. *)
WaitForPort(c) ==
    /\ check[c].stage = "wait"
    /\ Listening(check[c].port)
    /\ Goto(c, "download")
    /\ Frame

RunSpeedTest(c) ==
    /\ check[c].stage = "download"
    /\ \E err \in {"none", "refused", "other"} : Outcome(c, err)
    /\ Frame

(* The deferred kill and remove. *)
Left(c) == [check[c] EXCEPT !.stage = "done", !.xray = "none", !.conf = FALSE, !.port = 0]

Cleanup(c) ==
    /\ check[c].stage = "cleanup"
    /\ check' = [check EXCEPT ![c] = Left(c)]
    /\ Frame

-----------------------------------------------------------------------------
(* Deadlines and cancellation *)

MutBounded == Waiting \ {"handshake"}      \* mutant: HandshakeContext with the caller's context

(* The waits a check gives a deadline: every one, each checker its own (tcp.go:37,
   http.go:42, dns.go:43 and 49, tls.go:66, 91 and 173, upgrade.go:67 and 79,
   ping.go:76, vless.go:94 and 347, checks.go:142). *)
Bounded == Waiting

GivesUp(c, err) ==
    CASE check[c].stage = "exec" -> End(c, ClassifyPingError(c, err, 0))
      [] check[c].stage = "diagnose" -> End(c, ClassifyUnreachable(0))
      [] check[c].stage = "wait" -> End(c, "xray")
      [] OTHER -> Outcome(c, err)

Expire(c) ==
    /\ check[c].stage \in Bounded
    /\ GivesUp(c, "deadline")
    /\ Frame

(* A download cut short by its own time limit is a measurement. *)
DownloadCapped(c) ==
    /\ check[c].stage = "download"
    /\ End(c, "ok")
    /\ Frame

Cancel(c) ==
    /\ Cancelled(c)
    /\ check[c].stage \in Waiting
    /\ GivesUp(c, "cancelled")
    /\ Frame

(* Stop waits for the checks under way: ten seconds, and they end at once. *)
AgentEnds ==
    /\ agent = "stopping"
    /\ \A c \in Checks : OnServer(c) \/ check[c].stage \in {"idle", "done"}
    /\ agent' = "down" /\ net' = NoNetConfig
    /\ UNCHANGED <<nic, turns, setup, pin, ownDNS, check, bin>>

(* check[c].lost: its interface has been gone ever since it began. *)
Turn(i) ==
    /\ NicTurns(i)
    /\ check' = [c \in Checks |-> [check[c] EXCEPT !.lost = @ /\ (Bind(c) = i => ~Exists(i)')]]
    /\ UNCHANGED <<choice, bin>>

-----------------------------------------------------------------------------

LocalStep(c) ==
    \/ ResolveBoundInterface(c) \/ ResolveIP(c) \/ Dial(c) \/ ServerPort(c)
    \/ EnsureXrayBinary(c) \/ InstallBinary(c) \/ FreePort(c) \/ SendThrough(c)
    \/ WriteTempConfig(c) \/ Spawn(c) \/ WaitForPort(c) \/ Cleanup(c)

Answer(c) ==
    \/ Connect(c) \/ Handshake(c) \/ Exchange(c) \/ Diagnose(c) \/ Lookup(c) \/ Exec(c)
    \/ XrayRuns(c) \/ XrayExits(c) \/ RunSpeedTest(c) \/ DownloadCapped(c)

Next ==
    \/ ChoiceNext /\ UNCHANGED <<nic, turns, check, bin>>
    \/ \E i \in Ifaces : Turn(i)
    \/ \E c \in Checks : Start(c) \/ ServerPing(c) \/ ServerUpgradeScan(c)
    \/ \E c \in Checks : LocalStep(c) \/ Answer(c) \/ Expire(c) \/ Cancel(c)
    \/ AgentEnds

Spec == Init /\ [][Next]_vars

(* The program's own steps and timers happen; an answer may never come. *)
Fairness == \A c \in Checks : WF_vars(LocalStep(c)) /\ WF_vars(Expire(c))

FairSpec == Spec /\ Fairness

-----------------------------------------------------------------------------
(* Safety *)

NamesTheInterface(result) == result \in {"network interface unavailable", "iface"}

(* A check that ran from beginning to end without the interface it is pinned to
   says so, and blames neither its target nor the target's DNS: given an
   address, or for ping and vless always (a name would be looked up first). *)
LostInterfaceIsNamed ==
    [][\A c \in Checks :
        /\ check[c].stage # "done" /\ check'[c].stage = "done"
        /\ check'[c].lost /\ agent = "up"
        /\ check[c].target = Literal \/ check[c].kind \in {"ping", "vless"}
        /\ check[c].kind # "dns"
        => NamesTheInterface(check'[c].result) \/ check'[c].result = "xray"]_vars

(* The address a result reports is the one every probe of that check went to,
   however the name's answers change meanwhile. *)
ReportedIsProbed ==
    \A c \in Checks : check[c].reported # "none" => check[c].hit \subseteq {check[c].reported}

WholeXray == \A c \in Checks : check[c].stage = "spawn" => bin = "whole"

NothingLeft ==
    \A c \in Checks : check[c].stage \in {"idle", "done"} =>
        check[c].xray = "none" /\ ~check[c].conf /\ ~check[c].tmp

(* xray-core never runs from a half-written file, even when two vless checks
   install it at once, and whatever way a check ends, its process is dead and
   its temporary files are gone. *)
XrayIsKeptInHand == WholeXray /\ NothingLeft

(* Liveness *)

Active(c) == check[c].stage \notin {"idle", "done"}

(* Checks that have begun end, though no peer ever answers: each holds one of the
   node's concurrency slots.  A check begins once, so a moment must come when none
   is under way. *)
CheckEnds == (\E c \in Checks : Active(c)) ~> (\A c \in Checks : ~Active(c))
-----------------------------------------------------------------------------
(* The inductive invariant behind the safety properties (PinnedChecksProofs). *)

(* The stages a check of a kind goes through. *)
Course(kind) ==
    CASE kind = "ping" -> {"byname", "resolve", "exec"}
      [] kind = "tcp" -> {"resolve", "dial", "connect"}
      [] kind = "http" -> {"dial", "connect", "exchange"}
      [] kind = "dns" -> {"lookup"}
      [] kind = "tls" -> {"resolve", "dial", "connect", "handshake", "diagnose"}
      [] kind \in {"upgrade", "serverupgrade"} -> {"resolve", "dial", "connect", "exchange"}
      [] kind = "vless" -> {"binary", "install", "port", "bind", "config", "spawn", "wait",
                            "download", "cleanup"}
      [] kind = "serverping" -> {"resolve", "ports"}
      [] OTHER -> {}

KeepsCourse(c) ==
    /\ Active(c) => check[c].stage \in Course(check[c].kind)
    /\ Active(c) /\ check[c].stage # "cleanup" => check[c].left > 0
    /\ check[c].stage = "idle" => ~check[c].ok

(* Nothing is probed before the address is settled, nor anything but it after. *)
ProbeIsSettled(c) ==
    /\ check[c].stage \in {"idle", "byname", "resolve"} => check[c].hit = {}
    /\ check[c].reported # "none" =>
          check[c].probe = check[c].reported /\ check[c].hit \subseteq {check[c].reported}
    /\ check[c].target = Literal => check[c].probe = Literal

(* What a vless check leaves behind unless it cleans up, stage by stage. *)
FilesFitStage(c) ==
    /\ check[c].tmp <=> check[c].stage = "install"
    /\ check[c].conf <=> check[c].stage \in {"spawn", "wait", "download", "cleanup"}
    /\ check[c].xray # "none" => check[c].stage \in {"wait", "download", "cleanup"}
    /\ check[c].stage \in {"port", "bind", "config", "spawn"} => bin = "whole"

(* How far a check gets without its interface. *)
LostStage(c) ==
    CASE check[c].kind = "ping" -> check[c].stage = "byname"
      [] check[c].kind = "vless" -> check[c].stage \in {"binary", "install", "port", "bind"}
      [] OTHER -> check[c].target = Literal /\ check[c].kind # "dns" =>
                     check[c].stage \in {"resolve", "dial"} /\ ~check[c].ok

LostIsStuck(c) ==
    /\ Active(c) => OnServer(c) \/ agent # "down"
    /\ Active(c) /\ check[c].lost => Gone(c) /\ LostStage(c)

IInv == /\ TypeOK
        /\ \A c \in Checks : /\ KeepsCourse(c) /\ ProbeIsSettled(c)
                             /\ FilesFitStage(c) /\ LostIsStuck(c)
=============================================================================
