------------------------- MODULE PinnedChecksProofs -------------------------
(***************************************************************************)
(* The safety of PinnedChecks, for any interfaces, workloads, addresses and   *)
(* numbers of tries.  Every step but a turn of the network and the agent's    *)
(* own is one check's: OneCheck leaves only that check to look at.            *)
(***************************************************************************)
EXTENDS PinnedChecks, TLAPS

Fits(c) == KeepsCourse(c) /\ ProbeIsSettled(c) /\ FilesFitStage(c) /\ LostIsStuck(c)

(* A step of c: it stays the check it is, and no other is disturbed. *)
StepOf(c) ==
    /\ check' \in [Checks -> CheckRow]
    /\ \A d \in Checks : d # c => check'[d] = check[d]
    /\ check'[c].kind = check[c].kind /\ check'[c].target = check[c].target
    /\ UNCHANGED <<nic, turns, choice>>
    /\ bin' = bin \/ bin' = "whole"

-----------------------------------------------------------------------------
(* The network and the operator's choice *)

LEMMA ConstantsFit ==
    /\ Literal \in V4 \cup V6 /\ Literal # "name" /\ "name" \notin V4 \cup V6
    /\ \A ips \in Answers : ips \subseteq V4 \cup V6
    /\ Tries \in Nat \ {0} /\ 0 \in 0..Tries /\ Tries \in 0..Tries
BY ChecksAssumption

(* An interface that does not exist cannot be used. *)
LEMMA GoneUnusable ==
    ASSUME TypeOK, NEW c \in Checks, Gone(c)
    PROVE  ~Usable(c)
<1>1. Bind(c) \in Ifaces /\ Bind(c) # None
  BY DEF TypeOK, ChoiceTypeOK, Gone, Bind
<1>2. nic[Bind(c)] = {}
  BY <1>1, NetIfaceAssumption DEF TypeOK, NicTypeOK, Gone, Exists
<1> QED
  BY <1>1, <1>2 DEF Usable, Unavailable, Addrs

LEMMA ChoiceTypes == TypeOK /\ ChoiceNext => ChoiceTypeOK'
<1> SUFFICES ASSUME TypeOK, ChoiceNext PROVE ChoiceTypeOK'
  OBVIOUS
<1> USE DEF TypeOK, ChoiceTypeOK
<1>1. /\ NotChoosing \in [step : {"idle", "probing", "closed"}, auto : BOOLEAN, list : SUBSET Ifaces,
                         todo : SUBSET Ifaces, ok : SUBSET Ifaces]
      /\ Closed \in [step : {"idle", "probing", "closed"}, auto : BOOLEAN, list : SUBSET Ifaces,
                     todo : SUBSET Ifaces, ok : SUBSET Ifaces]
  BY DEF NotChoosing, Closed
<1>2. ListIfaces \subseteq Ifaces
  BY DEF ListIfaces
<1>3. ASSUME NEW i \in Ifaces, Save(i), UNCHANGED <<agent, net>> PROVE ChoiceTypeOK'
  BY <1>1, <1>3 DEF Save
<1>4. ASSUME NEW i \in Ifaces, PickInterface(i) PROVE ChoiceTypeOK'
  BY <1>1, <1>3, <1>4 DEF PickInterface
<1>5. ASSUME NEW i \in Ifaces, ProbeInterface(i) PROVE ChoiceTypeOK'
  BY <1>5, ZenonT(30) DEF ProbeInterface
<1>6. ASSUME NEW auto \in BOOLEAN, ListAll(auto) PROVE ChoiceTypeOK'
  BY <1>1, <1>2, <1>6 DEF ListAll
<1>7. \A list, ok : list \subseteq Ifaces /\ ok \subseteq Ifaces => Defaults(list, ok) \subseteq Ifaces
  BY DEF Defaults
<1>8. CASE ChooseAuto
  BY <1>3, <1>7, <1>8 DEF ChooseAuto
<1>9. CASE ChooseByHand
  BY <1>3, <1>9 DEF ChooseByHand
<1>10. CASE ChooseUnattended
  BY <1>1, <1>3, <1>7, <1>10 DEF ChooseUnattended
<1>11. CASE StartAgent
  BY <1>11 DEF StartAgent, BuildNetConfig, PreferredAddr
<1>12. CASE StopAgent
  BY <1>12 DEF StopAgent
<1> QED
  BY <1>4, <1>5, <1>6, <1>8, <1>9, <1>10, <1>11, <1>12 DEF ChoiceNext

-----------------------------------------------------------------------------
(* One check at a time *)

LEMMA OneCheck ==
    ASSUME IInv, NEW c \in Checks, StepOf(c), Fits(c)'
    PROVE  IInv'
<1>1. TypeOK'
  BY DEF StepOf, IInv, TypeOK, NicTypeOK, ChoiceTypeOK, choice
<1>2. ASSUME NEW d \in Checks, d # c PROVE Fits(d)'
  <2>1. check'[d] = check[d] /\ UNCHANGED <<nic, agent, net>> /\ (bin' = bin \/ bin' = "whole")
    BY <1>2 DEF StepOf, choice
  <2>2. Fits(d)
    BY DEF IInv, Fits
  <2>3. KeepsCourse(d)' /\ ProbeIsSettled(d)' /\ FilesFitStage(d)'
    BY <2>1, <2>2 DEF Fits, KeepsCourse, Active, ProbeIsSettled, FilesFitStage
  <2>4. LostIsStuck(d)'
    BY <2>1, <2>2 DEF Fits, LostIsStuck, LostStage, Active, OnServer, Gone, Bind, Exists
  <2> QED
    BY <2>3, <2>4 DEF Fits
<1> QED
  BY <1>1, <1>2 DEF IInv, Fits

(* What of the invariant a check's own row decides. *)
RowFits(row) ==
    /\ row.stage \in Course(row.kind) \cup {"done"}
    /\ row.stage \notin {"cleanup", "done"} => row.left > 0
    /\ row.stage \in {"byname", "resolve"} => row.hit = {}
    /\ row.reported # "none" => row.probe = row.reported /\ row.hit \subseteq {row.reported}
    /\ row.target = Literal => row.probe = Literal
    /\ row.tmp <=> row.stage = "install"
    /\ row.conf <=> row.stage \in {"spawn", "wait", "download", "cleanup"}
    /\ row.xray # "none" => row.stage \in {"wait", "download", "cleanup"}

(* A check that moves on within its course, or ends. *)
LEMMA MovedOn ==
    ASSUME IInv, NEW c \in Checks, OnServer(c) \/ agent # "down", NEW row \in CheckRow,
           check' = [check EXCEPT ![c] = row],
           UNCHANGED <<nic, turns, choice>>, bin' = bin \/ bin' = "whole",
           row.kind = check[c].kind, row.target = check[c].target, RowFits(row),
           row.stage \in {"port", "bind", "config", "spawn"} => bin' = "whole",
           row.lost /\ row.stage # "done" => Gone(c) /\ LostStage(c)'
    PROVE  IInv'
<1>1. /\ check'[c] = row /\ \A d \in Checks : d # c => check'[d] = check[d]
      /\ check' \in [Checks -> CheckRow]
  BY DEF IInv, TypeOK
<1>2. UNCHANGED <<agent, net>>
  BY DEF choice
<1>3. StepOf(c)
  BY <1>1 DEF StepOf
<1>4. row.stage # "idle"
  BY DEF RowFits, Course
<1>5. KeepsCourse(c)'
  BY <1>1, <1>4 DEF RowFits, KeepsCourse, Active
<1>6. ProbeIsSettled(c)'
  BY <1>1, <1>4 DEF RowFits, ProbeIsSettled
<1>7. FilesFitStage(c)'
  BY <1>1 DEF RowFits, FilesFitStage
<1>8. LostIsStuck(c)'
  <2>1. (OnServer(c)' <=> OnServer(c)) /\ (Gone(c)' <=> Gone(c))
    BY <1>1, <1>2 DEF OnServer, Gone, Bind, Exists
  <2> QED
    BY <1>1, <1>2, <2>1 DEF LostIsStuck, Active
<1> QED
  BY <1>3, <1>5, <1>6, <1>7, <1>8, OneCheck DEF Fits

(* What the invariant says of a check under way. *)
LEMMA UnderWay ==
    ASSUME IInv, NEW c \in Checks, Active(c)
    PROVE  /\ check[c] \in CheckRow /\ Fits(c) /\ RowFits(check[c])
           /\ OnServer(c) \/ agent # "down"
           /\ check[c].stage \in Course(check[c].kind)
           /\ check[c].lost => Gone(c) /\ LostStage(c)
           /\ check[c].conf => check[c].kind = "vless" /\ ~check[c].lost
<1>1. check[c] \in CheckRow /\ Fits(c)
  BY DEF IInv, TypeOK, Fits
<1>2. check[c].stage \notin {"idle", "done"} /\ check[c].stage \in Course(check[c].kind)
  BY <1>1 DEF Active, Fits, KeepsCourse
<1>3. RowFits(check[c])
  BY <1>1, <1>2 DEF RowFits, Fits, KeepsCourse, ProbeIsSettled, FilesFitStage, Active
<1>4. /\ OnServer(c) \/ agent # "down"
      /\ check[c].lost => Gone(c) /\ LostStage(c)
  BY <1>1 DEF Fits, LostIsStuck
<1>5. check[c].conf => check[c].kind = "vless" /\ ~check[c].lost
  BY <1>2, <1>3, <1>4 DEF RowFits, Course, LostStage
<1> QED
  BY <1>1, <1>2, <1>3, <1>4, <1>5

(* Run returns: what it left behind goes with it, or its cleanup is due. *)
LEMMA EndFits ==
    ASSUME IInv, NEW c \in Checks, Active(c), check[c].stage \notin {"install", "cleanup"},
           NEW result \in Results, End(c, result), Frame
    PROVE  IInv'
<1> DEFINE stage == IF check[c].conf THEN "cleanup" ELSE "done"
           row == [check[c] EXCEPT !.stage = stage, !.result = result, !.left = 0, !.ok = FALSE]
<1>1. check' = [check EXCEPT ![c] = row]
  BY DEF End
<1>2. stage \in Stages /\ 0 \in 0..Tries
  BY ConstantsFit DEF Stages, Local
<1>3. stage = IF check[c].conf THEN "cleanup" ELSE "done"
  OBVIOUS
<1> HIDE DEF stage
<1>4. row \in CheckRow
  <2>1. check[c] \in CheckRow
    BY UnderWay
  <2> QED
    BY <1>2, <2>1, ZenonT(30) DEF CheckRow
<1>5. /\ row.kind = check[c].kind /\ row.target = check[c].target
      /\ row.probe = check[c].probe /\ row.reported = check[c].reported /\ row.hit = check[c].hit
      /\ row.lost = check[c].lost /\ row.xray = check[c].xray
      /\ row.conf = check[c].conf /\ row.tmp = check[c].tmp
      /\ row.stage = stage
  BY UnderWay DEF CheckRow
<1> HIDE DEF row
<1>6. RowFits(row)
  BY <1>3, <1>5, UnderWay DEF RowFits, Course
<1>7. ~row.lost \/ row.stage = "done"
  BY <1>3, <1>5, UnderWay
<1> QED
  BY <1>1, <1>3, <1>4, <1>5, <1>6, <1>7, UnderWay, MovedOn DEF Frame

(* The next stage of its course, and nothing else. *)
LEMMA GotoFits ==
    ASSUME IInv, NEW c \in Checks, Active(c), check[c].stage \notin {"install", "cleanup"},
           NEW stage \in Course(check[c].kind) \ {"byname", "install", "spawn", "cleanup"},
           Goto(c, stage), Frame,
           stage \in {"wait", "download"} <=> check[c].stage \in {"spawn", "wait", "download"},
           stage = "resolve" => check[c].stage = "byname",
           stage \in {"port", "bind", "config"} => bin = "whole",
           check[c].lost => LostStage(c)'
    PROVE  IInv'
<1> DEFINE row == [check[c] EXCEPT !.stage = stage]
<1>1. check' = [check EXCEPT ![c] = row]
  BY DEF Goto
<1>2. stage \in Stages
  BY DEF Stages, Local, Waiting, Course
<1>3. row \in CheckRow
  BY <1>2, UnderWay DEF CheckRow
<1>4. /\ row.kind = check[c].kind /\ row.target = check[c].target
      /\ row.probe = check[c].probe /\ row.reported = check[c].reported /\ row.hit = check[c].hit
      /\ row.lost = check[c].lost /\ row.xray = check[c].xray /\ row.left = check[c].left
      /\ row.conf = check[c].conf /\ row.tmp = check[c].tmp
      /\ row.stage = stage
  BY UnderWay DEF CheckRow
<1> HIDE DEF row
<1>5. RowFits(row)
  BY <1>4, UnderWay DEF RowFits, Course, Active
<1> QED
  BY <1>1, <1>3, <1>4, <1>5, UnderWay, MovedOn DEF Frame

-----------------------------------------------------------------------------
(* What an answer, or the lack of one, makes of a check *)

LEMMA TokensAreResults ==
    ASSUME NEW c \in Checks, NEW err \in Errors \cup {"none"}
    PROVE  /\ ClassifyNetError(err) \in Results /\ MessageOf(c, err) \in Results
           /\ {"ok", "xray", "not accepted", "none"} \subseteq Results
BY DEF ClassifyNetError, MessageOf, Results, Tokens, Errors

Attempting == {"dial", "connect", "handshake", "exchange", "lookup", "download"}

LEMMA OutcomeFits ==
    ASSUME IInv, NEW c \in Checks, check[c].stage \in Attempting,
           NEW err \in Errors \cup {"none"}, Outcome(c, err), Frame,
           check[c].kind = "tls" /\ check[c].target = Literal /\ check[c].lost => err = "iface"
    PROVE  IInv'
<1>1. Active(c) /\ check[c].stage \notin {"install", "cleanup"}
  BY DEF Active, Attempting
<1>2. ASSUME NEW result \in Results, End(c, result) PROVE IInv'
  BY <1>1, <1>2, EndFits
<1>3. CASE check[c].kind # "tls"
  BY <1>2, <1>3, TokensAreResults DEF Outcome
<1>4. CASE check[c].kind = "tls"
  <2>1. /\ check[c] \in CheckRow /\ check[c].left \in 1..Tries
        /\ check[c].stage \in {"dial", "connect", "handshake"}
    BY <1>1, <1>4, UnderWay DEF CheckRow, RowFits, Attempting, Course
  <2> DEFINE ok == check[c].ok \/ err = "none"
             row == [check[c] EXCEPT !.stage = "dial", !.ok = ok, !.left = check[c].left - 1]
  <2>2. CASE check[c].left > 1 /\ check' = [check EXCEPT ![c] = row]
    <3>1. "dial" \in Stages /\ check[c].left - 1 \in 0..Tries /\ check[c].left - 1 > 0
          /\ ok \in BOOLEAN /\ (ok => check[c].ok \/ err = "none")
      BY <2>1, <2>2, ConstantsFit DEF Stages, Local, CheckRow
    <3> HIDE DEF ok
    <3>2. row \in CheckRow
      BY <2>1, <3>1, ZenonT(30) DEF CheckRow
    <3>3. /\ row.kind = check[c].kind /\ row.target = check[c].target
          /\ row.probe = check[c].probe /\ row.reported = check[c].reported
          /\ row.hit = check[c].hit /\ row.lost = check[c].lost /\ row.xray = check[c].xray
          /\ row.conf = check[c].conf /\ row.tmp = check[c].tmp
          /\ row.stage = "dial" /\ row.ok = ok /\ row.left = check[c].left - 1
      BY <2>1 DEF CheckRow
    <3> HIDE DEF row
    <3>4. RowFits(row)
      BY <1>1, <1>4, <2>1, <3>1, <3>3, UnderWay DEF RowFits, Course
    <3>5. check'[c] = row
      BY <2>2 DEF IInv, TypeOK
    <3>6. row.lost => Gone(c) /\ LostStage(c)'
      <4>1. row.lost => Gone(c) /\ LostStage(c)
        BY <1>1, <3>3, UnderWay
      <4>2. row.lost /\ row.target = Literal => ~ok
        BY <1>4, <3>1, <3>3, <4>1 DEF LostStage
      <4> QED
        BY <1>4, <3>3, <3>5, <4>1, <4>2 DEF LostStage
    <3> QED
      BY <1>1, <2>2, <3>2, <3>3, <3>4, <3>6, UnderWay, MovedOn DEF Frame
  <2>3. CASE Goto(c, "diagnose") /\ ClassifyNetError(err) \in {"timeout", "connection failed"}
    <3>1. ~(check[c].target = Literal /\ check[c].lost)
      BY <1>4, <2>3 DEF ClassifyNetError
    <3>2. check'[c].kind = "tls" /\ check'[c].target = check[c].target
      BY <1>4, <2>1, <2>3 DEF Goto, IInv, TypeOK, CheckRow
    <3>3. check[c].lost => LostStage(c)'
      BY <3>1, <3>2 DEF LostStage
    <3> QED
      BY <1>1, <1>4, <2>1, <2>3, <3>3, GotoFits DEF Course
  <2>4. Attempted(c, err)
    BY <1>4 DEF Outcome
  <2>5. CASE check[c].left > 1 /\ ~Cancelled(c)
    <3>1. check' = [check EXCEPT ![c].stage = "dial", ![c].ok = ok, ![c].left = @ - 1]
      BY <2>4, <2>5 DEF Attempted
    <3> QED
      BY <2>2, <2>5, <3>1
  <2>6. CASE ~(check[c].left > 1 /\ ~Cancelled(c))
    <3>1. \/ End(c, "ok") \/ End(c, ClassifyNetError(err))
          \/ Goto(c, "diagnose") /\ ClassifyNetError(err) \in {"timeout", "connection failed"}
      BY <2>4, <2>6 DEF Attempted
    <3> QED
      BY <1>2, <2>3, <3>1, TokensAreResults
  <2> QED
    BY <2>5, <2>6
<1> QED
  BY <1>3, <1>4

(* A wait given up. *)
LEMMA GivesUpFits ==
    ASSUME IInv, NEW c \in Checks, check[c].stage \in Waiting,
           NEW err \in {"deadline", "cancelled"}, GivesUp(c, err), Frame
    PROVE  IInv'
<1>1. Active(c) /\ check[c].stage \notin {"install", "cleanup"} /\ err \in Errors
  BY DEF Active, Waiting, Errors
<1>2. CASE check[c].stage \in {"exec", "diagnose", "wait"}
  <2>1. \/ End(c, ClassifyPingError(c, err, 0)) \/ End(c, ClassifyUnreachable(0)) \/ End(c, "xray")
    BY <1>2 DEF GivesUp
  <2>2. /\ ClassifyPingError(c, err, 0) \in Results /\ ClassifyUnreachable(0) \in Results
        /\ "xray" \in Results
    BY DEF ClassifyPingError, ClassifyUnreachable, Results, Tokens
  <2>3. \E result \in Results : End(c, result)
    BY <2>1, <2>2
  <2> QED
    BY <1>1, <2>3, EndFits
<1>3. CASE check[c].stage \notin {"exec", "diagnose", "wait"}
  <2>1. Outcome(c, err) /\ check[c].stage \in Attempting
    BY <1>3 DEF GivesUp, Waiting, Attempting
  <2>2. ~(check[c].kind = "tls" /\ check[c].target = Literal /\ check[c].lost)
    BY <1>1, UnderWay DEF LostStage, Waiting
  <2> QED
    BY <1>1, <2>1, <2>2, OutcomeFits
<1> QED
  BY <1>2, <1>3

-----------------------------------------------------------------------------
(* The checks' steps *)

LEMMA BeginFits ==
    ASSUME IInv, NEW c \in Checks, check[c].kind # "none", OnServer(c) \/ agent = "up", Begin(c)
    PROVE  IInv'
<1> DEFINE row == [check[c] EXCEPT !.stage = FirstStage(check[c].kind), !.left = Tries,
                                   !.lost = Gone(c)]
<1>1. check' = [check EXCEPT ![c] = row]
  BY DEF Begin
<1>2. check[c] \in CheckRow /\ Fits(c) /\ check[c].stage = "idle"
  BY DEF Begin, IInv, TypeOK, Fits
<1>3. /\ FirstStage(check[c].kind) \in Stages /\ FirstStage(check[c].kind) \in Course(check[c].kind)
      /\ FirstStage(check[c].kind) \notin {"install", "port", "bind", "config", "spawn", "wait",
                                           "download", "cleanup"}
  BY <1>2 DEF FirstStage, Stages, Local, Waiting, Course, CheckRow, Kinds
<1>4. Gone(c) \in BOOLEAN /\ Tries \in 0..Tries /\ Tries > 0
  BY ConstantsFit DEF Gone
<1>5. row \in CheckRow
  BY <1>2, <1>3, <1>4 DEF CheckRow
<1>6. /\ row.kind = check[c].kind /\ row.target = check[c].target
      /\ row.probe = check[c].probe /\ row.reported = check[c].reported
      /\ row.hit = check[c].hit /\ row.xray = check[c].xray /\ row.ok = check[c].ok
      /\ row.conf = check[c].conf /\ row.tmp = check[c].tmp
      /\ row.stage = FirstStage(check[c].kind) /\ row.left = Tries /\ row.lost = Gone(c)
  BY <1>2 DEF CheckRow
<1> HIDE DEF row
<1>7. RowFits(row)
  BY <1>2, <1>3, <1>4, <1>6 DEF RowFits, Fits, ProbeIsSettled, FilesFitStage
<1>8. check'[c] = row
  BY <1>1 DEF IInv, TypeOK
<1>9. row.lost => Gone(c) /\ LostStage(c)'
  BY <1>2, <1>6, <1>8 DEF LostStage, FirstStage, Fits, KeepsCourse
<1> QED
  BY <1>1, <1>3, <1>5, <1>6, <1>7, <1>9, MovedOn DEF Begin, Frame

LEMMA ResolveBoundInterfaceFits ==
    ASSUME IInv, NEW c \in Checks, ResolveBoundInterface(c)
    PROVE  IInv'
<1>1. /\ Active(c) /\ check[c].stage = "byname" /\ check[c] \in CheckRow
      /\ check[c].kind = "ping" /\ Frame
  BY UnderWay DEF ResolveBoundInterface, Active, Course
<1>2. CASE End(c, ClassifyNetError("iface"))
  <2>1. ClassifyNetError("iface") \in Results
    BY TokensAreResults DEF Errors
  <2> QED
    BY <1>1, <1>2, <2>1, EndFits
<1>3. CASE Usable(c) /\ check' = [check EXCEPT ![c].stage = "resolve",
                                               ![c].fam = PreferredAddr(Addrs(Bind(c)))]
  <2> DEFINE row == [check[c] EXCEPT !.stage = "resolve", !.fam = PreferredAddr(Addrs(Bind(c)))]
  <2>1. check' = [check EXCEPT ![c] = row]
    BY <1>3
  <2>2. "resolve" \in Stages /\ PreferredAddr(Addrs(Bind(c))) \in {"v4", "v6", "none"}
    BY DEF Stages, Local, PreferredAddr
  <2>3. row \in CheckRow
    BY <1>1, <2>2 DEF CheckRow
  <2>4. /\ row.kind = check[c].kind /\ row.target = check[c].target
        /\ row.probe = check[c].probe /\ row.reported = check[c].reported
        /\ row.hit = check[c].hit /\ row.xray = check[c].xray /\ row.left = check[c].left
        /\ row.conf = check[c].conf /\ row.tmp = check[c].tmp /\ row.lost = check[c].lost
        /\ row.stage = "resolve"
    BY <1>1 DEF CheckRow
  <2> HIDE DEF row
  <2>5. RowFits(row)
    BY <1>1, <2>4, UnderWay DEF RowFits, Course
  <2>6. ~row.lost
    BY <1>1, <1>3, <2>4, UnderWay, GoneUnusable DEF IInv
  <2> QED
    BY <1>1, <2>1, <2>3, <2>4, <2>5, <2>6, UnderWay, MovedOn DEF Frame
<1>4. CASE Bind(c) = None /\ Goto(c, "resolve")
  <2>1. ~check[c].lost
    BY <1>1, <1>4, UnderWay DEF Gone
  <2> QED
    BY <1>1, <1>4, <2>1, GotoFits DEF Course
<1> QED
  BY <1>2, <1>3, <1>4 DEF ResolveBoundInterface

LEMMA ResolveIPFits ==
    ASSUME IInv, NEW c \in Checks, ResolveIP(c)
    PROVE  IInv'
<1>1. /\ Active(c) /\ check[c].stage = "resolve" /\ check[c] \in CheckRow /\ Frame
      /\ check[c].kind \in {"ping", "tcp", "tls", "upgrade", "serverupgrade", "serverping"}
  BY UnderWay DEF ResolveIP, Active, Course
<1>2. /\ AfterResolve(check[c].kind) \in Course(check[c].kind) \cap {"exec", "ports", "dial"}
      /\ AfterResolve(check[c].kind) \in Stages
  BY <1>1 DEF AfterResolve, Course, Stages, Local, Waiting
<1>3. check[c].lost => check[c].kind \in {"tcp", "tls", "upgrade"}
  BY <1>1, UnderWay DEF LostStage, Gone, Bind, OnServer
<1>4. check[c].kind \in {"tcp", "tls", "upgrade"} => AfterResolve(check[c].kind) = "dial"
  BY DEF AfterResolve
<1>5. CASE Goto(c, AfterResolve(check[c].kind))
  <2>1. /\ check'[c].kind = check[c].kind /\ check'[c].target = check[c].target
        /\ check'[c].ok = check[c].ok /\ check'[c].stage = AfterResolve(check[c].kind)
    BY <1>1, <1>5 DEF Goto, IInv, TypeOK, CheckRow
  <2>2. check[c].lost => LostStage(c)'
    BY <1>1, <1>3, <1>4, <2>1, UnderWay DEF LostStage
  <2> QED
    BY <1>1, <1>2, <1>5, <2>2, GotoFits
<1>6. ASSUME check[c].target = "name", NEW ips \in Answers, NEW ip \in ips,
             check' = [check EXCEPT ![c].stage = AfterResolve(check[c].kind),
                                    ![c].probe = ip, ![c].reported = ip]
      PROVE  IInv'
  <2> DEFINE row == [check[c] EXCEPT !.stage = AfterResolve(check[c].kind),
                                     !.probe = ip, !.reported = ip]
  <2>1. check' = [check EXCEPT ![c] = row]
    BY <1>6
  <2>2. ip \in V4 \cup V6
    BY ConstantsFit
  <2>3. row \in CheckRow
    BY <1>1, <1>2, <2>2, ZenonT(30) DEF CheckRow
  <2>4. /\ row.kind = check[c].kind /\ row.target = check[c].target
        /\ row.probe = ip /\ row.reported = ip /\ row.ok = check[c].ok
        /\ row.hit = check[c].hit /\ row.xray = check[c].xray /\ row.left = check[c].left
        /\ row.conf = check[c].conf /\ row.tmp = check[c].tmp /\ row.lost = check[c].lost
        /\ row.stage = AfterResolve(check[c].kind)
    BY <1>1 DEF CheckRow
  <2> HIDE DEF row
  <2>5. RowFits(row)
    BY <1>1, <1>2, <1>6, <2>4, UnderWay, ConstantsFit DEF RowFits
  <2>6. check'[c] = row
    BY <2>1 DEF IInv, TypeOK
  <2>7. row.lost => Gone(c) /\ LostStage(c)'
    <3>1. row.lost => Gone(c) /\ check[c].kind \in {"tcp", "tls", "upgrade"}
      BY <1>1, <1>3, <2>4, UnderWay
    <3>2. check'[c].kind = check[c].kind /\ check'[c].target # Literal
      BY <1>6, <2>4, <2>6, ConstantsFit
    <3>3. row.lost => LostStage(c)'
      BY <3>1, <3>2 DEF LostStage
    <3> QED
      BY <3>1, <3>3
  <2>8. row.stage \notin {"port", "bind", "config", "spawn"}
    BY <1>2, <2>4
  <2>9. UNCHANGED <<nic, turns, choice, bin>> /\ (OnServer(c) \/ agent # "down")
    BY <1>1, UnderWay DEF Frame
  <2> QED
    BY <2>1, <2>3, <2>4, <2>5, <2>7, <2>8, <2>9, MovedOn
<1>7. \A ips, fam : PickPreferredIP(ips, fam) \subseteq ips
  BY DEF PickPreferredIP
<1> QED
  BY <1>5, <1>6, <1>7 DEF ResolveIP, ProbeTarget

(* What a probe goes to: the address the check has settled on, if it has. *)
LEMMA ProbeHits ==
    ASSUME IInv, NEW c \in Checks, Active(c), NEW a \in Destinations(c)
    PROVE  /\ check[c].hit \cup {a} \in SUBSET (V4 \cup V6)
           /\ check[c].reported # "none" => check[c].hit \cup {a} \subseteq {check[c].reported}
<1>1. check[c] \in CheckRow /\ RowFits(check[c])
  BY UnderWay
<1>2. a \in V4 \cup V6
  <2>1. CASE check[c].probe = "name"
    BY <2>1, ConstantsFit DEF Destinations
  <2>2. CASE check[c].probe # "name"
    BY <1>1, <2>2 DEF Destinations, CheckRow
  <2> QED
    BY <2>1, <2>2
<1>3. check[c].hit \in SUBSET (V4 \cup V6)
  BY <1>1 DEF CheckRow
<1>4. ASSUME check[c].reported # "none" PROVE a = check[c].reported
  <2>1. check[c].probe = check[c].reported /\ check[c].probe # "name"
    BY <1>1, <1>4, ConstantsFit DEF RowFits, CheckRow
  <2> QED
    BY <2>1 DEF Destinations
<1> QED
  BY <1>1, <1>2, <1>3, <1>4 DEF RowFits

LEMMA DialFits ==
    ASSUME IInv, NEW c \in Checks, Dial(c)
    PROVE  IInv'
<1>1. /\ Active(c) /\ check[c].stage = "dial" /\ check[c] \in CheckRow /\ Frame
      /\ check[c].kind \in {"tcp", "http", "tls", "upgrade", "serverupgrade"}
      /\ check[c].stage \in Attempting
  BY UnderWay DEF Dial, Active, Course, Attempting
<1>2. CASE check[c].probe = "name" /\ Outcome(c, "dns")
  <2>1. check[c].target # Literal
    BY <1>1, <1>2, UnderWay, ConstantsFit DEF RowFits
  <2> QED
    BY <1>1, <1>2, <2>1, OutcomeFits DEF Errors
<1>3. CASE Outcome(c, "iface")
  BY <1>1, <1>3, OutcomeFits DEF Errors
<1>4. ASSUME ~Gone(c), NEW a \in Destinations(c),
             check' = [check EXCEPT ![c].stage = "connect", ![c].hit = @ \cup {a}]
      PROVE  IInv'
  <2> DEFINE hit == check[c].hit \cup {a}
             row == [check[c] EXCEPT !.stage = "connect", !.hit = hit]
  <2>1. check' = [check EXCEPT ![c] = row]
    BY <1>4
  <2>2. /\ hit \in SUBSET (V4 \cup V6) /\ "connect" \in Stages
        /\ check[c].reported # "none" => hit \subseteq {check[c].reported}
    BY <1>1, <1>4, ProbeHits DEF Stages, Waiting
  <2> HIDE DEF hit
  <2>3. row \in CheckRow
    BY <1>1, <2>2 DEF CheckRow
  <2>4. /\ row.kind = check[c].kind /\ row.target = check[c].target
        /\ row.probe = check[c].probe /\ row.reported = check[c].reported
        /\ row.hit = hit /\ row.xray = check[c].xray /\ row.left = check[c].left
        /\ row.conf = check[c].conf /\ row.tmp = check[c].tmp /\ row.lost = check[c].lost
        /\ row.stage = "connect"
    BY <1>1 DEF CheckRow
  <2> HIDE DEF row
  <2>5. RowFits(row)
    BY <1>1, <2>2, <2>4, UnderWay DEF RowFits, Course
  <2>6. ~row.lost
    BY <1>1, <1>4, <2>4, UnderWay
  <2> QED
    BY <1>1, <2>1, <2>3, <2>4, <2>5, <2>6, UnderWay, MovedOn DEF Frame
<1> QED
  BY <1>2, <1>3, <1>4 DEF Dial

(* A tls check that got past the socket has not lost its interface. *)
LEMMA Connected ==
    ASSUME IInv, NEW c \in Checks, Active(c), check[c].stage \notin {"resolve", "dial"}
    PROVE  ~(check[c].kind = "tls" /\ check[c].target = Literal /\ check[c].lost)
BY UnderWay DEF LostStage

LEMMA ConnectFits ==
    ASSUME IInv, NEW c \in Checks, Connect(c)
    PROVE  IInv'
<1>1. /\ Active(c) /\ check[c].stage = "connect" /\ check[c] \in CheckRow /\ Frame
      /\ check[c].kind \in {"tcp", "http", "tls", "upgrade", "serverupgrade"}
      /\ check[c].stage \in Attempting
  BY UnderWay DEF Connect, Active, Course, Attempting
<1>2. ASSUME NEW err \in Errors \cup {"none"}, Outcome(c, err) PROVE IInv'
  BY <1>1, <1>2, Connected, OutcomeFits
<1>3. CASE check[c].kind # "tcp" /\ Goto(c, AfterConnect[check[c].kind])
  <2>1. AfterConnect[check[c].kind] \in Course(check[c].kind) \cap {"handshake", "exchange"}
    BY <1>1, <1>3 DEF AfterConnect, Course
  <2>2. /\ check'[c].kind = check[c].kind /\ check'[c].target = check[c].target
        /\ check'[c].ok = check[c].ok
    BY <1>1, <1>3 DEF Goto, IInv, TypeOK, CheckRow
  <2>3. check[c].lost => LostStage(c)'
    BY <1>1, <1>3, <2>2, UnderWay DEF LostStage
  <2> QED
    BY <1>1, <1>3, <2>1, <2>3, GotoFits
<1> QED
  BY <1>2, <1>3 DEF Connect, Errors

LEMMA HandshakeFits ==
    ASSUME IInv, NEW c \in Checks, Handshake(c)
    PROVE  IInv'
<1>1. Active(c) /\ check[c].stage = "handshake" /\ check[c].stage \in Attempting /\ Frame
  BY DEF Handshake, Active, Attempting
<1>2. ASSUME NEW err \in Errors \cup {"none"}, Outcome(c, err) PROVE IInv'
  BY <1>1, <1>2, Connected, OutcomeFits
<1> QED
  BY <1>2 DEF Handshake, Errors

LEMMA ExchangeFits ==
    ASSUME IInv, NEW c \in Checks, Exchange(c)
    PROVE  IInv'
<1>1. Active(c) /\ check[c].stage = "exchange" /\ check[c].stage \in Attempting /\ Frame
  BY DEF Exchange, Active, Attempting
<1>2. ASSUME NEW err \in Errors \cup {"none"}, Outcome(c, err) PROVE IInv'
  BY <1>1, <1>2, Connected, OutcomeFits
<1>3. CASE End(c, "not accepted")
  BY <1>1, <1>3, EndFits, TokensAreResults
<1> QED
  BY <1>2, <1>3 DEF Exchange, Errors

LEMMA DiagnoseFits ==
    ASSUME IInv, NEW c \in Checks, Diagnose(c)
    PROVE  IInv'
<1>1. Active(c) /\ check[c].stage = "diagnose" /\ Frame
  BY DEF Diagnose, Active
<1>2. \A recv \in 0..1 : ClassifyUnreachable(recv) \in Results
  BY DEF ClassifyUnreachable, Results, Tokens
<1> QED
  BY <1>1, <1>2, EndFits DEF Diagnose

LEMMA LookupFits ==
    ASSUME IInv, NEW c \in Checks, Lookup(c)
    PROVE  IInv'
<1>1. Active(c) /\ check[c].stage = "lookup" /\ check[c].stage \in Attempting /\ Frame
  BY DEF Lookup, Active, Attempting
<1>2. ASSUME NEW err \in Errors \cup {"none"}, Outcome(c, err) PROVE IInv'
  BY <1>1, <1>2, Connected, OutcomeFits
<1> QED
  BY <1>2 DEF Lookup, Errors

LEMMA RunSpeedTestFits ==
    ASSUME IInv, NEW c \in Checks, RunSpeedTest(c)
    PROVE  IInv'
<1>1. Active(c) /\ check[c].stage = "download" /\ check[c].stage \in Attempting /\ Frame
  BY DEF RunSpeedTest, Active, Attempting
<1>2. ASSUME NEW err \in Errors \cup {"none"}, Outcome(c, err) PROVE IInv'
  BY <1>1, <1>2, Connected, OutcomeFits
<1> QED
  BY <1>2 DEF RunSpeedTest, Errors

LEMMA ExecFits ==
    ASSUME IInv, NEW c \in Checks, Exec(c)
    PROVE  IInv'
<1>1. /\ Active(c) /\ check[c].stage = "exec" /\ check[c] \in CheckRow /\ Frame
      /\ check[c].kind = "ping"
  BY UnderWay DEF Exec, Active, Course
<1>2. PICK a \in Destinations(c), recv \in 0..1, ok \in BOOLEAN :
        check' = [check EXCEPT ![c].stage = "done", ![c].hit = @ \cup {a},
               ![c].result = IF ok THEN "ok" ELSE ClassifyPingError(c, "none", recv)]
  BY DEF Exec
<1> DEFINE hit == check[c].hit \cup {a}
           result == IF ok THEN "ok" ELSE ClassifyPingError(c, "none", recv)
           row == [check[c] EXCEPT !.stage = "done", !.hit = hit, !.result = result]
<1>3. check' = [check EXCEPT ![c] = row]
  BY <1>2
<1>4. /\ hit \in SUBSET (V4 \cup V6) /\ "done" \in Stages
      /\ check[c].reported # "none" => hit \subseteq {check[c].reported}
  BY <1>1, <1>2, ProbeHits DEF Stages
<1>5. result \in Results
  BY DEF ClassifyPingError, Results, Tokens
<1> HIDE DEF hit, result
<1>6. row \in CheckRow
  BY <1>1, <1>4, <1>5 DEF CheckRow
<1>7. /\ row.kind = check[c].kind /\ row.target = check[c].target
      /\ row.probe = check[c].probe /\ row.reported = check[c].reported
      /\ row.hit = hit /\ row.xray = check[c].xray
      /\ row.conf = check[c].conf /\ row.tmp = check[c].tmp
      /\ row.stage = "done"
  BY <1>1 DEF CheckRow
<1> HIDE DEF row
<1>8. RowFits(row)
  BY <1>1, <1>4, <1>7, UnderWay DEF RowFits
<1> QED
  BY <1>1, <1>3, <1>6, <1>7, <1>8, UnderWay, MovedOn DEF Frame

LEMMA ServerPortFits ==
    ASSUME IInv, NEW c \in Checks, ServerPort(c)
    PROVE  IInv'
<1>1. /\ Active(c) /\ check[c].stage = "ports" /\ check[c] \in CheckRow /\ Frame
      /\ check[c].kind = "serverping" /\ OnServer(c)
  BY UnderWay DEF ServerPort, Active, Course, OnServer
<1>2. PICK a \in Destinations(c), up \in BOOLEAN :
        check' = [check EXCEPT
            ![c].hit = @ \cup {a}, ![c].left = @ - 1, ![c].ok = @ \/ up,
            ![c].stage = IF check[c].left = 1 THEN "done" ELSE "ports",
            ![c].result = IF check[c].left > 1 THEN "none"
                          ELSE IF up \/ check[c].ok THEN "ok" ELSE "not accepted"]
  BY DEF ServerPort
<1> DEFINE hit == check[c].hit \cup {a}
           left == check[c].left - 1
           ok == check[c].ok \/ up
           stage == IF check[c].left = 1 THEN "done" ELSE "ports"
           result == IF check[c].left > 1 THEN "none"
                     ELSE IF up \/ check[c].ok THEN "ok" ELSE "not accepted"
           row == [check[c] EXCEPT !.hit = hit, !.left = left, !.ok = ok, !.stage = stage,
                                   !.result = result]
<1>3. check' = [check EXCEPT ![c] = row]
  BY <1>2
<1>4. /\ hit \in SUBSET (V4 \cup V6)
      /\ check[c].reported # "none" => hit \subseteq {check[c].reported}
  BY <1>1, <1>2, ProbeHits
<1>5. /\ left \in 0..Tries /\ stage \in Stages /\ stage \in {"done", "ports"}
      /\ (left > 0 \/ stage = "done") /\ ok \in BOOLEAN
  <2>1. check[c].left \in 1..Tries
    BY <1>1, UnderWay DEF CheckRow, RowFits
  <2> QED
    BY <1>1, <2>1, ConstantsFit DEF Stages, Local
<1>6. result \in Results
  BY DEF Results, Tokens
<1> HIDE DEF hit, left, ok, stage, result
<1>7. row \in CheckRow
  BY <1>1, <1>4, <1>5, <1>6 DEF CheckRow
<1>8. /\ row.kind = check[c].kind /\ row.target = check[c].target
      /\ row.probe = check[c].probe /\ row.reported = check[c].reported
      /\ row.hit = hit /\ row.xray = check[c].xray /\ row.left = left
      /\ row.conf = check[c].conf /\ row.tmp = check[c].tmp /\ row.lost = check[c].lost
      /\ row.stage = stage
  BY <1>1 DEF CheckRow
<1> HIDE DEF row
<1>9. RowFits(row)
  BY <1>1, <1>4, <1>5, <1>8, UnderWay DEF RowFits, Course
<1>10. ~row.lost
  BY <1>1, <1>8, UnderWay DEF Gone, Bind
<1> QED
  BY <1>1, <1>3, <1>5, <1>7, <1>8, <1>9, <1>10, UnderWay, MovedOn DEF Frame
-----------------------------------------------------------------------------
(* vless *)

(* A vless check's step to a stage short of its cleanup. *)
LEMMA VlessFits ==
    ASSUME IInv, NEW c \in Checks, Active(c), check[c].kind = "vless",
           NEW row \in CheckRow, check' = [check EXCEPT ![c] = row],
           UNCHANGED <<nic, turns, choice>>, bin' = bin \/ bin' = "whole",
           row.kind = check[c].kind, row.target = check[c].target,
           row.probe = check[c].probe, row.reported = check[c].reported,
           row.hit = check[c].hit, row.lost = check[c].lost,
           row.stage \in Course("vless") \cup {"done"},
           row.stage \notin {"cleanup", "done"} => row.left > 0,
           row.tmp <=> row.stage = "install",
           row.conf <=> row.stage \in {"spawn", "wait", "download", "cleanup"},
           row.xray # "none" => row.stage \in {"wait", "download", "cleanup"},
           row.stage \in {"port", "bind", "config", "spawn"} => bin' = "whole",
           row.lost => row.stage \in {"binary", "install", "port", "bind", "done"}
    PROVE  IInv'
<1>1. RowFits(row)
  BY UnderWay DEF RowFits, Course
<1>2. check'[c] = row
  BY DEF IInv, TypeOK
<1>3. row.lost /\ row.stage # "done" => Gone(c) /\ LostStage(c)'
  <2>1. row.lost => Gone(c)
    BY UnderWay
  <2>2. check'[c].kind = "vless" /\ check'[c].stage = row.stage
    BY <1>2
  <2>3. row.lost /\ row.stage # "done" => LostStage(c)'
    BY <2>2 DEF LostStage
  <2> QED
    BY <2>1, <2>3
<1> QED
  BY <1>1, <1>3, UnderWay, MovedOn

LEMMA EnsureXrayBinaryFits ==
    ASSUME IInv, NEW c \in Checks, EnsureXrayBinary(c)
    PROVE  IInv'
<1>1. /\ Active(c) /\ check[c].stage = "binary" /\ check[c] \in CheckRow /\ Frame
      /\ check[c].kind = "vless"
  BY UnderWay DEF EnsureXrayBinary, Active, Course
<1>2. CASE bin = "whole" /\ Goto(c, "port")
  <2>1. check[c].lost => LostStage(c)'
    BY <1>1, <1>2 DEF Goto, IInv, TypeOK, CheckRow, LostStage
  <2> QED
    BY <1>1, <1>2, <2>1, GotoFits DEF Course
<1>3. CASE check' = [check EXCEPT ![c].stage = "install", ![c].tmp = TRUE]
  <2> DEFINE row == [check[c] EXCEPT !.stage = "install", !.tmp = TRUE]
  <2>1. check' = [check EXCEPT ![c] = row]
    BY <1>3
  <2>2. "install" \in Stages
    BY DEF Stages, Local
  <2>3. row \in CheckRow
    BY <1>1, <2>2 DEF CheckRow
  <2>4. /\ row.kind = check[c].kind /\ row.target = check[c].target
        /\ row.probe = check[c].probe /\ row.reported = check[c].reported
        /\ row.hit = check[c].hit /\ row.xray = check[c].xray /\ row.left = check[c].left
        /\ row.conf = check[c].conf /\ row.tmp = TRUE /\ row.lost = check[c].lost
        /\ row.stage = "install"
    BY <1>1 DEF CheckRow
  <2> HIDE DEF row
  <2>5. /\ row.left > 0 /\ ~row.conf /\ row.xray = "none"
    BY <1>1, <2>4, UnderWay DEF RowFits
  <2> QED
    BY <1>1, <2>1, <2>3, <2>4, <2>5, VlessFits DEF Course, Frame
<1>4. CASE End(c, "xray")
  BY <1>1, <1>4, EndFits, TokensAreResults
<1> QED
  BY <1>2, <1>3, <1>4 DEF EnsureXrayBinary

LEMMA InstallBinaryFits ==
    ASSUME IInv, NEW c \in Checks, InstallBinary(c)
    PROVE  IInv'
<1>1. /\ Active(c) /\ check[c].stage = "install" /\ check[c] \in CheckRow
      /\ check[c].kind = "vless" /\ UNCHANGED <<nic, turns, choice>>
  BY UnderWay DEF InstallBinary, Active, Course
<1>2. ~check[c].conf /\ check[c].xray = "none" /\ check[c].left > 0
  BY <1>1, UnderWay DEF RowFits
<1>3. "port" \in Stages /\ "done" \in Stages /\ "xray" \in Results
  BY DEF Stages, Local, Results, Tokens
<1>4. CASE bin' = "whole" /\ check' = [check EXCEPT ![c].stage = "port", ![c].tmp = FALSE]
  <2> DEFINE row == [check[c] EXCEPT !.stage = "port", !.tmp = FALSE]
  <2>1. check' = [check EXCEPT ![c] = row]
    BY <1>4
  <2>2. row \in CheckRow
    BY <1>1, <1>3, ZenonT(30) DEF CheckRow
  <2>3. /\ row.kind = check[c].kind /\ row.target = check[c].target
        /\ row.probe = check[c].probe /\ row.reported = check[c].reported
        /\ row.hit = check[c].hit /\ row.xray = check[c].xray /\ row.left = check[c].left
        /\ row.conf = check[c].conf /\ row.tmp = FALSE /\ row.lost = check[c].lost
        /\ row.stage = "port"
    BY <1>1 DEF CheckRow
  <2> HIDE DEF row
  <2>4. bin' = "whole" /\ row.stage \in Course("vless")
    BY <1>4, <2>3 DEF Course
  <2> QED
    BY <1>1, <1>2, <2>1, <2>2, <2>3, <2>4, VlessFits
<1>5. CASE /\ UNCHANGED bin
           /\ check' = [check EXCEPT ![c].stage = "done", ![c].result = "xray", ![c].tmp = FALSE]
  <2> DEFINE row == [check[c] EXCEPT !.stage = "done", !.result = "xray", !.tmp = FALSE]
  <2>1. check' = [check EXCEPT ![c] = row]
    BY <1>5
  <2>2. row \in CheckRow
    BY <1>1, <1>3, ZenonT(30) DEF CheckRow
  <2>3. /\ row.kind = check[c].kind /\ row.target = check[c].target
        /\ row.probe = check[c].probe /\ row.reported = check[c].reported
        /\ row.hit = check[c].hit /\ row.xray = check[c].xray
        /\ row.conf = check[c].conf /\ row.tmp = FALSE /\ row.lost = check[c].lost
        /\ row.stage = "done"
    BY <1>1 DEF CheckRow
  <2> HIDE DEF row
  <2>4. bin' = bin
    BY <1>5
  <2> QED
    BY <1>1, <1>2, <2>1, <2>2, <2>3, <2>4, VlessFits
<1> QED
  BY <1>4, <1>5 DEF InstallBinary, WriteBinary

LEMMA FreePortFits ==
    ASSUME IInv, NEW c \in Checks, FreePort(c)
    PROVE  IInv'
<1>1. /\ Active(c) /\ check[c].stage = "port" /\ check[c] \in CheckRow
      /\ check[c].kind = "vless" /\ Frame
  BY UnderWay DEF FreePort, Active, Course
<1>2. CASE End(c, "xray")
  BY <1>1, <1>2, EndFits, TokensAreResults
<1>3. ASSUME NEW p \in Ports, check' = [check EXCEPT ![c].stage = "bind", ![c].port = p]
      PROVE  IInv'
  <2> DEFINE row == [check[c] EXCEPT !.stage = "bind", !.port = p]
  <2>1. check' = [check EXCEPT ![c] = row]
    BY <1>3
  <2>2. "bind" \in Stages
    BY DEF Stages, Local
  <2>3. row \in CheckRow
    BY <1>1, <2>2 DEF CheckRow
  <2>4. /\ row.kind = check[c].kind /\ row.target = check[c].target
        /\ row.probe = check[c].probe /\ row.reported = check[c].reported
        /\ row.hit = check[c].hit /\ row.xray = check[c].xray /\ row.left = check[c].left
        /\ row.conf = check[c].conf /\ row.tmp = check[c].tmp /\ row.lost = check[c].lost
        /\ row.stage = "bind"
    BY <1>1 DEF CheckRow
  <2> HIDE DEF row
  <2>5. row.left > 0 /\ ~row.conf /\ ~row.tmp /\ row.xray = "none"
    BY <1>1, <2>4, UnderWay DEF RowFits
  <2>6. bin = "whole"
    BY <1>1, UnderWay DEF Fits, FilesFitStage
  <2> QED
    BY <1>1, <2>1, <2>3, <2>4, <2>5, <2>6, VlessFits DEF Course, Frame
<1> QED
  BY <1>2, <1>3 DEF FreePort

LEMMA SendThroughFits ==
    ASSUME IInv, NEW c \in Checks, SendThrough(c)
    PROVE  IInv'
<1>1. /\ Active(c) /\ check[c].stage = "bind" /\ check[c] \in CheckRow
      /\ check[c].kind = "vless" /\ Frame
  BY UnderWay DEF SendThrough, Active, Course
<1>2. CASE End(c, ClassifyNetError("iface"))
  <2>1. ClassifyNetError("iface") \in Results
    BY TokensAreResults DEF Errors
  <2> QED
    BY <1>1, <1>2, <2>1, EndFits
<1>3. CASE Usable(c) /\ Goto(c, "config")
  <2>1. ~check[c].lost
    BY <1>1, <1>3, UnderWay, GoneUnusable DEF IInv
  <2>2. bin = "whole"
    BY <1>1, UnderWay DEF Fits, FilesFitStage
  <2> QED
    BY <1>1, <1>3, <2>1, <2>2, GotoFits DEF Course
<1> QED
  BY <1>2, <1>3 DEF SendThrough

LEMMA WriteTempConfigFits ==
    ASSUME IInv, NEW c \in Checks, WriteTempConfig(c)
    PROVE  IInv'
<1>1. /\ Active(c) /\ check[c].stage = "config" /\ check[c] \in CheckRow
      /\ check[c].kind = "vless" /\ Frame
  BY UnderWay DEF WriteTempConfig, Active, Course
<1>2. CASE End(c, "xray")
  BY <1>1, <1>2, EndFits, TokensAreResults
<1>3. CASE check' = [check EXCEPT ![c].stage = "spawn", ![c].conf = TRUE]
  <2> DEFINE row == [check[c] EXCEPT !.stage = "spawn", !.conf = TRUE]
  <2>1. check' = [check EXCEPT ![c] = row]
    BY <1>3
  <2>2. "spawn" \in Stages
    BY DEF Stages, Local
  <2>3. row \in CheckRow
    BY <1>1, <2>2 DEF CheckRow
  <2>4. /\ row.kind = check[c].kind /\ row.target = check[c].target
        /\ row.probe = check[c].probe /\ row.reported = check[c].reported
        /\ row.hit = check[c].hit /\ row.xray = check[c].xray /\ row.left = check[c].left
        /\ row.conf = TRUE /\ row.tmp = check[c].tmp /\ row.lost = check[c].lost
        /\ row.stage = "spawn"
    BY <1>1 DEF CheckRow
  <2> HIDE DEF row
  <2>5. row.left > 0 /\ ~row.tmp /\ row.xray = "none" /\ ~row.lost
    BY <1>1, <2>4, UnderWay DEF RowFits, LostStage
  <2>6. bin = "whole"
    BY <1>1, UnderWay DEF Fits, FilesFitStage
  <2> QED
    BY <1>1, <2>1, <2>3, <2>4, <2>5, <2>6, VlessFits DEF Course, Frame
<1> QED
  BY <1>2, <1>3 DEF WriteTempConfig

LEMMA SpawnFits ==
    ASSUME IInv, NEW c \in Checks, Spawn(c)
    PROVE  IInv'
<1>1. /\ Active(c) /\ check[c].stage = "spawn" /\ check[c] \in CheckRow
      /\ check[c].kind = "vless" /\ Frame
  BY UnderWay DEF Spawn, Active, Course
<1>2. CASE End(c, "xray")
  BY <1>1, <1>2, EndFits, TokensAreResults
<1>3. CASE check' = [check EXCEPT ![c].stage = "wait", ![c].xray = "starting"]
  <2> DEFINE row == [check[c] EXCEPT !.stage = "wait", !.xray = "starting"]
  <2>1. check' = [check EXCEPT ![c] = row]
    BY <1>3
  <2>2. "wait" \in Stages
    BY DEF Stages, Waiting
  <2>3. row \in CheckRow
    BY <1>1, <2>2 DEF CheckRow
  <2>4. /\ row.kind = check[c].kind /\ row.target = check[c].target
        /\ row.probe = check[c].probe /\ row.reported = check[c].reported
        /\ row.hit = check[c].hit /\ row.left = check[c].left
        /\ row.conf = check[c].conf /\ row.tmp = check[c].tmp /\ row.lost = check[c].lost
        /\ row.stage = "wait"
    BY <1>1 DEF CheckRow
  <2> HIDE DEF row
  <2>5. row.left > 0 /\ ~row.tmp /\ row.conf /\ ~row.lost
    BY <1>1, <2>4, UnderWay DEF RowFits
  <2> QED
    BY <1>1, <2>1, <2>3, <2>4, <2>5, VlessFits DEF Course, Frame
<1> QED
  BY <1>2, <1>3 DEF Spawn

(* Its process starts to listen, or dies. *)
LEMMA XrayStepFits ==
    ASSUME IInv, NEW c \in Checks, XrayRuns(c) \/ XrayExits(c)
    PROVE  IInv'
<1>1. /\ check[c].xray # "none" /\ Frame
      /\ \E xray \in {"none", "listening"} : check' = [check EXCEPT ![c].xray = xray]
  BY DEF XrayRuns, XrayExits
<1>2. Active(c)
  BY <1>1 DEF IInv, FilesFitStage, Active
<1>3. /\ check[c] \in CheckRow /\ check[c].stage \in {"wait", "download", "cleanup"}
      /\ check[c].kind = "vless"
  BY <1>1, <1>2, UnderWay DEF RowFits
<1>4. PICK xray \in {"none", "listening"} : check' = [check EXCEPT ![c].xray = xray]
  BY <1>1
<1> DEFINE row == [check[c] EXCEPT !.xray = xray]
<1>5. check' = [check EXCEPT ![c] = row]
  BY <1>4
<1>6. row \in CheckRow
  BY <1>3, ZenonT(30) DEF CheckRow
<1>7. /\ row.kind = check[c].kind /\ row.target = check[c].target
      /\ row.probe = check[c].probe /\ row.reported = check[c].reported
      /\ row.hit = check[c].hit /\ row.left = check[c].left
      /\ row.conf = check[c].conf /\ row.tmp = check[c].tmp /\ row.lost = check[c].lost
      /\ row.stage = check[c].stage
  BY <1>3 DEF CheckRow
<1> HIDE DEF row
<1>8. ~row.tmp /\ row.conf /\ ~row.lost /\ (row.stage # "cleanup" => row.left > 0)
  BY <1>2, <1>3, <1>7, UnderWay DEF RowFits
<1> QED
  BY <1>1, <1>2, <1>3, <1>5, <1>6, <1>7, <1>8, VlessFits DEF Course, Frame

LEMMA WaitForPortFits ==
    ASSUME IInv, NEW c \in Checks, WaitForPort(c)
    PROVE  IInv'
<1>1. /\ Active(c) /\ check[c].stage = "wait" /\ check[c].kind = "vless" /\ Frame
      /\ Goto(c, "download")
  BY UnderWay DEF WaitForPort, Active, Course
<1>2. ~check[c].lost
  BY <1>1, UnderWay DEF LostStage
<1> QED
  BY <1>1, <1>2, GotoFits DEF Course

LEMMA CleanupFits ==
    ASSUME IInv, NEW c \in Checks, Cleanup(c)
    PROVE  IInv'
<1>1. /\ Active(c) /\ check[c].stage = "cleanup" /\ check[c] \in CheckRow
      /\ check[c].kind = "vless" /\ Frame /\ ~check[c].tmp
  BY UnderWay DEF Cleanup, Active, Course, RowFits
<1> DEFINE row == Left(c)
<1>2. check' = [check EXCEPT ![c] = row]
  BY DEF Cleanup
<1>3. "done" \in Stages
  BY DEF Stages
<1>4. row \in CheckRow
  BY <1>1, <1>3 DEF CheckRow, Left
<1>5. /\ row.kind = check[c].kind /\ row.target = check[c].target
      /\ row.probe = check[c].probe /\ row.reported = check[c].reported
      /\ row.hit = check[c].hit /\ row.xray = "none"
      /\ row.conf = FALSE /\ row.tmp = check[c].tmp /\ row.lost = check[c].lost
      /\ row.stage = "done"
  BY <1>1 DEF CheckRow, Left
<1> HIDE DEF row
<1> QED
  BY <1>1, <1>2, <1>4, <1>5, VlessFits DEF Frame

-----------------------------------------------------------------------------
(* The node around the checks *)

LEMMA AgentEndsFits == IInv /\ AgentEnds => IInv'
<1> SUFFICES ASSUME IInv, AgentEnds PROVE IInv'
  OBVIOUS
<1>1. TypeOK'
  BY DEF IInv, TypeOK, NicTypeOK, ChoiceTypeOK, AgentEnds, NoNetConfig
<1>2. ASSUME NEW c \in Checks PROVE Fits(c)'
  <2>1. UNCHANGED <<nic, check, bin>> /\ (OnServer(c) \/ ~Active(c))
    BY DEF AgentEnds, Active
  <2>2. Fits(c)
    BY DEF IInv, Fits
  <2>3. KeepsCourse(c)' /\ ProbeIsSettled(c)' /\ FilesFitStage(c)'
    BY <2>1, <2>2 DEF Fits, KeepsCourse, Active, ProbeIsSettled, FilesFitStage
  <2>4. LostIsStuck(c)'
    BY <2>1, <2>2 DEF Fits, LostIsStuck, LostStage, Active, OnServer, Gone, Bind
  <2> QED
    BY <2>3, <2>4 DEF Fits
<1> QED
  BY <1>1, <1>2 DEF IInv, Fits

LEMMA ChoiceFits == IInv /\ ChoiceNext /\ UNCHANGED <<nic, turns, check, bin>> => IInv'
<1> SUFFICES ASSUME IInv, ChoiceNext, UNCHANGED <<nic, turns, check, bin>> PROVE IInv'
  OBVIOUS
<1>1. TypeOK'
  BY ChoiceTypes DEF IInv, TypeOK, NicTypeOK
<1>2. agent = "down" \/ (UNCHANGED net /\ agent' # "down")
  BY DEF ChoiceNext, PickInterface, ProbeInterface, ListAll, ChooseAuto, ChooseByHand,
         ChooseUnattended, StartAgent, StopAgent, IInv, TypeOK, ChoiceTypeOK
<1>3. ASSUME NEW c \in Checks PROVE Fits(c)'
  <2>1. Fits(c)
    BY DEF IInv, Fits
  <2>2. KeepsCourse(c)' /\ ProbeIsSettled(c)' /\ FilesFitStage(c)'
    BY <2>1 DEF Fits, KeepsCourse, Active, ProbeIsSettled, FilesFitStage
  <2>3. LostIsStuck(c)'
    <3>1. CASE agent = "down"
      BY <2>1, <3>1 DEF Fits, LostIsStuck, LostStage, Active, OnServer, Gone, Bind
    <3>2. CASE UNCHANGED net /\ agent' # "down"
      BY <2>1, <3>2 DEF Fits, LostIsStuck, LostStage, Active, OnServer, Gone, Bind, Exists
    <3> QED
      BY <1>2, <3>1, <3>2
  <2> QED
    BY <2>2, <2>3 DEF Fits
<1> QED
  BY <1>1, <1>3 DEF IInv, Fits

(* Only what a check knows of its interface's absence changes. *)
LEMMA TurnFits ==
    ASSUME IInv, NEW i \in Ifaces, Turn(i)
    PROVE  IInv'
<1>1. /\ UNCHANGED <<setup, pin, ownDNS, agent, net, bin>>
      /\ \A j \in Ifaces : j # i => nic'[j] = nic[j]
      /\ nic' \in [Ifaces -> NicStates] /\ turns' \in 0..MaxTurns
  BY NetIfaceAssumption DEF Turn, NicTurns, choice, IInv, TypeOK, NicTypeOK
<1> DEFINE gone(c) == check[c].lost /\ (Bind(c) = i => ~Exists(i)')
<1>2. \A c \in Checks : gone(c) \in BOOLEAN
  BY DEF IInv, TypeOK, CheckRow
<1>3. check' = [c \in Checks |-> [check[c] EXCEPT !.lost = gone(c)]]
  BY DEF Turn
<1>4. \A c \in Checks : gone(c) => check[c].lost /\ (Bind(c) = i => ~Exists(i)')
  OBVIOUS
<1> HIDE DEF gone
<1>5. ASSUME NEW c \in Checks
      PROVE  /\ check'[c] \in CheckRow /\ check'[c].lost = gone(c)
             /\ check'[c].kind = check[c].kind /\ check'[c].target = check[c].target
             /\ check'[c].stage = check[c].stage /\ check'[c].left = check[c].left
             /\ check'[c].ok = check[c].ok /\ check'[c].hit = check[c].hit
             /\ check'[c].probe = check[c].probe /\ check'[c].reported = check[c].reported
             /\ check'[c].xray = check[c].xray /\ check'[c].conf = check[c].conf
             /\ check'[c].tmp = check[c].tmp
  <2>1. check[c] \in CheckRow /\ check'[c] = [check[c] EXCEPT !.lost = gone(c)]
    BY <1>3 DEF IInv, TypeOK
  <2> QED
    BY <1>2, <2>1 DEF CheckRow
<1>6. TypeOK'
  <2>1. check' \in [Checks -> CheckRow]
    BY <1>3, <1>5
  <2> QED
    BY <1>1, <2>1 DEF IInv, TypeOK, NicTypeOK, ChoiceTypeOK
<1>7. ASSUME NEW c \in Checks PROVE Fits(c)'
  <2>1. Fits(c)
    BY DEF IInv, Fits
  <2>2. KeepsCourse(c)' /\ ProbeIsSettled(c)'
    BY <1>5, <2>1 DEF Fits, KeepsCourse, Active, ProbeIsSettled
  <2>3. FilesFitStage(c)'
    BY <1>1, <1>5, <2>1 DEF Fits, FilesFitStage
  <2>4. /\ Active(c)' <=> Active(c)
        /\ OnServer(c)' <=> OnServer(c)
        /\ Bind(c)' = Bind(c) /\ Bind(c) \in Ifaces \cup {None}
    BY <1>1, <1>5 DEF Active, OnServer, Bind, IInv, TypeOK, ChoiceTypeOK
  <2>5. ASSUME gone(c), Gone(c) PROVE Gone(c)'
    <3>1. CASE Bind(c) = i
      BY <1>4, <2>4, <2>5, <3>1 DEF Gone, Exists
    <3>2. CASE Bind(c) # i
      BY <1>1, <2>4, <2>5, <3>2 DEF Gone, Exists
    <3> QED
      BY <3>1, <3>2
  <2>6. LostStage(c) => LostStage(c)'
    BY <1>5 DEF LostStage
  <2>7. LostIsStuck(c)'
    BY <1>1, <1>4, <1>5, <2>1, <2>4, <2>5, <2>6 DEF Fits, LostIsStuck
  <2> QED
    BY <2>2, <2>3, <2>7 DEF Fits
<1> QED
  BY <1>6, <1>7 DEF IInv, Fits

-----------------------------------------------------------------------------
(* The invariant *)

LEMMA InitHolds == Init => IInv
<1> SUFFICES ASSUME Init PROVE IInv
  OBVIOUS
<1>1. NicTypeOK /\ ChoiceTypeOK /\ bin \in {"absent", "partial", "whole"}
  <2>1. NicTypeOK
    BY NetIfaceAssumption DEF Init, NicInit, NicTypeOK
  <2>2. ChoiceTypeOK
    BY DEF Init, ChoiceInit, ChoiceTypeOK, NotChoosing, NoNetConfig
  <2> QED
    BY <2>1, <2>2 DEF Init
<1>2. PICK kind \in Workloads, target \in [Checks -> {Literal, "name"}] :
        check = [c \in Checks |-> Unstarted(kind[c], target[c])]
  BY DEF Init
<1>3. ASSUME NEW c \in Checks PROVE check[c] \in CheckRow /\ Fits(c)
  <2>1. check[c] = Unstarted(kind[c], target[c])
    BY <1>2
  <2>2. kind[c] \in Kinds \cup {"none"} /\ target[c] \in {Literal, "name"}
    BY <1>2, ChecksAssumption
  <2>3. /\ "idle" \in Stages /\ "none" \in Results /\ 0 \in 0..Tries
        /\ Literal \in V4 \cup V6
    BY ConstantsFit DEF Stages, Results, Tokens
  <2>4. check[c] \in CheckRow
    BY <2>1, <2>2, <2>3 DEF Unstarted, CheckRow
  <2>5. Fits(c)
    BY <2>1, <2>2 DEF Unstarted, Fits, KeepsCourse, Active, ProbeIsSettled, FilesFitStage, LostIsStuck
  <2> QED
    BY <2>4, <2>5
<1>4. check \in [Checks -> CheckRow]
  BY <1>2, <1>3
<1> QED
  BY <1>1, <1>3, <1>4 DEF IInv, TypeOK, Fits

LEMMA CheckSteps ==
    ASSUME IInv, NEW c \in Checks, LocalStep(c) \/ Answer(c) \/ Expire(c) \/ Cancel(c)
    PROVE  IInv'
<1>1. CASE LocalStep(c)
  BY <1>1, ResolveBoundInterfaceFits, ResolveIPFits, DialFits, ServerPortFits, EnsureXrayBinaryFits,
     InstallBinaryFits, FreePortFits, SendThroughFits, WriteTempConfigFits, SpawnFits,
     WaitForPortFits, CleanupFits DEF LocalStep
<1>2. CASE DownloadCapped(c)
  <2>1. Active(c) /\ check[c].stage = "download" /\ Frame /\ End(c, "ok")
    BY <1>2 DEF DownloadCapped, Active
  <2> QED
    BY <2>1, EndFits, TokensAreResults
<1>3. CASE Answer(c)
  BY <1>2, <1>3, ConnectFits, HandshakeFits, ExchangeFits, DiagnoseFits, LookupFits, ExecFits,
     XrayStepFits, RunSpeedTestFits DEF Answer
<1>4. CASE Expire(c)
  BY <1>4, GivesUpFits DEF Expire, Bounded
<1>5. CASE Cancel(c)
  BY <1>5, GivesUpFits DEF Cancel
<1> QED
  BY <1>1, <1>3, <1>4, <1>5

LEMMA StutterFits == IInv /\ UNCHANGED vars => IInv'
<1> SUFFICES ASSUME IInv, UNCHANGED vars PROVE IInv'
  OBVIOUS
<1>1. UNCHANGED <<nic, turns, setup, pin, ownDNS, agent, net, check, bin>>
  BY DEF vars, choice
<1>2. TypeOK'
  BY <1>1 DEF IInv, TypeOK, NicTypeOK, ChoiceTypeOK
<1>3. ASSUME NEW c \in Checks PROVE Fits(c)'
  <2>1. Fits(c)
    BY DEF IInv, Fits
  <2>2. KeepsCourse(c)' /\ ProbeIsSettled(c)' /\ FilesFitStage(c)'
    BY <1>1, <2>1 DEF Fits, KeepsCourse, Active, ProbeIsSettled, FilesFitStage
  <2>3. LostIsStuck(c)'
    BY <1>1, <2>1 DEF Fits, LostIsStuck, LostStage, Active, OnServer, Gone, Bind, Exists
  <2> QED
    BY <2>2, <2>3 DEF Fits
<1> QED
  BY <1>2, <1>3 DEF IInv, Fits

LEMMA StepHolds == IInv /\ [Next]_vars => IInv'
<1> SUFFICES ASSUME IInv, [Next]_vars PROVE IInv'
  OBVIOUS
<1>1. ASSUME NEW c \in Checks, Start(c) \/ ServerPing(c) \/ ServerUpgradeScan(c) PROVE IInv'
  BY <1>1, BeginFits DEF Start, ServerPing, ServerUpgradeScan, OnServer
<1> QED
  BY <1>1, CheckSteps, ChoiceFits, TurnFits, AgentEndsFits, StutterFits DEF Next

(* No run of the checkers leaves IInv. *)
THEOREM Invariance == Spec => []IInv
BY InitHolds, StepHolds, PTL DEF Spec

(* Interfaces, the operator's choice, checks and the cached binary keep their
   types: no handler leaves a value its callers do not expect. *)
THEOREM TypeCorrect == Spec => []TypeOK
<1>1. IInv => TypeOK
  BY DEF IInv
<1> QED
  BY <1>1, Invariance, PTL

(* resolveIP: the address a result reports is the one every probe went to. *)
THEOREM ReportedIsTheOneProbed == Spec => []ReportedIsProbed
<1>1. IInv => ReportedIsProbed
  BY DEF IInv, ProbeIsSettled, ReportedIsProbed
<1> QED
  BY <1>1, Invariance, PTL

(* EnsureXrayBinary and the deferred cleanup of a vless check: xray-core is run
   from a whole file only, and nothing of it outlives its check. *)
THEOREM XrayIsInHand == Spec => []XrayIsKeptInHand
<1>1. IInv => XrayIsKeptInHand
  <2> SUFFICES ASSUME IInv PROVE WholeXray /\ NothingLeft
    BY DEF XrayIsKeptInHand
  <2>1. \A c \in Checks : FilesFitStage(c)
    BY DEF IInv
  <2> QED
    BY <2>1 DEF FilesFitStage, WholeXray, NothingLeft
<1> QED
  BY <1>1, Invariance, PTL

-----------------------------------------------------------------------------
(* What a check says when its interface never came back *)

(* Without its interface a check of an address ends where it first asks for the
   interface, or where xray-core's own preparations fail. *)
LEMMA LostEnding ==
    ASSUME IInv, NEW c \in Checks, Active(c), check[c].lost,
           check[c].target = Literal \/ check[c].kind \in {"ping", "vless"},
           check[c].kind # "dns",
           LocalStep(c) \/ Answer(c) \/ Expire(c) \/ Cancel(c), check'[c].stage = "done"
    PROVE  NamesTheInterface(check'[c].result) \/ check'[c].result = "xray"
<1>1. /\ check[c] \in CheckRow /\ RowFits(check[c]) /\ Gone(c) /\ ~Usable(c)
      /\ check[c].stage \in Course(check[c].kind) /\ LostStage(c)
  BY UnderWay, GoneUnusable DEF IInv
<1>2. check[c].kind # "none" /\ ~OnServer(c)
  BY <1>1 DEF Course, Gone, Bind
<1>3. check[c].stage \in {"byname", "resolve", "dial", "binary", "install", "port", "bind"}
  BY <1>1 DEF LostStage
<1>4. check[c].xray = "none"
  BY <1>1, <1>3 DEF RowFits
<1>5. ~Answer(c)
  BY <1>3, <1>4 DEF Answer, Connect, Handshake, Exchange, Diagnose, Lookup, Exec, XrayRuns,
                    XrayExits, RunSpeedTest, DownloadCapped
<1>6. ~Expire(c) /\ ~Cancel(c)
  BY <1>3 DEF Expire, Cancel, Bounded, Waiting
<1>7. \/ ResolveBoundInterface(c) \/ ResolveIP(c) \/ Dial(c) \/ EnsureXrayBinary(c)
      \/ InstallBinary(c) \/ FreePort(c) \/ SendThrough(c)
  BY <1>3, <1>5, <1>6 DEF LocalStep, ServerPort, WriteTempConfig, Spawn, WaitForPort, Cleanup
<1>8. \A result : End(c, result) => check'[c].result = result
  BY <1>1 DEF End, IInv, TypeOK, CheckRow
<1>9. \A stage : Goto(c, stage) => check'[c].stage = stage
  BY <1>1 DEF Goto, IInv, TypeOK, CheckRow
<1>10. NamesTheInterface(ClassifyNetError("iface")) /\ NamesTheInterface("iface")
  BY DEF NamesTheInterface, ClassifyNetError
<1>11. CASE ResolveBoundInterface(c)
  BY <1>1, <1>8, <1>10, <1>11 DEF ResolveBoundInterface, Gone
<1>12. ~ResolveIP(c)
  <2> SUFFICES ASSUME ResolveIP(c) PROVE FALSE
    OBVIOUS
  <2>1. AfterResolve(check[c].kind) # "done"
    BY DEF AfterResolve
  <2>2. check'[c].stage = AfterResolve(check[c].kind)
    <3>1. CASE Goto(c, AfterResolve(check[c].kind))
      BY <1>9, <3>1
    <3>2. CASE \E ips \in Answers : \E ip \in PickPreferredIP(ips, PreferFamily(c)) :
                 check' = [check EXCEPT ![c].stage = AfterResolve(check[c].kind),
                                        ![c].probe = ProbeTarget(c, ip), ![c].reported = ip]
      <4>1. PICK ip :
              check' = [check EXCEPT ![c].stage = AfterResolve(check[c].kind),
                                     ![c].probe = ProbeTarget(c, ip), ![c].reported = ip]
        BY <3>2
      <4> QED
        BY <1>1, <4>1 DEF IInv, TypeOK, CheckRow
    <3> QED
      BY <3>1, <3>2 DEF ResolveIP
  <2> QED
    BY <2>1, <2>2
<1>13. CASE Dial(c)
  <2>1. /\ check[c].stage = "dial" /\ check[c].target = Literal
        /\ check[c].kind \in {"tcp", "http", "tls", "upgrade"}
    BY <1>1, <1>2, <1>13 DEF Dial, Course, LostStage, OnServer
  <2>2. check[c].probe # "name" /\ ~check[c].ok
    BY <1>1, <2>1, ConstantsFit DEF RowFits, LostStage
  <2>3. Outcome(c, "iface")
    BY <1>1, <1>13, <2>2 DEF Dial
  <2>4. CASE check[c].kind # "tls"
    BY <1>8, <1>10, <2>3, <2>4 DEF Outcome, MessageOf
  <2>5. CASE check[c].kind = "tls"
    <3>1. Attempted(c, "iface")
      BY <2>3, <2>5 DEF Outcome
    <3>2. ~(check[c].left > 1 /\ ~Cancelled(c))
      <4> SUFFICES ASSUME check[c].left > 1 /\ ~Cancelled(c) PROVE FALSE
        OBVIOUS
      <4>1. check' = [check EXCEPT ![c].stage = "dial", ![c].ok = check[c].ok \/ "iface" = "none",
                                   ![c].left = @ - 1]
        BY <3>1 DEF Attempted
      <4>2. check'[c].stage = "dial"
        BY <1>1, <4>1 DEF IInv, TypeOK, CheckRow
      <4> QED
        BY <4>2
    <3>3. End(c, ClassifyNetError("iface"))
      BY <2>2, <3>1, <3>2 DEF Attempted, ClassifyNetError
    <3> QED
      BY <1>8, <1>10, <3>3
  <2> QED
    BY <2>4, <2>5
<1>14. CASE EnsureXrayBinary(c)
  BY <1>1, <1>8, <1>9, <1>14 DEF EnsureXrayBinary, IInv, TypeOK, CheckRow
<1>15. CASE InstallBinary(c)
  BY <1>1, <1>15 DEF InstallBinary, WriteBinary, IInv, TypeOK, CheckRow
<1>16. CASE FreePort(c)
  BY <1>1, <1>8, <1>16 DEF FreePort, IInv, TypeOK, CheckRow
<1>17. CASE SendThrough(c)
  BY <1>1, <1>8, <1>10, <1>17 DEF SendThrough
<1> QED
  BY <1>7, <1>11, <1>12, <1>13, <1>14, <1>15, <1>16, <1>17

(* The step of a check leaves the others alone, and only the network's turns
   tell it whether its interface is back. *)
OwnStep(c) ==
    /\ \A d \in Checks : d # c => check'[d] = check[d]
    /\ check'[c].lost = check[c].lost

LEMMA OwnSteps ==
    ASSUME IInv, NEW c \in Checks, LocalStep(c) \/ Answer(c) \/ Expire(c) \/ Cancel(c)
    PROVE  OwnStep(c)
<1>1. check \in [Checks -> CheckRow] /\ check[c] \in CheckRow
  BY DEF IInv, TypeOK
<1>2. \A result : End(c, result) => OwnStep(c)
  BY <1>1 DEF End, OwnStep, CheckRow
<1>3. \A stage : Goto(c, stage) => OwnStep(c)
  BY <1>1 DEF Goto, OwnStep, CheckRow
<1>4. ASSUME NEW err, Outcome(c, err) PROVE OwnStep(c)
  <2>1. ASSUME NEW ok, check[c].left > 1,
               check' = [check EXCEPT ![c].stage = "dial", ![c].ok = ok, ![c].left = @ - 1]
        PROVE  OwnStep(c)
    BY <1>1, <2>1 DEF OwnStep, CheckRow
  <2> QED
    BY <1>2, <1>3, <1>4, <2>1 DEF Outcome, Attempted
<1>5. ASSUME NEW err, GivesUp(c, err) PROVE OwnStep(c)
  BY <1>2, <1>4, <1>5 DEF GivesUp
<1>6. CASE ResolveBoundInterface(c)
  BY <1>1, <1>2, <1>3, <1>6 DEF ResolveBoundInterface, OwnStep, CheckRow
<1>7. CASE ResolveIP(c)
  <2>1. ASSUME NEW probe, NEW ip,
               check' = [check EXCEPT ![c].stage = AfterResolve(check[c].kind),
                                      ![c].probe = probe, ![c].reported = ip]
        PROVE  OwnStep(c)
    BY <1>1, <2>1 DEF OwnStep, CheckRow
  <2> QED
    BY <1>3, <1>7, <2>1 DEF ResolveIP
<1>8. CASE Dial(c)
  <2>1. ASSUME NEW a, check' = [check EXCEPT ![c].stage = "connect", ![c].hit = @ \cup {a}]
        PROVE  OwnStep(c)
    BY <1>1, <2>1 DEF OwnStep, CheckRow
  <2> QED
    BY <1>4, <1>8, <2>1 DEF Dial
<1>9. CASE ServerPort(c)
  <2>1. PICK a \in Destinations(c), up \in BOOLEAN :
          check' = [check EXCEPT
              ![c].hit = @ \cup {a}, ![c].left = @ - 1, ![c].ok = @ \/ up,
              ![c].stage = IF check[c].left = 1 THEN "done" ELSE "ports",
              ![c].result = IF check[c].left > 1 THEN "none"
                            ELSE IF up \/ check[c].ok THEN "ok" ELSE "not accepted"]
    BY <1>9 DEF ServerPort
  <2> QED
    BY <1>1, <2>1 DEF OwnStep, CheckRow
<1>10. CASE EnsureXrayBinary(c) \/ InstallBinary(c) \/ FreePort(c) \/ SendThrough(c)
  <2>1. CASE EnsureXrayBinary(c)
    BY <1>1, <1>2, <1>3, <2>1 DEF EnsureXrayBinary, OwnStep, CheckRow
  <2>2. CASE InstallBinary(c)
    BY <1>1, <2>2 DEF InstallBinary, WriteBinary, OwnStep, CheckRow
  <2>3. CASE FreePort(c)
    BY <1>1, <1>2, <2>3 DEF FreePort, OwnStep, CheckRow
  <2>4. CASE SendThrough(c)
    BY <1>2, <1>3, <2>4 DEF SendThrough
  <2> QED
    BY <1>10, <2>1, <2>2, <2>3, <2>4
<1>11. CASE WriteTempConfig(c) \/ Spawn(c) \/ WaitForPort(c) \/ Cleanup(c)
  <2>1. CASE WriteTempConfig(c)
    BY <1>1, <1>2, <2>1 DEF WriteTempConfig, OwnStep, CheckRow
  <2>2. CASE Spawn(c)
    BY <1>1, <1>2, <2>2 DEF Spawn, OwnStep, CheckRow
  <2>3. CASE WaitForPort(c)
    BY <1>3, <2>3 DEF WaitForPort
  <2>4. CASE Cleanup(c)
    BY <1>1, <2>4 DEF Cleanup, Left, OwnStep, CheckRow
  <2> QED
    BY <1>11, <2>1, <2>2, <2>3, <2>4
<1>12. CASE Connect(c) \/ Handshake(c) \/ Exchange(c) \/ Diagnose(c) \/ Lookup(c) \/ RunSpeedTest(c)
            \/ DownloadCapped(c)
  BY <1>2, <1>3, <1>4, <1>12 DEF Connect, Handshake, Exchange, Diagnose, Lookup, RunSpeedTest,
                                DownloadCapped
<1>13. CASE Exec(c)
  <2>1. ASSUME NEW hit, NEW result,
               check' = [check EXCEPT ![c].stage = "done", ![c].hit = hit, ![c].result = result]
        PROVE  OwnStep(c)
    BY <1>1, <2>1 DEF OwnStep, CheckRow
  <2> QED
    BY <1>13, <2>1 DEF Exec
<1>14. CASE XrayRuns(c) \/ XrayExits(c)
  BY <1>1, <1>14 DEF XrayRuns, XrayExits, OwnStep, CheckRow
<1>15. CASE Expire(c) \/ Cancel(c)
  BY <1>5, <1>15 DEF Expire, Cancel
<1> QED
  BY <1>6, <1>7, <1>8, <1>9, <1>10, <1>11, <1>12, <1>13, <1>14, <1>15 DEF LocalStep, Answer

(* A check is ended by a step of its own. *)
LEMMA EndsItself ==
    ASSUME IInv, Next, NEW c \in Checks, check[c].stage # "done", check'[c].stage = "done"
    PROVE  /\ Active(c) /\ (LocalStep(c) \/ Answer(c) \/ Expire(c) \/ Cancel(c))
           /\ check'[c].lost = check[c].lost
<1>1. ~UNCHANGED check
  OBVIOUS
<1>2. ASSUME NEW i \in Ifaces PROVE ~Turn(i)
  <2> SUFFICES ASSUME Turn(i) PROVE FALSE
    OBVIOUS
  <2>1. check[c] \in CheckRow /\
        check'[c] = [check[c] EXCEPT !.lost = @ /\ (Bind(c) = i => ~Exists(i)')]
    BY DEF Turn, IInv, TypeOK
  <2> QED
    BY <2>1 DEF CheckRow
<1>3. ASSUME NEW d \in Checks PROVE ~Begin(d)
  <2> SUFFICES ASSUME Begin(d) PROVE FALSE
    OBVIOUS
  <2>1. FirstStage(check[d].kind) # "done"
    BY DEF FirstStage
  <2>2. check[d] \in CheckRow /\ check[c] \in CheckRow
    BY DEF IInv, TypeOK
  <2>3. check'[d].stage = FirstStage(check[d].kind)
    BY <2>2 DEF Begin, IInv, TypeOK, CheckRow
  <2>4. d # c => check'[c] = check[c]
    BY DEF Begin, IInv, TypeOK
  <2> QED
    BY <2>1, <2>3, <2>4
<1>4. PICK d \in Checks : LocalStep(d) \/ Answer(d) \/ Expire(d) \/ Cancel(d)
  BY <1>1, <1>2, <1>3 DEF Next, Start, ServerPing, ServerUpgradeScan, AgentEnds
<1>5. d = c /\ check'[c].lost = check[c].lost
  BY <1>4, OwnSteps DEF OwnStep
<1>6. check[c].stage # "idle"
  <2> SUFFICES ASSUME check[c].stage = "idle" PROVE FALSE
    OBVIOUS
  <2>1. check[c].xray = "none"
    BY DEF IInv, FilesFitStage
  <2>2. ~LocalStep(c)
    BY DEF LocalStep, ResolveBoundInterface, ResolveIP, Dial, ServerPort, EnsureXrayBinary,
           InstallBinary, FreePort, SendThrough, WriteTempConfig, Spawn, WaitForPort, Cleanup
  <2>3. ~Answer(c)
    BY <2>1 DEF Answer, Connect, Handshake, Exchange, Diagnose, Lookup, Exec, XrayRuns, XrayExits,
                RunSpeedTest, DownloadCapped
  <2>4. ~Expire(c) /\ ~Cancel(c)
    BY DEF Expire, Cancel, Bounded, Waiting
  <2> QED
    BY <1>4, <1>5, <2>2, <2>3, <2>4
<1> QED
  BY <1>4, <1>5, <1>6 DEF Active

(* resolveBoundInterface, the dialer's Control and classifyNetError: a check
   that never had its interface blames nothing else. *)
THEOREM LostInterfaceNamed == Spec => LostInterfaceIsNamed
<1>1. ASSUME IInv, Next, NEW c \in Checks,
             check[c].stage # "done", check'[c].stage = "done", check'[c].lost,
             check[c].target = Literal \/ check[c].kind \in {"ping", "vless"},
             check[c].kind # "dns"
      PROVE  NamesTheInterface(check'[c].result) \/ check'[c].result = "xray"
  BY <1>1, EndsItself, LostEnding
<1> DEFINE Named == \A c \in Checks :
        /\ check[c].stage # "done" /\ check'[c].stage = "done"
        /\ check'[c].lost /\ agent = "up"
        /\ check[c].target = Literal \/ check[c].kind \in {"ping", "vless"}
        /\ check[c].kind # "dns"
        => NamesTheInterface(check'[c].result) \/ check'[c].result = "xray"
<1>2. IInv /\ [Next]_vars => [Named]_vars
  BY <1>1
<1>3. Spec => [][Named]_vars
  BY <1>2, Invariance, PTL DEF Spec
<1> QED
  BY <1>3 DEF LostInterfaceIsNamed
=============================================================================
