------------------------- MODULE AgentInstallProofs -------------------------
(* AgentInstall is safe for any folders, names, settings and platforms.       *)
EXTENDS AgentInstall, TLAPS

USE DEF Usable, RiskyDir, CanWriteDir

LEMMA AnyNameIsName == AnyName \in Names
BY InstallAssumption DEF AnyName

(* A command that ends holds nothing any more. *)
LEMMA AtRestIsSafe == AtRest \in Cli /\ AtRest.step = "idle"
BY AnyNameIsName, InstallAssumption DEF AtRest, Cli, Steps, Ops

LEMMA NoServiceIsSafe == NoService \in Service /\ ~NoService.installed
BY AnyNameIsName, InstallAssumption DEF NoService, Service

LEMMA InitHolds == Init => IInv
<1> SUFFICES ASSUME Init PROVE IInv
  OBVIOUS
<1>1. files \in [Dirs -> [Names -> 0..MaxVersion]]
  BY InstallAssumption, AnyNameIsName DEF Init
<1>2. config \in [Dirs -> Contents] /\ config[Safe] = "absent"
  BY InstallAssumption DEF Init, Contents
<1>3. cli = AtRest /\ service = NoService /\ platform \in Platforms
      /\ reported = FALSE /\ made = FALSE /\ drops = 0 /\ breaks = 0
  BY DEF Init
<1>4. TypeOK
  <2>1. reported \in BOOLEAN /\ made \in BOOLEAN
    BY <1>3, Zenon
  <2>2. drops \in 0..MaxDrops /\ breaks \in 0..MaxBreaks
    BY <1>3, InstallAssumption
  <2>3. service \in Service /\ cli \in Cli
    BY <1>3, AtRestIsSafe, NoServiceIsSafe
  <2> QED
    BY <1>1, <1>2, <1>3, <2>1, <2>2, <2>3 DEF TypeOK
<1>5. ~Configured(Safe)
  BY <1>2, InstallAssumption DEF Configured
<1> QED
  BY <1>3, <1>4, <1>5, AtRestIsSafe, NoServiceIsSafe
     DEF IInv, SafeWasWritable, WritesWhereItMay, ConfigIsNear, InstallerIsPlaced,
         StepIsMeant, OtherNodeIsComplete, ServiceOutOfRiskyDirs

-----------------------------------------------------------------------------
(* A command that ends, or never began, keeps everything else as it is. *)
LEMMA QuitKeeps ==
    ASSUME IInv, cli' = AtRest, UNCHANGED <<platform, config, drops, made>>,
           files' = files, reported' \in BOOLEAN, breaks' \in 0..MaxBreaks,
           service' \in Service,
           service'.installed => /\ service.installed
                                 /\ service'.dir = service.dir /\ service'.cfg = service.cfg
    PROVE  IInv'
BY AtRestIsSafe
   DEF IInv, TypeOK, SafeWasWritable, WritesWhereItMay, ConfigIsNear, InstallerIsPlaced,
       StepIsMeant, OtherNodeIsComplete, ServiceOutOfRiskyDirs, Configured

(* The operating system may start and stop the service at any time. *)
LEMMA UpAndDown ==
    ASSUME TypeOK
    PROVE  /\ Up \in Service /\ Down \in Service
           /\ \A s \in {Up, Down} : /\ s.installed = service.installed
                                    /\ s.dir = service.dir /\ s.cfg = service.cfg
                                    /\ s.name = service.name
<1>1. files[service.dir][service.name] \in 0..MaxVersion
  BY DEF TypeOK, Service
<1>2. Load(service.cfg) \in Settings \cup {"none"}
  BY DEF Load, Configured
<1>3. 0 \in 0..MaxVersion
  BY InstallAssumption
<1> QED
  BY <1>1, <1>2, <1>3 DEF TypeOK, Service, Up, Down

(* Going on with a command changes nothing but its step. *)
LEMMA GotoFrame ==
    ASSUME TypeOK, NEW x \in Steps, Goto(x)
    PROVE  /\ cli' \in Cli /\ cli'.step = x
           /\ cli'.op = cli.op /\ cli'.dir = cli.dir /\ cli'.cfg = cli.cfg
           /\ cli'.name = cli.name /\ cli'.new = cli.new /\ cli'.menu = cli.menu
BY DEF TypeOK, Cli, Goto

LEMMA BeginFrame ==
    ASSUME TypeOK, NEW op \in Ops, NEW menu \in BOOLEAN, Begin(op, menu)
    PROVE  /\ cli' \in Cli /\ cli'.op = op
           /\ cli'.dir = cli.dir /\ cli'.cfg = cli.cfg
           /\ cli'.name = cli.name /\ cli'.new = cli.new
           /\ cli'.step \in {"failed", "resolve", "menu", "install", "uninstall", "start", "stop"}
           /\ cli'.step = "install" => op = "install"
           /\ cli'.step = "stop" => op \in DOMAIN AfterStop
<1>1. /\ FirstStep[op] \in {"resolve", "menu", "install", "uninstall", "start", "stop"}
      /\ FirstStep[op] = "install" => op = "install"
      /\ FirstStep[op] = "stop" => op \in {"stop", "restart", "update", "remove"}
  BY DEF FirstStep, Ops
<1>2. DOMAIN AfterStop = {"stop", "restart", "update", "remove"}
  BY DEF AfterStop
<1> QED
  BY <1>1, <1>2, ZenonT(30) DEF TypeOK, Cli, Begin, Steps

-----------------------------------------------------------------------------
(* Starting a command *)

LEMMA InvokeStep ==
    ASSUME IInv, NEW d \in Dirs, NEW n \in Names, NEW op \in Ops, Invoke(d, n, op)
    PROVE  IInv'
<1>1. /\ cli' = [step |-> "main", op |-> op, menu |-> FALSE, dir |-> d, name |-> n,
                 cfg |-> Resolved(d), new |-> "blank"]
      /\ UNCHANGED <<platform, files, config, reported, made, service, drops, breaks>>
  BY DEF Invoke
<1>2. Resolved(d) \in Dirs
  BY InstallAssumption DEF Resolved
<1>3. TypeOK'
  BY <1>1, <1>2 DEF IInv, TypeOK, Cli, Steps
<1>4. ConfigIsNear' /\ OtherNodeIsComplete'
  BY <1>1, InstallAssumption
     DEF IInv, Resolved, SafeWasWritable, ConfigIsNear, OtherNodeIsComplete, Configured
<1> QED
  BY <1>1, <1>3, <1>4
     DEF IInv, SafeWasWritable, WritesWhereItMay, InstallerIsPlaced, StepIsMeant,
         ServiceOutOfRiskyDirs, Configured

(* A copy into the standard place is one more version there. *)
LEMMA ReplaceKeepsType ==
    ASSUME TypeOK, NEW n \in Names, NEW v \in 0..MaxVersion, Replace(n, v)
    PROVE  files' \in [Dirs -> [Names -> 0..MaxVersion]]
<1>1. [files[Safe] EXCEPT ![n] = v] \in [Names -> 0..MaxVersion]
  BY InstallAssumption DEF TypeOK
<1> QED
  BY <1>1 DEF TypeOK, Replace

LEMMA MainSteps ==
    ASSUME IInv, Relocate \/ ReportDirProblem \/ Dispatch
    PROVE  IInv'
<1> USE DEF IInv, SafeWasWritable, WritesWhereItMay, ConfigIsNear, InstallerIsPlaced,
            StepIsMeant, OtherNodeIsComplete, ServiceOutOfRiskyDirs, Configured
<1>1. CASE Relocate
  <2>1. /\ cli' = [cli EXCEPT !.dir = Safe, !.cfg = Safe] /\ cli.step = "main"
        /\ Safe \in Writable
        /\ UNCHANGED <<platform, reported, service, drops>> /\ made' = TRUE
    BY <1>1 DEF Relocate, ReExec
  <2>2. cli' \in Cli /\ cli'.step = "main" /\ cli'.dir = Safe /\ cli'.cfg = Safe
    BY <2>1, InstallAssumption DEF TypeOK, Cli
  <2>3. files' \in [Dirs -> [Names -> 0..MaxVersion]]
    <3>1. cli.name \in Names /\ files[cli.dir][cli.name] \in 0..MaxVersion
      BY DEF TypeOK, Cli
    <3> QED
      BY <1>1, <3>1, ReplaceKeepsType DEF Relocate
  <2>4. config' \in [Dirs -> Contents] /\ breaks' \in 0..MaxBreaks
    <3>1. CASE CopyConfig /\ UNCHANGED breaks
      BY <3>1 DEF CopyConfig, TypeOK, Cli
    <3>2. CASE ConfigCopyFails
      BY <3>2, InstallAssumption DEF ConfigCopyFails, TypeOK, Contents
    <3> QED
      BY <1>1, <3>1, <3>2 DEF Relocate
  <2>5. TypeOK'
    BY <2>1, <2>2, <2>3, <2>4 DEF TypeOK
  <2> QED
    BY <2>1, <2>2, <2>5, InstallAssumption
<1>2. CASE ReportDirProblem
  <2>1. cli' \in Cli /\ cli'.step = "failed" /\ cli'.cfg = cli.cfg
    BY <1>2, GotoFrame DEF ReportDirProblem, Steps
  <2> QED
    BY <1>2, <2>1 DEF ReportDirProblem, TypeOK
<1>3. CASE Dispatch
  <2>1. UNCHANGED <<platform, files, config, reported, made, service, drops, breaks>>
    BY <1>3 DEF Dispatch
  <2>2. cli.step = "main" /\ (cli.op \in {"setup", "install"} => Usable(cli.dir) /\ Usable(cli.cfg))
    BY <1>3 DEF Dispatch, MustRelocate, Relocating
  <2>3. cli.op \in Ops /\ (cli.op = "menu") \in BOOLEAN /\ Begin(cli.op, cli.op = "menu")
    BY <1>3 DEF Dispatch, TypeOK, Cli
  <2>4. /\ cli' \in Cli /\ cli'.op = cli.op /\ cli'.cfg = cli.cfg /\ cli'.dir = cli.dir
        /\ cli'.step \in {"failed", "resolve", "menu", "install", "uninstall", "start", "stop"}
        /\ cli'.step = "install" => cli.op = "install"
        /\ cli'.step = "stop" => cli.op \in DOMAIN AfterStop
    BY <2>3, BeginFrame
  <2> QED
    BY <2>1, <2>2, <2>4 DEF TypeOK
<1> QED
  BY <1>1, <1>2, <1>3

LEMMA MenuSteps ==
    ASSUME IInv, Choose \/ Acknowledge
    PROVE  IInv'
<1>1. UNCHANGED <<platform, files, config, reported, made, service, drops, breaks>>
  BY DEF Choose, Acknowledge
<1>2. CASE Quit
  BY <1>1, <1>2, QuitKeeps DEF Quit, IInv, TypeOK
<1>3. CASE Choose /\ ~Quit
  <2>1. PICK op \in {"reconfigure", "stop", "start", "restart", "remove", "update"} :
             Begin(op, TRUE)
    BY <1>3 DEF Choose
  <2>2. op \in Ops /\ op \notin {"setup", "install"} /\ TRUE \in BOOLEAN
    BY DEF Ops
  <2>3. /\ cli' \in Cli /\ cli'.op = op /\ cli'.cfg = cli.cfg
        /\ cli'.step \in {"failed", "resolve", "menu", "install", "uninstall", "start", "stop"}
        /\ cli'.step = "install" => op = "install"
        /\ cli'.step = "stop" => op \in DOMAIN AfterStop
    BY <2>1, <2>2, BeginFrame DEF IInv
  <2>4. cli.step = "menu"
    BY <1>3 DEF Choose
  <2> QED
    BY <1>1, <2>2, <2>3, <2>4
       DEF IInv, TypeOK, SafeWasWritable, WritesWhereItMay, ConfigIsNear, InstallerIsPlaced,
           StepIsMeant, OtherNodeIsComplete, ServiceOutOfRiskyDirs, Configured
<1>4. CASE Acknowledge /\ ~Quit
  <2>1. /\ cli' = [cli EXCEPT !.step = "menu", !.op = "menu", !.new = "blank"]
        /\ cli.step \in {"done", "failed"} /\ cli.op # "remove"
    BY <1>4 DEF Acknowledge, Answer
  <2>2. cli' \in Cli /\ cli'.step = "menu" /\ cli'.cfg = cli.cfg
    BY <2>1 DEF IInv, TypeOK, Cli, Steps, Ops
  <2> QED
    BY <1>1, <2>1, <2>2
       DEF IInv, TypeOK, SafeWasWritable, WritesWhereItMay, ConfigIsNear, InstallerIsPlaced,
           StepIsMeant, OtherNodeIsComplete, ServiceOutOfRiskyDirs, Configured
<1> QED
  BY <1>2, <1>3, <1>4

-----------------------------------------------------------------------------
(* What a command does *)

LEMMA SetupStepsHold ==
    ASSUME IInv, SetupSteps
    PROVE  IInv'
<1> USE DEF IInv, SafeWasWritable, WritesWhereItMay, ConfigIsNear, InstallerIsPlaced,
            StepIsMeant, OtherNodeIsComplete, ServiceOutOfRiskyDirs, Configured
<1>1. CASE ResolveConfig \/ ResolveNothing \/ SaveFails
  <2>1. /\ UNCHANGED <<platform, files, config, reported, made, service, drops>>
        /\ breaks' \in 0..MaxBreaks
    <3>1. breaks' = breaks \/ (breaks < MaxBreaks /\ breaks' = breaks + 1)
      BY <1>1 DEF ResolveConfig, ResolveNothing, SaveFails
    <3>2. breaks' \in 0..MaxBreaks
      BY <3>1, InstallAssumption DEF TypeOK
    <3> QED
      BY <1>1, <3>2 DEF ResolveConfig, ResolveNothing, SaveFails
  <2>2. /\ cli' \in Cli /\ cli'.op = cli.op /\ cli'.dir = cli.dir /\ cli'.cfg = cli.cfg
        /\ \/ cli'.step = "failed" /\ cli.step \in {"resolve", "truncate"}
           \/ /\ cli'.step = "truncate" /\ cli.step = "resolve"
              /\ cli'.new \in Settings \/ ~Configured(cli.cfg)
    <3>1. CASE ResolveNothing
      BY <3>1 DEF ResolveNothing, TypeOK, Cli, Steps
    <3>2. CASE ResolveConfig
      BY <3>2, ZenonT(30) DEF ResolveConfig, Goto, TypeOK, Cli, Steps
    <3>3. CASE SaveFails
      BY <3>3 DEF SaveFails, Goto, TypeOK, Cli, Steps
    <3> QED
      BY <1>1, <3>1, <3>2, <3>3
  <2> QED
    BY <2>1, <2>2 DEF TypeOK
<1>2. CASE Truncate
  <2>1. /\ UNCHANGED <<platform, files, reported, service, drops, breaks>>
        /\ cli.step = "truncate" /\ cli.cfg \in Writable
        /\ made' = (made \/ cli.cfg = Safe)
    BY <1>2 DEF Truncate
  <2>2. config' = [config EXCEPT ![cli.cfg] = "torn"] /\ config' \in [Dirs -> Contents]
    BY <1>2 DEF Truncate, TypeOK, Contents
  <2>3. /\ cli' \in Cli /\ cli'.step = "write" /\ cli'.op = cli.op
        /\ cli'.dir = cli.dir /\ cli'.cfg = cli.cfg /\ cli'.new = cli.new
    BY <1>2, GotoFrame DEF Truncate, Steps
  <2>4. made' \in BOOLEAN
    BY <2>1, Zenon DEF TypeOK
  <2>5. cli.cfg \in Dirs
    BY DEF TypeOK, Cli
  <2> QED
    BY <2>1, <2>2, <2>3, <2>4, <2>5, InstallAssumption DEF TypeOK
<1>3. CASE Write
  <2>1. /\ UNCHANGED <<platform, files, reported, made, service, drops, breaks>>
        /\ cli.step = "write" /\ cli.cfg \in Dirs
    BY <1>3 DEF Write, TypeOK, Cli
  <2>2. config' = [config EXCEPT ![cli.cfg] = cli.new] /\ config' \in [Dirs -> Contents]
    BY <1>3 DEF Write, TypeOK, Cli, Contents
  <2>3. /\ cli' \in Cli /\ cli'.op = cli.op
        /\ cli'.dir = cli.dir /\ cli'.cfg = cli.cfg /\ cli'.new = cli.new
        /\ cli'.step = IF cli.op = "setup" THEN "install" ELSE "done"
    BY <1>3, GotoFrame DEF Write, Steps
  <2> QED
    BY <2>1, <2>2, <2>3, InstallAssumption DEF TypeOK
<1> QED
  BY <1>1, <1>2, <1>3 DEF SetupSteps

LEMMA ControlStepsHold ==
    ASSUME IInv, ControlSteps
    PROVE  IInv'
<1> USE DEF IInv, SafeWasWritable, WritesWhereItMay, ConfigIsNear, InstallerIsPlaced,
            StepIsMeant, OtherNodeIsComplete, ServiceOutOfRiskyDirs, Configured
<1>1. CASE Install
  <2>1. /\ UNCHANGED <<platform, files, config, reported, made, drops, breaks>>
        /\ cli.step = "install" /\ Usable(cli.dir) /\ Usable(cli.cfg)
    BY <1>1 DEF Install
  <2>2. /\ cli' \in Cli /\ cli'.op = cli.op /\ cli'.dir = cli.dir /\ cli'.cfg = cli.cfg
        /\ cli'.step \in {"start", "done", "failed"}
    BY <1>1, GotoFrame DEF Install, Steps
  <2>3. \/ service' = service
        \/ service' = [Down EXCEPT !.installed = TRUE, !.dir = cli.dir,
                                   !.name = cli.name, !.cfg = cli.cfg]
    BY <1>1 DEF Install
  <2>4. service' \in Service /\ (service' = service \/ (service'.dir = cli.dir /\ service'.cfg = cli.cfg))
    <3>1. cli.dir \in Dirs /\ cli.cfg \in Dirs /\ cli.name \in Names
      BY DEF TypeOK, Cli
    <3>2. service \in Service /\ Down \in Service
      BY UpAndDown DEF TypeOK
    <3> QED
      BY <2>3, <3>1, <3>2 DEF Service
  <2> QED
    BY <2>1, <2>2, <2>4, ZenonT(30) DEF TypeOK
<1>2. CASE Stop \/ StopRefused
  <2>1. /\ UNCHANGED <<platform, files, config, reported, made, drops, breaks>>
        /\ cli.step = "stop" /\ cli.op \in DOMAIN AfterStop
        /\ service' \in {service, Down}
    BY <1>2 DEF Stop, StopRefused
  <2>2. AfterStop[cli.op] \in {"done", "start", "copy", "uninstall"}
    BY <2>1 DEF AfterStop
  <2>3. /\ cli' \in Cli /\ cli'.op = cli.op /\ cli'.dir = cli.dir /\ cli'.cfg = cli.cfg
        /\ cli'.step \in {"done", "start", "copy", "uninstall", "failed"}
    BY <1>2, <2>2, GotoFrame DEF Stop, StopRefused, Steps
  <2>4. service' \in Service /\ service'.installed = service.installed
        /\ service'.dir = service.dir /\ service'.cfg = service.cfg
    BY <2>1, UpAndDown DEF TypeOK
  <2> QED
    BY <2>1, <2>3, <2>4 DEF TypeOK
<1>3. CASE Start \/ StartRefused \/ DarwinBootstrapRecover
  <2>1. /\ UNCHANGED <<platform, files, config, made, drops, breaks>>
        /\ cli.step \in {"start", "recover"} /\ service' \in {service, Up, Down}
    BY <1>3 DEF Start, StartRefused, DarwinBootstrapRecover, Runs
  <2>2. reported' \in BOOLEAN
    BY <1>3, Zenon DEF Start, StartRefused, DarwinBootstrapRecover, Runs, TypeOK
  <2>3. /\ cli' \in Cli /\ cli'.op = cli.op /\ cli'.dir = cli.dir /\ cli'.cfg = cli.cfg
        /\ cli'.step \in {"done", "recover", "failed"}
    BY <1>3, GotoFrame DEF Start, StartRefused, DarwinBootstrapRecover, Steps
  <2>4. service' \in Service /\ service'.installed = service.installed
        /\ service'.dir = service.dir /\ service'.cfg = service.cfg
    BY <2>1, UpAndDown DEF TypeOK
  <2> QED
    BY <2>1, <2>2, <2>3, <2>4 DEF TypeOK
<1>4. CASE Uninstall
  <2>1. /\ UNCHANGED <<platform, files, config, reported, made, drops, breaks>>
        /\ cli.step = "uninstall" /\ service' \in {service, NoService}
    BY <1>4 DEF Uninstall
  <2>2. /\ cli' \in Cli /\ cli'.op = cli.op /\ cli'.dir = cli.dir /\ cli'.cfg = cli.cfg
        /\ cli'.step \in {"done", "failed", "remove"}
        /\ cli'.step = "remove" => cli.op = "remove"
    BY <1>4, GotoFrame DEF Uninstall, Steps
  <2> QED
    BY <2>1, <2>2, NoServiceIsSafe DEF TypeOK
<1>5. CASE RemoveConfig
  <2>1. /\ UNCHANGED <<platform, files, reported, made, service, drops, breaks>>
        /\ cli.step = "remove" /\ cli.op = "remove" /\ cli.cfg \in Dirs
    BY <1>5 DEF RemoveConfig, TypeOK, Cli
  <2>2. /\ config' = [config EXCEPT ![cli.cfg] = "absent"] /\ config' \in [Dirs -> Contents]
    BY <1>5 DEF RemoveConfig, TypeOK, Contents
  <2>3. /\ cli' \in Cli /\ cli'.op = cli.op /\ cli'.dir = cli.dir /\ cli'.cfg = cli.cfg
        /\ cli'.step = "done"
    BY <1>5, GotoFrame DEF RemoveConfig, Steps
  <2> QED
    BY <2>1, <2>2, <2>3, InstallAssumption DEF TypeOK
<1> QED
  BY <1>1, <1>2, <1>3, <1>4, <1>5 DEF ControlSteps

LEMMA UpdateStepsHold ==
    ASSUME IInv, UpdateSteps
    PROVE  IInv'
<1>1. /\ UNCHANGED <<platform, reported, made, service, drops, breaks>> /\ cli.step = "copy"
  BY DEF UpdateSteps, CopyBinary, CopyFails
<1>2. files' \in [Dirs -> [Names -> 0..MaxVersion]]
  <2>1. cli.name \in Names /\ files[cli.dir][cli.name] \in 0..MaxVersion
    BY DEF IInv, TypeOK, Cli
  <2>2. \/ files' = files
        \/ \E n \in Names : Replace(n, files[cli.dir][cli.name])
    BY DEF UpdateSteps, CopyBinary, CopyFails
  <2> QED
    BY <2>1, <2>2, ReplaceKeepsType DEF IInv, TypeOK
<1>3. config' \in [Dirs -> Contents] /\ (config' = config \/ config' = [config EXCEPT ![Safe] = "torn"])
  BY DEF UpdateSteps, CopyBinary, CopyFails, Contents, IInv, TypeOK
<1>4. /\ cli' \in Cli /\ cli'.op = cli.op /\ cli'.dir = cli.dir /\ cli'.cfg = cli.cfg
      /\ cli'.step \in {"start", "failed"}
  BY GotoFrame DEF UpdateSteps, CopyBinary, CopyFails, Steps, IInv
<1> QED
  BY <1>1, <1>2, <1>3, <1>4, InstallAssumption
     DEF IInv, TypeOK, SafeWasWritable, WritesWhereItMay, ConfigIsNear, InstallerIsPlaced,
         StepIsMeant, OtherNodeIsComplete, ServiceOutOfRiskyDirs, Configured

-----------------------------------------------------------------------------
(* What happens to the machine *)

LEMMA WorldHolds ==
    ASSUME IInv,
           \/ \E d \in Dirs, n \in Names, v \in {0, MaxVersion} : Drop(d, n, v)
           \/ Close \/ ServiceDies \/ Reboot
    PROVE  IInv'
<1>1. ASSUME NEW d \in Dirs, NEW n \in Names, NEW v \in {0, MaxVersion}, Drop(d, n, v)
      PROVE  IInv'
  <2>1. files' \in [Dirs -> [Names -> 0..MaxVersion]]
    BY <1>1, InstallAssumption DEF Drop, IInv, TypeOK
  <2>2. drops' \in 0..MaxDrops
    BY <1>1, InstallAssumption DEF Drop, IInv, TypeOK
  <2>3. made' \in BOOLEAN
    BY <1>1, Zenon DEF Drop, IInv, TypeOK
  <2> QED
    BY <1>1, <2>1, <2>2, <2>3
       DEF Drop, IInv, TypeOK, SafeWasWritable, WritesWhereItMay, ConfigIsNear,
           InstallerIsPlaced, StepIsMeant, OtherNodeIsComplete, ServiceOutOfRiskyDirs, Configured
<1>2. CASE Close
  <2>1. breaks' \in 0..MaxBreaks
    BY <1>2, InstallAssumption DEF Close, IInv, TypeOK
  <2> QED
    BY <1>2, <2>1, QuitKeeps DEF Close, Quit, IInv, TypeOK
<1>3. CASE ServiceDies
  <2>1. breaks' \in 0..MaxBreaks
    BY <1>3, InstallAssumption DEF ServiceDies, IInv, TypeOK
  <2>2. service' \in Service /\ service'.installed = service.installed
        /\ service'.dir = service.dir /\ service'.cfg = service.cfg
    BY <1>3, UpAndDown DEF ServiceDies, IInv
  <2> QED
    BY <1>3, <2>1, <2>2
       DEF ServiceDies, IInv, TypeOK, SafeWasWritable, WritesWhereItMay, ConfigIsNear,
           InstallerIsPlaced, StepIsMeant, OtherNodeIsComplete, ServiceOutOfRiskyDirs, Configured
<1>4. CASE Reboot
  <2>1. breaks' \in 0..MaxBreaks
    BY <1>4, InstallAssumption DEF Reboot, IInv, TypeOK
  <2>2. service' \in Service /\ service'.installed = service.installed
        /\ service'.dir = service.dir /\ service'.cfg = service.cfg
    BY <1>4, UpAndDown DEF Reboot, Runs, IInv
  <2>3. reported' \in BOOLEAN
    BY <1>4, Zenon DEF Reboot, Runs, IInv, TypeOK
  <2> QED
    BY <1>4, <2>1, <2>2, <2>3, QuitKeeps DEF Reboot, Quit
<1> QED
  BY <1>1, <1>2, <1>3, <1>4

-----------------------------------------------------------------------------

LEMMA StepHolds ==
    ASSUME IInv, [Next]_vars
    PROVE  IInv'
<1>1. ASSUME NEW d \in Dirs, NEW n \in Names, DoubleClick(d, n) \/ Command(d, n)
      PROVE  IInv'
  <2>1. PICK op \in Ops : Invoke(d, n, op)
    BY <1>1 DEF DoubleClick, Command, Bare, Ops
  <2> QED
    BY <2>1, InvokeStep
<1>2. CASE CommandGoesOn
  BY <1>2, MainSteps, MenuSteps, SetupStepsHold, ControlStepsHold, UpdateStepsHold
     DEF CommandGoesOn
<1>3. CASE UNCHANGED vars
  BY <1>3
     DEF vars, IInv, TypeOK, SafeWasWritable, WritesWhereItMay, ConfigIsNear,
         InstallerIsPlaced, StepIsMeant, OtherNodeIsComplete, ServiceOutOfRiskyDirs, Configured
<1> QED
  BY <1>1, <1>2, <1>3, MenuSteps, WorldHolds DEF Next

LEMMA Invariance == Spec => []IInv
BY InitHolds, StepHolds, PTL DEF Spec

(* What every variable may hold. *)
THEOREM TypeCorrect == Spec => []TypeOK
BY Invariance, PTL DEF IInv

(* Wherever a copy of the program was started, the service ends up in folders
   it can work in. *)
THEOREM ServiceStaysPut == Spec => []ServiceOutOfRiskyDirs
BY Invariance, PTL DEF IInv

(* No command configures a second node beside the one in the standard place. *)
THEOREM NoSecondNode == Spec => NoSecondInstall
<1>1. ASSUME IInv, [Next]_vars
      PROVE  [cli.step = "truncate" /\ cli'.step = "write" /\ Configured(Safe)
                => cli.cfg = Safe \/ Configured(cli.cfg)]_vars
  BY <1>1 DEF IInv, OtherNodeIsComplete
<1> QED
  BY <1>1, Invariance, PTL DEF Spec, NoSecondInstall

-----------------------------------------------------------------------------
(* Updates *)

(* installedBinaryPathIn finds the service's program when it is the only thing
   that could be one, or the one the new file is named after. *)
LEMMA InstalledIsTheServices ==
    ASSUME service.name \in Programs,
           (ByExt /\ Programs = {service.name}) \/ cli.name = service.name
    PROVE  InstalledBinary(cli.name) = service.name
<1>1. service.name \in Candidates
  BY DEF Programs, Candidates
<1>2. ASSUME NEW only, Candidates = {only} PROVE only = service.name
  BY <1>1, <1>2
<1>3. CASE \E only \in Candidates : Candidates = {only}
  <2>1. (CHOOSE only \in Candidates : TRUE) \in Candidates
    BY <1>1
  <2> QED
    BY <1>2, <1>3, <2>1 DEF InstalledBinary
<1>4. CASE ~\E only \in Candidates : Candidates = {only}
  <2>1. ~(ByExt /\ Programs = {service.name})
    <3> SUFFICES ASSUME ByExt, Programs = {service.name} PROVE FALSE
      OBVIOUS
    <3>1. Candidates = {service.name}
      BY DEF Candidates, Programs
    <3> QED
      BY <1>4, <3>1
  <2> QED
    BY <1>4, <2>1 DEF InstalledBinary
<1> QED
  BY <1>3, <1>4

(* Only the copy itself takes an update from its copy to the start. *)
LEMMA OnlyCopyGoesOn ==
    ASSUME IInv, [Next]_vars, cli.step = "copy", cli'.step = "start"
    PROVE  CopyBinary
<1>1. cli' # cli
  OBVIOUS
<1>2. cli' # AtRest
  BY AtRestIsSafe
<1>3. ~SetupSteps /\ ~ControlSteps
  BY DEF SetupSteps, ResolveConfig, ResolveNothing, Truncate, Write, SaveFails, ControlSteps, Install,
         Stop, StopRefused, Start, StartRefused, DarwinBootstrapRecover, Uninstall, RemoveConfig
<1>4. ~CopyFails
  <2> SUFFICES ASSUME CopyFails PROVE FALSE
    OBVIOUS
  <2>1. cli'.step = "failed"
    BY GotoFrame DEF CopyFails, Steps, IInv
  <2> QED
    BY <2>1
<1>5. ~Relocate /\ ~ReportDirProblem /\ ~Dispatch /\ ~Acknowledge /\ ~Choose
  BY DEF Relocate, ReportDirProblem, Dispatch, Acknowledge, Choose
<1>6. ~(\E d \in Dirs, n \in Names : DoubleClick(d, n) \/ Command(d, n))
  BY DEF DoubleClick, Command, Invoke
<1>7. ~(\E d \in Dirs, n \in Names, v \in {0, MaxVersion} : Drop(d, n, v))
  BY DEF Drop
<1>8. ~Close /\ ~ServiceDies /\ ~Reboot
  BY <1>1, <1>2 DEF Close, ServiceDies, Reboot, Quit
<1>9. ~UNCHANGED vars
  BY <1>1 DEF vars
<1> QED
  BY <1>3, <1>4, <1>5, <1>6, <1>7, <1>8, <1>9 DEF Next, CommandGoesOn, UpdateSteps

(* An update that goes on to start the service has put the new program where
   the service runs it, unless what is in the folder is ambiguous. *)
THEOREM ClearUpdateDoesReplace == Spec => ClearUpdateReplaces
<1>1. ASSUME IInv, [Next]_vars, UpdateGoesOn,
             (ByExt /\ Programs = {service.name}) \/ cli.name = service.name
      PROVE  Replaced
  <2>1. CopyBinary
    BY <1>1, OnlyCopyGoesOn DEF UpdateGoesOn
  <2>2. InstalledBinary(cli.name) = service.name /\ service.name \in Names
    BY <1>1, InstalledIsTheServices DEF UpdateGoesOn, Programs
  <2>3. CASE InPlace /\ UNCHANGED files
    BY <2>2, <2>3 DEF InPlace, Replaced
  <2>4. CASE Replace(service.name, files[cli.dir][cli.name])
    BY <1>1, <2>2, <2>4, InstallAssumption DEF Replace, Replaced, IInv, TypeOK
  <2>5. \/ InPlace /\ UNCHANGED files
        \/ Replace(service.name, files[cli.dir][cli.name])
    <3> DEFINE dest == InstalledBinary(cli.name)
    <3>1. dest = service.name /\ dest \in Names
      BY <2>2
    <3> HIDE DEF dest
    <3>2. \/ InPlace /\ UNCHANGED files
          \/ Replace(dest, files[cli.dir][cli.name])
      BY <2>1, <3>1 DEF CopyBinary, dest
    <3> QED
      BY <3>1, <3>2
  <2> QED
    BY <2>3, <2>4, <2>5
<1>2. ASSUME IInv, [Next]_vars
      PROVE  [UpdateGoesOn /\ ((ByExt /\ Programs = {service.name}) \/ cli.name = service.name)
                => Replaced]_vars
  BY <1>1, <1>2
<1> QED
  BY <1>2, Invariance, PTL DEF Spec, ClearUpdateReplaces
=============================================================================
