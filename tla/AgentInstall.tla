---------------------------- MODULE AgentInstall ----------------------------
(***************************************************************************)
(* The agent program as its operator uses it (cmd/agent/main.go): commands    *)
(* and the menu, the relocation out of folders a service cannot run from,     *)
(* setup, update and removal, beside the service the operating system runs.   *)
(* One command runs at a time; the machine may reboot, the command may be     *)
(* closed and the operator may put files in place between any two steps.      *)
(* Every command uses the default config name (no -config flag).              *)
(***************************************************************************)
EXTENDS Naturals

CONSTANTS
    Dirs,           \* folders a copy of the program may be started from
    Safe,           \* safeInstallDir()
    Origins,        \* folders the first copy may have been saved to
    Risky,          \* Documents, Desktop, Downloads, ...
    Writable,
    Names,          \* file names of copies of the program
    Platforms,      \* among "windows", "linux", "darwin"
    Settings,       \* complete configurations (secret, URL, interface)
    MaxVersion,     \* versions of the program are 1..MaxVersion, 0 is no file
    MaxDrops,       \* bound: files the operator puts in place or deletes
    MaxBreaks       \* bound: reboots, service crashes, closed windows and stdins,
                    \* configs that are not copied

ASSUME InstallAssumption ==
    /\ Safe \in Dirs \ Risky
    /\ Origins \subseteq Dirs \ {Safe}
    /\ Settings \cap {"absent", "torn", "blank", "none"} = {}
    /\ Names \cap {"agent.json", "agent.state.json"} = {}
    /\ Platforms \subseteq {"windows", "linux", "darwin"}
    /\ Names # {} /\ MaxVersion \in Nat \ {0} /\ MaxDrops \in Nat /\ MaxBreaks \in Nat

VARIABLES
    platform,       \* what the program was built for
    files,          \* files[d][n]: version of the program stored there
    config,         \* config[d]: d/agent.json
    reported,       \* Safe/agent.state.json exists
    made,           \* Safe exists
    service,        \* what the operating system has registered and runs
    cli,            \* the operator's command
    drops, breaks

vars == <<platform, files, config, reported, made, service, cli, drops, breaks>>

Contents == Settings \cup {"absent", "torn", "blank"}

Ops == {"setup", "menu", "configure", "install", "uninstall", "start", "stop",
        "restart", "update", "reconfigure", "remove"}

Steps == {"idle", "main", "menu", "resolve", "truncate", "write", "install", "stop",
          "copy", "start", "recover", "uninstall", "remove", "done", "failed"}

Service == [installed : BOOLEAN, dir : Dirs, name : Names, cfg : Dirs,
            running : BOOLEAN, ver : 0..MaxVersion, with : Settings \cup {"none"}]

Cli == [step : Steps, op : Ops, menu : BOOLEAN, dir : Dirs, name : Names,
        cfg : Dirs, new : Settings \cup {"blank"}]

TypeOK ==
    /\ platform \in Platforms
    /\ files \in [Dirs -> [Names -> 0..MaxVersion]]
    /\ config \in [Dirs -> Contents]
    /\ reported \in BOOLEAN /\ made \in BOOLEAN
    /\ service \in Service
    /\ cli \in Cli
    /\ drops \in 0..MaxDrops /\ breaks \in 0..MaxBreaks

-----------------------------------------------------------------------------
(* Folders and files *)

(* A program's name ends in .exe. *)
ByExt == platform = "windows"

(* A running program's file cannot be overwritten. *)
Locks == platform # "darwin"

RiskyDir(d) == d \in Risky

CanWriteDir(d) == d \in Writable

Usable(d) == ~RiskyDir(d) /\ CanWriteDir(d)

(* isConfigured: it parses and has a secret and a URL. *)
Configured(d) == config[d] \in Settings

(* The program or its config in Safe keep a running service's file busy. *)
Busy(n) == Locks /\ service.running /\ service.dir = Safe /\ service.name = n

Replace(n, v) == files' = [files EXCEPT ![Safe][n] = v]

(* What os.ReadDir finds in Safe, with the extension the new file has. *)
Candidates ==
    {n \in Names : files[Safe][n] # 0}
        \cup (IF ~ByExt /\ config[Safe] # "absent" THEN {"agent.json"} ELSE {})
        \cup (IF ~ByExt /\ reported THEN {"agent.state.json"} ELSE {})

MutInstalledBinary(name) == name      \* mutant: the updating file's own name, always

InstalledBinary(name) ==
    IF \E only \in Candidates : Candidates = {only}
    THEN CHOOSE only \in Candidates : TRUE
    ELSE name

-----------------------------------------------------------------------------
(* The service, as the operating system keeps it. *)

MutLoad(d) == config[d]   \* mutant: a config that does not parse is served

(* program.run: config.Load fails on anything but a complete config; the
   service then stays up and does nothing. *)
Load(d) == IF Configured(d) THEN config[d] ELSE "none"

Startable == service.installed /\ files[service.dir][service.name] # 0

Up == [service EXCEPT !.running = TRUE,
                      !.ver = files[service.dir][service.name],
                      !.with = Load(service.cfg)]

Down == [service EXCEPT !.running = FALSE, !.ver = 0, !.with = "none"]

Runs ==
    /\ service' = Up
    /\ reported' = (reported \/ (service.cfg = Safe /\ Configured(Safe)))

-----------------------------------------------------------------------------
(* main *)

AnyName == CHOOSE n \in Names : TRUE

AtRest == [step |-> "idle", op |-> "menu", menu |-> FALSE, dir |-> Safe,
           name |-> AnyName, cfg |-> Safe, new |-> "blank"]

NoService == [installed |-> FALSE, dir |-> Safe, name |-> AnyName, cfg |-> Safe,
              running |-> FALSE, ver |-> 0, with |-> "none"]

Init ==
    /\ platform \in Platforms
    /\ \E d \in Origins :
        /\ files = [e \in Dirs |-> [m \in Names |-> IF e = d /\ m = AnyName THEN 1 ELSE 0]]
        \* an older agent may have been configured where it was downloaded
        /\ \E c \in {"absent"} \cup Settings :
            /\ config = [e \in Dirs |-> IF e = d THEN c ELSE "absent"]
            /\ c # "absent" => d \in Risky
        /\ cli = AtRest
    /\ service = NoService
    /\ reported = FALSE /\ made = FALSE
    /\ drops = 0 /\ breaks = 0

MutResolved(d) == d       \* mutant: no fallback to the canonical config

(* A copy with no config beside it manages the node set up elsewhere. *)
Resolved(d) == IF ~Configured(d) /\ Configured(Safe) THEN Safe ELSE d

(* No argument: the wizard at first, the menu from then on. *)
Bare(c) == IF Configured(c) THEN "menu" ELSE "setup"

Invoke(d, n, op) ==
    /\ cli.step = "idle"
    /\ files[d][n] # 0
    /\ cli' = [step |-> "main", op |-> op, menu |-> FALSE, dir |-> d, name |-> n,
               cfg |-> Resolved(d), new |-> "blank"]
    /\ UNCHANGED <<platform, files, config, reported, made, service, drops, breaks>>

DoubleClick(d, n) == Invoke(d, n, Bare(Resolved(d)))

Command(d, n) ==
    \E op \in {"setup", "configure", "install", "uninstall", "start", "stop", "restart", "update"} :
        Invoke(d, n, op)

MutRelocating == {"setup", "configure", "menu"}   \* mutant: install stays where it is

Relocating == {"setup", "install", "configure", "menu"}

MustRelocate == cli.op \in Relocating /\ ~Usable(cli.dir)

Goto(step) == cli' = [cli EXCEPT !.step = step]

Quit == cli' = AtRest

Answer(op) == cli' = [cli EXCEPT !.step = "menu", !.op = op, !.new = "blank"]

MutReExec == cli          \* mutant: the copy is told the old place

(* The child's exe and config are the copies in Safe. *)
ReExec == [cli EXCEPT !.dir = Safe, !.cfg = Safe]

CopyConfig ==
    config' = IF config[cli.cfg] = "absent" THEN config
              ELSE [config EXCEPT ![Safe] = config[cli.cfg]]

(* The error of copying the config is ignored, and so is what it leaves. *)
ConfigCopyFails ==
    /\ config[cli.cfg] # "absent"
    /\ breaks < MaxBreaks
    /\ breaks' = breaks + 1
    /\ config' \in {config, [config EXCEPT ![Safe] = "torn"]}

Relocate ==
    /\ cli.step = "main" /\ MustRelocate
    /\ cli.dir # Safe /\ Safe \in Writable /\ ~Busy(cli.name)
    /\ made' = TRUE
    /\ Replace(cli.name, files[cli.dir][cli.name])
    /\ \/ CopyConfig /\ UNCHANGED breaks
       \/ ConfigCopyFails
    /\ cli' = ReExec
    /\ UNCHANGED <<platform, reported, service, drops>>

(* Neither folder can be used. *)
ReportDirProblem ==
    /\ cli.step = "main" /\ MustRelocate
    /\ cli.dir = Safe \/ Safe \notin Writable \/ Busy(cli.name)
    /\ Goto("failed")
    /\ UNCHANGED <<platform, files, config, reported, made, service, drops, breaks>>

FirstStep == [setup |-> "resolve", menu |-> "menu", configure |-> "resolve",
              install |-> "install", uninstall |-> "uninstall", start |-> "start",
              stop |-> "stop", restart |-> "stop", update |-> "stop",
              reconfigure |-> "resolve", remove |-> "stop"]

(* runUpdate refuses a node that was never configured. *)
Begin(op, menu) ==
    cli' = [cli EXCEPT !.op = op, !.menu = menu,
                       !.step = IF op = "update" /\ ~Configured(cli.cfg)
                                THEN "failed" ELSE FirstStep[op]]

Dispatch ==
    /\ cli.step = "main" /\ ~MustRelocate
    /\ Begin(cli.op, cli.op = "menu")
    /\ UNCHANGED <<platform, files, config, reported, made, service, drops, breaks>>

Choose ==
    /\ cli.step = "menu"
    /\ \/ \E op \in {"reconfigure", "stop", "start", "restart", "remove", "update"} :
            Begin(op, TRUE)
       \/ Quit
    /\ UNCHANGED <<platform, files, config, reported, made, service, drops, breaks>>

(* The outcome is on the screen; the menu comes back unless the node is gone. *)
Acknowledge ==
    /\ cli.step \in {"done", "failed"}
    /\ IF cli.menu /\ cli.op # "remove" THEN Answer("menu") ELSE Quit
    /\ UNCHANGED <<platform, files, config, reported, made, service, drops, breaks>>

-----------------------------------------------------------------------------
(* setup, configure, and the menu's first entry *)

(* Flags and answers replace what is there. *)
ResolveConfig ==
    /\ cli.step = "resolve"
    /\ \/ /\ config[cli.cfg] # "torn"
          /\ \E new \in Settings : cli' = [cli EXCEPT !.step = "truncate", !.new = new]
       \/ Goto("failed")           \* unreadable, or no usable interface
    /\ UNCHANGED <<platform, files, config, reported, made, service, drops, breaks>>

(* A closed stdin answers every question with nothing. *)
ResolveNothing ==
    /\ cli.step = "resolve"
    /\ breaks < MaxBreaks
    /\ breaks' = breaks + 1
    /\ config[cli.cfg] # "torn" /\ ~Configured(cli.cfg)
    /\ cli' = [cli EXCEPT !.step = "truncate", !.new = "blank"]
    /\ UNCHANGED <<platform, files, config, reported, made, service, drops>>

(* config.Save is an os.WriteFile: the old content is gone before the new one
   is there. *)
Truncate ==
    /\ cli.step = "truncate"
    /\ cli.cfg \in Writable
    /\ config' = [config EXCEPT ![cli.cfg] = "torn"]
    /\ made' = (made \/ cli.cfg = Safe)
    /\ Goto("write")
    /\ UNCHANGED <<platform, files, reported, service, drops, breaks>>

Write ==
    /\ cli.step = "write"
    /\ config' = [config EXCEPT ![cli.cfg] = cli.new]
    /\ Goto(IF cli.op = "setup" THEN "install" ELSE "done")
    /\ UNCHANGED <<platform, files, reported, made, service, drops, breaks>>

SaveFails ==
    /\ cli.step = "truncate"
    /\ Goto("failed")
    /\ UNCHANGED <<platform, files, config, reported, made, service, drops, breaks>>

-----------------------------------------------------------------------------
(* install, stop, start, uninstall: service.Control, and what its callers do
   with an error *)

Install ==
    /\ cli.step = "install"
    /\ \/ /\ ~service.installed
          /\ service' = [Down EXCEPT !.installed = TRUE, !.dir = cli.dir,
                                     !.name = cli.name, !.cfg = cli.cfg]
          /\ Goto(IF cli.op = "setup" THEN "start" ELSE "done")
       \/ /\ service.installed        \* "already": setup goes on with what is there
          /\ UNCHANGED service
          /\ Goto(IF cli.op = "setup" THEN "start" ELSE "failed")
       \/ UNCHANGED service /\ Goto("failed")
    /\ UNCHANGED <<platform, files, config, reported, made, drops, breaks>>

AfterStop == [stop |-> "done", restart |-> "start", update |-> "copy", remove |-> "uninstall"]

Stop ==
    /\ cli.step = "stop"
    /\ service.installed
    /\ service' = Down
    /\ Goto(AfterStop[cli.op])
    /\ UNCHANGED <<platform, files, config, reported, made, drops, breaks>>

(* Only the plain command looks at the error. *)
StopRefused ==
    /\ cli.step = "stop"
    /\ Goto(IF cli.op = "stop" THEN "failed" ELSE AfterStop[cli.op])
    /\ UNCHANGED <<platform, files, config, reported, made, service, drops, breaks>>

Start ==
    /\ cli.step = "start"
    /\ Startable
    /\ IF service.running THEN UNCHANGED <<service, reported>> ELSE Runs
    /\ Goto("done")
    /\ UNCHANGED <<platform, files, config, made, drops, breaks>>

StartRefused ==
    /\ cli.step = "start"
    /\ Goto(IF platform = "darwin" THEN "recover" ELSE "failed")
    /\ UNCHANGED <<platform, files, config, reported, made, service, drops, breaks>>

(* launchctl bootout, then bootstrap. *)
DarwinBootstrapRecover ==
    /\ cli.step = "recover"
    /\ \/ Startable /\ Runs /\ Goto("done")
       \/ service' = Down /\ UNCHANGED reported /\ Goto("failed")
    /\ UNCHANGED <<platform, files, config, made, drops, breaks>>

Uninstall ==
    /\ cli.step = "uninstall"
    /\ \/ /\ service.installed
          /\ service' = NoService
          /\ Goto(IF cli.op = "remove" THEN "remove" ELSE "done")
       \/ /\ UNCHANGED service
          /\ Goto(IF cli.op = "remove" THEN "remove" ELSE "failed")
    /\ UNCHANGED <<platform, files, config, reported, made, drops, breaks>>

RemoveConfig ==
    /\ cli.step = "remove"
    /\ config' = [config EXCEPT ![cli.cfg] = "absent"]
    /\ Goto("done")
    /\ UNCHANGED <<platform, files, reported, made, service, drops, breaks>>

-----------------------------------------------------------------------------
(* runUpdate, between its stop and its start *)

InPlace == cli.dir = Safe /\ cli.name = InstalledBinary(cli.name)

CopyBinary ==
    /\ cli.step = "copy"
    /\ \/ InPlace /\ UNCHANGED <<files, config>>
       \/ /\ ~InPlace /\ made
          /\ LET dest == InstalledBinary(cli.name)
             IN  IF dest \in Names
                 THEN /\ ~Busy(dest)
                      /\ Replace(dest, files[cli.dir][cli.name])
                      /\ UNCHANGED config
                 ELSE /\ config' = IF dest = "agent.json" THEN [config EXCEPT ![Safe] = "torn"]
                                   ELSE config
                      /\ UNCHANGED files
    /\ Goto("start")
    /\ UNCHANGED <<platform, reported, made, service, drops, breaks>>

(* The folder is missing, the file is busy, the disk is full: the service
   stays stopped. *)
CopyFails ==
    /\ cli.step = "copy" /\ ~InPlace
    /\ Goto("failed")
    /\ UNCHANGED <<platform, files, config, reported, made, service, drops, breaks>>

-----------------------------------------------------------------------------
(* Everything else that happens to the machine *)

(* The newest version downloaded or copied over scp, or the old one deleted
   from the standard place. *)
Drop(d, n, v) ==
    /\ cli.step \in {"idle", "menu"}
    /\ drops < MaxDrops
    /\ files[d][n] # v
    /\ v = 0 => d = Safe
    /\ drops' = drops + 1
    /\ files' = [files EXCEPT ![d][n] = v]
    /\ made' = (made \/ (d = Safe /\ v # 0))
    /\ UNCHANGED <<platform, config, reported, service, cli, breaks>>

Close ==
    /\ cli.step # "idle"
    /\ breaks < MaxBreaks
    /\ breaks' = breaks + 1
    /\ Quit
    /\ UNCHANGED <<platform, files, config, reported, made, service, drops>>

ServiceDies ==
    /\ service.running
    /\ breaks < MaxBreaks
    /\ breaks' = breaks + 1
    /\ service' = Down
    /\ UNCHANGED <<platform, files, config, reported, made, cli, drops>>

Reboot ==
    /\ breaks < MaxBreaks
    /\ breaks' = breaks + 1
    /\ Quit
    /\ IF Startable THEN Runs ELSE service' = Down /\ UNCHANGED reported
    /\ UNCHANGED <<platform, files, config, made, drops>>

-----------------------------------------------------------------------------

SetupSteps == ResolveConfig \/ ResolveNothing \/ Truncate \/ Write \/ SaveFails

ControlSteps ==
    \/ Install \/ Stop \/ StopRefused \/ Start \/ StartRefused
    \/ DarwinBootstrapRecover \/ Uninstall \/ RemoveConfig

UpdateSteps == CopyBinary \/ CopyFails

CommandGoesOn ==
    \/ Relocate \/ ReportDirProblem \/ Dispatch \/ Acknowledge
    \/ SetupSteps \/ ControlSteps \/ UpdateSteps

Next ==
    \/ \E d \in Dirs, n \in Names : DoubleClick(d, n) \/ Command(d, n)
    \/ CommandGoesOn
    \/ Choose
    \/ \E d \in Dirs, n \in Names, v \in {0, MaxVersion} : Drop(d, n, v)
    \/ Close \/ ServiceDies \/ Reboot

Spec == Init /\ [][Next]_vars

(* A command runs on by itself; what the operator picks in the menu, and
   whether anything breaks, is open. *)
FairSpec == Spec /\ WF_vars(CommandGoesOn)

-----------------------------------------------------------------------------
(* Safety *)

(* The service never runs from, nor keeps its config in, a folder the operating
   system hides from services or nobody can write to, whatever copy of the
   program was started first. *)
ServiceOutOfRiskyDirs ==
    service.installed => Usable(service.dir) /\ Usable(service.cfg)

(* Once the node is configured in the standard place, a command started from
   another copy manages that node and never configures a second one. *)
NoSecondInstall ==
    [][cli.step = "truncate" /\ cli'.step = "write" /\ Configured(Safe)
        => cli.cfg = Safe \/ Configured(cli.cfg)]_vars

Programs == {n \in Names : files[Safe][n] # 0}

UpdateGoesOn ==
    /\ cli.step = "copy" /\ cli'.step = "start"
    /\ service.installed /\ service.dir = Safe /\ service.name \in Programs

Replaced == files'[Safe][service.name] = files[cli.dir][cli.name]

(* An update that goes on to start the service has replaced the file the
   service runs if that is the only program in the standard place, whatever the
   new file is called: what installedBinaryPathIn says of itself. *)
LoneProgramIsReplaced ==
    [][UpdateGoesOn /\ Programs = {service.name} => Replaced]_vars

(* It has where programs have an extension, and everywhere if the new file has
   the service's name. *)
ClearUpdateReplaces ==
    [][UpdateGoesOn /\ ((ByExt /\ Programs = {service.name}) \/ cli.name = service.name)
        => Replaced]_vars

(* Liveness *)

(* A command ends or comes back to the menu: moving to the standard place
   never starts a chain of processes. *)
CommandEnds == cli.step \notin {"idle", "menu"} ~> cli.step \in {"idle", "menu"}
-----------------------------------------------------------------------------
(* The inductive invariant behind the safety properties (AgentInstallProofs). *)

(* A config in the standard place was written there. *)
SafeWasWritable == Configured(Safe) => Safe \in Writable

WritesWhereItMay == cli.step = "write" => cli.cfg \in Writable

(* A command's config lies beside its program, or in the standard place. *)
ConfigIsNear == cli.step = "main" => cli.cfg = cli.dir \/ (cli.cfg = Safe /\ Usable(Safe))

(* A command that may install a service runs from a folder it may stay in. *)
InstallerIsPlaced ==
    cli.step \in {"resolve", "truncate", "write", "install"} /\ cli.op \in {"setup", "install"}
        => Usable(cli.dir) /\ Usable(cli.cfg)

(* Only these commands come to install, stop or remove anything. *)
StepIsMeant ==
    /\ cli.step = "install" => cli.op \in {"setup", "install"}
    /\ cli.step = "stop" => cli.op \in DOMAIN AfterStop
    /\ cli.step = "remove" => cli.op = "remove"

(* While a node is configured in the standard place, a command at work on
   another config found that one complete, or is completing it. *)
OtherNodeIsComplete ==
    cli.step # "idle" /\ Configured(Safe) /\ cli.cfg # Safe =>
        /\ cli.step \in {"truncate", "write"} => cli.new \in Settings
        /\ cli.step # "write" =>
              Configured(cli.cfg) \/ (cli.step = "done" /\ cli.op = "remove")

IInv == /\ TypeOK
        /\ SafeWasWritable /\ WritesWhereItMay /\ ConfigIsNear
        /\ InstallerIsPlaced /\ StepIsMeant /\ OtherNodeIsComplete
        /\ ServiceOutOfRiskyDirs
=============================================================================
