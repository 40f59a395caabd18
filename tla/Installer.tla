----------------------------- MODULE Installer -----------------------------
(***************************************************************************)
(* `drawbridge install' and `uninstall': the root daemon's binary and      *)
(* plist, the launchd job, and what a re-install inherits from the plist   *)
(* it replaces.  The Mac-side files that `drawbridge up' and `down' leave  *)
(* (secrets, the podman record) come and go around it, and a podman        *)
(* machine may be recreated under the same name.                           *)
(*                                                                         *)
(* A pin (-vm-mac, -secret-file) is represented by the VM it belongs to.   *)
(***************************************************************************)
EXTENDS Command

CONSTANTS
    Lima,         \* Lima and Colima instances, resolved by DHCP lease
    Podman,       \* podman machines, reached at a recorded port
    DefaultVM,    \* install.DefaultVM
    UDPSets       \* values of -udp, Nothing among them

VMs == Lima \cup Podman

ASSUME InstallerAssumption ==
    /\ Lima \cap Podman = {} /\ DefaultVM \in VMs /\ VMs \cap {Nothing, "unset"} = {}
    /\ Nothing \in UDPSets /\ "unset" \notin UDPSets

VARIABLES
    plist,     \* the installed ProgramArguments, or NoPlist
    bin,       \* the installed daemon binary: the command that wrote it, 0 for none
    job,       \* the launchd job: state, arguments it was loaded with, binary it runs
    misread,   \* the loaded job was taken for one that is not loaded
    secrets,   \* the VMs whose secret file on this Mac is well-formed
    broken,    \* the VMs whose secret file is there and malformed
    record,    \* podman machine -> [port, machine] of vmrecord, port 0 for absent
    machine    \* podman machine -> its incarnation (the ssh port init assigned)

installerVars == <<plist, bin, job, misread, run, secrets, broken, record, machine, spent>>
mac == <<secrets, broken, record, machine>>

NoPlist == [vm |-> Nothing, mac |-> Nothing, udp |-> Nothing, secretFile |-> Nothing, agent |-> 0]
Out == [state |-> "out", args |-> NoPlist, bin |-> 0]
NoCommand == [cmd |-> "none", at |-> "none", cfg |-> NoPlist]

-----------------------------------------------------------------------------
\* The flags a user may give.  A hardware address is given for the VM that is
\* being installed, so it is only "given" or not here.
Flags == [vm : VMs \cup {"unset"}, mac : {"unset", Nothing, "given"}, udp : UDPSets \cup {"unset"}]

PrevTarget == IF plist.vm = Nothing THEN DefaultVM ELSE plist.vm

\* A machine setting (-udp, -skip, -vm-subnet) is kept unless it is given.
keepSetting(given, prev) == IF given = "unset" THEN prev ELSE given

inheritSecret_AnyVM(vm) == IF plist # NoPlist THEN plist.secretFile ELSE vm

\* A pin is kept only for the VM it was made for; -secret-file that is not
\* kept is derived from the ref.
inheritSecret(vm) == IF plist # NoPlist /\ vm = PrevTarget THEN plist.secretFile ELSE vm

\* inheritInstall, then the derivations of runInstall.
inheritInstall(f) ==
    LET vm == IF f.vm # "unset" THEN f.vm
              ELSE IF plist # NoPlist /\ plist.vm # Nothing THEN plist.vm ELSE DefaultVM
        hw == CASE f.mac = "given" -> vm
                [] f.mac = Nothing -> Nothing
                [] OTHER -> IF plist # NoPlist /\ vm = PrevTarget THEN plist.mac ELSE Nothing
    IN [vm |-> vm, mac |-> hw, udp |-> keepSetting(f.udp, plist.udp),
        secretFile |-> inheritSecret(vm),
        agent |-> IF vm \in Podman THEN record[vm].port ELSE 0]

\* vmrecord.Disagreements, checkPodmanRecord: the record must describe the
\* machine as it is now; a machine config that cannot be read is a warning.
checkPodmanRecord(vm, readable) == readable => record[vm].machine = machine[vm]

installable_NoRecord(c, readable) ==
    c.vm \in Podman => c.mac = Nothing /\ checkPodmanRecord(c.vm, readable)

\* A podman machine takes no -vm-mac, and needs its record.
installable(c, readable) ==
    c.vm \in Podman => c.mac = Nothing /\ record[c.vm].port # 0 /\ checkPodmanRecord(c.vm, readable)

-----------------------------------------------------------------------------
InstallerInit ==
    /\ plist = NoPlist /\ bin = 0 /\ job = Out /\ misread = FALSE /\ run = NoCommand
    /\ secrets = {} /\ broken = {}
    /\ record = [p \in Podman |-> [port |-> 0, machine |-> 0]]
    /\ machine = [p \in Podman |-> 1]
    /\ spent = [commands |-> 0, events |-> 0]

\* runInstall up to install.Install: a refusal writes nothing.
InstallBegin(f, readable) ==
    /\ Begin
    /\ LET c == inheritInstall(f) IN
         run' = IF installable(c, readable) THEN [cmd |-> "install", at |-> "bootout", cfg |-> c]
                ELSE NoCommand
    /\ UNCHANGED <<plist, bin, job, misread, mac>>

InstallBootout_Skipped ==
    /\ At("install", "bootout")
    /\ Proceed("binary")
    /\ UNCHANGED <<plist, bin, job, misread, mac, spent>>

\* printJob and bootout: a loaded job is taken out, or the bootout fails and
\* ends the command, or `launchctl print' fails, which is read as "not loaded".
Bootout(next) ==
    \/ job' = Out /\ misread' = FALSE /\ Proceed(next)
    \/ job # Out /\ run' = NoCommand /\ UNCHANGED <<job, misread>>
    \/ job # Out /\ misread' = TRUE /\ Proceed(next) /\ UNCHANGED job

\* The running daemon is taken out before any of its files is replaced.
InstallBootout ==
    /\ At("install", "bootout")
    /\ Bootout("binary")
    /\ UNCHANGED <<plist, bin, mac, spent>>

\* installFile: written beside and renamed.
InstallBinary ==
    /\ At("install", "binary")
    /\ bin' = spent.commands
    /\ Proceed("plist")
    /\ UNCHANGED <<plist, job, misread, mac, spent>>

\* RenderPlist of Config.Args, written beside and renamed.
InstallPlist ==
    /\ At("install", "plist")
    /\ plist' = run.cfg
    /\ Proceed("bootstrap")
    /\ UNCHANGED <<bin, job, misread, mac, spent>>

Load == job' = [state |-> "starting", args |-> plist, bin |-> 0] /\ misread' = FALSE

\* A bootstrap that fails ends the install; that of a loaded job always does.
InstallBootstrap ==
    /\ At("install", "bootstrap")
    /\ \/ job = Out /\ Load /\ Proceed("wait")
       \/ run' = NoCommand /\ UNCHANGED <<job, misread>>
    /\ UNCHANGED <<plist, bin, mac, spent>>

\* waitRunning: running, or an error after startTimeout with the job loaded.
InstallWait ==
    /\ At("install", "wait")
    /\ \/ job.state = "running" /\ Proceed("done")
       \/ job.state # "running" /\ run' = NoCommand
    /\ UNCHANGED <<plist, bin, job, misread, mac, spent>>

UninstallBegin ==
    /\ Begin
    /\ run' = [NoCommand EXCEPT !.cmd = "uninstall", !.at = "bootout"]
    /\ UNCHANGED <<plist, bin, job, misread, mac>>

UninstallBootout ==
    /\ At("uninstall", "bootout")
    /\ Bootout("files")
    /\ UNCHANGED <<plist, bin, mac, spent>>

\* The plist first, then the binary; a removal that fails is reported and the
\* others go on.
UninstallFiles ==
    /\ \/ At("uninstall", "files") /\ plist' \in {plist, NoPlist} /\ Proceed("binary") /\ UNCHANGED bin
       \/ At("uninstall", "binary") /\ bin' \in {bin, 0} /\ Proceed("done") /\ UNCHANGED plist
    /\ UNCHANGED <<job, misread, mac, spent>>

-----------------------------------------------------------------------------
\* drawbridged's main before it serves: an explicit -secret-file must exist and
\* be well-formed, or the boot read is fatal, and a root daemon never reads the
\* podman record itself.
boots(args) ==
    /\ args.secretFile \in secrets
    /\ args.vm \in Podman => args.agent # 0

DaemonBoot ==
    /\ job.state = "starting"
    /\ job' = [job EXCEPT !.state = IF boots(job.args) /\ bin # 0 THEN "running" ELSE "exited",
                          !.bin = bin]
    /\ UNCHANGED <<plist, bin, misread, run, mac, spent>>

\* launchd's KeepAlive: the job is started again about ten seconds later.
KeepAlive ==
    /\ job.state = "exited"
    /\ job' = [job EXCEPT !.state = "starting"]
    /\ UNCHANGED <<plist, bin, misread, run, mac, spent>>

\* The command is interrupted; with a Mac reboot launchd loads what the disk has.
Interrupt ==
    /\ ~Resting /\ Event /\ run' = NoCommand
    /\ UNCHANGED <<plist, bin, job, misread, mac>>
MacReboot ==
    /\ Event /\ run' = NoCommand
    /\ IF plist # NoPlist THEN Load ELSE job' = Out /\ misread' = FALSE
    /\ UNCHANGED <<plist, bin, mac>>

\* `drawbridge up': ensureRecord (a recorded port is reused, the machine is
\* read afresh) and ensureMacSecret, which refuses a malformed file.
UpOnMac(vm) ==
    /\ Event
    /\ secrets' = secrets \cup ({vm} \ broken)
    /\ record' = IF vm \notin Podman THEN record
                 ELSE [record EXCEPT ![vm] = [port |-> IF @.port # 0 THEN @.port ELSE 4778,
                                              machine |-> machine[vm]]]
    /\ UNCHANGED <<plist, bin, job, misread, run, broken, machine>>

\* `drawbridge down' removes the record and keeps the secret.
DownOnMac(vm) ==
    /\ Event /\ vm \in Podman
    /\ record' = [record EXCEPT ![vm].port = 0]
    /\ UNCHANGED <<plist, bin, job, misread, run, secrets, broken, machine>>

\* The user deletes a secret or damages it, or recreates a podman machine.
Rotate(vm) ==
    /\ Event /\ vm \in secrets \cup broken
    /\ secrets' = secrets \ {vm} /\ broken' = broken \ {vm}
    /\ UNCHANGED <<plist, bin, job, misread, run, record, machine>>
Damage(vm) ==
    /\ Event /\ vm \in secrets
    /\ secrets' = secrets \ {vm} /\ broken' = broken \cup {vm}
    /\ UNCHANGED <<plist, bin, job, misread, run, record, machine>>
Recreate(vm) ==
    /\ Event /\ vm \in Podman /\ machine' = [machine EXCEPT ![vm] = @ + 1]
    /\ UNCHANGED <<plist, bin, job, misread, run, secrets, broken, record>>

Install ==
    \/ \E f \in Flags, readable \in BOOLEAN : InstallBegin(f, readable)
    \/ InstallBootout \/ InstallBinary \/ InstallPlist \/ InstallBootstrap \/ InstallWait
Uninstall == UninstallBegin \/ UninstallBootout \/ UninstallFiles
Daemon == DaemonBoot \/ KeepAlive
Environment ==
    \/ Interrupt \/ MacReboot
    \/ \E vm \in VMs : UpOnMac(vm) \/ DownOnMac(vm) \/ Rotate(vm) \/ Damage(vm) \/ Recreate(vm)

InstallerNext == Install \/ Uninstall \/ Daemon \/ Environment

\* launchd starts and restarts what is loaded (KeepAlive true in the plist).
InstallerSpec == InstallerInit /\ [][InstallerNext]_installerVars /\ WF_installerVars(Daemon)

-----------------------------------------------------------------------------
(***************************************************************************)
(* However often the daemon is re-installed, moved between VMs, or its     *)
(* install interrupted, the installed arguments pin nothing of another VM: *)
(* the hardware address and the secret belong to the VM they serve         *)
(* (inherit.go, inheritInstall).                                           *)
(***************************************************************************)
PinsOwnVM ==
    plist # NoPlist => plist.mac \in {Nothing, plist.vm} /\ plist.secretFile = plist.vm

(***************************************************************************)
(* What launchd runs is what is installed: no interruption, failed bootout *)
(* or bootstrap, or reboot leaves a daemon loaded with arguments, or       *)
(* running a binary, that the disk no longer has (install.go, Install and  *)
(* Uninstall).  The exception is a `launchctl print' that failed on a      *)
(* loaded job and was read as "not loaded" (printJob): its files are       *)
(* replaced under it until it is next taken out or loaded.                 *)
(***************************************************************************)
JobIsInstalled ==
    job.state # "out" /\ ~misread => job.args = plist /\ (job.state = "running" => job.bin = bin)

(***************************************************************************)
(* "`drawbridge up` writes that file; run it, and the daemon starts on its *)
(* own (no reinstall needed)" (main.go, runInstall): a loaded daemon whose *)
(* binary and well-formed secret are on the disk runs eventually, unless   *)
(* it is taken out again, or the binary or the secret goes away.           *)
(***************************************************************************)
StartsOnItsOwn ==
    job.state # "out" /\ bin # 0 /\ job.args.secretFile \in secrets
      ~> job.state \in {"running", "out"} \/ bin = 0 \/ job.args.secretFile \notin secrets

(* Why the first two hold: what an install is about to write pins its own  *)
(* VM, and nothing is loaded while the files are being replaced.           *)
Args == [vm : VMs \cup {Nothing}, mac : VMs \cup {Nothing}, udp : UDPSets, secretFile : VMs \cup {Nothing}, agent : Nat]
Labels == {"none", "bootout", "binary", "plist", "bootstrap", "wait", "files", "done"}

InstallerTypeOK ==
    /\ plist \in Args /\ bin \in Nat
    /\ job \in [state : {"out", "starting", "running", "exited"}, args : Args, bin : Nat]
    /\ run \in [cmd : {"none", "install", "uninstall"}, at : Labels, cfg : Args]
    /\ misread \in BOOLEAN /\ secrets \subseteq VMs /\ broken \subseteq VMs /\ machine \in [Podman -> Nat]
    /\ record \in [Podman -> [port : Nat, machine : Nat]]
    /\ spent \in [commands : Nat, events : Nat]

OwnPins(a) == a.vm \in VMs /\ a.mac \in {Nothing, a.vm} /\ a.secretFile = a.vm
Replacing ==
    \/ run.cmd = "install" /\ run.at \in {"binary", "plist", "bootstrap"}
    \/ run.cmd = "uninstall" /\ run.at \in {"files", "binary"}

InstallerInv ==
    /\ InstallerTypeOK
    /\ plist # NoPlist => OwnPins(plist)
    /\ run.cmd = "install" => OwnPins(run.cfg)
    /\ Replacing => job = Out \/ misread
    /\ JobIsInstalled
=============================================================================
