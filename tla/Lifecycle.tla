----------------------------- MODULE Lifecycle -----------------------------
(***************************************************************************)
(* `drawbridge up [--oci]` and `drawbridge down` against one machine: the  *)
(* files they leave in the guest and on the Mac, the agent process systemd *)
(* runs, and the configuration the container engine has loaded.            *)
(*                                                                         *)
(* A command is a sequence of guest round trips.  Each round trip is one   *)
(* action; between any two the command may be cut (Ctrl-C, a provider      *)
(* shell that fails, a Mac that sleeps), and `lapses' remembers where.     *)
(* The next command starts from whatever the cut left behind.              *)
(***************************************************************************)
EXTENDS Command

CONSTANTS
    Machines,     \* the machines a behaviour may start with, as Facts records
    Guests,       \* the docker configurations a behaviour may start with
    Versions,     \* builds of the CLI: a range 1..n
    MaxCuts       \* how many commands are cut

\* What the preflight probe and the staged agent's feature report say of a
\* machine: Nothing where they say nothing, kernel as 100 * major + minor.  The
\* provider is the one the VM was selected from (sel.Ref), the engine the one
\* found in the guest: a Lima or Colima guest may have podman in it.
Facts == [provider : {"lima", "podman"}, engine : {"docker", "podman", "none"},
          basics : BOOLEAN, seccompKernel : BOOLEAN,
          crun : BOOLEAN, cookie : {"yes", "no", Nothing}, ftrace : {"y", "n", Nothing},
          kernel : Nat, arch : {"arm64", "amd64"}, rootful : BOOLEAN, user : {Nothing, "core"}]

\* A configuration file, over the words that a guest's file or a command uses.
Words == {"none", "empty", "dropin", "edited", "norm", "drawbridge", "runc", Nothing}
           \cup UNION {{g.conf.base, g.conf.dflt, g.conf.fmt} : g \in Guests}
File == [base : Words, rt : {"no", "ours", "other"}, dflt : Words, fmt : Words]

ASSUME LifecycleAssumption ==
    /\ Machines \subseteq Facts /\ Guests \subseteq [conf : File, wrapper : Nat, newer : BOOLEAN]
    /\ Versions \subseteq Nat \ {0} /\ Versions # {}
    /\ MaxCuts \in Nat

NoFile == [base |-> "none", rt |-> "no", dflt |-> Nothing, fmt |-> "none"]
NoUnit == [port |-> 0, owner |-> "none"]
NoProcess == [bin |-> 0, unit |-> NoUnit]
DevBuild == 100
DevProcess == [bin |-> DevBuild, unit |-> NoUnit]    \* the transient unit of `just agent-up'
NoState == [ver |-> 0, before |-> NoFile, added |-> FALSE, setdef |-> FALSE,
            prev |-> Nothing, after |-> NoFile, owner |-> Nothing]
NewerState == [NoState EXCEPT !.ver = 3]    \* of a drawbridge newer than every build here

VARIABLES
    pf,        \* what the preflight probe reports of the machine (guest.go, preflight)
    cli,       \* the build the user runs
    secret,    \* [mac, guest]: the transport secret on either side, 0 for absent
    recorded,  \* the Mac-side port recorded for a podman machine, 0 for absent
    agentBin,  \* installed agent build, 0 for absent
    unit,      \* installed unit file, or NoUnit
    enabled,   \* the unit is enabled at boot
    running,   \* the agent process: what it was started from, or NoProcess
    wrapper,   \* installed OCI wrapper build, 0 for absent
    conf,      \* docker: daemon.json; podman: the drop-in
    state,     \* provision.json, or NoState
    loaded,    \* the configuration the engine last read
    mine,      \* what conf would be had drawbridge never run
    lapses     \* where commands were cut, and what they warned about

onDisk == <<secret, recorded, agentBin, unit, wrapper, conf, state>>
procs == <<enabled, running, loaded>>
ghost == <<mine, lapses, spent>>
lifecycleVars == <<pf, cli, secret, recorded, agentBin, unit, enabled, running, wrapper, conf,
          state, loaded, run, mine, lapses, spent>>

Idle == [cmd |-> "none", at |-> "none", oci |-> FALSE, refresh |-> FALSE, noted |-> FALSE,
         changed |-> FALSE, merged |-> FALSE, owner |-> Nothing, st |-> NoState]

PodmanMachine == pf.provider = "podman"
PodmanEngine == pf.engine = "podman"

-----------------------------------------------------------------------------
(***************************************************************************)
(* What `up' decides before it touches the guest.                          *)
(***************************************************************************)

\* checkPodmanOCI: a crun the wrapper can stand in front of, recent enough.
checkPodmanOCI(m) == m.crun

\* checkPreflight: the first missing requirement refuses.  Engine questions
\* are asked only with --oci.
checkPreflight(m, oci) ==
    /\ m.basics                              \* arch, systemd, sudo, BTF, cgroup v2
    /\ oci => /\ m.seccompKernel
              /\ m.engine \in {"docker", "podman"}
              /\ m.engine = "podman" => checkPodmanOCI(m)

\* kernelfeat.Classify on the staged binary's own report; a report that says
\* nothing falls back to the kernel version.
classifyCookie(m) ==
    CASE m.cookie = "yes" -> "ok"
      [] m.cookie = "no"  -> "fail"
      [] OTHER -> CASE m.kernel >= 514 -> "ok"
                    [] m.kernel >= 512 -> "warn"
                    [] OTHER -> "fail"

classifyTracer(m) ==
    CASE m.ftrace = "y" -> "ok"
      [] m.ftrace = "n" -> "fail"
      [] OTHER -> CASE m.arch = "arm64" /\ m.kernel < 604 -> "fail"
                    [] m.arch = "amd64" /\ m.kernel < 505 -> "fail"
                    [] OTHER -> "ok"

Classify(m) == {classifyCookie(m), classifyTracer(m)}

\* A "fail" refuses; a "warn" is printed and `up' goes on.
checkKernelFeatures(m) == "fail" \notin Classify(m)

\* installedWrappers: a plain `up' refreshes only a wrapper that is there.
\* The engine's own state version decides; without one presence does.
installedWrappers == wrapper # 0 /\ (state = NoState \/ state.ver \in {1, 2})

ociSockOwner_Forgets(oci) == IF oci /\ ~pf.rootful THEN pf.user ELSE Nothing

\* ociSockOwner, asked on a podman machine only: --oci names the login user of
\* a rootless one (Nothing also stands for root); a plain `up' carries forward
\* what the podman state recorded.
ociSockOwner(oci) ==
    IF pf.rootful \/ pf.user = Nothing THEN Nothing
    ELSE IF oci THEN pf.user
    ELSE IF state # NoState /\ state.ver = 2 THEN state.owner ELSE Nothing

-----------------------------------------------------------------------------
(***************************************************************************)
(* guestbin.Merge and guestbin.Revert.  A daemon.json is its other keys    *)
(* (base), its drawbridge runtime entry (rt: absent, ours, or one that     *)
(* names another path), its default-runtime and its formatting.            *)
(***************************************************************************)
Base(f) == IF f = NoFile THEN "empty" ELSE f.base
Merged(f) == [base |-> Base(f), rt |-> "ours", dflt |-> "drawbridge", fmt |-> "norm"]

Merge(cur) ==
    LET added  == cur.rt = "no"
        setdef == cur.dflt # "drawbridge"
        changed == cur # Merged(cur) /\ (added \/ setdef)
    IN [conf |-> IF changed THEN Merged(cur) ELSE cur,
        changed |-> changed,
        st |-> [ver |-> 1, before |-> cur, added |-> added, setdef |-> setdef,
                prev |-> IF setdef THEN cur.dflt ELSE Nothing,
                after |-> IF changed THEN Merged(cur) ELSE cur, owner |-> Nothing]]

Revert_Discards(cur, st) == IF cur = NoFile THEN NoFile ELSE st.before

Revert(cur, st) ==
    IF cur = NoFile THEN NoFile
    ELSE IF cur = st.after THEN st.before
    ELSE [base |-> cur.base,
          rt   |-> IF st.added THEN "no" ELSE cur.rt,
          dflt |-> IF st.setdef /\ cur.dflt = "drawbridge" THEN st.prev ELSE cur.dflt,
          fmt  |-> "norm"]

\* DropinBytes and RevertDropin: the drop-in is ours whole, or not ours.
Dropin == [base |-> "dropin", rt |-> "ours", dflt |-> "drawbridge", fmt |-> "norm"]
RevertDropin(cur, st) == IF cur = st.after THEN NoFile ELSE cur

PodmanState(owner) ==
    [ver |-> 2, before |-> NoFile, added |-> TRUE, setdef |-> TRUE, prev |-> Nothing,
     after |-> Dropin, owner |-> owner]

-----------------------------------------------------------------------------
LifecycleInit ==
    /\ pf \in Machines
    /\ cli \in Versions
    /\ \E g \in Guests :
         /\ conf = IF PodmanEngine THEN NoFile ELSE g.conf
         /\ wrapper = IF PodmanEngine THEN 0 ELSE g.wrapper
         /\ state = IF ~PodmanEngine /\ g.newer THEN NewerState ELSE NoState
    /\ mine = conf /\ loaded = conf
    /\ secret = [mac |-> 0, guest |-> 0] /\ recorded = 0
    /\ agentBin = 0 /\ unit = NoUnit /\ enabled = FALSE
    /\ running \in {NoProcess, DevProcess}
    /\ run = Idle /\ lapses = {}
    /\ spent = [commands |-> 0, cuts |-> 0, events |-> 0]

Finish == Proceed("done")

\* A plain `up' that cannot load the wrapper (ErrNotBundled: a dev build without
\* -runc-bin), or that meets a newer drawbridge's state, leaves the installed
\* wrapper as it is, says so, and goes on.
LeavesWrapper(has) == (installedWrappers /\ "runc" \notin has) \/ state.ver = 3

Starting(oci, has) ==
    [Idle EXCEPT !.cmd = "up", !.oci = oci, !.at = IF PodmanMachine THEN "record" ELSE "agent",
                 !.refresh = ~oci /\ installedWrappers /\ "runc" \in has,
                 !.noted = ~oci /\ LeavesWrapper(has)]

\* runUp and the read-only head of up(), with the guest binaries that
\* loadGuestBinary finds: a refusal leaves everything as it is.
UpBegin(oci, has) ==
    /\ Begin
    /\ run' = IF checkPreflight(pf, oci) /\ "agent" \in has /\ (oci => "runc" \in has)
              THEN Starting(oci, has) ELSE Idle
    /\ UNCHANGED <<pf, cli, onDisk, procs, mine, lapses>>

\* ensureRecord: the recorded port is reused without probing it, otherwise
\* the first free one of the range; then the socket owner is read.
UpRecord ==
    /\ At("up", "record")
    /\ \E port \in {4778, 4779} : recorded' = IF recorded # 0 THEN recorded ELSE port
    /\ run' = [run EXCEPT !.at = "agent", !.owner = ociSockOwner(run.oci)]
    /\ UNCHANGED <<pf, cli, secret, agentBin, unit, wrapper, conf, state, procs, ghost>>

\* stageIfChanged, checkKernelFeatures on the staged copy, then the rename.
UpAgent ==
    /\ At("up", "agent")
    /\ IF checkKernelFeatures(pf)
       THEN /\ agentBin' = cli
            /\ run' = [run EXCEPT !.at = "macSecret", !.changed = agentBin # cli]
       ELSE run' = Idle /\ UNCHANGED agentBin
    /\ UNCHANGED <<pf, cli, secret, recorded, unit, wrapper, conf, state, procs, ghost>>

\* ensureMacSecret: reuse, or generate a fresh one.
EnsureMacSecret ==
    /\ At("up", "macSecret")
    /\ secret' = [secret EXCEPT !.mac = IF @ # 0 THEN @ ELSE spent.commands]
    /\ Proceed("secret")
    /\ UNCHANGED <<pf, cli, recorded, agentBin, unit, wrapper, conf, state, procs, ghost>>

\* The rest of ensureSecret: converge the guest to what this run read.
EnsureSecret ==
    /\ At("up", "secret")
    /\ secret' = [secret EXCEPT !.guest = secret.mac]
    /\ Proceed("unit")
    /\ UNCHANGED <<pf, cli, recorded, agentBin, unit, wrapper, conf, state, procs, ghost>>

Unit == [port |-> recorded, owner |-> run.owner]

UpUnit_ForgetsAgent ==
    /\ At("up", "unit")
    /\ unit' = Unit
    /\ run' = [run EXCEPT !.at = "enable", !.changed = unit # Unit]
    /\ UNCHANGED <<pf, cli, secret, recorded, agentBin, wrapper, conf, state, procs, ghost>>

\* installUnit: written only when it differs.
UpUnit ==
    /\ At("up", "unit")
    /\ unit' = Unit
    /\ run' = [run EXCEPT !.at = "enable", !.changed = @ \/ unit # Unit]
    /\ UNCHANGED <<pf, cli, secret, recorded, agentBin, wrapper, conf, state, procs, ghost>>

Process == [bin |-> agentBin, unit |-> unit]
Transient == running = DevProcess

\* enableAgent up to `enable --now': a transient unit is stopped and forces a
\* restart; `enable --now' starts what is not running and nothing else.
UpEnable ==
    /\ At("up", "enable")
    /\ enabled' = TRUE
    /\ running' = IF running = NoProcess \/ Transient THEN Process ELSE running
    /\ run' = [run EXCEPT !.at = "restart", !.changed = @ \/ Transient]
    /\ UNCHANGED <<pf, cli, onDisk, loaded, ghost>>

\* The end of enableAgent: restart if this run changed something, then the
\* --oci step, the wrapper refresh, or the end.
UpRestart ==
    /\ At("up", "restart")
    /\ running' = IF run.changed THEN Process ELSE running
    /\ Proceed(CASE run.oci /\ PodmanEngine -> "podmanWrapper"
              [] run.oci /\ ~PodmanEngine -> "merge"
              [] ~run.oci /\ run.refresh -> "refresh"
              [] OTHER -> "done")
    /\ UNCHANGED <<pf, cli, onDisk, enabled, loaded, ghost>>

\* refreshWrappers: the binary only, no engine restart.
UpRefresh ==
    /\ At("up", "refresh")
    /\ wrapper' = cli
    /\ Finish
    /\ UNCHANGED <<pf, cli, secret, recorded, agentBin, unit, conf, state, procs, ghost>>

\* provisionOCIDocker, first write: daemon.json.
UpMerge ==
    /\ At("up", "merge")
    /\ LET m == Merge(conf) IN
         /\ conf' = m.conf
         /\ run' = [run EXCEPT !.at = "state", !.merged = m.changed, !.st = m.st]
         /\ lapses' = IF m.changed /\ state # NoState /\ m.st.setdef /\ m.st.prev # state.prev
                      THEN lapses \cup {<<"up", "remerged">>} ELSE lapses
    /\ UNCHANGED <<pf, cli, secret, recorded, agentBin, unit, wrapper, state, procs, mine, spent>>

\* Second write: provision.json, only when there is none.
UpState ==
    /\ At("up", "state")
    /\ state' = IF state = NoState THEN run.st ELSE state
    /\ Proceed("script")
    /\ UNCHANGED <<pf, cli, secret, recorded, agentBin, unit, wrapper, conf, procs, ghost>>

\* provision-docker.sh: the wrapper, by rename.
UpScriptWrapper ==
    /\ At("up", "script")
    /\ wrapper' = cli
    /\ Proceed("engine")
    /\ UNCHANGED <<pf, cli, secret, recorded, agentBin, unit, conf, state, procs, ghost>>

\* provision-docker.sh: restart docker when this run merged something.  A
\* restart that fails ends the command with provisionFailure.
UpScriptEngine ==
    /\ At("up", "engine")
    /\ \/ loaded' = (IF run.merged THEN conf ELSE loaded) /\ Finish /\ UNCHANGED lapses
       \/ /\ run.merged
          /\ run' = Idle /\ lapses' = lapses \cup {<<"up", "failed">>} /\ UNCHANGED loaded
    /\ UNCHANGED <<pf, cli, onDisk, enabled, running, mine, spent>>

\* provisionOCIPodman: wrapper, drop-in, state, API service.
UpPodmanWrapper ==
    /\ At("up", "podmanWrapper")
    /\ wrapper' = cli
    /\ Proceed("dropin")
    /\ UNCHANGED <<pf, cli, secret, recorded, agentBin, unit, conf, state, procs, ghost>>

UpDropin ==
    /\ At("up", "dropin")
    /\ conf' = Dropin
    /\ run' = [run EXCEPT !.at = "podmanState", !.merged = conf # Dropin]
    /\ UNCHANGED <<pf, cli, secret, recorded, agentBin, unit, wrapper, state, procs, ghost>>

UpPodmanState ==
    /\ At("up", "podmanState")
    /\ state' = PodmanState(run.owner)
    /\ Proceed("podmanApi")
    /\ UNCHANGED <<pf, cli, secret, recorded, agentBin, unit, wrapper, conf, procs, ghost>>

\* restartPodmanAPI, reportPodmanRestart: a failed restart is only a warning.
UpPodmanApi ==
    /\ At("up", "podmanApi")
    /\ \/ loaded' = (IF run.merged THEN conf ELSE loaded) /\ UNCHANGED lapses
       \/ run.merged /\ lapses' = lapses \cup {<<run.cmd, "warned">>} /\ UNCHANGED loaded
    /\ Finish
    /\ UNCHANGED <<pf, cli, onDisk, enabled, running, mine, spent>>

-----------------------------------------------------------------------------
\* runDown, and the stop of whichever agent unit is there.
DownBegin ==
    /\ Begin
    /\ run' = [Idle EXCEPT !.cmd = "down", !.at = "unit"]
    /\ enabled' = FALSE /\ running' = NoProcess
    /\ UNCHANGED <<pf, cli, onDisk, loaded, mine, lapses>>

DownUnit ==
    /\ At("down", "unit")
    /\ unit' = NoUnit
    /\ Proceed("revert")
    /\ UNCHANGED <<pf, cli, secret, recorded, agentBin, wrapper, conf, state, procs, ghost>>

\* Which revert is owed comes from the state file, never from the provider;
\* no state owes none.
revertOCIPodman == RevertDropin(conf, state)
revertOCI ==
    CASE state = NoState -> conf
      [] state.ver = 2 -> revertOCIPodman
      [] OTHER -> Revert(conf, state)

DownRevert_NoRestart ==
    /\ At("down", "revert")
    /\ conf' = revertOCI
    /\ Proceed("binaries")
    /\ UNCHANGED <<pf, cli, secret, recorded, agentBin, unit, wrapper, state, procs, ghost>>

\* A revert that changes nothing restarts nothing.  Revert refuses the state of a
\* newer drawbridge, and `down' ends there.
DownRevert ==
    /\ At("down", "revert")
    /\ IF state.ver = 3 THEN run' = Idle /\ UNCHANGED conf
       ELSE conf' = revertOCI /\ Proceed(IF revertOCI # conf THEN "engine" ELSE "binaries")
    /\ UNCHANGED <<pf, cli, secret, recorded, agentBin, unit, wrapper, state, procs, ghost>>

\* restartDocker or restartPodmanAPI: a failure is a WARNING and `down' goes on.
DownEngine ==
    /\ At("down", "engine")
    /\ \/ loaded' = conf /\ UNCHANGED lapses
       \/ lapses' = lapses \cup {<<run.cmd, "warned">>} /\ UNCHANGED loaded
    /\ Proceed("binaries")
    /\ UNCHANGED <<pf, cli, onDisk, enabled, running, mine, spent>>

DownBinaries ==
    /\ At("down", "binaries")
    /\ agentBin' = 0 /\ wrapper' = 0
    /\ Proceed("stateDir")
    /\ UNCHANGED <<pf, cli, secret, recorded, unit, conf, state, procs, ghost>>

\* rm -rf StateDir takes the guest's secret and provision.json together.
DownStateDir ==
    /\ At("down", "stateDir")
    /\ state' = NoState /\ secret' = [secret EXCEPT !.guest = 0]
    /\ Proceed("record")
    /\ UNCHANGED <<pf, cli, recorded, agentBin, unit, wrapper, conf, procs, ghost>>

DownRecord ==
    /\ At("down", "record")
    /\ recorded' = 0
    /\ Finish
    /\ UNCHANGED <<pf, cli, secret, agentBin, unit, wrapper, conf, state, procs, ghost>>

-----------------------------------------------------------------------------
\* A command stops between two round trips.
CutShort ==
    /\ ~Resting /\ spent.cuts < MaxCuts
    /\ spent' = [spent EXCEPT !.cuts = @ + 1]
    /\ lapses' = lapses \cup {<<run.cmd, run.at>>}
    /\ run' = Idle
    /\ UNCHANGED <<pf, cli, onDisk, procs, mine>>

EmptyFile == [NoFile EXCEPT !.base = "empty"]
Edited(f, how) == IF how = "base" THEN [f EXCEPT !.base = "edited", !.fmt = "edited"]
                  ELSE [f EXCEPT !.dflt = "runc", !.fmt = "edited"]

\* The user edits the engine's configuration while no command runs.
UserEdit ==
    /\ Resting /\ Event
    /\ conf # NoFile
    /\ \E how \in {"base", "default"} :
         /\ conf' = Edited(conf, how) /\ conf' # conf
         /\ mine' = IF PodmanEngine THEN conf' ELSE Edited(IF mine = NoFile THEN EmptyFile ELSE mine, how)
    /\ UNCHANGED <<pf, cli, secret, recorded, agentBin, unit, wrapper, state, procs, run, lapses>>

\* Rotation: the user deletes the Mac's secret.
RotateSecret ==
    /\ Resting /\ Event
    /\ secret.mac # 0 /\ secret' = [secret EXCEPT !.mac = 0]
    /\ UNCHANGED <<pf, cli, recorded, agentBin, unit, wrapper, conf, state, procs, run, mine, lapses>>

Upgrade ==
    /\ Resting /\ cli + 1 \in Versions /\ cli' = cli + 1
    /\ UNCHANGED <<pf, onDisk, procs, run, ghost>>

\* The guest reboots, or someone restarts the engine: both read the disk.
Reboot ==
    /\ Event
    /\ loaded' = conf
    /\ \/ UNCHANGED <<running>>
       \/ running' = IF enabled /\ unit # NoUnit /\ agentBin # 0 THEN Process ELSE NoProcess
    /\ UNCHANGED <<pf, cli, onDisk, enabled, run, mine, lapses>>

Up ==
    \/ \E oci \in BOOLEAN, has \in SUBSET {"agent", "runc"} : UpBegin(oci, has)
    \/ UpRecord \/ UpAgent \/ EnsureMacSecret \/ EnsureSecret \/ UpUnit \/ UpEnable \/ UpRestart
    \/ UpRefresh \/ UpMerge \/ UpState \/ UpScriptWrapper \/ UpScriptEngine
    \/ UpPodmanWrapper \/ UpDropin \/ UpPodmanState \/ UpPodmanApi
Down ==
    \/ DownBegin \/ DownUnit \/ DownRevert \/ DownEngine \/ DownBinaries
    \/ DownStateDir \/ DownRecord

LifecycleNext == Up \/ Down \/ CutShort \/ UserEdit \/ RotateSecret \/ Upgrade \/ Reboot

LifecycleSpec == LifecycleInit /\ [][LifecycleNext]_lifecycleVars
-----------------------------------------------------------------------------
Cuts(cmd, labels) == {cmd} \X labels
Completes(cmd) == run.at # "done" /\ run'.at = "done" /\ run'.cmd = cmd

(***************************************************************************)
(* An `up' that completes leaves one consistent installation: the agent    *)
(* process runs the installed build from the installed unit, both sides    *)
(* hold the same secret, a podman unit publishes the recorded port, and a  *)
(* wrapper that is installed is this build's, or this `up' said that it    *)
(* leaves the old one (no wrapper in this build, or the state of a newer   *)
(* drawbridge).  This holds whatever earlier commands were cut and         *)
(* wherever, except between the agent's install and its restart: the       *)
(* re-run finds nothing to change and restarts nothing (up.go,             *)
(* agentChanged || unitChanged; M14 of the 2026-10-28 audit).              *)
(***************************************************************************)
Consistent ==
    /\ agentBin = cli /\ unit # NoUnit /\ unit.port = recorded
    /\ secret.mac # 0 /\ secret.guest = secret.mac
    /\ wrapper \in {0, cli} \/ run.noted
    /\ running = Process

NotRestarted == Cuts("up", {"macSecret", "secret", "unit", "enable", "restart"})

UpConverges ==
    [][Completes("up") /\ lapses \cap NotRestarted = {} => Consistent']_lifecycleVars

(***************************************************************************)
(* On a rootless podman machine a plain `up' after an `up --oci' keeps the *)
(* notification socket owned by the login user, in the unit and in the     *)
(* agent that runs, for as long as the drop-in steers containers to the    *)
(* wrapper (ocipodman.go, ociSockOwner).  Only a cut between the drop-in   *)
(* and the state file forgets the owner.  A rootless podman in a VM of     *)
(* another provider gets the drop-in and never an owner: provisionOCI goes *)
(* by the engine in the guest, the owner by the provider (up.go:141-153).  *)
(***************************************************************************)
OwnerKept ==
    [][Completes("up") /\ PodmanEngine /\ ~pf.rootful /\ conf' = Dropin
         /\ lapses \cap Cuts("up", {"podmanState"}) = {}
       => unit'.owner = IF PodmanMachine THEN pf.user ELSE Nothing]_lifecycleVars

(***************************************************************************)
(* A `down' that completes gives the user their daemon.json back: the      *)
(* user's keys, runtime and default whatever was edited in between, and    *)
(* the very bytes when nothing was (down.go:6-8).  The exceptions are a    *)
(* cut between the daemon.json write and the provision.json write, which   *)
(* loses the record of what to undo; an `up --oci' that overrode a default *)
(* the user chose after the first one; and, for the bytes only, a `down'   *)
(* cut after its revert, whose re-run takes the surgical path.             *)
(***************************************************************************)
SameMeaning(c, d) ==
    LET keys(x) == [base |-> Base(x), rt |-> x.rt, dflt |-> x.dflt]
    IN keys(c) = keys(d)
Unrecorded == Cuts("up", {"state", "remerged"})
Rerun == Cuts("down", {"engine", "binaries", "stateDir"})

DownRestores ==
    [][Completes("down") /\ ~PodmanEngine /\ lapses \cap Unrecorded = {}
       => /\ SameMeaning(conf', mine)
          /\ mine.fmt # "edited" /\ lapses \cap Rerun = {} => conf' = mine]_lifecycleVars

(***************************************************************************)
(* While no command runs, a docker engine whose loaded default runtime is  *)
(* the wrapper finds the wrapper on disk: otherwise it starts no container *)
(* at all (up.go, provisionOCIDocker; down.go, revertOCI).  The exceptions *)
(* are a restart that `down' warned about, an `up' cut between daemon.json *)
(* and the wrapper, and a `down' cut before the engine restart, whose      *)
(* re-run reverts nothing, restarts nothing and removes the wrapper.       *)
(***************************************************************************)
Stranding == Cuts("up", {"state", "script"}) \cup Cuts("down", {"engine", "warned"})

Starts(c) == c.rt # "ours" \/ c.dflt # "drawbridge" \/ wrapper # 0

EngineStarts == Resting /\ ~PodmanEngine /\ lapses \cap Stranding = {} => Starts(loaded)

-----------------------------------------------------------------------------
(* Why they hold.  An `up' or `down' in progress, by its round trips.      *)

Upping(labels) == run.cmd = "up" /\ run.at \in labels
Late == {"refresh", "merge", "state", "script", "engine", "podmanWrapper", "dropin", "podmanState", "podmanApi"}
Placing == {"macSecret", "secret", "unit", "enable", "restart"}
RoundTrips == {"none", "record", "agent", "revert", "binaries", "stateDir", "done"} \cup Placing \cup Late
Reverted == run.cmd = "down" /\ run.at \in {"engine", "binaries", "stateDir"}

Owner == {Nothing, "core"}
UnitFile == [port : Nat, owner : Owner \cup {"none"}]
States == [ver : {0, 1, 2, 3}, before : File, added : BOOLEAN, setdef : BOOLEAN,
           prev : Words, after : File, owner : Owner]

Runs == [cmd : {"none", "up", "down"}, at : RoundTrips, oci : BOOLEAN, refresh : BOOLEAN,
         noted : BOOLEAN, changed : BOOLEAN, merged : BOOLEAN, owner : Owner, st : States]

LifecycleTypeOK ==
    /\ pf \in Machines /\ cli \in Versions
    /\ secret \in [mac : Nat, guest : Nat] /\ recorded \in Nat /\ agentBin \in Nat /\ wrapper \in Nat
    /\ unit \in UnitFile /\ enabled \in BOOLEAN /\ running \in [bin : Nat, unit : UnitFile]
    /\ conf \in File /\ loaded \in File /\ mine \in File /\ state \in States
    /\ run \in Runs
    /\ spent \in [commands : Nat, cuts : Nat, events : Nat]

\* Which round trips a command can be at, and what a state file can be.
Trips ==
    /\ run.cmd = "none" => run.at = "none"
    /\ Upping({"merge", "state", "script", "engine"}) => ~PodmanEngine /\ run.oci
    /\ Upping({"podmanWrapper", "dropin", "podmanState", "podmanApi"}) => PodmanEngine /\ run.oci
    /\ state = NoState \/ state.ver \in IF PodmanEngine THEN {2} ELSE {1, 3}
    /\ At("up", "state") => run.st.ver = 1

\* What an `up' has already put in place, round trip by round trip.
InPlace ==
    /\ run.cmd = "up" => spent.commands # 0
    /\ Upping(Placing \cup Late) => agentBin = cli
    /\ Upping((Placing \ {"macSecret"}) \cup Late) => secret.mac # 0
    /\ Upping({"unit", "enable", "restart"} \cup Late) => secret.guest = secret.mac
    /\ Upping({"enable", "restart"} \cup Late) => unit = Unit
    /\ Upping({"restart"} \cup Late) => enabled
    /\ Upping({"record", "agent"} \cup Placing) /\ ~run.oci /\ ~run.refresh => wrapper = 0 \/ run.noted
    /\ Upping({"engine", "dropin", "podmanState", "podmanApi"}) => wrapper = cli
    /\ run.cmd = "down" /\ run.at # "done" => running = NoProcess /\ ~enabled

\* The agent runs what is installed, or this `up' knows that it has to restart
\* it: what agentChanged || unitChanged has to say.
Current ==
    lapses \cap NotRestarted = {} =>
        /\ running \in {NoProcess, DevProcess, Process} \/ (Upping(Placing) /\ run.changed)
        /\ Upping({"restart"}) => run.changed \/ running = Process
        /\ Upping(Late) => running = Process

\* Where an `up' and a `down' end.
LastTrip ==
    /\ Completes("up") => UpRestart \/ UpRefresh \/ UpScriptEngine \/ UpPodmanApi
    /\ Completes("down") => DownRecord

UpInv == LifecycleTypeOK /\ Trips /\ InPlace /\ Current

\* The owner is in the state file while the drop-in is there, and an `up'
\* carries it.
Rootless == PodmanMachine /\ PodmanEngine /\ ~pf.rootful
Unowned == ~PodmanMachine => run.owner = Nothing /\ ~At("up", "record")
OwnerInv ==
    Rootless =>
        /\ state # NoState => state.after = Dropin
        /\ Upping({"agent"} \cup Placing \cup Late) /\ run.oci => run.owner = pf.user
        /\ <<"up", "podmanState">> \notin lapses =>
              /\ conf = Dropin => At("up", "podmanState") \/ (state # NoState /\ state.owner = pf.user)
              /\ conf = Dropin /\ Upping({"agent"} \cup Placing \cup Late) => run.owner = pf.user
              /\ Reverted => conf # Dropin

\* The guests drawbridge has never been on.
Untouched(f) == f.rt = "no" /\ f.dflt # "drawbridge"
FreshGuests == \A g \in Guests : Untouched(g.conf) /\ ~g.newer

\* The record of what there is to undo: provision.json, or what this `up' is
\* about to write there.  It tells the file before the merge from the one after.
Undo == IF At("up", "state") /\ state = NoState THEN run.st ELSE state
Truthful ==
    ~PodmanEngine /\ <<"up", "state">> \notin lapses =>
        /\ Undo = NoState \/ Reverted => Untouched(conf)
        /\ Undo # NoState =>
              /\ Undo.added /\ Undo.setdef /\ Untouched(Undo.before)
              /\ Undo.prev = Undo.before.dflt /\ Undo.after = Merged(Undo.before)
        /\ At("down", "record") => state = NoState

\* daemon.json is the user's, but for the two keys the record undoes; and the
\* very bytes where nobody has edited it.
Theirs ==
    ~PodmanEngine /\ lapses \cap Unrecorded = {} =>
        /\ Base(conf) = Base(mine) /\ mine.rt = "no"
        /\ mine.dflt = IF conf.dflt = "drawbridge" THEN Undo.prev ELSE conf.dflt
        /\ mine.fmt # "edited" /\ lapses \cap Rerun = {} =>
              IF Undo = NoState \/ Reverted THEN conf = mine ELSE conf = Undo.after /\ Undo.before = mine

\* The engine has read no runtime entry that is not in the file, and no file
\* names a wrapper that is not there, short of the round trips in between.
Served ==
    ~PodmanEngine /\ lapses \cap Stranding = {} =>
        /\ loaded.rt = "ours" => conf.rt = "ours" \/ At("down", "engine")
        /\ conf.rt = "ours" /\ wrapper = 0 => Upping({"state", "script"})

DownInv == UpInv /\ Truthful /\ Theirs /\ Served
=============================================================================
