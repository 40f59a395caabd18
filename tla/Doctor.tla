------------------------------- MODULE Doctor -------------------------------
(***************************************************************************)
(* `drawbridge doctor' (internal/doctor): probes that run one after        *)
(* another and in parallel while the machine goes on changing, and the     *)
(* checks that turn what they saw into findings.                           *)
(*                                                                         *)
(* `world' is the machine as it really is.  A probe copies a part of it    *)
(* into `in' (Inputs); Classify sees only `in'.  Evidence lines, remedies  *)
(* and titles are left out, except the verdict of the Local Network check. *)
(***************************************************************************)
EXTENDS Naturals, FiniteSets

CONSTANTS
    Providers,   \* the providers of the target VM: subset of lima, colima, podman
    MaxDisturbances    \* how often the machine changes, before and during the run

ASSUME DoctorAssumption ==
    /\ Providers \subseteq {"lima", "colima", "podman"} /\ Providers # {}
    /\ MaxDisturbances \in Nat

VARIABLES
    world,   \* the facts
    opt,     \* how doctor is run: euid0, -vm given, -probe given
    stage,   \* begin, probing, arp, mac, halfclose, classify, done, refused
    todo,    \* the parallel probes still out
    in,      \* what has been gathered
    report,  \* check -> [status, why], once classified
    old,     \* the world when the run began
    disturbances

doctorVars == <<world, opt, stage, todo, in, report, old, disturbances>>

\* The empty string.
Blank == "blank"

INSTANCE Resolver WITH
    Usable <- {"guest"}, Subnet <- {"guest"}, NoIP <- Blank, NoHW <- Blank, BadHW <- "bad",
    Loopback <- "loopback", maxLeaseCandidates <- 4

-----------------------------------------------------------------------------
(* The machine.                                                            *)

Healthy(p) ==
    [installed |-> TRUE, provider |-> p, vm |-> "running", others |-> 0, shell |-> TRUE,
     basics |-> TRUE, features |-> "ok", oldKernel |-> FALSE, runtime |-> "none",
     agent |-> TRUE, agentVersion |-> "cli",
     bind |-> IF p = "podman" THEN {"loopback"} ELSE {"loopback", "vznat"},
     published |-> "yes", record |-> "ok", config |-> TRUE,
     routes |-> {"connected"}, carries |-> FALSE, arp |-> TRUE,
     gate |-> FALSE, filter |-> "none", half |-> "streams", fwd |-> "none",
     job |-> "running", binVersion |-> "cli", procVersion |-> "cli", serves |-> TRUE,
     userd |-> "none", mac |-> "A", guest |-> "A",
     up |-> {"mirror", "sync"}, direct |-> TRUE, dated |-> TRUE, ring |-> {}, log |-> {}]

\* The rows of the refusal table that the ring and the log tail tell apart.
AuthIDs == {"auth-mismatch", "auth-wrong-peer", "auth-mac-missing-secret", "auth-file-perms"}

\* Ring entries are [id, when]: recorded before both current sessions began,
\* between their starts, or after.
Refusals == [id : AuthIDs, when : {"before", "between", "after"}]

\* One field of the world turns into something else: it breaks in some way, or
\* heals.  The four basics are systemd, BTF, cgroup v2 and passwordless sudo; a
\* "bad" secret file is malformed.  `up' and `direct' are what the daemon
\* believes of its sessions: an agent that dies closes them, a path that goes
\* dark does not, until a ping is missed.  A podman machine that is removed and
\* made again leaves a record of the old one, beside a config that reads or not.
Unlisted(w) == [w EXCEPT !.vm = "missing"]
HungUp(w) == [w EXCEPT !.up = {}]
Rerouted(w) == {[w EXCEPT !.routes = r] : r \in {{}, {"static"}, {"other"}, {"connected"}, {"static", "connected"}}}
Remade(w) == {[w EXCEPT !.config = v] : v \in BOOLEAN}

DisturbedVM(w) ==
         {[w EXCEPT !.vm = v] : v \in {"running", "stopped", "unattachable", "missing"}}
    \cup {[Unlisted(w) EXCEPT !.installed = v] : v \in BOOLEAN}
    \cup {[w EXCEPT !.others = v] : v \in {0, 1}} \cup {[w EXCEPT !.shell = v] : v \in BOOLEAN}
    \cup {[w EXCEPT !.basics = v] : v \in BOOLEAN} \cup {[w EXCEPT !.oldKernel = v] : v \in BOOLEAN}
    \cup {[w EXCEPT !.features = v] : v \in {"ok", "warn", "fail"}}
    \cup {[w EXCEPT !.runtime = v] : v \in {"none", "ok", "old"}}

DisturbedAgent(w) ==
         {[HungUp(w) EXCEPT !.agent = v] : v \in BOOLEAN}
    \cup {[HungUp(w) EXCEPT !.bind = v] : v \in {{}, {"loopback"}, {"wildcard"}}}
    \cup {[w EXCEPT !.agentVersion = v] : v \in {"cli", "other", "unknown"}}
    \cup {[w EXCEPT !.published = v] : v \in {"yes", "no", "unknown"}}
    \cup {[r EXCEPT !.record = v] : r \in Remade(w), v \in {"ok", "absent", "stale"}}
    \cup {[w EXCEPT !.half = v] : v \in {"streams", "starved", "ends"}}

DisturbedPath(w) ==
         {[r EXCEPT !.carries = v] : r \in Rerouted(w), v \in BOOLEAN}
    \cup {[w EXCEPT !.arp = v] : v \in BOOLEAN} \cup {[w EXCEPT !.gate = v] : v \in BOOLEAN}
    \cup {[w EXCEPT !.filter = v] : v \in {"none", "idle", "drops", "dropsCLI"}}
    \cup {[w EXCEPT !.fwd = v] : v \in {"none", "control", "wide", "unknown"}}

DisturbedMac(w) ==
         {[w EXCEPT !.job = v] : v \in {"running", "none", "unloaded", "stopped"}}
    \cup {[w EXCEPT !.binVersion = v] : v \in {"cli", "other"}}
    \cup {[w EXCEPT !.procVersion = v] : v \in {"cli", "other", "schema"}}
    \cup {[w EXCEPT !.serves = v] : v \in BOOLEAN} \cup {[w EXCEPT !.userd = v] : v \in {"none", "target", "other"}}
    \cup {[w EXCEPT !.mac = v] : v \in {"A", "B", "absent", "bad"}}
    \cup {[w EXCEPT !.guest = v] : v \in {"A", "B", "absent", "bad", "unreadable"}}

DisturbedSessions(w) ==
         {[w EXCEPT !.up = v] : v \in {{}, {"mirror"}}} \cup {[w EXCEPT !.dated = v] : v \in BOOLEAN}
    \cup {[w EXCEPT !.direct = v] : v \in BOOLEAN} \cup {[w EXCEPT !.ring = {r}] : r \in Refusals}
    \cup {[w EXCEPT !.log = {x}] : x \in AuthIDs}

Disturbed(w) ==
    DisturbedVM(w) \cup DisturbedAgent(w) \cup DisturbedPath(w) \cup DisturbedMac(w) \cup DisturbedSessions(w)

Podman(w) == w.provider = "podman"

\* Whether a packet can reach the guest's address at all.
Carried(w) == "connected" \in w.routes \/ (w.routes # {} /\ w.carries)

\* Whether a dial to the agent's direct address connects.  Root is exempt
\* from the Local Network gate, not from a filter, which may also drop the
\* command's binary alone.
Connects(w, root, cli) ==
    /\ w.vm = "running" /\ w.agent /\ w.bind \cap {"vznat", "wildcard"} # {}
    /\ Carried(w) /\ (root \/ ~w.gate) /\ w.filter # "drops" /\ (cli => w.filter # "dropsCLI")

\* The daemons that answer on an introspection socket, the root one and the
\* user's.  A snapshot of another schema is not understood.
answer(w, root, version, serves) ==
    [root |-> root, usable |-> version # "schema", version |-> version, serves |-> serves,
     direct |-> w.direct, up |-> w.up, dated |-> w.dated, ring |-> w.ring]

Snapshots(w) ==
    (IF w.job = "running" THEN {answer(w, TRUE, w.procVersion, w.serves)} ELSE {})
      \cup (IF w.userd # "none" THEN {answer(w, FALSE, "cli", w.userd = "target")} ELSE {})

-----------------------------------------------------------------------------
(* What the probes bring back.                                             *)

NoGuest == [ran |-> FALSE, basics |-> FALSE, features |-> "ok", oldKernel |-> FALSE, runtime |-> "none",
            agent |-> FALSE, version |-> "unknown", bind |-> {}, ip |-> Blank, published |-> "unknown", secret |-> "absent"]

\* guestScript and ParseGuestProbe; a shell that fails or times out is one
\* answer.  The gvproxy table is read by the same script.
ParseGuestProbe(w) ==
    IF w.vm # "running" \/ ~w.shell THEN NoGuest ELSE
        [ran |-> TRUE, basics |-> w.basics, features |-> w.features, oldKernel |-> w.oldKernel, runtime |-> w.runtime,
         agent |-> w.agent, version |-> w.agentVersion, bind |-> IF w.agent THEN w.bind ELSE {},
         ip |-> IF Podman(w) THEN Blank ELSE "guest", published |-> w.published, secret |-> w.guest]

\* What gvproxy forwards besides podman's ssh and the transport itself: the
\* table the guest script has brought back, where it could.
podmanForwarding(w) ==
    IF ~ParseGuestProbe(w).ran \/ w.published = "unknown" THEN "unknown"
    ELSE IF w.fwd = "wide" THEN "wide" ELSE "none"

Attachable(w) == (IF w.vm = "running" THEN 1 ELSE 0) + w.others

\* The VM diagnosed (ref: ours, other, default or none) and why the guest is
\* not asked, Blank when it is.
selectTarget(w) ==
    IF opt.named THEN [ref |-> "ours", skip |-> IF w.vm = "running" THEN Blank ELSE w.vm]
    ELSE IF Attachable(w) # 1 THEN [ref |-> "none", skip |-> "ambiguous"]
    ELSE [ref |-> IF w.vm = "running" THEN "ours" ELSE "other", skip |-> Blank]

\* Root lists nothing: it takes the VM the installed daemon names, or the
\* built-in default.
rootTarget(w) ==
    [ref |-> IF opt.named THEN "ours" ELSE IF w.job = "none" THEN "default"
             ELSE IF w.serves THEN "ours" ELSE "other",
     skip |-> "root"]

resolveTarget(w, root) ==
    IF Podman(w) THEN ResolvePodman(IF root THEN w.job # "none" ELSE w.record # "absent")
    ELSE LET t == [provider |-> w.provider, leaseName |-> "vm", hw |-> Blank]
             leases == [i \in IF w.vm = "missing" THEN {} ELSE {1} |-> [name |-> "vm", ip |-> "guest", hw |-> "hw", expiry |-> 1]]
             shell == IF root \/ w.vm # "running" \/ ~w.shell THEN Blank ELSE "guest"
         IN  ResolveTarget(t, shell, leases, IF Connects(w, root, TRUE) THEN {"guest"} ELSE {})

\* The daemon serving this VM, if one that can be understood answered.
NoSnapshot == [root |-> FALSE, usable |-> FALSE, version |-> Blank, serves |-> FALSE, direct |-> FALSE, up |-> {}, dated |-> FALSE, ring |-> {}]

\* The root socket is read first.
matchSnapshot(snaps, ref) ==
    LET fits == {s \in snaps : s.usable /\ s.serves}
    IN  IF ref /\ fits # {} THEN CHOOSE s \in fits : s.root \/ \A r \in fits : ~r.root ELSE NoSnapshot

vznatCandidate(guest, res) ==
    IF guest.ip # Blank THEN guest.ip ELSE IF res.source \in {"vznat-direct", "vznat-leases"} THEN res.ip ELSE Blank

NoInputs == [status |-> "none", binary |-> "none", installed |-> FALSE, attachable |-> 0, unattachable |-> 0, listed |-> 0,
             ref |-> FALSE, skip |-> Blank, pod |-> FALSE,
             unread |-> {}, routes |-> {},
             filter |-> FALSE, snaps |-> {}, guest |-> NoGuest, fwd |-> "unknown",
             res |-> [ip |-> Blank, source |-> "none"],
             probe |-> "skipped", arp |-> FALSE, record |-> "ok", mac |-> "absent", log |-> {}, half |-> "skip"]

Parallel == {"netstat", "snapshots", "sysext", "guest", "forwarding", "resolve"}

-----------------------------------------------------------------------------
(* The checks.                                                             *)

Finding(s) == [status |-> s, why |-> Blank]
Because(s, y) == [status |-> s, why |-> y]

CheckProviders ==
    Finding(IF ~in.installed THEN "fail"
            ELSE IF in.skip = "root" /\ in.listed = 0 THEN "skip"
            ELSE IF in.unattachable > 0 \/ in.attachable = 0 THEN "warn" ELSE "ok")

\* kernelfeat's verdict comes before the version floors.
CheckGuestPrereqs ==
    LET g == in.guest
    IN  Finding(IF in.skip # Blank \/ ~g.ran THEN "skip"
                ELSE IF ~g.basics \/ g.features = "fail" THEN "fail"
                ELSE IF g.features = "warn" \/ g.oldKernel \/ g.runtime = "old" THEN "warn" ELSE "ok")

Reachable(bind) == bind \cap {"vznat", "wildcard"} # {}

\* Whether the agent's port is in gvproxy's table; a table that could not be
\* read does not say.
podmanPublished(g) ==
    CASE g.published = "unknown" -> "warn" [] g.published = "no" -> "fail" [] OTHER -> "ok"

CheckAgent ==
    LET g == in.guest
    IN  Finding(IF in.skip # Blank \/ ~g.ran THEN "skip"
                ELSE IF ~g.agent \/ g.version = "other" \/ g.bind = {} THEN "fail"
                ELSE IF in.pod THEN podmanPublished(g)
                ELSE IF Reachable(g.bind) THEN "ok" ELSE "warn")

\* The record against the machine: root does not read it.
podmanResolutionEvidence ==
    CASE ~opt.euid0 /\ in.record = "stale" -> "fail"
      [] ~opt.euid0 /\ in.record = "absent" -> "warn"
      [] OTHER -> "ok"

CheckResolution ==
    LET src == in.res.source
    IN  Finding(IF (in.skip # Blank /\ ~opt.euid0) \/ src = "none" THEN "skip"
                ELSE IF in.pod THEN podmanResolutionEvidence
                ELSE CASE src = "unresolved" /\ in.skip = Blank -> "fail"
                       [] src = "unresolved" /\ opt.euid0 -> "warn"
                       [] src = "unresolved" -> "skip"
                       [] src \in {"vznat-direct", "vznat-leases"} -> "ok"
                       [] OTHER -> "warn")

classifyRoute(routes) ==
    CASE "connected" \in routes -> "connected"
      [] "static" \in routes -> "static"
      [] routes # {} -> "other"
      [] OTHER -> "absent"

CheckVZNATRoute ==
    LET class == classifyRoute(in.routes)
        cand  == vznatCandidate(in.guest, in.res)
        up    == in.skip = Blank \/ opt.euid0
    IN  Finding(IF in.pod \/ "netstat" \in in.unread THEN "skip"
                ELSE CASE class = "absent" -> "fail"
                       [] class = "static" -> IF in.probe = "ok" THEN "warn" ELSE "fail"
                       [] OTHER -> IF cand = Blank \/ in.arp \/ ~up \/ in.probe = "ok" THEN "ok" ELSE "warn")

tier2Evidence_DeadSessions(s) == s.usable /\ s.root /\ s.direct

\* A root daemon on the direct path with a live session is the root vantage
\* reaching the guest; nothing else about it is evidence.
tier2Evidence(s) == s.usable /\ s.root /\ s.direct /\ s.up # {}

CheckLocalNetwork ==
    LET s == matchSnapshot(in.snaps, in.ref)
    IN  IF in.pod \/ (in.skip # Blank /\ ~opt.euid0) \/ in.probe = "skipped" THEN Finding("skip")
        ELSE IF in.probe = "ok" THEN Finding("ok")
        ELSE IF opt.euid0 THEN Because("fail", "root")
        ELSE IF tier2Evidence(s) THEN Because("fail", "gate")
        ELSE Because("warn", "undetermined")

CheckNEFilter == Finding(IF "sysext" \in in.unread THEN "skip" ELSE IF in.filter THEN "warn" ELSE "ok")

\* Starved: no bytes and no end within a window longer than the agent's ping.
CheckHalfClose ==
    Finding(CASE in.half \in {"skip", "error", "ends"} -> "skip"
              [] in.half = "streams" -> "ok"
              [] in.res.ip = "loopback" /\ ~in.pod -> "warn"
              [] OTHER -> "fail")

snapshotVersionSkew == \E s \in in.snaps : s.version # "cli"

fightingDaemons == \E s, r \in in.snaps : s.root /\ ~r.root

liveSnapshot == \E s \in in.snaps : s.usable

CheckDaemon ==
    Finding(CASE in.binary = "other" \/ snapshotVersionSkew -> "fail"
              [] fightingDaemons -> "warn"
              [] in.status = "none" -> IF liveSnapshot THEN "ok" ELSE "warn"
              [] in.status \in {"unloaded", "stopped"} -> "warn"
              [] OTHER -> "ok")

\* What the user published is reported.
checkPodmanCoexistence == IF in.fwd = "none" THEN "ok" ELSE "warn"

CheckCoexistence ==
    Finding(IF in.skip # Blank \/ in.fwd = "unknown" THEN "skip"
            ELSE IF in.pod THEN checkPodmanCoexistence
            ELSE IF in.fwd = "wide" THEN "warn" ELSE "ok")

CheckSkipVisibility == Finding("info")

\* Evidence older than both current sessions is history, when the daemon
\* dates its sessions; a log line carries no date.
healedSince(s) == s.up = {"mirror", "sync"} /\ s.dated

MatchAuthLog == {[id |-> x, when |-> "undated"] : x \in in.log}

splitStale_NeverStale(ids) ==
    [live |-> {e \in MatchAuthLog \cup matchSnapshot(in.snaps, in.ref).ring : e.id \in ids}, stale |-> {}]

splitStale(ids) ==
    LET s    == matchSnapshot(in.snaps, in.ref)
        all  == {e \in MatchAuthLog \cup s.ring : e.id \in ids}
        past == {e \in all : healedSince(s) /\ e.when = "before"}
    IN  [live |-> all \ past, stale |-> past]

checkAuthFilePerms ==
    LET bad == (in.ref /\ in.mac = "bad") \/ (in.skip = Blank /\ in.guest.ran /\ in.guest.secret = "bad")
        e   == splitStale({"auth-file-perms"})
    IN  Finding(IF bad \/ e.live # {} THEN "fail" ELSE IF e.stale # {} THEN "info" ELSE "none")

primaryAuthFinding_NoCompare ==
    IF ~in.ref THEN Finding("skip")
    ELSE IF in.skip # Blank \/ ~in.guest.ran THEN Finding(IF in.mac = "absent" THEN "warn" ELSE "skip")
    ELSE Finding(IF (in.mac = "absent") # (in.guest.secret = "absent") THEN "fail" ELSE "ok")

\* The Mac file in full; of the guest's the digest, where sudo gives it.
primaryAuthFinding ==
    LET guestSkip == in.skip # Blank \/ ~in.guest.ran
    IN  IF ~in.ref THEN Finding("skip")
        ELSE IF guestSkip \/ in.guest.secret = "unreadable"
          THEN Finding(IF in.mac = "absent" THEN "warn" ELSE "skip")
        ELSE CASE in.mac = "absent" /\ in.guest.secret = "absent" -> Finding("warn")
               [] in.mac # in.guest.secret \/ in.mac = "bad" -> Finding("fail")
               [] OTHER -> Finding("ok")

checkWrongPeer ==
    LET match == in.ref /\ in.skip = Blank /\ in.guest.ran /\ in.mac = in.guest.secret /\ in.mac \in {"A", "B"}
        e     == splitStale({"auth-mismatch", "auth-wrong-peer"})
    IN  Finding(IF ~match \/ (e.live = {} /\ e.stale = {}) THEN "none"
                ELSE IF e.live = {} THEN "info" ELSE "fail")

CheckAuth == [perms |-> checkAuthFilePerms, auth |-> primaryAuthFinding, peer |-> checkWrongPeer]

Classify ==
    [providers |-> CheckProviders, prereqs |-> CheckGuestPrereqs, agent |-> CheckAgent, resolution |-> CheckResolution,
     route |-> CheckVZNATRoute, localnet |-> CheckLocalNetwork, nefilter |-> CheckNEFilter, halfclose |-> CheckHalfClose,
     daemon |-> CheckDaemon, coexistence |-> CheckCoexistence, skip |-> CheckSkipVisibility,
     perms |-> CheckAuth.perms, auth |-> CheckAuth.auth, peer |-> CheckAuth.peer]

Failed == {c \in DOMAIN report : report[c].status = "fail"}
ExitCode == IF Failed = {} THEN 0 ELSE 1

-----------------------------------------------------------------------------
(* The run.                                                                *)

DoctorInit ==
    /\ \E p \in Providers : world = Healthy(p)
    /\ opt \in [euid0 : BOOLEAN, named : BOOLEAN, probe : BOOLEAN]
    /\ stage = "begin" /\ todo = {} /\ in = NoInputs /\ report = <<>> /\ old = world /\ disturbances = 0

\* The machine changes once under the run, or has changed before it.
Disturb ==
    /\ disturbances < MaxDisturbances /\ stage \notin {"done", "refused"} /\ (stage # "begin" => world = old)
    /\ world' \in Disturbed(world) \ {world}
    /\ disturbances' = disturbances + 1
    /\ old' = IF stage = "begin" THEN world' ELSE old
    /\ UNCHANGED <<opt, stage, todo, in, report>>

\* Gather up to the parallel probes: launchd and the plist, the providers'
\* lists, the target.  A named VM that no provider has is something to report,
\* unless there is no provider at all.  A run that settles on another VM is not
\* followed further.
GatherBegin ==
    /\ stage = "begin"
    /\ LET t == IF opt.euid0 THEN rootTarget(world) ELSE selectTarget(world)
           listed == ~opt.euid0
           skip == t.skip
       IN  IF t.ref \in {"other", "default"} \/ (skip = "missing" /\ ~world.installed)
             THEN stage' = "refused" /\ UNCHANGED <<todo, in>>
             ELSE /\ stage' = "probing"
                  /\ in' = [in EXCEPT !.status = world.job, !.installed = world.installed, !.log = world.log,
                              !.listed = IF listed THEN 1 ELSE 0,
                              !.attachable = IF listed THEN Attachable(world) ELSE 0,
                              !.unattachable = IF listed /\ world.vm = "unattachable" THEN 1 ELSE 0,
                              !.ref = t.ref = "ours", !.skip = skip, !.pod = t.ref = "ours" /\ Podman(world)]
                  /\ todo' = {"netstat", "snapshots", "sysext"}
                             \cup (IF skip = Blank THEN {"guest"} ELSE {})
                             \cup (IF skip = Blank /\ ~Podman(world) THEN {"forwarding"} ELSE {})
                             \cup (IF skip = Blank \/ opt.euid0 THEN {"resolve"} ELSE {})
    /\ old' = world
    /\ UNCHANGED <<world, opt, report, disturbances>>

\* netstat or systemextensionsctl did not run, or not in time.
Unread(p) == p \in {"netstat", "sysext"} /\ in' = [in EXCEPT !.unread = @ \cup {p}]

Seen(p) ==
    CASE p = "netstat" -> [in EXCEPT !.routes = world.routes]
      [] p = "snapshots" -> [in EXCEPT !.snaps = Snapshots(world)]
      [] p = "sysext" -> [in EXCEPT !.filter = world.filter # "none"]
      [] p = "guest" -> [in EXCEPT !.guest = ParseGuestProbe(world), !.fwd = IF in.pod THEN podmanForwarding(world) ELSE in.fwd]
      [] p = "forwarding" -> [in EXCEPT !.fwd = world.fwd]
      [] p = "resolve" -> [in EXCEPT !.res = resolveTarget(world, opt.euid0)]

GatherProbe(p) ==
    /\ stage = "probing" /\ p \in todo
    /\ todo' = todo \ {p} /\ (in' = Seen(p) \/ Unread(p))
    /\ UNCHANGED <<world, opt, stage, report, old, disturbances>>

\* After wg.Wait: the unprivileged dial, unless the resolver has already made
\* it, and the Mac-side record of a podman machine.  A record is compared only
\* with a machine config that could be read.
podmanInput(w) ==
    IF ~in.pod \/ (w.record = "stale" /\ ~w.config) THEN "ok" ELSE w.record

localNetworkInput(w) ==
    IF vznatCandidate(in.guest, in.res) = Blank THEN "skipped"
    ELSE IF in.res.source \in {"vznat-direct", "vznat-leases"} \/ Connects(w, opt.euid0, TRUE)
      THEN "ok" ELSE "fail"

GatherLocalNetwork ==
    /\ stage = "probing" /\ todo = {} /\ stage' = "arp"
    /\ in' = [in EXCEPT !.record = podmanInput(world), !.probe = localNetworkInput(world)]
    /\ UNCHANGED <<world, opt, todo, report, old, disturbances>>

GatherARP ==
    /\ stage = "arp" /\ stage' = "mac"
    /\ in' = [in EXCEPT !.arp = world.arp]
    /\ UNCHANGED <<world, opt, todo, report, old, disturbances>>

macSecretState(w) == IF in.ref THEN w.mac ELSE "absent"

\* The installed binary's version, then the Mac's secret file.
GatherMac ==
    /\ stage = "mac" /\ stage' = "halfclose"
    /\ in' = [in EXCEPT !.binary = IF world.job = "none" THEN "none" ELSE world.binVersion,
                        !.mac = macSecretState(world)]
    /\ UNCHANGED <<world, opt, todo, report, old, disturbances>>

\* The one probe that opens a session.
runProbe(w) ==
    LET reached == IF in.res.ip = "loopback"
                     THEN w.vm = "running" /\ w.agent /\ w.bind \cap {"loopback", "wildcard"} # {}
                          /\ (Podman(w) => w.published # "no")
                     ELSE Connects(w, opt.euid0, TRUE)
        agreed  == in.mac \in {w.guest, "absent"} /\ (in.mac = "absent" => w.guest \in {"absent", "bad"})
    IN  IF ~opt.probe \/ in.res.ip = Blank THEN "skip"
        ELSE IF reached /\ agreed THEN w.half ELSE "error"

GatherHalfClose ==
    /\ stage = "halfclose" /\ stage' = "classify"
    /\ in' = [in EXCEPT !.half = runProbe(world)]
    /\ UNCHANGED <<world, opt, todo, report, old, disturbances>>

Report ==
    /\ stage = "classify" /\ stage' = "done"
    /\ report' = Classify
    /\ UNCHANGED <<world, opt, todo, in, old, disturbances>>

DoctorNext ==
    \/ Disturb
    \/ GatherBegin
    \/ \E p \in Parallel : GatherProbe(p)
    \/ GatherLocalNetwork
    \/ GatherARP
    \/ GatherMac
    \/ GatherHalfClose
    \/ Report

DoctorSpec == DoctorInit /\ [][DoctorNext]_doctorVars

-----------------------------------------------------------------------------
(* Properties.                                                             *)

\* A finding that fails the run points at something that was wrong when the run
\* began or when it ended, whatever order the probes answered in.  A refusal in
\* the ring that is older than both current sessions is not such a thing, when
\* the daemon dates them; any other is, and so is a line in the log tail, which
\* has no date and is never discounted, however long ago it healed: that one can
\* turn a healthy machine red.
Recorded(ids, w) ==
    \/ w.log \cap ids # {}
    \/ \E r \in w.ring : r.id \in ids /\ ~(r.when = "before" /\ w.dated /\ w.up = {"mirror", "sync"})

Cause(c, w) ==
    CASE c = "providers"  -> ~w.installed
      [] c = "prereqs"    -> ~w.basics \/ w.features = "fail"
      [] c = "agent"      -> ~w.agent \/ w.agentVersion = "other" \/ w.bind = {} \/ (Podman(w) /\ w.published = "no")
      [] c = "resolution" -> IF Podman(w) THEN w.record = "stale" ELSE ~Connects(w, opt.euid0, TRUE) /\ w.provider # "lima"
      [] c = "route"      -> "connected" \notin w.routes
      [] c = "localnet"   -> ~Connects(w, opt.euid0, TRUE)
      [] c = "halfclose"  -> w.half = "starved"
      [] c = "daemon"     -> w.binVersion = "other" \/ w.procVersion # "cli"
      [] c = "perms"      -> w.mac = "bad" \/ w.guest = "bad" \/ Recorded({"auth-file-perms"}, w)
      [] c = "auth"       -> w.mac # w.guest \/ w.mac = "bad"
      [] c = "peer"       -> Recorded({"auth-mismatch", "auth-wrong-peer"}, w)
      [] OTHER            -> FALSE

FailHasCause == stage = "done" => \A c \in Failed : Cause(c, old) \/ Cause(c, world)

\* The Local Network gate is blamed only when it is closed, or check 7 reports
\* a filter beside it (unless it came up during the run) or that it could not
\* list them, or a root daemon serving this VM really held live sessions and its
\* view has gone stale: the path went dark for root too and no ping has been
\* missed yet, or the agent went away between the snapshot and the dial.
RootHeld(w) == w.job = "running" /\ w.serves /\ w.direct /\ w.up # {}

GateNamed ==
    stage = "done" /\ report.localnet.why = "gate" =>
        \/ old.gate \/ world.gate \/ report.nefilter.status # "ok" \/ old.filter # world.filter
        \/ (RootHeld(old) \/ RootHeld(world)) /\ ~(Connects(old, TRUE, FALSE) /\ Connects(world, TRUE, FALSE))

\* A report in which the guest was asked and nothing is amber or red describes a
\* VM that can be reached and authenticated to, with a daemon running on this
\* Mac (check 9 does not ask which VM it serves).  A podman machine's record is
\* that of the machine, unless the machine's own config could not be read: then
\* check 4 compares nothing, and is green over a record that may be stale.
Works(w) ==
    /\ w.vm = "running" /\ w.agent /\ w.mac = w.guest /\ w.mac \in {"A", "B"}
    /\ w.job = "running" \/ w.userd # "none"
    /\ IF Podman(w)
       THEN w.published = "yes" /\ (w.record = "ok" \/ (w.record = "stale" /\ ~w.config))
       ELSE Connects(w, TRUE, FALSE)

Clean ==
    /\ \A c \in {"prereqs", "agent", "auth"} : report[c].status = "ok"
    /\ \A c \in DOMAIN report : report[c].status \notin {"fail", "warn"}

CleanMeansWorking == stage = "done" /\ world = old /\ Clean => Works(world)

-----------------------------------------------------------------------------
(* Why they hold: every part of what was gathered is what one probe read,  *)
(* of the machine as it was when the run began or as it is now, and of the *)
(* two secrets at most one has changed in between.                         *)

Machine ==
    [installed : BOOLEAN, provider : Providers, vm : {"running", "stopped", "unattachable", "missing"},
     others : {0, 1}, shell : BOOLEAN, basics : BOOLEAN, features : {"ok", "warn", "fail"}, oldKernel : BOOLEAN,
     runtime : {"none", "ok", "old"}, agent : BOOLEAN, agentVersion : {"cli", "other", "unknown"},
     bind : SUBSET {"loopback", "vznat", "wildcard"}, published : {"yes", "no", "unknown"},
     record : {"ok", "absent", "stale"}, config : BOOLEAN, routes : SUBSET {"connected", "static", "other"}, carries : BOOLEAN,
     arp : BOOLEAN, gate : BOOLEAN, filter : {"none", "idle", "drops", "dropsCLI"},
     half : {"streams", "starved", "ends"}, fwd : {"none", "control", "wide", "unknown"},
     job : {"running", "none", "unloaded", "stopped"}, binVersion : {"cli", "other"},
     procVersion : {"cli", "other", "schema"}, serves : BOOLEAN, userd : {"none", "target", "other"},
     mac : {"A", "B", "absent", "bad"}, guest : {"A", "B", "absent", "bad", "unreadable"},
     up : SUBSET {"mirror", "sync"}, direct : BOOLEAN, dated : BOOLEAN, ring : SUBSET Refusals,
     log : SUBSET AuthIDs]

Snapshot ==
    [root : BOOLEAN, usable : BOOLEAN, version : {"cli", "other", "schema"}, serves : BOOLEAN, direct : BOOLEAN,
     up : SUBSET {"mirror", "sync"}, dated : BOOLEAN, ring : SUBSET Refusals]

GuestInput ==
    [ran : BOOLEAN, basics : BOOLEAN, features : {"ok", "warn", "fail"}, oldKernel : BOOLEAN,
     runtime : {"none", "ok", "old"}, agent : BOOLEAN, version : {"cli", "other", "unknown"},
     bind : SUBSET {"loopback", "vznat", "wildcard"}, ip : {Blank, "guest"}, published : {"yes", "no", "unknown"},
     secret : {"A", "B", "absent", "bad", "unreadable"}]

Resolution ==
    [ip : {Blank, "guest", "loopback"},
     source : {"none", "unresolved", "vznat-direct", "vznat-leases", "ssh-forwarder", "gvproxy-publish"}]

Inputs ==
    [status : {"none", "running", "unloaded", "stopped"}, binary : {"none", "cli", "other"}, installed : BOOLEAN,
     attachable : Nat, unattachable : Nat, listed : Nat, ref : BOOLEAN,
     skip : {Blank, "root", "ambiguous", "stopped", "unattachable", "missing"}, pod : BOOLEAN,
     unread : SUBSET {"netstat", "sysext"},
     routes : SUBSET {"connected", "static", "other"}, filter : BOOLEAN, snaps : SUBSET Snapshot, guest : GuestInput,
     fwd : {"none", "control", "wide", "unknown"}, res : Resolution, probe : {"skipped", "ok", "fail"}, arp : BOOLEAN,
     record : {"ok", "absent", "stale"}, mac : {"A", "B", "absent", "bad"}, log : SUBSET AuthIDs,
     half : {"skip", "error", "streams", "starved", "ends"}]

DoctorTypeOK ==
    /\ world \in Machine /\ old \in Machine /\ in \in Inputs /\ disturbances \in Nat
    /\ opt \in [euid0 : BOOLEAN, named : BOOLEAN, probe : BOOLEAN]
    /\ stage \in {"begin", "probing", "arp", "mac", "halfclose", "classify", "done", "refused"}
    /\ todo \subseteq Parallel

Begun == stage \notin {"begin", "refused"}

\* The stages after the parallel probes, after the dial, after the Mac's files.
Waited == stage \in {"arp", "mac", "halfclose", "classify", "done"}
Compared == stage \in {"halfclose", "classify", "done"}

OneChange ==
    /\ stage = "begin" => old = world
    /\ old.provider = world.provider /\ (old.mac = world.mac \/ old.guest = world.guest)

\* What is known before the probes go out, and which ones do.
Targeted ==
    Begun =>
        /\ in.status = old.job /\ in.installed = old.installed /\ in.log = old.log
        /\ in.pod <=> in.ref /\ Podman(old)
        /\ opt.euid0 <=> in.skip = "root"
        /\ in.skip = Blank => in.ref
        /\ opt.euid0 => in.ref

\* What one probe brought back, or what was there before it.
ReadBy ==
    /\ stage = "begin" => in = NoInputs
    /\ Begun =>
         /\ "netstat" \notin todo \cup in.unread => \E w \in {old, world} : in.routes = w.routes
         /\ "snapshots" \notin todo => \E w \in {old, world} : in.snaps = Snapshots(w)
         /\ "sysext" \notin todo \cup in.unread => \E w \in {old, world} : in.filter <=> w.filter # "none"
         /\ "guest" \notin todo => in.guest = NoGuest \/ \E w \in {old, world} : in.guest = ParseGuestProbe(w)
         /\ "resolve" \notin todo =>
               (in.res = NoInputs.res /\ in.skip # Blank) \/ \E w \in {old, world} : in.res = resolveTarget(w, opt.euid0)

Dialled ==
    Waited =>
        /\ todo = {}
        /\ \E w \in {old, world} : in.record = podmanInput(w) /\ in.probe = localNetworkInput(w)

Gathered ==
    Compared =>
        \E w \in {old, world} :
            in.mac = macSecretState(w) /\ in.binary = (IF w.job = "none" THEN "none" ELSE w.binVersion)

Judged ==
    /\ stage \in {"classify", "done"} => \E w \in {old, world} : in.half = runProbe(w)
    /\ stage = "done" => report = Classify

DoctorInv == DoctorTypeOK /\ OneChange /\ Targeted /\ ReadBy /\ Dialled /\ Gathered /\ Judged
=============================================================================
