---------------------------- MODULE ReportProofs ----------------------------
(* Proofs about what the user is told: that a doctor report is true of the *)
(* machine it was made on, for any providers and any number of changes of  *)
(* the machine before and one change under the run; that the dashboard     *)
(* shows the run the user waits for, for any number of keys and runs; and  *)
(* that its refusal log is in order and nothing in it goes unseen, for any *)
(* daemons, ring size and log cap.                                         *)
EXTENDS Doctor, Dashboard, FiniteSetTheorems, SequenceTheorems, TLAPS

-----------------------------------------------------------------------------
(* What the probes read. *)

(* A machine of the same provider, of whose two secrets at most one differs.  *)
Near(v, w) == v \in Machine /\ v.provider = w.provider /\ (v.mac = w.mac \/ v.guest = w.guest)

(* One disturbance leaves a machine of the same provider, and of the two   *)
(* secret files it touches one.                                            *)
LEMMA DisturbedOK ==
  ASSUME NEW w \in Machine, NEW v \in Disturbed(w) PROVE Near(v, w)
<1> USE DEF Machine, Near
<1> DEFINE Beside(u) == u \in Machine /\ u.provider = w.provider /\ u.mac = w.mac
<1>0. Beside(Unlisted(w)) /\ Beside(HungUp(w)) /\ \A r \in Rerouted(w) \cup Remade(w) : Beside(r)
  BY DEF Unlisted, HungUp, Rerouted, Remade
<1>1. CASE v \in DisturbedVM(w)
  BY <1>0, <1>1 DEF DisturbedVM
<1>2. CASE v \in DisturbedAgent(w)
  BY <1>0, <1>2 DEF DisturbedAgent
<1>3. CASE v \in DisturbedPath(w)
  BY <1>0, <1>3 DEF DisturbedPath
<1>4. CASE v \in DisturbedMac(w)
  BY <1>4 DEF DisturbedMac
<1>5. CASE v \in DisturbedSessions(w)
  BY <1>5 DEF DisturbedSessions
<1> QED
  BY <1>1, <1>2, <1>3, <1>4, <1>5 DEF Disturbed

(* A run starts from a machine.                                            *)
LEMMA HealthyOK ==
  ASSUME NEW p \in Providers PROVE Healthy(p) \in Machine
  BY DEF Healthy, Machine

(* Gathering starts from empty inputs.                                     *)
LEMMA NoInputsOK == NoInputs \in Inputs /\ NoGuest \in GuestInput
  BY DEF NoInputs, Inputs, NoGuest, GuestInput, Resolution, Blank

(* What a daemon answers on its socket.                                    *)
LEMMA AnswerOK ==
  ASSUME NEW w \in Machine, NEW root \in BOOLEAN, NEW version \in {"cli", "other", "schema"}, NEW serves \in BOOLEAN,
         NEW s, s = answer(w, root, version, serves)
  PROVE  /\ s \in Snapshot
         /\ s.root = root /\ s.version = version /\ s.serves = serves /\ s.usable = (version # "schema")
         /\ s.direct = w.direct /\ s.up = w.up /\ s.dated = w.dated /\ s.ring = w.ring
<1> DEFINE usable == version # "schema"
<1>1. usable \in BOOLEAN
  OBVIOUS
<1>2. s = [root |-> root, usable |-> usable, version |-> version, serves |-> serves,
           direct |-> w.direct, up |-> w.up, dated |-> w.dated, ring |-> w.ring]
  BY DEF answer
<1>3. w.direct \in BOOLEAN /\ w.up \in SUBSET {"mirror", "sync"} /\ w.dated \in BOOLEAN /\ w.ring \in SUBSET Refusals
  BY DEF Machine
<1> HIDE DEF usable
<1>4. s.usable = usable
  BY <1>2
<1>5. s \in Snapshot
  BY <1>1, <1>2, <1>3 DEF Snapshot
<1>6. s.root = root /\ s.version = version /\ s.serves = serves
  BY <1>2
<1>7. s.direct = w.direct /\ s.up = w.up /\ s.dated = w.dated /\ s.ring = w.ring
  BY <1>2
<1> QED
  BY <1>4, <1>5, <1>6, <1>7 DEF usable

(* A snapshot tells what its daemon believes; a root one is of the         *)
(* installed job, the other of a user's daemon.                            *)
LEMMA SnapshotsOK ==
  ASSUME NEW w \in Machine, NEW s \in Snapshots(w)
  PROVE  /\ s \in Snapshot
         /\ s.direct = w.direct /\ s.up = w.up /\ s.dated = w.dated /\ s.ring = w.ring
         /\ s.usable = (s.version # "schema")
         /\ s.root => w.job = "running" /\ s.version = w.procVersion /\ s.serves = w.serves
         /\ ~s.root => w.userd # "none" /\ s.version = "cli"
<1> DEFINE theirs == w.userd = "target"
           yes == TRUE
           no == FALSE
<1>1. w.procVersion \in {"cli", "other", "schema"} /\ w.serves \in BOOLEAN /\ theirs \in BOOLEAN /\ yes \in BOOLEAN /\ no \in BOOLEAN
  BY DEF Machine
<1>2. \/ w.job = "running" /\ s = answer(w, yes, w.procVersion, w.serves)
      \/ w.userd # "none" /\ s = answer(w, no, "cli", theirs)
  BY Zenon DEF Snapshots
<1>3. yes /\ ~no
  OBVIOUS
<1> HIDE DEF theirs, yes, no
<1>4. CASE w.job = "running" /\ s = answer(w, yes, w.procVersion, w.serves)
  <2>1. /\ s \in Snapshot /\ s.root = yes /\ s.version = w.procVersion /\ s.serves = w.serves /\ s.usable = (w.procVersion # "schema")
        /\ s.direct = w.direct /\ s.up = w.up /\ s.dated = w.dated /\ s.ring = w.ring
    BY <1>1, <1>4, AnswerOK
  <2> QED
    BY <1>3, <1>4, <2>1
<1>5. CASE w.userd # "none" /\ s = answer(w, no, "cli", theirs)
  <2>1. /\ s \in Snapshot /\ s.root = no /\ s.version = "cli" /\ s.usable = ("cli" # "schema")
        /\ s.direct = w.direct /\ s.up = w.up /\ s.dated = w.dated /\ s.ring = w.ring
    BY <1>1, <1>5, AnswerOK
  <2> QED
    BY <1>3, <1>5, <2>1
<1> QED
  BY <1>2, <1>4, <1>5

(* The guest script brings back a probe, run or not.                       *)
LEMMA GuestOK == ASSUME NEW w \in Machine PROVE ParseGuestProbe(w) \in GuestInput
  BY DEF ParseGuestProbe, GuestInput, Machine, NoGuest, Blank, Podman

(* A direct address was dialled and answered; no address at all means that *)
(* none answered, and that there is no forwarded port to fall back on.     *)
LEMMA ResolveOK ==
  ASSUME NEW w \in Machine, NEW root \in BOOLEAN
  PROVE  /\ resolveTarget(w, root) \in Resolution /\ resolveTarget(w, root).source # "none"
         /\ resolveTarget(w, root).source \in {"vznat-direct", "vznat-leases"} => Connects(w, root, TRUE)
         /\ resolveTarget(w, root).source = "unresolved" => ~Connects(w, root, TRUE) /\ w.provider # "lima" /\ ~Podman(w)
<1> DEFINE t == [provider |-> w.provider, leaseName |-> "vm", hw |-> Blank]
           leases == [i \in IF w.vm = "missing" THEN {} ELSE {1} |-> [name |-> "vm", ip |-> "guest", hw |-> "hw", expiry |-> 1]]
           shell == IF root \/ w.vm # "running" \/ ~w.shell THEN Blank ELSE "guest"
           answers == IF Connects(w, root, TRUE) THEN {"guest"} ELSE {}
           at == {i \in DOMAIN leases : leaseMatches(leases[i], t)}
           first == {i \in at : \A j \in at : leases[j].ip = leases[i].ip /\ j # i => newer(leases, i, j)}
           up == {i \in leaseCandidatesFrom(leases, t) : leases[i].ip \in answers}
<1>1. CASE Podman(w)
  BY <1>1 DEF resolveTarget, ResolvePodman, Resolution, Podman, Blank
<1>2. CASE ~Podman(w)
  <2>1. resolveTarget(w, root) = ResolveTarget(t, shell, leases, answers)
    BY <1>2 DEF resolveTarget
  <2>2. ASSUME Connects(w, root, TRUE) PROVE up = {1}
    <3>1. DOMAIN leases = {1} /\ leases[1] = [name |-> "vm", ip |-> "guest", hw |-> "hw", expiry |-> 1]
      BY <2>2 DEF Connects
    <3>0. leases[1].ip \in answers
      BY <2>2, <3>1
    <3>2. at = {1}
      BY <3>1 DEF leaseMatches, Blank
    <3>3. first = {1}
      BY <3>2
    <3>4. {j \in first : newer(leases, j, 1)} = {}
      BY <3>1, <3>3 DEF newer
    <3>5. leaseCandidatesFrom(leases, t) = {i \in first : Cardinality({j \in first : newer(leases, j, i)}) < 4}
      BY DEF leaseCandidatesFrom
    <3> HIDE DEF first, leases, answers
    <3>6. leaseCandidatesFrom(leases, t) = {1}
      BY <3>3, <3>4, <3>5, FS_EmptySet
    <3> QED
      BY <3>0, <3>6
  <2>3. up \subseteq {1} /\ \A i \in up : leases[i].ip = "guest"
    BY DEF leaseCandidatesFrom
  <2>4. answers # {} => Connects(w, root, TRUE)
    OBVIOUS
  <2> HIDE DEF up, leases
  <2> DEFINE best == CHOOSE i \in up : \A j \in up : j # i => newer(leases, i, j)
  <2>5. up # {} => best = 1
    BY <2>3
  <2>6. ResolveTarget(t, shell, leases, answers) =
          IF shell # Blank /\ shell \in answers THEN [ip |-> shell, source |-> "vznat-direct"]
          ELSE IF up # {} THEN [ip |-> leases[best].ip, source |-> "vznat-leases"] ELSE fallback(t)
    BY DEF ResolveTarget, up
  <2> HIDE DEF best
  <2>8. shell \in {Blank, "guest"}
    OBVIOUS
  <2>7. leases[best].ip = "guest" \/ up = {}
    BY <2>3, <2>5
  <2> QED
    <3> DEFINE up0 == Connects(w, root, TRUE)
               r == resolveTarget(w, root)
    <3>0. /\ r = IF shell # Blank /\ shell \in answers THEN [ip |-> shell, source |-> "vznat-direct"]
                 ELSE IF up # {} THEN [ip |-> leases[best].ip, source |-> "vznat-leases"] ELSE fallback(t)
          /\ (answers # {} => up0) /\ (up0 => up # {})
      BY <2>1, <2>2, <2>4, <2>6, Zenon
    <3>4. up # {} => answers # {}
      BY DEF up
    <3>5. fallback(t) = IF w.provider = "lima" THEN [ip |-> "loopback", source |-> "ssh-forwarder"]
                        ELSE [ip |-> Blank, source |-> "unresolved"]
      BY DEF fallback
    <3> HIDE DEF answers, shell, leases, up0, r, t
    <3> SUFFICES /\ r \in Resolution /\ r.source # "none"
                 /\ r.source \in {"vznat-direct", "vznat-leases"} => up0
                 /\ r.source = "unresolved" => ~up0 /\ w.provider # "lima"
      BY <1>2, Zenon DEF up0, r
    <3>1. CASE shell # Blank /\ shell \in answers
      BY <3>0, <3>1, <2>8 DEF Resolution
    <3>2. CASE ~(shell # Blank /\ shell \in answers) /\ up # {}
      BY <3>0, <3>2, <3>4, <2>7 DEF Resolution
    <3>3. CASE ~(shell # Blank /\ shell \in answers) /\ up = {}
      BY <3>0, <3>3, <3>5 DEF Resolution, Blank
    <3> QED
      BY <3>1, <3>2, <3>3
<1> QED
  BY <1>1, <1>2

(* Nothing has been gathered at first.                                     *)
LEMMA InitDoctor == DoctorInit => DoctorInv
<1> SUFFICES ASSUME DoctorInit PROVE DoctorInv
  OBVIOUS
<1> USE DEF DoctorInit
<1>1. DoctorTypeOK
  BY HealthyOK, NoInputsOK DEF DoctorTypeOK
<1>2. OneChange
  BY DEF OneChange
<1>3. Targeted /\ ReadBy /\ Dialled /\ Gathered /\ Judged
  BY DEF Targeted, ReadBy, Dialled, Gathered, Judged, Begun, Waited, Compared
<1> QED
  BY <1>1, <1>2, <1>3 DEF DoctorInv

(* Under the run the machine changes once, so what was read of it is what  *)
(* it was when the run began.                                              *)
LEMMA DisturbDoctor == ASSUME DoctorInv, Disturb PROVE DoctorInv'
<1> USE DEF DoctorInv
<1>0. UNCHANGED <<opt, stage, todo, in, report>> /\ world' \in Disturbed(world) /\ stage # "done"
  BY DEF Disturb
<1>1. world \in Machine /\ old \in Machine /\ Near(world', world)
  BY <1>0, DisturbedOK DEF DoctorTypeOK
<1>2. stage = "begin" => old' = world'
  BY DEF Disturb
<1>3. stage # "begin" => old' = old /\ old = world
  BY DEF Disturb
<1>4. DoctorTypeOK'
  BY <1>0, <1>1, <1>2, <1>3 DEF DoctorTypeOK, Disturb, Near
<1>5. OneChange'
  BY <1>0, <1>1, <1>2, <1>3 DEF OneChange, Near
<1>6. Targeted' /\ ReadBy'
  BY <1>0, <1>3 DEF Targeted, ReadBy, Begun
<1>7. Dialled' /\ Gathered' /\ Judged'
  BY <1>0, <1>3 DEF Dialled, Gathered, Judged, Waited, Compared, podmanInput, localNetworkInput, macSecretState, runProbe
<1> QED
  BY <1>4, <1>5, <1>6, <1>7

(* The VM diagnosed: root never asks the guest, and a guest that is asked  *)
(* is the one named.                                                       *)
LEMMA TargetOK ==
  ASSUME NEW w \in Machine, opt \in [euid0 : BOOLEAN, named : BOOLEAN, probe : BOOLEAN],
         NEW t, t = IF opt.euid0 THEN rootTarget(w) ELSE selectTarget(w)
  PROVE  /\ t.skip \in {Blank, "root", "ambiguous", "stopped", "unattachable", "missing"}
         /\ opt.euid0 <=> t.skip = "root"
         /\ t.ref \notin {"other", "default"} => (t.skip = Blank \/ opt.euid0 => t.ref = "ours")
<1>1. CASE opt.euid0
  BY <1>1 DEF rootTarget, Blank
<1>2. CASE ~opt.euid0
  <2>1. CASE opt.named
    BY <1>2, <2>1 DEF selectTarget, Blank, Machine
  <2>2. CASE ~opt.named
    BY <1>2, <2>2 DEF selectTarget, Blank
  <2> QED
    BY <2>1, <2>2
<1> QED
  BY <1>1, <1>2

(* Gather up to the parallel probes.                                       *)
LEMMA BeginDoctor == ASSUME DoctorInv, GatherBegin PROVE DoctorInv'
<1> USE DEF DoctorInv
<1> DEFINE t == IF opt.euid0 THEN rootTarget(world) ELSE selectTarget(world)
           listed == ~opt.euid0
           ref == t.ref = "ours"
           pod == t.ref = "ours" /\ Podman(world)
           l == IF listed THEN 1 ELSE 0
           a == IF listed THEN Attachable(world) ELSE 0
           u == IF listed /\ world.vm = "unattachable" THEN 1 ELSE 0
<1>0. stage = "begin" /\ old' = world /\ UNCHANGED <<world, opt, report, disturbances>>
  BY DEF GatherBegin
<1>1. /\ world \in Machine /\ in = NoInputs /\ opt' = opt /\ in \in Inputs /\ disturbances' \in Nat
      /\ opt \in [euid0 : BOOLEAN, named : BOOLEAN, probe : BOOLEAN] /\ todo \subseteq Parallel
  BY <1>0 DEF DoctorTypeOK, ReadBy
<1>2. OneChange'
  BY <1>0 DEF OneChange
<1>3. CASE t.ref \in {"other", "default"} \/ (t.skip = "missing" /\ ~world.installed)
  <2>1. stage' = "refused" /\ UNCHANGED <<todo, in>>
    BY <1>3 DEF GatherBegin
  <2>2. DoctorTypeOK'
    BY <1>0, <1>1, <2>1 DEF DoctorTypeOK
  <2>3. Targeted' /\ ReadBy' /\ Dialled' /\ Gathered' /\ Judged'
    BY <2>1 DEF Targeted, ReadBy, Dialled, Gathered, Judged, Begun, Waited, Compared
  <2> QED
    BY <1>2, <2>2, <2>3
<1>4. CASE ~(t.ref \in {"other", "default"} \/ (t.skip = "missing" /\ ~world.installed))
  <2>1. /\ stage' = "probing"
        /\ in' = [in EXCEPT !.status = world.job, !.installed = world.installed, !.log = world.log, !.listed = l,
                    !.attachable = a, !.unattachable = u, !.ref = ref, !.skip = t.skip, !.pod = pod]
        /\ todo' = {"netstat", "snapshots", "sysext"}
                   \cup (IF t.skip = Blank THEN {"guest"} ELSE {})
                   \cup (IF t.skip = Blank /\ ~Podman(world) THEN {"forwarding"} ELSE {})
                   \cup (IF t.skip = Blank \/ opt.euid0 THEN {"resolve"} ELSE {})
    BY <1>4, Zenon DEF GatherBegin
  <2>2. /\ t.skip \in {Blank, "root", "ambiguous", "stopped", "unattachable", "missing"}
        /\ opt.euid0 <=> t.skip = "root"
        /\ t.skip = Blank \/ opt.euid0 => t.ref = "ours"
    BY <1>1, <1>4, TargetOK
  <2>3. l \in Nat /\ a \in Nat /\ u \in Nat /\ ref \in BOOLEAN /\ pod \in BOOLEAN /\ (ref <=> t.ref = "ours")
        /\ (pod <=> ref /\ Podman(world))
    BY <1>1 DEF Attachable, Machine
  <2>4. /\ world.job \in {"none", "running", "unloaded", "stopped"} /\ world.installed \in BOOLEAN
        /\ world.log \in SUBSET AuthIDs
    BY <1>1 DEF Machine
  <2> HIDE DEF t, l, a, u, ref, pod
  <2>5. /\ in' \in Inputs /\ in'.status = world.job /\ in'.installed = world.installed /\ in'.log = world.log
        /\ in'.ref = ref /\ in'.skip = t.skip /\ in'.pod = pod /\ in'.guest = in.guest /\ in'.res = in.res
    <3> DEFINE skip == t.skip
               job == world.job
               inst == world.installed
               lg == world.log
               n == in
               m == in'
    <3>1. /\ n \in Inputs /\ job \in {"none", "running", "unloaded", "stopped"} /\ inst \in BOOLEAN
          /\ lg \in SUBSET AuthIDs /\ a \in Nat /\ u \in Nat /\ l \in Nat /\ ref \in BOOLEAN
          /\ skip \in {Blank, "root", "ambiguous", "stopped", "unattachable", "missing"} /\ pod \in BOOLEAN
      BY <1>1, <2>2, <2>3, <2>4
    <3>2. m = [n EXCEPT !.status = job, !.installed = inst, !.log = lg, !.listed = l,
                 !.attachable = a, !.unattachable = u, !.ref = ref, !.skip = skip, !.pod = pod]
      BY <2>1
    <3> HIDE DEF skip, job, inst, lg, n, m
    <3> DEFINE x == [n EXCEPT !.status = job, !.installed = inst, !.log = lg]
               y == [x EXCEPT !.listed = l, !.attachable = a, !.unattachable = u]
               z == [y EXCEPT !.ref = ref, !.skip = skip]
               v == [z EXCEPT !.pod = pod]
    <3>4. m = v
      BY <3>2
    <3>5. /\ m.status = job /\ m.installed = inst /\ m.log = lg /\ m.ref = ref /\ m.skip = skip /\ m.pod = pod
          /\ m.guest = n.guest /\ m.res = n.res
      BY <3>1, <3>2 DEF Inputs
    <3>6. x \in Inputs
      BY <3>1 DEF Inputs
    <3> HIDE DEF x
    <3>7. y \in Inputs
      BY <3>1, <3>6 DEF Inputs
    <3> HIDE DEF y
    <3>8. z \in Inputs
      BY <3>1, <3>7 DEF Inputs
    <3> HIDE DEF z
    <3>9. v \in Inputs
      BY <3>1, <3>8 DEF Inputs
    <3> HIDE DEF v
    <3>3. /\ m \in Inputs
          /\ m.status = job /\ m.installed = inst /\ m.log = lg /\ m.ref = ref /\ m.skip = skip /\ m.pod = pod
          /\ m.guest = n.guest /\ m.res = n.res
      BY <3>4, <3>5, <3>9
    <3> QED
      BY <3>3, Zenon DEF skip, job, inst, lg, n, m
  <2>6. DoctorTypeOK'
    BY <1>0, <1>1, <2>1, <2>5 DEF DoctorTypeOK, Parallel
  <2>7. Targeted'
    BY <1>0, <2>2, <2>3, <2>5 DEF Targeted
  <2>8. in'.guest = NoGuest /\ in'.res = NoInputs.res
    BY <1>1, <2>5 DEF NoInputs
  <2>9. ReadBy'
    BY <2>1, <2>5, <2>8 DEF ReadBy
  <2>10. Dialled' /\ Gathered' /\ Judged'
    BY <2>1 DEF Dialled, Gathered, Judged, Waited, Compared
  <2> QED
    BY <1>2, <2>6, <2>7, <2>9, <2>10
<1> QED
  BY <1>3, <1>4

(* The parts of the invariant that only read what was known before.        *)
LEMMA KeepTarget ==
  ASSUME DoctorInv, UNCHANGED <<world, opt, old, disturbances>>, Begun, Begun', stage # "begin",
         in' \in Inputs, todo' \subseteq todo, stage' \in {"probing", "arp", "mac", "halfclose", "classify", "done"},
         in'.status = in.status, in'.installed = in.installed, in'.log = in.log, in'.pod = in.pod,
         in'.skip = in.skip, in'.ref = in.ref
  PROVE  DoctorTypeOK' /\ OneChange' /\ Targeted'
<1>1. DoctorTypeOK'
  BY DEF DoctorInv, DoctorTypeOK
<1>2. OneChange'
  BY DEF DoctorInv, OneChange, Begun
<1>3. Targeted'
  BY DEF DoctorInv, Targeted, Begun
<1> QED
  BY <1>1, <1>2, <1>3

(* A probe that writes one thing leaves the others as they were.           *)
LEMMA ProbeDoctor == ASSUME DoctorInv, NEW p \in Parallel, GatherProbe(p) PROVE DoctorInv'
<1> USE DEF DoctorInv
<1>0. /\ stage = "probing" /\ stage' = stage /\ p \in todo /\ todo' = todo \ {p} /\ (in' = Seen(p) \/ Unread(p))
      /\ UNCHANGED <<world, opt, report, old, disturbances>>
  BY DEF GatherProbe
<1>1. in \in Inputs /\ world \in Machine /\ old \in Machine /\ opt.euid0 \in BOOLEAN
  BY DEF DoctorTypeOK
<1>2. Begun /\ Begun' /\ Dialled' /\ Gathered' /\ Judged'
  BY <1>0 DEF Dialled, Gathered, Judged, Waited, Compared, Begun
<1>3. ASSUME in' \in Inputs, ReadBy',
             in'.status = in.status, in'.installed = in.installed, in'.log = in.log, in'.pod = in.pod,
             in'.skip = in.skip, in'.ref = in.ref
      PROVE  DoctorInv'
  BY <1>0, <1>2, <1>3, KeepTarget
<1>4. CASE p = "netstat" /\ in' = Seen(p)
  <2>1. in' = [in EXCEPT !.routes = world.routes]
    BY <1>0, <1>4 DEF Seen
  <2>2. /\ in' \in Inputs /\ in'.routes = world.routes
        /\ in'.status = in.status /\ in'.installed = in.installed /\ in'.log = in.log /\ in'.pod = in.pod
        /\ in'.skip = in.skip /\ in'.ref = in.ref /\ in'.unread = in.unread /\ in'.snaps = in.snaps /\ in'.filter = in.filter
        /\ in'.guest = in.guest /\ in'.res = in.res
    BY <1>1, <2>1 DEF Inputs, Machine
  <2>3. ReadBy'
    BY <1>0, <1>2, <1>4, <2>2 DEF ReadBy
  <2> QED
    BY <1>3, <2>2, <2>3
<1>5. CASE p = "snapshots" /\ in' = Seen(p)
  <2>1. in' = [in EXCEPT !.snaps = Snapshots(world)]
    BY <1>0, <1>5 DEF Seen
  <2>2. /\ in' \in Inputs /\ in'.snaps = Snapshots(world)
        /\ in'.status = in.status /\ in'.installed = in.installed /\ in'.log = in.log /\ in'.pod = in.pod
        /\ in'.skip = in.skip /\ in'.ref = in.ref /\ in'.unread = in.unread /\ in'.routes = in.routes /\ in'.filter = in.filter
        /\ in'.guest = in.guest /\ in'.res = in.res
    BY <1>1, <2>1, SnapshotsOK DEF Inputs
  <2>3. ReadBy'
    BY <1>0, <1>2, <1>5, <2>2 DEF ReadBy
  <2> QED
    BY <1>3, <2>2, <2>3
<1>6. CASE p = "sysext" /\ in' = Seen(p)
  <2> DEFINE f == world.filter # "none"
  <2>1. in' = [in EXCEPT !.filter = f] /\ f \in BOOLEAN /\ (f <=> world.filter # "none")
    BY <1>0, <1>6 DEF Seen
  <2> HIDE DEF f
  <2>2. /\ in' \in Inputs /\ in'.filter = f
        /\ in'.status = in.status /\ in'.installed = in.installed /\ in'.log = in.log /\ in'.pod = in.pod
        /\ in'.skip = in.skip /\ in'.ref = in.ref /\ in'.unread = in.unread /\ in'.routes = in.routes /\ in'.snaps = in.snaps
        /\ in'.guest = in.guest /\ in'.res = in.res
    BY <1>1, <2>1 DEF Inputs
  <2>3. ReadBy'
    BY <1>0, <1>2, <1>6, <2>1, <2>2 DEF ReadBy
  <2> QED
    BY <1>3, <2>2, <2>3
<1>7. CASE p = "guest" /\ in' = Seen(p)
  <2> DEFINE g == ParseGuestProbe(world)
             f == IF in.pod THEN podmanForwarding(world) ELSE in.fwd
  <2>1. in' = [in EXCEPT !.guest = g, !.fwd = f]
    BY <1>0, <1>7 DEF Seen
  <2>2. g \in GuestInput
    BY <1>1, GuestOK
  <2>3. f \in {"none", "control", "wide", "unknown"}
    BY <1>1 DEF podmanForwarding, Inputs
  <2> HIDE DEF g, f
  <2>4. /\ in' \in Inputs /\ in'.guest = g
        /\ in'.status = in.status /\ in'.installed = in.installed /\ in'.log = in.log /\ in'.pod = in.pod
        /\ in'.skip = in.skip /\ in'.ref = in.ref /\ in'.unread = in.unread /\ in'.routes = in.routes /\ in'.snaps = in.snaps
        /\ in'.filter = in.filter /\ in'.res = in.res
    BY <1>1, <2>1, <2>2, <2>3 DEF Inputs
  <2>5. in'.guest = ParseGuestProbe(world)
    BY <2>4 DEF g
  <2>6. ReadBy'
    BY <1>0, <1>2, <1>7, <2>4, <2>5 DEF ReadBy
  <2> QED
    BY <1>3, <2>4, <2>6
<1>8. CASE p = "forwarding" /\ in' = Seen(p)
  <2>1. in' = [in EXCEPT !.fwd = world.fwd]
    BY <1>0, <1>8 DEF Seen
  <2>2. /\ in' \in Inputs
        /\ in'.status = in.status /\ in'.installed = in.installed /\ in'.log = in.log /\ in'.pod = in.pod
        /\ in'.skip = in.skip /\ in'.ref = in.ref /\ in'.unread = in.unread /\ in'.routes = in.routes /\ in'.snaps = in.snaps
        /\ in'.filter = in.filter /\ in'.guest = in.guest /\ in'.res = in.res
    BY <1>1, <2>1 DEF Inputs, Machine
  <2>3. ReadBy'
    BY <1>0, <1>2, <1>8, <2>2 DEF ReadBy
  <2> QED
    BY <1>3, <2>2, <2>3
<1>9. CASE p = "resolve" /\ in' = Seen(p)
  <2> DEFINE r == resolveTarget(world, opt.euid0)
  <2>1. in' = [in EXCEPT !.res = r]
    BY <1>0, <1>9 DEF Seen
  <2>2. r \in Resolution
    BY <1>1, ResolveOK
  <2> HIDE DEF r
  <2>3. /\ in' \in Inputs /\ in'.res = r
        /\ in'.status = in.status /\ in'.installed = in.installed /\ in'.log = in.log /\ in'.pod = in.pod
        /\ in'.skip = in.skip /\ in'.ref = in.ref /\ in'.unread = in.unread /\ in'.routes = in.routes /\ in'.snaps = in.snaps
        /\ in'.filter = in.filter /\ in'.guest = in.guest
    BY <1>1, <2>1, <2>2 DEF Inputs
  <2>4. in'.res = resolveTarget(world', opt'.euid0)
    BY <1>0, <2>3 DEF r
  <2>5. ReadBy'
    BY <1>0, <1>2, <1>9, <2>3, <2>4 DEF ReadBy
  <2> QED
    BY <1>3, <2>3, <2>5
<1>10. CASE Unread(p)
  <2>1. p \in {"netstat", "sysext"} /\ in' = [in EXCEPT !.unread = in.unread \cup {p}]
    BY <1>10 DEF Unread
  <2>2. in.unread \cup {p} \in SUBSET {"netstat", "sysext"}
    BY <1>1, <2>1 DEF Inputs
  <2>3. /\ in' \in Inputs /\ in'.unread = in.unread \cup {p}
        /\ in'.status = in.status /\ in'.installed = in.installed /\ in'.log = in.log /\ in'.pod = in.pod
        /\ in'.skip = in.skip /\ in'.ref = in.ref /\ in'.routes = in.routes /\ in'.snaps = in.snaps
        /\ in'.filter = in.filter /\ in'.guest = in.guest /\ in'.res = in.res
    BY <1>1, <2>1, <2>2 DEF Inputs
  <2>4. ReadBy'
    BY <1>0, <1>2, <2>1, <2>3 DEF ReadBy
  <2> QED
    BY <1>3, <2>3, <2>4
<1> QED
  BY <1>0, <1>4, <1>5, <1>6, <1>7, <1>8, <1>9, <1>10 DEF Parallel

(* The dial and the record are of one moment, after the probes.            *)
LEMMA LocalNetworkDoctor == ASSUME DoctorInv, GatherLocalNetwork PROVE DoctorInv'
<1> USE DEF DoctorInv
<1> DEFINE r == podmanInput(world)
           d == localNetworkInput(world)
<1>0. /\ stage = "probing" /\ stage' = "arp" /\ todo = {} /\ todo' = todo /\ in' = [in EXCEPT !.record = r, !.probe = d]
      /\ UNCHANGED <<world, opt, report, old, disturbances>>
  BY DEF GatherLocalNetwork
<1>1. in \in Inputs /\ world \in Machine /\ r \in {"ok", "absent", "stale"} /\ d \in {"skipped", "ok", "fail"}
  BY DEF DoctorTypeOK, podmanInput, localNetworkInput, Machine
<1>2. Begun /\ Begun' /\ Gathered' /\ Judged'
  BY <1>0 DEF Begun, Gathered, Judged, Compared
<1> HIDE DEF r, d
<1>3. /\ in' \in Inputs /\ in'.record = r /\ in'.probe = d
      /\ in'.status = in.status /\ in'.installed = in.installed /\ in'.log = in.log /\ in'.pod = in.pod
      /\ in'.skip = in.skip /\ in'.ref = in.ref /\ in'.unread = in.unread /\ in'.routes = in.routes /\ in'.snaps = in.snaps
      /\ in'.filter = in.filter /\ in'.guest = in.guest /\ in'.res = in.res
  BY <1>0, <1>1 DEF Inputs
<1>4. DoctorTypeOK' /\ OneChange' /\ Targeted'
  BY <1>0, <1>2, <1>3, KeepTarget
<1>5. ReadBy'
  BY <1>0, <1>2, <1>3 DEF ReadBy
<1>6. podmanInput(world)' = r /\ localNetworkInput(world)' = d
  BY <1>0, <1>3 DEF r, d, podmanInput, localNetworkInput
<1>7. Dialled'
  BY <1>0, <1>3, <1>6 DEF Dialled
<1> QED
  BY <1>2, <1>4, <1>5, <1>7

(* What was dialled stays what was dialled.                                *)
LEMMA KeepDialled ==
  ASSUME DoctorInv, UNCHANGED <<world, opt, old, todo>>, Waited, stage' # "begin", in'.pod = in.pod, in'.skip = in.skip, in'.guest = in.guest, in'.res = in.res,
         in'.record = in.record, in'.probe = in.probe, in'.unread = in.unread, in'.routes = in.routes, in'.snaps = in.snaps, in'.filter = in.filter
  PROVE  Dialled' /\ ReadBy'
<1>1. \A w : podmanInput(w)' = podmanInput(w) /\ localNetworkInput(w)' = localNetworkInput(w)
  BY DEF podmanInput, localNetworkInput
<1>2. Dialled'
  BY <1>1 DEF DoctorInv, Dialled
<1>3. ReadBy'
  BY DEF DoctorInv, ReadBy, Waited, Begun
<1> QED
  BY <1>2, <1>3

(* The ARP probe.                                                          *)
LEMMA ARPDoctor == ASSUME DoctorInv, GatherARP PROVE DoctorInv'
<1> USE DEF DoctorInv
<1>0. /\ stage = "arp" /\ stage' = "mac" /\ in' = [in EXCEPT !.arp = world.arp]
      /\ UNCHANGED <<world, opt, todo, report, old, disturbances>>
  BY DEF GatherARP
<1>1. in \in Inputs /\ world.arp \in BOOLEAN
  BY DEF DoctorTypeOK, Machine
<1>2. Begun /\ Begun' /\ Waited /\ Waited' /\ Gathered' /\ Judged'
  BY <1>0 DEF Begun, Waited, Gathered, Judged, Compared
<1>3. /\ in' \in Inputs /\ in'.record = in.record /\ in'.probe = in.probe
      /\ in'.status = in.status /\ in'.installed = in.installed /\ in'.log = in.log /\ in'.pod = in.pod
      /\ in'.skip = in.skip /\ in'.ref = in.ref /\ in'.unread = in.unread /\ in'.routes = in.routes /\ in'.snaps = in.snaps
      /\ in'.filter = in.filter /\ in'.guest = in.guest /\ in'.res = in.res
  BY <1>0, <1>1 DEF Inputs
<1>4. DoctorTypeOK' /\ OneChange' /\ Targeted'
  BY <1>0, <1>2, <1>3, KeepTarget
<1>5. ReadBy' /\ Dialled'
  BY <1>0, <1>2, <1>3, KeepDialled
<1> QED
  BY <1>2, <1>4, <1>5

(* The Mac's own files are read late, of the machine as it is then.        *)
LEMMA MacDoctor == ASSUME DoctorInv, GatherMac PROVE DoctorInv'
<1> USE DEF DoctorInv
<1> DEFINE b == IF world.job = "none" THEN "none" ELSE world.binVersion
           m == macSecretState(world)
<1>0. /\ stage = "mac" /\ stage' = "halfclose" /\ in' = [in EXCEPT !.binary = b, !.mac = m]
      /\ UNCHANGED <<world, opt, todo, report, old, disturbances>>
  BY DEF GatherMac
<1>1. in \in Inputs /\ b \in {"none", "cli", "other"} /\ m \in {"A", "B", "absent", "bad"}
  BY DEF DoctorTypeOK, Machine, macSecretState
<1>2. Begun /\ Begun' /\ Waited /\ Waited' /\ Judged'
  BY <1>0 DEF Begun, Waited, Judged
<1> HIDE DEF b, m
<1>3. /\ in'.record = in.record /\ in'.probe = in.probe /\ in'.binary = b /\ in'.mac = m
      /\ in'.status = in.status /\ in'.installed = in.installed /\ in'.log = in.log /\ in'.pod = in.pod
      /\ in'.skip = in.skip /\ in'.ref = in.ref /\ in'.unread = in.unread /\ in'.routes = in.routes /\ in'.snaps = in.snaps
      /\ in'.filter = in.filter /\ in'.guest = in.guest /\ in'.res = in.res
  BY <1>0, <1>1 DEF Inputs
<1>9. in' \in Inputs
  <2> DEFINE x == [in EXCEPT !.binary = b]
  <2>1. in' = [x EXCEPT !.mac = m]
    BY <1>0
  <2>2. x \in Inputs
    BY <1>1 DEF Inputs
  <2> HIDE DEF x
  <2> QED
    BY <1>1, <2>1, <2>2 DEF Inputs
<1>4. DoctorTypeOK' /\ OneChange' /\ Targeted'
  BY <1>0, <1>2, <1>3, <1>9, KeepTarget
<1>5. ReadBy' /\ Dialled'
  BY <1>0, <1>2, <1>3, KeepDialled
<1>6. macSecretState(world)' = m
  BY <1>0, <1>3 DEF m, macSecretState
<1>7. Gathered'
  BY <1>0, <1>3, <1>6 DEF Gathered, b
<1> QED
  BY <1>2, <1>4, <1>5, <1>7

(* What was read of the Mac's files stays what was read.                   *)
LEMMA KeepGathered ==
  ASSUME DoctorInv, UNCHANGED <<world, opt, old>>, Compared, in'.ref = in.ref, in'.mac = in.mac, in'.binary = in.binary
  PROVE  Gathered'
<1>1. \A w : macSecretState(w)' = macSecretState(w)
  BY DEF macSecretState
<1> QED
  BY <1>1 DEF DoctorInv, Gathered

(* The half-close probe.                                                   *)
LEMMA HalfCloseDoctor == ASSUME DoctorInv, GatherHalfClose PROVE DoctorInv'
<1> USE DEF DoctorInv
<1> DEFINE h == runProbe(world)
<1>0. /\ stage = "halfclose" /\ stage' = "classify" /\ in' = [in EXCEPT !.half = h]
      /\ UNCHANGED <<world, opt, todo, report, old, disturbances>>
  BY DEF GatherHalfClose
<1>1. in \in Inputs
  BY DEF DoctorTypeOK
<1>8. h \in {"skip", "error", "streams", "starved", "ends"}
  BY DEF DoctorTypeOK, Machine, runProbe
<1>2. Begun /\ Begun' /\ Waited /\ Waited' /\ Compared /\ Compared'
  BY <1>0 DEF Begun, Waited, Compared
<1> HIDE DEF h
<1>3. /\ in' \in Inputs /\ in'.record = in.record /\ in'.probe = in.probe /\ in'.binary = in.binary /\ in'.mac = in.mac
      /\ in'.half = h
      /\ in'.status = in.status /\ in'.installed = in.installed /\ in'.log = in.log /\ in'.pod = in.pod
      /\ in'.skip = in.skip /\ in'.ref = in.ref /\ in'.unread = in.unread /\ in'.routes = in.routes /\ in'.snaps = in.snaps
      /\ in'.filter = in.filter /\ in'.guest = in.guest /\ in'.res = in.res
  BY <1>0, <1>1, <1>8 DEF Inputs
<1>4. DoctorTypeOK' /\ OneChange' /\ Targeted'
  BY <1>0, <1>2, <1>3, KeepTarget
<1>5. ReadBy' /\ Dialled' /\ Gathered'
  BY <1>0, <1>2, <1>3, KeepDialled, KeepGathered
<1>6. runProbe(world)' = h
  BY <1>0, <1>3 DEF h, runProbe
<1>7. Judged'
  BY <1>0, <1>3, <1>6 DEF Judged
<1> QED
  BY <1>4, <1>5, <1>7

(* The checks see nothing but what was gathered.                           *)
LEMMA SameClassify == ASSUME UNCHANGED <<in, opt>> PROVE Classify' = Classify
<1>1. CheckProviders' = CheckProviders
  BY Zenon DEF CheckProviders
<1>2. CheckGuestPrereqs' = CheckGuestPrereqs
  BY Zenon DEF CheckGuestPrereqs
<1>3. CheckAgent' = CheckAgent
  BY Zenon DEF CheckAgent
<1>4. CheckResolution' = CheckResolution
  <2>1. podmanResolutionEvidence' = podmanResolutionEvidence
    BY DEF podmanResolutionEvidence
  <2> QED
    BY <2>1 DEF CheckResolution
<1>5. CheckVZNATRoute' = CheckVZNATRoute
  BY Zenon DEF CheckVZNATRoute
<1>6. CheckLocalNetwork' = CheckLocalNetwork
  BY Zenon DEF CheckLocalNetwork
<1>7. CheckNEFilter' = CheckNEFilter
  BY Zenon DEF CheckNEFilter
<1>8. CheckHalfClose' = CheckHalfClose
  BY Zenon DEF CheckHalfClose
<1>9. CheckDaemon' = CheckDaemon
  BY Zenon DEF CheckDaemon, snapshotVersionSkew, fightingDaemons, liveSnapshot
<1>10. CheckCoexistence' = CheckCoexistence
  BY Zenon DEF CheckCoexistence, checkPodmanCoexistence
<1>11. CheckSkipVisibility' = CheckSkipVisibility
  BY Zenon DEF CheckSkipVisibility
<1>15. \A ids : splitStale(ids)' = splitStale(ids)
  BY Zenon DEF splitStale, MatchAuthLog
<1>12. checkAuthFilePerms' = checkAuthFilePerms
  BY <1>15, Zenon DEF checkAuthFilePerms
<1>13. primaryAuthFinding' = primaryAuthFinding
  BY Zenon DEF primaryAuthFinding
<1>14. checkWrongPeer' = checkWrongPeer
  BY <1>15, Zenon DEF checkWrongPeer
<1> QED
  BY <1>1, <1>2, <1>3, <1>4, <1>5, <1>6, <1>7, <1>8, <1>9, <1>10, <1>11, <1>12, <1>13, <1>14, Zenon DEF Classify, CheckAuth

(* The report is of what was gathered.                                     *)
LEMMA ReportDoctor == ASSUME DoctorInv, Report PROVE DoctorInv'
<1> USE DEF DoctorInv
<1>0. /\ stage = "classify" /\ stage' = "done" /\ report' = Classify
      /\ UNCHANGED <<world, opt, todo, in, old, disturbances>>
  BY DEF Report
<1>1. DoctorTypeOK' /\ OneChange' /\ Targeted'
  BY <1>0, KeepTarget DEF Begun, DoctorTypeOK
<1>2. ReadBy' /\ Dialled' /\ Gathered'
  BY <1>0, KeepDialled, KeepGathered DEF Waited, Compared
<1>3. \A w : runProbe(w)' = runProbe(w)
  BY <1>0 DEF runProbe
<1>4. Classify' = Classify
  BY <1>0, SameClassify
<1>5. Judged'
  BY <1>0, <1>3, <1>4 DEF Judged
<1> QED
  BY <1>1, <1>2, <1>5

(* Nothing happens.                                                        *)
LEMMA StutterDoctor == ASSUME DoctorInv, UNCHANGED doctorVars PROVE DoctorInv'
<1> USE DEF doctorVars, DoctorInv
<1>1. DoctorTypeOK' /\ OneChange' /\ Targeted' /\ ReadBy'
  BY DEF DoctorTypeOK, OneChange, Targeted, ReadBy, Begun
<1>2. Dialled' /\ Gathered'
  BY DEF Dialled, Gathered, Waited, Compared, podmanInput, localNetworkInput, macSecretState
<1>3. \A w : runProbe(w)' = runProbe(w)
  BY DEF runProbe
<1>4. Classify' = Classify
  BY SameClassify
<1>5. Judged'
  BY <1>3, <1>4 DEF Judged
<1> QED
  BY <1>1, <1>2, <1>5

(* Whatever happens to the machine while it is diagnosed.                  *)
THEOREM DoctorInvariance == DoctorSpec => []DoctorInv
<1>1. DoctorInit => DoctorInv
  BY InitDoctor
<1>2. DoctorInv /\ [DoctorNext]_doctorVars => DoctorInv'
  <2> SUFFICES ASSUME DoctorInv, [DoctorNext]_doctorVars PROVE DoctorInv'
    OBVIOUS
  <2>1. CASE DoctorNext
    BY <2>1, DisturbDoctor, BeginDoctor, ProbeDoctor, LocalNetworkDoctor, ARPDoctor, MacDoctor, HalfCloseDoctor,
       ReportDoctor DEF DoctorNext
  <2>2. CASE UNCHANGED doctorVars
    BY <2>2, StutterDoctor
  <2> QED
    BY <2>1, <2>2
<1> QED
  BY <1>1, <1>2, PTL DEF DoctorSpec

-----------------------------------------------------------------------------
(* What the report says. *)

(* What the probes brought back, once the report is out.                   *)
LEMMA Brought ==
  ASSUME DoctorInv, stage = "done"
  PROVE  /\ old \in Machine /\ world \in Machine /\ in \in Inputs /\ opt.euid0 \in BOOLEAN /\ report = Classify
         /\ "netstat" \in in.unread \/ \E w \in {old, world} : in.routes = w.routes
         /\ \E w \in {old, world} : in.snaps = Snapshots(w)
         /\ "sysext" \in in.unread \/ \E w \in {old, world} : in.filter <=> w.filter # "none"
         /\ in.guest = NoGuest \/ \E w \in {old, world} : in.guest = ParseGuestProbe(w)
         /\ (in.res = NoInputs.res /\ in.skip # Blank) \/ \E w \in {old, world} : in.res = resolveTarget(w, opt.euid0)
         /\ \E w \in {old, world} : in.record = podmanInput(w) /\ in.probe = localNetworkInput(w)
         /\ \E w \in {old, world} : in.mac = macSecretState(w) /\ in.binary = (IF w.job = "none" THEN "none" ELSE w.binVersion)
         /\ \E w \in {old, world} : in.half = runProbe(w)
<1> USE DEF DoctorInv
<1>1. todo = {}
  BY DEF Dialled, Waited
<1>2. old \in Machine /\ world \in Machine /\ in \in Inputs /\ opt.euid0 \in BOOLEAN /\ report = Classify
  BY DEF DoctorTypeOK, Judged
<1>3. /\ "netstat" \in in.unread \/ \E w \in {old, world} : in.routes = w.routes
      /\ \E w \in {old, world} : in.snaps = Snapshots(w)
      /\ "sysext" \in in.unread \/ \E w \in {old, world} : in.filter <=> w.filter # "none"
  BY <1>1 DEF ReadBy, Begun
<1>4. /\ in.guest = NoGuest \/ \E w \in {old, world} : in.guest = ParseGuestProbe(w)
      /\ (in.res = NoInputs.res /\ in.skip # Blank) \/ \E w \in {old, world} : in.res = resolveTarget(w, opt.euid0)
  BY <1>1 DEF ReadBy, Begun
<1>5. /\ \E w \in {old, world} : in.record = podmanInput(w) /\ in.probe = localNetworkInput(w)
      /\ \E w \in {old, world} : in.mac = macSecretState(w) /\ in.binary = (IF w.job = "none" THEN "none" ELSE w.binVersion)
      /\ \E w \in {old, world} : in.half = runProbe(w)
  BY DEF Dialled, Gathered, Judged, Waited, Compared
<1> QED
  BY <1>2, <1>3, <1>4, <1>5

(* The snapshot the checks look at is one of a daemon, or none.            *)
LEMMA MatchedOK ==
  ASSUME NEW w \in Machine, NEW ref \in BOOLEAN, NEW s, s = matchSnapshot(Snapshots(w), ref)
  PROVE  \/ s = NoSnapshot
         \/ s \in Snapshots(w) /\ s.usable /\ s.serves
<1> DEFINE fits == {r \in Snapshots(w) : r.usable /\ r.serves}
<1>1. CASE ref /\ fits # {}
  <2>1. \E r \in fits : r.root \/ \A q \in fits : ~q.root
    BY <1>1
  <2>2. s \in fits
    BY <1>1, <2>1 DEF matchSnapshot
  <2> QED
    BY <2>2
<1>2. CASE ~(ref /\ fits # {})
  BY <1>2 DEF matchSnapshot
<1> QED
  BY <1>1, <1>2

(* A probe that did not run says nothing; one that did read the guest.     *)
LEMMA GuestRead ==
  ASSUME NEW w \in Machine, ParseGuestProbe(w).ran
  PROVE  LET g == ParseGuestProbe(w)
         IN  /\ w.vm = "running" /\ w.shell /\ g.basics = w.basics /\ g.features = w.features
             /\ g.agent = w.agent /\ g.version = w.agentVersion /\ g.bind = (IF w.agent THEN w.bind ELSE {})
             /\ g.ip = (IF Podman(w) THEN Blank ELSE "guest") /\ g.published = w.published /\ g.secret = w.guest
  BY DEF ParseGuestProbe, NoGuest

(* The checks of a report.                                                 *)
LEMMA ReportShape ==
  ASSUME report = Classify
  PROVE  /\ DOMAIN report = {"providers", "prereqs", "agent", "resolution", "route", "localnet", "nefilter", "halfclose", "daemon", "coexistence", "skip", "perms", "auth", "peer"}
         /\ report["providers"] = CheckProviders
         /\ report["prereqs"] = CheckGuestPrereqs
         /\ report["agent"] = CheckAgent
         /\ report["resolution"] = CheckResolution
         /\ report["route"] = CheckVZNATRoute
         /\ report["localnet"] = CheckLocalNetwork
         /\ report["nefilter"] = CheckNEFilter
         /\ report["halfclose"] = CheckHalfClose
         /\ report["daemon"] = CheckDaemon
         /\ report["coexistence"] = CheckCoexistence
         /\ report["skip"] = CheckSkipVisibility
         /\ report["perms"] = checkAuthFilePerms
         /\ report["auth"] = primaryAuthFinding
         /\ report["peer"] = checkWrongPeer
  BY DEF Classify, CheckAuth

(* What counts as a cause of a failed check.                               *)
LEMMA Causes ==
  ASSUME NEW w
  PROVE  /\ Cause("providers", w) = ~w.installed
         /\ Cause("prereqs", w) = (~w.basics \/ w.features = "fail")
         /\ Cause("agent", w) = (~w.agent \/ w.agentVersion = "other" \/ w.bind = {} \/ (Podman(w) /\ w.published = "no"))
         /\ Cause("resolution", w) = IF Podman(w) THEN w.record = "stale" ELSE ~Connects(w, opt.euid0, TRUE) /\ w.provider # "lima"
         /\ Cause("route", w) = ("connected" \notin w.routes)
         /\ Cause("localnet", w) = ~Connects(w, opt.euid0, TRUE)
         /\ Cause("halfclose", w) = (w.half = "starved")
         /\ Cause("daemon", w) = (w.binVersion = "other" \/ w.procVersion # "cli")
         /\ Cause("auth", w) = (w.mac # w.guest \/ w.mac = "bad")
  BY DEF Cause

(* Each check but the three on authentication: what it failed on is what   *)
(* one probe read.                                                         *)
LEMMA FailCauses ==
  ASSUME DoctorInv, stage = "done"
  PROVE  /\ CheckProviders.status = "fail" => \E w \in {old, world} : Cause("providers", w)
         /\ CheckGuestPrereqs.status = "fail" => \E w \in {old, world} : Cause("prereqs", w)
         /\ CheckAgent.status = "fail" => \E w \in {old, world} : Cause("agent", w)
         /\ CheckResolution.status = "fail" => \E w \in {old, world} : Cause("resolution", w)
         /\ CheckVZNATRoute.status = "fail" => \E w \in {old, world} : Cause("route", w)
         /\ CheckLocalNetwork.status = "fail" => \E w \in {old, world} : Cause("localnet", w)
         /\ CheckHalfClose.status = "fail" => \E w \in {old, world} : Cause("halfclose", w)
         /\ CheckDaemon.status = "fail" => \E w \in {old, world} : Cause("daemon", w)
<1> USE Brought
<1>0. Begun
  BY DEF Begun
<1>1. ASSUME CheckProviders.status = "fail" PROVE \E w \in {old, world} : Cause("providers", w)
  <2>1. ~in.installed
    BY <1>1 DEF CheckProviders, Finding
  <2>2. in.installed = old.installed
    BY <1>0 DEF DoctorInv, Targeted
  <2> QED
    BY <2>1, <2>2, Causes
<1>2. ASSUME CheckGuestPrereqs.status = "fail" PROVE \E w \in {old, world} : Cause("prereqs", w)
  <2>1. in.guest.ran /\ (~in.guest.basics \/ in.guest.features = "fail")
    BY <1>2 DEF CheckGuestPrereqs, Finding
  <2>2. PICK w \in {old, world} : in.guest = ParseGuestProbe(w)
    BY <2>1 DEF NoGuest
  <2>3. w \in Machine
    OBVIOUS
  <2>4. ~w.basics \/ w.features = "fail"
    BY <2>1, <2>2, <2>3, GuestRead
  <2> QED
    BY <2>2, <2>4, Causes
<1>3. ASSUME CheckAgent.status = "fail" PROVE \E w \in {old, world} : Cause("agent", w)
  <2>1. /\ in.guest.ran
        /\ ~in.guest.agent \/ in.guest.version = "other" \/ in.guest.bind = {} \/ (in.pod /\ in.guest.published = "no")
    BY <1>3 DEF CheckAgent, Finding, podmanPublished
  <2>2. PICK w \in {old, world} : in.guest = ParseGuestProbe(w)
    BY <2>1 DEF NoGuest
  <2>3. w \in Machine
    OBVIOUS
  <2>4. in.pod => Podman(w)
    BY <1>0 DEF DoctorInv, Targeted, OneChange, Podman
  <2>5. ~w.agent \/ w.agentVersion = "other" \/ w.bind = {} \/ (Podman(w) /\ w.published = "no")
    BY <2>1, <2>2, <2>3, <2>4, GuestRead
  <2> QED
    BY <2>2, <2>5, Causes
<1>4. ASSUME CheckResolution.status = "fail" PROVE \E w \in {old, world} : Cause("resolution", w)
  <2>1. CASE in.pod
    <3>1. ~opt.euid0 /\ in.record = "stale"
      BY <1>4, <2>1 DEF CheckResolution, Finding, podmanResolutionEvidence
    <3>2. PICK w \in {old, world} : in.record = podmanInput(w)
      OBVIOUS
    <3>3. w.record = "stale"
      BY <2>1, <3>1, <3>2 DEF podmanInput
    <3>4. Podman(w)
      BY <1>0, <2>1 DEF DoctorInv, Targeted, OneChange, Podman
    <3> QED
      BY <3>2, <3>3, <3>4, Causes
  <2>2. CASE ~in.pod
    <3>1. in.res.source = "unresolved" /\ in.skip = Blank
      BY <1>4, <2>2 DEF CheckResolution, Finding
    <3>2. PICK w \in {old, world} : in.res = resolveTarget(w, opt.euid0)
      BY <3>1 DEF NoInputs
    <3>3. w \in Machine
      OBVIOUS
    <3>4. ~Connects(w, opt.euid0, TRUE) /\ w.provider # "lima" /\ ~Podman(w)
      BY <3>1, <3>2, <3>3, ResolveOK
    <3> QED
      BY <3>2, <3>4, Causes
  <2> QED
    BY <2>1, <2>2
<1>5. ASSUME CheckVZNATRoute.status = "fail" PROVE \E w \in {old, world} : Cause("route", w)
  <2>1. "connected" \notin in.routes /\ "netstat" \notin in.unread
    BY <1>5 DEF CheckVZNATRoute, Finding, classifyRoute
  <2> QED
    BY <2>1, Causes
<1>6. ASSUME CheckLocalNetwork.status = "fail" PROVE \E w \in {old, world} : Cause("localnet", w)
  <2>1. in.probe \notin {"skipped", "ok"}
    BY <1>6 DEF CheckLocalNetwork, Finding
  <2>2. PICK w \in {old, world} : in.probe = localNetworkInput(w)
    OBVIOUS
  <2>3. ~Connects(w, opt.euid0, TRUE)
    BY <2>1, <2>2 DEF localNetworkInput
  <2> QED
    BY <2>2, <2>3, Causes
<1>7. ASSUME CheckHalfClose.status = "fail" PROVE \E w \in {old, world} : Cause("halfclose", w)
  <2>1. in.half \notin {"skip", "error", "ends", "streams"}
    BY <1>7 DEF CheckHalfClose, Finding
  <2>2. PICK w \in {old, world} : in.half = runProbe(w)
    OBVIOUS
  <2>3. runProbe(w) \in {"skip", "error", w.half} /\ w \in Machine
    BY Zenon DEF runProbe
  <2>4. w.half = "starved"
    BY <2>1, <2>2, <2>3 DEF Machine
  <2> QED
    BY <2>2, <2>4, Causes
<1>8. ASSUME CheckDaemon.status = "fail" PROVE \E w \in {old, world} : Cause("daemon", w)
  <2>1. in.binary = "other" \/ snapshotVersionSkew
    BY <1>8 DEF CheckDaemon, Finding
  <2>2. CASE in.binary = "other"
    <3>1. PICK w \in {old, world} : in.binary = (IF w.job = "none" THEN "none" ELSE w.binVersion)
      OBVIOUS
    <3> QED
      BY <2>2, <3>1, Causes
  <2>3. CASE snapshotVersionSkew
    <3>1. PICK w \in {old, world} : in.snaps = Snapshots(w)
      OBVIOUS
    <3>2. PICK s \in Snapshots(w) : s.version # "cli"
      BY <2>3, <3>1 DEF snapshotVersionSkew
    <3>3. w \in Machine
      OBVIOUS
    <3>4. w.procVersion # "cli"
      BY <3>2, <3>3, SnapshotsOK
    <3> QED
      BY <3>1, <3>4, Causes
  <2> QED
    BY <2>1, <2>2, <2>3
<1> QED
  BY <1>1, <1>2, <1>3, <1>4, <1>5, <1>6, <1>7, <1>8

(* Evidence that is not history: in the log, or in the ring of a machine   *)
(* whose sessions do not show it healed.                                   *)
Fresh(e, w) == e \in w.ring /\ ~(e.when = "before" /\ w.dated /\ w.up = {"mirror", "sync"})

(* What the auth check counts as live was logged, or was in the ring of the  *)
(* machine as it was at the start or is now, and was not healed there.       *)
LEMMA LiveEvidence ==
  ASSUME DoctorInv, stage = "done", NEW ids, NEW e \in splitStale(ids).live
  PROVE  e.id \in ids /\ (e \in MatchAuthLog \/ \E w \in {old, world} : Fresh(e, w))
<1> USE Brought
<1> DEFINE s == matchSnapshot(in.snaps, in.ref)
           all == {x \in MatchAuthLog \cup s.ring : x.id \in ids}
<1>1. e \in all /\ ~(healedSince(s) /\ e.when = "before")
  BY DEF splitStale
<1>2. PICK w \in {old, world} : in.snaps = Snapshots(w)
  OBVIOUS
<1>3. w \in Machine /\ in.ref \in BOOLEAN
  BY DEF Inputs
<1>4. s = NoSnapshot \/ (s \in Snapshots(w) /\ s.usable /\ s.serves)
  BY <1>2, <1>3, MatchedOK
<1> HIDE DEF s
<1>5. CASE s = NoSnapshot
  BY <1>1, <1>5 DEF NoSnapshot
<1>6. CASE s \in Snapshots(w)
  <2>1. s.ring = w.ring /\ s.up = w.up /\ s.dated = w.dated
    BY <1>3, <1>6, SnapshotsOK
  <2> QED
    BY <1>1, <1>2, <2>1 DEF healedSince, Fresh
<1> QED
  BY <1>4, <1>5, <1>6

(* The checks on authentication.  The Mac's secret and the guest's are     *)
(* read at different moments; one of them is the same at both.             *)
LEMMA FailCausesAuth ==
  ASSUME DoctorInv, stage = "done"
  PROVE  /\ checkAuthFilePerms.status = "fail" => \E w \in {old, world} : Cause("perms", w)
         /\ primaryAuthFinding.status = "fail" => \E w \in {old, world} : Cause("auth", w)
         /\ checkWrongPeer.status = "fail" => \E w \in {old, world} : Cause("peer", w)
<1> USE Brought
<1>0. in.log = old.log /\ MatchAuthLog = {[id |-> x, when |-> "undated"] : x \in in.log}
  BY DEF DoctorInv, Targeted, Begun, MatchAuthLog
<1>1. ASSUME NEW e \in MatchAuthLog PROVE e.id \in old.log
  BY <1>0
<1>7. ASSUME NEW ids, NEW e \in splitStale(ids).live PROVE \E w \in {old, world} : Recorded(ids, w)
  <2>1. e.id \in ids /\ (e \in MatchAuthLog \/ \E w \in {old, world} : Fresh(e, w))
    BY LiveEvidence
  <2> QED
    BY <1>1, <2>1 DEF Recorded, Fresh
<1>2. \A w : /\ (w.mac = "bad" \/ w.guest = "bad") => Cause("perms", w)
             /\ Recorded({"auth-file-perms"}, w) => Cause("perms", w)
             /\ Recorded({"auth-mismatch", "auth-wrong-peer"}, w) => Cause("peer", w)
  BY DEF Cause
<1>3. PICK v \in {old, world} : in.mac = macSecretState(v)
  OBVIOUS
<1>4. ASSUME checkAuthFilePerms.status = "fail" PROVE \E w \in {old, world} : Cause("perms", w)
  <2>1. \/ in.ref /\ in.mac = "bad"
        \/ in.guest.ran /\ in.guest.secret = "bad"
        \/ splitStale({"auth-file-perms"}).live # {}
    BY <1>4 DEF checkAuthFilePerms, Finding
  <2>2. CASE in.ref /\ in.mac = "bad"
    BY <1>2, <1>3, <2>2 DEF macSecretState
  <2>3. CASE in.guest.ran /\ in.guest.secret = "bad"
    <3>1. PICK w \in {old, world} : in.guest = ParseGuestProbe(w)
      BY <2>3 DEF NoGuest
    <3>2. w \in Machine /\ w.guest = "bad"
      BY <2>3, <3>1, GuestRead
    <3> QED
      BY <1>2, <3>1, <3>2
  <2>4. CASE splitStale({"auth-file-perms"}).live # {}
    BY <1>2, <1>7, <2>4
  <2> QED
    BY <2>1, <2>2, <2>3, <2>4
<1>5. ASSUME primaryAuthFinding.status = "fail" PROVE \E w \in {old, world} : Cause("auth", w)
  <2>1. in.ref /\ in.guest.ran /\ (in.mac # in.guest.secret \/ in.mac = "bad")
    BY <1>5 DEF primaryAuthFinding, Finding
  <2>2. PICK w \in {old, world} : in.guest = ParseGuestProbe(w)
    BY <2>1 DEF NoGuest
  <2>3. in.guest.secret = w.guest /\ in.mac = v.mac
    BY <1>3, <2>1, <2>2, GuestRead DEF macSecretState
  <2>4. old.mac = world.mac \/ old.guest = world.guest
    BY DEF DoctorInv, OneChange
  <2>5. \E u \in {old, world} : u.mac # u.guest \/ u.mac = "bad"
    BY <1>3, <2>1, <2>2, <2>3, <2>4
  <2> QED
    BY <2>5, Causes
<1>6. ASSUME checkWrongPeer.status = "fail" PROVE \E w \in {old, world} : Cause("peer", w)
  <2>1. splitStale({"auth-mismatch", "auth-wrong-peer"}).live # {}
    BY <1>6 DEF checkWrongPeer, Finding
  <2> QED
    BY <1>2, <1>7, <2>1
<1> QED
  BY <1>4, <1>5, <1>6

(* A finding that fails the run has a cause (FailHasCause), whatever       *)
(* happened to the machine while the probes were out.                      *)
THEOREM FailsHaveCauses == DoctorSpec => []FailHasCause
<1>1. DoctorInv => FailHasCause
  <2> SUFFICES ASSUME DoctorInv, stage = "done", NEW c \in Failed PROVE Cause(c, old) \/ Cause(c, world)
    BY DEF FailHasCause
  <2>1. report = Classify
    BY Brought
  <2>2. c \in DOMAIN report /\ report[c].status = "fail"
    BY DEF Failed
  <2>3. CheckNEFilter.status # "fail" /\ CheckCoexistence.status # "fail" /\ CheckSkipVisibility.status # "fail"
    BY DEF CheckNEFilter, CheckCoexistence, checkPodmanCoexistence, CheckSkipVisibility, Finding
  <2>4. \E w \in {old, world} : Cause(c, w)
    BY <2>1, <2>2, <2>3, ReportShape, FailCauses, FailCausesAuth
  <2> QED
    BY <2>4
<1> QED
  BY <1>1, DoctorInvariance, PTL

(* The gate is named only where the root daemon's sessions speak for the   *)
(* path (GateNamed).                                                       *)
THEOREM GateIsNamed == DoctorSpec => []GateNamed
<1>1. DoctorInv => GateNamed
  <2> SUFFICES ASSUME DoctorInv, stage = "done", report.localnet.why = "gate",
                      ~old.gate, ~world.gate, report.nefilter.status = "ok", old.filter = world.filter
               PROVE  (RootHeld(old) \/ RootHeld(world)) /\ ~(Connects(old, TRUE, FALSE) /\ Connects(world, TRUE, FALSE))
    BY DEF GateNamed
  <2> USE Brought
  <2> DEFINE s == matchSnapshot(in.snaps, in.ref)
  <2>1. report.localnet = CheckLocalNetwork /\ report.nefilter = CheckNEFilter
    BY DEF Classify
  <2>2. in.probe \notin {"skipped", "ok"} /\ ~opt.euid0 /\ tier2Evidence(s)
    BY <2>1 DEF CheckLocalNetwork, Finding, Because, Blank
  <2>3. ~in.filter /\ "sysext" \notin in.unread
    BY <2>1 DEF CheckNEFilter, Finding
  <2>4. old.filter = "none" /\ world.filter = "none"
    BY <2>3
  <2>5. PICK w \in {old, world} : in.snaps = Snapshots(w)
    OBVIOUS
  <2>6. w \in Machine /\ in.ref \in BOOLEAN
    BY DEF Inputs
  <2>7. s = NoSnapshot \/ (s \in Snapshots(w) /\ s.usable /\ s.serves)
    BY <2>5, <2>6, MatchedOK
  <2> HIDE DEF s
  <2>8. s \in Snapshots(w) /\ s.serves /\ s.root /\ s.direct /\ s.up # {}
    BY <2>2, <2>7 DEF tier2Evidence, NoSnapshot
  <2>9. RootHeld(w)
    BY <2>6, <2>8, SnapshotsOK DEF RootHeld
  <2>10. PICK v \in {old, world} : in.probe = localNetworkInput(v)
    OBVIOUS
  <2>11. ~Connects(v, opt.euid0, TRUE)
    BY <2>2, <2>10 DEF localNetworkInput
  <2>12. ~Connects(v, TRUE, FALSE)
    BY <2>2, <2>4, <2>10, <2>11 DEF Connects
  <2> QED
    BY <2>5, <2>9, <2>10, <2>12
<1> QED
  BY <1>1, DoctorInvariance, PTL

(* A report with nothing amber or red describes a VM that works            *)
(* (CleanMeansWorking).                                                    *)
THEOREM CleanIsWorking == DoctorSpec => []CleanMeansWorking
<1>1. DoctorInv => CleanMeansWorking
  <2> SUFFICES ASSUME DoctorInv, stage = "done", world = old, Clean PROVE Works(world)
    BY DEF CleanMeansWorking
  <2> USE Brought
  <2>1. /\ CheckGuestPrereqs.status = "ok" /\ CheckAgent.status = "ok" /\ primaryAuthFinding.status = "ok"
        /\ CheckResolution.status \notin {"fail", "warn"} /\ CheckLocalNetwork.status \notin {"fail", "warn"}
        /\ CheckDaemon.status \notin {"fail", "warn"}
    BY ReportShape DEF Clean
  <2>2. in.skip = Blank /\ in.guest.ran
    BY <2>1 DEF CheckGuestPrereqs, Finding
  <2>3. in.guest = ParseGuestProbe(world) /\ world \in Machine
    BY <2>2 DEF NoGuest
  <2>4. /\ world.vm = "running" /\ in.guest.agent = world.agent /\ in.guest.published = world.published
        /\ in.guest.ip = (IF Podman(world) THEN Blank ELSE "guest") /\ in.guest.secret = world.guest
    BY <2>2, <2>3, GuestRead
  <2>5. in.ref /\ ~opt.euid0 /\ (in.pod <=> Podman(world)) /\ in.status = world.job
    BY <2>2 DEF DoctorInv, Targeted, Begun, Blank
  <2>6. world.agent /\ (in.pod => world.published = "yes")
    BY <2>1, <2>2, <2>4 DEF CheckAgent, Finding, podmanPublished, Machine
  <2>7. in.mac = world.mac
    BY <2>5 DEF macSecretState
  <2>8. world.mac = world.guest /\ world.mac \in {"A", "B"}
    BY <2>1, <2>2, <2>3, <2>4, <2>5, <2>7 DEF primaryAuthFinding, Finding, Machine
  <2>9. world.job = "running" \/ world.userd # "none"
    <3>1. world.job \in {"running", "none"} /\ (world.job = "none" => liveSnapshot)
      BY <2>1, <2>3, <2>5 DEF CheckDaemon, Finding, Machine
    <3>2. CASE world.job = "none"
      <4>1. PICK s \in Snapshots(world) : s.usable
        BY <3>1, <3>2 DEF liveSnapshot
      <4> QED
        BY <2>3, <3>2, <4>1, SnapshotsOK
    <3> QED
      BY <3>1, <3>2
  <2>10. CASE Podman(world)
    <3>1. in.record = (IF world.record = "stale" /\ ~world.config THEN "ok" ELSE world.record)
      BY <2>5, <2>10 DEF podmanInput
    <3>3. in.res.source # "none"
      BY <2>2, <2>3, ResolveOK
    <3>2. world.record = "ok" \/ (world.record = "stale" /\ ~world.config)
      BY <3>3, <2>1, <2>2, <2>3, <2>5, <2>10, <3>1 DEF CheckResolution, podmanResolutionEvidence, Finding, Machine
    <3> QED
      BY <2>4, <2>5, <2>6, <2>8, <2>9, <2>10, <3>2 DEF Works
  <2>11. CASE ~Podman(world)
    <3>1. vznatCandidate(in.guest, in.res) # Blank
      BY <2>4, <2>11 DEF vznatCandidate, Blank
    <3>2. in.probe = localNetworkInput(world)
      OBVIOUS
    <3>3. in.probe = "ok"
      BY <2>1, <2>2, <2>5, <2>11, <3>1, <3>2 DEF CheckLocalNetwork, Finding, Because, localNetworkInput
    <3>4. Connects(world, opt.euid0, TRUE)
      <4>1. CASE in.res.source \in {"vznat-direct", "vznat-leases"}
        <5>1. in.res = resolveTarget(world, opt.euid0)
          BY <4>1 DEF NoInputs
        <5> QED
          BY <2>3, <4>1, <5>1, ResolveOK
      <4>2. CASE in.res.source \notin {"vznat-direct", "vznat-leases"}
        BY <3>1, <3>2, <3>3, <4>2 DEF localNetworkInput
      <4> QED
        BY <4>1, <4>2
    <3>5. Connects(world, TRUE, FALSE)
      BY <3>4 DEF Connects
    <3> QED
      BY <2>4, <2>6, <2>8, <2>9, <2>11, <3>5 DEF Works
  <2> QED
    BY <2>10, <2>11
<1> QED
  BY <1>1, DoctorInvariance, PTL

-----------------------------------------------------------------------------
(* The doctor view. *)

(* The view opens on no run.                                               *)
LEMMA InitView == Init => ViewInv
<1> SUFFICES ASSUME Init PROVE ViewInv
  OBVIOUS
<1>1. DoctorViewTypeOK /\ OneRun /\ DoctorInStep
  BY DashboardAssumption DEF Init, DoctorViewTypeOK, OneRun, DoctorInStep, shownPhase, Gen
<1> QED
  BY <1>1 DEF ViewInv

(* What leaves the doctor view alone.                                      *)
LEMMA QuietView ==
  ASSUME ViewInv, UNCHANGED doctor, keys' = keys \/ (keys < MaxKeys /\ keys' = keys + 1)
  PROVE  ViewInv'
<1> USE DEF doctor, ViewInv
<1>1. DoctorViewTypeOK'
  BY DEF DoctorViewTypeOK
<1>2. OneRun'
  BY DashboardAssumption DEF DoctorViewTypeOK, OneRun, shownPhase
<1>3. DoctorInStep'
  BY DEF DoctorInStep, shownPhase
<1> QED
  BY <1>1, <1>2, <1>3

(* The runs once the one in flight is cancelled.                           *)
LEMMA Stopped ==
  ASSUME ViewInv
  PROVE  /\ stop.gen = gen + 1 /\ stop.phase = shownPhase
         /\ stop.run \in [Gen -> {"off", "canceled", "landed", "void"}]
         /\ \A g \in Gen : (stop.run[g] = "landed" <=> run[g] = "landed") /\ (stop.run[g] = "off" <=> run[g] = "off")
<1> USE DEF ViewInv
<1>1. /\ stop.gen = gen + 1 /\ stop.phase = shownPhase
      /\ stop.run = [g \in Gen |-> IF run[g] = "live" THEN "canceled" ELSE run[g]]
  BY DEF stop, shownPhase
<1> QED
  BY <1>1 DEF DoctorViewTypeOK

(* A new run takes a generation no other has had.                          *)
LEMMA StartView ==
  ASSUME ViewInv, keys < MaxKeys, keys' = keys + 1, startDoctor
  PROVE  ViewInv'
<1> USE DEF ViewInv
<1>0. /\ gen' = stop.gen /\ restore' = stop.phase /\ phase' = "running" /\ run' = [stop.run EXCEPT ![gen'] = "live"]
      /\ reported' = reported /\ err' = err
  BY DEF startDoctor
<1>1. gen \in Nat /\ keys \in Nat /\ gen' = gen + 1 /\ gen' \in Gen /\ gen <= keys /\ restore' = shownPhase /\ shownPhase \in {"idle", "done", "failed"}
  BY <1>0, Stopped, DashboardAssumption DEF DoctorViewTypeOK, Gen, shownPhase
<1>2. run[gen'] = "off"
  BY <1>1, DashboardAssumption DEF OneRun, DoctorViewTypeOK, Gen
<1>3. /\ run' \in [Gen -> {"off", "live", "canceled", "landed", "void"}]
      /\ \A g \in Gen : /\ run'[g] = "live" <=> g = gen'
                        /\ run'[g] = "landed" <=> run[g] = "landed"
                        /\ run'[g] # "off" => g = gen' \/ run[g] # "off"
  BY <1>0, <1>1, <1>2, Stopped
<1>4. shownPhase' = shownPhase
  BY <1>0, <1>1 DEF shownPhase
<1>5. DoctorViewTypeOK'
  BY <1>0, <1>1, <1>3 DEF DoctorViewTypeOK
<1>6. OneRun'
  BY <1>0, <1>1, <1>3, <1>4, DashboardAssumption DEF OneRun, DoctorViewTypeOK, Gen
<1>7. DoctorInStep'
  BY <1>0, <1>1, <1>3, <1>4, DashboardAssumption DEF DoctorInStep, DoctorViewTypeOK, Gen
<1> QED
  BY <1>5, <1>6, <1>7

(* Esc cancels the run in flight and shows what was there before it.       *)
LEMMA EscView ==
  ASSUME ViewInv, keys < MaxKeys, keys' = keys + 1, phase = "running",
         gen' = stop.gen, phase' = stop.phase, run' = stop.run, UNCHANGED <<restore, reported, err>>
  PROVE  ViewInv'
<1> USE DEF ViewInv
<1>1. gen \in Nat /\ keys \in Nat /\ gen' = gen + 1 /\ gen <= keys /\ phase' = shownPhase /\ shownPhase \in {"idle", "done", "failed"}
  BY Stopped DEF DoctorViewTypeOK, shownPhase
<1>2. /\ run' \in [Gen -> {"off", "live", "canceled", "landed", "void"}]
      /\ \A g \in Gen : /\ run'[g] # "live"
                        /\ run'[g] = "landed" <=> run[g] = "landed"
                        /\ run'[g] # "off" => run[g] # "off"
  BY Stopped
<1>3. shownPhase' = shownPhase
  BY <1>1 DEF shownPhase
<1>4. DoctorViewTypeOK'
  BY <1>1, <1>2 DEF DoctorViewTypeOK
<1>5. OneRun'
  BY <1>1, <1>2, <1>3, DashboardAssumption DEF OneRun, DoctorViewTypeOK, Gen
<1>6. DoctorInStep'
  BY <1>1, <1>2, <1>3, DashboardAssumption DEF DoctorInStep, DoctorViewTypeOK, Gen, OneRun
<1> QED
  BY <1>4, <1>5, <1>6

(* A completion is taken from the run of the current generation only, and  *)
(* that is the only one that is live.                                      *)
LEMMA DoneView ==
  ASSUME ViewInv, NEW g \in Gen, UNCHANGED keys, applyDoctorDone(g) \/ applyDoctorFailed(g)
  PROVE  ViewInv'
<1> USE DEF ViewInv
<1>0. /\ run[g] \in {"live", "canceled"} /\ gen' = gen /\ restore' = restore
      /\ run' = [run EXCEPT ![g] = IF @ = "live" THEN "landed" ELSE "void"]
      /\ \/ current(g) /\ phase' = "done" /\ reported' = g /\ err' = 0
         \/ current(g) /\ phase' = "failed" /\ err' = g /\ reported' = reported
         \/ ~current(g) /\ UNCHANGED <<phase, reported, err>>
  BY DEF applyDoctorDone, applyDoctorFailed, Over
<1>1. run \in [Gen -> {"off", "live", "canceled", "landed", "void"}] /\ gen \in Nat /\ keys \in Nat /\ keys' = keys /\ Gen \subseteq Nat \ {0}
  BY DEF DoctorViewTypeOK, Gen
<1>2. current(g) <=> run[g] = "live"
  BY DEF DoctorInStep, current
<1>3. CASE current(g)
  <2>1. g = gen /\ phase = "running" /\ run'[g] = "landed" /\ (\A h \in Gen \ {g} : run'[h] = run[h])
    BY <1>0, <1>1, <1>2, <1>3 DEF current
  <2>2. /\ phase' \in {"done", "failed"} /\ shownPhase' = phase'
        /\ phase' = "done" => reported' = gen
        /\ phase' = "failed" => err' = gen
        /\ reported' \in 0 .. gen /\ err' \in 0 .. gen
    BY <1>0, <1>1, <1>3, <2>1 DEF shownPhase, DoctorViewTypeOK
  <2>3. run' \in [Gen -> {"off", "live", "canceled", "landed", "void"}]
    BY <1>0, <1>1
  <2>4. DoctorViewTypeOK'
    BY <1>0, <1>1, <2>2, <2>3 DEF DoctorViewTypeOK
  <2>5. OneRun'
    BY <1>0, <1>1, <2>1, <2>2 DEF OneRun
  <2>6. DoctorInStep'
    <3>1. \A h \in Gen : run'[h] # "live"
      BY <1>0, <1>1, <2>1, <1>3 DEF DoctorInStep
    <3>2. \A h \in Gen : run'[h] = "landed" => h <= gen
      BY <1>1, <2>1, <2>5, <1>0 DEF OneRun
    <3> QED
      BY <1>0, <1>1, <2>1, <2>2, <3>1, <3>2 DEF DoctorInStep
  <2> QED
    BY <2>4, <2>5, <2>6
<1>4. CASE ~current(g)
  <2>1. UNCHANGED <<phase, restore, gen, reported, err, keys>> /\ run'[g] = "void" /\ run[g] = "canceled" /\ (\A h \in Gen \ {g} : run'[h] = run[h])
    BY <1>0, <1>1, <1>2, <1>4
  <2>2. run' \in [Gen -> {"off", "live", "canceled", "landed", "void"}]
    BY <1>0, <1>1
  <2>3. /\ shownPhase' = shownPhase
        /\ \A h \in Gen : /\ run'[h] = "live" <=> run[h] = "live"
                          /\ run'[h] = "landed" <=> run[h] = "landed"
                          /\ run'[h] # "off" => run[h] # "off"
    BY <2>1 DEF shownPhase
  <2>4. DoctorViewTypeOK'
    BY <2>1, <2>2 DEF DoctorViewTypeOK
  <2>5. OneRun'
    BY <1>1, <2>1, <2>3, DashboardAssumption DEF OneRun, DoctorViewTypeOK, Gen
  <2>6. DoctorInStep'
    BY <1>1, <2>1, <2>3, DashboardAssumption DEF DoctorInStep, DoctorViewTypeOK, Gen, OneRun, shownPhase
  <2> QED
    BY <2>4, <2>5, <2>6
<1> QED
  BY <1>3, <1>4

(* Every key.                                                              *)
LEMMA KeyView ==
  ASSUME ViewInv, keys < MaxKeys, keys' = keys + 1, Key
  PROVE  ViewInv'
<1>1. CASE openDoctor \/ KeyRerun
  BY <1>1, StartView, QuietView DEF openDoctor, KeyRerun
<1>2. CASE DoctorEsc
  BY <1>2, EscView, QuietView DEF DoctorEsc, doctor
<1>3. ASSUME NEW p, selectPath(p) PROVE UNCHANGED doctor
  BY <1>3 DEF selectPath
<1>4. CASE KeySwitcher \/ SwitcherClose \/ KeyRefusals \/ KeyEsc
  BY <1>4, QuietView DEF KeySwitcher, SwitcherClose, KeyRefusals, KeyEsc
<1>5. CASE step(1) \/ step(-1) \/ \E i \in 1 .. 9 : selectNth(i)
  BY <1>3, <1>5, QuietView DEF step, selectNth
<1> QED
  BY <1>1, <1>2, <1>4, <1>5 DEF Key

(* Only keys and completions touch the doctor view; fetches and daemons do *)
(* not.                                                                    *)
THEOREM ViewInvariance == Spec => []ViewInv
<1>1. Init => ViewInv
  BY InitView
<1>2. ViewInv /\ [Next]_vars => ViewInv'
  <2> SUFFICES ASSUME ViewInv, [Next]_vars PROVE ViewInv'
    OBVIOUS
  <2>1. CASE keys < MaxKeys /\ keys' = keys + 1 /\ Key
    BY <2>1, KeyView
  <2>2. CASE (\E g \in Gen : applyDoctorDone(g) \/ applyDoctorFailed(g)) /\ UNCHANGED keys
    BY <2>2, DoneView
  <2>3. CASE (\E p \in Path : Record(p) \/ \E d \in {"up", "skewed", "down"} : Stop(p, d)) /\ UNCHANGED keys
    <3>1. ASSUME NEW p, Record(p) PROVE UNCHANGED doctor
      BY <3>1, Zenon DEF Record
    <3>2. ASSUME NEW p, NEW d, Stop(p, d) PROVE UNCHANGED doctor
      BY <3>2, Zenon DEF Stop
    <3> QED
      BY <2>3, <3>1, <3>2, QuietView
  <2>4. CASE (\E f \in Fetch : Tick(f) \/ FetchOne(f) \/ applySnapshots(f)) /\ UNCHANGED keys
    BY <2>4, QuietView DEF Tick, FetchOne, applySnapshots
  <2>5. CASE UNCHANGED vars
    BY <2>5, QuietView DEF vars
  <2> QED
    BY <2>1, <2>2, <2>3, <2>4, <2>5 DEF Next
<1> QED
  BY <1>1, <1>2, PTL DEF Spec

(* The spinner and the report on display are those of the run the user     *)
(* waits for (DoctorInStep).                                               *)
THEOREM DoctorKeepsStep == Spec => []DoctorInStep
<1>1. ViewInv => DoctorInStep
  BY DEF ViewInv
<1> QED
  BY <1>1, ViewInvariance, PTL

-----------------------------------------------------------------------------
(* The refusal log. *)

(* What Newest keeps: the end of the sequence.                             *)
LEMMA NewestOf ==
  ASSUME NEW S, NEW s \in Seq(S), NEW n \in Nat
  PROVE  /\ Newest(s, n) \in Seq(S)
         /\ Len(Newest(s, n)) = IF Len(s) > n THEN n ELSE Len(s)
         /\ \A i \in 1 .. Len(Newest(s, n)) : Newest(s, n)[i] = s[Len(s) - Len(Newest(s, n)) + i]
<1>0. Len(s) \in Nat
  OBVIOUS
<1>1. CASE Len(s) > n
  <2> DEFINE t == SubSeq(s, Len(s) - n + 1, Len(s))
  <2>1. Newest(s, n) = t
    BY <1>1 DEF Newest
  <2>2. Len(s) - n + 1 \in 1 .. Len(s) + 1 /\ Len(s) - (Len(s) - n + 1) + 1 = n
    BY <1>0, <1>1
  <2>3. t \in Seq(S) /\ Len(t) = n /\ \A i \in 1 .. n : t[i] = s[Len(s) - n + 1 + i - 1]
    BY <1>0, <2>2, SubSeqProperties
  <2>4. \A i \in 1 .. n : Len(s) - n + 1 + i - 1 = Len(s) - n + i
    BY <1>0
  <2> HIDE DEF t
  <2> QED
    BY <1>1, <2>1, <2>3, <2>4
<1>2. CASE ~(Len(s) > n)
  <2>1. Newest(s, n) = SubSeq(s, 1, Len(s))
    BY <1>2 DEF Newest
  <2>2. Newest(s, n) = s
    BY <2>1, SubSeqFull
  <2>3. \A i \in 1 .. Len(s) : Len(s) - Len(s) + i = i
    BY <1>0
  <2> QED
    BY <1>2, <2>2, <2>3
<1> QED
  BY <1>1, <1>2

(* How many numbers there are from a + 1 to b.                             *)
LEMMA IntervalSize ==
  ASSUME NEW a \in Int, NEW b \in Int, a <= b
  PROVE  Cardinality(a + 1 .. b) = b - a
<1>1. a + 1 \in Int
  OBVIOUS
<1>2. Cardinality(a + 1 .. b) = IF a + 1 > b THEN 0 ELSE b - (a + 1) + 1
  BY ONLY <1>1, b \in Int, FS_Interval
<1> QED
  BY <1>2

(* When the new entries are the ring from a + 1 on, they are appended as   *)
(* they are.                                                               *)
LEMMA NewEntries ==
  ASSUME NEW l \in Seq(Nat \ {0}), NEW r \in Seq(Nat \ {0}), NEW a \in 0 .. Len(r),
         {i \in DOMAIN r : ~Contains(l, r[i])} = a + 1 .. Len(r)
  PROVE  accumulate(l, r) = Newest(l \o [k \in 1 .. Len(r) - a |-> r[a + k]], refusalCap)
<1> DEFINE add == {i \in DOMAIN r : ~Contains(l, r[i])}
           nth(k) == CHOOSE i \in add : Cardinality({j \in add : j <= i}) = k
<1>0. a \in Int /\ Len(r) \in Int /\ a <= Len(r) /\ add = a + 1 .. Len(r)
  OBVIOUS
<1> HIDE DEF add
<1>1. Cardinality(add) = Len(r) - a
  BY ONLY <1>0, IntervalSize
<1>2. ASSUME NEW i \in add PROVE Cardinality({j \in add : j <= i}) = i - a
  <2>1. {j \in add : j <= i} = a + 1 .. i /\ i \in Int /\ a <= i
    BY <1>0
  <2> QED
    BY ONLY <1>0, <2>1, IntervalSize
<1>3. ASSUME NEW k \in 1 .. Len(r) - a PROVE nth(k) = a + k
  <2>1. a + k \in add /\ Cardinality({j \in add : j <= a + k}) = k
    BY <1>0, <1>2
  <2>2. ASSUME NEW i \in add, Cardinality({j \in add : j <= i}) = k PROVE i = a + k
    <3>0. i - a = k
      BY <1>2, <2>2
    <3>1. i \in Int /\ k \in Int
      BY <1>0
    <3> QED
      BY ONLY <1>0, <3>0, <3>1
  <2> QED
    BY <2>1, <2>2
<1> HIDE DEF nth
<1>4. [k \in 1 .. Cardinality(add) |-> r[nth(k)]] = [k \in 1 .. Len(r) - a |-> r[a + k]]
  BY <1>1, <1>3
<1> QED
  BY <1>4 DEF accumulate, add, nth

(* Nothing is recorded, read or shown when the dashboard starts.           *)
LEMMA InitLog == Init => LogInv
<1> SUFFICES ASSUME Init PROVE LogInv
  OBVIOUS
<1> USE DashboardAssumption
<1>1. LogTypeOK
  BY DEF Init, LogTypeOK, NoSnap, Idle
<1>2. Rings /\ OneFetch
  BY DEF Init, Rings, Window, Rotated, OneFetch, Idle
<1>3. \A f \in Fetch, p \in Path : Brings(f, p)
  BY DEF Init, Brings, NoSnap
<1>4. \A p \in Path : Logged(p) /\ Marked(p)
  BY DEF Init, Logged, Increasing, Marked
<1>5. LogInOrder
  BY DEF Init, LogInOrder
<1> QED
  BY <1>1, <1>2, <1>3, <1>4, <1>5 DEF LogInv

(* Counting back from the end of a sequence and on from there.             *)
LEMMA Shift == \A a, b, c, d \in Int : a + 1 - b + (b - c + d) = a + 1 - c + d
  OBVIOUS

(* Windows only move forward: a daemon's own step leaves the fetch in       *)
(* flight, the log and the watermark right.                                 *)
LEMMA MovedOn ==
  ASSUME LogInv, LogTypeOK', Rings', UNCHANGED <<left, got, fetching, log, mark, shown>>,
         \A p \in Path : Rotated(p) <= Rotated(p)' /\ recorded[p] <= recorded'[p] /\ wiped[p] <= wiped'[p]
  PROVE  LogInv'
<1> USE DEF LogInv
<1>1. OneFetch'
  BY DEF OneFetch, Idle
<1>2. \A p \in Path : /\ Rotated(p) \in Int /\ Rotated(p)' \in Int /\ recorded[p] \in Nat /\ recorded'[p] \in Nat
                      /\ wiped[p] \in Nat /\ wiped'[p] \in Nat /\ log[p] \in Seq(Nat \ {0})
  BY DEF LogTypeOK, Rotated
<1>3. ASSUME NEW f \in Fetch, NEW p \in Path, got[f][p].ring # <<>> PROVE Brings(f, p)'
  <2> DEFINE r == got[f][p].ring
             b == Last(r) - Len(r)
  <2>1. r \in Seq(Nat) /\ Last(r) \in Nat /\ Len(r) \in Nat /\ b \in Int
    BY <1>3 DEF LogTypeOK, Last
  <2>2. /\ ~Idle(f) /\ got[f][p].usable /\ Window(p, r, Last(r)) /\ b <= Rotated(p) /\ Last(r) <= recorded[p]
        /\ log[p] # <<>> => Last(log[p]) <= Last(r) /\ EndsAfter(log[p], b)
    BY <1>3 DEF Brings
  <2>3. got'[f][p] = got[f][p] /\ log'[p] = log[p] /\ ~Idle(f)'
    BY <2>2 DEF Idle
  <2> HIDE DEF r, b
  <2>4. Window(p, r, Last(r))'
    BY <1>2, <2>1, <2>2 DEF Window, r, b
  <2>5. b <= Rotated(p)' /\ Last(r) <= recorded'[p]
    BY <1>2, <2>1, <2>2
  <2> QED
    BY <2>2, <2>3, <2>4, <2>5 DEF Brings, r, b
<1>4. \A f \in Fetch, p \in Path : Brings(f, p)'
  BY <1>3 DEF Brings
<1>5. ASSUME NEW p \in Path PROVE Logged(p)' /\ Marked(p)'
  <2>1. Logged(p) /\ Marked(p) /\ log'[p] = log[p] /\ mark'[p] = mark[p] /\ shown'[p] = shown[p]
    OBVIOUS
  <2>2. Marked(p)'
    BY <2>1 DEF Marked
  <2>3. ASSUME log[p] # <<>> PROVE Last(log[p]) <= recorded'[p] /\ EndsAfter(log[p], Rotated(p)')
    <3>1. Last(log[p]) \in Nat /\ Last(log[p]) <= recorded[p] /\ EndsAfter(log[p], Rotated(p))
      BY <1>2, <2>1, <2>3 DEF Last, Logged
    <3>2. \A x \in Rotated(p)' + 1 .. Last(log[p]) : x \in Rotated(p) + 1 .. Last(log[p])
      BY <1>2, <3>1
    <3> QED
      BY <1>2, <3>1, <3>2 DEF EndsAfter
  <2> QED
    BY <2>1, <2>2, <2>3 DEF Logged
<1>6. LogInOrder'
  <2> SUFFICES ASSUME NEW p \in Path, log[p] # <<>>, NEW z \in Head(log[p]) .. Last(log[p]), z <= wiped[p]
               PROVE  z <= wiped'[p]
    BY DEF LogInOrder
  <2> QED
    BY <1>2
<1> QED
  BY <1>1, <1>4, <1>5, <1>6

(* A daemon records one more: its ring moves on by one.                    *)
LEMMA RecordLog ==
  ASSUME LogInv, NEW q \in Path, Record(q)
  PROVE  LogInv'
<1> USE DashboardAssumption DEF LogInv
<1>0. /\ recorded' = [recorded EXCEPT ![q] = recorded[q] + 1]
      /\ ring' = [ring EXCEPT ![q] = Newest(Append(ring[q], recorded[q] + 1), RingSize)]
      /\ UNCHANGED <<wiped, left, got, fetching, log, mark, shown>>
  BY DEF Record, LogTypeOK, fetches, table, seen
<1> DEFINE s == Append(ring[q], recorded[q] + 1)
           n == Newest(s, RingSize)
<1>a. ring[q] \in Seq(Nat) /\ recorded[q] \in Nat /\ wiped[q] \in Nat /\ Len(ring[q]) \in Nat /\ RingSize \in Nat
  BY DEF LogTypeOK
<1>b. /\ Len(ring[q]) <= RingSize /\ Len(ring[q]) <= recorded[q]
      /\ Len(ring[q]) = RingSize \/ recorded[q] - Len(ring[q]) <= wiped[q]
      /\ wiped[q] <= recorded[q] - Len(ring[q])
      /\ \A i \in DOMAIN ring[q] : ring[q][i] = recorded[q] - Len(ring[q]) + i
  BY DEF Rings, Window, Rotated
<1>c. DOMAIN ring[q] = 1 .. Len(ring[q])
  BY <1>a
<1>1. s \in Seq(Nat) /\ Len(s) = Len(ring[q]) + 1
  BY <1>a, AppendProperties
<1>2. ASSUME NEW i \in 1 .. Len(s) PROVE s[i] = recorded[q] + 1 - Len(s) + i
  <2>1. CASE i = Len(ring[q]) + 1
    BY <1>1, <1>a, <2>1, AppendProperties
  <2>2. CASE i \in 1 .. Len(ring[q])
    <3>1. s[i] = ring[q][i]
      BY <1>a, <2>2, AppendProperties
    <3> QED
      <4>1. ring[q][i] = recorded[q] - Len(ring[q]) + i
        BY <1>b, <1>c, <2>2
      <4>2. recorded[q] \in Int /\ Len(ring[q]) \in Int /\ i \in Int /\ Len(s) = Len(ring[q]) + 1
        BY <1>1, <1>a
      <4> QED
        BY ONLY <3>1, <4>1, <4>2
  <2> QED
    BY <1>1, <1>a, <2>1, <2>2
<1>3. /\ n \in Seq(Nat) /\ Len(n) = IF Len(s) > RingSize THEN RingSize ELSE Len(s)
      /\ \A i \in 1 .. Len(n) : n[i] = s[Len(s) - Len(n) + i]
  BY <1>1, <1>a, NewestOf
<1>4. ring' = [ring EXCEPT ![q] = n]
  BY <1>0
<1> HIDE DEF n, s
<1>d. Len(s) \in Nat /\ Len(n) \in Nat /\ DOMAIN n = 1 .. Len(n)
  BY <1>1, <1>3
<1>t. recorded[q] \in Int /\ wiped[q] \in Int /\ Len(ring[q]) \in Int /\ Len(s) \in Int /\ Len(n) \in Int
  BY <1>a, <1>d
<1>e. Len(n) = IF Len(s) > RingSize THEN RingSize ELSE Len(s)
  BY <1>3
<1>5. Len(n) <= Len(s) /\ Len(n) <= RingSize
  BY ONLY <1>a, <1>d, <1>e
<1>6. ASSUME NEW i \in DOMAIN n PROVE n[i] = recorded[q] + 1 - Len(n) + i
  <2>1. i \in Int /\ Len(s) - Len(n) + i \in 1 .. Len(s)
    BY <1>5, <1>d
  <2>t. i \in Int
    BY <2>1
  <2>2. n[i] = s[Len(s) - Len(n) + i]
    BY <1>3, <1>d
  <2>3. n[i] = recorded[q] + 1 - Len(s) + (Len(s) - Len(n) + i)
    BY <1>2, <2>1, <2>2
  <2>4. recorded[q] + 1 - Len(s) + (Len(s) - Len(n) + i) = recorded[q] + 1 - Len(n) + i
    BY ONLY <1>t, <2>t, Shift
  <2> QED
    BY <2>3, <2>4
<1>7. LogTypeOK'
  <2>1. recorded' \in [Path -> Nat] /\ ring' \in [Path -> Seq(Nat)]
    <3>1. recorded \in [Path -> Nat] /\ ring \in [Path -> Seq(Nat)] /\ recorded[q] + 1 \in Nat
      BY <1>a DEF LogTypeOK
    <3>2. n \in Seq(Nat)
      BY <1>3
    <3> QED
      BY ONLY <1>0, <1>4, <3>1, <3>2
  <2> QED
    BY <1>0, <2>1 DEF LogTypeOK, Idle
<1>8. /\ Len(n) <= recorded[q] + 1 /\ wiped[q] <= recorded[q] + 1 - Len(n)
      /\ Len(n) = RingSize \/ recorded[q] + 1 - Len(n) <= wiped[q]
      /\ recorded[q] - Len(ring[q]) <= recorded[q] + 1 - Len(n)
  <2>1. /\ Len(s) = Len(ring[q]) + 1 /\ RingSize \in Int /\ Len(n) = (IF Len(s) > RingSize THEN RingSize ELSE Len(s))
        /\ Len(ring[q]) <= RingSize /\ Len(ring[q]) <= recorded[q]
        /\ Len(ring[q]) = RingSize \/ recorded[q] - Len(ring[q]) <= wiped[q]
        /\ wiped[q] <= recorded[q] - Len(ring[q])
    BY <1>1, <1>a, <1>b, <1>e
  <2> QED
    BY ONLY <1>t, <2>1
<1>9. ASSUME NEW p \in Path
      PROVE  /\ Window(p, ring[p], recorded[p])' /\ wiped'[p] <= Rotated(p)'
             /\ Rotated(p) <= Rotated(p)' /\ recorded[p] <= recorded'[p]
  <2>1. CASE p = q
    <3>1. ring'[p] = n /\ recorded'[p] = recorded[p] + 1 /\ wiped'[p] = wiped[p]
      BY <1>0, <1>4, <2>1 DEF LogTypeOK
    <3>2. Len(n) <= recorded'[p] /\ (Len(n) = RingSize \/ recorded'[p] - Len(n) <= wiped'[p])
      BY ONLY <1>8, <1>t, <2>1, <3>1
    <3>3. \A i \in DOMAIN n : n[i] = recorded'[p] - Len(n) + i
      <4>1. recorded'[p] = recorded[q] + 1 /\ recorded[q] \in Nat /\ Len(n) \in Nat /\ DOMAIN n = 1 .. Len(n)
        BY <1>a, <1>d, <2>1, <3>1
      <4>2. \A i \in DOMAIN n : recorded[q] + 1 - Len(n) + i = recorded'[p] - Len(n) + i
        BY ONLY <4>1
      <4> QED
        BY <1>6, <4>2
    <3>4. Window(p, ring[p], recorded[p])'
      BY <1>5, <3>1, <3>2, <3>3 DEF Window
    <3> QED
      BY ONLY <1>8, <1>t, <2>1, <3>1, <3>4 DEF Rotated
  <2>2. CASE p # q
    <3>1. ring'[p] = ring[p] /\ recorded'[p] = recorded[p] /\ wiped'[p] = wiped[p]
      BY <1>0, <1>4, <2>2 DEF LogTypeOK
    <3>2. recorded[p] \in Nat /\ Len(ring[p]) \in Nat
      BY DEF LogTypeOK
    <3> QED
      BY <3>1, <3>2 DEF Rings, Window, Rotated
  <2> QED
    BY <2>1, <2>2
<1>f. \A p \in Path : wiped[p] <= wiped'[p]
  BY <1>0 DEF LogTypeOK
<1>10. Rings'
  BY <1>9 DEF Rings
<1> QED
  BY <1>0, <1>7, <1>9, <1>10, <1>f, MovedOn

(* What a window adds to a log that it overlaps: the log ends in the       *)
(* window, in order, and has nothing new but what is newer than its end.   *)
LEMMA AddWindow ==
  ASSUME NEW l \in Seq(Nat \ {0}), NEW r \in Seq(Nat), NEW b \in Nat, r # <<>>,
         Len(r) <= RingSize, \A i \in DOMAIN r : r[i] = b + i, Increasing(l),
         l # <<>> => Last(l) <= b + Len(r) /\ EndsAfter(l, b)
  PROVE  LET n == accumulate(l, r)
         IN  /\ n \in Seq(Nat \ {0}) /\ n # <<>> /\ Len(n) <= refusalCap /\ Increasing(n)
             /\ Last(n) = b + Len(r) /\ EndsAfter(n, b)
             /\ \A i \in DOMAIN n : Contains(l, n[i]) \/ l = <<>> \/ n[i] > Last(l)
<1> DEFINE a == IF l = <<>> THEN 0 ELSE IF Last(l) <= b THEN 0 ELSE Last(l) - b
           add == [k \in 1 .. Len(r) - a |-> r[a + k]]
           w == l \o add
           n == Newest(w, refusalCap)
<1>a. DOMAIN r = 1 .. Len(r) /\ DOMAIN l = 1 .. Len(l)
  OBVIOUS
<1>t. Len(r) \in Nat /\ Len(l) \in Nat /\ Len(r) > 0 /\ (l # <<>> => Last(l) \in Nat /\ Len(l) > 0)
  BY DEF Last
<1>b. /\ a \in Nat /\ a <= Len(r) /\ (l # <<>> => Last(l) <= b + a)
      /\ a > 0 => l # <<>> /\ Last(l) = b + a
  BY <1>t
<1> HIDE DEF a
<1>c. ASSUME l # <<>>, NEW j \in 1 .. Len(l) PROVE l[j] \in Nat /\ l[j] <= Last(l)
  <2>1. l[j] \in Nat /\ l[Len(l)] \in Nat /\ Last(l) = l[Len(l)]
    BY <1>t, <1>c DEF Last
  <2>2. j < Len(l) => l[j] < l[Len(l)]
    <3>1. j \in DOMAIN l /\ Len(l) \in DOMAIN l
      BY <1>a, <1>t, <1>c
    <3> QED
      BY <3>1 DEF Increasing
  <2>3. j = Len(l) \/ j < Len(l)
    BY <1>t
  <2> QED
    BY <2>1, <2>2, <2>3
<1>d. ASSUME l # <<>>, NEW x \in b + 1 .. Last(l) PROVE Len(l) - (Last(l) - x) \in 1 .. Len(l) /\ l[Len(l) - (Last(l) - x)] = x
  <2>1. Last(l) - x < Len(l) /\ l[Len(l) - (Last(l) - x)] = x
    BY <1>d DEF EndsAfter
  <2>2. Last(l) \in Int /\ Len(l) \in Int /\ x \in Int /\ x <= Last(l)
    BY <1>d, <1>t
  <2> QED
    BY ONLY <2>1, <2>2
<1>1. {i \in DOMAIN r : ~Contains(l, r[i])} = a + 1 .. Len(r)
  <2>1. ASSUME NEW i \in 1 .. Len(r), i <= a PROVE Contains(l, r[i])
    <3>1. l # <<>> /\ b + i \in b + 1 .. Last(l) /\ r[i] = b + i
      <4>0. r[i] = b + i
        BY <1>a
      <4>1. r[i] = b + i /\ i \in Int /\ 1 <= i
        BY ONLY <4>0, i \in 1 .. Len(r), <1>t
      <4>2. a > 0
        BY ONLY <1>b, <2>1, <4>1
      <4> QED
        BY ONLY <1>b, <2>1, <4>1, <4>2, b \in Nat
    <3> QED
      BY <1>d, <3>1 DEF Contains
  <2>2. ASSUME NEW i \in 1 .. Len(r), i > a PROVE ~Contains(l, r[i])
    <3>1. r[i] = b + i
      BY <1>a
    <3>2. ASSUME NEW j \in 1 .. Len(l) PROVE l[j] # b + i
      <4>1. l # <<>>
        BY <3>2
      <4>2. l[j] \in Nat /\ l[j] <= b + a
        BY <1>b, <1>c, <1>t, <4>1
      <4> QED
        BY ONLY <1>b, <2>2, <4>2, b \in Nat, i \in 1 .. Len(r)
    <3> QED
      BY <3>1, <3>2 DEF Contains
  <2> QED
    BY <1>a, <1>b, <1>t, <2>1, <2>2
<1>2. accumulate(l, r) = n
  <2>1. r \in Seq(Nat \ {0})
    <3>1. \A i \in 1 .. Len(r) : r[i] \in Nat \ {0}
      BY <1>a, <1>t
    <3> QED
      BY <1>a, <1>t, <3>1
  <2>2. a \in 0 .. Len(r)
    BY <1>b, <1>t
  <2> QED
    BY ONLY <1>1, <2>2, <2>1, l \in Seq(Nat \ {0}), NewEntries
<1>3. /\ add \in Seq(Nat \ {0}) /\ Len(add) = Len(r) - a
      /\ \A k \in 1 .. Len(r) - a : add[k] = b + (a + k)
  <2>1. ASSUME NEW k \in 1 .. Len(r) - a PROVE r[a + k] = b + (a + k) /\ b + (a + k) \in Nat \ {0}
    <3>1. a + k \in 1 .. Len(r) /\ b + (a + k) \in Nat \ {0}
      BY <1>b, <1>t
    <3> QED
      BY <1>a, <3>1
  <2>2. Len(r) - a \in Nat
    BY <1>b, <1>t
  <2>3. add \in [1 .. Len(r) - a -> Nat \ {0}] /\ \A k \in 1 .. Len(r) - a : add[k] = b + (a + k)
    BY <2>1
  <2> HIDE DEF add
  <2>4. add \in Seq(Nat \ {0})
    BY ONLY <2>2, <2>3, SeqDef
  <2>5. Len(add) = Len(r) - a
    BY ONLY <2>2, <2>3, <2>4, LenProperties
  <2> QED
    BY <2>3, <2>4, <2>5
<1> HIDE DEF add
<1>4. /\ w \in Seq(Nat \ {0}) /\ Len(w) = Len(l) + (Len(r) - a)
      /\ \A j \in 1 .. Len(l) : w[j] = l[j]
      /\ \A k \in 1 .. Len(r) - a : w[Len(l) + k] = b + (a + k)
  <2>1. w \in Seq(Nat \ {0}) /\ Len(w) = Len(l) + Len(add)
    BY <1>3, ConcatProperties
  <2>2. ASSUME NEW j \in 1 .. Len(l) + Len(add) PROVE w[j] = IF j <= Len(l) THEN l[j] ELSE add[j - Len(l)]
    BY <1>3, ConcatProperties
  <2>3. ASSUME NEW j \in 1 .. Len(l) PROVE w[j] = l[j]
    BY <1>3, <1>b, <1>t, <2>2
  <2>4. ASSUME NEW k \in 1 .. Len(r) - a PROVE w[Len(l) + k] = b + (a + k)
    <3>1. Len(l) + k \in 1 .. Len(l) + Len(add) /\ ~(Len(l) + k <= Len(l)) /\ Len(l) + k - Len(l) = k
      <4>1. k \in Int /\ 1 <= k /\ k <= Len(add) /\ Len(l) \in Int /\ Len(add) \in Int /\ 0 <= Len(l)
        BY <1>3, <1>b, <1>t
      <4> QED
        BY ONLY <4>1
    <3> QED
      BY <1>3, <2>2, <3>1
  <2> QED
    BY <1>3, <2>1, <2>3, <2>4
<1> HIDE DEF w
<1>m. Len(w) \in Int /\ a \in Int /\ b \in Int /\ Len(l) \in Int /\ Len(r) \in Int /\ 0 <= Len(l) /\ 0 < Len(r) /\ a <= Len(r) /\ 0 <= b
      /\ Len(w) = Len(l) + (Len(r) - a)
  BY <1>4, <1>b, <1>t
(* The end of the whole is the window. *)
<1>5. ASSUME NEW d \in 0 .. Len(r) - 1 PROVE Len(w) - d \in 1 .. Len(w) /\ w[Len(w) - d] = b + Len(r) - d
  <2>0. d \in Int /\ 0 <= d /\ d <= Len(r) - 1
    BY <1>m
  <2>1. CASE d < Len(r) - a
    <3>1. Len(r) - a - d \in 1 .. Len(r) - a /\ Len(l) + (Len(r) - a - d) = Len(w) - d
      BY ONLY <1>m, <2>0, <2>1
    <3>2. w[Len(w) - d] = b + (a + (Len(r) - a - d))
      BY <1>4, <3>1
    <3>3. b + (a + (Len(r) - a - d)) = b + Len(r) - d /\ Len(w) - d \in 1 .. Len(w)
      BY ONLY <1>m, <2>0, <2>1
    <3> QED
      BY <3>2, <3>3
  <2>2. CASE ~(d < Len(r) - a)
    <3>1. a > 0
      BY ONLY <1>m, <2>0, <2>2
    <3>2. l # <<>> /\ Last(l) = b + a
      BY <1>b, <3>1
    <3>3. b + Len(r) - d \in b + 1 .. Last(l) /\ Len(l) - (Last(l) - (b + Len(r) - d)) = Len(w) - d
      BY ONLY <1>m, <2>0, <2>2, <3>2
    <3>4. Len(w) - d \in 1 .. Len(l) /\ l[Len(w) - d] = b + Len(r) - d
      BY <1>d, <3>2, <3>3
    <3>5. w[Len(w) - d] = l[Len(w) - d]
      BY <1>4, <3>4
    <3>6. Len(w) - d \in 1 .. Len(w)
      BY ONLY <1>m, <2>0, <3>4
    <3> QED
      BY <3>4, <3>5, <3>6
  <2> QED
    BY <2>1, <2>2
<1>6. ASSUME NEW j \in 1 .. Len(w)
      PROVE  \/ j \in 1 .. Len(l) /\ w[j] = l[j] /\ l # <<>>
             \/ j > Len(l) /\ w[j] = b + (a + (j - Len(l)))
  <2>0. j \in Int /\ 1 <= j /\ j <= Len(w)
    BY <1>m
  <2>1. CASE j <= Len(l)
    BY <1>4, <1>m, <2>0, <2>1
  <2>2. CASE j > Len(l)
    <3>1. j - Len(l) \in 1 .. Len(r) - a /\ Len(l) + (j - Len(l)) = j
      BY ONLY <1>m, <2>0, <2>2
    <3> QED
      BY <1>4, <2>2, <3>1
  <2> QED
    BY <1>m, <2>0, <2>1, <2>2
<1>7. ASSUME NEW i \in 1 .. Len(w), NEW j \in 1 .. Len(w), i < j PROVE w[i] < w[j]
  <2>0. i \in Int /\ j \in Int
    BY <1>m
  <2>1. CASE j \in 1 .. Len(l) /\ w[j] = l[j] /\ l # <<>>
    <3>1. i \in 1 .. Len(l)
      BY <1>m, <1>7, <2>0, <2>1
    <3>2. w[i] = l[i]
      BY <1>4, <3>1
    <3> QED
      BY <1>7, <1>a, <2>1, <3>1, <3>2 DEF Increasing
  <2>2. CASE j > Len(l) /\ w[j] = b + (a + (j - Len(l)))
    <3>1. CASE i \in 1 .. Len(l) /\ w[i] = l[i] /\ l # <<>>
      <4>1. l[i] \in Int /\ l[i] <= Last(l) /\ Last(l) \in Int /\ Last(l) <= b + a
        BY <1>b, <1>c, <1>t, <3>1
      <4> QED
        BY ONLY <1>m, <2>0, <2>2, <3>1, <4>1
    <3>2. CASE i > Len(l) /\ w[i] = b + (a + (i - Len(l)))
      BY ONLY <1>m, <1>7, <2>0, <2>2, <3>2
    <3> QED
      BY <1>6, <3>1, <3>2
  <2> QED
    BY <1>6, <2>1, <2>2
<1>8. /\ n \in Seq(Nat \ {0}) /\ Len(n) = IF Len(w) > refusalCap THEN refusalCap ELSE Len(w)
      /\ \A i \in 1 .. Len(n) : n[i] = w[Len(w) - Len(n) + i]
  <2>1. w \in Seq(Nat \ {0}) /\ refusalCap \in Nat
    BY <1>4, DashboardAssumption
  <2> QED
    BY ONLY <2>1, NewestOf
<1> HIDE DEF n
<1>9. Len(n) \in Int /\ DOMAIN n = 1 .. Len(n) /\ refusalCap \in Int /\ RingSize \in Int /\ RingSize <= refusalCap
  BY <1>8, DashboardAssumption
<1>10. Len(n) <= refusalCap /\ Len(n) <= Len(w) /\ Len(r) <= Len(n)
  <2>1. Len(r) - 1 \in 0 .. Len(r) - 1
    BY ONLY <1>m
  <2>2. Len(w) - (Len(r) - 1) >= 1
    <3>1. Len(w) - (Len(r) - 1) \in 1 .. Len(w)
      BY <1>5, <2>1
    <3> QED
      BY ONLY <1>m, <3>1
  <2>3. Len(n) = IF Len(w) > refusalCap THEN refusalCap ELSE Len(w)
    BY <1>8
  <2>4. Len(r) <= RingSize
    OBVIOUS
  <2> QED
    BY ONLY <1>9, <1>m, <2>2, <2>3, <2>4
<1>11. ASSUME NEW i \in 1 .. Len(n) PROVE Len(w) - Len(n) + i \in 1 .. Len(w) /\ n[i] = w[Len(w) - Len(n) + i] /\ i \in Int
  <2>1. i \in Int /\ 1 <= i /\ i <= Len(n)
    BY <1>9
  <2>2. Len(w) - Len(n) + i \in 1 .. Len(w)
    BY ONLY <1>9, <1>10, <1>m, <2>1
  <2> QED
    BY <1>8, <2>1, <2>2
<1>12. ASSUME NEW d \in 0 .. Len(r) - 1 PROVE Len(n) - d \in 1 .. Len(n) /\ n[Len(n) - d] = b + Len(r) - d
  <2>1. Len(n) - d \in 1 .. Len(n) /\ Len(w) - Len(n) + (Len(n) - d) = Len(w) - d
    BY ONLY <1>9, <1>10, <1>m, d \in 0 .. Len(r) - 1
  <2> QED
    BY <1>5, <1>11, <2>1
<1>13. n # <<>> /\ Last(n) = b + Len(r)
  <2>1. 0 \in 0 .. Len(r) - 1 /\ Len(n) - 0 = Len(n) /\ b + Len(r) - 0 = b + Len(r)
    BY ONLY <1>9, <1>m
  <2>2. Len(n) \in 1 .. Len(n) /\ n[Len(n)] = b + Len(r)
    BY <1>12, <2>1
  <2> QED
    BY <1>9, <2>2 DEF Last
<1>14. EndsAfter(n, b)
  <2> SUFFICES ASSUME NEW x \in b + 1 .. b + Len(r)
               PROVE  b + Len(r) - x < Len(n) /\ n[Len(n) - (b + Len(r) - x)] = x
    BY <1>13 DEF EndsAfter
  <2>1. b + Len(r) - x \in 0 .. Len(r) - 1 /\ b + Len(r) - (b + Len(r) - x) = x
    BY ONLY <1>m, x \in b + 1 .. b + Len(r)
  <2>2. b + Len(r) - x < Len(n)
    BY ONLY <1>9, <1>10, <1>m, <2>1, x \in b + 1 .. b + Len(r)
  <2> QED
    BY <1>12, <2>1, <2>2
<1>15. Increasing(n)
  <2> SUFFICES ASSUME NEW i \in 1 .. Len(n), NEW j \in 1 .. Len(n), i < j PROVE n[i] < n[j]
    BY <1>9 DEF Increasing
  <2>1. i \in Int /\ j \in Int
    BY <1>11
  <2>2. Len(w) - Len(n) + i < Len(w) - Len(n) + j
    BY ONLY <1>9, <1>m, <2>1, i < j
  <2> QED
    BY <1>7, <1>11, <2>2
<1>16. ASSUME NEW i \in 1 .. Len(n) PROVE Contains(l, n[i]) \/ l = <<>> \/ n[i] > Last(l)
  <2> DEFINE j == Len(w) - Len(n) + i
  <2>1. j \in 1 .. Len(w) /\ n[i] = w[j]
    BY <1>11
  <2> HIDE DEF j
  <2>2. CASE j \in 1 .. Len(l) /\ w[j] = l[j] /\ l # <<>>
    BY <2>1, <2>2 DEF Contains
  <2>3. CASE j > Len(l) /\ w[j] = b + (a + (j - Len(l))) /\ l # <<>>
    <3>1. Last(l) \in Int /\ Last(l) <= b + a /\ j \in Int
      BY <1>b, <1>m, <1>t, <2>1, <2>3
    <3>2. w[j] > Last(l)
      BY ONLY <1>m, <2>3, <3>1
    <3> QED
      BY <2>1, <3>2
  <2> QED
    BY <1>6, <2>1, <2>2, <2>3
<1> QED
  BY <1>2, <1>8, <1>9, <1>10, <1>13, <1>14, <1>15, <1>16

(* A daemon stops: its ring is gone, and counts as lost.                   *)
LEMMA StopLog ==
  ASSUME LogInv, NEW q \in Path, NEW d, Stop(q, d)
  PROVE  LogInv'
<1> USE DEF LogInv
<1>0. /\ ring' = [ring EXCEPT ![q] = <<>>] /\ wiped' = [wiped EXCEPT ![q] = recorded[q]]
      /\ UNCHANGED <<recorded, left, got, fetching, log, mark, shown>>
  BY DEF Stop, fetches, table, seen
<1>1. LogTypeOK'
  BY <1>0 DEF LogTypeOK, Idle
<1>2. ASSUME NEW p \in Path
      PROVE  /\ Window(p, ring[p], recorded[p])' /\ wiped'[p] <= Rotated(p)'
             /\ Rotated(p) <= Rotated(p)' /\ recorded[p] <= recorded'[p] /\ wiped[p] <= wiped'[p]
  <2>1. recorded[p] \in Int /\ 0 <= recorded[p] /\ Len(ring[p]) \in Int /\ 0 <= Len(ring[p]) /\ wiped[p] \in Int
    BY DEF LogTypeOK
  <2>2. Window(p, ring[p], recorded[p]) /\ wiped[p] <= Rotated(p) /\ RingSize \in Int /\ 0 <= RingSize
    BY DashboardAssumption DEF Rings
  <2>3. CASE p = q
    <3>1. ring'[p] = <<>> /\ recorded'[p] = recorded[p] /\ wiped'[p] = recorded[p]
      BY <1>0, <2>3 DEF LogTypeOK
    <3> QED
      BY ONLY <2>1, <2>2, <3>1 DEF Window, Rotated
  <2>4. CASE p # q
    <3>1. ring'[p] = ring[p] /\ recorded'[p] = recorded[p] /\ wiped'[p] = wiped[p]
      BY <1>0, <2>4 DEF LogTypeOK
    <3> QED
      BY ONLY <2>1, <2>2, <3>1 DEF Window, Rotated
  <2> QED
    BY <2>3, <2>4
<1>3. Rings'
  BY <1>2 DEF Rings
<1> QED
  BY <1>0, <1>1, <1>2, <1>3, MovedOn

(* What changes neither the daemons, the fetches, the log nor the          *)
(* watermarks leaves the log right.                                        *)
LEMMA QuietLog ==
  ASSUME LogInv, UNCHANGED <<recorded, wiped, ring, left, got, fetching, log, mark, shown>>
  PROVE  LogInv'
  BY DEF LogInv, LogTypeOK, Idle, Rings, Window, Rotated, OneFetch, Brings, EndsAfter, Logged, Marked, LogInOrder

(* The watermark moves to the end of a log as the log is shown.            *)
LEMMA MarkSeen ==
  ASSUME NEW open, NEW sel, NEW l \in [Path -> Seq(Nat \ {0})], NEW m \in [Path -> Nat],
         shown \in [Path -> SUBSET Nat], markRefusalsSeen(open, sel, l, m)
  PROVE  /\ mark' \in [Path -> Nat] /\ shown' \in [Path -> SUBSET Nat]
         /\ \A p \in Path :
               \/ mark'[p] = m[p] /\ shown'[p] = shown[p]
               \/ /\ l[p] # <<>> /\ mark'[p] = Last(l[p])
                  /\ \A i \in DOMAIN l[p] : l[p][i] \in shown'[p]
<1> DEFINE on == open /\ sel # None /\ (sel # None => l[sel] # <<>>)
<1>1. CASE on
  <2>1. l[sel] # <<>> /\ mark' = [m EXCEPT ![sel] = Last(l[sel])] /\ shown' = [shown EXCEPT ![sel] = @ \cup Range(l[sel])]
    BY <1>1 DEF markRefusalsSeen
  <2>2. \A p \in Path : l[p] # <<>> => Last(l[p]) \in Nat /\ Range(l[p]) \subseteq Nat
    BY DEF Last, Range
  <2>3. \A p \in Path : \A i \in DOMAIN l[p] : l[p][i] \in Range(l[p])
    BY DEF Range
  <2> QED
    BY <2>1, <2>2, <2>3
<1>2. CASE ~on
  <2>1. mark' = m /\ shown' = shown
    BY <1>2 DEF markRefusalsSeen
  <2> QED
    BY <2>1
<1> QED
  BY <1>1, <1>2

(* A key that opens the pane or moves the selection.                       *)
LEMMA LookLog ==
  ASSUME LogInv, NEW open, NEW sel, markRefusalsSeen(open, sel, log, mark),
         UNCHANGED <<recorded, wiped, ring, left, got, fetching, log>>
  PROVE  LogInv'
<1> USE DEF LogInv
<1>1. /\ mark' \in [Path -> Nat] /\ shown' \in [Path -> SUBSET Nat]
      /\ \A p \in Path : \/ mark'[p] = mark[p] /\ shown'[p] = shown[p]
                         \/ /\ log[p] # <<>> /\ mark'[p] = Last(log[p])
                            /\ \A i \in DOMAIN log[p] : log[p][i] \in shown'[p]
  BY MarkSeen DEF LogTypeOK
<1>2. LogTypeOK'
  BY <1>1 DEF LogTypeOK, Idle
<1>3. Rings' /\ OneFetch' /\ LogInOrder' /\ \A p \in Path : Logged(p)'
  BY DEF Rings, Window, Rotated, OneFetch, Idle, LogInOrder, Logged, EndsAfter
<1>4. \A f \in Fetch, p \in Path : Brings(f, p)'
  BY DEF Brings, Window, Rotated, Idle, EndsAfter
<1>5. ASSUME NEW p \in Path PROVE Marked(p)'
  <2>1. CASE mark'[p] = mark[p] /\ shown'[p] = shown[p]
    BY <2>1 DEF Marked
  <2>2. CASE log[p] # <<>> /\ mark'[p] = Last(log[p]) /\ \A i \in DOMAIN log[p] : log[p][i] \in shown'[p]
    <3>1. Last(log[p]) \in Nat
      BY <2>2 DEF LogTypeOK, Last
    <3> QED
      BY <2>2, <3>1 DEF Marked
  <2> QED
    BY <1>1, <2>1, <2>2
<1> QED
  BY <1>2, <1>3, <1>4, <1>5

(* A tick starts a fetch only when none is out.                            *)
LEMMA TickLog ==
  ASSUME LogInv, NEW f \in Fetch, Tick(f)
  PROVE  LogInv'
<1> USE DEF LogInv
<1>0. /\ ~fetching /\ fetching' = TRUE /\ left' = [left EXCEPT ![f] = Discover]
      /\ UNCHANGED <<recorded, wiped, ring, got, log, mark, shown>>
  BY DEF Tick, wantFetch, daemons, table, seen
<1>1. \A g \in Fetch : Idle(g)
  BY <1>0 DEF OneFetch
<1>2. \A g \in Fetch : left'[g] = IF g = f THEN Discover ELSE left[g]
  BY <1>0 DEF LogTypeOK
<1>3. LogTypeOK'
  BY <1>0, <1>2, DashboardAssumption DEF LogTypeOK, Idle
<1>4. OneFetch'
  BY <1>0, <1>1, <1>2 DEF OneFetch, Idle
<1>5. Rings' /\ LogInOrder' /\ \A p \in Path : Logged(p)' /\ Marked(p)'
  BY <1>0 DEF Rings, Window, Rotated, LogInOrder, Logged, Marked, EndsAfter
<1>6. \A g \in Fetch, p \in Path : got[g][p].ring = <<>>
  BY <1>1 DEF Brings
<1>7. \A g \in Fetch, p \in Path : Brings(g, p)'
  BY <1>0, <1>6 DEF Brings
<1> QED
  BY <1>3, <1>4, <1>5, <1>7

(* A fetch reads a socket: what it brings is the ring as it is.            *)
LEMMA FetchLog ==
  ASSUME LogInv, NEW f \in Fetch, FetchOne(f)
  PROVE  LogInv'
<1> USE DEF LogInv
<1> DEFINE q == Head(left[f])
<1>late. PICK late \in BOOLEAN : got' = [got EXCEPT ![f][q] =
                                        IF late \/ daemon[q] = "down" THEN NoSnap
                                        ELSE [answered |-> TRUE, usable |-> daemon[q] = "up",
                                              ring |-> IF daemon[q] = "up" THEN ring[q] ELSE <<>>]]
  BY DEF FetchOne
<1> DEFINE snap == IF late \/ daemon[q] = "down" THEN NoSnap
                   ELSE [answered |-> TRUE, usable |-> daemon[q] = "up",
                         ring |-> IF daemon[q] = "up" THEN ring[q] ELSE <<>>]
<1>0. /\ ~Idle(f) /\ left[f] # <<>> /\ got' = [got EXCEPT ![f][q] = snap] /\ left' = [left EXCEPT ![f] = Tail(left[f])]
      /\ UNCHANGED <<recorded, wiped, ring, fetching, log, mark, shown>>
  BY <1>late DEF FetchOne, daemons, table, seen, LogTypeOK
<1>1. left[f] \in Seq(Path) /\ q \in Path /\ Tail(left[f]) \in Seq(Path)
  BY <1>0 DEF LogTypeOK
<1>2. /\ snap \in [usable : BOOLEAN, answered : BOOLEAN, ring : Seq(Nat)]
      /\ snap.ring = <<>> \/ (snap.ring = ring[q] /\ snap.usable)
  <2>0. ring[q] \in Seq(Nat) /\ <<>> \in Seq(Nat)
    BY <1>1 DEF LogTypeOK
  <2>1. CASE late \/ daemon[q] = "down"
    BY <2>0, <2>1 DEF NoSnap
  <2>2. CASE ~late /\ daemon[q] = "up"
    <3>1. snap = [answered |-> TRUE, usable |-> TRUE, ring |-> ring[q]]
      BY <2>2
    <3> HIDE DEF snap
    <3> QED
      BY <2>0, <3>1
  <2>3. CASE ~late /\ daemon[q] \notin {"down", "up"}
    <3>1. snap = [answered |-> TRUE, usable |-> FALSE, ring |-> <<>>]
      BY <2>3
    <3> HIDE DEF snap
    <3> QED
      BY <2>0, <3>1
  <2> QED
    BY <2>1, <2>2, <2>3
<1> HIDE DEF snap, q
<1>3. \A g \in Fetch, p \in Path : got'[g][p] = IF g = f /\ p = q THEN snap ELSE got[g][p]
  BY <1>0, <1>1 DEF LogTypeOK
<1>4. \A g \in Fetch : left'[g] = IF g = f THEN Tail(left[f]) ELSE left[g]
  BY <1>0 DEF LogTypeOK
<1>5. \A g \in Fetch : Idle(g)' <=> Idle(g)
  <2>1. Tail(left[f]) # <<None>>
    <3>1. <<None>> \notin Seq(Path)
      BY DashboardAssumption
    <3> QED
      BY <1>1, <3>1
  <2> QED
    BY <1>0, <1>4, <2>1 DEF Idle
<1>6. LogTypeOK'
  <2>1. got' \in [Fetch -> [Path -> [usable : BOOLEAN, answered : BOOLEAN, ring : Seq(Nat)]]]
    BY <1>0, <1>1, <1>2 DEF LogTypeOK
  <2>2. DOMAIN left' = Fetch /\ \A g \in Fetch : Idle(g)' \/ left'[g] \in Seq(Path)
    BY <1>0, <1>1, <1>4, <1>5 DEF LogTypeOK
  <2> QED
    BY <1>0, <2>1, <2>2 DEF LogTypeOK
<1>7. OneFetch'
  BY <1>0, <1>5 DEF OneFetch
<1>8. Rings' /\ LogInOrder' /\ \A p \in Path : Logged(p)' /\ Marked(p)'
  BY <1>0 DEF Rings, Window, Rotated, LogInOrder, Logged, Marked, EndsAfter
<1>9. ASSUME NEW g \in Fetch, NEW p \in Path PROVE Brings(g, p)'
  <2>1. CASE g = f /\ p = q /\ snap.ring # <<>>
    <3>1. got'[g][p].ring = ring[p] /\ got'[g][p].usable /\ ring[p] # <<>>
      BY <1>2, <1>3, <2>1
    <3>2. ring[p] \in Seq(Nat) /\ Len(ring[p]) \in Int /\ recorded[p] \in Int /\ Window(p, ring[p], recorded[p])
      BY DEF LogTypeOK, Rings
    <3>3. Len(ring[p]) \in DOMAIN ring[p] /\ \A i \in DOMAIN ring[p] : ring[p][i] = recorded[p] - Len(ring[p]) + i
      BY <3>1, <3>2 DEF Window
    <3>4. Last(ring[p]) = recorded[p]
      BY ONLY <3>2, <3>3 DEF Last
    <3>5. Last(ring[p]) - Len(ring[p]) = Rotated(p) /\ Rotated(p) \in Int
      BY <3>2, <3>4 DEF Rotated
    <3>6. log[p] # <<>> => Last(log[p]) <= Last(ring[p]) /\ EndsAfter(log[p], Rotated(p))
      BY <3>4 DEF Logged
    <3>7. /\ log' = log /\ ring' = ring /\ recorded' = recorded /\ wiped' = wiped /\ ~Idle(g)'
      BY <1>0, <1>5, <2>1
    <3>8. Window(p, ring[p], Last(ring[p])) /\ Rotated(p) <= Rotated(p) /\ Last(ring[p]) <= recorded[p]
      BY <3>2, <3>4, <3>5
    <3> QED
      BY ONLY <3>1, <3>5, <3>6, <3>7, <3>8 DEF Brings, Window, Rotated, EndsAfter
  <2>2. CASE g = f /\ p = q /\ snap.ring = <<>>
    BY <1>3, <2>2 DEF Brings
  <2>3. CASE ~(g = f /\ p = q)
    <3>1. got'[g][p] = got[g][p] /\ Brings(g, p)
      BY <1>3, <2>3
    <3> QED
      BY <1>0, <1>5, <3>1 DEF Brings, Window, Rotated, EndsAfter
  <2> QED
    BY <2>1, <2>2, <2>3
<1> QED
  BY <1>6, <1>7, <1>8, <1>9

(* A fetch is applied to one path.                                         *)
LEMMA ApplyPath ==
  ASSUME LogInv, NEW f \in Fetch, NEW p \in Path, left[f] = <<>>,
         NEW l, l = log[p] \/ (l = <<>> /\ ~got[f][p].usable),
         NEW n, n = accumulate(l, got[f][p].ring)
  PROVE  /\ n \in Seq(Nat \ {0}) /\ Len(n) <= refusalCap /\ Increasing(n)
         /\ n # <<>> => Last(n) <= recorded[p] /\ EndsAfter(n, Rotated(p))
         /\ n # <<>> => \A z \in Head(n) .. Last(n) : Contains(n, z) \/ z + RingSize <= Last(n) \/ z <= wiped[p]
         /\ n # <<>> => log[p] = <<>> \/ Last(log[p]) <= Last(n)
         /\ \A i \in DOMAIN n : Contains(log[p], n[i]) \/ log[p] = <<>> \/ n[i] > Last(log[p])
<1> USE DEF LogInv
<1> DEFINE r == got[f][p].ring
<1>0. log[p] \in Seq(Nat \ {0}) /\ r \in Seq(Nat) /\ Increasing(log[p]) /\ Len(log[p]) <= refusalCap
  BY DEF LogTypeOK, Logged, Increasing
<1>1. CASE r # <<>>
  <2> DEFINE b == Last(r) - Len(r)
  <2>1. /\ got[f][p].usable /\ Window(p, r, Last(r)) /\ b <= Rotated(p) /\ Last(r) <= recorded[p]
        /\ log[p] # <<>> => Last(log[p]) <= Last(r) /\ EndsAfter(log[p], b)
    BY <1>1 DEF Brings
  <2>t. /\ Last(r) \in Int /\ Len(r) \in Int /\ 0 < Len(r) /\ recorded[p] \in Int /\ Rotated(p) \in Int
        /\ RingSize \in Int /\ wiped[p] \in Int
    <3>1. Len(r) \in Nat /\ Len(r) # 0 /\ Last(r) \in Nat
      BY <1>0, <1>1 DEF Last
    <3>2. recorded[p] \in Nat /\ wiped[p] \in Nat /\ Len(ring[p]) \in Nat
      BY DEF LogTypeOK
    <3> QED
      BY <3>1, <3>2, DashboardAssumption DEF Rotated
  <2>2. Len(r) <= RingSize /\ Len(r) <= Last(r) /\ (Len(r) = RingSize \/ b <= wiped[p]) /\ \A i \in DOMAIN r : r[i] = b + i
    BY <2>1 DEF Window
  <2>3. l = log[p]
    BY <2>1
  <2>4. b \in Nat /\ b + Len(r) = Last(r)
    BY ONLY <2>2, <2>t
  <2> HIDE DEF r, b
  <2>5. /\ n \in Seq(Nat \ {0}) /\ n # <<>> /\ Len(n) <= refusalCap /\ Increasing(n)
        /\ Last(n) = Last(r) /\ EndsAfter(n, b)
        /\ \A i \in DOMAIN n : Contains(l, n[i]) \/ l = <<>> \/ n[i] > Last(l)
    <3>1. n = accumulate(log[p], r)
      BY <2>3 DEF r
    <3> QED
      BY ONLY <1>0, <1>1, <2>1, <2>2, <2>3, <2>4, <3>1, AddWindow
  <2>6. EndsAfter(n, Rotated(p))
    <3>1. \A x \in Rotated(p) + 1 .. Last(n) : x \in b + 1 .. Last(n)
      BY ONLY <2>1, <2>4, <2>5, <2>t
    <3> QED
      BY <2>5, <3>1 DEF EndsAfter
  <2>7. ASSUME NEW z \in Head(n) .. Last(n) PROVE Contains(n, z) \/ z + RingSize <= Last(n) \/ z <= wiped[p]
    <3>1. Head(n) \in Int /\ z \in Int /\ z <= Last(n)
      BY <2>5, <2>t
    <3>2. CASE z > b
      <4>1. z \in b + 1 .. Last(n)
        BY ONLY <2>4, <2>5, <2>t, <3>1, <3>2
      <4>2. Last(n) - z < Len(n) /\ n[Len(n) - (Last(n) - z)] = z
        BY <2>5, <4>1 DEF EndsAfter
      <4>3. Len(n) \in Int
        BY <2>5
      <4>4. Len(n) - (Last(n) - z) \in 1 .. Len(n)
        BY ONLY <2>5, <2>t, <3>1, <4>2, <4>3
      <4> QED
        BY <4>2, <4>4 DEF Contains
    <3>3. CASE z <= b
      BY ONLY <2>2, <2>4, <2>5, <2>t, <3>1, <3>3
    <3> QED
      BY <2>4, <3>1, <3>2, <3>3
  <2> QED
    BY <2>1, <2>3, <2>5, <2>6, <2>7
<1>2. CASE r = <<>>
  <2>1. l \in Seq(Nat \ {0}) /\ Len(l) <= refusalCap /\ (l = <<>> \/ l = log[p])
    <3>1. <<>> \in Seq(Nat \ {0}) /\ Len(<<>>) <= refusalCap
      BY DashboardAssumption
    <3> QED
      BY <1>0, <3>1
  <2>2. n = l
    <3>1. {i \in DOMAIN r : ~Contains(l, r[i])} = 0 + 1 .. Len(r) /\ Len(r) = 0 /\ 0 \in 0 .. Len(r) /\ r \in Seq(Nat \ {0})
      BY <1>2
    <3> HIDE DEF r
    <3>2. n = Newest(l \o [k \in 1 .. Len(r) - 0 |-> r[0 + k]], refusalCap)
      BY <2>1, <3>1, NewEntries DEF r
    <3>3. [k \in 1 .. Len(r) - 0 |-> r[0 + k]] = <<>>
      BY <3>1
    <3>4. n = Newest(l, refusalCap)
      BY <2>1, <3>2, <3>3, ConcatEmptySeq
    <3>5. Newest(l, refusalCap) = SubSeq(l, 1, Len(l))
      BY <2>1, DashboardAssumption DEF Newest
    <3> QED
      BY <2>1, <3>4, <3>5, SubSeqFull
  <2>3. CASE l = log[p]
    <3>1. log[p] # <<>> => Last(log[p]) \in Nat
      BY <1>0 DEF Last
    <3>2. \A i \in DOMAIN log[p] : Contains(log[p], log[p][i])
      BY <1>0 DEF Contains
    <3>3. \A z \in Head(log[p]) .. Last(log[p]) : log[p] # <<>> => Contains(log[p], z) \/ z + RingSize <= Last(log[p]) \/ z <= wiped[p]
      BY DEF LogInOrder
    <3> QED
      BY <1>0, <2>2, <2>3, <3>1, <3>2, <3>3 DEF Logged
  <2>4. CASE l = <<>>
    BY <2>1, <2>2, <2>4 DEF Increasing
  <2> QED
    BY <2>1, <2>3, <2>4
<1> QED
  BY <1>1, <1>2

(* A fetch is applied: one path after another, and the pane shows the rest. *)
LEMMA ApplyLog ==
  ASSUME LogInv, NEW f \in Fetch, applySnapshots(f)
  PROVE  LogInv'
<1> USE DEF LogInv
<1>0. /\ left[f] = <<>> /\ left' = [left EXCEPT ![f] = <<None>>] /\ got' = [got EXCEPT ![f] = [p \in Path |-> NoSnap]]
      /\ fetching' = FALSE /\ UNCHANGED <<recorded, wiped, ring>>
      /\ log' = mergeRefusals(Kept(got[f]), got[f])
      /\ markRefusalsSeen(pane, selected', log', pruneSeen(log'))
  BY DEF applySnapshots, daemons
<1>1. ASSUME NEW p \in Path
      PROVE  /\ log'[p] \in Seq(Nat \ {0}) /\ Len(log'[p]) <= refusalCap /\ Increasing(log'[p])
             /\ log'[p] # <<>> => Last(log'[p]) <= recorded[p] /\ EndsAfter(log'[p], Rotated(p))
             /\ log'[p] # <<>> => \A z \in Head(log'[p]) .. Last(log'[p]) :
                                     Contains(log'[p], z) \/ z + RingSize <= Last(log'[p]) \/ z <= wiped[p]
             /\ log'[p] # <<>> => log[p] = <<>> \/ Last(log[p]) <= Last(log'[p])
             /\ \A i \in DOMAIN log'[p] : Contains(log[p], log'[p][i]) \/ log[p] = <<>> \/ log'[p][i] > Last(log[p])
  <2>1. PICK l : l = (IF p \in Kept(got[f]) THEN log[p] ELSE <<>>)
    OBVIOUS
  <2>2. log'[p] = accumulate(l, got[f][p].ring)
    BY <1>0, <2>1 DEF mergeRefusals
  <2>3. l = log[p] \/ (l = <<>> /\ ~got[f][p].usable)
    BY <2>1 DEF Kept
  <2> QED
    BY <1>0, <2>2, <2>3, ApplyPath
<1>2. log' \in [Path -> Seq(Nat \ {0})]
  BY <1>0, <1>1 DEF mergeRefusals
<1>3. /\ pruneSeen(log') \in [Path -> Nat]
      /\ \A p \in Path : pruneSeen(log')[p] = IF log'[p] = <<>> THEN 0 ELSE mark[p]
  BY DEF LogTypeOK, pruneSeen
<1>4. /\ mark' \in [Path -> Nat] /\ shown' \in [Path -> SUBSET Nat]
      /\ \A p \in Path : \/ mark'[p] = pruneSeen(log')[p] /\ shown'[p] = shown[p]
                         \/ /\ log'[p] # <<>> /\ mark'[p] = Last(log'[p])
                            /\ \A i \in DOMAIN log'[p] : log'[p][i] \in shown'[p]
  <2>1. PICK l \in [Path -> Seq(Nat \ {0})] : l = log'
    BY <1>2
  <2>2. PICK m \in [Path -> Nat] : m = pruneSeen(log')
    BY <1>3
  <2>3. PICK sel : sel = selected'
    OBVIOUS
  <2>4. markRefusalsSeen(pane, sel, l, m) /\ shown \in [Path -> SUBSET Nat]
    BY <1>0, <2>1, <2>2, <2>3 DEF markRefusalsSeen, LogTypeOK
  <2> QED
    BY <2>1, <2>2, <2>4, MarkSeen
<1>5. \A g \in Fetch : left'[g] = IF g = f THEN <<None>> ELSE left[g]
  BY <1>0 DEF LogTypeOK
<1>6. \A g \in Fetch : Idle(g)'
  <2>1. ~Idle(f)
    BY <1>0 DEF Idle
  <2> QED
    BY <1>5, <2>1 DEF OneFetch, Idle
<1>7. LogTypeOK'
  <2>1. got' \in [Fetch -> [Path -> [usable : BOOLEAN, answered : BOOLEAN, ring : Seq(Nat)]]]
    BY <1>0 DEF LogTypeOK, NoSnap
  <2>2. DOMAIN left' = Fetch
    BY <1>0 DEF LogTypeOK
  <2> QED
    BY <1>0, <1>2, <1>4, <1>6, <2>1, <2>2 DEF LogTypeOK
<1>8. OneFetch'
  BY <1>6 DEF OneFetch
<1>9. Rings'
  BY <1>0 DEF Rings, Window, Rotated
<1>10. ASSUME NEW g \in Fetch, NEW p \in Path PROVE Brings(g, p)'
  <2>1. CASE g = f
    <3>1. got'[g][p] = NoSnap
      BY <1>0, <2>1 DEF LogTypeOK
    <3> QED
      BY <3>1 DEF Brings, NoSnap
  <2>2. CASE g # f
    <3>1. got'[g] = got[g] /\ Idle(g)
      BY <1>0, <1>5, <1>6, <2>2 DEF LogTypeOK, Idle
    <3>2. got[g][p].ring = <<>>
      BY <3>1 DEF Brings
    <3> QED
      BY <3>1, <3>2 DEF Brings
  <2> QED
    BY <2>1, <2>2
<1>11. ASSUME NEW p \in Path PROVE Logged(p)'
  BY <1>0, <1>1 DEF Logged, Increasing, EndsAfter, Rotated
<1>12. ASSUME NEW p \in Path PROVE Marked(p)'
  <2>0. /\ log[p] \in Seq(Nat \ {0}) /\ log'[p] \in Seq(Nat \ {0}) /\ Marked(p)
        /\ \A i \in DOMAIN log'[p] : log'[p][i] \in Nat \ {0}
        /\ log[p] # <<>> => Last(log[p]) \in Nat
        /\ log'[p] # <<>> => Last(log'[p]) \in Nat
        /\ mark[p] \in Nat
    BY <1>1 DEF LogTypeOK, Last
  <2>1. CASE log'[p] = <<>> /\ mark'[p] = pruneSeen(log')[p] /\ shown'[p] = shown[p]
    BY <1>3, <2>1 DEF Marked
  <2>2. CASE log'[p] # <<>> /\ mark'[p] = pruneSeen(log')[p] /\ shown'[p] = shown[p]
    <3>1. mark'[p] = mark[p]
      BY <1>3, <2>2
    <3>2. mark[p] <= IF log[p] = <<>> THEN 0 ELSE Last(log[p])
      BY <2>0 DEF Marked
    <3>3. log[p] = <<>> \/ Last(log[p]) <= Last(log'[p])
      BY <1>1, <2>2
    <3>4. mark'[p] <= IF log'[p] = <<>> THEN 0 ELSE Last(log'[p])
      BY ONLY <2>0, <2>2, <3>1, <3>2, <3>3
    <3>5. ASSUME NEW i \in DOMAIN log'[p], log'[p][i] <= mark[p] PROVE log'[p][i] \in shown[p]
      <4>1. log[p] # <<>> /\ ~(log'[p][i] > Last(log[p]))
        BY <2>0, <3>2, <3>5
      <4>2. PICK j \in 1 .. Len(log[p]) : log[p][j] = log'[p][i]
        BY <1>1, <4>1 DEF Contains
      <4>3. j \in DOMAIN log[p]
        BY <2>0
      <4> QED
        BY <2>0, <3>5, <4>2, <4>3 DEF Marked
    <3> QED
      BY <2>2, <3>1, <3>4, <3>5 DEF Marked
  <2>3. CASE log'[p] # <<>> /\ mark'[p] = Last(log'[p]) /\ \A i \in DOMAIN log'[p] : log'[p][i] \in shown'[p]
    BY <2>0, <2>3 DEF Marked
  <2> QED
    BY <1>4, <2>1, <2>2, <2>3
<1>13. LogInOrder'
  <2> SUFFICES ASSUME NEW p \in Path, log'[p] # <<>>
               PROVE  /\ \A i \in 1 .. Len(log'[p]) - 1 : log'[p][i] < log'[p][i + 1]
                      /\ \A z \in Head(log'[p]) .. Last(log'[p]) :
                            Contains(log'[p], z) \/ z + RingSize <= Last(log'[p]) \/ z <= wiped'[p]
    BY DEF LogInOrder
  <2>1. ASSUME NEW i \in 1 .. Len(log'[p]) - 1 PROVE log'[p][i] < log'[p][i + 1]
    <3>1. i \in DOMAIN log'[p] /\ i + 1 \in DOMAIN log'[p] /\ i < i + 1
      BY <1>1
    <3> QED
      BY <1>1, <3>1 DEF Increasing
  <2> QED
    BY <1>0, <1>1, <2>1
<1> QED
  BY <1>7, <1>8, <1>9, <1>10, <1>11, <1>12, <1>13

(* A key shows a log or leaves the log alone.                              *)
LEMMA KeyLog ==
  ASSUME LogInv, Key
  PROVE  LogInv'
<1> DEFINE still == UNCHANGED <<recorded, wiped, ring, left, got, fetching, log, mark, shown>>
<1>1. CASE openDoctor \/ KeyRerun \/ DoctorEsc \/ KeySwitcher \/ SwitcherClose \/ KeyEsc
  <2>1. still
    BY <1>1 DEF openDoctor, startDoctor, KeyRerun, DoctorEsc, KeySwitcher, SwitcherClose, KeyEsc,
       daemons, fetches, table, seen
  <2> QED
    BY <2>1, QuietLog
<1>2. CASE KeyRefusals
  <2>1. PICK open : open = pane'
    OBVIOUS
  <2>2. /\ markRefusalsSeen(open, selected, log, mark)
        /\ UNCHANGED <<recorded, wiped, ring, left, got, fetching, log>>
    BY <1>2, <2>1 DEF KeyRefusals, daemons, fetches, table
  <2> QED
    BY <2>2, LookLog
<1>3. ASSUME NEW p, selectPath(p) PROVE LogInv'
  <2>1. /\ markRefusalsSeen(pane, p, log, mark)
        /\ UNCHANGED <<recorded, wiped, ring, left, got, fetching, log>>
    BY <1>3 DEF selectPath, daemons, fetches, table
  <2> QED
    BY <2>1, LookLog
<1>4. ASSUME NEW n, step(n) PROVE LogInv'
  BY <1>3, <1>4 DEF step
<1>5. ASSUME NEW n, selectNth(n) PROVE LogInv'
  BY <1>3, <1>5 DEF selectNth
<1> QED
  BY <1>1, <1>2, <1>4, <1>5 DEF Key

(* The inductive invariant of the refusal log.                             *)
THEOREM LogInvariance == Spec => []LogInv
<1>1. LogInv /\ [Next]_vars => LogInv'
  <2> SUFFICES ASSUME LogInv, [Next]_vars PROVE LogInv'
    OBVIOUS
  <2>1. CASE Key
    BY <2>1, KeyLog
  <2>2. CASE \E g \in Gen : applyDoctorDone(g) \/ applyDoctorFailed(g)
    BY <2>2, QuietLog DEF applyDoctorDone, applyDoctorFailed, daemons, fetches, table, seen
  <2>3. CASE \E p \in Path : Record(p) \/ \E d \in {"up", "skewed", "down"} : Stop(p, d)
    BY <2>3, RecordLog, StopLog
  <2>4. CASE \E f \in Fetch : Tick(f) \/ FetchOne(f) \/ applySnapshots(f)
    BY <2>4, TickLog, FetchLog, ApplyLog
  <2>5. CASE UNCHANGED vars
    BY <2>5, QuietLog DEF vars, daemons, fetches, table, seen
  <2> QED
    BY <2>1, <2>2, <2>3, <2>4, <2>5 DEF Next
<1> QED
  BY InitLog, <1>1, PTL DEF Spec

(* However slow a fetch and whatever daemons come and go, a log is in the  *)
(* order its daemon recorded, and lacks only what no fetch could have read *)
(* (accumulate).                                                           *)
THEOREM LogsInOrder == Spec => []LogInOrder
<1>1. LogInv => LogInOrder
  BY DEF LogInv
<1> QED
  BY <1>1, LogInvariance, PTL

(* However the log was trimmed, dropped and filled again, every line that  *)
(* unseenRefusals does not count has been on screen.                       *)
THEOREM NoneHidden == Spec => []NothingHidden
<1>1. LogInv => NothingHidden
  <2> SUFFICES ASSUME LogInv, NEW p \in Path, NEW i \in 1 .. Len(log[p]) - unseenRefusals(p) PROVE log[p][i] \in shown[p]
    BY DEF NothingHidden
  <2> DEFINE at == {j \in DOMAIN log[p] : log[p][j] = mark[p]}
             last == CHOOSE j \in at : TRUE
  <2>1. log[p] \in Seq(Nat \ {0}) /\ Len(log[p]) \in Nat /\ DOMAIN log[p] = 1 .. Len(log[p]) /\ mark[p] \in Nat
    BY DEF LogInv, LogTypeOK
  <2>2. at # {}
    <3>1. at = {} => unseenRefusals(p) = Len(log[p])
      BY DEF unseenRefusals
    <3> QED
      BY <2>1, <3>1
  <2>3. last \in DOMAIN log[p] /\ log[p][last] = mark[p]
    BY <2>2
  <2>4. unseenRefusals(p) = Len(log[p]) - last
    BY <2>2 DEF unseenRefusals
  <2> HIDE DEF last
  <2>5. i \in Int /\ i <= last /\ 1 <= i /\ last \in Int /\ last <= Len(log[p])
    <3>1. last \in Int /\ last <= Len(log[p]) /\ i \in 1 .. Len(log[p]) - (Len(log[p]) - last)
      BY <2>1, <2>3, <2>4
    <3> QED
      BY ONLY <2>1, <3>1
  <2>6. i \in DOMAIN log[p] /\ log[p][i] \in Nat
    BY <2>1, <2>5
  <2>7. log[p][i] <= mark[p]
    <3>1. i < last => log[p][i] < log[p][last]
      BY <2>3, <2>6 DEF LogInv, Logged, Increasing
    <3>2. i = last \/ i < last
      BY <2>5
    <3> QED
      BY <2>1, <2>3, <2>6, <3>1, <3>2
  <2> QED
    BY <2>6, <2>7 DEF LogInv, Marked
<1> QED
  BY <1>1, LogInvariance, PTL

=============================================================================
