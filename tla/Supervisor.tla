----------------------------- MODULE Supervisor -----------------------------
(***************************************************************************)
(* Supervision of seccomp notify fds in the guest agent: handoffs on the   *)
(* probe and the OCI socket, admission, the supervisor loop, systemd's fd  *)
(* store and re-adoption by the next agent process                         *)
(* (internal/agent/notify.go, notifycap.go, fdstore.go, ociseccomp.go).    *)
(*                                                                         *)
(* A file is an open file of the kernel; the agent knows it by fd numbers, *)
(* which the kernel reuses as soon as they are closed.  A filter's         *)
(* listener lives while some process or the store refers to it.  Every     *)
(* handoff has a goroutine; each of its lock sections, atomic operations   *)
(* and system calls is a step.                                             *)
(***************************************************************************)
EXTENDS Naturals, FiniteSets

CONSTANTS
  Oci,        \* listeners of containers: the runtime hands over the only reference
  Probe,      \* listeners of probe senders, which keep a reference
  Junk,       \* files that are not seccomp listeners
  Fd,         \* fd numbers
  Worker,     \* goroutines; identities are used again
  Name,       \* names in the store; used again once nobody has them
  Max,        \* maxSupervisedNotifyFds
  StoreCap,   \* FileDescriptorStoreMax
  Kcmp,       \* kcmp(2) is available
  MaxSem,     \* bound: notifications that nobody has received
  MaxFaults,  \* bound: ends of the agent process, failed polls and sends
  None

Filter == Oci \cup Probe
File == Filter \cup Junk

ASSUME KindAssumption ==
  /\ Oci \cap Probe = {} /\ Filter \cap Junk = {}
  /\ None \notin File /\ None \notin Name /\ None \notin Fd
  /\ {"no", "init", "orphan"} \cap Worker = {}
ASSUME CapAssumption == Max \in Nat /\ StoreCap \in Nat /\ StoreCap <= Max
ASSUME SwitchAssumption == Kcmp \in BOOLEAN
ASSUME BoundAssumption == MaxSem \in Nat /\ MaxFaults \in Nat
ASSUME FiniteAssumption == IsFiniteSet(Worker)

VARIABLES
  \* the kernel and systemd
  alive,    \* filters with a task left
  pend,     \* pend[f]: the blocked bind: none, "init", received by a worker,
            \* or "orphan": received, and nobody will answer it
  sem,      \* sem[f]: notifications announced and not yet received
  stored,   \* stored[m]: the file systemd keeps under name m, or None
  \* the agent process
  phase,    \* "stopped", "down" (systemd restarts it), "adopting" or "up" (sockets open)
  toAdopt,  \* inherited fds that AdoptStoredFds has still to look at: <<fd, name>>
  file,     \* file[d]: the open file behind fd number d, or None
  tracked,  \* c.fds
  n,        \* c.n: the capped bucket
  trusted,  \* c.trusted
  pc,       \* pc[w]: where goroutine w is
  fdOf,     \* fdOf[w]: its fd
  nameOf,   \* nameOf[w]: the store name it will remove, or None
  slot,     \* slot[w]: the bucket it will release: "capped", "trusted" or "none"
  \* history and bounds
  adopted,  \* files this process has inherited
  safe,     \* files systemd has stored, unless their supervisor failed or a full
            \* stop released the store
  faults

kernel == <<alive, pend, sem>>
process == <<phase, toAdopt, file, tracked, n, trusted, pc, fdOf, nameOf, slot>>
history == <<adopted, safe, faults>>
vars == <<kernel, stored, process, history>>

Supervising == {"storing", "running", "recv", "answer", "ended"}
States == {"free", "probe", "oci", "released", "untracked", "closed", "removed", "inherited"}
          \cup Supervising

TypeOK ==
  /\ alive \in SUBSET Filter
  /\ pend \in [Filter -> {"no", "init", "orphan"} \cup Worker]
  /\ sem \in [Filter -> Nat]
  /\ stored \in [Name -> Filter \cup {None}]
  /\ phase \in {"stopped", "down", "adopting", "up"}
  /\ toAdopt \in SUBSET (Fd \X Name)
  /\ file \in [Fd -> File \cup {None}]
  /\ tracked \in SUBSET Fd
  /\ n \in Nat /\ trusted \in Nat
  /\ pc \in [Worker -> States]
  /\ fdOf \in [Worker -> Fd \cup {None}]
  /\ nameOf \in [Worker -> Name \cup {None}]
  /\ slot \in [Worker -> {"none", "capped", "trusted"}]
  /\ adopted \in SUBSET File /\ safe \in SUBSET Filter
  /\ faults \in Nat
  /\ \A w \in Worker : pc[w] \in Supervising => fdOf[w] \in Fd /\ file[fdOf[w]] \in Filter

NoWorkers ==
  /\ tracked = {} /\ n = 0 /\ trusted = 0
  /\ pc = [w \in Worker |-> "free"] /\ fdOf = [w \in Worker |-> None]
  /\ nameOf = [w \in Worker |-> None] /\ slot = [w \in Worker |-> "none"]

Init ==
  /\ alive = {} /\ pend = [f \in Filter |-> "no"] /\ sem = [f \in Filter |-> 0]
  /\ stored = [m \in Name |-> None]
  /\ phase = "up" /\ toAdopt = {} /\ file = [d \in Fd |-> None]
  /\ NoWorkers
  /\ adopted = {} /\ safe = {} /\ faults = 0

-----------------------------------------------------------------------------
(* The kernel, systemd and the guest's programs (external) *)

Referenced(f) ==
  \/ \E d \in Fd : file[d] = f
  \/ \E m \in Name : stored[m] = f
  \/ f \in Probe \cap alive

\* The listener of a live filter is closed: its binds fail with ENOSYS.
Lost(f) == f \in alive /\ ~Referenced(f)

Launch(f) ==
  /\ f \in Filter \ alive /\ ~Referenced(f)
  /\ alive' = alive \cup {f}
  /\ sem' = [sem EXCEPT ![f] = 0]
  /\ safe' = safe \ {f} /\ adopted' = adopted \ {f}

Receive(f, w, d, at) ==
  /\ phase = "up" /\ pc[w] = "free" /\ file[d] = None
  /\ file' = [file EXCEPT ![d] = f]
  /\ pc' = [pc EXCEPT ![w] = at]
  /\ fdOf' = [fdOf EXCEPT ![w] = d]
  /\ UNCHANGED <<pend, stored, phase, toAdopt, tracked, n, trusted, nameOf, slot, faults>>

ProbeStart(f) ==
  /\ f \in Probe /\ Launch(f)
  /\ UNCHANGED <<pend, stored, process, faults>>

\* A sender may hand one listener over as often as it likes.
ProbeHandoff(f, w, d) ==
  /\ f \in (Probe \cap alive) \cup Junk
  /\ Receive(f, w, d, "probe")
  /\ UNCHANGED <<alive, sem, adopted, safe>>

\* The runtime sends the fd while it starts the container, or it starts none.
OciHandoff(f, w, d) ==
  /\ f \in Oci /\ Launch(f)
  /\ Receive(f, w, d, "oci")

OciJunk(f, w, d) ==
  /\ f \in Junk
  /\ Receive(f, w, d, "oci")
  /\ UNCHANGED <<alive, sem, adopted, safe>>

\* A task of f calls bind and blocks.
Bind(f) ==
  /\ f \in alive /\ pend[f] = "no" /\ ~Lost(f) /\ sem[f] < MaxSem
  /\ pend' = [pend EXCEPT ![f] = "init"]
  /\ sem' = [sem EXCEPT ![f] = @ + 1]
  /\ UNCHANGED <<alive, stored, process, history>>

\* The blocked task is signalled away; its announcement stays.
Signalled(f) ==
  /\ pend[f] # "no"
  /\ pend' = [pend EXCEPT ![f] = "no"]
  /\ UNCHANGED <<alive, sem, stored, process, history>>

Exit(f) ==
  /\ f \in alive
  /\ alive' = alive \ {f}
  /\ pend' = [pend EXCEPT ![f] = "no"]
  /\ UNCHANGED <<sem, stored, process, history>>

\* The last reference is closed: blocked binds return.
KernelRelease(f) ==
  /\ Lost(f) /\ pend[f] # "no"
  /\ pend' = [pend EXCEPT ![f] = "no"]
  /\ UNCHANGED <<alive, sem, stored, process, history>>

\* systemd sees POLLHUP on a stored listener.
SystemdDrops(m) ==
  /\ stored[m] \in Filter \ alive
  /\ stored' = [stored EXCEPT ![m] = None]
  /\ UNCHANGED <<kernel, process, history>>

Kernel(f) == Bind(f) \/ Signalled(f) \/ Exit(f) \/ KernelRelease(f) \/ ProbeStart(f)

-----------------------------------------------------------------------------
(* acceptProbeFd, acceptOCIFd, admitProbe, admitTrusted *)

IsListener(d) == file[d] \in Filter

Duplicate_Unchecked(d) == FALSE

\* admitProbe compares the fd with every tracked one, under c.mu.
Duplicate(d) == Kcmp /\ \E t \in tracked : file[t] = file[d]

Acquire_OffByOne == n + 1 < Max

Acquire == n < Max

Refuse(w) ==
  /\ file' = [file EXCEPT ![fdOf[w]] = None]
  /\ pc' = [pc EXCEPT ![w] = "free"]
  /\ fdOf' = [fdOf EXCEPT ![w] = None]
  /\ UNCHANGED <<kernel, stored, phase, toAdopt, tracked, n, trusted, nameOf, slot, history>>

AcceptRefused(w) ==
  /\ \/ pc[w] \in {"probe", "oci"} /\ ~IsListener(fdOf[w])
     \/ pc[w] = "probe" /\ (Duplicate(fdOf[w]) \/ ~Acquire)
  /\ Refuse(w)

\* recvOCIState: the state is malformed or does not name the fd.
OciMalformed(w) ==
  /\ pc[w] = "oci"
  /\ Refuse(w)

AcceptProbeFd(w) ==
  /\ pc[w] = "probe" /\ IsListener(fdOf[w]) /\ ~Duplicate(fdOf[w]) /\ Acquire
  /\ n' = n + 1
  /\ tracked' = tracked \cup {fdOf[w]}
  /\ slot' = [slot EXCEPT ![w] = "capped"]
  /\ pc' = [pc EXCEPT ![w] = "storing"]
  /\ UNCHANGED <<kernel, stored, phase, toAdopt, file, trusted, fdOf, nameOf, history>>

\* admitTrusted never refuses; an adopted fd has its name already.
AdmitTrusted(w) ==
  /\ \/ pc[w] = "oci" /\ IsListener(fdOf[w])
     \/ pc[w] = "released"
  /\ trusted' = trusted + 1
  /\ tracked' = tracked \cup {fdOf[w]}
  /\ slot' = [slot EXCEPT ![w] = "trusted"]
  /\ pc' = [pc EXCEPT ![w] = IF pc[w] = "oci" THEN "storing" ELSE "running"]
  /\ UNCHANGED <<kernel, stored, phase, toAdopt, file, n, fdOf, nameOf, history>>

-----------------------------------------------------------------------------
(* superviseNew and supervise *)

FreshName(m) == stored[m] = None /\ \A w \in Worker : nameOf[w] # m

\* systemd stores f unless it is full or has that file already; no answer comes.
StoreTakes(f) ==
  /\ Cardinality({m \in Name : stored[m] # None}) < StoreCap
  /\ \A m \in Name : stored[m] # f

\* notifyStore.add: there is no store, or the send fails.
StoreAddFails(w) ==
  /\ pc[w] = "storing"
  /\ pc' = [pc EXCEPT ![w] = "running"]
  /\ UNCHANGED <<kernel, stored, phase, toAdopt, file, tracked, n, trusted, fdOf, nameOf, slot, history>>

StoreAdd(w) ==
  /\ pc[w] = "storing"
  /\ \E m \in Name : LET f == file[fdOf[w]] IN
       /\ FreshName(m)
       /\ nameOf' = [nameOf EXCEPT ![w] = m]
       /\ \/ StoreTakes(f) /\ stored' = [stored EXCEPT ![m] = f] /\ safe' = safe \cup {f}
          \/ ~StoreTakes(f) /\ UNCHANGED <<stored, safe>>
  /\ pc' = [pc EXCEPT ![w] = "running"]
  /\ UNCHANGED <<kernel, phase, toAdopt, file, tracked, n, trusted, fdOf, slot, adopted, faults>>

Goto(w, at) ==
  /\ pc' = [pc EXCEPT ![w] = at]
  /\ UNCHANGED <<stored, phase, toAdopt, file, tracked, n, trusted, fdOf, nameOf, slot>>

\* runSupervision: poll says there is a notification, or that no task is left.
Poll(w) ==
  /\ pc[w] = "running"
  /\ LET f == file[fdOf[w]] IN
       \/ pend[f] = "init" /\ Goto(w, "recv")
       \/ pend[f] # "init" /\ f \notin alive /\ Goto(w, "ended")
  /\ UNCHANGED <<kernel, history>>

\* Poll or recv fails: the supervisor gives up on a live filter.
PollError(w) ==
  /\ pc[w] \in {"running", "recv"} /\ faults < MaxFaults
  /\ Goto(w, "ended")
  /\ faults' = faults + 1
  /\ safe' = safe \ {file[fdOf[w]]}
  /\ UNCHANGED <<kernel, adopted>>

AfterNoEnt_Recv == "recv"

AfterNoEnt == "running"

\* NOTIF_RECV blocks while nothing is announced, whether tasks are left or not.
Recv(w) ==
  /\ pc[w] = "recv"
  /\ LET f == file[fdOf[w]] IN
       /\ sem[f] > 0
       /\ sem' = [sem EXCEPT ![f] = @ - 1]
       /\ \/ /\ pend[f] = "init"
             /\ pend' = [pend EXCEPT ![f] = w]
             /\ Goto(w, "answer")
          \/ pend[f] # "init" /\ UNCHANGED pend /\ Goto(w, AfterNoEnt)
  /\ UNCHANGED <<alive, history>>

\* answerBind sends a verdict; it has no effect on a task that has gone.
AnswerBind(w) ==
  /\ pc[w] = "answer"
  /\ LET f == file[fdOf[w]] IN
       pend' = IF pend[f] = w THEN [pend EXCEPT ![f] = "no"] ELSE pend
  /\ Goto(w, "running")
  /\ UNCHANGED <<alive, sem, history>>

\* The verdict cannot be sent: logged, and the bind stays as it is.
AnswerFails(w) ==
  /\ pc[w] = "answer" /\ faults < MaxFaults
  /\ LET f == file[fdOf[w]] IN
       pend' = IF pend[f] = w THEN [pend EXCEPT ![f] = "orphan"] ELSE pend
  /\ Goto(w, "running")
  /\ faults' = faults + 1
  /\ UNCHANGED <<alive, sem, adopted, safe>>

Untracked(d) == tracked \ {d}

Untrack(w) ==
  /\ pc[w] = "ended"
  /\ tracked' = Untracked(fdOf[w])
  /\ pc' = [pc EXCEPT ![w] = "untracked"]
  /\ UNCHANGED <<kernel, stored, phase, toAdopt, file, n, trusted, fdOf, nameOf, slot, history>>

CloseFd(w) ==
  /\ pc[w] = "untracked"
  /\ file' = [file EXCEPT ![fdOf[w]] = None]
  /\ fdOf' = [fdOf EXCEPT ![w] = None]
  /\ pc' = [pc EXCEPT ![w] = "closed"]
  /\ UNCHANGED <<kernel, stored, phase, toAdopt, tracked, n, trusted, nameOf, slot, history>>

Dropped_Kept(m) == stored

Dropped(m) == IF m \in Name THEN [stored EXCEPT ![m] = None] ELSE stored

StoreRemove(w) ==
  /\ pc[w] = "closed"
  /\ stored' = Dropped(nameOf[w])
  /\ nameOf' = [nameOf EXCEPT ![w] = None]
  /\ pc' = [pc EXCEPT ![w] = "removed"]
  /\ UNCHANGED <<kernel, phase, toAdopt, file, tracked, n, trusted, fdOf, slot, history>>

ReleaseBucket(w) ==
  \/ slot[w] = "capped" /\ n' = n - 1 /\ UNCHANGED trusted
  \/ slot[w] = "trusted" /\ trusted' = trusted - 1 /\ UNCHANGED n

Release(w) ==
  /\ pc[w] = "removed"
  /\ ReleaseBucket(w)
  /\ slot' = [slot EXCEPT ![w] = "none"]
  /\ pc' = [pc EXCEPT ![w] = "free"]
  /\ UNCHANGED <<kernel, stored, phase, toAdopt, file, tracked, fdOf, nameOf, history>>

-----------------------------------------------------------------------------
(* The end of the process, and the next one's AdoptStoredFds *)

\* The kernel closes every fd of the process.
AgentGone ==
  /\ toAdopt' = {} /\ file' = [d \in Fd |-> None]
  /\ tracked' = {} /\ n' = 0 /\ trusted' = 0
  /\ pc' = [w \in Worker |-> "free"] /\ fdOf' = [w \in Worker |-> None]
  /\ nameOf' = [w \in Worker |-> None] /\ slot' = [w \in Worker |-> "none"]
  /\ pend' = [f \in Filter |-> IF pend[f] \in Worker THEN "orphan" ELSE pend[f]]
  /\ adopted' = {} /\ faults' = faults + 1
  /\ UNCHANGED <<alive, sem>>

\* A crash, a kill or a systemctl restart: systemd keeps the store.
ProcessEnds ==
  /\ phase \in {"adopting", "up"} /\ faults < MaxFaults
  /\ phase' = "down"
  /\ AgentGone
  /\ UNCHANGED <<stored, safe>>

\* systemctl stop, or an end after which systemd does not restart the agent:
\* FileDescriptorStorePreserve=restart releases the store.
ServiceStopped ==
  /\ phase # "stopped" /\ faults < MaxFaults
  /\ phase' = "stopped"
  /\ AgentGone
  /\ stored' = [m \in Name |-> None] /\ safe' = {}

\* systemd starts the agent and passes what it has stored.
AgentStarts ==
  /\ phase' = "adopting"
  /\ LET named == {m \in Name : stored[m] # None} IN
     \E fds \in [named -> Fd] :
       /\ \A k, m \in named : fds[k] = fds[m] => k = m
       /\ toAdopt' = {<<fds[m], m>> : m \in named}
       /\ file' = [d \in Fd |->
            IF \E m \in named : fds[m] = d
              THEN stored[CHOOSE m \in named : fds[m] = d] ELSE None]
       /\ adopted' = {stored[m] : m \in named}
  /\ UNCHANGED <<kernel, stored, tracked, n, trusted, pc, fdOf, nameOf, slot, safe, faults>>

Restart == phase = "down" /\ AgentStarts

\* systemctl start: somebody's decision.
Start == phase = "stopped" /\ AgentStarts

\* The goroutine is started, and tracks the fd only when it runs.  An fd the
\* cap refuses is closed and dropped from the store.
Adopt(d, m, w) ==
  /\ phase = "adopting" /\ <<d, m>> \in toAdopt /\ pc[w] = "free"
  /\ toAdopt' = toAdopt \ {<<d, m>>}
  /\ n' = IF Acquire THEN n + 1 ELSE n
  /\ pc' = IF Acquire THEN [pc EXCEPT ![w] = "inherited"] ELSE pc
  /\ fdOf' = IF Acquire THEN [fdOf EXCEPT ![w] = d] ELSE fdOf
  /\ nameOf' = IF Acquire THEN [nameOf EXCEPT ![w] = m] ELSE nameOf
  /\ slot' = IF Acquire THEN [slot EXCEPT ![w] = "capped"] ELSE slot
  /\ file' = IF Acquire THEN file ELSE [file EXCEPT ![d] = None]
  /\ stored' = IF Acquire THEN stored ELSE [stored EXCEPT ![m] = None]
  /\ UNCHANGED <<kernel, phase, tracked, trusted, history>>

\* superviseStored gives the capped slot back before it takes a trusted one.
GivenBack == n - 1

SuperviseStored(w) ==
  /\ pc[w] = "inherited"
  /\ n' = GivenBack
  /\ slot' = [slot EXCEPT ![w] = "none"]
  /\ pc' = [pc EXCEPT ![w] = "released"]
  /\ UNCHANGED <<kernel, stored, phase, toAdopt, file, tracked, trusted, fdOf, nameOf, history>>

OpenSockets ==
  /\ phase = "adopting" /\ toAdopt = {}
  /\ phase' = "up"
  /\ UNCHANGED <<kernel, stored, toAdopt, file, tracked, n, trusted, pc, fdOf, nameOf, slot, history>>

Startup ==
  \/ Restart \/ OpenSockets
  \/ \E d \in Fd, m \in Name, w \in Worker : Adopt(d, m, w)

Work(w) ==
  \/ AcceptRefused(w) \/ OciMalformed(w) \/ AcceptProbeFd(w) \/ AdmitTrusted(w)
  \/ StoreAdd(w) \/ StoreAddFails(w) \/ Poll(w) \/ Recv(w) \/ AnswerBind(w)
  \/ Untrack(w) \/ CloseFd(w) \/ StoreRemove(w) \/ Release(w) \/ SuperviseStored(w)

Fault(w) == PollError(w) \/ AnswerFails(w)

Handoff ==
  \E f \in File, w \in Worker, d \in Fd :
    ProbeHandoff(f, w, d) \/ OciHandoff(f, w, d) \/ OciJunk(f, w, d)

Next ==
  \/ \E f \in Filter : Kernel(f)
  \/ \E m \in Name : SystemdDrops(m)
  \/ Handoff \/ ProcessEnds \/ ServiceStopped \/ Start \/ Startup
  \/ \E w \in Worker : Work(w) \/ Fault(w)

Spec == Init /\ [][Next]_vars

(***************************************************************************)
(* The agent's goroutines run, systemd restarts it (Restart=on-failure)    *)
(* and the kernel ends the binds of a closed listener.  Nothing is assumed *)
(* of containers, senders, failures, or of who starts a stopped service.   *)
(***************************************************************************)
FairSpec ==
  /\ Spec
  /\ \A w \in Worker : WF_vars(Work(w))
  /\ WF_vars(Startup)
  /\ \A f \in Filter : WF_vars(KernelRelease(f))

-----------------------------------------------------------------------------
(* Properties *)

Supervises(w, f) == pc[w] \in Supervising /\ file[fdOf[w]] = f

(* Two supervisors never share a listener, however often a sender hands it *)
(* over.  The exception is a file the process inherited: it is tracked     *)
(* only when its goroutine runs, and a handoff may come before that.       *)
OneSupervisor ==
  \A v, w \in Worker, f \in Filter :
    Supervises(v, f) /\ Supervises(w, f) /\ Kcmp => v = w \/ f \in adopted

(* A supervisor that polled a notification is never left in NOTIF_RECV     *)
(* with nothing to receive, where it would stay when the filter dies.      *)
NeverStuck ==
  \A w \in Worker :
    pc[w] = "recv" /\ Kcmp => sem[file[fdOf[w]]] > 0 \/ file[fdOf[w]] \in adopted

(* What admitProbe compares with is under supervision: no entry outlives   *)
(* its fd, whose number the next handoff may get.                          *)
TrackedLive ==
  tracked = {fdOf[w] : w \in {v \in Worker : pc[v] \in Supervising}}

(* The buckets count the goroutines that will release them.                *)
SlotsExact ==
  /\ n = Cardinality({w \in Worker : slot[w] = "capped"}) /\ n <= Max
  /\ trusted = Cardinality({w \in Worker : slot[w] = "trusted"})

(* The listener of a container that has reached the store is not closed    *)
(* while the container lives, whatever crashes, kills and restarts the     *)
(* agent goes through, unless its supervisor failed or a full stop has     *)
(* released the store since.                                               *)
ListenerKept == \A f \in Oci \cap safe : ~Lost(f)

(* A bind of a container is received or returns: none waits for a          *)
(* supervisor for ever, across ends of the agent process.                  *)
BindReceived == \A f \in Oci : pend[f] = "init" ~> pend[f] # "init"

HoldsFd == {"probe", "oci", "inherited", "released", "untracked"} \cup Supervising

(* Why the first three hold: an open fd has one owner; a listener that no  *)
(* sender keeps came in once, unless the process inherited it; and a       *)
(* notification that waits has been announced.                             *)
FdOwners ==
  /\ \A w \in Worker : (pc[w] \in HoldsFd) <=> fdOf[w] \in Fd
  /\ \A w \in Worker : fdOf[w] \in Fd => file[fdOf[w]] \in File
  /\ \A v, w \in Worker : fdOf[v] \in Fd /\ fdOf[v] = fdOf[w] => v = w
  /\ \A x \in toAdopt : file[x[1]] \in adopted /\ \A w \in Worker : fdOf[w] # x[1]
  /\ \A x, y \in toAdopt : x[1] = y[1] => x = y
  /\ \A w \in Worker : pc[w] \in {"inherited", "released"} => file[fdOf[w]] \in adopted
  /\ \A w \in Worker : pc[w] = "oci" => file[fdOf[w]] \notin Probe
  /\ phase \in {"stopped", "down"} => toAdopt = {} /\ \A w \in Worker : pc[w] = "free"
OciOnce ==
  /\ adopted \subseteq Filter
  /\ \A d, e \in Fd : file[d] = file[e] /\ file[d] \in Oci => d = e \/ file[d] \in adopted
Announced ==
  /\ \A f \in Filter : pend[f] # "no" => f \in alive
  /\ \A f \in Filter : pend[f] = "init" => sem[f] > 0
SlotPhase ==
  /\ \A w \in Worker : slot[w] = "none" <=> pc[w] \in {"free", "probe", "oci", "released"}
  /\ \A w \in Worker : pc[w] = "inherited" => slot[w] = "capped"
IInv ==
  /\ TypeOK /\ TrackedLive /\ OneSupervisor /\ NeverStuck
  /\ FdOwners /\ OciOnce /\ Announced /\ SlotsExact /\ SlotPhase

(* Why a stored listener is kept: a name has one owner, who keeps the fd   *)
(* of what systemd has under it; nothing is received before everything is  *)
(* adopted, so the cap has room for all of it; and a supervisor that is    *)
(* about to drop its name has a dead filter or has failed.                 *)
Stored == {m \in Name : stored[m] # None}
Names ==
  /\ \A w \in Worker : pc[w] \in {"free", "probe", "oci", "storing", "removed"} => nameOf[w] = None
  /\ \A v, w \in Worker : nameOf[v] \in Name /\ nameOf[v] = nameOf[w] => v = w
  /\ toAdopt # {} => phase = "adopting"
  /\ phase # "up" => \A w \in Worker : pc[w] \notin {"probe", "oci", "storing"}
  /\ \A x, y \in toAdopt : x[2] = y[2] => x = y
  /\ \A x \in toAdopt : \A w \in Worker : nameOf[w] # x[2]
  /\ \A x \in toAdopt : stored[x[2]] \in {None, file[x[1]]}
  /\ \A w \in Worker : nameOf[w] \in Name /\ fdOf[w] \in Fd => stored[nameOf[w]] \in {None, file[fdOf[w]]}
StoreBound ==
  /\ IsFiniteSet(Stored) /\ Cardinality(Stored) <= StoreCap
  /\ phase = "adopting" => IsFiniteSet(toAdopt) /\ n + Cardinality(toAdopt) <= StoreCap
Kept ==
  /\ \A w \in Worker : nameOf[w] \in Name /\ pc[w] \in {"ended", "untracked", "closed"} =>
       stored[nameOf[w]] \notin alive \cap safe
  /\ \A f \in alive \cap safe : \E m \in Name : stored[m] = f
StoreInv == Names /\ StoreBound /\ Kept
=============================================================================
