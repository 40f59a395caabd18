-------------------------- MODULE SupervisorProofs --------------------------
(* Proofs about the supervision of notify fds, for any listeners, fds,     *)
(* goroutines and caps.                                                    *)
EXTENDS Supervisor, FiniteSetTheorems, TLAPS

\* The invariant without the counts.
Fds ==
  /\ TypeOK /\ TrackedLive /\ OneSupervisor /\ NeverStuck
  /\ FdOwners /\ OciOnce /\ Announced /\ SlotPhase

LEMMA IInvParts == IInv <=> Fds /\ SlotsExact
  BY DEF IInv, Fds

(* A sender installs a filter nobody refers to yet.                        *)
LEMMA ProbeStartKeeps ==
  ASSUME Fds, n' \in Nat, trusted' \in Nat, NEW f \in Filter, ProbeStart(f)
  PROVE  Fds'
<1> USE KindAssumption DEF Fds, TypeOK, Filter, File, Supervising, States, FdOwners, HoldsFd, OciOnce,
             ProbeStart, Launch, Referenced, process
<1>1. TypeOK' /\ SlotPhase'
  BY CapAssumption, BoundAssumption DEF SlotPhase
<1>2. FdOwners' /\ OciOnce'
  OBVIOUS
<1>3. TrackedLive'
  BY DEF TrackedLive
<1>4. OneSupervisor' /\ NeverStuck' /\ Announced'
  BY SwitchAssumption DEF OneSupervisor, NeverStuck, Announced, Supervises, TrackedLive
<1> QED
  BY <1>1, <1>2, <1>3, <1>4

(* A handed-over fd has a number of its own and is not supervised yet.     *)
LEMMA ProbeHandoffKeeps ==
  ASSUME Fds, n' \in Nat, trusted' \in Nat, NEW f \in File, NEW w \in Worker, NEW d \in Fd, ProbeHandoff(f, w, d)
  PROVE  Fds'
<1> USE KindAssumption DEF Fds, TypeOK, Filter, File, Supervising, States, FdOwners, HoldsFd, OciOnce,
             ProbeHandoff, Receive
<1>1. TypeOK' /\ SlotPhase'
  BY CapAssumption, BoundAssumption DEF SlotPhase
<1>2. FdOwners' /\ OciOnce'
  OBVIOUS
<1>3. TrackedLive'
  BY DEF TrackedLive
<1>4. OneSupervisor' /\ NeverStuck' /\ Announced'
  BY SwitchAssumption DEF OneSupervisor, NeverStuck, Announced, Supervises, TrackedLive
<1> QED
  BY <1>1, <1>2, <1>3, <1>4

(* The listener of a starting container comes in under one fd.             *)
LEMMA OciHandoffKeeps ==
  ASSUME Fds, n' \in Nat, trusted' \in Nat, NEW f \in File, NEW w \in Worker, NEW d \in Fd, OciHandoff(f, w, d)
  PROVE  Fds'
<1> USE KindAssumption DEF Fds, TypeOK, Filter, File, Supervising, States, FdOwners, HoldsFd, OciOnce,
             OciHandoff, Receive, Launch, Referenced
<1>1. TypeOK' /\ SlotPhase'
  BY CapAssumption, BoundAssumption DEF SlotPhase
<1>2. FdOwners' /\ OciOnce'
  OBVIOUS
<1>3. TrackedLive'
  BY DEF TrackedLive
<1>4. OneSupervisor' /\ NeverStuck' /\ Announced'
  BY SwitchAssumption DEF OneSupervisor, NeverStuck, Announced, Supervises, TrackedLive
<1> QED
  BY <1>1, <1>2, <1>3, <1>4

(* So does a file that is no listener.                                     *)
LEMMA OciJunkKeeps ==
  ASSUME Fds, n' \in Nat, trusted' \in Nat, NEW f \in File, NEW w \in Worker, NEW d \in Fd, OciJunk(f, w, d)
  PROVE  Fds'
<1> USE KindAssumption DEF Fds, TypeOK, Filter, File, Supervising, States, FdOwners, HoldsFd, OciOnce,
             OciJunk, Receive
<1>1. TypeOK' /\ SlotPhase'
  BY CapAssumption, BoundAssumption DEF SlotPhase
<1>2. FdOwners' /\ OciOnce'
  OBVIOUS
<1>3. TrackedLive'
  BY DEF TrackedLive
<1>4. OneSupervisor' /\ NeverStuck' /\ Announced'
  BY SwitchAssumption DEF OneSupervisor, NeverStuck, Announced, Supervises, TrackedLive
<1> QED
  BY <1>1, <1>2, <1>3, <1>4

(* A bind announces itself.                                                *)
LEMMA BindKeeps ==
  ASSUME Fds, n' \in Nat, trusted' \in Nat, NEW f \in Filter, Bind(f)
  PROVE  Fds'
<1> USE KindAssumption DEF Fds, TypeOK, Filter, File, Supervising, States, FdOwners, HoldsFd, OciOnce,
             Bind, Lost, process, history
<1>1. TypeOK' /\ SlotPhase'
  BY CapAssumption, BoundAssumption DEF SlotPhase
<1>2. FdOwners' /\ OciOnce'
  OBVIOUS
<1>3. TrackedLive'
  BY DEF TrackedLive
<1>4. OneSupervisor' /\ NeverStuck' /\ Announced'
  BY SwitchAssumption DEF OneSupervisor, NeverStuck, Announced, Supervises, TrackedLive
<1> QED
  BY <1>1, <1>2, <1>3, <1>4

(* A task that is signalled away leaves its announcement.                  *)
LEMMA SignalledKeeps ==
  ASSUME Fds, n' \in Nat, trusted' \in Nat, NEW f \in Filter, Signalled(f)
  PROVE  Fds'
<1> USE KindAssumption DEF Fds, TypeOK, Filter, File, Supervising, States, FdOwners, HoldsFd, OciOnce,
             Signalled, process, history
<1>1. TypeOK' /\ SlotPhase'
  BY CapAssumption, BoundAssumption DEF SlotPhase
<1>2. FdOwners' /\ OciOnce'
  OBVIOUS
<1>3. TrackedLive'
  BY DEF TrackedLive
<1>4. OneSupervisor' /\ NeverStuck' /\ Announced'
  BY SwitchAssumption DEF OneSupervisor, NeverStuck, Announced, Supervises, TrackedLive
<1> QED
  BY <1>1, <1>2, <1>3, <1>4

(* The last task's exit ends its bind.                                     *)
LEMMA ExitKeeps ==
  ASSUME Fds, n' \in Nat, trusted' \in Nat, NEW f \in Filter, Exit(f)
  PROVE  Fds'
<1> USE KindAssumption DEF Fds, TypeOK, Filter, File, Supervising, States, FdOwners, HoldsFd, OciOnce,
             Exit, process, history
<1>1. TypeOK' /\ SlotPhase'
  BY CapAssumption, BoundAssumption DEF SlotPhase
<1>2. FdOwners' /\ OciOnce'
  OBVIOUS
<1>3. TrackedLive'
  BY DEF TrackedLive
<1>4. OneSupervisor' /\ NeverStuck' /\ Announced'
  BY SwitchAssumption DEF OneSupervisor, NeverStuck, Announced, Supervises, TrackedLive
<1> QED
  BY <1>1, <1>2, <1>3, <1>4

(* A closed listener ends the bind.                                        *)
LEMMA KernelReleaseKeeps ==
  ASSUME Fds, n' \in Nat, trusted' \in Nat, NEW f \in Filter, KernelRelease(f)
  PROVE  Fds'
<1> USE KindAssumption DEF Fds, TypeOK, Filter, File, Supervising, States, FdOwners, HoldsFd, OciOnce,
             KernelRelease, Lost, process, history
<1>1. TypeOK' /\ SlotPhase'
  BY CapAssumption, BoundAssumption DEF SlotPhase
<1>2. FdOwners' /\ OciOnce'
  OBVIOUS
<1>3. TrackedLive'
  BY DEF TrackedLive
<1>4. OneSupervisor' /\ NeverStuck' /\ Announced'
  BY SwitchAssumption DEF OneSupervisor, NeverStuck, Announced, Supervises, TrackedLive
<1> QED
  BY <1>1, <1>2, <1>3, <1>4

(* The store is no concern of the running process.                         *)
LEMMA SystemdDropsKeeps ==
  ASSUME Fds, n' \in Nat, trusted' \in Nat, NEW m \in Name, SystemdDrops(m)
  PROVE  Fds'
<1> USE KindAssumption DEF Fds, TypeOK, Filter, File, Supervising, States, FdOwners, HoldsFd, OciOnce,
             SystemdDrops, kernel, process, history
<1>1. TypeOK' /\ SlotPhase'
  BY CapAssumption, BoundAssumption DEF SlotPhase
<1>2. FdOwners' /\ OciOnce'
  OBVIOUS
<1>3. TrackedLive'
  BY DEF TrackedLive
<1>4. OneSupervisor' /\ NeverStuck' /\ Announced'
  BY SwitchAssumption DEF OneSupervisor, NeverStuck, Announced, Supervises, TrackedLive
<1> QED
  BY <1>1, <1>2, <1>3, <1>4

(* A refused handoff leaves nothing behind.                                *)
LEMMA AcceptRefusedKeeps ==
  ASSUME Fds, n' \in Nat, trusted' \in Nat, NEW w \in Worker, AcceptRefused(w)
  PROVE  Fds'
<1> USE KindAssumption DEF Fds, TypeOK, Filter, File, Supervising, States, FdOwners, HoldsFd, OciOnce,
             AcceptRefused, Refuse, kernel, history
<1>1. TypeOK' /\ SlotPhase'
  BY CapAssumption, BoundAssumption DEF SlotPhase
<1>2. FdOwners' /\ OciOnce'
  OBVIOUS
<1>3. TrackedLive'
  BY DEF TrackedLive
<1>4. OneSupervisor' /\ NeverStuck' /\ Announced'
  BY SwitchAssumption DEF OneSupervisor, NeverStuck, Announced, Supervises, TrackedLive
<1> QED
  BY <1>1, <1>2, <1>3, <1>4

(* A malformed handoff is closed like a refused one.                       *)
LEMMA OciMalformedKeeps ==
  ASSUME Fds, n' \in Nat, trusted' \in Nat, NEW w \in Worker, OciMalformed(w)
  PROVE  Fds'
<1> USE KindAssumption DEF Fds, TypeOK, Filter, File, Supervising, States, FdOwners, HoldsFd, OciOnce,
             OciMalformed, Refuse, kernel, history
<1>1. TypeOK' /\ SlotPhase'
  BY CapAssumption, BoundAssumption DEF SlotPhase
<1>2. FdOwners' /\ OciOnce'
  OBVIOUS
<1>3. TrackedLive'
  BY DEF TrackedLive
<1>4. OneSupervisor' /\ NeverStuck' /\ Announced'
  BY SwitchAssumption DEF OneSupervisor, NeverStuck, Announced, Supervises, TrackedLive
<1> QED
  BY <1>1, <1>2, <1>3, <1>4

(* No tracked fd has the file, so nobody supervises it.                    *)
LEMMA AcceptProbeFdKeeps ==
  ASSUME Fds, n' \in Nat, trusted' \in Nat, NEW w \in Worker, AcceptProbeFd(w)
  PROVE  Fds'
<1> USE KindAssumption DEF Fds, TypeOK, Filter, File, Supervising, States, FdOwners, HoldsFd, OciOnce,
             AcceptProbeFd, IsListener, Duplicate, kernel, history
<1>1. TypeOK' /\ SlotPhase'
  BY CapAssumption, BoundAssumption DEF SlotPhase
<1>2. FdOwners' /\ OciOnce'
  OBVIOUS
<1>3. TrackedLive'
  BY DEF TrackedLive
<1>4. OneSupervisor' /\ NeverStuck' /\ Announced'
  BY SwitchAssumption DEF OneSupervisor, NeverStuck, Announced, Supervises, TrackedLive
<1> QED
  BY <1>1, <1>2, <1>3, <1>4

(* A container's listener came in once, or was inherited.                  *)
LEMMA AdmitTrustedKeeps ==
  ASSUME Fds, n' \in Nat, trusted' \in Nat, NEW w \in Worker, AdmitTrusted(w)
  PROVE  Fds'
<1> USE KindAssumption DEF Fds, TypeOK, Filter, File, Supervising, States, FdOwners, HoldsFd, OciOnce,
             AdmitTrusted, IsListener, kernel, history
<1>1. TypeOK' /\ SlotPhase'
  BY CapAssumption, BoundAssumption DEF SlotPhase
<1>2. FdOwners' /\ OciOnce'
  OBVIOUS
<1>3. TrackedLive'
  BY DEF TrackedLive
<1>4. OneSupervisor' /\ NeverStuck' /\ Announced'
  BY SwitchAssumption DEF OneSupervisor, NeverStuck, Announced, Supervises, TrackedLive
<1> QED
  BY <1>1, <1>2, <1>3, <1>4

(* Storing does not touch the table.                                       *)
LEMMA StoreAddKeeps ==
  ASSUME Fds, n' \in Nat, trusted' \in Nat, NEW w \in Worker, StoreAdd(w)
  PROVE  Fds'
<1> USE KindAssumption DEF Fds, TypeOK, Filter, File, Supervising, States, FdOwners, HoldsFd, OciOnce,
             StoreAdd, kernel
<1>1. TypeOK' /\ SlotPhase'
  BY CapAssumption, BoundAssumption DEF SlotPhase
<1>2. FdOwners' /\ OciOnce'
  OBVIOUS
<1>3. TrackedLive'
  BY DEF TrackedLive
<1>4. OneSupervisor' /\ NeverStuck' /\ Announced'
  BY SwitchAssumption DEF OneSupervisor, NeverStuck, Announced, Supervises, TrackedLive
<1> QED
  BY <1>1, <1>2, <1>3, <1>4

(* Nor does a store that is not there.                                     *)
LEMMA StoreAddFailsKeeps ==
  ASSUME Fds, n' \in Nat, trusted' \in Nat, NEW w \in Worker, StoreAddFails(w)
  PROVE  Fds'
<1> USE KindAssumption DEF Fds, TypeOK, Filter, File, Supervising, States, FdOwners, HoldsFd, OciOnce,
             StoreAddFails, kernel, history
<1>1. TypeOK' /\ SlotPhase'
  BY CapAssumption, BoundAssumption DEF SlotPhase
<1>2. FdOwners' /\ OciOnce'
  OBVIOUS
<1>3. TrackedLive'
  BY DEF TrackedLive
<1>4. OneSupervisor' /\ NeverStuck' /\ Announced'
  BY SwitchAssumption DEF OneSupervisor, NeverStuck, Announced, Supervises, TrackedLive
<1> QED
  BY <1>1, <1>2, <1>3, <1>4

(* What poll shows has been announced.                                     *)
LEMMA PollKeeps ==
  ASSUME Fds, n' \in Nat, trusted' \in Nat, NEW w \in Worker, Poll(w)
  PROVE  Fds'
<1> USE KindAssumption DEF Fds, TypeOK, Filter, File, Supervising, States, FdOwners, HoldsFd, OciOnce,
             Poll, Goto, kernel, history
<1>1. TypeOK' /\ SlotPhase'
  BY CapAssumption, BoundAssumption DEF SlotPhase
<1>2. FdOwners' /\ OciOnce'
  OBVIOUS
<1>3. TrackedLive'
  BY DEF TrackedLive
<1>4. OneSupervisor' /\ NeverStuck' /\ Announced'
  BY SwitchAssumption DEF OneSupervisor, NeverStuck, Announced, Supervises, TrackedLive
<1> QED
  BY <1>1, <1>2, <1>3, <1>4

(* A failing supervisor goes to its end.                                   *)
LEMMA PollErrorKeeps ==
  ASSUME Fds, n' \in Nat, trusted' \in Nat, NEW w \in Worker, PollError(w)
  PROVE  Fds'
<1> USE KindAssumption DEF Fds, TypeOK, Filter, File, Supervising, States, FdOwners, HoldsFd, OciOnce,
             PollError, Goto, kernel
<1>1. TypeOK' /\ SlotPhase'
  BY CapAssumption, BoundAssumption DEF SlotPhase
<1>2. FdOwners' /\ OciOnce'
  OBVIOUS
<1>3. TrackedLive'
  BY DEF TrackedLive
<1>4. OneSupervisor' /\ NeverStuck' /\ Announced'
  BY SwitchAssumption DEF OneSupervisor, NeverStuck, Announced, Supervises, TrackedLive
<1> QED
  BY <1>1, <1>2, <1>3, <1>4

(* The only supervisor takes the announcement it has polled.               *)
LEMMA RecvKeeps ==
  ASSUME Fds, n' \in Nat, trusted' \in Nat, NEW w \in Worker, Recv(w)
  PROVE  Fds'
<1> USE KindAssumption DEF Fds, TypeOK, Filter, File, Supervising, States, FdOwners, HoldsFd, OciOnce,
             Recv, Goto, AfterNoEnt, history
<1>1. TypeOK' /\ SlotPhase'
  BY CapAssumption, BoundAssumption DEF SlotPhase
<1>2. FdOwners' /\ OciOnce'
  OBVIOUS
<1>3. TrackedLive'
  BY DEF TrackedLive
<1>4. OneSupervisor' /\ NeverStuck' /\ Announced'
  BY SwitchAssumption DEF OneSupervisor, NeverStuck, Announced, Supervises, TrackedLive
<1> QED
  BY <1>1, <1>2, <1>3, <1>4

(* An answer ends a bind or nothing.                                       *)
LEMMA AnswerBindKeeps ==
  ASSUME Fds, n' \in Nat, trusted' \in Nat, NEW w \in Worker, AnswerBind(w)
  PROVE  Fds'
<1> USE KindAssumption DEF Fds, TypeOK, Filter, File, Supervising, States, FdOwners, HoldsFd, OciOnce,
             AnswerBind, Goto, history
<1>1. TypeOK' /\ SlotPhase'
  BY CapAssumption, BoundAssumption DEF SlotPhase
<1>2. FdOwners' /\ OciOnce'
  OBVIOUS
<1>3. TrackedLive'
  BY DEF TrackedLive
<1>4. OneSupervisor' /\ NeverStuck' /\ Announced'
  BY SwitchAssumption DEF OneSupervisor, NeverStuck, Announced, Supervises, TrackedLive
<1> QED
  BY <1>1, <1>2, <1>3, <1>4

(* A verdict that cannot be sent leaves the bind where it is.             *)
LEMMA AnswerFailsKeeps ==
  ASSUME Fds, n' \in Nat, trusted' \in Nat, NEW w \in Worker, AnswerFails(w)
  PROVE  Fds'
<1> USE KindAssumption DEF Fds, TypeOK, Filter, File, Supervising, States, FdOwners, HoldsFd, OciOnce,
             AnswerFails, Goto, history
<1>1. TypeOK' /\ SlotPhase'
  BY CapAssumption, BoundAssumption DEF SlotPhase
<1>2. FdOwners' /\ OciOnce'
  OBVIOUS
<1>3. TrackedLive'
  BY DEF TrackedLive
<1>4. OneSupervisor' /\ NeverStuck' /\ Announced'
  BY SwitchAssumption DEF OneSupervisor, NeverStuck, Announced, Supervises, TrackedLive
<1> QED
  BY <1>1, <1>2, <1>3, <1>4

(* An fd is forgotten when its supervisor is done.                         *)
LEMMA UntrackKeeps ==
  ASSUME Fds, n' \in Nat, trusted' \in Nat, NEW w \in Worker, Untrack(w)
  PROVE  Fds'
<1> USE KindAssumption DEF Fds, TypeOK, Filter, File, Supervising, States, FdOwners, HoldsFd, OciOnce,
             Untrack, Untracked, kernel, history
<1>1. TypeOK' /\ SlotPhase'
  BY CapAssumption, BoundAssumption DEF SlotPhase
<1>2. FdOwners' /\ OciOnce'
  OBVIOUS
<1>3. TrackedLive'
  BY DEF TrackedLive
<1>4. OneSupervisor' /\ NeverStuck' /\ Announced'
  BY SwitchAssumption DEF OneSupervisor, NeverStuck, Announced, Supervises, TrackedLive
<1> QED
  BY <1>1, <1>2, <1>3, <1>4

(* It is closed only then.                                                 *)
LEMMA CloseFdKeeps ==
  ASSUME Fds, n' \in Nat, trusted' \in Nat, NEW w \in Worker, CloseFd(w)
  PROVE  Fds'
<1> USE KindAssumption DEF Fds, TypeOK, Filter, File, Supervising, States, FdOwners, HoldsFd, OciOnce,
             CloseFd, kernel, history
<1>1. TypeOK' /\ SlotPhase'
  BY CapAssumption, BoundAssumption DEF SlotPhase
<1>2. FdOwners' /\ OciOnce'
  OBVIOUS
<1>3. TrackedLive'
  BY DEF TrackedLive
<1>4. OneSupervisor' /\ NeverStuck' /\ Announced'
  BY SwitchAssumption DEF OneSupervisor, NeverStuck, Announced, Supervises, TrackedLive
<1> QED
  BY <1>1, <1>2, <1>3, <1>4

(* The name goes after the fd.                                             *)
LEMMA StoreRemoveKeeps ==
  ASSUME Fds, n' \in Nat, trusted' \in Nat, NEW w \in Worker, StoreRemove(w)
  PROVE  Fds'
<1> USE KindAssumption DEF Fds, TypeOK, Filter, File, Supervising, States, FdOwners, HoldsFd, OciOnce,
             StoreRemove, Dropped, kernel, history
<1>1. TypeOK' /\ SlotPhase'
  BY CapAssumption, BoundAssumption DEF SlotPhase
<1>2. FdOwners' /\ OciOnce'
  OBVIOUS
<1>3. TrackedLive'
  BY DEF TrackedLive
<1>4. OneSupervisor' /\ NeverStuck' /\ Announced'
  BY SwitchAssumption DEF OneSupervisor, NeverStuck, Announced, Supervises, TrackedLive
<1> QED
  BY <1>1, <1>2, <1>3, <1>4

(* The slot goes last.                                                     *)
LEMMA ReleaseKeeps ==
  ASSUME Fds, n' \in Nat, trusted' \in Nat, NEW w \in Worker, Release(w)
  PROVE  Fds'
<1> USE KindAssumption DEF Fds, TypeOK, Filter, File, Supervising, States, FdOwners, HoldsFd, OciOnce,
             Release, ReleaseBucket, kernel, history
<1>1. TypeOK' /\ SlotPhase'
  BY CapAssumption, BoundAssumption DEF SlotPhase
<1>2. FdOwners' /\ OciOnce'
  OBVIOUS
<1>3. TrackedLive'
  BY DEF TrackedLive
<1>4. OneSupervisor' /\ NeverStuck' /\ Announced'
  BY SwitchAssumption DEF OneSupervisor, NeverStuck, Announced, Supervises, TrackedLive
<1> QED
  BY <1>1, <1>2, <1>3, <1>4

(* An adopted fd is not tracked yet.                                       *)
LEMMA SuperviseStoredKeeps ==
  ASSUME Fds, n' \in Nat, trusted' \in Nat, NEW w \in Worker, SuperviseStored(w)
  PROVE  Fds'
<1> USE KindAssumption DEF Fds, TypeOK, Filter, File, Supervising, States, FdOwners, HoldsFd, OciOnce,
             SuperviseStored, GivenBack, kernel, history
<1>1. TypeOK' /\ SlotPhase'
  BY CapAssumption, BoundAssumption DEF SlotPhase
<1>2. FdOwners' /\ OciOnce'
  OBVIOUS
<1>3. TrackedLive'
  BY DEF TrackedLive
<1>4. OneSupervisor' /\ NeverStuck' /\ Announced'
  BY SwitchAssumption DEF OneSupervisor, NeverStuck, Announced, Supervises, TrackedLive
<1> QED
  BY <1>1, <1>2, <1>3, <1>4

(* Nothing of the process outlives it.                                     *)
LEMMA ProcessEndsKeeps ==
  ASSUME Fds, n' \in Nat, trusted' \in Nat, ProcessEnds \/ ServiceStopped
  PROVE  Fds'
<1> USE KindAssumption DEF Fds, TypeOK, Filter, File, Supervising, States, FdOwners, HoldsFd, OciOnce,
             ProcessEnds, ServiceStopped, AgentGone
<1>1. TypeOK' /\ SlotPhase'
  BY CapAssumption, BoundAssumption DEF SlotPhase
<1>2. FdOwners' /\ OciOnce'
  OBVIOUS
<1>3. TrackedLive'
  BY DEF TrackedLive
<1>4. OneSupervisor' /\ NeverStuck' /\ Announced'
  BY SwitchAssumption DEF OneSupervisor, NeverStuck, Announced, Supervises, TrackedLive
<1> QED
  BY <1>1, <1>2, <1>3, <1>4

(* The inherited fds are all the next process has.                         *)
LEMMA RestartKeeps ==
  ASSUME Fds, n' \in Nat, trusted' \in Nat, phase \in {"stopped", "down"}, AgentStarts
  PROVE  Fds'
<1> USE KindAssumption DEF Fds, TypeOK, Filter, File, Supervising, States, FdOwners, HoldsFd, OciOnce,
             AgentStarts, kernel
<1>1. TypeOK' /\ SlotPhase'
  BY CapAssumption, BoundAssumption DEF SlotPhase
<1>2. FdOwners' /\ OciOnce'
  OBVIOUS
<1>3. TrackedLive'
  BY DEF TrackedLive
<1>4. OneSupervisor' /\ NeverStuck' /\ Announced'
  BY SwitchAssumption DEF OneSupervisor, NeverStuck, Announced, Supervises, TrackedLive
<1> QED
  BY <1>1, <1>2, <1>3, <1>4

(* An inherited fd gets its goroutine.                                     *)
LEMMA AdoptKeeps ==
  ASSUME Fds, n' \in Nat, trusted' \in Nat, NEW d \in Fd, NEW m \in Name, NEW w \in Worker, Adopt(d, m, w)
  PROVE  Fds'
<1> USE KindAssumption DEF Fds, TypeOK, Filter, File, Supervising, States, FdOwners, HoldsFd, OciOnce,
             Adopt, kernel, history
<1>1. TypeOK' /\ SlotPhase'
  BY CapAssumption, BoundAssumption DEF SlotPhase
<1>2. FdOwners' /\ OciOnce'
  OBVIOUS
<1>3. TrackedLive'
  BY DEF TrackedLive
<1>4. OneSupervisor' /\ NeverStuck' /\ Announced'
  BY SwitchAssumption DEF OneSupervisor, NeverStuck, Announced, Supervises, TrackedLive
<1> QED
  BY <1>1, <1>2, <1>3, <1>4

(* Opening the sockets changes no table.                                   *)
LEMMA OpenSocketsKeeps ==
  ASSUME Fds, n' \in Nat, trusted' \in Nat, OpenSockets
  PROVE  Fds'
<1> USE KindAssumption DEF Fds, TypeOK, Filter, File, Supervising, States, FdOwners, HoldsFd, OciOnce,
             OpenSockets, kernel, history
<1>1. TypeOK' /\ SlotPhase'
  BY CapAssumption, BoundAssumption DEF SlotPhase
<1>2. FdOwners' /\ OciOnce'
  OBVIOUS
<1>3. TrackedLive'
  BY DEF TrackedLive
<1>4. OneSupervisor' /\ NeverStuck' /\ Announced'
  BY SwitchAssumption DEF OneSupervisor, NeverStuck, Announced, Supervises, TrackedLive
<1> QED
  BY <1>1, <1>2, <1>3, <1>4

\* The goroutines that hold a slot of bucket b.
Holders(b) == {w \in Worker : slot[w] = b}

LEMMA HoldersFinite == \A b : IsFiniteSet(Holders(b)) /\ Cardinality(Holders(b)) \in Nat
<1> SUFFICES ASSUME NEW b PROVE IsFiniteSet(Holders(b)) /\ Cardinality(Holders(b)) \in Nat
  OBVIOUS
<1>1. Holders(b) \subseteq Worker
  BY DEF Holders
<1> QED
  BY <1>1, FiniteAssumption, FS_Subset, FS_CardinalityType

(* A goroutine that takes a slot adds one to its bucket only.              *)
LEMMA SlotTaken ==
  ASSUME NEW w \in Worker, NEW b \in {"capped", "trusted"}, NEW c \in {"capped", "trusted"},
         b # c, slot \in [Worker -> {"none", "capped", "trusted"}],
         slot[w] = "none", slot' = [slot EXCEPT ![w] = b]
  PROVE  /\ Cardinality(Holders(b)') = Cardinality(Holders(b)) + 1
         /\ Cardinality(Holders(c)') = Cardinality(Holders(c))
<1>1. Holders(b)' = Holders(b) \cup {w} /\ w \notin Holders(b) /\ Holders(c)' = Holders(c)
  BY DEF Holders
<1> QED
  BY <1>1, HoldersFinite, FS_AddElement

(* A goroutine that gives a slot back takes one from its bucket only.      *)
LEMMA SlotGiven ==
  ASSUME NEW w \in Worker, NEW b \in {"capped", "trusted"}, NEW c \in {"capped", "trusted"},
         b # c, slot \in [Worker -> {"none", "capped", "trusted"}],
         slot[w] = b, slot' = [slot EXCEPT ![w] = "none"]
  PROVE  /\ Cardinality(Holders(b)') = Cardinality(Holders(b)) - 1
         /\ Cardinality(Holders(c)') = Cardinality(Holders(c))
<1>1. Holders(b)' = Holders(b) \ {w} /\ w \in Holders(b) /\ Holders(c)' = Holders(c)
  BY DEF Holders
<1> QED
  BY <1>1, HoldersFinite, FS_RemoveElement

\* SlotsExact in terms of Holders.
Counts ==
  /\ n = Cardinality(Holders("capped")) /\ n <= Max
  /\ trusted = Cardinality(Holders("trusted"))

LEMMA CountsExact == SlotsExact <=> Counts
  BY DEF SlotsExact, Counts, Holders

LEMMA CountsExactNext == SlotsExact' <=> Counts'
  BY DEF SlotsExact, Counts, Holders

(* After a step too the counts are numbers.                                *)
LEMMA CountsNat ==
  /\ Cardinality(Holders("capped"))' \in Nat
  /\ Cardinality(Holders("trusted"))' \in Nat
<1>1. Holders("capped")' \subseteq Worker /\ Holders("trusted")' \subseteq Worker
  BY DEF Holders
<1> QED
  BY <1>1, FiniteAssumption, FS_Subset, FS_CardinalityType

(* Every step keeps the counts exact and the capped bucket within its max. *)
LEMMA SlotsStep ==
  ASSUME IInv, [Next]_vars
  PROVE  SlotsExact' /\ n' \in Nat /\ trusted' \in Nat
<1> USE CapAssumption
<1>a. SUFFICES Counts'
  BY CountsExactNext, CountsNat DEF Counts
<1>b. slot \in [Worker -> {"none", "capped", "trusted"}] /\ n \in Nat /\ trusted \in Nat
  BY DEF IInv, TypeOK
<1>c. Counts
  BY CountsExact DEF IInv
<1>d. SlotPhase
  BY DEF IInv
<1>3. CASE UNCHANGED <<n, trusted, slot>>
  BY <1>c, <1>3 DEF Counts, Holders
<1>4. ASSUME NEW w \in Worker, AcceptProbeFd(w) PROVE Counts'
  <2>1. slot[w] = "none" /\ slot' = [slot EXCEPT ![w] = "capped"]
    BY <1>4, <1>d DEF AcceptProbeFd, SlotPhase
  <2>2. /\ Cardinality(Holders("capped")') = Cardinality(Holders("capped")) + 1
        /\ Cardinality(Holders("trusted")') = Cardinality(Holders("trusted"))
    BY <1>b, <2>1, SlotTaken
  <2> QED
    BY <1>b, <1>c, <1>4, <2>2 DEF AcceptProbeFd, Counts, Acquire
<1>5. ASSUME NEW w \in Worker, AdmitTrusted(w) PROVE Counts'
  <2>1. slot[w] = "none" /\ slot' = [slot EXCEPT ![w] = "trusted"]
    BY <1>5, <1>d DEF AdmitTrusted, SlotPhase
  <2>2. /\ Cardinality(Holders("trusted")') = Cardinality(Holders("trusted")) + 1
        /\ Cardinality(Holders("capped")') = Cardinality(Holders("capped"))
    BY <1>b, <2>1, SlotTaken
  <2> QED
    BY <1>b, <1>c, <1>5, <2>2 DEF AdmitTrusted, Counts
<1>6. ASSUME NEW w \in Worker, Release(w) PROVE Counts'
  <2> slot' = [slot EXCEPT ![w] = "none"]
    BY <1>6 DEF Release
  <2>1. CASE slot[w] = "capped" /\ n' = n - 1 /\ UNCHANGED trusted
    <3>1. /\ Cardinality(Holders("capped")') = Cardinality(Holders("capped")) - 1
          /\ Cardinality(Holders("trusted")') = Cardinality(Holders("trusted"))
      BY <1>b, <2>1, SlotGiven
    <3> QED
      BY <1>b, <1>c, <2>1, <3>1 DEF Counts
  <2>2. CASE slot[w] = "trusted" /\ trusted' = trusted - 1 /\ UNCHANGED n
    <3>1. /\ Cardinality(Holders("trusted")') = Cardinality(Holders("trusted")) - 1
          /\ Cardinality(Holders("capped")') = Cardinality(Holders("capped"))
      BY <1>b, <2>2, SlotGiven
    <3> QED
      BY <1>b, <1>c, <2>2, <3>1 DEF Counts
  <2> QED
    BY <1>6, <2>1, <2>2 DEF Release, ReleaseBucket
<1>7. ASSUME NEW w \in Worker, SuperviseStored(w) PROVE Counts'
  <2>1. slot[w] = "capped" /\ slot' = [slot EXCEPT ![w] = "none"]
    BY <1>7, <1>d DEF SuperviseStored, SlotPhase
  <2>2. /\ Cardinality(Holders("capped")') = Cardinality(Holders("capped")) - 1
        /\ Cardinality(Holders("trusted")') = Cardinality(Holders("trusted"))
    BY <1>b, <2>1, SlotGiven
  <2> QED
    BY <1>b, <1>c, <1>7, <2>2 DEF SuperviseStored, GivenBack, Counts
<1>8. ASSUME NEW d \in Fd, NEW m \in Name, NEW w \in Worker, Adopt(d, m, w) PROVE Counts'
  <2>1. CASE Acquire
    <3>1. slot[w] = "none" /\ slot' = [slot EXCEPT ![w] = "capped"]
      BY <1>8, <1>d, <2>1 DEF Adopt, SlotPhase
    <3>2. /\ Cardinality(Holders("capped")') = Cardinality(Holders("capped")) + 1
          /\ Cardinality(Holders("trusted")') = Cardinality(Holders("trusted"))
      BY <1>b, <3>1, SlotTaken
    <3> QED
      BY <1>b, <1>c, <1>8, <2>1, <3>2 DEF Adopt, Counts, Acquire
  <2>2. CASE ~Acquire
    BY <1>3, <1>8, <2>2 DEF Adopt
  <2> QED
    BY <2>1, <2>2
<1>9. CASE ProcessEnds \/ ServiceStopped
  <2>1. Holders("capped")' = {} /\ Holders("trusted")' = {}
    BY <1>9 DEF ProcessEnds, ServiceStopped, AgentGone, Holders
  <2> QED
    BY <1>9, <2>1, FS_EmptySet DEF ProcessEnds, ServiceStopped, AgentGone, Counts
<1>10. CASE Restart \/ Start \/ OpenSockets \/ Handoff \/ \E m \in Name : SystemdDrops(m)
  BY <1>3, <1>10 DEF Restart, Start, AgentStarts, OpenSockets, Handoff, ProbeHandoff, OciHandoff, OciJunk, Receive, SystemdDrops, process
<1>11. ASSUME NEW f \in Filter, Kernel(f) PROVE Counts'
  BY <1>3, <1>11 DEF Kernel, Bind, Signalled, Exit, KernelRelease, ProbeStart, process
<1>12. ASSUME NEW w \in Worker, Work(w) \/ Fault(w) PROVE Counts'
  BY <1>3, <1>4, <1>5, <1>6, <1>7, <1>12
     DEF Work, Fault, PollError, AnswerFails, AcceptRefused, OciMalformed, Refuse, StoreAdd, StoreAddFails, Poll, Recv, AnswerBind, Goto,
         Untrack, CloseFd, StoreRemove
<1>13. CASE UNCHANGED vars
  BY <1>3, <1>13 DEF vars, process
<1> QED
  BY <1>8, <1>9, <1>10, <1>11, <1>12, <1>13 DEF Next, Startup

(* Initially nothing is handed over.                                       *)
LEMMA InitIInv == Init => IInv
<1> SUFFICES ASSUME Init PROVE IInv
  OBVIOUS
<1> USE KindAssumption, CapAssumption DEF Init, NoWorkers, Filter, File, Supervising, HoldsFd, States
<1>1. TypeOK /\ SlotPhase
  BY DEF TypeOK, SlotPhase
<1>2. TrackedLive /\ OneSupervisor /\ NeverStuck /\ FdOwners /\ OciOnce /\ Announced
  BY DEF TrackedLive, OneSupervisor, NeverStuck, Supervises, FdOwners, OciOnce, Announced
<1>3. {w \in Worker : slot[w] = "capped"} = {} /\ {w \in Worker : slot[w] = "trusted"} = {}
  OBVIOUS
<1>4. SlotsExact
  BY <1>3, FS_EmptySet DEF SlotsExact
<1> QED
  BY <1>1, <1>2, <1>4 DEF IInv

(* A step that leaves the variables alone leaves the invariant alone.      *)
LEMMA StutterKeeps ==
  ASSUME Fds, UNCHANGED vars
  PROVE  Fds'
<1> USE DEF vars, kernel, process, history
<1>1. TypeOK'
  BY DEF Fds, TypeOK
<1>2. FdOwners'
  BY DEF Fds, FdOwners
<1>3. TrackedLive'
  BY DEF Fds, TrackedLive
<1>4. OneSupervisor' /\ NeverStuck'
  BY DEF Fds, OneSupervisor, NeverStuck, Supervises
<1>5. OciOnce' /\ Announced' /\ SlotPhase'
  BY DEF Fds, OciOnce, Announced, SlotPhase
<1> QED
  BY <1>1, <1>2, <1>3, <1>4, <1>5 DEF Fds

(* Every step keeps the invariant.                                         *)
LEMMA NextIInv == IInv /\ [Next]_vars => IInv'
<1> SUFFICES ASSUME IInv, [Next]_vars PROVE IInv'
  OBVIOUS
<1>1. SlotsExact' /\ n' \in Nat /\ trusted' \in Nat
  BY SlotsStep
<1>2. Fds
  BY IInvParts
<1> SUFFICES Fds'
  BY <1>1 DEF IInv, Fds
<1>3. ASSUME NEW f \in Filter, Kernel(f) PROVE Fds'
  BY <1>1, <1>2, <1>3, ProbeStartKeeps, BindKeeps, SignalledKeeps, ExitKeeps, KernelReleaseKeeps DEF Kernel
<1>4. CASE Handoff
  <2>1. PICK f \in File, w \in Worker, d \in Fd :
          ProbeHandoff(f, w, d) \/ OciHandoff(f, w, d) \/ OciJunk(f, w, d)
    BY <1>4 DEF Handoff
  <2> QED
    BY <1>1, <1>2, <2>1, ProbeHandoffKeeps, OciHandoffKeeps, OciJunkKeeps
<1>5. ASSUME NEW w \in Worker, Work(w) \/ Fault(w) PROVE Fds'
  BY <1>1, <1>2, <1>5, AcceptRefusedKeeps, OciMalformedKeeps, AcceptProbeFdKeeps, AdmitTrustedKeeps, StoreAddKeeps,
     StoreAddFailsKeeps, PollKeeps, PollErrorKeeps, RecvKeeps, AnswerBindKeeps, AnswerFailsKeeps, UntrackKeeps,
     CloseFdKeeps, StoreRemoveKeeps, ReleaseKeeps, SuperviseStoredKeeps DEF Work, Fault
<1>6. ASSUME NEW d \in Fd, NEW m \in Name, NEW w \in Worker, Adopt(d, m, w) PROVE Fds'
  BY <1>1, <1>2, <1>6, AdoptKeeps
<1>7. CASE Restart \/ Start \/ OpenSockets \/ ProcessEnds \/ ServiceStopped
  BY <1>1, <1>2, <1>7, RestartKeeps, OpenSocketsKeeps, ProcessEndsKeeps DEF Restart, Start
<1>8. ASSUME NEW m \in Name, SystemdDrops(m) PROVE Fds'
  BY <1>1, <1>2, <1>8, SystemdDropsKeeps
<1>9. CASE UNCHANGED vars
  BY <1>2, <1>9, StutterKeeps
<1> QED
  BY <1>3, <1>4, <1>5, <1>6, <1>7, <1>8, <1>9 DEF Next, Startup

(* The inductive invariant holds in every reachable state, for any number  *)
(* of listeners, fd numbers and goroutines.                                *)
THEOREM Invariance == Spec => []IInv
  BY InitIInv, NextIInv, PTL DEF Spec

(* Where kcmp works, no listener has two supervisors, unless the process   *)
(* inherited the listener.                                                 *)
THEOREM Alone == Spec => []OneSupervisor
<1>1. IInv => OneSupervisor
  BY DEF IInv
<1> QED
  BY <1>1, Invariance, PTL

(* Where kcmp works, no supervisor is left in NOTIF_RECV, unless the       *)
(* process inherited the listener.                                         *)
THEOREM Unstuck == Spec => []NeverStuck
<1>1. IInv => NeverStuck
  BY DEF IInv
<1> QED
  BY <1>1, Invariance, PTL

(* admitProbe compares with exactly the fds under supervision.             *)
THEOREM TrackedExact == Spec => []TrackedLive
<1>1. IInv => TrackedLive
  BY DEF IInv
<1> QED
  BY <1>1, Invariance, PTL

(* No slot is lost or given back twice, and the cap holds.                 *)
THEOREM SlotsBalanced == Spec => []SlotsExact
<1>1. IInv => SlotsExact
  BY DEF IInv
<1> QED
  BY <1>1, Invariance, PTL

-----------------------------------------------------------------------------
(* The store. *)

(* The store's bound is kept by a step that stores and inherits no more.   *)
LEMMA BoundKept ==
  ASSUME StoreBound, Stored' \subseteq Stored, n \in Nat, n' \in Nat, StoreCap \in Nat,
         phase' = "adopting" => phase = "adopting" /\ toAdopt' = toAdopt /\ n' <= n
  PROVE  StoreBound'
<1>1. IsFiniteSet(Stored') /\ Cardinality(Stored') <= StoreCap
  <2>1. IsFiniteSet(Stored') /\ Cardinality(Stored') <= Cardinality(Stored)
    BY FS_Subset DEF StoreBound
  <2>2. Cardinality(Stored') \in Nat /\ Cardinality(Stored) \in Nat
    BY <2>1, FS_CardinalityType DEF StoreBound
  <2> QED
    BY <2>1, <2>2 DEF StoreBound
<1>2. ASSUME phase' = "adopting"
      PROVE  IsFiniteSet(toAdopt') /\ n' + Cardinality(toAdopt') <= StoreCap
  <2>1. Cardinality(toAdopt) \in Nat
    BY <1>2, FS_CardinalityType DEF StoreBound
  <2> QED
    BY <1>2, <2>1 DEF StoreBound
<1> QED
  BY <1>1, <1>2 DEF StoreBound

(* The cap has room for everything the process inherited.                  *)
LEMMA RoomToAdopt ==
  ASSUME StoreBound, n \in Nat, phase = "adopting", NEW x \in toAdopt
  PROVE  /\ Acquire
         /\ IsFiniteSet(toAdopt \ {x}) /\ n + 1 + Cardinality(toAdopt \ {x}) <= StoreCap
<1>1. IsFiniteSet(toAdopt \ {x}) /\ Cardinality(toAdopt \ {x}) = Cardinality(toAdopt) - 1
  BY FS_RemoveElement DEF StoreBound
<1>2. Cardinality(toAdopt) \in Nat /\ Cardinality(toAdopt \ {x}) \in Nat
  BY <1>1, FS_CardinalityType DEF StoreBound
<1> QED
  BY <1>1, <1>2, CapAssumption DEF StoreBound, Acquire

(* The store is empty when systemd first starts the agent.                 *)
LEMMA InitStore == Init => StoreInv
<1> SUFFICES ASSUME Init PROVE StoreInv
  OBVIOUS
<1>1. Stored = {}
  BY DEF Init, Stored
<1>2. IsFiniteSet(Stored) /\ Cardinality(Stored) = 0
  BY <1>1, FS_EmptySet
<1> QED
  BY <1>2, CapAssumption, KindAssumption DEF Init, NoWorkers, StoreInv, Names, StoreBound, Kept

(* Every step keeps the names, the bound and what is safe.                 *)
LEMMA StepStore == IInv /\ IInv' /\ StoreInv /\ [Next]_vars => StoreInv'
<1> SUFFICES ASSUME IInv, IInv', StoreInv, [Next]_vars PROVE StoreInv'
  OBVIOUS
<1>a. TypeOK /\ TypeOK' /\ FdOwners /\ Names /\ StoreBound /\ Kept
  BY DEF IInv, StoreInv
<1>b. n \in Nat /\ n' \in Nat /\ StoreCap \in Nat
  BY <1>a, CapAssumption DEF TypeOK
<1> USE <1>a, <1>b, KindAssumption DEF StoreInv
<1>1. ASSUME UNCHANGED <<alive, stored, process, safe>> PROVE StoreInv'
  BY <1>1 DEF process, Names, StoreBound, Stored, Kept
<1>2. ASSUME NEW f \in Filter, Exit(f) PROVE StoreInv'
  <2>1. Names'
    BY <1>2 DEF Exit, kernel, process, history, TypeOK, FdOwners, HoldsFd, Names, Kept, Stored
  <2>2. StoreBound'
    BY <1>2, BoundKept DEF Exit, kernel, process, history, TypeOK, FdOwners, HoldsFd, Names, Kept, Stored
  <2>3. Kept'
    BY <1>2 DEF Exit, kernel, process, history, TypeOK, FdOwners, HoldsFd, Names, Kept, Stored
  <2> QED
    BY <2>1, <2>2, <2>3
<1>3. ASSUME NEW f \in Filter, ProbeStart(f) PROVE StoreInv'
  <2>1. Names'
    BY <1>3 DEF ProbeStart, Launch, Referenced, kernel, process, history, TypeOK, FdOwners, HoldsFd, Names, Kept, Stored
  <2>2. StoreBound'
    BY <1>3, BoundKept DEF ProbeStart, Launch, Referenced, kernel, process, history, TypeOK, FdOwners, HoldsFd, Names, Kept, Stored
  <2>3. Kept'
    BY <1>3 DEF ProbeStart, Launch, Referenced, kernel, process, history, TypeOK, FdOwners, HoldsFd, Names, Kept, Stored
  <2> QED
    BY <2>1, <2>2, <2>3
<1>4. ASSUME NEW m \in Name, SystemdDrops(m) PROVE StoreInv'
  <2>1. Names'
    BY <1>4 DEF SystemdDrops, kernel, process, history, TypeOK, FdOwners, HoldsFd, Names, Kept, Stored
  <2>2. StoreBound'
    BY <1>4, BoundKept DEF SystemdDrops, kernel, process, history, TypeOK, FdOwners, HoldsFd, Names, Kept, Stored
  <2>3. Kept'
    <3>0. /\ stored[m] \notin alive /\ stored' = [stored EXCEPT ![m] = None]
          /\ UNCHANGED <<alive, safe, nameOf, pc>>
      BY <1>4 DEF SystemdDrops, kernel, process, history
    <3>1. ASSUME NEW f \in alive \cap safe PROVE \E k \in Name : stored'[k] = f
      <4> PICK k \in Name : stored[k] = f
        BY DEF Kept
      <4> QED
        BY <3>0 DEF TypeOK
    <3>2. ASSUME NEW w \in Worker, nameOf[w] \in Name, pc[w] \in {"ended", "untracked", "closed"}
          PROVE  stored'[nameOf[w]] \notin alive \cap safe
      <4>1. None \notin alive
        BY DEF TypeOK, File
      <4>2. stored[nameOf[w]] \notin alive \cap safe
        BY <3>2 DEF Kept
      <4> QED
        BY <3>0, <4>1, <4>2 DEF TypeOK
    <3> QED
      BY <3>0, <3>1, <3>2 DEF Kept
  <2> QED
    BY <2>1, <2>2, <2>3
<1>5. ASSUME NEW f \in File, NEW w \in Worker, NEW d \in Fd,
             ProbeHandoff(f, w, d) \/ OciJunk(f, w, d) PROVE StoreInv'
  <2>1. Names'
    BY <1>5 DEF ProbeHandoff, OciJunk, Receive, TypeOK, FdOwners, HoldsFd, Names, Kept, Stored
  <2>2. StoreBound'
    BY <1>5, BoundKept DEF ProbeHandoff, OciJunk, Receive, TypeOK, FdOwners, HoldsFd, Names, Kept, Stored
  <2>3. Kept'
    BY <1>5 DEF ProbeHandoff, OciJunk, Receive, TypeOK, FdOwners, HoldsFd, Names, Kept, Stored
  <2> QED
    BY <2>1, <2>2, <2>3
<1>6. ASSUME NEW f \in File, NEW w \in Worker, NEW d \in Fd, OciHandoff(f, w, d) PROVE StoreInv'
  <2>1. Names'
    BY <1>6 DEF OciHandoff, Launch, Referenced, Receive, TypeOK, FdOwners, HoldsFd, Names, Kept, Stored
  <2>2. StoreBound'
    BY <1>6, BoundKept DEF OciHandoff, Launch, Referenced, Receive, TypeOK, FdOwners, HoldsFd, Names, Kept, Stored
  <2>3. Kept'
    BY <1>6 DEF OciHandoff, Launch, Referenced, Receive, TypeOK, FdOwners, HoldsFd, Names, Kept, Stored
  <2> QED
    BY <2>1, <2>2, <2>3
<1>7. ASSUME NEW w \in Worker, pc[w] \in {"probe", "oci"}, Refuse(w) PROVE StoreInv'
  <2>1. Names'
    BY <1>7 DEF Refuse, kernel, process, history, TypeOK, FdOwners, HoldsFd, Names, Kept, Stored
  <2>2. StoreBound'
    BY <1>7, BoundKept DEF Refuse, kernel, process, history, TypeOK, FdOwners, HoldsFd, Names, Kept, Stored
  <2>3. Kept'
    BY <1>7 DEF Refuse, kernel, process, history, TypeOK, FdOwners, HoldsFd, Names, Kept, Stored
  <2> QED
    BY <2>1, <2>2, <2>3
<1>8. ASSUME NEW w \in Worker, AcceptProbeFd(w) PROVE StoreInv'
  <2>1. Names'
    BY <1>8 DEF AcceptProbeFd, kernel, process, history, TypeOK, FdOwners, HoldsFd, Names, Kept, Stored
  <2>2. StoreBound'
    BY <1>8, BoundKept DEF AcceptProbeFd, kernel, process, history, TypeOK, FdOwners, HoldsFd, Names, Kept, Stored
  <2>3. Kept'
    BY <1>8 DEF AcceptProbeFd, kernel, process, history, TypeOK, FdOwners, HoldsFd, Names, Kept, Stored
  <2> QED
    BY <2>1, <2>2, <2>3
<1>9. ASSUME NEW w \in Worker, AdmitTrusted(w) PROVE StoreInv'
  <2>1. Names'
    BY <1>9 DEF AdmitTrusted, kernel, process, history, TypeOK, FdOwners, HoldsFd, Names, Kept, Stored
  <2>2. StoreBound'
    BY <1>9, BoundKept DEF AdmitTrusted, kernel, process, history, TypeOK, FdOwners, HoldsFd, Names, Kept, Stored
  <2>3. Kept'
    BY <1>9 DEF AdmitTrusted, kernel, process, history, TypeOK, FdOwners, HoldsFd, Names, Kept, Stored
  <2> QED
    BY <2>1, <2>2, <2>3
<1>10. ASSUME NEW w \in Worker, StoreAddFails(w) PROVE StoreInv'
  <2>1. Names'
    BY <1>10 DEF StoreAddFails, kernel, process, history, TypeOK, FdOwners, HoldsFd, Names, Kept, Stored
  <2>2. StoreBound'
    BY <1>10, BoundKept DEF StoreAddFails, kernel, process, history, TypeOK, FdOwners, HoldsFd, Names, Kept, Stored
  <2>3. Kept'
    BY <1>10 DEF StoreAddFails, kernel, process, history, TypeOK, FdOwners, HoldsFd, Names, Kept, Stored
  <2> QED
    BY <2>1, <2>2, <2>3
<1>11. ASSUME NEW w \in Worker, StoreAdd(w) PROVE StoreInv'
  <2> DEFINE f == file[fdOf[w]]
  <2>0. f \in Filter /\ fdOf[w] \in Fd /\ f # None /\ phase = "up"
    BY <1>11 DEF StoreAdd, TypeOK, Supervising, Names, File
  <2>1. PICK m \in Name :
          /\ FreshName(m) /\ nameOf' = [nameOf EXCEPT ![w] = m]
          /\ \/ StoreTakes(f) /\ stored' = [stored EXCEPT ![m] = f] /\ safe' = safe \cup {f}
             \/ ~StoreTakes(f) /\ UNCHANGED <<stored, safe>>
    BY <1>11 DEF StoreAdd
  <2>2. /\ pc' = [pc EXCEPT ![w] = "running"]
        /\ UNCHANGED <<alive, phase, toAdopt, file, n, fdOf>>
    BY <1>11 DEF StoreAdd, kernel
  <2> HIDE DEF f
  <2>3. Names'
    BY <2>0, <2>1, <2>2 DEF f, FreshName, TypeOK, Names
  <2>4. StoreBound'
    <3>1. CASE UNCHANGED stored
      BY <2>0, <2>2, <3>1, BoundKept DEF Stored
    <3>2. CASE StoreTakes(f) /\ stored' = [stored EXCEPT ![m] = f]
      <4>1. Stored' = Stored \cup {m} /\ m \notin Stored /\ Cardinality(Stored) < StoreCap
        BY <2>0, <2>1, <3>2 DEF Stored, FreshName, StoreTakes, TypeOK
      <4>2. IsFiniteSet(Stored \cup {m}) /\ Cardinality(Stored \cup {m}) = Cardinality(Stored) + 1
        BY <4>1, FS_AddElement DEF StoreBound
      <4>3. Cardinality(Stored) \in Nat
        BY FS_CardinalityType DEF StoreBound
      <4> QED
        BY <2>0, <2>2, <4>1, <4>2, <4>3 DEF StoreBound
    <3> QED
      BY <2>1, <3>1, <3>2
  <2>5. Kept'
    <3>1. ASSUME NEW v \in Worker, nameOf'[v] \in Name, pc'[v] \in {"ended", "untracked", "closed"}
          PROVE  stored'[nameOf'[v]] \notin alive \cap safe'
      <4>1. v # w
        BY <2>2, <3>1 DEF TypeOK
      <4>2. nameOf'[v] = nameOf[v] /\ pc'[v] = pc[v] /\ nameOf[v] # m
        BY <2>1, <2>2, <4>1 DEF FreshName, TypeOK
      <4>3. stored'[nameOf[v]] = stored[nameOf[v]]
        BY <2>1, <3>1, <4>2 DEF TypeOK
      <4>4. stored[nameOf[v]] \notin alive \cap safe
        BY <3>1, <4>2 DEF Kept
      <4>5. stored[nameOf[v]] \in safe' => stored[nameOf[v]] \in safe
        BY <2>1, <3>1, <4>2 DEF StoreTakes
      <4> QED
        BY <4>2, <4>3, <4>4, <4>5
    <3>2. ASSUME NEW g \in alive \cap safe' PROVE \E k \in Name : stored'[k] = g
      <4>1. CASE g \in safe
        <5> PICK k \in Name : stored[k] = g
          BY <3>2, <4>1 DEF Kept
        <5>1. k # m
          BY <2>1 DEF FreshName, TypeOK, File
        <5> QED
          BY <2>1, <5>1 DEF TypeOK
      <4>2. CASE g \notin safe
        BY <2>1, <3>2, <4>2 DEF TypeOK
      <4> QED
        BY <4>1, <4>2
    <3> QED
      BY <2>2, <3>1, <3>2 DEF Kept
  <2> QED
    BY <2>3, <2>4, <2>5
<1>12. ASSUME NEW w \in Worker, Poll(w) PROVE StoreInv'
  <2>1. Names'
    BY <1>12 DEF Poll, Goto, Supervising, kernel, process, history, TypeOK, FdOwners, HoldsFd, Names, Kept, Stored
  <2>2. StoreBound'
    BY <1>12, BoundKept DEF Poll, Goto, Supervising, kernel, process, history, TypeOK, FdOwners, HoldsFd, Names, Kept, Stored
  <2>3. Kept'
    <3>0. /\ UNCHANGED <<alive, stored, nameOf>> /\ safe' \subseteq safe
          /\ fdOf[w] \in Fd /\ \A v \in Worker : v # w => pc'[v] = pc[v]
      BY <1>12 DEF Poll, Goto, Supervising, kernel, history, TypeOK
    <3>1. pc'[w] = "ended" => file[fdOf[w]] \notin alive \cap safe'
      BY <1>12 DEF Poll, Goto, kernel, history, TypeOK
    <3>2. pc'[w] \in {"recv", "ended"}
      BY <1>12 DEF Poll, Goto, TypeOK
    <3>3. None \notin alive
      BY DEF TypeOK, File
    <3>4. ASSUME NEW v \in Worker, nameOf[v] \in Name, pc'[v] \in {"ended", "untracked", "closed"}
          PROVE  stored[nameOf[v]] \notin alive \cap safe'
      <4>1. CASE v = w
        BY <3>0, <3>1, <3>2, <3>3, <3>4, <4>1 DEF Names
      <4>2. CASE v # w
        BY <3>0, <3>4, <4>2 DEF Kept
      <4> QED
        BY <4>1, <4>2
    <3> QED
      BY <3>0, <3>4 DEF Kept
  <2> QED
    BY <2>1, <2>2, <2>3
<1>13. ASSUME NEW w \in Worker, PollError(w) PROVE StoreInv'
  <2>1. Names'
    BY <1>13 DEF PollError, Goto, Supervising, kernel, process, history, TypeOK, FdOwners, HoldsFd, Names, Kept, Stored
  <2>2. StoreBound'
    BY <1>13, BoundKept DEF PollError, Goto, Supervising, kernel, process, history, TypeOK, FdOwners, HoldsFd, Names, Kept, Stored
  <2>3. Kept'
    <3>0. /\ UNCHANGED <<alive, stored, nameOf>> /\ safe' \subseteq safe
          /\ fdOf[w] \in Fd /\ \A v \in Worker : v # w => pc'[v] = pc[v]
      BY <1>13 DEF PollError, Goto, Supervising, kernel, history, TypeOK
    <3>1. pc'[w] = "ended" => file[fdOf[w]] \notin alive \cap safe'
      BY <1>13 DEF PollError, Goto, kernel, history, TypeOK
    <3>2. pc'[w] \in {"recv", "ended"}
      BY <1>13 DEF PollError, Goto, TypeOK
    <3>3. None \notin alive
      BY DEF TypeOK, File
    <3>4. ASSUME NEW v \in Worker, nameOf[v] \in Name, pc'[v] \in {"ended", "untracked", "closed"}
          PROVE  stored[nameOf[v]] \notin alive \cap safe'
      <4>1. CASE v = w
        BY <3>0, <3>1, <3>2, <3>3, <3>4, <4>1 DEF Names
      <4>2. CASE v # w
        BY <3>0, <3>4, <4>2 DEF Kept
      <4> QED
        BY <4>1, <4>2
    <3> QED
      BY <3>0, <3>4 DEF Kept
  <2> QED
    BY <2>1, <2>2, <2>3
<1>14. ASSUME NEW w \in Worker, Recv(w) \/ AnswerBind(w) \/ AnswerFails(w) PROVE StoreInv'
  <2>1. Names'
    BY <1>14 DEF Recv, AfterNoEnt, AnswerBind, AnswerFails, Goto, kernel, process, history, TypeOK, FdOwners, HoldsFd, Names, Kept, Stored
  <2>2. StoreBound'
    BY <1>14, BoundKept DEF Recv, AfterNoEnt, AnswerBind, AnswerFails, Goto, kernel, process, history, TypeOK, FdOwners, HoldsFd, Names, Kept, Stored
  <2>3. Kept'
    BY <1>14 DEF Recv, AfterNoEnt, AnswerBind, AnswerFails, Goto, kernel, process, history, TypeOK, FdOwners, HoldsFd, Names, Kept, Stored
  <2> QED
    BY <2>1, <2>2, <2>3
<1>15. ASSUME NEW w \in Worker, Untrack(w) PROVE StoreInv'
  <2>1. Names'
    BY <1>15 DEF Untrack, kernel, process, history, TypeOK, FdOwners, HoldsFd, Names, Kept, Stored
  <2>2. StoreBound'
    BY <1>15, BoundKept DEF Untrack, kernel, process, history, TypeOK, FdOwners, HoldsFd, Names, Kept, Stored
  <2>3. Kept'
    BY <1>15 DEF Untrack, kernel, process, history, TypeOK, FdOwners, HoldsFd, Names, Kept, Stored
  <2> QED
    BY <2>1, <2>2, <2>3
<1>16. ASSUME NEW w \in Worker, CloseFd(w) PROVE StoreInv'
  <2>1. Names'
    BY <1>16 DEF CloseFd, kernel, process, history, TypeOK, FdOwners, HoldsFd, Names, Kept, Stored
  <2>2. StoreBound'
    BY <1>16, BoundKept DEF CloseFd, kernel, process, history, TypeOK, FdOwners, HoldsFd, Names, Kept, Stored
  <2>3. Kept'
    BY <1>16 DEF CloseFd, kernel, process, history, TypeOK, FdOwners, HoldsFd, Names, Kept, Stored
  <2> QED
    BY <2>1, <2>2, <2>3
<1>17. ASSUME NEW w \in Worker, StoreRemove(w) PROVE StoreInv'
  <2>1. Names'
    BY <1>17 DEF StoreRemove, Dropped, kernel, process, history, TypeOK, FdOwners, HoldsFd, Names, Kept, Stored
  <2>2. StoreBound'
    BY <1>17, BoundKept DEF StoreRemove, Dropped, kernel, process, history, TypeOK, FdOwners, HoldsFd, Names, Kept, Stored
  <2>3. Kept'
    BY <1>17 DEF StoreRemove, Dropped, kernel, process, history, TypeOK, FdOwners, HoldsFd, Names, Kept, Stored
  <2> QED
    BY <2>1, <2>2, <2>3
<1>18. ASSUME NEW w \in Worker, Release(w) PROVE StoreInv'
  <2>1. Names'
    BY <1>18 DEF Release, ReleaseBucket, kernel, process, history, TypeOK, FdOwners, HoldsFd, Names, Kept, Stored
  <2>2. StoreBound'
    BY <1>18, BoundKept DEF Release, ReleaseBucket, kernel, process, history, TypeOK, FdOwners, HoldsFd, Names, Kept, Stored
  <2>3. Kept'
    BY <1>18 DEF Release, ReleaseBucket, kernel, process, history, TypeOK, FdOwners, HoldsFd, Names, Kept, Stored
  <2> QED
    BY <2>1, <2>2, <2>3
<1>19. ASSUME NEW w \in Worker, SuperviseStored(w) PROVE StoreInv'
  <2>1. Names'
    BY <1>19 DEF SuperviseStored, GivenBack, kernel, process, history, TypeOK, FdOwners, HoldsFd, Names, Kept, Stored
  <2>2. StoreBound'
    BY <1>19, BoundKept DEF SuperviseStored, GivenBack, kernel, process, history, TypeOK, FdOwners, HoldsFd, Names, Kept, Stored
  <2>3. Kept'
    BY <1>19 DEF SuperviseStored, GivenBack, kernel, process, history, TypeOK, FdOwners, HoldsFd, Names, Kept, Stored
  <2> QED
    BY <2>1, <2>2, <2>3
<1>20. ASSUME ProcessEnds PROVE StoreInv'
  <2>1. Names'
    BY <1>20 DEF ProcessEnds, AgentGone, TypeOK, FdOwners, HoldsFd, Names, Kept, Stored
  <2>2. StoreBound'
    BY <1>20, BoundKept DEF ProcessEnds, AgentGone, TypeOK, FdOwners, HoldsFd, Names, Kept, Stored
  <2>3. Kept'
    BY <1>20 DEF ProcessEnds, AgentGone, TypeOK, FdOwners, HoldsFd, Names, Kept, Stored
  <2> QED
    BY <2>1, <2>2, <2>3
<1>31. ASSUME ServiceStopped PROVE StoreInv'
  <2> USE DEF ServiceStopped, AgentGone
  <2>1. Names'
    BY <1>31 DEF TypeOK, FdOwners, HoldsFd, Names
  <2>2. StoreBound'
    <3>1. Stored' = {}
      BY <1>31 DEF Stored
    <3> QED
      BY <1>31, <3>1, FS_EmptySet, CapAssumption DEF StoreBound
  <2>3. Kept'
    BY <1>31 DEF Kept
  <2> QED
    BY <2>1, <2>2, <2>3
<1>21. ASSUME Restart \/ Start PROVE StoreInv'
  <2> PICK fds \in [Stored -> Fd] :
         /\ \A k, m \in Stored : fds[k] = fds[m] => k = m
         /\ toAdopt' = {<<fds[m], m>> : m \in Stored}
         /\ file' = [d \in Fd |->
              IF \E m \in Stored : fds[m] = d
                THEN stored[CHOOSE m \in Stored : fds[m] = d] ELSE None]
    BY <1>21 DEF Restart, Start, AgentStarts, Stored
  <2>1. /\ phase \in {"stopped", "down"} /\ phase' = "adopting"
        /\ UNCHANGED <<alive, stored, n, pc, fdOf, nameOf, safe>>
    BY <1>21 DEF Restart, Start, AgentStarts, kernel
  <2>2. \A m \in Stored : file'[fds[m]] = stored[m]
    OBVIOUS
  <2>3. \A w \in Worker : pc[w] = "free" /\ nameOf[w] = None
    BY <2>1 DEF FdOwners, Names
  <2>4. Names'
    <3>1. \A x \in toAdopt' : x[2] \in Stored /\ x[1] = fds[x[2]] /\ x = <<fds[x[2]], x[2]>>
      OBVIOUS
    <3> QED
      BY <2>1, <2>2, <2>3, <3>1 DEF Names, Stored
  <2>5. StoreBound'
    <3>1. n = 0
      <4>1. {w \in Worker : slot[w] = "capped"} = {}
        BY <2>3 DEF IInv, SlotPhase
      <4> QED
        BY <4>1, FS_EmptySet DEF IInv, SlotsExact
    <3>2. IsFiniteSet(toAdopt') /\ Cardinality(toAdopt') <= Cardinality(Stored)
      <4> DEFINE g == [m \in Stored |-> <<fds[m], m>>]
      <4>1. g \in Surjection(Stored, toAdopt')
        BY DEF Surjection
      <4> QED
        BY <4>1, FS_Surjection DEF StoreBound
    <3>3. Cardinality(toAdopt') \in Nat /\ Cardinality(Stored) \in Nat
      BY <3>2, FS_CardinalityType DEF StoreBound
    <3>4. Stored' = Stored
      BY <2>1 DEF Stored
    <3> QED
      BY <2>1, <3>1, <3>2, <3>3, <3>4 DEF StoreBound
  <2>6. Kept'
    BY <2>1 DEF Kept
  <2> QED
    BY <2>4, <2>5, <2>6
<1>22. ASSUME NEW d \in Fd, NEW m \in Name, NEW w \in Worker, Adopt(d, m, w) PROVE StoreInv'
  <2>1. /\ Acquire /\ IsFiniteSet(toAdopt \ {<<d, m>>})
        /\ n + 1 + Cardinality(toAdopt \ {<<d, m>>}) <= StoreCap
    BY <1>22, RoomToAdopt DEF Adopt
  <2>2. /\ phase = "adopting" /\ <<d, m>> \in toAdopt /\ pc[w] = "free"
        /\ toAdopt' = toAdopt \ {<<d, m>>} /\ n' = n + 1
        /\ pc' = [pc EXCEPT ![w] = "inherited"] /\ fdOf' = [fdOf EXCEPT ![w] = d]
        /\ nameOf' = [nameOf EXCEPT ![w] = m]
        /\ UNCHANGED <<alive, file, stored, phase, safe>>
    BY <1>22, <2>1 DEF Adopt, kernel, history
  <2>3. Names'
    BY <2>2 DEF TypeOK, Names
  <2>4. StoreBound'
    BY <2>1, <2>2 DEF StoreBound, Stored
  <2>5. Kept'
    BY <2>2 DEF TypeOK, Kept
  <2> QED
    BY <2>3, <2>4, <2>5
<1>23. ASSUME OpenSockets PROVE StoreInv'
  <2>1. Names'
    BY <1>23 DEF OpenSockets, kernel, process, history, TypeOK, FdOwners, HoldsFd, Names, Kept, Stored
  <2>2. StoreBound'
    BY <1>23, BoundKept DEF OpenSockets, kernel, process, history, TypeOK, FdOwners, HoldsFd, Names, Kept, Stored
  <2>3. Kept'
    BY <1>23 DEF OpenSockets, kernel, process, history, TypeOK, FdOwners, HoldsFd, Names, Kept, Stored
  <2> QED
    BY <2>1, <2>2, <2>3
<1>24. ASSUME NEW f \in Filter, Bind(f) \/ Signalled(f) \/ KernelRelease(f)
       PROVE  UNCHANGED <<alive, stored, process, safe>>
  BY <1>24 DEF Bind, Signalled, KernelRelease, history
<1>25. ASSUME NEW w \in Worker, AcceptRefused(w) \/ OciMalformed(w)
       PROVE  pc[w] \in {"probe", "oci"} /\ Refuse(w)
  BY <1>25 DEF AcceptRefused, OciMalformed
<1>26. ASSUME UNCHANGED vars PROVE UNCHANGED <<alive, stored, process, safe>>
  BY <1>26 DEF vars, kernel, history
<1>27. ASSUME \E f \in Filter : Kernel(f) PROVE StoreInv'
  BY <1>1, <1>2, <1>3, <1>24, <1>27 DEF Kernel
<1>28. ASSUME Handoff PROVE StoreInv'
  BY <1>5, <1>6, <1>28 DEF Handoff
<1>29. ASSUME Startup PROVE StoreInv'
  BY <1>21, <1>22, <1>23, <1>29 DEF Startup
<1>30. ASSUME NEW w \in Worker, Work(w) \/ Fault(w) PROVE StoreInv'
  BY <1>7, <1>8, <1>9, <1>10, <1>11, <1>12, <1>13, <1>14, <1>15, <1>16, <1>17, <1>18, <1>19,
     <1>25, <1>30
  DEF Work, Fault
<1> QED
  BY <1>1, <1>4, <1>20, <1>21, <1>26, <1>27, <1>28, <1>29, <1>30, <1>31 DEF Next

(* A name has one owner, the cap has room for what the store returns, and  *)
(* what is safe is stored, in every reachable state.                       *)
THEOREM StoreInvariance == Spec => []StoreInv
<1>1. IInv /\ StoreInv /\ [Next]_vars => StoreInv'
  BY StepStore, NextIInv
<1> QED
  BY <1>1, Invariance, InitStore, PTL DEF Spec

(* The listener of a container that reached the store is not closed while  *)
(* the container lives, across crashes, kills, restarts and re-adoption,   *)
(* unless its supervisor failed or a full stop released the store since    *)
(* (fdstore.go AdoptStoredFds, notifycap.go).                              *)
THEOREM StoredListenersKept == Spec => []ListenerKept
<1>1. StoreInv => ListenerKept
  BY DEF StoreInv, Kept, ListenerKept, Lost, Referenced
<1> QED
  BY <1>1, StoreInvariance, PTL
=============================================================================
