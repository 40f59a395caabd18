--------------------------- MODULE MacSyncProofs ----------------------------
(* Proofs about the sync of the Mac's listeners, for any listeners, ports, *)
(* number of sessions and bounds.                                          *)
EXTENDS MacSync, SequenceTheorems, TLAPS

\* The agent's side of the invariant.
Table ==
  /\ reg \in [Key -> Listener \cup {None, Harness}]
  /\ owned \in SUBSET Key
  /\ told \in [Session -> SUBSET Listener]
  /\ phase \in [Session -> Phase]
  /\ NoStaleSteering /\ OwnershipExact
  /\ \A c, d \in Session : Holding(c) /\ Holding(d) => c = d

(* In the initial states nothing is steered but what was preset.           *)
LEMMA InitIInv == Init => IInv
<1> SUFFICES ASSUME Init PROVE IInv
  OBVIOUS
<1> USE KeyAssumption, BoundsAssumption, NoneAssumption
<1>1. TypeOK
  BY DEF Init, TypeOK, Phase, KeysOf
<1>2. NoStaleSteering /\ OwnershipExact
  BY DEF Init, NoStaleSteering, OwnershipExact
<1> QED
  BY <1>1, <1>2 DEF Init, IInv, Holding

(* Steps that change neither the table nor a phase keep its invariant.     *)
LEMMA TableUnchanged == Table /\ UNCHANGED <<reg, owned, told, phase>> => Table'
  BY DEF Table, NoStaleSteering, OwnershipExact, Holding

(* Applying one event keeps the table's invariant: whatever is steered,    *)
(* the one session that serves has announced it.                           *)
LEMMA ReceiveTable ==
  ASSUME Table, TypeOK, NEW c \in Session, Receive(c),
         Head(wire[c]).op = "snapshot" => told[c] = {}
  PROVE  Table'
<1> USE KeyAssumption, NoneAssumption, OutcomesAssumption
<1> DEFINE ev == Head(wire[c])
<1>1. ev \in Event
  BY HeadTailProperties DEF Receive, TypeOK
<1>2. /\ phase[c] = "serving" /\ phase' = phase
      /\ \A d \in Session : phase[d] = "serving" => d = c
  BY DEF Receive, Table, Holding
<1>3. \A k \in Key : reg[k] \in Listener => reg[k] \in told[c] /\ KeyOf[reg[k]] = k
  BY <1>2 DEF Table, NoStaleSteering
<1>4. SUFFICES /\ reg' \in [Key -> Listener \cup {None, Harness}]
               /\ told' \in [Session -> SUBSET Listener]
               /\ \A k \in Key : reg'[k] \in Listener =>
                    reg'[k] \in told'[c] /\ KeyOf[reg'[k]] = k
               /\ owned' = {k \in Key : reg'[k] \in Listener}
               /\ \A k \in Preset : reg'[k] = Harness
  BY <1>2 DEF Table, NoStaleSteering, OwnershipExact, Holding
<1>5. CASE ev.op = "snapshot"
  <2>1. ev.all \in SUBSET Listener /\ SyncSnapshot(ev.all)
        /\ told' = [told EXCEPT ![c] = ev.all]
    BY <1>1, <1>5 DEF Receive, Event
  <2> DEFINE S == ev.all
             stale == owned \ KeysOf(S)
             free == {k \in Key : Removed(stale)[k] = None}
  <2>2. PICK added \in SUBSET (KeysOf(S) \cap free) :
             /\ owned' = (owned \ stale) \cup added
             /\ \E pick \in [added -> S] :
                  /\ \A k \in added : KeyOf[pick[k]] = k
                  /\ reg' = [k \in Key |-> IF k \in added THEN pick[k] ELSE Removed(stale)[k]]
    BY <2>1 DEF SyncSnapshot
  <2>3. PICK pick \in [added -> S] :
             /\ \A k \in added : KeyOf[pick[k]] = k
             /\ reg' = [k \in Key |-> IF k \in added THEN pick[k] ELSE Removed(stale)[k]]
    BY <2>2
  <2>4. told[c] = {}
    BY <1>5 DEF Receive
  <2>5. owned = {} /\ \A k \in Key : reg[k] \notin Listener
    BY <1>3, <2>4 DEF Table, OwnershipExact
  <2> HIDE DEF ev
  <2>6. /\ \A k \in Key : reg'[k] = IF k \in added THEN pick[k] ELSE reg[k]
        /\ owned' = added /\ added \subseteq Key
        /\ \A k \in added : pick[k] \in S /\ reg[k] = None
    BY <2>2, <2>3, <2>5 DEF Removed, KeysOf
  <2> HIDE DEF S
  <2> QED
    BY <1>3, <2>1, <2>3, <2>5, <2>6 DEF Table, OwnershipExact, Removed, S
<1>6. CASE ev.op = "add"
  <2>1. ev.l \in Listener /\ AddSyncPort(ev.l)
        /\ told' = [told EXCEPT ![c] = @ \cup {ev.l}]
    BY <1>1, <1>6 DEF Receive, Event
  <2> DEFINE l == ev.l
             tried == {KeyOf[l]} \cap {k \in Key : reg[k] = None}
  <2>2. PICK added \in SUBSET tried :
             /\ reg' = [k \in Key |-> IF k \in added THEN l ELSE reg[k]]
             /\ owned' = owned \cup added
    BY <2>1 DEF AddSyncPort, OwnedAfter
  <2> HIDE DEF ev
  <2> QED
    BY <1>3, <2>1, <2>2 DEF Table, OwnershipExact
<1>7. CASE ev.op = "del"
  <2>1. ev.l \in Listener /\ DelSyncPort(ev.l, told[c] \ {ev.l})
        /\ told' = [told EXCEPT ![c] = @ \ {ev.l}]
    BY <1>1, <1>7 DEF Receive, Event
  <2> HIDE DEF ev
  <2> QED
    BY <1>3, <2>1 DEF Table, OwnershipExact, DelSyncPort, Removed, Ours
<1> QED
  BY <1>1, <1>5, <1>6, <1>7 DEF Event

-----------------------------------------------------------------------------

\* In every connection a snapshot comes first, if it is still under way.
SnapshotFirst(w, t) ==
  \A c \in Session : \A i \in 1..Len(w[c]) :
    w[c][i].op = "snapshot" => i = 1 /\ t[c] = {}

(* Encoding an edit, or a snapshot into a connection nothing was sent on,  *)
(* keeps snapshots first.                                                  *)
LEMMA EncodeWire ==
  ASSUME wire \in [Session -> Seq(Event)], SnapshotFirst(wire, told),
         cur \in Session, NEW ev \in Event, Encode(ev),
         ev.op = "snapshot" => wire[cur] = <<>> /\ told[cur] = {}
  PROVE  wire' \in [Session -> Seq(Event)] /\ SnapshotFirst(wire', told)
<1>1. CASE wire' = wire
  BY <1>1
<1>2. CASE wire' = [wire EXCEPT ![cur] = Append(@, ev)]
  <2> DEFINE q == wire[cur]
  <2>1. q \in Seq(Event)
    OBVIOUS
  <2>2. /\ Append(q, ev) \in Seq(Event) /\ Len(Append(q, ev)) = Len(q) + 1
        /\ Len(q) \in Nat
        /\ \A i \in 1..Len(q) : Append(q, ev)[i] = q[i]
        /\ Append(q, ev)[Len(q) + 1] = ev
    BY <2>1, AppendProperties, LenProperties
  <2>3. q = <<>> => Len(q) = 0
    BY <2>1, EmptySeq
  <2>4. \A i \in 1..Len(q) : q[i].op = "snapshot" => i = 1 /\ told[cur] = {}
    BY DEF SnapshotFirst
  <2>5. wire'[cur] = Append(q, ev) /\ \A c \in Session \ {cur} : wire'[c] = wire[c]
    BY <1>2
  <2> HIDE DEF q
  <2>6. \A i \in 1..Len(wire'[cur]) :
          wire'[cur][i].op = "snapshot" => i = 1 /\ told[cur] = {}
    <3> SUFFICES ASSUME NEW i \in 1..(Len(q) + 1), Append(q, ev)[i].op = "snapshot"
                 PROVE  i = 1 /\ told[cur] = {}
      BY <2>2, <2>5
    <3>1. CASE i \in 1..Len(q)
      BY <2>2, <2>4, <3>1
    <3>2. CASE i = Len(q) + 1
      BY <2>2, <2>3, <3>2 DEF q
    <3> QED
      BY <2>2, <3>1, <3>2
  <2>7. SnapshotFirst(wire', told)
    BY <2>5, <2>6 DEF SnapshotFirst
  <2> QED
    BY <1>2, <2>2, <2>7 DEF q
<1> QED
  BY <1>1, <1>2 DEF Encode

(* Every step keeps the inductive invariant.                               *)
LEMMA StepIInv == IInv /\ [Next]_vars => IInv'
<1> SUFFICES ASSUME IInv, [Next]_vars PROVE IInv'
  OBVIOUS
<1> USE NoneAssumption, BoundsAssumption, KeyAssumption
<1>i. TypeOK /\ Table /\ SnapshotFirst(wire, told)
  BY DEF IInv, Table, SnapshotFirst, TypeOK
<1>t. Table' /\ SnapshotFirst(wire, told)' /\ TypeOK' /\ (pc = "down" <=> cur = None)'
      /\ (pc = "dialled" => wire[cur] = <<>> /\ told[cur] = {})' => IInv'
  BY DEF IInv, Table, SnapshotFirst
<1>k. \A S \in SUBSET Listener : KeysOf(S) \in SUBSET Key
  BY DEF KeysOf
<1>1. ASSUME NEW l \in Listener, MacChange(l) PROVE IInv'
  <2>1. Table'
    BY <1>1, <1>i, TableUnchanged DEF MacChange, agentVars
  <2>2. TypeOK'
    BY <1>1, <1>i DEF MacChange, agentVars, Fault, TypeOK
  <2> QED
    BY <1>1, <1>i, <1>t, <2>1, <2>2 DEF MacChange, agentVars, IInv, SnapshotFirst
<1>2. ASSUME NEW c \in Session, Dial(c) PROVE IInv'
  <2>1. TypeOK'
    BY <1>2, <1>i DEF Dial, TypeOK, Phase
  <2>2. Table'
    BY <1>2, <1>i DEF Dial, Table, Phase, NoStaleSteering, OwnershipExact, Holding
  <2>3. SnapshotFirst(wire, told)'
    BY <1>2, <1>i DEF Dial, SnapshotFirst, TypeOK
  <2> QED
    BY <1>2, <1>i, <1>t, <2>1, <2>2, <2>3 DEF Dial, TypeOK
<1>3. ASSUME NEW ev \in Event, pc # "down", pc' # "dialled", pc' # "down",
             ev.op = "snapshot" => pc = "dialled", Encode(ev),
             sent' \in SUBSET Listener, target' \in SUBSET Listener,
             pc' \in {"sending", "ticking"},
             UNCHANGED <<mac, cur, advertised, faults, cut, macShut, agentVars>>
      PROVE  IInv'
  <2>1. cur \in Session /\ (ev.op = "snapshot" => wire[cur] = <<>> /\ told[cur] = {})
    BY <1>3 DEF IInv, TypeOK
  <2>2. wire' \in [Session -> Seq(Event)] /\ SnapshotFirst(wire', told)
    BY <1>3, <1>i, <2>1, EncodeWire DEF TypeOK
  <2>3. Table'
    BY <1>3, <1>i, TableUnchanged DEF agentVars
  <2>4. TypeOK'
    BY <1>3, <1>i, <2>2 DEF agentVars, TypeOK
  <2> QED
    BY <1>3, <1>t, <2>1, <2>2, <2>3, <2>4 DEF agentVars, SnapshotFirst
<1>4. ASSUME SendSnapshot PROVE IInv'
  <2>1. Snapshot(mac) \in Event /\ Snapshot(mac).op = "snapshot" /\ mac \in SUBSET Listener
    BY <1>i DEF Snapshot, Event, TypeOK
  <2> QED
    BY <1>3, <1>4, <2>1 DEF SendSnapshot
<1>5. ASSUME NEW l \in Listener, SendDel(l) \/ SendAdd(l) PROVE IInv'
  <2>1. \A op \in {"add", "del"} : Edit(op, l) \in Event /\ Edit(op, l).op # "snapshot"
    BY DEF Edit, Event
  <2>2. sent \in SUBSET Listener /\ target \in SUBSET Listener
    BY <1>i DEF TypeOK
  <2>3. CASE SendDel(l)
    BY <1>3, <2>1, <2>2, <2>3 DEF SendDel
  <2>4. CASE SendAdd(l)
    BY <1>3, <2>1, <2>2, <2>4 DEF SendAdd
  <2> QED
    BY <1>5, <2>3, <2>4
<1>6. ASSUME Tick \/ Publish PROVE IInv'
  <2>1. Table'
    BY <1>6, <1>i, TableUnchanged DEF Tick, Publish, agentVars
  <2>2. TypeOK'
    BY <1>6, <1>i, <1>k DEF Tick, Publish, Diffed, agentVars, TypeOK
  <2> QED
    BY <1>6, <1>i, <1>t, <2>1, <2>2 DEF Tick, Publish, agentVars, IInv, SnapshotFirst
<1>7. ASSUME MacNotices \/ PollFails PROVE IInv'
  <2>1. MacReturns /\ cur \in Session /\ faults' \in 0..MaxFaults
    BY <1>7, <1>i DEF MacNotices, PollFails, Fault, IInv, TypeOK
  <2>2. Table'
    BY <2>1, <1>i, TableUnchanged DEF MacReturns, agentVars
  <2>3. TypeOK'
    BY <2>1, <1>i DEF MacReturns, agentVars, TypeOK
  <2> QED
    BY <2>1, <1>i, <1>t, <2>2, <2>3 DEF MacReturns, agentVars, SnapshotFirst
<1>8. ASSUME NEW c \in Session, Cut(c) PROVE IInv'
  <2>1. PICK n \in 0..Len(wire[c]) : wire' = [wire EXCEPT ![c] = SubSeq(@, 1, n)]
    BY <1>8 DEF Cut
  <2> DEFINE q == wire[c]
  <2>2. q \in Seq(Event) /\ Len(q) \in Nat
    BY <1>i, LenProperties DEF TypeOK
  <2>3. /\ SubSeq(q, 1, n) \in Seq(Event) /\ Len(SubSeq(q, 1, n)) = n
        /\ \A i \in 1..n : SubSeq(q, 1, n)[i] = q[i] /\ i \in 1..Len(q)
    BY <2>2
  <2>4. /\ wire'[c] = SubSeq(q, 1, n) /\ \A d \in Session \ {c} : wire'[d] = wire[d]
        /\ wire' \in [Session -> Seq(Event)]
    BY <2>1, <2>3, <1>i DEF TypeOK
  <2>5. told' = told /\ cur' = cur /\ pc' = pc
    BY <1>8 DEF Cut, agentVars
  <2>6. SnapshotFirst(wire, told)'
    BY <1>i, <2>3, <2>4, <2>5 DEF SnapshotFirst
  <2>7. q = <<>> => wire'[c] = <<>>
    BY <2>2, <2>3, <2>4
  <2>8. Table'
    BY <1>8, <1>i, TableUnchanged DEF Cut, agentVars
  <2>9. TypeOK'
    BY <1>8, <1>i, <2>4 DEF Cut, agentVars, Fault, TypeOK
  <2>10. (pc = "dialled" => wire[cur] = <<>> /\ told[cur] = {})'
    BY <2>4, <2>5, <2>7 DEF IInv, TypeOK
  <2> QED
    BY <1>t, <2>5, <2>6, <2>8, <2>9, <2>10 DEF IInv
<1>9. ASSUME NEW c \in Session, Kick(c) \/ Lock(c) \/ Install(c) \/ ReadFails(c) \/ Unlock(c)
      PROVE  IInv'
  <2>1. UNCHANGED <<macVars, wire, told>>
    BY <1>9 DEF Kick, Lock, Install, ReadFails, Unlock
  <2>2. TypeOK'
    BY <1>9, <1>i DEF Kick, Lock, Install, ReadFails, Unlock, macVars, TypeOK, Phase,
       Removed, Dropped
  <2>3. Table'
    <3>1. CASE Kick(c) \/ Install(c) \/ Unlock(c)
      BY <1>i, <3>1 DEF Kick, Install, Unlock, Table, Phase, NoStaleSteering,
         OwnershipExact, Holding
    <3>2. CASE Lock(c)
      BY <1>i, <3>2 DEF Lock, Unlocked, Table, Phase, NoStaleSteering,
         OwnershipExact, Holding
    <3>3. CASE ReadFails(c)
      BY <1>i, <3>3 DEF ReadFails, Removed, Dropped, Table, Phase, NoStaleSteering,
         OwnershipExact, Holding
    <3> QED
      BY <1>9, <3>1, <3>2, <3>3
  <2> QED
    BY <1>i, <1>t, <2>1, <2>2, <2>3 DEF macVars, IInv, SnapshotFirst
<1>10. ASSUME NEW c \in Session, Receive(c) PROVE IInv'
  <2> DEFINE q == wire[c]
  <2>1. q \in Seq(Event) /\ q # <<>> /\ Len(q) \in Nat \ {0}
    BY <1>10, <1>i, EmptySeq, LenProperties DEF Receive, TypeOK
  <2>2. /\ Tail(q) \in Seq(Event) /\ Len(Tail(q)) = Len(q) - 1
        /\ \A i \in 1..Len(Tail(q)) : Tail(q)[i] = q[i + 1]
        /\ Head(q) = q[1] /\ Head(q) \in Event
    BY <2>1, HeadTailProperties
  <2>3. \A i \in 1..Len(q) : q[i].op = "snapshot" => i = 1 /\ told[c] = {}
    BY <1>i DEF SnapshotFirst
  <2>4. /\ wire'[c] = Tail(q) /\ \A d \in Session \ {c} : wire'[d] = wire[d]
        /\ wire' \in [Session -> Seq(Event)]
        /\ \A d \in Session \ {c} : told'[d] = told[d]
        /\ UNCHANGED <<macVars, cut, macShut, kicked, phase, syncConn>>
    BY <1>10, <1>i, <2>2 DEF Receive, TypeOK
  <2> HIDE DEF q
  <2>5. \A i \in 1..Len(Tail(q)) : Tail(q)[i].op # "snapshot"
    <3> SUFFICES ASSUME NEW i \in 1..Len(Tail(q)) PROVE q[i + 1].op # "snapshot"
      BY <2>2
    <3>1. i + 1 \in 1..Len(q) /\ i + 1 # 1
      BY <2>1, <2>2
    <3> QED
      BY <2>3, <3>1
  <2>6. SnapshotFirst(wire, told)'
    BY <1>i, <2>4, <2>5 DEF SnapshotFirst
  <2>7. Head(q).op = "snapshot" => told[c] = {}
    BY <2>1, <2>2, <2>3
  <2>8. Table'
    BY <1>10, <1>i, <2>7, ReceiveTable DEF q
  <2>l. lapsed' \in SUBSET Key
    <3> DEFINE ev == Head(q)
    <3>1. \/ /\ ev.op = "snapshot" /\ SyncSnapshot(ev.all)
          \/ /\ ev.op = "add" /\ AddSyncPort(ev.l)
          \/ /\ ev.op = "del" /\ DelSyncPort(ev.l, told[c] \ {ev.l})
      BY <1>10 DEF Receive, q
    <3>2. lapsed \in SUBSET Key
      BY <1>i DEF TypeOK
    <3>3. CASE SyncSnapshot(ev.all)
      BY <3>3 DEF SyncSnapshot
    <3>4. CASE AddSyncPort(ev.l)
      BY <3>2, <3>4 DEF AddSyncPort
    <3>5. CASE ev.op = "del" /\ DelSyncPort(ev.l, told[c] \ {ev.l})
      <4>1. ev.l \in Listener /\ KeyOf[ev.l] \in Key
        BY <2>2, <3>5, KeyAssumption DEF Event
      <4> QED
        BY <3>2, <3>5, <4>1 DEF DelSyncPort
    <3> QED
      BY <3>1, <3>3, <3>4, <3>5
  <2>9. TypeOK'
    BY <1>i, <2>4, <2>8, <2>l DEF TypeOK, Table, macVars
  <2>10. (pc = "dialled" => wire[cur] = <<>> /\ told[cur] = {})'
    BY <1>i, <2>1, <2>4 DEF IInv, TypeOK, macVars, q
  <2> QED
    BY <1>t, <2>4, <2>6, <2>8, <2>9, <2>10 DEF IInv, macVars
<1>11. ASSUME UNCHANGED vars PROVE IInv'
  <2>1. Table'
    BY <1>11, <1>i, TableUnchanged DEF vars, agentVars
  <2>2. TypeOK'
    BY <1>11, <1>i DEF vars, agentVars, macVars, TypeOK
  <2> QED
    BY <1>11, <1>i, <1>t, <2>1, <2>2 DEF vars, agentVars, macVars, IInv, SnapshotFirst
<1> QED
  BY <1>1, <1>2, <1>4, <1>5, <1>6, <1>7, <1>8, <1>9, <1>10, <1>11
  DEF Next, MacStep, AgentStep, Faulty

(* The inductive invariant holds in every state of every behaviour.        *)
THEOREM Invariance == Spec => []IInv
  BY InitIInv, StepIInv, PTL DEF Spec

(* The guest steers traffic to the Mac only on the word of the session     *)
(* that is being served.                                                   *)
THEOREM SteersOnlyAnnounced == Spec => []NoStaleSteering
<1>1. IInv => NoStaleSteering
  BY DEF IInv
<1> QED
  BY <1>1, Invariance, PTL

(* The sync owns what it registered, and the control socket's entries stay.*)
THEOREM OwnsItsOwn == Spec => []OwnershipExact
<1>1. IInv => OwnershipExact
  BY DEF IInv
<1> QED
  BY <1>1, Invariance, PTL

-----------------------------------------------------------------------------
(* Keeping step. *)

(* One event leaves registered every port the session has announced that   *)
(* has not lapsed: an add finds the key taken, takes it or lets it lapse,  *)
(* and a del takes back all that was announced for its port or, with a     *)
(* second address, lets it lapse.                                          *)
LEMMA ReceiveInStep ==
  ASSUME TypeOK, Table, InStep, NEW c \in Session, Receive(c)
  PROVE  \A k \in KeysOf(told'[c]) \ lapsed' : reg'[k] # None
<1> USE KeyAssumption, NoneAssumption, OutcomesAssumption
<1> DEFINE ev == Head(wire[c])
<1>1. ev \in Event
  BY HeadTailProperties DEF Receive, TypeOK
<1>2. \A k \in KeysOf(told[c]) \ lapsed : reg[k] # None
  BY DEF Receive, InStep
<1>3. told \in [Session -> SUBSET Listener] /\ reg \in [Key -> Listener \cup {None, Harness}]
  BY DEF TypeOK
<1>4. CASE ev.op = "snapshot"
  <2>1. ev.all \in SUBSET Listener /\ SyncSnapshot(ev.all)
        /\ told' = [told EXCEPT ![c] = ev.all]
    BY <1>1, <1>4 DEF Receive, Event
  <2> DEFINE S == ev.all
             stale == owned \ KeysOf(S)
             free == {k \in Key : Removed(stale)[k] = None}
  <2>a. PICK some \in SUBSET (KeysOf(S) \cap free) :
             /\ lapsed' = (KeysOf(S) \cap free) \ some
             /\ \E pick \in [some -> S] :
                  /\ \A k \in some : KeyOf[pick[k]] = k
                  /\ reg' = [k \in Key |-> IF k \in some THEN pick[k] ELSE Removed(stale)[k]]
    BY <2>1 DEF SyncSnapshot
  <2>2. PICK pick \in [some -> S] :
             /\ \A k \in some : KeyOf[pick[k]] = k
             /\ reg' = [k \in Key |-> IF k \in some THEN pick[k] ELSE Removed(stale)[k]]
    BY <2>a
  <2>3. told'[c] = S
    BY <1>3, <2>1
  <2> HIDE DEF ev
  <2>4. ASSUME NEW k \in KeysOf(S) \ lapsed' PROVE reg'[k] # None
    <3>1. k \in Key
      BY <2>1, <2>4 DEF KeysOf
    <3>2. CASE k \in some
      <4>1. pick[k] \in S /\ reg'[k] = pick[k]
        BY <2>2, <3>1, <3>2
      <4> QED
        BY <2>1, <4>1
    <3>3. CASE k \notin some
      <4>1. k \notin free
        BY <2>a, <2>4, <3>3
      <4>2. reg'[k] = Removed(stale)[k] /\ Removed(stale)[k] # None
        BY <2>2, <3>1, <3>3, <4>1
      <4> QED
        BY <4>2
    <3> QED
      BY <3>2, <3>3
  <2> QED
    BY <2>3, <2>4
<1>5. CASE ev.op = "add"
  <2>1. ev.l \in Listener /\ AddSyncPort(ev.l)
        /\ told' = [told EXCEPT ![c] = @ \cup {ev.l}]
    BY <1>1, <1>5 DEF Receive, Event
  <2> DEFINE l == ev.l
             tried == {KeyOf[l]} \cap {k \in Key : reg[k] = None}
  <2>2. PICK added \in SUBSET tried :
             /\ reg' = [k \in Key |-> IF k \in added THEN l ELSE reg[k]]
             /\ lapsed' = (lapsed \ added) \cup (tried \ added)
    BY <2>1 DEF AddSyncPort
  <2>3. told'[c] = told[c] \cup {l}
    BY <1>3, <2>1
  <2> HIDE DEF ev
  <2>4. ASSUME NEW m \in told[c] \cup {l}, KeyOf[m] \notin lapsed'
        PROVE  reg'[KeyOf[m]] # None
    <3>1. m \in Listener /\ KeyOf[m] \in Key
      BY <1>3, <2>1, <2>4
    <3>2. CASE KeyOf[m] \in added
      BY <2>1, <2>2, <3>1, <3>2
    <3>3. CASE KeyOf[m] \notin added
      <4>1. KeyOf[m] \notin lapsed /\ KeyOf[m] \notin tried
        BY <2>2, <2>4, <3>3
      <4>2. reg[KeyOf[m]] # None
        BY <1>2, <2>4, <3>1, <4>1 DEF KeysOf
      <4> QED
        BY <2>2, <3>1, <3>3, <4>2
    <3> QED
      BY <3>2, <3>3
  <2> QED
    BY <2>3, <2>4 DEF KeysOf
<1>6. CASE ev.op = "del"
  <2>1. ev.l \in Listener /\ DelSyncPort(ev.l, told[c] \ {ev.l})
        /\ told' = [told EXCEPT ![c] = @ \ {ev.l}]
    BY <1>1, <1>6 DEF Receive, Event
  <2> DEFINE l == ev.l
  <2>2. told'[c] = told[c] \ {l}
    BY <1>3, <2>1
  <2> HIDE DEF ev
  <2>3. ASSUME NEW m \in told[c] \ {l}, KeyOf[m] \notin lapsed'
        PROVE  reg'[KeyOf[m]] # None
    <3>1. /\ m \in Listener /\ KeyOf[m] \in Key
          /\ KeyOf[m] # KeyOf[l] /\ KeyOf[m] \notin lapsed
      BY <1>3, <2>1, <2>3 DEF DelSyncPort, KeysOf
    <3>2. reg[KeyOf[m]] # None
      BY <1>2, <2>3, <3>1 DEF KeysOf
    <3> QED
      BY <2>1, <3>1, <3>2 DEF DelSyncPort, Removed, Ours
  <2> QED
    BY <2>2, <2>3 DEF KeysOf
<1> QED
  BY <1>1, <1>4, <1>5, <1>6 DEF Event

(* Every step keeps the agent in step with what it was told.               *)
LEMMA StepInStep ==
  ASSUME IInv, ToldLater, InStep, [Next]_vars
  PROVE  ToldLater' /\ InStep'
<1>i. TypeOK /\ Table
  BY DEF IInv, Table, TypeOK
<1>h. \A c, d \in Session : Holding(c) /\ Holding(d) => c = d
  BY DEF IInv
<1>1. ASSUME UNCHANGED <<reg, told, phase, lapsed>> PROVE ToldLater' /\ InStep'
  BY <1>1 DEF ToldLater, InStep
<1>2. ASSUME NEW c \in Session, Dial(c) PROVE ToldLater' /\ InStep'
  BY <1>2, <1>i DEF Dial, TypeOK, ToldLater, InStep
<1>3. ASSUME NEW c \in Session, Kick(c) \/ Lock(c) \/ Unlock(c) PROVE ToldLater' /\ InStep'
  BY <1>3, <1>i DEF Kick, Lock, Unlock, TypeOK, ToldLater, InStep
<1>4. ASSUME NEW c \in Session, Install(c) PROVE ToldLater' /\ InStep'
  BY <1>4, <1>i DEF Install, TypeOK, ToldLater, InStep, KeysOf
<1>5. ASSUME NEW c \in Session, ReadFails(c) PROVE ToldLater' /\ InStep'
  <2>1. \A d \in Session : phase'[d] # "serving"
    BY <1>5, <1>h, <1>i DEF ReadFails, Holding, TypeOK
  <2> QED
    BY <1>5, <1>i, <2>1 DEF ReadFails, TypeOK, ToldLater, InStep
<1>6. ASSUME NEW c \in Session, Receive(c) PROVE ToldLater' /\ InStep'
  <2>1. \A k \in KeysOf(told'[c]) \ lapsed' : reg'[k] # None
    BY <1>6, <1>i, ReceiveInStep
  <2>2. /\ phase' = phase /\ phase[c] = "serving"
        /\ \A d \in Session : phase[d] = "serving" => d = c
        /\ \A d \in Session \ {c} : told'[d] = told[d]
    BY <1>6, <1>h, <1>i DEF Receive, Holding, TypeOK
  <2> QED
    BY <2>1, <2>2 DEF ToldLater, InStep
<1>7. ASSUME MacStep \/ Faulty \/ UNCHANGED vars PROVE UNCHANGED <<reg, told, phase, lapsed>>
  BY <1>7 DEF MacStep, SendSnapshot, Tick, Publish, MacNotices, MacReturns, SendDel, SendAdd,
     Faulty, MacChange, PollFails, Cut, agentVars, vars
<1> QED
  BY <1>1, <1>2, <1>3, <1>4, <1>5, <1>6, <1>7 DEF Next, AgentStep

(* A port that the session being served has announced and not taken back   *)
(* is registered (agent/macsync.go serveMacSync), whatever earlier         *)
(* sessions still clean up, unless its add failed or a del of another      *)
(* address of the port took it away.                                       *)
THEOREM KeepsInStep == Spec => []InStep
<1>1. Init => ToldLater /\ InStep
  BY DEF Init, ToldLater, InStep
<1>2. IInv /\ ToldLater /\ InStep /\ [Next]_vars => ToldLater' /\ InStep'
  BY StepInStep
<1> QED
  BY <1>1, <1>2, Invariance, PTL DEF Spec

-----------------------------------------------------------------------------
(* Both ends. *)

(* One more event at the end of what is under way leads one step further.  *)
LEMMA LeadsAppend ==
  ASSUME NEW q \in Seq(Event), NEW ev \in Event,
         NEW S \in SUBSET Listener, NEW T \in SUBSET Listener, Leads(q, S, T),
         After(ev, T) \in SUBSET Listener
  PROVE  Leads(Append(q, ev), S, After(ev, T))
<1>1. PICK h \in [0..Len(q) -> SUBSET Listener] :
        h[0] = S /\ h[Len(q)] = T /\ \A i \in 1..Len(q) : h[i] = After(q[i], h[i - 1])
  BY DEF Leads
<1> DEFINE U == After(ev, T)
           p == Append(q, ev)
           g == [i \in 0..Len(p) |-> IF i <= Len(q) THEN h[i] ELSE U]
<1>2. /\ Len(q) \in Nat /\ Len(p) = Len(q) + 1 /\ p[Len(q) + 1] = ev
      /\ \A i \in 1..Len(q) : p[i] = q[i]
  BY AppendProperties, LenProperties
<1> HIDE DEF p, U
<1>3. g \in [0..Len(p) -> SUBSET Listener] /\ g[0] = S /\ g[Len(p)] = U
  BY <1>1, <1>2 DEF U
<1>4. ASSUME NEW i \in 1..Len(p) PROVE g[i] = After(p[i], g[i - 1])
  <2>1. CASE i \in 1..Len(q)
    <3>1. g[i - 1] = h[i - 1] /\ g[i] = h[i]
      BY <1>2, <2>1
    <3> QED
      BY <1>1, <1>2, <2>1, <3>1
  <2>2. CASE i = Len(q) + 1
    <3>1. g[i - 1] = T /\ g[i] = U
      BY <1>1, <1>2, <2>2
    <3> QED
      BY <1>2, <2>2, <3>1 DEF U
  <2> QED
    BY <1>2, <2>1, <2>2
<1> HIDE DEF g
<1>5. Leads(p, S, U)
  BY <1>3, <1>4 DEF Leads
<1> QED
  BY <1>5 DEF p, U

(* When the first event is applied, the rest leads on from there.          *)
LEMMA LeadsTail ==
  ASSUME NEW q \in Seq(Event), q # <<>>,
         NEW S \in SUBSET Listener, NEW T \in SUBSET Listener, Leads(q, S, T)
  PROVE  Leads(Tail(q), After(Head(q), S), T)
<1>1. PICK h \in [0..Len(q) -> SUBSET Listener] :
        h[0] = S /\ h[Len(q)] = T /\ \A i \in 1..Len(q) : h[i] = After(q[i], h[i - 1])
  BY DEF Leads
<1> DEFINE p == Tail(q)
           g == [i \in 0..Len(p) |-> h[i + 1]]
<1>2. /\ Len(q) \in Nat \ {0} /\ Len(p) = Len(q) - 1 /\ Head(q) = q[1]
      /\ \A i \in 1..Len(p) : p[i] = q[i + 1]
  BY HeadTailProperties, EmptySeq, LenProperties
<1>3. h[1] = After(Head(q), S)
  <2>1. 1 \in 1..Len(q) /\ 1 - 1 = 0
    BY <1>2
  <2> QED
    BY <1>1, <1>2, <2>1
<1> HIDE DEF p
<1>4. g \in [0..Len(p) -> SUBSET Listener] /\ g[0] = h[1] /\ g[Len(p)] = T
  BY <1>1, <1>2
<1>5. ASSUME NEW i \in 1..Len(p) PROVE g[i] = After(p[i], g[i - 1])
  <2>1. g[i - 1] = h[i] /\ g[i] = h[i + 1]
    BY <1>2
  <2>2. i + 1 \in 1..Len(q) /\ (i + 1) - 1 = i
    BY <1>2
  <2> QED
    BY <1>1, <1>2, <2>1, <2>2
<1> HIDE DEF g
<1>6. Leads(p, h[1], T)
  BY <1>4, <1>5 DEF Leads
<1> QED
  BY <1>3, <1>6 DEF p

(* With nothing under way both ends have the same.                         *)
LEMMA LeadsEmpty ==
  ASSUME NEW S \in SUBSET Listener, NEW T
  PROVE  Leads(<<>>, S, T) <=> S = T
<1>1. Len(<<>>) = 0
  OBVIOUS
<1>2. Leads(<<>>, S, T) => S = T
  BY <1>1 DEF Leads
<1>3. Leads(<<>>, S, S)
  <2> DEFINE h == [i \in 0..0 |-> S]
  <2>1. h \in [0..0 -> SUBSET Listener] /\ h[0] = S
    OBVIOUS
  <2> HIDE DEF h
  <2>2. \A i \in 1..0 : h[i] = After(<<>>[i], h[i - 1])
    OBVIOUS
  <2> QED
    BY <1>1, <2>1, <2>2 DEF Leads
<1> QED
  BY <1>2, <1>3

(* An event that is encoded on a living connection is what the agent will  *)
(* be told next.                                                           *)
LEMMA EncodeLeads ==
  ASSUME TypeOK, cur \in Session, NEW ev \in Event, Encode(ev),
         cur \notin cut \cup kicked, phase[cur] # "gone",
         NEW S \in SUBSET Listener, Leads(wire[cur], told[cur], S),
         After(ev, S) \in SUBSET Listener
  PROVE  Leads(wire'[cur], told[cur], After(ev, S))
<1>1. wire[cur] \in Seq(Event) /\ told[cur] \in SUBSET Listener
  BY DEF TypeOK
<1>2. wire'[cur] = Append(wire[cur], ev)
  BY DEF Encode, TypeOK
<1> QED
  BY <1>1, <1>2, LeadsAppend

(* Applying an event gives the agent's session what the event says, and    *)
(* makes no entry that looks like the control socket's.                    *)
LEMMA ReceiveTold ==
  ASSUME TypeOK, NEW c \in Session, Receive(c),
         \A k \in Key : reg[k] = Harness => k \in Preset
  PROVE  /\ told'[c] = After(Head(wire[c]), told[c])
         /\ \A k \in Key : reg'[k] = Harness => k \in Preset
<1> USE KeyAssumption, NoneAssumption
<1> DEFINE ev == Head(wire[c])
<1>1. ev \in Event
  BY HeadTailProperties DEF Receive, TypeOK
<1>2. told \in [Session -> SUBSET Listener]
  BY DEF TypeOK
<1>3. CASE ev.op = "snapshot"
  <2>1. ev.all \in SUBSET Listener /\ SyncSnapshot(ev.all)
        /\ told' = [told EXCEPT ![c] = ev.all]
    BY <1>1, <1>3 DEF Receive, Event
  <2>2. \A k \in Key : reg'[k] \in ev.all \/ reg'[k] = reg[k] \/ reg'[k] = None
    BY <2>1 DEF SyncSnapshot, Removed
  <2> HIDE DEF ev
  <2> QED
    BY <1>2, <1>3, <2>1, <2>2 DEF After, ev
<1>4. CASE ev.op = "add"
  <2>1. ev.l \in Listener /\ AddSyncPort(ev.l)
        /\ told' = [told EXCEPT ![c] = @ \cup {ev.l}]
    BY <1>1, <1>4 DEF Receive, Event
  <2>2. \A k \in Key : reg'[k] = ev.l \/ reg'[k] = reg[k]
    BY <2>1 DEF AddSyncPort
  <2> QED
    BY <1>2, <1>4, <2>1, <2>2 DEF After
<1>5. CASE ev.op = "del"
  <2>1. ev.l \in Listener /\ DelSyncPort(ev.l, told[c] \ {ev.l})
        /\ told' = [told EXCEPT ![c] = @ \ {ev.l}]
    BY <1>1, <1>5 DEF Receive, Event
  <2>2. \A k \in Key : reg'[k] = None \/ reg'[k] = reg[k]
    BY <2>1 DEF DelSyncPort, Removed
  <2> QED
    BY <1>2, <1>5, <2>1, <2>2 DEF After
<1> QED
  BY <1>1, <1>3, <1>4, <1>5 DEF Event

(* Every step keeps what is under way leading from end to end.             *)
LEMMA StepUnderWay ==
  ASSUME IInv, UnderWay, [Next]_vars
  PROVE  UnderWay'
<1> USE NoneAssumption
<1>i. TypeOK /\ (pc = "down" <=> cur = None)
      /\ (pc = "dialled" => wire[cur] = <<>> /\ told[cur] = {})
  BY DEF IInv
<1>t. /\ sent \in SUBSET Listener /\ mac \in SUBSET Listener
      /\ wire \in [Session -> Seq(Event)] /\ told \in [Session -> SUBSET Listener]
      /\ phase \in [Session -> Phase] /\ cur \in Session \cup {None}
      /\ cut \subseteq Session /\ macShut \subseteq Session /\ kicked \subseteq Session
  BY <1>i DEF TypeOK
<1>1. ASSUME NEW l \in Listener, MacChange(l) PROVE UnderWay'
  BY <1>1 DEF MacChange, agentVars, UnderWay
<1>2. ASSUME NEW c \in Session, Dial(c) PROVE UnderWay'
  BY <1>2, <1>t DEF Dial, UnderWay, Phase
<1>3. ASSUME NEW ev \in Event, pc # "down", Encode(ev), sent' = After(ev, sent),
             sent' \in SUBSET Listener, pc = "dialled" => ev.op = "snapshot",
             pc' = "sending",
             UNCHANGED <<mac, cur, advertised, faults, cut, macShut, agentVars>>
      PROVE  UnderWay'
  <2>1. cur \in Session /\ told' = told /\ phase' = phase /\ kicked' = kicked /\ reg' = reg
    BY <1>3, <1>i, <1>t DEF agentVars
  <2>2. ASSUME cur \notin cut \cup kicked PROVE Leads(wire'[cur], told[cur], sent')
    <3>1. phase[cur] # "gone"
      BY <2>1, <2>2 DEF UnderWay
    <3>2. CASE pc = "dialled"
      <4>1. Leads(wire[cur], told[cur], {})
        BY <1>i, <3>2, LeadsEmpty
      <4>2. After(ev, {}) = After(ev, sent)
        BY <1>3, <3>2 DEF After
      <4> QED
        BY <1>3, <1>i, <2>1, <2>2, <3>1, <4>1, <4>2, EncodeLeads
    <3>3. CASE pc # "dialled"
      <4>1. Leads(wire[cur], told[cur], sent)
        BY <2>1, <2>2, <3>3 DEF UnderWay
      <4> QED
        BY <1>3, <1>i, <1>t, <2>1, <2>2, <3>1, <4>1, EncodeLeads
    <3> QED
      BY <3>2, <3>3
  <2> QED
    BY <1>3, <2>1, <2>2 DEF UnderWay
<1>4. ASSUME SendSnapshot PROVE UnderWay'
  <2>1. /\ Snapshot(mac) \in Event /\ Snapshot(mac).op = "snapshot"
        /\ After(Snapshot(mac), sent) = mac
    BY <1>t DEF Snapshot, Event, After
  <2> QED
    BY <1>3, <1>4, <1>t, <2>1 DEF SendSnapshot
<1>5. ASSUME NEW l \in Listener, SendDel(l) PROVE UnderWay'
  <2>1. Edit("del", l) \in Event /\ After(Edit("del", l), sent) = sent \ {l}
    BY DEF Edit, Event, After
  <2> QED
    BY <1>3, <1>5, <1>t, <2>1 DEF SendDel
<1>6. ASSUME NEW l \in Listener, SendAdd(l) PROVE UnderWay'
  <2>1. Edit("add", l) \in Event /\ After(Edit("add", l), sent) = sent \cup {l}
    BY DEF Edit, Event, After
  <2> QED
    BY <1>3, <1>6, <1>t, <2>1 DEF SendAdd
<1>7. ASSUME Tick \/ Publish PROVE UnderWay'
  BY <1>7 DEF Tick, Publish, agentVars, UnderWay
<1>8. ASSUME MacNotices \/ PollFails PROVE UnderWay'
  <2>1. MacReturns /\ cur # None
    BY <1>8, <1>i DEF MacNotices, PollFails
  <2> QED
    BY <1>t, <2>1 DEF MacReturns, agentVars, UnderWay
<1>9. ASSUME NEW c \in Session, Cut(c) PROVE UnderWay'
  <2>1. /\ cut' = cut \cup {c} /\ UNCHANGED <<cur, pc, sent, advertised, macShut, agentVars>>
        /\ \A d \in Session \ {c} : wire'[d] = wire[d]
    BY <1>9, <1>t DEF Cut
  <2> QED
    BY <1>t, <2>1 DEF agentVars, UnderWay
<1>10. ASSUME NEW c \in Session, Kick(c) \/ Lock(c) \/ Install(c) PROVE UnderWay'
  BY <1>10, <1>t DEF Kick, Lock, Install, macVars, UnderWay, Phase
<1>11. ASSUME NEW c \in Session, ReadFails(c) PROVE UnderWay'
  <2>1. c = cur => c \in cut \cup kicked
    BY <1>11 DEF ReadFails, Dead, UnderWay
  <2> QED
    BY <1>11, <1>t, <2>1 DEF ReadFails, Removed, macVars, UnderWay
<1>12. ASSUME NEW c \in Session, Unlock(c) PROVE UnderWay'
  BY <1>12, <1>t DEF Unlock, macVars, UnderWay
<1>13. ASSUME NEW c \in Session, Receive(c) PROVE UnderWay'
  <2>1. /\ told'[c] = After(Head(wire[c]), told[c])
        /\ \A k \in Key : reg'[k] = Harness => k \in Preset
    BY <1>13, <1>i, ReceiveTold DEF UnderWay
  <2>2. /\ wire[c] # <<>> /\ wire'[c] = Tail(wire[c])
        /\ \A d \in Session \ {c} : wire'[d] = wire[d] /\ told'[d] = told[d]
        /\ UNCHANGED <<macVars, cut, macShut, kicked, phase>>
    BY <1>13, <1>t DEF Receive
  <2>3. ASSUME Leads(wire[c], told[c], sent) PROVE Leads(wire'[c], told'[c], sent)
    BY <1>t, <2>1, <2>2, <2>3, LeadsTail
  <2>4. c = cur => pc # "dialled"
    BY <1>i, <2>2
  <2> QED
    BY <1>t, <2>1, <2>2, <2>3, <2>4 DEF macVars, UnderWay
<1>14. CASE UNCHANGED vars
  BY <1>14 DEF vars, agentVars, macVars, UnderWay
<1> QED
  BY <1>1, <1>2, <1>4, <1>5, <1>6, <1>7, <1>8, <1>9, <1>10, <1>11, <1>12, <1>13, <1>14
  DEF Next, MacStep, AgentStep, Faulty

(* Between two ticks, with nothing under way, the guest's mac_ports        *)
(* (agent/macsync.go) and the set the Mac admits flows by (macsync/sync.go *)
(* setAdvertised) name the same ports, whatever sessions came before: it   *)
(* is the one served that has both, so an entry on one side without the    *)
(* other is one whose add failed, or a second address's.                   *)
THEOREM BothEndsAgree == Spec => []EndsAgree
<1>1. Init => UnderWay
  BY NoneAssumption DEF Init, UnderWay
<1>2. IInv /\ UnderWay /\ [Next]_vars => UnderWay'
  BY StepUnderWay
<1>3. IInv /\ UnderWay /\ InStep => EndsAgree
  <2> SUFFICES ASSUME IInv, UnderWay, InStep, pc = "ticking", cur \notin cut \cup kicked,
                      phase[cur] = "serving", wire[cur] = <<>>,
                      NEW k \in Key, k \notin lapsed
               PROVE  reg[k] # None <=> k \in Preset \cup advertised
    BY DEF EndsAgree
  <2> USE NoneAssumption
  <2>1. cur \in Session /\ told[cur] \in SUBSET Listener
    BY DEF IInv, TypeOK
  <2>2. told[cur] = sent /\ advertised = KeysOf(told[cur])
    <3>1. Leads(<<>>, told[cur], sent)
      BY <2>1 DEF UnderWay
    <3> QED
      BY <2>1, <3>1, LeadsEmpty DEF UnderWay
  <2>3. k \in Preset \cup advertised => reg[k] # None
    BY <2>1, <2>2 DEF IInv, OwnershipExact, InStep
  <2>4. ASSUME reg[k] \in Listener PROVE k \in advertised
    <3>1. PICK c \in Session : phase[c] = "serving" /\ reg[k] \in told[c] /\ KeyOf[reg[k]] = k
      BY <2>4 DEF IInv, NoStaleSteering
    <3>2. c = cur
      BY <2>1, <3>1 DEF IInv, Holding
    <3> QED
      BY <2>2, <3>1, <3>2 DEF KeysOf
  <2>5. reg[k] \in Listener \cup {None, Harness}
    BY DEF IInv, TypeOK
  <2> QED
    BY <2>3, <2>4, <2>5 DEF UnderWay
<1> QED
  BY <1>1, <1>2, <1>3, Invariance, KeepsInStep, PTL DEF Spec
=============================================================================
