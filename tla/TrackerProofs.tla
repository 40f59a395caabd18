---------------------------- MODULE TrackerProofs ---------------------------
(* Proof that the tracker misses no listener, for any number of sockets    *)
(* and keys: no hook of another key can harm a key that its sockets have   *)
(* one at a time.                                                          *)
EXTENDS Tracker, FiniteSetTheorems, TLAPS

(* Whoever held a pointer to a replaced element now holds a stale one; all *)
(* other hooks are where they were.                                        *)
LEMMA ReplacedShape ==
  ASSUME NEW k \in Key, NEW moved, NEW s \in Sock
  PROVE  \/ Replaced(k, moved)[s] = moved[s]
         \/ moved[s] = "add_inc" /\ Replaced(k, moved)[s] = "add_stale"
         \/ moved[s] = "del_sub" /\ Replaced(k, moved)[s] = "del_stale"
  BY DEF Replaced

(* A counter that wraps is still a counter.                                *)
LEMMA WrapType == ASSUME NEW n \in Nat PROVE n % Wrap \in Counts
  BY NumberAssumption DEF Counts

(* The initial states satisfy the inductive invariant.                     *)
LEMMA InitIInv == Init => IInv
<1> SUFFICES ASSUME Init PROVE IInv
  OBVIOUS
<1>1. TypeOK
  BY NumberAssumption DEF Init, TypeOK, Counts, AddSteps, DelSteps, Shared
<1>2. \A s, t \in Sock :
        s # t /\ Tracked(s) /\ Tracked(t) /\ KeyOf[s] = KeyOf[t] /\ Serial(KeyOf[s])
          => pc[s] = "closed" \/ pc[t] = "closed"
  BY DEF Init, Serial, Conflict, Tracked
<1> QED
  BY <1>1, <1>2 DEF Init, IInv, Tracked, AddSteps, DelSteps

(* Every step keeps the types.                                             *)
LEMMA StepTypeOK == IInv /\ [Next]_vars => TypeOK'
<1> SUFFICES ASSUME IInv, [Next]_vars PROVE TypeOK'
  OBVIOUS
<1> USE KeyAssumption, NumberAssumption, AbsentAssumption
    DEF TypeOK, AddSteps, DelSteps, Counts
<1>0. TypeOK
  BY DEF IInv
<1>1. ASSUME NEW s \in Sock, Listen(s) \/ Close(s) PROVE TypeOK'
  BY <1>0, <1>1 DEF Listen, Close, seedVars
<1>2. ASSUME NEW s \in Sock, AddKey(s) PROVE TypeOK'
  BY <1>0, <1>2 DEF AddKey, seedVars
<1>3. ASSUME NEW s \in Sock, AddFind(s) \/ DelFind(s) \/ DelKey(s) PROVE TypeOK'
  BY <1>0, <1>3 DEF AddFind, DelFind, DelKey, seedVars
<1>4. ASSUME NEW s \in Sock, AddInc(s) PROVE TypeOK'
  <2> DEFINE n == guestPorts[KeyOf[s]]
  <2>1. CASE n \in Counts
    <3>1. (n + 1) % Wrap \in Counts
      BY <2>1, WrapType
    <3> QED
      BY <1>0, <1>4, <3>1 DEF AddInc, seedVars
  <2>2. CASE pc[s] = "add_stale"
    BY <1>0, <1>4, <2>2 DEF AddInc, seedVars
  <2>3. pc[s] = "add_inc" => n # Absent
    BY DEF IInv
  <2> QED
    BY <1>0, <1>4, <2>1, <2>2, <2>3 DEF AddInc
<1>5. ASSUME NEW s \in Sock, AddPut(s) \/ DelDel(s) PROVE TypeOK'
  BY <1>0, <1>5 DEF AddPut, DelDel, Replaced, seedVars
<1>6. ASSUME NEW s \in Sock, AddEmit(s) \/ DelEmit(s) PROVE TypeOK'
  <2>1. ASSUME NEW op \in {"add", "del"}, Emit(op, KeyOf[s])
        PROVE  ring' \in Seq(Event) /\ Len(ring') <= RingCap /\ dropped' \in SUBSET Key
    <3>1. [op |-> op, key |-> KeyOf[s]] \in Event /\ KeyOf[s] \in Key
      BY DEF Event
    <3>2. CASE Len(ring) < RingCap
      <4>1. ring' = Append(ring, [op |-> op, key |-> KeyOf[s]]) /\ dropped' = dropped
        BY <2>1, <3>2 DEF Emit
      <4> QED
        BY <1>0, <3>1, <3>2, <4>1
    <3>3. CASE ~(Len(ring) < RingCap)
      BY <1>0, <2>1, <3>1, <3>3 DEF Emit
    <3> QED
      BY <3>2, <3>3
  <2>2. ring' \in Seq(Event) /\ Len(ring') <= RingCap /\ dropped' \in SUBSET Key
    BY <1>6, <2>1 DEF AddEmit, DelEmit
  <2> QED
    BY <1>0, <1>6, <2>2 DEF AddEmit, DelEmit, seedVars
<1>7. ASSUME NEW s \in Sock, DelSub(s) PROVE TypeOK'
  <2> DEFINE n == guestPorts[KeyOf[s]]
  <2>1. CASE pc[s] = "del_sub"
    <3>1. (n + (Wrap - 1)) % Wrap \in Counts
      <4>1. n \in Counts
        BY <2>1 DEF IInv, Tracked
      <4>2. n + (Wrap - 1) \in Nat
        BY <4>1
      <4> QED
        BY <4>2, WrapType
    <3> QED
      BY <1>0, <1>7, <2>1, <3>1 DEF DelSub, seedVars
  <2>2. CASE pc[s] = "del_stale"
    BY <1>0, <1>7, <2>2 DEF DelSub, seedVars
  <2> QED
    BY <1>7, <2>1, <2>2 DEF DelSub
<1>8. ASSUME RunTracker PROVE TypeOK'
  <2>1. ring # <<>> /\ ring' = Tail(ring) /\ Head(ring) \in Event
    BY <1>0, <1>8 DEF RunTracker
  <2>2. ring' \in Seq(Event) /\ Len(ring') <= RingCap
    BY <1>0, <2>1
  <2>3. Head(ring).key \in Key
    BY <2>1 DEF Event
  <2> QED
    BY <1>0, <1>8, <2>2, <2>3 DEF RunTracker, seedVars
<1>9. ASSUME NEW s \in Sock, ScanRow(s) \/ SeedLookup(s) \/ SeedApply(s) PROVE TypeOK'
  BY <1>0, <1>9 DEF ScanRow, SeedLookup, SeedApply
<1>10. ASSUME NEW s \in Sock, SeedPut(s) PROVE TypeOK'
  BY <1>0, <1>10 DEF SeedPut, Replaced
<1>11. ASSUME UNCHANGED vars PROVE TypeOK'
  BY <1>0, <1>11 DEF vars
<1> QED
  BY <1>1, <1>2, <1>3, <1>4, <1>5, <1>6, <1>7, <1>8, <1>9, <1>10, <1>11
  DEF Next, TrackAdd, TrackDel, Seed

(* Every step keeps the inductive invariant.                               *)
LEMMA StepIInv == IInv /\ [Next]_vars => IInv'
<1> SUFFICES ASSUME IInv, [Next]_vars PROVE IInv'
  OBVIOUS
<1> USE KeyAssumption, AbsentAssumption DEF AddSteps, DelSteps, Tracked
<1>0. TypeOK'
  BY StepTypeOK
<1>t. TypeOK
  BY DEF IInv
<1>1. ASSUME NEW s \in Sock, Listen(s) PROVE IInv'
  <2>1. ASSUME NEW t \in Sock, t # s, Tracked(s), Tracked(t), KeyOf[s] = KeyOf[t],
               Serial(KeyOf[s])
        PROVE  pc[t] = "closed"
    <3>1. t \notin Ephemeral /\ Conflict(s, t)
      BY <2>1 DEF Serial, Conflict
    <3> QED
      BY <1>1, <3>1 DEF Listen, HasPort
  <2> QED
    BY <1>0, <1>1, <1>t, <2>1 DEF Listen, IInv, TypeOK, seedVars
<1>2. ASSUME NEW s \in Sock, Close(s) PROVE IInv'
  BY <1>0, <1>2, <1>t DEF Close, IInv, TypeOK, seedVars
<1>3. ASSUME NEW s \in Sock, AddKey(s) PROVE IInv'
  BY <1>0, <1>3, <1>t DEF AddKey, InHostNetns, IInv, TypeOK, seedVars
<1>4. ASSUME NEW s \in Sock, AddFind(s) PROVE IInv'
  BY <1>0, <1>4, <1>t DEF AddFind, IInv, TypeOK, seedVars
<1>5. ASSUME NEW s \in Sock, AddInc(s) PROVE IInv'
  <2>1. \A k \in Key : guestPorts[k] # Absent => guestPorts'[k] # Absent
    <3>1. pc[s] = "add_inc" => guestPorts[KeyOf[s]] \in Counts
      BY <1>t DEF IInv, TypeOK
    <3>2. pc[s] = "add_inc" => (guestPorts[KeyOf[s]] + 1) % Wrap \in Counts
      BY <3>1, WrapType DEF Counts
    <3>3. Absent \notin Counts
      BY DEF Counts
    <3> QED
      BY <1>5, <1>t, <3>2, <3>3 DEF AddInc, TypeOK
  <2> QED
    BY <1>0, <1>5, <1>t, <2>1 DEF AddInc, IInv, TypeOK, seedVars
<1>6. ASSUME NEW s \in Sock, AddPut(s) PROVE IInv'
  <2>1. /\ pc' = Replaced(KeyOf[s], [pc EXCEPT ![s] = "add_emit"])
        /\ guestPorts' = [guestPorts EXCEPT ![KeyOf[s]] = 1]
        /\ pc[s] = "add_put"
        /\ UNCHANGED <<hooked, unread, rows, seeding, leaky>>
    BY <1>6 DEF AddPut, seedVars
  <2> QED
    BY <1>0, <1>t, <2>1 DEF Replaced, IInv, TypeOK
<1>7. ASSUME NEW s \in Sock, AddEmit(s) PROVE IInv'
  BY <1>0, <1>7, <1>t DEF AddEmit, IInv, TypeOK, seedVars
<1>8. ASSUME NEW s \in Sock, DelKey(s) PROVE IInv'
  BY <1>0, <1>8, <1>t DEF DelKey, InHostNetns, IInv, TypeOK, seedVars
<1>9. ASSUME NEW s \in Sock, DelFind(s) PROVE IInv'
  BY <1>0, <1>9, <1>t DEF DelFind, IInv, TypeOK, seedVars
<1>10. ASSUME NEW s \in Sock, DelSub(s) PROVE IInv'
  <2>1. \A k \in Key : guestPorts[k] # Absent => guestPorts'[k] # Absent
    <3>1. pc[s] = "del_sub" => guestPorts[KeyOf[s]] \in Counts
      BY <1>t DEF IInv, TypeOK
    <3>2. pc[s] = "del_sub" => (guestPorts[KeyOf[s]] + (Wrap - 1)) % Wrap \in Counts
      BY <3>1, WrapType, NumberAssumption DEF Counts
    <3>3. Absent \notin Counts
      BY DEF Counts
    <3> QED
      BY <1>10, <1>t, <3>2, <3>3 DEF DelSub, TypeOK
  <2>2. /\ pc[s] \in {"del_sub", "del_stale"}
        /\ pc' = [pc EXCEPT ![s] = "closed"] \/ pc' = [pc EXCEPT ![s] = "del_del"]
        /\ UNCHANGED <<hooked, unread, rows, seeding, leaky>>
    BY <1>10 DEF DelSub, seedVars
  <2> QED
    BY <1>0, <1>t, <2>1, <2>2 DEF IInv, TypeOK
<1>11. ASSUME NEW s \in Sock, DelDel(s) PROVE IInv'
  <2>1. /\ pc' = Replaced(KeyOf[s], [pc EXCEPT ![s] = "del_emit"])
        /\ guestPorts' = [guestPorts EXCEPT ![KeyOf[s]] = Absent]
        /\ pc[s] = "del_del"
        /\ UNCHANGED <<hooked, unread, rows, seeding, leaky>>
    BY <1>11 DEF DelDel, seedVars
  <2> QED
    BY <1>0, <1>t, <2>1 DEF Replaced, IInv, TypeOK
<1>12. ASSUME NEW s \in Sock, DelEmit(s) PROVE IInv'
  BY <1>0, <1>12, <1>t DEF DelEmit, IInv, TypeOK, seedVars
<1>13. ASSUME RunTracker PROVE IInv'
  BY <1>0, <1>13 DEF RunTracker, IInv, seedVars
<1>14. ASSUME NEW s \in Sock, ScanRow(s) PROVE IInv'
  BY <1>0, <1>14 DEF ScanRow, Listed, IInv
<1>15. ASSUME NEW s \in Sock, SeedLookup(s) PROVE IInv'
  BY <1>0, <1>15 DEF SeedLookup, PutIfAbsent, IInv
<1>16. ASSUME NEW s \in Sock, SeedPut(s) PROVE IInv'
  BY <1>0, <1>16, <1>t DEF SeedPut, Replaced, IInv, TypeOK
<1>17. ASSUME NEW s \in Sock, SeedApply(s) PROVE IInv'
  BY <1>0, <1>17 DEF SeedApply, IInv
<1>18. ASSUME UNCHANGED vars PROVE IInv'
  BY <1>18 DEF vars, IInv, TypeOK
<1> QED
  BY <1>1, <1>2, <1>3, <1>4, <1>5, <1>6, <1>7, <1>8, <1>9, <1>10, <1>11, <1>12,
     <1>13, <1>14, <1>15, <1>16, <1>17, <1>18
  DEF Next, TrackAdd, TrackDel, Seed

-----------------------------------------------------------------------------

(* The inductive invariant holds in every state of every behaviour.        *)
THEOREM Invariance == Spec => []IInv
  BY InitIInv, StepIInv, PTL DEF Spec

(* For any sockets: hooks of other sockets, of containers' sockets and the *)
(* seed never leave a listener of the guest without its entry in           *)
(* guest_ports, if no two sockets have its key at a time.                  *)
THEOREM NoneMissed == Spec => []NoMissed
<1>1. IInv => NoMissed
  BY DEF IInv, NoMissed, Seeded
<1> QED
  BY <1>1, Invariance, PTL

-----------------------------------------------------------------------------
(* The counts. *)

(* While a tracked socket is not closed, no other tracked one has its key, *)
(* if the key is not leaky.                                                *)
LEMMA Alone ==
  ASSUME IInv, NEW s \in Sock, NEW t \in Sock, s # t, Tracked(s), Tracked(t),
         KeyOf[s] = KeyOf[t], KeyOf[s] \notin leaky, pc[s] # "closed"
  PROVE  pc[t] = "closed"
<1>1. Serial(KeyOf[s])
  BY KeyAssumption DEF IInv, Shared
<1> QED
  BY <1>1 DEF IInv

(* A hook that replaces the element of its key leaves every other hook of  *)
(* a key that is not leaky where it was: nobody has found that element.    *)
LEMMA ReplacedAlone ==
  ASSUME IInv, NEW s \in Sock, Tracked(s), pc[s] # "closed", NEW at \in {"add_emit", "del_emit"},
         pc' = Replaced(KeyOf[s], [pc EXCEPT ![s] = at])
  PROVE  /\ pc'[s] = at
         /\ \A t \in Sock : t # s /\ KeyOf[t] \notin leaky => pc'[t] = pc[t]
<1>1. ASSUME NEW t \in Sock, t # s, KeyOf[t] = KeyOf[s], KeyOf[t] \notin leaky
      PROVE  pc[t] \notin {"add_inc", "del_sub"}
  BY <1>1, Alone DEF IInv, DelSteps
<1> QED
  BY <1>1 DEF Replaced, IInv, TypeOK

(* Nothing is counted and nothing is seeded at first.                      *)
LEMMA InitCount == Init => CountInv
  BY KeyAssumption, AbsentAssumption
  DEF Init, CountInv, SeedLeaks, Counted, KeyKnown, WithEntry

(* A step of one socket that leaves the seed alone, and every other key    *)
(* and socket, keeps the counts if it keeps its own.                       *)
LEMMA LocalCount ==
  ASSUME IInv, CountInv, NEW s \in Sock, UNCHANGED seedVars,
         \A t \in Sock : t # s /\ KeyOf[t] \notin leaky'
           => pc'[t] = pc[t] /\ (t \in hooked' <=> t \in hooked),
         \A k \in Key : k # KeyOf[s] => guestPorts'[k] = guestPorts[k],
         ~Tracked(s) => guestPorts' = guestPorts,
         leaky \subseteq leaky',
         \A t \in Sock : t # s /\ KeyOf[t] \notin leaky' /\ KeyKnown(t) => KeyKnown(t)',
         pc[s] # "closed" \/ guestPorts' = guestPorts,
         Tracked(s) /\ KeyOf[s] \notin leaky' => Counted(s)',
         Tracked(s) /\ KeyOf[s] \notin leaky' /\ pc[s] # "closed" /\ guestPorts'[KeyOf[s]] # Absent
           => pc'[s] \in WithEntry
  PROVE  CountInv'
<1> USE KeyAssumption DEF Tracked
<1>1. SeedLeaks'
  BY DEF CountInv, SeedLeaks, seedVars
<1>2. ASSUME NEW t \in Sock, Tracked(t), KeyOf[t] \notin leaky' PROVE Counted(t)'
  <2>1. CASE t = s
    BY <1>2, <2>1
  <2>2. CASE t # s
    <3>1. Counted(t)
      BY <1>2 DEF CountInv
    <3>2. CASE guestPorts'[KeyOf[t]] = guestPorts[KeyOf[t]]
      <4>1. pc'[t] = pc[t] /\ (t \in hooked' <=> t \in hooked) /\ unread' = unread
            /\ (KeyKnown(t) => KeyKnown(t)')
        BY <1>2, <2>2 DEF seedVars
      <4> QED
        BY <3>1, <3>2, <4>1 DEF Counted
    <3>3. CASE guestPorts'[KeyOf[t]] # guestPorts[KeyOf[t]]
      <4>1. KeyOf[t] = KeyOf[s] /\ Tracked(s) /\ pc[s] # "closed"
        BY <3>3
      <4>2. pc'[t] = "closed"
        BY <1>2, <2>2, <4>1, Alone
      <4> QED
        BY <4>2 DEF Counted
    <3> QED
      BY <3>2, <3>3
  <2> QED
    BY <2>1, <2>2
<1>3. ASSUME NEW k \in Key, k \notin leaky', guestPorts'[k] # Absent
      PROVE  \E t \in Sock : Tracked(t) /\ KeyOf[t] = k /\ pc'[t] \in WithEntry
  <2>1. CASE k = KeyOf[s] /\ Tracked(s) /\ pc[s] # "closed"
    BY <1>3, <2>1
  <2>2. CASE ~(k = KeyOf[s] /\ Tracked(s) /\ pc[s] # "closed")
    <3>1. guestPorts'[k] = guestPorts[k]
      BY <2>2
    <3>2. PICK t \in Sock : Tracked(t) /\ KeyOf[t] = k /\ pc[t] \in WithEntry
      BY <1>3, <3>1 DEF CountInv
    <3>3. t # s
      BY <2>2, <3>2 DEF WithEntry
    <3> QED
      BY <1>3, <3>2, <3>3
  <2> QED
    BY <2>1, <2>2
<1> QED
  BY <1>1, <1>2, <1>3 DEF CountInv

(* Every step keeps the counts.                                            *)
LEMMA StepCount == IInv /\ CountInv /\ [Next]_vars => CountInv'
<1> SUFFICES ASSUME IInv, CountInv, [Next]_vars PROVE CountInv'
  OBVIOUS
<1> USE KeyAssumption, AbsentAssumption DEF AddSteps, DelSteps, Tracked
<1>t. TypeOK
  BY DEF IInv
<1>c. \A s \in Sock : Tracked(s) /\ KeyOf[s] \notin leaky => Counted(s)
  BY DEF CountInv
<1>n. ASSUME NEW s \in Sock, Tracked(s), KeyOf[s] \notin leaky, pc[s] # "closed",
             pc[s] \notin WithEntry
      PROVE  guestPorts[KeyOf[s]] = Absent
  <2> SUFFICES ASSUME guestPorts[KeyOf[s]] # Absent PROVE FALSE
    OBVIOUS
  <2>1. PICK u \in Sock : Tracked(u) /\ KeyOf[u] = KeyOf[s] /\ pc[u] \in WithEntry
    BY <1>n DEF CountInv
  <2>2. u # s /\ pc[u] # "closed"
    BY <1>n, <2>1 DEF WithEntry
  <2> QED
    BY <1>n, <2>1, <2>2, Alone
<1>1. ASSUME NEW s \in Sock, Listen(s) PROVE CountInv'
  BY <1>1, <1>t, LocalCount DEF Listen, Counted, KeyKnown, TypeOK
<1>2. ASSUME NEW s \in Sock, Close(s) PROVE CountInv'
  BY <1>2, <1>c, <1>t, LocalCount DEF Close, Counted, KeyKnown, WithEntry, TypeOK
<1>3. ASSUME NEW s \in Sock, AddKey(s) PROVE CountInv'
  <2>1. /\ pc[s] = "add_key" /\ leaky \subseteq leaky'
        /\ UNCHANGED <<guestPorts, seedVars, hooked>>
        /\ \A t \in Sock : t # s => pc'[t] = pc[t]
        /\ \A t \in Sock : t # s /\ KeyOf[t] \notin leaky' /\ KeyKnown(t) => KeyKnown(t)'
    BY <1>3, <1>t DEF AddKey, KeyKnown, TypeOK
  <2>2. Tracked(s) => pc'[s] = "add_find" /\ KeyKnown(s)'
    BY <1>3, <1>t DEF AddKey, InHostNetns, KeyKnown, TypeOK
  <2>3. Tracked(s) /\ KeyOf[s] \notin leaky' => guestPorts[KeyOf[s]] = Absent
    BY <1>n, <2>1 DEF WithEntry
  <2>4. Tracked(s) => Counted(s)'
    BY <2>2 DEF Counted
  <2> QED
    BY <2>1, <2>3, <2>4, LocalCount
<1>4. ASSUME NEW s \in Sock, AddFind(s) PROVE CountInv'
  <2>1. Tracked(s)
    BY <1>4 DEF AddFind, IInv
  <2>2. KeyOf[s] \notin leaky => guestPorts[KeyOf[s]] = Absent
    BY <1>4, <1>n, <2>1 DEF AddFind, WithEntry
  <2> QED
    BY <1>4, <1>c, <1>t, <2>1, <2>2, LocalCount DEF AddFind, Counted, KeyKnown, TypeOK
<1>5. ASSUME NEW s \in Sock, AddInc(s) PROVE CountInv'
  <2>1. Tracked(s) /\ KeyOf[s] \in leaky
    BY <1>5, <1>c DEF AddInc, Counted, IInv
  <2> QED
    BY <1>5, <1>t, <2>1, LocalCount DEF AddInc, KeyKnown, TypeOK
<1>6. ASSUME NEW s \in Sock, AddPut(s) PROVE CountInv'
  <2>1. Tracked(s) /\ pc[s] = "add_put"
    BY <1>6 DEF AddPut, IInv
  <2>2. /\ pc'[s] = "add_emit"
        /\ \A t \in Sock : t # s /\ KeyOf[t] \notin leaky => pc'[t] = pc[t]
    BY <1>6, <2>1, ReplacedAlone DEF AddPut
  <2> QED
    BY <1>6, <1>c, <1>t, <2>1, <2>2, LocalCount DEF AddPut, Counted, KeyKnown, WithEntry, TypeOK
<1>7. ASSUME NEW s \in Sock, AddEmit(s) PROVE CountInv'
  <2>1. Tracked(s)
    BY <1>7 DEF AddEmit, IInv
  <2> QED
    BY <1>7, <1>c, <1>t, <2>1, LocalCount DEF AddEmit, Counted, KeyKnown, WithEntry, TypeOK
<1>8. ASSUME NEW s \in Sock, DelKey(s) PROVE CountInv'
  <2>1. /\ pc[s] = "del_key" /\ UNCHANGED <<guestPorts, seedVars, hooked, leaky>>
        /\ \A t \in Sock : t # s => pc'[t] = pc[t] /\ (KeyKnown(t) => KeyKnown(t)')
        /\ pc'[s] = IF InHostNetns(s) /\ KeyKnown(s) THEN "del_find" ELSE "closed"
    BY <1>8, <1>t DEF DelKey, KeyKnown, TypeOK
  <2>2. Tracked(s) /\ KeyOf[s] \notin leaky' => Counted(s)'
    BY <1>c, <2>1 DEF Counted
  <2>3. Tracked(s) /\ KeyOf[s] \notin leaky' /\ guestPorts'[KeyOf[s]] # Absent
          => pc'[s] \in WithEntry
    BY <1>c, <2>1 DEF Counted, InHostNetns, WithEntry
  <2> QED
    BY <2>1, <2>2, <2>3, LocalCount
<1>9. ASSUME NEW s \in Sock, DelFind(s) PROVE CountInv'
  BY <1>9, <1>c, <1>t, LocalCount DEF DelFind, Counted, KeyKnown, WithEntry, TypeOK
<1>10. ASSUME NEW s \in Sock, DelSub(s) PROVE CountInv'
  <2>1. Tracked(s) /\ UNCHANGED <<seedVars, hooked, leaky, skKeys>>
    BY <1>10 DEF DelSub, IInv
  <2>2. /\ \A t \in Sock : t # s => pc'[t] = pc[t]
        /\ \A k \in Key : k # KeyOf[s] => guestPorts'[k] = guestPorts[k]
        /\ pc[s] # "closed"
    BY <1>10, <1>t DEF DelSub, TypeOK
  <2>3. ASSUME KeyOf[s] \notin leaky
        PROVE  Counted(s)' /\ pc'[s] \in WithEntry
    <3>1. pc[s] = "del_sub" /\ guestPorts[KeyOf[s]] = 1
      BY <1>10, <1>c, <2>1, <2>3 DEF DelSub, Counted
    <3>2. (1 + (Wrap - 1)) % Wrap = 0
      BY NumberAssumption
    <3>3. pc'[s] = "del_del" /\ guestPorts'[KeyOf[s]] = 0
      BY <1>10, <1>t, <3>1, <3>2 DEF DelSub, TypeOK
    <3> QED
      BY <3>3 DEF Counted, WithEntry
  <2> QED
    BY <2>1, <2>2, <2>3, LocalCount DEF KeyKnown
<1>11. ASSUME NEW s \in Sock, DelDel(s) PROVE CountInv'
  <2>1. Tracked(s) /\ pc[s] = "del_del"
    BY <1>11 DEF DelDel, IInv
  <2>2. /\ pc'[s] = "del_emit"
        /\ \A t \in Sock : t # s /\ KeyOf[t] \notin leaky => pc'[t] = pc[t]
    BY <1>11, <2>1, ReplacedAlone DEF DelDel
  <2> QED
    BY <1>11, <1>t, <2>1, <2>2, LocalCount DEF DelDel, Counted, KeyKnown, TypeOK
<1>12. ASSUME NEW s \in Sock, DelEmit(s) PROVE CountInv'
  <2>1. Tracked(s) /\ pc[s] = "del_emit"
    BY <1>12 DEF DelEmit, IInv
  <2>2. KeyOf[s] \notin leaky => guestPorts[KeyOf[s]] = Absent
    BY <1>n, <2>1 DEF WithEntry
  <2> QED
    BY <1>12, <1>t, <2>1, <2>2, LocalCount DEF DelEmit, Counted, KeyKnown, TypeOK
<1>13. ASSUME UNCHANGED <<pc, skKeys, guestPorts, seedVars, hooked, leaky>> PROVE CountInv'
  BY <1>13 DEF CountInv, SeedLeaks, Counted, KeyKnown, seedVars
<1>14. ASSUME NEW s \in Sock, ScanRow(s) PROVE CountInv'
  <2>1. \A t \in Sock : Tracked(t) /\ pc[t] = "open" /\ t \in unread /\ KeyOf[t] \notin leaky'
          => t \in unread'
    BY <1>14 DEF ScanRow, Listed
  <2> QED
    BY <1>14, <2>1 DEF ScanRow, CountInv, SeedLeaks, Counted, KeyKnown
<1>15. ASSUME NEW s \in Sock, SeedLookup(s) PROVE CountInv'
  BY <1>15 DEF SeedLookup, CountInv, SeedLeaks, Counted, KeyKnown
<1>16. ASSUME NEW s \in Sock, SeedPut(s) PROVE CountInv'
  <2>1. /\ KeyOf[s] \in leaky /\ UNCHANGED <<skKeys, unread, rows, hooked, leaky>>
        /\ guestPorts' = [guestPorts EXCEPT ![KeyOf[s]] = 1]
        /\ \A t \in Sock : KeyOf[t] # KeyOf[s] => pc'[t] = pc[t]
    BY <1>16 DEF SeedPut, Replaced, CountInv, SeedLeaks
  <2>2. SeedLeaks'
    BY <1>16, <2>1 DEF SeedPut, CountInv, SeedLeaks
  <2>3. \A t \in Sock : Tracked(t) /\ KeyOf[t] \notin leaky' => Counted(t)'
    BY <1>c, <1>t, <2>1 DEF Counted, KeyKnown, TypeOK
  <2>4. \A k \in Key \ leaky' : guestPorts'[k] # Absent =>
          \E t \in Sock : Tracked(t) /\ KeyOf[t] = k /\ pc'[t] \in WithEntry
    BY <1>t, <2>1 DEF CountInv, TypeOK
  <2> QED
    BY <2>2, <2>3, <2>4 DEF CountInv
<1>17. ASSUME NEW s \in Sock, SeedApply(s) PROVE CountInv'
  BY <1>17 DEF SeedApply, CountInv, SeedLeaks, Counted, KeyKnown
<1>18. ASSUME RunTracker \/ UNCHANGED vars
       PROVE  UNCHANGED <<pc, skKeys, guestPorts, seedVars, hooked, leaky>>
  BY <1>18 DEF RunTracker, vars, seedVars
<1> QED
  BY <1>1, <1>2, <1>3, <1>4, <1>5, <1>6, <1>7, <1>8, <1>9, <1>10, <1>11, <1>12,
     <1>13, <1>14, <1>15, <1>16, <1>17, <1>18
  DEF Next, TrackAdd, TrackDel, Seed

(* Whenever no hook runs, the socket that is open is the one counted.      *)
LEMMA QuietCount == IInv /\ CountInv => CountExact
<1> SUFFICES ASSUME IInv, CountInv, Quiet, NEW k \in Key \ leaky
             PROVE  guestPorts[k] = IF Open(k) = {} THEN Absent ELSE Cardinality(Open(k))
  BY DEF CountExact
<1>1. CASE Open(k) = {}
  <2>1. \A s \in Sock : Tracked(s) /\ KeyOf[s] = k => pc[s] \notin WithEntry
    BY <1>1 DEF Quiet, Open, WithEntry
  <2> QED
    BY <1>1, <2>1 DEF CountInv
<1>2. CASE Open(k) # {}
  <2>1. PICK s \in Open(k) : TRUE
    BY <1>2
  <2>2. Open(k) = {s}
    BY <2>1, Alone DEF Open
  <2>3. Cardinality(Open(k)) = 1
    BY <2>2, FS_Singleton
  <2>4. guestPorts[k] = 1
    BY <2>1 DEF CountInv, Counted, Open, Quiet, Seeded
  <2> QED
    BY <1>2, <2>3, <2>4
<1> QED
  BY <1>1, <1>2

(* The counts are in order in every reachable state.                       *)
THEOREM CountInvariance == Spec => []CountInv
<1>1. IInv /\ CountInv /\ [Next]_vars => CountInv'
  BY StepCount
<1> QED
  BY <1>1, InitCount, Invariance, PTL DEF Spec

(* For any sockets, whenever no hook runs the count of a key is the number *)
(* of its listeners, short of the keys sockets share, the seed listed or   *)
(* sk_keys forgot (tracker.c track_add, track_del).                        *)
THEOREM CountsAreExact == Spec => []CountExact
  BY QuietCount, Invariance, CountInvariance, PTL

-----------------------------------------------------------------------------
(* The hub. *)

(* Once an event is appended it decides about its key.                     *)
LEMMA AppendToBe ==
  ASSUME NEW r \in Seq(Event), NEW e \in Event, NEW h, NEW k
  PROVE  HubToBe(Append(r, e), h, k) <=> IF e.key = k THEN e.op = "add" ELSE HubToBe(r, h, k)
<1> DEFINE q == Append(r, e)
<1>1. /\ Len(q) = Len(r) + 1 /\ Len(r) \in Nat /\ q[Len(r) + 1] = e
      /\ \A i \in 1..Len(r) : q[i] = r[i]
  OBVIOUS
<1> HIDE DEF q
<1>2. CASE e.key = k
  <2>1. Len(r) + 1 \in 1..Len(q) /\ q[Len(r) + 1].key = k
    BY <1>1, <1>2
  <2>2. ~NoEvent(q, k)
    BY <2>1 DEF NoEvent
  <2>3. ASSUME NEW i \in 1..Len(q), \A j \in 1..Len(q) : j > i => q[j].key # k
        PROVE  i = Len(r) + 1
    <3>1. ~(Len(r) + 1 > i)
      BY <2>1, <2>3
    <3> QED
      BY <1>1, <3>1
  <2>4. LastIsAdd(q, k) => e.op = "add"
    BY <1>1, <2>3 DEF LastIsAdd
  <2>5. e.op = "add" => LastIsAdd(q, k)
    <3>1. \A j \in 1..Len(q) : ~(j > Len(r) + 1)
      BY <1>1
    <3> QED
      BY <1>1, <1>2, <2>1, <3>1 DEF LastIsAdd
  <2> QED
    BY <1>2, <2>2, <2>4, <2>5 DEF HubToBe, q
<1>3. CASE e.key # k
  <2>1. NoEvent(q, k) <=> NoEvent(r, k)
    BY <1>1, <1>3 DEF NoEvent
  <2>2. LastIsAdd(r, k) => LastIsAdd(q, k)
    <3> SUFFICES ASSUME NEW i \in 1..Len(r), r[i].key = k, r[i].op = "add",
                        \A j \in 1..Len(r) : j > i => r[j].key # k
                 PROVE  LastIsAdd(q, k)
      BY DEF LastIsAdd
    <3>1. i \in 1..Len(q) /\ q[i] = r[i]
      BY <1>1
    <3>2. ASSUME NEW j \in 1..Len(q), j > i PROVE q[j].key # k
      <4>1. j \in 1..Len(r) \/ j = Len(r) + 1
        BY <1>1
      <4>2. CASE j \in 1..Len(r)
        BY <1>1, <3>2, <4>2
      <4>3. CASE j = Len(r) + 1
        BY <1>1, <1>3, <4>3
      <4> QED
        BY <4>1, <4>2, <4>3
    <3> QED
      BY <3>1, <3>2 DEF LastIsAdd
  <2>3. LastIsAdd(q, k) => LastIsAdd(r, k)
    <3> SUFFICES ASSUME NEW i \in 1..Len(q), q[i].key = k, q[i].op = "add",
                        \A j \in 1..Len(q) : j > i => q[j].key # k
                 PROVE  LastIsAdd(r, k)
      BY DEF LastIsAdd
    <3>1. i \in 1..Len(r)
      BY <1>1, <1>3
    <3> QED
      BY <1>1, <3>1 DEF LastIsAdd
  <2> QED
    BY <1>3, <2>1, <2>2, <2>3 DEF HubToBe, q
<1> QED
  BY <1>2, <1>3

(* Applying the oldest event changes nothing of what is to be.             *)
LEMMA TailToBe ==
  ASSUME NEW r \in Seq(Event), r # <<>>, NEW h, NEW k
  PROVE  HubToBe(Tail(r), IF Head(r).op = "add" THEN h \cup {Head(r).key} ELSE h \ {Head(r).key}, k)
           <=> HubToBe(r, h, k)
<1> DEFINE q == Tail(r)
           g == IF Head(r).op = "add" THEN h \cup {Head(r).key} ELSE h \ {Head(r).key}
<1>1. /\ Len(r) \in Nat \ {0} /\ Len(q) = Len(r) - 1 /\ Head(r) = r[1]
      /\ \A i \in 1..Len(q) : q[i] = r[i + 1]
  OBVIOUS
<1>2. \A i \in 2..Len(r) : i - 1 \in 1..Len(q) /\ r[i] = q[i - 1]
  BY <1>1
<1> HIDE DEF q
<1>3. LastIsAdd(q, k) => LastIsAdd(r, k)
  <2> SUFFICES ASSUME NEW i \in 1..Len(q), q[i].key = k, q[i].op = "add",
                      \A j \in 1..Len(q) : j > i => q[j].key # k
               PROVE  LastIsAdd(r, k)
    BY DEF LastIsAdd
  <2>1. i + 1 \in 1..Len(r) /\ r[i + 1] = q[i]
    BY <1>1
  <2>2. \A j \in 1..Len(r) : j > i + 1 => r[j].key # k
    <3> SUFFICES ASSUME NEW j \in 1..Len(r), j > i + 1 PROVE r[j].key # k
      OBVIOUS
    <3>1. j - 1 \in 1..Len(q) /\ r[j] = q[j - 1] /\ j - 1 > i
      BY <1>1, <1>2
    <3> QED
      BY <3>1
  <2> QED
    BY <2>1, <2>2 DEF LastIsAdd
<1>4. NoEvent(r, k) <=> r[1].key # k /\ NoEvent(q, k)
  <2>1. NoEvent(r, k) => r[1].key # k /\ NoEvent(q, k)
    BY <1>1 DEF NoEvent
  <2>2. r[1].key # k /\ NoEvent(q, k) => NoEvent(r, k)
    <3> SUFFICES ASSUME r[1].key # k, NoEvent(q, k), NEW i \in 1..Len(r) PROVE r[i].key # k
      BY DEF NoEvent
    <3>1. i = 1 \/ i \in 2..Len(r)
      BY <1>1
    <3> QED
      BY <1>2, <3>1 DEF NoEvent
  <2> QED
    BY <2>1, <2>2
<1>5. LastIsAdd(r, k) => LastIsAdd(q, k) \/ (NoEvent(q, k) /\ r[1].key = k /\ r[1].op = "add")
  <2> SUFFICES ASSUME NEW i \in 1..Len(r), r[i].key = k, r[i].op = "add",
                      \A j \in 1..Len(r) : j > i => r[j].key # k
               PROVE  LastIsAdd(q, k) \/ (NoEvent(q, k) /\ r[1].key = k /\ r[1].op = "add")
    BY DEF LastIsAdd
  <2>1. \A j \in 1..Len(q) : j + 1 \in 1..Len(r) /\ q[j] = r[j + 1] /\ (j + 1 > i => q[j].key # k)
    BY <1>1
  <2>2. CASE i = 1
    BY <2>1, <2>2 DEF NoEvent
  <2>3. CASE i \in 2..Len(r)
    <3>1. i - 1 \in 1..Len(q) /\ q[i - 1] = r[i]
      BY <1>2, <2>3
    <3>2. \A j \in 1..Len(q) : j > i - 1 => q[j].key # k
      BY <1>1, <2>1
    <3> QED
      BY <3>1, <3>2 DEF LastIsAdd
  <2> QED
    BY <1>1, <2>2, <2>3
<1>6. NoEvent(q, k) /\ r[1].key = k /\ r[1].op = "add" => LastIsAdd(r, k)
  <2> SUFFICES ASSUME NoEvent(q, k), r[1].key = k, r[1].op = "add" PROVE LastIsAdd(r, k)
    OBVIOUS
  <2>1. \A j \in 1..Len(r) : j > 1 => r[j].key # k
    BY <1>1, <1>2 DEF NoEvent
  <2>2. 1 \in 1..Len(r)
    BY <1>1
  <2> QED
    BY <2>1, <2>2 DEF LastIsAdd
<1>7. k \in g <=> IF r[1].key = k THEN r[1].op = "add" ELSE k \in h
  BY <1>1
<1> HIDE DEF g
<1>8. LastIsAdd(q, k) => ~NoEvent(q, k)
  BY DEF LastIsAdd, NoEvent
<1>9. LastIsAdd(r, k) => ~NoEvent(r, k)
  BY DEF LastIsAdd, NoEvent
<1> QED
  BY <1>3, <1>4, <1>5, <1>6, <1>7, <1>8, <1>9 DEF HubToBe, q, g

(* An empty ring leaves the hub as it is.                                  *)
LEMMA EmptyToBe == \A h, k : HubToBe(<<>>, h, k) <=> k \in h
  BY DEF HubToBe, LastIsAdd, NoEvent

(* Nothing is reported at first.                                           *)
LEMMA InitHub == Init => HubInv
<1> SUFFICES ASSUME Init PROVE HubInv
  OBVIOUS
<1>1. \A k : ~HubToBe(ring, hub, k)
  BY EmptyToBe DEF Init
<1>2. \A s \in Sock : ~Reported(s)
  BY DEF Init, Reported
<1> QED
  BY <1>1, <1>2 DEF HubInv

(* A step of s changes nothing of what is reported of other sockets.       *)
LEMMA OthersReported ==
  ASSUME IInv, NEW s \in Sock, NEW t \in Sock, t # s, Tracked(t), KeyOf[t] \notin leaky,
         pc'[t] = pc[t], t \in hooked' <=> t \in hooked,
         \A k \in Key : k # KeyOf[s] => guestPorts'[k] = guestPorts[k],
         (Tracked(s) /\ pc[s] # "closed") \/ guestPorts' = guestPorts
  PROVE  Reported(t)' <=> Reported(t)
<1>1. CASE guestPorts'[KeyOf[t]] = guestPorts[KeyOf[t]]
  BY <1>1 DEF Reported
<1>2. CASE guestPorts'[KeyOf[t]] # guestPorts[KeyOf[t]]
  <2>1. pc[t] = "closed"
    BY <1>2, Alone, KeyAssumption
  <2> QED
    BY <2>1 DEF Reported
<1> QED
  BY <1>1, <1>2

(* Every step keeps the hub in step with the reports under way.            *)
LEMMA StepHub == IInv /\ CountInv /\ HubInv /\ [Next]_vars => HubInv'
<1> SUFFICES ASSUME IInv, CountInv, HubInv, [Next]_vars PROVE HubInv'
  OBVIOUS
<1> USE KeyAssumption, AbsentAssumption DEF AddSteps, DelSteps, Tracked
<1>t. TypeOK
  BY DEF IInv
<1>c. \A s \in Sock : Tracked(s) /\ KeyOf[s] \notin leaky => Counted(s)
  BY DEF CountInv
<1>r. ASSUME UNCHANGED <<ring, hub, dropped>>, leaky \subseteq leaky',
             \A t \in Sock : Tracked(t) /\ KeyOf[t] \notin leaky' => (Reported(t)' <=> Reported(t))
      PROVE  HubInv'
  <2> SUFFICES ASSUME NEW k \in Key, k \notin dropped, k \notin leaky'
               PROVE  HubToBe(ring, hub, k) <=>
                        \E s \in Sock : Tracked(s) /\ KeyOf[s] = k /\ Reported(s)'
    BY <1>r DEF HubInv
  <2>1. HubToBe(ring, hub, k) <=> \E s \in Sock : Tracked(s) /\ KeyOf[s] = k /\ Reported(s)
    BY <1>r DEF HubInv
  <2> QED
    BY <1>r, <2>1
<1>1. ASSUME NEW s \in Sock, Listen(s) PROVE HubInv'
  BY <1>1, <1>r, <1>t DEF Listen, Reported, TypeOK
<1>2. ASSUME NEW s \in Sock, Close(s) PROVE HubInv'
  <2>1. Tracked(s) /\ KeyOf[s] \notin leaky => (Reported(s)' <=> Reported(s))
    BY <1>2, <1>c, <1>t DEF Close, Counted, Reported, TypeOK
  <2> QED
    BY <1>2, <1>r, <1>t, <2>1 DEF Close, Reported, TypeOK
<1>3. ASSUME NEW s \in Sock, AddKey(s) PROVE HubInv'
  <2>1. leaky \subseteq leaky' /\ UNCHANGED <<guestPorts, hooked, ring, hub, dropped>>
    BY <1>3 DEF AddKey
  <2>2. Tracked(s) => ~Reported(s)' /\ ~Reported(s)
    BY <1>3, <1>t DEF AddKey, InHostNetns, Reported, TypeOK
  <2>3. \A t \in Sock : t # s => pc'[t] = pc[t]
    BY <1>3, <1>t DEF AddKey, TypeOK
  <2>4. \A t \in Sock : t # s => (Reported(t)' <=> Reported(t))
    BY <2>1, <2>3 DEF Reported
  <2> QED
    BY <1>r, <2>1, <2>2, <2>4
<1>4. ASSUME NEW s \in Sock, AddFind(s) PROVE HubInv'
  BY <1>4, <1>r, <1>t DEF AddFind, Reported, TypeOK
<1>5. ASSUME NEW s \in Sock, AddInc(s) PROVE HubInv'
  <2>1. Tracked(s) /\ KeyOf[s] \in leaky
    BY <1>5, <1>c DEF AddInc, Counted, IInv
  <2> QED
    BY <1>5, <1>r, <1>t, <2>1 DEF AddInc, Reported, TypeOK
<1>6. ASSUME NEW s \in Sock, AddPut(s) PROVE HubInv'
  <2>1. Tracked(s) /\ pc[s] = "add_put"
    BY <1>6 DEF AddPut, IInv
  <2>2. /\ pc'[s] = "add_emit"
        /\ \A t \in Sock : t # s /\ KeyOf[t] \notin leaky => pc'[t] = pc[t]
    BY <1>6, <2>1, ReplacedAlone DEF AddPut
  <2>3. ASSUME NEW t \in Sock, Tracked(t), KeyOf[t] \notin leaky
        PROVE  Reported(t)' <=> Reported(t)
    <3>1. CASE t = s
      BY <1>t, <2>1, <2>2, <3>1 DEF Reported, TypeOK
    <3>2. CASE t # s
      BY <1>6, <1>t, <2>1, <2>2, <2>3, <3>2, OthersReported DEF AddPut, TypeOK
    <3> QED
      BY <3>1, <3>2
  <2> QED
    BY <1>6, <1>r, <2>3 DEF AddPut
<1>7. ASSUME NEW s \in Sock, NEW op \in {"add", "del"}, Emit(op, KeyOf[s]),
             UNCHANGED <<hub, leaky>>, Tracked(s), pc[s] # "closed", Reported(s)' <=> op = "add",
             \A t \in Sock : t # s /\ Tracked(t) => (Reported(t)' <=> Reported(t)),
             \A t \in Sock : t # s => pc'[t] = pc[t]
      PROVE  HubInv'
  <2> DEFINE e == [op |-> op, key |-> KeyOf[s]]
  <2>1. e \in Event /\ e.key = KeyOf[s] /\ e.op = op
    BY DEF Event
  <2> HIDE DEF e
  <2> SUFFICES ASSUME NEW k \in Key, k \notin dropped', k \notin leaky
               PROVE  HubToBe(ring', hub, k) <=>
                        \E t \in Sock : Tracked(t) /\ KeyOf[t] = k /\ Reported(t)'
    BY <1>7 DEF HubInv
  <2>2. HubToBe(ring, hub, k) <=> \E t \in Sock : Tracked(t) /\ KeyOf[t] = k /\ Reported(t)
    BY <1>7 DEF HubInv, Emit
  <2>3. CASE k # KeyOf[s]
    <3>1. ring' = Append(ring, e) \/ ring' = ring
      BY <1>7 DEF Emit, e
    <3>2. HubToBe(ring', hub, k) <=> HubToBe(ring, hub, k)
      <4>1. ring \in Seq(Event)
        BY <1>t DEF TypeOK
      <4>2. HubToBe(Append(ring, e), hub, k) <=> HubToBe(ring, hub, k)
        BY <2>1, <2>3, <4>1, AppendToBe
      <4>3. CASE ring' = ring
        BY <4>3
      <4>4. CASE ring' = Append(ring, e)
        BY <4>2, <4>4
      <4> QED
        BY <3>1, <4>3, <4>4
    <3> QED
      BY <1>7, <2>2, <2>3, <3>2
  <2>4. CASE k = KeyOf[s]
    <3>1. ring' = Append(ring, e)
      BY <1>7, <2>4 DEF Emit, e
    <3>2. HubToBe(ring', hub, k) <=> op = "add"
      BY <1>t, <2>1, <2>4, <3>1, AppendToBe DEF TypeOK
    <3>3. ASSUME NEW t \in Sock, t # s, Tracked(t), KeyOf[t] = k PROVE ~Reported(t)'
      <4>1. pc[t] = "closed"
        BY <1>7, <2>4, <3>3, Alone
      <4> QED
        BY <1>7, <3>3, <4>1 DEF Reported
    <3> QED
      BY <1>7, <2>4, <3>2, <3>3
  <2> QED
    BY <2>3, <2>4
<1>8. ASSUME NEW s \in Sock, AddEmit(s) \/ DelEmit(s) PROVE HubInv'
  <2>1. /\ Tracked(s) /\ pc[s] # "closed" /\ UNCHANGED <<hub, leaky, guestPorts>>
        /\ \A t \in Sock : t # s => pc'[t] = pc[t] /\ (t \in hooked' <=> t \in hooked)
    BY <1>8, <1>t DEF AddEmit, DelEmit, IInv, TypeOK
  <2>2. \A t \in Sock : t # s => (Reported(t)' <=> Reported(t))
    BY <2>1 DEF Reported
  <2>3. AddEmit(s) => Emit("add", KeyOf[s]) /\ Reported(s)'
    BY <1>t DEF AddEmit, Reported, TypeOK
  <2>4. DelEmit(s) => Emit("del", KeyOf[s]) /\ ~Reported(s)'
    BY <1>t DEF DelEmit, Reported, TypeOK
  <2> QED
    BY <1>7, <1>8, <2>1, <2>2, <2>3, <2>4
<1>9. ASSUME NEW s \in Sock, DelKey(s) \/ DelFind(s) PROVE HubInv'
  <2>1. /\ UNCHANGED <<guestPorts, hooked, leaky, ring, hub, dropped>>
        /\ \A t \in Sock : t # s => pc'[t] = pc[t]
    BY <1>9, <1>t DEF DelKey, DelFind, TypeOK
  <2>2. \A t \in Sock : t # s => (Reported(t)' <=> Reported(t))
    BY <2>1 DEF Reported
  <2>3. Tracked(s) /\ KeyOf[s] \notin leaky => (Reported(s)' <=> Reported(s))
    BY <1>9, <1>c, <1>t, <2>1 DEF DelKey, DelFind, InHostNetns, Counted, Reported, TypeOK
  <2> QED
    BY <1>r, <2>1, <2>2, <2>3
<1>10. ASSUME NEW s \in Sock, DelSub(s) PROVE HubInv'
  <2>1. /\ Tracked(s) /\ pc[s] # "closed" /\ UNCHANGED <<hooked, leaky, ring, hub, dropped>>
        /\ \A t \in Sock : t # s => pc'[t] = pc[t]
        /\ \A k \in Key : k # KeyOf[s] => guestPorts'[k] = guestPorts[k]
    BY <1>10, <1>t DEF DelSub, IInv, TypeOK
  <2>2. \A t \in Sock : t # s /\ Tracked(t) /\ KeyOf[t] \notin leaky
          => (Reported(t)' <=> Reported(t))
    BY <2>1, OthersReported
  <2>3. ASSUME KeyOf[s] \notin leaky PROVE Reported(s)' /\ Reported(s)
    <3>1. pc[s] = "del_sub" /\ guestPorts[KeyOf[s]] = 1
      BY <1>10, <1>c, <2>1, <2>3 DEF DelSub, Counted
    <3>2. (1 + (Wrap - 1)) % Wrap = 0
      BY NumberAssumption
    <3>3. pc'[s] = "del_del"
      BY <1>10, <1>t, <3>1, <3>2 DEF DelSub, TypeOK
    <3> QED
      BY <3>1, <3>3 DEF Reported
  <2> QED
    BY <1>r, <2>1, <2>2, <2>3
<1>11. ASSUME NEW s \in Sock, DelDel(s) PROVE HubInv'
  <2>1. Tracked(s) /\ pc[s] = "del_del"
    BY <1>11 DEF DelDel, IInv
  <2>2. /\ pc'[s] = "del_emit"
        /\ \A t \in Sock : t # s /\ KeyOf[t] \notin leaky => pc'[t] = pc[t]
    BY <1>11, <2>1, ReplacedAlone DEF DelDel
  <2>3. ASSUME NEW t \in Sock, Tracked(t), KeyOf[t] \notin leaky
        PROVE  Reported(t)' <=> Reported(t)
    <3>1. CASE t = s
      BY <1>t, <2>1, <2>2, <3>1 DEF Reported, TypeOK
    <3>2. CASE t # s
      BY <1>11, <1>t, <2>1, <2>2, <2>3, <3>2, OthersReported DEF DelDel, TypeOK
    <3> QED
      BY <3>1, <3>2
  <2> QED
    BY <1>11, <1>r, <2>3 DEF DelDel
<1>12. ASSUME RunTracker PROVE HubInv'
  <2>1. /\ ring # <<>> /\ ring' = Tail(ring)
        /\ hub' = IF Head(ring).op = "add" THEN hub \cup {Head(ring).key} ELSE hub \ {Head(ring).key}
        /\ UNCHANGED <<pc, guestPorts, hooked, leaky, dropped>>
    BY <1>12 DEF RunTracker
  <2>2. \A k : HubToBe(ring', hub', k) <=> HubToBe(ring, hub, k)
    BY <1>t, <2>1, TailToBe DEF TypeOK
  <2>3. \A t \in Sock : Reported(t)' <=> Reported(t)
    BY <2>1 DEF Reported
  <2> QED
    BY <2>1, <2>2, <2>3 DEF HubInv
<1>13. ASSUME NEW s \in Sock, ScanRow(s) \/ SeedLookup(s) PROVE HubInv'
  <2>1. /\ UNCHANGED <<pc, guestPorts, hooked, ring, hub, dropped>> /\ leaky \subseteq leaky'
    BY <1>13 DEF ScanRow, SeedLookup
  <2> QED
    BY <1>r, <2>1 DEF Reported
<1>14. ASSUME NEW s \in Sock, SeedPut(s) PROVE HubInv'
  <2>1. /\ KeyOf[s] \in leaky /\ UNCHANGED <<hooked, leaky, ring, hub, dropped>>
        /\ guestPorts' = [guestPorts EXCEPT ![KeyOf[s]] = 1]
        /\ \A t \in Sock : KeyOf[t] # KeyOf[s] => pc'[t] = pc[t]
    BY <1>14 DEF SeedPut, Replaced, CountInv, SeedLeaks
  <2>2. \A t \in Sock : KeyOf[t] \notin leaky => (Reported(t)' <=> Reported(t))
    BY <1>t, <2>1 DEF Reported, TypeOK
  <2> QED
    BY <1>r, <2>1, <2>2
<1>15. ASSUME NEW s \in Sock, SeedApply(s) PROVE HubInv'
  <2>1. /\ KeyOf[s] \in leaky /\ hub' = hub \cup {KeyOf[s]}
        /\ UNCHANGED <<pc, guestPorts, hooked, ring, leaky, dropped>>
    BY <1>15 DEF SeedApply, CountInv, SeedLeaks
  <2>2. \A k \in Key \ leaky : HubToBe(ring, hub', k) <=> HubToBe(ring, hub, k)
    BY <2>1 DEF HubToBe
  <2>3. \A t \in Sock : Reported(t)' <=> Reported(t)
    BY <2>1 DEF Reported
  <2> QED
    BY <2>1, <2>2, <2>3 DEF HubInv
<1>16. ASSUME UNCHANGED vars PROVE HubInv'
  <2>1. UNCHANGED <<pc, guestPorts, hooked, ring, hub, dropped, leaky>>
    BY <1>16 DEF vars
  <2> QED
    BY <1>r, <2>1 DEF Reported
<1> QED
  BY <1>1, <1>2, <1>3, <1>4, <1>5, <1>6, <1>8, <1>9, <1>10, <1>11, <1>12, <1>13,
     <1>14, <1>15, <1>16
  DEF Next, TrackAdd, TrackDel, Seed

(* For any sockets, and however events wait in the ring, once it is read   *)
(* and no hook runs the hub has exactly the keys with a listener, short of *)
(* leaky and dropped ones (tracker.c emit, tracker.go RunTracker).         *)
THEOREM HubKeepsStep == Spec => []HubInStep
<1>1. IInv /\ CountInv /\ HubInv /\ [Next]_vars => HubInv'
  BY StepHub
<1>2. IInv /\ CountInv /\ HubInv => HubInStep
  <2> SUFFICES ASSUME CountInv, HubInv, Quiet, ring = <<>>, NEW k \in Key \ (dropped \cup leaky)
               PROVE  k \in hub <=> Open(k) # {}
    BY DEF HubInStep
  <2>1. k \in hub <=> \E s \in Sock : Tracked(s) /\ KeyOf[s] = k /\ Reported(s)
    BY EmptyToBe DEF HubInv
  <2>2. ASSUME NEW s \in Sock, Tracked(s), KeyOf[s] = k PROVE Reported(s) <=> pc[s] = "open"
    BY <2>2 DEF CountInv, Counted, Reported, Quiet, Seeded
  <2> QED
    BY <2>1, <2>2 DEF Open
<1> QED
  BY <1>1, <1>2, InitHub, Invariance, CountInvariance, PTL DEF Spec
=============================================================================
