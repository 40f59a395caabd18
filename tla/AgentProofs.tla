----------------------------- MODULE AgentProofs -----------------------------
(* Proofs about the guest agent's two ends of the reverse path: the pool a *)
(* dial takes its connection from, for every set of connections and pops   *)
(* and every capacity, and the gateway that answers binds and relays UDP,  *)
(* for any number of binds, conns, proxies and streams.                    *)
EXTENDS DialPool, Gateway, FiniteSetTheorems, SequenceTheorems, TLAPS

-----------------------------------------------------------------------------
(* The pool. *)

(* The initial state satisfies the inductive invariant.                    *)
LEMMA InitIInv == Init => IInv
<1> SUFFICES ASSUME Init PROVE IInv
  OBVIOUS
<1>1. TypeOK
  <2>1. waiters \in Seq(Popper) /\ deaths \in Nat
    BY DEF Init
  <2>2. /\ where \in [Conn -> ConnStates] /\ watch \in [Conn -> WatchStates]
        /\ pc \in [Popper -> PopStates]
    BY DEF Init, ConnStates, WatchStates, PopStates
  <2> QED
    BY <2>1, <2>2 DEF Init, TypeOK
<1>2. NoIdleConn /\ Ownership /\ WatchdogPhase /\ WatchdogGone /\ DeathsSeen
      /\ DeadNotReturned
  BY NoneAssumption DEF Init, NoIdleConn, Ownership, WatchdogPhase,
     WatchdogGone, DeathsSeen, DeadNotReturned
<1>3. WithinCap
  BY PoolCapAssumption, FS_EmptySet DEF Init, WithinCap
<1>4. Promises /\ Accounted
  BY NoneAssumption DEF Init, Promises, Accounted, Distinct, Queued, Among
<1> QED
  BY <1>1, <1>2, <1>3, <1>4 DEF IInv

(* A connection is added to the pool only when the pool is not full, and   *)
(* every other step leaves a subset of what was parked.                    *)
LEMMA CapStep ==
  ASSUME TypeOK, WithinCap,
         conns' \subseteq conns
           \/ (~ParkFull /\ \E c \in Conn : conns' = conns \cup {c})
  PROVE  WithinCap'
<1>0. IsFiniteSet(conns)
  BY ConnFinite, FS_Subset DEF TypeOK
<1>1. CASE conns' \subseteq conns
  <2>1. Cardinality(conns') <= Cardinality(conns)
    BY <1>0, <1>1, FS_Subset
  <2>2. IsFiniteSet(conns')
    BY <1>0, <1>1, FS_Subset
  <2>3. Cardinality(conns) \in Nat /\ Cardinality(conns') \in Nat
    BY <1>0, <2>2, FS_CardinalityType
  <2> QED
    BY <2>1, <2>3, PoolCapAssumption DEF WithinCap
<1>2. CASE ~ParkFull /\ \E c \in Conn : conns' = conns \cup {c}
  <2> PICK c \in Conn : conns' = conns \cup {c}
    BY <1>2
  <2>0. Cardinality(conns) \in Nat
    BY <1>0, FS_CardinalityType
  <2>1. Cardinality(conns') <= Cardinality(conns) + 1
    BY <1>0, <2>0, FS_AddElement
  <2>2. IsFiniteSet(conns')
    BY <1>0, FS_AddElement
  <2>3. Cardinality(conns) \in Nat /\ Cardinality(conns') \in Nat
    BY <1>0, <2>2, FS_CardinalityType
  <2>4. Cardinality(conns) < PoolCap
    BY <1>2, <2>3, PoolCapAssumption DEF ParkFull
  <2> QED
    BY <2>1, <2>3, <2>4, PoolCapAssumption DEF WithinCap
<1> QED
  BY <1>1, <1>2

(* Taking one pop off the queue leaves a queue of pops.                    *)
LEMMA WithoutIndexType ==
  ASSUME NEW S, NEW s \in Seq(S), NEW i \in 1..Len(s)
  PROVE  WithoutIndex(s, i) \in Seq(S)
<1>1. SubSeq(s, 1, i - 1) \in Seq(S)
  BY SubSeqProperties
<1>2. SubSeq(s, i + 1, Len(s)) \in Seq(S)
  BY SubSeqProperties
<1> QED
  BY <1>1, <1>2, ConcatProperties DEF WithoutIndex

(* What is left of a queue without repetitions when its head is taken, a    *)
(* pop joins it, or one leaves from the middle.                            *)
LEMMA TailQueue ==
  ASSUME NEW S, NEW q \in Seq(S), q # <<>>, Distinct(q)
  PROVE  /\ Distinct(Tail(q))
         /\ \A w : Among(w, Tail(q)) <=> Among(w, q) /\ w # Head(q)
<1>1. /\ Len(q) \in Nat \ {0} /\ Len(Tail(q)) = Len(q) - 1 /\ Head(q) = q[1]
      /\ \A i \in 1..(Len(q) - 1) : Tail(q)[i] = q[i + 1]
  BY HeadTailProperties
<1> HIDE DEF Tail
<1>2. Distinct(Tail(q))
  BY <1>1 DEF Distinct
<1>3. ASSUME NEW w, Among(w, Tail(q)) PROVE Among(w, q) /\ w # Head(q)
  BY <1>1, <1>3 DEF Among, Distinct
<1>4. ASSUME NEW w, Among(w, q), w # Head(q) PROVE Among(w, Tail(q))
  <2> PICK i \in 1..Len(q) : q[i] = w
    BY <1>4 DEF Among
  <2>1. i # 1
    BY <1>1, <1>4
  <2>2. i - 1 \in 1..(Len(q) - 1) /\ (i - 1) + 1 = i
    BY <1>1, <2>1
  <2> QED
    BY <1>1, <2>2 DEF Among
<1> QED
  BY <1>2, <1>3, <1>4

(* PopQueue: a pop that is not in the queue enters it once, at its end.     *)
LEMMA AppendQueue ==
  ASSUME NEW S, NEW q \in Seq(S), NEW v \in S, Distinct(q), ~Among(v, q)
  PROVE  /\ Distinct(Append(q, v))
         /\ \A w : Among(w, Append(q, v)) <=> Among(w, q) \/ w = v
<1>1. /\ Len(q) \in Nat /\ Len(Append(q, v)) = Len(q) + 1
      /\ \A i \in 1..Len(q) : Append(q, v)[i] = q[i]
      /\ Append(q, v)[Len(q) + 1] = v
  BY AppendProperties, LenProperties
<1> QED
  BY <1>1 DEF Distinct, Among

(* PopDequeue: taking out a pop's one entry takes out that pop and no other.*)
LEMMA LeaveQueue ==
  ASSUME NEW S, NEW q \in Seq(S), NEW k \in 1..Len(q), Distinct(q)
  PROVE  /\ Distinct(WithoutIndex(q, k))
         /\ \A w : Among(w, WithoutIndex(q, k)) <=> Among(w, q) /\ w # q[k]
<1> DEFINE r == WithoutIndex(q, k)
<1>1. Len(q) \in Nat
  BY LenProperties
<1>2. /\ Len(r) = Len(q) - 1
      /\ \A i \in 1..(Len(q) - 1) : r[i] = IF i < k THEN q[i] ELSE q[i + 1]
  <2> DEFINE a == SubSeq(q, 1, k - 1)
             b == SubSeq(q, k + 1, Len(q))
  <2>1. a \in Seq(S) /\ Len(a) = k - 1 /\ \A i \in 1..(k - 1) : a[i] = q[i]
    BY <1>1, SubSeqProperties
  <2>2. b \in Seq(S) /\ Len(b) = Len(q) - k /\ \A i \in 1..(Len(q) - k) : b[i] = q[k + i]
    BY <1>1, SubSeqProperties
  <2> HIDE DEF a, b
  <2>3. /\ Len(a \o b) = Len(a) + Len(b)
        /\ \A i \in 1..(Len(a) + Len(b)) : (a \o b)[i] = IF i <= Len(a) THEN a[i] ELSE b[i - Len(a)]
    BY <2>1, <2>2, ConcatProperties
  <2>4. r = a \o b
    BY DEF r, WithoutIndex, a, b
  <2> HIDE DEF r
  <2>5. Len(a) + Len(b) = Len(q) - 1 /\ Len(r) = Len(q) - 1
    <3>1. Len(a) + Len(b) = (k - 1) + (Len(q) - k)
      BY <2>1, <2>2
    <3>2. (k - 1) + (Len(q) - k) = Len(q) - 1
      BY <1>1
    <3>3. Len(r) = Len(a) + Len(b)
      BY <2>3, <2>4
    <3> QED
      BY <3>1, <3>2, <3>3
  <2>6. ASSUME NEW i \in 1..(Len(q) - 1) PROVE r[i] = IF i < k THEN q[i] ELSE q[i + 1]
    <3>1. r[i] = IF i <= k - 1 THEN a[i] ELSE b[i - (k - 1)]
      BY <2>1, <2>3, <2>4, <2>5
    <3>2. CASE i < k
      <4>1. i <= k - 1 /\ i \in 1..(k - 1)
        BY <1>1, <3>2
      <4> QED
        BY <2>1, <3>1, <3>2, <4>1
    <3>3. CASE ~(i < k)
      <4>1. ~(i <= k - 1) /\ i - (k - 1) \in 1..(Len(q) - k) /\ k + (i - (k - 1)) = i + 1
        BY <1>1, <3>3
      <4>2. b[i - (k - 1)] = q[i + 1]
        BY <2>2, <4>1
      <4> QED
        BY <3>1, <3>3, <4>1, <4>2
    <3> QED
      BY <3>2, <3>3
  <2> QED
    BY <2>5, <2>6
<1> HIDE DEF r
<1>3. Distinct(r)
  BY <1>1, <1>2 DEF Distinct
<1>4. ASSUME NEW w, Among(w, r) PROVE Among(w, q) /\ w # q[k]
  BY <1>1, <1>2, <1>4 DEF Among, Distinct
<1>5. ASSUME NEW w, Among(w, q), w # q[k] PROVE Among(w, r)
  <2> PICK i \in 1..Len(q) : q[i] = w
    BY <1>5 DEF Among
  <2>1. CASE i < k
    BY <1>1, <1>2, <2>1 DEF Among
  <2>2. CASE i > k
    <3>1. i - 1 \in 1..(Len(q) - 1) /\ ~(i - 1 < k) /\ (i - 1) + 1 = i
      BY <1>1, <2>2
    <3> QED
      BY <1>2, <3>1 DEF Among
  <2>3. i # k
    BY <1>5
  <2> QED
    BY <2>1, <2>2, <2>3
<1> QED
  BY <1>3, <1>4, <1>5 DEF r

(* Every step keeps each pop in one place and each connection with a pop.  *)
LEMMA StepPromises == IInv /\ [Next]_vars => Promises' /\ Accounted'
<1> SUFFICES ASSUME IInv, [Next]_vars PROVE Promises' /\ Accounted'
  OBVIOUS
<1> USE NoneAssumption
<1>c. TypeOK /\ Ownership /\ WatchdogPhase /\ Promises /\ Accounted
  BY DEF IInv
<1> USE DEF TypeOK, Ownership, WatchdogPhase, Promises, Accounted, Queued, ConnStates, WatchStates, PopStates
<1>1. ASSUME NEW c \in Conn, MacDial(c) \/ MacDies(c) \/ ParkRefuse(c) \/ ParkPool(c) \/ WatchWake(c)
      PROVE  Promises' /\ Accounted'
  BY <1>c, <1>1 DEF MacDial, MacDies, ParkRefuse, ParkPool, WatchWake
<1>2. ASSUME NEW c \in Conn, ParkClaim(c)
      PROVE  Promises' /\ Accounted'
  <2>1. waiters \in Seq(Popper) /\ waiters # <<>> /\ Head(waiters) \in Popper /\ Among(Head(waiters), waiters)
    <3>1. waiters \in Seq(Popper) /\ waiters # <<>>
      BY <1>c, <1>2 DEF ParkClaim
    <3> QED
      BY <3>1, HeadTailProperties DEF Among
  <2>2. Distinct(waiters') /\ \A w : Among(w, waiters') <=> Among(w, waiters) /\ w # Head(waiters)
    BY <1>c, <1>2, <2>1, TailQueue DEF ParkClaim
  <2>3. handTo' = [handTo EXCEPT ![c] = Head(waiters)] /\ handTo[c] = None
    BY <1>c, <1>2 DEF ParkClaim
  <2>4. where' = [where EXCEPT ![c] = "handing"] /\ where[c] = "arrived" /\ UNCHANGED <<pc, chan, held, stranded>>
    BY <1>2 DEF ParkClaim
  <2>5. Promises'
    BY <1>c, <2>1, <2>2, <2>3, <2>4
  <2> QED
    BY <1>c, <2>4, <2>5
<1>3. ASSUME NEW c \in Conn, ParkDeliver(c)
      PROVE  Promises' /\ Accounted'
  <2>1. /\ where[c] = "handing" /\ where' = [where EXCEPT ![c] = "out"]
        /\ handTo' = [handTo EXCEPT ![c] = None]
        /\ UNCHANGED <<waiters, pc, held>>
    BY <1>3 DEF ParkDeliver
  <2>2. CASE handTo[c] = None
    <3>1. chan' = chan /\ stranded' = stranded \cup {c}
      BY <1>c, <1>3, <2>2 DEF ParkDeliver
    <3> QED
      BY <1>c, <2>1, <2>2, <3>1
  <2>3. CASE handTo[c] # None
    <3>0. handTo[c] \in Popper /\ chan \in [Popper -> Conn \cup {None}]
      BY <1>c, <2>3
    <3>1. /\ handTo[c] \in Popper /\ stranded' = stranded
          /\ \A w \in Popper : chan'[w] = IF w = handTo[c] THEN c ELSE chan[w]
      BY <1>3, <2>3, <3>0 DEF ParkDeliver
    <3>2. Promises'
      BY <1>c, <2>1, <2>3, <3>1
    <3>3. Accounted'
      BY <1>c, <2>1, <2>3, <3>1
    <3> QED
      BY <3>2, <3>3
  <2> QED
    BY <2>2, <2>3
<1>4. ASSUME NEW c \in Conn, WatchFinish(c)
      PROVE  Promises' /\ Accounted'
  BY <1>c, <1>4 DEF WatchFinish, HandedOff
<1>5. ASSUME NEW w \in Popper, PopCall(w) \/ PopClosed(w) \/ PopPoke(w) \/ PopExpire(w)
      PROVE  Promises' /\ Accounted'
  BY <1>c, <1>5 DEF PopCall, PopClosed, PopPoke, PopExpire
<1>6. ASSUME NEW w \in Popper, NEW c \in Conn, PopTake(w, c)
      PROVE  Promises' /\ Accounted'
  <2>1. Promises'
    BY <1>c, <1>6 DEF PopTake
  <2>2. Accounted'
    <3>1. /\ where' = [where EXCEPT ![c] = "out"] /\ held' = [held EXCEPT ![w] = c]
          /\ UNCHANGED <<chan, stranded>> /\ where[c] = "pool" /\ held[w] = None
      BY <1>c, <1>6 DEF PopTake
    <3>2. c \notin stranded /\ \A d \in Conn \ {c} : where'[d] = where[d]
      BY <1>c, <3>1
    <3> QED
      BY <1>c, <3>1, <3>2
  <2> QED
    BY <2>1, <2>2
<1>7. ASSUME NEW w \in Popper, PopVerdict(w)
      PROVE  Promises' /\ Accounted'
  BY <1>c, <1>7 DEF PopVerdict
<1>8. ASSUME NEW w \in Popper, PopQueue(w)
      PROVE  Promises' /\ Accounted'
  <2>1. ~Among(w, waiters) /\ chan[w] = None /\ waiters' = Append(waiters, w)
    BY <1>c, <1>8 DEF PopQueue
  <2>2. Distinct(waiters') /\ \A v : Among(v, waiters') <=> Among(v, waiters) \/ v = w
    BY <1>c, <2>1, AppendQueue
  <2> QED
    BY <1>c, <1>8, <2>1, <2>2 DEF PopQueue
<1>9. ASSUME NEW w \in Popper, PopReceive(w)
      PROVE  Promises' /\ Accounted'
  BY <1>c, <1>9 DEF PopReceive
<1>10. ASSUME NEW w \in Popper, PopDequeue(w)
       PROVE  Promises' /\ Accounted'
  <2>1. Distinct(waiters') /\ \A v : Among(v, waiters') <=> Among(v, waiters) /\ v # w
    BY <1>c, <1>10, LeaveQueue DEF PopDequeue
  <2> QED
    BY <1>c, <1>10, <2>1 DEF PopDequeue
<1>11. ASSUME NEW w \in Popper, PopGiveUp(w)
       PROVE  Promises' /\ Accounted'
  BY <1>c, <1>11 DEF PopGiveUp
<1>12. ASSUME NEW w \in Popper, PopDone(w)
       PROVE  Promises' /\ Accounted'
  BY <1>c, <1>12 DEF PopDone
<1>13. ASSUME Close
       PROVE  Promises' /\ Accounted'
  BY <1>c, <1>13 DEF Close
<1>14. ASSUME UNCHANGED vars
       PROVE  Promises' /\ Accounted'
  BY <1>c, <1>14 DEF vars
<1> QED
  BY <1>1, <1>2, <1>3, <1>4, <1>5, <1>6, <1>7, <1>8, <1>9, <1>10, <1>11,
     <1>12, <1>13, <1>14
  DEF Next, Park, Watch, Pop

(* Every step keeps the inductive invariant.                               *)
LEMMA StepIInv == IInv /\ [Next]_vars => IInv'
<1> SUFFICES ASSUME IInv, [Next]_vars PROVE IInv'
  OBVIOUS
<1> USE NoneAssumption
<1> DEFINE Core == /\ TypeOK /\ NoIdleConn /\ Ownership /\ WatchdogPhase
                   /\ WatchdogGone /\ DeathsSeen /\ DeadNotReturned
<1>c. Core
  BY DEF IInv
<1> USE DEF TypeOK, NoIdleConn, Ownership, WatchdogPhase, WatchdogGone,
            DeathsSeen, DeadNotReturned, ConnStates, WatchStates, PopStates
<1>1. ASSUME NEW c \in Conn, MacDial(c)
      PROVE  Core' /\ conns' \subseteq conns
  BY <1>c, <1>1 DEF MacDial
<1>2. ASSUME NEW c \in Conn, MacDies(c)
      PROVE  Core' /\ conns' \subseteq conns
  BY <1>c, <1>2 DEF MacDies
<1>3. ASSUME NEW c \in Conn, ParkRefuse(c)
      PROVE  Core' /\ conns' \subseteq conns
  BY <1>c, <1>3 DEF ParkRefuse
<1>4. ASSUME NEW c \in Conn, ParkClaim(c)
      PROVE  Core' /\ conns' \subseteq conns
  <2>1. Head(waiters) \in Popper /\ Tail(waiters) \in Seq(Popper)
    <3>1. waiters \in Seq(Popper) /\ waiters # <<>>
      BY <1>c, <1>4 DEF ParkClaim
    <3> QED
      BY <3>1, HeadTailProperties
  <2> QED
    BY <1>c, <1>4, <2>1 DEF ParkClaim
<1>5. ASSUME NEW c \in Conn, ParkPool(c)
      PROVE  Core' /\ ~ParkFull /\ conns' = conns \cup {c}
  <2>1. ~ParkFull /\ conns' = conns \cup {c}
    BY <1>5 DEF ParkPool
  <2>2. (TypeOK /\ NoIdleConn)'
    BY <1>c, <1>5 DEF ParkPool
  <2>3. (Ownership /\ WatchdogPhase)'
    BY <1>c, <1>5 DEF ParkPool
  <2>4. (WatchdogGone /\ DeathsSeen /\ DeadNotReturned)'
    BY <1>c, <1>5 DEF ParkPool
  <2> QED
    BY <2>1, <2>2, <2>3, <2>4
<1>6. ASSUME NEW c \in Conn, ParkDeliver(c)
      PROVE  Core' /\ conns' \subseteq conns
  BY <1>c, <1>6 DEF ParkDeliver
<1>7. ASSUME NEW c \in Conn, WatchWake(c)
      PROVE  Core' /\ conns' \subseteq conns
  BY <1>c, <1>7 DEF WatchWake
<1>8. ASSUME NEW c \in Conn, WatchFinish(c)
      PROVE  Core' /\ conns' \subseteq conns
  BY <1>c, <1>8 DEF WatchFinish, HandedOff
<1>9. ASSUME NEW w \in Popper, PopCall(w) \/ PopClosed(w) \/ PopPoke(w) \/ PopExpire(w)
      PROVE  Core' /\ conns' \subseteq conns
  BY <1>c, <1>9 DEF PopCall, PopClosed, PopPoke, PopExpire
<1>10. ASSUME NEW w \in Popper, NEW c \in Conn, PopTake(w, c)
       PROVE  Core' /\ conns' \subseteq conns
  BY <1>c, <1>10 DEF PopTake
<1>11. ASSUME NEW w \in Popper, PopVerdict(w)
       PROVE  Core' /\ conns' \subseteq conns
  BY <1>c, <1>11 DEF PopVerdict, ProbeLive, WatchDone
<1>12. ASSUME NEW w \in Popper, PopQueue(w)
       PROVE  Core' /\ conns' \subseteq conns
  BY <1>c, <1>12 DEF PopQueue, PoolEmpty
<1>13. ASSUME NEW w \in Popper, PopReceive(w)
       PROVE  Core' /\ conns' \subseteq conns
  BY <1>c, <1>13 DEF PopReceive
<1>14. ASSUME NEW w \in Popper, PopDequeue(w)
       PROVE  Core' /\ conns' \subseteq conns
  <2>1. waiters' \in Seq(Popper)
    BY <1>c, <1>14, WithoutIndexType DEF PopDequeue
  <2>2. conns # {} => waiters' = <<>>
    BY <1>c, <1>14 DEF PopDequeue
  <2> QED
    BY <1>c, <1>14, <2>1, <2>2 DEF PopDequeue
<1>15. ASSUME NEW w \in Popper, PopGiveUp(w)
       PROVE  Core' /\ conns' \subseteq conns
  BY <1>c, <1>15 DEF PopGiveUp
<1>16. ASSUME NEW w \in Popper, PopDone(w)
       PROVE  Core' /\ conns' \subseteq conns
  BY <1>c, <1>16 DEF PopDone
<1>17. ASSUME Close
       PROVE  Core' /\ conns' \subseteq conns
  BY <1>c, <1>17 DEF Close
<1>18. ASSUME UNCHANGED vars
       PROVE  Core' /\ conns' \subseteq conns
  BY <1>c, <1>18 DEF vars
<1>19. Core' /\ (conns' \subseteq conns
                   \/ (~ParkFull /\ \E c \in Conn : conns' = conns \cup {c}))
  BY <1>1, <1>2, <1>3, <1>4, <1>5, <1>6, <1>7, <1>8, <1>9, <1>10, <1>11,
     <1>12, <1>13, <1>14, <1>15, <1>16, <1>17, <1>18
  DEF Next, Park, Watch, Pop
<1>20. WithinCap'
  BY <1>c, <1>19, CapStep DEF IInv
<1>21. Promises' /\ Accounted'
  BY StepPromises
<1> QED
  BY <1>19, <1>20, <1>21 DEF IInv

(* The inductive invariant holds in every reachable state.                 *)
THEOREM Invariance == Spec => []IInv
  BY InitIInv, StepIInv, PTL DEF Spec

(* No run of the pool leaves the types of its state.                       *)
THEOREM TypeCorrect == Spec => []TypeOK
<1>1. IInv => TypeOK
  BY DEF IInv
<1> QED
  BY <1>1, Invariance, PTL

(* The pool keeps within poolCap and never holds a connection a queued pop *)
(* could have.                                                             *)
THEOREM PoolSafe == Spec => [](NoIdleConn /\ WithinCap)
<1>1. IInv => NoIdleConn /\ WithinCap
  BY DEF IInv
<1> QED
  BY <1>1, Invariance, PTL

(* Two flows never share one stream, and a connection that has left the    *)
(* pool is some pop's, to return or to close; but for the one that park    *)
(* sends to a pop that has given up (dialpool.go park).                    *)
THEOREM Exclusive == Spec => []SingleOwner
<1>1. IInv => SingleOwner
  <2> SUFFICES ASSUME IInv, NEW c \in Conn
               PROVE  /\ \A w \in Popper : Holds(w, c) \/ WillFind(w, c) => where[c] = "out"
                      /\ where[c] = "out" =>
                           IF c \in stranded
                             THEN \A w \in Popper : held[w] # c /\ chan[w] # c
                             ELSE \E w \in Popper :
                                    /\ Holds(w, c) \/ WillFind(w, c)
                                    /\ held[w] # chan[w]
                                    /\ \A v \in Popper \ {w} : held[v] # c /\ chan[v] # c
    BY DEF SingleOwner
  <2>c. c # None /\ TypeOK /\ Ownership /\ Promises /\ Accounted
    BY NoneAssumption DEF IInv
  <2>1. ASSUME NEW w \in Popper, Holds(w, c) \/ WillFind(w, c) PROVE where[c] = "out"
    BY <2>c, <2>1 DEF Holds, WillFind, Ownership
  <2>2. ASSUME c \in stranded PROVE \A w \in Popper : held[w] # c /\ chan[w] # c
    BY <2>c, <2>2 DEF Accounted
  <2>3. ASSUME where[c] = "out", c \notin stranded
        PROVE  \E w \in Popper : /\ Holds(w, c) \/ WillFind(w, c)
                                 /\ held[w] # chan[w]
                                 /\ \A v \in Popper \ {w} : held[v] # c /\ chan[v] # c
    <3> PICK w \in Popper : held[w] = c \/ chan[w] = c
      BY <2>c, <2>3 DEF Accounted
    <3>1. Holds(w, c) \/ WillFind(w, c)
      BY <2>c DEF Holds, WillFind, Ownership, Promises
    <3>2. held[w] # chan[w]
      BY <2>c DEF Ownership
    <3>3. \A v \in Popper \ {w} : held[v] # c /\ chan[v] # c
      BY <2>c DEF Ownership
    <3> QED
      BY <3>1, <3>2, <3>3
  <2> QED
    BY <2>1, <2>2, <2>3
<1> QED
  BY <1>1, Invariance, PTL

(* A connection that pop returned has no watchdog in its read and did not  *)
(* die while it was parked.                                                *)
THEOREM HandoffSafe == Spec => [](WatchdogGone /\ DeadNotReturned)
<1>1. IInv => WatchdogGone /\ DeadNotReturned
  BY DEF IInv
<1> QED
  BY <1>1, Invariance, PTL

-----------------------------------------------------------------------------
(* The gateway.  The proxies' half of its state and the reservations' half  *)
(* do not touch each other, so each invariant is kept by the other half's   *)
(* steps because they leave its variables alone.  The streams first.        *)

(* Nothing is dialled when the agent starts.                               *)
LEMMA InitStream == GatewayInit => StreamInv
<1> SUFFICES ASSUME GatewayInit PROVE StreamInv
  OBVIOUS
<1> USE GatewayAssumption DEF GatewayInit
<1>1. ProxyTypeOK
  BY DEF ProxyTypeOK
<1>2. StreamUse
  BY DEF StreamUse, Used
<1>3. NoStrayStream
  BY DEF NoStrayStream
<1> QED
  BY <1>1, <1>2, <1>3 DEF StreamInv

(* drop closes the stream it is given and forgets it where it is current.  *)
LEMMA DropStream ==
  ASSUME NEW x \in Proxy, NEW s \in Stream, StreamInv, Used(s, x), Drop(x, s)
  PROVE  /\ conn' = [conn EXCEPT ![s] = "closed"]
         /\ cur' \in [Proxy -> Stream \cup {Nil}]
         /\ \A y \in Proxy : y # x => cur'[y] = cur[y]
         /\ cur'[x] = IF cur[x] = s THEN Nil ELSE cur[x]
         /\ UNCHANGED <<aMu, entry, syncPc, victim, px, pMu, owner>>
  BY DEF Drop, Forgotten, StreamInv, ProxyTypeOK

(* Every step keeps the streams in order.                                  *)
LEMMA StepStream == StreamInv /\ [GatewayNext]_gatewayVars => StreamInv'
<1> SUFFICES ASSUME StreamInv, [GatewayNext]_gatewayVars PROVE StreamInv'
  OBVIOUS
<1> USE GatewayAssumption
<1> USE DEF StreamInv, ProxyTypeOK, StreamUse, NoStrayStream, Used
<1>1. ASSUME UNCHANGED proxyVars PROVE StreamInv'
  BY <1>1 DEF proxyVars
<1>2. ASSUME NEW p \in Port, SyncTcp(p) PROVE StreamInv'
  BY <1>2 DEF SyncTcp
<1>3. ASSUME NEW x \in Proxy, AddMacPort(x) PROVE StreamInv'
  <2>1. ProxyTypeOK'
    BY <1>3 DEF AddMacPort
  <2>2. StreamUse'
    BY <1>3 DEF AddMacPort
  <2>3. NoStrayStream'
    BY <1>3 DEF AddMacPort
  <2> QED
    BY <2>1, <2>2, <2>3
<1>4. ASSUME RemoveMacPort PROVE StreamInv'
  <2>1. ProxyTypeOK'
    BY <1>4 DEF RemoveMacPort
  <2>2. StreamUse'
    BY <1>4 DEF RemoveMacPort
  <2>3. NoStrayStream'
    BY <1>4 DEF RemoveMacPort
  <2> QED
    BY <2>1, <2>2, <2>3
<1>5. ASSUME CloseMark PROVE StreamInv'
  BY <1>5 DEF CloseMark
<1>6. ASSUME CloseConns PROVE StreamInv'
  <2>1. ProxyTypeOK'
    BY <1>6 DEF CloseConns
  <2>2. StreamUse'
    BY <1>6 DEF CloseConns
  <2>3. NoStrayStream'
    BY <1>6 DEF CloseConns
  <2> QED
    BY <2>1, <2>2, <2>3
<1>7. ASSUME NEW x \in Proxy, Datagram(x) PROVE StreamInv'
  BY <1>7 DEF Datagram, At
<1>8. ASSUME NEW x \in Proxy, Ensure(x) PROVE StreamInv'
  <2>0. /\ reader[x] = "ensure" /\ ~pMu[x]
        /\ UNCHANGED <<aMu, entry, syncPc, victim, px, cur, conn, pump, owner>>
    BY <1>8 DEF Ensure
  <2>1. CASE UNCHANGED <<pMu, rs>> /\ At(x, "read")
    BY <2>0, <2>1 DEF At
  <2>2. CASE cur[x] # Nil /\ At(x, "write") /\ rs' = [rs EXCEPT ![x] = cur[x]] /\ UNCHANGED pMu
    <3>1. ProxyTypeOK'
      BY <2>0, <2>2 DEF At
    <3>2. StreamUse' /\ NoStrayStream'
      BY <2>0, <2>2 DEF At
    <3> QED
      BY <3>1, <3>2
  <2>3. CASE /\ ~Closed(x) /\ cur[x] = Nil /\ At(x, "dial")
             /\ pMu' = [pMu EXCEPT ![x] = TRUE] /\ UNCHANGED rs
    <3>1. px[x] = "open"
      BY <2>0, <2>3 DEF Closed
    <3>2. ProxyTypeOK'
      BY <2>0, <2>3 DEF At
    <3>3. StreamUse' /\ NoStrayStream'
      BY <2>0, <2>3, <3>1 DEF At
    <3> QED
      BY <3>2, <3>3
  <2> QED
    BY <1>8, <2>1, <2>2, <2>3 DEF Ensure
<1>9. ASSUME NEW x \in Proxy, NEW s \in Stream, DialOK(x, s) PROVE StreamInv'
  BY <1>9 DEF DialOK, At
<1>10. ASSUME NEW x \in Proxy, DialFails(x) PROVE StreamInv'
  BY <1>10 DEF DialFails, At
<1>11. ASSUME NEW x \in Proxy, WriteFrame(x) PROVE StreamInv'
  BY <1>11 DEF WriteFrame, At
<1>12. ASSUME NEW x \in Proxy, ReaderDrop(x) PROVE StreamInv'
  <2>1. rs[x] \in Stream /\ Used(rs[x], x) /\ Drop(x, rs[x])
    BY <1>12 DEF ReaderDrop
  <2> QED
    BY <1>12, <2>1, DropStream DEF ReaderDrop, At
<1>13. ASSUME NEW s \in Stream, PumpErr(s) PROVE StreamInv'
  BY <1>13 DEF PumpErr
<1>14. ASSUME NEW s \in Stream, PumpDrop(s) PROVE StreamInv'
  <2>1. owner[s] \in Proxy /\ Used(s, owner[s]) /\ Drop(owner[s], s)
    BY <1>14 DEF PumpDrop
  <2> QED
    BY <1>14, <2>1, DropStream DEF PumpDrop
<1>15. ASSUME NEW s \in Stream, StreamDies(s) PROVE StreamInv'
  BY <1>15 DEF StreamDies
<1>16. ASSUME NEW b \in Bind, Answering(b) \/ \E p \in Port : BindArrives(b, p)
       PROVE  UNCHANGED proxyVars
  BY <1>16 DEF Answering, CheckHeld, LockReserve, Encode, Decode, Fail, BindArrives, proxyVars
<1>17. ASSUME NEW c \in RConn, SetReserveConn(c) \/ reserveLoop(c)
       PROVE  UNCHANGED proxyVars
  BY <1>17 DEF SetReserveConn, reserveLoop, proxyVars
<1>18. ASSUME MacReplies \/ MacSessionEnds \/ \E ans \in Answer : handleReserve(ans)
       PROVE  UNCHANGED proxyVars
  BY <1>18 DEF MacReplies, MacSessionEnds, handleReserve, proxyVars
<1>19. ASSUME UNCHANGED gatewayVars PROVE UNCHANGED proxyVars
  BY <1>19 DEF gatewayVars
<1> QED
  BY <1>1, <1>2, <1>3, <1>4, <1>5, <1>6, <1>7, <1>8, <1>9, <1>10, <1>11, <1>12,
     <1>13, <1>14, <1>15, <1>16, <1>17, <1>18, <1>19
  DEF GatewayNext

-----------------------------------------------------------------------------
(* The reservations. *)

(* What a queue with room for one message gives.                           *)
LEMMA OneMessage ==
  ASSUME NEW S, NEW e \in S
  PROVE  /\ Append(<<>>, e) = <<e>> /\ Head(<<e>>) = e /\ Tail(<<e>>) = <<>>
         /\ <<e>> # <<>> /\ <<e>> \in AtMostOne(S) /\ <<>> \in AtMostOne(S)
         /\ \A f \in S : <<e>> = <<f>> => e = f
  BY DEF AtMostOne

(* No bind and no conn when the agent starts.                              *)
LEMMA InitReserve == GatewayInit => ReserveInv
  BY GatewayAssumption
  DEF GatewayInit, ReserveInv, BindTypeOK, AtMostOne, Locks, OneRequest, Quiet, Requests, AnswerOwn

(* Every step keeps the reservations in order.                             *)
LEMMA StepReserve == ReserveInv /\ [GatewayNext]_gatewayVars => ReserveInv'
<1> SUFFICES ASSUME ReserveInv, [GatewayNext]_gatewayVars PROVE ReserveInv'
  OBVIOUS
<1> USE GatewayAssumption
<1> USE DEF ReserveInv, BindTypeOK, Locks, OneRequest, Quiet, Requests, AnswerOwn
<1>0. <<>> \in AtMostOne(Bind) /\ <<>> \in AtMostOne(Answer)
  BY DEF AtMostOne
<1>1. ASSUME UNCHANGED <<bindVars, macVars>> PROVE ReserveInv'
  BY <1>1 DEF bindVars, macVars
<1>2. ASSUME NEW b \in Bind, NEW p \in Port, BindArrives(b, p) PROVE ReserveInv'
  BY <1>2 DEF BindArrives, Goto, macVars
<1>3. ASSUME NEW b \in Bind, CheckHeld(b) PROVE ReserveInv'
  BY <1>3 DEF CheckHeld, MayCheck, Goto, macVars
<1>4. ASSUME NEW b \in Bind, LockReserve(b) PROVE ReserveInv'
  BY <1>4 DEF LockReserve, MayLock, Goto, macVars
<1>5. ASSUME NEW b \in Bind, Encode(b) PROVE ReserveInv'
  <2>1. resMu = b /\ resConn \in RConn /\ toMac[resConn] = <<>>
    BY <1>5 DEF Encode
  <2>2. toMac' = [toMac EXCEPT ![resConn] = <<b>>] /\ <<b>> \in AtMostOne(Bind)
    BY <1>5, <2>1, OneMessage DEF Encode
  <2>3. BindTypeOK'
    BY <1>5, <2>1, <2>2 DEF Encode, Goto, macVars
  <2>4. Locks'
    BY <1>5, <2>1, <2>2 DEF Encode, Goto, macVars
  <2>5. OneRequest'
    BY <1>5, <2>1, <2>2 DEF Encode, Goto, macVars
  <2>6. Requests'
    BY <1>5, <2>1, <2>2 DEF Encode, Goto, macVars
  <2>7. AnswerOwn'
    BY <1>5, <2>1, <2>2 DEF Encode, Goto, macVars
  <2> QED
    BY <2>3, <2>4, <2>5, <2>6, <2>7
<1>6. ASSUME NEW b \in Bind, Decode(b) PROVE ReserveInv'
  <2>1. resMu = b /\ resConn \in RConn /\ macSaid[b] \in Answer
        /\ toAgent[resConn] = <<macSaid[b]>> /\ toMac[resConn] = <<>>
    BY <1>6 DEF Decode, AtMostOne
  <2>2. /\ verdict' = [verdict EXCEPT ![b] = macSaid[b]]
        /\ toAgent' = [toAgent EXCEPT ![resConn] = <<>>]
    BY <1>6, <2>1, OneMessage DEF Decode
  <2>3. BindTypeOK'
    BY <1>0, <1>6, <2>1, <2>2 DEF Decode, Goto, macVars
  <2>4. Locks'
    BY <1>6, <2>1, <2>2, OneMessage DEF Decode, Goto, macVars
  <2>5. OneRequest'
    BY <1>6, <2>1, <2>2, OneMessage DEF Decode, Goto, macVars
  <2>6. Requests'
    <3>1. ASSUME NEW d \in RConn, toMac[d] = <<b>> PROVE FALSE
      <4>1. bindPc[b] = "decode"
        BY <1>6 DEF Decode
      <4>2. d = resConn
        BY <3>1, <4>1
      <4> QED
        BY <2>1, <3>1, <4>2
    <3>2. /\ bindPc' = [bindPc EXCEPT ![b] = "done"] /\ verdict' = [verdict EXCEPT ![b] = macSaid[b]]
          /\ UNCHANGED <<toMac, rstate, resConn, macSaid>>
      BY <1>6, <2>2 DEF Decode, Goto, macVars
    <3> QED
      BY <3>1, <3>2
  <2>7. AnswerOwn'
    BY <1>6, <2>1, <2>2, OneMessage DEF Decode, Goto, macVars
  <2> QED
    BY <2>3, <2>4, <2>5, <2>6, <2>7
<1>7. ASSUME NEW b \in Bind, Fail(b) PROVE ReserveInv'
  <2>3. BindTypeOK'
    BY <1>0, <1>7 DEF Fail, MayFail, Goto, macVars
  <2>4. Locks'
    BY <1>7, OneMessage DEF Fail, MayFail, Goto, macVars
  <2>5. OneRequest'
    BY <1>7, OneMessage DEF Fail, MayFail, Goto, macVars
  <2>6. Requests'
    BY <1>7, OneMessage DEF Fail, MayFail, Goto, macVars
  <2>7. AnswerOwn'
    BY <1>7, OneMessage DEF Fail, MayFail, Goto, macVars
  <2> QED
    BY <2>3, <2>4, <2>5, <2>6, <2>7
<1>8. ASSUME NEW c \in RConn, SetReserveConn(c) PROVE ReserveInv'
  BY <1>8 DEF SetReserveConn, macVars
<1>9. ASSUME NEW c \in RConn, reserveLoop(c) PROVE ReserveInv'
  <2>3. BindTypeOK'
    BY <1>9 DEF reserveLoop
  <2>4. Locks'
    BY <1>9 DEF reserveLoop
  <2>5. OneRequest'
    BY <1>9 DEF reserveLoop
  <2>6. Requests'
    BY <1>9 DEF reserveLoop
  <2>7. AnswerOwn'
    BY <1>9 DEF reserveLoop
  <2> QED
    BY <2>3, <2>4, <2>5, <2>6, <2>7
<1>10. ASSUME NEW ans \in Answer, handleReserve(ans) PROVE ReserveInv'
  <2> PICK b \in Bind : toMac[macSess] = <<b>>
    BY <1>10 DEF handleReserve, AtMostOne
  <2>1. macSess \in RConn
    BY <1>10 DEF handleReserve
  <2>2. /\ macSaid' = [macSaid EXCEPT ![b] = ans]
        /\ toMac' = [toMac EXCEPT ![macSess] = <<>>]
    BY <1>10, <2>1, OneMessage DEF handleReserve
  <2>3. BindTypeOK'
    BY <1>0, <1>10, <2>1, <2>2 DEF handleReserve
  <2>4. Locks'
    BY <1>10, <2>1, <2>2, OneMessage DEF handleReserve
  <2>5. OneRequest'
    BY <1>10, <2>1, <2>2, OneMessage DEF handleReserve
  <2>6. Requests'
    BY <1>10, <2>1, <2>2, OneMessage DEF handleReserve
  <2>7. AnswerOwn'
    BY <1>10, <2>1, <2>2, OneMessage DEF handleReserve
  <2> QED
    BY <2>3, <2>4, <2>5, <2>6, <2>7
<1>11. ASSUME MacReplies PROVE ReserveInv'
  <2>1. macSess \in RConn /\ macReply \in Answer /\ macSess = resConn
        /\ resMu \in Bind /\ bindPc[resMu] = "decode" /\ macReply = macSaid[resMu]
        /\ toAgent[macSess] = <<>>
    BY <1>11 DEF MacReplies
  <2>2. toAgent' = [toAgent EXCEPT ![macSess] = <<macReply>>]
    BY <1>11, <2>1, OneMessage DEF MacReplies
  <2> QED
    BY <1>11, <2>1, <2>2, OneMessage DEF MacReplies
<1>12. ASSUME MacSessionEnds PROVE ReserveInv'
  BY <1>12 DEF MacSessionEnds, bindVars
<1>13. ASSUME NEW x \in Proxy,
              \/ AddMacPort(x) \/ Datagram(x) \/ Ensure(x) \/ DialFails(x)
              \/ WriteFrame(x) \/ ReaderDrop(x) \/ \E s \in Stream : DialOK(x, s)
       PROVE  UNCHANGED <<bindVars, macVars>>
  BY <1>13 DEF AddMacPort, Datagram, Ensure, DialFails, WriteFrame, ReaderDrop, Drop, DialOK
<1>14. ASSUME NEW s \in Stream, PumpErr(s) \/ PumpDrop(s) \/ StreamDies(s)
       PROVE  UNCHANGED <<bindVars, macVars>>
  BY <1>14 DEF PumpErr, PumpDrop, Drop, StreamDies
<1>15. ASSUME RemoveMacPort \/ CloseMark \/ CloseConns \/ \E p \in Port : SyncTcp(p)
       PROVE  UNCHANGED <<bindVars, macVars>>
  BY <1>15 DEF RemoveMacPort, CloseMark, CloseConns, SyncTcp
<1>16. ASSUME UNCHANGED gatewayVars PROVE UNCHANGED <<bindVars, macVars>>
  BY <1>16 DEF gatewayVars
<1> QED
  BY <1>1, <1>2, <1>3, <1>4, <1>5, <1>6, <1>7, <1>8, <1>9, <1>10, <1>11, <1>12,
     <1>13, <1>14, <1>15, <1>16
  DEF GatewayNext, Answering

-----------------------------------------------------------------------------
(* The inductive invariant holds in every reachable state.                 *)
THEOREM GatewayInvariance == GatewaySpec => []GatewayInv
<1>1. GatewayInit => GatewayInv
  BY InitStream, InitReserve DEF GatewayInv
<1>2. GatewayInv /\ [GatewayNext]_gatewayVars => GatewayInv'
  BY StepStream, StepReserve DEF GatewayInv
<1> QED
  BY <1>1, <1>2, PTL DEF GatewaySpec

(* A bind that goes ahead, or is refused on the Mac's word, got the answer *)
(* to its own request (reserve.go ReservePort): replies carry no id, so    *)
(* this rests on the conn being closed when a request is given up.         *)
THEOREM OwnAnswer == GatewaySpec => []AnswerOwn
<1>1. GatewayInv => AnswerOwn
  BY DEF GatewayInv, ReserveInv
<1> QED
  BY <1>1, GatewayInvariance, PTL

(* No order of write errors, read errors, re-activation and Close leaves a *)
(* reverse stream open with nobody to use or close it (udpstream.go).      *)
THEOREM NoneStray == GatewaySpec => []NoStrayStream
<1>1. GatewayInv => NoStrayStream
  BY DEF GatewayInv, StreamInv
<1> QED
  BY <1>1, GatewayInvariance, PTL

(* A bind that is not answered yet can go on, or the one whose call it      *)
(* waits for can: whatever holds a.mu or p.mu, and whether or not the Mac  *)
(* replies (reserve.go ReservePort, macPortHeld).  It rests on resMu being *)
(* held by a bind in its call, which has a deadline.                       *)
THEOREM BindsGoOn == GatewaySpec => []BindNeverBlocked
<1>1. GatewayInv => BindNeverBlocked
  BY GatewayAssumption
  DEF GatewayInv, ReserveInv, BindTypeOK, Locks, BindNeverBlocked, MayMove, MayCheck, MayLock, MayFail
<1> QED
  BY <1>1, GatewayInvariance, PTL

==============================================================================
