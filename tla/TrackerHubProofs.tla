-------------------------- MODULE TrackerHubProofs --------------------------
(* Proofs that no event is lost on its way to a subscribed client and that *)
(* the hub implements the feed, for every set of listeners and sessions    *)
(* and every channel capacity.                                             *)
EXTENDS TrackerHub, SequenceTheorems, TLAPS

(* One more edit at the end of a queue leads one edit further.             *)
LEMMA LeadsAppend ==
  ASSUME NEW q \in Seq(Event), NEW e \in Event,
         NEW S \in SUBSET Listener, NEW T \in SUBSET Listener,
         NEW U \in SUBSET Listener,
         Leads(q, S, T), Legal(e, T, U)
  PROVE  Leads(Append(q, e), S, U)
<1>1. PICK h \in [0..Len(q) -> SUBSET Listener] :
        /\ h[0] = S /\ h[Len(q)] = T
        /\ \A i \in 1..Len(q) : Legal(q[i], h[i - 1], h[i])
  BY DEF Leads
<1> DEFINE p == Append(q, e)
           g == [i \in 0..Len(p) |-> IF i <= Len(q) THEN h[i] ELSE U]
<1>2. Len(q) \in Nat /\ Len(p) = Len(q) + 1
  BY AppendProperties, LenProperties
<1>3. \A i \in 1..Len(q) : p[i] = q[i]
  BY AppendProperties
<1>4. p[Len(q) + 1] = e
  BY AppendProperties
<1>5. g \in [0..Len(p) -> SUBSET Listener]
  BY <1>1, <1>2
<1>6. g[0] = S /\ g[Len(p)] = U
  BY <1>1, <1>2
<1>7. ASSUME NEW i \in 1..Len(p) PROVE Legal(p[i], g[i - 1], g[i])
  <2>1. CASE i \in 1..Len(q)
    <3>1. g[i - 1] = h[i - 1] /\ g[i] = h[i]
      BY <1>2, <2>1
    <3> QED
      BY <1>1, <1>3, <2>1, <3>1
  <2>2. CASE i = Len(q) + 1
    <3>1. g[i - 1] = T /\ g[i] = U
      BY <1>1, <1>2, <2>2
    <3> QED
      BY <1>4, <2>2, <3>1
  <2> QED
    BY <1>2, <2>1, <2>2
<1> HIDE DEF g, p
<1>8. Leads(p, S, U)
  BY <1>5, <1>6, <1>7 DEF Leads
<1> QED
  BY <1>8 DEF p

(* The first event of a queue is an edit of the view, and the rest leads   *)
(* on from there.                                                          *)
LEMMA LeadsFirst ==
  ASSUME NEW e \in Event, NEW q \in Seq(Event),
         NEW S \in SUBSET Listener, NEW T \in SUBSET Listener,
         Leads(<<e>> \o q, S, T)
  PROVE  \E R \in SUBSET Listener : Legal(e, S, R) /\ Leads(q, R, T)
<1> DEFINE p == <<e>> \o q
<1>1. Len(q) \in Nat /\ Len(p) = Len(q) + 1
  BY ConcatProperties, LenProperties
<1>2. p[1] = e /\ \A i \in 1..Len(q) : p[i + 1] = q[i]
  BY ConcatProperties, LenProperties
<1>3. PICK h \in [0..Len(p) -> SUBSET Listener] :
        /\ h[0] = S /\ h[Len(p)] = T
        /\ \A i \in 1..Len(p) : Legal(p[i], h[i - 1], h[i])
  BY DEF Leads
<1> DEFINE g == [i \in 0..Len(q) |-> h[i + 1]]
<1> HIDE DEF p
<1>4. g \in [0..Len(q) -> SUBSET Listener]
  BY <1>1, <1>3
<1>5. g[0] = h[1] /\ g[Len(q)] = T
  BY <1>1, <1>3
<1>6. ASSUME NEW i \in 1..Len(q) PROVE Legal(q[i], g[i - 1], g[i])
  <2>1. g[i - 1] = h[i] /\ g[i] = h[i + 1]
    BY <1>1
  <2>2. Legal(p[i + 1], h[(i + 1) - 1], h[i + 1])
    <3>1. i + 1 \in 1..Len(p)
      BY <1>1
    <3> QED
      BY <1>3, <3>1
  <2>3. (i + 1) - 1 = i
    OBVIOUS
  <2> QED
    BY <1>2, <2>1, <2>2, <2>3
<1>7. Leads(q, h[1], T)
  <2> HIDE DEF g
  <2> QED
    BY <1>4, <1>5, <1>6 DEF Leads
<1>8. h[1] \in SUBSET Listener
  BY <1>1, <1>3
<1>9. Legal(p[1], h[1 - 1], h[1])
  <2>1. 1 \in 1..Len(p)
    BY <1>1
  <2> QED
    BY <1>3, <2>1
<1>10. Legal(e, S, h[1])
  BY <1>2, <1>3, <1>9
<1> QED
  BY <1>7, <1>8, <1>10

(* An empty queue leads nowhere.                                           *)
LEMMA LeadsEmpty ==
  ASSUME NEW S \in SUBSET Listener
  PROVE  Leads(<<>>, S, S)
<1> DEFINE h == [i \in 0..0 |-> S]
<1>1. Len(<<>>) = 0
  OBVIOUS
<1>2. h \in [0..0 -> SUBSET Listener] /\ h[0] = S
  OBVIOUS
<1> HIDE DEF h
<1>3. \A i \in 1..0 : Legal(<<>>[i], h[i - 1], h[i])
  OBVIOUS
<1> QED
  BY <1>1, <1>2, <1>3 DEF Leads

(* Appending to the second of two queues appends to both together.         *)
LEMMA ConcatAppend ==
  ASSUME NEW S, NEW a \in Seq(S), NEW b \in Seq(S), NEW e \in S
  PROVE  a \o Append(b, e) = Append(a \o b, e)
<1>1. Append(b, e) = b \o <<e>> /\ <<e>> \in Seq(S)
  BY AppendIsConcat
<1>2. a \o b \in Seq(S)
  BY ConcatProperties
<1>3. Append(a \o b, e) = (a \o b) \o <<e>>
  BY <1>2, AppendIsConcat
<1>4. (a \o b) \o <<e>> = a \o (b \o <<e>>)
  BY <1>1, ConcatAssociative
<1> QED
  BY <1>1, <1>3, <1>4

(* What a session has to tell is a queue of events.                        *)
LEMMA PipelineType ==
  ASSUME TypeOK, NEW s \in Session
  PROVE  /\ ch[s] \in Seq(Event) /\ wire[s] \in Seq(Event)
         /\ Pipeline(s) \in Seq(Event)
  BY ConcatProperties DEF TypeOK, Pipeline

\* The part of the inductive invariant about the client's session.
ClientPart == client \in live => ClientQueue(client) /\ SnapshotFirst(client)

(* A step that leaves the client, its view and its queue alone, and the    *)
(* set unless the session is cut off, keeps that part.                     *)
LEMMA ClientPartKept ==
  ASSUME ClientPart, live' \subseteq live, subs' \subseteq subs,
         client' = client, up' = up, view' = view,
         client \in live' => Pipeline(client)' = Pipeline(client),
         client \in subs' => set' = set
  PROVE  ClientPart'
  BY DEF ClientPart, ClientQueue, SnapshotFirst

(* Publishing keeps it: an open channel gets the edit, a full one is cut   *)
(* off.                                                                    *)
LEMMA ClientPartApply ==
  ASSUME IInv, NEW op \in {"add", "del"}, NEW l \in Listener, Apply(op, l)
  PROVE  ClientPart'
<1> USE DEF ClientPart
<1>0. /\ UNCHANGED <<live, wire, client, up, view>>
      /\ subs' = subs \ Overflowed
  BY DEF Apply, Publish, StillSubscribed
<1>1. CASE client \in live /\ client \in subs /\ ~Full(client)
  <2> DEFINE e == Edit(op, l)
  <2>1. client \in Session /\ TypeOK /\ subs \subseteq live
    BY <1>1 DEF IInv, TypeOK
  <2>2. e \in Event /\ e.op = op /\ e.l = l
    BY DEF Edit, Event, Edits
  <2>3. ch'[client] = Append(ch[client], e)
    BY <1>1, <2>1 DEF Apply, Publish
  <2>4. Pipeline(client)' = Append(Pipeline(client), e)
    <3>1. ch[client] \in Seq(Event) /\ wire[client] \in Seq(Event)
      BY <2>1, PipelineType
    <3> DEFINE b == ch[client]
               a == wire[client]
    <3>2. e \in Event
      BY <2>2
    <3> HIDE DEF e, a, b
    <3>3. a \in Seq(Event) /\ b \in Seq(Event)
      BY <3>1 DEF a, b
    <3>4. a \o Append(b, e) = Append(a \o b, e)
      BY <3>2, <3>3, ConcatAppend
    <3> QED
      BY <1>0, <2>3, <3>4 DEF Pipeline, a, b
  <2>5. Leads(Pipeline(client), view, set)
    BY <1>1 DEF IInv, ClientQueue
  <2>6. Legal(e, set, set')
    BY <2>2 DEF Legal, Apply, IsNews
  <2>7. set \in SUBSET Listener /\ set' \in SUBSET Listener
        /\ view \in SUBSET Listener
    BY <2>1 DEF TypeOK, Apply
  <2> HIDE DEF e
  <2>8. Leads(Append(Pipeline(client), e), view, set')
    BY <2>1, <2>2, <2>5, <2>6, <2>7, PipelineType, LeadsAppend
  <2>9. ClientQueue(client)'
    BY <1>0, <2>4, <2>7, <2>8 DEF ClientQueue
  <2>10. SnapshotFirst(client)'
    <3> DEFINE q == Pipeline(client)
    <3>1. q \in Seq(Event) /\ Len(q) \in Nat
      BY <2>1, PipelineType, LenProperties
    <3>2. SnapshotFirst(client)
      BY <1>1 DEF IInv
    <3>3. ~up => Len(q) > 0
      BY <3>1, <3>2, EmptySeq DEF SnapshotFirst
    <3>4. /\ Len(Append(q, e)) = Len(q) + 1
          /\ \A i \in 1..Len(q) : Append(q, e)[i] = q[i]
          /\ Append(q, e)[Len(q) + 1] = e
      BY <2>2, <3>1, AppendProperties
    <3>5. e.op # "snapshot"
      BY <2>2
    <3> HIDE DEF q
    <3>6. ASSUME NEW i \in 1..Len(Append(q, e))
          PROVE  Append(q, e)[i].op = "snapshot" <=> (~up /\ i = 1)
      <4>1. CASE i \in 1..Len(q)
        BY <3>2, <3>4, <4>1 DEF SnapshotFirst, q
      <4>2. CASE i = Len(q) + 1
        BY <3>1, <3>3, <3>4, <3>5, <4>2
      <4> QED
        BY <3>1, <3>4, <4>1, <4>2
    <3>7. Append(q, e) # <<>>
      BY <3>1, <3>4, EmptySeq
    <3> QED
      BY <1>0, <2>4, <3>6, <3>7 DEF SnapshotFirst, q
  <2> QED
    BY <1>0, <2>9, <2>10
<1>2. CASE client \in live /\ ~(client \in subs /\ ~Full(client))
  <2>1. client \in Session
    BY <1>2 DEF IInv, TypeOK
  <2>2. Pipeline(client)' = Pipeline(client)
    BY <1>0, <1>2, <2>1 DEF Apply, Publish, Pipeline
  <2>3. client \notin subs'
    BY <1>0, <1>2 DEF Overflowed
  <2> QED
    BY <1>0, <2>2, <2>3, ClientPartKept DEF IInv
<1>3. CASE client \notin live
  BY <1>0, <1>3
<1> QED
  BY <1>1, <1>2, <1>3

(* A fresh subscription's queue is the snapshot of the hub's set.          *)
LEMMA ClientPartSubscribe ==
  ASSUME IInv, NEW s \in Session, Subscribe(s)
  PROVE  ClientPart'
<1> DEFINE e == Snapshot(set)
<1>1. e \in Event /\ e.op = "snapshot" /\ e.all = set /\ set \in SUBSET Listener
  BY DEF IInv, TypeOK, Snapshot, Event, Edits
<1>2. ~up /\ view = {} /\ UNCHANGED <<set, up, view>> /\ client' = s
  BY DEF IInv, Subscribe
<1>3. wire'[s] = <<>> /\ ch'[s] = <<e>>
  BY DEF IInv, TypeOK, Subscribe, Primed
<1> HIDE DEF e
<1>4. <<>> \o <<e>> = <<e>>
  BY <1>1, ConcatEmptySeq
<1>5. Pipeline(s)' = <<e>>
  BY <1>3, <1>4 DEF Pipeline
<1>6. Leads(Append(<<>>, e), {}, set)
  <2>1. Leads(<<>>, {}, {}) /\ Legal(e, {}, set)
    BY <1>1, LeadsEmpty DEF Legal
  <2>2. <<>> \in Seq(Event)
    OBVIOUS
  <2> QED
    BY <1>1, <2>1, <2>2, LeadsAppend
<1>7. Append(<<>>, e) = <<e>>
  OBVIOUS
<1>8. ClientQueue(s)'
  BY <1>1, <1>2, <1>5, <1>6, <1>7 DEF ClientQueue
<1>9. SnapshotFirst(s)'
  BY <1>1, <1>2, <1>5 DEF SnapshotFirst
<1> QED
  BY <1>2, <1>8, <1>9 DEF ClientPart

(* The client applies the oldest event of its session.                     *)
LEMMA DeliverFacts ==
  ASSUME IInv, NEW s \in Session, Deliver(s)
  PROVE  /\ ClientPart'
         /\ view' \in SUBSET Listener
         /\ \E S \in SUBSET Listener :
              Legal(Head(wire[s]), view, S) /\ view' = S
         /\ Head(wire[s]) \in Event
         /\ Head(wire[s]).op = "snapshot" <=> ~up
<1> DEFINE e == Head(wire[s])
           c == ch[s]
<1>1. TypeOK /\ client = s /\ s \in live /\ wire[s] # <<>> /\ Len(wire[s]) <= 1
  BY DEF IInv, TypeOK, Deliver
<1>2. c \in Seq(Event) /\ wire[s] \in Seq(Event)
  BY <1>1, PipelineType
<1>3. wire[s] = <<e>> /\ e \in Event
  BY <1>1, <1>2
<1>4. Pipeline(s) = <<e>> \o c
  BY <1>3 DEF Pipeline
<1>5. wire'[s] = <<>> /\ ch' = ch /\ <<>> \o c = c
  BY <1>1, <1>2, ConcatEmptySeq DEF Deliver, TypeOK
<1>6. Pipeline(s)' = c
  BY <1>5 DEF Pipeline
<1>7. view' = Applied(e, view) /\ up' = TRUE /\ UNCHANGED <<set, subs, client, live>>
  BY DEF Deliver
<1>8. ClientQueue(s) /\ SnapshotFirst(s)
  BY <1>1 DEF IInv
<1> HIDE DEF e, c
<1>9. PICK T \in SUBSET Listener :
        Leads(<<e>> \o c, view, T) /\ (s \in subs => T = set)
  BY <1>4, <1>8 DEF ClientQueue
<1>10. view \in SUBSET Listener
  BY <1>1 DEF TypeOK
<1>11. PICK R \in SUBSET Listener : Legal(e, view, R) /\ Leads(c, R, T)
  BY <1>2, <1>3, <1>9, <1>10, LeadsFirst
<1>12. view' = R
  BY <1>7, <1>11 DEF Legal, Applied
<1>13. ClientQueue(s)'
  <2>1. Leads(Pipeline(s)', view', T)
    BY <1>6, <1>11, <1>12
  <2>2. s \in subs' => T = set'
    BY <1>7, <1>9
  <2> QED
    BY <2>1, <2>2 DEF ClientQueue
<1>14. /\ Len(<<e>> \o c) = Len(c) + 1
       /\ Len(c) \in Nat
       /\ (<<e>> \o c)[1] = e
       /\ \A i \in 1..Len(c) : (<<e>> \o c)[i + 1] = c[i]
  BY <1>2, <1>3, ConcatProperties, LenProperties
<1> DEFINE p == <<e>> \o c
<1>15. \A i \in 1..Len(p) : p[i].op = "snapshot" <=> (~up /\ i = 1)
  BY <1>4, <1>8 DEF SnapshotFirst
<1> HIDE DEF p
<1>16. SnapshotFirst(s)'
  <2> SUFFICES ASSUME NEW i \in 1..Len(c)
               PROVE  c[i].op # "snapshot"
    BY <1>6, <1>7 DEF SnapshotFirst
  <2>1. i + 1 \in 1..Len(p) /\ i + 1 # 1 /\ p[i + 1] = c[i]
    BY <1>14 DEF p
  <2> QED
    BY <1>15, <2>1
<1>17. e.op = "snapshot" <=> ~up
  <2>1. 1 \in 1..Len(p) /\ p[1] = e
    BY <1>14 DEF p
  <2> QED
    BY <1>15, <2>1
<1>18. ClientPart'
  BY <1>1, <1>7, <1>13, <1>16 DEF ClientPart
<1> QED
  BY <1>3, <1>11, <1>12, <1>17, <1>18 DEF e

(* Every step keeps the inductive invariant.                               *)
LEMMA StepIInv == IInv /\ [Next]_vars => IInv'
<1> SUFFICES ASSUME IInv, [Next]_vars PROVE IInv'
  OBVIOUS
<1> DEFINE Rest == /\ TypeOK /\ CutOffEnds
                   /\ subs \subseteq live
                   /\ client = None => ~up
                   /\ ~up => view = {}
<1>r. Rest /\ ClientPart
  BY DEF IInv, ClientPart
<1> USE DEF CutOffEnds
<1>1. ASSUME NEW op \in {"add", "del"}, NEW l \in Listener, Apply(op, l)
      PROVE  Rest' /\ ClientPart'
  <2>1. ClientPart'
    BY <1>1, ClientPartApply
  <2>2. Edit(op, l) \in Event
    BY DEF Edit, Event, Edits
  <2>3. ch' \in [Session -> Seq(Event)] /\ \A s \in Session : Len(ch'[s]) <= Cap
    <3>1. ch' = [s \in Session |-> IF s \in subs /\ ~Full(s)
                                     THEN Append(ch[s], Edit(op, l)) ELSE ch[s]]
      BY <1>1 DEF Apply, Publish
    <3>2. ASSUME NEW s \in Session
          PROVE  ch'[s] \in Seq(Event) /\ Len(ch'[s]) <= Cap
      <4> DEFINE c == ch[s]
      <4>1. c \in Seq(Event) /\ Len(c) <= Cap /\ Len(c) \in Nat
        BY <1>r, LenProperties DEF TypeOK
      <4>2. CASE s \in subs /\ ~Full(s)
        <5>1. ch'[s] = Append(c, Edit(op, l)) /\ Len(c) < Cap
          BY <3>1, <4>1, <4>2, CapAssumption DEF Full
        <5> HIDE DEF c
        <5>2. Append(c, Edit(op, l)) \in Seq(Event)
              /\ Len(Append(c, Edit(op, l))) = Len(c) + 1
          BY <2>2, <4>1, AppendProperties
        <5> QED
          BY <4>1, <5>1, <5>2, CapAssumption
      <4>3. CASE ~(s \in subs /\ ~Full(s))
        BY <3>1, <4>1, <4>3
      <4> QED
        BY <4>2, <4>3
    <3> QED
      BY <3>1, <3>2
  <2>4. TypeOK'
    BY <1>r, <1>1, <2>3
    DEF TypeOK, Apply, EventWorthy, Publish, StillSubscribed, Overflowed
  <2> QED
    BY <1>r, <1>1, <2>1, <2>4 DEF Apply, Publish, StillSubscribed, Overflowed
<1>2. ASSUME NEW s \in Session, Subscribe(s)
      PROVE  Rest' /\ ClientPart'
  <2>1. ClientPart'
    BY <1>2, ClientPartSubscribe
  <2>2. <<Snapshot(set)>> \in Seq(Event) /\ Len(<<Snapshot(set)>>) = 1
    <3>1. Snapshot(set) \in Event
      BY <1>r DEF TypeOK, Snapshot, Event
    <3> QED
      BY <3>1
  <2>3. TypeOK'
    BY <1>r, <1>2, <2>2, CapAssumption DEF TypeOK, Subscribe, Primed
  <2> QED
    BY <1>r, <1>2, <2>1, <2>3, NoneAssumption DEF Subscribe
<1>3. ASSUME NEW s \in Session, Receive(s)
      PROVE  Rest' /\ ClientPart'
  <2> DEFINE c == ch[s]
  <2>1. c \in Seq(Event) /\ c # <<>> /\ wire[s] = <<>> /\ Len(c) <= Cap
    BY <1>r, <1>3 DEF Receive, TypeOK
  <2>2. ch'[s] = Tail(c) /\ wire'[s] = <<Head(c)>>
        /\ \A t \in Session \ {s} : ch'[t] = ch[t] /\ wire'[t] = wire[t]
    BY <1>r, <1>3 DEF Receive, TypeOK
  <2> HIDE DEF c
  <2>3. /\ Head(c) \in Event /\ Tail(c) \in Seq(Event)
        /\ Len(c) \in Nat /\ Len(Tail(c)) = Len(c) - 1
    BY <2>1, HeadTailProperties, LenProperties
  <2>4. <<Head(c)>> \o Tail(c) = c
    BY <2>1, <2>3
  <2>5. <<>> \o c = c
    BY <2>1, ConcatEmptySeq
  <2>6. Pipeline(s)' = Pipeline(s)
    BY <2>1, <2>2, <2>4, <2>5 DEF Pipeline, c
  <2>7. client \in live => Pipeline(client)' = Pipeline(client)
    BY <1>r, <1>3, <2>2, <2>6 DEF TypeOK, Pipeline, Receive
  <2>8. ClientPart'
    BY <1>r, <1>3, <2>7, ClientPartKept DEF Receive
  <2>9. TypeOK'
    <3>1. ch' \in [Session -> Seq(Event)] /\ wire' \in [Session -> Seq(Event)]
      BY <1>r, <1>3, <2>3 DEF TypeOK, Receive, c
    <3>2. \A t \in Session : Len(ch'[t]) <= Cap
      <4>1. Len(ch'[s]) <= Cap
        BY <2>1, <2>2, <2>3, CapAssumption
      <4>2. \A t \in Session \ {s} : Len(ch'[t]) <= Cap
        BY <1>r, <2>2 DEF TypeOK
      <4> QED
        BY <4>1, <4>2
    <3>3. \A t \in Session : Len(wire'[t]) <= 1
      <4>1. Len(wire'[s]) <= 1
        BY <2>2
      <4>2. \A t \in Session \ {s} : Len(wire'[t]) <= 1
        BY <1>r, <2>2 DEF TypeOK
      <4> QED
        BY <4>1, <4>2
    <3> QED
      BY <1>r, <1>3, <3>1, <3>2, <3>3 DEF TypeOK, Receive
  <2> QED
    BY <1>r, <1>3, <2>8, <2>9 DEF Receive
<1>4. ASSUME NEW s \in Session, SessionClosedOut(s) \/ SessionFail(s)
      PROVE  Rest' /\ ClientPart'
  <2>1. Return(s)
    BY <1>4 DEF SessionClosedOut, SessionFail
  <2>2. Rest'
    BY <1>r, <2>1 DEF Return, TypeOK
  <2>3. Pipeline(client)' = Pipeline(client)
    BY <2>1 DEF Return, Pipeline
  <2> QED
    BY <1>r, <2>1, <2>2, <2>3, ClientPartKept DEF Return
<1>5. ASSUME NEW s \in Session, Swallow(s)
      PROVE  Rest' /\ ClientPart'
  <2>1. Rest'
    BY <1>r, <1>5 DEF Swallow, TypeOK
  <2>2. client \in live => Pipeline(client)' = Pipeline(client)
    BY <1>r, <1>5 DEF Swallow, Pipeline, TypeOK
  <2> QED
    BY <1>r, <1>5, <2>1, <2>2, ClientPartKept DEF Swallow
<1>6. ASSUME NEW s \in Session, Deliver(s)
      PROVE  Rest' /\ ClientPart'
  <2>1. ClientPart' /\ view' \in SUBSET Listener
    BY <1>6, DeliverFacts
  <2>2. TypeOK'
    BY <1>r, <1>6, <2>1 DEF Deliver, TypeOK
  <2> QED
    BY <1>r, <1>6, <2>1, <2>2, NoneAssumption DEF Deliver
<1>7. ASSUME ClientEOF \/ ClientBreak
      PROVE  Rest' /\ ClientPart'
  <2>1. ClientEnds
    BY <1>7 DEF ClientEOF, ClientBreak
  <2>2. client' \notin live'
    BY <1>r, <2>1, NoneAssumption DEF ClientEnds, TypeOK
  <2> QED
    BY <1>r, <2>1, <2>2 DEF ClientEnds, TypeOK, ClientPart
<1>8. ASSUME UNCHANGED vars
      PROVE  Rest' /\ ClientPart'
  <2>1. Rest'
    BY <1>r, <1>8 DEF vars, TypeOK
  <2>2. Pipeline(client)' = Pipeline(client)
    BY <1>8 DEF vars, Pipeline
  <2> QED
    BY <1>r, <1>8, <2>1, <2>2, ClientPartKept DEF vars
<1>9. Rest' /\ ClientPart'
  BY <1>1, <1>2, <1>3, <1>4, <1>5, <1>6, <1>7, <1>8
  DEF Next, ApplySome, SessionStep
<1> QED
  BY <1>9 DEF IInv, ClientPart

(* The initial state satisfies the inductive invariant.                    *)
LEMMA InitIInv == Init => IInv
<1> SUFFICES ASSUME Init PROVE IInv
  OBVIOUS
<1>1. <<>> \in Seq(Event) /\ Len(<<>>) = 0
  OBVIOUS
<1>2. ch \in [Session -> Seq(Event)] /\ wire \in [Session -> Seq(Event)]
  BY <1>1 DEF Init
<1>3. \A s \in Session : Len(ch[s]) <= Cap /\ Len(wire[s]) <= 1
  BY <1>1, CapAssumption DEF Init
<1>4. TypeOK
  BY <1>2, <1>3 DEF Init, TypeOK
<1> QED
  BY <1>4, NoneAssumption DEF Init, IInv, CutOffEnds

(* The inductive invariant holds in every reachable state.                 *)
THEOREM Invariance == Spec => []IInv
  BY InitIInv, StepIInv, PTL DEF Spec

(* No event is lost, reordered or duplicated on its way to a client that   *)
(* is subscribed.                                                          *)
THEOREM NothingLost == Spec => []NoEventLost
<1>1. IInv => NoEventLost
  BY DEF IInv, NoEventLost, ClientQueue
<1> QED
  BY <1>1, Invariance, PTL

(* A session that is cut off is never sent to and always ends.             *)
THEOREM CutOff == Spec => [](TypeOK /\ CutOffEnds)
<1>1. IInv => TypeOK /\ CutOffEnds
  BY DEF IInv
<1> QED
  BY <1>1, Invariance, PTL

(* Each step of the hub is a step of the feed or leaves the client alone.  *)
LEMMA StepRefines ==
  IInv /\ [Next]_vars => [F!FeedNext]_(F!feedVars)
<1> SUFFICES ASSUME IInv, [Next]_vars PROVE [F!FeedNext]_(F!feedVars)
  OBVIOUS
<1>1. CASE \E s \in Session : Deliver(s)
  <2> PICK s \in Session : Deliver(s)
    BY <1>1
  <2> DEFINE e == Head(wire[s])
  <2>1. PICK S \in SUBSET Listener : Legal(e, view, S) /\ view' = S
    BY DeliverFacts
  <2>2. e \in Event /\ (e.op = "snapshot" <=> ~up) /\ up' = TRUE /\ up \in BOOLEAN
    BY DeliverFacts DEF Deliver, IInv, TypeOK
  <2> HIDE DEF e
  <2>3. CASE e.op = "snapshot"
    BY <2>1, <2>2, <2>3 DEF F!FeedNext, F!FeedSnapshot
  <2>4. CASE e.op # "snapshot"
    <3>1. e.l \in Listener /\ up = TRUE
      BY <2>2, <2>4 DEF Event, Edits
    <3>2. F!FeedAdd(e.l) \/ F!FeedDel(e.l)
      BY <2>1, <2>2, <2>4, <3>1 DEF Legal, F!FeedAdd, F!FeedDel
    <3> QED
      BY <3>1, <3>2 DEF F!FeedNext
  <2> QED
    BY <2>3, <2>4
<1>2. CASE ClientEOF \/ ClientBreak
  BY <1>2 DEF ClientEOF, ClientBreak, ClientEnds, F!FeedNext, F!FeedDrop
<1>3. CASE UNCHANGED <<up, view>>
  BY <1>3 DEF F!feedVars
<1> QED
  BY <1>1, <1>2, <1>3 DEF Next, ApplySome, Apply, Publish, Subscribe,
     SessionStep, Receive, SessionClosedOut, SessionFail, Swallow, Return, vars

(* The hub with its sessions implements the feed: its client sees one      *)
(* snapshot per session and then nothing but true edits of its view.       *)
THEOREM RefinesFeed == Spec => ImplementsFeed
<1>1. Init => F!FeedInit
  BY DEF Init, F!FeedInit
<1> QED
  BY <1>1, Invariance, StepRefines, PTL DEF Spec, ImplementsFeed, F!FeedSpec
=============================================================================
