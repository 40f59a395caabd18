----------------------------- MODULE TrackerHub -----------------------------
(***************************************************************************)
(* The guest agent's listener hub and the 'E' sessions it feeds            *)
(* (internal/agent/tracker.go, serveEvents in transport.go), with the      *)
(* reading end of the one Mac client (internal/mirror session).            *)
(*                                                                         *)
(* The hub keeps the set of guest listeners.  Each session has a bounded   *)
(* channel, primed with a snapshot under the hub's lock; every change is   *)
(* put on every channel under the same lock, and a channel that is full is *)
(* closed rather than skipped.  Sessions of a client that is long gone     *)
(* linger until a write fails, next to the session of its new connection.  *)
(***************************************************************************)
EXTENDS Naturals, Sequences

CONSTANTS Listener,   \* guest listeners: (proto, port, addr)
          Noise,      \* those in the UDP autobind range
          Session,    \* identities of serveEvents calls; reused once returned
          Cap,        \* capacity of a session's channel (256)
          None        \* no session

ASSUME NoiseAssumption == Noise \subseteq Listener
ASSUME CapAssumption == Cap \in Nat \ {0}
ASSUME NoneAssumption == None \notin Session

VARIABLES
  set,      \* h.set
  subs,     \* h.subs: the sessions whose channel is registered
  ch,       \* ch[s]: what is buffered in the channel of session s
  closed,   \* sessions whose channel the hub has closed
  live,     \* sessions whose serveEvents runs
  wire,     \* wire[s]: the event being encoded, until the client applies it
  client,   \* the session whose connection the Mac client reads, or None
  up,       \* the client has applied this session's snapshot
  view      \* the listener set the client has built from the events

vars == <<set, subs, ch, closed, live, wire, client, up, view>>

Snapshot(S) == [op |-> "snapshot", all |-> S]
Edit(op, l) == [op |-> op, l |-> l]
Edits == [op : {"add", "del"}, l : Listener]
Event == [op : {"snapshot"}, all : SUBSET Listener] \cup Edits

TypeOK ==
  /\ set \in SUBSET (Listener \ Noise)
  /\ subs \in SUBSET Session
  /\ ch \in [Session -> Seq(Event)]
  /\ \A s \in Session : Len(ch[s]) <= Cap
  /\ closed \in SUBSET Session
  /\ live \in SUBSET Session
  /\ wire \in [Session -> Seq(Event)]
  /\ \A s \in Session : Len(wire[s]) <= 1
  /\ client \in Session \cup {None}
  /\ up \in BOOLEAN
  /\ view \in SUBSET Listener

Init ==
  /\ set = {} /\ subs = {} /\ closed = {} /\ live = {}
  /\ ch = [s \in Session |-> <<>>]
  /\ wire = [s \in Session |-> <<>>]
  /\ client = None /\ up = FALSE /\ view = {}

-----------------------------------------------------------------------------
(* The hub *)

\* eventWorthy
EventWorthy(l) == l \notin Noise

Full(s) == Len(ch[s]) >= Cap

\* Mutant: an event for a full channel is dropped.
Overflowed_Dropped == {}

\* The subscribers whose channel is full: they are closed and unregistered.
Overflowed == {s \in subs : Full(s)}
StillSubscribed == subs \ Overflowed

\* Under the lock, one event goes to every channel that has room for it.
Publish(ev) ==
  /\ ch' = [s \in Session |->
              IF s \in subs /\ ~Full(s) THEN Append(ch[s], ev) ELSE ch[s]]
  /\ subs' = StillSubscribed
  /\ closed' = closed \cup Overflowed
  /\ UNCHANGED <<live, wire, client, up, view>>

\* apply does nothing for an add of what is there or a del of what is not.
IsNews(op, l) == (op = "add") <=> (l \notin set)

\* One record off the ring buffer.
Apply(op, l) ==
  /\ EventWorthy(l)
  /\ IsNews(op, l)
  /\ set' = IF op = "add" THEN set \cup {l} ELSE set \ {l}
  /\ Publish(Edit(op, l))

-----------------------------------------------------------------------------
(* serveEvents *)

\* The channel a subscription starts with.
Primed == <<Snapshot(set)>>

\* The client dials, the agent's dispatch calls serveEvents, and Subscribe
\* registers the primed channel under the lock.
Subscribe(s) ==
  /\ client = None
  /\ s \notin live
  /\ live' = live \cup {s}
  /\ subs' = subs \cup {s}
  /\ ch' = [ch EXCEPT ![s] = Primed]
  /\ closed' = closed \ {s}
  /\ wire' = [wire EXCEPT ![s] = <<>>]
  /\ client' = s
  /\ UNCHANGED <<set, up, view>>

\* The select takes the next event off the channel and starts to encode it.
Receive(s) ==
  /\ s \in live
  /\ wire[s] = <<>>
  /\ ch[s] # <<>>
  /\ wire' = [wire EXCEPT ![s] = <<Head(ch[s])>>]
  /\ ch' = [ch EXCEPT ![s] = Tail(ch[s])]
  /\ UNCHANGED <<set, subs, closed, live, client, up, view>>

\* The deferred cancel and close when serveEvents returns.
Return(s) ==
  /\ live' = live \ {s}
  /\ subs' = subs \ {s}
  /\ UNCHANGED <<set, ch, closed, wire, client, up, view>>

\* Mutant: the receive does not notice the closed channel.
ClosedOut_Missed(s) == FALSE

\* A closed channel delivers what it still buffers, then !ok.
ClosedOut(s) == s \in closed /\ ch[s] = <<>>

SessionClosedOut(s) ==
  /\ s \in live
  /\ wire[s] = <<>>
  /\ ClosedOut(s)
  /\ Return(s)

\* Writing an event or a ping to a connection the client has left fails.
SessionFail(s) ==
  /\ s \in live
  /\ client # s
  /\ Return(s)

\* A write to such a connection may also still be accepted by the kernel.
Swallow(s) ==
  /\ s \in live
  /\ client # s
  /\ wire[s] # <<>>
  /\ wire' = [wire EXCEPT ![s] = <<>>]
  /\ UNCHANGED <<set, subs, ch, closed, live, client, up, view>>

-----------------------------------------------------------------------------
(* The Mac client's session loop *)

\* What the client's set is after it has applied ev.
Applied(ev, S) ==
  CASE ev.op = "snapshot" -> ev.all
    [] ev.op = "add"      -> S \cup {ev.l}
    [] OTHER              -> S \ {ev.l}

\* The client decodes the event and reconciles, adds or deletes.
Deliver(s) ==
  /\ client = s
  /\ s \in live
  /\ wire[s] # <<>>
  /\ view' = Applied(Head(wire[s]), view)
  /\ up' = TRUE
  /\ wire' = [wire EXCEPT ![s] = <<>>]
  /\ UNCHANGED <<set, subs, ch, closed, live, client>>

\* Mutant: the mirrors of the lost session stay.
ClientEnds_NoCloseAll ==
  /\ client' = None
  /\ up' = FALSE
  /\ UNCHANGED <<set, subs, ch, closed, live, wire, view>>

\* The decode fails: the session is over and closeAll drops every mirror.
ClientEnds ==
  /\ client' = None
  /\ up' = FALSE
  /\ view' = {}
  /\ UNCHANGED <<set, subs, ch, closed, live, wire>>

ClientEOF == client # None /\ client \notin live /\ ClientEnds

\* The connection breaks under the client (sleep, VM restart, daemon restart).
ClientBreak == client # None /\ ClientEnds

-----------------------------------------------------------------------------

ApplySome == \E op \in {"add", "del"}, l \in Listener : Apply(op, l)
SessionStep(s) ==
  Receive(s) \/ SessionClosedOut(s) \/ SessionFail(s) \/ Swallow(s)

Next ==
  \/ ApplySome
  \/ \E s \in Session : Subscribe(s) \/ SessionStep(s) \/ Deliver(s)
  \/ ClientEOF
  \/ ClientBreak

Spec == Init /\ [][Next]_vars

(***************************************************************************)
(* The agent's goroutines run, a write to a dead connection fails in the   *)
(* end (the 15 s ping sees to it), a live connection delivers, and the     *)
(* client keeps redialing.  Nothing is assumed of the guest's listeners    *)
(* or of the network.                                                      *)
(***************************************************************************)
Fairness ==
  /\ \A s \in Session :
       /\ WF_vars(Receive(s)) /\ WF_vars(SessionClosedOut(s))
       /\ WF_vars(SessionFail(s)) /\ WF_vars(Deliver(s))
  /\ WF_vars(ClientEOF)
  /\ WF_vars(\E s \in Session : Subscribe(s))

FairSpec == Spec /\ Fairness

-----------------------------------------------------------------------------
(* Properties *)

\* What session s still has to tell its client, oldest first.
Pipeline(s) == wire[s] \o ch[s]

\* ev takes a view from S to T as an edit of it.
Legal(ev, S, T) ==
  \/ ev.op = "snapshot" /\ T = ev.all
  \/ ev.op = "add" /\ ev.l \notin S /\ T = S \cup {ev.l}
  \/ ev.op = "del" /\ ev.l \in S /\ T = S \ {ev.l}

\* The events q lead from S to T, each one an edit of the view before it.
Leads(q, S, T) ==
  \E h \in [0..Len(q) -> SUBSET Listener] :
    /\ h[0] = S
    /\ h[Len(q)] = T
    /\ \A i \in 1..Len(q) : Legal(q[i], h[i - 1], h[i])

(* No event is lost or overtaken on the way to a subscribed client: what   *)
(* its session has still to tell it leads from its view to the hub's set,  *)
(* by way of adds of absent and dels of present listeners only.            *)
NoEventLost ==
  client \in subs => Leads(Pipeline(client), view, set)

(* A session the hub has cut off is never sent to again (a send on a       *)
(* closed channel panics), and a running session that is not subscribed    *)
(* was cut off, so that it ends and the client reconnects.                 *)
CutOffEnds ==
  /\ subs \cap closed = {}
  /\ live \ subs \subseteq closed

(* Once the guest's listeners stop changing and the network stops breaking *)
(* connections, the client's view becomes the guest's set and stays so,    *)
(* however many events overflowed before.                                  *)
Converges ==
  (<>[][~ApplySome]_vars /\ <>[][~ClientBreak]_vars)
    => <>[](up /\ view = set)

(* Why the above hold.  The client's session may have been cut off: what   *)
(* it buffers then still reads as edits, up to some earlier set.           *)
ClientQueue(s) ==
  \E T \in SUBSET Listener :
    /\ Leads(Pipeline(s), view, T)
    /\ s \in subs => T = set
SnapshotFirst(s) ==
  /\ ~up => Pipeline(s) # <<>>
  /\ \A i \in 1..Len(Pipeline(s)) :
       Pipeline(s)[i].op = "snapshot" <=> (~up /\ i = 1)
IInv ==
  /\ TypeOK /\ CutOffEnds
  /\ subs \subseteq live
  /\ client = None => ~up
  /\ ~up => view = {}
  /\ client \in live => ClientQueue(client) /\ SnapshotFirst(client)

\* The client's view, as the feed the mirror is written against.
F == INSTANCE Feed WITH Listener <- Listener, up <- up, view <- view

(* The hub, its bounded channels and its reconnecting sessions implement   *)
(* the feed: a snapshot first, then only true edits of the client's view.  *)
ImplementsFeed == F!FeedSpec
=============================================================================
