------------------------------ MODULE MacSync -------------------------------
(***************************************************************************)
(* The sync of the Mac's listeners into the guest: the Mac daemon's poller *)
(* ('M' sessions of internal/macsync/sync.go) and the agent that keeps the *)
(* gateway's mac_ports (internal/agent/macsync.go, agent.go).              *)
(*                                                                         *)
(* The Mac has one session at a time; the agent may run the goroutines of  *)
(* several, since a session the Mac has given up lives on until its        *)
(* connection is closed, times out or is kicked by a newer one.            *)
(***************************************************************************)
EXTENDS Naturals, Sequences

CONSTANTS Listener,   \* Mac listeners after normalize: (proto, port, addr)
          Key,        \* (proto, port)
          KeyOf,      \* KeyOf[l]: the key of listener l
          Preset,     \* keys that were registered through the control socket
          Harness,    \* the entry of such a key
          Session,    \* identities of connections, used again when both ends let go
          Outcomes,   \* what AddMacPort may answer: {TRUE} or {TRUE, FALSE}
          MaxWire,    \* bound: how many events fit between the two ends
          MaxFaults,  \* bound: Mac listeners that change, polls and links that fail
          None

ASSUME KeyAssumption == KeyOf \in [Listener -> Key] /\ Preset \subseteq Key
ASSUME OutcomesAssumption == Outcomes \in SUBSET BOOLEAN
ASSUME BoundsAssumption == MaxWire \in Nat \ {0} /\ MaxFaults \in Nat
ASSUME NoneAssumption ==
  None \notin Session /\ None \notin Listener /\ Harness \notin Listener /\ None # Harness

VARIABLES
  \* the Mac
  mac,        \* what a poll of the Mac's listeners returns
  cur,        \* the connection of the Mac's session, or None
  pc,         \* where the session is
  sent,       \* last, and the part of cur - last that has been encoded already
  target,     \* the poll that is being encoded
  advertised, \* s.advertised
  faults,     \* changes, failed polls and cut links so far
  \* connections
  wire,       \* wire[c]: encoded, not yet decoded
  cut,        \* connections that deliver nothing any more, in silence
  macShut,    \* connections the Mac has closed
  kicked,     \* connections a newer session of the agent has closed
  \* the agent
  phase,      \* phase[c]: where serveMacSync is
  syncConn,   \* a.syncConn
  reg,        \* a.mac and mac_ports: the listener a key is registered for
  owned,      \* a.syncOwned
  told,       \* history: told[c]: the listeners session c of the agent was told of
  lapsed      \* history: keys it was told of whose add failed, or that a del of
              \* another address of the port took away

macVars == <<mac, cur, pc, sent, target, advertised, faults>>
agentVars == <<phase, syncConn, reg, owned, told, lapsed, kicked>>
vars == <<macVars, wire, cut, macShut, agentVars>>

Snapshot(S) == [op |-> "snapshot", all |-> S]
Edit(op, l) == [op |-> op, l |-> l]
Event == [op : {"snapshot"}, all : SUBSET Listener]
         \cup [op : {"add", "del"}, l : Listener]
Phase == {"gone", "dialled", "waiting", "locked", "serving", "clearing"}

KeysOf(S) == {KeyOf[l] : l \in S}

TypeOK ==
  /\ mac \in SUBSET Listener /\ cur \in Session \cup {None}
  /\ pc \in {"down", "dialled", "sending", "ticking"}
  /\ sent \in SUBSET Listener /\ target \in SUBSET Listener
  /\ advertised \in SUBSET Key /\ faults \in 0..MaxFaults
  /\ wire \in [Session -> Seq(Event)]
  /\ cut \in SUBSET Session /\ macShut \in SUBSET Session /\ kicked \in SUBSET Session
  /\ phase \in [Session -> Phase]
  /\ syncConn \in Session \cup {None}
  /\ reg \in [Key -> Listener \cup {None, Harness}]
  /\ owned \in SUBSET Key /\ told \in [Session -> SUBSET Listener]
  /\ lapsed \in SUBSET Key

\* Run primes the advertised set before anything is parked.
Init ==
  /\ mac \in SUBSET Listener /\ advertised = KeysOf(mac)
  /\ cur = None /\ pc = "down" /\ sent = {} /\ target = {} /\ faults = 0
  /\ wire = [c \in Session |-> <<>>]
  /\ cut = {} /\ macShut = {} /\ kicked = {}
  /\ phase = [c \in Session |-> "gone"] /\ syncConn = None
  /\ reg = [k \in Key |-> IF k \in Preset THEN Harness ELSE None]
  /\ owned = {} /\ told = [c \in Session |-> {}] /\ lapsed = {}

-----------------------------------------------------------------------------
(* The Mac *)

\* Something outside goes wrong or changes, a bounded number of times.
Fault == faults < MaxFaults /\ faults' = faults + 1

\* A Mac program opens or closes a listener, or the mirror's exclusion of it
\* starts or ends.
MacChange(l) ==
  /\ Fault
  /\ mac' = IF l \in mac THEN mac \ {l} ELSE mac \cup {l}
  /\ UNCHANGED <<cur, pc, sent, target, advertised, wire, cut, macShut, agentVars>>

\* The session dials and both proofs are verified; the agent's goroutine for
\* the connection is about to run serveMacSync.
Dial(c) ==
  /\ cur = None /\ phase[c] = "gone"
  /\ cur' = c /\ pc' = "dialled"
  /\ phase' = [phase EXCEPT ![c] = "dialled"]
  /\ wire' = [wire EXCEPT ![c] = <<>>]
  /\ cut' = cut \ {c} /\ macShut' = macShut \ {c} /\ kicked' = kicked \ {c}
  /\ told' = [told EXCEPT ![c] = {}]
  /\ UNCHANGED <<mac, sent, target, advertised, faults, syncConn, reg, owned, lapsed>>

\* enc.Encode.  A connection that is dead without the Mac knowing swallows ev;
\* a full one blocks the write.
Encode(ev) ==
  /\ Len(wire[cur]) < MaxWire
  /\ wire' = IF cur \in cut \cup kicked \/ phase[cur] = "gone"
               THEN wire ELSE [wire EXCEPT ![cur] = Append(@, ev)]

SendSnapshot ==
  /\ pc = "dialled"
  /\ Encode(Snapshot(mac))
  /\ sent' = mac /\ target' = mac /\ pc' = "sending"
  /\ UNCHANGED <<mac, cur, advertised, faults, cut, macShut, agentVars>>

\* Mutant: the tick diffs against the poll, not against what was sent.
Diffed_Forgotten == mac \cup sent

\* What a tick brings the guest up to.
Diffed == mac

\* A tick polls; the dels and then the adds, if any, are encoded one by one.
Tick ==
  /\ pc = "ticking"
  /\ target' = Diffed /\ pc' = "sending"
  /\ UNCHANGED <<mac, cur, sent, advertised, faults, wire, cut, macShut, agentVars>>

SendDel(l) ==
  /\ pc = "sending" /\ l \in sent \ target
  /\ Encode(Edit("del", l))
  /\ sent' = sent \ {l}
  /\ UNCHANGED <<mac, cur, pc, target, advertised, faults, cut, macShut, agentVars>>

SendAdd(l) ==
  /\ pc = "sending" /\ sent \subseteq target /\ l \in target \ sent
  /\ Encode(Edit("add", l))
  /\ sent' = sent \cup {l}
  /\ UNCHANGED <<mac, cur, pc, target, advertised, faults, cut, macShut, agentVars>>

\* setAdvertised, after the last event of the tick.
Publish ==
  /\ pc = "sending" /\ sent = target
  /\ advertised' = KeysOf(target) /\ pc' = "ticking"
  /\ UNCHANGED <<mac, cur, sent, target, faults, wire, cut, macShut, agentVars>>

\* session returns and closes the connection.
MacReturns ==
  /\ macShut' = macShut \cup {cur}
  /\ cur' = None /\ pc' = "down" /\ sent' = {} /\ target' = {}
  /\ UNCHANGED <<mac, advertised, wire, cut, agentVars>>

\* A write fails or peerClosed fires: the connection is gone.
MacNotices ==
  /\ cur # None
  /\ cur \in cut \cup kicked \/ phase[cur] = "gone"
  /\ ~(pc = "sending" /\ sent = target)
  /\ MacReturns /\ UNCHANGED faults

\* currentSet fails.
PollFails == pc \in {"dialled", "ticking"} /\ Fault /\ MacReturns

\* The link of c dies without a word; of what was under way a part may arrive.
Cut(c) ==
  /\ Fault
  /\ phase[c] # "gone" /\ c \notin cut
  /\ cut' = cut \cup {c}
  /\ \E n \in 0..Len(wire[c]) : wire' = [wire EXCEPT ![c] = SubSeq(@, 1, n)]
  /\ UNCHANGED <<mac, cur, pc, sent, target, advertised, macShut, agentVars>>

-----------------------------------------------------------------------------
(* serveMacSync *)

\* The session that syncConn names is closed, if there is one.
Kick(c) ==
  /\ phase[c] = "dialled"
  /\ phase' = [phase EXCEPT ![c] = "waiting"]
  /\ kicked' = kicked \cup ({syncConn} \ {None})
  /\ UNCHANGED <<macVars, wire, cut, macShut, syncConn, reg, owned, told, lapsed>>

Holding(c) == phase[c] \in {"locked", "serving", "clearing"}

\* Mutant: sessions do not exclude each other.
Unlocked_Always == TRUE

\* syncSession is free.
Unlocked == \A d \in Session : ~Holding(d)

Lock(c) ==
  /\ phase[c] = "waiting" /\ Unlocked
  /\ phase' = [phase EXCEPT ![c] = "locked"]
  /\ UNCHANGED <<macVars, wire, cut, macShut, kicked, syncConn, reg, owned, told, lapsed>>

Install(c) ==
  /\ phase[c] = "locked"
  /\ phase' = [phase EXCEPT ![c] = "serving"]
  /\ syncConn' = c
  /\ UNCHANGED <<macVars, wire, cut, macShut, kicked, reg, owned, told, lapsed>>

\* RemoveMacPort of every key of K.
Removed(K) == [k \in Key |-> IF k \in K THEN None ELSE reg[k]]

\* syncOwned after AddMacPort was tried and succeeded for some.
OwnedAfter(added, tried) == owned \cup added

\* addSyncPort: a key that is registered is left alone.
AddSyncPort(l) ==
  LET tried == {KeyOf[l]} \cap {k \in Key : reg[k] = None} IN
  \E ok \in Outcomes :
    LET added == IF ok THEN tried ELSE {} IN
    /\ reg' = [k \in Key |-> IF k \in added THEN l ELSE reg[k]]
    /\ owned' = OwnedAfter(added, tried)
    /\ lapsed' = (lapsed \ added) \cup (tried \ added)

\* The keys of K that the sync registered.
Ours(K) == K \cap owned

\* delSyncPort: whatever the address, the port goes.
DelSyncPort(l, others) ==
  /\ reg' = Removed(Ours({KeyOf[l]}))
  /\ owned' = owned \ Ours({KeyOf[l]})
  /\ lapsed' = lapsed \cup ({KeyOf[l]} \cap KeysOf(others))

\* applySyncSnapshot: of several addresses of a port, one is registered.
SyncSnapshot(S) ==
  LET stale == owned \ KeysOf(S)
      free == {k \in Key : Removed(stale)[k] = None} IN
  \E added \in SUBSET (KeysOf(S) \cap free) :
    /\ FALSE \notin Outcomes => added = KeysOf(S) \cap free
    /\ \E pick \in [added -> S] :
         /\ \A k \in added : KeyOf[pick[k]] = k
         /\ reg' = [k \in Key |-> IF k \in added THEN pick[k] ELSE Removed(stale)[k]]
    /\ owned' = (owned \ stale) \cup added
    /\ lapsed' = (KeysOf(S) \cap free) \ added

\* One event is decoded and applied.
Receive(c) ==
  /\ phase[c] = "serving" /\ c \notin kicked /\ wire[c] # <<>>
  /\ LET ev == Head(wire[c]) IN
       \/ /\ ev.op = "snapshot" /\ SyncSnapshot(ev.all)
          /\ told' = [told EXCEPT ![c] = ev.all]
       \/ /\ ev.op = "add" /\ AddSyncPort(ev.l)
          /\ told' = [told EXCEPT ![c] = @ \cup {ev.l}]
       \/ /\ ev.op = "del" /\ DelSyncPort(ev.l, told[c] \ {ev.l})
          /\ told' = [told EXCEPT ![c] = @ \ {ev.l}]
  /\ wire' = [wire EXCEPT ![c] = Tail(@)]
  /\ UNCHANGED <<macVars, cut, macShut, kicked, phase, syncConn>>

\* Mutant: reads have no deadline.
Dead_NoDeadline(c) == c \in kicked \/ (wire[c] = <<>> /\ c \in macShut \ cut)

\* The decode fails: the connection was kicked, or is at its end, or silent for
\* syncReadTimeout (a living Mac pings every 10 s).
Dead(c) == c \in kicked \/ (wire[c] = <<>> /\ c \in macShut \cup cut)

\* Mutant: the entries outlive the session.
Dropped_None == {}

\* removeSyncOwned
Dropped == owned

ReadFails(c) ==
  /\ phase[c] = "serving" /\ Dead(c)
  /\ reg' = Removed(Dropped) /\ owned' = owned \ Dropped
  /\ phase' = [phase EXCEPT ![c] = "clearing"]
  /\ UNCHANGED <<macVars, wire, cut, macShut, kicked, syncConn, told, lapsed>>

\* syncConn is cleared, the lock released and the connection closed.
Unlock(c) ==
  /\ phase[c] = "clearing"
  /\ phase' = [phase EXCEPT ![c] = "gone"]
  /\ syncConn' = IF syncConn = c THEN None ELSE syncConn
  /\ UNCHANGED <<macVars, wire, cut, macShut, kicked, reg, owned, told, lapsed>>

-----------------------------------------------------------------------------

MacStep ==
  \/ SendSnapshot \/ Tick \/ Publish \/ MacNotices
  \/ \E l \in Listener : SendDel(l) \/ SendAdd(l)
AgentStep(c) ==
  Kick(c) \/ Lock(c) \/ Install(c) \/ Receive(c) \/ ReadFails(c) \/ Unlock(c)
Faulty ==
  \/ \E l \in Listener : MacChange(l)
  \/ PollFails
  \/ \E c \in Session : Cut(c)

Next ==
  \/ \E c \in Session : Dial(c) \/ AgentStep(c)
  \/ MacStep
  \/ Faulty

Spec == Init /\ [][Next]_vars

(***************************************************************************)
(* The goroutines of both ends run, the Mac redials every second, and the  *)
(* read deadline and failed writes end dead connections.  The Mac's select *)
(* between the tick and peerClosed is fair to the latter: strong fairness. *)
(***************************************************************************)
FairSpec ==
  /\ Spec
  /\ WF_vars(MacStep) /\ SF_vars(MacNotices) /\ WF_vars(\E c \in Session : Dial(c))
  /\ \A c \in Session : WF_vars(AgentStep(c))

-----------------------------------------------------------------------------
(* Properties *)

(* Loopback traffic of the guest is steered to the Mac only for a listener *)
(* that the session being served has announced and not taken back: never   *)
(* on the word of an earlier session, nor after the session has ended.     *)
NoStaleSteering ==
  \A k \in Key : reg[k] \in Listener =>
    \E c \in Session : phase[c] = "serving" /\ reg[k] \in told[c] /\ KeyOf[reg[k]] = k

(* What the sync owns is what it registered: a failed add leaves no claim, *)
(* and neither events nor the cleanup touch the control socket's entries.  *)
OwnershipExact ==
  /\ owned = {k \in Key : reg[k] \in Listener}
  /\ \A k \in Preset : reg[k] = Harness

(* The agent "keeps mac_ports plus the per-port gateway proxies in step":  *)
(* a port that the session has announced and not taken back is registered. *)
(* In particular the cleanup of an earlier session never undoes a later    *)
(* one's snapshot.  The code gives it up in two cases only: the add of the *)
(* port failed, or the port has two addresses and a del of one came.       *)
InStep ==
  \A c \in Session : phase[c] = "serving" =>
    \A k \in KeysOf(told[c]) \ lapsed : reg[k] # None

(* Between two ticks, once the agent has read what was sent, both ends     *)
(* agree: the guest steers to the Mac, short of those two cases, exactly   *)
(* the ports the Mac admits flows to, and what the control socket has set. *)
EndsAgree ==
  pc = "ticking" /\ cur \notin cut \cup kicked /\ phase[cur] = "serving" /\ wire[cur] = <<>>
    => \A k \in Key \ lapsed : reg[k] # None <=> k \in Preset \cup advertised

(* A session of the Mac is served or ends: no stale session keeps it       *)
(* waiting for the lock for good, not even one that the kick missed.       *)
EventuallyServed ==
  \A c \in Session : cur = c ~> (phase[c] = "serving" \/ cur # c)

(* Once the Mac's listeners, polls and links are left in peace the guest   *)
(* steers exactly the Mac's ports, short of those two cases, and the Mac   *)
(* admits exactly its ports.                                               *)
Converges ==
  <>[](/\ advertised = KeysOf(mac)
       /\ \A k \in Key \ lapsed : reg[k] # None <=> k \in Preset \cup KeysOf(mac))

(* Why the safety properties hold: one session holds the lock, entries     *)
(* exist only while it serves, and a snapshot is the first thing a session *)
(* is told.                                                                *)
IInv ==
  /\ TypeOK /\ NoStaleSteering /\ OwnershipExact
  /\ \A c, d \in Session : Holding(c) /\ Holding(d) => c = d
  /\ pc = "down" <=> cur = None
  /\ pc = "dialled" => wire[cur] = <<>> /\ told[cur] = {}
  /\ \A c \in Session : \A i \in 1..Len(wire[c]) :
       wire[c][i].op = "snapshot" => i = 1 /\ told[c] = {}

(* What InStep needs beyond that: a session that does not serve yet has    *)
(* been told nothing.                                                      *)
ToldLater == \A c \in Session : phase[c] \in {"dialled", "waiting", "locked"} => told[c] = {}

(* What EndsAgree needs: what is under way on a living connection leads    *)
(* from what the agent was told to what the Mac has sent.                  *)
After(ev, S) == IF ev.op = "snapshot" THEN ev.all
                ELSE IF ev.op = "add" THEN S \cup {ev.l} ELSE S \ {ev.l}
Leads(q, S, T) ==
  \E h \in [0..Len(q) -> SUBSET Listener] :
    h[0] = S /\ h[Len(q)] = T /\ \A i \in 1..Len(q) : h[i] = After(q[i], h[i - 1])
UnderWay ==
  /\ cur \notin macShut
  /\ pc = "ticking" => advertised = KeysOf(sent)
  /\ \A k \in Key : reg[k] = Harness => k \in Preset
  /\ cur # None /\ cur \notin cut \cup kicked =>
       /\ phase[cur] \notin {"clearing", "gone"}
       /\ pc # "dialled" => Leads(wire[cur], told[cur], sent)
=============================================================================
