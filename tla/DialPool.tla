------------------------------ MODULE DialPool ------------------------------
(***************************************************************************)
(* The guest agent's pool of parked Mac reverse-stream ('D') connections   *)
(* (internal/agent/dialpool.go).                                           *)
(*                                                                         *)
(* The Mac parks connections in advance; a gateway proxy pops one per      *)
(* accepted flow.  Each parked connection has a watchdog goroutine blocked *)
(* in a one-byte read; a pop must stop it before it uses the connection.   *)
(* Every section the code runs under p.mu is one action; what it does      *)
(* between two lock sections is an action of its own, because other        *)
(* goroutines run in between.                                              *)
(***************************************************************************)
EXTENDS Naturals, Sequences, FiniteSets

CONSTANTS Conn,       \* identities of 'D' connections; reused once closed
          Popper,     \* goroutines that call pop, one call at a time
          PoolCap,    \* poolCap: the most connections that may be parked
          MaxDeaths,  \* bound: connections that die on the Mac's side
          None        \* no connection

ASSUME PoolCapAssumption == PoolCap \in Nat \ {0}
ASSUME MaxDeathsAssumption == MaxDeaths \in Nat
ASSUME NoneAssumption == None \notin Conn \cup Popper
ASSUME ConnFinite == IsFiniteSet(Conn)

VARIABLES
  conns,      \* p.conns: the parked connections
  waiters,    \* p.waiters: pops queued for a connection, oldest first
  closed,     \* p.closed
  where,      \* where[c]: the life of connection c, see ConnStates
  handTo,     \* handTo[c]: the pop whose channel park will send c to
  chan,       \* chan[w]: what sits in the one-slot channel of w's current pop
  watch,      \* watch[c]: the watchdog goroutine, see WatchStates
  handoff,    \* connections whose entry has handoff set
  bad,        \* connections whose entry has bad set
  poked,      \* connections whose read deadline is in the past
  gone,       \* connections whose peer has closed (the FIN has arrived)
  pc,         \* pc[w]: where the pop call of w is
  held,       \* held[w]: the connection pop w works on or returned
  deaths,     \* how many connections have died
  diedParked, \* history: connections that died while they were parked
  stranded,   \* history: connections sent to a pop that had given up
  late        \* history: connections whose probe ran out before its read

vars == <<conns, waiters, closed, where, handTo, chan, watch, handoff, bad,
          poked, gone, pc, held, deaths, diedParked, stranded, late>>

(***************************************************************************)
(* A connection is not connected ("mac"), accepted and about to be parked  *)
(* ("arrived"), promised to a waiter whose channel it is not in yet        *)
(* ("handing"), parked ("pool"), or taken out by a pop ("out").            *)
(***************************************************************************)
ConnStates == {"mac", "arrived", "handing", "pool", "out"}
WatchStates == {"off", "reading", "timeout", "eof"}
PopStates == {"idle", "call", "taken", "poked", "wait", "expired",
              "recheck", "got", "err"}

TypeOK ==
  /\ conns \in SUBSET Conn
  /\ waiters \in Seq(Popper)
  /\ closed \in BOOLEAN
  /\ where \in [Conn -> ConnStates]
  /\ handTo \in [Conn -> Popper \cup {None}]
  /\ chan \in [Popper -> Conn \cup {None}]
  /\ watch \in [Conn -> WatchStates]
  /\ handoff \in SUBSET Conn
  /\ bad \in SUBSET Conn
  /\ poked \in SUBSET Conn
  /\ gone \in SUBSET Conn
  /\ pc \in [Popper -> PopStates]
  /\ held \in [Popper -> Conn \cup {None}]
  /\ deaths \in Nat
  /\ diedParked \in SUBSET Conn /\ stranded \in SUBSET Conn /\ late \in SUBSET Conn

Init ==
  /\ conns = {}
  /\ waiters = <<>>
  /\ closed = FALSE
  /\ where = [c \in Conn |-> "mac"]
  /\ handTo = [c \in Conn |-> None]
  /\ chan = [w \in Popper |-> None]
  /\ watch = [c \in Conn |-> "off"]
  /\ handoff = {} /\ bad = {} /\ poked = {} /\ gone = {}
  /\ pc = [w \in Popper |-> "idle"]
  /\ held = [w \in Popper |-> None]
  /\ deaths = 0
  /\ diedParked = {} /\ stranded = {} /\ late = {}

-----------------------------------------------------------------------------
(* The Mac's side.                                                         *)

\* The Mac dials a fresh connection and the agent's dispatch is about to park
\* it.  An identity is reused only once its last watchdog has returned.
MacDial(c) ==
  /\ where[c] = "mac" /\ watch[c] = "off"
  /\ where' = [where EXCEPT ![c] = "arrived"]
  /\ handoff' = handoff \ {c} /\ bad' = bad \ {c} /\ poked' = poked \ {c}
  /\ gone' = gone \ {c} /\ diedParked' = diedParked \ {c} /\ late' = late \ {c}
  /\ UNCHANGED <<conns, waiters, closed, handTo, chan, watch, pc, held, deaths, stranded>>

\* The Mac goes away: the FIN of c (or a junk byte) reaches the agent's socket.
MacDies(c) ==
  /\ where[c] # "mac" /\ c \notin gone
  /\ deaths < MaxDeaths
  /\ gone' = gone \cup {c}
  /\ deaths' = deaths + 1
  /\ diedParked' = IF c \in conns THEN diedParked \cup {c} ELSE diedParked
  /\ UNCHANGED <<conns, waiters, closed, where, handTo, chan, watch, handoff,
                 bad, poked, pc, held, stranded, late>>

-----------------------------------------------------------------------------
(* park *)

ParkFull == closed \/ Cardinality(conns) >= PoolCap

\* A closed or full pool closes the connection.
ParkRefuse(c) ==
  /\ where[c] = "arrived"
  /\ ParkFull
  /\ where' = [where EXCEPT ![c] = "mac"]
  /\ UNCHANGED <<conns, waiters, closed, handTo, chan, watch, handoff, bad,
                 poked, gone, pc, held, deaths, diedParked, stranded, late>>

\* A waiting pop is taken off the queue; the send comes after the unlock.
ParkClaim(c) ==
  /\ where[c] = "arrived"
  /\ ~ParkFull
  /\ waiters # <<>>
  /\ handTo' = [handTo EXCEPT ![c] = Head(waiters)]
  /\ waiters' = Tail(waiters)
  /\ where' = [where EXCEPT ![c] = "handing"]
  /\ UNCHANGED <<conns, closed, chan, watch, handoff, bad, poked, gone, pc,
                 held, deaths, diedParked, stranded, late>>

\* w <- c: the channel has room for one, so the send never blocks, not even
\* when the pop that made the channel has returned (handTo[c] is then None).
ParkDeliver(c) ==
  /\ where[c] = "handing"
  /\ chan' = [w \in Popper |-> IF handTo[c] = w THEN c ELSE chan[w]]
  /\ where' = [where EXCEPT ![c] = "out"]
  /\ handTo' = [handTo EXCEPT ![c] = None]
  /\ stranded' = IF handTo[c] = None THEN stranded \cup {c} ELSE stranded
  /\ UNCHANGED <<conns, waiters, closed, watch, handoff, bad, poked, gone, pc,
                 held, deaths, diedParked, late>>

\* Nobody waits: the connection is parked and its watchdog starts to read.
ParkPool(c) ==
  /\ where[c] = "arrived"
  /\ ~ParkFull
  /\ waiters = <<>>
  /\ conns' = conns \cup {c}
  /\ where' = [where EXCEPT ![c] = "pool"]
  /\ watch' = [watch EXCEPT ![c] = "reading"]
  /\ UNCHANGED <<waiters, closed, handTo, chan, handoff, bad, poked, gone, pc,
                 held, deaths, diedParked, stranded, late>>

-----------------------------------------------------------------------------
(* watch *)

\* The watchdog's read returns: with an end of file when the peer or the pool
\* has closed the connection, with a timeout when a pop poked the deadline.
\* When both are the case the poll layer may report either.
WatchWake(c) ==
  /\ watch[c] = "reading"
  /\ \/ /\ c \in gone \/ where[c] = "mac"
        /\ watch' = [watch EXCEPT ![c] = "eof"]
     \/ /\ c \in poked
        /\ watch' = [watch EXCEPT ![c] = "timeout"]
  /\ UNCHANGED <<conns, waiters, closed, where, handTo, chan, handoff, bad,
                 poked, gone, pc, held, deaths, diedParked, stranded, late>>

\* Mutant: the watchdog does not look at the handoff flag.
HandedOff_Ignored(c) == FALSE

\* handoff := e.handoff
HandedOff(c) == c \in handoff

\* The watchdog's lock section.  Without a handoff the connection leaves the
\* pool and is closed; with one the pop that waits on done decides.
WatchFinish(c) ==
  /\ watch[c] \in {"timeout", "eof"}
  /\ watch' = [watch EXCEPT ![c] = "off"]
  /\ bad' = IF watch[c] = "eof" THEN bad \cup {c} ELSE bad
  /\ IF HandedOff(c)
       THEN UNCHANGED <<conns, where>>
       ELSE /\ conns' = conns \ {c}
            /\ where' = [where EXCEPT ![c] = "mac"]
  /\ UNCHANGED <<waiters, closed, handTo, chan, handoff, poked, gone, pc, held,
                 deaths, diedParked, stranded, late>>

-----------------------------------------------------------------------------
(* pop *)

\* A gateway proxy accepts a flow and calls pop, which makes a new channel.
PopCall(w) ==
  /\ pc[w] = "idle"
  /\ pc' = [pc EXCEPT ![w] = "call"]
  /\ UNCHANGED <<conns, waiters, closed, where, handTo, chan, watch, handoff,
                 bad, poked, gone, held, deaths, diedParked, stranded, late>>

PopClosed(w) ==
  /\ pc[w] = "call" /\ closed
  /\ pc' = [pc EXCEPT ![w] = "err"]
  /\ UNCHANGED <<conns, waiters, closed, where, handTo, chan, watch, handoff,
                 bad, poked, gone, held, deaths, diedParked, stranded, late>>

\* Some parked connection is taken out and marked as handed off.
PopTake(w, c) ==
  /\ pc[w] = "call" /\ ~closed
  /\ c \in conns
  /\ handoff' = handoff \cup {c}
  /\ conns' = conns \ {c}
  /\ where' = [where EXCEPT ![c] = "out"]
  /\ held' = [held EXCEPT ![w] = c]
  /\ pc' = [pc EXCEPT ![w] = "taken"]
  /\ UNCHANGED <<waiters, closed, handTo, chan, watch, bad, poked, gone, deaths,
                 diedParked, stranded, late>>

\* The read deadline is put in the past to bring the watchdog out of its read.
PopPoke(w) ==
  /\ pc[w] = "taken"
  /\ poked' = poked \cup {held[w]}
  /\ pc' = [pc EXCEPT ![w] = "poked"]
  /\ UNCHANGED <<conns, waiters, closed, where, handTo, chan, watch, handoff,
                 bad, gone, held, deaths, diedParked, stranded, late>>

\* Mutant: without the probe, a masked FIN goes unseen.
ProbeLive_Missing(c, expired) == TRUE

\* probeLive: a read that reports a FIN already queued on the socket, under a
\* deadline of 200us.  When the goroutine gets to the read too late the poll
\* layer fails it unissued, and the connection passes for live.
ProbeLive(c, expired) == expired \/ c \notin gone

\* <-e.done
WatchDone(c) == watch[c] = "off"

\* The verdict: the connection is returned, or closed and the loop starts over.
PopVerdict(w) ==
  LET c == held[w] IN
  /\ pc[w] = "poked"
  /\ WatchDone(c)
  /\ \E expired \in BOOLEAN :
       IF c \in bad \/ ~ProbeLive(c, expired)
         THEN /\ where' = [where EXCEPT ![c] = "mac"]
              /\ held' = [held EXCEPT ![w] = None]
              /\ pc' = [pc EXCEPT ![w] = "call"]
              /\ UNCHANGED <<poked, late>>
         ELSE /\ poked' = poked \ {c}
              /\ pc' = [pc EXCEPT ![w] = "got"]
              /\ late' = IF expired THEN late \cup {c} ELSE late
              /\ UNCHANGED <<where, held>>
  /\ UNCHANGED <<conns, waiters, closed, handTo, chan, watch, handoff, bad, gone,
                 deaths, diedParked, stranded>>

\* No parked connection was found (e == nil).
PoolEmpty == conns = {}

\* An empty pool: the pop queues up.
PopQueue(w) ==
  /\ pc[w] = "call" /\ ~closed
  /\ PoolEmpty
  /\ waiters' = Append(waiters, w)
  /\ pc' = [pc EXCEPT ![w] = "wait"]
  /\ UNCHANGED <<conns, closed, where, handTo, chan, watch, handoff, bad, poked, gone,
                 held, deaths, diedParked, stranded, late>>

\* The select (or the second, non-blocking one) receives from the channel.
PopReceive(w) ==
  /\ pc[w] \in {"wait", "recheck"}
  /\ chan[w] # None
  /\ held' = [held EXCEPT ![w] = chan[w]]
  /\ chan' = [chan EXCEPT ![w] = None]
  /\ pc' = [pc EXCEPT ![w] = "got"]
  /\ UNCHANGED <<conns, waiters, closed, where, handTo, watch, handoff, bad,
                 poked, gone, deaths, diedParked, stranded, late>>

\* Mutant: the select has no timeout branch.
PopExpire_Missing(w) == FALSE /\ UNCHANGED vars

\* The select takes its timeout branch.
PopExpire(w) ==
  /\ pc[w] = "wait"
  /\ pc' = [pc EXCEPT ![w] = "expired"]
  /\ UNCHANGED <<conns, waiters, closed, where, handTo, chan, watch, handoff,
                 bad, poked, gone, held, deaths, diedParked, stranded, late>>

Among(w, q) == \E i \in 1..Len(q) : q[i] = w
Queued(w) == Among(w, waiters)

WithoutIndex(s, i) == SubSeq(s, 1, i - 1) \o SubSeq(s, i + 1, Len(s))

\* Under the lock, the pop takes itself off the queue if it is still there.
PopDequeue(w) ==
  /\ pc[w] = "expired"
  /\ \/ /\ ~Queued(w)
        /\ UNCHANGED waiters
     \/ \E i \in 1..Len(waiters) :
          /\ waiters[i] = w
          /\ \A j \in 1..(i - 1) : waiters[j] # w
          /\ waiters' = WithoutIndex(waiters, i)
  /\ pc' = [pc EXCEPT ![w] = "recheck"]
  /\ UNCHANGED <<conns, closed, where, handTo, chan, watch, handoff, bad, poked,
                 gone, held, deaths, diedParked, stranded, late>>

\* The non-blocking select finds the channel empty: pop reports a timeout.  A
\* park that has claimed this pop still holds the channel nobody reads now.
PopGiveUp(w) ==
  /\ pc[w] = "recheck"
  /\ chan[w] = None
  /\ pc' = [pc EXCEPT ![w] = "err"]
  /\ handTo' = [c \in Conn |-> IF handTo[c] = w THEN None ELSE handTo[c]]
  /\ UNCHANGED <<conns, waiters, closed, where, chan, watch, handoff, bad,
                 poked, gone, held, deaths, diedParked, stranded, late>>

\* The caller is done with the result: a connection is closed by its splice.
PopDone(w) ==
  /\ pc[w] \in {"got", "err"}
  /\ pc' = [pc EXCEPT ![w] = "idle"]
  /\ held' = [held EXCEPT ![w] = None]
  /\ where' = IF pc[w] = "got" THEN [where EXCEPT ![held[w]] = "mac"] ELSE where
  /\ UNCHANGED <<conns, waiters, closed, handTo, chan, watch, handoff, bad,
                 poked, gone, deaths, diedParked, stranded, late>>

-----------------------------------------------------------------------------

\* close: the pool is marked and emptied, and every parked connection closed;
\* their watchdogs see it as an end of file.
Close ==
  /\ ~closed
  /\ closed' = TRUE
  /\ conns' = {}
  /\ where' = [c \in Conn |-> IF c \in conns THEN "mac" ELSE where[c]]
  /\ UNCHANGED <<waiters, handTo, chan, watch, handoff, bad, poked, gone, pc,
                 held, deaths, diedParked, stranded, late>>

Park(c) == ParkRefuse(c) \/ ParkClaim(c) \/ ParkPool(c)
Watch(c) == WatchWake(c) \/ WatchFinish(c)
Pop(w) ==
  \/ PopClosed(w) \/ (\E c \in Conn : PopTake(w, c)) \/ PopPoke(w)
  \/ PopVerdict(w) \/ PopQueue(w) \/ PopReceive(w) \/ PopExpire(w)
  \/ PopDequeue(w) \/ PopGiveUp(w)

Next ==
  \/ \E c \in Conn : MacDial(c) \/ MacDies(c) \/ Park(c) \/ ParkDeliver(c)
                     \/ Watch(c)
  \/ \E w \in Popper : PopCall(w) \/ Pop(w) \/ PopDone(w)
  \/ Close

Spec == Init /\ [][Next]_vars

(***************************************************************************)
(* The goroutines of the agent keep running and its timers fire; nothing   *)
(* is assumed of the Mac, of callers, or of close.                         *)
(***************************************************************************)
Fairness ==
  /\ \A c \in Conn : WF_vars(Watch(c)) /\ WF_vars(ParkDeliver(c))
  /\ \A w \in Popper : WF_vars(Pop(w))

FairSpec == Spec /\ Fairness

-----------------------------------------------------------------------------
(* Properties *)

(* A parked connection and a queued pop never meet: as long as a flow      *)
(* waits, park hands every connection to a waiter, and a pop queues only   *)
(* when nothing is parked.                                                 *)
NoIdleConn == conns # {} => waiters = <<>>

(* The watchdog of a connection that pop has returned has left its read,   *)
(* so it cannot take the first byte of the backend from the splice.        *)
WatchdogGone ==
  \A w \in Popper : pc[w] = "got" => watch[held[w]] = "off"

\* Pop w works on c or has returned it; or it will find c in its channel.
Holds(w, c) == held[w] = c /\ pc[w] \in {"taken", "poked", "got"}
WillFind(w, c) == chan[w] = c /\ pc[w] \in {"wait", "expired", "recheck"}

(* A connection that has left the pool belongs to one pop: no other pop,   *)
(* channel or pool entry has it, so two flows never share one stream, and  *)
(* some pop returns or closes it.  The one exception is a connection that  *)
(* park sends to a pop which it had claimed and which has given up since:  *)
(* nobody has that one (dialpool.go park, pop).                            *)
SingleOwner ==
  \A c \in Conn :
    /\ \A w \in Popper : Holds(w, c) \/ WillFind(w, c) => where[c] = "out"
    /\ where[c] = "out" =>
         IF c \in stranded
           THEN \A w \in Popper : held[w] # c /\ chan[w] # c
           ELSE \E w \in Popper :
                  /\ Holds(w, c) \/ WillFind(w, c)
                  /\ held[w] # chan[w]
                  /\ \A v \in Popper \ {w} : held[v] # c /\ chan[v] # c

(* A connection that died while it was parked is not returned by pop: the  *)
(* watchdog or the probe catches the FIN the deadline poke masks.  The one *)
(* way through is a watchdog that was poked before it saw the FIN and then *)
(* a probe whose own deadline ran out before its read: what the watchdog   *)
(* has seen is never returned.                                             *)
DeadNotReturned ==
  \A w \in Popper : pc[w] = "got" =>
    held[w] \notin bad /\ (held[w] \in diedParked => held[w] \in late)

(* The pool never holds more than poolCap connections.                     *)
WithinCap == Cardinality(conns) <= PoolCap

(* Why the above hold: where each connection is, who refers to it, and in  *)
(* which of those places its watchdog may still be in its read.            *)
Ownership ==
  /\ \A w \in Popper : (pc[w] \in {"taken", "poked", "got"}) <=> held[w] # None
  /\ \A c \in Conn : c \in conns <=> where[c] = "pool"
  /\ \A w \in Popper : held[w] # None => where[held[w]] = "out"
  /\ \A w \in Popper : chan[w] # None => where[chan[w]] = "out"
  /\ \A v, w \in Popper : chan[v] # None => chan[v] # held[w]
  /\ \A v, w \in Popper : v # w /\ held[v] # None => held[v] # held[w]
  /\ \A v, w \in Popper : v # w /\ chan[v] # None => chan[v] # chan[w]
WatchdogPhase ==
  /\ \A c \in Conn : where[c] \in {"arrived", "handing"} => watch[c] = "off"
  /\ \A c \in Conn : where[c] \in {"arrived", "pool"} => c \notin handoff
  /\ \A c \in Conn : where[c] = "out" => watch[c] = "off" \/ c \in handoff
  /\ \A w \in Popper : chan[w] # None => watch[chan[w]] = "off"
DeathsSeen ==
  /\ diedParked \subseteq gone
  /\ \A c \in Conn : where[c] \in {"arrived", "handing"} => c \notin diedParked \cup bad
  /\ \A w \in Popper : chan[w] # None => chan[w] \notin diedParked \cup bad
Distinct(q) == \A i, j \in 1..Len(q) : q[i] = q[j] => i = j
\* A pop is in the queue once, or claimed by one park, or has its connection,
\* and reads its channel until it gives up; what is out is some pop's.
Promises ==
  /\ Distinct(waiters)
  /\ \A w \in Popper : Queued(w) => pc[w] \in {"wait", "expired"} /\ chan[w] = None
  /\ \A w \in Popper : chan[w] # None => pc[w] \in {"wait", "expired", "recheck"}
  /\ \A c \in Conn : handTo[c] # None =>
       /\ where[c] = "handing" /\ pc[handTo[c]] \in {"wait", "expired", "recheck"}
       /\ chan[handTo[c]] = None /\ ~Queued(handTo[c])
       /\ \A d \in Conn \ {c} : handTo[d] # handTo[c]
Accounted ==
  /\ \A c \in Conn : where[c] = "out" => c \in stranded \/ \E w \in Popper : c \in {held[w], chan[w]}
  /\ \A c \in stranded : where[c] = "out" /\ \A w \in Popper : c \notin {held[w], chan[w]}
IInv ==
  /\ TypeOK /\ NoIdleConn /\ WithinCap /\ Ownership /\ WatchdogPhase
  /\ WatchdogGone /\ DeathsSeen /\ DeadNotReturned /\ Promises /\ Accounted

(* Every pop call returns, whatever the Mac does and even when the pool is *)
(* closed under it (finitely many connections die).                        *)
PopReturns ==
  \A w \in Popper : pc[w] = "call" ~> pc[w] \in {"got", "err"}
=============================================================================
