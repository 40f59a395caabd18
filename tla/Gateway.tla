------------------------------- MODULE Gateway -------------------------------
(***************************************************************************)
(* The guest agent's gateway and bind arbitration: the Mac ports it serves *)
(* (internal/agent/agent.go), the framed UDP stream of a Mac-backed UDP    *)
(* port (internal/proxy/udpstream.go), and the reservation RPC a supervised *)
(* bind waits for (internal/agent/reserve.go, internal/mirror/mirror.go).  *)
(*                                                                         *)
(* Three mutexes meet here.  ensure dials the Mac with p.mu held;          *)
(* RemoveMacPort closes the proxy, which needs p.mu, with a.mu held; a     *)
(* bind reads the Mac set under a.mu and then speaks on the one parked     *)
(* reservation conn under resMu.  A region that never waits is one step.   *)
(***************************************************************************)
EXTENDS Naturals, Sequences

CONSTANTS
    Bind,       \* bind() calls of supervised processes, one goroutine each
    Port,       \* TCP ports
    RConn,      \* 'R' conns the Mac parks, in the order of its dials
    Proxy,      \* UDP stream proxies created for one Mac UDP port
    Stream,     \* reverse streams the dial pool hands out
    Answer,     \* of "ok", "inuse" and "unknown", what the Mac may answer
    Nil

ASSUME GatewayAssumption ==
    /\ Answer \subseteq {"ok", "inuse", "unknown"}
    /\ Nil \notin Bind \cup RConn \cup Proxy \cup Stream \cup {"ok", "inuse", "unknown"}

VARIABLES
    aMu,        \* a.mu is held across steps (RemoveMacPort of the UDP port)
    mac,        \* the Mac's TCP ports in a.mac
    entry,      \* the UDP port's proxy in a.mac
    syncPc,     \* the 'M' session: "idle", "closing" (wants p.mu), "conn"
    victim,     \* the stream Close took out of the proxy
    px,         \* proxy: "unused", "open", "closed" (p.closed), "gone" (its socket too)
    pMu,        \* p.mu is held across steps (ensure's dial)
    cur,        \* p.cur
    reader,     \* readLoop: "off", "read", "ensure", "dial", "write", "drop"
    rs,         \* the stream readLoop got from ensure
    conn,       \* stream: "unused", "open", "dead" (the Mac's end is gone), "closed"
    pump,       \* replyPump: "off", "read", "drop"
    owner,      \* the proxy a stream belongs to
    bindPc,     \* bind: "idle", "check", "lock", "encode", "decode", "done"
    port,       \* the port a bind asks for
    verdict,    \* what ReservePort returned
    resMu,      \* the bind holding resMu across steps
    resConn,    \* a.resConn
    rstate,     \* 'R' conn: "unused", "arrived", "parked", "closed"
    toMac, toAgent, \* what is in flight on an 'R' conn
    macSess,    \* the conn of the Mac's reserve session
    macReply,   \* the answer handleReserve computed, not yet written
    macSaid     \* what the Mac decided for a bind's own request

proxyVars == <<aMu, mac, entry, syncPc, victim, px, pMu, cur, reader, rs, conn, pump, owner>>
bindVars == <<bindPc, port, verdict, resMu, resConn, rstate, toMac, toAgent>>
macVars == <<macSess, macReply, macSaid>>
gatewayVars == <<proxyVars, bindVars, macVars>>

GatewayInit ==
    /\ aMu = FALSE /\ mac = {} /\ entry = Nil /\ syncPc = "idle" /\ victim = Nil
    /\ px = [x \in Proxy |-> "unused"] /\ pMu = [x \in Proxy |-> FALSE]
    /\ cur = [x \in Proxy |-> Nil]
    /\ reader = [x \in Proxy |-> "off"] /\ rs = [x \in Proxy |-> Nil]
    /\ conn = [s \in Stream |-> "unused"] /\ pump = [s \in Stream |-> "off"]
    /\ owner = [s \in Stream |-> Nil]
    /\ bindPc = [b \in Bind |-> "idle"] /\ port = [b \in Bind |-> Nil]
    /\ verdict = [b \in Bind |-> Nil]
    /\ resMu = Nil /\ resConn = Nil /\ rstate = [c \in RConn |-> "unused"]
    /\ toMac = [c \in RConn |-> <<>>] /\ toAgent = [c \in RConn |-> <<>>]
    /\ macSess = Nil /\ macReply = Nil /\ macSaid = [b \in Bind |-> Nil]

-----------------------------------------------------------------------------
(* The 'M' session registers and removes Mac ports. *)

SyncTcp(p) ==
    /\ syncPc = "idle" /\ ~aMu
    /\ mac' = IF p \in mac THEN mac \ {p} ELSE mac \cup {p}
    /\ UNCHANGED <<aMu, entry, syncPc, victim, px, pMu, cur, reader, rs, conn, pump, owner>>
    /\ UNCHANGED <<bindVars, macVars>>

\* NewUDPStream: the listener is up and its readLoop runs.  A failing put
\* into mac_ports closes the new proxy again, still under a.mu.
AddMacPort(x) ==
    /\ syncPc = "idle" /\ ~aMu /\ entry = Nil /\ px[x] = "unused"
    /\ entry' = x
    /\ px' = [px EXCEPT ![x] = "open"] /\ reader' = [reader EXCEPT ![x] = "read"]
    /\ \E fails \in BOOLEAN :
        aMu' = fails /\ syncPc' = IF fails THEN "closing" ELSE "idle"
    /\ UNCHANGED <<mac, victim, pMu, cur, rs, conn, pump, owner, bindVars, macVars>>

RemoveMacPort ==
    /\ syncPc = "idle" /\ ~aMu /\ entry # Nil
    /\ aMu' = TRUE /\ syncPc' = "closing"
    /\ UNCHANGED <<mac, entry, victim, px, pMu, cur, reader, rs, conn, pump, owner>>
    /\ UNCHANGED <<bindVars, macVars>>

\* Close waits for a dial in progress.
CloseMark ==
    /\ syncPc = "closing" /\ ~pMu[entry]
    /\ px' = [px EXCEPT ![entry] = "closed"]
    /\ victim' = cur[entry] /\ cur' = [cur EXCEPT ![entry] = Nil]
    /\ syncPc' = "conn"
    /\ UNCHANGED <<aMu, mac, entry, pMu, reader, rs, conn, pump, owner>>
    /\ UNCHANGED <<bindVars, macVars>>

CloseConns ==
    /\ syncPc = "conn"
    /\ conn' = IF victim = Nil THEN conn ELSE [conn EXCEPT ![victim] = "closed"]
    /\ px' = [px EXCEPT ![entry] = "gone"]
    /\ entry' = Nil /\ victim' = Nil /\ aMu' = FALSE /\ syncPc' = "idle"
    /\ UNCHANGED <<mac, pMu, cur, reader, rs, pump, owner, bindVars, macVars>>

-----------------------------------------------------------------------------
(* readLoop: one datagram at a time onto the port's stream. *)

At(x, at) == reader' = [reader EXCEPT ![x] = at]

Datagram(x) ==
    /\ reader[x] = "read"
    /\ At(x, IF px[x] = "gone" THEN "off" ELSE "ensure")
    /\ UNCHANGED <<aMu, mac, entry, syncPc, victim, px, pMu, cur, rs, conn, pump, owner>>
    /\ UNCHANGED <<bindVars, macVars>>

Closed(x) == px[x] \in {"closed", "gone"}

Ensure(x) ==
    /\ reader[x] = "ensure" /\ ~pMu[x]
    /\ \/ Closed(x) /\ At(x, "read") /\ UNCHANGED <<pMu, rs>>
       \/ ~Closed(x) /\ cur[x] # Nil /\ At(x, "write")
          /\ rs' = [rs EXCEPT ![x] = cur[x]] /\ UNCHANGED pMu
       \/ ~Closed(x) /\ cur[x] = Nil /\ At(x, "dial")
          /\ pMu' = [pMu EXCEPT ![x] = TRUE] /\ UNCHANGED rs
    /\ UNCHANGED <<aMu, mac, entry, syncPc, victim, px, cur, conn, pump, owner>>
    /\ UNCHANGED <<bindVars, macVars>>

DialOK(x, s) ==
    /\ reader[x] = "dial" /\ conn[s] = "unused"
    /\ cur' = [cur EXCEPT ![x] = s] /\ rs' = [rs EXCEPT ![x] = s]
    /\ conn' = [conn EXCEPT ![s] = "open"] /\ owner' = [owner EXCEPT ![s] = x]
    /\ pump' = [pump EXCEPT ![s] = "read"]
    /\ pMu' = [pMu EXCEPT ![x] = FALSE] /\ At(x, "write")
    /\ UNCHANGED <<aMu, mac, entry, syncPc, victim, px, bindVars, macVars>>

DialFails(x) ==
    /\ reader[x] = "dial"
    /\ pMu' = [pMu EXCEPT ![x] = FALSE] /\ At(x, "read")
    /\ UNCHANGED <<aMu, mac, entry, syncPc, victim, px, cur, rs, conn, pump, owner>>
    /\ UNCHANGED <<bindVars, macVars>>

\* The first write to a dead peer may still be buffered.
WriteFrame(x) ==
    /\ reader[x] = "write"
    /\ \/ conn[rs[x]] # "closed" /\ At(x, "read") /\ rs' = [rs EXCEPT ![x] = Nil]
       \/ conn[rs[x]] # "open" /\ At(x, "drop") /\ UNCHANGED rs
    /\ UNCHANGED <<aMu, mac, entry, syncPc, victim, px, pMu, cur, conn, pump, owner>>
    /\ UNCHANGED <<bindVars, macVars>>

\* Mutant: drop clears whatever stream is current.
Forgotten_Any(x, s) == [cur EXCEPT ![x] = Nil]

\* drop(s): forget s only while it is still the current one; close it anyway.
Forgotten(x, s) == IF cur[x] = s THEN [cur EXCEPT ![x] = Nil] ELSE cur

Drop(x, s) ==
    /\ ~pMu[x]
    /\ cur' = Forgotten(x, s)
    /\ conn' = [conn EXCEPT ![s] = "closed"]
    /\ UNCHANGED <<aMu, mac, entry, syncPc, victim, px, pMu, owner, bindVars, macVars>>

ReaderDrop(x) ==
    /\ reader[x] = "drop" /\ Drop(x, rs[x])
    /\ At(x, "read") /\ rs' = [rs EXCEPT ![x] = Nil] /\ UNCHANGED pump

\* ReadFrame fails on a dead or closed conn, and on a frame out of step.
PumpErr(s) ==
    /\ pump[s] = "read"
    /\ pump' = [pump EXCEPT ![s] = "drop"]
    /\ UNCHANGED <<aMu, mac, entry, syncPc, victim, px, pMu, cur, reader, rs, conn, owner>>
    /\ UNCHANGED <<bindVars, macVars>>

PumpDrop(s) ==
    /\ pump[s] = "drop" /\ Drop(owner[s], s)
    /\ pump' = [pump EXCEPT ![s] = "off"] /\ UNCHANGED <<reader, rs>>

StreamDies(s) ==
    /\ conn[s] = "open"
    /\ conn' = [conn EXCEPT ![s] = "dead"]
    /\ UNCHANGED <<aMu, mac, entry, syncPc, victim, px, pMu, cur, reader, rs, pump, owner>>
    /\ UNCHANGED <<bindVars, macVars>>

-----------------------------------------------------------------------------
(* ReservePort, for one blocked bind. *)

Goto(b, at) == bindPc' = [bindPc EXCEPT ![b] = at]

BindArrives(b, p) ==
    /\ bindPc[b] = "idle" /\ Goto(b, "check")
    /\ port' = [port EXCEPT ![b] = p]
    /\ UNCHANGED <<verdict, resMu, resConn, rstate, toMac, toAgent, proxyVars, macVars>>

\* TryLock: a contended Mac set is unknown, and the Mac is asked.
macPortHeld(b) == ~aMu /\ port[b] \in mac

\* Mutant: the Mac set is read with a.mu.Lock.
MayCheck_Lock(b) == bindPc[b] = "check" /\ ~aMu

\* What a bind waits for: nothing, resMu, and within reserveTimeout nothing.
MayCheck(b) == bindPc[b] = "check"
MayLock(b) == bindPc[b] = "lock" /\ resMu = Nil
MayFail(b) == bindPc[b] \in {"encode", "decode"}

CheckHeld(b) ==
    /\ MayCheck(b)
    /\ \/ macPortHeld(b) /\ Goto(b, "done") /\ verdict' = [verdict EXCEPT ![b] = "inuse"]
       \/ ~macPortHeld(b) /\ Goto(b, "lock") /\ UNCHANGED verdict
    /\ UNCHANGED <<port, resMu, resConn, rstate, toMac, toAgent, proxyVars, macVars>>

LockReserve(b) ==
    /\ MayLock(b)
    /\ \/ resConn # Nil /\ resMu' = b /\ Goto(b, "encode") /\ UNCHANGED verdict
       \/ resConn = Nil /\ Goto(b, "done") /\ UNCHANGED resMu
          /\ verdict' = [verdict EXCEPT ![b] = "unknown"]
    /\ UNCHANGED <<port, resConn, rstate, toMac, toAgent, proxyVars, macVars>>

Encode(b) ==
    /\ bindPc[b] = "encode" /\ Goto(b, "decode")
    /\ toMac' = [toMac EXCEPT ![resConn] = Append(@, b)]
    /\ UNCHANGED <<port, verdict, resMu, resConn, rstate, toAgent, proxyVars, macVars>>

Decode(b) ==
    /\ bindPc[b] = "decode" /\ toAgent[resConn] # <<>>
    /\ verdict' = [verdict EXCEPT ![b] = Head(toAgent[resConn])]
    /\ toAgent' = [toAgent EXCEPT ![resConn] = Tail(@)]
    /\ resMu' = Nil /\ Goto(b, "done")
    /\ UNCHANGED <<port, resConn, rstate, toMac, proxyVars, macVars>>

\* Mutant: the conn survives a missed deadline.
Fail_KeepsConn(b) ==
    /\ MayFail(b)
    /\ verdict' = [verdict EXCEPT ![b] = "unknown"]
    /\ resMu' = Nil /\ Goto(b, "done")
    /\ UNCHANGED <<port, resConn, rstate, toMac, toAgent, proxyVars, macVars>>

\* The deadline, or the conn's own error: the conn is closed and forgotten.
Fail(b) ==
    /\ MayFail(b)
    /\ rstate' = [rstate EXCEPT ![resConn] = "closed"] /\ resConn' = Nil
    /\ toAgent' = [toAgent EXCEPT ![resConn] = <<>>]
    /\ verdict' = [verdict EXCEPT ![b] = "unknown"]
    /\ resMu' = Nil /\ Goto(b, "done")
    /\ UNCHANGED <<port, toMac, proxyVars, macVars>>

\* setReserveConn: the newest parked conn serves, the old one is closed.
SetReserveConn(c) ==
    /\ rstate[c] = "arrived" /\ resMu = Nil
    /\ resConn' = c
    /\ rstate' = [d \in RConn |-> IF d = c THEN "parked"
                                  ELSE IF d = resConn THEN "closed" ELSE rstate[d]]
    /\ UNCHANGED <<bindPc, port, verdict, resMu, toMac, toAgent, proxyVars, macVars>>

-----------------------------------------------------------------------------
(* The Mac's reserve loop.  What handleReserve decides is Mirror.tla's     *)
(* subject; here it is any answer, after any delay.                        *)

reserveLoop(c) ==
    /\ macSess = Nil /\ rstate[c] = "unused"
    /\ macSess' = c /\ rstate' = [rstate EXCEPT ![c] = "arrived"]
    /\ UNCHANGED <<bindPc, port, verdict, resMu, resConn, toMac, toAgent, proxyVars, macReply, macSaid>>

handleReserve(ans) ==
    /\ macSess # Nil /\ macReply = Nil /\ toMac[macSess] # <<>>
    /\ macReply' = ans
    /\ macSaid' = [macSaid EXCEPT ![Head(toMac[macSess])] = ans]
    /\ toMac' = [toMac EXCEPT ![macSess] = Tail(@)]
    /\ UNCHANGED <<bindPc, port, verdict, resMu, resConn, rstate, toAgent, proxyVars, macSess>>

MacReplies ==
    /\ macSess # Nil /\ macReply # Nil /\ rstate[macSess] # "closed"
    /\ toAgent' = [toAgent EXCEPT ![macSess] = Append(@, macReply)] /\ macReply' = Nil
    /\ UNCHANGED <<bindPc, port, verdict, resMu, resConn, rstate, toMac, proxyVars, macSess, macSaid>>

\* Decode or Encode fails on a closed conn, or the daemon restarts and the
\* agent keeps a conn nobody answers on.
MacSessionEnds ==
    /\ macSess # Nil
    /\ macSess' = Nil /\ macReply' = Nil
    /\ UNCHANGED <<macSaid, proxyVars, bindVars>>

-----------------------------------------------------------------------------
Answering(b) ==
    CheckHeld(b) \/ LockReserve(b) \/ Encode(b) \/ Decode(b) \/ Fail(b)

GatewayNext ==
    \/ \E b \in Bind : Answering(b) \/ \E p \in Port : BindArrives(b, p)
    \/ \E c \in RConn : SetReserveConn(c) \/ reserveLoop(c)
    \/ \E ans \in Answer : handleReserve(ans)
    \/ MacReplies \/ MacSessionEnds
    \/ \E p \in Port : SyncTcp(p)
    \/ RemoveMacPort \/ CloseMark \/ CloseConns
    \/ \E x \in Proxy : AddMacPort(x) \/ Datagram(x) \/ Ensure(x) \/ DialFails(x)
                        \/ WriteFrame(x) \/ ReaderDrop(x) \/ \E s \in Stream : DialOK(x, s)
    \/ \E s \in Stream : PumpErr(s) \/ PumpDrop(s) \/ StreamDies(s)

GatewaySpec == GatewayInit /\ [][GatewayNext]_gatewayVars

-----------------------------------------------------------------------------
(* Properties *)

\* The parked reservation conn carries no request id: a reply is matched to a
\* request by order alone.  Whatever times out, restarts or is replaced, a
\* bind that goes ahead on "ok" was itself reserved by the Mac, and one
\* refused on the Mac's word was itself refused (reserve.go ReservePort).
AnswerOwn ==
    \A b \in Bind :
        /\ verdict[b] = "ok" => macSaid[b] = "ok"
        /\ verdict[b] = "inuse" => macSaid[b] \in {Nil, "inuse"}

\* A reverse stream that is not closed is the one its open proxy uses, or a
\* goroutine is on its way to close it: no order of a write error, a read
\* error, a re-activation and Close leaves a stream, and the Mac relay behind
\* it, to nobody (udpstream.go ensure, drop, Close).
NoStrayStream ==
    \A s \in Stream : conn[s] \in {"open", "dead"} =>
        \/ cur[owner[s]] = s /\ px[owner[s]] = "open"
        \/ pump[s] = "drop" \/ victim = s
        \/ reader[owner[s]] = "drop" /\ rs[owner[s]] = s

\* A supervised bind is never stuck behind the rest of the agent: it can take
\* its next step itself, or the bind whose RPC it waits for can, and that one
\* has its deadline.  Neither the sync session holding a.mu behind a dial
\* nobody answers nor a Mac that never replies is in the way (notify.go
\* answerBind, reserve.go macPortHeld).  A step's guard is all it waits for.
MayMove(b) == MayCheck(b) \/ MayLock(b) \/ MayFail(b)
BindNeverBlocked ==
    \A b \in Bind : bindPc[b] \notin {"idle", "done"} =>
        MayMove(b) \/ (resMu \in Bind /\ MayMove(resMu))

(* Why they hold.  Each is a matter of one half of the state.              *)

ProxyTypeOK ==
    /\ aMu \in BOOLEAN /\ entry \in Proxy \cup {Nil} /\ syncPc \in {"idle", "closing", "conn"}
    /\ victim \in Stream \cup {Nil}
    /\ px \in [Proxy -> {"unused", "open", "closed", "gone"}] /\ pMu \in [Proxy -> BOOLEAN]
    /\ cur \in [Proxy -> Stream \cup {Nil}] /\ rs \in [Proxy -> Stream \cup {Nil}]
    /\ reader \in [Proxy -> {"off", "read", "ensure", "dial", "write", "drop"}]
    /\ conn \in [Stream -> {"unused", "open", "dead", "closed"}]
    /\ pump \in [Stream -> {"off", "read", "drop"}] /\ owner \in [Stream -> Proxy \cup {Nil}]

\* A dial keeps the proxy open, a proxy that is not open has no stream, and
\* whoever names a stream is its owner's.
Used(s, x) == conn[s] # "unused" /\ owner[s] = x
StreamUse ==
    /\ \A x \in Proxy : px[x] = "open" => entry = x
    /\ syncPc = "idle" /\ entry # Nil => px[entry] = "open"
    /\ syncPc = "closing" => entry # Nil /\ px[entry] = "open"
    /\ syncPc = "conn" => entry # Nil /\ px[entry] = "closed"
    /\ victim # Nil => syncPc = "conn" /\ Used(victim, entry)
    /\ \A x \in Proxy :
        /\ px[x] = "unused" => reader[x] = "off"
        /\ pMu[x] <=> reader[x] = "dial"
        /\ pMu[x] => px[x] = "open" /\ cur[x] = Nil
        /\ cur[x] # Nil => px[x] = "open" /\ Used(cur[x], x)
        /\ rs[x] # Nil => Used(rs[x], x)
        /\ reader[x] \in {"write", "drop"} => rs[x] # Nil
    /\ \A s \in Stream :
        /\ conn[s] # "unused" => owner[s] # Nil
        /\ pump[s] # "off" => conn[s] # "unused"
StreamInv == ProxyTypeOK /\ StreamUse /\ NoStrayStream

AtMostOne(S) == {<<>>} \cup {<<e>> : e \in S}
BindTypeOK ==
    /\ bindPc \in [Bind -> {"idle", "check", "lock", "encode", "decode", "done"}]
    /\ verdict \in [Bind -> Answer \cup {Nil, "inuse", "unknown"}]
    /\ macSaid \in [Bind -> Answer \cup {Nil}]
    /\ resMu \in Bind \cup {Nil} /\ resConn \in RConn \cup {Nil}
    /\ rstate \in [RConn -> {"unused", "arrived", "parked", "closed"}]
    /\ toMac \in [RConn -> AtMostOne(Bind)] /\ toAgent \in [RConn -> AtMostOne(Answer)]
    /\ macSess \in RConn \cup {Nil} /\ macReply \in Answer \cup {Nil}

Locks ==
    /\ \A b \in Bind : bindPc[b] \in {"encode", "decode"} <=> resMu = b
    /\ resMu # Nil => resConn # Nil
    /\ \A c \in RConn : rstate[c] = "parked" <=> resConn = c
    /\ IF macSess = Nil THEN macReply = Nil ELSE rstate[macSess] # "unused"

\* The conn is quiet but for the one request of the bind in "decode", which is
\* on its way to the Mac, or decided, or on its way back, or lost.
Quiet(c) == toMac[c] = <<>> /\ toAgent[c] = <<>> /\ (macSess = c => macReply = Nil)
OneRequest ==
    /\ \A c \in RConn : rstate[c] \in {"unused", "arrived"} => Quiet(c)
    /\ resConn # Nil /\ (resMu = Nil \/ bindPc[resMu] = "encode") => Quiet(resConn)
    /\ \A b \in Bind : bindPc[b] = "decode" =>
        /\ toMac[resConn] # <<>> => toAgent[resConn] = <<>> /\ (macSess = resConn => macReply = Nil)
        /\ macSess = resConn /\ macReply # Nil => toAgent[resConn] = <<>> /\ macReply = macSaid[b]
        /\ toAgent[resConn] # <<>> => toAgent[resConn] = <<macSaid[b]>>

\* A request that was given up may still reach the Mac, on a closed conn.
Requests ==
    /\ \A c \in RConn, b \in Bind : toMac[c] = <<b>> =>
        \/ c = resConn /\ bindPc[b] = "decode"
        \/ rstate[c] = "closed" /\ bindPc[b] = "done" /\ verdict[b] = "unknown"
    /\ \A b \in Bind : /\ bindPc[b] # "done" => verdict[b] = Nil
                       /\ bindPc[b] \notin {"decode", "done"} => macSaid[b] = Nil
ReserveInv == BindTypeOK /\ Locks /\ OneRequest /\ Requests /\ AnswerOwn

GatewayInv == StreamInv /\ ReserveInv
=============================================================================
