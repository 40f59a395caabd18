------------------------------ MODULE Transport ------------------------------
(***************************************************************************)
(* From a VM's name to an authenticated conn: the daemon resolves where    *)
(* the agent is (cmd/drawbridged resolver, Resolver.tla), dials it, reads  *)
(* its secret through the process's latch (internal/transportauth) and     *)
(* exchanges proofs with whichever agent answered (internal/agent/listen   *)
(* and transport).  Meanwhile machines restart and take each other's       *)
(* addresses, `drawbridge up` provisions secrets in two writes, files      *)
(* disappear or break, and both processes restart.                         *)
(***************************************************************************)
EXTENDS Naturals, Sequences

CONSTANTS
    IP,             \* addresses of the vmnet subnet
    NoIP, NoHW, BadHW, Loopback,
    Providers,      \* of "lima", "colima", "podman"
    MaxFaults, MaxSecrets

R == INSTANCE Resolver WITH Usable <- IP, Subnet <- IP, maxLeaseCandidates <- 2

VM == {"A", "B"}            \* A is the daemon's -vm
Conn == {"E", "S"}          \* the event session; a mirrored client's stream
None == "none"

\* The content of a secret file; a secret is a number above Bad.
Absent == 0
Bad == 1
Secret == 2 .. MaxSecrets + 1

VARIABLES
    provider, pin,  \* the daemon's provider; whether it has a hardware pin
    root,           \* the daemon is the installed one: limactl refuses euid 0
    require,        \* the daemon is started with an explicit -secret-file
    daemon,         \* it runs
    ip,             \* each machine's address, NoIP while it is stopped
    leaseIP,        \* the address of its lease record
    agent,          \* its agent's listeners: "down", "loopback", "nic"
    fwd,            \* where the Mac's loopback port leads
    macFile, guestFile, \* the secret files, by Mac file name and by guest
    macLatch, agentLatch,   \* `configured` in the daemon and in each agent
    macKnown, agentKnown,   \* this life found a file, or was told of one (history)
    upVM, made,     \* the `up` between its two writes; secrets generated
    cur, addr,      \* the resolver's endpoint; the client's
    pc,             \* "idle", "dialed", "read", "dial", "sent", "up", "end"
    seen, sec,      \* what a conn's read found; the secret it uses, Absent for none
    began,          \* macKnown when that read began (history)
    peer,           \* the machine that answered the dial
    answer, proof,  \* the agent: None, "closed", "plain", "auth"; with which secret
    faults

choices == <<provider, pin, root, require>>
machines == <<ip, leaseIP, agent, fwd>>
files == <<macFile, guestFile, upVM, made>>
latches == <<daemon, macLatch, agentLatch, macKnown, agentKnown>>
conns == <<pc, seen, sec, began, peer, answer, proof>>
vars == <<choices, machines, files, latches, cur, addr, conns, faults>>

\* Mutant: one file for every machine of a provider.
FileName_NoInstance(v) == "A"

\* Mac-side file name of a machine's secret: it carries the instance.
FileName(v) == v

\* Both machines run; whichever booted first has the loopback port.  The
\* daemon has not started.  How a podman machine is found, limactl and the pin
\* have no part in.
Init ==
    /\ provider \in Providers /\ require \in BOOLEAN
    /\ root \in BOOLEAN /\ pin \in BOOLEAN /\ (provider = "podman" => root /\ pin)
    /\ ip = (CHOOSE f \in [VM -> IP] : f["A"] # f["B"]) /\ leaseIP = ip
    /\ agent = [v \in VM |-> "nic"] /\ fwd \in (IF provider = "lima" THEN VM ELSE {None})
    /\ macFile \in [VM -> {Absent, Bad}] /\ macFile["B"] = Absent
    /\ guestFile = [v \in VM |-> Absent]
    /\ upVM = None /\ made = 0
    /\ daemon = FALSE /\ macLatch = FALSE /\ macKnown = FALSE
    /\ agentLatch = [v \in VM |-> FALSE] /\ agentKnown = [v \in VM |-> FALSE]
    /\ cur = NoIP /\ addr = NoIP
    /\ pc = [k \in Conn |-> "end"] /\ seen = [k \in Conn |-> Absent]
    /\ sec = [k \in Conn |-> Absent] /\ began = [k \in Conn |-> FALSE]
    /\ peer = [k \in Conn |-> None]
    /\ answer = [k \in Conn |-> None] /\ proof = [k \in Conn |-> Absent]
    /\ faults = 0

-----------------------------------------------------------------------------
(* The latch of a process. *)

\* A file that exists latches its path, well-formed or not.
Latches(f) == f # Absent

\* Mutant: the read at boot loads without latching.
BootLatches_Unlatched(f) == FALSE

\* The boot read is LoadLatched too.
BootLatches(f) == Latches(f)

\* LoadLatched's outcome: a secret, Absent for unauthenticated, Bad for a refusal.
LoadLatched(f, latch) == IF f = Absent /\ latch THEN Bad ELSE f

-----------------------------------------------------------------------------
(* The machines. *)

\* Every conn to v is cut.
Cut(v) ==
    LET hit == {k \in Conn : peer[k] = v} IN
    /\ pc' = [k \in Conn |-> IF k \in hit THEN "end" ELSE pc[k]]
    /\ peer' = [k \in Conn |-> IF k \in hit THEN None ELSE peer[k]]
    /\ answer' = [k \in Conn |-> IF k \in hit THEN None ELSE answer[k]]
    /\ proof' = [k \in Conn |-> IF k \in hit THEN Absent ELSE proof[k]]
    /\ seen' = [k \in Conn |-> IF k \in hit THEN Absent ELSE seen[k]]
    /\ sec' = [k \in Conn |-> IF k \in hit THEN Absent ELSE sec[k]]
    /\ began' = [k \in Conn |-> IF k \in hit THEN FALSE ELSE began[k]]

\* DHCP leases any free address; Lima's SSH forward takes the loopback port
\* for whichever machine comes first.
Boot(v, i) ==
    /\ ip[v] = NoIP /\ \A w \in VM : ip[w] # i
    /\ ip' = [ip EXCEPT ![v] = i] /\ leaseIP' = [leaseIP EXCEPT ![v] = i]
    /\ fwd' = IF provider = "lima" /\ fwd = None THEN v ELSE fwd
    /\ UNCHANGED <<choices, agent, files, latches, cur, addr, conns, faults>>

Stop(v) ==
    /\ faults < MaxFaults /\ faults' = faults + 1
    /\ ip[v] # NoIP
    /\ ip' = [ip EXCEPT ![v] = NoIP] /\ agent' = [agent EXCEPT ![v] = "down"]
    /\ fwd' = IF fwd = v THEN None ELSE fwd
    /\ Cut(v)
    /\ UNCHANGED <<choices, leaseIP, files, latches, cur, addr>>

\* The agent starts: a malformed file is fatal, the boot read latches one that
\* is there, and ListenTransport opens the loopback listener.
ListenTransport(v) ==
    /\ ip[v] # NoIP /\ agent[v] = "down" /\ guestFile[v] # Bad
    /\ agent' = [agent EXCEPT ![v] = "loopback"]
    /\ agentLatch' = [agentLatch EXCEPT ![v] = BootLatches(guestFile[v])]
    /\ agentKnown' = [agentKnown EXCEPT ![v] = guestFile[v] # Absent]
    /\ UNCHANGED <<choices, ip, leaseIP, fwd, files, daemon, macLatch, macKnown, cur, addr, conns, faults>>

\* autoVZNAT: the guest NIC's listener once the interface has its address.
autoVZNAT(v) ==
    /\ agent[v] = "loopback"
    /\ agent' = [agent EXCEPT ![v] = "nic"]
    /\ UNCHANGED <<choices, ip, leaseIP, fwd, files, latches, cur, addr, conns, faults>>

\* publish: gvproxy's forward is unexposed and exposed again, with retries.
Publish ==
    /\ provider = "podman" /\ agent["A"] = "nic" /\ fwd # "A"
    /\ fwd' = "A"
    /\ UNCHANGED <<choices, ip, leaseIP, agent, files, latches, cur, addr, conns, faults>>

AgentExits(v) ==
    /\ faults < MaxFaults /\ faults' = faults + 1
    /\ agent[v] # "down"
    /\ agent' = [agent EXCEPT ![v] = "down"]
    /\ \/ fwd' = IF provider = "podman" THEN None ELSE fwd    \* Unpublish
       \/ UNCHANGED fwd                                       \* its best effort failed
    /\ Cut(v)
    /\ UNCHANGED <<choices, ip, leaseIP, files, latches, cur, addr>>

-----------------------------------------------------------------------------
(* The secrets. *)

\* `up`: a well-formed Mac secret is kept and an absent one generated; a
\* malformed one ends the command ...
UpMacSecret(v) ==
    /\ upVM = None /\ upVM' = v /\ ip[v] # NoIP
    /\ \/ macFile[FileName(v)] \in Secret /\ UNCHANGED <<macFile, made>>
       \/ /\ macFile[FileName(v)] = Absent /\ made < MaxSecrets
          /\ made' = made + 1 /\ macFile' = [macFile EXCEPT ![FileName(v)] = made' + 1]
    /\ guestFile[v] # macFile'[FileName(v)]
    /\ UNCHANGED <<choices, machines, guestFile, latches, cur, addr, conns, faults>>

\* ... and then the guest's copy is written, if the guest is still there.
UpSecret ==
    /\ upVM # None /\ upVM' = None
    /\ guestFile' = IF ip[upVM] = NoIP THEN guestFile
                    ELSE [guestFile EXCEPT ![upVM] = macFile[FileName(upVM)]]
    /\ UNCHANGED <<choices, machines, macFile, made, latches, cur, addr, conns, faults>>

\* The remedy the error names: the user deletes the malformed file.
DeleteMalformed ==
    /\ macFile["A"] = Bad /\ macFile' = [macFile EXCEPT !["A"] = Absent]
    /\ UNCHANGED <<choices, machines, guestFile, upVM, made, latches, cur, addr, conns, faults>>

\* A file of A is deleted or damaged on either side; B's are left alone.
FileFault(f) ==
    /\ faults < MaxFaults /\ faults' = faults + 1
    /\ \/ macFile["A"] # Absent /\ macFile' = [macFile EXCEPT !["A"] = f] /\ UNCHANGED guestFile
       \/ guestFile["A"] # Absent /\ guestFile' = [guestFile EXCEPT !["A"] = f] /\ UNCHANGED macFile
    /\ UNCHANGED <<choices, machines, upVM, made, latches, cur, addr, conns>>

-----------------------------------------------------------------------------
(* The daemon's resolver. *)

\* The name is the guest's choice, and B's guest chose A's; its record is newer.
leases ==
    SelectSeq(<<[name |-> "a", ip |-> leaseIP["A"], hw |-> "hwA", expiry |-> 1],
                [name |-> "a", ip |-> leaseIP["B"], hw |-> "hwB", expiry |-> 2]>>,
              LAMBDA l : l.ip # NoIP)

Target == [provider |-> provider, leaseName |-> "a", hw |-> IF pin THEN "hwA" ELSE NoHW]

\* Mutant: the lease database is believed over the guest's own word.
Resolve_LeasesOnly(guestIP) ==
    IF provider = "podman" THEN R!ResolvePodman(TRUE)
    ELSE R!ResolveTarget(Target, NoIP, leases, {ip[v] : v \in {w \in VM : agent[w] = "nic"}})

\* guestIP is what limactl says, NoIP when it fails, as it does under root.
GuestIP == {NoIP} \cup (IF root THEN {} ELSE {ip["A"]})

Resolve(guestIP) ==
    IF provider = "podman" THEN R!ResolvePodman(TRUE)
    ELSE R!ResolveTarget(Target, guestIP, leases, {ip[v] : v \in {w \in VM : agent[w] = "nic"}})

\* The client keeps its address when the resolver has none.
Follow(ep) == addr' = IF ep = NoIP THEN addr ELSE ep

refresh(guestIP) ==
    /\ daemon /\ pc["E"] = "end" /\ pc' = [pc EXCEPT !["E"] = "idle"]
    /\ cur' = Resolve(guestIP).ip /\ Follow(cur')
    /\ UNCHANGED <<choices, machines, files, latches, seen, sec, began, peer, answer, proof, faults>>

\* Within resolveMinInterval the last endpoint is returned as it is.
refreshCoalesced ==
    /\ daemon /\ pc["E"] = "end" /\ pc' = [pc EXCEPT !["E"] = "idle"]
    /\ Follow(cur) /\ UNCHANGED cur
    /\ UNCHANGED <<choices, machines, files, latches, seen, sec, began, peer, answer, proof, faults>>

-----------------------------------------------------------------------------
(* One conn.  A session dials before it reads the secret, a stream after;  *)
(* the ClientHello, frame and proof in one write, follows whichever is last. *)

Goto(k, at) == pc' = [pc EXCEPT ![k] = at]
Ended(k) ==
    /\ Goto(k, "end")
    /\ peer' = [peer EXCEPT ![k] = None] /\ answer' = [answer EXCEPT ![k] = None]
    /\ proof' = [proof EXCEPT ![k] = Absent] /\ seen' = [seen EXCEPT ![k] = Absent]
    /\ sec' = [sec EXCEPT ![k] = Absent] /\ began' = [began EXCEPT ![k] = FALSE]

\* Who accepts a conn to an endpoint.
Answers(ep) ==
    {v \in VM : /\ agent[v] # "down"
                /\ \/ ep = Loopback /\ fwd = v
                   \/ ep # Loopback /\ ep # NoIP /\ ip[v] = ep /\ agent[v] = "nic"}

Dial(k) ==
    /\ pc[k] = IF k = "E" THEN "idle" ELSE "dial"
    /\ \/ /\ \E v \in Answers(addr) : peer' = [peer EXCEPT ![k] = v]
          /\ Goto(k, IF k = "E" THEN "dialed" ELSE "sent")
          /\ UNCHANGED <<seen, sec, began, answer, proof>>
       \/ Answers(addr) = {} /\ Ended(k)
    /\ UNCHANGED <<choices, machines, files, latches, cur, addr, faults>>

\* A client connects to a mirror, which exists while the session is up.
ClientConnects ==
    /\ pc["E"] = "up" /\ pc["S"] = "end" /\ Goto("S", "idle")
    /\ UNCHANGED <<choices, machines, files, latches, cur, addr, faults>>
    /\ UNCHANGED <<seen, sec, began, peer, answer, proof>>

LoadRead(k) ==
    /\ pc[k] = IF k = "E" THEN "dialed" ELSE "idle"
    /\ Goto(k, "read")
    /\ seen' = [seen EXCEPT ![k] = macFile[FileName("A")]]
    /\ began' = [began EXCEPT ![k] = macKnown]
    /\ UNCHANGED <<choices, machines, files, latches, cur, addr, sec, peer, answer, proof, faults>>

\* The latch is stored, or asked, after the file was read.
LoadReturn(k) ==
    /\ pc[k] = "read"
    /\ macLatch' = (macLatch \/ Latches(seen[k])) /\ macKnown' = (macKnown \/ seen[k] # Absent)
    /\ \/ LoadLatched(seen[k], macLatch) = Bad /\ Ended(k)
       \/ /\ LoadLatched(seen[k], macLatch) # Bad
          /\ sec' = [sec EXCEPT ![k] = seen[k]]
          /\ Goto(k, IF k = "E" THEN "sent" ELSE "dial")
          /\ UNCHANGED <<seen, began, peer, answer, proof>>
    /\ UNCHANGED <<choices, machines, files, daemon, agentLatch, agentKnown, cur, addr, faults>>

\* ServerHandshake with the guest's own file: refuse unless both sides agree.
Verdict(mine, theirs) ==
    IF mine = Bad \/ mine # theirs THEN "closed" ELSE IF mine = Absent THEN "plain" ELSE "auth"

handleTransportConn(k) ==
    /\ pc[k] \in {"sent", "up"} /\ answer[k] = None
    /\ LET v == peer[k]
           mine == LoadLatched(guestFile[v], agentLatch[v])
       IN  /\ agentLatch' = [agentLatch EXCEPT ![v] = @ \/ Latches(guestFile[v])]
           /\ agentKnown' = [agentKnown EXCEPT ![v] = @ \/ guestFile[v] # Absent]
           /\ answer' = [answer EXCEPT ![k] = Verdict(mine, sec[k])]
           /\ proof' = [proof EXCEPT ![k] = IF answer'[k] = "auth" THEN mine ELSE Absent]
    /\ UNCHANGED <<choices, machines, files, daemon, macLatch, macKnown, cur, addr, pc, seen, sec, began, peer, faults>>

\* AwaitAgentProof: nothing to wait for without a secret.
Proven(k) == sec[k] # Absent => answer[k] = "auth" /\ proof[k] = sec[k]

AwaitAgentProof(k) ==
    /\ pc[k] = "sent" /\ Proven(k) /\ Goto(k, "up")
    /\ UNCHANGED <<choices, machines, files, latches, cur, addr, faults>>
    /\ UNCHANGED <<seen, sec, began, peer, answer, proof>>

\* The proof is wrong, the agent hung up, or HandshakeTimeout passed; a plain
\* session finds out when it reads.
Refused(k) ==
    /\ \/ pc[k] = "sent" /\ ~Proven(k) /\ answer[k] # None
       \/ pc[k] = "up" /\ answer[k] = "closed"
    /\ Ended(k)
    /\ UNCHANGED <<choices, machines, files, latches, cur, addr, faults>>

HandshakeTimeout(k) ==
    /\ faults < MaxFaults /\ faults' = faults + 1
    /\ pc[k] = "sent" /\ ~Proven(k) /\ Ended(k)
    /\ UNCHANGED <<choices, machines, files, latches, cur, addr>>

StreamDone ==
    /\ pc["S"] = "up" /\ Ended("S")
    /\ UNCHANGED <<choices, machines, files, latches, cur, addr, faults>>

\* A crash, a kill or a bootout.
DaemonExits ==
    /\ daemon /\ faults < MaxFaults /\ faults' = faults + 1
    /\ daemon' = FALSE /\ macLatch' = FALSE /\ macKnown' = FALSE
    /\ cur' = NoIP /\ addr' = NoIP
    /\ pc' = [k \in Conn |-> "end"] /\ seen' = [k \in Conn |-> Absent]
    /\ sec' = [k \in Conn |-> Absent] /\ began' = [k \in Conn |-> FALSE]
    /\ peer' = [k \in Conn |-> None]
    /\ answer' = [k \in Conn |-> None] /\ proof' = [k \in Conn |-> Absent]
    /\ UNCHANGED <<choices, machines, files, agentLatch, agentKnown>>

\* main: -secret-file latches, then the boot read does; a malformed file, or
\* a required one that is absent, ends the process at once.
DaemonBoots ==
    /\ ~daemon /\ LoadLatched(macFile[FileName("A")], require) # Bad
    /\ daemon' = TRUE
    /\ macLatch' = (require \/ BootLatches(macFile[FileName("A")]))
    /\ macKnown' = (require \/ macFile[FileName("A")] # Absent)
    /\ UNCHANGED <<choices, machines, files, agentLatch, agentKnown, cur, addr, conns, faults>>

-----------------------------------------------------------------------------
Dialling(k) ==
    \/ Dial(k) \/ LoadRead(k) \/ LoadReturn(k)
    \/ handleTransportConn(k) \/ AwaitAgentProof(k) \/ Refused(k)

Next ==
    \/ \E v \in VM : \/ Stop(v) \/ ListenTransport(v) \/ autoVZNAT(v) \/ AgentExits(v)
                     \/ UpMacSecret(v)
                     \/ \E i \in IP : Boot(v, i)
    \/ FileFault(Absent) \/ FileFault(Bad)
    \/ Publish \/ UpSecret \/ DeleteMalformed \/ DaemonExits \/ DaemonBoots
    \/ (\E g \in GuestIP : refresh(g)) \/ refreshCoalesced
    \/ \E k \in Conn : Dialling(k) \/ HandshakeTimeout(k)
    \/ ClientConnects \/ StreamDone

\* The event loop and the agents keep running.  The loop retries every second
\* and resolveMinInterval is three, so it resolves afresh again and again;
\* limactl does not fail for ever for the user who owns the VM, and never
\* answers under root.  launchd restarts the installed daemon and systemd A's
\* agent; autoVZNAT and publish retry for ever.
Fairness ==
    /\ WF_vars(Dialling("E")) /\ WF_vars(refreshCoalesced)
    /\ SF_vars(~root /\ refresh(ip["A"])) /\ SF_vars(root /\ refresh(NoIP))
    /\ WF_vars(root /\ DaemonBoots)
    /\ WF_vars(ListenTransport("A")) /\ WF_vars(autoVZNAT("A")) /\ WF_vars(Publish)

Spec == Init /\ [][Next]_vars /\ Fairness

-----------------------------------------------------------------------------
(* Properties *)

\* Addresses move, leases go stale, another machine owns the loopback port or
\* shares the lease name: a conn that carries a secret never comes up with any
\* machine but the daemon's own, and that machine's agent agreed to it
\* (handshake.go AwaitAgentProof, ServerHandshake; path.go FileName).
RightPeer ==
    \A k \in Conn : pc[k] = "up" /\ sec[k] # Absent => peer[k] = "A" /\ answer[k] = "auth"

\* No process drops authentication because a file disappeared under it.  Once
\* a read, the one at boot included, found a file, well-formed or not, or
\* -secret-file named one, no dial whose read starts later says hello without
\* a proof, and no agent serves a peer without one (latch.go LoadLatched).
NoDowngrade ==
    [][\A k \in Conn :
        /\ pc[k] # "sent" /\ pc'[k] = "sent" /\ sec'[k] = Absent => ~began[k]
        /\ answer[k] = None /\ answer'[k] = "plain" => ~agentKnown[peer[k]]]_vars

\* The machine runs and both files hold the same secret.  The daemon runs, or
\* launchd starts it, and it has a way to tell its machine from another of the
\* same lease name: limactl, a hardware pin, or podman's recorded port.
Converged ==
    /\ ip["A"] # NoIP /\ macFile[FileName("A")] \in Secret
    /\ guestFile["A"] = macFile[FileName("A")]
    /\ daemon \/ root
    /\ ~root \/ pin \/ provider = "podman"

\* Rotation and repair heal live: when both ends hold one secret for good, the
\* event session keeps coming up, with nobody restarting either process, from
\* every latch, stale address and half-done provisioning before it.
Heals == <>[]Converged => []<>(pc["E"] = "up")

(* Why the first two hold. *)

TypeOK ==
    /\ macFile \in [VM -> Nat] /\ guestFile \in [VM -> Nat]
    /\ upVM \in VM \cup {None} /\ made \in Nat
    /\ daemon \in BOOLEAN /\ require \in BOOLEAN
    /\ macLatch \in BOOLEAN /\ macKnown \in BOOLEAN
    /\ agentLatch \in [VM -> BOOLEAN] /\ agentKnown \in [VM -> BOOLEAN]
    /\ pc \in [Conn -> {"idle", "dialed", "read", "dial", "sent", "up", "end"}]
    /\ seen \in [Conn -> Nat] /\ sec \in [Conn -> Nat] /\ proof \in [Conn -> Nat]
    /\ began \in [Conn -> BOOLEAN] /\ peer \in [Conn -> VM \cup {None}]
    /\ answer \in [Conn -> {None, "closed", "plain", "auth"}]

\* A secret generated now is in no file and no process yet, and no secret of
\* the daemon's machine is also the other machine's.
OfA == {macFile["A"], guestFile["A"]} \cup {seen[k] : k \in Conn} \cup {sec[k] : k \in Conn}
OfB == {macFile["B"], guestFile["B"]}
Generated == \A f \in OfA \cup OfB : f <= made + 1
Apart == \A f \in OfA, g \in OfB : f = g => f <= Bad

\* A conn that said hello has a peer, only such a conn is answered, and only
\* the daemon's machine can prove the secret the conn carries.
Handshake ==
    \A k \in Conn :
        /\ pc[k] \in {"sent", "up"} => peer[k] \in VM
        /\ pc["E"] \in {"dialed", "read"} => peer["E"] \in VM
        /\ answer[k] # None => pc[k] \in {"sent", "up"}
        /\ answer[k] = "auth" => peer[k] = "A"
PeerInv == TypeOK /\ Generated /\ Apart /\ Handshake /\ RightPeer

\* What a read found is latched by the time it is known, and a conn whose read
\* began after that carries a secret.  Without a daemon there is no conn.
LatchInv ==
    /\ macKnown => daemon /\ macLatch
    /\ \A k \in Conn : pc[k] # "end" => daemon
    /\ \A v \in VM : agentKnown[v] => agentLatch[v]
    /\ \A k \in Conn : began[k] => macKnown /\ (pc[k] \in {"dial", "sent"} => sec[k] # Absent)

IInv == PeerInv /\ LatchInv

=============================================================================
