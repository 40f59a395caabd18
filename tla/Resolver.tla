------------------------------ MODULE Resolver ------------------------------
(***************************************************************************)
(* Where a guest's agent is dialled (internal/limaaddr, internal/          *)
(* podmanaddr): the guest's own word, the host's DHCP lease database, the  *)
(* Lima SSH forward, or a podman machine's recorded port.  Pure operators; *)
(* what answers a dial is an argument.                                     *)
(***************************************************************************)
EXTENDS Naturals, FiniteSets

CONSTANTS
    Usable,             \* private IPv4 addresses outside Lima's user-mode 192.168.5.0/24
    Subnet,             \* the addresses of the vmnet subnet
    NoIP, NoHW, BadHW,  \* no address; no hardware pin; one that does not parse
    Loopback,           \* 127.0.0.1
    maxLeaseCandidates

\* A lease record is [name, ip, hw, expiry]; a target [provider, leaseName, hw].
\* The name is the guest's choice, the address and the hardware address are not.
leaseMatches(l, t) ==
    /\ l.name = t.leaseName /\ l.ip \in Usable \cap Subnet
    /\ t.hw # NoHW => l.hw = t.hw /\ l.hw # BadHW

\* Newest lease first, file order between equals.
newer(leases, i, j) ==
    \/ leases[i].expiry > leases[j].expiry
    \/ leases[i].expiry = leases[j].expiry /\ i < j

\* The leases that are dialled: of each address the newest, at most
\* maxLeaseCandidates of them.
leaseCandidatesFrom(leases, t) ==
    LET at == {i \in DOMAIN leases : leaseMatches(leases[i], t)}
        first == {i \in at : \A j \in at : leases[j].ip = leases[i].ip /\ j # i => newer(leases, i, j)}
    IN  {i \in first : Cardinality({j \in first : newer(leases, j, i)}) < maxLeaseCandidates}

\* Only a Lima instance owns the forwarded loopback port.
fallback(t) ==
    IF t.provider = "lima" THEN [ip |-> Loopback, source |-> "ssh-forwarder"]
                           ELSE [ip |-> NoIP, source |-> "unresolved"]

\* The guest's own word, then the leases: the first that accepts a connection.
\* A lease of an address already dialled is not dialled again.  An unreadable
\* lease database is an empty one here: only the note differs.
ResolveTarget(t, guestIP, leases, answers) ==
    LET up == {i \in leaseCandidatesFrom(leases, t) : leases[i].ip \in answers}
        best == CHOOSE i \in up : \A j \in up : j # i => newer(leases, i, j)
    IN  IF guestIP # NoIP /\ guestIP \in answers THEN [ip |-> guestIP, source |-> "vznat-direct"]
        ELSE IF up # {} THEN [ip |-> leases[best].ip, source |-> "vznat-leases"]
        ELSE fallback(t)

\* A podman machine: the recorded port, dialled only to phrase the note.
ResolvePodman(recorded) ==
    [ip |-> IF recorded THEN Loopback ELSE NoIP, source |-> "gvproxy-publish"]

=============================================================================
