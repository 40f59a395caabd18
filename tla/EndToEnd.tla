------------------------------ MODULE EndToEnd ------------------------------
(***************************************************************************)
(* From a guest's socket to the Mac's port: the eBPF tracker (Tracker),    *)
(* the hub and its 'E' sessions (TrackerHub) and the mirror table (Mirror) *)
(* side by side.  They meet in what they share: the set the tracker's      *)
(* reader keeps, short of the noise apply refuses, is the hub's set, and   *)
(* the view the client builds from the session's events is the feed the    *)
(* table is written against.                                               *)
(***************************************************************************)
EXTENDS Mirror

CONSTANTS
  \* the tracker; its keys are the mirror's listeners
  Sock, ListenerOf, Reuse, Ephemeral, UdpSock, Foreign, SkCap, RingCap, Wrap,
  MaxListens, Absent,
  \* the hub
  Noise, Session, Cap, NoSession

VARIABLES
  pc, skKeys, guestPorts, ring, hub, unread, rows, seeding, listens, hooked,
  leaky, dropped,
  subs, ch, closed, live, wire, client

T == INSTANCE TrackerProofs WITH Key <- Listener, KeyOf <- ListenerOf, Udp <- UdpSock
H == INSTANCE TrackerHubProofs WITH set <- hub \ Noise, None <- NoSession

\* What Tracker and TrackerHub assume of their constants.
TrackerConstants ==
  /\ ListenerOf \in [Sock -> Listener]
  /\ Ephemeral \subseteq Sock /\ UdpSock \subseteq Sock /\ Foreign \subseteq Sock
  /\ Ephemeral \cap UdpSock = {} /\ Reuse \subseteq Listener
  /\ SkCap \in Nat \ {0} /\ RingCap \in Nat /\ MaxListens \in Nat
  /\ Wrap \in Nat /\ Wrap > 1 /\ Absent \notin Nat
HubConstants ==
  Noise \subseteq Listener /\ Cap \in Nat \ {0} /\ NoSession \notin Session

\* The three run together; each has steps of its own, and where they share
\* state a step of one is a step of the other.
SystemSpec == T!Spec /\ H!Spec /\ Spec

\* All that happened in the guest has reached the client.
Settled ==
  T!Quiet /\ ring = <<>> /\ client \in subs /\ H!Pipeline(client) = <<>>

\* The addresses the guest listens on, as the hub knows them.
Served == {l \in Listener \ Noise : T!Open(l) # {}}

(* What the Mac offers is what the guest serves: once the guest's changes  *)
(* have gone all the way, a port of the Mac is mirrored exactly while the  *)
(* guest has a mirrorable listener on it, and counts them, short of ports  *)
(* the Mac refused and of listeners the tracker may be wrong about: those  *)
(* that sockets share, the seed listed, or sk_keys or a full ring forgot.  *)
MirrorsTheGuest ==
  Settled =>
    \A k \in Key \ denied :
      (\A l \in leaky \cup dropped : KeyOf[l] # k) =>
        IF Bound(k) /\ ~mirrors[k].pending
          THEN mirrors[k].refs = Wanted(Served, k)
          ELSE Wanted(Served, k) = 0
=============================================================================
