------------------------------ MODULE Tracker -------------------------------
(***************************************************************************)
(* The guest's listener tracker: the eBPF hooks (internal/bpf/c/tracker.c) *)
(* that count listeners in guest_ports and report the first and the last   *)
(* one of a key, the ring buffer, and the agent's side of it               *)
(* (internal/agent/agent.go seed, proc.go, tracker.go RunTracker).         *)
(*                                                                         *)
(* A hook runs on the CPU of the system call and interleaves with hooks of *)
(* other sockets, the seed and the reader at each map operation.  The      *)
(* hooks are attached in the initial state; sockets that already listen    *)
(* are those the seed is there for.                                        *)
(***************************************************************************)
EXTENDS Naturals, Sequences, FiniteSets

CONSTANTS
  Sock,       \* sockets
  Key,        \* map keys: (proto, addr, port)
  KeyOf,      \* KeyOf[s]: the key socket s binds
  Reuse,      \* keys whose sockets set SO_REUSEPORT
  Ephemeral,  \* TCP sockets bound with port 0: the port is gone when they stop
  Udp,        \* UDP sockets: they stay in /proc/net until they are unhashed
  Foreign,    \* sockets of another network namespace; drawbridge's own
              \* gateway listeners, which the hooks pass over too, are like
              \* them, on keys of their own
  SkCap,      \* entries of the LRU map sk_keys
  RingCap,    \* events the ring buffer holds
  Wrap,       \* values of a counter: 2^32
  MaxListens, \* bound: calls of listen
  Absent      \* no entry in guest_ports

ASSUME KeyAssumption == KeyOf \in [Sock -> Key]
ASSUME KindAssumption ==
  /\ Ephemeral \subseteq Sock /\ Udp \subseteq Sock /\ Foreign \subseteq Sock
  /\ Ephemeral \cap Udp = {}
  /\ Reuse \subseteq Key
ASSUME NumberAssumption ==
  /\ SkCap \in Nat \ {0} /\ RingCap \in Nat /\ MaxListens \in Nat
  /\ Wrap \in Nat /\ Wrap > 1
ASSUME AbsentAssumption == Absent \notin Nat

VARIABLES
  pc,         \* pc[s]: where socket s, or the hook that runs for it, is
  skKeys,     \* sk_keys: the sockets whose key is remembered
  guestPorts, \* guest_ports: the count of each key, or Absent
  ring,       \* tracker_events
  hub,        \* the hub's set
  unread,     \* sockets whose line of /proc/net the seed has yet to pass
  rows,       \* listeners scanned and not yet seeded
  seeding,    \* the one being seeded: "lookup" (none), or <<step, socket>>
  listens,    \* calls of listen so far
  hooked,     \* history: sockets whose add hook ran since they opened
  leaky,      \* history: keys that are shared, that the seed listed, or that
              \* sk_keys forgot
  dropped     \* history: keys an event of which found the ring full

vars == <<pc, skKeys, guestPorts, ring, hub, unread, rows, seeding, listens,
          hooked, leaky, dropped>>
seedVars == <<unread, rows, seeding>>

AddSteps == {"add_key", "add_find", "add_inc", "add_stale", "add_put", "add_emit"}
DelSteps == {"del_key", "del_find", "del_sub", "del_stale", "del_del", "del_emit"}
Event == [op : {"add", "del"}, key : Key]
Counts == 0..(Wrap - 1)

TypeOK ==
  /\ pc \in [Sock -> AddSteps \cup DelSteps \cup {"closed", "open"}]
  /\ skKeys \in SUBSET Sock
  /\ guestPorts \in [Key -> Counts \cup {Absent}]
  /\ ring \in Seq(Event) /\ Len(ring) <= RingCap
  /\ hub \in SUBSET Key
  /\ unread \in SUBSET Sock /\ rows \in SUBSET Sock
  /\ seeding \in {<<"lookup">>} \cup ({"put", "apply"} \X Sock)
  /\ listens \in 0..MaxListens
  /\ hooked \in SUBSET Sock
  /\ leaky \in SUBSET Key /\ dropped \in SUBSET Key

\* Sockets s and t cannot both be bound: the kernel's bind conflict.
Conflict(s, t) ==
  /\ s # t /\ KeyOf[s] = KeyOf[t] /\ KeyOf[s] \notin Reuse
  /\ s \in Foreign <=> t \in Foreign

\* Two tracked sockets never have key k at a time: it has no SO_REUSEPORT, and
\* no socket binds a port that an ephemeral one had.
Serial(k) ==
  /\ k \notin Reuse
  /\ \A s, t \in Sock : s # t /\ KeyOf[s] = k /\ KeyOf[t] = k => s \notin Ephemeral
Shared == {k \in Key : ~Serial(k)}

Init ==
  /\ pc \in [Sock -> {"closed", "open"}]
  /\ \A s, t \in Sock : pc[s] = "open" /\ pc[t] = "open" => ~Conflict(s, t)
  /\ skKeys = {} /\ guestPorts = [k \in Key |-> Absent]
  /\ ring = <<>> /\ hub = {}
  /\ unread = Sock /\ rows = {} /\ seeding = <<"lookup">>
  /\ listens = 0
  /\ hooked = {} /\ leaky = Shared /\ dropped = {}

-----------------------------------------------------------------------------
(* Sockets *)

\* s has its port.  An ephemeral one loses it before the stop hook runs.
HasPort(s) == pc[s] # "closed" /\ (s \in Ephemeral => pc[s] \notin DelSteps)

\* s shows in /proc/net.
Listed(s) ==
  /\ s \notin Foreign
  /\ pc[s] \in AddSteps \cup {"open"} \/ (s \in Udp /\ pc[s] \in DelSteps)

\* listen(2), or the bind of a UDP socket.
Listen(s) ==
  /\ pc[s] = "closed" /\ listens < MaxListens
  /\ \A t \in Sock : HasPort(t) => ~Conflict(s, t)
  /\ pc' = [pc EXCEPT ![s] = "add_key"]
  /\ listens' = listens + 1
  /\ UNCHANGED <<skKeys, guestPorts, ring, hub, seedVars, hooked, leaky, dropped>>

\* close(2): the kernel is about to call the hooked function.
Close(s) ==
  /\ pc[s] = "open"
  /\ pc' = [pc EXCEPT ![s] = "del_key"]
  /\ hooked' = hooked \ {s}
  /\ UNCHANGED <<skKeys, guestPorts, ring, hub, seedVars, listens, leaky, dropped>>

-----------------------------------------------------------------------------
(* What the hooks share *)

\* in_host_netns, and not is_gateway_addr.
InHostNetns(s) == s \notin Foreign

\* An update with BPF_ANY, or a delete, of key k: whoever found the old
\* element keeps a pointer to memory that is no longer in the map.
Replaced(k, moved) ==
  [s \in Sock |->
     IF KeyOf[s] = k /\ moved[s] = "add_inc" THEN "add_stale"
     ELSE IF KeyOf[s] = k /\ moved[s] = "del_sub" THEN "del_stale"
     ELSE moved[s]]

\* emit: an event that does not fit in the ring is dropped.
Emit(op, k) ==
  /\ ring' = IF Len(ring) < RingCap THEN Append(ring, [op |-> op, key |-> k]) ELSE ring
  /\ dropped' = IF Len(ring) < RingCap THEN dropped ELSE dropped \cup {k}

-----------------------------------------------------------------------------
(* track_add *)

\* The hook returns at once for a foreign socket.  For any other the
\* key is remembered; a full sk_keys forgets some other socket.
AddKey(s) ==
  /\ pc[s] = "add_key"
  /\ \/ /\ ~InHostNetns(s)
        /\ pc' = [pc EXCEPT ![s] = "open"]
        /\ UNCHANGED <<skKeys, leaky>>
     \/ /\ InHostNetns(s)
        /\ pc' = [pc EXCEPT ![s] = "add_find"]
        /\ \/ /\ Cardinality(skKeys \cup {s}) <= SkCap
              /\ skKeys' = skKeys \cup {s} /\ leaky' = leaky
           \/ \E t \in skKeys \ {s} :
                /\ Cardinality(skKeys \cup {s}) > SkCap
                /\ skKeys' = (skKeys \ {t}) \cup {s}
                /\ leaky' = IF t \in Ephemeral THEN leaky \cup {KeyOf[t]} ELSE leaky
  /\ UNCHANGED <<guestPorts, ring, hub, seedVars, listens, hooked, dropped>>

\* The lookup.
AddFind(s) ==
  /\ pc[s] = "add_find"
  /\ pc' = [pc EXCEPT ![s] =
              IF guestPorts[KeyOf[s]] = Absent THEN "add_put" ELSE "add_inc"]
  /\ UNCHANGED <<skKeys, guestPorts, ring, hub, seedVars, listens, hooked, leaky, dropped>>

\* __sync_fetch_and_add on the element found; on one no longer in the map it
\* is lost.
AddInc(s) ==
  /\ pc[s] \in {"add_inc", "add_stale"}
  /\ guestPorts' = IF pc[s] = "add_inc"
       THEN [guestPorts EXCEPT ![KeyOf[s]] = (@ + 1) % Wrap] ELSE guestPorts
  /\ pc' = [pc EXCEPT ![s] = "open"]
  /\ hooked' = hooked \cup {s}
  /\ UNCHANGED <<skKeys, ring, hub, seedVars, listens, leaky, dropped>>

\* The first listener of the key: bpf_map_update_elem, BPF_ANY.
AddPut(s) ==
  /\ pc[s] = "add_put"
  /\ guestPorts' = [guestPorts EXCEPT ![KeyOf[s]] = 1]
  /\ pc' = Replaced(KeyOf[s], [pc EXCEPT ![s] = "add_emit"])
  /\ UNCHANGED <<skKeys, ring, hub, seedVars, listens, hooked, leaky, dropped>>

AddEmit(s) ==
  /\ pc[s] = "add_emit"
  /\ Emit("add", KeyOf[s])
  /\ pc' = [pc EXCEPT ![s] = "open"]
  /\ hooked' = hooked \cup {s}
  /\ UNCHANGED <<skKeys, guestPorts, hub, seedVars, listens, leaky>>

TrackAdd(s) == AddKey(s) \/ AddFind(s) \/ AddInc(s) \/ AddPut(s) \/ AddEmit(s)

-----------------------------------------------------------------------------
(* track_del *)

\* Mutant: the key is always rebuilt from the socket.
KeyKnown_Rebuilt(s) == s \notin Ephemeral

\* The key is remembered, or can be rebuilt from the socket by fill_key.
KeyKnown(s) == s \in skKeys \/ s \notin Ephemeral

\* Mutant: a container's close is taken for the host's.
DelKey_AnyNetns(s) ==
  /\ pc[s] = "del_key"
  /\ pc' = [pc EXCEPT ![s] =
              IF KeyKnown(s) THEN "del_find" ELSE "closed"]
  /\ skKeys' = skKeys \ {s}
  /\ UNCHANGED <<guestPorts, ring, hub, seedVars, listens, hooked, leaky, dropped>>

\* The hook takes the remembered key, and forgets it.
DelKey(s) ==
  /\ pc[s] = "del_key"
  /\ pc' = [pc EXCEPT ![s] =
              IF InHostNetns(s) /\ KeyKnown(s) THEN "del_find" ELSE "closed"]
  /\ skKeys' = IF InHostNetns(s) THEN skKeys \ {s} ELSE skKeys
  /\ UNCHANGED <<guestPorts, ring, hub, seedVars, listens, hooked, leaky, dropped>>

DelFind(s) ==
  /\ pc[s] = "del_find"
  /\ pc' = [pc EXCEPT ![s] =
              IF guestPorts[KeyOf[s]] = Absent THEN "closed" ELSE "del_sub"]
  /\ UNCHANGED <<skKeys, guestPorts, ring, hub, seedVars, listens, hooked, leaky, dropped>>

\* __sync_sub_and_fetch, unsigned; on an element no longer in the map the
\* result is whatever that memory holds.
DelSub(s) ==
  LET left == (guestPorts[KeyOf[s]] + (Wrap - 1)) % Wrap IN
  \/ /\ pc[s] = "del_sub"
     /\ guestPorts' = [guestPorts EXCEPT ![KeyOf[s]] = left]
     /\ pc' = [pc EXCEPT ![s] = IF left > 0 THEN "closed" ELSE "del_del"]
     /\ UNCHANGED <<skKeys, ring, hub, seedVars, listens, hooked, leaky, dropped>>
  \/ /\ pc[s] = "del_stale"
     /\ \E next \in {"closed", "del_del"} : pc' = [pc EXCEPT ![s] = next]
     /\ UNCHANGED <<skKeys, guestPorts, ring, hub, seedVars, listens, hooked, leaky, dropped>>

\* Mutant: the last listener's removal is not reported.
DelDel_Unreported(s) ==
  /\ pc[s] = "del_del"
  /\ guestPorts' = [guestPorts EXCEPT ![KeyOf[s]] = Absent]
  /\ pc' = Replaced(KeyOf[s], [pc EXCEPT ![s] = "closed"])
  /\ UNCHANGED <<skKeys, ring, hub, seedVars, listens, hooked, leaky, dropped>>

\* The last listener of the key is gone.
DelDel(s) ==
  /\ pc[s] = "del_del"
  /\ guestPorts' = [guestPorts EXCEPT ![KeyOf[s]] = Absent]
  /\ pc' = Replaced(KeyOf[s], [pc EXCEPT ![s] = "del_emit"])
  /\ UNCHANGED <<skKeys, ring, hub, seedVars, listens, hooked, leaky, dropped>>

DelEmit(s) ==
  /\ pc[s] = "del_emit"
  /\ Emit("del", KeyOf[s])
  /\ pc' = [pc EXCEPT ![s] = "closed"]
  /\ UNCHANGED <<skKeys, guestPorts, hub, seedVars, listens, hooked, leaky>>

TrackDel(s) == DelKey(s) \/ DelFind(s) \/ DelSub(s) \/ DelDel(s) \/ DelEmit(s)

-----------------------------------------------------------------------------
(* The agent *)

\* RunTracker: the next event is applied to the hub's set.
RunTracker ==
  /\ ring # <<>>
  /\ hub' = IF Head(ring).op = "add" THEN hub \cup {Head(ring).key}
                                     ELSE hub \ {Head(ring).key}
  /\ ring' = Tail(ring)
  /\ UNCHANGED <<pc, skKeys, guestPorts, seedVars, listens, hooked, leaky, dropped>>

\* scanProcNet: a line is what the socket is when the read gets there.
ScanRow(s) ==
  /\ s \in unread
  /\ unread' = unread \ {s}
  /\ rows' = IF Listed(s) THEN rows \cup {s} ELSE rows
  /\ leaky' = IF Listed(s) THEN leaky \cup {KeyOf[s]} ELSE leaky
  /\ UNCHANGED <<pc, skKeys, guestPorts, ring, hub, seeding, listens, hooked, dropped>>

\* The seed writes a count only where there is none.
PutIfAbsent(k) == guestPorts[k] = Absent

SeedLookup(s) ==
  /\ unread = {} /\ seeding = <<"lookup">> /\ s \in rows
  /\ seeding' = <<IF PutIfAbsent(KeyOf[s]) THEN "put" ELSE "apply", s>>
  /\ rows' = rows \ {s}
  /\ UNCHANGED <<pc, skKeys, guestPorts, ring, hub, unread, listens, hooked, leaky, dropped>>

SeedPut(s) ==
  /\ seeding = <<"put", s>>
  /\ seeding' = <<"apply", s>>
  /\ guestPorts' = [guestPorts EXCEPT ![KeyOf[s]] = 1]
  /\ pc' = Replaced(KeyOf[s], pc)
  /\ UNCHANGED <<skKeys, ring, hub, unread, rows, listens, hooked, leaky, dropped>>

SeedApply(s) ==
  /\ seeding = <<"apply", s>>
  /\ seeding' = <<"lookup">>
  /\ hub' = hub \cup {KeyOf[s]}
  /\ UNCHANGED <<pc, skKeys, guestPorts, ring, unread, rows, listens, hooked, leaky, dropped>>

Seed == \E s \in Sock : ScanRow(s) \/ SeedLookup(s) \/ SeedPut(s) \/ SeedApply(s)

-----------------------------------------------------------------------------

Next ==
  \/ \E s \in Sock : Listen(s) \/ Close(s) \/ TrackAdd(s) \/ TrackDel(s)
  \/ RunTracker
  \/ Seed

Spec == Init /\ [][Next]_vars

-----------------------------------------------------------------------------
(* Properties *)

Seeded == unread = {} /\ rows = {} /\ seeding = <<"lookup">>
Tracked(s) == s \notin Foreign
Open(k) == {s \in Sock : Tracked(s) /\ KeyOf[s] = k /\ pc[s] = "open"}

\* No hook runs on a tracked socket and the seed is done.
Quiet == Seeded /\ \A s \in Sock : Tracked(s) => pc[s] \in {"closed", "open"}

(* The gateway never takes a guest's connect to a port the guest serves: a *)
(* listener whose hook has returned, or that was there before the hooks    *)
(* and the seed is through, has its key in guest_ports at every moment,    *)
(* whatever the hooks of other sockets, of containers and the seed do.     *)
(* Only a key that sockets share is not safe from its own sockets' hooks.  *)
NoMissed ==
  \A s \in Sock :
    pc[s] = "open" /\ Tracked(s) /\ Serial(KeyOf[s]) /\ (s \in hooked \/ Seeded)
      => guestPorts[KeyOf[s]] # Absent

(* A count is the number of listeners whenever no hook runs, short of the  *)
(* keys sockets share, the seed listed or the LRU forgot: no entry         *)
(* outlives its last listener and keeps the Mac's service of that port out *)
(* of reach.                                                               *)
CountExact ==
  Quiet => \A k \in Key \ leaky :
    guestPorts[k] = IF Open(k) = {} THEN Absent ELSE Cardinality(Open(k))

(* Once the ring is read, the hub has exactly the keys with a listener,    *)
(* short of those keys and of the ones the ring overflowed on: the events  *)
(* of a key are applied in the order of the changes they report.           *)
HubInStep ==
  Quiet /\ ring = <<>> => \A k \in Key \ (dropped \cup leaky) :
    k \in hub <=> Open(k) # {}

(* Why NoMissed holds: a key that is not shared is in the hands of one     *)
(* socket from listen to the end of its stop hook, so nobody else's hook   *)
(* takes its entry away, and the seed has still to come to a listener that *)
(* was there before the hooks, or it has its entry.                        *)
IInv ==
  /\ TypeOK
  /\ \A s, t \in Sock :
       s # t /\ Tracked(s) /\ Tracked(t) /\ KeyOf[s] = KeyOf[t] /\ Serial(KeyOf[s])
         => pc[s] = "closed" \/ pc[t] = "closed"
  /\ Shared \subseteq leaky
  /\ \A s \in Sock :
       /\ pc[s] \in {"add_inc", "del_sub"} => guestPorts[KeyOf[s]] # Absent
       /\ Tracked(s) /\ Serial(KeyOf[s]) /\ pc[s] \in {"add_stale", "add_emit"}
            => guestPorts[KeyOf[s]] # Absent
       /\ Tracked(s) /\ Serial(KeyOf[s]) /\ pc[s] = "open"
            => \/ guestPorts[KeyOf[s]] # Absent
               \/ s \notin hooked /\ (s \in unread \cup rows \/ seeding = <<"put", s>>)
       /\ pc[s] \in {"add_find", "add_inc", "add_stale", "add_put", "add_emit"}
               \cup (DelSteps \ {"del_key"})
            => Tracked(s)
       /\ pc[s] \in {"closed"} \cup DelSteps => s \notin hooked

(* Why the counts are exact.  Shared keys are leaky and the seed writes    *)
(* leaky keys only; of any other key the entry is the one of the socket    *)
(* that has the key, from the update of its add hook to the delete of its  *)
(* stop hook, which knows the key unless sk_keys forgot it.                *)
SeedLeaks ==
  /\ \A s \in rows : KeyOf[s] \in leaky
  /\ \A s \in Sock : seeding \in {<<"put", s>>, <<"apply", s>>} => KeyOf[s] \in leaky
Counted(s) ==
  LET count == guestPorts[KeyOf[s]] IN
  /\ pc[s] \notin {"add_inc", "add_stale", "del_stale"}
  /\ pc[s] = "add_emit" => count = 1
  /\ pc[s] = "open" => IF s \in hooked THEN count = 1 ELSE count = Absent /\ s \in unread
  /\ pc[s] \in {"del_key", "del_find"} => count \in {1, Absent}
  /\ pc[s] = "del_sub" => count = 1
  /\ pc[s] = "del_del" => count = 0
  /\ pc[s] \in {"add_find", "add_put"} => KeyKnown(s)
  /\ pc[s] \in {"add_emit", "open", "del_key"} /\ count # Absent => KeyKnown(s)
WithEntry == {"add_emit", "open", "del_key", "del_find", "del_sub", "del_del"}
CountInv ==
  /\ SeedLeaks
  /\ \A s \in Sock : Tracked(s) /\ KeyOf[s] \notin leaky => Counted(s)
  /\ \A k \in Key \ leaky : guestPorts[k] # Absent =>
       \E s \in Sock : Tracked(s) /\ KeyOf[s] = k /\ pc[s] \in WithEntry

(* Why the hub is in step: what it will have of a key once the ring is     *)
(* read is whether the key's socket has been reported and its end has not. *)
LastIsAdd(r, k) ==
  \E i \in 1..Len(r) : /\ r[i].key = k /\ r[i].op = "add"
                       /\ \A j \in 1..Len(r) : j > i => r[j].key # k
NoEvent(r, k) == \A i \in 1..Len(r) : r[i].key # k
HubToBe(r, h, k) == LastIsAdd(r, k) \/ (NoEvent(r, k) /\ k \in h)
Reported(s) ==
  \/ pc[s] = "open" /\ s \in hooked
  \/ pc[s] \in {"del_key", "del_find"} /\ guestPorts[KeyOf[s]] # Absent
  \/ pc[s] \in {"del_sub", "del_del", "del_emit"}
HubInv ==
  \A k \in Key \ (dropped \cup leaky) :
    HubToBe(ring, hub, k) <=> \E s \in Sock : Tracked(s) /\ KeyOf[s] = k /\ Reported(s)
=============================================================================
