------------------------------- MODULE Mirror -------------------------------
(***************************************************************************)
(* The Mac daemon's mirror table (internal/mirror/mirror.go, udp.go).      *)
(*                                                                         *)
(* Two goroutines change the table under c.mu: the 'E' session, which      *)
(* applies the guest's listener events (the feed), and the 'R' session,    *)
(* which reserves a port ahead of a guest bind.  A timer per reservation   *)
(* releases it unless it was adopted.  Native Mac programs bind and close  *)
(* the same ports meanwhile.  XNU's SO_REUSEADDR semantics: a bind of      *)
(* MirrorIP:port collides with an exact bind only, never with a wildcard.  *)
(***************************************************************************)
EXTENDS Feed, Naturals, FiniteSets

CONSTANTS Key,        \* mirror keys: (proto, port)
          KeyOf,      \* KeyOf[l]: the key of listener l
          Mirrorable, \* listeners that pass mirrorable()
          Skip,       \* keys whose port is on the skip-list
          Udp,        \* keys with proto udp
          Hows,       \* how Mac programs bind ports: "exact", "wild" or both
          Id,         \* identities of reservation entries (pointers)
          None        \* no entry; also the identity of an unreserved entry

ASSUME KeyAssumption == KeyOf \in [Listener -> Key]
ASSUME SubsetAssumption ==
  Mirrorable \subseteq Listener /\ Skip \subseteq Key /\ Udp \subseteq Key
ASSUME ListenerFinite == IsFiniteSet(Listener)
ASSUME HowsAssumption == Hows \subseteq {"exact", "wild"}
ASSUME NoneAssumption ==
  None \notin Id /\ None \notin [id : Id \cup {None}, refs : Nat, pending : BOOLEAN]

VARIABLES
  mirrors,   \* c.mirrors: the entry of each key, or None
  timers,    \* <<k, i>>: the release timer of reservation i of key k runs
  obs,       \* c.obs: the recorded non-bound outcome of each key
  native,    \* native[k]: how Mac programs hold k, a subset of Hows
  blind,     \* MacHolder's enumeration of the Mac's listeners fails
  promised,  \* history: reservations acknowledged, neither adopted nor expired
  lost,      \* history: those of them that closeAll has closed
  joined,    \* history: keys with a bind acknowledged on an entry that was there
  denied     \* history: keys this session wanted and could not open

vars == <<up, view, mirrors, timers, obs, native, blind, promised, lost, joined, denied>>

Entry == [id : Id \cup {None}, refs : Nat, pending : BOOLEAN]
Bound(k) == mirrors[k] # None
Pending(k) == Bound(k) /\ mirrors[k].pending

TypeOK ==
  /\ FeedTypeOK
  /\ mirrors \in [Key -> Entry \cup {None}]
  /\ timers \in SUBSET (Key \X Id)
  /\ obs \in [Key -> {"none", "skipped", "bind-failed"}]
  /\ native \in [Key -> SUBSET Hows]
  /\ blind \in BOOLEAN
  /\ promised \in SUBSET (Key \X Id)
  /\ lost \in SUBSET (Key \X Id)
  /\ joined \in SUBSET Key
  /\ denied \in SUBSET Key

Init ==
  /\ FeedInit
  /\ mirrors = [k \in Key |-> None]
  /\ timers = {}
  /\ obs = [k \in Key |-> "none"]
  /\ native \in [Key -> SUBSET Hows]
  /\ blind \in BOOLEAN
  /\ promised = {} /\ lost = {} /\ joined = {} /\ denied = {}

-----------------------------------------------------------------------------
(* Opening a mirror *)

\* Mutant: the wildcard holder is not looked up.
MacHeld_Unasked(k) == FALSE

\* macHeld names a wildcard holder of k.  A read that fails answers as if
\* there were none, and openUDPLocked does not ask.
MacHeld(k) == k \notin Udp /\ "wild" \in native[k] /\ ~blind

\* net.Listen on MirrorIP:port succeeds, Mac programs holding the port as in
\* held.  A port below 1024 that the daemon may not bind is one that "exact"
\* never leaves.
BindOK(held) == "exact" \notin held

Fresh(refs) == [id |-> None, refs |-> refs, pending |-> FALSE]

\* c.mu keeps the daemon's own goroutines out between the lookup and
\* net.Listen, but not Mac programs: what they hold of the TCP keys K when
\* net.Listen runs.
Meanwhile(K) ==
  {n \in [Key -> SUBSET Hows] : \A k \in Key \ (K \ Udp) : n[k] = native[k]}

\* openLocked and openUDPLocked open the mirror: the lookup named no holder,
\* and net.Listen, with the port held as in n by then, succeeds.
Opens(k, n) == ~MacHeld(k) /\ BindOK(n[k])

\* forget for the keys opened, observe for the skipped and the failed ones.
Observed(opened, failed, skipped) ==
  [k \in Key |-> CASE k \in opened  -> "none"
                   [] k \in failed  -> "bind-failed"
                   [] k \in skipped -> "skipped"
                   [] OTHER         -> obs[k]]

-----------------------------------------------------------------------------
(* The 'E' session *)

\* The mirrorable listeners of S on key k.
Of(S, k) == {l \in S \cap Mirrorable : KeyOf[l] = k}

\* want[key]
Wanted(S, k) == IF k \in Skip THEN 0 ELSE Cardinality(Of(S, k))

\* Mutant: a reservation that is not in the snapshot is not kept.
Unwanted_Closed(e) == None

\* A bound entry the snapshot does not want is closed unless it is pending.
Unwanted(e) == IF e.pending THEN e ELSE None

\* The entry of k after reconcile.
Reconciled(S, k, n) ==
  IF Bound(k)
    THEN IF Wanted(S, k) = 0
           THEN Unwanted(mirrors[k])
           ELSE [mirrors[k] EXCEPT !.pending = FALSE, !.refs = Wanted(S, k)]
    ELSE IF Wanted(S, k) > 0 /\ Opens(k, n) THEN Fresh(Wanted(S, k)) ELSE None

\* reconcile
Reconcile(S) ==
  LET missing == {k \in Key : ~Bound(k) /\ Wanted(S, k) > 0} IN
  \E n \in Meanwhile(missing) :
    LET opened == {k \in missing : Opens(k, n)} IN
    /\ mirrors' = [k \in Key |-> Reconciled(S, k, n)]
    /\ obs' = Observed(opened, missing \ opened, {k \in Skip : Of(S, k) # {}})
    /\ promised' = {p \in promised : Wanted(S, p[1]) = 0}
    /\ lost' = lost \cap promised'
    /\ joined' = {k \in joined : Wanted(S, k) = 0}
    /\ denied' = missing \ opened
    /\ native' = n
    /\ UNCHANGED <<timers, blind>>

OnSnapshot(S) == FeedSnapshot(S) /\ Reconcile(S)

\* Adopted, or one more listener of the key.
Counted(e) ==
  IF e.pending THEN [e EXCEPT !.pending = FALSE, !.refs = 1]
               ELSE [e EXCEPT !.refs = @ + 1]

\* add of a listener that is mirrored already, or whose port was reserved.
OnAddBound(l) ==
  LET k == KeyOf[l] IN
  /\ FeedAdd(l)
  /\ l \in Mirrorable /\ k \notin Skip
  /\ Bound(k)
  /\ mirrors' = [mirrors EXCEPT ![k] = Counted(@)]
  /\ promised' = {p \in promised : p[1] # k}
  /\ lost' = lost \cap promised'
  /\ joined' = joined \ {k}
  /\ UNCHANGED <<timers, obs, native, blind, denied>>

\* add of the first listener of a key: openLocked.
OnAddOpen(l) ==
  LET k == KeyOf[l] IN
  /\ FeedAdd(l)
  /\ l \in Mirrorable /\ k \notin Skip
  /\ ~Bound(k)
  /\ \E n \in Meanwhile({k}) :
       /\ mirrors' = [mirrors EXCEPT ![k] = IF Opens(k, n) THEN Fresh(1) ELSE None]
       /\ obs' = IF Opens(k, n) THEN Observed({k}, {}, {}) ELSE Observed({}, {k}, {})
       /\ denied' = IF Opens(k, n) THEN denied ELSE denied \cup {k}
       /\ native' = n
  /\ joined' = joined \ {k}
  /\ UNCHANGED <<timers, blind, promised, lost>>

\* add of a listener that is not mirrored: declined records a skipped port.
OnAddIgnored(l) ==
  /\ FeedAdd(l)
  /\ l \notin Mirrorable \/ KeyOf[l] \in Skip
  /\ obs' = Observed({}, {}, {KeyOf[l]} \cap {k \in Skip : l \in Mirrorable})
  /\ UNCHANGED <<mirrors, timers, native, blind, promised, lost, joined, denied>>

\* Mutant: the last reference does not close the mirror.
Uncounted_OffByOne(e) ==
  IF e.pending THEN e
  ELSE IF e.refs < 1 THEN None ELSE [e EXCEPT !.refs = @ - 1]

\* One listener of the key less; the last one closes the mirror.
Uncounted(e) ==
  IF e.pending THEN e
  ELSE IF e.refs <= 1 THEN None ELSE [e EXCEPT !.refs = @ - 1]

\* del
OnDel(l) ==
  LET k == KeyOf[l] IN
  /\ FeedDel(l)
  /\ mirrors' = IF l \in Mirrorable /\ Bound(k)
                  THEN [mirrors EXCEPT ![k] = Uncounted(@)] ELSE mirrors
  /\ UNCHANGED <<timers, obs, native, blind, promised, lost, joined, denied>>

\* The session ends (or the dial fails): closeAll closes every mirror.
OnDrop ==
  /\ FeedDrop
  /\ mirrors' = [k \in Key |-> None]
  /\ lost' = promised
  /\ joined' = {} /\ denied' = {}
  /\ UNCHANGED <<timers, obs, native, blind, promised>>

-----------------------------------------------------------------------------
(* The 'R' session: handleReserve *)

\* A port on the skip-list is recorded and acknowledged, nothing is bound.
ReserveSkipped(k) ==
  /\ k \in Skip \ Udp
  /\ obs' = Observed({}, {}, {k})
  /\ UNCHANGED <<up, view, mirrors, timers, native, blind, promised, lost, joined, denied>>

\* A key that is bound already, mirrored or reserved, is acknowledged as it is:
\* the acknowledgement has no timer and no reference of its own.
ReserveBound(k) ==
  /\ k \notin Skip \cup Udp
  /\ Bound(k)
  /\ joined' = joined \cup {k}
  /\ UNCHANGED <<up, view, mirrors, timers, obs, native, blind, promised, lost, denied>>

\* The real mirror listener is bound as a pending entry before the answer,
\* and its release timer started.  With a holder or a failed bind the answer
\* is "inuse" or "unknown" and nothing changes.
Reserve(k, i) ==
  /\ k \notin Skip \cup Udp
  /\ ~Bound(k)
  /\ \E n \in Meanwhile({k}) : Opens(k, n) /\ native' = n
  /\ \A j \in Key : <<j, i>> \notin timers
  /\ mirrors' = [mirrors EXCEPT ![k] =
                   [id |-> i, refs |-> 0, pending |-> TRUE]]
  /\ obs' = Observed({k}, {}, {})
  /\ timers' = timers \cup {<<k, i>>}
  /\ promised' = promised \cup {<<k, i>>}
  /\ UNCHANGED <<up, view, blind, lost, joined, denied>>

\* Mutant: the timer does not look at pending.
Releases_Adopted(k, i) == Bound(k) /\ mirrors[k].id = i

\* The entry is still the one the timer was set for, and still pending.
Releases(k, i) == Pending(k) /\ mirrors[k].id = i

\* releaseIfPending
TimerFire(k, i) ==
  /\ <<k, i>> \in timers
  /\ timers' = timers \ {<<k, i>>}
  /\ mirrors' = IF Releases(k, i) THEN [mirrors EXCEPT ![k] = None] ELSE mirrors
  /\ promised' = promised \ {<<k, i>>}
  /\ lost' = lost \ {<<k, i>>}
  /\ UNCHANGED <<up, view, obs, native, blind, joined, denied>>

-----------------------------------------------------------------------------
(* Mac programs *)

NativeOpen(k, how) ==
  /\ how \notin native[k]
  /\ how = "exact" => ~Bound(k)
  /\ native' = [native EXCEPT ![k] = @ \cup {how}]
  /\ UNCHANGED <<up, view, mirrors, timers, obs, blind, promised, lost, joined, denied>>

NativeClose(k, how) ==
  /\ how \in native[k]
  /\ native' = [native EXCEPT ![k] = @ \ {how}]
  /\ UNCHANGED <<up, view, mirrors, timers, obs, blind, promised, lost, joined, denied>>

\* The enumeration of the Mac's listeners starts to fail, or works again.
Enumeration ==
  /\ blind' = ~blind
  /\ UNCHANGED <<up, view, mirrors, timers, obs, native, promised, lost, joined, denied>>

-----------------------------------------------------------------------------

OnAdd(l) == OnAddBound(l) \/ OnAddOpen(l) \/ OnAddIgnored(l)
EventStep ==
  \/ \E S \in SUBSET Listener : OnSnapshot(S)
  \/ \E l \in Listener : OnAdd(l) \/ OnDel(l)
  \/ OnDrop
ReserveStep ==
  \E k \in Key : \/ ReserveSkipped(k) \/ ReserveBound(k)
                \/ \E i \in Id : Reserve(k, i) \/ TimerFire(k, i)
NativeStep ==
  \/ \E k \in Key, how \in Hows : NativeOpen(k, how) \/ NativeClose(k, how)
  \/ Enumeration

Next == EventStep \/ ReserveStep \/ NativeStep

Spec == Init /\ [][Next]_vars

-----------------------------------------------------------------------------
(* Properties *)

(* A mirror that is not a reservation stands for guest listeners: at least *)
(* one and at most as many as it counts are in what the guest has told us, *)
(* and its port is not on the skip-list.  So no port of the Mac stays      *)
(* taken for a guest service that is gone, whatever the order of events,   *)
(* reservations, timers and reconnects.                                    *)
NoPhantomMirror ==
  \A k \in Key : Bound(k) /\ ~mirrors[k].pending =>
    mirrors[k].refs \in 1..Wanted(view, k)

(* A reservation has its timer: whatever happens to the sessions, nothing  *)
(* keeps a port of the Mac reserved for good.                              *)
PendingHasTimer ==
  \A k \in Key : Pending(k) => <<k, mirrors[k].id>> \in timers

(* Short of a lost session, a reservation with an entry of its own is held *)
(* until it is adopted or its own timer fires: no snapshot, no del of an   *)
(* older listener of the port and no timer of an earlier reservation ends  *)
(* it.  One acknowledged on an entry that was there has only that entry    *)
(* (handleReserve's early return): it is held for certain only while an    *)
(* older listener of the port is left or the earlier reservation runs, and *)
(* the last del or the earlier timer ends it.                              *)
OwnReservationHeld ==
  \A p \in promised \ lost : Pending(p[1]) /\ mirrors[p[1]].id = p[2]
JoinedReservationHeld ==
  \A k \in joined \ denied :
    Wanted(view, k) > 0 \/ (\E i \in Id : <<k, i>> \in promised \ lost) => Bound(k)
HeldWhileConnected == OwnReservationHeld /\ JoinedReservationHeld

(* A port that could be bound whenever this session wanted it is mirrored  *)
(* exactly while the guest listens on it, and counts exactly the guest's   *)
(* listeners: no reservation, timer or reconnect skews a count or closes a *)
(* live mirror, whatever Mac programs do to other ports.                   *)
ExactMirrors ==
  up => \A k \in Key \ denied :
    IF Bound(k) /\ ~mirrors[k].pending
      THEN mirrors[k].refs = Wanted(view, k)
      ELSE Wanted(view, k) = 0

(* A bind failure that healed stops reporting itself (comment on forget),  *)
(* and a skipped port is never bound.                                      *)
HealedForgotten ==
  \A k \in Key : Bound(k) => obs[k] = "none"

(* While the enumeration works, no mirror of a TCP port opens, by event,   *)
(* snapshot or reservation, where a Mac program served it on a wildcard    *)
(* when the daemon looked: its loopback traffic is not taken.  A program   *)
(* that binds the wildcard between the lookup and net.Listen, or later, is *)
(* shadowed; c.mu does not keep it out.                                    *)
NoShadowOpen ==
  [][\A k \in Key \ Udp :
       ~blind /\ ~Bound(k) /\ mirrors'[k] # None
         => "wild" \notin native[k]]_vars

(* Why the invariants hold: with the session down nothing is mirrored but  *)
(* reservations, and every reservation entry has a history of its own.     *)
IInv ==
  /\ TypeOK /\ NoPhantomMirror /\ ExactMirrors /\ OwnReservationHeld
  /\ HealedForgotten
  /\ ~up => view = {}
  /\ \A k \in Skip : ~Bound(k)
  /\ lost \subseteq promised /\ promised \subseteq timers
  /\ \A k \in Key : Pending(k) => <<k, mirrors[k].id>> \in promised \ lost
=============================================================================
