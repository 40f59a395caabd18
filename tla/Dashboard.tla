------------------------------ MODULE Dashboard ------------------------------
(***************************************************************************)
(* The terminal dashboard (internal/tui) over the daemons' refusal rings   *)
(* (internal/introspect).  Update is one goroutine; fetches and doctor     *)
(* runs are goroutines of their own whose messages reach it in any order,  *)
(* between any two keys.  A daemon is a socket path, its snapshot is its   *)
(* refusal ring; rendering, the help card, scrolling and the row cursors   *)
(* are left out (a cursor moves freely, so enter picks any row).           *)
(***************************************************************************)
EXTENDS Integers, Sequences, SequencesExt

CONSTANTS
    Discover,       \* the socket paths, the root daemon's first
    PinVM,          \* the path whose daemon -vm names, None without the flag
    None,
    Fetch,          \* fetch goroutines
    RingSize, refusalCap, maxMissedTicks,
    MaxRefusals,    \* refusals recorded, by all daemons
    MaxKeys,        \* keys pressed
    MaxStops        \* daemons stopping, being replaced or late to answer

Path == Range(Discover)
Gen == 1 .. MaxKeys

ASSUME DashboardAssumption ==
    /\ None \notin Path /\ PinVM \in Path \cup {None}
    /\ Discover \in Seq(Path) /\ RingSize \in Nat \ {0} /\ refusalCap \in Nat /\ RingSize <= refusalCap
    /\ maxMissedTicks \in Nat /\ MaxKeys \in Nat

VARIABLES
    daemon,         \* path: "up", "skewed" (a schema this build does not know), "down"
    ring,           \* its refusals, oldest first, numbered as they are recorded
    recorded,       \* how many it has recorded
    wiped,          \* how many it had when its ring was last lost
    stops,
    left, got,      \* a fetch: the paths still to read; what it read
    fetching,       \* the guard of the 1 Hz tick
    snaps, skewed,  \* paths in the switcher; sockets of another schema
    missed,         \* missedTicks
    log, mark,      \* refusals; refusalsSeen, 0 for none
    selected, pinned,
    pane, view, overlay,    \* overlay: "none", "switcher"
    keys,
    phase, restore, \* doctorState
    gen, reported, err, \* the runs the report and the error came from, 0 for none
    run,            \* run: "off", "live", "canceled", "landed", "void" (canceled, and over)
    shown           \* history: what a path's pane has had on screen

daemons == <<daemon, ring, recorded, wiped, stops>>
fetches == <<left, got, fetching>>
table == <<snaps, skewed, missed, log>>
choice == <<selected, pinned>>
screen == <<pane, view, overlay>>
seen == <<mark, shown>>
doctor == <<phase, restore, gen, reported, err, run>>
vars == <<daemons, fetches, table, choice, screen, seen, doctor, keys>>

NoSnap == [usable |-> FALSE, answered |-> FALSE, ring |-> <<>>]

Init ==
    /\ daemon \in [Path -> {"up", "down"}] /\ ring = [p \in Path |-> <<>>]
    /\ recorded = [p \in Path |-> 0] /\ wiped = [p \in Path |-> 0] /\ stops = 0
    /\ got = [f \in Fetch |-> [p \in Path |-> NoSnap]]
    /\ \E f \in Fetch : left = [g \in Fetch |-> IF g = f THEN Discover ELSE <<None>>]
    /\ fetching = TRUE
    /\ snaps = {} /\ skewed = {} /\ missed = [p \in Path |-> 0]
    /\ log = [p \in Path |-> <<>>] /\ mark = [p \in Path |-> 0]
    /\ selected = None /\ pinned = FALSE
    /\ keys = 0 /\ pane = FALSE /\ view = "dashboard" /\ overlay = "none"
    /\ phase = "idle" /\ restore = "idle" /\ gen = 0 /\ reported = 0 /\ err = 0
    /\ run = [g \in Gen |-> "off"] /\ shown = [p \in Path |-> {}]

-----------------------------------------------------------------------------
(* The daemons. *)

Newest(s, n) == SubSeq(s, IF Len(s) > n THEN Len(s) - n + 1 ELSE 1, Len(s))

MayRefuse == FoldFunction(+, 0, recorded) < MaxRefusals

Record(p) ==
    /\ daemon[p] # "down" /\ MayRefuse
    /\ recorded' = [recorded EXCEPT ![p] = @ + 1]
    /\ ring' = [ring EXCEPT ![p] = Newest(Append(@, recorded'[p]), RingSize)]
    /\ UNCHANGED <<daemon, wiped, stops, fetches, table, choice, screen, seen, doctor>>

\* A daemon exits, starts, restarts or is replaced by another version; its
\* ring goes with it.
Stop(p, d) ==
    /\ stops < MaxStops /\ (daemon[p] = d => d = "up")
    /\ stops' = stops + 1
    /\ daemon' = [daemon EXCEPT ![p] = d]
    /\ ring' = [ring EXCEPT ![p] = <<>>] /\ wiped' = [wiped EXCEPT ![p] = recorded[p]]
    /\ UNCHANGED <<recorded, fetches, table, choice, screen, seen, doctor>>

-----------------------------------------------------------------------------
(* Fetching. *)

\* Mutant: every tick fetches.
wantFetch_Always == TRUE

\* A tick whose predecessor's fetch has not returned drops its refresh.
wantFetch == ~fetching

Idle(f) == left[f] = <<None>>

Tick(f) ==
    /\ Idle(f) /\ wantFetch
    /\ fetching' = TRUE /\ left' = [left EXCEPT ![f] = Discover]
    /\ UNCHANGED <<daemons, got, table, choice, screen, seen, doctor>>

\* FetchAll: one socket after another.  A live daemon may not answer within the
\* dial timeout; its ring is none the worse for it.
FetchOne(f) ==
    /\ ~Idle(f) /\ left[f] # <<>>
    /\ \E late \in BOOLEAN :
         LET p == Head(left[f])
         IN  /\ late => daemon[p] # "down" /\ stops < MaxStops
             /\ stops' = IF late THEN stops + 1 ELSE stops
             /\ got' = [got EXCEPT ![f][p] =
                         IF late \/ daemon[p] = "down" THEN NoSnap
                         ELSE [answered |-> TRUE, usable |-> daemon[p] = "up",
                               ring |-> IF daemon[p] = "up" THEN ring[p] ELSE <<>>]]
    /\ left' = [left EXCEPT ![f] = Tail(@)]
    /\ UNCHANGED <<daemon, ring, recorded, wiped, fetching, table, choice, screen, seen, doctor>>

\* What the ring adds to a log: the entries it does not hold yet, in ring order.
accumulate(l, r) ==
    LET add == {i \in DOMAIN r : ~Contains(l, r[i])}
        nth(k) == CHOOSE i \in add : Cardinality({j \in add : j <= i}) = k
    IN  Newest(l \o [k \in 1 .. Cardinality(add) |-> r[nth(k)]], refusalCap)

mergeRefusals(kept, g) ==
    [p \in Path |-> accumulate(IF p \in kept THEN log[p] ELSE <<>>, g[p].ring)]

\* A path that stopped answering keeps its place for maxMissedTicks fetches.
Missed(g) ==
    [p \in Path |-> IF p \in snaps /\ ~g[p].usable /\ missed[p] < maxMissedTicks THEN missed[p] + 1 ELSE 0]

Kept(g) == {p \in Path : g[p].usable \/ Missed(g)[p] > 0}

\* The selection is a path: it moves when -vm's daemon first shows up, unless
\* the user has chosen, or when the path is gone.
resolveSelection(kept) ==
    IF ~pinned /\ PinVM \in kept THEN [sel |-> PinVM, pin |-> TRUE]
    ELSE [sel |-> IF selected \in kept THEN selected
                  ELSE IF kept = {} THEN None
                  ELSE Head(SelectSeq(Discover, LAMBDA p : p \in kept)),
          pin |-> pinned]

\* With the pane open the selected path's log is on screen; its newest line is
\* the watermark.
markRefusalsSeen(open, sel, l, m) ==
    LET on == open /\ sel # None /\ (sel # None => l[sel] # <<>>)
    IN  /\ mark' = IF on THEN [m EXCEPT ![sel] = Last(l[sel])] ELSE m
        /\ shown' = IF on THEN [shown EXCEPT ![sel] = @ \cup Range(l[sel])] ELSE shown

pruneSeen(l) == [p \in Path |-> IF l[p] = <<>> THEN 0 ELSE mark[p]]

applySnapshots(f) ==
    /\ left[f] = <<>>
    /\ left' = [left EXCEPT ![f] = <<None>>] /\ got' = [got EXCEPT ![f] = [p \in Path |-> NoSnap]]
    /\ fetching' = FALSE
    /\ LET g == got[f]
       IN  /\ snaps' = Kept(g) /\ missed' = Missed(g)
           /\ skewed' = {p \in Path : g[p].answered /\ ~g[p].usable}
           /\ log' = mergeRefusals(snaps', g)
    /\ LET r == resolveSelection(snaps') IN selected' = r.sel /\ pinned' = r.pin
    /\ markRefusalsSeen(pane, selected', log', pruneSeen(log'))
    /\ UNCHANGED <<daemons, screen, doctor>>

\* Mutant: a watermark that is no longer in the log counts as all seen.
unseenRefusals_AgedOut(p) ==
    LET at == {i \in DOMAIN log[p] : log[p][i] = mark[p]}
    IN  IF mark[p] = 0 THEN Len(log[p])
        ELSE IF at = {} THEN 0 ELSE Len(log[p]) - (CHOOSE i \in at : TRUE)

\* The count in the footer and the attention strip.  A watermark that the cap
\* has pushed out of the log leaves everything in it unseen.
unseenRefusals(p) ==
    LET at == {i \in DOMAIN log[p] : log[p][i] = mark[p]}
    IN  IF at = {} THEN Len(log[p]) ELSE Len(log[p]) - (CHOOSE i \in at : TRUE)

-----------------------------------------------------------------------------
(* Keys.  The switcher overlay redefines them; the doctor view claims a few *)
(* and leaves the rest to the global map.                                  *)

selectPath(p) ==
    /\ selected' = p /\ pinned' = TRUE
    /\ markRefusalsSeen(pane, p, log, mark)
    /\ UNCHANGED <<daemons, fetches, table, pane, view, doctor>>

\* selectableRows, in Discover order.  A fighting pair is listed side by side:
\* the root daemon is first, so with two paths that is the order already.
Rows == SelectSeq(Discover, LAMBDA p : p \in snaps)

\* tab and shift+tab, in every view and in the overlay, which stays open.
step(n) ==
    /\ Rows # <<>>
    /\ LET at == {i \in DOMAIN Rows : Rows[i] = selected}
           i  == IF at = {} THEN 1 ELSE (((CHOOSE j \in at : TRUE) - 1 + n + Len(Rows)) % Len(Rows)) + 1
       IN  selectPath(Rows[i])
    /\ UNCHANGED overlay

\* A number, or enter on a row of the overlay; either closes the overlay.
selectNth(i) ==
    /\ i \in DOMAIN Rows /\ selectPath(Rows[i])
    /\ overlay' = IF overlay = "switcher" THEN "none" ELSE overlay

KeySwitcher ==
    /\ overlay # "switcher" /\ overlay' = "switcher"
    /\ UNCHANGED <<daemons, fetches, table, choice, pane, view, seen, doctor>>

SwitcherClose ==
    /\ overlay = "switcher" /\ overlay' = "none"
    /\ UNCHANGED <<daemons, fetches, table, choice, pane, view, seen, doctor>>

KeyRefusals ==
    /\ overlay # "switcher" /\ pane' = ~pane
    /\ markRefusalsSeen(pane', selected, log, mark)
    /\ UNCHANGED <<daemons, fetches, table, choice, view, overlay, doctor>>

\* esc on the dashboard: out of the pane.
KeyEsc ==
    /\ view = "dashboard" /\ overlay = "none" /\ pane /\ pane' = FALSE
    /\ UNCHANGED <<daemons, fetches, table, choice, view, overlay, seen, doctor>>

-----------------------------------------------------------------------------
(* The doctor view. *)

\* stop: cancel the run in flight, if any, and forget its generation.
stop ==
    [run |-> [g \in Gen |-> IF run[g] = "live" THEN "canceled" ELSE run[g]],
     phase |-> IF phase = "running" THEN restore ELSE phase,
     gen |-> gen + 1]

startDoctor ==
    /\ gen' = stop.gen /\ restore' = stop.phase /\ phase' = "running"
    /\ run' = [stop.run EXCEPT ![gen'] = "live"]
    /\ UNCHANGED <<daemons, fetches, table, choice, pane, overlay, seen, reported, err>>

openDoctor ==
    /\ view = "dashboard" /\ overlay # "switcher" /\ view' = "doctor"
    /\ \/ phase = "idle" /\ startDoctor
       \/ phase # "idle" /\ UNCHANGED <<daemons, fetches, table, choice, pane, overlay, seen, doctor>>

\* R, and p with the half-close probe.
KeyRerun ==
    view = "doctor" /\ overlay # "switcher" /\ startDoctor /\ UNCHANGED view

\* esc: cancel a run, else leave the view.
DoctorEsc ==
    /\ view = "doctor" /\ overlay # "switcher"
    /\ \/ /\ phase = "running"
          /\ gen' = stop.gen /\ phase' = stop.phase /\ run' = stop.run
          /\ UNCHANGED view
       \/ phase # "running" /\ view' = "dashboard" /\ UNCHANGED <<gen, phase, run>>
    /\ UNCHANGED <<daemons, fetches, table, choice, pane, overlay, seen, restore, reported, err>>

\* Mutant: whichever run completes first is the one on display.
current_AnyRun(g) == phase = "running"

\* A completion of another generation is dropped.
current(g) == phase = "running" /\ g = gen

Over(g) == run' = [run EXCEPT ![g] = IF @ = "live" THEN "landed" ELSE "void"]

applyDoctorDone(g) ==
    /\ run[g] \in {"live", "canceled"} /\ Over(g)
    /\ \/ current(g) /\ phase' = "done" /\ reported' = g /\ err' = 0
       \/ ~current(g) /\ UNCHANGED <<phase, reported, err>>
    /\ UNCHANGED <<daemons, fetches, table, choice, screen, seen, restore, gen>>

\* The gather's error, or the cancel's.
applyDoctorFailed(g) ==
    /\ run[g] \in {"live", "canceled"} /\ Over(g)
    /\ \/ current(g) /\ phase' = "failed" /\ err' = g
       \/ ~current(g) /\ UNCHANGED <<phase, err>>
    /\ UNCHANGED <<daemons, fetches, table, choice, screen, seen, restore, gen, reported>>

-----------------------------------------------------------------------------
Key ==
    \/ KeySwitcher \/ SwitcherClose \/ KeyRefusals \/ KeyEsc
    \/ step(1) \/ step(-1) \/ \E i \in 1 .. 9 : selectNth(i)
    \/ openDoctor \/ KeyRerun \/ DoctorEsc

Next ==
    \/ keys < MaxKeys /\ keys' = keys + 1 /\ Key
    \/ /\ \/ \E p \in Path : Record(p) \/ \E d \in {"up", "skewed", "down"} : Stop(p, d)
          \/ \E f \in Fetch : Tick(f) \/ FetchOne(f) \/ applySnapshots(f)
          \/ \E g \in Gen : applyDoctorDone(g) \/ applyDoctorFailed(g)
       /\ UNCHANGED keys

Spec == Init /\ [][Next]_vars

-----------------------------------------------------------------------------
(* Properties *)

\* What the doctor view falls back to when the run in flight is cancelled.
shownPhase == IF phase = "running" THEN restore ELSE phase

\* Whatever is started, cancelled and started again, and whenever the probes of
\* a cancelled run unwind: the spinner turns exactly while the one run the user
\* waits for is out, and the report or error on display is that of the last run
\* that was not cancelled (doctorview.go stop, applyDoctorDone).
DoctorInStep ==
    /\ \A g \in Gen : run[g] = "live" <=> phase = "running" /\ g = gen
    /\ phase = "done" => reported # 0 /\ run[reported] = "landed"
    /\ phase = "failed" => err # 0 /\ run[err] = "landed"
    /\ LET top == IF shownPhase = "failed" THEN err ELSE reported
       IN  \A g \in Gen : run[g] = "landed" => g <= top

\* A path's log is in the order its daemon recorded, and what is missing from
\* its middle was rotated out by a whole ring of newer refusals or lost with a
\* restart: neither a slow fetch nor a daemon that comes and goes reorders the
\* log or makes it drop what a fetch could still read (fetch.go, refusals.go
\* accumulate).
LogInOrder ==
    \A p \in Path : log[p] # <<>> =>
        /\ \A i \in 1 .. Len(log[p]) - 1 : log[p][i] < log[p][i + 1]
        /\ \A z \in Head(log[p]) .. Last(log[p]) :
              Contains(log[p], z) \/ z + RingSize <= Last(log[p]) \/ z <= wiped[p]

\* The unseen counter never hides a refusal: every line it does not count was
\* on screen in its daemon's pane, however the log was trimmed, the daemon
\* retired and the selection moved in between (refusals.go unseenRefusals).
NothingHidden ==
    \A p \in Path : \A i \in 1 .. Len(log[p]) - unseenRefusals(p) : log[p][i] \in shown[p]

-----------------------------------------------------------------------------
(* Why the doctor view keeps step.                                         *)

DoctorViewTypeOK ==
    /\ phase \in {"idle", "running", "done", "failed"} /\ restore \in {"idle", "done", "failed"}
    /\ keys \in Nat /\ gen \in 0 .. keys /\ reported \in 0 .. gen /\ err \in 0 .. gen
    /\ run \in [Gen -> {"off", "live", "canceled", "landed", "void"}]

\* No run is out that was not started, and what is on display has landed.
OneRun ==
    /\ keys <= MaxKeys
    /\ \A g \in Gen : run[g] # "off" => g <= gen
    /\ shownPhase = "done" => reported # 0 /\ run[reported] = "landed"
    /\ shownPhase = "failed" => err # 0 /\ run[err] = "landed"

ViewInv == DoctorViewTypeOK /\ OneRun /\ DoctorInStep

-----------------------------------------------------------------------------
(* Why the log keeps the daemon's order.  A ring, and what a fetch has read *)
(* of it, is an unbroken run of numbers.  Windows only move forward and one *)
(* fetch is out at a time, so where a window and the log overlap the log    *)
(* ends in the window's first part, and what is new is the rest of it.      *)

LogTypeOK ==
    /\ recorded \in [Path -> Nat] /\ wiped \in [Path -> Nat] /\ ring \in [Path -> Seq(Nat)]
    /\ log \in [Path -> Seq(Nat \ {0})] /\ mark \in [Path -> Nat] /\ shown \in [Path -> SUBSET Nat]
    /\ got \in [Fetch -> [Path -> [usable : BOOLEAN, answered : BOOLEAN, ring : Seq(Nat)]]]
    /\ \A f \in Fetch : Idle(f) \/ left[f] \in Seq(Path)
    /\ DOMAIN left = Fetch

\* r ends in refusal h, goes back without a gap, and is shorter than a full
\* ring only when what came before was lost with a restart.
Window(p, r, h) ==
    /\ Len(r) <= RingSize /\ Len(r) <= h /\ (Len(r) = RingSize \/ h - Len(r) <= wiped[p])
    /\ \A i \in DOMAIN r : r[i] = h - Len(r) + i

\* How many refusals the ring has rotated out or lost.
Rotated(p) == recorded[p] - Len(ring[p])

Rings == \A p \in Path : Window(p, ring[p], recorded[p]) /\ wiped[p] <= Rotated(p)

\* The log ends in an unbroken run of what came after the first b.
EndsAfter(l, b) ==
    \A x \in b + 1 .. Last(l) : Last(l) - x < Len(l) /\ l[Len(l) - (Last(l) - x)] = x

OneFetch ==
    /\ ~fetching => \A f \in Fetch : Idle(f)
    /\ \A f, g \in Fetch : ~Idle(f) /\ ~Idle(g) => f = g

\* What a fetch brings is of a window the ring has not moved back from, and
\* reaches at least as far as the log.
Brings(f, p) ==
    LET r == got[f][p].ring
        b == Last(r) - Len(r)
    IN  r # <<>> =>
          /\ ~Idle(f) /\ got[f][p].usable /\ Window(p, r, Last(r)) /\ b <= Rotated(p) /\ Last(r) <= recorded[p]
          /\ log[p] # <<>> => Last(log[p]) <= Last(r) /\ EndsAfter(log[p], b)

Increasing(l) == \A i, j \in DOMAIN l : i < j => l[i] < l[j]

Logged(p) ==
    /\ Len(log[p]) <= refusalCap /\ Increasing(log[p])
    /\ log[p] # <<>> => Last(log[p]) <= recorded[p] /\ EndsAfter(log[p], Rotated(p))

\* The watermark is no newer than the log, and all of the log up to it was shown.
Marked(p) ==
    /\ mark[p] <= IF log[p] = <<>> THEN 0 ELSE Last(log[p])
    /\ \A i \in DOMAIN log[p] : log[p][i] <= mark[p] => log[p][i] \in shown[p]

LogInv ==
    /\ LogTypeOK /\ Rings /\ OneFetch
    /\ \A f \in Fetch, p \in Path : Brings(f, p)
    /\ \A p \in Path : Logged(p) /\ Marked(p)
    /\ LogInOrder

=============================================================================
