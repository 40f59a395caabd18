# A TLA+ verification of drawbridge

drawbridge makes the loopback ports of a Mac and of a Linux VM on it one
namespace. What listens on `127.0.0.1:P` in the guest answers on the Mac's
`127.0.0.1:P` (a *mirror*), and what listens on the Mac answers in the guest
(a *gateway proxy*). Two long-running processes do it: `drawbridged` on the Mac
and `drawbridge-agent` in the guest, which drives two sets of eBPF programs. A
CLI, `drawbridge`, provisions a machine (`up`, `down`), installs the daemon,
diagnoses (`doctor`) and watches (the dashboard). This project models the parts
of the two processes that keep state together across goroutines, hooks and
connections, and the commands whose steps can fail, be cut or overtake each
other; it checks them with TLC on small instances and proves their safety
properties with TLAPS for all instances.

Line numbers for every definition are in `PROJECT.json` under `map`.

## 1. The system

### Components, their state and operations

| Component | Code (`src/`) | State | Operations | Model |
|---|---|---|---|---|
| Listener tracker | `internal/bpf/c/tracker.c`, `internal/agent/{agent,proc}.go` | `guest_ports` (a count per proto, addr, port), `sk_keys` (LRU), the ring of events | a hook per listen/bind and per close; the seed from `/proc/net`; the reader | `Tracker` |
| Listener hub | `internal/agent/tracker.go`, `transport.go` | the set of guest listeners, a bounded channel per 'E' session | `apply`, `Subscribe`, cancel, `serveEvents` | `TrackerHub`, `Feed` |
| Mirror table | `internal/mirror/{mirror,udp}.go` | an entry per (proto, port) with a count or a reservation, release timers, recorded outcomes | snapshot, add, del, drop of the session, reserve, release | `Mirror` |
| Mac listener sync | `internal/macsync/sync.go`, `internal/agent/macsync.go` | what the Mac has sent and advertised; the guest's `mac_ports`, `syncOwned`, the session lock | poll and diff, kick, lock, install, apply, cleanup | `MacSync` |
| Reverse-dial pool | `internal/agent/dialpool.go` | parked connections, queued pops, a watchdog per connection | `park`, `watch`, `pop`, `close` | `DialPool` |
| Supervision and fd store | `internal/agent/{notify,notifycap,fdstore,ociseccomp}.go`, `internal/fdstore` | supervised fds in two buckets, fds parked with systemd | receive, admit, track, supervise, release, re-adopt | `Supervisor` |
| Bind arbitration | `internal/agent/{notify,reserve}.go` | the parked 'R' connection, the Mac set | answer a guest bind: local set, ask the Mac, time out | `Gateway` (the Mac's decision: `Mirror`) |
| UDP stream proxy | `internal/proxy/udpstream.go`, `internal/udpframe` | a proxy per Mac UDP port, its current stream, a reply pump per stream | ensure, write, pump, drop, close | `Gateway` |
| Transport authentication | `internal/transportauth` | a latch per process, a secret file at each end | load, hello, verdict, proof | `Transport` |
| Dial, listeners, resolution | `internal/agent/{listen,gvproxy}.go`, `internal/{transport,limaaddr,podmanaddr}`, `cmd/drawbridged` | the agent's listeners, the daemon's endpoint | listen, publish, resolve, refresh, dial | `Transport`, `Resolver` |
| `up`, `down` | `cmd/drawbridge/{up,down,guest,ocipodman}.go`, `internal/{guestbin,kernelfeat,vmrecord}` | the agent, unit, secret, wrapper, engine configuration and state file in the guest; record and secret on the Mac | one round trip after another, each of which may be the last | `Lifecycle` |
| Installer | `cmd/drawbridge/{main,inherit}.go`, `internal/install` | binary, plist, launchd job | install, uninstall, the daemon's boot | `Installer` |
| Doctor | `internal/doctor` | what the probes brought back | gather in phases, classify | `Doctor` |
| Dashboard, refusal ring | `internal/tui`, `internal/introspect` | rings, fetches, the log and its watermark, the selection, a doctor run | tick, fetch, keys, completions | `Dashboard` |
| Loopback gateway | `internal/bpf/c/loopback_gw.c` | reads `guest_ports` and `mac_ports` | rewrite connect/sendmsg/recvmsg | not modelled yet |
| TCP proxies, accept loop, OCI wrapper | `internal/{proxy,acceptloop,ociruntime}`, `cmd/drawbridge-runc` | none that outlives a connection or a call | splice; back off; mutate a configuration | not modelled |
| Control socket, benchmarks, harness | see `PROJECT.json` | — | — | not modelled |

### How they interact

```
 guest                                                      Mac
 listen/close -> hooks -> ring -> RunTracker -> hub ==E==> session -> mirror table
                  ^  seed from /proc/net                       ^          |
 bind() -> seccomp supervisor -> ReservePort ========R=========+      127.0.0.1:P
 connect() -> loopback gateway <- mac_ports <- serveMacSync <==M== poll of listeners
                   |
              gateway proxy -> pool.pop <==D== parked reverse connections

 up/down (CLI) -> files of both machines -> agent unit, engine | secrets -> handshake
 install (CLI) -> plist, launchd -> drawbridged -> resolve, dial, prove -> E R M D
 doctor, dashboard -> snapshots and refusal rings of the daemons, probes
```

All connections are opened by the Mac: 'E' carries listener events, 'R'
reservations, 'M' the Mac's listeners, 'D' is a parked stream for a flow the
guest will start. Calls within a process go through mutexes (the hub's `mu`,
the client's `mu`, the agent's `mu`, `syncMu` and `resMu`, the pool's and each UDP
proxy's `mu`); the eBPF maps are shared between hooks on all CPUs and the agent, without a lock.

### What is hard

* **Concurrency.** Hooks interleave at every map operation; the hub publishes
  under a lock to channels other goroutines drain; two sessions write the
  mirror table; a pop must stop a watchdog blocked in a read; sessions of the
  sync overlap.
* **Failure.** The agent process ends and its successor inherits the listeners;
  links die in silence; a dead client's session lives on beside the
  new one; a bind on the Mac fails because a native program has the port; the
  Mac's enumeration of listeners fails; `up`, `down` and `install` are cut between
  any two of their steps and run again; secret files disappear or are damaged.
* **Ordering.** A snapshot must come before the edits made after it; a cleanup
  must not follow the next session's snapshot; a reservation's timer must not
  touch a later entry of the same port; a cancelled doctor run's report must not
  be taken for its successor's, nor an old fetch land after a newer one.
* **Stale knowledge.** An address resolved a moment ago belongs to another
  machine; a refusal in the ring has healed; a snapshot was read before the dial
  it is compared with.
* **Timeouts.** A pop that expires as a connection arrives; a reservation that
  expires as its listener appears; a reply that comes after its call has given up;
  read deadlines as the only sign of death.
* **Limits.** Full channel, full ring, LRU eviction, pool capacity, a trimmed log.

`PROJECT.json` lists them under `hazards`, each at its line, with the
properties that watch it.

### What makes each component correct

* *Tracker*: no listener is without its entry in `guest_ports`, counts are
  exact once hooks and seed have finished, and the hub hears of every change
  that was not lost to a full ring.
* *Hub*: what a subscribed client has yet to be told leads from its view to the
  hub's set; a session that is cut off is closed and ends; the client converges.
* *Mirror*: no mirror without a guest listener or a reservation, no listener
  that could be served without its mirror, reservations held until adopted or
  expired, no mirror opened over a Mac program seen to have the wildcard.
* *Sync*: the guest steers a port to the Mac only on the word of the session
  being served; entries of others are never touched; both ends converge.
* *Supervision*: one supervisor per listener, none stuck in a receive; a
  container's only listener is never closed by the agent; slots return; no bind
  waits for a supervisor for ever, across restarts.
* *Pool*: one owner per stream, no watchdog left in a popped one, none handed out
  that the watchdog or the probe found dead, pops return.
* *Arbitration and UDP proxy*: a bind is answered with its own answer and is never
  stuck behind a lock; a reverse stream is in use or about to be closed.
* *Transport*: a secret never comes up with the wrong machine, no process falls
  back to no authentication, and two ends that hold one secret find each other.
* *up and down*: a completed `up` leaves the agent it installed running with the
  unit it rendered; a completed `down` gives the user's files back; the engine
  starts containers whatever was cut.
* *Installer*: pins of the daemon's own VM only; launchd runs what is on disk; the
  daemon starts when its secret comes.
* *Doctor*: red has a cause, on the machine or in its log; the gate is blamed when
  it is closed; clean means the VM works.
* *Dashboard*: the report shown is the last one asked for, the log is in order,
  the unseen count hides nothing.

## 2. Modules

Every section the code runs under a lock is one action; what happens between
two lock sections is an action of its own. Names follow the code. Payloads,
addresses and messages are model values: the models tell listeners, keys
(proto, port) and connections apart, and nothing else about them. Definitions
named `X_Suffix` are the wrong variants used to show that the properties can
fail (section 4); no specification uses them.

**`Tracker`** has one program counter per socket. `Listen` and `Close` are the
kernel (external); `AddKey`, `AddFind`, `AddInc`, `AddPut`, `AddEmit` are the
map operations of `track_add`, the `Del…` ones those of `track_del`, so that
hooks of two sockets of one key really interleave. `add_stale` and `del_stale`
are states in which the hook holds a pointer to a map element that has been
deleted (`Replaced`): the element's memory may already serve another entry.
`sk_keys` forgets any entry when it is full. `ScanRow`, `SeedLookup`, `SeedPut`,
`SeedApply` are the agent's seed; a socket that is in `/proc/net` while its hook
has not run yet can be found by it. Counters wrap at `Wrap` (2^32 in the code).
`Serial` keys are those that no two tracked sockets have at a time; the others
(`Shared`: `SO_REUSEPORT`, or a port that an ephemeral socket had) are in the
history variable `leaky` from the start.

**`TrackerHub`** is the hub with all its sessions and the reading end of the
client. `Apply` is `apply` with its fan-out; a full channel is closed and its
session unsubscribed. `Subscribe` primes the channel with the snapshot under the
lock. A session whose client is gone lingers until a write fails
(`SessionFail`), beside the new one.

**`Feed`** is what the mirror may assume of the events: a snapshot first, then
adds of what was not there and dels of what was, and a drop at any time.
`TrackerHub` implements it (`ImplementsFeed`); `Mirror` extends it. So what is
shown of the mirror holds behind the real hub, without composing the two state
spaces.

**`Mirror`** has the actions of the 'E' session (`OnSnapshot`, `OnAdd…`, `OnDel`,
`OnDrop`), of the 'R' session (`Reserve`, `ReserveSkipped`), the timer, and Mac
programs that bind and close ports. An entry is identified by a pointer in the
code and by `Id` here, which a later reservation of the port may not share while
the old timer runs. The lookup of a holder and `net.Listen` are two moments of one
action: `c.mu` keeps the daemon's goroutines out between them, and a Mac program may
bind or close the port meanwhile (`Meanwhile`). A reservation of a port that is bound
already is acknowledged without a timer or a reference of its own (`ReserveBound`).
`promised`, `lost`, `joined` and `denied` are history variables that only properties
read.

**`EndToEnd`** puts `Tracker`, `TrackerHub` and `Mirror` side by side over what they
share: the set the reader of the ring keeps, less the noise `apply` refuses, is the
hub's set, and the hub's client is the mirror's 'E' session. A step that changes
shared state is a step of both its owners. `MirrorsTheGuest` says what the three
amount to. No run explores it, the product is too large; it is proved (section 5).

**`MacSync`** has the Mac's one session (dial, snapshot, tick, dels, adds,
publish) and any number of the agent's (`Kick`, `Lock`, `Install`, `Receive`,
`ReadFails`, `Unlock`). A connection can be cut without either end being told;
the Mac notices through `peerClosed`, the agent through its read deadline or a
kick. `AddMacPort` may fail; `lapsed` remembers for which port, and where a del of
one address took the entry of another. Ports registered through the control socket are in
the table from the start (`Preset`).

**`DialPool`** has the four functions of the pool. `park` unlocks before it sends
on the waiter's channel: `ParkClaim` and `ParkDeliver` are two actions. The
watchdog is a state per connection; `pop`'s poke, its wait for the watchdog and
`probeLive` are steps of their own. The probe reads under a deadline of 200 µs, and
when it is descheduled past it the read fails unissued and the connection passes for
live (`expired`). `stranded` and `late` are history: the connections that
`ParkDeliver` sent to a pop that had given up, and those whose probe ran out.

**`Supervisor`** separates open files from fd numbers, which the kernel reuses at
once. A goroutine is a program counter over the steps of `superviseNew`,
`superviseStored` and `supervise` in the order of the deferred calls: run,
untrack, close, drop from the store, release. The kernel's side of a seccomp
listener is external: `pend[f]` is the blocked bind of a filter, `sem[f]` counts
announcements, so that NOTIF_RECV blocks when there is none and returns ENOENT
when the task has gone. A listener lives while an fd of the agent, the store or
a probe sender refers to it. systemd stores a file once, up to its limit, without
an answer, and drops it on POLLHUP. `ProcessEnds` is a crash, a kill or a `systemctl
restart`, over which systemd keeps the store; `ServiceStopped` is a full stop, which
releases it (`FileDescriptorStorePreserve=restart`), and the containers' binds get
ENOSYS. `Restart` or `Start`, `Adopt` and `OpenSockets` are the next process, in that
order. `adopted` and `safe` are history.

**`Gateway`** puts the three mutexes together that meet in the agent: `ensure`
dials with `p.mu` held, `RemoveMacPort` closes the proxy with `a.mu` held, a bind
reads the Mac set under `a.mu` with TryLock and then talks on the one parked 'R'
connection under `resMu`. An `AddMacPort` whose put fails closes its new proxy again. Stretches that never wait are one step. `reserveLoop`,
`handleReserve`, `MacReplies` and `MacSessionEnds` are the Mac's end of 'R': it
may answer late, or to a connection the guest has left. What a bind waits for at
each step is an operator of its own (`MayCheck`, `MayLock`, `MayFail`), the guard of
the action and what `BindNeverBlocked` speaks of.

**`Transport`** has two machines; the daemon serves A, and B may take A's address,
its lease name or the loopback port. A dial is a sequence of steps (`Dial`,
`LoadRead`, `LoadReturn`, `handleTransportConn`, `AwaitAgentProof` or `Refused`),
for the event session and for a mirrored client's stream, each reading the secret
through the process's latch while `up` writes and files are lost. Both processes read
the file when they start (`DaemonBoots`, `ListenTransport`): one that is there latches,
a malformed one ends the process, and so does an absent one that `-secret-file`
requires. `up` keeps a well-formed secret on the Mac, generates an absent one and
stops at a malformed one, which the user has to delete (`DeleteMalformed`). `root` is
the installed daemon, for which limactl never answers (`GuestIP`). The MAC is the
comparison of two secrets. `began` remembers whether a file was known when a read
started, which is what makes a downgrade a downgrade.

**`Resolver`** is the address resolution as operators over a lease table: which leases
match, which of two is newer, which are dialled (a set of indices), the fallbacks by
provider. `Transport` and `Doctor` instantiate it.

**`Lifecycle`** has one action per guest round trip of `up`, `up --oci` and `down`.
A configuration file is what it means to the engine (the user's keys, the runtime
entry, the default) and how it is formatted; `Merge` and `Revert` work on that.
`CutShort` ends a command between two round trips and `lapses` remembers where, so that
a property can say which cut it does not survive. `running` is the agent process
with the binary and unit it was started from; `loaded` is the configuration the
engine has read, as opposed to what is on disk. The provider of the VM and the engine
in the guest are two things: a Lima guest may have podman in it, and gets the drop-in
of a podman engine without the owner of a podman machine. A build may lack either
guest binary (`has`); a plain `up` without the wrapper, or over the state of a newer
drawbridge, says so and leaves the installed one (`LeavesWrapper`, `noted`).

**`Installer`** has the steps of install and uninstall, launchd's load, KeepAlive
and reboot, and the daemon's refusals at boot, of a malformed secret too. A pin is the
VM it belongs to. `launchctl print` may fail on a loaded job, which the code takes for
one that is not loaded (`misread`); bootout and bootstrap may fail and end the command;
a podman machine's config that cannot be read is a warning.

**`Command`** is what these two share: one command at a time, which goes through
its round trips (`Begin`, `Proceed`, `At`, `Resting`), and the bounds on commands and
events. `Nothing` stands for the empty string.

**`Doctor`** separates the machine (`world`) from what the probes have copied of
it (`in`). The parallel probes answer in any order and the machine may change
between any two; every `Check…` function reads `in` only. netstat and
systemextensionsctl may fail (`unread`), and their checks are skipped. The ring dates
its refusals and the log tail does not; both hold rows of the same table (`AuthIDs`). A
podman machine's record is compared only with a config that could be read. A
disturbance (`Disturbed…`) breaks one thing of the machine, or heals it. `Blank` stands for the empty string.

**`Dashboard`** is the `Update` function with its in-flight commands: fetches that
read one path at a time, doctor runs with a generation, the daemons' rings. A live
daemon may be too late for a fetch.
Refusals are numbered as they are recorded; `shown` is history.

`MC*.tla` give the instances, `*Proofs.tla` the theorems.

## 3. Runs

All instances are small sets of model values. Where a run has bounds, they are
constants with a guard in the action concerned.

| Run | Instance | Shows |
|---|---|---|
| `tracker` | a host socket, a container's on the same port and an ephemeral one; `SkCap` 1, `RingCap` 2, `MaxListens` 3, `Wrap` 8 | `NoMissed`, `CountExact`, `HubInStep` |
| `hub` | a listener and a noise one, two sessions, channels of three | `NoEventLost`, `Converges`, `ImplementsFeed` |
| `mirror` | two addresses of a TCP port, a UDP port, a skipped one, an address that is not mirrored, two reservations, exact and wildcard native holders, also ones that come and go between lookup and listen | `NoPhantomMirror`, `ExactMirrors`, `HeldWhileConnected`, `NoShadowOpen` |
| `macsync` | three connections, one listener of the Mac, a port the control socket registered, adds that may fail; `MaxWire` 2, `MaxFaults` 2 | `NoStaleSteering`, `InStep`, `Converges`, `EventuallyServed` |
| `dialpool` | two connections, two pops, `PoolCap` 1, `MaxDeaths` 2 | `SingleOwner`, `DeadNotReturned`, `PopReturns` |
| `supervisor` | a container's listener, a probe sender's, a file that is none; two fd numbers, two goroutines, a store of two; `Max` 2, `MaxSem` 2, one crash, stop or failure (`MaxFaults` 1) | `OneSupervisor`, `NeverStuck`, `ListenerKept`, `BindReceived` |
| `gateway` | two binds, one port, two 'R' connections, a UDP proxy and two streams | `AnswerOwn`, `NoStrayStream`, `BindNeverBlocked` |
| `transport` | two machines, two addresses, all providers, a user's and a root daemon, with and without a pin and `-secret-file`; `MaxSecrets` 2, `MaxFaults` 1 | `RightPeer`, `NoDowngrade`, `Heals` |
| `lifecycle` | a docker guest, podman machines rootless and rootful, a Lima guest with a rootless podman, two the preflight or the kernel probe refuses; three user configurations and a newer drawbridge's; two builds with and without their guest binaries; three commands, one cut, two events | `UpConverges`, `OwnerKept`, `DownRestores`, `EngineStarts` |
| `installer` | two Lima instances, a podman machine; three commands, three events | `PinsOwnVM`, `JobIsInstalled`, `StartsOnItsOwn` |
| `doctor` | all providers and ways to call it; `MaxDisturbances` 1, before or during the run | `FailHasCause`, `GateNamed`, `CleanMeansWorking` |
| `dashboard` | two daemons, two fetches, three refusals, three keys, one stop or late answer; ring and log of two | `DoctorInStep`, `LogInOrder`, `NothingHidden` |

Why the bounds are enough. A ring of two and an LRU of one are full after one or
two events, so loss and eviction happen in most behaviours; three listens let a
key be bound, closed and bound again with an event still in the ring. A channel
of three overflows with the snapshot and three edits; two sessions are a stale
and a current one. Two identities of a reservation are the old timer and the new
entry. Three connections of the sync are a holder, one that waits and a third
that arrives between the lock and `syncConn`, which is where the kick misses;
two faults cut a link and change the Mac's listeners in between. A pool of one
with two connections and two pops has every race of park and pop, and a second
death finds a connection that is reused. In `tracker` the two sockets of one key
are a host's and a container's; two host sockets of one key cannot listen at the
same time without `SO_REUSEPORT`, and the properties except shared keys (below). In
`supervisor` two fd numbers are used up by two handoffs, so a third gets a number
that was closed; two goroutines are a supervisor and a newcomer. In `gateway` two
binds are one that has timed out and one that would get its reply, and two
streams the old one and the one `ensure` has put in its place. In `transport` one
fault is enough to lose a file after the latch has closed, to restart either
process, or to lose a message, and two secrets are the old and the new one. A daemon
that is down at first boots before, between or after the steps of an `up`.
Three commands of `lifecycle` are an `up --oci`, one that is cut, and the one that
finds what the cut left. Three refusals over a log of two make the watermark fall
out of the log; three keys start, cancel and restart a doctor run.

The largest are `lifecycle` (2.1 million distinct states), `installer` (2.0),
`dashboard` (1.5), `gateway` (1.4) and `supervisor` (1.2).

`tracker`, `gateway`, `transport`, `lifecycle`, `installer` and `doctor` may stop
(the listens, binds, commands or events are used up), so deadlock is not checked
there; it is in all the others.

Symmetry: of the two addresses and of the reservations in `mirror`, of
binds and streams in `gateway`, of fetches in `dashboard`; none in the runs
with liveness.

### Where code and comments disagree

Five statements of the repository's comments do not hold of the code. Each was
found with TLC on these modules; the formula that fails is given, so that the
trace can be had again by checking it as an invariant.

* `internal/agent/dialpool.go:44`, "hands it straight to a waiting pop". `park`
  takes a waiter off the queue under the lock and sends after the unlock
  (:52-57). A pop that expires in between finds neither itself in the queue nor a
  connection in its channel, and returns an error; the connection then sits in a
  channel nobody reads, open on both ends. In `DialPool`:
  `\A c \in Conn : where[c] = "out" => \E w \in Popper : held[w] = c \/ chan[w] = c`.
  `SingleOwner` excepts exactly these connections (`stranded`), and the proof shows
  that there are no others without an owner.
* `docs/udp.md:227`, "`reconcile`/`add`/`del` count refs per key". `add` opens an
  entry with one reference (`internal/mirror/mirror.go:459`, :453). If earlier
  listeners of the port could not be mirrored, because a Mac program had it, and a
  later one can, the count is one short: the mirror goes with the first close
  although a listener is left, and no outcome says why. In `Mirror`:
  `\A k \in Key : up /\ Wanted(view, k) > 0 => Bound(k) \/ obs[k] = "bind-failed"`.
  Ports that could be bound whenever they were wanted are exact (`ExactMirrors`,
  proved).
* `internal/bpf/c/tracker.c:22`, counts cover `SO_REUSEPORT` groups. A member that
  listened before the hooks were attached was counted once with all others by the
  seed, or not at all; its close takes another member's count (:241). In
  `Tracker`: `NoMissed` without its `Serial(KeyOf[s])`, with two sockets of one key in `Reuse`.
* `internal/agent/fdstore.go:86` and `cmd/drawbridge-agent/main_linux.go:170`, a
  bind that blocks while the agent is away is answered by the next. A notification
  is delivered once: a bind that the old process had received and not answered
  (`notify.go:246`) is kept waiting by the very store that keeps its listener
  alive. In `Supervisor`:
  `phase = "down" /\ pend[f] # "no" ~> pend[f] = "no"`. A bind that nobody had
  received is answered (`BindReceived`).
* `cmd/drawbridge/down.go:145`, leaving daemon.json alone without a state file
  "makes `down` safe after the dev flow". On a guest set up by `just vm-docker`
  there is no state file, daemon.json names the wrapper, and `down` goes on to
  remove the wrapper (:87-103): the engine then starts no container. In
  `Lifecycle`: `EngineStarts` from a guest whose configuration already has our
  runtime and default.

Some properties are stated with a condition because the code does not give more:

* `DeadNotReturned`: the poke that stops a watchdog can mask a FIN, and the probe that
  is there to catch it reads under a deadline of its own. When that runs out before
  the read is issued, a connection that died in the pool is handed out (`late`). What
  the watchdog has seen never is.
* `HeldWhileConnected`: `closeAll` closes pending reservations too, so a
  reservation that 'R' has acknowledged is gone when the 'E' session drops before
  the listener event adopts it. One that was acknowledged on an entry that was there
  (`mirror.go:698-702`) has no timer of its own: it is held while an older listener is
  left or the earlier reservation runs, and the last del or that one's timer ends it.
* `NoShadowOpen` is about what the lookup saw. A Mac program that takes the wildcard
  between the lookup and `net.Listen` is shadowed.
* `ListenerKept`: until a full stop, which releases the store as
  `docs/oci-hook.md:271-275` says.
* `InStep`, `EndsAgree` and `Converges` except `lapsed` ports. An add that fails is
  not tried again in its session; and the Mac sends a `del` per listener while the
  agent keeps one entry per port, so that with two addresses closing one
  unregisters both until the next session.
* `NoMissed`, `CountExact` and `HubInStep` except keys that tracked sockets share:
  their hooks interleave on one element of the map. The last two also except
  the keys the seed listed: when the seed's put
  comes between a listener's appearance in `/proc/net` and its hook's lookup, the
  hook counts two and reports nothing.
* `OneSupervisor` excepts inherited listeners: they are tracked when their
  goroutine runs, and the sockets open without waiting for that.
* `UpConverges` excepts a run cut after the agent or the unit was installed and
  before the restart: the next run finds both current and restarts nothing.
  It also excepts the wrapper of an `up` that said it leaves the old one.
  `DownRestores` excepts a cut between the write of daemon.json and that of the
  state file; `EngineStarts` a `down` cut between the revert and the restart.
* `OwnerKept` gives an owner to podman *machines*. A rootless podman in a Lima or
  Colima guest gets the drop-in, and its socket never an owner
  (`up.go:141-153`, :679-684).
* `JobIsInstalled` excepts a loaded job that `launchctl print` failed on: it was taken
  for absent, and its files were replaced under it.
* `Heals` counts any session that is up. One that came up without authentication
  before `up` wrote a secret is not torn down by it. For the installed daemon it asks
  for a hardware pin or a podman machine: limactl does not answer under root, and by
  the lease's name alone another machine may be dialled for ever. A daemon started by
  hand that has exited is nobody's to restart.
* `CleanMeansWorking` asks for a daemon that runs, not for one that serves this
  VM: check 9 never asks which. In `FailHasCause` a refusal recorded between the
  starts of the two sessions counts as a cause: `healedSince` compares with the
  start of each session and keeps it red. So does a line of the log tail, which has no
  date: an old one turns a machine red that has healed. And a podman machine whose own
  config cannot be read passes check 4 with a stale record, so `Works` asks nothing of
  the record there.

### Fairness

Only goroutines and timers of the two processes are fair; guest programs, Mac
programs and the network owe nothing.

* `DialPool`: weak fairness of each watchdog, each delivery and each pop. The
  expiry of a pop's timer is a step of the pop. A pop loops over dead
  connections without looking at its deadline, so `PopReturns` rests on finitely
  many deaths (`MaxDeaths`).
* `TrackerHub`: weak fairness of each session's steps, of the client's redial and
  of `SessionFail`: the 15 s ping makes a write to a dead connection fail in the
  end.
* `MacSync`: weak fairness of the agent's goroutines (the read deadline ends a
  dead one), of the Mac's step and of the redial; strong fairness of
  `MacNotices`, because Go's `select` chooses at random among ready cases, so a
  ready `peerClosed` is not passed over for ever by the ticker. Faults are
  finitely many: `Converges` says what happens once they stop.
* `Transport`: weak fairness of the event loop's dial, of the agent's listeners
  and of the publication, which all retry for ever, and of the boot of the installed
  daemon, which launchd restarts; strong fairness of a refresh, since the loop retries
  every second and resolves afresh every three. For a daemon the VM's owner runs it is
  one that limactl answers; for the root daemon, one without (`limaaddr.go:164-168`).
* `Installer`: weak fairness of launchd's KeepAlive and the daemon's boot.
* `Supervisor`: weak fairness of each goroutine, of the start-up (systemd restarts
  an agent that ended, but nobody has to start a stopped one) and of the kernel's
  release of a listener nobody refers to. Tasks, senders and faults owe nothing.

## 4. Every property can fail

`PROJECT.json` lists under `mutants` a wrong variant of a definition for each
property of each passing run: a guard left out, an off-by-one, a reset or a wait
that is missing. With the variant in place of the definition TLC finds the
property violated on the same instance.

## 5. Proofs

For all values of the constants under the assumptions each module names (a key
for each listener, a positive capacity, a `None` outside the other sets, builds
numbered from one, bounds that are natural numbers, finite sets where a cardinality is
taken). Each proof has the
same shape: `Init => IInv`, `IInv /\ [Next]_vars => IInv'` with one step per action,
`IInv => P`, or, for an action property, `IInv /\ [Next]_vars => A`. Where a proved
statement is also the property of a run, `PROJECT.json` names it; the others (types,
`NoIdleConn`, `WatchdogGone`, `WithinCap`, `CutOffEnds`, `PendingHasTimer`,
`OwnershipExact`, `EndsAgree`, `MirrorsTheGuest`, `TrackedLive`, `SlotsExact`, and each
invariant) are proved and need no run.

| Module | Theorems | What the invariant adds |
|---|---|---|
| `AgentProofs`, pool | `TypeCorrect`, `Invariance`, `PoolSafe`, `Exclusive`, `HandoffSafe` | where each connection is and who refers to it (`Ownership`), where its watchdog can be (`WatchdogPhase`), and that a connection that died while parked is known to be gone (`DeathsSeen`), so that only a probe that ran out lets it through: the properties speak of what `pop` returned, several steps after the pool let go of it. That what is out has an owner, too, takes the other direction: a pop is queued once, or claimed by one `park`, or has its connection, and reads its channel until it gives up (`Promises`), so a delivery finds it or the connection is `stranded` (`Accounted`) |
| `AgentProofs`, gateway | `GatewayInvariance`, `OwnAnswer`, `NoneStray`, `BindsGoOn` | on one half of the state, a connection is quiet but for the one request of the bind that waits (`OneRequest`), and a request that was given up is on a closed connection (`Requests`): a late answer has nobody to go to. On the other, a dial keeps the proxy open, and who names a stream is its owner's (`StreamUse`). That no bind is stuck follows from `resMu`'s holder being a bind that waits for nothing but its own timeout |
| `TrackerHubProofs` | `Invariance`, `NothingLost`, `CutOff`, `RefinesFeed` | `NoEventLost` speaks of subscribed sessions; a client also reads what is left in the channel of one that was cut off, so the invariant keeps that queue a sequence of true edits, with the snapshot first and only first. The refinement needs it at every delivery |
| `MirrorProofs` | `Invariance`, `NoPhantom`, `Exact`, `ReservationsHeld`, `ReservationsTimed`, `NoShadow`, `FollowsTheGuest` | nothing but reservations is held while the session is down, skipped ports are never bound, and a pending entry's identity is one whose timer still runs: it is why an old timer cannot release a new entry. That a joined reservation is held follows from these and from `ExactMirrors`. `FollowsTheGuest` is about `EndToEnd`: it composes `HubKeepsStep`, the hub's `Invariance` and `Exact`, taken through `INSTANCE` over the shared variables. Each component's proof needs only its own specification, so nothing has to be proved of the product but that, when all queues are empty, the guest's listeners are the hub's set, that is the client's view, and the table is exact for it |
| `MacSyncProofs` | `Invariance`, `SteersOnlyAnnounced`, `OwnsItsOwn`, `KeepsInStep`, `BothEndsAgree` | one session holds the lock, and the snapshot is the first message of a connection: so that replacing the table is not replacing another session's. For `InStep`, a session that does not serve yet has been told nothing (`ToldLater`). For `EndsAgree`, what is under way on a living connection leads from what the agent was told to what the Mac has sent (`UnderWay`), so that with an empty wire the two are one |
| `TrackerProofs` | `Invariance`, `NoneMissed`, `CountInvariance`, `CountsAreExact`, `HubKeepsStep` | a key that is not shared belongs to one tracked socket from listen to the end of its stop hook, and the seed has yet to come to an old listener or it has its entry. For the counts, what the one socket's hook has already done to the entry, and that no entry is without a socket, but for keys the seed or an eviction leaked (`CountInv`). For the hub, what it *will* have of a key once the ring is read (`HubToBe`): `HubInStep` speaks of an empty ring only |
| `SupervisorProofs` | `Invariance`, `Alone`, `Unstuck`, `TrackedExact`, `SlotsBalanced`, `StoreInvariance`, `StoredListenersKept` | an open fd has one owner (`FdOwners`), a listener no sender keeps came in under one fd unless it was inherited (`OciOnce`), a waiting bind has been announced and not been received (`Announced`), and a goroutine has a slot exactly in the phases that release one (`SlotPhase`): `NeverStuck` follows from there being no second receiver. For the store, a name has one owner (`Names`), the store with what is yet to be adopted fits the cap (`StoreBound`), what is safe is stored, which a full stop ends together, and a supervisor about to drop its name has a dead filter or has failed (`Kept`) |
| `ProvisionProofs`, transport | `Invariance`, `PeerIsRight`, `NeverDowngrades` | no secret of the daemon's machine is also another's (`Apart`), also of what is being written and what a dial has read (`Generated`); what a read found, at boot or later, is latched by the time it is known, and without a daemon there is no connection (`LatchInv`) |
| `ProvisionProofs`, installer | `InstallerInvariance`, `OwnVMPinned`, `JobsInstalled` | the arguments an install in progress is going to write pin their own VM too, and nothing is loaded while files are being replaced, or it was misread (`Replacing`) |
| `ProvisionProofs`, lifecycle | `LifecycleInvariance`, `UpLeavesConsistent`, `OwnerIsKept`, `DownInvariance`, `DownGivesBack`, `EngineAlwaysStarts` | what an `up` has in place at each round trip (`InPlace`), and that the agent runs what is installed or *this* `up` knows to restart it (`Current`). The state file has the owner of a podman machine while the drop-in is there (`OwnerInv`), and no `up` on another machine carries one (`Unowned`). `Undo` is the record of what to undo, on disk or about to be: it is truthful (`Truthful`), the file is the user's but for what it undoes (`Theirs`), and nothing names a wrapper that is not there, short of the round trips in between (`Served`) |
| `ReportProofs`, doctor | `DoctorInvariance`, `FailsHaveCauses`, `GateIsNamed`, `CleanIsWorking` | every part of `in` was read by *one* probe, off the machine as it was when the run began or as it is now (`ReadBy`, `Dialled`, `Gathered`); probes that were not sent leave what stands for nothing; and of the two secrets at most one has changed since (`OneChange`). A finding combines the parts of several probes, so each case of each check is traced back to the reads it rests on: that two of them may be of different machines is why the properties speak of `old` and `world` |
| `ReportProofs`, dashboard | `ViewInvariance`, `DoctorKeepsStep` | `DoctorInStep` speaks of the report on screen; while a run is out, what matters is what its cancel would bring back (`shownPhase`): that too has landed, and no run is out that was not started (`OneRun`) |
| `ReportProofs`, refusal log | `LogInvariance`, `LogsInOrder`, `NoneHidden` | a ring, and what a fetch has read of it, is an unbroken run of numbers (`Window`); windows only move forward and one fetch is out at a time (`OneFetch`, `Brings`), so the log ends in the part of a window it already has (`EndsAfter`) and what `accumulate` appends is the rest, in order. For the counter, the watermark is no newer than the log and all of the log up to it was shown (`Marked`), also when the watermark's own entry has been trimmed |

Hypotheses of theorems, beyond the modules' assumptions:

* `TrackerConstants` and `HubConstants` (`FollowsTheGuest`): what `Tracker` and
  `TrackerHub` assume of their constants, restated because `EndToEnd` takes the two
  with `INSTANCE`.
* `FreshGuests` (`DownInvariance`, `DownGivesBack`, `EngineAlwaysStarts`): the guest's
  daemon.json has no entry of ours and no default of ours at the start, and no newer
  drawbridge has left its state there. Without it `Merge` records that it added
  nothing, and the file a first `down` leaves still names the wrapper (section 3).

`Lifecycle`'s and `Installer`'s theorems hold for any number of commands, cuts and
events, any machines and guest files, and any number of builds. The lapses each
property excepts are in its statement, and the proof shows that there are no
others. `Doctor`'s hold for any set of providers and for every machine that any number of
disturbances of a healthy one leads to, with one more while the probes are out: with
two more, the parts of a report can be of three machines, and `old` and `world` are two
of them. `Dashboard`'s hold for any daemons, refusals, keys and runs, and for any log that
holds at least a ring (`RingSize <= refusalCap`; 32 and 512 in the code): in a shorter
one, an entry that was trimmed would still be in the ring, and be appended again
behind newer ones.

`Tracker`'s, `DialPool`'s, `Gateway`'s, `MacSync`'s and `EndToEnd`'s theorems have no
hypothesis on the traffic: they hold with shared keys, expired pops, failing adds and
several addresses per port, and the cases the code does not get right are named in the
properties (`Shared`, `stranded`, `lapsed`), where the proofs show that there are no others.

Only model-checked: what needs fairness (`PopReturns`, both `Converges`,
`EventuallyServed`, `BindReceived`, `Heals`, `StartsOnItsOwn`), which the prover does
not handle. `BindNeverBlocked` says with the guards of the actions what `ENABLED`
would, for the same reason: a guard is all its action waits for. Every other property
of a run is also proved.

## 6. Not modelled, and why

* **Data.** The bytes of streams and datagrams, frame layout, addresses, names,
  the text of probes, plists, units and configuration files, rendering, logging.
* **Kernel I/O.** Loading and attaching eBPF programs, socket options, system
  calls of file descriptors, the limit of 16384 entries of `guest_ports`.
* **Loopback gateway.** The classification of a connect reads two maps the other
  modules write; it is a decision without state and next in the plan.
* **TCP splices and the accept loop.** State of one connection or one call; that
  a stream ends is a step of `Transport`.
* **The relay on the Mac's end of a UDP stream.** Its peer sockets and timers
  share nothing with the guest's proxy but the stream, which may die at any time
  in `Gateway`.
* **OCI wrapper.** Rewrites one container's configuration and executes the real
  runtime.
* **Control socket.** Used by tests only; the entries it leaves are `MacSync`'s
  `Preset`.
* **Restarts** of the agent and the daemon in the core modules, but for
  `Supervisor`: state is lost as a whole, and `Init` is what a restart gives.
  `Transport` and `Installer` have them.
* Which machine a command picks; `-secret-file` given to `install` or to the agent by
  hand (the unit `up` renders passes none);
  `install -print` and `status`, which write nothing; the verification after `up`.
* In the dashboard, row cursors: the switcher's cursor is an index, and a fetch
  may shift the rows under it. The run has one stop of a daemon per behaviour.
* That the Mac sends an add before it publishes it to its own check of
  activations (the refused one is retried by its caller).

## 7. Plan

1. **`LoopbackGateway`** (`loopback_gw.c`): the classification as an operator over
   the two maps, checked against its reference order; no flow to the Mac while
   the guest listens.
2. **`Splice`** (`proxy`, `mirror/udp.go`): nothing left open after close.
