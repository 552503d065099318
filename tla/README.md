# easy_proxies: a TLA+ verification project

easy_proxies turns a list of upstream proxies (inline nodes, a nodes file, subscriptions) into
local proxy ports. It runs sing-box in process with its own *pool* outbound, keeps the health of
every upstream node, pins named sessions to nodes, routes by region, and is administered through a
web API that edits the configuration and reloads the runtime while traffic flows. Requests,
probes, the subscription worker, API handlers and the main thread share state under about a dozen
mutexes, and many operations take a lock several times or act after they let it go. That is what
this project models: one action is one critical section, one channel operation, one system call
that matters or one external call, and the steps of different goroutines (and, for files, of
different processes) interleave freely.

## 1. Inventory

Paths are under `src/internal/`.

| component | state | operations | talks to |
|---|---|---|---|
| session store `routing/store.go` | bindings (map + LRU list), one gate per session in use, epoch, limits | Acquire, Binding, Bind, Release, Delete, Clear, Configure, List | pool requests; the sessions API |
| member health `outbound/pool/shared_state.go` | failures, ban, expiry, cooldown and operator marks of a node, shared by every pool it is in | recordFailure, blacklistNow, recordSuccess, isBlacklisted, forceRelease, releaseIfPermanent, blacklistSharedMember | pool, probes, operator; copied to the monitor |
| pool outbound `outbound/pool/pool.go` | members, active connections, counters, sticky map | DialContext, ListenPacket, selection, recovery, retry, probe | store, member health, monitor |
| pool registry `outbound/pool/dialer_registry.go` | pools by name | register, look up | GeoIP router |
| runtime lifecycle `boxmgr/manager.go`, `app/app.go` | current box, configuration object, closed flag, router, subscription cache file | Start, Reload, RefreshSubscription, node CRUD, Close | sing-box, monitor server, config files |
| subscription worker `subscription/manager.go` | own copy of the settings, active and pending refresh, timer | RefreshNow, updateConfig, refreshLoop, Stop | lifecycle transaction, settings API, file |
| health probing `monitor/manager.go` | node entries, probe runs, sweep gate, progress counters | Register, SetProbe, probeAllNodes, Probe, ClearNodes, Stop | pool probe callbacks, dashboard, export |
| management API `monitor/server.go`, `proxy_sessions.go` | login sessions, password, pointer to the configuration | login, logout, cleanup, settings and subscription PUT, node CRUD, ban and release, unbind, reload | all of the above |
| configuration `config/config.go`, `ports.go`, `validation.go` | Config, port assignments | Load, NormalizeWithPortMap, Save* | files, lifecycle |
| configuration files `config/persistence.go`, `filelock_*.go` | per-path mutexes, lock files | locked read, update, atomic replace, in-place fallback | other processes |
| GeoIP `geoip/geoip.go`, `router.go` | database reader, region cache with an epoch, listener, transports, tunnels | Lookup, Update, Close, ServeHTTP, Stop | builder, lifecycle, pool registry |
| session inbound `inbound/session/*` | connections | parse SOCKS/HTTP, authenticate, attach a session key | pool |
| builder `builder/builder.go`, `ssuri/` | none | node list to sing-box options | GeoIP lookup, lifecycle |
| log buffer `monitor/logbuffer.go` | ring of lines | append, read | API |

What is hard to test here, and which property watches it, is the list `hazards` in `PROJECT.json`,
each at its line. In short: leases and gates of one session racing with each other and with the
operator; a node's ban changed by dials, probes, recovery and operator at once and shown by the
monitor after the lock is gone; a reload that stops the old box before it knows the new one starts,
with a rollback, a shutdown and edits at any point of it; a refresh transaction against settings
that are published while it runs; sweeps, triggers and shared probe callbacks that time out; nodes,
saved ports, explicit ports and foreign processes competing for listener ports over restarts; two
processes writing one file, one of which can rename and one of which cannot; a database swapped
under lookups; a router stopped between the dial and the registration of a tunnel; a login answered
while the password changes.

What makes each component correct: one dial per session and an unbind that sticks (store); an
operator's ban and a cooldown that hold, releases that release (health); exact connection counts,
bounded attempts and sessions that move only away from a failed node (pool); never two boxes, never
one after Close, never none after a failed reload, edits never lost (lifecycle); no blocked
channel, no stale success, no lost timer, everybody answered (subscriptions); one sweep, exact
progress, no lost trigger, no old result over a newer one (probing); distinct free ports that stay
with their nodes, inline nodes that are not lost and a nodes.txt in step with memory (configuration); options in which
each port leads to its own node (builder); no lost save and no half-read file (files); no answer of
an old database, no reader used or left open after Close, no connection that outlives Stop (GeoIP);
no session of an earlier password (logins).

## 2. Modules

Definitions keep the source's names where they can; `map` in `PROJECT.json` gives the lines of each.
Definitions marked *Seeded fault* are not part of the models: each is a plausible bug used to
show that a property notices it (`mutants`).

* **SessionPromise** is the abstract specification: at most one dial owns a session, only an owner
  that was not revoked since moves its binding, bindings may be forgotten but never invented.
* **BindingCache** has the cache as pure operators on a record of map and LRU list (prune, touch,
  cap, retime), one per helper of store.go.
* **SessionStore** is the store. Acquire is three steps (count yourself on the gate, receive the
  token, stamp the lease), Release is three (mark, drop the reference, return the token), so a gate
  can be dropped and created again while an old token is on its way back. Gates live in a heap of
  cells that are reused only when nothing refers to them, as the garbage collector does. `revoked`
  is a history variable; `ImplementsPromise` is the refinement of SessionPromise.
* **MemberState** has the seven operations of a member as functions of its record. **MemberHealth**
  runs them as threads of up to three steps: read the clock, change the record under the mutex, copy
  the result to the monitor's entry after it. Reset is `ResetSharedStateStore` with `ClearNodes`: a
  start, a reload or a rollback forgets every ban, and an operator's ban on its way may meet the new
  record with the old entry. History variables record the operator's ban, the cooldown in force and
  whether the latest update crossed another one.
* **PoolDial** composes MemberState (one record per member) with SessionPromise (the store through
  what it promises, `INSTANCE`) into requests: acquire, read the pin, select, dial, record the
  outcome, retry, bind, hand out, close. The balancing modes only order the candidates and are one
  free choice. `pickMemberFor` reads the candidates and, if there are none, releases parked members
  in a second section of the mutex; so do the actions Scan and Recover.
* **BoxManager** has the lifecycle lock, the shutdown flags, configuration objects on a heap (they
  are shared by pointer between manager, settings API and rollback, which matters), the running box,
  the router and the cache file. A reload is a sequence of steps under the lock, with start attempts
  that fail for bad nodes, ports that drain slowly or ports another process owns, and a rollback. A
  request is called when the server accepts it and has its turn when it gets the lock, which may be
  after Close. The GeoIP router may fail to listen wherever it is started, which the code only logs,
  and an edit may switch routing off.
* **SubscriptionRefresh** has the worker, its timer and channels, the calls others wait for, and the
  three copies of the settings (file, runtime, worker). Editors PUT settings in the steps of the
  handler; `updateConfig` writes a file inside its critical section and is two actions.
* **ProbeMonitor** has the registry of entries, the sweep gate, one goroutine per probed node,
  manual clients, shared probe runs with generations, and the progress counters. The worker limit (at
  least 8) never binds on the instances and is left out.
* **PortAssignment** has the passes of `NormalizeWithPortMap`, `applyPersistedPorts` and the repair
  of conflicts as pure operators from node list to node list. The code's cursor and set of used
  ports become the assignment they compute; an error is the empty list.
* **NodePorts** is the life of the node list over restarts: the inline nodes of config.yaml,
  nodes.txt and node_ports.json are what survives, `Manager.cfg.Nodes` and the box's nodes are what
  is in memory. Its actions are Load (with the fetch of subscriptions and the fallback to the cache),
  the rounds of binding in Start and in reloads (other processes take ports between them), node
  create, update and delete with their saves, reload, refresh and exit. Every one of them
  holds lifecycleMu, so apart from the binding rounds each is one step.
  `pinned` is history: the ports node_ports.json has for one identity alone, which the next start owes
  the operator.
* **BoxOptions** is `builder.Build` and createBox's pruning as functions from a node list to sets of
  inbounds, outbounds and rules. Tags are the strings the code makes, as sequences of the parts between
  dashes, so that tags of different origin may be equal as in the code. createBox removes one rejected outbound per attempt; Prune removes a
  set of them, and the lemma PruneTwice shows that attempts in any order come to the same.
  **NodeRoutes** applies it to every node list NodePorts hands to a box and states RoutesSound.
* **ConfigFiles** is `persistence.go` for one file used by several goroutines of several processes:
  process mutex, flock of the `.lock` sidecar, flock of the inode, the check that the path still
  names that inode, read, rename or overwrite, release in reverse order. Contents count the saves per
  group of fields, so a lost update shows as a count that is too small. A file overwritten in part may
  fail to parse, and is then left alone, or parse with some of its groups garbled (`Lost`), and is
  then saved again as if it were complete.
* **GeoLookup** is the database reader, the cache and its epoch, shared flights, Update and Close.
  **GeoRouter** is the region proxy: CONNECT and plain handlers in their steps, transports, tunnels,
  Stop. **GeoRouting** composes the two the way the program does: Build opens a lookup, asks from
  parallel workers and closes it, the pools that come of it are registered, the router gets them.
  The auto-updating lookup is a second use of the same code, by itself (`standalone`).
* **ManagementAuth** has the login sessions: the login handler in its steps, `withAuth` with its
  read-then-check, logout, cleanup, expiry, the limit, and changes of the password by settings and by
  reloads.

`MC*` modules supply TLC with constants; `*Proofs` modules hold theorems. Two of those are about two
components each: ManagementProofs (SubscriptionRefresh and ManagementAuth) and ConfigurationProofs
(NodeRoutes and ConfigFiles). They extend both, so ManagementAuth and ConfigFiles have names of their
own for the usual definitions (AuthInit, AuthNext, AuthSpec, AuthTypeOK; FilesInit, FilesNext,
FilesSpec, FilesTypeOK).

## 3. Runs

A passing run checks the invariants and properties of its component together. Type correctness is a
conjunct of the component's first invariant. Bounds are constants in the guards, named in the modules.

| run | instance | distinct states | shows |
|---|---|---|---|
| session_store | 2 sessions, 2 dials, 2 gate cells, limits (2, 2) and (1, 3), clock 0..2, one Clear, one Delete per gate | 149 K | leases exclusive; gates counted and their token never blocks its sender; cache bounded and in expiry order; expired bindings stay dead; refinement of the promise; waiters served |
| member_health | 2 threads, all failure kinds, pin failures, operator bans shorter and longer than the others, resets at any point, clock to 4 | 407 K | an operator's ban holds, a cooldown survives the automatic paths, nothing but a release or a reset shortens a ban, the monitor is out of step only after crossed updates |
| pool_dial | 2 members (one without UDP), a TCP and a UDP client competing for one session, 2 attempts, bans that run out | 114 K | gauge exact, attempt budget, the extra selection of a dead pin, sessions stay, the store is used as promised, a request that never ends is in a dial that hangs or behind one |
| box_manager | 2 requests, 4 node sets (one cannot start, one has a foreign port), 2 edits (one cannot start, one switches routing off), 2 lifecycle operations, one slow port | 188 K | one instance, none after Close; edits, router, cache and box in step; service survives; ports kept; Close returns |
| subscription_refresh | 1 editor, 1 refresher, settings with and without timer | 81 K | send never blocks, no stale success, timer follows settings, calls finish |
| probe_sweep | 2 nodes (one with probe target), 2 triggers, 3 calls | 207 K | one sweep, exact progress, flag goes out, no trigger lost, a sweep ends |
| probe_results | 1 node, a sweep and 2 clients, 2 runs | 1,329 K | one callback per node, results move forward |
| config_load | 4 URIs of 3 identities, 9 ports (5 of other listeners), 2 providers, 3 setups of mode and subscriptions, 2 old port files, 2 starts, 2 operations | 178 K | ports of their own for the nodes of every box (AssignmentSound), kept over restarts and reloads (PortsStable); inline nodes kept (InlineKept) and nodes.txt in step with memory (CacheCurrent); options that route each port to its node (RoutesSound), with a node whose pool has the sticky pool's tag among them |
| config_files | 3 processes (one in place), 4 writers, 1 reader, 1 crash, every failure, a torn file that parses with every group garbled, 4 inodes | 149 K | UpdatesKept, ReadsWhole, SavesFinish |
| geo_routing | 3 nodes on 2 hosts, cache of 1, 1 download, 2 updaters, a CONNECT and 2 plain requests, 2 Stops | 64 K | GeoSound, GeoEnds |
| management_auth | 3 logins, 1 request, table of 2, 2 password changes, TTL 2, clock to 3 | 525 K | AuthSound |

Why these bounds are enough. The session races need a holder, a contender and an operator, and a
gate that goes away and comes back (two cells); two sessions with capacities one and two give every
eviction and re-ordering case of a two-element list, and clock 2 lets a binding expire under the
short TTL but not under the long one. The member races need two threads and a clock longer than the
shortest ban. In the pool, two members and two attempts separate "pin failed", "other member failed"
and "budget used up", a pin set by TCP may be useless for UDP, and clock 2 lets a ban run out;
threshold 1 is enough because counting up to the threshold is member_health's. A reload, a refresh
and a shutdown can meet at every step with two requests and the main thread. Port assignment meets
its cases with four nodes, two of one identity, nine ports with the listeners scattered among them
(so the cursor skips, collides and runs out), a sidecar with a duplicate and one with the old URI
keys, and two starts (what one process saves the next one loads). Lost updates need two writers of
different groups; the inode check needs a writer that renames while another waits for the old inode,
and two attempts let it both retry and give up; the in-place process is the one whose crash can tear
the file. GeoIP needs two callers of one host (a shared flight) and one of another (eviction), one
swap, and Stop from two sides. Logins need more logins than places, and two changes so that a
password can come back. Where theorems exist (section 5) they remove the bounds.

Deadlock is checked in the session, member and pool runs. The others switch it off because these
systems stop: after Close or Stop and when the budgets are used up nothing is left to do. The
liveness properties say there what has to happen before that.

**Fairness.** A goroutine that can take its next step does (weak fairness on the steps of
requests, the worker, lifecycle operations, sweeps, file operations and handlers); a goroutine parked
on a Go channel is served in arrival order, so a token offered again and again reaches it (strong
fairness on receiving the session token); timeouts of a sweep's probe, of downloads, of the router's
Shutdown (five seconds) and of idle connections fire. Nothing is assumed of operators,
cancellations, clocks, probe callbacks that never return, failures, crashes, or clients. Nor of
dials: pool.go sets no timeout and an outbound may ignore its context (CHANGELOG.md:101). In
SessionStore a holder need not release, and in PoolDial no outcome of a dial is fair. RequestReturns
therefore says that a request returns again and again, or is in one dial for ever, or waits for a
session whose owner is.

### The run that finds a disagreement

*subscription_publish_race* violates PublicationKept: the worker reads the starting settings after
its own copy, and a PUT in between is overwritten by the refresh transaction
(`subscription/manager.go:410` against the comment at `:444`; quoted in `findings`).

### Other disagreements met while modelling

They have no run; each is a trace of the models with a guard or an assumption changed, or plain from
the lines.

Runtime:
* A failed session pin turns a longer cooldown into an ordinary ban, and the next good probe lifts it
  (`shared_state.go:223`, against CHANGELOG.md:76). CooldownSurvives is therefore stated until a ban
  takes over.
* Settings are edited in the object a rollback goes back to, so after an edit that cannot start reload
  and rollback fail alike (`boxmgr/manager.go:251`, against `:397` and CHANGELOG.md:55).
  ServiceSurvives therefore excludes such edits.
* A sweep between Register and SetProbe shows an unprobed node as available
  (`monitor/manager.go:393`, against `:521`).
* With `EarlyRequests = TRUE`, RuntimeInStep fails: app.Run hands the startup configuration to the
  server after Start (`app/app.go:55`), and a reload that completed in between is overwritten.
* Without `~crossed`, MonitorInStep fails: a release that overtakes a failing dial between unlock and
  copy leaves the dashboard showing a ban the pool does not have.
* A reload whose attempts meet a port for too long resets the records a second time without clearing
  the monitor (`boxmgr/manager.go:345`, unlike `:285`): a ban the failed instance showed stays on the
  dashboard, and its dials that end late still write there. MemberHealth has the first reset only.
* A GeoIP router whose port is taken at a reload is reported and given up (`boxmgr/manager.go:585`): the
  service goes on without region routing although the old router was fine. RuntimeInStep allows it.

Configuration:
* DeleteNode of a subscription node followed by CreateNode may give its port to the new node, which
  is saved as explicit; the sidecar still has it for the old one, and the next Load reports a
  conflict. CreateNode may also pick a reserved listener's port. (CHANGELOG.md:62 promises stable
  assignments.)
* In hybrid mode UpdateNode to a port another node has takes that node's stable port at the next
  reload, although `config.go:877` says explicit ports do not displace preserved ones.
* `reassignConflictingPort` (`boxmgr/manager.go:1195`) does not know the ports that
  `reservedListenerPorts` (`config/ports.go:28`) keeps for listeners, 9092 among them: it may move a node
  to one, the sidecar records it, and the next Load gives the node another. PortsStable therefore
  promises only ports that are not reserved; the proof attempt for the stronger statement found this.
* Start moves nodes whose port is taken without saving the sidecar, so the next start moves them back.
* Nodes of one identity (two URIs that differ in the name) swap ports when their order changes.
* Tags collide, although `builder.go:72` says "Ensure tag uniqueness": those of names a, a, a-2, and
  those of outbounds of different kinds. The pool of a node named sticky gets the tag
  proxy-pool-sticky of the sticky pool (`builder.go:302` and `:252`), a node named pool-jp that of a
  region's pool (`:371`), a node named proxy-pool that of the pool itself. A rule then leads
  elsewhere, or sing-box refuses the duplicate. RoutesSound and its theorem are stated for lists of
  which every tag is of one outbound.
* A provider that answers without nodes at a start has not failed for
  `shouldUseCachedSubscriptionNodes` (`config.go:1048`): its nodes leave nodes.txt, although
  CHANGELOG.md:56 says "retain the previous subscription set if any provider fails or returns empty
  content". A refresh at run time does retain it.
* A crash inside an in-place write (`persistence.go:211`) may leave new text with the end of the old
  that parses. The next save takes it for complete (`:116`), and writes back what became of the groups
  it does not own. UpdatesKept promises those groups only from the next save of their owners on.
* In pool mode a sticky.port equal to the provisional port of a node, which nothing listens on, refuses
  the configuration.
* When sing-box rejects a node, its inbound stays, and its traffic goes to the default route.
* SaveNodes that fails after nodes.txt was written leaves it changed (`config.go:2000`).

GeoIP and logins:
* README.md:225 and config.example.yaml:140 promise automatic updates of the database; Build opens
  its lookup without them (`builder.go:45`) and nothing else starts them.
* A caller that joins a flight begun before an update gets the old database's answer (not cached).
* A request authorised before a password change still takes effect after it.

## 4. Properties worth a second look

* *ImplementsPromise* is where versions, epochs, gates, expiry and the LRU list come together: Delete
  must bump the version of a gate even when nothing is bound, or a dial that is about to commit
  brings back what the operator removed.
* *CacheSound* includes that the LRU list is in expiry order, which is what allows pruning to stop at
  the first live entry; Configure changes every expiry and must keep it.
* *AttemptBudget* is an upper and a lower bound: a failed pin buys one more selection at the last
  attempt, and never two.
* *TriggersCovered* relates the nodes at the last trigger to those of the last sweep across a
  registry that is cleared and filled again.
* *PortsStable* spans a restart: what SaveNodePortMap wrote, whichever write failed, is what the next
  process assigns, unless the operator or a listener has the port.
* *CacheCurrent* relates a file and memory over every order of start, edit, reload, refresh and undo:
  it is what makes the fallback of the next start worth having.
* *UpdatesKept* rests on the lock of the inode and the check that the path still names it: without
  the check a writer that waited for an inode updates a file nobody sees any more. The proof
  (section 5) shows what the other two locks are not needed for: it uses the process mutex only to
  bound the number of open files, and the sidecar not at all. For a file that exists they order
  the writers and save retries; the sidecar matters while a file is being created, which is not
  modelled.
* *GeoSound* for the cache needs the epoch (a miss that started before a swap ends after it), and for
  tunnels the second look at `closed` under the lock that registers them.
* *AuthSound* depends on the login handler holding cfgMu from the comparison to the insertion.

## 5. Proofs

Safety is proved for every value of the constants (any number of goroutines, sessions, nodes,
objects, any limits and bounds). Each argument is an invariance proof: an inductive invariant that
holds initially, is kept by each action and implies the property. TLC checked each invariant on an
instance before it was proved. Finite cardinalities and sequences come from FiniteSetTheorems and
SequenceTheorems.

| module | inductive invariant | theorems (property) |
|---|---|---|
| SessionStoreProofs | GateInv, CacheInv, LeaseInv | GatesSound, LeaseIsExclusive (LeaseExclusive), GatesAreCounted (GatesCounted), CacheIsSound (CacheSound), BindingsAgeWell (BindingsAge), StoreKeepsPromise (ImplementsPromise) |
| MemberHealthProofs | BanInv, MirrorInv | OperatorBanIsKept (OperatorBanHolds), CooldownIsKept (CooldownSurvives), BansOnlyGrow (OnlyReleasesShorten), EntryFollowsMember (MonitorInStep) |
| ProbeMonitorProofs | GateInv, TriggerInv, RunInv, ProgressInv | OneSweepAtATime, NoTriggerLost (TriggersCovered), OneCallbackPerNode (OneCallback), ResultsMoveForward (HealthMovesForward), ProgressIsExact (ProgressExact) |
| BoxManagerProofs | InstanceInv, RunInv, EditInv | OneInstanceAlways (OneInstance), ServiceIsKept (ServiceSurvives), PortsAreKept (ReloadKeepsPorts), RuntimeFollows (RuntimeInStep) |
| PoolDialProofs | PoolInv | GaugeIsExact (ActiveExact), AttemptsAreBounded (AttemptBudget), SessionsStay (SessionStays), StoreUsedAsPromised (StorePromised) |
| ManagementProofs | CallInv, WaitInv, TimerInv; AuthInv | SendsNeverBlock (SendNeverBlocks), RefreshesAreCurrent (RefreshUsesCurrent), TimerIsKept (TimerFollowsSettings); SessionsAreCurrent, AuthIsSound (AuthSound) |
| ConfigurationProofs | NodeInv; SaveInv | PortsAreSound (AssignmentSound), InlineNodesKept (InlineKept), CacheIsCurrent (CacheCurrent), PortsAreStable (PortsStable), RoutesAreSound (RoutesSound); NoSaveLost (UpdatesKept), NoHalfReads (ReadsWhole) |
| GeoRoutingProofs | LookupInv, RouterInv | GeoIsSound (GeoSound) |

Why the properties need the stronger invariants:

* **Session gates.** LeaseExclusive says nothing that keeps two dials of a session from waiting on
  different channels. GateInv: a counted dial's gate is the one in the map, gates of different
  sessions differ, a gate in the map has as many references as dials counted on it (so only the last
  one drops it), and a token that is out has one taker.
* **Session cache.** The list is in order of expiry only because it is in order of use and every
  binding expires one TTL after its last use, which Configure restores for all of them (CacheInv).
* **Promise.** The refinement maps a dial's lease to ownership and the map to the pins. A commit is
  a step of the promise because the stamps of a revoked dial are behind the epoch or the version of its
  gate, which only grow (LeaseInv); prune, eviction and Configure are the promise's forgetting;
  everything else stutters.
* **Member health.** Threads act on clock readings of the past. BanInv bounds those readings and says
  that the record's operator mark is the operator's expiry while that ban runs. MirrorInv: record and
  entry differ only while a copy is on its way; unless updates crossed there is one such thread, and
  what it brings is the state of the record.
* **Pool.** The gauge counts the requests between pick and outcome or with an open connection, member by
  member, so it is exact when each of them is counted once and leaves once. OwnerInv says that a request
  in the loop owns its session and no two own the same; LoopInv what the budget is before and after the
  pin failed; PinInv what a request still knows of its session's node: it is free, the pin the
  request read, or a node the request saw fail; and once it dials another node than its pin, the
  pinned one had no eligible member. That is why a commit moves a session only away from a node that
  failed or could not be used, though the pin was read many steps before.
* **Probing.** A trigger not yet covered is on record as a rerun or as a sweep about to read the nodes
  (TriggerInv); callbacks belong to the current run, and the shown generation is at most the latest
  (RunInv); every entry of a sweep is to do, in progress or done, and the counters add up (ProgressInv).
* **Lifecycle.** InstanceInv gives for each stage of each operation who holds lifecycleMu, how many
  instances are up, which objects the operation owns and which it shares. RunInv says of every
  configuration an operation may still fall back to that it starts, and counts the tries against the
  conflicts that are left; it is the reason a rollback cannot fail. EditInv says that each of these
  configurations has the last edit, which is where sharing objects by pointer matters.
* **Subscriptions.** CallInv ties the queued call, the channel and the running call to the place of the
  worker (the channel is emptied a section before `pending` is); WaitInv says that the settings of a call
  only get newer while somebody waits for it; TimerInv says what a change of settings between the two
  sections of a tick leaves for the worker to do.
* **Ports.** The code walks the node list with a cursor over ports; the model gives the n-th node without
  a port the n-th free one. What a cursor never does, come back to a port, is that ranks number a
  finite set (Numbering, RankInjective, RankOnto), and every pass is then injective (FillNodes,
  NormalizedPorts, LoadedPorts, MovedSound). NodeInv adds to AssignmentSound that every list that may
  become `Manager.cfg.Nodes`, a candidate or the one a failed refresh goes back to, has the inline nodes
  of config.yaml; and that what the operator is owed is in node_ports.json under one identity and free.
  So applyPersistedPorts finds it, the passes before it leave it alone, and the next start
  assigns it.
* **Cache.** CacheInv adds to CacheCurrent what a reload under way carries: the list a refresh fetched
  is the one its candidate has from the file, a plain reload's candidate has the file's nodes, and
  an undo goes back to a list the file still has.
* **Options.** RoutesSound follows from the list being one of nodes. Where a tag is of one outbound a
  rule leads to one pool, and pruning takes a pool and the rules to it together (PruneParts).
* **Files.** Past the flock a goroutine has the lock of its inode; past the comparison that inode is the
  one at the path, because whoever would replace it needs the same lock; what a writer has read is what
  was saved last, in every group that is not spoiled; a file is torn only under its writer or after
  one that did not finish, and then every group is.
* **GeoIP.** An answer stamped with the current epoch is of the database in use; the updater with
  updateMu is the only one with readers of its own; after Close there is neither (LookupInv). RouterInv
  says who may still become a tunnel.
* **Logins.** The session about to be put into the table is of the password in force, since handleAuth
  keeps cfgMu in between.

**Assumptions.** The named ASSUMEs of the modules type the constants. The others are: allocation
succeeds (EnoughObjects, EnoughCalls: there is an object besides those in use, as with a garbage
collector; FileConstants asks for one inode more than processes), and a torn file is none of the
contents, nor Garbled a number of saves (TornIsNoContents). NodeConstants also says that an identity is
its own key, as `config.go` says of its bridge for old port files. Two hypotheses are stated in the theorems that need them:

* `Drains` (ServiceIsKept, PortsAreKept, RuntimeFollows): conflicts that pass with time are fewer than the
  attempts of a rollback and at most half of those of a reload. The code can only retry for a
  while; a port that stays occupied longer does leave it without a box, by design (the reload then reports
  the failed rollback). OneInstance needs no such hypothesis.
* `~EarlyRequests` (RuntimeFollows): requests wait until app.Run has wired the server. The code
  does not enforce it, and without it the property fails (section 3).

**Only model-checked.**

* Liveness (WaiterServed, RequestReturns, SweepEnds, SavesFinish, GeoEnds, CallsFinish, ShutdownCompletes):
  liveness under fairness is out of the prover's reach. Every safety property of a passing run is proved.
* PublicationKept is violated (section 3).

## 6. Not modelled

* URI, Clash and subscription parsing, protocol options, handshakes and page rendering: stateless
  string processing and I/O. A URI parses or does not; a provider returns a list or fails.
* The session inbound: protocol parsing on one connection; what it decides, the session key a
  request carries, is an input of PoolDial.
* Which member a balancing mode prefers, and the per-destination sticky map of the pool; the HTTP
  exchange of a probe.
* Timelines, traffic counters, sorting and filtering of snapshots; the log ring.
* Waiting for healthy nodes after a start: its outcome is free.
* Of configuration files: a bind mount that pins an inode of its own, replacing a file as a whole and
  creating it (the same transaction without the read), directory entries lost with the power. The
  Windows locks are the same two operations.
* Of the configuration: range checks and defaults of single settings.
* Of the member health: the second reset of a reload (section 3).
* BoxManager treats a node set as one that can or cannot start; which nodes createBox drops is
  BoxOptions' matter. NodePorts takes an operation under lifecycleMu as one step; what interleaves
  inside a reload is BoxManager's.

## 7. Plan

Done, in this order: store and promise, member health, pool, lifecycle, subscriptions, probing; ports
and node list, options, configuration files, GeoIP, logins; then the proofs of section 5, the pool, the
ports and the options last.

Next: the session inbound (parse, authenticate, attach the key) as the environment of PoolDial; the
per-destination sticky map of the pool; creation and replacement of whole files in ConfigFiles, where
the sidecar lock starts to matter. Of the proofs, the ports could be taken further: that a reload moves
no more nodes than conflicts force it to.
