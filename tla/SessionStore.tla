---------------------------- MODULE SessionStore ----------------------------
(***************************************************************************)
(* internal/routing/store.go: the sticky-session store.  A dial for a      *)
(* named session acquires the session's gate (a one-token channel shared   *)
(* by every dial of that session), reads the pinned node, dials, commits   *)
(* the node that answered, and releases the gate.  The operator deletes    *)
(* and clears bindings and changes the limits while dials are in flight.   *)
(*                                                                         *)
(* One action is one critical section of Store.mu or one channel operation *)
(* on a gate's token, so every interleaving of the code's goroutines is    *)
(* here.  The cache operations are those of BindingCache.                  *)
(***************************************************************************)
EXTENDS BindingCache, FiniteSets

CONSTANTS Key, Proc, Node,
          Gate,           \* heap cells a sessionGate may live in
          NoKey, NoGate, NoNode,
          Limits,         \* <<max, ttl>> arguments Configure is called with
          DefaultMax, DefaultTTL,
          MaxTime,        \* bound: the clock stops here
          MaxEpoch,       \* bound on Clear
          MaxVersion      \* bound on Delete of a session with a gate

ASSUME NullsAreFresh == NoKey \notin Key /\ NoGate \notin Gate /\ NoNode \notin Node
ASSUME ProcsFinite == IsFiniteSet(Proc)
ASSUME DefaultsPositive == DefaultMax \in Nat \ {0} /\ DefaultTTL \in Nat \ {0}
ASSUME LimitsAreNaturals == Limits \subseteq Nat \X Nat
ASSUME BoundsAreNaturals == MaxTime \in Nat /\ MaxEpoch \in Nat /\ MaxVersion \in Nat

VARIABLES
  entries,   \* Store.entries: a function from the bound keys to their bindings
  lru,       \* Store.lru, front (most recent) first
  max, ttl,  \* Store.max, Store.ttl
  epoch,     \* Store.epoch
  now,       \* the clock behind Store.now
  gates,     \* Store.gates: gates[k] is k's gate, or NoGate
  heap,      \* heap[g]: the sessionGate in cell g
  pc,        \* how far p's dial is
  call,      \* p's locals: key, gate and, once leased, the lease's stamps
  revoked    \* history: dials whose session was unbound under their live lease

cacheVars == <<entries, lru>>
limitVars == <<max, ttl>>
gateVars  == <<gates, heap>>
procVars  == <<pc, call, revoked>>
vars == <<entries, lru, max, ttl, epoch, now, gates, heap, pc, call, revoked>>

Stage == {"idle", "waiting", "granted", "leased", "released", "returning"}
Lease(k, g, v, e) == [key |-> k, gate |-> g, version |-> v, epoch |-> e]
Waiting(k, g) == Lease(k, g, 0, 0)
NoCall == Waiting(NoKey, NoGate)
NewGate(n) == [token |-> TRUE, refs |-> n, version |-> 0]
NewRef(g) == [g EXCEPT !.refs = @ + 1]

-----------------------------------------------------------------------------
Cache == [entries |-> entries, lru |-> lru]
SetCache(c) == entries' = c.entries /\ lru' = c.lru

-----------------------------------------------------------------------------
Positive(x, default) == IF x = 0 THEN default ELSE x

Init ==
  /\ entries = << >> /\ lru = << >>
  /\ \E l \in Limits : max = Positive(l[1], DefaultMax) /\ ttl = Positive(l[2], DefaultTTL)
  /\ epoch = 0
  /\ now = 0
  /\ gates = [k \in Key |-> NoGate]
  /\ heap = [g \in Gate |-> NewGate(0)]
  /\ pc = [p \in Proc |-> "idle"]
  /\ call = [p \in Proc |-> NoCall]
  /\ revoked = {}

Goto(p, stage) == pc' = [pc EXCEPT ![p] = stage]
Return(p) == Goto(p, "idle") /\ call' = [call EXCEPT ![p] = NoCall]

\* A cell no map entry and no dial refers to: what the allocator may hand out.
Unreferenced(g) ==
  /\ \A k \in Key : gates[k] # g
  /\ \A p \in Proc : call[p].gate # g

\* Acquire, first critical section: find or create the gate, count ourselves.
BeginAcquire(p, k) ==
  /\ pc[p] = "idle"
  /\ \E g \in Gate :
       /\ IF gates[k] = NoGate THEN Unreferenced(g) ELSE g = gates[k]
       /\ gates' = [gates EXCEPT ![k] = g]
       /\ heap' = [heap EXCEPT ![g] = IF gates[k] = NoGate THEN NewGate(1)
                                      ELSE NewRef(heap[g])]
       /\ call' = [call EXCEPT ![p] = Waiting(k, g)]
  /\ Goto(p, "waiting")
  /\ UNCHANGED <<cacheVars, limitVars, epoch, now, revoked>>

\* The select's receive from gate.token.
TakeToken(p) ==
  /\ pc[p] = "waiting"
  /\ heap[call[p].gate].token
  /\ heap' = [heap EXCEPT ![call[p].gate].token = FALSE]
  /\ Goto(p, "granted")
  /\ UNCHANGED <<cacheVars, limitVars, epoch, now, gates, call, revoked>>

\* Seeded fault: the gate leaves the map while other dials still use it.
ReleaseReferenceEarly(p) ==
  /\ heap' = [heap EXCEPT ![call[p].gate].refs = @ - 1]
  /\ gates' = [gates EXCEPT ![call[p].key] = NoGate]

\* Seeded fault: the last dial leaves its gate in the map.
ReleaseReferenceLeaky(p) ==
  /\ heap' = [heap EXCEPT ![call[p].gate].refs = @ - 1]
  /\ UNCHANGED gates

\* releaseReference: its effect on the gates; the caller moves p on.
ReleaseReference(p) ==
  LET k == call[p].key
      g == call[p].gate
  IN  /\ heap' = [heap EXCEPT ![g].refs = @ - 1]
      /\ gates' = IF heap[g].refs = 1 /\ gates[k] = g
                  THEN [gates EXCEPT ![k] = NoGate] ELSE gates

\* The context ends while the dial waits for the token.
CancelWaiting(p) ==
  /\ pc[p] = "waiting"
  /\ ReleaseReference(p)
  /\ Return(p)
  /\ UNCHANGED <<cacheVars, limitVars, epoch, now, revoked>>

\* Seeded fault: the late cancellation keeps the token.
CancelGrantedKeepsToken(p) ==
  /\ pc[p] = "granted"
  /\ ReleaseReference(p)
  /\ Return(p)
  /\ UNCHANGED <<cacheVars, limitVars, epoch, now, revoked>>

\* The context ended although the token was received: the reference goes
\* first, the token afterwards (ReturnToken).
CancelGranted(p) ==
  /\ pc[p] = "granted"
  /\ ReleaseReference(p)
  /\ Goto(p, "returning")
  /\ UNCHANGED <<cacheVars, limitVars, epoch, now, call, revoked>>

\* Acquire, second critical section: stamp the lease.
MakeLease(p) ==
  /\ pc[p] = "granted"
  /\ LET g == call[p].gate
     IN  call' = [call EXCEPT ![p] = Lease(call[p].key, g, heap[g].version, epoch)]
  /\ Goto(p, "leased")
  /\ UNCHANGED <<cacheVars, limitVars, epoch, now, gates, heap, revoked>>

\* A lease is live from its stamping to the `released` mark.
Holds(p, k) == pc[p] = "leased" /\ call[p].key = k

\* The stamp check that opens Binding and Bind.
Current(p) ==
  /\ pc[p] = "leased"
  /\ call[p].epoch = epoch
  /\ call[p].version = heap[call[p].gate].version

\* Lease.Binding: reads the pin, dropping it when it has idled out.
ReadBinding(p) ==
  /\ Current(p)
  /\ LET k == call[p].key
     IN  /\ k \in DOMAIN entries
         /\ Expired(entries[k], now)
         /\ SetCache(Removed(Cache, k))
  /\ UNCHANGED <<limitVars, epoch, now, gateVars, procVars>>

\* Lease.Bind after a successful dial; a stale lease commits nothing.
Bind(p, n) ==
  /\ Current(p)
  /\ SetCache(Capped(Touched(Pruned(Cache, now), call[p].key,
                             [node |-> n, seen |-> now, expires |-> now + ttl]), max))
  /\ UNCHANGED <<limitVars, epoch, now, gateVars, procVars>>

\* Lease.Release, its three steps: mark, drop the reference, give the token back.
BeginRelease(p) ==
  /\ pc[p] = "leased"
  /\ Goto(p, "released")
  /\ revoked' = revoked \ {p}
  /\ UNCHANGED <<cacheVars, limitVars, epoch, now, gateVars, call>>

DropReference(p) ==
  /\ pc[p] = "released"
  /\ ReleaseReference(p)
  /\ Goto(p, "returning")
  /\ UNCHANGED <<cacheVars, limitVars, epoch, now, call, revoked>>

ReturnToken(p) ==
  /\ pc[p] = "returning"
  /\ ~heap[call[p].gate].token           \* a full channel would block the sender
  /\ heap' = [heap EXCEPT ![call[p].gate].token = TRUE]
  /\ Return(p)
  /\ UNCHANGED <<cacheVars, limitVars, epoch, now, gates, revoked>>

\* Seeded fault: the version moves on only when a binding was there to delete.
DeleteBumpsBoundOnly(k) ==
  /\ IF gates[k] = NoGate \/ k \notin DOMAIN entries THEN UNCHANGED heap
     ELSE /\ heap[gates[k]].version < MaxVersion
          /\ heap' = [heap EXCEPT ![gates[k]].version = @ + 1]
  /\ SetCache(Removed(Pruned(Cache, now), k))
  /\ revoked' = revoked \cup {p \in Proc : Holds(p, k)}
  /\ UNCHANGED <<limitVars, epoch, now, gates, pc, call>>

\* Store.Delete: the gate's version moves on even when nothing is bound.
Delete(k) ==
  /\ IF gates[k] = NoGate THEN UNCHANGED heap
     ELSE /\ heap[gates[k]].version < MaxVersion
          /\ heap' = [heap EXCEPT ![gates[k]].version = @ + 1]
  /\ SetCache(Removed(Pruned(Cache, now), k))
  /\ revoked' = revoked \cup {p \in Proc : Holds(p, k)}
  /\ UNCHANGED <<limitVars, epoch, now, gates, pc, call>>

Clear ==
  /\ epoch < MaxEpoch
  /\ epoch' = epoch + 1
  /\ entries' = << >> /\ lru' = << >>
  /\ revoked' = {p \in Proc : pc[p] = "leased"}
  /\ UNCHANGED <<limitVars, now, gateVars, pc, call>>

Configure(m, t) ==
  /\ max' = Positive(m, DefaultMax)
  /\ ttl' = Positive(t, DefaultTTL)
  /\ SetCache(Capped(Pruned(Retimed(Pruned(Cache, now), ttl'), now), max'))
  /\ UNCHANGED <<epoch, now, gateVars, procVars>>

\* Store.List prunes as a side effect and extends nothing.
List ==
  /\ SetCache(Pruned(Cache, now))
  /\ UNCHANGED <<limitVars, epoch, now, gateVars, procVars>>

Tick ==
  /\ now < MaxTime
  /\ now' = now + 1
  /\ UNCHANGED <<cacheVars, limitVars, epoch, gateVars, procVars>>

Next ==
  \/ \E p \in Proc, k \in Key : BeginAcquire(p, k)
  \/ \E p \in Proc : TakeToken(p)
  \/ \E p \in Proc : CancelWaiting(p)
  \/ \E p \in Proc : CancelGranted(p)
  \/ \E p \in Proc : MakeLease(p)
  \/ \E p \in Proc : ReadBinding(p)
  \/ \E p \in Proc, n \in Node : Bind(p, n)
  \/ \E p \in Proc : BeginRelease(p)
  \/ \E p \in Proc : DropReference(p)
  \/ \E p \in Proc : ReturnToken(p)
  \/ \E k \in Key : Delete(k)
  \/ Clear
  \/ \E l \in Limits : Configure(l[1], l[2])
  \/ List
  \/ Tick

Spec == Init /\ [][Next]_vars

\* The steps of Acquire and of Release run to their end; a receiver parked on a channel
\* is served in arrival order by the Go runtime, so a token offered again and again
\* reaches it.  Dials owe nothing: a holder whose dial hangs never begins its Release.
\* Neither do cancellation, operators and time.
Progress(p) == MakeLease(p) \/ DropReference(p) \/ ReturnToken(p)
Fairness == \A p \in Proc : WF_vars(Progress(p)) /\ SF_vars(TakeToken(p))
FairSpec == Spec /\ Fairness

-----------------------------------------------------------------------------
\* Types of the store, the gates and the dials' locals.
TypeOK ==
  /\ DOMAIN entries \subseteq Key /\ \A k \in DOMAIN entries : entries[k] \in Binding(Node)
  /\ lru \in Seq(Key)
  /\ max \in Nat \ {0} /\ ttl \in Nat \ {0} /\ epoch \in Nat /\ now \in Nat
  /\ gates \in [Key -> Gate \cup {NoGate}]
  /\ heap \in [Gate -> [token : BOOLEAN, refs : Nat, version : Nat]]
  /\ pc \in [Proc -> Stage]
  /\ call \in [Proc -> [key : Key \cup {NoKey}, gate : Gate \cup {NoGate},
                        version : Nat, epoch : Nat]]
  /\ revoked \subseteq Proc

\* No two dials ever hold live leases of one session, although its gate may be
\* dropped from the map and created afresh while an old token is still on its
\* way back ("Lease serializes dial/commit for one key").
LeaseExclusive ==
  \A k \in Key, p, q \in Proc : Holds(p, k) /\ Holds(q, k) => p = q

Counted(p) == pc[p] \in {"waiting", "granted", "leased", "released"}

TokenSlotFree ==
  \A p \in Proc : pc[p] = "returning" => ~heap[call[p].gate].token

CountsExact ==
  \A k \in Key :
    LET users == {p \in Proc : Counted(p) /\ call[p].key = k}
    IN  /\ (gates[k] = NoGate) <=> (users = {})
        /\ \A p \in users : call[p].gate = gates[k]
        /\ gates[k] # NoGate => heap[gates[k]].refs = Cardinality(users)

\* The reference count is exact and "gates exist only while a session has
\* in-flight or waiting dials": none leaks, none disappears under a dial; and
\* returning a token never blocks, because the sender is the only dial that took it.
GatesCounted == CountsExact /\ TokenSlotFree

CacheBounded ==
  /\ \A k \in Key : (k \in DOMAIN entries) <=> (\E i \in DOMAIN lru : lru[i] = k)
  /\ \A i, j \in DOMAIN lru : lru[i] = lru[j] => i = j
  /\ Len(lru) <= max

LruIsExpiryOrder ==
  \A i, j \in DOMAIN lru : i < j => entries[lru[j]].expires <= entries[lru[i]].expires

\* The list and the map describe the same bindings, each listed once, within the
\* configured capacity, and "the least recently touched entry is also the first to
\* expire": what lets pruneLocked stop at the first live entry, across every change
\* of the TTL.
CacheSound == TypeOK /\ CacheBounded /\ LruIsExpiryOrder

ExpiredStaysDead ==
  \A k \in DOMAIN entries \cap DOMAIN entries' :
        /\ Expired(entries[k], now)
        /\ entries'[k].seen = entries[k].seen
        => Expired(entries'[k], now)

EvictionIsLRU ==
  \A k \in DOMAIN entries \ DOMAIN entries' :
        \/ Clear \/ Delete(k)
        \/ Expired(entries[k], now)
        \/ Expired([entries[k] EXCEPT !.expires = entries[k].seen + ttl'], now)
        \/ /\ Len(lru') = max'
           /\ \A j \in DOMAIN entries' : entries'[j].seen >= entries[k].seen

\* Only a Bind revives a session: a binding that has idled out under the policy in
\* force stays dead whatever Configure makes of the TTL.  And a live binding that is
\* not unbound by the operator and not timed out by a new TTL is lost to capacity
\* only, and then it is a least recently used one.
BindingsAge == [][ExpiredStaysDead /\ EvictionIsLRU]_vars

\* The store implements its promise: exclusive owners, commits by unrevoked
\* owners only, bindings forgotten but never invented.
Promise == INSTANCE SessionPromise WITH
  owned   <- [p \in Proc |-> IF pc[p] = "leased" THEN call[p].key ELSE NoKey],
  pinned  <- [k \in Key |-> IF k \in DOMAIN entries THEN entries[k].node ELSE NoNode]
ImplementsPromise == Promise!Spec

\* However many other dials of its session come and go, a dial waits for ever only
\* behind one that holds the session and never ends.
HoldsOn(q, k) == <>[]Holds(q, k)
WaiterServed ==
  \A p \in Proc, k \in Key :
    <>[](pc[p] = "waiting" /\ call[p].key = k) => \E q \in Proc : HoldsOn(q, k)
=============================================================================
