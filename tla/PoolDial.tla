------------------------------ MODULE PoolDial ------------------------------
(***************************************************************************)
(* outbound/pool/pool.go: requests (DialContext for TCP, ListenPacket for  *)
(* UDP) going through one pool.  A request acquires its named session, if  *)
(* it has one, reads the session's pin, then picks a member and dials it   *)
(* until a dial succeeds or the attempts run out, and releases the session *)
(* on every way out.                                                       *)
(*                                                                         *)
(* The pool composes two components: each member's health is a MemberState *)
(* record, and the session store is used through what it promises          *)
(* (SessionPromise, implemented by SessionStore).  One action is one       *)
(* section of the pool's mutex, one store call, or one dial with what the  *)
(* code does about its outcome.  selectByMode is any choice: the           *)
(* scheduling modes only order the candidates.                             *)
(***************************************************************************)
EXTENDS MemberState, FiniteSets

CONSTANTS Tag,             \* pool members
          Proc,            \* requests in flight
          Key, NoKey,      \* session names
          Node, NoNode,    \* stable identities of upstream nodes
          Identity,        \* Identity[m]: the identity of member m
          Networks,        \* Networks[m]: what m's outbound supports
          RetryAttempts,   \* attempts per request, 1 when retries are off
          BlacklistFailedPin,
          NetsOf,          \* NetsOf[p]: the networks p asks for, by DialContext or ListenPacket
          Kinds,           \* the failure kinds dials run into
          NoTag,
          MaxTime,         \* bound: the clock stops here
          MaxConns         \* bound: no new request while a member has this many connections

ASSUME PoolConstants ==
  /\ Identity \in [Tag -> Node] /\ Networks \in [Tag -> SUBSET {"tcp", "udp"}]
  /\ RetryAttempts \in Nat \ {0} /\ BlacklistFailedPin \in BOOLEAN
  /\ Kinds \subseteq FailureKind /\ NetsOf \in [Proc -> SUBSET {"tcp", "udp"}]
  /\ NoKey \notin Key /\ NoNode \notin Node /\ NoTag \notin Tag
  /\ IsFiniteSet(Proc) /\ MaxTime \in Nat \ {0}

VARIABLES
  now,
  member,      \* member[m]: m's sharedMemberState
  active,      \* active[m]: its connection gauge
  conns,       \* conns[m]: connections handed out through m and not yet closed
  owned, revoked, pinned,    \* the session store, see SessionPromise
  pc,          \* where request p is
  req          \* its locals, and for the properties: the attempt at which its pin
               \* failed, the nodes that failed it, and the nodes with no eligible
               \* member at its last selection

vars == <<now, member, active, conns, owned, revoked, pinned, pc, req>>
storeVars == <<owned, revoked, pinned>>

Store == INSTANCE SessionPromise

SingleMember == Cardinality(Tag) <= 1

NoRequest == [net |-> "tcp", key |-> NoKey, pin |-> NoNode, attempt |-> 0, max |-> 0,
              tried |-> {}, tracking |-> FALSE, via |-> NoTag, at |-> 0, cand |-> {},
              pinFailedAt |-> 0, failed |-> {}, out |-> {}]

Init ==
  /\ now = 1
  /\ member = [m \in Tag |-> Healthy]
  /\ active = [m \in Tag |-> 0] /\ conns = [m \in Tag |-> 0]
  /\ Store!Init
  /\ pc = [p \in Proc |-> "idle"]
  /\ req = [p \in Proc |-> NoRequest]

Goto(p, l) == pc' = [pc EXCEPT ![p] = l]
Update(p, r) == req' = [req EXCEPT ![p] = r]
Leave(p) == Update(p, NoRequest) /\ Goto(p, "return")    \* the locals are dead

\* The loop variables as DialContext sets them up before its first attempt.
FirstAttempt(r, pin) ==
  [r EXCEPT !.pin = pin, !.attempt = 1, !.max = RetryAttempts,
            !.tracking = ~SingleMember /\ RetryAttempts > 1]

\* A request arrives, with a session name or without.
Start(p, net, k) ==
  /\ pc[p] = "idle"
  /\ \A m \in Tag : conns[m] < MaxConns
  /\ LET r == [NoRequest EXCEPT !.net = net, !.key = k]
     IN  IF k = NoKey THEN Update(p, FirstAttempt(r, NoNode)) /\ Goto(p, "pick")
                      ELSE Update(p, r) /\ Goto(p, "acquire")
  /\ UNCHANGED <<now, member, active, conns, storeVars>>

\* acquireSession: Store.Acquire, then Lease.Binding in a section of its own.
Acquire(p) ==
  /\ pc[p] = "acquire"
  /\ Store!Grant(p, req[p].key)
  /\ Goto(p, "readPin")
  /\ UNCHANGED <<now, member, active, conns, req>>

ReadPin(p) ==
  /\ pc[p] = "readPin"
  /\ Update(p, FirstAttempt(req[p], IF p \in revoked THEN NoNode ELSE pinned[req[p].key]))
  /\ Goto(p, "pick")
  /\ UNCHANGED <<now, member, active, conns, storeVars>>

\* The caller's context ends: while waiting for the session, at the top of the
\* loop, and between a failure and the next attempt.
Cancel(p) ==
  /\ pc[p] \in {"acquire", "pick"}
  /\ Leave(p)
  /\ UNCHANGED <<now, member, active, conns, storeVars>>

Capable(m, p) == req[p].net \in Networks[m]
Usable(p, m) == m \notin req[p].tried /\ Capable(m, p) /\ ~IsBlacklisted(member[m], now).banned
Without(S) == {n \in Node : \A m \in S : Identity[m] # n}
PinMembers(p) == {m \in Tag : req[p].pin # NoNode /\ Identity[m] = req[p].pin}

\* pickMemberFor, first section: a usable member of the pinned node ...
PickPinned(p) ==
  /\ pc[p] = "pick"
  /\ \E m \in PinMembers(p) :
       /\ Usable(p, m)
       /\ member' = [member EXCEPT ![m] = IsBlacklisted(@, now)]
       /\ active' = [active EXCEPT ![m] = @ + 1]
       /\ Update(p, [req[p] EXCEPT !.via = m])
  /\ Goto(p, "dial")
  /\ UNCHANGED <<now, conns, storeVars>>

\* ... or else every member that is not banned and speaks the network.
Scan(p) ==
  /\ pc[p] = "pick"
  /\ \A m \in PinMembers(p) : ~Usable(p, m)
  /\ member' = [m \in Tag |-> IsBlacklisted(member[m], now)]
  /\ LET cand == {m \in Tag : ~member'[m].banned /\ Capable(m, p)}
     IN  /\ Update(p, [req[p] EXCEPT !.at = now, !.cand = cand,
                                       !.out = Without(cand \ req[p].tried)])
         /\ Goto(p, IF cand = {} THEN "recover" ELSE "choose")
  /\ UNCHANGED <<now, active, conns, storeVars>>

\* releaseIfAllBlacklistedLocked: a section of its own, with the clock reading
\* of the first one.
Recover(p) ==
  /\ pc[p] = "recover"
  /\ LET at == req[p].at
         swept == [m \in Tag |-> IsBlacklisted(member[m], at)]
         allBanned == \A m \in Tag : swept[m].banned
         freed == [m \in Tag |-> ReleaseIfPermanent(swept[m], at)]
         cand == {m \in Tag : ~freed[m].banned /\ Capable(m, p)}
     IN  /\ member' = IF allBanned THEN freed ELSE swept
         /\ IF allBanned /\ cand # {}
            THEN /\ Update(p, [req[p] EXCEPT !.cand = cand, !.out = Without(cand \ req[p].tried)])
                 /\ Goto(p, "choose")
            ELSE Leave(p)
  /\ UNCHANGED <<now, active, conns, storeVars>>

\* Seeded fault: the scheduling mode chooses freely once the pool had to be scanned.
ChooseIgnoringPin(p) ==
  /\ pc[p] = "choose"
  /\ LET untried == req[p].cand \ req[p].tried
     IN  \E m \in IF untried # {} THEN untried ELSE req[p].cand :
           /\ active' = [active EXCEPT ![m] = @ + 1]
           /\ Update(p, [req[p] EXCEPT !.via = m, !.at = 0, !.cand = {}])
  /\ Goto(p, "dial")
  /\ UNCHANGED <<now, member, conns, storeVars>>

\* The filters on the candidates, then selectMember, then incActive.
Choose(p) ==
  /\ pc[p] = "choose"
  /\ LET untried == req[p].cand \ req[p].tried
         left == IF untried # {} THEN untried ELSE req[p].cand
         pins == left \cap PinMembers(p)
     IN  \E m \in IF pins # {} THEN pins ELSE left :
           /\ active' = [active EXCEPT ![m] = @ + 1]
           /\ Update(p, [req[p] EXCEPT !.via = m, !.at = 0, !.cand = {}])
  /\ Goto(p, "dial")
  /\ UNCHANGED <<now, member, conns, storeVars>>

\* Was this dial the session's own pin?
IsPin(p) == req[p].key # NoKey /\ req[p].pin # NoNode /\ Identity[req[p].via] = req[p].pin

\* recordFailure for the pool; a failed TCP pin is banned at once (recordPinFailure).
AfterFailure(p, kind) ==
  LET m == member[req[p].via]
  IN  IF req[p].net = "tcp" /\ IsPin(p) /\ BlacklistFailedPin /\ kind = "permanent"
      THEN BlacklistNow(m, now + BlacklistDuration)
      ELSE RecordFailure(m, kind, now)

\* Seeded fault: no extra selection on the last attempt.
PinDroppedOneShort(r) ==
  [r EXCEPT !.pin = NoNode, !.pinFailedAt = r.attempt, !.tracking = TRUE,
            !.tried = @ \cup {r.via}, !.max = IF @ < r.attempt THEN r.attempt + 1 ELSE @]

\* dropFailedPin: the pin is forgotten and one more selection is bought.
PinDropped(r) ==
  LET dropped == [r EXCEPT !.pin = NoNode, !.pinFailedAt = r.attempt]
  IN  IF SingleMember THEN dropped
      ELSE [dropped EXCEPT !.tracking = TRUE, !.tried = @ \cup {r.via},
                           !.max = IF @ <= r.attempt THEN r.attempt + 1 ELSE @]

\* The dial failed and the caller is still there: account for it, then try again
\* or give up.
DialFails(p, kind) ==
  /\ pc[p] = "dial"
  /\ LET via == req[p].via
         noted == [req[p] EXCEPT !.tried = IF req[p].tracking THEN @ \cup {via} ELSE @,
                                 !.failed = @ \cup {Identity[via]}]
         r == IF IsPin(p) THEN PinDropped(noted) ELSE noted
     IN  /\ active' = [active EXCEPT ![via] = @ - 1]
         /\ member' = [member EXCEPT ![via] = AfterFailure(p, kind)]
         /\ IF r.attempt < r.max
            THEN Update(p, [r EXCEPT !.attempt = @ + 1, !.via = NoTag]) /\ Goto(p, "pick")
            ELSE Update(p, [r EXCEPT !.via = NoTag]) /\ Goto(p, "exhausted")
  /\ UNCHANGED <<now, conns, storeVars>>

\* Seeded fault: the gauge keeps a cancelled dial.
DialCancelledStaysActive(p) ==
  /\ pc[p] = "dial"
  /\ Leave(p)
  /\ UNCHANGED <<now, member, active, conns, storeVars>>

\* The context ended during the dial, whatever its outcome: no verdict on the node.
DialCancelled(p) ==
  /\ pc[p] = "dial"
  /\ active' = [active EXCEPT ![req[p].via] = @ - 1]
  /\ Leave(p)
  /\ UNCHANGED <<now, member, conns, storeVars>>

\* Seeded fault: the session is released as soon as the dial is through.
DialSucceedsReleasesFirst(p) ==
  /\ pc[p] = "dial"
  /\ member' = [member EXCEPT ![req[p].via] = RecordSuccess(@)]
  /\ IF owned[p] = NoKey THEN UNCHANGED storeVars ELSE Store!GiveUp(p)
  /\ Goto(p, IF req[p].key # NoKey /\ req[p].net = "tcp" THEN "bind" ELSE "handOut")
  /\ UNCHANGED <<now, active, conns, req>>

DialSucceeds(p) ==
  /\ pc[p] = "dial"
  /\ member' = [member EXCEPT ![req[p].via] = RecordSuccess(@)]
  /\ Goto(p, IF req[p].key # NoKey /\ req[p].net = "tcp" THEN "bind" ELSE "handOut")
  /\ UNCHANGED <<now, active, conns, storeVars, req>>

\* Lease.Bind: commits unless the session was unbound meanwhile.
Bind(p) ==
  /\ pc[p] = "bind"
  /\ IF p \in revoked THEN UNCHANGED storeVars
     ELSE /\ pinned' = [pinned EXCEPT ![req[p].key] = Identity[req[p].via]]
          /\ UNCHANGED <<owned, revoked>>
  /\ Goto(p, "handOut")
  /\ UNCHANGED <<now, member, active, conns, req>>

\* The tracked connection goes to the caller.
HandOut(p) ==
  /\ pc[p] = "handOut"
  /\ conns' = [conns EXCEPT ![req[p].via] = @ + 1]
  /\ Leave(p)
  /\ UNCHANGED <<now, member, active, storeVars>>

\* Seeded fault: the error return after the last attempt forgets the release.
ReturnLeaksLease(p) ==
  /\ pc[p] \in {"return", "exhausted"}
  /\ IF owned[p] = NoKey \/ pc[p] = "exhausted" THEN UNCHANGED storeVars ELSE Store!GiveUp(p)
  /\ Update(p, NoRequest)
  /\ Goto(p, "idle")
  /\ UNCHANGED <<now, member, active, conns>>

\* The deferred Lease.Release on every way out.
Return(p) ==
  /\ pc[p] \in {"return", "exhausted"}
  /\ IF owned[p] = NoKey THEN UNCHANGED storeVars ELSE Store!GiveUp(p)
  /\ Update(p, NoRequest)
  /\ Goto(p, "idle")
  /\ UNCHANGED <<now, member, active, conns>>

\* trackedConn.Close, first call; later ones do nothing.
Close(m) ==
  /\ conns[m] > 0
  /\ conns' = [conns EXCEPT ![m] = @ - 1]
  /\ active' = [active EXCEPT ![m] = @ - 1]
  /\ UNCHANGED <<now, member, storeVars, pc, req>>

\* A successful health probe of a member.
ProbeSucceeds(m) ==
  /\ member' = [member EXCEPT ![m] = ReleaseIfPermanent(@, now)]
  /\ UNCHANGED <<now, active, conns, storeVars, pc, req>>

\* The operator unbinds a session; bindings idle out or are evicted.
Unbind(k) ==
  /\ pinned' = [pinned EXCEPT ![k] = NoNode]
  /\ revoked' = revoked \cup {p \in Proc : owned[p] = k}
  /\ UNCHANGED <<now, member, active, conns, owned, pc, req>>

Forget(k) ==
  /\ pinned' = [pinned EXCEPT ![k] = NoNode]
  /\ UNCHANGED <<now, member, active, conns, owned, revoked, pc, req>>

Tick ==
  /\ now < MaxTime
  /\ now' = now + 1
  /\ UNCHANGED <<member, active, conns, storeVars, pc, req>>

Request(p) ==
  \/ \E net \in NetsOf[p], k \in Key \cup {NoKey} : Start(p, net, k)
  \/ Acquire(p) \/ ReadPin(p) \/ Cancel(p)
  \/ PickPinned(p) \/ Scan(p) \/ Recover(p) \/ Choose(p)
  \/ \E kind \in Kinds : DialFails(p, kind)
  \/ DialCancelled(p) \/ DialSucceeds(p)
  \/ Bind(p) \/ HandOut(p) \/ Return(p)

Next ==
  \/ \E p \in Proc : Request(p)
  \/ \E m \in Tag : Close(m) \/ ProbeSucceeds(m)
  \/ \E k \in Key : Unbind(k) \/ Forget(k)
  \/ Tick

Spec == Init /\ [][Next]_vars

\* The steps a running request takes by itself: sections and deferred calls run.  A dial
\* need not end: the pool sets no timeout of its own, and an outbound may ignore the
\* caller's context.
Progress(p) ==
  \/ ReadPin(p) \/ PickPinned(p) \/ Scan(p) \/ Recover(p) \/ Choose(p)
  \/ Bind(p) \/ HandOut(p) \/ Return(p)

\* A session's gate serves its waiters in arrival order (Go's channel queue), so a
\* waiter is not passed over for ever: strong fairness of Acquire.
FairSpec == Spec /\ \A p \in Proc : WF_vars(Progress(p)) /\ SF_vars(Acquire(p))

-----------------------------------------------------------------------------
(* Properties *)

TypeOK ==
  /\ now \in 1..MaxTime
  /\ member \in [Tag -> Member]
  /\ active \in [Tag -> Nat] /\ conns \in [Tag -> Nat]
  /\ owned \in [Proc -> Key \cup {NoKey}] /\ revoked \subseteq Proc
  /\ pinned \in [Key -> Node \cup {NoNode}]
  /\ \A p \in Proc :
       /\ pc[p] \in {"dial", "bind", "handOut"} <=> req[p].via # NoTag
       /\ pc[p] = "choose" => req[p].cand # {}
       /\ p \in revoked => owned[p] # NoKey

\* Whatever way dials end (success, failure, cancellation, close), the gauge that
\* the balance mode compares and the dashboard shows is exactly the dials running
\* through the member plus the connections open through it: no leak, no early
\* decrement.  (TypeOK: a request has a member exactly while it dials or hands out.)
ActiveExact ==
  /\ TypeOK
  /\ \A m \in Tag : active[m] = conns[m] + Cardinality({p \in Proc : req[p].via = m})

\* A request makes at most the configured number of attempts, and one more only
\* when it was its session's pin that used up the last one.  A failed pin "always
\* buys one extra selection in that request" (README.md:183): a request that runs out of
\* attempts after its pin failed has dialled again since.
AttemptBudget ==
  \A p \in Proc :
     /\ req[p].attempt <= RetryAttempts + (IF req[p].pinFailedAt = RetryAttempts THEN 1 ELSE 0)
     /\ pc[p] = "exhausted" /\ req[p].pinFailedAt # 0 /\ ~SingleMember
          => req[p].attempt > req[p].pinFailedAt

\* A bound session moves to another node only on behalf of a TCP request that owns
\* it, was not revoked, and has either seen the old node fail or found no eligible
\* member of it when it last selected.
Migrates(k) == pinned[k] # NoNode /\ pinned'[k] \notin {NoNode, pinned[k]}
SessionStays ==
  [][\A k \in Key : Migrates(k) =>
       \E p \in Proc :
         /\ owned[p] = k /\ p \notin revoked /\ req[p].net = "tcp"
         /\ pinned[k] \in req[p].failed \cup req[p].out]_vars

\* The requests, the operator and expiry together use the session store only in
\* the ways it promises to be used; in particular a request commits while it still
\* owns the session.
StorePromised == Store!Spec

\* A request that never ends is in a dial that never ends, its own or that of the request
\* that owns the session it waits for: retries stop, and no request keeps a session, its
\* pin or the pool from the others once its dial is over.
Hangs(q, k) == <>[](pc[q] = "dial" /\ owned[q] = k)
RequestReturns ==
  \A p \in Proc :
    \/ []<>(pc[p] = "idle")
    \/ <>[](pc[p] = "dial")
    \/ \E q \in Proc \ {p}, k \in Key :
         <>[](pc[p] = "acquire" /\ req[p].key = k) /\ Hangs(q, k)
=============================================================================
