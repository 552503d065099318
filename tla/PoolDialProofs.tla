--------------------------- MODULE PoolDialProofs ---------------------------
(***************************************************************************)
(* Proofs about PoolDial, for any members, requests, sessions and nodes,   *)
(* any policy and any number of attempts.                                  *)
(*                                                                         *)
(* PoolInv says at which stages a request owns its session and has a       *)
(* member (the gauge and the use of the store), how the attempts of its    *)
(* loop relate to the attempt at which its pin failed (the budget), and    *)
(* what a request knows of the node its session is bound to: that it is    *)
(* the request's pin or failed it, and, once it dials another node, that   *)
(* the pinned one had no eligible member (sessions stay).                  *)
(***************************************************************************)
EXTENDS PoolDial, TLAPS, FiniteSetTheorems

Looping == {"pick", "recover", "choose", "dial", "bind", "handOut"}
Stage == Looping \cup {"idle", "acquire", "readPin", "exhausted", "return"}
Dialling == {"dial", "bind", "handOut"}

Locals ==
  [net : {"tcp", "udp"}, key : Key \cup {NoKey}, pin : Node \cup {NoNode}, attempt : Nat, max : Nat,
   tried : SUBSET Tag, tracking : BOOLEAN, via : Tag \cup {NoTag}, at : Nat, cand : SUBSET Tag,
   pinFailedAt : Nat, failed : SUBSET Node, out : SUBSET Node]

PoolTypes == TypeOK /\ pc \in [Proc -> Stage] /\ req \in [Proc -> Locals]

\* Who dials or hands out through m.
Through(m) == {p \in Proc : req[p].via = m}

GaugeInv == \A m \in Tag : active[m] = conns[m] + Cardinality(Through(m))

\* A request has a member while it dials or hands out, and candidates to choose from.
Staged(p) ==
  /\ pc[p] \in Dialling <=> req[p].via # NoTag
  /\ pc[p] = "choose" => req[p].cand # {}

\* A request owns its session from Acquire to its return.
Owns(p) ==
  /\ pc[p] \in {"idle", "acquire"} => owned[p] = NoKey
  /\ pc[p] \in {"acquire", "readPin", "bind"} => req[p].key \in Key
  /\ pc[p] \in Looping \cup {"readPin", "exhausted"} => owned[p] = req[p].key
  /\ pc[p] = "bind" => req[p].net = "tcp"

OwnerInv ==
  /\ \A p, q \in Proc : owned[p] = owned[q] /\ owned[p] # NoKey => p = q
  /\ \A p \in Proc : Owns(p)

\* Before the pin failed there are the configured attempts; after it there is no
\* pin left to fail, and at least one attempt unless the pool has a single member.
Budgeted(p) ==
  LET r == req[p]
  IN  /\ r.attempt <= r.max
      /\ pc[p] \in Looping \cup {"exhausted"} =>
           /\ 1 <= r.attempt
           /\ r.pinFailedAt = 0 => r.max = RetryAttempts
      /\ r.pinFailedAt # 0 =>
           /\ r.pin = NoNode /\ r.pinFailedAt <= RetryAttempts
           /\ r.max = IF r.pinFailedAt = RetryAttempts /\ ~SingleMember THEN RetryAttempts + 1
                                                                        ELSE RetryAttempts
      /\ pc[p] = "exhausted" => r.attempt = r.max
      /\ pc[p] \notin Looping \cup {"exhausted"} => r.attempt = 0 /\ r.pinFailedAt = 0

LoopInv == \A p \in Proc : Budgeted(p)

\* What a request that may still commit knows of its session's node.
KnowsPin(p) ==
  LET r == req[p]
  IN  /\ pc[p] \in Looping \ {"handOut"} /\ r.key # NoKey /\ p \notin revoked =>
           pinned[r.key] \in {NoNode, r.pin} \cup r.failed
      /\ pc[p] = "choose" => r.out = Without(r.cand \ r.tried)
      /\ pc[p] \in Dialling /\ r.pin # NoNode /\ Identity[r.via] # r.pin => r.pin \in r.out

PinInv == \A p \in Proc : KnowsPin(p)

PoolInv == PoolTypes /\ GaugeInv /\ OwnerInv /\ LoopInv /\ PinInv

-----------------------------------------------------------------------------
(* What the operations on a member's record return. *)

\* Every operation of MemberState yields a member record.
LEMMA MemberOps ==
  ASSUME NEW m \in Member, NEW t \in Nat
  PROVE  /\ Healthy \in Member /\ IsBlacklisted(m, t) \in Member /\ RecordSuccess(m) \in Member
         /\ ReleaseIfPermanent(m, t) \in Member /\ BlacklistNow(m, t) \in Member
         /\ \A kind \in FailureKind : RecordFailure(m, kind, t) \in Member
<1>1. Healthy \in Member
  BY DEF Healthy, Member
<1>2. IsBlacklisted(m, t) \in Member /\ RecordSuccess(m) \in Member
  BY DEF IsBlacklisted, RecordSuccess, Member
<1>3. ReleaseIfPermanent(m, t) \in Member
  BY <1>1 DEF ReleaseIfPermanent
<1>4. BlacklistNow(m, t) \in Member
  BY DEF BlacklistNow, Member
<1>5. ASSUME NEW x \in Member, NEW until \in Nat, NEW c \in BOOLEAN
      PROVE  Extended(x, until, c) \in Member
  BY DEF Extended, Member
<1>6. ASSUME NEW kind \in FailureKind PROVE RecordFailure(m, kind, t) \in Member
  <2>1. t + CooldownFor(kind) \in Nat /\ t + BlacklistDuration \in Nat
    BY DurationsAreNaturals DEF CooldownFor
  <2>2. [m EXCEPT !.failures = 0] \in Member /\ [m EXCEPT !.failures = @ + 1] \in Member
    BY DEF Member
  <2> QED BY <1>5, <2>1, <2>2 DEF RecordFailure
<1> QED BY <1>1, <1>2, <1>3, <1>4, <1>6

-----------------------------------------------------------------------------
(* Types. *)

\* The locals a request starts its loop with.
LEMMA LoopBegins ==
  ASSUME NEW r \in Locals, NEW pin \in Node \cup {NoNode}
  PROVE  FirstAttempt(r, pin) \in Locals
  BY PoolConstants, ZenonT(40) DEF FirstAttempt, Locals, SingleMember

\* No request: the locals before Start and after the return.
LEMMA NoLocals == NoRequest \in Locals
  BY DEF NoRequest, Locals

\* A pin that failed.
LEMMA DroppedPin ==
  ASSUME NEW r \in Locals, r.via \in Tag
  PROVE  PinDropped(r) \in Locals /\ PinDropped(r).via = r.via
<1> DEFINE d == [r EXCEPT !.pin = NoNode, !.pinFailedAt = r.attempt]
<1>1. d \in Locals /\ d.via = r.via /\ d.attempt = r.attempt
  BY DEF Locals
<1> HIDE DEF d
<1>2. \A n \in Nat : [d EXCEPT !.tracking = TRUE, !.tried = @ \cup {r.via}, !.max = n] \in Locals
  BY <1>1 DEF Locals
<1>3. (IF d.max <= r.attempt THEN r.attempt + 1 ELSE d.max) \in Nat
  BY <1>1 DEF Locals
<1>4. \A n : [d EXCEPT !.tracking = TRUE, !.tried = @ \cup {r.via}, !.max = n].via = r.via
  BY <1>1 DEF Locals
<1> QED BY <1>1, <1>2, <1>3, <1>4 DEF PinDropped, d

\* What DialFails makes of the locals.
Noted(p) == [req[p] EXCEPT !.tried = IF req[p].tracking THEN @ \cup {req[p].via} ELSE @,
                           !.failed = @ \cup {Identity[req[p].via]}]
Failed(p) == IF IsPin(p) THEN PinDropped(Noted(p)) ELSE Noted(p)

\* A dial runs through a member, and its failure leaves well-formed locals.
LEMMA FailedLocals ==
  ASSUME PoolTypes, NEW p \in Proc, pc[p] = "dial"
  PROVE  /\ req[p].via \in Tag /\ Identity[req[p].via] \in Node
         /\ Noted(p) \in Locals /\ Failed(p) \in Locals /\ Failed(p).via \in Tag
<1>1. req[p] \in Locals /\ req[p].via \in Tag /\ Identity[req[p].via] \in Node
  BY PoolConstants DEF PoolTypes, TypeOK, Locals
<1>2. Noted(p) \in Locals /\ Noted(p).via = req[p].via
  BY <1>1 DEF Noted, Locals
<1>3. PinDropped(Noted(p)) \in Locals /\ PinDropped(Noted(p)).via = req[p].via
  BY <1>1, <1>2, DroppedPin
<1> QED BY <1>1, <1>2, <1>3 DEF Failed

\* A step of p leaves the other requests alone.
LEMMA OthersStay ==
  ASSUME PoolTypes, OwnerInv, NEW p \in Proc, Request(p)
  PROVE  /\ pc' \in [Proc -> Stage] /\ req' \in [Proc -> Locals]
         /\ \A q \in Proc \ {p} : pc'[q] = pc[q] /\ req'[q] = req[q]
<1> USE DEF PoolTypes
<1>0. req[p] \in Locals /\ pc[p] \in Stage
  OBVIOUS
<1>1. ASSUME NEW l \in Stage, NEW r \in Locals, Goto(p, l), Update(p, r)
      PROVE  /\ pc' \in [Proc -> Stage] /\ req' \in [Proc -> Locals]
             /\ \A q \in Proc \ {p} : pc'[q] = pc[q] /\ req'[q] = req[q]
  BY <1>1 DEF Goto, Update
<1>2. ASSUME NEW l \in Stage, Goto(p, l), UNCHANGED req
      PROVE  /\ pc' \in [Proc -> Stage] /\ req' \in [Proc -> Locals]
             /\ \A q \in Proc \ {p} : pc'[q] = pc[q] /\ req'[q] = req[q]
  BY <1>2 DEF Goto
<1>3. CASE \E net \in NetsOf[p], k \in Key \cup {NoKey} : Start(p, net, k)
  <2>1. PICK net \in NetsOf[p], k \in Key \cup {NoKey} : Start(p, net, k)
    BY <1>3
  <2> DEFINE r == [NoRequest EXCEPT !.net = net, !.key = k]
  <2>2. net \in {"tcp", "udp"} /\ r \in Locals
    BY PoolConstants, NoLocals DEF Locals
  <2>3. FirstAttempt(r, NoNode) \in Locals
    BY <2>2, LoopBegins
  <2>4. \/ Update(p, FirstAttempt(r, NoNode)) /\ Goto(p, "pick")
        \/ Update(p, r) /\ Goto(p, "acquire")
    BY <2>1 DEF Start
  <2> HIDE DEF r
  <2> QED BY <1>1, <2>2, <2>3, <2>4 DEF Stage, Looping
<1>4. CASE Acquire(p)
  BY <1>2, <1>4 DEF Acquire, Stage
<1>5. CASE ReadPin(p)
  <2>1. (IF p \in revoked THEN NoNode ELSE pinned[req[p].key]) \in Node \cup {NoNode}
    BY <1>5 DEF TypeOK, ReadPin, OwnerInv, Owns
  <2> QED BY <1>0, <1>1, <1>5, <2>1, LoopBegins DEF ReadPin, Stage, Looping
<1>6. CASE Cancel(p) \/ DialCancelled(p) \/ HandOut(p)
  BY <1>1, <1>6, NoLocals DEF Cancel, DialCancelled, HandOut, Leave, Stage
<1>7. CASE PickPinned(p)
  <2>1. PICK m \in Tag : Update(p, [req[p] EXCEPT !.via = m])
    BY <1>7 DEF PickPinned, PinMembers
  <2>2. [req[p] EXCEPT !.via = m] \in Locals
    BY <1>0 DEF Locals
  <2> QED BY <1>1, <1>7, <2>1, <2>2 DEF PickPinned, Stage, Looping
<1>8. CASE Scan(p)
  <2>1. PICK cand \in SUBSET Tag :
          /\ Update(p, [req[p] EXCEPT !.at = now, !.cand = cand, !.out = Without(cand \ req[p].tried)])
          /\ Goto(p, IF cand = {} THEN "recover" ELSE "choose")
    BY <1>8 DEF Scan
  <2>2. [req[p] EXCEPT !.at = now, !.cand = cand, !.out = Without(cand \ req[p].tried)] \in Locals
    <3>1. Without(cand \ req[p].tried) \in SUBSET Node /\ now \in Nat
      BY PoolConstants DEF Without, TypeOK
    <3> HIDE DEF PoolTypes
    <3> QED BY <1>0, <3>1 DEF Locals
  <2> QED BY <1>1, <2>1, <2>2 DEF Stage, Looping
<1>9. CASE Recover(p)
  <2>1. PICK cand \in SUBSET Tag :
          \/ /\ Update(p, [req[p] EXCEPT !.cand = cand, !.out = Without(cand \ req[p].tried)])
             /\ Goto(p, "choose")
          \/ Leave(p)
    BY <1>9, ZenonT(40) DEF Recover
  <2>2. [req[p] EXCEPT !.cand = cand, !.out = Without(cand \ req[p].tried)] \in Locals
    BY <1>0 DEF Locals, Without
  <2> QED BY <1>1, <2>1, <2>2, NoLocals DEF Stage, Looping, Leave
<1>10. CASE Choose(p)
  <2>1. PICK m \in Tag : Update(p, [req[p] EXCEPT !.via = m, !.at = 0, !.cand = {}])
    BY <1>0, <1>10 DEF Choose, PinMembers, Locals
  <2>2. [req[p] EXCEPT !.via = m, !.at = 0, !.cand = {}] \in Locals
    BY <1>0 DEF Locals
  <2> QED BY <1>1, <1>10, <2>1, <2>2 DEF Choose, Stage, Looping
<1>11. CASE \E kind \in Kinds : DialFails(p, kind)
  <2>1. pc[p] = "dial"
    BY <1>11 DEF DialFails
  <2>2. \/ Update(p, [Failed(p) EXCEPT !.attempt = @ + 1, !.via = NoTag]) /\ Goto(p, "pick")
        \/ Update(p, [Failed(p) EXCEPT !.via = NoTag]) /\ Goto(p, "exhausted")
    BY <1>11 DEF DialFails, Failed, Noted
  <2>3. /\ [Failed(p) EXCEPT !.attempt = @ + 1, !.via = NoTag] \in Locals
        /\ [Failed(p) EXCEPT !.via = NoTag] \in Locals
    <3>1. PICK f \in Locals : f = Failed(p)
      BY <2>1, FailedLocals
    <3> HIDE DEF PoolTypes
    <3>2. [f EXCEPT !.via = NoTag] \in Locals
      BY DEF Locals
    <3>3. f.attempt + 1 \in Nat
      BY DEF Locals
    <3>4. \A n \in Nat : [f EXCEPT !.attempt = n, !.via = NoTag] \in Locals
      BY DEF Locals
    <3> QED BY <3>1, <3>2, <3>3, <3>4
  <2> QED BY <1>1, <2>2, <2>3 DEF Stage, Looping
<1>12. CASE DialSucceeds(p) \/ Bind(p)
  BY <1>2, <1>12 DEF DialSucceeds, Bind, Stage, Looping
<1>13. CASE Return(p)
  BY <1>1, <1>13, NoLocals DEF Return, Stage
<1> QED BY <1>3, <1>4, <1>5, <1>6, <1>7, <1>8, <1>9, <1>10, <1>11, <1>12, <1>13 DEF Request

-----------------------------------------------------------------------------
(* The gauge. *)

\* A step that moves neither a counter nor a request between members.
LEMMA GaugeKept ==
  ASSUME GaugeInv, UNCHANGED <<active, conns>>, \A q \in Proc : req'[q].via = req[q].via
  PROVE  GaugeInv'
<1>1. \A m \in Tag : Through(m)' = Through(m)
  BY DEF Through
<1> QED BY <1>1 DEF GaugeInv

\* A request gets a member.
LEMMA MemberTaken ==
  ASSUME PoolTypes, GaugeInv, NEW p \in Proc, NEW m \in Tag, req[p].via = NoTag,
         \A q \in Proc : req'[q].via = IF q = p THEN m ELSE req[q].via,
         active' = [active EXCEPT ![m] = @ + 1], UNCHANGED conns
  PROVE  GaugeInv' /\ active' \in [Tag -> Nat]
<1>1. \A n \in Tag : IsFiniteSet(Through(n)) /\ Cardinality(Through(n)) \in Nat
  BY PoolConstants, FS_Subset, FS_CardinalityType DEF Through
<1>2. Through(m)' = Through(m) \cup {p} /\ p \notin Through(m)
  BY PoolConstants DEF Through
<1>3. Cardinality(Through(m)') = Cardinality(Through(m)) + 1
  BY <1>1, <1>2, FS_AddElement
<1>4. \A n \in Tag \ {m} : Through(n)' = Through(n)
  BY PoolConstants DEF Through
<1>5. active' \in [Tag -> Nat]
  BY DEF PoolTypes, TypeOK
<1>6. ASSUME NEW n \in Tag PROVE active'[n] = conns'[n] + Cardinality(Through(n)')
  <2>1. active[n] = conns[n] + Cardinality(Through(n)) /\ active[n] \in Nat /\ conns[n] \in Nat
    BY DEF GaugeInv, PoolTypes, TypeOK
  <2>2. CASE n = m
    BY <1>1, <1>3, <2>1, <2>2 DEF PoolTypes, TypeOK
  <2>3. CASE n # m
    BY <1>4, <2>1, <2>3 DEF PoolTypes, TypeOK
  <2> QED BY <2>2, <2>3
<1> QED BY <1>5, <1>6 DEF GaugeInv

\* A request lets go of its member: the count goes down by one.
LEMMA MemberLeft ==
  ASSUME PoolTypes, GaugeInv, NEW p \in Proc, NEW m \in Tag, req[p].via = m,
         \A q \in Proc : req'[q].via = IF q = p THEN NoTag ELSE req[q].via
  PROVE  /\ Cardinality(Through(m)') = Cardinality(Through(m)) - 1
         /\ \A n \in Tag \ {m} : Through(n)' = Through(n)
         /\ \A n \in Tag : Cardinality(Through(n)) \in Nat
         /\ Cardinality(Through(m)) > 0
<1>1. \A n \in Tag : IsFiniteSet(Through(n)) /\ Cardinality(Through(n)) \in Nat
  BY PoolConstants, FS_Subset, FS_CardinalityType DEF Through
<1>2. Through(m)' = Through(m) \ {p} /\ p \in Through(m)
  BY PoolConstants DEF Through
<1>3. Cardinality(Through(m)') = Cardinality(Through(m)) - 1
  BY <1>1, <1>2, FS_RemoveElement, ZenonT(40)
<1>4. \A n \in Tag \ {m} : Through(n)' = Through(n)
  BY PoolConstants DEF Through
<1>5. Cardinality(Through(m)) # 0
  BY <1>1, <1>2, FS_EmptySet
<1> QED BY <1>1, <1>3, <1>4, <1>5

\* The dial failed or was cancelled.
LEMMA DialEnds ==
  ASSUME PoolTypes, GaugeInv, NEW p \in Proc, NEW m \in Tag, req[p].via = m,
         \A q \in Proc : req'[q].via = IF q = p THEN NoTag ELSE req[q].via,
         active' = [active EXCEPT ![m] = @ - 1], UNCHANGED conns
  PROVE  GaugeInv' /\ active' \in [Tag -> Nat]
<1>1. /\ Cardinality(Through(m)') = Cardinality(Through(m)) - 1
      /\ \A n \in Tag \ {m} : Through(n)' = Through(n)
      /\ \A n \in Tag : Cardinality(Through(n)) \in Nat
      /\ Cardinality(Through(m)) > 0
  BY MemberLeft
<1>2. \A n \in Tag : active[n] = conns[n] + Cardinality(Through(n)) /\ active[n] \in Nat /\ conns[n] \in Nat
  BY DEF GaugeInv, PoolTypes, TypeOK
<1>3. active[m] - 1 \in Nat
  BY <1>1, <1>2
<1>4. active' \in [Tag -> Nat]
  BY <1>3 DEF PoolTypes, TypeOK
<1>5. ASSUME NEW n \in Tag PROVE active'[n] = conns'[n] + Cardinality(Through(n)')
  <2>2. CASE n = m
    BY <1>1, <1>2, <2>2 DEF PoolTypes, TypeOK
  <2>3. CASE n # m
    BY <1>1, <1>2, <2>3 DEF PoolTypes, TypeOK
  <2> QED BY <2>2, <2>3
<1> QED BY <1>4, <1>5 DEF GaugeInv

\* The connection goes to the caller.
LEMMA ConnectionLeaves ==
  ASSUME PoolTypes, GaugeInv, NEW p \in Proc, NEW m \in Tag, req[p].via = m,
         \A q \in Proc : req'[q].via = IF q = p THEN NoTag ELSE req[q].via,
         conns' = [conns EXCEPT ![m] = @ + 1], UNCHANGED active
  PROVE  GaugeInv' /\ conns' \in [Tag -> Nat]
<1>1. /\ Cardinality(Through(m)') = Cardinality(Through(m)) - 1
      /\ \A n \in Tag \ {m} : Through(n)' = Through(n)
      /\ \A n \in Tag : Cardinality(Through(n)) \in Nat
      /\ Cardinality(Through(m)) > 0
  BY MemberLeft
<1>2. \A n \in Tag : active[n] = conns[n] + Cardinality(Through(n)) /\ active[n] \in Nat /\ conns[n] \in Nat
  BY DEF GaugeInv, PoolTypes, TypeOK
<1>4. conns' \in [Tag -> Nat]
  BY <1>2 DEF PoolTypes, TypeOK
<1>5. ASSUME NEW n \in Tag PROVE active'[n] = conns'[n] + Cardinality(Through(n)')
  <2>2. CASE n = m
    BY <1>1, <1>2, <2>2 DEF PoolTypes, TypeOK
  <2>3. CASE n # m
    BY <1>1, <1>2, <2>3 DEF PoolTypes, TypeOK
  <2> QED BY <2>2, <2>3
<1> QED BY <1>4, <1>5 DEF GaugeInv

\* Close of a connection.
LEMMA CloseKeepsGauge ==
  ASSUME PoolTypes, GaugeInv, NEW m \in Tag, Close(m)
  PROVE  GaugeInv' /\ active' \in [Tag -> Nat] /\ conns' \in [Tag -> Nat]
<1>1. \A n \in Tag : Through(n)' = Through(n) /\ Cardinality(Through(n)) \in Nat
  BY PoolConstants, FS_Subset, FS_CardinalityType DEF Through, Close
<1>2. \A n \in Tag : active[n] = conns[n] + Cardinality(Through(n)) /\ active[n] \in Nat /\ conns[n] \in Nat
  BY DEF GaugeInv, PoolTypes, TypeOK
<1>3. conns[m] - 1 \in Nat /\ active[m] - 1 \in Nat
  BY <1>1, <1>2 DEF Close
<1>4. active' \in [Tag -> Nat] /\ conns' \in [Tag -> Nat]
  BY <1>3 DEF PoolTypes, TypeOK, Close
<1>5. ASSUME NEW n \in Tag PROVE active'[n] = conns'[n] + Cardinality(Through(n)')
  <2>2. CASE n = m
    BY <1>1, <1>2, <2>2 DEF PoolTypes, TypeOK, Close
  <2>3. CASE n # m
    BY <1>1, <1>2, <2>3 DEF PoolTypes, TypeOK, Close
  <2> QED BY <2>2, <2>3
<1> QED BY <1>4, <1>5 DEF GaugeInv

-----------------------------------------------------------------------------
(* The steps of a request. *)

\* What p has to show for its step: the others keep what they have, because p changes
\* only its own place in the store and the binding of the session it owns.
LEMMA RequestStep ==
  ASSUME PoolInv, NEW p \in Proc, Request(p), UNCHANGED now, member' \in [Tag -> Member],
         active' \in [Tag -> Nat], conns' \in [Tag -> Nat], GaugeInv',
         owned' \in [Proc -> Key \cup {NoKey}], revoked' \subseteq Proc,
         pinned' \in [Key -> Node \cup {NoNode}],
         \A q \in Proc \ {p} : owned'[q] = owned[q] /\ (q \in revoked' <=> q \in revoked),
         \A q \in Proc \ {p} : owned'[p] = owned[q] => owned'[p] = NoKey,
         p \in revoked' => owned'[p] # NoKey,
         \A k \in Key : pinned'[k] = pinned[k] \/ k = owned[p],
         Staged(p)', Owns(p)', Budgeted(p)', KnowsPin(p)'
  PROVE  PoolInv'
<1> USE DEF PoolInv
<1>1. /\ pc' \in [Proc -> Stage] /\ req' \in [Proc -> Locals]
      /\ \A q \in Proc \ {p} : pc'[q] = pc[q] /\ req'[q] = req[q]
  BY OthersStay
<1>2. ASSUME NEW q \in Proc PROVE Staged(q)' /\ (q \in revoked' => owned'[q] # NoKey)
  <2>1. CASE q = p
    BY <2>1
  <2>2. CASE q # p
    BY <1>1, <2>2 DEF Staged, PoolTypes, TypeOK, Dialling
  <2> QED BY <2>1, <2>2
<1>3. PoolTypes'
  <2>1. now' \in 1..MaxTime
    BY DEF PoolTypes, TypeOK
  <2> QED BY <1>1, <1>2, <2>1 DEF PoolTypes, TypeOK, Staged, Dialling
<1>4. OwnerInv'
  <2>1. \A q \in Proc : Owns(q)'
    BY <1>1 DEF OwnerInv, Owns
  <2>2. \A q, x \in Proc : owned'[q] = owned'[x] /\ owned'[q] # NoKey => q = x
    BY DEF OwnerInv
  <2> QED BY <2>1, <2>2 DEF OwnerInv
<1>5. LoopInv'
  BY <1>1 DEF LoopInv, Budgeted
<1>6. PinInv'
  <2>1. ASSUME NEW q \in Proc \ {p} PROVE KnowsPin(q)'
    <3>1. /\ pc'[q] = pc[q] /\ req'[q] = req[q] /\ (q \in revoked' <=> q \in revoked) /\ KnowsPin(q)
          /\ Owns(q) /\ req[q].key \in Key \cup {NoKey}
      BY <1>1 DEF PinInv, OwnerInv, PoolTypes, Locals
    <3>2. ASSUME pc[q] \in Looping, req[q].key # NoKey PROVE pinned'[req[q].key] = pinned[req[q].key]
      BY <3>1, <3>2 DEF Owns, OwnerInv
    <3> QED BY <3>1, <3>2 DEF KnowsPin, Without
  <2> QED BY <2>1 DEF PinInv
<1> QED BY <1>3, <1>4, <1>5, <1>6

\* The same for a step that leaves the store alone.
LEMMA StorelessStep ==
  ASSUME PoolInv, NEW p \in Proc, Request(p), UNCHANGED <<now, storeVars>>,
         member' \in [Tag -> Member], active' \in [Tag -> Nat], conns' \in [Tag -> Nat], GaugeInv',
         Staged(p)', Owns(p)', Budgeted(p)', KnowsPin(p)'
  PROVE  PoolInv'
<1>1. /\ UNCHANGED owned /\ UNCHANGED revoked /\ UNCHANGED pinned
      /\ owned \in [Proc -> Key \cup {NoKey}] /\ revoked \subseteq Proc
      /\ pinned \in [Key -> Node \cup {NoNode}]
      /\ \A q \in Proc : q \in revoked => owned[q] # NoKey
      /\ \A q \in Proc \ {p} : owned[p] = owned[q] => owned[p] = NoKey
  BY DEF storeVars, PoolInv, PoolTypes, TypeOK, OwnerInv
<1> QED BY <1>1, RequestStep

\* The fields of the locals at the start of the loop.
LEMMA LoopFields ==
  ASSUME NEW r \in Locals, NEW pin
  PROVE  LET f == FirstAttempt(r, pin)
         IN  /\ f.pin = pin /\ f.attempt = 1 /\ f.max = RetryAttempts /\ f.net = r.net /\ f.key = r.key
             /\ f.via = r.via /\ f.cand = r.cand /\ f.pinFailedAt = r.pinFailedAt
             /\ f.failed = r.failed /\ f.tried = r.tried /\ f.out = r.out
  BY DEF FirstAttempt, Locals

\* A request arrives.
LEMMA StartStep ==
  ASSUME PoolInv, NEW p \in Proc, NEW net \in NetsOf[p], NEW k \in Key \cup {NoKey}, Start(p, net, k)
  PROVE  PoolInv'
<1> DEFINE r == [NoRequest EXCEPT !.net = net, !.key = k]
<1>0. Request(p)
  BY DEF Request
<1>1. /\ r \in Locals /\ r.key = k /\ r.via = NoTag /\ r.attempt = 0 /\ r.max = 0
      /\ r.pinFailedAt = 0 /\ r.pin = NoNode /\ r.cand = {} /\ r.net = net
  BY PoolConstants, NoLocals DEF Locals, NoRequest
<1>2. \/ k = NoKey /\ Update(p, FirstAttempt(r, NoNode)) /\ Goto(p, "pick")
      \/ k # NoKey /\ Update(p, r) /\ Goto(p, "acquire")
  BY DEF Start
<1> HIDE DEF r
<1>3. PICK l \in {"pick", "acquire"}, f \in Locals :
        /\ f.key = k /\ f.via = NoTag /\ f.pin = NoNode /\ f.pinFailedAt = 0
        /\ l = "pick" => k = NoKey /\ f.attempt = 1 /\ f.max = RetryAttempts
        /\ l = "acquire" => k # NoKey /\ f.attempt = 0 /\ f.max = 0
        /\ Update(p, f) /\ Goto(p, l)
  <2>1. FirstAttempt(r, NoNode) \in Locals
    BY <1>1, LoopBegins
  <2> QED BY <1>1, <1>2, <2>1, LoopFields
<1>4. pc'[p] = l /\ req'[p] = f
  BY <1>3 DEF Update, Goto, PoolInv, PoolTypes
<1>5. /\ pc[p] = "idle" /\ UNCHANGED now /\ UNCHANGED member /\ UNCHANGED active /\ UNCHANGED conns
      /\ UNCHANGED storeVars /\ UNCHANGED owned /\ req[p].via = NoTag /\ owned[p] = NoKey
  BY DEF Start, storeVars, PoolInv, PoolTypes, TypeOK, OwnerInv, Owns
<1>6. GaugeInv'
  <2>1. \A q \in Proc : req'[q].via = req[q].via
    BY <1>3, <1>4, <1>5 DEF Update, PoolInv, PoolTypes
  <2> QED BY <1>5, <2>1, GaugeKept DEF PoolInv
<1>7. Staged(p)' /\ Owns(p)' /\ Budgeted(p)' /\ KnowsPin(p)'
  BY <1>3, <1>4, <1>5, PoolConstants DEF Staged, Owns, Budgeted, KnowsPin, Dialling, Looping
<1> QED BY <1>0, <1>5, <1>6, <1>7, StorelessStep DEF PoolInv, PoolTypes, TypeOK

\* The store grants the session to one request at a time, and leaves its binding alone.
LEMMA AcquireStep ==
  ASSUME PoolInv, NEW p \in Proc, Acquire(p)
  PROVE  PoolInv'
<1>0. Request(p)
  BY DEF Request
<1>1. /\ pc[p] = "acquire" /\ pc'[p] = "readPin" /\ req' = req /\ UNCHANGED <<now, member, active, conns>>
      /\ owned[p] = NoKey /\ req[p].key \in Key /\ owned' = [owned EXCEPT ![p] = req[p].key]
      /\ \A q \in Proc : owned[q] # req[p].key
      /\ UNCHANGED revoked /\ UNCHANGED pinned
  BY DEF Acquire, Goto, Store!Grant, PoolInv, PoolTypes, OwnerInv, Owns
<1>2. GaugeInv'
  BY <1>1, GaugeKept DEF PoolInv
<1>3. Staged(p)' /\ Owns(p)' /\ Budgeted(p)' /\ KnowsPin(p)'
  BY <1>1, PoolConstants DEF PoolInv, PoolTypes, TypeOK, LoopInv, Staged, Owns, Budgeted, KnowsPin,
       Dialling, Looping
<1>4. /\ owned' \in [Proc -> Key \cup {NoKey}] /\ owned'[p] = req[p].key
      /\ \A q \in Proc \ {p} : owned'[q] = owned[q]
  BY <1>1 DEF PoolInv, PoolTypes, TypeOK
<1> QED BY <1>0, <1>1, <1>2, <1>3, <1>4, RequestStep, PoolConstants DEF PoolInv, PoolTypes, TypeOK

\* The pin a request works with is the binding it reads as the owner.
LEMMA ReadPinStep ==
  ASSUME PoolInv, NEW p \in Proc, ReadPin(p)
  PROVE  PoolInv'
<1>0. Request(p) /\ req[p] \in Locals
  BY DEF Request, PoolInv, PoolTypes
<1> DEFINE pin == IF p \in revoked THEN NoNode ELSE pinned[req[p].key]
<1>1. /\ pc[p] = "readPin" /\ pc'[p] = "pick" /\ req'[p] = FirstAttempt(req[p], pin)
      /\ \A q \in Proc \ {p} : req'[q] = req[q]
      /\ UNCHANGED now /\ UNCHANGED member /\ UNCHANGED active /\ UNCHANGED conns
      /\ UNCHANGED storeVars /\ UNCHANGED owned /\ UNCHANGED revoked /\ UNCHANGED pinned
      /\ req[p].via = NoTag /\ owned[p] = req[p].key /\ req[p].pinFailedAt = 0
  BY DEF ReadPin, Goto, Update, storeVars, PoolInv, PoolTypes, TypeOK, OwnerInv, Owns, LoopInv, Budgeted,
       Looping
<1>2. PICK f : /\ req'[p] = f /\ f.pin = pin /\ f.attempt = 1 /\ f.max = RetryAttempts /\ f.key = req[p].key
               /\ f.via = NoTag /\ f.pinFailedAt = 0
  BY <1>0, <1>1, LoopFields
<1>3. GaugeInv'
  <2>1. \A q \in Proc : req'[q].via = req[q].via
    BY <1>1, <1>2
  <2> QED BY <1>1, <2>1, GaugeKept DEF PoolInv
<1>4. Staged(p)' /\ Owns(p)' /\ Budgeted(p)' /\ KnowsPin(p)'
  BY <1>1, <1>2, PoolConstants DEF Staged, Owns, Budgeted, KnowsPin, Dialling, Looping
<1> QED BY <1>0, <1>1, <1>3, <1>4, StorelessStep DEF PoolInv, PoolTypes, TypeOK

\* A request on its way out has no locals any more.
LEMMA Leaving ==
  ASSUME PoolInv, NEW p \in Proc, Leave(p)
  PROVE  /\ pc'[p] = "return" /\ req'[p] = NoRequest
         /\ \A q \in Proc : req'[q].via = IF q = p THEN NoTag ELSE req[q].via
         /\ Staged(p)' /\ Owns(p)' /\ Budgeted(p)' /\ KnowsPin(p)'
<1>1. /\ pc'[p] = "return" /\ req'[p] = NoRequest /\ \A q \in Proc \ {p} : req'[q] = req[q]
  BY DEF Leave, Goto, Update, PoolInv, PoolTypes
<1>2. /\ NoRequest.via = NoTag /\ NoRequest.attempt = 0 /\ NoRequest.max = 0
      /\ NoRequest.pinFailedAt = 0
  BY DEF NoRequest
<1> QED BY <1>1, <1>2 DEF Staged, Owns, Budgeted, KnowsPin, Dialling, Looping

\* The caller went away before a dial.
LEMMA CancelStep ==
  ASSUME PoolInv, NEW p \in Proc, Cancel(p)
  PROVE  PoolInv'
<1>0. Request(p)
  BY DEF Request
<1>1. /\ Leave(p) /\ req[p].via = NoTag /\ UNCHANGED <<now, storeVars>> /\ UNCHANGED member
      /\ UNCHANGED active /\ UNCHANGED conns
  BY DEF Cancel, PoolInv, PoolTypes, TypeOK
<1>2. GaugeInv'
  BY <1>1, Leaving, GaugeKept DEF PoolInv
<1> QED BY <1>0, <1>1, <1>2, Leaving, StorelessStep DEF PoolInv, PoolTypes, TypeOK

\* A member of the pinned node is taken.
LEMMA PickPinnedStep ==
  ASSUME PoolInv, NEW p \in Proc, PickPinned(p)
  PROVE  PoolInv'
<1>0. Request(p) /\ req[p] \in Locals
  BY DEF Request, PoolInv, PoolTypes
<1>1. PICK m \in Tag : /\ Identity[m] = req[p].pin /\ member' = [member EXCEPT ![m] = IsBlacklisted(@, now)]
                       /\ active' = [active EXCEPT ![m] = @ + 1]
                       /\ Update(p, [req[p] EXCEPT !.via = m])
  BY DEF PickPinned, PinMembers
<1>2. PICK f : /\ req'[p] = f /\ f = [req[p] EXCEPT !.via = m] /\ f.via = m
               /\ f.pin = req[p].pin /\ f.attempt = req[p].attempt /\ f.max = req[p].max
               /\ f.key = req[p].key /\ f.pinFailedAt = req[p].pinFailedAt /\ f.failed = req[p].failed
  BY <1>0, <1>1 DEF Update, Locals, PoolInv, PoolTypes
<1>3. /\ pc[p] = "pick" /\ pc'[p] = "dial" /\ \A q \in Proc \ {p} : req'[q] = req[q]
      /\ UNCHANGED now /\ UNCHANGED conns
      /\ UNCHANGED storeVars /\ UNCHANGED owned /\ UNCHANGED revoked /\ UNCHANGED pinned
      /\ req[p].via = NoTag
  BY <1>1 DEF PickPinned, Goto, Update, storeVars, PoolInv, PoolTypes, TypeOK
<1>4. member' \in [Tag -> Member]
  <2>1. now \in Nat /\ member[m] \in Member
    BY PoolConstants DEF PoolInv, PoolTypes, TypeOK
  <2> QED BY <1>1, <2>1, MemberOps DEF PoolInv, PoolTypes, TypeOK
<1>5. GaugeInv' /\ active' \in [Tag -> Nat]
  <2>1. \A q \in Proc : req'[q].via = IF q = p THEN m ELSE req[q].via
    BY <1>2, <1>3
  <2> QED BY <1>1, <1>3, <2>1, MemberTaken DEF PoolInv
<1>6. Staged(p)' /\ Owns(p)' /\ Budgeted(p)' /\ KnowsPin(p)'
  <2>1. Owns(p) /\ Budgeted(p) /\ KnowsPin(p)
    BY DEF PoolInv, OwnerInv, LoopInv, PinInv
  <2>2. Staged(p)' /\ Owns(p)'
    BY <1>2, <1>3, <2>1, PoolConstants DEF Staged, Owns, Dialling, Looping
  <2>3. Budgeted(p)'
    BY <1>2, <1>3, <2>1 DEF Budgeted, Looping
  <2>4. KnowsPin(p)'
    BY <1>1, <1>2, <1>3, <2>1 DEF KnowsPin, Looping, Dialling
  <2> QED BY <2>2, <2>3, <2>4
<1> QED BY <1>0, <1>3, <1>4, <1>5, <1>6, StorelessStep DEF PoolInv, PoolTypes, TypeOK

\* The pinned node is not there: the candidates are read.
LEMMA Candidates ==
  ASSUME PoolInv, NEW p \in Proc, pc[p] \in {"pick", "recover"}, NEW cand \in SUBSET Tag,
         NEW l \in {"recover", "choose"}, l = "choose" => cand # {},
         NEW r, r.cand = cand, r.out = Without(cand \ r.tried), r.via = req[p].via, r.pin = req[p].pin,
         r.attempt = req[p].attempt, r.max = req[p].max, r.key = req[p].key,
         r.pinFailedAt = req[p].pinFailedAt, r.failed = req[p].failed,
         pc'[p] = l, req'[p] = r, UNCHANGED <<owned, revoked, pinned>>
  PROVE  Staged(p)' /\ Owns(p)' /\ Budgeted(p)' /\ KnowsPin(p)' /\ req'[p].via = req[p].via
<1>0. req[p] \in Locals /\ req[p].via = NoTag /\ Owns(p) /\ Budgeted(p) /\ KnowsPin(p)
  BY DEF PoolInv, PoolTypes, TypeOK, OwnerInv, LoopInv, PinInv
<1>2. Staged(p)' /\ Owns(p)'
  BY <1>0 DEF Staged, Owns, Dialling, Looping
<1>3. Budgeted(p)'
  BY <1>0 DEF Budgeted, Looping
<1>4. KnowsPin(p)'
  BY <1>0 DEF KnowsPin, Looping, Dialling, Without
<1> QED BY <1>0, <1>2, <1>3, <1>4

\* The scan notes which nodes had no eligible member.
LEMMA ScanStep ==
  ASSUME PoolInv, NEW p \in Proc, Scan(p)
  PROVE  PoolInv'
<1>0. Request(p) /\ req[p] \in Locals
  BY DEF Request, PoolInv, PoolTypes
<1>1. PICK cand \in SUBSET Tag :
        /\ Update(p, [req[p] EXCEPT !.at = now, !.cand = cand, !.out = Without(cand \ req[p].tried)])
        /\ Goto(p, IF cand = {} THEN "recover" ELSE "choose")
  BY DEF Scan
<1>2. /\ pc[p] = "pick" /\ pc'[p] = (IF cand = {} THEN "recover" ELSE "choose")
      /\ req'[p] = [req[p] EXCEPT !.at = now, !.cand = cand, !.out = Without(cand \ req[p].tried)]
      /\ \A q \in Proc \ {p} : req'[q] = req[q]
      /\ member' = [m \in Tag |-> IsBlacklisted(member[m], now)]
      /\ UNCHANGED now /\ UNCHANGED active /\ UNCHANGED conns
      /\ UNCHANGED storeVars /\ UNCHANGED <<owned, revoked, pinned>>
  BY <1>1 DEF Scan, Goto, Update, storeVars, PoolInv, PoolTypes
<1>3. PICK r : /\ req'[p] = r /\ r.cand = cand /\ r.out = Without(cand \ r.tried) /\ r.via = req[p].via
               /\ r.pin = req[p].pin /\ r.attempt = req[p].attempt /\ r.max = req[p].max
               /\ r.key = req[p].key /\ r.pinFailedAt = req[p].pinFailedAt /\ r.failed = req[p].failed
  BY <1>0, <1>2, ZenonT(40) DEF Locals
<1>4. Staged(p)' /\ Owns(p)' /\ Budgeted(p)' /\ KnowsPin(p)' /\ req'[p].via = req[p].via
  BY <1>2, <1>3, Candidates
<1>5. GaugeInv'
  BY <1>2, <1>4, GaugeKept DEF PoolInv
<1>6. member' \in [Tag -> Member]
  <2>1. now \in Nat /\ \A m \in Tag : member[m] \in Member
    BY PoolConstants DEF PoolInv, PoolTypes, TypeOK
  <2> QED BY <1>2, <2>1, MemberOps
<1> QED BY <1>0, <1>2, <1>4, <1>5, <1>6, StorelessStep DEF PoolInv, PoolTypes, TypeOK

\* So does the selection after parked members were released.
LEMMA RecoverStep ==
  ASSUME PoolInv, NEW p \in Proc, Recover(p)
  PROVE  PoolInv'
<1>0. Request(p) /\ req[p] \in Locals /\ pc[p] = "recover" /\ req[p].via = NoTag
  BY DEF Request, PoolInv, PoolTypes, TypeOK, Recover
<1> DEFINE at == req[p].at
           swept == [m \in Tag |-> IsBlacklisted(member[m], at)]
           freed == [m \in Tag |-> ReleaseIfPermanent(swept[m], at)]
           taken(cand) == [req[p] EXCEPT !.cand = cand, !.out = Without(cand \ req[p].tried)]
<1>1. /\ member' \in {swept, freed}
      /\ \/ \E cand \in SUBSET Tag : cand # {} /\ Update(p, taken(cand)) /\ Goto(p, "choose")
         \/ Leave(p)
  BY DEF Recover
<1>2. /\ UNCHANGED now /\ UNCHANGED active /\ UNCHANGED conns
      /\ UNCHANGED storeVars /\ UNCHANGED <<owned, revoked, pinned>>
  BY DEF Recover, storeVars
<1>3. member' \in [Tag -> Member]
  <2>1. at \in Nat /\ \A m \in Tag : member[m] \in Member
    BY <1>0 DEF PoolInv, PoolTypes, TypeOK, Locals
  <2>2. \A m \in Tag : swept[m] \in Member
    BY <2>1, MemberOps
  <2>3. \A m \in Tag : freed[m] \in Member
    BY <2>1, <2>2, MemberOps
  <2> QED BY <1>1, <2>2, <2>3
<1>4. CASE \E cand \in SUBSET Tag : cand # {} /\ Update(p, taken(cand)) /\ Goto(p, "choose")
  <2>1. PICK cand \in SUBSET Tag : cand # {} /\ Update(p, taken(cand)) /\ Goto(p, "choose")
    BY <1>4
  <2>2. pc'[p] = "choose" /\ req'[p] = taken(cand) /\ \A q \in Proc \ {p} : req'[q] = req[q]
    BY <2>1 DEF Goto, Update, PoolInv, PoolTypes
  <2>3. PICK r : /\ req'[p] = r /\ r.cand = cand /\ r.out = Without(cand \ r.tried) /\ r.via = req[p].via
                 /\ r.pin = req[p].pin /\ r.attempt = req[p].attempt /\ r.max = req[p].max
                 /\ r.key = req[p].key /\ r.pinFailedAt = req[p].pinFailedAt /\ r.failed = req[p].failed
    BY <1>0, <2>2 DEF Locals
  <2>4. Staged(p)' /\ Owns(p)' /\ Budgeted(p)' /\ KnowsPin(p)' /\ req'[p].via = req[p].via
    BY <1>0, <1>2, <2>1, <2>2, <2>3, Candidates
  <2>5. GaugeInv'
    BY <1>2, <2>2, <2>4, GaugeKept DEF PoolInv
  <2> QED BY <1>0, <1>2, <1>3, <2>4, <2>5, StorelessStep DEF PoolInv, PoolTypes, TypeOK
<1>5. CASE Leave(p)
  <2>1. GaugeInv'
    BY <1>0, <1>2, <1>5, Leaving, GaugeKept DEF PoolInv
  <2> QED BY <1>0, <1>2, <1>3, <1>5, <2>1, Leaving, StorelessStep DEF PoolInv, PoolTypes, TypeOK
<1> QED BY <1>1, <1>4, <1>5

\* A member of another node is chosen only if the pinned one has none to offer.
LEMMA ChooseStep ==
  ASSUME PoolInv, NEW p \in Proc, Choose(p)
  PROVE  PoolInv'
<1>0. Request(p) /\ req[p] \in Locals /\ pc[p] = "choose" /\ req[p].via = NoTag
  BY DEF Request, PoolInv, PoolTypes, TypeOK, Choose
<1> DEFINE untried == req[p].cand \ req[p].tried
           offer == IF untried # {} THEN untried ELSE req[p].cand
           pins == offer \cap PinMembers(p)
<1>1. PICK m \in IF pins # {} THEN pins ELSE offer :
        /\ active' = [active EXCEPT ![m] = @ + 1]
        /\ Update(p, [req[p] EXCEPT !.via = m, !.at = 0, !.cand = {}])
  BY DEF Choose
<1>2. m \in Tag
  BY <1>0 DEF Locals
<1>3. req[p].pin # NoNode /\ Identity[m] # req[p].pin => req[p].pin \in Without(untried)
  BY <1>0 DEF PinMembers, Without, Locals
<1>4. /\ pc'[p] = "dial" /\ req'[p] = [req[p] EXCEPT !.via = m, !.at = 0, !.cand = {}]
      /\ \A q \in Proc \ {p} : req'[q] = req[q]
      /\ UNCHANGED now /\ UNCHANGED member /\ UNCHANGED conns
      /\ UNCHANGED storeVars /\ UNCHANGED owned /\ UNCHANGED revoked /\ UNCHANGED pinned
  BY <1>1 DEF Choose, Goto, Update, storeVars, PoolInv, PoolTypes
<1>5. PICK f : /\ req'[p] = f /\ f.via = m /\ f.out = req[p].out
               /\ f.pin = req[p].pin /\ f.attempt = req[p].attempt /\ f.max = req[p].max
               /\ f.key = req[p].key /\ f.pinFailedAt = req[p].pinFailedAt /\ f.failed = req[p].failed
  BY <1>0, <1>4 DEF Locals
<1>6. GaugeInv' /\ active' \in [Tag -> Nat]
  <2>1. \A q \in Proc : req'[q].via = IF q = p THEN m ELSE req[q].via
    BY <1>4, <1>5
  <2> QED BY <1>0, <1>1, <1>2, <1>4, <2>1, MemberTaken DEF PoolInv
<1>7. Staged(p)' /\ Owns(p)' /\ Budgeted(p)' /\ KnowsPin(p)'
  <2>1. Owns(p) /\ Budgeted(p) /\ KnowsPin(p) /\ req[p].out = Without(untried)
    BY <1>0 DEF PoolInv, OwnerInv, LoopInv, PinInv, KnowsPin
  <2>2. Staged(p)' /\ Owns(p)'
    BY <1>0, <1>2, <1>4, <1>5, <2>1, PoolConstants DEF Staged, Owns, Dialling, Looping
  <2>3. Budgeted(p)'
    BY <1>0, <1>4, <1>5, <2>1 DEF Budgeted, Looping
  <2>4. KnowsPin(p)'
    BY <1>0, <1>3, <1>4, <1>5, <2>1 DEF KnowsPin, Looping, Dialling
  <2> QED BY <2>2, <2>3, <2>4
<1> QED BY <1>0, <1>4, <1>6, <1>7, StorelessStep DEF PoolInv, PoolTypes, TypeOK

\* What a failed dial leaves: the node is noted, a failed pin is dropped and buys an attempt.
LEMMA FailedFields ==
  ASSUME PoolInv, NEW p \in Proc, pc[p] = "dial"
  PROVE  LET r == Failed(p)
         IN  /\ r.failed = req[p].failed \cup {Identity[req[p].via]}
             /\ r.key = req[p].key /\ r.attempt = req[p].attempt
             /\ IF IsPin(p)
                THEN /\ r.pin = NoNode /\ r.pinFailedAt = req[p].attempt
                     /\ r.max = IF ~SingleMember /\ req[p].max <= req[p].attempt THEN req[p].attempt + 1
                                                                                 ELSE req[p].max
                ELSE r.pin = req[p].pin /\ r.pinFailedAt = req[p].pinFailedAt /\ r.max = req[p].max
<1>0. req[p] \in Locals
  BY DEF PoolInv, PoolTypes
<1>1. PICK n : n = Noted(p)
  OBVIOUS
<1>2. /\ n \in Locals /\ n.failed = req[p].failed \cup {Identity[req[p].via]} /\ n.via = req[p].via
      /\ n.key = req[p].key /\ n.attempt = req[p].attempt /\ n.pin = req[p].pin
      /\ n.pinFailedAt = req[p].pinFailedAt /\ n.max = req[p].max
  BY <1>0, <1>1, FailedLocals, ZenonT(40) DEF Noted, Locals, PoolInv
<1>3. LET r == PinDropped(n)
      IN  /\ r.failed = n.failed /\ r.key = n.key /\ r.attempt = n.attempt
          /\ r.pin = NoNode /\ r.pinFailedAt = n.attempt
          /\ r.max = IF ~SingleMember /\ n.max <= n.attempt THEN n.attempt + 1 ELSE n.max
  <2> DEFINE d == [n EXCEPT !.pin = NoNode, !.pinFailedAt = n.attempt]
  <2>1. /\ d \in Locals /\ d.failed = n.failed /\ d.key = n.key /\ d.attempt = n.attempt
        /\ d.pin = NoNode /\ d.pinFailedAt = n.attempt /\ d.max = n.max
    BY <1>2 DEF Locals
  <2> HIDE DEF d
  <2>2. CASE SingleMember
    BY <2>1, <2>2 DEF PinDropped, d
  <2>3. CASE ~SingleMember
    <3>1. PinDropped(n) = [d EXCEPT !.tracking = TRUE, !.tried = @ \cup {n.via},
                                    !.max = IF @ <= n.attempt THEN n.attempt + 1 ELSE @]
      BY <2>3 DEF PinDropped, d
    <3> QED BY <2>1, <2>3, <3>1 DEF Locals
  <2> QED BY <2>2, <2>3
<1> QED BY <1>1, <1>2, <1>3 DEF Failed

\* A failed pin is dropped and is among the failed nodes from then on.
LEMMA DialFailsStep ==
  ASSUME PoolInv, NEW p \in Proc, NEW kind \in Kinds, DialFails(p, kind)
  PROVE  PoolInv'
<1>0. Request(p) /\ req[p] \in Locals /\ pc[p] = "dial"
  BY DEF Request, PoolInv, PoolTypes, DialFails
<1>1. PICK m \in Tag : req[p].via = m
  BY <1>0, FailedLocals DEF PoolInv
<1>2. PICK r : r = Failed(p)
  OBVIOUS
<1>3. /\ r \in Locals /\ r.via \in Tag
      /\ r.failed = req[p].failed \cup {Identity[m]} /\ r.key = req[p].key /\ r.attempt = req[p].attempt
      /\ IF IsPin(p)
         THEN /\ r.pin = NoNode /\ r.pinFailedAt = req[p].attempt
              /\ r.max = IF ~SingleMember /\ req[p].max <= req[p].attempt THEN req[p].attempt + 1
                                                                          ELSE req[p].max
         ELSE r.pin = req[p].pin /\ r.pinFailedAt = req[p].pinFailedAt /\ r.max = req[p].max
  BY <1>0, <1>1, <1>2, FailedLocals, FailedFields DEF PoolInv
<1>4. /\ active' = [active EXCEPT ![m] = @ - 1]
      /\ member' = [member EXCEPT ![m] = AfterFailure(p, kind)]
      /\ IF r.attempt < r.max
         THEN Update(p, [r EXCEPT !.attempt = @ + 1, !.via = NoTag]) /\ Goto(p, "pick")
         ELSE Update(p, [r EXCEPT !.via = NoTag]) /\ Goto(p, "exhausted")
      /\ UNCHANGED now /\ UNCHANGED conns /\ UNCHANGED storeVars
      /\ UNCHANGED owned /\ UNCHANGED revoked /\ UNCHANGED pinned
  BY <1>1, <1>2 DEF DialFails, Failed, Noted, storeVars
<1>5. PICK f : /\ req'[p] = f /\ f.via = NoTag /\ f.failed = r.failed /\ f.key = r.key
               /\ f.pin = r.pin /\ f.pinFailedAt = r.pinFailedAt /\ f.max = r.max
               /\ \/ pc'[p] = "pick" /\ r.attempt < r.max /\ f.attempt = r.attempt + 1
                  \/ pc'[p] = "exhausted" /\ ~(r.attempt < r.max) /\ f.attempt = r.attempt
  <2>0. req \in [Proc -> Locals] /\ pc \in [Proc -> Stage]
    BY DEF PoolInv, PoolTypes
  <2>1. CASE r.attempt < r.max
    <3>1. req'[p] = [r EXCEPT !.attempt = r.attempt + 1, !.via = NoTag] /\ pc'[p] = "pick"
      BY <1>4, <2>0, <2>1 DEF Update, Goto
    <3>2. PICK f : f = [r EXCEPT !.attempt = r.attempt + 1, !.via = NoTag]
      OBVIOUS
    <3>3. /\ f.via = NoTag /\ f.failed = r.failed /\ f.key = r.key /\ f.pin = r.pin
          /\ f.pinFailedAt = r.pinFailedAt /\ f.max = r.max /\ f.attempt = r.attempt + 1
      BY <1>3, <3>2 DEF Locals
    <3> QED BY <2>1, <3>1, <3>2, <3>3
  <2>2. CASE ~(r.attempt < r.max)
    <3>1. req'[p] = [r EXCEPT !.via = NoTag] /\ pc'[p] = "exhausted"
      BY <1>4, <2>0, <2>2 DEF Update, Goto
    <3>2. PICK f : f = [r EXCEPT !.via = NoTag]
      OBVIOUS
    <3>3. /\ f.via = NoTag /\ f.failed = r.failed /\ f.key = r.key /\ f.pin = r.pin
          /\ f.pinFailedAt = r.pinFailedAt /\ f.max = r.max /\ f.attempt = r.attempt
      BY <1>3, <3>2 DEF Locals
    <3> QED BY <2>2, <3>1, <3>2, <3>3
  <2> QED BY <2>1, <2>2
<1>6. member' \in [Tag -> Member]
  <2>1. now \in Nat /\ now + BlacklistDuration \in Nat /\ member[m] \in Member /\ kind \in FailureKind
    BY PoolConstants, DurationsAreNaturals DEF PoolInv, PoolTypes, TypeOK
  <2>2. AfterFailure(p, kind) \in Member
    BY <1>1, <2>1, MemberOps DEF AfterFailure
  <2> QED BY <1>4, <2>2 DEF PoolInv, PoolTypes, TypeOK
<1>7. GaugeInv' /\ active' \in [Tag -> Nat]
  <2>1. \A q \in Proc : req'[q].via = IF q = p THEN NoTag ELSE req[q].via
    BY <1>4, <1>5 DEF Update, PoolInv, PoolTypes
  <2> QED BY <1>1, <1>4, <2>1, DialEnds DEF PoolInv
<1>8. Staged(p)' /\ Owns(p)' /\ Budgeted(p)' /\ KnowsPin(p)'
  <2>1. Owns(p) /\ Budgeted(p) /\ KnowsPin(p)
    BY DEF PoolInv, OwnerInv, LoopInv, PinInv
  <2>2. Staged(p)' /\ Owns(p)'
    BY <1>0, <1>3, <1>4, <1>5, <2>1 DEF Staged, Owns, Dialling, Looping
  <2>3. Budgeted(p)'
    <3>1. /\ req[p].attempt \in Nat /\ req[p].max \in Nat /\ req[p].pinFailedAt \in Nat
          /\ RetryAttempts \in Nat \ {0}
      BY <1>0, PoolConstants DEF Locals
    <3>2. /\ req[p].attempt <= req[p].max /\ 1 <= req[p].attempt
          /\ req[p].pinFailedAt = 0 => req[p].max = RetryAttempts
          /\ req[p].pinFailedAt # 0 =>
               /\ req[p].pin = NoNode /\ req[p].pinFailedAt <= RetryAttempts
               /\ req[p].max = IF req[p].pinFailedAt = RetryAttempts /\ ~SingleMember
                               THEN RetryAttempts + 1 ELSE RetryAttempts
      BY <1>0, <2>1 DEF Budgeted, Looping
    <3>3. CASE IsPin(p)
      <4>1. req[p].pinFailedAt = 0
        BY <3>2, <3>3 DEF IsPin
      <4> QED BY <1>3, <1>5, <3>1, <3>2, <3>3, <4>1 DEF Budgeted, Looping
    <3>4. CASE ~IsPin(p)
      BY <1>3, <1>5, <3>1, <3>2, <3>4 DEF Budgeted, Looping
    <3> QED BY <3>3, <3>4
  <2>4. KnowsPin(p)'
    BY <1>0, <1>1, <1>3, <1>4, <1>5, <2>1 DEF KnowsPin, IsPin, Looping, Dialling
  <2> QED BY <2>2, <2>3, <2>4
<1> QED BY <1>0, <1>4, <1>6, <1>7, <1>8, StorelessStep DEF PoolInv, PoolTypes, TypeOK

\* A cancelled dial gives its place in the gauge back.
LEMMA DialCancelledStep ==
  ASSUME PoolInv, NEW p \in Proc, DialCancelled(p)
  PROVE  PoolInv'
<1>0. Request(p) /\ pc[p] = "dial" /\ req[p] \in Locals
  BY DEF Request, DialCancelled, PoolInv, PoolTypes
<1>1. PICK m \in Tag : req[p].via = m
  BY <1>0, FailedLocals DEF PoolInv
<1>2. /\ active' = [active EXCEPT ![m] = @ - 1] /\ Leave(p) /\ UNCHANGED <<now, storeVars>>
      /\ UNCHANGED member /\ UNCHANGED conns
  BY <1>1 DEF DialCancelled
<1>3. GaugeInv' /\ active' \in [Tag -> Nat]
  BY <1>1, <1>2, Leaving, DialEnds DEF PoolInv
<1> QED BY <1>0, <1>2, <1>3, Leaving, StorelessStep DEF PoolInv, PoolTypes, TypeOK

\* A dial that succeeded keeps its member until the connection is handed out.
LEMMA DialSucceedsStep ==
  ASSUME PoolInv, NEW p \in Proc, DialSucceeds(p)
  PROVE  PoolInv'
<1>0. Request(p) /\ req[p] \in Locals /\ pc[p] = "dial"
  BY DEF Request, DialSucceeds, PoolInv, PoolTypes
<1>1. PICK m \in Tag : req[p].via = m
  BY <1>0, FailedLocals DEF PoolInv
<1>2. /\ member' = [member EXCEPT ![m] = RecordSuccess(@)] /\ req' = req
      /\ pc'[p] = IF req[p].key # NoKey /\ req[p].net = "tcp" THEN "bind" ELSE "handOut"
      /\ UNCHANGED now /\ UNCHANGED active /\ UNCHANGED conns /\ UNCHANGED storeVars
      /\ UNCHANGED owned /\ UNCHANGED revoked /\ UNCHANGED pinned
  BY <1>1 DEF DialSucceeds, Goto, storeVars, PoolInv, PoolTypes
<1>3. member' \in [Tag -> Member]
  <2>1. now \in Nat /\ member[m] \in Member
    BY PoolConstants DEF PoolInv, PoolTypes, TypeOK
  <2> QED BY <1>2, <2>1, MemberOps DEF PoolInv, PoolTypes, TypeOK
<1>4. GaugeInv'
  BY <1>2, GaugeKept DEF PoolInv
<1>5. Staged(p)' /\ Owns(p)' /\ Budgeted(p)' /\ KnowsPin(p)'
  <2>1. Owns(p) /\ Budgeted(p) /\ KnowsPin(p)
    BY DEF PoolInv, OwnerInv, LoopInv, PinInv
  <2>2. Staged(p)' /\ Owns(p)'
    BY <1>0, <1>1, <1>2, <2>1, PoolConstants DEF Staged, Owns, Dialling, Looping, Locals
  <2>3. Budgeted(p)'
    BY <1>0, <1>2, <2>1 DEF Budgeted, Looping
  <2>4. KnowsPin(p)'
    BY <1>0, <1>2, <2>1 DEF KnowsPin, Looping, Dialling
  <2> QED BY <2>2, <2>3, <2>4
<1> QED BY <1>0, <1>2, <1>3, <1>4, <1>5, StorelessStep DEF PoolInv, PoolTypes, TypeOK

\* Only the session the request owns is bound.
LEMMA BindStep ==
  ASSUME PoolInv, NEW p \in Proc, Bind(p)
  PROVE  PoolInv'
<1>0. /\ Request(p) /\ req[p] \in Locals /\ pc[p] = "bind" /\ req[p].via \in Tag
      /\ req[p].key \in Key /\ owned[p] = req[p].key
  BY DEF Request, Bind, PoolInv, PoolTypes, TypeOK, Locals, OwnerInv, Owns, Looping
<1>1. /\ pc'[p] = "handOut" /\ req' = req
      /\ UNCHANGED now /\ UNCHANGED active /\ UNCHANGED conns /\ UNCHANGED member
      /\ UNCHANGED owned /\ UNCHANGED revoked
      /\ \/ UNCHANGED pinned
         \/ pinned' = [pinned EXCEPT ![req[p].key] = Identity[req[p].via]]
  BY DEF Bind, Goto, storeVars, PoolInv, PoolTypes
<1>2. /\ pinned' \in [Key -> Node \cup {NoNode}]
      /\ \A k \in Key : pinned'[k] = pinned[k] \/ k = owned[p]
  BY <1>0, <1>1, PoolConstants DEF PoolInv, PoolTypes, TypeOK
<1>3. GaugeInv'
  BY <1>1, GaugeKept DEF PoolInv
<1>4. Staged(p)' /\ Owns(p)' /\ Budgeted(p)' /\ KnowsPin(p)'
  <2>1. Owns(p) /\ Budgeted(p) /\ KnowsPin(p)
    BY DEF PoolInv, OwnerInv, LoopInv, PinInv
  <2>2. Staged(p)' /\ Owns(p)'
    BY <1>0, <1>1, <2>1, PoolConstants DEF Staged, Owns, Dialling, Looping
  <2>3. Budgeted(p)'
    BY <1>0, <1>1, <2>1 DEF Budgeted, Looping
  <2>4. KnowsPin(p)'
    BY <1>0, <1>1, <2>1 DEF KnowsPin, Looping, Dialling
  <2> QED BY <2>2, <2>3, <2>4
<1>5. /\ \A q \in Proc : q \in revoked => owned[q] # NoKey
      /\ \A q \in Proc \ {p} : owned[p] = owned[q] => owned[p] = NoKey
  BY DEF PoolInv, PoolTypes, TypeOK, OwnerInv
<1> QED BY <1>0, <1>1, <1>2, <1>3, <1>4, <1>5, RequestStep DEF PoolInv, PoolTypes, TypeOK

\* The place in the gauge passes from the request to its connection.
LEMMA HandOutStep ==
  ASSUME PoolInv, NEW p \in Proc, HandOut(p)
  PROVE  PoolInv'
<1>0. Request(p)
  BY DEF Request
<1>1. PICK m \in Tag : req[p].via = m
  BY DEF HandOut, PoolInv, PoolTypes, TypeOK, Locals
<1>2. /\ conns' = [conns EXCEPT ![m] = @ + 1] /\ Leave(p) /\ UNCHANGED <<now, storeVars>>
      /\ UNCHANGED member /\ UNCHANGED active
  BY <1>1 DEF HandOut
<1>3. GaugeInv' /\ conns' \in [Tag -> Nat]
  BY <1>1, <1>2, Leaving, ConnectionLeaves DEF PoolInv
<1> QED BY <1>0, <1>2, <1>3, Leaving, StorelessStep DEF PoolInv, PoolTypes, TypeOK

\* The session is released on every way out.
LEMMA ReturnStep ==
  ASSUME PoolInv, NEW p \in Proc, Return(p)
  PROVE  PoolInv'
<1>0. Request(p) /\ req[p].via = NoTag
  BY DEF Request, Return, PoolInv, PoolTypes, TypeOK
<1>1. /\ pc'[p] = "idle" /\ req'[p] = NoRequest /\ \A q \in Proc \ {p} : req'[q] = req[q]
      /\ UNCHANGED now /\ UNCHANGED active /\ UNCHANGED conns /\ UNCHANGED member /\ UNCHANGED pinned
      /\ owned' = [owned EXCEPT ![p] = NoKey] /\ revoked' = revoked \ {p}
  BY DEF Return, Goto, Update, storeVars, Store!GiveUp, PoolInv, PoolTypes, TypeOK
<1>2. /\ NoRequest.via = NoTag /\ NoRequest.attempt = 0 /\ NoRequest.max = 0
      /\ NoRequest.pinFailedAt = 0
  BY DEF NoRequest
<1>3. GaugeInv'
  <2>1. \A q \in Proc : req'[q].via = req[q].via
    BY <1>0, <1>1, <1>2
  <2> QED BY <1>1, <2>1, GaugeKept DEF PoolInv
<1>4. owned' \in [Proc -> Key \cup {NoKey}] /\ owned'[p] = NoKey /\ \A q \in Proc \ {p} : owned'[q] = owned[q]
  BY <1>1 DEF PoolInv, PoolTypes, TypeOK
<1>5. Staged(p)' /\ Owns(p)' /\ Budgeted(p)' /\ KnowsPin(p)'
  BY <1>1, <1>2, <1>4 DEF Staged, Owns, Budgeted, KnowsPin, Dialling, Looping
<1> QED BY <1>0, <1>1, <1>3, <1>4, <1>5, RequestStep DEF PoolInv, PoolTypes, TypeOK

-----------------------------------------------------------------------------
(* The other steps, and the invariant. *)

\* Connections close, members are probed and the clock runs without touching any
\* request or the store.
LEMMA SurroundingStep ==
  ASSUME PoolInv, UNCHANGED <<storeVars, pc, req>>, now' \in 1..MaxTime,
         member' \in [Tag -> Member], active' \in [Tag -> Nat], conns' \in [Tag -> Nat], GaugeInv'
  PROVE  PoolInv'
<1>1. /\ owned' = owned /\ revoked' = revoked /\ pinned' = pinned /\ pc' = pc /\ req' = req
  BY DEF storeVars
<1>2. PoolTypes'
  BY <1>1 DEF PoolInv, PoolTypes, TypeOK
<1>3. OwnerInv'
  BY <1>1 DEF PoolInv, OwnerInv, Owns
<1>4. LoopInv'
  BY <1>1 DEF PoolInv, LoopInv, Budgeted
<1>5. PinInv'
  BY <1>1 DEF PoolInv, PinInv, KnowsPin, Without
<1> QED BY <1>2, <1>3, <1>4, <1>5 DEF PoolInv

\* The operator unbinds a session, or its binding is forgotten: every request that may
\* still commit to it finds it unbound.
LEMMA UnboundStep ==
  ASSUME PoolInv, NEW k \in Key, UNCHANGED <<now, member, active, conns, owned, pc, req>>,
         pinned' = [pinned EXCEPT ![k] = NoNode],
         revoked \subseteq revoked', \A q \in revoked' \ revoked : q \in Proc /\ owned[q] = k
  PROVE  PoolInv'
<1>1. PoolTypes'
  <2>1. revoked' \subseteq Proc /\ \A q \in Proc : q \in revoked' => owned'[q] # NoKey
    BY PoolConstants DEF PoolInv, PoolTypes, TypeOK
  <2>2. pinned' \in [Key -> Node \cup {NoNode}]
    BY DEF PoolInv, PoolTypes, TypeOK
  <2> QED BY <2>1, <2>2 DEF PoolInv, PoolTypes, TypeOK
<1>2. GaugeInv'
  BY GaugeKept DEF PoolInv
<1>3. OwnerInv'
  BY DEF PoolInv, OwnerInv, Owns
<1>4. LoopInv'
  BY DEF PoolInv, LoopInv, Budgeted
<1>5. PinInv'
  <2>1. ASSUME NEW q \in Proc PROVE KnowsPin(q)'
    <3>1. KnowsPin(q) /\ req[q].key \in Key \cup {NoKey} /\ pinned \in [Key -> Node \cup {NoNode}]
      BY DEF PoolInv, PinInv, PoolTypes, TypeOK, Locals
    <3>2. req[q].key # NoKey => pinned'[req[q].key] \in {NoNode, pinned[req[q].key]}
      BY <3>1
    <3> QED BY <3>1, <3>2 DEF KnowsPin, Without
  <2> QED BY <2>1 DEF PinInv
<1> QED BY <1>1, <1>2, <1>3, <1>4, <1>5 DEF PoolInv

\* No request, no connection, no session.
LEMMA PoolInit == Init => PoolInv
<1> SUFFICES ASSUME Init PROVE PoolInv
  OBVIOUS
<1>1. /\ \A p \in Proc : req[p] = NoRequest /\ pc[p] = "idle" /\ owned[p] = NoKey
      /\ revoked = {} /\ NoRequest.via = NoTag /\ NoRequest.attempt = 0 /\ NoRequest.max = 0
      /\ NoRequest.pinFailedAt = 0
  BY DEF Init, Store!Init, NoRequest
<1>2. PoolTypes
  <2>1. now \in 1..MaxTime
    BY PoolConstants DEF Init
  <2>2. member \in [Tag -> Member]
    BY MemberOps DEF Init, Healthy, Member
  <2>3. /\ active \in [Tag -> Nat] /\ conns \in [Tag -> Nat]
        /\ owned \in [Proc -> Key \cup {NoKey}] /\ pinned \in [Key -> Node \cup {NoNode}]
    BY DEF Init, Store!Init
  <2>4. pc \in [Proc -> Stage] /\ req \in [Proc -> Locals]
    BY NoLocals DEF Init, Stage
  <2> QED BY <1>1, <2>1, <2>2, <2>3, <2>4 DEF PoolTypes, TypeOK
<1>3. GaugeInv
  <2>1. \A m \in Tag : Through(m) = {}
    BY <1>1, PoolConstants DEF Through
  <2> QED BY <2>1, FS_EmptySet DEF GaugeInv, Init
<1>4. OwnerInv
  BY <1>1 DEF OwnerInv, Owns, Looping
<1>5. LoopInv
  BY <1>1 DEF LoopInv, Budgeted, Looping
<1>6. PinInv
  BY <1>1 DEF PinInv, KnowsPin, Looping, Dialling
<1> QED BY <1>2, <1>3, <1>4, <1>5, <1>6 DEF PoolInv

\* Every step keeps the invariant.
LEMMA PoolStep == PoolInv /\ [Next]_vars => PoolInv'
<1> SUFFICES ASSUME PoolInv, [Next]_vars PROVE PoolInv'
  OBVIOUS
<1>0. /\ now \in 1..MaxTime /\ now \in Nat /\ member \in [Tag -> Member]
      /\ active \in [Tag -> Nat] /\ conns \in [Tag -> Nat] /\ GaugeInv
  BY PoolConstants DEF PoolInv, PoolTypes, TypeOK
<1>1. ASSUME NEW p \in Proc, Request(p) PROVE PoolInv'
  <2>1. CASE \E net \in NetsOf[p], k \in Key \cup {NoKey} : Start(p, net, k)
    BY <2>1, StartStep
  <2>2. CASE Acquire(p) \/ ReadPin(p) \/ Cancel(p)
    BY <2>2, AcquireStep, ReadPinStep, CancelStep
  <2>3. CASE PickPinned(p) \/ Scan(p) \/ Recover(p) \/ Choose(p)
    BY <2>3, PickPinnedStep, ScanStep, RecoverStep, ChooseStep
  <2>4. CASE (\E kind \in Kinds : DialFails(p, kind)) \/ DialCancelled(p) \/ DialSucceeds(p)
    BY <2>4, DialFailsStep, DialCancelledStep, DialSucceedsStep
  <2>5. CASE Bind(p) \/ HandOut(p) \/ Return(p)
    BY <2>5, BindStep, HandOutStep, ReturnStep
  <2> QED BY <1>1, <2>1, <2>2, <2>3, <2>4, <2>5 DEF Request
<1>2. ASSUME NEW m \in Tag, Close(m) PROVE PoolInv'
  <2>1. GaugeInv' /\ active' \in [Tag -> Nat] /\ conns' \in [Tag -> Nat]
    BY <1>2, CloseKeepsGauge DEF PoolInv
  <2> QED BY <1>0, <1>2, <2>1, SurroundingStep DEF Close
<1>3. ASSUME NEW m \in Tag, ProbeSucceeds(m) PROVE PoolInv'
  <2>1. member' \in [Tag -> Member]
    BY <1>0, <1>3, MemberOps DEF ProbeSucceeds
  <2>2. GaugeInv'
    BY <1>0, <1>3, GaugeKept DEF ProbeSucceeds
  <2> QED BY <1>0, <1>3, <2>1, <2>2, SurroundingStep DEF ProbeSucceeds
<1>4. ASSUME NEW k \in Key, Unbind(k) \/ Forget(k) PROVE PoolInv'
  BY <1>4, UnboundStep DEF Unbind, Forget
<1>5. CASE Tick
  <2>1. GaugeInv' /\ now' \in 1..MaxTime
    BY <1>0, <1>5, GaugeKept, PoolConstants DEF Tick
  <2> QED BY <1>0, <1>5, <2>1, SurroundingStep DEF Tick
<1>6. CASE UNCHANGED vars
  <2>1. UNCHANGED <<now, member, active, conns, storeVars, pc, req>>
    BY <1>6 DEF vars, storeVars
  <2>2. GaugeInv'
    BY <1>0, <2>1, GaugeKept
  <2> QED BY <1>0, <2>1, <2>2, SurroundingStep
<1> QED BY <1>1, <1>2, <1>3, <1>4, <1>5, <1>6 DEF Next

\* PoolInv holds in every reachable state.
LEMMA PoolAlways == Spec => []PoolInv
  BY PoolInit, PoolStep, PTL DEF Spec

-----------------------------------------------------------------------------
(* The theorems. *)

\* For any members, requests and outcomes of dials, a member's gauge is exactly the
\* dials running through it plus the connections open through it (incActive, decActive,
\* trackedConn.Close).
THEOREM GaugeIsExact == Spec => []ActiveExact
<1>1. PoolInv => ActiveExact
  BY DEF PoolInv, PoolTypes, GaugeInv, ActiveExact, Through
<1> QED BY <1>1, PoolAlways, PTL

\* For any number of configured attempts, a request makes no more than these and the one
\* its failed pin buys, and it does get that one (dropFailedPin).
THEOREM AttemptsAreBounded == Spec => []AttemptBudget
<1>1. PoolInv => AttemptBudget
  <2> SUFFICES ASSUME PoolInv, NEW p \in Proc
               PROVE  /\ req[p].attempt <= RetryAttempts
                                           + (IF req[p].pinFailedAt = RetryAttempts THEN 1 ELSE 0)
                      /\ pc[p] = "exhausted" /\ req[p].pinFailedAt # 0 /\ ~SingleMember
                           => req[p].attempt > req[p].pinFailedAt
    BY DEF AttemptBudget
  <2>1. /\ req[p].attempt \in Nat /\ req[p].max \in Nat /\ req[p].pinFailedAt \in Nat
        /\ RetryAttempts \in Nat \ {0} /\ pc[p] \in Stage /\ Budgeted(p)
    BY PoolConstants DEF PoolInv, PoolTypes, Locals, LoopInv
  <2> QED BY <2>1 DEF Budgeted
<1> QED BY <1>1, PoolAlways, PTL

\* For any requests and sessions, a bound session moves to another node only on behalf of
\* a request that owns it, was not revoked, and saw the old node fail or found no eligible
\* member of it (pickMemberFor, Lease.Bind).
THEOREM SessionsStay == Spec => SessionStays
<1> DEFINE Allowed == \A k \in Key : Migrates(k) =>
                        \E p \in Proc : /\ owned[p] = k /\ p \notin revoked /\ req[p].net = "tcp"
                                        /\ pinned[k] \in req[p].failed \cup req[p].out
<1>1. ASSUME PoolInv, [Next]_vars PROVE Allowed
  <2> SUFFICES ASSUME NEW k \in Key, Migrates(k)
               PROVE  \E p \in Proc : /\ owned[p] = k /\ p \notin revoked /\ req[p].net = "tcp"
                                      /\ pinned[k] \in req[p].failed \cup req[p].out
    OBVIOUS
  <2>0. pinned \in [Key -> Node \cup {NoNode}]
    BY <1>1 DEF PoolInv, PoolTypes, TypeOK
  <2>1. PICK p \in Proc : Bind(p) /\ p \notin revoked
    <3>1. pinned' # pinned /\ pinned'[k] # NoNode /\ pinned'[k] # pinned[k]
      BY DEF Migrates
    <3>2. ASSUME NEW x \in Key, Unbind(x) \/ Forget(x) PROVE FALSE
      BY <2>0, <3>1, <3>2 DEF Unbind, Forget
    <3>3. ASSUME NEW m \in Tag, Close(m) \/ ProbeSucceeds(m) PROVE FALSE
      BY <3>1, <3>3 DEF Close, ProbeSucceeds, storeVars
    <3>4. ~Tick /\ ~UNCHANGED vars
      BY <3>1 DEF Tick, storeVars, vars
    <3>5. PICK p \in Proc : Request(p)
      BY <1>1, <3>2, <3>3, <3>4 DEF Next
    <3>6. ~\E net \in NetsOf[p], l \in Key \cup {NoKey} : Start(p, net, l)
      BY <3>1 DEF Start, storeVars
    <3>7. ~Acquire(p) /\ ~ReadPin(p) /\ ~Cancel(p)
      BY <3>1, SMTT(40) DEF Acquire, ReadPin, Cancel, storeVars, Store!Grant
    <3>8. ~PickPinned(p) /\ ~Scan(p) /\ ~Recover(p) /\ ~Choose(p)
      BY <3>1 DEF PickPinned, Scan, Recover, Choose, storeVars
    <3>9. ~(\E kind \in Kinds : DialFails(p, kind)) /\ ~DialCancelled(p) /\ ~DialSucceeds(p)
      BY <3>1 DEF DialFails, DialCancelled, DialSucceeds, storeVars
    <3>10. ~HandOut(p) /\ ~Return(p)
      BY <3>1 DEF HandOut, Return, storeVars, Store!GiveUp
    <3>11. Bind(p)
      BY <3>5, <3>6, <3>7, <3>8, <3>9, <3>10 DEF Request
    <3> QED BY <3>1, <3>11 DEF Bind, storeVars
  <2>2. /\ pc[p] = "bind" /\ req[p].net = "tcp" /\ req[p].key \in Key /\ owned[p] = req[p].key
        /\ req[p].key # NoKey /\ KnowsPin(p)
    BY <1>1, <2>1, PoolConstants DEF Bind, PoolInv, OwnerInv, Owns, Looping, PinInv
  <2>3. /\ req[p].key = k /\ pinned'[k] = Identity[req[p].via] /\ pinned[k] # NoNode
        /\ pinned[k] # Identity[req[p].via]
    BY <2>0, <2>1, <2>2 DEF Bind, Migrates
  <2>4. pinned[k] \in {NoNode, req[p].pin} \cup req[p].failed
    BY <2>1, <2>2, <2>3 DEF KnowsPin, Looping
  <2>5. pinned[k] = req[p].pin => pinned[k] \in req[p].out
    BY <2>2, <2>3 DEF KnowsPin, Dialling
  <2> QED BY <2>1, <2>2, <2>3, <2>4, <2>5
<1> QED BY <1>1, PoolAlways, PTL DEF Spec, SessionStays

\* The requests of a pool, the operator and expiry use the session store only in the ways
\* SessionPromise allows, which SessionStore provides: the two components fit.
THEOREM StoreUsedAsPromised == Spec => StorePromised
<1>1. Init => Store!Init
  BY DEF Init
<1>2. ASSUME PoolInv, [Next]_vars PROVE [Store!Next]_(Store!promiseVars)
  <2>0. pinned \in [Key -> Node \cup {NoNode}] /\ owned \in [Proc -> Key \cup {NoKey}]
    BY <1>2 DEF PoolInv, PoolTypes, TypeOK
  <2>1. ASSUME NEW p \in Proc, Request(p) PROVE [Store!Next]_(Store!promiseVars)
    <3>1. CASE \E net \in NetsOf[p], l \in Key \cup {NoKey} : Start(p, net, l)
      BY <3>1 DEF Start, storeVars, Store!promiseVars
    <3>2. CASE Acquire(p)
      <4>1. Store!Grant(p, req[p].key) /\ req[p].key \in Key
        BY <1>2, <3>2 DEF Acquire, PoolInv, OwnerInv, Owns
      <4> QED BY <4>1 DEF Store!Next
    <3>3. CASE ReadPin(p) \/ Cancel(p) \/ HandOut(p)
      BY <3>3, SMTT(40) DEF ReadPin, Cancel, HandOut, storeVars, Store!promiseVars
    <3>4. CASE PickPinned(p) \/ Scan(p) \/ Recover(p) \/ Choose(p)
      BY <3>4, ZenonT(40) DEF PickPinned, Scan, Recover, Choose, storeVars, Store!promiseVars
    <3>5. CASE (\E kind \in Kinds : DialFails(p, kind)) \/ DialCancelled(p) \/ DialSucceeds(p)
      BY <3>5 DEF DialFails, DialCancelled, DialSucceeds, storeVars, Store!promiseVars
    <3>6. CASE Bind(p)
      <4>1. /\ req[p].key \in Key /\ owned[p] = req[p].key /\ req[p].via \in Tag
            /\ Identity[req[p].via] \in Node
        BY <1>2, <3>6, PoolConstants
           DEF Bind, PoolInv, OwnerInv, Owns, Looping, PoolTypes, TypeOK, Locals
      <4>2. CASE p \in revoked
        BY <3>6, <4>2 DEF Bind, storeVars, Store!promiseVars
      <4>3. CASE p \notin revoked
        <5>1. PICK k \in Key, n \in Node : req[p].key = k /\ Identity[req[p].via] = n
          BY <4>1
        <5>2. pinned' = [pinned EXCEPT ![k] = n] /\ UNCHANGED <<owned, revoked>>
          BY <3>6, <4>3, <5>1 DEF Bind
        <5>3. Store!Commit(p, k, n)
          BY <2>0, <4>1, <4>3, <5>1, <5>2 DEF Store!Commit, Store!Forgotten
        <5> QED BY <5>3 DEF Store!Next
      <4> QED BY <4>2, <4>3
    <3>7. CASE Return(p)
      BY <3>7 DEF Return, storeVars, Store!promiseVars, Store!Next
    <3> QED BY <2>1, <3>1, <3>2, <3>3, <3>4, <3>5, <3>6, <3>7 DEF Request
  <2>2. ASSUME NEW m \in Tag, Close(m) \/ ProbeSucceeds(m) PROVE [Store!Next]_(Store!promiseVars)
    BY <2>2 DEF Close, ProbeSucceeds, storeVars, Store!promiseVars
  <2>3. ASSUME NEW k \in Key, Unbind(k) PROVE [Store!Next]_(Store!promiseVars)
    <3>1. Store!Unbind(k)
      BY <2>0, <2>3 DEF Unbind, Store!Unbind, Store!Forgotten
    <3> QED BY <3>1 DEF Store!Next
  <2>4. ASSUME NEW k \in Key, Forget(k) PROVE [Store!Next]_(Store!promiseVars)
    <3>1. Store!Forget
      BY <2>0, <2>4 DEF Forget, Store!Forget, Store!Forgotten
    <3> QED BY <3>1 DEF Store!Next
  <2>5. CASE Tick \/ UNCHANGED vars
    BY <2>5 DEF Tick, storeVars, vars, Store!promiseVars
  <2> QED BY <1>2, <2>1, <2>2, <2>3, <2>4, <2>5 DEF Next
<1> QED BY <1>1, <1>2, PoolAlways, PTL DEF Spec, StorePromised, Store!Spec

=============================================================================
