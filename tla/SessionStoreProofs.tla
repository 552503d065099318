------------------------- MODULE SessionStoreProofs -------------------------
(***************************************************************************)
(* Proofs about SessionStore, for any sets of sessions, dials and heap     *)
(* cells, any limits and any bounds.                                       *)
(*                                                                         *)
(* Gates: LeaseExclusive alone is not inductive, as nothing in it says     *)
(* that two dials of one session wait on the same channel.  GateInv adds   *)
(* that a counted dial's gate is the one in the map, that a gate in the    *)
(* map has as many references as counted dials (so it is only dropped by   *)
(* the last of them), and that a gate's token has a single taker.          *)
(*                                                                         *)
(* Cache: the list is in order of expiry only because it is in order of    *)
(* use and every binding expires one TTL after its last use, which         *)
(* Configure restores for all of them: CacheInv says so.                   *)
(*                                                                         *)
(* Promise: a revoked dial cannot commit because its lease's stamps are    *)
(* behind the epoch or its gate's version, which only grow: LeaseInv.      *)
(***************************************************************************)
EXTENDS SessionStore, TLAPS, FiniteSetTheorems, SequenceTheorems, WellFoundedInduction

GateRec == [token : BOOLEAN, refs : Nat, version : Nat]
CallRec == [key : Key \cup {NoKey}, gate : Gate \cup {NoGate}, version : Nat, epoch : Nat]

GateTypes ==
  /\ gates \in [Key -> Gate \cup {NoGate}]
  /\ heap \in [Gate -> GateRec]
  /\ pc \in [Proc -> Stage]
  /\ call \in [Proc -> CallRec]
  /\ epoch \in Nat

\* A dial outside "idle" works on a session's gate.
CallsInUse ==
  \A p \in Proc : IF pc[p] = "idle" THEN call[p].gate = NoGate
                  ELSE call[p].key \in Key /\ call[p].gate \in Gate

CountedInMap == \A p \in Proc : Counted(p) => gates[call[p].key] = call[p].gate

GatesDistinct == \A j, k \in Key : gates[j] = gates[k] /\ gates[j] # NoGate => j = k

Users(g) == {p \in Proc : Counted(p) /\ call[p].gate = g}

RefsExact ==
  \A k \in Key : gates[k] # NoGate =>
    /\ heap[gates[k]].refs = Cardinality(Users(gates[k]))
    /\ heap[gates[k]].refs > 0

Holding(p) == pc[p] \in {"granted", "leased", "released", "returning"}

TokenTakenOnce ==
  \A p, q \in Proc : Holding(p) /\ Holding(q) /\ call[p].gate = call[q].gate => p = q

TokenOut == \A p \in Proc : Holding(p) => heap[call[p].gate].token = FALSE

MapInv == CallsInUse /\ CountedInMap /\ GatesDistinct /\ RefsExact
TokenInv == TokenTakenOnce /\ TokenOut
GateInv == GateTypes /\ MapInv /\ TokenInv

-----------------------------------------------------------------------------
\* Dropping the last reference empties the gate's set of users and nothing else.
LEMMA ReleaseReferenceMap ==
  ASSUME GateTypes, MapInv, NEW p \in Proc, Counted(p), ReleaseReference(p),
         NEW s \in {"idle", "returning"}, pc' = [pc EXCEPT ![p] = s],
         NEW c \in CallRec, call' = [call EXCEPT ![p] = c]
  PROVE  /\ gates' \in [Key -> Gate \cup {NoGate}]
         /\ heap' \in [Gate -> GateRec]
         /\ CountedInMap' /\ GatesDistinct' /\ RefsExact'
<1>k. PICK k \in Key : k = call[p].key
  BY DEF MapInv, CallsInUse, Counted
<1>g. PICK g \in Gate : g = call[p].gate
  BY DEF MapInv, CallsInUse, Counted
<1>0. gates[k] = g /\ g # NoGate
  BY <1>k, <1>g, NullsAreFresh DEF MapInv, CountedInMap, Counted
<1>1. /\ heap' = [heap EXCEPT ![g].refs = heap[g].refs - 1]
      /\ gates' = IF heap[g].refs = 1 /\ gates[k] = g
                  THEN [gates EXCEPT ![k] = NoGate] ELSE gates
  BY <1>k, <1>g DEF ReleaseReference
<1>2. heap[g].refs = Cardinality(Users(g)) /\ heap[g].refs > 0 /\ heap[g].refs \in Nat
  BY <1>0 DEF MapInv, RefsExact, GateTypes, GateRec
<1>3. IsFiniteSet(Users(g)) /\ p \in Users(g)
  <2>1. Users(g) \subseteq Proc
    BY DEF Users
  <2>2. IsFiniteSet(Users(g))
    BY <2>1, ProcsFinite, FS_Subset
  <2> QED BY <2>2, <1>g DEF Users
<1>4. /\ heap' \in [Gate -> GateRec]
      /\ heap'[g].refs = heap[g].refs - 1
      /\ \A h \in Gate \ {g} : heap'[h] = heap[h]
  BY <1>0, <1>1, <1>2 DEF GateTypes, GateRec
<1>5. gates' \in [Key -> Gate \cup {NoGate}]
  BY <1>0, <1>1 DEF GateTypes
<1>6. /\ ~Counted(p)'
      /\ \A q \in Proc \ {p} : /\ Counted(q)' <=> Counted(q)
                               /\ call'[q] = call[q]
  BY DEF Counted, GateTypes
<1>7. /\ Users(g)' = Users(g) \ {p}
      /\ \A h \in Gate \ {g} : Users(h)' = Users(h)
  BY <1>6, <1>g DEF Users
<1>8. Cardinality(Users(g)') = Cardinality(Users(g)) - 1
  BY <1>3, <1>7, FS_RemoveElement, ZenonT(40)
<1>9. CountedInMap'
  <2> SUFFICES ASSUME NEW q \in Proc, Counted(q)'
               PROVE  gates'[call'[q].key] = call'[q].gate
    BY DEF CountedInMap
  <2>1. q # p /\ Counted(q) /\ call'[q] = call[q] /\ gates[call[q].key] = call[q].gate
    BY <1>6 DEF MapInv, CountedInMap
  <2>2. call[q].key \in Key /\ call[q].gate \in Gate
    BY <2>1 DEF MapInv, CallsInUse, Counted
  <2>3. CASE call[q].key # k
    BY <2>1, <2>2, <2>3, <1>1 DEF GateTypes
  <2>4. CASE call[q].key = k
    <3>1. q \in Users(g)'
      BY <2>1, <2>4, <1>0, <1>6, <1>7 DEF Users
    <3>2. IsFiniteSet(Users(g)')
      BY <1>3, <1>7, FS_RemoveElement
    <3>3. Cardinality(Users(g)') # 0
      BY <3>1, <3>2, FS_EmptySet
    <3>4. gates' = gates
      BY <3>3, <1>1, <1>2, <1>8
    <3> QED BY <3>4, <2>1
  <2> QED BY <2>3, <2>4
<1>10. GatesDistinct'
  BY <1>0, <1>1 DEF MapInv, GatesDistinct, GateTypes
<1>11. RefsExact'
  <2> SUFFICES ASSUME NEW j \in Key, NEW h, h = gates'[j], h # NoGate
               PROVE  heap'[h].refs = Cardinality(Users(h)') /\ heap'[h].refs > 0
    BY DEF RefsExact, Users
  <2>1. h = gates[j] /\ h \in Gate
    BY <1>1, <1>0 DEF GateTypes
  <2>2. CASE j = k
    <3>1. heap[g].refs # 1
      BY <2>2, <1>1, <1>0 DEF GateTypes
    <3> QED BY <3>1, <2>1, <2>2, <1>0, <1>2, <1>4, <1>7, <1>8
  <2>3. CASE j # k
    <3>1. h # g
      BY <2>1, <2>3, <1>0 DEF MapInv, GatesDistinct
    <3> QED BY <3>1, <2>1, <1>4, <1>7 DEF MapInv, RefsExact
  <2> QED BY <2>2, <2>3
<1> QED BY <1>4, <1>5, <1>9, <1>10, <1>11

\* The token facts survive a step in which p gives up, keeps or stays without
\* the token and no other dial and no channel changes.
LEMMA TokensKept ==
  ASSUME GateTypes, CallsInUse, TokenInv, NEW p \in Proc,
         NEW s \in Stage, pc' = [pc EXCEPT ![p] = s],
         s \in {"leased", "released", "returning"} => Holding(p),
         s \notin {"waiting", "granted"},
         NEW c \in CallRec, call' = [call EXCEPT ![p] = c],
         s # "idle" => c.gate = call[p].gate,
         \A g \in Gate : heap'[g].token = heap[g].token
  PROVE  TokenInv'
<1>1. \A q \in Proc : Holding(q)' => /\ Holding(q)
                                     /\ call'[q].gate = call[q].gate
                                     /\ call[q].gate \in Gate
  BY DEF Holding, GateTypes, CallsInUse, Stage
<1>2. TokenTakenOnce'
  BY <1>1 DEF TokenInv, TokenTakenOnce
<1>3. TokenOut'
  BY <1>1 DEF TokenInv, TokenOut
<1> QED BY <1>2, <1>3 DEF TokenInv

\* Acquire counts the dial on the gate of its session, a new one if there is none.
LEMMA BeginAcquireGates ==
  ASSUME GateInv, NEW p \in Proc, NEW k \in Key, BeginAcquire(p, k)
  PROVE  GateInv'
<1>1. PICK g \in Gate :
         /\ IF gates[k] = NoGate THEN Unreferenced(g) ELSE g = gates[k]
         /\ gates' = [gates EXCEPT ![k] = g]
         /\ heap' = [heap EXCEPT ![g] = IF gates[k] = NoGate THEN NewGate(1)
                                        ELSE NewRef(heap[g])]
         /\ call' = [call EXCEPT ![p] = Waiting(k, g)]
  BY DEF BeginAcquire
<1>2. /\ pc[p] = "idle" /\ pc' = [pc EXCEPT ![p] = "waiting"]
      /\ epoch' = epoch
  BY DEF BeginAcquire, Goto
<1>3. Waiting(k, g) \in CallRec /\ Waiting(k, g).key = k /\ Waiting(k, g).gate = g
  BY DEF Waiting, Lease, CallRec
<1>4. /\ g # NoGate
      /\ heap'[g] \in GateRec
      /\ gates[k] = NoGate => heap'[g].refs = 1 /\ heap'[g].token = TRUE
      /\ gates[k] # NoGate => heap'[g].refs = heap[g].refs + 1 /\ heap'[g].token = heap[g].token
      /\ \A h \in Gate \ {g} : heap'[h] = heap[h]
  <2>1. ASSUME NEW r \in GateRec
        PROVE  /\ NewRef(r) \in GateRec
               /\ NewRef(r).refs = r.refs + 1 /\ NewRef(r).token = r.token
    BY DEF GateRec, NewRef
  <2>2. NewGate(1) \in GateRec /\ NewGate(1).refs = 1 /\ NewGate(1).token = TRUE
    BY DEF GateRec, NewGate
  <2>3. heap[g] \in GateRec /\ heap'[g] = IF gates[k] = NoGate THEN NewGate(1)
                                          ELSE NewRef(heap[g])
    BY <1>1 DEF GateInv, GateTypes
  <2>4. \A h \in Gate \ {g} : heap'[h] = heap[h]
    BY <1>1 DEF GateInv, GateTypes
  <2> QED BY <2>1, <2>2, <2>3, <2>4, NullsAreFresh
<1>5. GateTypes'
  BY <1>1, <1>2, <1>3, <1>4 DEF GateInv, GateTypes, Stage
<1>6. /\ Counted(p)' /\ ~Counted(p) /\ ~Holding(p) /\ ~Holding(p)'
      /\ call'[p].gate = g /\ call'[p].key = k
      /\ \A q \in Proc \ {p} : /\ call'[q] = call[q] /\ pc'[q] = pc[q]
                               /\ Counted(q)' <=> Counted(q)
                               /\ Holding(q)' <=> Holding(q)
  BY <1>1, <1>2, <1>3 DEF GateInv, GateTypes, Counted, Holding
<1>7. CallsInUse'
  BY <1>2, <1>6 DEF GateInv, MapInv, CallsInUse, GateTypes
\* Other keys never map to g, and no dial outside g's key is counted at g.
<1>8. \A j \in Key \ {k} : gates[j] # g
  BY <1>1, <1>4 DEF GateInv, MapInv, GatesDistinct, Unreferenced
<1>9. GatesDistinct'
  BY <1>1, <1>8 DEF GateInv, MapInv, GatesDistinct, GateTypes
<1>10. CountedInMap'
  <2> SUFFICES ASSUME NEW q \in Proc, Counted(q)'
               PROVE  gates'[call'[q].key] = call'[q].gate
    BY DEF CountedInMap
  <2>1. CASE q = p
    BY <2>1, <1>1, <1>6 DEF GateInv, GateTypes
  <2>2. CASE q # p
    <3>1. /\ gates[call[q].key] = call[q].gate /\ call'[q] = call[q]
          /\ call[q].key \in Key /\ call[q].gate \in Gate
      BY <2>2, <1>6 DEF GateInv, MapInv, CountedInMap, CallsInUse, Counted
    <3> QED BY <3>1, <1>1, NullsAreFresh DEF GateInv, GateTypes
  <2> QED BY <2>1, <2>2
<1>11. RefsExact'
  <2> SUFFICES ASSUME NEW j \in Key, NEW h, h = gates'[j], h # NoGate
               PROVE  heap'[h].refs = Cardinality(Users(h)') /\ heap'[h].refs > 0
    BY DEF RefsExact, Users
  <2>1. CASE j # k
    <3>1. h = gates[j] /\ h # g /\ h \in Gate
      BY <2>1, <1>1, <1>8 DEF GateInv, GateTypes
    <3>2. Users(h)' = Users(h)
      BY <3>1, <1>6 DEF Users
    <3> QED BY <3>1, <3>2, <1>4 DEF GateInv, MapInv, RefsExact
  <2>2. CASE j = k /\ gates[k] = NoGate
    <3>1. h = g
      BY <2>2, <1>1 DEF GateInv, GateTypes
    <3>2. Users(h)' = {p}
      BY <3>1, <2>2, <1>1, <1>6 DEF Users, Unreferenced
    <3>3. Cardinality({p}) = 1
      BY FS_Singleton
    <3> QED BY <3>1, <3>2, <3>3, <2>2, <1>4
  <2>3. CASE j = k /\ gates[k] # NoGate
    <3>1. h = g /\ g = gates[k]
      BY <2>3, <1>1 DEF GateInv, GateTypes
    <3>2. Users(g)' = Users(g) \cup {p}
      BY <1>6 DEF Users
    <3>3. IsFiniteSet(Users(g)) /\ p \notin Users(g)
      BY <1>6, ProcsFinite, FS_Subset DEF Users
    <3>4. Cardinality(Users(g)') = Cardinality(Users(g)) + 1
      BY <3>2, <3>3, FS_AddElement
    <3>5. heap[g].refs = Cardinality(Users(g)) /\ heap[g].refs \in Nat
      BY <3>1, <2>3 DEF GateInv, MapInv, RefsExact, GateTypes, GateRec
    <3>6. heap'[g].refs = heap[g].refs + 1
      BY <2>3, <1>4 DEF GateInv, GateTypes, GateRec
    <3> QED BY <3>1, <3>4, <3>5, <3>6
  <2> QED BY <2>1, <2>2, <2>3
<1>12. TokenTakenOnce'
  BY <1>6 DEF GateInv, TokenInv, TokenTakenOnce
<1>13. TokenOut'
  <2> SUFFICES ASSUME NEW q \in Proc, Holding(q)'
               PROVE  heap'[call'[q].gate].token = FALSE
    BY DEF TokenOut
  <2>1. /\ q # p /\ Holding(q) /\ call'[q] = call[q] /\ call[q].gate \in Gate
        /\ heap[call[q].gate].token = FALSE
    BY <1>6 DEF GateInv, MapInv, CallsInUse, Holding, TokenInv, TokenOut
  <2>2. CASE call[q].gate # g
    BY <2>1, <2>2, <1>4
  <2>3. CASE call[q].gate = g
    <3>1. gates[k] # NoGate
      BY <2>3, <1>1 DEF Unreferenced
    <3> QED BY <3>1, <2>1, <2>3, <1>4 DEF GateInv, GateTypes, GateRec
  <2> QED BY <2>2, <2>3
<1> QED BY <1>5, <1>7, <1>9, <1>10, <1>11, <1>12, <1>13 DEF GateInv, MapInv, TokenInv

\* The three steps that give a reference back.
LEMMA GiveReferenceBack ==
  ASSUME GateInv, NEW p \in Proc,
         CancelWaiting(p) \/ CancelGranted(p) \/ DropReference(p)
  PROVE  GateInv'
<1> DEFINE s == IF pc[p] = "waiting" THEN "idle" ELSE "returning"
           c == IF pc[p] = "waiting" THEN NoCall ELSE call[p]
<1>1. /\ Counted(p) /\ ReleaseReference(p) /\ epoch' = epoch
      /\ pc' = [pc EXCEPT ![p] = s] /\ call' = [call EXCEPT ![p] = c]
      /\ s = "returning" => Holding(p)
  BY DEF CancelWaiting, CancelGranted, DropReference, Counted, Goto, Return, Holding,
         GateInv, GateTypes
<1>2. NoCall \in CallRec /\ NoCall.gate = NoGate /\ c \in CallRec
  BY DEF NoCall, Waiting, Lease, CallRec, GateInv, GateTypes
<1>3. /\ gates' \in [Key -> Gate \cup {NoGate}]
      /\ heap' \in [Gate -> GateRec]
      /\ CountedInMap' /\ GatesDistinct' /\ RefsExact'
  BY <1>1, <1>2, ReleaseReferenceMap DEF GateInv
<1>4. GateTypes'
  BY <1>1, <1>2, <1>3 DEF GateInv, GateTypes, Stage
<1>5. CallsInUse'
  BY <1>1, <1>2 DEF GateInv, MapInv, CallsInUse, GateTypes, Counted
<1>6. \A g \in Gate : heap'[g].token = heap[g].token
  BY <1>1 DEF ReleaseReference, GateInv, GateTypes, GateRec
<1>7. TokenInv'
  <2>1. /\ s \in Stage /\ s \notin {"waiting", "granted"}
        /\ s \in {"leased", "released", "returning"} => Holding(p)
        /\ s # "idle" => c.gate = call[p].gate
    BY <1>1 DEF Stage
  <2> HIDE DEF s, c
  <2> QED BY <2>1, <1>1, <1>2, <1>6, TokensKept DEF GateInv, MapInv
<1> QED BY <1>3, <1>4, <1>5, <1>7 DEF GateInv, MapInv

\* The map facts do not depend on tokens, versions or stamps.
LEMMA MapKept ==
  ASSUME GateTypes, MapInv, gates' = gates, NEW p \in Proc,
         NEW s \in Stage, pc' = [pc EXCEPT ![p] = s], s \in {"granted", "leased", "released"},
         Counted(p),
         \A q \in Proc : call'[q].key = call[q].key /\ call'[q].gate = call[q].gate,
         \A g \in Gate : heap'[g].refs = heap[g].refs
  PROVE  MapInv'
<1>1. \A q \in Proc : Counted(q)' <=> Counted(q)
  BY DEF Counted, GateTypes
<1>2. CallsInUse'
  BY DEF MapInv, CallsInUse, GateTypes, Counted
<1>3. CountedInMap'
  BY <1>1 DEF MapInv, CountedInMap
<1>4. GatesDistinct'
  BY DEF MapInv, GatesDistinct
<1>5. RefsExact'
  <2> SUFFICES ASSUME NEW j \in Key, NEW h, h = gates'[j], h # NoGate
               PROVE  heap'[h].refs = Cardinality(Users(h)') /\ heap'[h].refs > 0
    BY DEF RefsExact, Users
  <2>1. h \in Gate /\ h = gates[j]
    BY DEF GateTypes
  <2>2. Users(h)' = Users(h)
    BY <1>1 DEF Users
  <2> QED BY <2>1, <2>2 DEF MapInv, RefsExact
<1> QED BY <1>2, <1>3, <1>4, <1>5 DEF MapInv

\* A dial that receives the token is its only taker.
LEMMA TakeTokenGates ==
  ASSUME GateInv, NEW p \in Proc, TakeToken(p)
  PROVE  GateInv'
<1>g. PICK g \in Gate : g = call[p].gate
  BY DEF TakeToken, GateInv, MapInv, CallsInUse
<1>1. /\ pc[p] = "waiting" /\ pc' = [pc EXCEPT ![p] = "granted"]
      /\ heap[g].token
      /\ heap' = [heap EXCEPT ![g].token = FALSE]
      /\ gates' = gates /\ call' = call /\ epoch' = epoch
  BY <1>g DEF TakeToken, Goto
<1>2. /\ heap' \in [Gate -> GateRec]
      /\ heap'[g].token = FALSE
      /\ \A h \in Gate : heap'[h].refs = heap[h].refs
      /\ \A h \in Gate \ {g} : heap'[h] = heap[h]
  BY <1>1 DEF GateInv, GateTypes, GateRec
<1>3. GateTypes'
  BY <1>1, <1>2 DEF GateInv, GateTypes, Stage
<1>4. MapInv'
  BY <1>1, <1>2, MapKept DEF GateInv, Counted, Stage
<1>5. \A q \in Proc \ {p} : Holding(q)' => Holding(q) /\ call[q].gate # g /\ call[q].gate \in Gate
  BY <1>1, <1>g DEF GateInv, TokenInv, TokenOut, Holding, GateTypes, MapInv, CallsInUse
<1>6. TokenTakenOnce'
  BY <1>1, <1>5, <1>g DEF GateInv, TokenInv, TokenTakenOnce
<1>7. TokenOut'
  BY <1>1, <1>2, <1>5, <1>g DEF GateInv, TokenInv, TokenOut
<1> QED BY <1>3, <1>4, <1>6, <1>7 DEF GateInv, TokenInv

\* Stamping the lease touches no gate.
LEMMA MakeLeaseGates ==
  ASSUME GateInv, NEW p \in Proc, MakeLease(p)
  PROVE  GateInv'
<1>1. /\ pc[p] = "granted" /\ pc' = [pc EXCEPT ![p] = "leased"]
      /\ heap' = heap /\ gates' = gates /\ epoch' = epoch
  BY DEF MakeLease, Goto
<1>2. heap[call[p].gate].version \in Nat /\ call[p].key \in Key /\ call[p].gate \in Gate
  BY <1>1 DEF GateInv, GateTypes, GateRec, MapInv, CallsInUse
<1>3. call' = [call EXCEPT ![p] =
                  Lease(call[p].key, call[p].gate, heap[call[p].gate].version, epoch)]
  BY DEF MakeLease
<1>4. /\ call' \in [Proc -> CallRec]
      /\ \A q \in Proc : call'[q].key = call[q].key /\ call'[q].gate = call[q].gate
  BY <1>2, <1>3 DEF GateInv, GateTypes, CallRec, Lease
<1>5. GateTypes'
  BY <1>1, <1>4 DEF GateInv, GateTypes, Stage
<1>6. MapInv'
  BY <1>1, <1>4, MapKept DEF GateInv, Counted, Stage
<1>7. \A q \in Proc : Holding(q)' <=> Holding(q)
  BY <1>1 DEF Holding, GateInv, GateTypes
<1>8. TokenInv'
  BY <1>1, <1>4, <1>7 DEF GateInv, TokenInv, TokenTakenOnce, TokenOut
<1> QED BY <1>5, <1>6, <1>8 DEF GateInv

\* Marking the lease released touches no gate.
LEMMA BeginReleaseGates ==
  ASSUME GateInv, NEW p \in Proc, BeginRelease(p)
  PROVE  GateInv'
<1>1. /\ pc[p] = "leased" /\ pc' = [pc EXCEPT ![p] = "released"]
      /\ heap' = heap /\ gates' = gates /\ call' = call /\ epoch' = epoch
  BY DEF BeginRelease, Goto, gateVars
<1>2. GateTypes'
  BY <1>1 DEF GateInv, GateTypes, Stage
<1>3. MapInv'
  BY <1>1, MapKept DEF GateInv, Counted, Stage
<1>4. \A q \in Proc : Holding(q)' <=> Holding(q)
  BY <1>1 DEF Holding, GateInv, GateTypes
<1>5. TokenInv'
  BY <1>1, <1>4 DEF GateInv, TokenInv, TokenTakenOnce, TokenOut
<1> QED BY <1>2, <1>3, <1>5 DEF GateInv

\* The token goes back to the gate it came from, in the map or not.
LEMMA ReturnTokenGates ==
  ASSUME GateInv, NEW p \in Proc, ReturnToken(p)
  PROVE  GateInv'
<1>g. PICK g \in Gate : g = call[p].gate
  BY DEF ReturnToken, GateInv, MapInv, CallsInUse
<1>1. /\ pc[p] = "returning" /\ pc' = [pc EXCEPT ![p] = "idle"]
      /\ call' = [call EXCEPT ![p] = NoCall]
      /\ heap' = [heap EXCEPT ![g].token = TRUE]
      /\ gates' = gates /\ epoch' = epoch
  BY <1>g DEF ReturnToken, Return, Goto
<1>2. /\ heap' \in [Gate -> GateRec]
      /\ \A h \in Gate : heap'[h].refs = heap[h].refs
      /\ \A h \in Gate \ {g} : heap'[h] = heap[h]
  BY <1>1 DEF GateInv, GateTypes, GateRec
<1>3. NoCall \in CallRec /\ NoCall.gate = NoGate
  BY DEF NoCall, Waiting, Lease, CallRec
<1>4. GateTypes'
  BY <1>1, <1>2, <1>3 DEF GateInv, GateTypes, Stage
<1>5. /\ ~Counted(p) /\ ~Counted(p)' /\ ~Holding(p)' /\ Holding(p)
      /\ \A q \in Proc \ {p} : /\ Counted(q)' <=> Counted(q)
                               /\ Holding(q)' <=> Holding(q)
                               /\ call'[q] = call[q] /\ pc'[q] = pc[q]
  BY <1>1 DEF Counted, Holding, GateInv, GateTypes
<1>6. CallsInUse' /\ CountedInMap' /\ GatesDistinct'
  BY <1>1, <1>3, <1>5 DEF GateInv, MapInv, CallsInUse, CountedInMap, GatesDistinct, GateTypes
<1>7. RefsExact'
  <2> SUFFICES ASSUME NEW j \in Key, NEW h, h = gates'[j], h # NoGate
               PROVE  heap'[h].refs = Cardinality(Users(h)') /\ heap'[h].refs > 0
    BY DEF RefsExact, Users
  <2>1. h \in Gate /\ h = gates[j]
    BY <1>1 DEF GateInv, GateTypes
  <2>2. Users(h)' = Users(h)
    BY <1>5 DEF Users
  <2> QED BY <2>1, <2>2, <1>2 DEF GateInv, MapInv, RefsExact
<1>8. \A q \in Proc : Holding(q)' => q # p /\ Holding(q) /\ call[q].gate # g /\ call[q].gate \in Gate
  BY <1>5, <1>g DEF GateInv, TokenInv, TokenTakenOnce, MapInv, CallsInUse, Holding
<1>9. TokenTakenOnce'
  BY <1>5, <1>8 DEF GateInv, TokenInv, TokenTakenOnce
<1>10. TokenOut'
  BY <1>2, <1>5, <1>8 DEF GateInv, TokenInv, TokenOut
<1> QED BY <1>4, <1>6, <1>7, <1>9, <1>10 DEF GateInv, MapInv, TokenInv

\* An unbind at most raises the version of a gate.
LEMMA DeleteGates ==
  ASSUME GateInv, NEW k \in Key, Delete(k)
  PROVE  GateInv'
<1>1. /\ gates' = gates /\ pc' = pc /\ call' = call /\ epoch' = epoch
      /\ \/ heap' = heap
         \/ \E g \in Gate : heap' = [heap EXCEPT ![g].version = heap[g].version + 1]
  BY DEF Delete, GateInv, GateTypes
<1>2. /\ heap' \in [Gate -> GateRec]
      /\ \A g \in Gate : heap'[g].refs = heap[g].refs /\ heap'[g].token = heap[g].token
  BY <1>1 DEF GateInv, GateTypes, GateRec
<1>3. GateTypes'
  BY <1>1, <1>2 DEF GateInv, GateTypes
<1>4. \A q \in Proc : (Counted(q)' <=> Counted(q)) /\ (Holding(q)' <=> Holding(q))
  BY <1>1 DEF Counted, Holding
<1>5. CallsInUse' /\ CountedInMap' /\ GatesDistinct' /\ TokenTakenOnce'
  BY <1>1, <1>4 DEF GateInv, MapInv, CallsInUse, CountedInMap, GatesDistinct, TokenInv,
                    TokenTakenOnce
<1>6. RefsExact'
  <2> SUFFICES ASSUME NEW j \in Key, NEW h, h = gates'[j], h # NoGate
               PROVE  heap'[h].refs = Cardinality(Users(h)') /\ heap'[h].refs > 0
    BY DEF RefsExact, Users
  <2>1. h \in Gate /\ h = gates[j] /\ Users(h)' = Users(h)
    BY <1>1, <1>4 DEF GateInv, GateTypes, Users
  <2> QED BY <2>1, <1>2 DEF GateInv, MapInv, RefsExact
<1>7. TokenOut'
  BY <1>1, <1>2, <1>4 DEF GateInv, TokenInv, TokenOut, MapInv, CallsInUse, Holding
<1> QED BY <1>3, <1>5, <1>6, <1>7 DEF GateInv, MapInv, TokenInv

\* Everything else leaves the gates and the dials alone, but for the epoch.
LEMMA OtherStepsGates ==
  ASSUME GateInv, gates' = gates, heap' = heap, pc' = pc, call' = call, epoch' \in Nat
  PROVE  GateInv'
BY SMTT(40) DEF GateInv, GateTypes, MapInv, CallsInUse, CountedInMap, GatesDistinct, RefsExact,
       Users, Counted, TokenInv, TokenTakenOnce, TokenOut, Holding

-----------------------------------------------------------------------------
\* No gates and no calls.
LEMMA GateInit ==
  ASSUME Init PROVE GateInv
<1>1. NewGate(0) \in GateRec /\ NoCall \in CallRec /\ NoCall.gate = NoGate
  BY DEF NewGate, GateRec, NoCall, Waiting, Lease, CallRec
<1>2. GateTypes
  BY <1>1 DEF Init, GateTypes, Stage
<1>3. MapInv
  BY <1>1 DEF Init, MapInv, CallsInUse, CountedInMap, GatesDistinct, RefsExact, Counted
<1>4. TokenInv
  BY DEF Init, TokenInv, TokenTakenOnce, TokenOut, Holding
<1> QED BY <1>2, <1>3, <1>4 DEF GateInv

\* Every step keeps the invariant of the gates.
LEMMA GateStep ==
  ASSUME GateInv, [Next]_vars PROVE GateInv'
<1>1. ASSUME NEW p \in Proc, NEW k \in Key, BeginAcquire(p, k) PROVE GateInv'
  BY <1>1, BeginAcquireGates
<1>2. ASSUME NEW p \in Proc, TakeToken(p) PROVE GateInv'
  BY <1>2, TakeTokenGates
<1>3. ASSUME NEW p \in Proc, CancelWaiting(p) \/ CancelGranted(p) \/ DropReference(p)
      PROVE  GateInv'
  BY <1>3, GiveReferenceBack
<1>4. ASSUME NEW p \in Proc, MakeLease(p) PROVE GateInv'
  BY <1>4, MakeLeaseGates
<1>5. ASSUME NEW p \in Proc, BeginRelease(p) PROVE GateInv'
  BY <1>5, BeginReleaseGates
<1>6. ASSUME NEW p \in Proc, ReturnToken(p) PROVE GateInv'
  BY <1>6, ReturnTokenGates
<1>7. ASSUME NEW k \in Key, Delete(k) PROVE GateInv'
  BY <1>7, DeleteGates
<1>8. epoch \in Nat
  BY DEF GateInv, GateTypes
<1>9. CASE Clear
  BY <1>8, <1>9, OtherStepsGates DEF Clear, gateVars
<1>10. CASE \E p \in Proc : ReadBinding(p) \/ \E n \in Node : Bind(p, n)
  BY <1>8, <1>10, OtherStepsGates DEF ReadBinding, Bind, gateVars, procVars
<1>11. CASE \/ \E l \in Limits : Configure(l[1], l[2])
            \/ List \/ Tick
  BY <1>8, <1>11, OtherStepsGates DEF Configure, List, Tick, gateVars, procVars
<1>12. CASE UNCHANGED vars
  BY <1>8, <1>12, OtherStepsGates DEF vars
<1> QED BY <1>1, <1>2, <1>3, <1>4, <1>5, <1>6, <1>7, <1>9, <1>10, <1>11, <1>12 DEF Next

\* GateInv holds in every reachable state: the gate protocol of Acquire,
\* releaseReference and Release keeps its counts and its token straight.
THEOREM GatesSound == Spec => []GateInv
<1>1. Init => GateInv
  BY GateInit
<1>2. GateInv /\ [Next]_vars => GateInv'
  BY GateStep
<1> QED BY <1>1, <1>2, PTL DEF Spec

\* No two dials hold live leases of one session (Store.Acquire, Lease.Release).
THEOREM LeaseIsExclusive == Spec => []LeaseExclusive
<1>1. GateInv => LeaseExclusive
  BY DEF GateInv, TokenInv, TokenTakenOnce, MapInv, CountedInMap, LeaseExclusive, Holds,
         Counted, Holding
<1> QED BY <1>1, GatesSound, PTL

\* Reference counts are exact, no gate outlives or predeceases its dials, and giving
\* the token back never blocks (the sends in Acquire and Lease.Release).
THEOREM GatesAreCounted == Spec => []GatesCounted
<1>1. GateInv => CountsExact
  <2> SUFFICES ASSUME GateInv, NEW k \in Key,
                      NEW users, users = {p \in Proc : Counted(p) /\ call[p].key = k}
               PROVE  /\ (gates[k] = NoGate) <=> (users = {})
                      /\ \A p \in users : call[p].gate = gates[k]
                      /\ gates[k] # NoGate => heap[gates[k]].refs = Cardinality(users)
    BY DEF CountsExact
  <2>1. \A p \in users : call[p].gate = gates[k] /\ gates[k] \in Gate
    BY DEF GateInv, MapInv, CountedInMap, CallsInUse, Counted
  <2>2. CASE gates[k] = NoGate
    BY <2>1, <2>2, NullsAreFresh
  <2>3. CASE gates[k] # NoGate
    <3>1. users = Users(gates[k])
      <4>1. ASSUME NEW p \in Users(gates[k]) PROVE p \in users
        <5>1. Counted(p) /\ call[p].gate = gates[k] /\ p \in Proc
          BY <4>1 DEF Users
        <5>2. gates[call[p].key] = gates[k] /\ call[p].key \in Key
          BY <5>1 DEF GateInv, MapInv, CountedInMap, CallsInUse, Counted
        <5> QED BY <5>1, <5>2, <2>3 DEF GateInv, MapInv, GatesDistinct
      <4> QED BY <4>1, <2>1 DEF Users
    <3>2. heap[gates[k]].refs = Cardinality(users) /\ heap[gates[k]].refs > 0
      BY <3>1, <2>3 DEF GateInv, MapInv, RefsExact
    <3>3. users # {}
      BY <3>2, FS_EmptySet
    <3> QED BY <2>1, <2>3, <3>2, <3>3
  <2> QED BY <2>2, <2>3
<1>2. GateInv => TokenSlotFree
  BY DEF GateInv, TokenInv, TokenOut, TokenSlotFree, Holding
<1>3. GateInv => GatesCounted
  BY <1>1, <1>2 DEF GatesCounted
<1> QED BY <1>3, GatesSound, PTL
-----------------------------------------------------------------------------
(* The binding cache.  An Orderly cache lists the map's keys once each, by the time they  *)
(* were last seen, no later than n, and every binding expires t after it was seen.  Each   *)
(* operation of BindingCache keeps a cache orderly; the lemmas also say what it loses.     *)

\* A non-empty set of indices has a largest one: the CHOOSE of Pruned is met.
LEMMA LargestIndex ==
  ASSUME NEW n \in Nat, NEW S, S \subseteq 1 .. n, S # {}
  PROVE  \E i \in S : \A j \in S : j <= i
<1> DEFINE T == {m \in Nat : n - m \in S}
<1>1. T \subseteq Nat /\ T # {}
  <2>1. PICK i \in S : TRUE
    OBVIOUS
  <2>2. i \in 1 .. n
    OBVIOUS
  <2>3. n - i \in Nat /\ n - (n - i) = i
    BY <2>2
  <2> QED BY <2>3
<1>w. IsWellFoundedOn({p \in Nat \X Nat : p[1] < p[2]}, Nat)
  BY NatLessThanWellFounded DEF OpToRel
<1>2. PICK m \in T : \A o \in T : <<o, m>> \notin {p \in Nat \X Nat : p[1] < p[2]}
  <2> HIDE DEF T
  <2> QED BY <1>1, <1>w, WFMin
<1>3. \A o \in T : ~(o < m)
  BY <1>1, <1>2
<1>4. \A j \in S : n - j \in T /\ j \in Nat
  <2> TAKE j \in S
  <2>1. j \in 1 .. n
    OBVIOUS
  <2>2. n - j \in Nat /\ n - (n - j) = j
    BY <2>1
  <2> QED BY <2>1, <2>2
<1>5. n - m \in S /\ m \in Nat
  OBVIOUS
<1>6. \A j \in S : j <= n - m
  BY <1>3, <1>4, <1>5
<1> QED BY <1>5, <1>6

\* The list and the map of a cache describe the same bindings, each listed once.
Listed(c) ==
  /\ c.lru \in Seq(Key)
  /\ DOMAIN c.entries \subseteq Key
  /\ \A k \in DOMAIN c.entries : c.entries[k] \in Binding(Node)
  /\ \A k \in Key : (k \in DOMAIN c.entries) <=> (\E i \in DOMAIN c.lru : c.lru[i] = k)
  /\ \A i, j \in DOMAIN c.lru : c.lru[i] = c.lru[j] => i = j

\* Most recently seen first.
BySeen(c) ==
  \A i, j \in DOMAIN c.lru : i < j => c.entries[c.lru[j]].seen <= c.entries[c.lru[i]].seen

\* Seen by time n, and expiring t after that.
Aged(c, n, t) ==
  \A k \in DOMAIN c.entries : /\ c.entries[k].seen <= n
                              /\ c.entries[k].expires = c.entries[k].seen + t

Orderly(c, n, t) == Listed(c) /\ BySeen(c) /\ Aged(c, n, t)

\* d is what is left of c.
Within(d, c) ==
  /\ DOMAIN d.entries \subseteq DOMAIN c.entries
  /\ \A k \in DOMAIN d.entries : d.entries[k] = c.entries[k]

\* Listed, index by index.
LEMMA ListedIndex ==
  ASSUME NEW c, Listed(c)
  PROVE  /\ c.lru \in Seq(Key) /\ Len(c.lru) \in Nat /\ DOMAIN c.lru = 1 .. Len(c.lru)
         /\ \A i \in 1 .. Len(c.lru) : c.lru[i] \in DOMAIN c.entries
         /\ \A k \in DOMAIN c.entries : \E i \in 1 .. Len(c.lru) : c.lru[i] = k
         /\ \A i, j \in 1 .. Len(c.lru) : c.lru[i] = c.lru[j] => i = j
<1>1. c.lru \in Seq(Key)
  BY DEF Listed
<1>2. Len(c.lru) \in Nat /\ DOMAIN c.lru = 1 .. Len(c.lru)
  BY <1>1
<1>3. \A i \in 1 .. Len(c.lru) : c.lru[i] \in Key
  BY <1>1
<1>4. \A i \in 1 .. Len(c.lru) : c.lru[i] \in DOMAIN c.entries
  BY <1>2, <1>3 DEF Listed
<1>5. \A k \in DOMAIN c.entries : \E i \in 1 .. Len(c.lru) : c.lru[i] = k
  BY <1>2 DEF Listed
<1>6. \A i, j \in 1 .. Len(c.lru) : c.lru[i] = c.lru[j] => i = j
  BY <1>2 DEF Listed
<1> QED BY <1>1, <1>2, <1>4, <1>5, <1>6

\* removeLocked of the tail: what goes is exactly what was listed behind m.
LEMMA DropKeeps ==
  ASSUME NEW c, NEW n \in Nat, NEW t \in Nat, Orderly(c, n, t), NEW m \in 0 .. Len(c.lru)
  PROVE  /\ Orderly(Drop(c, m), n, t)
         /\ Within(Drop(c, m), c)
         /\ Len(Drop(c, m).lru) = m
         /\ \A i \in 1 .. m : Drop(c, m).lru[i] = c.lru[i]
         /\ \A k \in DOMAIN c.entries \ DOMAIN Drop(c, m).entries :
              \E i \in m+1 .. Len(c.lru) : c.lru[i] = k
<1>1. PICK d : d = Drop(c, m)
  OBVIOUS
<1>2. PICK dead : dead = {c.lru[i] : i \in m+1 .. Len(c.lru)}
  OBVIOUS
<1>3. /\ d.entries = [k \in DOMAIN c.entries \ dead |-> c.entries[k]]
      /\ d.lru = SubSeq(c.lru, 1, m)
  BY <1>1, <1>2 DEF Drop
<1>4. /\ c.lru \in Seq(Key) /\ Len(c.lru) \in Nat /\ DOMAIN c.lru = 1 .. Len(c.lru)
      /\ \A i \in 1 .. Len(c.lru) : c.lru[i] \in Key
  BY DEF Orderly, Listed
<1>5. /\ d.lru \in Seq(Key) /\ Len(d.lru) = m /\ DOMAIN d.lru = 1 .. m
      /\ \A i \in 1 .. m : d.lru[i] = c.lru[i]
  <2>1. \A i \in 1 .. m : c.lru[i] \in Key
    BY <1>4
  <2>2. /\ d.lru \in Seq(Key) /\ Len(d.lru) = (IF 1 <= m THEN m - 1 + 1 ELSE 0)
        /\ \A i \in 1 .. m - 1 + 1 : d.lru[i] = c.lru[1 + i - 1]
    BY <2>1, <1>3, SubSeqProperties
  <2> QED BY <2>2
<1>6. /\ DOMAIN d.entries = DOMAIN c.entries \ dead
      /\ \A k \in DOMAIN d.entries : d.entries[k] = c.entries[k]
  BY <1>3
<1>7. ASSUME NEW i \in 1 .. m PROVE c.lru[i] \in DOMAIN d.entries
  <2>1. i \in 1 .. Len(c.lru) /\ c.lru[i] \in DOMAIN c.entries
    BY <1>4 DEF Orderly, Listed
  <2>2. c.lru[i] \notin dead
    <3> SUFFICES ASSUME NEW j \in m+1 .. Len(c.lru), c.lru[i] = c.lru[j] PROVE FALSE
      BY <1>2
    <3>1. i = j
      BY <2>1, <1>4, SMTT(40) DEF Orderly, Listed
    <3> QED BY <3>1
  <2> QED BY <2>1, <2>2, <1>6
<1>8. ASSUME NEW k \in DOMAIN c.entries
      PROVE  \E i \in 1 .. Len(c.lru) : c.lru[i] = k
  BY <1>4 DEF Orderly, Listed
<1>9. ASSUME NEW k \in DOMAIN d.entries PROVE \E i \in 1 .. m : c.lru[i] = k
  <2>1. PICK i \in 1 .. Len(c.lru) : c.lru[i] = k
    BY <1>6, <1>8
  <2>2. i \notin m+1 .. Len(c.lru)
    BY <2>1, <1>2, <1>6
  <2> QED BY <2>1, <2>2, <1>4
<1>10. Listed(d)
  <2>1. DOMAIN d.entries \subseteq Key /\ \A k \in DOMAIN d.entries : d.entries[k] \in Binding(Node)
    BY <1>6 DEF Orderly, Listed
  <2>2. \A k \in Key : (k \in DOMAIN d.entries) <=> (\E i \in DOMAIN d.lru : d.lru[i] = k)
    <3>1. ASSUME NEW i \in 1 .. m PROVE d.lru[i] \in DOMAIN d.entries
      BY <3>1, <1>5, <1>7
    <3>2. ASSUME NEW k \in DOMAIN d.entries PROVE \E i \in 1 .. m : d.lru[i] = k
      BY <3>2, <1>5, <1>9
    <3>3. DOMAIN d.lru = 1 .. m
      BY <1>5
    <3> QED BY <3>1, <3>2, <3>3
  <2>3. \A i, j \in DOMAIN d.lru : d.lru[i] = d.lru[j] => i = j
    <3>1. 1 .. m \subseteq 1 .. Len(c.lru)
      BY <1>4
    <3> QED BY <3>1, <1>4, <1>5 DEF Orderly, Listed
  <2> QED BY <2>1, <2>2, <2>3, <1>5 DEF Listed
<1>11. BySeen(d)
  <2> SUFFICES ASSUME NEW i \in 1 .. m, NEW j \in 1 .. m, i < j
               PROVE  d.entries[d.lru[j]].seen <= d.entries[d.lru[i]].seen
    BY <1>5 DEF BySeen
  <2>1. c.entries[c.lru[j]].seen <= c.entries[c.lru[i]].seen
    <3>1. i \in DOMAIN c.lru /\ j \in DOMAIN c.lru
      BY <1>4
    <3> QED BY <3>1 DEF Orderly, BySeen
  <2>2. d.entries[d.lru[i]] = c.entries[c.lru[i]] /\ d.entries[d.lru[j]] = c.entries[c.lru[j]]
    BY <1>5, <1>6, <1>7
  <2> QED BY <2>1, <2>2
<1>12. Aged(d, n, t)
  BY <1>6 DEF Orderly, Aged
<1>13. \A k \in DOMAIN c.entries \ DOMAIN d.entries : \E i \in m+1 .. Len(c.lru) : c.lru[i] = k
  BY <1>2, <1>6
<1> QED BY <1>1, <1>5, <1>6, <1>10, <1>11, <1>12, <1>13 DEF Orderly, Within

\* pruneLocked stops at the first live binding, and yet leaves no expired one: the
\* order of the list is the order of expiry.
LEMMA PrunedKeeps ==
  ASSUME NEW c, NEW n \in Nat, NEW t \in Nat, Orderly(c, n, t), NEW u \in Nat
  PROVE  /\ Orderly(Pruned(c, u), n, t)
         /\ Within(Pruned(c, u), c)
         /\ Len(Pruned(c, u).lru) <= Len(c.lru)
         /\ \A k \in DOMAIN Pruned(c, u).entries : ~Expired(c.entries[k], u)
         /\ \A k \in DOMAIN c.entries \ DOMAIN Pruned(c, u).entries : Expired(c.entries[k], u)
<1>1. PICK live : live = {i \in 1 .. Len(c.lru) : ~Expired(c.entries[c.lru[i]], u)}
  OBVIOUS
<1>2. Len(c.lru) \in Nat /\ DOMAIN c.lru = 1 .. Len(c.lru)
  BY DEF Orderly, Listed
<1>3. PICK m : m = IF live = {} THEN 0 ELSE CHOOSE i \in live : \A j \in live : j <= i
  OBVIOUS
<1>4. Pruned(c, u) = Drop(c, m)
  BY <1>1, <1>3 DEF Pruned
<1>5. m \in 0 .. Len(c.lru) /\ \A j \in live : j <= m
  <2>1. CASE live = {}
    BY <2>1, <1>2, <1>3
  <2>2. CASE live # {}
    <3>1. \E i \in live : \A j \in live : j <= i
      BY <2>2, <1>1, <1>2, LargestIndex
    <3>2. m \in live /\ \A j \in live : j <= m
      BY <3>1, <2>2, <1>3
    <3> QED BY <3>2, <1>1, <1>2
  <2> QED BY <2>1, <2>2
<1>6. PICK d : d = Drop(c, m)
  OBVIOUS
<1>7. /\ Orderly(d, n, t) /\ Within(d, c) /\ Len(d.lru) = m
      /\ \A i \in 1 .. m : d.lru[i] = c.lru[i]
      /\ \A k \in DOMAIN c.entries \ DOMAIN d.entries : \E i \in m+1 .. Len(c.lru) : c.lru[i] = k
  BY <1>5, <1>6, DropKeeps, ZenonT(40)
<1>8. ASSUME NEW k \in DOMAIN c.entries \ DOMAIN d.entries PROVE Expired(c.entries[k], u)
  <2>1. PICK i \in m+1 .. Len(c.lru) : c.lru[i] = k
    BY <1>7
  <2>2. i \in 1 .. Len(c.lru) /\ i \notin live
    BY <1>2, <1>5
  <2> QED BY <2>1, <2>2, <1>1
<1>9. ASSUME NEW k \in DOMAIN d.entries PROVE ~Expired(c.entries[k], u)
  <2>1. PICK i \in DOMAIN d.lru : d.lru[i] = k
    BY <1>7 DEF Orderly, Listed
  <2>2. i \in 1 .. m /\ m > 0
    BY <2>1, <1>5, <1>7 DEF Orderly, Listed
  <2>3. live # {}
    BY <2>2, <1>3
  <2>4. m \in live
    BY <2>3, <1>1, <1>2, <1>3, LargestIndex
  <2>5. /\ i \in 1 .. Len(c.lru) /\ m \in 1 .. Len(c.lru) /\ c.lru[i] = k
        /\ c.lru[i] \in DOMAIN c.entries /\ c.lru[m] \in DOMAIN c.entries
    <3>1. i \in 1 .. Len(c.lru) /\ m \in 1 .. Len(c.lru) /\ c.lru[i] = k
      BY <2>1, <2>2, <1>2, <1>5, <1>7
    <3>2. c.lru \in Seq(Key)
      BY DEF Orderly, Listed
    <3>3. c.lru[i] \in Key /\ c.lru[m] \in Key
      BY <3>1, <3>2, ElementOfSeq
    <3> QED BY <3>1, <3>3, <1>2 DEF Orderly, Listed
  <2>6. c.entries[c.lru[m]].seen <= c.entries[c.lru[i]].seen
    <3>1. CASE i = m
      BY <3>1, <2>5 DEF Orderly, Listed, Binding
    <3>2. CASE i < m
      BY <3>2, <2>5, <1>2 DEF Orderly, BySeen
    <3> QED BY <3>1, <3>2, <2>2, <2>5, <1>5
  <2>7. /\ c.entries[c.lru[m]].expires = c.entries[c.lru[m]].seen + t
        /\ c.entries[k].expires = c.entries[k].seen + t
        /\ c.entries[k].seen \in Nat /\ c.entries[c.lru[m]].seen \in Nat
    BY <2>5 DEF Orderly, Aged, Listed, Binding
  <2>8. u < c.entries[c.lru[m]].expires
    BY <2>4, <1>1 DEF Expired
  <2> QED BY <2>5, <2>6, <2>7, <2>8, SMTT(40) DEF Expired
<1> QED BY <1>2, <1>4, <1>5, <1>6, <1>7, <1>8, <1>9

\* enforceCapacityLocked: within the capacity, the front stays, and what goes was seen
\* no later than what stays.
LEMMA CappedKeeps ==
  ASSUME NEW c, NEW n \in Nat, NEW t \in Nat, Orderly(c, n, t), NEW m \in Nat
  PROVE  /\ Orderly(Capped(c, m), n, t)
         /\ Within(Capped(c, m), c)
         /\ Len(Capped(c, m).lru) <= m
         /\ \A i \in 1 .. m : i <= Len(c.lru) => c.lru[i] \in DOMAIN Capped(c, m).entries
         /\ \A k \in DOMAIN c.entries \ DOMAIN Capped(c, m).entries :
              /\ Len(Capped(c, m).lru) = m
              /\ \A j \in DOMAIN Capped(c, m).entries : c.entries[j].seen >= c.entries[k].seen
<1>1. c.lru \in Seq(Key) /\ Len(c.lru) \in Nat /\ DOMAIN c.lru = 1 .. Len(c.lru)
  BY DEF Orderly, Listed
<1>2. CASE ~(Len(c.lru) > m)
  <2>1. Capped(c, m) = c
    BY <1>2 DEF Capped
  <2>2. \A i \in 1 .. m : i <= Len(c.lru) => c.lru[i] \in DOMAIN c.entries
    BY <1>1 DEF Orderly, Listed
  <2> QED BY <1>1, <1>2, <2>1, <2>2 DEF Within
<1>3. CASE Len(c.lru) > m
  <2>1. PICK d : d = Drop(c, m)
    OBVIOUS
  <2>2. Capped(c, m) = d
    BY <1>3, <2>1 DEF Capped
  <2>3. /\ Orderly(d, n, t) /\ Within(d, c) /\ Len(d.lru) = m
        /\ \A i \in 1 .. m : d.lru[i] = c.lru[i]
        /\ \A k \in DOMAIN c.entries \ DOMAIN d.entries :
             \E i \in m+1 .. Len(c.lru) : c.lru[i] = k
    <3>1. m \in 0 .. Len(c.lru)
      BY <1>1, <1>3
    <3> QED BY <3>1, <2>1, DropKeeps, ZenonT(40)
  <2>4. /\ d.lru \in Seq(Key) /\ DOMAIN d.lru = 1 .. m
        /\ \A i \in 1 .. m : c.lru[i] \in DOMAIN d.entries
        /\ \A j \in DOMAIN d.entries : \E i \in 1 .. m : c.lru[i] = j
    <3>1. /\ d.lru \in Seq(Key) /\ DOMAIN d.lru = 1 .. m
          /\ \A i \in 1 .. m : d.lru[i] \in DOMAIN d.entries
          /\ \A j \in DOMAIN d.entries : \E i \in 1 .. m : d.lru[i] = j
      <4>1. Listed(d) /\ Len(d.lru) = m
        BY <2>3 DEF Orderly
      <4>2. /\ d.lru \in Seq(Key) /\ DOMAIN d.lru = 1 .. Len(d.lru)
            /\ \A i \in 1 .. Len(d.lru) : d.lru[i] \in DOMAIN d.entries
            /\ \A j \in DOMAIN d.entries : \E i \in 1 .. Len(d.lru) : d.lru[i] = j
        BY <4>1, ListedIndex
      <4> QED BY <4>1, <4>2
    <3>2. ASSUME NEW i \in 1 .. m PROVE c.lru[i] \in DOMAIN d.entries
      <4>1. d.lru[i] = c.lru[i]
        BY <2>3
      <4> QED BY <4>1, <3>1
    <3>3. ASSUME NEW j \in DOMAIN d.entries PROVE \E i \in 1 .. m : c.lru[i] = j
      <4>1. PICK i \in 1 .. m : d.lru[i] = j
        BY <3>1
      <4>2. d.lru[i] = c.lru[i]
        BY <2>3
      <4> QED BY <4>1, <4>2
    <3> QED BY <3>1, <3>2, <3>3
  <2>5. ASSUME NEW k \in DOMAIN c.entries \ DOMAIN d.entries, NEW j \in DOMAIN d.entries
        PROVE  c.entries[j].seen >= c.entries[k].seen
    <3>1. PICK a \in m+1 .. Len(c.lru) : c.lru[a] = k
      BY <2>3
    <3>2. PICK b \in 1 .. m : c.lru[b] = j
      BY <2>4
    <3>3. a \in DOMAIN c.lru /\ b \in DOMAIN c.lru /\ b < a
      BY <1>1, <1>3
    <3>4. c.entries[c.lru[a]].seen <= c.entries[c.lru[b]].seen
      BY <3>3 DEF Orderly, BySeen
    <3>5. j \in DOMAIN c.entries
      BY <2>3 DEF Within
    <3>6. c.entries[j].seen \in Nat /\ c.entries[k].seen \in Nat
      BY <3>5 DEF Orderly, Listed, Binding
    <3> QED BY <3>1, <3>2, <3>4, <3>6
  <2> QED BY <2>2, <2>3, <2>4, <2>5
<1> QED BY <1>2, <1>3

\* list.Remove: the list without the place at which k was, if it was.
LEMMA UnlinkedIs ==
  ASSUME NEW l \in Seq(Key), \A i, j \in DOMAIN l : l[i] = l[j] => i = j, NEW k
  PROVE  \E at \in 1 .. Len(l) + 1 :
           /\ Unlinked(l, k) \in Seq(Key)
           /\ Len(Unlinked(l, k)) = IF at = Len(l) + 1 THEN Len(l) ELSE Len(l) - 1
           /\ \A i \in 1 .. Len(Unlinked(l, k)) :
                Unlinked(l, k)[i] = IF i < at THEN l[i] ELSE l[i + 1]
           /\ \A i \in 1 .. Len(l) : (l[i] = k) <=> (i = at)
<1>1. Len(l) \in Nat /\ DOMAIN l = 1 .. Len(l) /\ \A i \in 1 .. Len(l) : l[i] \in Key
  OBVIOUS
<1>2. CASE ~\E i \in 1 .. Len(l) : l[i] = k
  <2>1. Unlinked(l, k) = l
    BY <1>2 DEF Unlinked
  <2>2. Len(l) + 1 \in 1 .. Len(l) + 1 /\ \A i \in 1 .. Len(l) : i < Len(l) + 1 /\ i # Len(l) + 1
    BY <1>1, SMTT(40)
  <2> QED BY <1>2, <2>1, <2>2
<1>3. CASE \E i \in 1 .. Len(l) : l[i] = k
  <2>1. PICK at : at = CHOOSE i \in 1 .. Len(l) : l[i] = k
    OBVIOUS
  <2>2. at \in 1 .. Len(l) /\ l[at] = k
    BY <1>3, <2>1
  <2>3. PICK u : u = [i \in 1 .. Len(l) - 1 |-> IF i < at THEN l[i] ELSE l[i + 1]]
    OBVIOUS
  <2>4. Unlinked(l, k) = u
    BY <1>3, <2>1, <2>3 DEF Unlinked
  <2>5. Len(l) - 1 \in Nat /\ at # Len(l) + 1 /\ at \in 1 .. Len(l) + 1
    BY <2>2, <1>1
  <2>6. \A i \in 1 .. Len(l) - 1 : (IF i < at THEN l[i] ELSE l[i + 1]) \in Key
    BY <2>2, <1>1
  <2>7. u \in Seq(Key) /\ Len(u) = Len(l) - 1
    BY <2>3, <2>5, <2>6
  <2>8. \A i \in 1 .. Len(l) : (l[i] = k) <=> (i = at)
    BY <2>2, <1>1
  <2> QED BY <2>3, <2>4, <2>5, <2>7, <2>8, ZenonT(40)
<1> QED BY <1>2, <1>3

\* removeLocked.
LEMMA RemovedKeeps ==
  ASSUME NEW c, NEW n \in Nat, NEW t \in Nat, Orderly(c, n, t), NEW k
  PROVE  /\ Orderly(Removed(c, k), n, t)
         /\ Within(Removed(c, k), c)
         /\ DOMAIN Removed(c, k).entries = DOMAIN c.entries \ {k}
         /\ Len(Removed(c, k).lru) <= Len(c.lru)
<1>1. PICK d : d = Removed(c, k)
  OBVIOUS
<1>2. /\ d.entries = [j \in DOMAIN c.entries \ {k} |-> c.entries[j]]
      /\ d.lru = Unlinked(c.lru, k)
  BY <1>1 DEF Removed
<1>3. /\ c.lru \in Seq(Key) /\ Len(c.lru) \in Nat /\ DOMAIN c.lru = 1 .. Len(c.lru)
      /\ \A i, j \in DOMAIN c.lru : c.lru[i] = c.lru[j] => i = j
  BY DEF Orderly, Listed
<1>4. PICK at \in 1 .. Len(c.lru) + 1 :
        /\ d.lru \in Seq(Key)
        /\ Len(d.lru) = IF at = Len(c.lru) + 1 THEN Len(c.lru) ELSE Len(c.lru) - 1
        /\ \A i \in 1 .. Len(d.lru) : d.lru[i] = IF i < at THEN c.lru[i] ELSE c.lru[i + 1]
        /\ \A i \in 1 .. Len(c.lru) : (c.lru[i] = k) <=> (i = at)
  <2>1. PICK l : l = c.lru
    OBVIOUS
  <2>2. l \in Seq(Key) /\ \A i, j \in DOMAIN l : l[i] = l[j] => i = j
    BY <2>1, <1>3
  <2>3. \E at \in 1 .. Len(l) + 1 :
           /\ Unlinked(l, k) \in Seq(Key)
           /\ Len(Unlinked(l, k)) = IF at = Len(l) + 1 THEN Len(l) ELSE Len(l) - 1
           /\ \A i \in 1 .. Len(Unlinked(l, k)) :
                Unlinked(l, k)[i] = IF i < at THEN l[i] ELSE l[i + 1]
           /\ \A i \in 1 .. Len(l) : (l[i] = k) <=> (i = at)
    BY <2>2, UnlinkedIs
  <2> QED BY <2>1, <2>3, <1>2
<1>5. DOMAIN d.lru = 1 .. Len(d.lru) /\ Len(d.lru) \in Nat
  BY <1>4
<1> DEFINE from(i) == IF i < at THEN i ELSE i + 1
<1>6. ASSUME NEW i \in 1 .. Len(d.lru)
      PROVE  from(i) \in 1 .. Len(c.lru) /\ from(i) # at /\ d.lru[i] = c.lru[from(i)]
  BY <1>3, <1>4
<1>7. \A i, j \in 1 .. Len(d.lru) : /\ (from(i) = from(j) => i = j)
                                    /\ (i < j => from(i) < from(j))
  BY <1>4, <1>5
<1>8. ASSUME NEW a \in 1 .. Len(c.lru), a # at PROVE \E i \in 1 .. Len(d.lru) : from(i) = a
  <2>1. CASE a < at
    <3>1. a \in 1 .. Len(d.lru) /\ from(a) = a
      BY <2>1, <1>3, <1>4
    <3> QED BY <3>1
  <2>2. CASE a > at
    <3>1. a - 1 \in 1 .. Len(d.lru) /\ from(a - 1) = a
      BY <2>2, <1>3, <1>4
    <3> QED BY <3>1
  <2> QED BY <2>1, <2>2, <1>3, <1>4, <1>8
<1> HIDE DEF from
<1>9. /\ DOMAIN d.entries = DOMAIN c.entries \ {k}
      /\ \A j \in DOMAIN d.entries : d.entries[j] = c.entries[j]
  BY <1>2
<1>10. \A i \in 1 .. Len(c.lru) : c.lru[i] \in DOMAIN c.entries
  BY <1>3 DEF Orderly, Listed
<1>11. ASSUME NEW i \in 1 .. Len(d.lru) PROVE d.lru[i] \in DOMAIN d.entries
  BY <1>4, <1>6, <1>9, <1>10
<1>12. ASSUME NEW j \in DOMAIN d.entries PROVE \E i \in 1 .. Len(d.lru) : d.lru[i] = j
  <2>1. PICK a \in 1 .. Len(c.lru) : c.lru[a] = j
    BY <1>3, <1>9 DEF Orderly, Listed
  <2>2. a # at
    BY <2>1, <1>4, <1>9
  <2>3. PICK i \in 1 .. Len(d.lru) : from(i) = a
    BY <2>2, <1>8
  <2> QED BY <2>1, <2>3, <1>6
<1>13. Listed(d)
  <2>1. DOMAIN d.entries \subseteq Key /\ \A j \in DOMAIN d.entries : d.entries[j] \in Binding(Node)
    BY <1>9 DEF Orderly, Listed
  <2>2. \A j \in Key : (j \in DOMAIN d.entries) <=> (\E i \in DOMAIN d.lru : d.lru[i] = j)
    BY <1>5, <1>11, <1>12
  <2>3. \A i, j \in DOMAIN d.lru : d.lru[i] = d.lru[j] => i = j
    <3> SUFFICES ASSUME NEW i \in 1 .. Len(d.lru), NEW j \in 1 .. Len(d.lru), d.lru[i] = d.lru[j]
                 PROVE  i = j
      BY <1>5
    <3>1. from(i) = from(j)
      BY <1>3, <1>6
    <3> QED BY <3>1, <1>7
  <2> QED BY <2>1, <2>2, <2>3, <1>4 DEF Listed
<1>14. BySeen(d)
  <2> SUFFICES ASSUME NEW i \in 1 .. Len(d.lru), NEW j \in 1 .. Len(d.lru), i < j
               PROVE  d.entries[d.lru[j]].seen <= d.entries[d.lru[i]].seen
    BY <1>5 DEF BySeen
  <2>1. from(i) < from(j) /\ from(i) \in DOMAIN c.lru /\ from(j) \in DOMAIN c.lru
    BY <1>3, <1>6, <1>7
  <2>2. c.entries[c.lru[from(j)]].seen <= c.entries[c.lru[from(i)]].seen
    BY <2>1 DEF Orderly, BySeen
  <2>3. d.entries[d.lru[i]] = c.entries[c.lru[from(i)]] /\ d.entries[d.lru[j]] = c.entries[c.lru[from(j)]]
    BY <1>6, <1>9, <1>11
  <2> QED BY <2>2, <2>3
<1>15. Aged(d, n, t)
  BY <1>9 DEF Orderly, Aged
<1>16. Len(d.lru) <= Len(c.lru)
  BY <1>3, <1>4
<1> QED BY <1>1, <1>9, <1>13, <1>14, <1>15, <1>16 DEF Orderly, Within

\* d is c with k in front and bound to b.
InFront(c, d, k, b) ==
  /\ DOMAIN d.entries = DOMAIN c.entries \cup {k}
  /\ d.entries[k] = b
  /\ \A j \in DOMAIN c.entries \ {k} : d.entries[j] = c.entries[j]
  /\ Len(d.lru) >= 1 /\ d.lru[1] = k

\* PushFront and MoveToFront of a binding seen now.
LEMMA TouchedKeeps ==
  ASSUME NEW c, NEW n \in Nat, NEW t \in Nat, Orderly(c, n, t),
         NEW k \in Key, NEW b \in Binding(Node), b.seen = n, b.expires = n + t
  PROVE  Orderly(Touched(c, k, b), n, t) /\ InFront(c, Touched(c, k, b), k, b)
<1>1. PICK d : d = Touched(c, k, b)
  OBVIOUS
<1>2. PICK r : r = Removed(c, k)
  OBVIOUS
<1>3. /\ Orderly(r, n, t) /\ Within(r, c) /\ DOMAIN r.entries = DOMAIN c.entries \ {k}
  BY <1>2, RemovedKeeps
<1>4. /\ d.entries = [j \in DOMAIN c.entries \cup {k} |-> IF j = k THEN b ELSE c.entries[j]]
      /\ d.lru = <<k>> \o r.lru
  BY <1>1, <1>2 DEF Touched, Removed
<1>5. /\ DOMAIN d.entries = DOMAIN r.entries \cup {k} /\ d.entries[k] = b /\ k \notin DOMAIN r.entries
      /\ \A j \in DOMAIN r.entries : d.entries[j] = r.entries[j]
  BY <1>3, <1>4 DEF Within
<1>6. r.lru \in Seq(Key) /\ Len(r.lru) \in Nat /\ DOMAIN r.lru = 1 .. Len(r.lru)
  BY <1>3 DEF Orderly, Listed
<1>7. /\ d.lru \in Seq(Key) /\ Len(d.lru) = Len(r.lru) + 1 /\ DOMAIN d.lru = 1 .. Len(r.lru) + 1
      /\ d.lru[1] = k /\ \A i \in 1 .. Len(r.lru) : d.lru[i + 1] = r.lru[i]
  BY <1>4, <1>6
<1>8. \A i \in 1 .. Len(r.lru) + 1 : i = 1 \/ \E a \in 1 .. Len(r.lru) : i = a + 1
  <2> TAKE i \in 1 .. Len(r.lru) + 1
  <2>1. i # 1 => i - 1 \in 1 .. Len(r.lru) /\ i = (i - 1) + 1
    BY <1>6
  <2> QED BY <2>1
<1>9. /\ \A a \in 1 .. Len(r.lru) : r.lru[a] \in DOMAIN r.entries
      /\ \A j \in DOMAIN r.entries : \E a \in 1 .. Len(r.lru) : r.lru[a] = j
      /\ \A a, e \in 1 .. Len(r.lru) : r.lru[a] = r.lru[e] => a = e
  BY <1>3, ListedIndex DEF Orderly
<1>10. Listed(d)
  <2>1. DOMAIN d.entries \subseteq Key /\ \A j \in DOMAIN d.entries : d.entries[j] \in Binding(Node)
    BY <1>3, <1>5 DEF Orderly, Listed
  <2>2. ASSUME NEW i \in 1 .. Len(r.lru) + 1 PROVE d.lru[i] \in DOMAIN d.entries
    BY <1>5, <1>7, <1>8, <1>9, SMTT(40)
  <2>3. ASSUME NEW j \in DOMAIN d.entries PROVE \E i \in 1 .. Len(r.lru) + 1 : d.lru[i] = j
    <3>1. CASE j = k
      <4>1. 1 \in 1 .. Len(r.lru) + 1
        BY <1>6
      <4> QED BY <3>1, <4>1, <1>7
    <3>2. CASE j # k
      <4>1. PICK a \in 1 .. Len(r.lru) : r.lru[a] = j
        BY <3>2, <1>5, <1>9
      <4>2. a + 1 \in 1 .. Len(r.lru) + 1
        BY <1>6
      <4> QED BY <4>1, <4>2, <1>7
    <3> QED BY <3>1, <3>2
  <2>4. \A j \in Key : (j \in DOMAIN d.entries) <=> (\E i \in DOMAIN d.lru : d.lru[i] = j)
    BY <2>2, <2>3, <1>7
  <2>5. ASSUME NEW i \in 1 .. Len(r.lru) + 1, NEW j \in 1 .. Len(r.lru) + 1, d.lru[i] = d.lru[j]
        PROVE  i = j
    <3>1. \A a \in 1 .. Len(r.lru) : d.lru[a + 1] # k
      <4> TAKE a \in 1 .. Len(r.lru)
      <4>1. d.lru[a + 1] = r.lru[a] /\ r.lru[a] \in DOMAIN r.entries
        BY <1>7, <1>9
      <4> QED BY <4>1, <1>5
    <3>2. CASE i = 1
      BY <3>1, <3>2, <2>5, <1>7, <1>8
    <3>3. CASE j = 1
      BY <3>1, <3>3, <2>5, <1>7, <1>8
    <3>4. CASE i # 1 /\ j # 1
      <4>1. PICK a \in 1 .. Len(r.lru) : i = a + 1
        BY <3>4, <1>8
      <4>2. PICK e \in 1 .. Len(r.lru) : j = e + 1
        BY <3>4, <1>8
      <4>3. r.lru[a] = r.lru[e]
        BY <4>1, <4>2, <2>5, <1>7
      <4> QED BY <4>1, <4>2, <4>3, <1>9
    <3> QED BY <3>2, <3>3, <3>4
  <2> QED BY <2>1, <2>4, <2>5, <1>7 DEF Listed
<1>11. Aged(d, n, t)
  BY <1>3, <1>5 DEF Orderly, Aged
<1>12. BySeen(d)
  <2> SUFFICES ASSUME NEW i \in 1 .. Len(r.lru) + 1, NEW j \in 1 .. Len(r.lru) + 1, i < j
               PROVE  d.entries[d.lru[j]].seen <= d.entries[d.lru[i]].seen
    BY <1>7 DEF BySeen
  <2>1. PICK e \in 1 .. Len(r.lru) : j = e + 1
    BY <1>6, <1>8
  <2>2. d.lru[j] = r.lru[e] /\ d.entries[d.lru[j]] = r.entries[r.lru[e]] /\ r.lru[e] \in DOMAIN r.entries
    BY <2>1, <1>5, <1>7, <1>9
  <2>3. CASE i = 1
    BY <2>2, <2>3, <1>3, <1>5, <1>7 DEF Orderly, Aged
  <2>4. CASE i # 1
    <3>1. PICK a \in 1 .. Len(r.lru) : i = a + 1
      BY <2>4, <1>8
    <3>2. d.lru[i] = r.lru[a] /\ d.entries[d.lru[i]] = r.entries[r.lru[a]]
      BY <3>1, <1>5, <1>7, <1>9
    <3>3. a < e
      BY <2>1, <3>1, <1>6
    <3>4. r.entries[r.lru[e]].seen <= r.entries[r.lru[a]].seen
      BY <3>3, <1>3, <1>6 DEF Orderly, BySeen
    <3> QED BY <2>2, <3>2, <3>4
  <2> QED BY <2>3, <2>4
<1>13. DOMAIN d.entries = DOMAIN c.entries \cup {k}
  BY <1>4
<1>14. \A j \in DOMAIN c.entries \ {k} : d.entries[j] = c.entries[j]
  BY <1>4
<1>15. Len(d.lru) >= 1
  BY <1>6, <1>7
<1> QED BY <1>1, <1>5, <1>7, <1>10, <1>11, <1>12, <1>13, <1>14, <1>15 DEF Orderly, InFront

\* A binding under the idle TTL u.
Under(b, u) == [b EXCEPT !.expires = b.seen + u]

\* Configure's recomputation: the cache is orderly for the new TTL.
LEMMA RetimedKeeps ==
  ASSUME NEW c, NEW n \in Nat, NEW t \in Nat, Orderly(c, n, t), NEW u \in Nat
  PROVE  /\ Orderly(Retimed(c, u), n, u)
         /\ DOMAIN Retimed(c, u).entries = DOMAIN c.entries
         /\ \A k \in DOMAIN c.entries :
              Retimed(c, u).entries[k] = Under(c.entries[k], u)
<1>1. PICK d : d = Retimed(c, u)
  OBVIOUS
<1>2. /\ d.lru = c.lru /\ DOMAIN d.entries = DOMAIN c.entries
      /\ \A k \in DOMAIN c.entries :
           d.entries[k] = Under(c.entries[k], u)
  BY <1>1 DEF Retimed, Under
<1>3. ASSUME NEW k \in DOMAIN c.entries
      PROVE  /\ d.entries[k] \in Binding(Node)
             /\ d.entries[k].seen = c.entries[k].seen
             /\ d.entries[k].expires = c.entries[k].seen + u
  <2>1. c.entries[k] \in Binding(Node)
    BY DEF Orderly, Listed
  <2>2. PICK b \in Binding(Node) : b = c.entries[k]
    BY <2>1
  <2>3. b.seen + u \in Nat
    BY DEF Binding
  <2>4. /\ Under(b, u) \in Binding(Node)
        /\ Under(b, u).seen = b.seen
        /\ Under(b, u).expires = b.seen + u
    BY <2>3 DEF Binding, Under
  <2> QED BY <2>2, <2>4, <1>2
<1>4. Listed(d)
  BY <1>2, <1>3 DEF Orderly, Listed
<1>5. BySeen(d)
  <2> SUFFICES ASSUME NEW i \in DOMAIN c.lru, NEW j \in DOMAIN c.lru, i < j
               PROVE  d.entries[c.lru[j]].seen <= d.entries[c.lru[i]].seen
    BY <1>2 DEF BySeen
  <2>1. c.lru[i] \in DOMAIN c.entries /\ c.lru[j] \in DOMAIN c.entries
    BY DEF Orderly, Listed
  <2>2. c.entries[c.lru[j]].seen <= c.entries[c.lru[i]].seen
    BY DEF Orderly, BySeen
  <2> QED BY <2>1, <2>2, <1>3
<1>6. Aged(d, n, u)
  BY <1>2, <1>3 DEF Orderly, Aged
<1> QED BY <1>1, <1>2, <1>4, <1>5, <1>6 DEF Orderly

-----------------------------------------------------------------------------
\* The store's cache is orderly for the clock and the TTL in force, and within capacity.
CacheInv ==
  /\ now \in Nat /\ max \in Nat \ {0} /\ ttl \in Nat \ {0}
  /\ Orderly(Cache, now, ttl)
  /\ Len(lru) <= max

\* A critical section that ends in an orderly cache keeps CacheInv.
LEMMA CacheInvNext ==
  ASSUME NEW d, SetCache(d), Orderly(d, now', ttl'), Len(d.lru) <= max',
         now' \in Nat, max' \in Nat \ {0}, ttl' \in Nat \ {0}
  PROVE  CacheInv'
<1>1. PICK c : c = Cache'
  OBVIOUS
<1>2. c.entries = d.entries /\ c.lru = d.lru /\ lru' = d.lru
  BY <1>1 DEF Cache, SetCache
<1>3. Orderly(c, now', ttl')
  BY <1>2 DEF Orderly, Listed, BySeen, Aged
<1>4. Orderly(Cache, now, ttl)'
  BY <1>1, <1>3 DEF Orderly, Listed, BySeen, Aged
<1> QED BY <1>2, <1>4 DEF CacheInv

\* Time passing makes no cache disorderly.
LEMMA KeepCache ==
  ASSUME CacheInv, entries' = entries, lru' = lru, max' = max, ttl' = ttl,
         now' \in Nat, now' >= now
  PROVE  CacheInv'
<1>1. SetCache(Cache) /\ Cache.lru = lru /\ Cache.entries = entries
  BY DEF SetCache, Cache
<1>2. Orderly(Cache, now', ttl)
  <2>1. Orderly(Cache, now, ttl) /\ now \in Nat
    BY DEF CacheInv
  <2>2. Aged(Cache, now', ttl)
    <3> SUFFICES ASSUME NEW k \in DOMAIN Cache.entries
                 PROVE  Cache.entries[k].seen <= now'
      BY <2>1 DEF Orderly, Aged
    <3>1. Cache.entries[k].seen \in Nat /\ Cache.entries[k].seen <= now
      BY <2>1 DEF Orderly, Aged, Listed, Binding
    <3> QED BY <3>1, <2>1
  <2> QED BY <2>1, <2>2 DEF Orderly
<1> QED BY <1>1, <1>2, CacheInvNext DEF CacheInv

\* Lease.Bind: its session is bound, and others are lost to expiry or, at the
\* capacity, to being the least recently seen.
LEMMA BindCache ==
  ASSUME CacheInv, GateInv, NEW p \in Proc, NEW n \in Node, Bind(p, n),
         NEW k, k = call[p].key
  PROVE  /\ CacheInv'
         /\ k \in DOMAIN entries'
         /\ entries'[k] = [node |-> n, seen |-> now, expires |-> now + ttl]
         /\ \A j \in DOMAIN entries' \ {k} :
              j \in DOMAIN entries /\ entries'[j] = entries[j] /\ ~Expired(entries[j], now)
         /\ \A j \in DOMAIN entries \ DOMAIN entries' :
              \/ Expired(entries[j], now)
              \/ /\ Len(lru') = max'
                 /\ \A i \in DOMAIN entries' : entries'[i].seen >= entries[j].seen
<1>k. k \in Key
  BY DEF Bind, Current, GateInv, MapInv, CallsInUse
<1>t. /\ Orderly(Cache, now, ttl) /\ now \in Nat /\ ttl \in Nat /\ max \in Nat \ {0}
      /\ Cache.entries = entries /\ ttl \in Nat \ {0}
  BY DEF CacheInv, Cache
<1>u. now' = now /\ ttl' = ttl /\ max' = max
  BY DEF Bind, limitVars
<1>b. PICK b : b = [node |-> n, seen |-> now, expires |-> now + ttl]
  OBVIOUS
<1>b1. b \in Binding(Node) /\ b.seen = now /\ b.expires = now + ttl
  BY <1>b, <1>t DEF Binding
<1>1. PICK c : c = Pruned(Cache, now)
  OBVIOUS
<1>2. /\ Orderly(c, now, ttl) /\ Within(c, Cache)
      /\ \A j \in DOMAIN c.entries : ~Expired(entries[j], now)
      /\ \A j \in DOMAIN entries \ DOMAIN c.entries : Expired(entries[j], now)
  BY <1>1, <1>t, PrunedKeeps
<1>3. PICK d : d = Touched(c, k, b)
  OBVIOUS
<1>4. /\ Orderly(d, now, ttl)
      /\ DOMAIN d.entries = DOMAIN c.entries \cup {k}
      /\ d.entries[k] = b
      /\ \A j \in DOMAIN c.entries \ {k} : d.entries[j] = c.entries[j]
      /\ Len(d.lru) >= 1 /\ d.lru[1] = k
  <2>1. Orderly(c, now, ttl)
    BY <1>2
  <2>2. now \in Nat /\ ttl \in Nat
    BY <1>t
  <2>3. Orderly(Touched(c, k, b), now, ttl) /\ InFront(c, Touched(c, k, b), k, b)
    BY <2>1, <2>2, <1>b1, <1>k, TouchedKeeps
  <2> QED BY <2>3, <1>3 DEF InFront
<1>5. PICK e : e = Capped(d, max)
  OBVIOUS
<1>6. /\ Orderly(e, now, ttl) /\ Within(e, d) /\ Len(e.lru) <= max
      /\ \A i \in 1 .. max : i <= Len(d.lru) => d.lru[i] \in DOMAIN e.entries
      /\ \A j \in DOMAIN d.entries \ DOMAIN e.entries :
           /\ Len(e.lru) = max
           /\ \A i \in DOMAIN e.entries : d.entries[i].seen >= d.entries[j].seen
  BY <1>4, <1>5, <1>t, CappedKeeps
<1>7. SetCache(e)
  BY <1>1, <1>3, <1>5, <1>b DEF Bind
<1>8. entries' = e.entries /\ lru' = e.lru
  BY <1>7 DEF SetCache
<1>9. CacheInv'
  BY <1>6, <1>7, <1>t, <1>u, CacheInvNext
<1>10. k \in DOMAIN entries' /\ entries'[k] = b
  <2>1. 1 \in 1 .. max
    BY <1>t
  <2>2. k \in DOMAIN e.entries
    BY <2>1, <1>4, <1>6
  <2> QED BY <2>2, <1>4, <1>6, <1>8 DEF Within
<1>11. ASSUME NEW j \in DOMAIN entries' \ {k}
       PROVE  j \in DOMAIN entries /\ entries'[j] = entries[j] /\ ~Expired(entries[j], now)
  <2>1. j \in DOMAIN e.entries /\ j \in DOMAIN d.entries /\ e.entries[j] = d.entries[j]
    BY <1>6, <1>8 DEF Within
  <2>2. j \in DOMAIN c.entries /\ d.entries[j] = c.entries[j]
    BY <2>1, <1>4
  <2> QED BY <2>1, <2>2, <1>2, <1>8, <1>t DEF Within
<1>12. ASSUME NEW j \in DOMAIN entries \ DOMAIN entries', ~Expired(entries[j], now)
       PROVE  /\ Len(lru') = max'
              /\ \A i \in DOMAIN entries' : entries'[i].seen >= entries[j].seen
  <2>1. j \in DOMAIN c.entries /\ j # k /\ c.entries[j] = entries[j]
    BY <1>2, <1>10, <1>12, <1>t DEF Within
  <2>2. j \in DOMAIN d.entries \ DOMAIN e.entries /\ d.entries[j] = entries[j]
    BY <2>1, <1>4, <1>8
  <2>3. \A i \in DOMAIN e.entries : e.entries[i] = d.entries[i]
    BY <1>6 DEF Within
  <2> QED BY <2>2, <2>3, <1>6, <1>8, <1>u
<1> QED BY <1>9, <1>10, <1>11, <1>12, <1>b

\* Store.Delete.
LEMMA DeleteCache ==
  ASSUME CacheInv, NEW k \in Key, Delete(k)
  PROVE  /\ CacheInv'
         /\ DOMAIN entries' \subseteq DOMAIN entries \ {k}
         /\ \A j \in DOMAIN entries' : entries'[j] = entries[j]
         /\ \A j \in DOMAIN entries \ DOMAIN entries' : j = k \/ Expired(entries[j], now)
<1>t. /\ Orderly(Cache, now, ttl) /\ now \in Nat /\ ttl \in Nat /\ max \in Nat \ {0}
      /\ Cache.entries = entries /\ Cache.lru = lru /\ ttl \in Nat \ {0} /\ Len(lru) <= max
  BY DEF CacheInv, Cache
<1>u. now' = now /\ ttl' = ttl /\ max' = max
  BY DEF Delete, limitVars
<1>1. PICK c : c = Pruned(Cache, now)
  OBVIOUS
<1>2. /\ Orderly(c, now, ttl) /\ Within(c, Cache) /\ Len(c.lru) <= Len(lru)
      /\ \A j \in DOMAIN entries \ DOMAIN c.entries : Expired(entries[j], now)
  BY <1>1, <1>t, PrunedKeeps
<1>3. PICK d : d = Removed(c, k)
  OBVIOUS
<1>4. /\ Orderly(d, now, ttl) /\ Within(d, c) /\ Len(d.lru) <= Len(c.lru)
      /\ DOMAIN d.entries = DOMAIN c.entries \ {k}
  BY <1>2, <1>3, <1>t, RemovedKeeps
<1>5. SetCache(d)
  BY <1>1, <1>3 DEF Delete
<1>6. Len(d.lru) <= max
  <2>1. Len(d.lru) \in Nat /\ Len(c.lru) \in Nat /\ Len(lru) \in Nat
    BY <1>2, <1>4, <1>t, ListedIndex DEF Orderly
  <2> QED BY <2>1, <1>2, <1>4, <1>t
<1>7. CacheInv'
  BY <1>4, <1>5, <1>6, <1>t, <1>u, CacheInvNext
<1> QED BY <1>2, <1>4, <1>5, <1>7, <1>t DEF SetCache, Within

\* Store.List and Lease.Binding lose expired bindings only.
LEMMA AgeingCache ==
  ASSUME CacheInv, List \/ \E p \in Proc : ReadBinding(p)
  PROVE  /\ CacheInv'
         /\ DOMAIN entries' \subseteq DOMAIN entries
         /\ \A j \in DOMAIN entries' : entries'[j] = entries[j]
         /\ \A j \in DOMAIN entries \ DOMAIN entries' : Expired(entries[j], now)
<1>t. /\ Orderly(Cache, now, ttl) /\ now \in Nat /\ ttl \in Nat /\ max \in Nat \ {0}
      /\ Cache.entries = entries /\ Cache.lru = lru /\ ttl \in Nat \ {0} /\ Len(lru) <= max
  BY DEF CacheInv, Cache
<1>u. now' = now /\ ttl' = ttl /\ max' = max
  BY DEF List, ReadBinding, limitVars
<1>1. \E d : /\ SetCache(d) /\ Orderly(d, now, ttl) /\ Within(d, Cache) /\ Len(d.lru) <= Len(lru)
             /\ \A j \in DOMAIN entries \ DOMAIN d.entries : Expired(entries[j], now)
  <2>1. CASE List
    <3>1. SetCache(Pruned(Cache, now))
      BY <2>1 DEF List
    <3> QED BY <3>1, <1>t, PrunedKeeps
  <2>2. CASE \E p \in Proc : ReadBinding(p)
    <3>1. PICK k : Expired(entries[k], now) /\ SetCache(Removed(Cache, k))
      BY <2>2 DEF ReadBinding
    <3>2. /\ Orderly(Removed(Cache, k), now, ttl) /\ Within(Removed(Cache, k), Cache)
          /\ DOMAIN Removed(Cache, k).entries = DOMAIN entries \ {k}
          /\ Len(Removed(Cache, k).lru) <= Len(lru)
      BY <1>t, RemovedKeeps
    <3> QED BY <3>1, <3>2
  <2> QED BY <2>1, <2>2
<1>2. PICK d : /\ SetCache(d) /\ Orderly(d, now, ttl) /\ Within(d, Cache) /\ Len(d.lru) <= Len(lru)
               /\ \A j \in DOMAIN entries \ DOMAIN d.entries : Expired(entries[j], now)
  BY <1>1
<1>3. Len(d.lru) <= max
  <2>1. Len(d.lru) \in Nat /\ Len(lru) \in Nat
    BY <1>2, <1>t, ListedIndex DEF Orderly
  <2> QED BY <2>1, <1>2, <1>t
<1>4. CacheInv'
  BY <1>2, <1>3, <1>t, <1>u, CacheInvNext
<1> QED BY <1>2, <1>4, <1>t DEF SetCache, Within

\* Store.Configure revives nothing and retimes what it keeps.
LEMMA ConfigureCache ==
  ASSUME CacheInv, NEW m \in Nat, NEW t \in Nat, Configure(m, t)
  PROVE  /\ CacheInv'
         /\ \A j \in DOMAIN entries' :
              /\ j \in DOMAIN entries /\ ~Expired(entries[j], now)
              /\ entries'[j] = Under(entries[j], ttl')
         /\ \A j \in DOMAIN entries \ DOMAIN entries' :
              \/ Expired(entries[j], now)
              \/ Expired(Under(entries[j], ttl'), now)
              \/ /\ Len(lru') = max'
                 /\ \A i \in DOMAIN entries' : entries'[i].seen >= entries[j].seen
<1>t. /\ Orderly(Cache, now, ttl) /\ now \in Nat /\ ttl \in Nat /\ Cache.entries = entries
  BY DEF CacheInv, Cache
<1>u. now' = now /\ ttl' \in Nat \ {0} /\ max' \in Nat \ {0}
  BY DefaultsPositive DEF Configure, Positive
<1>v. PICK u \in Nat : u = ttl'
  BY <1>u
<1>w. PICK x \in Nat : x = max'
  BY <1>u
<1>1. PICK c : c = Pruned(Cache, now)
  OBVIOUS
<1>2. /\ Orderly(c, now, ttl) /\ Within(c, Cache)
      /\ \A j \in DOMAIN c.entries : ~Expired(entries[j], now)
      /\ \A j \in DOMAIN entries \ DOMAIN c.entries : Expired(entries[j], now)
  BY <1>1, <1>t, PrunedKeeps
<1>3. PICK d : d = Retimed(c, u)
  OBVIOUS
<1>4. /\ Orderly(d, now, u) /\ DOMAIN d.entries = DOMAIN c.entries
      /\ \A k \in DOMAIN c.entries :
           d.entries[k] = Under(c.entries[k], u)
  BY <1>2, <1>3, <1>t, RetimedKeeps
<1>5. PICK e : e = Pruned(d, now)
  OBVIOUS
<1>6. /\ Orderly(e, now, u) /\ Within(e, d)
      /\ \A j \in DOMAIN d.entries \ DOMAIN e.entries : Expired(d.entries[j], now)
  BY <1>4, <1>5, <1>t, PrunedKeeps
<1>7. PICK f : f = Capped(e, x)
  OBVIOUS
<1>8. /\ Orderly(f, now, u) /\ Within(f, e) /\ Len(f.lru) <= x
      /\ \A j \in DOMAIN e.entries \ DOMAIN f.entries :
           /\ Len(f.lru) = x
           /\ \A i \in DOMAIN f.entries : e.entries[i].seen >= e.entries[j].seen
  BY <1>6, <1>7, <1>t, CappedKeeps
<1>9. SetCache(f)
  BY <1>1, <1>3, <1>5, <1>7, <1>v, <1>w DEF Configure
<1>10. entries' = f.entries /\ lru' = f.lru
  BY <1>9 DEF SetCache
<1>11. CacheInv'
  BY <1>8, <1>9, <1>t, <1>u, <1>v, <1>w, CacheInvNext
<1>12. ASSUME NEW j \in DOMAIN e.entries
       PROVE  /\ j \in DOMAIN entries /\ j \in DOMAIN c.entries
              /\ e.entries[j] = Under(entries[j], u)
              /\ e.entries[j].seen = entries[j].seen
  <2>1. j \in DOMAIN c.entries /\ e.entries[j] = d.entries[j]
    BY <1>4, <1>6 DEF Within
  <2>2. j \in DOMAIN entries /\ c.entries[j] = entries[j]
    BY <2>1, <1>2, <1>t DEF Within
  <2>3. entries[j] \in Binding(Node)
    BY <2>2, <1>t DEF Orderly, Listed
  <2> QED BY <2>1, <2>2, <2>3, <1>4 DEF Binding, Under
<1>13. ASSUME NEW j \in DOMAIN entries'
       PROVE  /\ j \in DOMAIN e.entries /\ j \in DOMAIN entries /\ ~Expired(entries[j], now)
              /\ entries'[j] = Under(entries[j], ttl')
              /\ entries'[j].seen = entries[j].seen
  <2>1. j \in DOMAIN e.entries /\ entries'[j] = e.entries[j]
    BY <1>8, <1>10 DEF Within
  <2> QED BY <2>1, <1>2, <1>12, <1>v
<1>14. ASSUME NEW j \in DOMAIN entries \ DOMAIN entries', ~Expired(entries[j], now),
              ~Expired(Under(entries[j], ttl'), now)
       PROVE  /\ Len(lru') = max'
              /\ \A i \in DOMAIN entries' : entries'[i].seen >= entries[j].seen
  <2>1. j \in DOMAIN c.entries /\ c.entries[j] = entries[j]
    BY <1>2, <1>14, <1>t DEF Within
  <2>2. j \in DOMAIN e.entries
    BY <2>1, <1>4, <1>6, <1>14, <1>v
  <2>3. Len(f.lru) = x /\ \A i \in DOMAIN f.entries : e.entries[i].seen >= e.entries[j].seen
    BY <2>2, <1>8, <1>10
  <2>4. ASSUME NEW i \in DOMAIN entries' PROVE entries'[i].seen >= entries[j].seen
    BY <2>2, <2>3, <1>10, <1>12, <1>13
  <2> QED BY <2>3, <2>4, <1>10, <1>w
<1> QED BY <1>11, <1>13, <1>14

-----------------------------------------------------------------------------
(* The stamps of a lease: a revoked dial's lease is stale, so it fails the check of Bind. *)

Stale(p) == call[p].epoch < epoch \/ call[p].version < heap[call[p].gate].version

LeaseInv ==
  /\ \A p \in revoked : p \in Proc /\ pc[p] = "leased" /\ Stale(p)
  /\ \A p \in Proc : pc[p] = "leased" => /\ call[p].epoch <= epoch
                                         /\ call[p].version <= heap[call[p].gate].version

\* Stamps only fall behind: a step that leaves a lease alone and takes neither the
\* epoch nor the gate's version back keeps what is known of it.
LEMMA LeaseKept ==
  ASSUME GateInv, LeaseInv, NEW p \in Proc, pc[p] = "leased", call'[p] = call[p],
         epoch' \in Nat, epoch' >= epoch,
         heap'[call[p].gate].version \in Nat,
         heap'[call[p].gate].version >= heap[call[p].gate].version
  PROVE  /\ Stale(p) => Stale(p)'
         /\ call'[p].epoch <= epoch' /\ call'[p].version <= heap'[call'[p].gate].version
<1>1. /\ call[p].epoch \in Nat /\ call[p].version \in Nat /\ epoch \in Nat
      /\ call[p].epoch <= epoch /\ call[p].version <= heap[call[p].gate].version
  BY DEF GateInv, GateTypes, CallRec, LeaseInv
<1>2. call[p].gate \in Gate
  BY DEF GateInv, MapInv, CallsInUse
<1>3. heap[call[p].gate].version \in Nat
  BY <1>2 DEF GateInv, GateTypes, GateRec
<1> QED BY <1>1, <1>3 DEF Stale

\* No step takes a gate's version back while a dial refers to the gate.
LEMMA VersionsGrow ==
  ASSUME GateInv, [Next]_vars, NEW p \in Proc, pc[p] = "leased"
  PROVE  /\ heap'[call[p].gate].version \in Nat
         /\ heap'[call[p].gate].version >= heap[call[p].gate].version
<1>g. PICK g \in Gate : g = call[p].gate
  BY DEF GateInv, MapInv, CallsInUse
<1>h. heap[g] \in GateRec /\ heap[g].version \in Nat /\ heap \in [Gate -> GateRec]
  BY DEF GateInv, GateTypes, GateRec
<1>1. ASSUME NEW q \in Proc, NEW k \in Key, BeginAcquire(q, k)
      PROVE  heap'[g].version = heap[g].version
  <2>1. PICK f \in Gate :
           /\ IF gates[k] = NoGate THEN Unreferenced(f) ELSE f = gates[k]
           /\ heap' = [heap EXCEPT ![f] = IF gates[k] = NoGate THEN NewGate(1)
                                          ELSE NewRef(heap[f])]
    BY <1>1 DEF BeginAcquire
  <2>2. CASE f # g
    BY <2>1, <2>2, <1>h
  <2>3. CASE f = g
    <3>1. gates[k] # NoGate
      BY <2>1, <2>3, <1>g DEF Unreferenced
    <3>2. heap'[g] = NewRef(heap[g])
      BY <2>1, <2>3, <3>1, <1>h
    <3>3. NewRef(heap[g]).version = heap[g].version
      BY <1>h DEF NewRef, GateRec
    <3> QED BY <3>2, <3>3
  <2> QED BY <2>2, <2>3
<1>2. ASSUME NEW q \in Proc, TakeToken(q) \/ ReturnToken(q)
      PROVE  heap'[g].version = heap[g].version
  BY <1>2, <1>h DEF TakeToken, ReturnToken, GateRec
<1>3. ASSUME NEW q \in Proc, CancelWaiting(q) \/ CancelGranted(q) \/ DropReference(q)
      PROVE  heap'[g].version = heap[g].version
  BY <1>3, <1>h DEF CancelWaiting, CancelGranted, DropReference, ReleaseReference, GateRec
<1>4. ASSUME NEW k \in Key, Delete(k)
      PROVE  heap'[g].version \in Nat /\ heap'[g].version >= heap[g].version
  <2>1. \/ heap' = heap
        \/ \E f \in Gate : heap' = [heap EXCEPT ![f].version = heap[f].version + 1]
    BY <1>4 DEF Delete, GateInv, GateTypes
  <2> QED BY <2>1, <1>h DEF GateRec
<1>5. CASE heap' = heap
  BY <1>5, <1>g, <1>h
<1>6. \/ heap' = heap
      \/ \E q \in Proc, k \in Key : BeginAcquire(q, k)
      \/ \E q \in Proc : TakeToken(q) \/ ReturnToken(q)
      \/ \E q \in Proc : CancelWaiting(q) \/ CancelGranted(q) \/ DropReference(q)
      \/ \E k \in Key : Delete(k)
  BY DEF Next, vars, MakeLease, ReadBinding, Bind, BeginRelease, Clear, Configure, List, Tick,
         gateVars
<1> QED BY <1>1, <1>2, <1>3, <1>4, <1>5, <1>6, <1>g, <1>h

\* Clear moves the epoch on and nothing moves it back.
LEMMA EpochGrows ==
  ASSUME GateInv, [Next]_vars
  PROVE  epoch' \in Nat /\ epoch' >= epoch
<1>1. epoch \in Nat
  BY DEF GateInv, GateTypes
<1>2. epoch' = epoch \/ epoch' = epoch + 1
  BY DEF Next, vars, BeginAcquire, TakeToken, CancelWaiting, CancelGranted, MakeLease,
       ReadBinding,
         Bind, BeginRelease, DropReference, ReturnToken, Delete, Clear, Configure, List, Tick
<1> QED BY <1>1, <1>2

\* A dial is leased after a step because it was before, with the same stamps, or because
\* the step stamped its lease; only Delete and Clear revoke.
LEMMA LeaseSteps ==
  ASSUME GateInv, [Next]_vars, NEW p \in Proc, pc'[p] = "leased"
  PROVE  \/ pc[p] = "leased" /\ call'[p] = call[p]
         \/ MakeLease(p)
BY ZenonT(40) DEF Next, vars, BeginAcquire, TakeToken, CancelWaiting, CancelGranted, MakeLease, ReadBinding,
       Bind, BeginRelease, DropReference, ReturnToken, Delete, Clear, Configure, List, Tick,
       Goto, Return, gateVars, procVars, GateInv, GateTypes

\* Every step keeps the leases' stamps in order.
LEMMA LeaseStep ==
  ASSUME GateInv, LeaseInv, [Next]_vars
  PROVE  LeaseInv'
<1>1. ASSUME NEW p \in Proc, pc'[p] = "leased"
      PROVE  call'[p].epoch <= epoch' /\ call'[p].version <= heap'[call'[p].gate].version
  <2>1. CASE MakeLease(p)
    <3>1. /\ call'[p].epoch = epoch /\ call'[p].gate = call[p].gate
          /\ call'[p].version = heap[call[p].gate].version /\ epoch' = epoch /\ heap' = heap
      BY <2>1 DEF MakeLease, Lease, GateInv, GateTypes
    <3>2. call[p].gate \in Gate
      BY <2>1 DEF MakeLease, GateInv, MapInv, CallsInUse
    <3>3. epoch \in Nat /\ heap[call[p].gate].version \in Nat
      BY <3>2 DEF GateInv, GateTypes, GateRec
    <3> QED BY <3>1, <3>3
  <2>2. CASE pc[p] = "leased" /\ call'[p] = call[p]
    BY <2>2, EpochGrows, VersionsGrow, LeaseKept
  <2> QED BY <2>1, <2>2, <1>1, LeaseSteps
<1>2. ASSUME NEW p \in revoked, pc'[p] = "leased"
      PROVE  Stale(p)'
  <2>1. p \in Proc /\ pc[p] = "leased" /\ Stale(p)
    BY DEF LeaseInv
  <2>2. call'[p] = call[p]
    BY <1>2, <2>1, LeaseSteps DEF MakeLease
  <2> QED BY <2>1, <2>2, EpochGrows, VersionsGrow, LeaseKept
<1>3. CASE Clear
  <2> SUFFICES ASSUME NEW p \in Proc, pc[p] = "leased" PROVE Stale(p)'
    BY <1>1, <1>3 DEF Clear, LeaseInv
  <2>1. call[p].epoch \in Nat /\ call[p].epoch <= epoch /\ epoch \in Nat
    BY DEF GateInv, GateTypes, CallRec, LeaseInv
  <2>2. call' = call /\ epoch' = epoch + 1
    BY <1>3 DEF Clear
  <2> QED BY <2>1, <2>2 DEF Stale
<1>4. ASSUME NEW k \in Key, Delete(k) PROVE LeaseInv'
  <2>1. /\ pc' = pc /\ call' = call /\ gates' = gates
        /\ revoked' = revoked \cup {p \in Proc : Holds(p, k)}
    BY <1>4 DEF Delete
  <2>2. ASSUME NEW p \in Proc, Holds(p, k) PROVE Stale(p)'
    <3>1. pc[p] = "leased" /\ call[p].key = k
      BY <2>2 DEF Holds
    <3>2. PICK g \in Gate : g = call[p].gate
      BY <3>1 DEF GateInv, MapInv, CallsInUse
    <3>3. gates[k] = g /\ g # NoGate
      BY <3>1, <3>2, NullsAreFresh DEF GateInv, MapInv, CountedInMap, Counted
    <3>4. heap' = [heap EXCEPT ![g].version = heap[g].version + 1]
      BY <3>3, <1>4 DEF Delete
    <3>5. heap'[g].version = heap[g].version + 1 /\ heap[g].version \in Nat
      BY <3>4 DEF GateInv, GateTypes, GateRec
    <3>6. call[p].version \in Nat /\ call[p].version <= heap[g].version
      BY <3>1, <3>2 DEF GateInv, GateTypes, CallRec, LeaseInv
    <3>7. call'[p].version < heap'[g].version /\ call'[p].gate = g
      BY <2>1, <3>2, <3>5, <3>6
    <3> QED BY <3>7 DEF Stale
  <2>3. ASSUME NEW p \in revoked' PROVE p \in Proc /\ pc'[p] = "leased" /\ Stale(p)'
    BY <2>1, <2>2, <1>2 DEF LeaseInv, Holds
  <2> QED BY <2>3, <1>1 DEF LeaseInv
<1>5. CASE \E q \in Proc : BeginRelease(q)
  <2>1. PICK q \in Proc : pc' = [pc EXCEPT ![q] = "released"] /\ revoked' = revoked \ {q}
    BY <1>5 DEF BeginRelease, Goto
  <2>2. ASSUME NEW p \in revoked' PROVE p \in Proc /\ pc'[p] = "leased"
    BY <2>1 DEF LeaseInv, GateInv, GateTypes
  <2>3. ASSUME NEW p \in revoked' PROVE Stale(p)'
    BY <2>1, <2>2, <1>2
  <2> QED BY <2>2, <2>3, <1>1 DEF LeaseInv
<1>6. CASE revoked' = revoked /\ \A p \in Proc : pc[p] = "leased" => pc'[p] = "leased"
  BY <1>1, <1>2, <1>6 DEF LeaseInv
<1>7. \/ Clear \/ \E k \in Key : Delete(k)
      \/ \E q \in Proc : BeginRelease(q)
      \/ revoked' = revoked /\ \A p \in Proc : pc[p] = "leased" => pc'[p] = "leased"
  BY DEF Next, vars, BeginAcquire, TakeToken, CancelWaiting, CancelGranted, MakeLease,
       ReadBinding,
         Bind, DropReference, ReturnToken, Configure, List, Tick, Goto, Return, procVars,
         GateInv, GateTypes
<1> QED BY <1>3, <1>4, <1>5, <1>6, <1>7

-----------------------------------------------------------------------------
\* An empty cache with positive limits, and no leases.
LEMMA CacheInit ==
  ASSUME Init PROVE CacheInv /\ LeaseInv
<1>1. now \in Nat /\ max \in Nat \ {0} /\ ttl \in Nat \ {0}
  BY DefaultsPositive, LimitsAreNaturals DEF Init, Positive
<1>2. PICK c : c = Cache
  OBVIOUS
<1>3. c.entries = << >> /\ c.lru = << >>
  BY <1>2 DEF Init, Cache
<1>4. DOMAIN c.entries = {} /\ DOMAIN c.lru = {} /\ c.lru \in Seq(Key) /\ Len(c.lru) = 0
  BY <1>3
<1>5. Orderly(c, now, ttl)
  BY <1>4 DEF Orderly, Listed, BySeen, Aged
<1>6. CacheInv
  BY <1>1, <1>2, <1>4, <1>5 DEF CacheInv, Cache
<1>7. LeaseInv
  BY DEF Init, LeaseInv
<1> QED BY <1>6, <1>7

\* Every step keeps the cache orderly.
LEMMA CacheStep ==
  ASSUME GateInv, CacheInv, [Next]_vars
  PROVE  CacheInv'
<1>1. ASSUME NEW p \in Proc, NEW n \in Node, Bind(p, n) PROVE CacheInv'
  BY <1>1, BindCache
<1>2. ASSUME NEW k \in Key, Delete(k) PROVE CacheInv'
  BY <1>2, DeleteCache
<1>3. CASE List \/ \E p \in Proc : ReadBinding(p)
  BY <1>3, AgeingCache
<1>4. ASSUME NEW l \in Limits, Configure(l[1], l[2]) PROVE CacheInv'
  <2>1. l[1] \in Nat /\ l[2] \in Nat
    BY LimitsAreNaturals
  <2> QED BY <2>1, <1>4, ConfigureCache
<1>5. CASE Clear
  <2>1. PICK d : d = [entries |-> << >>, lru |-> << >>]
    OBVIOUS
  <2>2. DOMAIN d.entries = {} /\ DOMAIN d.lru = {} /\ d.lru \in Seq(Key) /\ Len(d.lru) = 0
    BY <2>1
  <2>3. SetCache(d) /\ now' = now /\ max' = max /\ ttl' = ttl
    BY <2>1, <1>5 DEF Clear, SetCache, limitVars
  <2>4. Orderly(d, now, ttl)
    BY <2>2 DEF Orderly, Listed, BySeen, Aged
  <2>5. Len(d.lru) <= max
    BY <2>2 DEF CacheInv
  <2> QED BY <2>3, <2>4, <2>5, CacheInvNext DEF CacheInv
<1>6. CASE UNCHANGED <<entries, lru, max, ttl>> /\ (now' = now \/ now' = now + 1)
  <2>1. now' \in Nat /\ now' >= now
    BY <1>6 DEF CacheInv
  <2> QED BY <2>1, <1>6, KeepCache
<1>7. \/ \E p \in Proc, n \in Node : Bind(p, n)
      \/ \E k \in Key : Delete(k)
      \/ List \/ \E p \in Proc : ReadBinding(p)
      \/ \E l \in Limits : Configure(l[1], l[2])
      \/ Clear
      \/ UNCHANGED <<entries, lru, max, ttl>> /\ (now' = now \/ now' = now + 1)
  BY DEF Next, vars, BeginAcquire, TakeToken, CancelWaiting, CancelGranted, MakeLease,
         BeginRelease, DropReference, ReturnToken, Tick, cacheVars, limitVars
<1> QED BY <1>1, <1>2, <1>3, <1>4, <1>5, <1>6, <1>7

\* The inductive invariant of the store.
StoreInv == GateInv /\ CacheInv /\ LeaseInv

\* StoreInv holds in every reachable state of the store.
THEOREM StoreSound == Spec => []StoreInv
<1>1. Init => StoreInv
  BY GateInit, CacheInit DEF StoreInv
<1>2. StoreInv /\ [Next]_vars => StoreInv'
  BY GateStep, CacheStep, LeaseStep DEF StoreInv
<1> QED BY <1>1, <1>2, PTL DEF Spec

\* Map and list agree, the capacity is kept, and the list is in order of expiry, across
\* every TTL Configure sets (pruneLocked, enforceCapacityLocked).
THEOREM CacheIsSound == Spec => []CacheSound
<1>1. StoreInv => CacheSound
  <2> SUFFICES ASSUME StoreInv PROVE CacheSound
    OBVIOUS
  <2>1. PICK c : c = Cache
    OBVIOUS
  <2>2. c.entries = entries /\ c.lru = lru
    BY <2>1 DEF Cache
  <2>3. Orderly(c, now, ttl) /\ ttl \in Nat
    BY <2>1 DEF StoreInv, CacheInv
  <2>4. TypeOK
    <3>1. gates \in [Key -> Gate \cup {NoGate}] /\ pc \in [Proc -> Stage] /\ epoch \in Nat
      BY DEF StoreInv, GateInv, GateTypes
    <3>2. heap \in [Gate -> [token : BOOLEAN, refs : Nat, version : Nat]]
      BY DEF StoreInv, GateInv, GateTypes, GateRec
    <3>3. call \in [Proc -> [key : Key \cup {NoKey}, gate : Gate \cup {NoGate},
                             version : Nat, epoch : Nat]]
      BY DEF StoreInv, GateInv, GateTypes, CallRec
    <3>4. max \in Nat \ {0} /\ ttl \in Nat \ {0} /\ now \in Nat
      BY DEF StoreInv, CacheInv
    <3>5. revoked \subseteq Proc
      BY DEF StoreInv, LeaseInv
    <3>6. /\ DOMAIN entries \subseteq Key /\ \A k \in DOMAIN entries : entries[k] \in Binding(Node)
          /\ lru \in Seq(Key)
      BY <2>2, <2>3 DEF Orderly, Listed
    <3> QED BY <3>1, <3>2, <3>3, <3>4, <3>5, <3>6 DEF TypeOK
  <2>5. CacheBounded
    <3>1. Len(lru) <= max
      BY DEF StoreInv, CacheInv
    <3> QED BY <3>1, <2>2, <2>3 DEF CacheBounded, Orderly, Listed
  <2>6. LruIsExpiryOrder
    <3> SUFFICES ASSUME NEW i \in DOMAIN lru, NEW j \in DOMAIN lru, i < j
                 PROVE  entries[lru[j]].expires <= entries[lru[i]].expires
      BY DEF LruIsExpiryOrder
    <3>1. lru[i] \in DOMAIN entries /\ lru[j] \in DOMAIN entries
      BY <2>2, <2>3, ListedIndex, SMTT(40) DEF Orderly
    <3>2. entries[lru[j]].seen <= entries[lru[i]].seen
      BY <2>2, <2>3 DEF Orderly, BySeen
    <3>3. /\ entries[lru[i]].expires = entries[lru[i]].seen + ttl
          /\ entries[lru[j]].expires = entries[lru[j]].seen + ttl
          /\ entries[lru[i]].seen \in Nat /\ entries[lru[j]].seen \in Nat
      BY <3>1, <2>2, <2>3 DEF Orderly, Aged, Listed, Binding
    <3> QED BY <3>2, <3>3, <2>3
  <2> QED BY <2>4, <2>5, <2>6 DEF CacheSound
<1> QED BY <1>1, StoreSound, PTL

\* Only a Bind revives a session, and a live binding is lost to the operator, to a new
\* TTL, or at the capacity as a least recently used one (Bind, Configure, pruneLocked).
THEOREM BindingsAgeWell == Spec => BindingsAge
<1>1. StoreInv /\ [Next]_vars => [ExpiredStaysDead /\ EvictionIsLRU]_vars
  <2> SUFFICES ASSUME StoreInv, Next
               PROVE  ExpiredStaysDead /\ EvictionIsLRU
    OBVIOUS
  <2>i. GateInv /\ CacheInv
    BY DEF StoreInv
  <2>1. CASE entries' = entries
    BY <2>1 DEF ExpiredStaysDead, EvictionIsLRU
  <2>2. ASSUME NEW p \in Proc, NEW n \in Node, Bind(p, n)
        PROVE  ExpiredStaysDead /\ EvictionIsLRU
    <3>1. PICK k : k = call[p].key
      OBVIOUS
    <3>2. /\ entries'[k] = [node |-> n, seen |-> now, expires |-> now + ttl]
          /\ \A j \in DOMAIN entries' \ {k} : entries'[j] = entries[j]
          /\ \A j \in DOMAIN entries \ DOMAIN entries' :
               \/ Expired(entries[j], now)
               \/ /\ Len(lru') = max'
                  /\ \A i \in DOMAIN entries' : entries'[i].seen >= entries[j].seen
      BY <3>1, <2>2, <2>i, BindCache
    <3>3. ~Expired(entries'[k], now)
      <4>1. entries'[k].expires = now + ttl
        BY <3>2
      <4>2. now < now + ttl
        BY <2>i DEF CacheInv
      <4> QED BY <4>1, <4>2 DEF Expired
    <3>4. entries'[k].seen = now
      BY <3>2
    <3>5. ASSUME NEW j \in DOMAIN entries \cap DOMAIN entries', Expired(entries[j], now),
                 entries'[j].seen = entries[j].seen
          PROVE  Expired(entries'[j], now)
      <4>1. CASE j = k
        <5>1. PICK c : c = Cache
          OBVIOUS
        <5>2. c.entries = entries /\ Orderly(c, now, ttl) /\ now \in Nat /\ ttl \in Nat \ {0}
          BY <5>1, <2>i DEF Cache, CacheInv
        <5>3. entries[j].expires = entries[j].seen + ttl
          BY <5>2 DEF Orderly, Aged
        <5>4. entries[j].seen = now
          BY <4>1, <3>4, <3>5
        <5> QED BY <5>2, <5>3, <5>4, <3>5 DEF Expired
      <4>2. CASE j # k
        BY <4>2, <3>2, <3>5
      <4> QED BY <4>1, <4>2
    <3> QED BY <3>2, <3>5 DEF ExpiredStaysDead, EvictionIsLRU
  <2>3. ASSUME NEW k \in Key, Delete(k) PROVE ExpiredStaysDead /\ EvictionIsLRU
    <3>1. /\ DOMAIN entries' \subseteq DOMAIN entries \ {k}
          /\ \A j \in DOMAIN entries' : entries'[j] = entries[j]
          /\ \A j \in DOMAIN entries \ DOMAIN entries' : j = k \/ Expired(entries[j], now)
      BY <2>3, <2>i, DeleteCache
    <3>2. \A j \in DOMAIN entries \ DOMAIN entries' : Delete(j) \/ Expired(entries[j], now)
      BY <3>1, <2>3
    <3> QED BY <3>1, <3>2 DEF ExpiredStaysDead, EvictionIsLRU
  <2>4. CASE List \/ \E p \in Proc : ReadBinding(p)
    <3>1. /\ DOMAIN entries' \subseteq DOMAIN entries
          /\ \A j \in DOMAIN entries' : entries'[j] = entries[j]
          /\ \A j \in DOMAIN entries \ DOMAIN entries' : Expired(entries[j], now)
      BY <2>4, <2>i, AgeingCache
    <3> QED BY <3>1 DEF ExpiredStaysDead, EvictionIsLRU
  <2>5. ASSUME NEW l \in Limits, Configure(l[1], l[2])
        PROVE  ExpiredStaysDead /\ EvictionIsLRU
    <3>1. l[1] \in Nat /\ l[2] \in Nat
      BY LimitsAreNaturals
    <3>2. /\ \A j \in DOMAIN entries' : ~Expired(entries[j], now)
          /\ \A j \in DOMAIN entries \ DOMAIN entries' :
               \/ Expired(entries[j], now)
               \/ Expired(Under(entries[j], ttl'), now)
               \/ /\ Len(lru') = max'
                  /\ \A i \in DOMAIN entries' : entries'[i].seen >= entries[j].seen
      BY <3>1, <2>5, <2>i, ConfigureCache
    <3>3. ExpiredStaysDead
      BY <3>2 DEF ExpiredStaysDead
    <3>4. EvictionIsLRU
      BY <3>2 DEF EvictionIsLRU, Under
    <3> QED BY <3>3, <3>4
  <2>6. CASE Clear
    <3>1. DOMAIN entries' = {}
      BY <2>6 DEF Clear
    <3> QED BY <3>1, <2>6 DEF ExpiredStaysDead, EvictionIsLRU
  <2>7. \/ \E p \in Proc, n \in Node : Bind(p, n)
        \/ \E k \in Key : Delete(k)
        \/ List \/ \E p \in Proc : ReadBinding(p)
        \/ \E l \in Limits : Configure(l[1], l[2])
        \/ Clear
        \/ entries' = entries
    BY DEF Next, BeginAcquire, TakeToken, CancelWaiting, CancelGranted, MakeLease,
           BeginRelease, DropReference, ReturnToken, Tick, cacheVars
  <2> QED BY <2>1, <2>2, <2>3, <2>4, <2>5, <2>6, <2>7
<1> QED BY <1>1, StoreSound, PTL DEF Spec, BindingsAge

-----------------------------------------------------------------------------
(* The refinement of SessionPromise: one lemma per step it sees. *)

OwnedNow == [p \in Proc |-> IF pc[p] = "leased" THEN call[p].key ELSE NoKey]
PinnedNow == [k \in Key |-> IF k \in DOMAIN entries THEN entries[k].node ELSE NoNode]

\* What is forgotten in the cache is forgotten in the promise.
LEMMA ForgettingIsForgotten ==
  ASSUME DOMAIN entries' \subseteq DOMAIN entries,
         \A k \in DOMAIN entries' : entries'[k].node = entries[k].node
  PROVE  Promise!Forgotten(PinnedNow')
<1>1. DOMAIN PinnedNow' = Key
  BY DEF PinnedNow
<1>2. \A k \in Key : PinnedNow'[k] \in {PinnedNow[k], NoNode}
  BY DEF PinnedNow
<1> QED BY <1>1, <1>2 DEF Promise!Forgotten, PinnedNow

\* An empty store promises nothing yet.
LEMMA PromiseInit ==
  ASSUME Init PROVE Promise!Init
BY DEF Init, Promise!Init

\* Stamping a lease grants a session nobody owns.
LEMMA MakeLeaseGrants ==
  ASSUME StoreInv, NEW p \in Proc, MakeLease(p)
  PROVE  \E k \in Key : Promise!Grant(p, k)
<1>1. PICK k \in Key : k = call[p].key
  BY DEF MakeLease, StoreInv, GateInv, MapInv, CallsInUse
<1>2. /\ pc[p] = "granted" /\ pc' = [pc EXCEPT ![p] = "leased"]
      /\ entries' = entries /\ revoked' = revoked
  BY DEF MakeLease, Goto, cacheVars
<1>3. call'[p].key = k /\ \A q \in Proc \ {p} : call'[q] = call[q]
  BY <1>1 DEF MakeLease, Lease, StoreInv, GateInv, GateTypes
<1>4. pc'[p] = "leased" /\ \A q \in Proc \ {p} : pc'[q] = pc[q]
  BY <1>2 DEF StoreInv, GateInv, GateTypes
<1>5. OwnedNow[p] = NoKey
  BY <1>2 DEF OwnedNow
<1>6. \A q \in Proc : OwnedNow[q] # k
  <2> SUFFICES ASSUME NEW q \in Proc, pc[q] = "leased", call[q].key = k PROVE FALSE
    BY NullsAreFresh DEF OwnedNow
  <2>1. call[q].gate = call[p].gate
    BY <1>1, <1>2 DEF StoreInv, GateInv, MapInv, CountedInMap, Counted
  <2>2. p = q
    BY <2>1, <1>2 DEF StoreInv, GateInv, TokenInv, TokenTakenOnce, Holding
  <2> QED BY <2>2, <1>2
<1>7. OwnedNow' = [OwnedNow EXCEPT ![p] = k]
  <2>1. ASSUME NEW q \in Proc PROVE OwnedNow'[q] = [OwnedNow EXCEPT ![p] = k][q]
    BY <1>3, <1>4 DEF OwnedNow
  <2> QED BY <2>1 DEF OwnedNow
<1>8. PinnedNow' = PinnedNow
  BY <1>2 DEF PinnedNow
<1> QED BY <1>2, <1>5, <1>6, <1>7, <1>8 DEF Promise!Grant, OwnedNow, PinnedNow

\* Bind commits for its owner, whose lease the stamp check shows not to be revoked.
LEMMA BindCommits ==
  ASSUME StoreInv, NEW p \in Proc, NEW n \in Node, Bind(p, n)
  PROVE  \E k \in Key : Promise!Commit(p, k, n)
<1>1. PICK k \in Key : k = call[p].key
  BY DEF Bind, Current, StoreInv, GateInv, MapInv, CallsInUse
<1>2. /\ pc[p] = "leased" /\ pc' = pc /\ call' = call /\ revoked' = revoked
  BY DEF Bind, Current, procVars
<1>3. /\ k \in DOMAIN entries'
      /\ entries'[k] = [node |-> n, seen |-> now, expires |-> now + ttl]
      /\ \A j \in DOMAIN entries' \ {k} : j \in DOMAIN entries /\ entries'[j] = entries[j]
  BY <1>1, BindCache DEF StoreInv
<1>4. OwnedNow[p] = k /\ OwnedNow' = OwnedNow
  BY <1>1, <1>2 DEF OwnedNow
<1>5. p \notin revoked
  <2>1. call[p].epoch = epoch /\ call[p].version = heap[call[p].gate].version
    BY DEF Bind, Current
  <2>2. call[p].epoch \in Nat /\ call[p].version \in Nat
    BY DEF StoreInv, GateInv, GateTypes, CallRec
  <2>3. ~Stale(p)
    BY <2>1, <2>2 DEF Stale
  <2> QED BY <2>3 DEF StoreInv, LeaseInv
<1>6. PinnedNow'[k] = n
  BY <1>3 DEF PinnedNow
<1>7. Promise!Forgotten([PinnedNow' EXCEPT ![k] = PinnedNow[k]])
  <2>1. DOMAIN [PinnedNow' EXCEPT ![k] = PinnedNow[k]] = Key
    BY DEF PinnedNow
  <2>2. \A j \in Key : [PinnedNow' EXCEPT ![k] = PinnedNow[k]][j] \in {PinnedNow[j], NoNode}
    BY <1>3 DEF PinnedNow
  <2> QED BY <2>1, <2>2 DEF Promise!Forgotten, PinnedNow
<1> QED BY <1>2, <1>4, <1>5, <1>6, <1>7 DEF Promise!Commit, OwnedNow, PinnedNow

\* The `released` mark gives the session up.
LEMMA ReleaseGivesUp ==
  ASSUME StoreInv, NEW p \in Proc, BeginRelease(p)
  PROVE  Promise!GiveUp(p)
<1>1. /\ pc[p] = "leased" /\ pc' = [pc EXCEPT ![p] = "released"] /\ call' = call
      /\ entries' = entries /\ revoked' = revoked \ {p}
  BY DEF BeginRelease, Goto, cacheVars
<1>2. OwnedNow[p] # NoKey
  BY <1>1, NullsAreFresh DEF OwnedNow, StoreInv, GateInv, MapInv, CallsInUse
<1>3. OwnedNow' = [OwnedNow EXCEPT ![p] = NoKey]
  BY <1>1 DEF OwnedNow, StoreInv, GateInv, GateTypes
<1>4. PinnedNow' = PinnedNow
  BY <1>1 DEF PinnedNow
<1> QED BY <1>1, <1>2, <1>3, <1>4 DEF Promise!GiveUp, OwnedNow, PinnedNow

\* Delete unbinds and revokes whoever owns the session.
LEMMA DeleteUnbinds ==
  ASSUME StoreInv, NEW k \in Key, Delete(k)
  PROVE  Promise!Unbind(k)
<1>1. /\ pc' = pc /\ call' = call /\ revoked' = revoked \cup {p \in Proc : Holds(p, k)}
  BY DEF Delete
<1>2. /\ DOMAIN entries' \subseteq DOMAIN entries \ {k}
      /\ \A j \in DOMAIN entries' : entries'[j] = entries[j]
  BY DeleteCache DEF StoreInv
<1>3. {p \in Proc : Holds(p, k)} = {p \in Proc : OwnedNow[p] = k}
  BY NullsAreFresh DEF OwnedNow, Holds
<1>4. OwnedNow' = OwnedNow
  BY <1>1 DEF OwnedNow
<1>5. PinnedNow'[k] = NoNode
  BY <1>2 DEF PinnedNow
<1>6. Promise!Forgotten(PinnedNow')
  BY <1>2, ForgettingIsForgotten
<1> QED BY <1>1, <1>3, <1>4, <1>5, <1>6 DEF Promise!Unbind, OwnedNow, PinnedNow

\* Clear unbinds everything and revokes every owner.
LEMMA ClearUnbindsAll ==
  ASSUME StoreInv, Clear
  PROVE  Promise!UnbindAll
<1>1. /\ pc' = pc /\ call' = call /\ revoked' = {p \in Proc : pc[p] = "leased"}
      /\ DOMAIN entries' = {}
  BY DEF Clear
<1>2. \A p \in Proc : pc[p] = "leased" <=> OwnedNow[p] # NoKey
  BY NullsAreFresh DEF OwnedNow, StoreInv, GateInv, MapInv, CallsInUse
<1>3. OwnedNow' = OwnedNow
  BY <1>1 DEF OwnedNow
<1>4. PinnedNow' = [k \in Key |-> NoNode]
  BY <1>1 DEF PinnedNow
<1>5. revoked' = {p \in Proc : OwnedNow[p] # NoKey}
  BY <1>1, <1>2
<1> QED BY <1>3, <1>4, <1>5 DEF Promise!UnbindAll, OwnedNow, PinnedNow

\* List, Binding's expiry and Configure forget bindings and do nothing else.
LEMMA AgeingForgets ==
  ASSUME StoreInv,
         \/ List \/ \E p \in Proc : ReadBinding(p)
         \/ \E l \in Limits : Configure(l[1], l[2])
  PROVE  Promise!Forget
<1>1. pc' = pc /\ call' = call /\ revoked' = revoked
  BY DEF List, ReadBinding, Configure, procVars
<1>2. OwnedNow' = OwnedNow
  BY <1>1 DEF OwnedNow
<1>3. /\ DOMAIN entries' \subseteq DOMAIN entries
      /\ \A k \in DOMAIN entries' : entries'[k].node = entries[k].node
  <2>1. CASE List \/ \E p \in Proc : ReadBinding(p)
    BY <2>1, AgeingCache DEF StoreInv
  <2>2. CASE \E l \in Limits : Configure(l[1], l[2])
    <3>1. PICK l \in Limits : Configure(l[1], l[2])
      BY <2>2
    <3>2. l[1] \in Nat /\ l[2] \in Nat
      BY LimitsAreNaturals
    <3>3. \A j \in DOMAIN entries' : /\ j \in DOMAIN entries
                                     /\ entries'[j] = Under(entries[j], ttl')
      BY <3>1, <3>2, ConfigureCache DEF StoreInv
    <3>4. \A j \in DOMAIN entries : entries[j] \in Binding(Node)
      BY DEF StoreInv, CacheInv, Orderly, Listed, Cache
    <3>5. ASSUME NEW b \in Binding(Node), NEW u PROVE Under(b, u).node = b.node
      BY DEF Under, Binding
    <3> QED BY <3>3, <3>4, <3>5
  <2> QED BY <2>1, <2>2
<1>4. Promise!Forgotten(PinnedNow')
  BY <1>3, ForgettingIsForgotten
<1> QED BY <1>1, <1>2, <1>4 DEF Promise!Forget, OwnedNow, PinnedNow

\* The other steps are invisible to the promise.
LEMMA QuietSteps ==
  ASSUME StoreInv, entries' = entries, revoked' = revoked,
         \A p \in Proc : /\ pc'[p] = "leased" <=> pc[p] = "leased"
                         /\ pc[p] = "leased" => call'[p] = call[p]
  PROVE  UNCHANGED Promise!promiseVars
<1>1. OwnedNow' = OwnedNow
  BY DEF OwnedNow
<1>2. PinnedNow' = PinnedNow
  BY DEF PinnedNow
<1> QED BY <1>1, <1>2 DEF Promise!promiseVars, OwnedNow, PinnedNow

\* The store implements SessionPromise: owners are exclusive, an owner revoked by Delete
\* or Clear commits nothing more, and bindings are forgotten but never invented.
THEOREM StoreKeepsPromise == Spec => ImplementsPromise
<1>1. Init => Promise!Init
  BY PromiseInit
<1>2. StoreInv /\ [Next]_vars => [Promise!Next]_(Promise!promiseVars)
  <2> SUFFICES ASSUME StoreInv, [Next]_vars
               PROVE  Promise!Next \/ UNCHANGED Promise!promiseVars
    OBVIOUS
  <2>1. ASSUME NEW p \in Proc, MakeLease(p) PROVE Promise!Next
    BY <2>1, MakeLeaseGrants DEF Promise!Next
  <2>2. ASSUME NEW p \in Proc, NEW n \in Node, Bind(p, n) PROVE Promise!Next
    BY <2>2, BindCommits DEF Promise!Next
  <2>3. ASSUME NEW p \in Proc, BeginRelease(p) PROVE Promise!Next
    BY <2>3, ReleaseGivesUp DEF Promise!Next
  <2>4. ASSUME NEW k \in Key, Delete(k) PROVE Promise!Next
    BY <2>4, DeleteUnbinds DEF Promise!Next
  <2>5. CASE Clear
    BY <2>5, ClearUnbindsAll DEF Promise!Next
  <2>6. CASE \/ List \/ \E p \in Proc : ReadBinding(p)
             \/ \E l \in Limits : Configure(l[1], l[2])
    BY <2>6, AgeingForgets DEF Promise!Next
  <2>7. CASE /\ entries' = entries /\ revoked' = revoked
             /\ \A p \in Proc : /\ pc'[p] = "leased" <=> pc[p] = "leased"
                                /\ pc[p] = "leased" => call'[p] = call[p]
    BY <2>7, QuietSteps
  <2>8. \/ \E p \in Proc : MakeLease(p)
        \/ \E p \in Proc, n \in Node : Bind(p, n)
        \/ \E p \in Proc : BeginRelease(p)
        \/ \E k \in Key : Delete(k)
        \/ Clear
        \/ List \/ \E p \in Proc : ReadBinding(p)
        \/ \E l \in Limits : Configure(l[1], l[2])
        \/ /\ entries' = entries /\ revoked' = revoked
           /\ \A p \in Proc : /\ pc'[p] = "leased" <=> pc[p] = "leased"
                              /\ pc[p] = "leased" => call'[p] = call[p]
    BY ZenonT(40) DEF Next, vars, BeginAcquire, TakeToken, CancelWaiting, CancelGranted, DropReference,
           ReturnToken, Tick, Goto, Return, procVars, cacheVars, StoreInv, GateInv, GateTypes
  <2> QED BY <2>1, <2>2, <2>3, <2>4, <2>5, <2>6, <2>7, <2>8
<1> QED BY <1>1, <1>2, StoreSound, PTL DEF Spec, ImplementsPromise, Promise!Spec
=============================================================================
