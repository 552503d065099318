--------------------------- MODULE SessionPromise ---------------------------
(***************************************************************************)
(* What internal/routing promises to the dialing code and to the operator, *)
(* with no gate, version, epoch, clock or LRU list in sight:               *)
(*                                                                         *)
(*   - at most one dial at a time owns a named session;                    *)
(*   - only the owner moves the session to another node;                   *)
(*   - an administrative unbind revokes the owner it finds, and a revoked  *)
(*     owner commits nothing any more;                                     *)
(*   - bindings may be forgotten (idle expiry, capacity) but never invented.*)
(*                                                                         *)
(* SessionStore is shown to implement this specification.                  *)
(***************************************************************************)
CONSTANTS Key,      \* session names
          Proc,     \* dialing goroutines
          Node,     \* stable node identities
          NoKey,    \* "owns no session"
          NoNode    \* "session not bound"

VARIABLES owned,    \* owned[p]: the session p's dial owns, or NoKey
          revoked,  \* the owners whose dial may no longer commit
          pinned    \* pinned[k]: the node k is bound to, or NoNode

promiseVars == <<owned, revoked, pinned>>

Init ==
  /\ owned = [p \in Proc |-> NoKey]
  /\ revoked = {}
  /\ pinned = [k \in Key |-> NoNode]

\* next keeps a sub-map of pinned: bindings were forgotten, none changed.
Forgotten(next) ==
  /\ DOMAIN next = Key
  /\ \A k \in Key : next[k] \in {pinned[k], NoNode}

Grant(p, k) ==
  /\ owned[p] = NoKey
  /\ \A q \in Proc : owned[q] # k
  /\ owned' = [owned EXCEPT ![p] = k]
  /\ UNCHANGED <<revoked, pinned>>

Commit(p, k, n) ==
  /\ owned[p] = k
  /\ p \notin revoked
  /\ pinned'[k] = n
  /\ Forgotten([pinned' EXCEPT ![k] = pinned[k]])
  /\ UNCHANGED <<owned, revoked>>

GiveUp(p) ==
  /\ owned[p] # NoKey
  /\ owned' = [owned EXCEPT ![p] = NoKey]
  /\ revoked' = revoked \ {p}
  /\ UNCHANGED pinned

Unbind(k) ==
  /\ pinned'[k] = NoNode
  /\ Forgotten(pinned')
  /\ revoked' = revoked \cup {p \in Proc : owned[p] = k}
  /\ UNCHANGED owned

UnbindAll ==
  /\ pinned' = [k \in Key |-> NoNode]
  /\ revoked' = {p \in Proc : owned[p] # NoKey}
  /\ UNCHANGED owned

Forget ==
  /\ Forgotten(pinned')
  /\ UNCHANGED <<owned, revoked>>

Next ==
  \/ \E p \in Proc, k \in Key : Grant(p, k)
  \/ \E p \in Proc, k \in Key, n \in Node : Commit(p, k, n)
  \/ \E p \in Proc : GiveUp(p)
  \/ \E k \in Key : Unbind(k)
  \/ UnbindAll
  \/ Forget

Spec == Init /\ [][Next]_promiseVars
=============================================================================
