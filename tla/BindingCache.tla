---------------------------- MODULE BindingCache ----------------------------
(***************************************************************************)
(* The binding cache of internal/routing/store.go as pure functions: a map *)
(* from session keys to bindings and an intrusive LRU list of the same     *)
(* keys, most recently used first.  A cache is a record [entries, lru].    *)
(* Binding keeps the fields the store decides on (node, last seen, expiry);*)
(* tag, name, switch count and reason are display data.                    *)
(***************************************************************************)
EXTENDS Naturals, Sequences

Binding(Node) == [node : Node, seen : Nat, expires : Nat]

Expired(b, t) == ~(t < b.expires)

\* removeLocked for every list element behind the first n.
Drop(c, n) ==
  LET dead == {c.lru[i] : i \in n+1 .. Len(c.lru)}
  IN  [entries |-> [k \in DOMAIN c.entries \ dead |-> c.entries[k]],
       lru |-> SubSeq(c.lru, 1, n)]

\* pruneLocked: drop from the back until the back entry is live.
Pruned(c, t) ==
  LET live == {i \in 1 .. Len(c.lru) : ~Expired(c.entries[c.lru[i]], t)}
  IN  Drop(c, IF live = {} THEN 0
              ELSE CHOOSE i \in live : \A j \in live : j <= i)

\* Seeded fault: evict from the front of the list.
CappedFromFront(c, m) ==
  IF Len(c.lru) > m
  THEN LET dead == {c.lru[i] : i \in 1 .. Len(c.lru) - m}
       IN  [entries |-> [k \in DOMAIN c.entries \ dead |-> c.entries[k]],
            lru |-> SubSeq(c.lru, Len(c.lru) - m + 1, Len(c.lru))]
  ELSE c

\* enforceCapacityLocked: drop from the back down to m entries.
Capped(c, m) == IF Len(c.lru) > m THEN Drop(c, m) ELSE c

\* list.Remove of k's element, if k has one.
Unlinked(l, k) ==
  IF \E i \in 1 .. Len(l) : l[i] = k
  THEN LET at == CHOOSE i \in 1 .. Len(l) : l[i] = k
       IN  [i \in 1 .. Len(l) - 1 |-> IF i < at THEN l[i] ELSE l[i + 1]]
  ELSE l

\* removeLocked.
Removed(c, k) ==
  [entries |-> [j \in DOMAIN c.entries \ {k} |-> c.entries[j]],
   lru |-> Unlinked(c.lru, k)]

\* Seeded fault: a renewed entry is not moved to the front.
TouchedInPlace(c, k, b) ==
  [entries |-> [j \in DOMAIN c.entries \cup {k} |-> IF j = k THEN b ELSE c.entries[j]],
   lru |-> IF k \in DOMAIN c.entries THEN c.lru ELSE <<k>> \o c.lru]

\* PushFront or MoveToFront of k, whose binding becomes b.
Touched(c, k, b) ==
  [entries |-> [j \in DOMAIN c.entries \cup {k} |-> IF j = k THEN b ELSE c.entries[j]],
   lru |-> <<k>> \o Unlinked(c.lru, k)]

\* The expiry recomputation of Configure for a new idle TTL t.
Retimed(c, t) ==
  [entries |-> [k \in DOMAIN c.entries |->
                  [c.entries[k] EXCEPT !.expires = c.entries[k].seen + t]],
   lru |-> c.lru]
=============================================================================
