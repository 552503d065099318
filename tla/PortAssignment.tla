--------------------------- MODULE PortAssignment ---------------------------
(***************************************************************************)
(* config/config.go and config/ports.go: how every node of multi-port and  *)
(* hybrid mode gets a listener port that no other listener uses, keeping   *)
(* the port it had before.  The code walks the node list with a cursor and *)
(* a set of used ports; here each pass is the assignment it computes.  A   *)
(* pass that returns an error yields the empty list, which no successful   *)
(* normalization yields.                                                   *)
(*                                                                         *)
(* A node is its URI (which stands for its name as well), its port (0 when *)
(* it has none) and its source.  KeyOf is stableNodeKey: URIs that differ  *)
(* in the display name only share a key.                                   *)
(***************************************************************************)
EXTENDS Naturals, Sequences, FiniteSets

CONSTANTS URI, KeyOf,          \* proxy URIs and the identity of each
          BasePort, MaxPort,   \* multi_port.base_port; 65535
          ListenerPort,        \* listener.port
          StickyEnabled, StickyPort,   \* sticky.enabled and sticky.port, 0 when unset
          ManagementPort, ClashPort,   \* the port of management.listen, and 9092
          GeoEnabled, GeoPort, \* geoip.enabled and geoip.port, 0 when unset
          GeoDefault           \* 1221

ASSUME PortConstants ==
  /\ MaxPort \in Nat \ {0} /\ BasePort \in 1..MaxPort
  /\ {ListenerPort, ManagementPort, ClashPort, GeoDefault} \subseteq 1..MaxPort
  /\ {StickyPort, GeoPort} \subseteq 0..MaxPort
  /\ {StickyEnabled, GeoEnabled} \subseteq BOOLEAN
  /\ DOMAIN KeyOf = URI

Identity == {KeyOf[u] : u \in URI}
Port == 1..MaxPort
Mode == {"pool", "multi-port", "hybrid"}
Source == {"inline", "file", "subscription"}
Node == [uri : URI, port : 0..MaxPort, src : Source]

Key(n) == KeyOf[n.uri]
MultiPort(mode) == mode \in {"multi-port", "hybrid"}
PoolEntry(mode) == mode \in {"pool", "hybrid"}

Ports(ns) == {ns[i].port : i \in DOMAIN ns} \ {0}
WithPorts(ns, port) == [i \in DOMAIN ns |-> [ns[i] EXCEPT !.port = port[i]]]

StickyListen == IF StickyPort = 0 /\ ListenerPort < MaxPort THEN ListenerPort + 1
                                                            ELSE StickyPort

GeoListen ==
  LET p == IF GeoPort = 0 THEN GeoDefault ELSE GeoPort
  IN  CASE p # ListenerPort -> p
        [] p = ListenerPort /\ GeoDefault # ListenerPort -> GeoDefault
        [] OTHER -> GeoDefault + 1

\* The ports of the other listeners, which no node may use.
reservedListenerPorts(mode) ==
  (IF PoolEntry(mode)
     THEN {ListenerPort} \cup (IF StickyEnabled THEN {StickyListen} \ {0} ELSE {})
     ELSE {})
  \cup {ManagementPort, ClashPort}
  \cup (IF GeoEnabled THEN {GeoListen} ELSE {})

-----------------------------------------------------------------------------
(* The cursor: the n-th node in S takes the n-th smallest port of free. *)

Rank(S, x) == Cardinality({y \in S : y <= x})

\* The entries of s at the positions S, in their order.
Chosen(s, S) == [n \in 1..Cardinality(S) |-> s[CHOOSE i \in S : Rank(S, i) = n]]

Enough(S, free) == \A i \in S : \E p \in free : Rank(free, p) = Rank(S, i)
Nth(S, free, i) == CHOOSE p \in free : Rank(free, p) = Rank(S, i)

Fill(ns, S, free) ==
  WithPorts(ns, [i \in DOMAIN ns |-> IF i \in S THEN Nth(S, free, i) ELSE ns[i].port])

\* A cursor that stops silently at the end leaves the remaining nodes without a port.
FillSome(ns, S, free) == Fill(ns, {i \in S : Rank(S, i) <= Cardinality(free)}, free)

Unassigned(ns) == {i \in DOMAIN ns : ns[i].port = 0}
Cursor == BasePort..MaxPort

-----------------------------------------------------------------------------
(* NormalizeWithPortMap. *)

\* Seeded fault: ports are looked up by the whole URI, as before stable keys.
MappedByURI(ns, saved, i) == IF ns[i].uri \in DOMAIN saved THEN saved[ns[i].uri] ELSE 0

Mapped(ns, saved, i) == IF Key(ns[i]) \in DOMAIN saved THEN saved[Key(ns[i])] ELSE 0

\* Seeded fault: two nodes with one identity both keep its port.
PreservedTwice(ns, saved, reserved) ==
  {i \in DOMAIN ns : Mapped(ns, saved, i) \notin reserved \cup {0}}

\* A saved port goes to the first node that has it, unless a listener owns it.
Preserved(ns, saved, reserved) ==
  {i \in DOMAIN ns : /\ Mapped(ns, saved, i) # 0
                     /\ Mapped(ns, saved, i) \notin reserved
                     /\ \A j \in 1..(i - 1) : Mapped(ns, saved, j) # Mapped(ns, saved, i)}

\* The first pass: any other node with a saved port has to find a new one.
Restore(ns, saved, reserved) ==
  WithPorts(ns, [i \in DOMAIN ns |->
    IF i \in Preserved(ns, saved, reserved) THEN Mapped(ns, saved, i)
    ELSE IF Mapped(ns, saved, i) # 0 THEN 0 ELSE ns[i].port])

\* The second pass refuses an explicit port that any other listener has.
Conflict(ns, kept, reserved) ==
  \E i \in DOMAIN ns \ kept :
    /\ ns[i].port # 0
    /\ ns[i].port \in reserved \/ \E j \in DOMAIN ns \ {i} : ns[j].port = ns[i].port

\* normalizeSticky: sticky sessions exist in pool and hybrid mode only.
StickyRefused(ns, mode) ==
  /\ StickyEnabled /\ PoolEntry(mode)
  /\ \/ StickyListen \in {0, ListenerPort}
     \/ StickyListen \in Ports(ns)

\* saved is a port map, busy the ports that cannot be bound at the moment.
NormalizeWithPortMap(ns, saved, mode, busy) ==
  LET reserved == reservedListenerPorts(mode)
      kept == Preserved(ns, saved, reserved)
      restored == IF MultiPort(mode) THEN Restore(ns, saved, reserved) ELSE ns
      open == Unassigned(restored)
      free == Cursor \ (reserved \cup busy \cup Ports(restored))
      refused == MultiPort(mode) /\ (Conflict(restored, kept, reserved) \/ ~Enough(open, free))
      filled == CASE refused -> << >>
                  [] ~refused /\ MultiPort(mode) -> Fill(restored, open, free)
                  [] OTHER -> FillSome(restored, open, Cursor)
  IN  IF StickyRefused(filled, mode) THEN << >> ELSE filled

-----------------------------------------------------------------------------
(* normalize: what Load does before the saved ports are known. *)

\* Provisional ports, which only pool mode keeps.
Provisional(ns, mode) ==
  FillSome(ns, Unassigned(ns),
           IF MultiPort(mode) THEN Cursor \ reservedListenerPorts(mode) ELSE Cursor)

\* In hybrid mode a node on the pool's own port moves to the next free one.
OffPoolPort(ns, mode, busy) ==
  LET clash == {i \in DOMAIN ns : mode = "hybrid" /\ ns[i].port = ListenerPort}
      free == (ListenerPort + 1)..MaxPort
                \ (reservedListenerPorts(mode) \cup Ports(ns) \cup busy)
  IN  IF Enough(clash, free) THEN Fill(ns, clash, free) ELSE << >>

normalize(ns, mode, busy) ==
  LET moved == OffPoolPort(Provisional(ns, mode), mode, busy)
  IN  IF StickyRefused(moved, mode) THEN << >> ELSE moved

-----------------------------------------------------------------------------
(* The port map and its file, node_ports.json. *)

\* The last node of an identity wins.
BuildPortMap(ns) ==
  LET has(k) == {i \in DOMAIN ns : Key(ns[i]) = k /\ ns[i].port # 0}
      last(S) == CHOOSE i \in S : \A j \in S : j <= i
  IN  [k \in {x \in Identity : has(x) # {}} |-> ns[last(has(k))].port]

\* Files of older versions are keyed by the URI.  The exact URI of a node that is
\* still listed comes first, then any alias, in the order of the keys.
bridgeLegacyPortKeys(ns, saved) ==
  LET alias(k) == {u \in URI \cap DOMAIN saved : KeyOf[u] = k}
      exact(k) == {i \in DOMAIN ns : ns[i].uri \in alias(k)}
      from(k) == IF exact(k) # {} THEN ns[CHOOSE i \in exact(k) : \A j \in exact(k) : i <= j].uri
                                  ELSE CHOOSE u \in alias(k) : TRUE
      found == {k \in Identity \ DOMAIN saved : alias(k) # {}}
  IN  [k \in DOMAIN saved \cup found |-> IF k \in found THEN saved[from(k)] ELSE saved[k]]

\* explicit: the positions whose port the YAML file states.
applyPersistedPorts(ns, explicit, sidecar, mode, busy) ==
  LET saved == bridgeLegacyPortKeys(ns, sidecar)
      owned == {Key(ns[i]) : i \in explicit}
  IN  NormalizeWithPortMap(
        WithPorts(ns, [i \in DOMAIN ns |-> IF i \in explicit THEN ns[i].port ELSE 0]),
        [k \in DOMAIN saved \ owned |-> saved[k]], mode, busy)

\* Load, from the nodes its sources gave; only the ports are at stake.
LoadPorts(ns, sidecar, mode, busy) ==
  LET explicit == {i \in DOMAIN ns : ns[i].src = "inline" /\ ns[i].port # 0}
      normal == normalize(ns, mode, busy)
  IN  IF normal = << >> \/ ~MultiPort(mode)
        THEN normal
        ELSE applyPersistedPorts(normal, explicit, sidecar, mode, busy)

-----------------------------------------------------------------------------
(* boxmgr: ports chosen while the runtime is up. *)

\* The node on a port somebody else owns moves to the next free one; << >> if none is.
reassignConflictingPort(ns, mode, conflict, busy) ==
  LET used == Ports(ns) \cup (IF mode = "hybrid" THEN {ListenerPort} ELSE {})
                \cup (IF StickyEnabled /\ PoolEntry(mode) THEN {StickyListen} ELSE {})
                \cup (IF GeoEnabled THEN {GeoListen} ELSE {})
      free == {p \in (conflict + 1)..MaxPort : p \notin used \cup busy}
      hit == {i \in DOMAIN ns : ns[i].port = conflict}
      first == {i \in hit : \A j \in hit : i <= j}
  IN  IF hit # {} /\ free # {} THEN Fill(ns, first, free) ELSE << >>

\* The first unused port from the base on, wrapping around; reserved ports are not
\* looked at.
nextAvailablePort(ns) ==
  LET above == Cursor \ Ports(ns)
      below == Port \ Ports(ns)
      least(S) == CHOOSE p \in S : \A q \in S : p <= q
  IN  IF above # {} THEN least(above) ELSE IF below # {} THEN least(below) ELSE BasePort

=============================================================================
