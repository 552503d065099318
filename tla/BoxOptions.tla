---------------------------- MODULE BoxOptions ------------------------------
(***************************************************************************)
(* builder.Build turns the node list into sing-box options: one outbound   *)
(* per node, pools over them, inbounds, and rules from inbounds to pools.  *)
(* createBox then removes outbounds sing-box rejects, one per attempt,     *)
(* with the pools that become empty and the rules that pointed to them.    *)
(*                                                                         *)
(* Options are sets: the order of outbounds only decides which rejected    *)
(* one is removed first.  A tag is what sanitizeTag and Build make it: a   *)
(* string of parts joined by dashes, so that a node's tag or its pool's    *)
(* may be the tag of something else ("sticky", "pool-jp", "x-2").          *)
(***************************************************************************)
EXTENDS Naturals, Sequences, FiniteSets, TLC

CONSTANTS NameOf,      \* the parts sanitizeTag leaves of the name of each URI, maybe none
          Region       \* geoip.AllRegions

\* The nodes that parse.
Built(ns, unparsable) == {i \in DOMAIN ns : ns[i].uri \notin unparsable}

\* A name without usable characters is numbered by the nodes built so far; the n-th node
\* of a base name gets the number n, counting those that fail to build.
Base(ns, unparsable, i) ==
  IF NameOf[ns[i].uri] # << >> THEN NameOf[ns[i].uri]
  ELSE <<"node", ToString(Cardinality({j \in Built(ns, unparsable) : j < i}) + 1)>>
Tags(ns, unparsable) ==
  [i \in DOMAIN ns |->
     LET base == Base(ns, unparsable, i)
         n == Cardinality({j \in 1..i : Base(ns, unparsable, j) = base})
     IN  IF n = 1 THEN base ELSE Append(base, ToString(n))]

Pool == <<"proxy", "pool">>
StickyPool == Append(Pool, "sticky")
PoolFor(tag) == Pool \o tag
RegionPool(r) == <<"pool", r>>
HttpIn == <<"http", "in">>
StickyIn == <<"sticky", "in">>
InFor(tag) == <<"in">> \o tag

NodeOut(tag) == [type |-> "node", tag |-> tag, members |-> {}]
PoolOut(tag, members) == [type |-> "pool", tag |-> tag, members |-> members]
Rule(inbound, target) == [inbound |-> inbound, target |-> target]

\* ports and regions of the members; a tag used twice keeps what came last.
Metadata(ns, unparsable) ==
  LET tag == Tags(ns, unparsable)
      built == Built(ns, unparsable)
  IN  [t \in {tag[i] : i \in built} |->
         ns[CHOOSE i \in built : tag[i] = t /\ \A j \in built : tag[j] = t => j <= i]]

Options(in, out, rules) == [in |-> in, out |-> out, rules |-> rules]
NoOptions == Options({}, {}, {})
Join(a, b) == Options(a.in \cup b.in, a.out \cup b.out, a.rules \cup b.rules)
Inbound(tag, port) == [tag |-> tag, port |-> port]

\* The pool over all nodes behind the listener, and the sticky entry to the same nodes.
SharedEntry(tags, listener, sticky, stickyPort) ==
  Join(Options({Inbound(HttpIn, listener)}, {PoolOut(Pool, tags)}, {}),
       IF sticky THEN Options({Inbound(StickyIn, stickyPort)}, {PoolOut(StickyPool, tags)},
                              {Rule(StickyIn, StickyPool)})
                 ELSE NoOptions)

\* One inbound per node, to a pool of just that node.
NodeEntries(meta) ==
  Options({Inbound(InFor(t), meta[t].port) : t \in DOMAIN meta},
          {PoolOut(PoolFor(t), {t}) : t \in DOMAIN meta},
          {Rule(InFor(t), PoolFor(t)) : t \in DOMAIN meta})

\* regionOf is what the GeoIP lookup finds for a URI, "other" without a database.
Located(meta, regionOf, r) == {t \in DOMAIN meta : regionOf[meta[t].uri] = r}
RegionPools(meta, regionOf) ==
  Options({}, {PoolOut(RegionPool(r), Located(meta, regionOf, r)) :
                 r \in {x \in Region : Located(meta, regionOf, x) # {}}}, {})

\* Without a node that parses there are no options.
Build(ns, mode, unparsable, sticky, geo, regionOf, listener, stickyPort) ==
  LET meta == Metadata(ns, unparsable)
      pooled == mode \in {"pool", "hybrid"}
      single == mode \in {"multi-port", "hybrid"}
      when(on, opts) == IF on THEN opts ELSE NoOptions
  IN  IF Built(ns, unparsable) = {} THEN NoOptions ELSE
      Join(Join(Options({}, {NodeOut(t) : t \in DOMAIN meta}, {}),
                when(pooled, SharedEntry(DOMAIN meta, listener, sticky, stickyPort))),
           Join(when(single, NodeEntries(meta)),
                when(pooled /\ geo, RegionPools(meta, regionOf))))

-----------------------------------------------------------------------------
(* createBox. *)

IsPool(o) == o.type = "pool"
Without(o, bad) == [type |-> o.type, tag |-> o.tag, members |-> o.members \ bad]

\* Seeded fault: rules to pools that became empty stay.
PruneKeepsRules(bad, opts) ==
  LET left == {Without(o, bad) : o \in {x \in opts.out : x.tag \notin bad}}
  IN  Options(opts.in, {o \in left : IsPool(o) => o.members # {}},
              {r \in opts.rules : r.target \notin bad})

\* Rejected outbounds go, and what depended on them.  An attempt of createBox removes
\* one; by PruneTwice the attempts, in any order, remove what they remove together.
Prune(bad, opts) ==
  LET left == {Without(o, bad) : o \in {x \in opts.out : x.tag \notin bad}}
      gone == {o \in left : IsPool(o) /\ o.members = {}}
      lost == bad \cup {o.tag : o \in gone}
  IN  Options(opts.in, left \ gone, {r \in opts.rules : r.target \notin lost})

\* All attempts, for the node tags sing-box rejects.
Created(opts, rejected) == Prune({o.tag : o \in opts.out} \cap rejected, opts)

-----------------------------------------------------------------------------
(* What the options promise when no tag stands for two things. *)

\* Build sees to it that no two nodes of one name share a tag, and to no more: the pool of
\* a node tagged "sticky" has the tag of the sticky pool.
DistinctTags(ns, unparsable, opts) ==
  /\ \A i, j \in Built(ns, unparsable) :
       Tags(ns, unparsable)[i] = Tags(ns, unparsable)[j] => i = j
  /\ \A o, p \in opts.out : o.tag = p.tag => o = p

PoolsOf(opts) == {o \in opts.out : IsPool(o)}
OutTags(opts) == {o.tag : o \in opts.out}

\* The nodes the rules lead to from an inbound.
Reach(opts, inbound) ==
  UNION {o.members : o \in {x \in PoolsOf(opts) : Rule(inbound, x.tag) \in opts.rules}}

\* Rules lead from inbounds there are to outbounds there are.
RulesPoint(opts) ==
  \A r \in opts.rules : r.target \in OutTags(opts) /\ \E b \in opts.in : b.tag = r.inbound

PoolsFilled(opts) == \A o \in PoolsOf(opts) : o.members # {} /\ o.members \subseteq OutTags(opts)

\* A node is reached by its own port, which reaches no other.
ByPort(opts, t, port) == Inbound(InFor(t), port) \in opts.in /\ Reach(opts, InFor(t)) = {t}

\* It is in the shared pools and in exactly one region.
ByPool(opts, t, sticky, geo) ==
  /\ \E o \in PoolsOf(opts) : o.tag = Pool /\ t \in o.members
  /\ sticky => t \in Reach(opts, StickyIn)
  /\ geo => \E r \in Region : \A q \in Region :
              (\E o \in PoolsOf(opts) : o.tag = RegionPool(q) /\ t \in o.members) <=> q = r

\* Nothing points to an outbound that is gone, no pool is empty, and every node left
\* is reached as its mode says.
Consistent(ns, opts, mode, sticky, geo, unparsable, rejected) ==
  /\ RulesPoint(opts) /\ PoolsFilled(opts)
  /\ \A i \in Built(ns, unparsable) :
       LET t == Tags(ns, unparsable)[i]
       IN  t \notin rejected =>
             /\ t \in OutTags(opts)
             /\ mode \in {"multi-port", "hybrid"} => ByPort(opts, t, ns[i].port)
             /\ mode \in {"pool", "hybrid"} => ByPool(opts, t, sticky, geo)
=============================================================================
