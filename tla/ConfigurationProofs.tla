------------------------ MODULE ConfigurationProofs -------------------------
(***************************************************************************)
(* Proofs about the configuration: the nodes and their ports over edits,   *)
(* reloads and restarts (NodePorts), the options a box is built from       *)
(* (NodeRoutes), and the file they are kept in (ConfigFiles, whose         *)
(* definitions are named apart).                                           *)
(*                                                                         *)
(* Nodes: for any URIs, feeds, files, modes, ports and bounds.  The code   *)
(* walks a list with a cursor, the model gives the n-th node without a     *)
(* port the n-th free port, so the first part is about ranks: they number  *)
(* a finite set of numbers, which makes each pass injective.  NodeInv adds *)
(* to AssignmentSound that every list that may become Manager.cfg.Nodes    *)
(* has the inline nodes of config.yaml, a candidate and the list a failed  *)
(* refresh goes back to included, and that what the operator is owed is in *)
(* node_ports.json under one identity only.  CacheInv adds to CacheCurrent *)
(* what a reload holds: the nodes its commit will have from nodes.txt, and *)
(* the old ones, which a refresh that cannot write the file goes back to.  *)
(*                                                                         *)
(* Options: for any list of nodes and any names.  Where a tag is that of   *)
(* one outbound, a rule leads to one pool, and pruning takes a pool and    *)
(* the rules to it together.  Attempts of createBox compose (PruneTwice).  *)
(*                                                                         *)
(* Files: for any number of processes, goroutines and groups of fields,    *)
(* any number of saves, failures and crashes.  Neither UpdatesKept nor     *)
(* ReadsWhole is inductive.  SaveInv adds what the locks are for: a        *)
(* goroutine past the flock has the lock of its inode; past the comparison *)
(* that inode is the one at the path, because whoever would replace it     *)
(* needs the same lock; and what a writer has read is what was saved last, *)
(* but for groups spoiled by an in-place write that did not finish.  A     *)
(* file is torn only under a writer that is overwriting it, or after such  *)
(* a write.                                                                *)
(***************************************************************************)
EXTENDS NodeRoutes, ConfigFiles, TLAPS, FiniteSetTheorems, SequenceTheorems

\* What a new box's nodes must keep off, as Sound says it.
Elsewhere == Listeners(<< >>) \cup {ManagementPort} \cup (IF GeoEnabled THEN {GeoListen} ELSE {})

\* Every node has a port of its own that is not one of others.
Separate(ns, others) ==
  /\ \A i \in DOMAIN ns : ns[i].port \in Port /\ ns[i].port \notin others
  /\ \A i, j \in DOMAIN ns : ns[i].port = ns[j].port => i = j

\* A map from identities to ports.
PortMap(saved) == \A k \in DOMAIN saved : saved[k] \in Port

Job == [op : {"none", "reload", "refresh", "undo"}, cand : Seq(Node), old : Seq(Node), got : Seq(URI)]

\* What is in the files and in a reload's hands.
FileInv ==
  /\ listing = NoFile => subscribed
  /\ PortMap(sidecar)
  /\ job \in Job

\* Every list that is or may become Manager.cfg.Nodes has the inline nodes of config.yaml.
InlineOf(ns) == URIs(From(ns, {"inline"})) = URIs(inline)
InlineInv ==
  /\ phase # "down" => InlineOf(nodes)
  /\ phase = "reloading" => InlineOf(job.cand) /\ (job.op # "undo" => InlineOf(job.old))

\* What the operator is owed is in node_ports.json, for that identity alone, and free.
PromiseInv ==
  \A k \in DOMAIN pinned :
    /\ pinned[k] \in Port /\ pinned[k] \notin reservedListenerPorts(mode)
    /\ Recorded(sidecar, k) = {pinned[k]}
    /\ \A x \in Identity \ {k} : pinned[k] \notin Recorded(sidecar, x)

NodeInv == AssignmentSound /\ FileInv /\ InlineInv /\ PromiseInv

-----------------------------------------------------------------------------
(* Ranks. *)

\* A finite set of numbers: positions in a list, or ports.
Numbers(S) == S \subseteq Nat /\ IsFiniteSet(S)

\* A one-to-one numbering of a finite set by 1 to its size leaves no number out.
LEMMA Numbering ==
  ASSUME NEW S, IsFiniteSet(S), NEW r \in [S -> 1..Cardinality(S)],
         \A x, y \in S : r[x] = r[y] => x = y
  PROVE  \A n \in 1..Cardinality(S) : \E x \in S : r[x] = n
<1> DEFINE T == 1..Cardinality(S)
<1>1. Cardinality(S) \in Nat
  BY FS_CardinalityType
<1>2. IsFiniteSet(T) /\ Cardinality(T) = Cardinality(S)
  BY <1>1, FS_Interval
<1>3. r \in Injection(S, T)
  BY DEF Injection, IsInjective
<1>4. r \in Surjection(S, T)
  BY <1>2, <1>3, FS_Injection
<1> QED BY <1>4 DEF Surjection

\* The rank of an element is a number from 1 to the size of the set.
LEMMA RankRange ==
  ASSUME NEW S, Numbers(S), NEW x \in S
  PROVE  Rank(S, x) \in 1..Cardinality(S)
<1> DEFINE B == {y \in S : y <= x}
<1>1. B \in SUBSET S /\ x \in B
  BY DEF Numbers
<1>2. IsFiniteSet(S)
  BY DEF Numbers
<1>3. IsFiniteSet(B) /\ Cardinality(B) <= Cardinality(S)
  BY <1>1, <1>2, FS_Subset
<1>4. Cardinality(B) \in Nat /\ Cardinality(S) \in Nat /\ Cardinality(B) # 0
  BY <1>1, <1>2, <1>3, FS_CardinalityType, FS_EmptySet
<1> QED BY <1>3, <1>4 DEF Rank

\* Larger elements have larger ranks.
LEMMA RankGrows ==
  ASSUME NEW S, Numbers(S), NEW x \in S, NEW y \in S, x < y
  PROVE  Rank(S, x) < Rank(S, y)
<1> DEFINE B(z) == {w \in S : w <= z}
<1>0. x \in Nat /\ y \in Nat /\ \A w \in S : w \in Nat /\ (w <= x => w <= y)
  BY DEF Numbers
<1>1. B(y) \in SUBSET S /\ B(x) \in SUBSET B(y) /\ y \in B(y) /\ y \notin B(x)
  <2>1. y <= y /\ ~(y <= x)
    BY <1>0
  <2> QED BY <1>0, <2>1, Zenon
<1>2. IsFiniteSet(B(y)) /\ IsFiniteSet(S)
  BY <1>1, FS_Subset DEF Numbers
<1>3. IsFiniteSet(B(x)) /\ Cardinality(B(x)) <= Cardinality(B(y)) /\ Cardinality(B(y)) # Cardinality(B(x))
  <2>1. \A V \in SUBSET B(y) : IsFiniteSet(V) /\ Cardinality(V) <= Cardinality(B(y))
                               /\ (Cardinality(B(y)) = Cardinality(V) => B(y) = V)
    BY <1>2, FS_Subset
  <2> QED BY <1>1, <2>1
<1>4. Cardinality(B(x)) \in Nat /\ Cardinality(B(y)) \in Nat
  BY <1>2, <1>3, FS_CardinalityType
<1> QED BY <1>3, <1>4 DEF Rank

\* Equal ranks, equal elements.
LEMMA RankInjective ==
  ASSUME NEW S, Numbers(S), NEW x \in S, NEW y \in S, Rank(S, x) = Rank(S, y)
  PROVE  x = y
<1>1. x \in Nat /\ y \in Nat
  BY DEF Numbers
<1>2. Rank(S, x) \in 1..Cardinality(S) /\ Cardinality(S) \in Nat
  BY RankRange, FS_CardinalityType DEF Numbers
<1>3. ~(x < y) /\ ~(y < x)
  BY <1>2, RankGrows
<1> QED BY <1>1, <1>3

\* Every rank is taken.
LEMMA RankOnto ==
  ASSUME NEW S, Numbers(S)
  PROVE  \A n \in 1..Cardinality(S) : \E x \in S : Rank(S, x) = n
<1>1. PICK r : r = [x \in S |-> Rank(S, x)]
  OBVIOUS
<1>2. r \in [S -> 1..Cardinality(S)] /\ \A x, y \in S : r[x] = r[y] => x = y
  BY <1>1, RankRange, RankInjective
<1>3. \A n \in 1..Cardinality(S) : \E x \in S : r[x] = n
  <2>1. IsFiniteSet(S)
    BY DEF Numbers
  <2> QED BY <1>2, <2>1, Numbering
<1> QED BY <1>1, <1>3

\* Positions of a list are numbers.
LEMMA Positions ==
  ASSUME NEW X, NEW s \in Seq(X), NEW S, S \subseteq DOMAIN s
  PROVE  Numbers(S) /\ Cardinality(S) \in Nat
<1>1. DOMAIN s = 1..Len(s) /\ Len(s) \in Nat
  BY LenProperties
<1>2. IsFiniteSet(DOMAIN s)
  BY <1>1, FS_Interval
<1>3. IsFiniteSet(S)
  BY <1>2, FS_Subset
<1> QED BY <1>1, <1>3, FS_CardinalityType DEF Numbers

\* Ports are numbers.
LEMMA PortNumbers ==
  ASSUME NEW S, S \subseteq 0..MaxPort
  PROVE  Numbers(S) /\ Cardinality(S) \in Nat
<1>1. MaxPort \in Nat /\ IsFiniteSet(0..MaxPort)
  BY PortConstants, FS_Interval
<1>2. IsFiniteSet(S)
  BY <1>1, FS_Subset
<1> QED BY <1>1, <1>2, FS_CardinalityType DEF Numbers

\* A non-empty set of numbers has a smallest element.
LEMMA Smallest ==
  ASSUME NEW S, Numbers(S), S # {}
  PROVE  \E x \in S : \A y \in S : x <= y
<1>1. Cardinality(S) \in Nat /\ Cardinality(S) # 0
  BY FS_CardinalityType, FS_EmptySet DEF Numbers
<1>2. PICK x \in S : Rank(S, x) = 1
  BY <1>1, RankOnto
<1>3. \A y \in S : x \in Nat /\ y \in Nat /\ Rank(S, y) >= 1 /\ Rank(S, y) \in Nat
  <2>1. \A y \in S : Rank(S, y) \in 1..Cardinality(S)
    BY RankRange
  <2> QED BY <1>1, <2>1 DEF Numbers
<1>4. \A y \in S : ~(y < x)
  BY <1>2, <1>3, RankGrows
<1> QED BY <1>3, <1>4

\* And a largest one.
LEMMA Largest ==
  ASSUME NEW S, Numbers(S), S # {}
  PROVE  \E x \in S : \A y \in S : y <= x
<1>1. Cardinality(S) \in Nat /\ Cardinality(S) # 0
  BY FS_CardinalityType, FS_EmptySet DEF Numbers
<1>2. PICK x \in S : Rank(S, x) = Cardinality(S)
  BY <1>1, RankOnto
<1>3. \A y \in S : x \in Nat /\ y \in Nat /\ Rank(S, y) <= Cardinality(S) /\ Rank(S, y) \in Nat
  <2>1. \A y \in S : Rank(S, y) \in 1..Cardinality(S)
    BY RankRange
  <2> QED BY <1>1, <2>1 DEF Numbers
<1>4. \A y \in S : ~(x < y)
  BY <1>1, <1>2, <1>3, RankGrows
<1> QED BY <1>3, <1>4

-----------------------------------------------------------------------------
(* Lists. *)

\* Chosen takes entries of its list, one for each position, in the order of their ranks.
LEMMA ChosenEntries ==
  ASSUME NEW X, NEW s \in Seq(X), NEW S, S \subseteq DOMAIN s
  PROVE  /\ Chosen(s, S) \in Seq(X) /\ DOMAIN Chosen(s, S) = 1..Cardinality(S)
         /\ \A n \in 1..Cardinality(S) :
              LET i == CHOOSE i \in S : Rank(S, i) = n
              IN  i \in S /\ Rank(S, i) = n /\ Chosen(s, S)[n] = s[i]
<1>1. Numbers(S) /\ Cardinality(S) \in Nat
  BY Positions
<1>2. \A n \in 1..Cardinality(S) :
        LET i == CHOOSE i \in S : Rank(S, i) = n IN i \in S /\ Rank(S, i) = n
  BY <1>1, RankOnto
<1>3. \A i \in S : s[i] \in X
  BY LenProperties
<1>4. Chosen(s, S) \in [1..Cardinality(S) -> X]
  BY <1>2, <1>3 DEF Chosen
<1>5. Chosen(s, S) \in Seq(X)
  BY <1>1, <1>4, SeqDef
<1> QED BY <1>2, <1>4, <1>5 DEF Chosen

\* The entries of a node list.
LEMMA ListOfNodes ==
  ASSUME NEW ns \in Seq(Node)
  PROVE  \A i \in DOMAIN ns : /\ ns[i] \in Node /\ ns[i].port \in 0..MaxPort /\ ns[i].uri \in URI
                              /\ i \in Nat /\ i >= 1
<1>1. \A i \in DOMAIN ns : ns[i] \in Node /\ i \in Nat /\ i >= 1
  BY LenProperties
<1> QED BY <1>1 DEF Node

\* Nodes that differ in their ports only.
Alike(ns, ms) ==
  /\ ns \in Seq(Node) /\ ms \in Seq(Node) /\ DOMAIN ns = DOMAIN ms
  /\ \A i \in DOMAIN ns : ns[i].uri = ms[i].uri /\ ns[i].src = ms[i].src

\* A selection by source is a list of nodes of those sources.
LEMMA FromNodes ==
  ASSUME NEW ns \in Seq(Node), NEW sources
  PROVE  /\ From(ns, sources) \in Seq(Node)
         /\ \A n \in DOMAIN From(ns, sources) : From(ns, sources)[n].src \in sources
<1>1. PICK S : S = {i \in DOMAIN ns : ns[i].src \in sources}
  OBVIOUS
<1>2. From(ns, sources) = Chosen(ns, S) /\ S \subseteq DOMAIN ns
  BY <1>1 DEF From
<1>3. /\ Chosen(ns, S) \in Seq(Node) /\ DOMAIN Chosen(ns, S) = 1..Cardinality(S)
      /\ \A n \in 1..Cardinality(S) : \E i \in S : Chosen(ns, S)[n] = ns[i]
  BY <1>2, ChosenEntries
<1> QED BY <1>1, <1>2, <1>3

\* Which nodes of a source there are does not depend on the ports.
LEMMA FromAlike ==
  ASSUME NEW ns, NEW ms, Alike(ns, ms), NEW sources
  PROVE  URIs(From(ns, sources)) = URIs(From(ms, sources))
<1>0. ns \in Seq(Node) /\ ms \in Seq(Node)
  BY DEF Alike
<1>1. PICK S : S = {i \in DOMAIN ns : ns[i].src \in sources}
  OBVIOUS
<1>2. /\ S = {i \in DOMAIN ms : ms[i].src \in sources}
      /\ S \subseteq DOMAIN ns /\ S \subseteq DOMAIN ms
  BY <1>1 DEF Alike
<1>3. From(ns, sources) = Chosen(ns, S) /\ From(ms, sources) = Chosen(ms, S)
  BY <1>1, <1>2 DEF From
<1>4. /\ DOMAIN Chosen(ns, S) = 1..Cardinality(S) /\ DOMAIN Chosen(ms, S) = 1..Cardinality(S)
  BY <1>2, ChosenEntries DEF Alike
<1>5. ASSUME NEW n \in 1..Cardinality(S) PROVE Chosen(ns, S)[n].uri = Chosen(ms, S)[n].uri
  <2>1. PICK i : i = CHOOSE j \in S : Rank(S, j) = n
    OBVIOUS
  <2>2. i \in S
    <3>1. \E j \in S : Rank(S, j) = n
      BY <1>0, <1>2, Positions, RankOnto
    <3> QED BY <2>1, <3>1
  <2>3. Chosen(ns, S)[n] = ns[i] /\ Chosen(ms, S)[n] = ms[i]
    BY <2>1 DEF Chosen
  <2> QED BY <1>2, <2>2, <2>3 DEF Alike
<1> QED BY <1>3, <1>4, <1>5 DEF URIs

\* A list whose inline nodes come first.
LEMMA FromPrefix ==
  ASSUME NEW ns \in Seq(Node), NEW k \in 0..Len(ns),
         \A i \in 1..Len(ns) : ns[i].src = "inline" <=> i <= k
  PROVE  From(ns, {"inline"}) = [i \in 1..k |-> ns[i]]
<1>0. DOMAIN ns = 1..Len(ns) /\ Len(ns) \in Nat /\ k \in Nat
  BY LenProperties
<1>1. {i \in DOMAIN ns : ns[i].src \in {"inline"}} = 1..k
  BY <1>0
<1>2. Cardinality(1..k) = k
  BY <1>0, FS_Interval
<1>3. ASSUME NEW i \in 1..k PROVE Rank(1..k, i) = i
  <2>1. {y \in 1..k : y <= i} = 1..i
    BY <1>0
  <2>2. Cardinality(1..i) = i
    BY FS_Interval
  <2> QED BY <2>1, <2>2 DEF Rank
<1>4. ASSUME NEW n \in 1..k PROVE (CHOOSE i \in 1..k : Rank(1..k, i) = n) = n
  <2>1. \E i \in 1..k : Rank(1..k, i) = n
    BY <1>3
  <2>2. PICK c : c = CHOOSE i \in 1..k : Rank(1..k, i) = n
    OBVIOUS
  <2>3. c \in 1..k /\ Rank(1..k, c) = n
    BY <2>1, <2>2
  <2> QED BY <1>3, <2>2, <2>3
<1>5. From(ns, {"inline"}) = Chosen(ns, 1..k)
  BY <1>1 DEF From
<1> QED BY <1>2, <1>4, <1>5 DEF Chosen

\* Inline nodes first, the rest after them: createConfig, and the files at startup.
LEMMA InlineFirst ==
  ASSUME NEW own \in Seq(Node), NEW extra \in Seq(Node),
         \A i \in DOMAIN own : own[i].src = "inline", \A i \in DOMAIN extra : extra[i].src # "inline"
  PROVE  own \o extra \in Seq(Node) /\ URIs(From(own \o extra, {"inline"})) = URIs(own)
<1>1. PICK ns : ns = own \o extra
  OBVIOUS
<1>2. /\ ns \in Seq(Node) /\ Len(ns) = Len(own) + Len(extra) /\ Len(own) \in Nat /\ Len(extra) \in Nat
      /\ DOMAIN own = 1..Len(own) /\ DOMAIN extra = 1..Len(extra)
      /\ \A i \in 1..Len(ns) : ns[i] = IF i <= Len(own) THEN own[i] ELSE extra[i - Len(own)]
  BY <1>1, ConcatProperties, LenProperties
<1>3. \A i \in 1..Len(ns) : ns[i].src = "inline" <=> i <= Len(own)
  <2> SUFFICES ASSUME NEW i \in 1..Len(ns) PROVE ns[i].src = "inline" <=> i <= Len(own)
    OBVIOUS
  <2>1. CASE i <= Len(own)
    BY <1>2, <2>1
  <2>2. CASE ~(i <= Len(own))
    <3>1. i - Len(own) \in 1..Len(extra)
      BY <1>2, <2>2
    <3> QED BY <1>2, <2>2, <3>1
  <2> QED BY <2>1, <2>2
<1>4. Len(own) \in 0..Len(ns)
  BY <1>2
<1>5. From(ns, {"inline"}) = [i \in 1..Len(own) |-> ns[i]]
  BY <1>2, <1>3, <1>4, FromPrefix
<1> QED BY <1>1, <1>2, <1>5 DEF URIs

\* The nodes after the inline ones, when those come first.
LEMMA RestAfter ==
  ASSUME NEW own \in Seq(Node), NEW extra \in Seq(Node), \A i \in DOMAIN own : own[i].src = "inline",
         \A i \in DOMAIN extra : extra[i].src \in {"file", "subscription"}
  PROVE  FromFile(own \o extra) = URIs(extra)
<1>1. PICK ns : ns = own \o extra
  OBVIOUS
<1>2. PICK k, m : k = Len(own) /\ m = Len(extra)
  OBVIOUS
<1>3. /\ ns \in Seq(Node) /\ k \in Nat /\ m \in Nat /\ DOMAIN ns = 1..(k + m)
      /\ DOMAIN own = 1..k /\ DOMAIN extra = 1..m
      /\ \A i \in 1..(k + m) : ns[i] = IF i <= k THEN own[i] ELSE extra[i - k]
  BY <1>1, <1>2, ConcatProperties, LenProperties
<1>4. ASSUME NEW i \in 1..(k + m) PROVE ns[i].src \in {"file", "subscription"} <=> i >= k + 1
  <2>1. CASE i <= k
    <3>1. ns[i] = own[i] /\ i \in DOMAIN own
      BY <1>3, <2>1
    <3>2. ns[i].src = "inline" /\ ~(i >= k + 1)
      BY <1>3, <2>1, <3>1
    <3> QED BY <3>2
  <2>2. CASE ~(i <= k)
    <3>1. i - k \in DOMAIN extra /\ i >= k + 1
      BY <1>3, <2>2
    <3>2. ns[i] = extra[i - k]
      BY <1>3, <2>2
    <3>3. extra[i - k].src \in {"file", "subscription"}
      BY <3>1
    <3> QED BY <3>1, <3>2, <3>3
  <2> QED BY <2>1, <2>2
<1>5. PICK S : S = (k + 1)..(k + m)
  OBVIOUS
<1>6. S = {i \in DOMAIN ns : ns[i].src \in {"file", "subscription"}}
  BY <1>3, <1>4, <1>5
<1>7. Cardinality(S) = m
  BY <1>3, <1>5, FS_Interval
<1>8. ASSUME NEW i \in S PROVE Rank(S, i) = i - k
  <2>1. {y \in S : y <= i} = (k + 1)..i
    BY <1>3, <1>5
  <2>2. Cardinality((k + 1)..i) = i - k
    BY <1>3, <1>5, FS_Interval
  <2> QED BY <2>1, <2>2 DEF Rank
<1>9. ASSUME NEW n \in 1..m PROVE Chosen(ns, S)[n] = extra[n]
  <2>1. k + n \in S /\ \A i \in S : i - k = n <=> i = k + n
    BY <1>3, <1>5
  <2>2. (CHOOSE i \in S : Rank(S, i) = n) = k + n
    BY <1>8, <2>1
  <2>3. Chosen(ns, S)[n] = ns[k + n]
    BY <1>7, <2>2 DEF Chosen
  <2>4. k + n \in 1..(k + m) /\ ~(k + n <= k) /\ (k + n) - k = n
    BY <1>3
  <2> QED BY <1>3, <2>3, <2>4
<1>10. DOMAIN Chosen(ns, S) = 1..m
  BY <1>7 DEF Chosen
<1>11. From(ns, {"file", "subscription"}) = Chosen(ns, S)
  BY <1>6 DEF From
<1> QED BY <1>1, <1>3, <1>9, <1>10, <1>11 DEF FromFile, URIs

\* The lists of several feeds one after the other.
LEMMA JoinedList ==
  ASSUME NEW X, NEW lists \in Seq(Seq(X))
  PROVE  Joined(lists) \in Seq(X)
<1>1. PICK places : places = UNION {{i} \X DOMAIN lists[i] : i \in DOMAIN lists}
  OBVIOUS
<1>2. \A x \in places : /\ x[1] \in DOMAIN lists /\ x[2] \in DOMAIN lists[x[1]] /\ x = <<x[1], x[2]>>
                        /\ x[1] \in Nat /\ x[2] \in Nat /\ lists[x[1]][x[2]] \in X
  <2> SUFFICES ASSUME NEW i \in DOMAIN lists, NEW j \in DOMAIN lists[i]
               PROVE  i \in Nat /\ j \in Nat /\ lists[i][j] \in X
    BY <1>1
  <2>1. lists[i] \in Seq(X) /\ i \in Nat
    BY LenProperties
  <2> QED BY <2>1, LenProperties
<1>3. IsFiniteSet(places)
  <2>1. IsFiniteSet(DOMAIN lists) /\ \A i \in DOMAIN lists : IsFiniteSet(DOMAIN lists[i])
    <3>1. \A i \in DOMAIN lists : lists[i] \in Seq(X)
      BY LenProperties
    <3>2. IsFiniteSet(DOMAIN lists)
      BY Positions DEF Numbers
    <3>3. ASSUME NEW i \in DOMAIN lists PROVE IsFiniteSet(DOMAIN lists[i])
      BY <3>1, Positions DEF Numbers
    <3> QED BY <3>2, <3>3
  <2>2. PICK M : M = {{i} \X DOMAIN lists[i] : i \in DOMAIN lists}
    OBVIOUS
  <2>3. ASSUME NEW i \in DOMAIN lists PROVE IsFiniteSet({i} \X DOMAIN lists[i])
    BY <2>1, FS_Singleton, FS_Product
  <2>4. IsFiniteSet(M)
    <3>1. PICK f : f = [i \in DOMAIN lists |-> {i} \X DOMAIN lists[i]]
      OBVIOUS
    <3>2. f \in Surjection(DOMAIN lists, M)
      BY <2>2, <3>1 DEF Surjection
    <3> QED BY <2>1, <3>2, FS_Surjection
  <2> QED BY <1>1, <2>2, <2>3, <2>4, FS_UNION
<1> DEFINE upTo(x) == {y \in places : y[1] < x[1] \/ (y[1] = x[1] /\ y[2] <= x[2])}
<1>4. Cardinality(places) \in Nat /\ \A x \in places : IsFiniteSet(upTo(x)) /\ Cardinality(upTo(x)) \in Nat
  <2>1. \A x \in places : upTo(x) \in SUBSET places
    OBVIOUS
  <2> HIDE DEF upTo
  <2> QED BY <1>3, <2>1, FS_Subset, FS_CardinalityType
<1>5. ASSUME NEW x \in places, NEW y \in places, x # y, Cardinality(upTo(x)) = Cardinality(upTo(y))
      PROVE  FALSE
  <2>1. ASSUME NEW v \in places, NEW w \in places, v[1] < w[1] \/ (v[1] = w[1] /\ v[2] < w[2]),
               Cardinality(upTo(v)) = Cardinality(upTo(w))
        PROVE  FALSE
    <3>0. PICK v1 \in Nat, v2 \in Nat, w1 \in Nat, w2 \in Nat :
            v[1] = v1 /\ v[2] = v2 /\ w[1] = w1 /\ w[2] = w2
      BY <1>2
    <3>a. v1 < w1 \/ (v1 = w1 /\ v2 < w2)
      BY <2>1, <3>0
    <3>1. upTo(v) \in SUBSET upTo(w)
      <4>1. ASSUME NEW z \in places, z[1] < v1 \/ (z[1] = v1 /\ z[2] <= v2)
            PROVE  z[1] < w1 \/ (z[1] = w1 /\ z[2] <= w2)
        <5>1. PICK y1 \in Nat, y2 \in Nat : z[1] = y1 /\ z[2] = y2
          BY <1>2
        <5> QED BY <3>a, <4>1, <5>1
      <4> QED BY <3>0, <4>1
    <3>2. w \in upTo(w) /\ w \notin upTo(v)
      <4>1. w2 <= w2 /\ ~(w1 < v1 \/ (w1 = v1 /\ w2 <= v2))
        BY <3>a
      <4> QED BY <3>0, <4>1
    <3>3. IsFiniteSet(upTo(w))
      BY <1>4
    <3> HIDE DEF upTo
    <3>4. upTo(w) = upTo(v)
      BY <2>1, <3>1, <3>3, FS_Subset
    <3> QED BY <3>2, <3>4
  <2>2. \/ x[1] < y[1] \/ (x[1] = y[1] /\ x[2] < y[2])
        \/ y[1] < x[1] \/ (y[1] = x[1] /\ y[2] < x[2])
    <3>1. x[1] # y[1] \/ x[2] # y[2]
      BY <1>2, <1>5
    <3> QED BY <1>2, <3>1
  <2> HIDE DEF upTo
  <2> QED BY <1>5, <2>1, <2>2
<1>6. \A n \in 1..Cardinality(places) : \E x \in places : Cardinality(upTo(x)) = n
  <2>1. PICK r : r = [x \in places |-> Cardinality(upTo(x))]
    OBVIOUS
  <2>2. ASSUME NEW x \in places PROVE Cardinality(upTo(x)) \in 1..Cardinality(places)
    <3>1. x \in upTo(x) /\ upTo(x) \in SUBSET places
      BY <1>2
    <3> HIDE DEF upTo
    <3>2. Cardinality(upTo(x)) <= Cardinality(places) /\ Cardinality(upTo(x)) # 0
      BY <1>3, <1>4, <3>1, FS_Subset, FS_EmptySet
    <3> QED BY <1>4, <3>2
  <2> HIDE DEF upTo
  <2>3. r \in [places -> 1..Cardinality(places)] /\ \A x, y \in places : r[x] = r[y] => x = y
    BY <1>5, <2>1, <2>2
  <2>4. \A n \in 1..Cardinality(places) : \E x \in places : r[x] = n
    BY <1>3, <2>3, Numbering
  <2> QED BY <2>1, <2>4
<1> DEFINE nth(n) == CHOOSE x \in places : Cardinality(upTo(x)) = n
<1>7. \A n \in 1..Cardinality(places) : lists[nth(n)[1]][nth(n)[2]] \in X
  <2>1. \A n \in 1..Cardinality(places) : nth(n) \in places
    <3> HIDE DEF upTo
    <3> QED BY <1>6
  <2> HIDE DEF nth
  <2> QED BY <1>2, <2>1
<1>8. Joined(lists) = [n \in 1..Cardinality(places) |-> lists[nth(n)[1]][nth(n)[2]]]
  BY <1>1 DEF Joined
<1> HIDE DEF nth
<1>9. Joined(lists) \in [1..Cardinality(places) -> X]
  BY <1>7, <1>8
<1> QED BY <1>4, <1>9, SeqDef

\* Whatever the providers return, the nodes are a list of URIs.
LEMMA GatheredList ==
  ASSUME NEW get \in Fetches, NEW got \in Gathered(get)
  PROVE  got \in Seq(URI)
<1> DEFINE at(f) == IF get[f] = Failed THEN << >> ELSE get[f]
<1>1. \A f \in Feed : at(f) \in Seq(URI)
  BY NodeConstants DEF Fetches
<1> HIDE DEF at
<1>2. PICK o \in [1..Cardinality(Feed) -> Feed] : got = Dedupe(Joined([i \in DOMAIN o |-> at(o[i])]))
  BY DEF Gathered, at
<1>3. Cardinality(Feed) \in Nat
  BY NodeConstants, FS_CardinalityType
<1>4. PICK lists : lists = [i \in DOMAIN o |-> at(o[i])]
  OBVIOUS
<1>5. lists \in [1..Cardinality(Feed) -> Seq(URI)]
  BY <1>1, <1>4
<1>6. lists \in Seq(Seq(URI))
  BY <1>3, <1>5, SeqDef
<1>7. Joined(lists) \in Seq(URI)
  BY <1>6, JoinedList
<1>8. PICK uris \in Seq(URI) : uris = Joined(lists)
  BY <1>7
<1>9. got = Dedupe(uris)
  BY <1>2, <1>4, <1>8
<1>10. PICK S : S = {i \in DOMAIN uris : \A j \in 1..(i - 1) : KeyOf[uris[j]] # KeyOf[uris[i]]}
  OBVIOUS
<1>11. Dedupe(uris) = Chosen(uris, S) /\ S \subseteq DOMAIN uris
  BY <1>10 DEF Dedupe
<1> QED BY <1>9, <1>11, ChosenEntries

-----------------------------------------------------------------------------
(* Ports. *)

\* Being the same nodes up to their ports is transitive.
LEMMA AlikeTrans ==
  ASSUME NEW ns, NEW ms, NEW ls, Alike(ns, ms), Alike(ms, ls)
  PROVE  Alike(ns, ls)
  BY DEF Alike

\* WithPorts changes ports only.
LEMMA WithPortsNodes ==
  ASSUME NEW ns \in Seq(Node), NEW port, \A i \in DOMAIN ns : port[i] \in 0..MaxPort
  PROVE  /\ Alike(ns, WithPorts(ns, port))
         /\ \A i \in DOMAIN ns : WithPorts(ns, port)[i].port = port[i]
         /\ \A i \in DOMAIN ns : port[i] = ns[i].port => WithPorts(ns, port)[i] = ns[i]
<1>1. DOMAIN ns = 1..Len(ns) /\ Len(ns) \in Nat /\ \A i \in DOMAIN ns : ns[i] \in Node
  BY LenProperties
<1>2. PICK ms : ms = WithPorts(ns, port)
  OBVIOUS
<1>3. DOMAIN ms = DOMAIN ns /\ \A i \in DOMAIN ns : ms[i] = [ns[i] EXCEPT !.port = port[i]]
  BY <1>2 DEF WithPorts
<1>4. ASSUME NEW i \in DOMAIN ns
      PROVE  /\ ms[i] \in Node /\ ms[i].uri = ns[i].uri /\ ms[i].src = ns[i].src /\ ms[i].port = port[i]
             /\ port[i] = ns[i].port => ms[i] = ns[i]
  <2>1. PICK n \in Node : n = ns[i]
    BY <1>1
  <2>2. PICK p \in 0..MaxPort : p = port[i]
    OBVIOUS
  <2>3. ms[i] = [n EXCEPT !.port = p]
    BY <1>3, <2>1, <2>2
  <2>4. /\ [n EXCEPT !.port = p] \in Node /\ [n EXCEPT !.port = p].uri = n.uri
        /\ [n EXCEPT !.port = p].src = n.src /\ [n EXCEPT !.port = p].port = p
        /\ p = n.port => [n EXCEPT !.port = p] = n
    BY DEF Node
  <2> QED BY <2>1, <2>2, <2>3, <2>4
<1>5. ms \in [1..Len(ns) -> Node]
  <2>1. ms = [i \in DOMAIN ns |-> ms[i]]
    BY <1>2 DEF WithPorts
  <2> QED BY <1>1, <1>4, <2>1
<1>6. ms \in Seq(Node)
  BY <1>1, <1>5, SeqDef
<1> QED BY <1>2, <1>3, <1>4, <1>6 DEF Alike

\* ms is ns with ports of free for the nodes of S, each its own.
Filled(ns, ms, S, free) ==
  /\ Alike(ns, ms)
  /\ \A i \in DOMAIN ns \ S : ms[i] = ns[i]
  /\ \A i \in S : ms[i].port \in free
  /\ \A i, j \in S : ms[i].port = ms[j].port => i = j

\* The cursor gives every node of S a port of its own.
LEMMA FillNodes ==
  ASSUME NEW ns \in Seq(Node), NEW S \in SUBSET DOMAIN ns, NEW free \in SUBSET Port, Enough(S, free)
  PROVE  Filled(ns, Fill(ns, S, free), S, free)
<1>1. Numbers(S)
  BY Positions
<1>2. \A i \in S : Nth(S, free, i) \in free /\ Rank(free, Nth(S, free, i)) = Rank(S, i)
  BY DEF Enough, Nth
<1>3. \A i, j \in S : Nth(S, free, i) = Nth(S, free, j) => i = j
  BY <1>1, <1>2, RankInjective
<1>4. PICK port : port = [i \in DOMAIN ns |-> IF i \in S THEN Nth(S, free, i) ELSE ns[i].port]
  OBVIOUS
<1>5. \A i \in DOMAIN ns : /\ port[i] \in 0..MaxPort
                           /\ IF i \in S THEN port[i] = Nth(S, free, i) ELSE port[i] = ns[i].port
  <2>1. \A i \in DOMAIN ns : ns[i].port \in 0..MaxPort
    BY ListOfNodes
  <2>2. \A p \in free : p \in 0..MaxPort
    <3>1. free \subseteq 1..MaxPort
      BY DEF Port
    <3>2. MaxPort \in Nat
      BY PortConstants
    <3>3. 1..MaxPort \subseteq 0..MaxPort
      BY <3>2
    <3> QED BY <3>1, <3>3
  <2> QED BY <1>2, <1>4, <2>1, <2>2
<1>6. Fill(ns, S, free) = WithPorts(ns, port)
  BY <1>4 DEF Fill
<1>7. PICK ms : ms = WithPorts(ns, port)
  OBVIOUS
<1>8. /\ Alike(ns, ms) /\ \A i \in DOMAIN ns : ms[i].port = port[i]
      /\ \A i \in DOMAIN ns : port[i] = ns[i].port => ms[i] = ns[i]
  BY <1>5, <1>7, WithPortsNodes
<1> QED BY <1>2, <1>3, <1>5, <1>6, <1>7, <1>8 DEF Filled

\* The cursor that stops silently: nodes keep what they had.
LEMMA FillSomeNodes ==
  ASSUME NEW ns \in Seq(Node), NEW S, S \subseteq DOMAIN ns, NEW free, free \subseteq Port
  PROVE  /\ Alike(ns, FillSome(ns, S, free))
         /\ \A i \in DOMAIN ns \ S : FillSome(ns, S, free)[i] = ns[i]
<1>1. PICK R : R = {i \in S : Rank(S, i) <= Cardinality(free)}
  OBVIOUS
<1>2. R \subseteq S /\ R \subseteq DOMAIN ns /\ Numbers(S) /\ Numbers(R) /\ IsFiniteSet(S)
  BY <1>1, Positions DEF Numbers
<1>3. Numbers(free) /\ Cardinality(free) \in Nat
  <2>1. free \subseteq 0..MaxPort
    BY PortConstants DEF Port
  <2> QED BY <2>1, PortNumbers
<1>4. ASSUME NEW i \in R PROVE Rank(R, i) \in 1..Cardinality(free)
  <2>1. Rank(R, i) \in 1..Cardinality(R) /\ Rank(S, i) \in 1..Cardinality(S)
    BY <1>2, <1>4, RankRange
  <2>2. Cardinality(R) \in Nat /\ Cardinality(S) \in Nat
    BY <1>2, FS_CardinalityType DEF Numbers
  <2>3. PICK A, B : A = {y \in R : y <= i} /\ B = {y \in S : y <= i}
    OBVIOUS
  <2>4. A \in SUBSET B /\ B \in SUBSET S
    BY <1>2, <2>3
  <2>5. IsFiniteSet(B)
    BY <1>2, <2>4, FS_Subset
  <2>6. Cardinality(A) <= Cardinality(B)
    BY <2>4, <2>5, FS_Subset
  <2>7. Rank(R, i) <= Rank(S, i) /\ Rank(S, i) <= Cardinality(free)
    BY <1>1, <1>4, <2>3, <2>6 DEF Rank
  <2> QED BY <1>3, <2>1, <2>2, <2>7
<1>5. Enough(R, free)
  BY <1>3, <1>4, RankOnto DEF Enough
<1>6. FillSome(ns, S, free) = Fill(ns, R, free)
  BY <1>1 DEF FillSome
<1>7. Filled(ns, Fill(ns, R, free), R, free)
  BY <1>2, <1>5, FillNodes
<1> QED BY <1>2, <1>6, <1>7 DEF Filled

\* Other listeners' ports are ports.
LEMMA ListenPorts ==
  /\ MaxPort \in Nat /\ ListenerPort \in Port /\ ManagementPort \in Port /\ Cursor \subseteq Port
  BY PortConstants DEF Port, Cursor

\* The saved port of a node, or 0.
LEMMA MappedPort ==
  ASSUME NEW ns, NEW saved, PortMap(saved), NEW i
  PROVE  Mapped(ns, saved, i) \in 0..MaxPort
  BY PortConstants DEF Mapped, PortMap, Port

\* NormalizeWithPortMap in multi-port and hybrid mode: every node gets a port of its own,
\* a preserved one its saved port, and one that has an explicit port and no saved one
\* keeps it.
LEMMA NormalizedPorts ==
  ASSUME NEW ns \in Seq(Node), NEW saved, PortMap(saved), NEW md \in Mode, MultiPort(md), NEW busy,
         NEW res, res = NormalizeWithPortMap(ns, saved, md, busy), res # << >>
  PROVE  /\ Alike(ns, res)
         /\ Separate(res, reservedListenerPorts(md))
         /\ \A i \in Preserved(ns, saved, reservedListenerPorts(md)) : res[i].port = Mapped(ns, saved, i)
         /\ \A i \in DOMAIN ns : Mapped(ns, saved, i) = 0 /\ ns[i].port # 0 => res[i].port = ns[i].port
<1>1. PICK reserved : reserved = reservedListenerPorts(md)
  OBVIOUS
<1>2. PICK kept : kept = Preserved(ns, saved, reserved)
  OBVIOUS
<1>3. PICK restored : restored = Restore(ns, saved, reserved)
  OBVIOUS
<1>4. PICK open : open = Unassigned(restored)
  OBVIOUS
<1>5. PICK free : free = Cursor \ (reserved \cup busy \cup Ports(restored))
  OBVIOUS
<1>6. ~Conflict(restored, kept, reserved) /\ Enough(open, free) /\ res = Fill(restored, open, free)
  BY <1>1, <1>2, <1>3, <1>4, <1>5 DEF NormalizeWithPortMap
<1>7. PICK port : port = [i \in DOMAIN ns |-> IF i \in Preserved(ns, saved, reserved) THEN Mapped(ns, saved, i)
                                  ELSE IF Mapped(ns, saved, i) # 0 THEN 0 ELSE ns[i].port]
  OBVIOUS
<1>8. /\ restored = WithPorts(ns, port)
      /\ \A i \in DOMAIN ns : port[i] = IF i \in kept THEN Mapped(ns, saved, i)
                                        ELSE IF Mapped(ns, saved, i) # 0 THEN 0 ELSE ns[i].port
  BY <1>2, <1>3, <1>7 DEF Restore
<1>9. /\ kept \subseteq DOMAIN ns
      /\ \A i \in kept : Mapped(ns, saved, i) # 0 /\ Mapped(ns, saved, i) \notin reserved
      /\ \A i, j \in kept : Mapped(ns, saved, i) = Mapped(ns, saved, j) => i = j
  <2>1. \A i \in DOMAIN ns : i \in Nat /\ i >= 1
    BY LenProperties
  <2>2. ASSUME NEW i \in kept, NEW j \in kept, Mapped(ns, saved, i) = Mapped(ns, saved, j) PROVE i = j
    <3>1. i \in Nat /\ j \in Nat /\ i >= 1 /\ j >= 1
      BY <1>2, <2>1 DEF Preserved
    <3>2. ~(i < j)
      BY <1>2, <2>2, <3>1 DEF Preserved
    <3>3. ~(j < i)
      BY <1>2, <2>2, <3>1 DEF Preserved
    <3> QED BY <3>1, <3>2, <3>3
  <2> QED BY <1>2, <2>2 DEF Preserved
<1>10. \A i \in DOMAIN ns : port[i] \in 0..MaxPort
  <2>1. \A i \in DOMAIN ns : ns[i].port \in 0..MaxPort
    BY ListOfNodes
  <2>2. \A i \in DOMAIN ns : Mapped(ns, saved, i) \in 0..MaxPort
    BY MappedPort
  <2>3. 0 \in 0..MaxPort
    BY PortConstants
  <2> QED BY <1>8, <2>1, <2>2, <2>3
<1>11. Alike(ns, restored) /\ \A i \in DOMAIN ns : restored[i].port = port[i]
  BY <1>8, <1>10, WithPortsNodes
<1>12. restored \in Seq(Node) /\ DOMAIN restored = DOMAIN ns /\ open \subseteq DOMAIN restored
       /\ \A i \in DOMAIN ns : i \in open <=> port[i] = 0
  BY <1>4, <1>11 DEF Alike, Unassigned
<1>13. free \subseteq Port /\ \A p \in free : p \notin reserved /\ p \notin Ports(restored)
  BY <1>5, ListenPorts
<1>14. /\ Alike(restored, res) /\ \A i \in DOMAIN ns \ open : res[i] = restored[i]
       /\ \A i \in open : res[i].port \in free
       /\ \A i, j \in open : res[i].port = res[j].port => i = j
  <2>1. Filled(restored, res, open, free)
    BY <1>6, <1>12, <1>13, FillNodes
  <2> QED BY <1>12, <2>1 DEF Filled
<1>15. Alike(ns, res)
  BY <1>11, <1>14, AlikeTrans
<1>16. ASSUME NEW i \in DOMAIN ns \ open
       PROVE  /\ res[i].port = port[i] /\ port[i] # 0 /\ port[i] \in Ports(restored)
              /\ i \notin kept => /\ port[i] \notin reserved
                                  /\ \A j \in DOMAIN ns \ {i} : port[j] # port[i]
  BY <1>6, <1>11, <1>12, <1>14, <1>16 DEF Conflict, Ports
<1>17. Separate(res, reserved)
  <2>1. DOMAIN res = DOMAIN ns
    BY <1>15 DEF Alike
  <2>2. ASSUME NEW i \in DOMAIN ns PROVE res[i].port \in Port /\ res[i].port \notin reserved
    <3>1. CASE i \in open
      BY <1>13, <1>14, <3>1
    <3>2. CASE i \notin open
      <4>1. res[i].port = port[i] /\ port[i] \notin reserved
        BY <1>8, <1>9, <1>16, <3>2
      <4>2. port[i] \in Port
        BY <1>10, <1>16, <3>2, PortConstants DEF Port
      <4> QED BY <4>1, <4>2
    <3> QED BY <3>1, <3>2
  <2>3. ASSUME NEW i \in DOMAIN ns, NEW j \in DOMAIN ns, res[i].port = res[j].port PROVE i = j
    <3>1. CASE i \in open /\ j \in open
      BY <1>14, <2>3, <3>1
    <3>2. CASE i \in open /\ j \notin open
      BY <1>13, <1>14, <1>16, <2>3, <3>2
    <3>3. CASE i \notin open /\ j \in open
      BY <1>13, <1>14, <1>16, <2>3, <3>3
    <3>4. CASE i \notin open /\ j \notin open
      <4>1. port[i] = port[j]
        BY <1>16, <2>3, <3>4
      <4>2. CASE i \in kept /\ j \in kept
        BY <1>8, <1>9, <4>1, <4>2
      <4>3. CASE i \notin kept \/ j \notin kept
        BY <1>16, <3>4, <4>1, <4>3
      <4> QED BY <4>2, <4>3
    <3> QED BY <3>1, <3>2, <3>3, <3>4
  <2> QED BY <2>1, <2>2, <2>3 DEF Separate
<1>18. ASSUME NEW i \in kept PROVE res[i].port = Mapped(ns, saved, i)
  <2>1. i \in DOMAIN ns /\ port[i] = Mapped(ns, saved, i) /\ port[i] # 0
    BY <1>8, <1>9
  <2> QED BY <1>12, <1>16, <2>1
<1>19. ASSUME NEW i \in DOMAIN ns, Mapped(ns, saved, i) = 0, ns[i].port # 0 PROVE res[i].port = ns[i].port
  <2>1. i \notin kept
    BY <1>9, <1>19
  <2>2. port[i] = ns[i].port
    BY <1>8, <1>19, <2>1
  <2> QED BY <1>12, <1>16, <1>19, <2>2
<1> QED BY <1>1, <1>2, <1>15, <1>17, <1>18, <1>19

\* In pool mode only the ports change.
LEMMA NormalizedInPool ==
  ASSUME NEW ns \in Seq(Node), NEW saved, NEW md \in Mode, ~MultiPort(md), NEW busy,
         NEW res, res = NormalizeWithPortMap(ns, saved, md, busy), res # << >>
  PROVE  Alike(ns, res)
<1>1. res = FillSome(ns, Unassigned(ns), Cursor)
  BY DEF NormalizeWithPortMap
<1>2. Unassigned(ns) \subseteq DOMAIN ns
  BY DEF Unassigned
<1> QED BY <1>1, <1>2, FillSomeNodes, ListenPorts

-----------------------------------------------------------------------------
(* Load. *)

\* normalize moves no port but the pool's own in hybrid mode.
LEMMA NormalNodes ==
  ASSUME NEW ns \in Seq(Node), NEW md \in Mode, NEW busy,
         NEW res, res = normalize(ns, md, busy), res # << >>
  PROVE  /\ Alike(ns, res)
         /\ \A i \in DOMAIN ns : ns[i].port # 0 /\ (md = "hybrid" => ns[i].port # ListenerPort)
              => res[i].port = ns[i].port
<1>1. PICK ms : ms = Provisional(ns, md)
  OBVIOUS
<1>2. Alike(ns, ms) /\ \A i \in DOMAIN ns \ Unassigned(ns) : ms[i] = ns[i]
  <2>1. PICK free \in SUBSET Port : ms = FillSome(ns, Unassigned(ns), free)
    BY <1>1, ListenPorts DEF Provisional
  <2>2. Unassigned(ns) \subseteq DOMAIN ns
    BY DEF Unassigned
  <2> QED BY <2>1, <2>2, FillSomeNodes, ZenonT(40)
<1>3. res = OffPoolPort(ms, md, busy)
  BY <1>1 DEF normalize
<1>4. PICK clash : clash = {i \in DOMAIN ms : md = "hybrid" /\ ms[i].port = ListenerPort}
  OBVIOUS
<1>5. PICK free : free = (ListenerPort + 1)..MaxPort \ (reservedListenerPorts(md) \cup Ports(ms) \cup busy)
  OBVIOUS
<1>6. Enough(clash, free) /\ res = Fill(ms, clash, free)
  BY <1>3, <1>4, <1>5 DEF OffPoolPort
<1>7. free \in SUBSET Port /\ clash \in SUBSET DOMAIN ms /\ ms \in Seq(Node)
  <2>1. (ListenerPort + 1)..MaxPort \subseteq Port
    BY PortConstants DEF Port
  <2> QED BY <1>2, <1>4, <1>5, <2>1 DEF Alike
<1>8. Filled(ms, res, clash, free)
  BY <1>6, <1>7, FillNodes
<1>9. Alike(ns, res)
  BY <1>2, <1>8, AlikeTrans DEF Filled
<1>10. ASSUME NEW i \in DOMAIN ns, ns[i].port # 0, md = "hybrid" => ns[i].port # ListenerPort
       PROVE  res[i].port = ns[i].port
  <2>1. ms[i] = ns[i] /\ i \in DOMAIN ms
    BY <1>2, <1>10 DEF Unassigned, Alike
  <2>2. i \notin clash
    BY <1>4, <1>10, <2>1
  <2> QED BY <1>8, <2>1, <2>2 DEF Filled
<1> QED BY <1>9, <1>10

\* The bridged map has the recorded ports of every identity that has one.
LEMMA BridgedPorts ==
  ASSUME NEW ns \in Seq(Node), NEW saved, PortMap(saved),
         NEW res, res = bridgeLegacyPortKeys(ns, saved)
  PROVE  /\ PortMap(res)
         /\ \A k \in Identity : /\ k \in DOMAIN res <=> Recorded(saved, k) # {}
                                /\ k \in DOMAIN res => res[k] \in Recorded(saved, k)
<1> DEFINE alias(k) == {u \in URI \cap DOMAIN saved : KeyOf[u] = k}
           exact(k) == {i \in DOMAIN ns : ns[i].uri \in alias(k)}
           from(k) == IF exact(k) # {} THEN ns[CHOOSE i \in exact(k) : \A j \in exact(k) : i <= j].uri
                                       ELSE CHOOSE u \in alias(k) : TRUE
           found == {k \in Identity \ DOMAIN saved : alias(k) # {}}
<1>1. res = [k \in DOMAIN saved \cup found |-> IF k \in found THEN saved[from(k)] ELSE saved[k]]
  BY DEF bridgeLegacyPortKeys
<1>2. ASSUME NEW k \in found PROVE from(k) \in alias(k)
  <2>1. CASE exact(k) # {}
    <3>1. Numbers(exact(k))
      BY Positions
    <3>2. \E i \in exact(k) : \A j \in exact(k) : i <= j
      <4> HIDE DEF exact
      <4> QED BY <2>1, <3>1, Smallest
    <3>3. PICK c : c = CHOOSE i \in exact(k) : \A j \in exact(k) : i <= j
      OBVIOUS
    <3>4. c \in exact(k)
      <4> HIDE DEF exact
      <4> QED BY <3>2, <3>3
    <3>5. from(k) = ns[c].uri
      BY <2>1, <3>3
    <3> QED BY <3>4, <3>5
  <2>2. CASE exact(k) = {}
    <3>1. from(k) = CHOOSE u \in alias(k) : TRUE
      BY <2>2
    <3>2. alias(k) # {}
      BY <1>2
    <3> HIDE DEF alias
    <3> QED BY <3>1, <3>2
  <2> QED BY <2>1, <2>2
<1>3. \A k \in Identity : /\ k \in DOMAIN saved => Recorded(saved, k) = {saved[k]}
                          /\ k \notin DOMAIN saved => Recorded(saved, k) = {saved[u] : u \in alias(k)}
  BY DEF Recorded
<1>4. \A k \in DOMAIN saved \cup found : res[k] = IF k \in found THEN saved[from(k)] ELSE saved[k]
  <2> HIDE DEF from, found, alias
  <2> QED BY <1>1
<1>5. DOMAIN res = DOMAIN saved \cup found
  <2> HIDE DEF from, found, alias
  <2> QED BY <1>1
<1>6. PortMap(res)
  <2>1. \A k \in found : from(k) \in DOMAIN saved
    <3> HIDE DEF from
    <3> QED BY <1>2
  <2> HIDE DEF from, found, alias
  <2> QED BY <1>4, <1>5, <2>1 DEF PortMap
<1>7. ASSUME NEW k \in Identity
      PROVE  /\ k \in DOMAIN res <=> Recorded(saved, k) # {}
             /\ k \in DOMAIN res => res[k] \in Recorded(saved, k)
  <2>1. CASE k \in DOMAIN saved
    <3>1. k \notin found
      BY <2>1
    <3> HIDE DEF from, found, alias
    <3> QED BY <1>3, <1>4, <1>5, <2>1, <3>1
  <2>2. CASE k \notin DOMAIN saved
    <3>1. k \in found <=> alias(k) # {}
      BY <2>2
    <3> HIDE DEF from, found, alias
    <3> QED BY <1>2, <1>3, <1>4, <1>5, <2>2, <3>1
  <2> QED BY <2>1, <2>2
<1> QED BY <1>6, <1>7, SMTT(40)

\* What BuildPortMap saves of a list.
LEMMA BuiltPorts ==
  ASSUME NEW ns \in Seq(Node), NEW res, res = BuildPortMap(ns)
  PROVE  /\ PortMap(res) /\ DOMAIN res \subseteq Identity
         /\ \A k \in DOMAIN res : \E i \in DOMAIN ns : Key(ns[i]) = k /\ ns[i].port # 0 /\ res[k] = ns[i].port
         /\ \A i \in DOMAIN ns : ns[i].port # 0 => Key(ns[i]) \in DOMAIN res
<1> DEFINE has(k) == {i \in DOMAIN ns : Key(ns[i]) = k /\ ns[i].port # 0}
           last(S) == CHOOSE i \in S : \A j \in S : j <= i
<1>1. res = [k \in {x \in Identity : has(x) # {}} |-> ns[last(has(k))].port]
  BY DEF BuildPortMap
<1>2. ASSUME NEW k, has(k) # {} PROVE last(has(k)) \in has(k)
  <2>1. Numbers(has(k))
    BY Positions
  <2> HIDE DEF has
  <2>2. \E i \in has(k) : \A j \in has(k) : j <= i
    BY <1>2, <2>1, Largest
  <2> QED BY <2>2
<1>3. ASSUME NEW k \in DOMAIN res
      PROVE  \E i \in DOMAIN ns : Key(ns[i]) = k /\ ns[i].port # 0 /\ res[k] = ns[i].port
  <2>1. has(k) # {} /\ res[k] = ns[last(has(k))].port
    <3> HIDE DEF has, last
    <3> QED BY <1>1
  <2>2. PICK i : i = last(has(k))
    OBVIOUS
  <2>3. i \in has(k)
    BY <1>2, <2>1, <2>2
  <2> QED BY <2>1, <2>2, <2>3
<1>4. ASSUME NEW i \in DOMAIN ns, ns[i].port # 0 PROVE Key(ns[i]) \in DOMAIN res
  <2>1. Key(ns[i]) \in Identity
    BY ListOfNodes DEF Key, Identity
  <2>2. i \in has(Key(ns[i]))
    BY <1>4
  <2> HIDE DEF has, last
  <2> QED BY <1>1, <2>1, <2>2
<1>5. DOMAIN res \subseteq Identity
  <2> HIDE DEF has, last
  <2> QED BY <1>1
<1>6. PortMap(res)
  <2>1. \A i \in DOMAIN ns : ns[i].port # 0 => ns[i].port \in Port
    BY ListOfNodes, PortConstants DEF Port
  <2> QED BY <1>3, <2>1 DEF PortMap
<1> QED BY <1>3, <1>4, <1>5, <1>6

\* Load in multi-port and hybrid mode.  The nodes get ports of their own; one whose port
\* config.yaml states keeps it, and one whose port is on record, for its identity alone,
\* gets it back, unless a listener has the port.
LEMMA LoadedPorts ==
  ASSUME NEW ns \in Seq(Node), NEW saved, PortMap(saved), NEW md \in Mode, MultiPort(md), NEW busy,
         NEW res, res = LoadPorts(ns, saved, md, busy), res # << >>
  PROVE  /\ Alike(ns, res)
         /\ Separate(res, reservedListenerPorts(md))
         /\ \A i \in DOMAIN ns :
              /\ ns[i].src = "inline" /\ ns[i].port \notin reservedListenerPorts(md) \cup {0}
                   => res[i].port = ns[i].port
              /\ \A p \in Port \ reservedListenerPorts(md) :
                   /\ \A j \in DOMAIN ns \ {i} : Key(ns[j]) # Key(ns[i]) /\ p \notin Recorded(saved, Key(ns[j]))
                   /\ ~(ns[i].src = "inline" /\ ns[i].port # 0)
                   /\ Recorded(saved, Key(ns[i])) = {p}
                   => res[i].port = p
<1>1. PICK explicit : explicit = {i \in DOMAIN ns : ns[i].src = "inline" /\ ns[i].port # 0}
  OBVIOUS
<1>2. PICK normal : normal = normalize(ns, md, busy)
  OBVIOUS
<1>3. normal # << >> /\ res = applyPersistedPorts(normal, explicit, saved, md, busy)
  BY <1>1, <1>2 DEF LoadPorts
<1>4. /\ Alike(ns, normal)
      /\ \A i \in DOMAIN ns : ns[i].port # 0 /\ (md = "hybrid" => ns[i].port # ListenerPort)
           => normal[i].port = ns[i].port
  BY <1>2, <1>3, NormalNodes
<1>5. normal \in Seq(Node) /\ DOMAIN normal = DOMAIN ns /\ \A i \in DOMAIN ns : Key(normal[i]) = Key(ns[i])
  BY <1>4 DEF Alike, Key
<1>6. PICK bridged : bridged = bridgeLegacyPortKeys(normal, saved)
  OBVIOUS
<1>7. /\ PortMap(bridged)
      /\ \A k \in Identity : /\ k \in DOMAIN bridged <=> Recorded(saved, k) # {}
                             /\ k \in DOMAIN bridged => bridged[k] \in Recorded(saved, k)
  BY <1>5, <1>6, BridgedPorts
<1>8. PICK owned : owned = {Key(normal[i]) : i \in explicit}
  OBVIOUS
<1>9. PICK map : map = [k \in DOMAIN bridged \ owned |-> bridged[k]]
  OBVIOUS
<1>10. PICK port : port = [i \in DOMAIN normal |-> IF i \in explicit THEN normal[i].port ELSE 0]
  OBVIOUS
<1>11. PICK bare : bare = WithPorts(normal, port)
  OBVIOUS
<1>12. res = NormalizeWithPortMap(bare, map, md, busy)
  BY <1>3, <1>6, <1>8, <1>9, <1>10, <1>11 DEF applyPersistedPorts
<1>13. PortMap(map) /\ \A k : k \in DOMAIN map => k \in DOMAIN bridged /\ k \notin owned /\ map[k] = bridged[k]
  BY <1>7, <1>9 DEF PortMap
<1>14. /\ Alike(normal, bare)
       /\ \A i \in DOMAIN ns : bare[i].port = IF i \in explicit THEN normal[i].port ELSE 0
  <2>1. \A i \in DOMAIN normal : port[i] \in 0..MaxPort
    BY <1>5, <1>10, ListOfNodes, PortConstants
  <2>2. Alike(normal, bare) /\ \A i \in DOMAIN normal : bare[i].port = port[i]
    BY <1>5, <1>11, <2>1, WithPortsNodes
  <2> QED BY <1>5, <1>10, <2>2
<1>15. bare \in Seq(Node) /\ DOMAIN bare = DOMAIN ns /\ \A i \in DOMAIN ns : Key(bare[i]) = Key(ns[i])
  BY <1>5, <1>14 DEF Alike, Key
<1>16. /\ Alike(bare, res) /\ Separate(res, reservedListenerPorts(md))
       /\ \A i \in Preserved(bare, map, reservedListenerPorts(md)) : res[i].port = Mapped(bare, map, i)
       /\ \A i \in DOMAIN bare : Mapped(bare, map, i) = 0 /\ bare[i].port # 0 => res[i].port = bare[i].port
  BY <1>12, <1>13, <1>15, NormalizedPorts
<1>17. Alike(ns, res)
  BY <1>4, <1>14, <1>16, AlikeTrans
<1>18. ASSUME NEW i \in DOMAIN ns, ns[i].src = "inline", ns[i].port \notin reservedListenerPorts(md) \cup {0}
       PROVE  res[i].port = ns[i].port
  <2>1. i \in explicit /\ Key(ns[i]) \in owned
    BY <1>1, <1>5, <1>8, <1>18
  <2>2. md = "hybrid" => ns[i].port # ListenerPort
    BY <1>18 DEF reservedListenerPorts, PoolEntry
  <2>3. bare[i].port = ns[i].port
    BY <1>4, <1>14, <1>18, <2>1, <2>2
  <2>4. Mapped(bare, map, i) = 0
    BY <1>13, <1>15, <2>1 DEF Mapped
  <2> QED BY <1>15, <1>16, <1>18, <2>3, <2>4
<1>19. ASSUME NEW i \in DOMAIN ns, NEW p \in Port, p \notin reservedListenerPorts(md),
              \A j \in DOMAIN ns \ {i} : Key(ns[j]) # Key(ns[i]) /\ p \notin Recorded(saved, Key(ns[j])),
              ~(ns[i].src = "inline" /\ ns[i].port # 0), Recorded(saved, Key(ns[i])) = {p}
       PROVE  res[i].port = p
  <2>1. \A j \in DOMAIN ns : Key(ns[j]) \in Identity
    BY ListOfNodes DEF Key, Identity
  <2>2. Key(ns[i]) \notin owned
    BY <1>1, <1>5, <1>8, <1>19
  <2>3. Key(ns[i]) \in DOMAIN bridged /\ bridged[Key(ns[i])] = p
    BY <1>7, <1>19, <2>1
  <2>4. Mapped(bare, map, i) = p
    BY <1>9, <1>15, <2>2, <2>3 DEF Mapped
  <2>5. p # 0
    BY DEF Port
  <2>6. ASSUME NEW j \in DOMAIN ns, j # i PROVE Mapped(bare, map, j) # p
    <3>1. Key(ns[j]) \in DOMAIN map => map[Key(ns[j])] \in Recorded(saved, Key(ns[j]))
      BY <1>7, <1>13, <2>1
    <3> QED BY <1>15, <1>19, <2>5, <2>6, <3>1 DEF Mapped
  <2>7. \A j \in 1..(i - 1) : j \in DOMAIN ns /\ j # i
    <3>1. DOMAIN ns = 1..Len(ns) /\ Len(ns) \in Nat /\ i \in 1..Len(ns)
      BY LenProperties
    <3> QED BY <3>1
  <2>8. i \in Preserved(bare, map, reservedListenerPorts(md))
    BY <1>15, <1>19, <2>4, <2>5, <2>6, <2>7 DEF Preserved
  <2> QED BY <1>16, <2>4, <2>8
<1> QED BY <1>16, <1>17, <1>18, <1>19

\* Load in pool mode.
LEMMA LoadedInPool ==
  ASSUME NEW ns \in Seq(Node), NEW saved, NEW md \in Mode, ~MultiPort(md), NEW busy,
         NEW res, res = LoadPorts(ns, saved, md, busy), res # << >>
  PROVE  Alike(ns, res)
<1>1. res = normalize(ns, md, busy)
  BY DEF LoadPorts
<1> QED BY <1>1, NormalNodes

-----------------------------------------------------------------------------
(* Ports chosen while the runtime is up. *)

\* The node that moves gets a port nobody has.
LEMMA ReassignedPort ==
  ASSUME NEW ns \in Seq(Node), NEW md \in Mode, NEW conflict \in Nat, NEW busy,
         NEW res, res = reassignConflictingPort(ns, md, conflict, busy), res # << >>
  PROVE  /\ Alike(ns, res)
         /\ \E i \in DOMAIN ns :
              /\ \A j \in DOMAIN ns \ {i} : res[j] = ns[j]
              /\ res[i].port \in Port /\ res[i].port \notin Ports(ns) \cup busy
              /\ md = "hybrid" => res[i].port # ListenerPort
              /\ StickyEnabled /\ PoolEntry(md) => res[i].port # StickyListen
              /\ GeoEnabled => res[i].port # GeoListen
<1>1. PICK used : used = Ports(ns) \cup (IF md = "hybrid" THEN {ListenerPort} ELSE {})
                           \cup (IF StickyEnabled /\ PoolEntry(md) THEN {StickyListen} ELSE {})
                           \cup (IF GeoEnabled THEN {GeoListen} ELSE {})
  OBVIOUS
<1>2. PICK free : free = {p \in (conflict + 1)..MaxPort : p \notin used \cup busy}
  OBVIOUS
<1>3. PICK hit : hit = {i \in DOMAIN ns : ns[i].port = conflict}
  OBVIOUS
<1>4. PICK first : first = {i \in hit : \A j \in hit : i <= j}
  OBVIOUS
<1>5. hit # {} /\ free # {} /\ res = Fill(ns, first, free)
  BY <1>1, <1>2, <1>3, <1>4 DEF reassignConflictingPort
<1>6. free \in SUBSET Port /\ Numbers(free) /\ Cardinality(free) \in Nat \ {0}
  <2>1. free \in SUBSET Port
    BY <1>2, PortConstants DEF Port
  <2>2. free \subseteq 0..MaxPort
    BY <2>1, PortConstants DEF Port
  <2>3. Numbers(free) /\ Cardinality(free) \in Nat
    BY <2>2, PortNumbers
  <2> QED BY <1>5, <2>1, <2>3, FS_EmptySet DEF Numbers
<1>7. PICK i \in hit : \A j \in hit : i <= j
  BY <1>3, <1>5, Positions, Smallest
<1>8. first = {i} /\ i \in DOMAIN ns
  <2>1. \A j \in hit : j \in Nat
    BY <1>3, ListOfNodes
  <2>2. \A j \in hit : j <= i /\ i <= j => j = i
    BY <1>7, <2>1
  <2> QED BY <1>3, <1>4, <1>7, <2>2
<1>9. Enough(first, free)
  <2>1. Rank(first, i) \in 1..Cardinality(first)
    BY <1>8, Positions, RankRange
  <2>2. Cardinality(first) = 1
    BY <1>8, FS_Singleton
  <2>3. Rank(first, i) \in 1..Cardinality(free)
    BY <1>6, <2>1, <2>2
  <2>4. \E p \in free : Rank(free, p) = Rank(first, i)
    BY <1>6, <2>3, RankOnto
  <2> QED BY <1>8, <2>4 DEF Enough
<1>10. Filled(ns, res, first, free)
  BY <1>5, <1>6, <1>8, <1>9, FillNodes
<1>11. res[i].port \in free /\ \A j \in DOMAIN ns \ {i} : res[j] = ns[j]
  BY <1>8, <1>10 DEF Filled
<1>12. res[i].port \notin used \cup busy
  BY <1>2, <1>11
<1> QED BY <1>1, <1>6, <1>8, <1>10, <1>11, <1>12 DEF Filled

\* The next port is a port.
LEMMA NextPort ==
  ASSUME NEW ns \in Seq(Node)
  PROVE  nextAvailablePort(ns) \in Port
<1> DEFINE least(S) == CHOOSE p \in S : \A q \in S : p <= q
<1>1. ASSUME NEW S, S \subseteq Port, S # {} PROVE least(S) \in Port
  <2>1. S \subseteq 0..MaxPort
    BY <1>1, PortConstants DEF Port
  <2>2. \E p \in S : \A q \in S : p <= q
    BY <1>1, <2>1, PortNumbers, Smallest
  <2>3. least(S) \in S
    BY <2>2
  <2> QED BY <1>1, <2>3
<1>2. PICK above, below : above = Cursor \ Ports(ns) /\ below = Port \ Ports(ns)
  OBVIOUS
<1>3. above \subseteq Port /\ below \subseteq Port /\ BasePort \in Port
  BY <1>2, ListenPorts, PortConstants DEF Port
<1>4. nextAvailablePort(ns) = IF above # {} THEN least(above) ELSE IF below # {} THEN least(below) ELSE BasePort
  BY <1>2 DEF nextAvailablePort
<1> HIDE DEF least
<1> QED BY <1>1, <1>3, <1>4

-----------------------------------------------------------------------------
(* What the invariant is made of. *)

\* Sound is Separate.
LEMMA SoundLists ==
  ASSUME NEW ns \in Seq(Node), MultiPort(mode)
  PROVE  Sound(ns) <=> Separate(ns, Elsewhere)
<1>1. Sound(ns) <=> /\ \A i \in DOMAIN ns : ns[i].port \in Port
                    /\ \A i, j \in DOMAIN ns : ns[i].port = ns[j].port => i = j
                    /\ Ports(ns) \cap Elsewhere = {}
  BY DEF Sound, Elsewhere
<1>2. ASSUME \A i \in DOMAIN ns : ns[i].port \in Port
      PROVE  Ports(ns) \cap Elsewhere = {} <=> \A i \in DOMAIN ns : ns[i].port \notin Elsewhere
  <2>1. \A i \in DOMAIN ns : ns[i].port # 0
    BY <1>2 DEF Port
  <2> QED BY <2>1 DEF Ports
<1> QED BY <1>1, <1>2 DEF Separate

\* A list that keeps off the reserved ports is Sound.
LEMMA ReservedSound ==
  ASSUME NEW ns \in Seq(Node), MultiPort(mode) => Separate(ns, reservedListenerPorts(mode))
  PROVE  Sound(ns)
<1>1. CASE MultiPort(mode)
  <2>1. \A x \in Elsewhere : x \in reservedListenerPorts(mode) \/ x = 0
    <3>1. Ports(<< >>) = {}
      BY DEF Ports
    <3> QED BY <1>1, <3>1 DEF Elsewhere, Listeners, reservedListenerPorts
  <2>2. 0 \notin Port
    BY DEF Port
  <2>3. Separate(ns, Elsewhere)
    BY <1>1, <2>1, <2>2 DEF Separate
  <2> QED BY <1>1, <2>3, SoundLists
<1>2. CASE ~MultiPort(mode)
  BY <1>2 DEF Sound
<1> QED BY <1>1, <1>2

\* Moving one node to a port that nobody has keeps a list Sound.
LEMMA MovedSound ==
  ASSUME NEW ns \in Seq(Node), mode \in Mode, Sound(ns), phase # "down", NEW conflict \in Nat,
         NEW res, res = reassignConflictingPort(ns, mode, conflict, Busy), res # << >>
  PROVE  Alike(ns, res) /\ Sound(res)
<1>1. Alike(ns, res)
  BY ReassignedPort
<1>2. res \in Seq(Node) /\ DOMAIN res = DOMAIN ns
  BY <1>1 DEF Alike
<1>3. PICK i \in DOMAIN ns :
              /\ \A j \in DOMAIN ns \ {i} : res[j] = ns[j]
              /\ res[i].port \in Port /\ res[i].port \notin Ports(ns) \cup Busy
              /\ mode = "hybrid" => res[i].port # ListenerPort
              /\ StickyEnabled /\ PoolEntry(mode) => res[i].port # StickyListen
              /\ GeoEnabled => res[i].port # GeoListen
  BY ReassignedPort
<1>4. CASE MultiPort(mode)
  <2>1. Separate(ns, Elsewhere)
    BY <1>4, SoundLists
  <2>2. res[i].port \notin Elsewhere
    <3>1. ManagementPort \in Busy /\ Ports(<< >>) = {}
      BY DEF Busy, Ports
    <3> QED BY <1>3, <1>4, <3>1 DEF Elsewhere, Listeners, MultiPort, PoolEntry
  <2>3. \A j \in DOMAIN ns \ {i} : ns[j].port # res[i].port
    <3>1. 0 \notin Port
      BY DEF Port
    <3> QED BY <1>3, <2>1, <3>1 DEF Ports, Separate
  <2>4. Separate(res, Elsewhere)
    BY <1>2, <1>3, <2>1, <2>2, <2>3 DEF Separate
  <2> QED BY <1>1, <1>2, <1>4, <2>4, SoundLists
<1>5. CASE ~MultiPort(mode)
  BY <1>1, <1>5 DEF Sound
<1> QED BY <1>4, <1>5

\* The port the first clash is about.
LEMMA ClashPortNumber ==
  ASSUME NEW ns \in Seq(Node), Clashing(ns) # {}
  PROVE  FirstClash(ns) \in Nat
<1>1. PICK S : S = Clashing(ns)
  OBVIOUS
<1>2. S \subseteq DOMAIN ns /\ S # {}
  BY <1>1 DEF Clashing
<1>3. \E i \in S : \A j \in S : i <= j
  BY <1>2, Positions, Smallest
<1>4. PICK c : c = CHOOSE i \in S : \A j \in S : i <= j
  OBVIOUS
<1>5. c \in DOMAIN ns
  BY <1>2, <1>3, <1>4
<1>6. FirstClash(ns) = ns[c].port
  BY <1>1, <1>4 DEF FirstClash
<1> QED BY <1>5, <1>6, ListOfNodes, PortConstants

\* Nodes read from a list of URIs.
LEMMA ListedNodes ==
  ASSUME NEW uris \in Seq(URI), NEW src \in Source
  PROVE  /\ Listed(uris, src) \in Seq(Node) /\ URIs(Listed(uris, src)) = uris
         /\ \A i \in DOMAIN Listed(uris, src) : Listed(uris, src)[i].src = src
<1>1. DOMAIN uris = 1..Len(uris) /\ Len(uris) \in Nat /\ \A i \in DOMAIN uris : uris[i] \in URI
  BY LenProperties
<1>2. \A i \in DOMAIN uris : [uri |-> uris[i], port |-> 0, src |-> src] \in Node
  BY <1>1, PortConstants DEF Node
<1>3. Listed(uris, src) \in [1..Len(uris) -> Node]
  BY <1>1, <1>2 DEF Listed
<1>4. Listed(uris, src) \in Seq(Node)
  BY <1>1, <1>3, SeqDef
<1>5. URIs(Listed(uris, src)) = uris
  <2>1. DOMAIN URIs(Listed(uris, src)) = DOMAIN uris
    BY DEF URIs, Listed
  <2>2. \A i \in DOMAIN uris : URIs(Listed(uris, src))[i] = uris[i]
    BY DEF URIs, Listed
  <2>3. URIs(Listed(uris, src)) = [i \in DOMAIN uris |-> URIs(Listed(uris, src))[i]]
    BY DEF URIs, Listed
  <2>4. uris = [i \in DOMAIN uris |-> uris[i]]
    OBVIOUS
  <2> QED BY <2>1, <2>2, <2>3, <2>4
<1> QED BY <1>4, <1>5 DEF Listed

\* The inline nodes of config.yaml.
OwnNodes == [i \in DOMAIN inline |-> [uri |-> inline[i].uri, port |-> inline[i].port, src |-> "inline"]]

\* They are nodes, with the URIs and ports of the file.
LEMMA InlineNodes ==
  ASSUME inline \in Seq([uri : URI, port : 0..MaxPort])
  PROVE  /\ OwnNodes \in Seq(Node) /\ DOMAIN OwnNodes = DOMAIN inline
         /\ \A i \in DOMAIN inline : /\ OwnNodes[i].src = "inline" /\ OwnNodes[i].uri = inline[i].uri
                                     /\ OwnNodes[i].port = inline[i].port
         /\ URIs(OwnNodes) = URIs(inline)
<1>1. /\ DOMAIN inline = 1..Len(inline) /\ Len(inline) \in Nat
      /\ \A i \in DOMAIN inline : inline[i] \in [uri : URI, port : 0..MaxPort]
  BY LenProperties
<1>2. \A i \in DOMAIN inline : [uri |-> inline[i].uri, port |-> inline[i].port, src |-> "inline"] \in Node
  BY <1>1 DEF Node, Source
<1>3. OwnNodes \in [1..Len(inline) -> Node]
  BY <1>1, <1>2 DEF OwnNodes
<1>4. OwnNodes \in Seq(Node)
  <2>1. PICK n : n = Len(inline)
    OBVIOUS
  <2>2. n \in Nat /\ OwnNodes \in [1..n -> Node]
    BY <1>1, <1>3, <2>1
  <2> QED BY <2>2, SeqDef
<1> QED BY <1>4 DEF OwnNodes, URIs

\* The URIs of a list of nodes.
LEMMA URIList ==
  ASSUME NEW ns \in Seq(Node)
  PROVE  URIs(ns) \in Seq(URI)
<1>1. DOMAIN ns = 1..Len(ns) /\ Len(ns) \in Nat
  BY LenProperties
<1>2. URIs(ns) \in [1..Len(ns) -> URI]
  BY <1>1, ListOfNodes DEF URIs
<1> QED BY <1>1, <1>2, SeqDef

\* The identities with one node, and its port.
LEMMA OnlyPorts ==
  ASSUME NEW ns \in Seq(Node)
  PROVE  /\ DOMAIN UniquePorts(ns) \subseteq Identity
         /\ \A k \in DOMAIN UniquePorts(ns) : \E i \in DOMAIN ns :
              /\ Key(ns[i]) = k /\ ns[i].port # 0 /\ UniquePorts(ns)[k] = ns[i].port
              /\ \A j \in DOMAIN ns : Key(ns[j]) = k => j = i
<1> DEFINE with(k) == {i \in DOMAIN ns : Key(ns[i]) = k}
           single == {k \in Identity : \E i \in DOMAIN ns : with(k) = {i} /\ ns[i].port # 0}
<1>1. UniquePorts(ns) = [k \in single |-> ns[CHOOSE i \in DOMAIN ns : with(k) = {i}].port]
  BY DEF UniquePorts
<1>2. DOMAIN UniquePorts(ns) = single
  <2> HIDE DEF single, with
  <2> QED BY <1>1
<1>3. ASSUME NEW k \in single
      PROVE  \E i \in DOMAIN ns : /\ Key(ns[i]) = k /\ ns[i].port # 0 /\ UniquePorts(ns)[k] = ns[i].port
                                  /\ \A j \in DOMAIN ns : Key(ns[j]) = k => j = i
  <2>1. PICK i \in DOMAIN ns : with(k) = {i} /\ ns[i].port # 0
    BY <1>3
  <2>2. (CHOOSE j \in DOMAIN ns : with(k) = {j}) = i
    <3> HIDE DEF with
    <3> QED BY <2>1
  <2>3. UniquePorts(ns)[k] = ns[i].port
    <3> HIDE DEF single, with
    <3> QED BY <1>1, <2>2
  <2> QED BY <2>1, <2>3
<1> QED BY <1>2, <1>3

\* What is owed stays on record while the file does not change.
LEMMA PromiseKept ==
  ASSUME PromiseInv, UNCHANGED mode, UNCHANGED sidecar, DOMAIN pinned' \subseteq DOMAIN pinned,
         \A k \in DOMAIN pinned' : pinned'[k] = pinned[k]
  PROVE  PromiseInv'
  BY DEF PromiseInv

\* SaveNodePortMap records what is owed from now on.
LEMMA PromiseSaved ==
  ASSUME PromiseInv, PortMap(sidecar), DOMAIN pinned \subseteq Identity, UNCHANGED mode,
         NEW ns \in Seq(Node), NEW ok, ok /\ MultiPort(mode) => Separate(ns, {}), SavePorts(ns, ok)
  PROVE  PromiseInv' /\ PortMap(sidecar') /\ DOMAIN pinned' \subseteq Identity
<1>0. PICK now : now = UniquePorts(ns)
  OBVIOUS
<1>1. /\ DOMAIN now \subseteq Identity
      /\ \A k \in DOMAIN now : \E i \in DOMAIN ns :
              /\ Key(ns[i]) = k /\ ns[i].port # 0 /\ now[k] = ns[i].port
              /\ \A j \in DOMAIN ns : Key(ns[j]) = k => j = i
  BY <1>0, OnlyPorts
<1>2. CASE ok /\ MultiPort(mode)
  <2>1. PICK new : new = {k \in DOMAIN now : now[k] \notin reservedListenerPorts(mode)}
    OBVIOUS
  <2>2. sidecar' = BuildPortMap(ns) /\ pinned' = [k \in new |-> now[k]]
    BY <1>0, <1>2, <2>1 DEF SavePorts
  <2>3. PICK saved : saved = BuildPortMap(ns)
    OBVIOUS
  <2>4. /\ PortMap(saved) /\ DOMAIN saved \subseteq Identity
        /\ \A k \in DOMAIN saved : \E i \in DOMAIN ns : Key(ns[i]) = k /\ ns[i].port # 0 /\ saved[k] = ns[i].port
        /\ \A i \in DOMAIN ns : ns[i].port # 0 => Key(ns[i]) \in DOMAIN saved
    BY <2>3, BuiltPorts
  <2>5. \A x \in Identity : x \notin DOMAIN saved => Recorded(saved, x) = {}
    BY <2>4, NodeConstants DEF Recorded
  <2>6. ASSUME NEW k \in new
        PROVE  /\ now[k] \in Port /\ now[k] \notin reservedListenerPorts(mode)
               /\ Recorded(saved, k) = {now[k]}
               /\ \A x \in Identity \ {k} : now[k] \notin Recorded(saved, x)
    <3>1. PICK i \in DOMAIN ns : /\ Key(ns[i]) = k /\ ns[i].port # 0 /\ now[k] = ns[i].port
                                 /\ \A j \in DOMAIN ns : Key(ns[j]) = k => j = i
      BY <1>1, <2>1, <2>6
    <3>2. k \in DOMAIN saved /\ saved[k] = now[k]
      BY <2>4, <3>1
    <3>3. ASSUME NEW x \in Identity \ {k}, now[k] \in Recorded(saved, x) PROVE FALSE
      <4>1. x \in DOMAIN saved /\ saved[x] = now[k]
        BY <2>5, <3>3 DEF Recorded
      <4>2. PICK j \in DOMAIN ns : Key(ns[j]) = x /\ saved[x] = ns[j].port
        BY <2>4, <4>1
      <4>3. i = j
        BY <1>2, <3>1, <4>1, <4>2 DEF Separate
      <4> QED BY <3>1, <3>3, <4>2, <4>3
    <3>4. now[k] \in Port
      BY <2>4, <3>2 DEF PortMap
    <3> QED BY <2>1, <2>6, <3>2, <3>3, <3>4 DEF Recorded
  <2>7. DOMAIN pinned' = new /\ \A k \in new : pinned'[k] = now[k]
    BY <2>2
  <2>8. PromiseInv'
    BY <2>2, <2>3, <2>6, <2>7 DEF PromiseInv
  <2> QED BY <1>1, <2>1, <2>2, <2>3, <2>4, <2>7, <2>8
<1>3. CASE ~(ok /\ MultiPort(mode))
  <2>1. PICK kept : kept = {k \in DOMAIN pinned \cap DOMAIN now : pinned[k] = now[k]}
    OBVIOUS
  <2>2. sidecar' = sidecar /\ pinned' = [k \in kept |-> now[k]]
    BY <1>0, <1>3, <2>1 DEF SavePorts
  <2>3. DOMAIN pinned' \subseteq DOMAIN pinned /\ \A k \in DOMAIN pinned' : pinned'[k] = pinned[k]
    BY <2>1, <2>2
  <2> QED BY <2>2, <2>3, PromiseKept
<1> QED BY <1>2, <1>3

-----------------------------------------------------------------------------
(* Steps. *)

\* The parts of the invariant, for use before a step.
LEMMA NodeFacts ==
  ASSUME NodeInv
  PROVE  /\ mode \in Mode /\ subscribed \in BOOLEAN
         /\ inline \in Seq([uri : URI, port : 0..MaxPort])
         /\ listing = NoFile \/ listing \in Seq(URI)
         /\ listing = NoFile => subscribed
         /\ phase \in Phase /\ nodes \in Seq(Node) /\ box \in Seq(Node) /\ job \in Job
         /\ tries \in 0..MaxTries /\ taken \subseteq Port /\ accurate \in BOOLEAN
         /\ job.op \in {"none", "reload", "refresh", "undo"} /\ job.cand \in Seq(Node)
         /\ job.old \in Seq(Node) /\ job.got \in Seq(URI)
         /\ DOMAIN pinned \subseteq Identity /\ PortMap(sidecar) /\ PromiseInv
         /\ phase = "starting" => Sound(nodes)
         /\ phase = "reloading" /\ job.op # "undo" => Sound(job.cand)
         /\ phase # "down" => InlineOf(nodes)
         /\ phase = "reloading" => InlineOf(job.cand) /\ (job.op # "undo" => InlineOf(job.old))
<1>1. TypeOK /\ FileInv /\ InlineInv /\ PromiseInv
  BY DEF NodeInv, AssignmentSound
<1>2. /\ phase = "starting" => Sound(nodes)
      /\ phase = "reloading" /\ job.op # "undo" => Sound(job.cand)
  BY DEF NodeInv, AssignmentSound
<1>3. job \in Job
  BY <1>1 DEF FileInv
<1>4. /\ job.op \in {"none", "reload", "refresh", "undo"} /\ job.cand \in Seq(Node)
      /\ job.old \in Seq(Node) /\ job.got \in Seq(URI)
  BY <1>3 DEF Job
<1> QED BY <1>1, <1>2, <1>3, <1>4 DEF TypeOK, FileInv, InlineInv

\* What makes the invariant hold after a step.
LEMMA NodeAfter ==
  ASSUME mode' = mode, mode \in Mode, subscribed' = subscribed, subscribed \in BOOLEAN,
         inline' \in Seq([uri : URI, port : 0..MaxPort]),
         listing' = NoFile \/ listing' \in Seq(URI), listing' = NoFile => subscribed,
         phase' \in Phase, nodes' \in Seq(Node), box' \in Seq(Node), job' \in Job,
         tries' \in 0..MaxTries, taken' \subseteq Port, accurate' \in BOOLEAN,
         DOMAIN pinned' \subseteq Identity, PortMap(sidecar'), PromiseInv',
         phase' = "starting" => Sound(nodes'),
         phase' = "reloading" /\ job'.op # "undo" => Sound(job'.cand),
         phase' # "down" => URIs(From(nodes', {"inline"})) = URIs(inline'),
         phase' = "reloading" => URIs(From(job'.cand, {"inline"})) = URIs(inline'),
         phase' = "reloading" /\ job'.op # "undo" => URIs(From(job'.old, {"inline"})) = URIs(inline')
  PROVE  NodeInv'
<1>1. /\ job'.op \in {"none", "reload", "refresh", "undo"} /\ job'.cand \in Seq(Node)
      /\ job'.old \in Seq(Node)
  BY DEF Job
<1>2. TypeOK'
  BY <1>1 DEF TypeOK
<1>3. (phase = "starting" => Sound(nodes))'
  BY DEF Sound, Listeners
<1>4. (phase = "reloading" /\ job.op # "undo" => Sound(job.cand))'
  BY DEF Sound, Listeners
<1>5. FileInv'
  BY DEF FileInv, PortMap
<1>6. InlineInv'
  BY DEF InlineInv, InlineOf
<1> QED BY <1>2, <1>3, <1>4, <1>5, <1>6 DEF NodeInv, AssignmentSound

\* A start from the files: the ports are sound and the inline nodes come first.
LEMMA BootSteps ==
  ASSUME NodeInv, phase = "down", UNCHANGED mode, NEW extra \in Seq(Node),
         \A i \in DOMAIN extra : extra[i].src # "inline", NEW ok, Boot(extra, ok)
  PROVE  /\ phase' \in {"down", "starting"} /\ nodes' \in Seq(Node)
         /\ phase' = "starting" => Sound(nodes') /\ URIs(From(nodes', {"inline"})) = URIs(inline)
         /\ DOMAIN pinned' \subseteq Identity /\ PortMap(sidecar') /\ PromiseInv'
<1>1. PICK all : all = OwnNodes \o extra
  OBVIOUS
<1>2. PICK loaded : loaded = IF all = << >> THEN << >> ELSE LoadPorts(all, sidecar, mode, Busy)
  OBVIOUS
<1>3. IF loaded = << >>
        THEN UNCHANGED <<phase, nodes, sidecar, pinned>>
        ELSE /\ phase' = "starting" /\ nodes' = loaded
             /\ SavePorts(loaded, ok)
  BY <1>1, <1>2 DEF Boot, OwnNodes
<1>4. mode \in Mode /\ PortMap(sidecar) /\ PromiseInv /\ DOMAIN pinned \subseteq Identity /\ nodes \in Seq(Node)
  BY NodeFacts
<1>5. all \in Seq(Node) /\ URIs(From(all, {"inline"})) = URIs(inline)
  <2>1. /\ OwnNodes \in Seq(Node) /\ URIs(OwnNodes) = URIs(inline)
        /\ \A i \in DOMAIN OwnNodes : OwnNodes[i].src = "inline"
    BY NodeFacts, InlineNodes
  <2>2. PICK own : own = OwnNodes
    OBVIOUS
  <2> QED BY <1>1, <2>1, <2>2, InlineFirst
<1>6. CASE loaded = << >>
  <2>1. phase' = phase /\ nodes' = nodes /\ sidecar' = sidecar /\ pinned' = pinned
    BY <1>3, <1>6
  <2>2. PromiseInv'
    BY <1>4, <2>1, PromiseKept
  <2> QED BY <1>4, <2>1, <2>2
<1>7. CASE loaded # << >>
  <2>1. phase' = "starting" /\ nodes' = loaded /\ SavePorts(loaded, ok)
    BY <1>3, <1>7
  <2>2. loaded = LoadPorts(all, sidecar, mode, Busy)
    BY <1>2, <1>7
  <2>3. Alike(all, loaded) /\ (MultiPort(mode) => Separate(loaded, reservedListenerPorts(mode)))
    BY <1>4, <1>5, <1>7, <2>2, LoadedPorts, LoadedInPool
  <2>4. loaded \in Seq(Node) /\ (MultiPort(mode) => Separate(loaded, {}))
    BY <2>3 DEF Alike, Separate
  <2>5. Sound(loaded)
    BY <2>3, <2>4, ReservedSound
  <2>6. URIs(From(loaded, {"inline"})) = URIs(inline)
    BY <1>5, <2>3, FromAlike
  <2>7. PromiseInv' /\ PortMap(sidecar') /\ DOMAIN pinned' \subseteq Identity
    BY <1>4, <2>1, <2>4, PromiseSaved
  <2> QED BY <2>1, <2>4, <2>5, <2>6, <2>7
<1> QED BY <1>6, <1>7

\* A start without subscriptions.
LEMMA LoadFilesKeeps ==
  ASSUME NodeInv, NEW ok, LoadFiles(ok)
  PROVE  NodeInv'
<1>1. listing \in Seq(URI)
  BY NodeFacts DEF LoadFiles
<1>2. PICK extra : extra = Listed(listing, "file")
  OBVIOUS
<1>3. extra \in Seq(Node) /\ \A i \in DOMAIN extra : extra[i].src # "inline"
  BY <1>1, <1>2, ListedNodes DEF Source
<1>4. /\ phase = "down" /\ Boot(extra, ok) /\ accurate' \in BOOLEAN
      /\ mode' = mode /\ subscribed' = subscribed /\ inline' = inline /\ listing' = listing
      /\ box' = box /\ job' = job /\ tries' = tries /\ taken' = taken
  BY <1>2 DEF LoadFiles
<1>5. /\ phase' \in {"down", "starting"} /\ nodes' \in Seq(Node)
      /\ phase' = "starting" => Sound(nodes') /\ URIs(From(nodes', {"inline"})) = URIs(inline)
      /\ DOMAIN pinned' \subseteq Identity /\ PortMap(sidecar') /\ PromiseInv'
  BY <1>3, <1>4, BootSteps
<1> QED BY <1>4, <1>5, NodeFacts, NodeAfter DEF Phase

\* What a start with subscriptions does to the cache.
LEMMA CacheSteps ==
  ASSUME NodeInv, NEW get \in Fetches, NEW got \in Gathered(get), NEW writeOk, NEW ok,
         LoadSubscribed(get, got, writeOk, ok)
  PROVE  /\ got \in Seq(URI)
         /\ listing' = listing \/ (listing' = got /\ ~shouldUseCachedSubscriptionNodes(got, get))
         /\ listing' = NoFile \/ listing' \in Seq(URI)
<1>1. got \in Seq(URI)
  BY GatheredList
<1> QED BY <1>1, NodeFacts DEF LoadSubscribed

\* A start with subscriptions.
LEMMA LoadSubscribedKeeps ==
  ASSUME NodeInv, NEW get \in Fetches, NEW got \in Gathered(get), NEW writeOk, NEW ok,
         LoadSubscribed(get, got, writeOk, ok)
  PROVE  NodeInv'
<1>1. got \in Seq(URI) /\ (listing' = NoFile \/ listing' \in Seq(URI))
  BY CacheSteps
<1>2. PICK used : used = IF shouldUseCachedSubscriptionNodes(got, get) THEN listing ELSE got
  OBVIOUS
<1>3. used \in Seq(URI)
  BY <1>1, <1>2, NodeFacts DEF shouldUseCachedSubscriptionNodes
<1>4. PICK extra : extra = Listed(used, "subscription")
  OBVIOUS
<1>5. extra \in Seq(Node) /\ \A i \in DOMAIN extra : extra[i].src # "inline"
  BY <1>3, <1>4, ListedNodes DEF Source
<1>6. /\ phase = "down" /\ subscribed /\ Boot(extra, ok) /\ accurate' \in BOOLEAN
      /\ mode' = mode /\ subscribed' = subscribed /\ inline' = inline
      /\ box' = box /\ job' = job /\ tries' = tries /\ taken' = taken
  BY <1>2, <1>4 DEF LoadSubscribed
<1>7. /\ phase' \in {"down", "starting"} /\ nodes' \in Seq(Node)
      /\ phase' = "starting" => Sound(nodes') /\ URIs(From(nodes', {"inline"})) = URIs(inline)
      /\ DOMAIN pinned' \subseteq Identity /\ PortMap(sidecar') /\ PromiseInv'
  BY <1>5, <1>6, BootSteps
<1> QED BY <1>1, <1>6, <1>7, NodeFacts, NodeAfter DEF Phase

\* A round of Start.
LEMMA StartAttemptKeeps ==
  ASSUME NodeInv, StartAttempt
  PROVE  NodeInv'
<1>1. PICK moved : moved = reassignConflictingPort(nodes, mode, FirstClash(nodes), Busy)
  OBVIOUS
<1>2. /\ phase = "starting" /\ accurate' = accurate
      /\ mode' = mode /\ subscribed' = subscribed /\ inline' = inline /\ listing' = listing
      /\ sidecar' = sidecar /\ job' = job /\ taken' = taken
  BY DEF StartAttempt, durable
<1>3. CASE phase' = "up" /\ box' = nodes /\ tries' = 0 /\ nodes' = nodes /\ pinned' = pinned
  <2>1. PromiseInv'
    BY <1>2, <1>3, NodeFacts, PromiseKept
  <2>2. tries' \in 0..MaxTries
    BY <1>3, NodeConstants
  <2> QED BY <1>2, <1>3, <2>1, <2>2, NodeFacts, NodeAfter DEF Phase, InlineOf
<1>4. CASE /\ Clashing(nodes) # {} /\ tries < MaxTries /\ moved # << >>
           /\ nodes' = moved /\ tries' = tries + 1
           /\ pinned' = [k \in {x \in DOMAIN pinned :
                                  \A i \in DOMAIN nodes : Key(nodes[i]) = x => moved[i] = nodes[i]}
                           |-> pinned[k]]
           /\ phase' = phase /\ box' = box
  <2>1. DOMAIN pinned' \subseteq DOMAIN pinned /\ \A k \in DOMAIN pinned' : pinned'[k] = pinned[k]
    BY <1>4
  <2>2. PromiseInv'
    BY <1>2, <2>1, NodeFacts, PromiseKept
  <2>3. tries' \in 0..MaxTries
    BY <1>4, NodeFacts, NodeConstants
  <2>4. nodes \in Seq(Node) /\ mode \in Mode /\ Sound(nodes) /\ phase # "down" /\ InlineOf(nodes)
    BY <1>2, NodeFacts
  <2>5. FirstClash(nodes) \in Nat
    BY <1>4, <2>4, ClashPortNumber
  <2>6. Alike(nodes, moved) /\ Sound(moved)
    BY <1>1, <1>4, <2>4, <2>5, MovedSound
  <2>7. moved \in Seq(Node) /\ URIs(From(moved, {"inline"})) = URIs(inline)
    BY <2>4, <2>6, FromAlike DEF Alike, InlineOf
  <2> QED BY <1>2, <1>4, <2>1, <2>2, <2>3, <2>6, <2>7, NodeFacts, NodeAfter DEF Phase
<1>5. CASE phase' = "down" /\ nodes' = << >> /\ tries' = 0 /\ box' = box /\ pinned' = pinned
  <2>1. PromiseInv'
    BY <1>2, <1>5, NodeFacts, PromiseKept
  <2>2. tries' \in 0..MaxTries /\ << >> \in Seq(Node)
    BY <1>5, NodeConstants
  <2> QED BY <1>2, <1>5, <2>1, <2>2, NodeFacts, NodeAfter DEF Phase
<1> QED BY <1>1, <1>3, <1>4, <1>5 DEF StartAttempt

\* The job of a process that has none.
LEMMA NoJobIs == NoJob \in Job /\ << >> \in Seq(Node) /\ NoBox \in Seq(Node) /\ 0 \in 0..MaxTries
  BY NodeConstants DEF NoJob, NoBox, Job

\* The end of the process.
LEMMA ExitKeeps ==
  ASSUME NodeInv, Exit
  PROVE  NodeInv'
<1>1. /\ phase' = "down" /\ nodes' = << >> /\ box' = NoBox /\ job' = NoJob /\ tries' = 0 /\ accurate' = accurate
      /\ mode' = mode /\ subscribed' = subscribed /\ inline' = inline /\ listing' = listing
      /\ sidecar' = sidecar /\ taken' = taken /\ pinned' = pinned
  BY DEF Exit, durable
<1>2. PromiseInv'
  BY <1>1, NodeFacts, PromiseKept
<1> QED BY <1>1, <1>2, NoJobIs, NodeFacts, NodeAfter DEF Phase

\* An edit of the node list, whether SaveNodes succeeds or not.
LEMMA EditKeeps ==
  ASSUME NodeInv, NEW edited \in Seq(Node), NEW outcome, NEW keys, Edit(edited, outcome, keys)
  PROVE  NodeInv'
<1>1. /\ phase \in {"up", "stalled"} /\ SaveNodes(edited, outcome)
      /\ pinned' = [k \in DOMAIN pinned \ keys |-> pinned[k]]
      /\ mode' = mode /\ subscribed' = subscribed /\ sidecar' = sidecar /\ phase' = phase
      /\ box' = box /\ job' = job /\ tries' = tries /\ taken' = taken
  BY DEF Edit, Forget
<1>2. PICK own : own = From(edited, {"inline"})
  OBVIOUS
<1>3. PICK rest : rest = FromFile(edited)
  OBVIOUS
<1>4. own \in Seq(Node) /\ rest \in Seq(URI)
  BY <1>2, <1>3, FromNodes, URIList DEF FromFile
<1>5. PICK yaml : yaml = [i \in DOMAIN own |-> [uri |-> own[i].uri, port |-> own[i].port]]
  OBVIOUS
<1>6. yaml \in Seq([uri : URI, port : 0..MaxPort]) /\ URIs(yaml) = URIs(own)
  <2>1. DOMAIN own = 1..Len(own) /\ Len(own) \in Nat
    BY <1>4, LenProperties
  <2>2. \A i \in DOMAIN own : [uri |-> own[i].uri, port |-> own[i].port] \in [uri : URI, port : 0..MaxPort]
    BY <1>4, ListOfNodes
  <2>3. yaml \in [1..Len(own) -> [uri : URI, port : 0..MaxPort]]
    BY <1>5, <2>1, <2>2
  <2>4. \A i \in DOMAIN own : yaml[i].uri = own[i].uri
    BY <1>5
  <2> QED BY <1>5, <2>1, <2>3, <2>4, SeqDef DEF URIs
<1>7. /\ nodes' = IF outcome = "saved" THEN edited ELSE nodes
      /\ listing' = IF outcome = "unwritable" THEN listing ELSE rest
      /\ inline' = IF outcome = "saved" THEN yaml ELSE inline
      /\ accurate' \in BOOLEAN
  BY <1>1, <1>2, <1>3, <1>5 DEF SaveNodes
<1>8. PromiseInv' /\ DOMAIN pinned' \subseteq Identity
  <2>1. DOMAIN pinned' \subseteq DOMAIN pinned /\ \A k \in DOMAIN pinned' : pinned'[k] = pinned[k]
    BY <1>1
  <2> QED BY <1>1, <2>1, NodeFacts, PromiseKept
<1>9. listing' = NoFile \/ listing' \in Seq(URI)
  BY <1>4, <1>7, NodeFacts
<1>10. listing' = NoFile => subscribed
  BY <1>4, <1>7, NodeFacts, NodeConstants
<1>11. /\ inline' \in Seq([uri : URI, port : 0..MaxPort]) /\ nodes' \in Seq(Node)
       /\ accurate' \in BOOLEAN
       /\ URIs(From(nodes', {"inline"})) = URIs(inline')
  BY <1>1, <1>2, <1>6, <1>7, NodeFacts DEF InlineOf
<1> QED BY <1>1, <1>8, <1>9, <1>10, <1>11, NodeFacts, NodeAfter DEF Phase

\* An edit makes a list of nodes.
EditsTo(outcome) == \E edited \in Seq(Node) : \E keys : Edit(edited, outcome, keys)

\* The port an edit gets.
LEMMA PreparedPort ==
  ASSUME nodes \in Seq(Node), NEW port \in 0..MaxPort
  PROVE  Prepared(port) \in 0..MaxPort
<1>1. nextAvailablePort(nodes) \in 0..MaxPort
  BY NextPort DEF Port
<1> QED BY <1>1 DEF Prepared

\* A new node.
LEMMA CreateEdits ==
  ASSUME NodeInv, NEW u \in EditURIs, NEW p \in EditPorts, NEW o, CreateNode(u, p, o)
  PROVE  EditsTo(o)
<1>1. nodes \in Seq(Node)
  BY NodeFacts
<1>2. Prepared(p) \in 0..MaxPort /\ u \in URI
  BY <1>1, PreparedPort, NodeConstants
<1>3. PICK n : n = [uri |-> u, port |-> Prepared(p), src |-> "inline"]
  OBVIOUS
<1>4. n \in Node
  BY <1>2, <1>3 DEF Node, Source
<1>5. PICK edited : edited = Append(nodes, n)
  OBVIOUS
<1>6. edited \in Seq(Node)
  BY <1>1, <1>4, <1>5, AppendProperties
<1>7. Edit(edited, o, {KeyOf[u]})
  BY <1>3, <1>5 DEF CreateNode
<1> QED BY <1>6, <1>7 DEF EditsTo

\* A changed node.
LEMMA UpdateEdits ==
  ASSUME NodeInv, NEW name \in URI, NEW u \in EditURIs \cup {name}, NEW p \in EditPorts, NEW o,
         UpdateNode(name, u, p, o)
  PROVE  EditsTo(o)
<1>1. nodes \in Seq(Node)
  BY NodeFacts
<1>2. Prepared(p) \in 0..MaxPort /\ u \in URI
  BY <1>1, PreparedPort, NodeConstants
<1>3. PICK i \in NamedAt(name) :
        Edit([nodes EXCEPT ![i] = [uri |-> u, port |-> Prepared(p), src |-> @.src]], o, {KeyOf[u], KeyOf[name]})
  BY DEF UpdateNode
<1>4. i \in 1..Len(nodes) /\ nodes[i] \in Node
  BY <1>1, <1>3, ListOfNodes, LenProperties DEF NamedAt
<1>5. PICK n : n = [uri |-> u, port |-> Prepared(p), src |-> nodes[i].src]
  OBVIOUS
<1>6. n \in Node
  BY <1>2, <1>4, <1>5 DEF Node
<1>7. PICK edited : edited = [nodes EXCEPT ![i] = n]
  OBVIOUS
<1>8. edited \in Seq(Node)
  BY <1>1, <1>4, <1>6, <1>7, ExceptSeq
<1>9. Edit(edited, o, {KeyOf[u], KeyOf[name]})
  BY <1>3, <1>5, <1>7
<1> QED BY <1>8, <1>9 DEF EditsTo

\* A deleted node.
LEMMA DeleteEdits ==
  ASSUME NodeInv, NEW name \in URI, NEW o, DeleteNode(name, o)
  PROVE  EditsTo(o)
<1>1. nodes \in Seq(Node) /\ Len(nodes) \in Nat
  BY NodeFacts, LenProperties
<1>2. PICK i \in NamedAt(name) :
        Edit(SubSeq(nodes, 1, i - 1) \o SubSeq(nodes, i + 1, Len(nodes)), o, {KeyOf[name]})
  BY DEF DeleteNode
<1>3. i \in 1..Len(nodes)
  BY <1>1, <1>2, LenProperties DEF NamedAt
<1>4. PICK before, after : before = SubSeq(nodes, 1, i - 1) /\ after = SubSeq(nodes, i + 1, Len(nodes))
  OBVIOUS
<1>5. before \in Seq(Node) /\ after \in Seq(Node)
  <2>1. \A j \in 1..(i - 1) : j \in 1..Len(nodes)
    BY <1>1, <1>3
  <2>2. \A j \in (i + 1)..Len(nodes) : j \in 1..Len(nodes)
    BY <1>1, <1>3
  <2> QED BY <1>1, <1>3, <1>4, <2>1, <2>2, SubSeqProperties
<1>6. before \o after \in Seq(Node)
  BY <1>5, ConcatProperties
<1>7. PICK edited : edited = before \o after
  OBVIOUS
<1> QED BY <1>2, <1>4, <1>6, <1>7 DEF EditsTo

\* Each of the three is one.
LEMMA EditSteps ==
  ASSUME NodeInv,
         \/ \E u \in EditURIs, p \in EditPorts, o \in Outcome : CreateNode(u, p, o)
         \/ \E n \in URI : \E u \in EditURIs \cup {n}, p \in EditPorts, o \in Outcome : UpdateNode(n, u, p, o)
         \/ \E n \in URI, o \in Outcome : DeleteNode(n, o)
  PROVE  \E o \in Outcome : EditsTo(o)
<1>1. CASE \E u \in EditURIs, p \in EditPorts, o \in Outcome : CreateNode(u, p, o)
  BY <1>1, CreateEdits
<1>2. CASE \E n \in URI : \E u \in EditURIs \cup {n}, p \in EditPorts, o \in Outcome : UpdateNode(n, u, p, o)
  <2>1. PICK n \in URI : \E u \in EditURIs \cup {n}, p \in EditPorts, o \in Outcome : UpdateNode(n, u, p, o)
    BY <1>2
  <2> QED BY <2>1, UpdateEdits
<1>3. CASE \E n \in URI, o \in Outcome : DeleteNode(n, o)
  BY <1>3, DeleteEdits
<1> QED BY <1>1, <1>2, <1>3

\* The candidate of a reload has sound ports and the inline nodes.
LEMMA ReloadSteps ==
  ASSUME NodeInv, phase = "up", NEW ns \in Seq(Node), InlineOf(ns), NEW op, NEW got, Reload(op, ns, got)
  PROVE  \/ UNCHANGED <<phase, box, job>>
         \/ \E cand \in Seq(Node) :
              /\ phase' = "reloading" /\ box' = NoBox
              /\ job' = [op |-> op, cand |-> cand, old |-> nodes, got |-> got]
              /\ Sound(cand) /\ URIs(From(cand, {"inline"})) = URIs(inline)
              /\ cand = NormalizeWithPortMap(ns, BuildPortMap(nodes), mode, Busy) /\ cand # << >>
              /\ Alike(ns, cand)
<1>1. PICK cand : cand = IF ns = << >> THEN << >> ELSE NormalizeWithPortMap(ns, BuildPortMap(nodes), mode, Busy)
  OBVIOUS
<1>2. IF cand = << >>
        THEN UNCHANGED <<phase, box, job>>
        ELSE /\ phase' = "reloading" /\ box' = NoBox
             /\ job' = [op |-> op, cand |-> cand, old |-> nodes, got |-> got]
  BY <1>1 DEF Reload
<1>3. CASE cand # << >>
  <2>1. cand = NormalizeWithPortMap(ns, BuildPortMap(nodes), mode, Busy)
    BY <1>1, <1>3
  <2>2. PICK saved : saved = BuildPortMap(nodes)
    OBVIOUS
  <2>3. PortMap(saved) /\ mode \in Mode
    BY <2>2, NodeFacts, BuiltPorts
  <2>4. Alike(ns, cand) /\ (MultiPort(mode) => Separate(cand, reservedListenerPorts(mode)))
    BY <1>3, <2>1, <2>2, <2>3, NormalizedPorts, NormalizedInPool
  <2>5. cand \in Seq(Node)
    BY <2>4 DEF Alike
  <2>6. Sound(cand) /\ URIs(From(cand, {"inline"})) = URIs(inline)
    BY <2>4, <2>5, ReservedSound, FromAlike DEF InlineOf
  <2> QED BY <1>2, <1>3, <2>1, <2>4, <2>5, <2>6
<1> QED BY <1>2, <1>3

\* A reload or refresh that begins or is refused.
LEMMA ReloadKeeps ==
  ASSUME NodeInv, phase = "up", NEW ns \in Seq(Node), InlineOf(ns), NEW op \in {"reload", "refresh"},
         NEW got \in Seq(URI), Reload(op, ns, got),
         UNCHANGED <<mode, subscribed, inline, listing, sidecar, nodes, tries, taken, accurate, pinned>>
  PROVE  NodeInv'
<1>1. /\ mode' = mode /\ subscribed' = subscribed /\ inline' = inline /\ listing' = listing
      /\ sidecar' = sidecar /\ nodes' = nodes /\ tries' = tries /\ taken' = taken /\ pinned' = pinned
      /\ accurate' = accurate
  OBVIOUS
<1>2. PromiseInv'
  BY <1>1, NodeFacts, PromiseKept
<1>3. CASE UNCHANGED <<phase, box, job>>
  BY <1>1, <1>2, <1>3, NodeFacts, NodeAfter DEF Phase, InlineOf
<1>4. CASE \E cand \in Seq(Node) :
             /\ phase' = "reloading" /\ box' = NoBox
             /\ job' = [op |-> op, cand |-> cand, old |-> nodes, got |-> got]
             /\ Sound(cand) /\ URIs(From(cand, {"inline"})) = URIs(inline)
  <2>1. PICK cand \in Seq(Node) :
             /\ phase' = "reloading" /\ box' = NoBox
             /\ job' = [op |-> op, cand |-> cand, old |-> nodes, got |-> got]
             /\ Sound(cand) /\ URIs(From(cand, {"inline"})) = URIs(inline)
    BY <1>4
  <2>2. job' \in Job /\ job'.op # "undo" /\ job'.cand = cand /\ job'.old = nodes
    BY <2>1, NodeFacts DEF Job
  <2> QED BY <1>1, <1>2, <2>1, <2>2, NoJobIs, NodeFacts, NodeAfter DEF Phase, InlineOf
<1> QED BY <1>3, <1>4, ReloadSteps

\* A manual reload.
LEMMA TriggerReloadKeeps ==
  ASSUME NodeInv, TriggerReload
  PROVE  NodeInv'
<1>1. /\ phase = "up" /\ Reload("reload", nodes, << >>)
      /\ UNCHANGED <<mode, subscribed, inline, listing, sidecar, nodes, tries, taken, accurate, pinned>>
  BY DEF TriggerReload, durable
<1>2. nodes \in Seq(Node) /\ InlineOf(nodes) /\ << >> \in Seq(URI)
  BY <1>1, NodeFacts
<1> QED BY <1>1, <1>2, ReloadKeeps

\* The node list of a refresh has the inline nodes.
LEMMA CreatedNodes ==
  ASSUME NodeInv, phase = "up", NEW got \in Seq(URI)
  PROVE  createConfig(got) \in Seq(Node) /\ InlineOf(createConfig(got))
<1>1. PICK own, extra : own = From(nodes, {"inline"}) /\ extra = Listed(got, "subscription")
  OBVIOUS
<1>2. own \in Seq(Node) /\ \A i \in DOMAIN own : own[i].src = "inline"
  BY <1>1, NodeFacts, FromNodes
<1>3. extra \in Seq(Node) /\ \A i \in DOMAIN extra : extra[i].src # "inline"
  BY <1>1, ListedNodes DEF Source
<1>4. own \o extra \in Seq(Node) /\ URIs(From(own \o extra, {"inline"})) = URIs(own)
  BY <1>2, <1>3, InlineFirst
<1>5. URIs(own) = URIs(inline)
  BY <1>1, NodeFacts DEF InlineOf
<1> QED BY <1>1, <1>4, <1>5 DEF createConfig, InlineOf

\* A refresh.
LEMMA RefreshKeeps ==
  ASSUME NodeInv, NEW get \in Fetches, NEW got \in Gathered(get), Refresh(get, got)
  PROVE  NodeInv'
<1>1. /\ phase = "up"
      /\ UNCHANGED <<mode, subscribed, inline, listing, sidecar, nodes, tries, taken, accurate, pinned>>
  BY DEF Refresh, durable
<1>2. CASE AnyFailed(get) \/ AnyEmpty(get)
  <2>1. phase' = phase /\ box' = box /\ job' = job
    BY <1>2 DEF Refresh
  <2>2. /\ mode' = mode /\ subscribed' = subscribed /\ inline' = inline /\ listing' = listing
        /\ sidecar' = sidecar /\ nodes' = nodes /\ tries' = tries /\ taken' = taken /\ pinned' = pinned
        /\ accurate' = accurate
    BY <1>1
  <2>3. PromiseInv'
    BY <2>2, NodeFacts, PromiseKept
  <2> QED BY <1>1, <2>1, <2>2, <2>3, NodeFacts, NodeAfter DEF Phase, InlineOf
<1>3. CASE ~(AnyFailed(get) \/ AnyEmpty(get))
  <2>1. PICK ns : ns = createConfig(got)
    OBVIOUS
  <2>2. Reload("refresh", ns, got)
    BY <1>3, <2>1 DEF Refresh
  <2>3. got \in Seq(URI)
    BY GatheredList
  <2>4. ns \in Seq(Node) /\ InlineOf(ns)
    BY <1>1, <2>1, <2>3, CreatedNodes
  <2> QED BY <1>1, <2>2, <2>3, <2>4, ReloadKeeps
<1> QED BY <1>2, <1>3

\* A round of a reload that moves a node.
LEMMA ReloadMovesKeeps ==
  ASSUME NodeInv, ReloadMoves
  PROVE  NodeInv'
<1>1. PICK moved : moved = reassignConflictingPort(job.cand, mode, FirstClash(job.cand), Busy)
  OBVIOUS
<1>2. /\ phase = "reloading" /\ Clashing(job.cand) # {} /\ tries < MaxTries /\ moved # << >>
      /\ job' = [job EXCEPT !.cand = moved] /\ tries' = tries + 1 /\ accurate' = accurate
      /\ mode' = mode /\ subscribed' = subscribed /\ inline' = inline /\ listing' = listing
      /\ sidecar' = sidecar /\ phase' = phase /\ nodes' = nodes /\ box' = box /\ taken' = taken
      /\ pinned' = pinned
  BY <1>1 DEF ReloadMoves, durable
<1>3. PICK cand : cand = job.cand
  OBVIOUS
<1>4. cand \in Seq(Node) /\ mode \in Mode /\ URIs(From(cand, {"inline"})) = URIs(inline)
  BY <1>2, <1>3, NodeFacts DEF InlineOf
<1>5. FirstClash(cand) \in Nat
  BY <1>2, <1>3, <1>4, ClashPortNumber
<1>6. Alike(cand, moved)
  BY <1>1, <1>2, <1>3, <1>4, <1>5, ReassignedPort
<1>7. moved \in Seq(Node) /\ URIs(From(moved, {"inline"})) = URIs(inline)
  BY <1>4, <1>6, FromAlike DEF Alike
<1>8. job.op # "undo" => Sound(moved)
  BY <1>1, <1>2, <1>3, <1>4, <1>5, NodeFacts, MovedSound
<1>9. job' \in Job /\ job'.cand = moved /\ job'.op = job.op /\ job'.old = job.old
  BY <1>2, <1>7, NodeFacts DEF Job
<1>10. tries' \in 0..MaxTries
  BY <1>2, NodeFacts, NodeConstants
<1>11. PromiseInv'
  BY <1>2, NodeFacts, PromiseKept
<1> QED BY <1>2, <1>7, <1>8, <1>9, <1>10, <1>11, NodeFacts, NodeAfter DEF Phase, InlineOf

\* The new box runs.
LEMMA ReloadCommitsKeeps ==
  ASSUME NodeInv, NEW writeOk \in BOOLEAN, NEW saveOk \in BOOLEAN, ReloadCommits(writeOk, saveOk)
  PROVE  NodeInv'
<1>1. PICK undo : undo = (job.op = "refresh" /\ ~writeOk)
  OBVIOUS
<1>2. PICK ok : ok = (saveOk /\ ~undo /\ job.op # "undo")
  OBVIOUS
<1>3. PICK cand : cand = job.cand
  OBVIOUS
<1>4. /\ phase = "reloading" /\ nodes' = cand /\ tries' = 0 /\ accurate' \in BOOLEAN
      /\ phase' = IF undo THEN "reloading" ELSE "up"
      /\ box' = IF undo THEN NoBox ELSE cand
      /\ job' = IF undo THEN [NoJob EXCEPT !.op = "undo", !.cand = job.old] ELSE NoJob
      /\ listing' = IF job.op = "refresh" /\ writeOk THEN job.got ELSE listing
      /\ SavePorts(cand, ok)
      /\ mode' = mode /\ subscribed' = subscribed /\ inline' = inline /\ taken' = taken
  BY <1>1, <1>2, <1>3 DEF ReloadCommits
<1>5. cand \in Seq(Node) /\ URIs(From(cand, {"inline"})) = URIs(inline)
  BY <1>3, <1>4, NodeFacts DEF InlineOf
<1>6. ok /\ MultiPort(mode) => Separate(cand, {})
  <2>1. ok /\ MultiPort(mode) => Separate(cand, Elsewhere)
    BY <1>2, <1>3, <1>4, <1>5, NodeFacts, SoundLists
  <2> QED BY <2>1 DEF Separate
<1>7. PromiseInv' /\ PortMap(sidecar') /\ DOMAIN pinned' \subseteq Identity
  BY <1>4, <1>5, <1>6, NodeFacts, PromiseSaved
<1>8. listing' = NoFile \/ listing' \in Seq(URI)
  BY <1>4, NodeFacts
<1>9. listing' = NoFile => subscribed
  BY <1>4, NodeFacts, NodeConstants
<1>10. CASE undo
  <2>1. job' \in Job /\ job'.op = "undo" /\ job'.cand = job.old
    <3>1. job' = [NoJob EXCEPT !.op = "undo", !.cand = job.old]
      BY <1>4, <1>10
    <3>2. job' = [op |-> "undo", cand |-> job.old, old |-> << >>, got |-> << >>]
      BY <3>1 DEF NoJob
    <3>3. job.old \in Seq(Node) /\ << >> \in Seq(Node) /\ << >> \in Seq(URI)
      BY NodeFacts
    <3> QED BY <3>2, <3>3 DEF Job
  <2>2. URIs(From(job.old, {"inline"})) = URIs(inline)
    BY <1>1, <1>4, <1>10, NodeFacts DEF InlineOf
  <2> QED BY <1>4, <1>5, <1>7, <1>8, <1>9, <1>10, <2>1, <2>2, NoJobIs, NodeFacts, NodeAfter DEF Phase
<1>11. CASE ~undo
  BY <1>4, <1>5, <1>7, <1>8, <1>9, <1>11, NoJobIs, NodeFacts, NodeAfter DEF Phase
<1> QED BY <1>10, <1>11

\* A reload that is given up.
LEMMA ReloadFailsKeeps ==
  ASSUME NodeInv, ReloadFails
  PROVE  NodeInv'
<1>1. /\ phase = "reloading" /\ phase' \in {"up", "stalled"} /\ box' \in {nodes, NoBox}
      /\ job' = NoJob /\ tries' = 0 /\ accurate' \in BOOLEAN
      /\ mode' = mode /\ subscribed' = subscribed /\ inline' = inline /\ listing' = listing
      /\ sidecar' = sidecar /\ nodes' = nodes /\ taken' = taken /\ pinned' = pinned
  BY DEF ReloadFails, durable
<1>2. PromiseInv'
  BY <1>1, NodeFacts, PromiseKept
<1> QED BY <1>1, <1>2, NoJobIs, NodeFacts, NodeAfter DEF Phase, InlineOf

\* Another process takes or releases a port.
LEMMA OthersKeep ==
  ASSUME NodeInv, NEW p \in GrabPorts, Grab(p) \/ Release(p)
  PROVE  NodeInv'
<1>1. /\ accurate' = accurate /\ taken' \in {taken \cup {p}, taken \ {p}}
      /\ mode' = mode /\ subscribed' = subscribed /\ inline' = inline /\ listing' = listing
      /\ sidecar' = sidecar /\ phase' = phase /\ nodes' = nodes /\ box' = box /\ job' = job
      /\ tries' = tries /\ pinned' = pinned
  BY DEF Grab, Release, durable, memory
<1>2. taken' \subseteq Port
  BY <1>1, NodeFacts, NodeConstants
<1>3. PromiseInv'
  BY <1>1, NodeFacts, PromiseKept
<1> QED BY <1>1, <1>2, <1>3, NodeFacts, NodeAfter DEF Phase, InlineOf

\* A step that changes nothing.
LEMMA NodeStutters ==
  ASSUME NodeInv, UNCHANGED vars
  PROVE  NodeInv'
  BY DEF NodeInv, AssignmentSound, TypeOK, Sound, Listeners, FileInv, PortMap, InlineInv, InlineOf,
         PromiseInv, vars, durable, memory

\* The invariant holds before the first start.
LEMMA NodeInit ==
  ASSUME Init
  PROVE  NodeInv
<1>1. PICK s \in Setups : mode = s[1] /\ subscribed = s[2]
  BY DEF Init
<1>2. mode \in Mode /\ subscribed \in BOOLEAN
  BY <1>1, NodeConstants
<1>3. /\ inline \in YamlNodes /\ listing \in CacheFiles /\ sidecar \in Sidecars
      /\ listing = NoFile => subscribed
      /\ phase = "down" /\ nodes = << >> /\ box = NoBox /\ job = NoJob /\ tries = 0
      /\ taken = {} /\ accurate = TRUE
  BY DEF Init
<1>4. PortMap(sidecar)
  BY <1>3, NodeConstants DEF PortMap
<1>5. job.cand = << >> /\ job.old = << >> /\ job.op = "none"
  BY <1>3 DEF NoJob
<1> DEFINE own(k) == \E p \in Recorded(sidecar, k) :
                        /\ Recorded(sidecar, k) = {p}
                        /\ p \notin reservedListenerPorts(mode)
                        /\ \A x \in Identity \ {k} : p \notin Recorded(sidecar, x)
           owed == {x \in Identity : own(x)}
<1>6. pinned = [k \in owed |-> CHOOSE p \in Recorded(sidecar, k) : TRUE]
  BY DEF Init
<1>7. DOMAIN pinned = owed /\ owed \subseteq Identity
  BY <1>6
<1>8. ASSUME NEW k \in owed
      PROVE  /\ pinned[k] \in Port /\ pinned[k] \notin reservedListenerPorts(mode)
             /\ Recorded(sidecar, k) = {pinned[k]}
             /\ \A x \in Identity \ {k} : pinned[k] \notin Recorded(sidecar, x)
  <2>1. PICK p \in Recorded(sidecar, k) :
                        /\ Recorded(sidecar, k) = {p}
                        /\ p \notin reservedListenerPorts(mode)
                        /\ \A x \in Identity \ {k} : p \notin Recorded(sidecar, x)
    BY <1>8
  <2>2. p \in Port
    BY <1>4, <2>1 DEF Recorded, PortMap
  <2>3. pinned[k] = CHOOSE q \in Recorded(sidecar, k) : TRUE
    <3> HIDE DEF owed
    <3> QED BY <1>6, <1>8
  <2>4. pinned[k] = p
    BY <2>1, <2>3
  <2> QED BY <2>1, <2>2, <2>4
<1>9. PromiseInv
  BY <1>7, <1>8 DEF PromiseInv
<1>10. TypeOK
  <2>1. inline \in Seq([uri : URI, port : 0..MaxPort]) /\ (listing = NoFile \/ listing \in Seq(URI))
    BY <1>3, NodeConstants
  <2> QED BY <1>2, <1>3, <1>5, <1>7, <2>1, NoJobIs DEF TypeOK, Phase, NoBox
<1>11. FileInv /\ InlineInv
  BY <1>3, <1>4, NoJobIs DEF FileInv, InlineInv
<1> QED BY <1>3, <1>9, <1>10, <1>11 DEF NodeInv, AssignmentSound

\* Every step keeps the invariant.
LEMMA NodeStep ==
  ASSUME NodeInv, Next
  PROVE  NodeInv'
<1>1. CASE \E saveOk \in BOOLEAN : LoadFiles(saveOk)
  BY <1>1, LoadFilesKeeps
<1>2. CASE \E get \in Fetches : \E got \in Gathered(get) : \E w \in Writes : LoadSubscribed(get, got, w[1], w[2])
  BY <1>2, LoadSubscribedKeeps
<1>3. CASE StartAttempt \/ Exit
  BY <1>3, StartAttemptKeeps, ExitKeeps
<1>4. CASE \E u \in EditURIs, p \in EditPorts, o \in Outcome : CreateNode(u, p, o)
  BY <1>4, EditSteps, EditKeeps DEF EditsTo
<1>5. CASE \E n \in URI : \E u \in EditURIs \cup {n}, p \in EditPorts, o \in Outcome : UpdateNode(n, u, p, o)
  BY <1>5, EditSteps, EditKeeps DEF EditsTo
<1>6. CASE \E n \in URI, o \in Outcome : DeleteNode(n, o)
  BY <1>6, EditSteps, EditKeeps DEF EditsTo
<1>7. CASE TriggerReload
  BY <1>7, TriggerReloadKeeps
<1>8. CASE \E get \in Fetches : \E got \in Gathered(get) : Refresh(get, got)
  BY <1>8, RefreshKeeps
<1>9. CASE ReloadMoves
  BY <1>9, ReloadMovesKeeps
<1>10. CASE \E w \in Writes : ReloadCommits(w[1], w[2])
  <2>1. PICK w \in Writes : ReloadCommits(w[1], w[2])
    BY <1>10
  <2>2. w[1] \in BOOLEAN /\ w[2] \in BOOLEAN
    BY NodeConstants
  <2> QED BY <2>1, <2>2, ReloadCommitsKeeps
<1>11. CASE ReloadFails
  BY <1>11, ReloadFailsKeeps
<1>12. CASE \E p \in GrabPorts : Grab(p) \/ Release(p)
  BY <1>12, OthersKeep
<1> QED BY <1>1, <1>2, <1>3, <1>4, <1>5, <1>6, <1>7, <1>8, <1>9, <1>10, <1>11, <1>12 DEF Next

\* The inductive invariant of the node list.
LEMMA NodeAlways == Spec => []NodeInv
<1>1. Init => NodeInv
  BY NodeInit
<1>2. NodeInv /\ [Next]_vars => NodeInv'
  BY NodeStep, NodeStutters
<1> QED BY <1>1, <1>2, PTL DEF Spec

\* config.Load, the reloads and the rounds of binding only hand a new box a node list
\* in which every node of multi-port or hybrid mode has a port of its own, off the
\* pool's, the sticky, the management and the GeoIP port.
THEOREM PortsAreSound == Spec => []AssignmentSound
<1>1. NodeInv => AssignmentSound
  BY DEF NodeInv
<1> QED BY <1>1, NodeAlways, PTL

\* The inline nodes in memory are those of config.yaml, whatever edit, failed write,
\* refresh, rollback or restart came before (SaveNodes, createConfig).
THEOREM InlineNodesKept == Spec => []InlineKept
<1>1. NodeInv => InlineKept
  BY NodeFacts DEF InlineKept, InlineOf
<1> QED BY <1>1, NodeAlways, PTL

-----------------------------------------------------------------------------
(* The cache. *)

\* What nodes.txt lists.
InFile == IF listing = NoFile THEN << >> ELSE listing

\* A reload holds what its commit, or going back to the old nodes, leaves in step with
\* the file.
JobHeld ==
  /\ job.op \in {"reload", "refresh", "undo"}
  /\ job.op = "reload" => FromFile(job.cand) = FromFile(nodes)
  /\ job.op = "refresh" => FromFile(job.cand) = job.got
  /\ job.op # "undo" /\ accurate => FromFile(job.old) = InFile
  /\ job.op = "undo" /\ accurate => FromFile(job.cand) = InFile

CacheInv ==
  /\ phase = "reloading" => JobHeld
  /\ phase # "reloading" => job.op = "none"
  /\ CacheCurrent

\* A list of URIs is in the file as it is.
LEMMA FileIsList ==
  ASSUME listing \in Seq(URI)
  PROVE  InFile = listing
BY NodeConstants DEF InFile

\* A process without a reload.
LEMMA CacheAtRest ==
  ASSUME phase' # "reloading", job'.op = "none",
         phase' # "down" /\ accurate' => FromFile(nodes') = IF listing' = NoFile THEN << >> ELSE listing'
  PROVE  CacheInv'
BY DEF CacheInv, CacheCurrent

\* The nodes from the file do not depend on the ports.
LEMMA FileAlike ==
  ASSUME NEW ns, NEW ms, Alike(ns, ms)
  PROVE  FromFile(ns) = FromFile(ms)
BY FromAlike DEF FromFile

\* A start has the nodes it was given for the file.
LEMMA BootListed ==
  ASSUME NodeInv, NEW uris \in Seq(URI), NEW src \in {"file", "subscription"}, NEW ok,
         phase = "down", Boot(Listed(uris, src), ok), UNCHANGED mode
  PROVE  phase' = "down" \/ (phase' = "starting" /\ FromFile(nodes') = uris)
<1>1. PICK extra : extra = Listed(uris, src)
  OBVIOUS
<1>2. /\ extra \in Seq(Node) /\ URIs(extra) = uris
      /\ \A i \in DOMAIN extra : extra[i].src \in {"file", "subscription"}
  <2>1. src \in Source
    BY DEF Source
  <2> QED BY <1>1, <2>1, ListedNodes
<1>3. PICK own : own = OwnNodes
  OBVIOUS
<1>4. own \in Seq(Node) /\ \A i \in DOMAIN own : own[i].src = "inline"
  BY <1>3, NodeFacts, InlineNodes
<1>5. PICK all : all = own \o extra
  OBVIOUS
<1>6. PICK loaded : loaded = IF all = << >> THEN << >> ELSE LoadPorts(all, sidecar, mode, Busy)
  OBVIOUS
<1>7. IF loaded = << >>
        THEN UNCHANGED <<phase, nodes, sidecar, pinned>>
        ELSE phase' = "starting" /\ nodes' = loaded
  BY <1>1, <1>3, <1>5, <1>6 DEF Boot, OwnNodes
<1>8. CASE loaded # << >>
  <2>1. all \in Seq(Node)
    BY <1>2, <1>4, <1>5, ConcatProperties
  <2>2. mode \in Mode /\ PortMap(sidecar) /\ loaded = LoadPorts(all, sidecar, mode, Busy)
    BY <1>6, <1>8, NodeFacts
  <2>3. Alike(all, loaded)
    BY <1>8, <2>1, <2>2, LoadedPorts, LoadedInPool
  <2>4. FromFile(all) = uris
    BY <1>2, <1>4, <1>5, RestAfter
  <2> QED BY <1>7, <1>8, <2>3, <2>4, FileAlike
<1> QED BY <1>7, <1>8

\* A start without subscriptions takes the file as it is.
LEMMA LoadFilesCache ==
  ASSUME NodeInv, CacheInv, NEW ok, LoadFiles(ok)
  PROVE  CacheInv'
<1>1. /\ phase = "down" /\ ~subscribed /\ Boot(Listed(listing, "file"), ok)
      /\ mode' = mode /\ listing' = listing /\ job' = job
  BY DEF LoadFiles
<1>2. listing \in Seq(URI) /\ job.op = "none"
  BY <1>1, NodeFacts DEF CacheInv
<1>3. phase' = "down" \/ (phase' = "starting" /\ FromFile(nodes') = listing)
  BY <1>1, <1>2, BootListed
<1>4. listing' # NoFile
  BY <1>1, <1>2, NodeConstants
<1> QED BY <1>1, <1>2, <1>3, <1>4, CacheAtRest

\* A start with subscriptions leaves the cache as it is, or writes what it goes on with.
LEMMA LoadSubscribedCache ==
  ASSUME NodeInv, CacheInv, NEW get \in Fetches, NEW got \in Gathered(get), NEW writeOk, NEW ok,
         LoadSubscribed(get, got, writeOk, ok)
  PROVE  CacheInv'
<1>1. PICK cached \in BOOLEAN : cached <=> shouldUseCachedSubscriptionNodes(got, get)
  OBVIOUS
<1>2. PICK used : used = IF cached THEN listing ELSE got
  OBVIOUS
<1>3. /\ phase = "down" /\ Boot(Listed(used, "subscription"), ok) /\ mode' = mode /\ job' = job
      /\ listing' = IF ~cached /\ got # << >> /\ writeOk THEN got ELSE listing
      /\ (accurate' => cached \/ got = << >> \/ writeOk)
  BY <1>1, <1>2 DEF LoadSubscribed
<1>4. got \in Seq(URI) /\ job.op = "none" /\ (listing = NoFile \/ listing \in Seq(URI))
  BY <1>3, GatheredList, NodeFacts DEF CacheInv
<1>5. /\ cached => listing \in Seq(URI)
      /\ ~cached /\ got = << >> => listing \in {NoFile, << >>}
  BY <1>1, <1>4 DEF shouldUseCachedSubscriptionNodes
<1>6. phase' = "down" \/ (phase' = "starting" /\ FromFile(nodes') = used)
  <2>1. used \in Seq(URI)
    BY <1>2, <1>4, <1>5
  <2> QED BY <1>3, <2>1, BootListed
<1>7. accurate' => used = IF listing' = NoFile THEN << >> ELSE listing'
  BY <1>2, <1>3, <1>4, <1>5, NodeConstants
<1> QED BY <1>3, <1>4, <1>6, <1>7, CacheAtRest

\* A round of binding moves ports.
LEMMA StartAttemptCache ==
  ASSUME NodeInv, CacheInv, StartAttempt
  PROVE  CacheInv'
<1>1. PICK moved : moved = reassignConflictingPort(nodes, mode, FirstClash(nodes), Busy)
  OBVIOUS
<1>2. /\ phase = "starting" /\ accurate' = accurate /\ listing' = listing /\ job' = job
      /\ phase' \in {"starting", "up", "down"}
      /\ \/ phase' = "down" \/ nodes' = nodes
         \/ Clashing(nodes) # {} /\ moved # << >> /\ nodes' = moved
  BY <1>1 DEF StartAttempt, durable
<1>3. phase' = "down" \/ FromFile(nodes') = FromFile(nodes)
  <2>1. nodes \in Seq(Node) /\ mode \in Mode
    BY NodeFacts
  <2>2. ASSUME Clashing(nodes) # {}, moved # << >> PROVE Alike(nodes, moved)
    <3>1. FirstClash(nodes) \in Nat
      BY <2>1, <2>2, ClashPortNumber
    <3> QED BY <1>1, <2>1, <2>2, <3>1, ReassignedPort
  <2> QED BY <1>2, <2>2, FileAlike
<1>4. job.op = "none" /\ (accurate => FromFile(nodes) = IF listing = NoFile THEN << >> ELSE listing)
  BY <1>2 DEF CacheInv, CacheCurrent
<1> QED BY <1>2, <1>3, <1>4, CacheAtRest

\* The process ends.
LEMMA ExitCache ==
  ASSUME Exit
  PROVE  CacheInv'
<1>1. phase' = "down" /\ job' = NoJob
  BY DEF Exit
<1> QED BY <1>1, CacheAtRest DEF NoJob

\* An edit that is not saved is undone in memory, and what it left in nodes.txt is known.
LEMMA EditCache ==
  ASSUME NodeInv, CacheInv, NEW outcome \in Outcome, EditsTo(outcome)
  PROVE  CacheInv'
<1>1. PICK edited \in Seq(Node) : \E keys : Edit(edited, outcome, keys)
  BY DEF EditsTo
<1>2. PICK rest : rest = FromFile(edited)
  OBVIOUS
<1>3. /\ phase \in {"up", "stalled"} /\ phase' = phase /\ job' = job
      /\ nodes' = IF outcome = "saved" THEN edited ELSE nodes
      /\ listing' = IF outcome = "unwritable" THEN listing ELSE rest
      /\ (accurate' => \/ outcome = "saved"
                       \/ (accurate /\ (outcome = "unwritable" \/ rest = FromFile(nodes))))
  <2>1. phase \in {"up", "stalled"} /\ phase' = phase /\ job' = job /\ SaveNodes(edited, outcome)
    BY <1>1 DEF Edit
  <2> QED BY <1>2, <2>1 DEF SaveNodes
<1>4. rest \in Seq(URI) /\ rest # NoFile
  BY <1>2, FromNodes, URIList, NodeConstants DEF FromFile
<1>5. job.op = "none" /\ (accurate => FromFile(nodes) = IF listing = NoFile THEN << >> ELSE listing)
  BY <1>3 DEF CacheInv, CacheCurrent
<1>6. CASE outcome = "saved"
  BY <1>2, <1>3, <1>4, <1>5, <1>6, CacheAtRest
<1>7. CASE outcome = "unwritable"
  BY <1>3, <1>5, <1>7, CacheAtRest
<1>8. CASE outcome \notin {"saved", "unwritable"}
  BY <1>3, <1>4, <1>5, <1>8, CacheAtRest
<1> QED BY <1>6, <1>7, <1>8

\* A reload that begins holds the old nodes and those of the new box.
LEMMA ReloadCache ==
  ASSUME NodeInv, CacheInv, phase = "up", NEW ns \in Seq(Node), InlineOf(ns),
         NEW op \in {"reload", "refresh"}, NEW got \in Seq(URI), Reload(op, ns, got),
         op = "reload" => FromFile(ns) = FromFile(nodes), op = "refresh" => FromFile(ns) = got,
         nodes' = nodes, listing' = listing, accurate' = accurate
  PROVE  CacheInv'
<1>1. job.op = "none" /\ (accurate => FromFile(nodes) = IF listing = NoFile THEN << >> ELSE listing)
  BY DEF CacheInv, CacheCurrent
<1>2. CASE UNCHANGED <<phase, box, job>>
  BY <1>1, <1>2, CacheAtRest
<1>3. CASE \E cand \in Seq(Node) :
             /\ phase' = "reloading" /\ box' = NoBox
             /\ job' = [op |-> op, cand |-> cand, old |-> nodes, got |-> got]
             /\ Alike(ns, cand)
  <2>1. PICK cand \in Seq(Node) :
             /\ phase' = "reloading" /\ box' = NoBox
             /\ job' = [op |-> op, cand |-> cand, old |-> nodes, got |-> got]
             /\ Alike(ns, cand)
    BY <1>3
  <2>2. FromFile(cand) = FromFile(ns)
    BY <2>1, FileAlike
  <2>3. job'.op = op /\ job'.cand = cand /\ job'.old = nodes /\ job'.got = got
    BY <2>1
  <2>4. JobHeld'
    BY <1>1, <2>2, <2>3 DEF JobHeld, InFile
  <2>5. CacheCurrent'
    BY <1>1 DEF CacheCurrent
  <2> QED BY <2>1, <2>4, <2>5 DEF CacheInv
<1> QED BY <1>2, <1>3, ReloadSteps

\* A manual reload goes on with the same nodes, a refresh with those it fetched.
LEMMA BeginCache ==
  ASSUME NodeInv, CacheInv,
         TriggerReload \/ \E get \in Fetches : \E got \in Gathered(get) : Refresh(get, got)
  PROVE  CacheInv'
<1>1. CASE TriggerReload
  <2>1. /\ phase = "up" /\ Reload("reload", nodes, << >>)
        /\ nodes' = nodes /\ listing' = listing /\ accurate' = accurate
    BY <1>1 DEF TriggerReload, durable
  <2>2. nodes \in Seq(Node) /\ InlineOf(nodes) /\ << >> \in Seq(URI)
    BY <2>1, NodeFacts
  <2> QED BY <2>1, <2>2, ReloadCache
<1>2. ASSUME NEW get \in Fetches, NEW got \in Gathered(get), Refresh(get, got) PROVE CacheInv'
  <2>1. phase = "up" /\ nodes' = nodes /\ listing' = listing /\ accurate' = accurate
    BY <1>2 DEF Refresh, durable
  <2>2. CASE AnyFailed(get) \/ AnyEmpty(get)
    <3>1. phase' = phase /\ job' = job
      BY <1>2, <2>2 DEF Refresh
    <3> QED BY <2>1, <3>1, CacheAtRest DEF CacheInv, CacheCurrent
  <2>3. CASE ~(AnyFailed(get) \/ AnyEmpty(get))
    <3>1. PICK ns : ns = createConfig(got)
      OBVIOUS
    <3>2. Reload("refresh", ns, got)
      BY <1>2, <2>3, <3>1 DEF Refresh
    <3>3. got \in Seq(URI)
      BY GatheredList
    <3>4. ns \in Seq(Node) /\ InlineOf(ns)
      BY <2>1, <3>1, <3>3, CreatedNodes
    <3>5. FromFile(ns) = got
      <4>1. PICK own, extra : own = From(nodes, {"inline"}) /\ extra = Listed(got, "subscription")
        OBVIOUS
      <4>2. own \in Seq(Node) /\ \A i \in DOMAIN own : own[i].src = "inline"
        BY <4>1, NodeFacts, FromNodes
      <4>3. /\ extra \in Seq(Node) /\ URIs(extra) = got
            /\ \A i \in DOMAIN extra : extra[i].src \in {"file", "subscription"}
        <5>1. "subscription" \in Source
          BY DEF Source
        <5> QED BY <3>3, <4>1, <5>1, ListedNodes
      <4>4. FromFile(own \o extra) = got
        BY <4>2, <4>3, RestAfter
      <4> QED BY <3>1, <4>1, <4>4 DEF createConfig
    <3> QED BY <2>1, <3>2, <3>3, <3>4, <3>5, ReloadCache
  <2> QED BY <2>2, <2>3
<1> QED BY <1>1, <1>2

\* A round of a reload moves ports.
LEMMA ReloadMovesCache ==
  ASSUME NodeInv, CacheInv, ReloadMoves
  PROVE  CacheInv'
<1>1. PICK cand : cand = job.cand
  OBVIOUS
<1>2. PICK moved : moved = reassignConflictingPort(cand, mode, FirstClash(cand), Busy)
  OBVIOUS
<1>3. /\ phase = "reloading" /\ Clashing(cand) # {} /\ moved # << >>
      /\ job' = [job EXCEPT !.cand = moved] /\ accurate' = accurate
      /\ listing' = listing /\ phase' = phase /\ nodes' = nodes
  BY <1>1, <1>2 DEF ReloadMoves, durable
<1>4. cand \in Seq(Node) /\ mode \in Mode /\ job \in Job
  BY <1>1, NodeFacts
<1>5. FirstClash(cand) \in Nat
  BY <1>3, <1>4, ClashPortNumber
<1>6. FromFile(moved) = FromFile(cand)
  BY <1>2, <1>3, <1>4, <1>5, ReassignedPort, FileAlike
<1>7. job'.cand = moved /\ job'.op = job.op /\ job'.old = job.old /\ job'.got = job.got
  BY <1>3, <1>4 DEF Job
<1>8. JobHeld
  BY <1>3 DEF CacheInv
<1>9. JobHeld'
  BY <1>1, <1>3, <1>6, <1>7, <1>8 DEF JobHeld, InFile
<1>10. CacheCurrent'
  BY <1>3, <1>7 DEF CacheInv, CacheCurrent
<1> QED BY <1>3, <1>9, <1>10 DEF CacheInv

\* The new box runs: with the nodes of the file, or those just written to it, or the old
\* nodes come next.
LEMMA ReloadCommitsCache ==
  ASSUME NodeInv, CacheInv, NEW writeOk \in BOOLEAN, NEW saveOk, ReloadCommits(writeOk, saveOk)
  PROVE  CacheInv'
<1>1. PICK undo : undo = (job.op = "refresh" /\ ~writeOk)
  OBVIOUS
<1>2. PICK cand : cand = job.cand
  OBVIOUS
<1>3. /\ phase = "reloading" /\ nodes' = cand
      /\ phase' = IF undo THEN "reloading" ELSE "up"
      /\ job' = IF undo THEN [NoJob EXCEPT !.op = "undo", !.cand = job.old] ELSE NoJob
      /\ listing' = IF job.op = "refresh" /\ writeOk THEN job.got ELSE listing
      /\ (accurate' => accurate \/ (job.op = "refresh" /\ writeOk))
  BY <1>1, <1>2 DEF ReloadCommits
<1>4. JobHeld /\ (accurate /\ job.op # "undo" => FromFile(nodes) = InFile)
  BY <1>3 DEF CacheInv, CacheCurrent, InFile
<1>5. job.got \in Seq(URI) /\ job.got # NoFile
  BY NodeFacts, NodeConstants
<1>6. CASE undo
  <2>1. job'.op = "undo" /\ job'.cand = job.old
    <3>1. job' = [NoJob EXCEPT !.op = "undo", !.cand = job.old]
      BY <1>3, <1>6
    <3> QED BY <3>1 DEF NoJob
  <2>2. listing' = listing /\ phase' = "reloading" /\ (accurate' => FromFile(job.old) = InFile)
    BY <1>1, <1>3, <1>4, <1>6 DEF JobHeld
  <2>3. JobHeld'
    BY <2>1, <2>2 DEF JobHeld, InFile
  <2>4. CacheCurrent'
    BY <2>1 DEF CacheCurrent
  <2> QED BY <2>2, <2>3, <2>4 DEF CacheInv
<1>7. CASE ~undo
  <2>1. phase' = "up" /\ job'.op = "none"
    BY <1>3, <1>7 DEF NoJob
  <2>2. CASE job.op = "refresh"
    <3>1. listing' = job.got /\ FromFile(cand) = job.got
      BY <1>1, <1>2, <1>3, <1>4, <1>7, <2>2 DEF JobHeld
    <3> QED BY <1>3, <1>5, <2>1, <3>1, CacheAtRest
  <2>3. CASE job.op # "refresh"
    <3>1. listing' = listing /\ (accurate' => FromFile(cand) = InFile)
      BY <1>2, <1>3, <1>4, <2>3 DEF JobHeld
    <3>2. accurate' => FromFile(nodes') = IF listing' = NoFile THEN << >> ELSE listing'
      BY <1>3, <3>1 DEF InFile
    <3> QED BY <2>1, <3>2, CacheAtRest
  <2> QED BY <2>2, <2>3
<1> QED BY <1>6, <1>7

\* A reload that is given up.
LEMMA ReloadFailsCache ==
  ASSUME CacheInv, ReloadFails
  PROVE  CacheInv'
<1>1. /\ phase = "reloading" /\ phase' \in {"up", "stalled"} /\ job' = NoJob
      /\ (accurate' => accurate /\ job.op # "undo")
      /\ listing' = listing /\ nodes' = nodes
  BY DEF ReloadFails, durable
<1>2. accurate /\ job.op # "undo" => FromFile(nodes) = IF listing = NoFile THEN << >> ELSE listing
  BY <1>1 DEF CacheInv, CacheCurrent
<1>3. job'.op = "none" /\ phase' # "reloading"
  BY <1>1 DEF NoJob
<1> QED BY <1>1, <1>2, <1>3, CacheAtRest

\* Nothing else touches the nodes or the file.
LEMMA CacheUntouched ==
  ASSUME CacheInv, UNCHANGED <<listing, phase, nodes, job, accurate>>
  PROVE  CacheInv'
BY DEF CacheInv, JobHeld, InFile, CacheCurrent

\* Every step keeps nodes.txt and the nodes in step.
LEMMA CacheStep ==
  ASSUME NodeInv, CacheInv, [Next]_vars
  PROVE  CacheInv'
<1>1. CASE \E saveOk \in BOOLEAN : LoadFiles(saveOk)
  BY <1>1, LoadFilesCache
<1>2. CASE \E get \in Fetches : \E got \in Gathered(get) : \E w \in Writes : LoadSubscribed(get, got, w[1], w[2])
  BY <1>2, LoadSubscribedCache
<1>3. CASE StartAttempt \/ Exit
  BY <1>3, StartAttemptCache, ExitCache
<1>4. CASE \E o \in Outcome : EditsTo(o)
  BY <1>4, EditCache
<1>5. CASE TriggerReload \/ \E get \in Fetches : \E got \in Gathered(get) : Refresh(get, got)
  BY <1>5, BeginCache
<1>6. CASE ReloadMoves \/ ReloadFails
  BY <1>6, ReloadMovesCache, ReloadFailsCache
<1>7. CASE \E w \in Writes : ReloadCommits(w[1], w[2])
  <2>1. PICK w \in Writes : ReloadCommits(w[1], w[2])
    BY <1>7
  <2>2. w[1] \in BOOLEAN
    BY NodeConstants
  <2> QED BY <2>1, <2>2, ReloadCommitsCache
<1>8. CASE \E p \in GrabPorts : Grab(p) \/ Release(p)
  BY <1>8, CacheUntouched DEF Grab, Release, durable, memory
<1>9. CASE UNCHANGED vars
  BY <1>9, CacheUntouched DEF vars, durable, memory
<1> QED BY <1>1, <1>2, <1>3, <1>4, <1>5, <1>6, <1>7, <1>8, <1>9, EditSteps DEF Next

\* Before the first start nothing runs.
LEMMA CacheInitially ==
  ASSUME Init
  PROVE  CacheInv
BY DEF Init, NoJob, CacheInv, CacheCurrent

\* While the process runs, nodes.txt lists the nodes it has from there, whatever starts
\* from the cache, edits, reloads, refreshes and their undoing follow each other, unless
\* a write failed after which the code leaves the two apart.
THEOREM CacheIsCurrent == Spec => []CacheCurrent
<1>1. Init => CacheInv
  BY CacheInitially
<1>2. NodeInv /\ CacheInv /\ [Next]_vars => CacheInv'
  BY CacheStep
<1>3. CacheInv => CacheCurrent
  BY DEF CacheInv
<1> QED BY <1>1, <1>2, <1>3, NodeAlways, PTL DEF Spec

-----------------------------------------------------------------------------
(* Action properties. *)

\* After a start every owed port is back, unless the YAML file states another.
LEMMA BootReturns ==
  ASSUME NodeInv, phase = "down", NEW extra \in Seq(Node),
         \A i \in DOMAIN extra : extra[i].src # "inline", NEW ok, Boot(extra, ok), phase' = "starting",
         MultiPort(mode), NEW k \in DOMAIN pinned \cap DOMAIN UniquePorts(nodes'),
         YamlPort(k) \subseteq {pinned[k]}
  PROVE  UniquePorts(nodes')[k] = pinned[k]
<1>1. PICK all : all = OwnNodes \o extra
  OBVIOUS
<1>2. PICK loaded : loaded = IF all = << >> THEN << >> ELSE LoadPorts(all, sidecar, mode, Busy)
  OBVIOUS
<1>3. loaded # << >> /\ nodes' = loaded /\ loaded = LoadPorts(all, sidecar, mode, Busy)
  BY <1>1, <1>2 DEF Boot, OwnNodes
<1>4. PICK own : own = OwnNodes
  OBVIOUS
<1>5. /\ own \in Seq(Node) /\ DOMAIN own = DOMAIN inline
      /\ \A i \in DOMAIN inline : own[i].uri = inline[i].uri /\ own[i].port = inline[i].port
  BY <1>4, NodeFacts, InlineNodes
<1>6. /\ all \in Seq(Node)
      /\ \A i \in DOMAIN all : all[i].src = "inline" => i \in DOMAIN inline /\ all[i] = own[i]
  <2>1. /\ own \o extra \in Seq(Node) /\ DOMAIN own = 1..Len(own) /\ DOMAIN extra = 1..Len(extra)
        /\ DOMAIN (own \o extra) = 1..(Len(own) + Len(extra))
        /\ Len(own) \in Nat /\ Len(extra) \in Nat
        /\ \A i \in 1..(Len(own) + Len(extra)) :
             (own \o extra)[i] = IF i <= Len(own) THEN own[i] ELSE extra[i - Len(own)]
    BY <1>5, ConcatProperties, LenProperties
  <2>2. ASSUME NEW i \in DOMAIN all, all[i].src = "inline" PROVE i \in DOMAIN inline /\ all[i] = own[i]
    <3>1. i \in 1..(Len(own) + Len(extra)) /\ all[i] = IF i <= Len(own) THEN own[i] ELSE extra[i - Len(own)]
      BY <1>1, <1>4, <2>1, <2>2
    <3>2. ~(i <= Len(own)) => i - Len(own) \in DOMAIN extra
      BY <2>1, <3>1
    <3>3. i <= Len(own)
      BY <2>2, <3>1, <3>2
    <3> QED BY <1>5, <2>1, <3>1, <3>3
  <2> QED BY <1>1, <1>4, <2>1, <2>2
<1>7. mode \in Mode /\ PortMap(sidecar) /\ PromiseInv /\ DOMAIN pinned \subseteq Identity
  BY NodeFacts
<1>8. PICK p : p = pinned[k]
  OBVIOUS
<1>9. /\ p \in Port \ reservedListenerPorts(mode) /\ Recorded(sidecar, k) = {p}
      /\ \A x \in Identity \ {k} : p \notin Recorded(sidecar, x)
  BY <1>7, <1>8 DEF PromiseInv
<1>10. Alike(all, loaded)
  BY <1>3, <1>6, <1>7, LoadedPorts
<1>11. loaded \in Seq(Node) /\ DOMAIN loaded = DOMAIN all /\ \A i \in DOMAIN all : Key(loaded[i]) = Key(all[i])
  BY <1>10 DEF Alike, Key
<1>12. PICK i \in DOMAIN loaded :
         /\ Key(loaded[i]) = k /\ UniquePorts(loaded)[k] = loaded[i].port
         /\ \A j \in DOMAIN loaded : Key(loaded[j]) = k => j = i
  BY <1>3, <1>11, OnlyPorts
<1>13. loaded[i].port = p
  <2>1. CASE all[i].src = "inline" /\ all[i].port # 0
    <3>1. i \in DOMAIN inline /\ all[i].port = inline[i].port /\ KeyOf[inline[i].uri] = k
      BY <1>5, <1>6, <1>11, <1>12, <2>1 DEF Key
    <3>2. inline[i].port \in YamlPort(k)
      BY <2>1, <3>1 DEF YamlPort
    <3>3. all[i].port = p
      BY <1>8, <3>1, <3>2
    <3> QED BY <1>3, <1>6, <1>7, <1>9, <1>11, <1>12, <2>1, <3>3, LoadedPorts
  <2>2. CASE ~(all[i].src = "inline" /\ all[i].port # 0)
    <3>1. \A j \in DOMAIN all \ {i} : Key(all[j]) # Key(all[i]) /\ p \notin Recorded(sidecar, Key(all[j]))
      <4>1. \A j \in DOMAIN all : Key(all[j]) \in Identity
        BY <1>6, ListOfNodes DEF Key, Identity
      <4> QED BY <1>9, <1>11, <1>12, <4>1
    <3>2. Recorded(sidecar, Key(all[i])) = {p}
      BY <1>9, <1>11, <1>12
    <3> QED BY <1>3, <1>6, <1>7, <1>9, <1>11, <2>2, <3>1, <3>2, LoadedPorts
  <2> QED BY <2>1, <2>2
<1> QED BY <1>3, <1>8, <1>12, <1>13

\* A reload leaves every identity whose port is its own where it was.
LEMMA ReloadReturns ==
  ASSUME mode \in Mode, nodes \in Seq(Node), NEW ns \in Seq(Node), NEW busy,
         NEW cand, cand = NormalizeWithPortMap(ns, BuildPortMap(nodes), mode, busy), cand # << >>,
         NEW k \in DOMAIN UniquePorts(nodes) \cap DOMAIN UniquePorts(cand), MultiPort(mode),
         UniquePorts(nodes)[k] \notin reservedListenerPorts(mode),
         \A i \in DOMAIN nodes : nodes[i].port = UniquePorts(nodes)[k] => Key(nodes[i]) = k
  PROVE  UniquePorts(cand)[k] = UniquePorts(nodes)[k]
<1>1. PICK saved : saved = BuildPortMap(nodes)
  OBVIOUS
<1>2. /\ PortMap(saved)
      /\ \A x \in DOMAIN saved : \E i \in DOMAIN nodes : Key(nodes[i]) = x /\ saved[x] = nodes[i].port
      /\ \A i \in DOMAIN nodes : nodes[i].port # 0 => Key(nodes[i]) \in DOMAIN saved
  BY <1>1, BuiltPorts
<1>3. PICK p : p = UniquePorts(nodes)[k]
  OBVIOUS
<1>4. PICK m \in DOMAIN nodes :
        /\ Key(nodes[m]) = k /\ nodes[m].port # 0 /\ p = nodes[m].port
        /\ \A j \in DOMAIN nodes : Key(nodes[j]) = k => j = m
  BY <1>3, OnlyPorts
<1>5. k \in DOMAIN saved /\ saved[k] = p /\ p # 0
  BY <1>2, <1>4
<1>6. /\ Alike(ns, cand)
      /\ \A i \in Preserved(ns, saved, reservedListenerPorts(mode)) : cand[i].port = Mapped(ns, saved, i)
  BY <1>1, <1>2, NormalizedPorts
<1>7. cand \in Seq(Node) /\ DOMAIN cand = DOMAIN ns /\ \A i \in DOMAIN ns : Key(cand[i]) = Key(ns[i])
  BY <1>6 DEF Alike, Key
<1>8. PICK i \in DOMAIN cand :
        /\ Key(cand[i]) = k /\ UniquePorts(cand)[k] = cand[i].port
        /\ \A j \in DOMAIN cand : Key(cand[j]) = k => j = i
  BY <1>7, OnlyPorts
<1>9. Mapped(ns, saved, i) = p
  BY <1>5, <1>7, <1>8 DEF Mapped
<1>10. ASSUME NEW j \in 1..(i - 1) PROVE Mapped(ns, saved, j) # p
  <2>1. SUFFICES ASSUME Mapped(ns, saved, j) = p PROVE FALSE
    OBVIOUS
  <2>2. j \in DOMAIN ns /\ j # i
    <3>1. DOMAIN ns = 1..Len(ns) /\ Len(ns) \in Nat
      BY LenProperties
    <3> QED BY <1>7, <1>10, <3>1
  <2>3. Key(ns[j]) \in DOMAIN saved /\ saved[Key(ns[j])] = p
    BY <1>5, <2>1 DEF Mapped
  <2>4. PICK x \in DOMAIN nodes : Key(nodes[x]) = Key(ns[j]) /\ nodes[x].port = p
    BY <1>2, <2>3
  <2>5. Key(nodes[x]) = k
    BY <1>3, <2>4
  <2> QED BY <1>7, <1>8, <2>2, <2>4, <2>5
<1>11. i \in Preserved(ns, saved, reservedListenerPorts(mode))
  BY <1>3, <1>5, <1>7, <1>9, <1>10 DEF Preserved
<1> QED BY <1>3, <1>6, <1>8, <1>9, <1>11

\* Which steps start the process.
LEMMA StartingSteps ==
  ASSUME Next, phase = "down", phase' = "starting"
  PROVE  \/ \E saveOk \in BOOLEAN : LoadFiles(saveOk)
         \/ \E get \in Fetches : \E got \in Gathered(get) : \E w \in Writes :
              LoadSubscribed(get, got, w[1], w[2])
<1>1. ~StartAttempt /\ ~Exit /\ ~TriggerReload /\ ~ReloadMoves /\ ~ReloadFails
  BY DEF StartAttempt, Exit, TriggerReload, ReloadMoves, ReloadFails
<1>2. /\ ~\E get \in Fetches : \E got \in Gathered(get) : Refresh(get, got)
      /\ ~\E w \in Writes : ReloadCommits(w[1], w[2])
      /\ ~\E p \in GrabPorts : Grab(p) \/ Release(p)
  BY DEF Refresh, ReloadCommits, Grab, Release, memory
<1>3. /\ ~\E u \in EditURIs, p \in EditPorts, o \in Outcome : CreateNode(u, p, o)
      /\ ~\E n \in URI : \E u \in EditURIs \cup {n}, p \in EditPorts, o \in Outcome : UpdateNode(n, u, p, o)
      /\ ~\E n \in URI, o \in Outcome : DeleteNode(n, o)
  BY DEF CreateNode, UpdateNode, DeleteNode, Edit
<1> QED BY <1>1, <1>2, <1>3 DEF Next

\* Which steps begin a reload.
LEMMA ReloadingSteps ==
  ASSUME Next, phase = "up", phase' = "reloading"
  PROVE  \/ TriggerReload
         \/ \E get \in Fetches : \E got \in Gathered(get) : Refresh(get, got)
<1>1. ~StartAttempt /\ ~Exit /\ ~ReloadMoves /\ ~ReloadFails
  BY DEF StartAttempt, Exit, ReloadMoves, ReloadFails
<1>2. /\ ~\E saveOk \in BOOLEAN : LoadFiles(saveOk)
      /\ ~\E get \in Fetches : \E got \in Gathered(get) : \E w \in Writes :
            LoadSubscribed(get, got, w[1], w[2])
      /\ ~\E w \in Writes : ReloadCommits(w[1], w[2])
      /\ ~\E p \in GrabPorts : Grab(p) \/ Release(p)
  BY DEF LoadFiles, LoadSubscribed, ReloadCommits, Grab, Release, memory
<1>3. /\ ~\E u \in EditURIs, p \in EditPorts, o \in Outcome : CreateNode(u, p, o)
      /\ ~\E n \in URI : \E u \in EditURIs \cup {n}, p \in EditPorts, o \in Outcome : UpdateNode(n, u, p, o)
      /\ ~\E n \in URI, o \in Outcome : DeleteNode(n, o)
  BY DEF CreateNode, UpdateNode, DeleteNode, Edit
<1> QED BY <1>1, <1>2, <1>3 DEF Next

\* What a start adds to the inline nodes.
LEMMA StartingBoot ==
  ASSUME NodeInv, Next, phase = "down", phase' = "starting"
  PROVE  \E extra \in Seq(Node) : \E ok \in BOOLEAN :
           Boot(extra, ok) /\ \A i \in DOMAIN extra : extra[i].src # "inline"
<1>1. CASE \E saveOk \in BOOLEAN : LoadFiles(saveOk)
  <2>1. PICK ok \in BOOLEAN : LoadFiles(ok)
    BY <1>1
  <2>2. PICK extra : extra = Listed(listing, "file")
    OBVIOUS
  <2>3. extra \in Seq(Node) /\ \A i \in DOMAIN extra : extra[i].src # "inline"
    BY <2>1, <2>2, NodeFacts, ListedNodes DEF Source, LoadFiles
  <2> QED BY <2>1, <2>2, <2>3 DEF LoadFiles
<1>2. CASE \E get \in Fetches : \E got \in Gathered(get) : \E w \in Writes : LoadSubscribed(get, got, w[1], w[2])
  <2>1. PICK get \in Fetches : \E got \in Gathered(get) : \E w \in Writes : LoadSubscribed(get, got, w[1], w[2])
    BY <1>2
  <2>2. PICK got \in Gathered(get) : \E w \in Writes : LoadSubscribed(get, got, w[1], w[2])
    BY <2>1
  <2>3. PICK w \in Writes : LoadSubscribed(get, got, w[1], w[2])
    BY <2>2
  <2>4. PICK used : used = IF shouldUseCachedSubscriptionNodes(got, get) THEN listing ELSE got
    OBVIOUS
  <2>5. used \in Seq(URI)
    BY <2>4, GatheredList, NodeFacts DEF shouldUseCachedSubscriptionNodes
  <2>6. PICK extra : extra = Listed(used, "subscription")
    OBVIOUS
  <2>7. extra \in Seq(Node) /\ \A i \in DOMAIN extra : extra[i].src # "inline"
    BY <2>5, <2>6, ListedNodes DEF Source
  <2>8. Boot(extra, w[2]) /\ w[2] \in BOOLEAN
    BY <2>3, <2>4, <2>6, NodeConstants DEF LoadSubscribed
  <2> QED BY <2>7, <2>8
<1> QED BY <1>1, <1>2, StartingSteps

\* How a reload's candidate comes about.
LEMMA ReloadingCandidate ==
  ASSUME NodeInv, Next, phase = "up", phase' = "reloading"
  PROVE  \E ns \in Seq(Node), cand \in Seq(Node) :
           /\ cand = NormalizeWithPortMap(ns, BuildPortMap(nodes), mode, Busy) /\ cand # << >>
           /\ job'.cand = cand
<1>1. ASSUME NEW ns \in Seq(Node), InlineOf(ns), NEW op, NEW got, Reload(op, ns, got)
      PROVE  \E cand \in Seq(Node) :
               /\ cand = NormalizeWithPortMap(ns, BuildPortMap(nodes), mode, Busy) /\ cand # << >>
               /\ job'.cand = cand
  <2>1. PICK cand \in Seq(Node) :
               /\ job' = [op |-> op, cand |-> cand, old |-> nodes, got |-> got]
               /\ cand = NormalizeWithPortMap(ns, BuildPortMap(nodes), mode, Busy) /\ cand # << >>
    BY <1>1, ReloadSteps
  <2>2. job'.cand = cand
    BY <2>1
  <2> QED BY <2>1, <2>2
<1>2. CASE TriggerReload
  <2>1. Reload("reload", nodes, << >>) /\ nodes \in Seq(Node) /\ InlineOf(nodes)
    BY <1>2, NodeFacts DEF TriggerReload
  <2> QED BY <1>1, <2>1
<1>3. CASE \E get \in Fetches : \E got \in Gathered(get) : Refresh(get, got)
  <2>1. PICK get \in Fetches : \E got \in Gathered(get) : Refresh(get, got)
    BY <1>3
  <2>2. PICK got \in Gathered(get) : Refresh(get, got)
    BY <2>1
  <2>3. PICK ns : ns = createConfig(got)
    OBVIOUS
  <2>4. ns \in Seq(Node) /\ InlineOf(ns)
    BY <2>3, GatheredList, CreatedNodes
  <2>5. Reload("refresh", ns, got)
    BY <2>2, <2>3 DEF Refresh
  <2> QED BY <1>1, <2>4, <2>5
<1> QED BY <1>2, <1>3, ReloadingSteps

\* A node keeps its port: over a restart, for every identity whose port node_ports.json
\* recorded and the operator has not since changed (applyPersistedPorts, the legacy
\* bridge, SaveNodePortMap); and over a reload or refresh, wherever new nodes appear in
\* the list (NormalizeWithPortMap).
THEOREM PortsAreStable == Spec => PortsStable
<1> DEFINE Returns == phase = "down" /\ phase' = "starting" =>
              \A k \in DOMAIN pinned \cap DOMAIN UniquePorts(nodes') :
                MultiPort(mode) /\ YamlPort(k) \subseteq {pinned[k]}
                  => UniquePorts(nodes')[k] = pinned[k]
           Stays == phase = "up" /\ phase' = "reloading" =>
              LET was == UniquePorts(nodes)
                  new == UniquePorts(job'.cand)
              IN  \A k \in DOMAIN was \cap DOMAIN new :
                    /\ MultiPort(mode) /\ was[k] \notin reservedListenerPorts(mode)
                    /\ \A i \in DOMAIN nodes : nodes[i].port = was[k] => Key(nodes[i]) = k
                    => new[k] = was[k]
<1>1. NodeInv /\ [Next]_vars => [Returns /\ Stays]_vars
  <2> SUFFICES ASSUME NodeInv, Next PROVE Returns /\ Stays
    OBVIOUS
  <2>1. Returns
    <3> SUFFICES ASSUME phase = "down", phase' = "starting", MultiPort(mode),
                        NEW k \in DOMAIN pinned \cap DOMAIN UniquePorts(nodes'),
                        YamlPort(k) \subseteq {pinned[k]}
                 PROVE  UniquePorts(nodes')[k] = pinned[k]
      OBVIOUS
    <3>1. PICK extra \in Seq(Node) : \E ok \in BOOLEAN :
            Boot(extra, ok) /\ \A i \in DOMAIN extra : extra[i].src # "inline"
      BY StartingBoot
    <3>2. PICK ok \in BOOLEAN : Boot(extra, ok) /\ \A i \in DOMAIN extra : extra[i].src # "inline"
      BY <3>1
    <3> QED BY <3>2, BootReturns
  <2>2. Stays
    <3> SUFFICES ASSUME phase = "up", phase' = "reloading", MultiPort(mode),
                        NEW k \in DOMAIN UniquePorts(nodes) \cap DOMAIN UniquePorts(job'.cand),
                        UniquePorts(nodes)[k] \notin reservedListenerPorts(mode),
                        \A i \in DOMAIN nodes : nodes[i].port = UniquePorts(nodes)[k] => Key(nodes[i]) = k
                 PROVE  UniquePorts(job'.cand)[k] = UniquePorts(nodes)[k]
      OBVIOUS
    <3>1. PICK ns \in Seq(Node), cand \in Seq(Node) :
           /\ cand = NormalizeWithPortMap(ns, BuildPortMap(nodes), mode, Busy) /\ cand # << >>
           /\ job'.cand = cand
      BY ReloadingCandidate
    <3>2. mode \in Mode /\ nodes \in Seq(Node)
      BY NodeFacts
    <3> QED BY <3>1, <3>2, ReloadReturns
  <2> QED BY <2>1, <2>2
<1> QED BY <1>1, NodeAlways, PTL DEF Spec, PortsStable

-----------------------------------------------------------------------------
(* The options a box is built from. *)

\* Pruned outbounds and rules, each by itself.
Survives(o, bad) == o.tag \notin bad /\ (IsPool(o) => o.members \ bad # {})
KeptOuts(out, bad) == {Without(o, bad) : o \in {x \in out : Survives(x, bad)}}
KeptRules(rules, out, bad) ==
  {r \in rules : /\ r.target \notin bad
                 /\ \A o \in out : o.tag = r.target => Survives(o, bad)}

\* The parts of an outbound that a removal leaves.
LEMMA WithoutParts ==
  ASSUME NEW o, NEW bad
  PROVE  /\ Without(o, bad).tag = o.tag /\ Without(o, bad).members = o.members \ bad
         /\ IsPool(Without(o, bad)) <=> IsPool(o)
  BY DEF Without, IsPool

\* Prune takes out the nodes, the pools without members, and the rules to either.
LEMMA PruneParts ==
  ASSUME NEW bad, NEW in, NEW out, NEW rules
  PROVE  Prune(bad, Options(in, out, rules))
           = Options(in, KeptOuts(out, bad), KeptRules(rules, out, bad))
<1> DEFINE stay == {Without(o, bad) : o \in {x \in out : x.tag \notin bad}}
           gone == {o \in stay : IsPool(o) /\ o.members = {}}
           lost == bad \cup {o.tag : o \in gone}
<1>1. Prune(bad, Options(in, out, rules))
        = Options(in, stay \ gone, {r \in rules : r.target \notin lost})
  BY DEF Prune, Options
<1>2. stay \ gone = KeptOuts(out, bad)
  <2>1. ASSUME NEW o \in stay \ gone PROVE o \in KeptOuts(out, bad)
    <3>1. PICK x \in out : x.tag \notin bad /\ o = Without(x, bad)
      OBVIOUS
    <3>2. ~(IsPool(o) /\ o.members = {})
      BY <2>1
    <3>3. Survives(x, bad)
      BY <3>1, <3>2, WithoutParts DEF Survives
    <3> QED BY <3>1, <3>3 DEF KeptOuts
  <2>2. ASSUME NEW o \in KeptOuts(out, bad) PROVE o \in stay \ gone
    <3>1. PICK x \in out : Survives(x, bad) /\ o = Without(x, bad)
      BY DEF KeptOuts
    <3>2. o \in stay
      BY <3>1 DEF Survives
    <3>3. ~(IsPool(o) /\ o.members = {})
      BY <3>1, WithoutParts DEF Survives
    <3> QED BY <3>2, <3>3
  <2> QED BY <2>1, <2>2
<1>3. ASSUME NEW r \in rules
      PROVE  r.target \notin lost <=> r \in KeptRules(rules, out, bad)
  <2>1. ASSUME r.target \notin lost, NEW o \in out, o.tag = r.target PROVE Survives(o, bad)
    <3>1. o.tag \notin bad
      BY <2>1
    <3>2. ASSUME IsPool(o) PROVE o.members \ bad # {}
      <4>1. Without(o, bad) \in stay /\ Without(o, bad).tag = r.target
        BY <2>1, <3>1, WithoutParts
      <4>2. Without(o, bad) \notin gone
        BY <2>1, <4>1
      <4> HIDE DEF stay
      <4> QED BY <4>1, <4>2, <3>2, WithoutParts
    <3> QED BY <3>1, <3>2 DEF Survives
  <2>2. ASSUME r \in KeptRules(rules, out, bad) PROVE r.target \notin lost
    <3>1. SUFFICES ASSUME r.target \in lost PROVE FALSE
      OBVIOUS
    <3>2. PICK o \in gone : o.tag = r.target
      BY <2>2, <3>1 DEF KeptRules
    <3>3. PICK x \in out : x.tag \notin bad /\ o = Without(x, bad)
      BY <3>2
    <3>4. ~Survives(x, bad)
      BY <3>2, <3>3, WithoutParts DEF Survives
    <3>5. x.tag = r.target
      BY <3>2, <3>3, WithoutParts
    <3> QED BY <2>2, <3>4, <3>5 DEF KeptRules
  <2>3. r.target \notin lost => r.target \notin bad
    OBVIOUS
  <2> HIDE DEF lost
  <2> QED BY <2>1, <2>2, <2>3 DEF KeptRules
<1>4. {r \in rules : r.target \notin lost} = KeptRules(rules, out, bad)
  <2> HIDE DEF lost
  <2> QED BY <1>3 DEF KeptRules
<1> HIDE DEF stay, gone, lost
<1> QED BY <1>1, <1>2, <1>4

\* createBox removes one outbound per attempt: two attempts remove what they would
\* remove together, so that the order in which sing-box rejects nodes does not matter.
LEMMA PruneTwice ==
  ASSUME NEW a, NEW b, NEW in, NEW out, NEW rules
  PROVE  Prune(b, Prune(a, Options(in, out, rules))) = Prune(a \cup b, Options(in, out, rules))
<1>1. ASSUME NEW o
      PROVE  /\ Without(Without(o, a), b) = Without(o, a \cup b)
             /\ Survives(o, a \cup b) <=> Survives(o, a) /\ Survives(Without(o, a), b)
  <2>1. (o.members \ a) \ b = o.members \ (a \cup b)
    OBVIOUS
  <2>2. Without(Without(o, a), b) = Without(o, a \cup b)
    BY <2>1, WithoutParts DEF Without
  <2>3. Survives(Without(o, a), b)
          <=> o.tag \notin b /\ (IsPool(o) => o.members \ (a \cup b) # {})
    BY <2>1, WithoutParts DEF Survives
  <2>4. o.members \ (a \cup b) # {} => o.members \ a # {}
    OBVIOUS
  <2> QED BY <2>2, <2>3, <2>4 DEF Survives
<1>2. KeptOuts(KeptOuts(out, a), b) = KeptOuts(out, a \cup b)
  <2>1. ASSUME NEW o \in KeptOuts(KeptOuts(out, a), b) PROVE o \in KeptOuts(out, a \cup b)
    <3>1. PICK x \in KeptOuts(out, a) : Survives(x, b) /\ o = Without(x, b)
      BY DEF KeptOuts
    <3>2. PICK y \in out : Survives(y, a) /\ x = Without(y, a)
      BY DEF KeptOuts
    <3> QED BY <3>1, <3>2, <1>1 DEF KeptOuts
  <2>2. ASSUME NEW o \in KeptOuts(out, a \cup b) PROVE o \in KeptOuts(KeptOuts(out, a), b)
    <3>1. PICK y \in out : Survives(y, a \cup b) /\ o = Without(y, a \cup b)
      BY DEF KeptOuts
    <3>2. Without(y, a) \in KeptOuts(out, a)
      BY <3>1, <1>1 DEF KeptOuts
    <3> QED BY <3>1, <3>2, <1>1 DEF KeptOuts
  <2> QED BY <2>1, <2>2
<1>3. KeptRules(KeptRules(rules, out, a), KeptOuts(out, a), b) = KeptRules(rules, out, a \cup b)
  <2>1. ASSUME NEW r \in rules, \A o \in out : o.tag = r.target => Survives(o, a)
        PROVE  (\A x \in KeptOuts(out, a) : x.tag = r.target => Survives(x, b))
                 <=> \A o \in out : o.tag = r.target => Survives(o, a \cup b)
    <3>1. ASSUME \A x \in KeptOuts(out, a) : x.tag = r.target => Survives(x, b),
                 NEW o \in out, o.tag = r.target
          PROVE  Survives(o, a \cup b)
      <4>1. Without(o, a) \in KeptOuts(out, a) /\ Without(o, a).tag = r.target
        BY <2>1, <3>1, WithoutParts DEF KeptOuts
      <4> QED BY <4>1, <2>1, <3>1, <1>1
    <3>2. ASSUME \A o \in out : o.tag = r.target => Survives(o, a \cup b),
                 NEW x \in KeptOuts(out, a), x.tag = r.target
          PROVE  Survives(x, b)
      <4>1. PICK o \in out : Survives(o, a) /\ x = Without(o, a)
        BY DEF KeptOuts
      <4> QED BY <4>1, <3>2, <1>1, WithoutParts
    <3> QED BY <3>1, <3>2
  <2>2. ASSUME NEW r \in rules
        PROVE  (\A o \in out : o.tag = r.target => Survives(o, a \cup b))
                 => \A o \in out : o.tag = r.target => Survives(o, a)
    BY <1>1
  <2> QED BY <2>1, <2>2 DEF KeptRules
<1> QED BY <1>2, <1>3, PruneParts

\* What stands between the dashes of a tag: parts of names, the code's own words and the
\* numbers it appends.
Part == STRING \cup {"node", "in", "proxy", "pool"} \cup {ToString(n) : n \in Nat}

\* The three kinds of parts.
LEMMA Parts ==
  /\ STRING \subseteq Part
  /\ {"node", "in", "proxy", "pool"} \subseteq Part
  /\ \A n \in Nat : ToString(n) \in Part
<1>1. STRING \subseteq Part /\ {"node", "in", "proxy", "pool"} \subseteq Part
  BY Zenon DEF Part
<1>2. \A n \in Nat : ToString(n) \in Part
  BY Zenon DEF Part
<1> QED BY <1>1, <1>2

\* A tag is a sequence of parts.
LEMMA TagShape ==
  ASSUME NEW ns \in Seq(Node), NEW lost, NEW i \in DOMAIN ns
  PROVE  Tags(ns, lost)[i] \in Seq(Part)
<1> DEFINE base == Base(ns, lost, i)
           n == Cardinality({j \in 1..i : Base(ns, lost, j) = base})
<1>1. ns[i].uri \in URI /\ Len(ns) \in Nat /\ i \in 1..Len(ns)
  <2>1. ns[i] \in Node /\ i \in 1..Len(ns) /\ Len(ns) \in Nat
    BY ElementOfSeq
  <2> QED BY <2>1 DEF Node
<1>2. base \in Seq(Part)
  <2>1. CASE NameOf[ns[i].uri] # << >>
    <3>1. base \in Seq(STRING)
      BY <1>1, <2>1, RouteConstants DEF Base
    <3> HIDE DEF base
    <3> QED BY <3>1, SeqMonotonic, Parts
  <2>2. CASE NameOf[ns[i].uri] = << >>
    <3>1. PICK k : k = Cardinality({j \in Built(ns, lost) : j < i})
      OBVIOUS
    <3>2. base = <<"node", ToString(k + 1)>>
      BY <2>2, <3>1 DEF Base
    <3>3. k \in Nat
      <4>1. {j \in Built(ns, lost) : j < i} \subseteq 1..Len(ns)
        BY DEF Built
      <4>2. IsFiniteSet(1..Len(ns))
        BY <1>1, FS_Interval
      <4> QED BY <3>1, <4>1, <4>2, FS_Subset, FS_CardinalityType
    <3>4. k + 1 \in Nat
      BY <3>3
    <3>5. "node" \in Part
      BY Parts
    <3>6. ToString(k + 1) \in Part
      BY <3>4, Parts, Zenon
    <3>7. \A x, y \in Part : <<x, y>> \in Seq(Part)
      OBVIOUS
    <3> HIDE DEF base
    <3> QED BY <3>2, <3>5, <3>6, <3>7
  <2> QED BY <2>1, <2>2
<1>3. Tags(ns, lost)[i] = IF n = 1 THEN base ELSE Append(base, ToString(n))
  BY DEF Tags
<1>4. Append(base, ToString(n)) \in Seq(Part)
  <2>1. n \in Nat
    <3>1. IsFiniteSet(1..i)
      BY <1>1, FS_Interval
    <3>2. {j \in 1..i : Base(ns, lost, j) = base} \subseteq 1..i
      OBVIOUS
    <3> HIDE DEF base
    <3> QED BY <3>1, <3>2, FS_Subset, FS_CardinalityType
  <2>2. ToString(n) \in Part
    <3> HIDE DEF n
    <3> QED BY <2>1, Parts
  <2> HIDE DEF base, n
  <2> QED BY <1>2, <2>2, AppendProperties
<1> HIDE DEF base, n
<1> QED BY <1>2, <1>3, <1>4

\* A tag that goes on keeps its first part.
LEMMA FirstPart ==
  ASSUME NEW s \in Seq(Part), NEW t \in Seq(Part), Len(s) \in Nat \ {0}
  PROVE  (s \o t)[1] = s[1]
<1>1. Len(t) \in Nat
  OBVIOUS
<1>2. 1 \in 1..(Len(s) + Len(t)) /\ 1 <= Len(s)
  BY <1>1
<1>3. (s \o t)[1] = IF 1 <= Len(s) THEN s[1] ELSE t[1 - Len(s)]
  BY <1>2, ConcatProperties
<1> QED BY <1>2, <1>3

\* An inbound's tag tells the node it is for, and is not that of the sticky entry; a
\* node's pool is not a region's.
LEMMA NodeTags ==
  ASSUME NEW t \in Seq(Part)
  PROVE  /\ InFor(t) # StickyIn
         /\ \A u \in Seq(Part) : InFor(u) = InFor(t) => u = t
         /\ \A r : PoolFor(t) # RegionPool(r)
<1>1. "in" \in Part /\ "proxy" \in Part /\ "pool" \in Part
  BY Parts
<1>2. <<"in">> \in Seq(Part) /\ Len(<<"in">>) = 1 /\ <<"in">>[1] = "in"
  BY <1>1
<1>3. Pool \in Seq(Part) /\ Len(Pool) = 2 /\ Pool[1] = "proxy"
  BY <1>1 DEF Pool
<1>4. InFor(t)[1] = "in" /\ PoolFor(t)[1] = "proxy"
  BY <1>2, <1>3, FirstPart DEF InFor, PoolFor
<1>5. StickyIn[1] = "sticky" /\ \A r : RegionPool(r)[1] = "pool"
  BY DEF StickyIn, RegionPool
<1>6. \A u \in Seq(Part) : InFor(u) = InFor(t) => u = t
  <2>1. \A a, b, c \in Seq(Part) : a \o b = a \o c => b = c
    BY ConcatSimplifications, Zenon
  <2> QED BY <1>2, <2>1 DEF InFor
<1> QED BY <1>4, <1>5, <1>6

\* The nodes by tag, when no two have the same.
LEMMA MetadataParts ==
  ASSUME NEW ns \in Seq(Node), NEW lost, NEW opts, DistinctTags(ns, lost, opts)
  PROVE  /\ DOMAIN Metadata(ns, lost) = {Tags(ns, lost)[i] : i \in Built(ns, lost)}
         /\ \A i \in Built(ns, lost) : Metadata(ns, lost)[Tags(ns, lost)[i]] = ns[i]
<1>1. DOMAIN Metadata(ns, lost) = {Tags(ns, lost)[i] : i \in Built(ns, lost)}
  BY DEF Metadata
<1>2. ASSUME NEW i \in Built(ns, lost) PROVE Metadata(ns, lost)[Tags(ns, lost)[i]] = ns[i]
  <2>1. \A j \in Built(ns, lost) : Tags(ns, lost)[j] = Tags(ns, lost)[i] => j = i
    BY DEF DistinctTags
  <2>2. i \in Nat
    BY DEF Built
  <2> DEFINE last(k) == Tags(ns, lost)[k] = Tags(ns, lost)[i]
                         /\ \A j \in Built(ns, lost) : Tags(ns, lost)[j] = Tags(ns, lost)[i] => j <= k
  <2>3. last(i)
    BY <2>1, <2>2
  <2>4. (CHOOSE k \in Built(ns, lost) : last(k)) = i
    BY <2>1, <2>3
  <2> QED BY <2>4 DEF Metadata
<1> QED BY <1>1, <1>2

\* What Build makes of nodes by tag: which outbounds and rules there are, and which
\* inbounds at least.
OutOf(o, meta, m, sticky, geo, regionOf) ==
  \/ \E t \in DOMAIN meta : o = NodeOut(t)
  \/ m \in {"pool", "hybrid"} /\ o = PoolOut(Pool, DOMAIN meta)
  \/ m \in {"pool", "hybrid"} /\ sticky /\ o = PoolOut(StickyPool, DOMAIN meta)
  \/ m \in {"multi-port", "hybrid"} /\ \E t \in DOMAIN meta : o = PoolOut(PoolFor(t), {t})
  \/ /\ m \in {"pool", "hybrid"} /\ geo
     /\ \E r \in Region : /\ Located(meta, regionOf, r) # {}
                          /\ o = PoolOut(RegionPool(r), Located(meta, regionOf, r))
RuleOf(r, meta, m, sticky) ==
  \/ m \in {"pool", "hybrid"} /\ sticky /\ r = Rule(StickyIn, StickyPool)
  \/ m \in {"multi-port", "hybrid"} /\ \E t \in DOMAIN meta : r = Rule(InFor(t), PoolFor(t))
MadeOf(in, out, rules, meta, m, sticky, geo, regionOf) ==
  /\ \A o : o \in out <=> OutOf(o, meta, m, sticky, geo, regionOf)
  /\ \A r : r \in rules <=> RuleOf(r, meta, m, sticky)
  /\ m \in {"multi-port", "hybrid"} => \A t \in DOMAIN meta : Inbound(InFor(t), meta[t].port) \in in
  /\ m \in {"pool", "hybrid"} /\ sticky => \E b \in in : b.tag = StickyIn

\* Joining options joins their parts.
LEMMA JoinParts ==
  ASSUME NEW a, NEW b, NEW c, NEW d, NEW e, NEW f
  PROVE  Join(Options(a, b, c), Options(d, e, f)) = Options(a \cup d, b \cup e, c \cup f)
  BY DEF Join, Options

\* Build, part by part.
LEMMA BuildParts ==
  ASSUME NEW ns, NEW m, NEW lost, NEW sticky \in BOOLEAN, NEW geo \in BOOLEAN, NEW regionOf,
         NEW listener, NEW stickyPort, Built(ns, lost) # {}
  PROVE  \E in, out, rules :
           /\ Build(ns, m, lost, sticky, geo, regionOf, listener, stickyPort)
                = Options(in, out, rules)
           /\ MadeOf(in, out, rules, Metadata(ns, lost), m, sticky, geo, regionOf)
<1>0. PICK meta : meta = Metadata(ns, lost)
  OBVIOUS
<1> DEFINE pooled == m \in {"pool", "hybrid"}
           single == m \in {"multi-port", "hybrid"}
           sIn == IF pooled THEN {Inbound(HttpIn, listener)}
                    \cup (IF sticky THEN {Inbound(StickyIn, stickyPort)} ELSE {}) ELSE {}
           sOut == IF pooled THEN {PoolOut(Pool, DOMAIN meta)}
                    \cup (IF sticky THEN {PoolOut(StickyPool, DOMAIN meta)} ELSE {}) ELSE {}
           sRules == IF pooled /\ sticky THEN {Rule(StickyIn, StickyPool)} ELSE {}
           nIn == IF single THEN {Inbound(InFor(t), meta[t].port) : t \in DOMAIN meta} ELSE {}
           nOut == IF single THEN {PoolOut(PoolFor(t), {t}) : t \in DOMAIN meta} ELSE {}
           nRules == IF single THEN {Rule(InFor(t), PoolFor(t)) : t \in DOMAIN meta} ELSE {}
           gOut == IF pooled /\ geo
                     THEN {PoolOut(RegionPool(r), Located(meta, regionOf, r)) :
                             r \in {x \in Region : Located(meta, regionOf, x) # {}}}
                     ELSE {}
           outs == {NodeOut(t) : t \in DOMAIN meta}
           when(on, opts) == IF on THEN opts ELSE NoOptions
           shared == SharedEntry(DOMAIN meta, listener, sticky, stickyPort)
<1>1. Build(ns, m, lost, sticky, geo, regionOf, listener, stickyPort)
        = Join(Join(Options({}, outs, {}), when(pooled, shared)),
               Join(when(single, NodeEntries(meta)), when(pooled /\ geo, RegionPools(meta, regionOf))))
  BY <1>0 DEF Build
<1>2. when(pooled, shared) = Options(sIn, sOut, sRules)
  <2>1. CASE pooled /\ sticky
    <3>1. shared = Join(Options({Inbound(HttpIn, listener)}, {PoolOut(Pool, DOMAIN meta)}, {}),
                        Options({Inbound(StickyIn, stickyPort)}, {PoolOut(StickyPool, DOMAIN meta)},
                                {Rule(StickyIn, StickyPool)}))
      BY <2>1 DEF SharedEntry
    <3>2. {} \cup {Rule(StickyIn, StickyPool)} = sRules
      BY <2>1
    <3>3. sIn = {Inbound(HttpIn, listener)} \cup {Inbound(StickyIn, stickyPort)}
          /\ sOut = {PoolOut(Pool, DOMAIN meta)} \cup {PoolOut(StickyPool, DOMAIN meta)}
      BY <2>1
    <3> HIDE DEF sIn, sOut, sRules, shared
    <3> QED BY <2>1, <3>1, <3>2, <3>3, JoinParts
  <2>2. CASE pooled /\ ~sticky
    <3>1. shared = Join(Options({Inbound(HttpIn, listener)}, {PoolOut(Pool, DOMAIN meta)}, {}),
                        Options({}, {}, {}))
      BY <2>2 DEF SharedEntry, NoOptions
    <3>2. /\ {} \cup {} = sRules /\ sIn = {Inbound(HttpIn, listener)} \cup {}
          /\ sOut = {PoolOut(Pool, DOMAIN meta)} \cup {}
      BY <2>2
    <3> HIDE DEF sIn, sOut, sRules, shared
    <3> QED BY <2>2, <3>1, <3>2, JoinParts
  <2>3. CASE ~pooled
    BY <2>3 DEF NoOptions
  <2> QED BY <2>1, <2>2, <2>3
<1>3. when(single, NodeEntries(meta)) = Options(nIn, nOut, nRules)
  BY DEF NodeEntries, NoOptions
<1>4. when(pooled /\ geo, RegionPools(meta, regionOf)) = Options({}, gOut, {})
  BY DEF RegionPools, NoOptions
<1> DEFINE in == ({} \cup sIn) \cup (nIn \cup {})
           out == (outs \cup sOut) \cup (nOut \cup gOut)
           rules == ({} \cup sRules) \cup (nRules \cup {})
<1>5. Build(ns, m, lost, sticky, geo, regionOf, listener, stickyPort) = Options(in, out, rules)
  <2> HIDE DEF sIn, sOut, sRules, nIn, nOut, nRules, gOut, outs, when, shared
  <2>1. Join(Options({}, outs, {}), Options(sIn, sOut, sRules))
          = Options({} \cup sIn, outs \cup sOut, {} \cup sRules)
    BY JoinParts
  <2>2. Join(Options(nIn, nOut, nRules), Options({}, gOut, {}))
          = Options(nIn \cup {}, nOut \cup gOut, nRules \cup {})
    BY JoinParts
  <2>3. Join(Options({} \cup sIn, outs \cup sOut, {} \cup sRules),
             Options(nIn \cup {}, nOut \cup gOut, nRules \cup {})) = Options(in, out, rules)
    BY JoinParts
  <2> HIDE DEF in, out, rules
  <2> QED BY <1>1, <1>2, <1>3, <1>4, <2>1, <2>2, <2>3
<1>6. ASSUME NEW o PROVE o \in out <=> OutOf(o, meta, m, sticky, geo, regionOf)
  <2>1. o \in outs <=> \E t \in DOMAIN meta : o = NodeOut(t)
    OBVIOUS
  <2>2. o \in sOut <=> \/ pooled /\ o = PoolOut(Pool, DOMAIN meta)
                       \/ pooled /\ sticky /\ o = PoolOut(StickyPool, DOMAIN meta)
    OBVIOUS
  <2>3. o \in nOut <=> single /\ \E t \in DOMAIN meta : o = PoolOut(PoolFor(t), {t})
    OBVIOUS
  <2>4. o \in gOut <=> /\ pooled /\ geo
                       /\ \E r \in Region : /\ Located(meta, regionOf, r) # {}
                                            /\ o = PoolOut(RegionPool(r), Located(meta, regionOf, r))
    OBVIOUS
  <2> HIDE DEF sOut, nOut, gOut, outs
  <2> QED BY <2>1, <2>2, <2>3, <2>4 DEF OutOf
<1>7. ASSUME NEW r PROVE r \in rules <=> RuleOf(r, meta, m, sticky)
  BY DEF RuleOf
<1>8. single => \A t \in DOMAIN meta : Inbound(InFor(t), meta[t].port) \in in
  OBVIOUS
<1>9. pooled /\ sticky => \E b \in in : b.tag = StickyIn
  <2>1. Inbound(StickyIn, stickyPort).tag = StickyIn
    BY DEF Inbound
  <2> QED BY <2>1
<1>10. MadeOf(in, out, rules, meta, m, sticky, geo, regionOf)
  <2> HIDE DEF in, out, rules
  <2> QED BY <1>6, <1>7, <1>8, <1>9 DEF MadeOf
<1> HIDE DEF in, out, rules
<1> QED BY <1>0, <1>5, <1>10

\* A pool Build made and pruning left is a pool of Build without the nodes that went.
PoolFrom(o, out, bad) ==
  \E p \in out : /\ IsPool(p) /\ o.tag = p.tag /\ o.members = p.members \ bad
                 /\ o.members # {} /\ p.tag \notin bad

\* Pruning by the parts of what is left.
LEMMA PrunedParts ==
  ASSUME NEW bad, NEW in, NEW out, NEW rules, NEW opts,
         opts = Options(in, KeptOuts(out, bad), KeptRules(rules, out, bad))
  PROVE  /\ opts.in = in
         /\ \A p \in out : Survives(p, bad) => p.tag \in OutTags(opts)
         /\ \A p \in out : Survives(p, bad) /\ IsPool(p) => Without(p, bad) \in PoolsOf(opts)
         /\ \A o \in PoolsOf(opts) : PoolFrom(o, out, bad)
         /\ \A r : r \in opts.rules
              <=> /\ r \in rules /\ r.target \notin bad
                  /\ \A p \in out : p.tag = r.target => Survives(p, bad)
<1>1. opts.in = in /\ opts.out = KeptOuts(out, bad) /\ opts.rules = KeptRules(rules, out, bad)
  BY DEF Options
<1>2. ASSUME NEW p \in out, Survives(p, bad)
      PROVE  p.tag \in OutTags(opts) /\ (IsPool(p) => Without(p, bad) \in PoolsOf(opts))
  <2>1. Without(p, bad) \in opts.out
    BY <1>1, <1>2 DEF KeptOuts
  <2> QED BY <2>1, WithoutParts DEF OutTags, PoolsOf
<1>3. ASSUME NEW o \in PoolsOf(opts) PROVE PoolFrom(o, out, bad)
  <2>1. o \in KeptOuts(out, bad) /\ IsPool(o)
    BY <1>1 DEF PoolsOf
  <2>2. PICK p \in out : Survives(p, bad) /\ o = Without(p, bad)
    BY <2>1 DEF KeptOuts
  <2>3. o.tag = p.tag /\ o.members = p.members \ bad /\ IsPool(p)
    BY <2>1, <2>2, WithoutParts
  <2> QED BY <2>2, <2>3 DEF PoolFrom, Survives
<1> QED BY <1>1, <1>2, <1>3 DEF KeptRules

\* The pools Build makes have nodes as members, and those of a region its nodes.
LEMMA PoolMembers ==
  ASSUME NEW meta, NEW m, NEW sticky \in BOOLEAN, NEW geo \in BOOLEAN, NEW regionOf, NEW p,
         OutOf(p, meta, m, sticky, geo, regionOf), IsPool(p), \A t \in DOMAIN meta : t \in Seq(Part)
  PROVE  /\ p.members \subseteq DOMAIN meta
         /\ \A r \in Region : p.tag = RegionPool(r) => p.members = Located(meta, regionOf, r)
<1>1. \A g, s : PoolOut(g, s).members = s /\ PoolOut(g, s).tag = g
  BY DEF PoolOut
<1>2. \A t : ~IsPool(NodeOut(t))
  BY DEF NodeOut, IsPool
<1>3. \A r, x : RegionPool(r) = RegionPool(x) => r = x
  <2>1. \A r : RegionPool(r)[2] = r
    BY DEF RegionPool
  <2> QED BY <2>1
<1>4. CASE p = PoolOut(Pool, DOMAIN meta) \/ p = PoolOut(StickyPool, DOMAIN meta)
  <2>1. Pool[1] = "proxy" /\ StickyPool[1] = "proxy" /\ \A r : RegionPool(r)[1] = "pool"
    BY DEF Pool, StickyPool, RegionPool
  <2>2. p.members = DOMAIN meta /\ p.tag \in {Pool, StickyPool}
    BY <1>1, <1>4
  <2> QED BY <2>1, <2>2
<1>5. CASE \E t \in DOMAIN meta : p = PoolOut(PoolFor(t), {t})
  BY <1>1, <1>5, NodeTags
<1>6. CASE \E r \in Region : p = PoolOut(RegionPool(r), Located(meta, regionOf, r))
  <2>1. PICK x \in Region : p = PoolOut(RegionPool(x), Located(meta, regionOf, x))
    BY <1>6
  <2>2. p.members = Located(meta, regionOf, x) /\ p.tag = RegionPool(x)
    BY <1>1, <2>1
  <2>3. Located(meta, regionOf, x) \subseteq DOMAIN meta
    BY DEF Located
  <2>4. \A r \in Region : p.tag = RegionPool(r) => r = x
    BY <1>3, <2>2
  <2> QED BY <2>2, <2>3, <2>4
<1> QED BY <1>2, <1>4, <1>5, <1>6 DEF OutOf

\* The options after pruning route every node that is left, and point to nothing else.
Routes(opts, meta, m, sticky, geo, bad) ==
  /\ RulesPoint(opts) /\ PoolsFilled(opts)
  /\ \A t \in DOMAIN meta \ bad :
       /\ t \in OutTags(opts)
       /\ m \in {"multi-port", "hybrid"} => ByPort(opts, t, meta[t].port)
       /\ m \in {"pool", "hybrid"} => ByPool(opts, t, sticky, geo)

\* Pruning node tags keeps the routes of the nodes that are left, when a tag is that of
\* one outbound.
LEMMA PrunedRoutes ==
  ASSUME NEW meta, NEW in, NEW out, NEW rules, NEW m, NEW sticky \in BOOLEAN, NEW geo \in BOOLEAN,
         NEW regionOf, NEW bad, NEW opts,
         MadeOf(in, out, rules, meta, m, sticky, geo, regionOf),
         \A o, p \in out : o.tag = p.tag => o = p,
         \A t \in DOMAIN meta : t \in Seq(Part) /\ regionOf[meta[t].uri] \in Region,
         bad \subseteq DOMAIN meta,
         opts = Options(in, KeptOuts(out, bad), KeptRules(rules, out, bad))
  PROVE  Routes(opts, meta, m, sticky, geo, bad)
<1>1. \A p : p \in out <=> OutOf(p, meta, m, sticky, geo, regionOf)
  BY DEF MadeOf
<1>2. \A r : r \in rules <=> RuleOf(r, meta, m, sticky)
  BY DEF MadeOf
<1>3. /\ opts.in = in
      /\ \A p \in out : Survives(p, bad) => p.tag \in OutTags(opts)
      /\ \A p \in out : Survives(p, bad) /\ IsPool(p) => Without(p, bad) \in PoolsOf(opts)
      /\ \A o \in PoolsOf(opts) : PoolFrom(o, out, bad)
      /\ \A r : r \in opts.rules
           <=> /\ r \in rules /\ r.target \notin bad
               /\ \A p \in out : p.tag = r.target => Survives(p, bad)
  BY PrunedParts
<1>4. \A p \in out : IsPool(p) =>
        /\ p.members \subseteq DOMAIN meta
        /\ \A r \in Region : p.tag = RegionPool(r) => p.members = Located(meta, regionOf, r)
  BY <1>1, PoolMembers
<1>5. \A t : NodeOut(t).tag = t /\ ~IsPool(NodeOut(t))
  BY DEF NodeOut, IsPool
<1>6. \A g, s : PoolOut(g, s).tag = g /\ PoolOut(g, s).members = s /\ IsPool(PoolOut(g, s))
  BY DEF PoolOut, IsPool
<1>7. \A a, b : Rule(a, b).inbound = a /\ Rule(a, b).target = b
  BY DEF Rule
<1>8. \A t \in DOMAIN meta : NodeOut(t) \in out
  BY <1>1 DEF OutOf
<1>9. \A p \in out : IsPool(p) => p.tag \notin bad
  BY <1>5, <1>8
<1>10. ASSUME NEW t \in DOMAIN meta \ bad PROVE t \in OutTags(opts)
  <2>1. Survives(NodeOut(t), bad)
    BY <1>5 DEF Survives
  <2> QED BY <2>1, <1>3, <1>5, <1>8
\* A pool with a node that is left is left, with the rules that lead to it.
<1>11. ASSUME NEW p \in out, IsPool(p), NEW t \in p.members \ bad
       PROVE  /\ \E o \in PoolsOf(opts) : o.tag = p.tag /\ o.members = p.members \ bad
              /\ \A i : Rule(i, p.tag) \in rules => Rule(i, p.tag) \in opts.rules
  <2>1. Survives(p, bad)
    BY <1>9, <1>11 DEF Survives
  <2>2. \E o \in PoolsOf(opts) : o.tag = p.tag /\ o.members = p.members \ bad
    BY <1>3, <1>11, <2>1, WithoutParts
  <2>3. \A x \in out : x.tag = p.tag => Survives(x, bad)
    BY <2>1
  <2> QED BY <1>3, <1>7, <1>9, <1>11, <2>2, <2>3
<1>12. PoolsFilled(opts)
  <2>1. ASSUME NEW o \in PoolsOf(opts) PROVE o.members # {} /\ o.members \subseteq OutTags(opts)
    <3>1. PICK p \in out : IsPool(p) /\ o.members = p.members \ bad /\ o.members # {}
      BY <1>3 DEF PoolFrom
    <3>2. p.members \subseteq DOMAIN meta
      BY <1>4, <3>1
    <3> QED BY <1>10, <3>1, <3>2
  <2> QED BY <2>1 DEF PoolsFilled
<1>13. RulesPoint(opts)
  <2>1. ASSUME NEW r \in opts.rules
        PROVE  r.target \in OutTags(opts) /\ \E b \in opts.in : b.tag = r.inbound
    <3>1. RuleOf(r, meta, m, sticky) /\ \A p \in out : p.tag = r.target => Survives(p, bad)
      BY <1>2, <1>3
    <3>2. CASE m \in {"pool", "hybrid"} /\ sticky /\ r = Rule(StickyIn, StickyPool)
      <4>1. PoolOut(StickyPool, DOMAIN meta) \in out
        BY <1>1, <3>2 DEF OutOf
      <4>2. \E b \in in : b.tag = StickyIn
        BY <3>2 DEF MadeOf
      <4> QED BY <3>1, <3>2, <4>1, <4>2, <1>3, <1>6, <1>7
    <3>3. CASE m \in {"multi-port", "hybrid"} /\ \E t \in DOMAIN meta : r = Rule(InFor(t), PoolFor(t))
      <4>1. PICK t \in DOMAIN meta : r = Rule(InFor(t), PoolFor(t))
        BY <3>3
      <4>2. PoolOut(PoolFor(t), {t}) \in out
        BY <1>1, <3>3 DEF OutOf
      <4>3. Inbound(InFor(t), meta[t].port) \in in /\ Inbound(InFor(t), meta[t].port).tag = InFor(t)
        BY <3>3 DEF MadeOf, Inbound
      <4> QED BY <3>1, <4>1, <4>2, <4>3, <1>3, <1>6, <1>7
    <3> QED BY <3>1, <3>2, <3>3 DEF RuleOf
  <2> QED BY <2>1 DEF RulesPoint
<1>14. ASSUME NEW t \in DOMAIN meta \ bad, m \in {"multi-port", "hybrid"}
       PROVE  ByPort(opts, t, meta[t].port)
  <2>1. Inbound(InFor(t), meta[t].port) \in opts.in
    BY <1>3, <1>14 DEF MadeOf
  <2>2. PICK own \in out : own = PoolOut(PoolFor(t), {t})
    BY <1>1, <1>14 DEF OutOf
  <2>3. own.tag = PoolFor(t) /\ own.members = {t} /\ IsPool(own)
    BY <1>6, <2>2
  <2>4. ASSUME NEW o \in PoolsOf(opts), Rule(InFor(t), o.tag) \in opts.rules
        PROVE  o.members = {t}
    <3>1. RuleOf(Rule(InFor(t), o.tag), meta, m, sticky)
      BY <1>2, <1>3, <2>4
    <3>2. Rule(InFor(t), o.tag) # Rule(StickyIn, StickyPool)
      BY <1>7, NodeTags
    <3>3. PICK u \in DOMAIN meta : Rule(InFor(t), o.tag) = Rule(InFor(u), PoolFor(u))
      BY <3>1, <3>2 DEF RuleOf
    <3>4. InFor(u) = InFor(t) /\ o.tag = PoolFor(u)
      BY <1>7, <3>3
    <3>5. u = t
      BY <3>4, NodeTags
    <3>6. PICK p \in out : IsPool(p) /\ o.tag = p.tag /\ o.members = p.members \ bad
      BY <1>3 DEF PoolFrom
    <3>7. p = own
      BY <2>3, <3>4, <3>5, <3>6
    <3> QED BY <2>3, <3>6, <3>7
  <2>5. \E o \in PoolsOf(opts) : Rule(InFor(t), o.tag) \in opts.rules
    <3>1. t \in own.members \ bad
      BY <2>3
    <3>2. Rule(InFor(t), own.tag) \in rules
      BY <1>2, <1>14, <2>3 DEF RuleOf
    <3> QED BY <1>11, <2>3, <3>1, <3>2
  <2>6. Reach(opts, InFor(t)) = {t}
    BY <2>4, <2>5 DEF Reach
  <2> QED BY <2>1, <2>6 DEF ByPort
<1>15. ASSUME NEW t \in DOMAIN meta \ bad, m \in {"pool", "hybrid"}
       PROVE  ByPool(opts, t, sticky, geo)
  <2>1. \E o \in PoolsOf(opts) : o.tag = Pool /\ t \in o.members
    <3>1. PICK p \in out : p = PoolOut(Pool, DOMAIN meta)
      BY <1>1, <1>15 DEF OutOf
    <3>2. p.tag = Pool /\ t \in p.members \ bad /\ IsPool(p)
      BY <1>6, <3>1
    <3> QED BY <1>11, <3>2
  <2>2. ASSUME sticky PROVE t \in Reach(opts, StickyIn)
    <3>1. PICK p \in out : p = PoolOut(StickyPool, DOMAIN meta)
      BY <1>1, <1>15, <2>2 DEF OutOf
    <3>2. p.tag = StickyPool /\ t \in p.members \ bad /\ IsPool(p)
      BY <1>6, <3>1
    <3>3. Rule(StickyIn, p.tag) \in rules
      BY <1>2, <1>15, <2>2, <3>2 DEF RuleOf
    <3>4. PICK o \in PoolsOf(opts) : o.tag = p.tag /\ o.members = p.members \ bad
      BY <1>11, <3>2
    <3>5. Rule(StickyIn, o.tag) \in opts.rules
      BY <1>11, <3>2, <3>3, <3>4
    <3> QED BY <3>2, <3>4, <3>5 DEF Reach
  <2>3. ASSUME geo
        PROVE  \E r \in Region : \A q \in Region :
                 (\E o \in PoolsOf(opts) : o.tag = RegionPool(q) /\ t \in o.members) <=> q = r
    <3>1. PICK r \in Region : r = regionOf[meta[t].uri]
      OBVIOUS
    <3>2. \A q : t \in Located(meta, regionOf, q) <=> q = r
      BY <3>1 DEF Located
    <3>3. ASSUME NEW q \in Region, NEW o \in PoolsOf(opts), o.tag = RegionPool(q), t \in o.members
          PROVE  q = r
      <4>1. PICK p \in out : IsPool(p) /\ o.tag = p.tag /\ o.members = p.members \ bad
        BY <1>3 DEF PoolFrom
      <4>2. p.members = Located(meta, regionOf, q)
        BY <1>4, <3>3, <4>1
      <4> QED BY <3>2, <3>3, <4>1, <4>2
    <3>4. \E o \in PoolsOf(opts) : o.tag = RegionPool(r) /\ t \in o.members
      <4>1. Located(meta, regionOf, r) # {}
        BY <3>2
      <4>2. PICK p \in out : p = PoolOut(RegionPool(r), Located(meta, regionOf, r))
        BY <1>1, <1>15, <2>3, <4>1 DEF OutOf
      <4>3. p.tag = RegionPool(r) /\ t \in p.members \ bad /\ IsPool(p)
        BY <1>6, <3>2, <4>2
      <4> QED BY <1>11, <4>3
    <3> QED BY <3>3, <3>4
  <2> QED BY <2>1, <2>2, <2>3 DEF ByPool
<1> QED BY <1>10, <1>12, <1>13, <1>14, <1>15 DEF Routes

\* What createBox ends with is Consistent, whatever does not parse and is rejected.
LEMMA OutcomeConsistent ==
  ASSUME NEW ns \in Seq(Node), NEW v \in Verdicts, DistinctTags(ns, v[1], BuiltFrom(ns, v[1]))
  PROVE  Consistent(ns, BoxOutcome(ns, v), mode, StickyEnabled, GeoEnabled, v[1], Tagged(ns, v))
<1> DEFINE built == BuiltFrom(ns, v[1])
           bad == OutTags(built) \cap Tagged(ns, v)
<1>1. BoxOutcome(ns, v) = Prune(bad, built)
  BY DEF BoxOutcome, Created, OutTags
<1>2. \A i \in DOMAIN ns : Tags(ns, v[1])[i] \in Seq(Part) /\ ns[i].uri \in URI
  <2>1. ASSUME NEW i \in DOMAIN ns PROVE ns[i].uri \in URI
    <3>1. ns[i] \in Node
      BY ElementOfSeq
    <3> QED BY <3>1 DEF Node
  <2> QED BY <2>1, TagShape
<1>3. CASE Built(ns, v[1]) = {}
  <2>1. built = Options({}, {}, {})
    BY <1>3 DEF BuiltFrom, Build, NoOptions
  <2>2. BoxOutcome(ns, v) = Options({}, KeptOuts({}, bad), KeptRules({}, {}, bad))
    <3> HIDE DEF built, bad
    <3> QED BY <1>1, <2>1, PruneParts
  <2>3. KeptOuts({}, bad) = {} /\ KeptRules({}, {}, bad) = {}
    <3> HIDE DEF bad
    <3> QED BY DEF KeptOuts, KeptRules
  <2>4. BoxOutcome(ns, v).out = {} /\ BoxOutcome(ns, v).rules = {}
    <3>1. BoxOutcome(ns, v) = Options({}, {}, {})
      BY <2>2, <2>3
    <3> QED BY <3>1 DEF Options
  <2> QED BY <1>3, <2>4 DEF Consistent, RulesPoint, PoolsFilled, PoolsOf
<1>4. CASE Built(ns, v[1]) # {}
  <2>0. StickyEnabled \in BOOLEAN /\ GeoEnabled \in BOOLEAN
    BY PortConstants
  <2>1. PICK in, out, rules :
          /\ built = Options(in, out, rules)
          /\ MadeOf(in, out, rules, Metadata(ns, v[1]), mode, StickyEnabled, GeoEnabled, RegionOf)
    BY <1>4, <2>0, BuildParts DEF BuiltFrom
  <2>2. BoxOutcome(ns, v) = Options(in, KeptOuts(out, bad), KeptRules(rules, out, bad))
    <3> HIDE DEF built, bad
    <3> QED BY <1>1, <2>1, PruneParts
  <2>3. PICK meta : meta = Metadata(ns, v[1])
    OBVIOUS
  <2>4. /\ DOMAIN meta = {Tags(ns, v[1])[i] : i \in Built(ns, v[1])}
        /\ \A i \in Built(ns, v[1]) : meta[Tags(ns, v[1])[i]] = ns[i]
    BY <2>3, MetadataParts
  <2>5. Built(ns, v[1]) \subseteq DOMAIN ns
    BY DEF Built
  <2>6. \A t \in DOMAIN meta : t \in Seq(Part) /\ RegionOf[meta[t].uri] \in Region
    BY <1>2, <2>4, <2>5, RouteConstants
  <2>7. bad \subseteq DOMAIN meta
    <3>1. Tagged(ns, v) \subseteq DOMAIN meta
      BY <2>4 DEF Tagged
    <3> QED BY <3>1
  <2>8. \A o, p \in out : o.tag = p.tag => o = p
    <3>1. built.out = out
      <4> HIDE DEF built
      <4> QED BY <2>1 DEF Options
    <3> QED BY <3>1 DEF DistinctTags
  <2>9. Routes(BoxOutcome(ns, v), meta, mode, StickyEnabled, GeoEnabled, bad)
    <3> HIDE DEF bad
    <3> QED BY <2>0, <2>1, <2>2, <2>3, <2>6, <2>7, <2>8, PrunedRoutes
  <2>10. bad \subseteq Tagged(ns, v)
    OBVIOUS
  <2> HIDE DEF bad
  <2> QED BY <2>4, <2>9, <2>10 DEF Routes, Consistent
<1> QED BY <1>3, <1>4

\* Every list Start or a reload hands to a box has routes as RoutesSound says, unless
\* two outbounds got one tag: for any nodes, names, modes, regions and ports, whatever
\* does not parse (builder.Build) and whatever sing-box rejects (createBox).
THEOREM RoutesAreSound == Spec => []RoutesSound
<1>1. NodeInv => RoutesSound
  <2> SUFFICES ASSUME NodeInv PROVE RoutesSound
    OBVIOUS
  <2>1. Handed \in Seq(Node)
    BY DEF NodeInv, AssignmentSound, TypeOK, Handed
  <2> QED BY <2>1, OutcomeConsistent DEF RoutesSound
<1> QED BY <1>1, NodeAlways, PTL

-----------------------------------------------------------------------------
(* The file. *)

Locking == {"compare", "load", "loaded", "read", "rename", "overwrite", "truncate", "unlock"}
Critical == {"read", "rename", "overwrite", "truncate"}

\* One operation at a time in a process.
MutexHeld == \A t \in Thread : pc[t] # "idle" => mutex[ProcessOf[t]] = t

FilesOpen ==
  \A t \in Thread : IF pc[t] \in {"idle", "sidecar", "open"} THEN fd[t] = NoInode ELSE fd[t] \in Inode

InodeLocked == \A t \in Thread : pc[t] \in Locking => flock[fd[t]] = t

WritersAtPath == \A t \in Thread : pc[t] \in Critical => t \in Writer /\ fd[t] = file

\* Every group that is not spoiled is as it was saved last.
Holds(contents) == \A g \in Group \ spoiled : contents[g] = latest[g]

ReadIsLatest ==
  \A w \in Writer : pc[w] \in {"rename", "overwrite", "truncate"} => buf[w] \in Contents /\ Holds(buf[w])

FileIsLatest == data[file] # Torn => Holds(data[file])

\* A torn file that nobody is overwriting spoils every group.
TornAtPath == data[file] = Torn => spoiled = Group \/ \E w \in Writer : pc[w] = "truncate"

SpoiledByDamage == spoiled # {} => damaged

TornExplained ==
  \A i \in Inode : data[i] = Torn => damaged \/ \E w \in Writer : pc[w] = "truncate" /\ fd[w] = i

LoadedWhole == \A r \in Reader : pc[r] = "loaded" /\ buf[r] = Torn => damaged

LockInv == MutexHeld /\ FilesOpen /\ InodeLocked /\ WritersAtPath
DataInv ==
  ReadIsLatest /\ FileIsLatest /\ TornAtPath /\ SpoiledByDamage /\ TornExplained /\ LoadedWhole
SaveInv == FilesTypeOK /\ LockInv /\ DataInv


-----------------------------------------------------------------------------
\* Nobody is inside an operation and the path names a whole file.
LEMMA FileInit == FilesInit => SaveInv
<1> SUFFICES ASSUME FilesInit PROVE SaveInv
  OBVIOUS
<1>1. Inode # {}
  <2>1. Cardinality(Process) \in Nat
    BY FileConstants, FS_CardinalityType
  <2> QED BY <2>1, FileConstants, FS_EmptySet
<1>2. file \in Inode
  BY <1>1 DEF FilesInit
<1>3. [g \in Group |-> 0] \in Contents /\ [g \in Group |-> 0] \in [Group -> Nat]
  BY DEF Contents
<1>4. FilesTypeOK
  <2>1. None \notin Thread /\ left \in [Thread \cup {None} -> 0..(MaxSaves + MaxCrashes)]
    BY FileConstants DEF FilesInit, Thread
  <2>2. attempt \in [Thread -> 0..(MaxAttempts - 1)]
    BY FileConstants DEF FilesInit
  <2> QED BY <1>2, <1>3, <2>1, <2>2 DEF FilesInit, FilesTypeOK
<1>5. LockInv
  BY <1>2, FileConstants DEF FilesInit, LockInv, MutexHeld, FilesOpen, InodeLocked,
       WritersAtPath, Locking, Critical
<1>6. DataInv
  BY <1>2, <1>3, TornIsNoContents
     DEF FilesInit, DataInv, ReadIsLatest, FileIsLatest, TornAtPath,
         SpoiledByDamage, Holds, TornExplained, LoadedWhole, Thread
<1> QED BY <1>4, <1>5, <1>6 DEF SaveInv

\* Open files belong to goroutines with their process's mutex, so that the inodes in use are
\* at most as many as the processes: a writer that renames finds one that is not.
LEMMA NewInodeUnused ==
  ASSUME SaveInv, NEW w \in Writer, pc[w] = "rename"
  PROVE  NewInode \in Inode /\ NewInode # file /\ \A t \in Thread : fd[t] # NewInode
<1> DEFINE user(i) == CHOOSE t \in Thread : fd[t] = i
<1>1. SUFFICES \E i \in Inode : i # file /\ \A t \in Thread : fd[t] # i
  BY <1>1 DEF NewInode
<1>2. SUFFICES ASSUME \A i \in Inode : i = file \/ \E t \in Thread : fd[t] = i PROVE FALSE
  BY <1>2
<1>3. w \in Thread /\ fd[w] = file
  BY DEF SaveInv, LockInv, WritersAtPath, Critical, Thread
<1>4. \A i \in Inode : user(i) \in Thread /\ fd[user(i)] = i
  BY <1>2, <1>3
<1> HIDE DEF user
<1> DEFINE f == [i \in Inode |-> ProcessOf[user(i)]]
<1>5. f \in [Inode -> Process]
  BY <1>4, FileConstants DEF Thread
<1>6. PICK x, y \in Inode : x # y /\ f[x] = f[y]
  <2> HIDE DEF f
  <2> QED BY <1>5, FileConstants, FS_PigeonHole
<1>7. \A i \in Inode : mutex[ProcessOf[user(i)]] = user(i)
  BY <1>4, FileConstants DEF SaveInv, LockInv, MutexHeld, FilesOpen
<1>8. user(x) = user(y)
  BY <1>6, <1>7
<1> QED BY <1>4, <1>6, <1>8

\* A goroutine that leaves drops its locks; if it was not in the middle of an in-place
\* write, the file is as it should be.
LEMMA Leaving ==
  ASSUME SaveInv, NEW t \in Thread, pc[t] \notin {"idle", "truncate"}, Released(t),
         UNCHANGED <<file, data, latest, damaged, spoiled, left>>
  PROVE  SaveInv'
<1> USE DEF SaveInv
<1>0. ProcessOf[t] \in Process
  BY FileConstants DEF Thread
<1>1. FilesTypeOK'
  BY <1>0, FileConstants DEF Released, Goto, FilesTypeOK
<1>2. \A u \in Thread \ {t} : pc'[u] = pc[u] /\ fd'[u] = fd[u] /\ buf'[u] = buf[u]
  BY DEF Released, Goto, FilesTypeOK
<1>3. pc'[t] = "idle" /\ fd'[t] = NoInode
  BY DEF Released, Goto, FilesTypeOK
<1>4. MutexHeld'
  <2> SUFFICES ASSUME NEW u \in Thread, pc'[u] # "idle" PROVE mutex'[ProcessOf[u]] = u
    BY DEF MutexHeld
  <2>1. u # t /\ mutex[ProcessOf[u]] = u
    BY <1>2, <1>3 DEF LockInv, MutexHeld
  <2>2. ProcessOf[u] # ProcessOf[t]
    BY <2>1 DEF LockInv, MutexHeld
  <2> QED BY <2>1, <2>2, <1>0 DEF Released, FilesTypeOK
<1>5. FilesOpen' /\ WritersAtPath'
  BY <1>2, <1>3 DEF LockInv, FilesOpen, WritersAtPath, Critical
<1>6. InodeLocked'
  <2> SUFFICES ASSUME NEW u \in Thread, pc'[u] \in Locking PROVE flock'[fd'[u]] = u
    BY DEF InodeLocked
  <2>1. u # t /\ pc[u] \in Locking /\ fd'[u] = fd[u]
    BY <1>2, <1>3 DEF Locking
  <2>2. flock[fd[u]] = u /\ fd[u] \in Inode
    BY <2>1 DEF LockInv, InodeLocked, FilesOpen, Locking
  <2> QED BY <2>1, <2>2 DEF Released
<1>7. DataInv'
  BY <1>2, <1>3 DEF DataInv, ReadIsLatest, FileIsLatest, TornAtPath,
         SpoiledByDamage, Holds, TornExplained, LoadedWhole, Thread
<1> QED BY <1>1, <1>4, <1>5, <1>6, <1>7 DEF LockInv

\* A step that takes no lock, drops none and does not touch files keeps the locks in order if
\* the goroutine goes where its locks allow it to.
LEMMA Moving ==
  ASSUME FilesTypeOK, LockInv, NEW t \in Thread, NEW l, Goto(t, l),
         UNCHANGED <<file, fd, locks>>, pc[t] # "idle", l # "idle",
         l \in {"idle", "sidecar", "open"} <=> pc[t] \in {"idle", "sidecar", "open"},
         l \in Locking => pc[t] \in Locking,
         l \in Critical => t \in Writer /\ fd[t] = file
  PROVE  LockInv'
BY DEF FilesTypeOK, LockInv, MutexHeld, FilesOpen, InodeLocked, WritersAtPath, Goto, locks

-----------------------------------------------------------------------------
\* Taking a lock or opening the file.
LEMMA LockSteps ==
  ASSUME SaveInv, NEW t \in Thread,
         Begin(t) \/ Open(t) \/ LockFile(t) \/ (t \in Writer /\ LockSidecar(t))
  PROVE  SaveInv'
<1> USE DEF SaveInv
<1>0. ProcessOf[t] \in Process /\ t # None
  BY FileConstants DEF Thread
<1>1. /\ UNCHANGED <<file, data, buf, latest, damaged, spoiled>>
      /\ \A u \in Thread \ {t} : pc'[u] = pc[u] /\ fd'[u] = fd[u]
      /\ pc[t] \notin {"loaded", "rename", "overwrite", "truncate"}
      /\ pc'[t] \notin {"idle", "loaded", "read", "rename", "overwrite", "truncate"}
  BY DEF Begin, Open, LockFile, LockSidecar, Goto, FilesTypeOK, locks
<1>2. DataInv'
  BY <1>1 DEF DataInv, ReadIsLatest, FileIsLatest, TornAtPath,
         SpoiledByDamage, Holds, TornExplained, LoadedWhole, Thread
<1>3. CASE Begin(t)
  <2>1. FilesTypeOK'
    BY <1>0, <1>3, FileConstants DEF Begin, Goto, FilesTypeOK
  <2>2. \A u \in Thread : pc[u] # "idle" => ProcessOf[u] # ProcessOf[t]
    BY <1>3, FileConstants DEF Begin, LockInv, MutexHeld, Thread
  <2>3. LockInv'
    BY <1>0, <1>1, <1>3, <2>2 DEF Begin, Goto, FilesTypeOK, LockInv, MutexHeld, FilesOpen,
         InodeLocked, WritersAtPath, Locking, Critical
  <2> QED BY <1>2, <2>1, <2>3
<1>4. CASE Open(t)
  <2>1. FilesTypeOK'
    BY <1>4 DEF Open, Goto, FilesTypeOK, locks
  <2>2. LockInv'
    BY <1>1, <1>4 DEF Open, Goto, FilesTypeOK, locks, LockInv, MutexHeld, FilesOpen,
         InodeLocked, WritersAtPath, Locking, Critical
  <2> QED BY <1>2, <2>1, <2>2
<1>5. CASE LockFile(t)
  <2>1. fd[t] \in Inode
    BY <1>5 DEF LockFile, LockInv, FilesOpen
  <2>2. FilesTypeOK'
    BY <1>5, <2>1 DEF LockFile, Goto, FilesTypeOK
  <2>3. \A u \in Thread : pc[u] \in Locking => fd[u] # fd[t]
    BY <1>0, <1>5, FileConstants DEF LockFile, LockInv, InodeLocked, Thread
  <2>4. LockInv'
    BY <1>1, <1>5, <2>1, <2>3 DEF LockFile, Goto, FilesTypeOK, LockInv, MutexHeld, FilesOpen,
         InodeLocked, WritersAtPath, Locking, Critical
  <2> QED BY <1>2, <2>2, <2>4
<1>6. CASE t \in Writer /\ LockSidecar(t)
  <2>1. FilesTypeOK'
    BY <1>6 DEF LockSidecar, Goto, FilesTypeOK
  <2>2. LockInv'
    BY <1>1, <1>6 DEF LockSidecar, Goto, FilesTypeOK, LockInv, MutexHeld, FilesOpen,
         InodeLocked, WritersAtPath, Locking, Critical
  <2> QED BY <1>2, <2>1, <2>2
<1> QED BY <1>3, <1>4, <1>5, <1>6

\* os.SameFile: go on, try again, or give up.
LEMMA CompareStep == ASSUME SaveInv, NEW w \in Writer, Compare(w) PROVE SaveInv'
<1> USE DEF SaveInv
<1>0. w \in Thread /\ pc[w] = "compare" /\ UNCHANGED <<file, data, latest, damaged, spoiled, left>>
  BY DEF Compare, Thread
<1>1. CASE fd[w] = file /\ Goto(w, "read") /\ UNCHANGED <<locks, fd, buf, attempt>>
  <2>1. FilesTypeOK'
    BY <1>0, <1>1 DEF Goto, FilesTypeOK, locks
  <2>2. LockInv'
    BY <1>0, <1>1, Moving DEF Locking, Critical
  <2>3. DataInv'
    BY <1>0, <1>1 DEF Goto, FilesTypeOK, DataInv, ReadIsLatest, FileIsLatest, TornAtPath,
         SpoiledByDamage, Holds, TornExplained, LoadedWhole, Thread
  <2> QED BY <2>1, <2>2, <2>3
<1>2. CASE /\ attempt[w] + 1 < MaxAttempts
           /\ attempt' = [attempt EXCEPT ![w] = attempt[w] + 1]
           /\ flock' = [flock EXCEPT ![fd[w]] = None]
           /\ fd' = [fd EXCEPT ![w] = NoInode]
           /\ Goto(w, "open") /\ UNCHANGED <<mutex, lockFile, buf>>
  <2>1. fd[w] \in Inode /\ flock[fd[w]] = w
    BY <1>0 DEF LockInv, FilesOpen, InodeLocked, Locking
  <2>2. FilesTypeOK'
    BY <1>0, <1>2, <2>1, FileConstants DEF Goto, FilesTypeOK
  <2>3. LockInv'
    BY <1>0, <1>2, <2>1 DEF Goto, FilesTypeOK, LockInv, MutexHeld, FilesOpen, InodeLocked,
         WritersAtPath, Locking, Critical
  <2>4. DataInv'
    BY <1>0, <1>2 DEF Goto, FilesTypeOK, DataInv, ReadIsLatest, FileIsLatest, TornAtPath,
         SpoiledByDamage, Holds, TornExplained, LoadedWhole, Thread
  <2> QED BY <2>2, <2>3, <2>4
<1>3. CASE Released(w)
  BY <1>0, <1>3, Leaving
<1> QED BY <1>1, <1>2, <1>3 DEF Compare

\* A load reads a whole file: one that is torn is torn for good.
LEMMA LoadStep == ASSUME SaveInv, NEW r \in Reader, Load(r) PROVE SaveInv'
<1> USE DEF SaveInv
<1>0. r \in Thread /\ pc[r] = "load" /\ r \notin Writer
  BY FileConstants DEF Load, Thread
<1>1. fd[r] \in Inode /\ flock[fd[r]] = r
  BY <1>0 DEF LockInv, FilesOpen, InodeLocked, Locking
<1>2. FilesTypeOK'
  BY <1>0, <1>1 DEF Load, Goto, FilesTypeOK, locks
<1>3. LockInv'
  BY <1>0, Moving DEF Load, Locking, Critical
<1>4. data[fd[r]] = Torn => damaged
  <2>1. \A w \in Writer : pc[w] = "truncate" => flock[fd[w]] = w
    BY DEF LockInv, InodeLocked, Locking, Thread
  <2> QED BY <1>0, <1>1, <2>1 DEF DataInv, TornExplained
<1>5. DataInv'
  BY <1>0, <1>1, <1>4 DEF Load, Goto, FilesTypeOK, DataInv, ReadIsLatest, FileIsLatest, TornAtPath,
         SpoiledByDamage, Holds, TornExplained, LoadedWhole, Thread
<1> QED BY <1>2, <1>3, <1>5

\* Only one writer is between the comparison and the end of its write.
LEMMA WritersExclude ==
  ASSUME SaveInv, NEW t \in Thread, NEW u \in Thread, pc[t] \in Critical, pc[u] \in Critical
  PROVE  t = u
BY DEF SaveInv, LockInv, WritersAtPath, InodeLocked, Critical, Locking

\* What a writer reads is what was saved last, but for the groups that are spoiled.
LEMMA UpdateStep == ASSUME SaveInv, NEW w \in Writer, Update(w) PROVE SaveInv'
<1> USE DEF SaveInv
<1>0. w \in Thread /\ pc[w] = "read" /\ UNCHANGED <<file, data, latest, damaged, spoiled, left>> /\ w \notin Reader
  BY FileConstants DEF Update, Thread
<1>1. fd[w] = file
  BY <1>0 DEF LockInv, WritersAtPath, Critical
<1>2. CASE /\ \E read \in Parsed(data[fd[w]]) : buf' = [buf EXCEPT ![w] = read]
           /\ Goto(w, IF ProcessOf[w] \in InPlace THEN "overwrite" ELSE "rename")
           /\ UNCHANGED <<locks, fd, attempt>>
  <2>0. PICK read \in Parsed(data[file]) : buf' = [buf EXCEPT ![w] = read]
    BY <1>1, <1>2
  <2>1. read \in Contents /\ Holds(read)
    <3>1. CASE data[file] # Torn
      BY <2>0, <3>1 DEF Parsed, FilesTypeOK, DataInv, FileIsLatest
    <3>2. CASE data[file] = Torn
      <4>1. \A u \in Writer : pc[u] # "truncate"
        BY <1>0, WritersExclude DEF Critical, Thread
      <4>2. spoiled = Group
        BY <3>2, <4>1 DEF DataInv, TornAtPath
      <4>3. PICK lost \in Lost : read = [g \in Group |-> IF g \in lost THEN Garbled ELSE latest[g]]
        BY <2>0, <3>2 DEF Parsed
      <4>4. \A g \in Group : latest[g] \in Nat
        BY DEF FilesTypeOK
      <4> QED BY <4>2, <4>3, <4>4 DEF Contents, Holds
    <3> QED BY <3>1, <3>2
  <2>2. FilesTypeOK'
    BY <1>0, <1>2, <2>0, <2>1 DEF Goto, FilesTypeOK, locks
  <2>3. LockInv'
    BY <1>0, <1>1, <1>2, Moving DEF Locking, Critical
  <2>4. ReadIsLatest'
    BY <1>0, <1>2, <2>0, <2>1 DEF Goto, FilesTypeOK, DataInv, ReadIsLatest, Holds, Thread
  <2>5. FileIsLatest' /\ TornAtPath' /\ SpoiledByDamage' /\ TornExplained' /\ LoadedWhole'
    BY <1>0, <1>1, <1>2 DEF Goto, FilesTypeOK, DataInv, FileIsLatest, TornAtPath, SpoiledByDamage, Holds,
         TornExplained, LoadedWhole, Thread
  <2> QED BY <2>2, <2>3, <2>4, <2>5 DEF DataInv
<1>3. CASE Released(w)
  BY <1>0, <1>3, Leaving
<1> QED BY <1>2, <1>3 DEF Update

\* What a writer is about to write has its own group as it saves it, and of the others what
\* the file held.
LEMMA WritesLatest ==
  ASSUME SaveInv, NEW w \in Writer, pc[w] \in {"rename", "overwrite", "truncate"}, Saved(w)
  PROVE  /\ latest' \in [Group -> Nat] /\ spoiled' \subseteq spoiled /\ spoiled' \subseteq Group
         /\ Updated(w) \in Contents /\ Updated(w) # Torn
         /\ \A g \in Group \ spoiled' : Updated(w)[g] = latest'[g]
<1>1. /\ buf[w] \in Contents /\ latest \in [Group -> Nat] /\ spoiled \subseteq Group
      /\ \A g \in Group \ spoiled : buf[w][g] = latest[g]
  BY DEF SaveInv, DataInv, ReadIsLatest, Holds, FilesTypeOK
<1>2. PICK o \in Group : o = GroupOf[w]
  BY DEF Group
<1>3. latest' = [latest EXCEPT ![o] = latest[o] + 1] /\ spoiled' = spoiled \ {o}
  BY <1>2 DEF Saved
<1>4. Updated(w) = [buf[w] EXCEPT ![o] = latest[o] + 1]
  BY <1>2 DEF Updated
<1>5. latest[o] + 1 \in Nat
  BY <1>1
<1>6. latest' \in [Group -> Nat]
  BY <1>1, <1>3, <1>5
<1>7. Updated(w) \in Contents
  BY <1>1, <1>4, <1>5 DEF Contents
<1>8. \A g \in Group \ spoiled' : Updated(w)[g] = latest'[g]
  BY <1>1, <1>3, <1>4 DEF Contents
<1> QED BY <1>1, <1>3, <1>6, <1>7, <1>8, TornIsNoContents

\* lockedPath.write: the new file becomes the one at the path.
LEMMA RenameStep == ASSUME SaveInv, NEW w \in Writer, Rename(w) PROVE SaveInv'
<1> USE DEF SaveInv
<1>0. w \in Thread /\ w \notin Reader /\ pc[w] = "rename" /\ pc' = [pc EXCEPT ![w] = "unlock"]
      /\ UNCHANGED <<mutex, lockFile, flock, fd, buf, attempt, damaged, left>>
  BY FileConstants DEF Rename, Goto, Thread, locks
<1>1. NewInode \in Inode /\ NewInode # file /\ \A t \in Thread : fd[t] # NewInode
  BY <1>0, NewInodeUnused
<1>2. PICK new : new = Updated(w)
  OBVIOUS
<1>20. /\ latest' \in [Group -> Nat] /\ spoiled' \subseteq spoiled /\ spoiled' \subseteq Group
       /\ new \in Contents /\ new # Torn /\ \A g \in Group \ spoiled' : new[g] = latest'[g]
  BY <1>0, <1>2, WritesLatest DEF Rename
<1> DEFINE n == NewInode
<1>3. file' = n /\ data' = [data EXCEPT ![n] = new]
  BY <1>2 DEF Rename
<1>4. n \in Inode /\ \A t \in Thread : fd[t] # n
  BY <1>1
<1> HIDE DEF n
<1>5. \A t \in Thread \ {w} : pc[t] \notin Critical
  BY <1>0, WritersExclude DEF Critical
<1>6. FilesTypeOK'
  BY <1>0, <1>20, <1>3, <1>4 DEF FilesTypeOK
<1>7. LockInv'
  BY <1>0, <1>5 DEF FilesTypeOK, LockInv, MutexHeld, FilesOpen, InodeLocked, WritersAtPath,
       Locking, Critical
<1>8. ReadIsLatest' /\ LoadedWhole'
  BY <1>0, <1>5 DEF FilesTypeOK, DataInv, ReadIsLatest, LoadedWhole, Critical, Thread
<1>9. data'[file'] = new
  BY <1>3, <1>4 DEF FilesTypeOK
<1>10. FileIsLatest' /\ TornAtPath' /\ SpoiledByDamage'
  <2>1. Holds(data[file])'
    BY <1>9, <1>20 DEF Holds
  <2> QED BY <1>0, <1>9, <1>20, <2>1 DEF FileIsLatest, TornAtPath, DataInv, SpoiledByDamage
<1>11. TornExplained'
  BY <1>0, <1>20, <1>3, <1>4 DEF FilesTypeOK, DataInv, TornExplained, Thread
<1> QED BY <1>6, <1>7, <1>8, <1>10, <1>11 DEF DataInv

\* A rename the file system refuses leaves the file as it is and turns to overwriting.
LEMMA RenameRefusedStep == ASSUME SaveInv, NEW w \in Writer, RenameRefused(w) PROVE SaveInv'
<1> USE DEF SaveInv
<1>0. w \in Thread /\ w \notin Reader /\ pc[w] = "rename" /\ Goto(w, "overwrite")
      /\ UNCHANGED <<file, data, locks, fd, buf, attempt, latest, damaged, spoiled, left>>
  BY FileConstants DEF RenameRefused, Thread
<1>1. FilesTypeOK'
  BY <1>0 DEF FilesTypeOK, Goto, locks
<1>2. LockInv'
  BY <1>0, Moving DEF Locking, Critical, LockInv, WritersAtPath
<1>3. DataInv'
  BY <1>0 DEF Goto, FilesTypeOK, DataInv, ReadIsLatest, FileIsLatest, TornAtPath,
         SpoiledByDamage, Holds, TornExplained, LoadedWhole, Thread
<1> QED BY <1>1, <1>2, <1>3

\* writeInPlace: the file is torn while one writer, which has its lock, overwrites it.
LEMMA InPlaceSteps ==
  ASSUME SaveInv, NEW w \in Writer, Overwrite(w) \/ Truncate(w) \/ RestoreBackup(w)
  PROVE  SaveInv'
<1> USE DEF SaveInv
<1>0. w \in Thread /\ w \notin Reader /\ pc[w] \in Critical
      /\ UNCHANGED <<file, mutex, lockFile, flock, fd, buf, attempt, left>>
  BY FileConstants DEF Overwrite, Truncate, RestoreBackup, Critical, Thread, locks
<1>1. fd[w] = file /\ file \in Inode
  BY <1>0 DEF LockInv, WritersAtPath, FilesTypeOK
<1>2. \A t \in Thread \ {w} : pc[t] \notin Critical
  BY <1>0, WritersExclude
<1>3. LockInv'
  <2>1. PICK l \in {"truncate", "unlock"} : Goto(w, l)
    BY DEF Overwrite, Truncate, RestoreBackup
  <2> QED BY <1>0, <1>1, <2>1, Moving DEF Locking, Critical, locks
<1>4. CASE Overwrite(w)
  <2>1. pc[w] = "overwrite" /\ pc' = [pc EXCEPT ![w] = "truncate"] /\ UNCHANGED <<latest, damaged, spoiled>>
        /\ data' = [data EXCEPT ![file] = Torn]
    BY <1>1, <1>4 DEF Overwrite, Goto
  <2>2. FilesTypeOK'
    BY <1>0, <1>1, <2>1 DEF FilesTypeOK
  <2>3. ReadIsLatest' /\ LoadedWhole' /\ SpoiledByDamage'
    BY <1>0, <2>1 DEF FilesTypeOK, DataInv, ReadIsLatest, Holds, LoadedWhole, SpoiledByDamage, Thread
  <2>4. FileIsLatest' /\ TornAtPath'
    <3>1. data'[file'] = Torn /\ pc'[w] = "truncate"
      BY <1>0, <1>1, <2>1 DEF FilesTypeOK
    <3> QED BY <3>1 DEF FileIsLatest, TornAtPath
  <2>5. TornExplained'
    BY <1>0, <1>1, <2>1 DEF FilesTypeOK, DataInv, TornExplained, Thread
  <2> QED BY <1>3, <2>2, <2>3, <2>4, <2>5 DEF DataInv
<1>5. CASE Truncate(w)
  <2>1. pc[w] = "truncate" /\ pc' = [pc EXCEPT ![w] = "unlock"] /\ UNCHANGED damaged
    BY <1>5 DEF Truncate, Goto
  <2>2. PICK new : new = Updated(w)
    OBVIOUS
  <2>3. /\ latest' \in [Group -> Nat] /\ spoiled' \subseteq spoiled /\ spoiled' \subseteq Group
        /\ new \in Contents /\ new # Torn /\ \A g \in Group \ spoiled' : new[g] = latest'[g]
    BY <1>5, <2>1, <2>2, WritesLatest DEF Truncate
  <2>4. data' = [data EXCEPT ![file] = new]
    BY <1>1, <1>5, <2>2 DEF Truncate
  <2>5. FilesTypeOK'
    BY <1>0, <1>1, <2>1, <2>3, <2>4 DEF FilesTypeOK
  <2>6. ReadIsLatest' /\ LoadedWhole'
    BY <1>0, <1>2, <2>1 DEF FilesTypeOK, DataInv, ReadIsLatest, LoadedWhole, Critical, Thread
  <2>7. data'[file'] = new
    BY <1>0, <1>1, <2>4 DEF FilesTypeOK
  <2>8. FileIsLatest' /\ TornAtPath' /\ SpoiledByDamage'
    <3>1. Holds(data[file])'
      BY <2>3, <2>7 DEF Holds
    <3> QED BY <2>1, <2>3, <2>7, <3>1 DEF FileIsLatest, TornAtPath, DataInv, SpoiledByDamage
  <2>9. TornExplained'
    BY <1>0, <1>1, <1>2, <2>1, <2>3, <2>4 DEF FilesTypeOK, DataInv, TornExplained, Critical, Thread
  <2> QED BY <1>3, <2>5, <2>6, <2>8, <2>9 DEF DataInv
<1>6. CASE RestoreBackup(w)
  <2>1. /\ pc[w] = "truncate" /\ pc' = [pc EXCEPT ![w] = "unlock"] /\ UNCHANGED latest
        /\ buf[w] \in Contents /\ Holds(buf[w]) /\ buf[w] # Torn
    BY <1>6, TornIsNoContents DEF RestoreBackup, Goto, FilesTypeOK, DataInv, ReadIsLatest
  <2>2. CASE data' = [data EXCEPT ![file] = buf[w]] /\ UNCHANGED <<damaged, spoiled>>
    <3>1. FilesTypeOK'
      BY <1>0, <1>1, <2>1, <2>2 DEF FilesTypeOK
    <3>2. ReadIsLatest' /\ LoadedWhole' /\ SpoiledByDamage'
      BY <1>0, <2>1, <2>2 DEF FilesTypeOK, DataInv, ReadIsLatest, Holds, LoadedWhole, SpoiledByDamage, Thread
    <3>3. data'[file'] = buf[w]
      BY <1>0, <1>1, <2>2 DEF FilesTypeOK
    <3>4. FileIsLatest' /\ TornAtPath'
      <4>1. Holds(data[file])'
        BY <2>1, <2>2, <3>3 DEF Holds
      <4> QED BY <2>1, <3>3, <4>1 DEF FileIsLatest, TornAtPath
    <3>5. TornExplained'
      BY <1>0, <1>1, <1>2, <2>1, <2>2 DEF FilesTypeOK, DataInv, TornExplained, Critical, Thread
    <3> QED BY <1>3, <3>1, <3>2, <3>4, <3>5 DEF DataInv
  <2>3. CASE damaged' = TRUE /\ spoiled' = Group /\ UNCHANGED data
    <3>1. FilesTypeOK'
      BY <1>0, <2>1, <2>3 DEF FilesTypeOK
    <3>2. ReadIsLatest' /\ FileIsLatest' /\ TornAtPath' /\ SpoiledByDamage'
      BY <1>0, <2>1, <2>3 DEF FilesTypeOK, DataInv, ReadIsLatest, Holds, FileIsLatest, TornAtPath,
           SpoiledByDamage, Thread
    <3>3. LoadedWhole' /\ TornExplained'
      BY <1>0, <2>1, <2>3 DEF DataInv, LoadedWhole, TornExplained
    <3> QED BY <1>3, <3>1, <3>2, <3>3 DEF DataInv
  <2> QED BY <1>1, <1>6, <2>2, <2>3 DEF RestoreBackup
<1> QED BY <1>4, <1>5, <1>6

\* A crash frees the locks of its process; a write it was in the middle of is damage.
LEMMA CrashStep == ASSUME SaveInv, NEW p \in Process, Crash(p) PROVE SaveInv'
<1> USE DEF SaveInv
<1> DEFINE gone == {t \in Thread : ProcessOf[t] = p}
<1>0. /\ UNCHANGED <<file, data, latest>>
      /\ mutex' = [mutex EXCEPT ![p] = None]
      /\ damaged' = (damaged \/ \E t \in gone : pc[t] = "truncate")
      /\ spoiled' = IF \E t \in gone : pc[t] = "truncate" THEN Group ELSE spoiled
      /\ flock' = [i \in Inode |-> IF flock[i] \in gone THEN None ELSE flock[i]]
  BY DEF Crash
<1>1. /\ \A t \in gone : pc'[t] = "idle" /\ fd'[t] = NoInode /\ buf'[t] = Torn
      /\ \A t \in Thread \ gone : pc'[t] = pc[t] /\ fd'[t] = fd[t] /\ buf'[t] = buf[t]
  BY DEF Crash
<1>2. FilesTypeOK'
  <2>1. damaged' \in BOOLEAN /\ mutex' \in [Process -> Thread \cup {None}]
        /\ lockFile' \in Writer \cup {None} /\ flock' \in [Inode -> Thread \cup {None}]
    BY DEF Crash, FilesTypeOK
  <2>2. /\ pc' \in [Thread -> {"idle", "sidecar", "open", "flock", "compare", "load", "loaded",
                               "read", "rename", "overwrite", "truncate", "unlock"}]
        /\ fd' \in [Thread -> Inode \cup {NoInode}] /\ buf' \in [Thread -> Contents \cup {Torn}]
    BY DEF Crash, FilesTypeOK
  <2>3. attempt' \in [Thread -> 0..(MaxAttempts - 1)]
        /\ left' \in [Thread \cup {None} -> 0..(MaxSaves + MaxCrashes)]
    BY FileConstants DEF Crash, FilesTypeOK
  <2>4. spoiled' \subseteq Group
    BY <1>0 DEF FilesTypeOK
  <2> QED BY <1>0, <2>1, <2>2, <2>3, <2>4 DEF FilesTypeOK
<1>3. MutexHeld' /\ FilesOpen' /\ WritersAtPath'
  BY <1>0, <1>1, FileConstants DEF FilesTypeOK, LockInv, MutexHeld, FilesOpen, WritersAtPath,
       Critical, Thread
<1>4. InodeLocked'
  <2> SUFFICES ASSUME NEW t \in Thread, pc'[t] \in Locking PROVE flock'[fd'[t]] = t
    BY DEF InodeLocked
  <2>1. t \notin gone /\ pc[t] \in Locking /\ fd'[t] = fd[t]
    BY <1>1 DEF Locking
  <2>2. flock[fd[t]] = t /\ fd[t] \in Inode
    BY <2>1 DEF LockInv, InodeLocked, FilesOpen, Locking
  <2> QED BY <1>0, <2>1, <2>2
<1>5. ReadIsLatest' /\ FileIsLatest' /\ LoadedWhole' /\ SpoiledByDamage'
  <2>1. spoiled \subseteq spoiled'
    BY <1>0 DEF FilesTypeOK
  <2>2. ReadIsLatest' /\ FileIsLatest'
    BY <1>0, <1>1, <2>1 DEF DataInv, ReadIsLatest, Holds, FileIsLatest, Thread
  <2> QED BY <1>0, <1>1, <2>2 DEF DataInv, LoadedWhole, SpoiledByDamage, Thread
<1>7. TornAtPath'
  <2> SUFFICES ASSUME data[file] = Torn, spoiled' # Group
               PROVE  \E w \in Writer : pc'[w] = "truncate"
    BY <1>0 DEF TornAtPath
  <2>1. spoiled' = spoiled /\ \A t \in gone : pc[t] # "truncate"
    BY <1>0
  <2>2. PICK w \in Writer : pc[w] = "truncate"
    BY <2>1 DEF DataInv, TornAtPath
  <2>3. w \in Thread /\ w \notin gone
    BY <2>1, <2>2 DEF Thread
  <2> QED BY <1>1, <2>2, <2>3
<1>6. TornExplained'
  <2> SUFFICES ASSUME NEW i \in Inode, data[i] = Torn, ~damaged'
               PROVE  \E w \in Writer : pc'[w] = "truncate" /\ fd'[w] = i
    BY <1>0 DEF TornExplained
  <2>1. PICK w \in Writer : pc[w] = "truncate" /\ fd[w] = i
    BY <1>0 DEF DataInv, TornExplained
  <2>2. w \in Thread /\ w \notin gone
    BY <1>0, <2>1 DEF Thread
  <2> QED BY <1>1, <2>1, <2>2
<1> QED BY <1>2, <1>3, <1>4, <1>5, <1>6, <1>7 DEF LockInv, DataInv

-----------------------------------------------------------------------------
\* Every step keeps SaveInv.
LEMMA FileStep == SaveInv /\ [FilesNext]_fileVars => SaveInv'
<1> SUFFICES ASSUME SaveInv, [FilesNext]_fileVars PROVE SaveInv'
  OBVIOUS
<1>0. Writer \subseteq Thread /\ Reader \subseteq Thread
  BY DEF Thread
<1>1. ASSUME NEW t \in Thread, Begin(t) \/ Open(t) \/ LockFile(t) PROVE SaveInv'
  BY <1>1, LockSteps
<1>2. ASSUME NEW w \in Writer, Save(w) PROVE SaveInv'
  <2>1. CASE Unlock(w)
    BY <1>0, <2>1, Leaving DEF Unlock
  <2> QED BY <1>0, <1>2, <2>1, LockSteps, CompareStep, UpdateStep, RenameStep,
       InPlaceSteps DEF Save
<1>3. ASSUME NEW r \in Reader, Load(r) \/ Loaded(r) PROVE SaveInv'
  <2>1. CASE Loaded(r)
    BY <1>0, <2>1, Leaving DEF Loaded
  <2> QED BY <1>3, <2>1, LoadStep
<1>4. ASSUME NEW w \in Writer, Fail(w) PROVE SaveInv'
  <2>1. CASE SidecarRefused(w)
    BY <1>0, <2>1, Leaving DEF SidecarRefused
  <2>2. CASE SaveRefused(w)
    BY <1>0, <2>2, Leaving DEF SaveRefused
  <2> QED BY <1>4, <2>1, <2>2, RenameRefusedStep, InPlaceSteps DEF Fail
<1>5. CASE UNCHANGED fileVars
  BY <1>5 DEF fileVars, SaveInv, FilesTypeOK, LockInv, MutexHeld, FilesOpen, InodeLocked, WritersAtPath,
              DataInv, ReadIsLatest, FileIsLatest, TornAtPath,
         SpoiledByDamage, Holds, TornExplained, LoadedWhole
<1> QED BY <1>1, <1>2, <1>3, <1>4, <1>5, CrashStep DEF FilesNext, Step

\* No save is lost, whoever saved in between and by whichever way (withPathWriteLock,
\* lockedPath.write, writeInPlace).
THEOREM NoSaveLost == FilesSpec => []UpdatesKept
<1>1. SaveInv => UpdatesKept
  BY DEF SaveInv, DataInv, FileIsLatest, TornAtPath, SpoiledByDamage, Holds, UpdatesKept
<1> QED BY <1>1, FileInit, FileStep, PTL DEF FilesSpec

\* Nobody reads the middle of somebody's in-place write (readFileWithLock, lockedPath.read).
THEOREM NoHalfReads == FilesSpec => []ReadsWhole
<1>1. SaveInv => ReadsWhole
  <2> SUFFICES ASSUME SaveInv PROVE ReadsWhole
    OBVIOUS
  <2>1. ASSUME NEW w \in Writer, pc[w] = "truncate", NEW t \in Thread \ {w},
               pc[t] \in {"load", "loaded", "read", "rename", "overwrite"}
        PROVE  fd[t] # fd[w]
    <3>1. w \in Thread /\ flock[fd[w]] = w /\ flock[fd[t]] = t
      BY <2>1 DEF SaveInv, LockInv, InodeLocked, Locking, Thread
    <3> QED BY <3>1
  <2> QED BY <2>1 DEF SaveInv, DataInv, LoadedWhole, ReadsWhole
<1> QED BY <1>1, FileInit, FileStep, PTL DEF FilesSpec

=============================================================================
