----------------------------- MODULE NodePorts ------------------------------
(***************************************************************************)
(* The life of the node list over restarts: config.Load and the boxmgr     *)
(* operations that change nodes.  Three files survive the process: the     *)
(* inline nodes of config.yaml, nodes.txt (the node file or subscription   *)
(* cache) and node_ports.json.  In memory there is Manager.cfg.Nodes and   *)
(* the nodes the running box was built from.                               *)
(*                                                                         *)
(* Every operation holds lifecycleMu, so apart from the rounds of binding, *)
(* in which other processes may take ports, each is one step.              *)
(***************************************************************************)
EXTENDS PortAssignment

CONSTANTS Feed,        \* subscription URLs
          FeedContent, \* FeedContent[f]: node lists a provider may return
          Failed,      \* what a fetch that failed returns
          YamlNodes,   \* inline node lists an operator may start with
          CacheFiles,  \* contents of nodes.txt to start with; NoFile when it is missing
          NoFile,
          Sidecars,    \* port maps to start with
          Setups,      \* pairs of mode and whether there are subscriptions
          EditURIs, EditPorts,   \* what an operator may enter, port 0 for none
          GrabPorts,   \* ports other processes may take
          Writes,      \* pairs: nodes.txt can be written, node_ports.json can
          MaxTries,    \* maxRetries
          MaxNodes,    \* bound: length of the node list
          MaxBoots,    \* bound: starts of the process
          MaxOps       \* bound: edits, reloads, refreshes and ports other processes take

\* Ports are 16 bits wide in the files and the API.  An identity is its own key: the
\* legacy bridge is "a no-op once the sidecar has been rewritten with stable keys".
ASSUME NodeConstants ==
  /\ \A f \in Feed : FeedContent[f] \subseteq Seq(URI)
  /\ IsFiniteSet(Feed) /\ NoFile \notin Seq(URI)
  /\ YamlNodes \subseteq Seq([uri : URI, port : 0..MaxPort])
  /\ CacheFiles \subseteq Seq(URI) \cup {NoFile}
  /\ \A s \in Sidecars : \A k \in DOMAIN s : s[k] \in Port
  /\ Setups \subseteq Mode \X BOOLEAN /\ Writes \subseteq BOOLEAN \X BOOLEAN
  /\ EditURIs \subseteq URI /\ EditPorts \subseteq 0..MaxPort
  /\ GrabPorts \subseteq Port /\ MaxTries \in Nat
  /\ \A u \in URI \cap Identity : KeyOf[u] = u

VARIABLES mode, subscribed,  \* settings, which do not change
          inline,     \* config.yaml: inline nodes
          listing,    \* nodes.txt: URIs
          sidecar,    \* node_ports.json: identity (or, in old files, URI) to port
          phase,      \* of the process, see Phase
          nodes,      \* Manager.cfg.Nodes
          box,        \* the nodes the running box was built from, or NoBox
          job,        \* a reload in progress
          tries,      \* rounds of binding so far
          taken,      \* ports other processes have
          accurate,   \* no failed write has left nodes.txt and nodes apart (history)
          pinned,     \* the ports the sidecar should bring back (history)
          budget      \* what is left of the bounds

durable == <<inline, listing, sidecar>>
memory == <<phase, nodes, box, job, tries>>
vars == <<mode, subscribed, durable, memory, taken, accurate, pinned, budget>>

\* down: not running; starting: in Start; stalled: running without a box.
Phase == {"down", "starting", "up", "reloading", "stalled"}
NoBox == << >>
NoJob == [op |-> "none", cand |-> << >>, old |-> << >>, got |-> << >>]

Spend(what) == budget[what] > 0 /\ budget' = [budget EXCEPT ![what] = @ - 1]

URIs(ns) == [i \in DOMAIN ns |-> ns[i].uri]
From(ns, sources) == Chosen(ns, {i \in DOMAIN ns : ns[i].src \in sources})
Listed(uris, src) == [i \in DOMAIN uris |-> [uri |-> uris[i], port |-> 0, src |-> src]]

\* What the box listens on; a node without a port gets an ephemeral one.
Listeners(ns) ==
  (IF MultiPort(mode) THEN Ports(ns) ELSE {})
  \cup (IF PoolEntry(mode)
          THEN {ListenerPort} \cup (IF StickyEnabled THEN {StickyListen} ELSE {})
          ELSE {})

\* IsPortAvailable fails for these.
Busy == taken \cup (IF box = NoBox THEN {} ELSE Listeners(box))
              \cup (IF phase = "down" THEN {} ELSE {ManagementPort})

\* The node that fails to bind first: one whose port is somebody else's or is
\* already bound by an earlier listener.
Clashing(ns) ==
  {i \in DOMAIN ns :
     /\ MultiPort(mode) /\ ns[i].port # 0
     /\ \/ ns[i].port \in taken \cup {ManagementPort} \cup Listeners(<< >>)
        \/ \E j \in 1..(i - 1) : ns[j].port = ns[i].port}
Blocked == Listeners(<< >>) \cap taken # {}
Bindable(ns) == ~Blocked /\ Clashing(ns) = {}
FirstClash(ns) == ns[CHOOSE i \in Clashing(ns) : \A j \in Clashing(ns) : i <= j].port

\* The port of each identity only one node has.
UniquePorts(ns) ==
  LET with(k) == {i \in DOMAIN ns : Key(ns[i]) = k}
      single == {k \in Identity : \E i \in DOMAIN ns : with(k) = {i} /\ ns[i].port # 0}
  IN  [k \in single |-> ns[CHOOSE i \in DOMAIN ns : with(k) = {i}].port]

\* The ports node_ports.json has for an identity: under its key or, in an old file,
\* under its URIs.
Recorded(saved, k) ==
  IF k \in DOMAIN saved THEN {saved[k]}
  ELSE {saved[u] : u \in {x \in URI \cap DOMAIN saved : KeyOf[x] = k}}

\* The operator is owed the ports the file has for one identity only, unless another
\* listener has them now.
Init ==
  /\ \E s \in Setups : mode = s[1] /\ subscribed = s[2]
  /\ inline \in YamlNodes /\ listing \in CacheFiles /\ sidecar \in Sidecars
  /\ listing = NoFile => subscribed
  /\ phase = "down" /\ nodes = << >> /\ box = NoBox /\ job = NoJob /\ tries = 0
  /\ taken = {} /\ accurate = TRUE
  /\ pinned = LET own(k) == \E p \in Recorded(sidecar, k) :
                               /\ Recorded(sidecar, k) = {p}
                               /\ p \notin reservedListenerPorts(mode)
                               /\ \A x \in Identity \ {k} : p \notin Recorded(sidecar, x)
              IN  [k \in {x \in Identity : own(x)} |-> CHOOSE p \in Recorded(sidecar, k) : TRUE]
  /\ budget = [boot |-> MaxBoots, op |-> MaxOps]

-----------------------------------------------------------------------------
(* FetchSubscriptionNodes. *)

Fetches == {get \in [Feed -> UNION {FeedContent[f] : f \in Feed} \cup {Failed}] :
              \A f \in Feed : get[f] \in FeedContent[f] \cup {Failed}}

\* dedupeNodesByKey: the first node of an identity stays.
Dedupe(uris) ==
  Chosen(uris, {i \in DOMAIN uris : \A j \in 1..(i - 1) : KeyOf[uris[j]] # KeyOf[uris[i]]})

\* The lists one after the other: list by list, then entry by entry.
Joined(lists) ==
  LET places == UNION {{i} \X DOMAIN lists[i] : i \in DOMAIN lists}
      upTo(x) == {y \in places : y[1] < x[1] \/ (y[1] = x[1] /\ y[2] <= x[2])}
      nth(n) == CHOOSE x \in places : Cardinality(upTo(x)) = n
  IN  [n \in 1..Cardinality(places) |-> lists[nth(n)[1]][nth(n)[2]]]

\* The results arrive in any order; a feed that failed contributes nothing.
Gathered(get) ==
  LET at(f) == IF get[f] = Failed THEN << >> ELSE get[f]
      orders == {o \in [1..Cardinality(Feed) -> Feed] : \A i, j \in DOMAIN o : o[i] = o[j] => i = j}
  IN  {Dedupe(Joined([i \in DOMAIN o |-> at(o[i])])) : o \in orders}

AnyFailed(get) == \E f \in Feed : get[f] = Failed
AnyEmpty(get) == \E f \in Feed : get[f] = << >>

\* Nothing was fetched, or fewer nodes because of a failure: keep the cache.  A provider
\* that answered without nodes has not failed, so the nodes it had may leave the cache.
shouldUseCachedSubscriptionNodes(got, get) ==
  /\ listing \notin {NoFile, << >>}
  /\ got = << >> \/ (AnyFailed(get) /\ Len(got) < Len(listing))

-----------------------------------------------------------------------------
(* Load and Start. *)

\* A successful SaveNodePortMap, and what it promises for the next start: not the
\* Clash port, which reassignConflictingPort may have chosen and Load refuses.
SavePorts(ns, ok) ==
  LET now == UniquePorts(ns)
      kept == {k \in DOMAIN pinned \cap DOMAIN now : pinned[k] = now[k]}
      new == {k \in DOMAIN now : now[k] \notin reservedListenerPorts(mode)}
  IN  IF ok /\ MultiPort(mode)
        THEN sidecar' = BuildPortMap(ns) /\ pinned' = [k \in new |-> now[k]]
        ELSE UNCHANGED sidecar /\ pinned' = [k \in kept |-> now[k]]

\* The nodes in the files together, then the ports.  A failed start exits.
Boot(extra, saveOk) ==
  LET all == [i \in DOMAIN inline |-> [uri |-> inline[i].uri, port |-> inline[i].port, src |-> "inline"]] \o extra
      loaded == IF all = << >> THEN << >> ELSE LoadPorts(all, sidecar, mode, Busy)
  IN  IF loaded = << >>
        THEN UNCHANGED <<phase, nodes, sidecar, pinned>>
        ELSE /\ phase' = "starting" /\ nodes' = loaded
             /\ SavePorts(loaded, saveOk)

\* Without subscriptions: config.yaml and the node file.
LoadFiles(saveOk) ==
  /\ phase = "down" /\ ~subscribed /\ Spend("boot")
  /\ Boot(Listed(listing, "file"), saveOk)
  /\ accurate' = TRUE
  /\ UNCHANGED <<mode, subscribed, inline, listing, box, job, tries, taken>>

\* With subscriptions: the fetched nodes are written to the cache, or the cache is
\* used instead; a failure to write it is only logged.
LoadSubscribed(get, got, writeOk, saveOk) ==
  LET cached == shouldUseCachedSubscriptionNodes(got, get)
  IN  /\ phase = "down" /\ subscribed /\ Spend("boot")
      /\ listing' = IF ~cached /\ got # << >> /\ writeOk THEN got ELSE listing
      /\ Boot(Listed(IF cached THEN listing ELSE got, "subscription"), saveOk)
      /\ accurate' = (cached \/ got = << >> \/ writeOk)
      /\ UNCHANGED <<mode, subscribed, inline, box, job, tries, taken>>

\* A round of Start.  A node whose port is taken moves, without saving the sidecar.
StartAttempt ==
  LET moved == reassignConflictingPort(nodes, mode, FirstClash(nodes), Busy)
  IN  /\ phase = "starting"
      /\ \/ /\ Bindable(nodes)
            /\ phase' = "up" /\ box' = nodes /\ tries' = 0
            /\ UNCHANGED <<nodes, pinned>>
         \/ /\ ~Blocked /\ Clashing(nodes) # {} /\ tries < MaxTries /\ moved # << >>
            /\ nodes' = moved /\ tries' = tries + 1
            /\ pinned' = [k \in {x \in DOMAIN pinned :
                                   \A i \in DOMAIN nodes : Key(nodes[i]) = x => moved[i] = nodes[i]}
                            |-> pinned[k]]
            /\ UNCHANGED <<phase, box>>
         \/ /\ Blocked \/ (Clashing(nodes) # {} /\ (tries = MaxTries \/ moved = << >>))
            /\ phase' = "down" /\ nodes' = << >> /\ tries' = 0
            /\ UNCHANGED <<box, pinned>>
      /\ UNCHANGED <<mode, subscribed, durable, job, taken, accurate, budget>>

\* The process ends, at any time and for any reason.
Exit ==
  /\ phase # "down"
  /\ phase' = "down" /\ nodes' = << >> /\ box' = NoBox /\ job' = NoJob /\ tries' = 0
  /\ UNCHANGED <<mode, subscribed, durable, taken, accurate, pinned, budget>>

-----------------------------------------------------------------------------
(* Node edits. *)

InUse(port, except) == \E i \in DOMAIN nodes : nodes[i].uri # except /\ nodes[i].port = port
NamedAt(u) == {i \in DOMAIN nodes : nodes[i].uri = u /\ \A j \in 1..(i - 1) : nodes[j].uri # u}

\* prepareNodeLocked: the port an edit gets; only multi-port mode looks at it.
Prepared(port) == IF mode = "multi-port" /\ port = 0 THEN nextAvailablePort(nodes) ELSE port
Refused(port, except) == mode = "multi-port" /\ port # 0 /\ InUse(port, except)

FromFile(ns) == URIs(From(ns, {"file", "subscription"}))

\* SaveNodes writes nodes.txt first and config.yaml second, with the ports the nodes
\* have now.  Either may fail; the edit is then undone in memory only.
SaveNodes(edited, outcome) ==
  LET own == From(edited, {"inline"})
  IN  /\ nodes' = IF outcome = "saved" THEN edited ELSE nodes
      /\ listing' = IF outcome = "unwritable" THEN listing ELSE FromFile(edited)
      /\ accurate' = \/ outcome = "saved"
                     \/ accurate /\ (outcome = "unwritable" \/ FromFile(edited) = FromFile(nodes))
      /\ inline' = IF outcome = "saved"
                     THEN [i \in DOMAIN own |-> [uri |-> own[i].uri, port |-> own[i].port]]
                     ELSE inline

Outcome == {"saved", "unwritable", "config file fails"}

\* An operator's edit voids the promise for the identities it touches.
Forget(keys) == pinned' = [k \in DOMAIN pinned \ keys |-> pinned[k]]

Edit(edited, outcome, keys) ==
  /\ phase \in {"up", "stalled"} /\ Spend("op")
  /\ SaveNodes(edited, outcome)
  /\ Forget(keys)
  /\ UNCHANGED <<mode, subscribed, sidecar, phase, box, job, tries, taken>>

CreateNode(u, port, outcome) ==
  /\ Len(nodes) < MaxNodes
  /\ NamedAt(u) = {} /\ ~Refused(port, u)
  /\ Edit(Append(nodes, [uri |-> u, port |-> Prepared(port), src |-> "inline"]), outcome, {KeyOf[u]})

UpdateNode(name, u, port, outcome) ==
  \E i \in NamedAt(name) :
    /\ u # name => NamedAt(u) = {}
    /\ ~Refused(port, name)
    /\ Edit([nodes EXCEPT ![i] = [uri |-> u, port |-> Prepared(port), src |-> @.src]],
            outcome, {KeyOf[u], KeyOf[name]})

DeleteNode(name, outcome) ==
  \E i \in NamedAt(name) :
    Edit(SubSeq(nodes, 1, i - 1) \o SubSeq(nodes, i + 1, Len(nodes)), outcome, {KeyOf[name]})

-----------------------------------------------------------------------------
(* Reload and refresh. *)

\* The ports are chosen while the old box still runs; then it is closed.
Reload(op, ns, got) ==
  LET cand == IF ns = << >> THEN << >>
              ELSE NormalizeWithPortMap(ns, BuildPortMap(nodes), mode, Busy)
  IN  IF cand = << >>
        THEN UNCHANGED <<phase, box, job>>
        ELSE /\ phase' = "reloading" /\ box' = NoBox
             /\ job' = [op |-> op, cand |-> cand, old |-> nodes, got |-> got]

TriggerReload ==
  /\ phase = "up" /\ Spend("op")
  /\ Reload("reload", nodes, << >>)
  /\ UNCHANGED <<mode, subscribed, durable, nodes, tries, taken, accurate, pinned>>

\* Seeded fault: a refresh replaces all nodes.
configFromFeeds(got) == Listed(got, "subscription")

\* createConfig: inline nodes stay, the rest is what was fetched.
createConfig(got) == From(nodes, {"inline"}) \o Listed(got, "subscription")

\* fetchSubscriptions gives up when any feed failed or was empty.
Refresh(get, got) ==
  /\ phase = "up" /\ subscribed /\ Spend("op")
  /\ IF AnyFailed(get) \/ AnyEmpty(get)
       THEN UNCHANGED <<phase, box, job>>
       ELSE Reload("refresh", createConfig(got), got)
  /\ UNCHANGED <<mode, subscribed, durable, nodes, tries, taken, accurate, pinned>>

\* A round of reloadLocked finds its ports taken; in the end the node moves.
ReloadMoves ==
  LET moved == reassignConflictingPort(job.cand, mode, FirstClash(job.cand), Busy)
  IN  /\ phase = "reloading" /\ ~Blocked /\ Clashing(job.cand) # {}
      /\ tries < MaxTries /\ moved # << >>
      /\ job' = [job EXCEPT !.cand = moved] /\ tries' = tries + 1
      /\ UNCHANGED <<mode, subscribed, durable, phase, nodes, box, taken, accurate, pinned, budget>>

\* Seeded fault: a refresh that cannot write nodes.txt goes on with the new nodes.
ReloadKeepsNew(writeOk, saveOk) ==
  /\ phase = "reloading" /\ Bindable(job.cand)
  /\ nodes' = job.cand /\ tries' = 0 /\ phase' = "up" /\ box' = job.cand /\ job' = NoJob
  /\ listing' = IF job.op = "refresh" /\ writeOk THEN job.got ELSE listing
  /\ SavePorts(job.cand, saveOk)
  /\ UNCHANGED <<mode, subscribed, inline, taken, accurate, budget>>

\* The new box runs.  A refresh that cannot write nodes.txt goes back to the old nodes.
ReloadCommits(writeOk, saveOk) ==
  LET undo == job.op = "refresh" /\ ~writeOk
  IN  /\ phase = "reloading" /\ Bindable(job.cand)
      /\ nodes' = job.cand /\ tries' = 0
      /\ phase' = IF undo THEN "reloading" ELSE "up"
      /\ box' = IF undo THEN NoBox ELSE job.cand
      /\ job' = IF undo THEN [NoJob EXCEPT !.op = "undo", !.cand = job.old] ELSE NoJob
      /\ listing' = IF job.op = "refresh" /\ writeOk THEN job.got ELSE listing
      /\ accurate' = (accurate \/ (job.op = "refresh" /\ writeOk))
      /\ SavePorts(job.cand, saveOk /\ ~undo /\ job.op # "undo")
      /\ UNCHANGED <<mode, subscribed, inline, taken, budget>>

\* The attempts are used up or the box cannot be created: rollbackToOldConfig
\* restarts with Manager.cfg as it is.
ReloadFails ==
  /\ phase = "reloading"
  /\ phase' = IF Bindable(nodes) THEN "up" ELSE "stalled"
  /\ box' = IF Bindable(nodes) THEN nodes ELSE NoBox
  /\ job' = NoJob /\ tries' = 0 /\ accurate' = (accurate /\ job.op # "undo")
  /\ UNCHANGED <<mode, subscribed, durable, nodes, taken, pinned, budget>>

\* Another process takes or releases a port.
Grab(p) ==
  /\ p \notin Busy \cup taken /\ Spend("op")
  /\ taken' = taken \cup {p}
  /\ UNCHANGED <<mode, subscribed, durable, memory, accurate, pinned>>

Release(p) ==
  /\ p \in taken /\ Spend("op")
  /\ taken' = taken \ {p}
  /\ UNCHANGED <<mode, subscribed, durable, memory, accurate, pinned>>

-----------------------------------------------------------------------------
Next ==
  \/ \E saveOk \in BOOLEAN : LoadFiles(saveOk)
  \/ \E get \in Fetches : \E got \in Gathered(get) : \E w \in Writes :
       LoadSubscribed(get, got, w[1], w[2])
  \/ StartAttempt \/ Exit
  \/ \E u \in EditURIs, p \in EditPorts, o \in Outcome : CreateNode(u, p, o)
  \/ \E n \in URI : \E u \in EditURIs \cup {n}, p \in EditPorts, o \in Outcome :
       UpdateNode(n, u, p, o)
  \/ \E n \in URI, o \in Outcome : DeleteNode(n, o)
  \/ TriggerReload
  \/ \E get \in Fetches : \E got \in Gathered(get) : Refresh(get, got)
  \/ ReloadMoves
  \/ \E w \in Writes : ReloadCommits(w[1], w[2])
  \/ ReloadFails
  \/ \E p \in GrabPorts : Grab(p) \/ Release(p)

Spec == Init /\ [][Next]_vars

-----------------------------------------------------------------------------
(* Properties. *)

TypeOK ==
  /\ mode \in Mode /\ subscribed \in BOOLEAN
  /\ inline \in Seq([uri : URI, port : 0..MaxPort])
  /\ listing = NoFile \/ listing \in Seq(URI)
  /\ phase \in Phase /\ {nodes, box, job.cand, job.old} \subseteq Seq(Node)
  /\ job.op \in {"none", "reload", "refresh", "undo"} /\ tries \in 0..MaxTries
  /\ taken \subseteq Port /\ accurate \in BOOLEAN
  /\ DOMAIN pinned \subseteq Identity

\* Every node of multi-port or hybrid mode has a port of its own, off the pool's, the
\* sticky, the management and the GeoIP port.  The fixed port of the Clash API is not
\* among those: reassignConflictingPort may choose it.
Sound(ns) ==
  MultiPort(mode) =>
    /\ \A i \in DOMAIN ns : ns[i].port \in Port
    /\ \A i, j \in DOMAIN ns : ns[i].port = ns[j].port => i = j
    /\ Ports(ns) \cap (Listeners(<< >>) \cup {ManagementPort}
                         \cup (IF GeoEnabled THEN {GeoListen} ELSE {})) = {}

\* Whatever the files hold and in whatever order nodes, saved ports, explicit ports
\* and foreign processes compete (NormalizeWithPortMap, the hybrid repair of
\* normalize, reassignConflictingPort), the node list that Start or a reload hands to
\* a new box is Sound; with it the state has its type.
AssignmentSound ==
  /\ TypeOK
  /\ phase = "starting" => Sound(nodes)
  /\ phase = "reloading" /\ job.op # "undo" => Sound(job.cand)

YamlPort(k) == {inline[i].port : i \in {j \in DOMAIN inline : KeyOf[inline[j].uri] = k}} \ {0}

\* A node keeps its port: over a restart, for every identity whose port the sidecar
\* recorded and the operator has not since changed (applyPersistedPorts, the legacy
\* bridge, SaveNodePortMap); and over a reload or refresh, for every identity whose
\* port is its own, wherever new nodes appear in the list (NormalizeWithPortMap).
\* Ports Load keeps for listeners are not promised: reassignConflictingPort may give
\* one to a node, SaveNodePortMap records it, and the next Load does not restore it.
PortsStable ==
  [][/\ phase = "down" /\ phase' = "starting" =>
          \A k \in DOMAIN pinned \cap DOMAIN UniquePorts(nodes') :
            MultiPort(mode) /\ YamlPort(k) \subseteq {pinned[k]}
              => UniquePorts(nodes')[k] = pinned[k]
     /\ phase = "up" /\ phase' = "reloading" =>
          LET was == UniquePorts(nodes)
              new == UniquePorts(job'.cand)
          IN  \A k \in DOMAIN was \cap DOMAIN new :
                /\ MultiPort(mode) /\ was[k] \notin reservedListenerPorts(mode)
                /\ \A i \in DOMAIN nodes : nodes[i].port = was[k] => Key(nodes[i]) = k
                => new[k] = was[k]]_vars

\* While the process runs, nodes.txt lists the nodes it has from there, however starts
\* from the cache, edits, reloads, refreshes, their undoing and failed attempts follow
\* each other, so that a start while no provider answers goes on with the last nodes
\* (LoadSubscribed, SaveNodes, ReloadCommits).  Only a failed write may change that: of
\* nodes.txt at a start, of config.yaml after nodes.txt in an edit, or of nodes.txt in a
\* refresh when going back to the old nodes fails too.
CacheCurrent ==
  phase # "down" /\ accurate /\ job.op # "undo"
    => FromFile(nodes) = (IF listing = NoFile THEN << >> ELSE listing)

\* The inline nodes in memory are those of config.yaml, through every edit (a failed
\* one too), refresh, rollback and restart: a node accepted by the API is not lost to
\* a refresh and a deleted one does not come back (SaveNodes, createConfig).
InlineKept ==
  phase # "down" => URIs(From(nodes, {"inline"})) = URIs(inline)

=============================================================================
