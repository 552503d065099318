----------------------------- MODULE NodeRoutes -----------------------------
(* The options the boxes of NodePorts are built from. *)
EXTENDS NodePorts, BoxOptions

CONSTANTS RegionOf,    \* what the GeoIP lookup finds for a URI, "other" without a database
          Verdicts     \* pairs of URIs: those that do not parse, those sing-box rejects

ASSUME RouteConstants ==
  /\ NameOf \in [URI -> Seq(STRING)] /\ RegionOf \in [URI -> Region]
  /\ Verdicts \subseteq (SUBSET URI) \X (SUBSET URI)

\* The list createBox is given.
Handed == IF phase = "reloading" THEN job.cand ELSE nodes

BuiltFrom(ns, unparsable) ==
  Build(ns, mode, unparsable, StickyEnabled, GeoEnabled, RegionOf, ListenerPort, StickyListen)
Tagged(ns, bad) == {Tags(ns, bad[1])[i] : i \in {j \in Built(ns, bad[1]) : ns[j].uri \in bad[2]}}

\* What createBox ends with when the nodes of bad[1] do not parse and those of bad[2]
\* are rejected.
BoxOutcome(ns, bad) == Created(BuiltFrom(ns, bad[1]), Tagged(ns, bad))

\* For every list of nodes a box is created from, whichever nodes do not parse and
\* whichever sing-box rejects, the options createBox ends with (builder.Build, then
\* its pruning loop) route every remaining node's port to that node alone and point
\* to nothing that was removed, unless two outbounds got one tag.
RoutesSound ==
  phase \in {"starting", "reloading"} =>
    \A v \in Verdicts :
      DistinctTags(Handed, v[1], BuiltFrom(Handed, v[1])) =>
        Consistent(Handed, BoxOutcome(Handed, v), mode, StickyEnabled, GeoEnabled, v[1],
                   Tagged(Handed, v))
=============================================================================
