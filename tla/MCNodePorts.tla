---------------------------- MODULE MCNodePorts -----------------------------
(* NodePorts on four URIs, two of which are one identity, and nine ports, five *)
(* of them taken by the other listeners.                                       *)
EXTENDS NodeRoutes, TLC

MCKeyOf == ("a" :> "ka") @@ ("a2" :> "ka") @@ ("b" :> "kb") @@ ("c" :> "kc")

N(u, p) == [uri |-> u, port |-> p]
MCFeedContent == ("f" :> {<<"a">>, <<"b", "a2">>}) @@ ("g" :> {<< >>, <<"c">>})
MCYamlNodes == {<< >>, <<N("c", 3)>>}
MCCacheFiles == {NoFile, <<"a", "b">>}
MCSidecars == {("ka" :> 7) @@ ("kb" :> 7), ("a2" :> 8) @@ ("kb" :> 6)}
MCWrites == (BOOLEAN \X BOOLEAN) \ {<<FALSE, FALSE>>}
MCSetups == {<<"pool", TRUE>>, <<"multi-port", FALSE>>, <<"hybrid", TRUE>>}

\* sanitizeTag drops what the names of a and b differ in and all of c's; the pool of a2
\* has the tag of the sticky pool.
MCNameOf == ("a" :> <<"x">>) @@ ("b" :> <<"x">>) @@ ("a2" :> <<"sticky">>) @@ ("c" :> << >>)

MCRegionOf == ("a" :> "jp") @@ ("a2" :> "us") @@ ("b" :> "jp") @@ ("c" :> "other")
MCVerdicts == {<<{"a"}, {"c"}>>, <<{}, {"a", "a2"}>>}
=============================================================================
