----------------------------- MODULE GeoRouting -----------------------------
(***************************************************************************)
(* How the regions of the nodes reach the router.  builder.Build opens a   *)
(* lookup, asks it for the region of every node from parallel workers and  *)
(* closes it; the box registers a dialer for each pool that came of it,    *)
(* and startGeoIPRouter gives them to a new router.                        *)
(*                                                                         *)
(* Build passes no update interval ("This lookup only lives during option  *)
(* construction"), so the auto-updating lookup of NewWithAutoUpdate is a   *)
(* second use of the same code, on its own: standalone.                    *)
(***************************************************************************)
EXTENDS GeoLookup, GeoRouter

CONSTANTS RegionIn,  \* the region each database knows each host in
          Other      \* geoip.RegionOther

ASSUME RegionConstants == Other # Anywhere

VARIABLES standalone, \* a lookup with auto-update, used by itself
          stage       \* "new", "open": Build is using its lookup, "built"

vars == <<lookupVars, routerVars, standalone, stage>>

Init == LookupInit /\ RouterInit /\ standalone \in BOOLEAN /\ stage = "new"

Open ==
  /\ stage = "new" /\ New /\ stage' = "open"
  /\ UNCHANGED <<routerVars, standalone>>

\* Build goes on without a database: every node stays in Other.
OpenFails ==
  /\ stage = "new" /\ ~standalone /\ stage' = "built"
  /\ UNCHANGED <<lookupVars, routerVars, standalone>>

\* Build's workers: a lookup each until all nodes are located.
Locate ==
  /\ stage = "open" /\ \E k \in Caller : Lookup(k)
  /\ UNCHANGED <<routerVars, standalone, stage>>

Age ==
  /\ stage = "open" /\ \E h \in Host : Expire(h)
  /\ UNCHANGED <<routerVars, standalone, stage>>

AutoUpdate ==
  /\ stage = "open" /\ standalone
  /\ LoopExits \/ \E u \in Updater : StartUpdate(u) \/ Finish(u)
  /\ UNCHANGED <<routerVars, standalone, stage>>

\* Build closes its lookup when every worker is done, another owner whenever it likes.
Close(c) ==
  /\ stage = "open"
  /\ \/ (standalone \/ \A k \in Caller : pc[k] = "done") /\ Cancel(c)
     \/ CloseReader(c) \/ Join(c, standalone)
  /\ UNCHANGED <<routerVars, standalone, stage>>

BuildReturns ==
  /\ stage = "open" /\ ~standalone /\ \E c \in Closer : cpc[c] = "closed"
  /\ stage' = "built" /\ UNCHANGED <<lookupVars, routerVars, standalone>>

RegionOfNode(k) ==
  IF region[k] = Unknown THEN Other ELSE RegionIn[region[k]][HostOf[k]]

\* The dialers a box with these nodes registers; without a shared pool there is none.
Dialers(nodes, pooled) ==
  IF pooled THEN {Anywhere} \cup {RegionOfNode(k) : k \in nodes} ELSE {}

\* sing-box may have rejected some nodes, not all of them.  The pools are all that remains
\* of the lookup and its answers.
startGeoIPRouter ==
  /\ stage = "built"
  /\ \E nodes \in (SUBSET Caller) \ {{}}, pooled \in BOOLEAN : Start(Dialers(nodes, pooled))
  /\ cache' = << >> /\ region' = [k \in Caller |-> Unknown]
  /\ UNCHANGED <<readers, pc, seen, flight, standalone, stage>>

Route ==
  /\ \/ \E q \in Request : Accept(q) \/ Handle(q) \/ Over(q) \/ IdleTimeout(q)
     \/ \E s \in Stopper : Stop(s) \/ Shutdown(s) \/ ShutdownTimesOut(s)
  /\ UNCHANGED <<lookupVars, standalone, stage>>

-----------------------------------------------------------------------------
Next == \/ Open \/ OpenFails \/ Locate \/ Age \/ AutoUpdate \/ BuildReturns
        \/ startGeoIPRouter \/ Route
        \/ \E c \in Closer : Close(c)

\* Downloads, dials and round trips have timeouts, Shutdown has five seconds, and a relay
\* whose connections are closed ends; nothing makes a client hang up.
Fairness ==
  /\ \A u \in Updater : WF_vars(Finish(u) /\ UNCHANGED <<routerVars, standalone, stage>>)
  /\ WF_vars(LoopExits /\ UNCHANGED <<routerVars, standalone, stage>>)
  /\ \A c \in Closer : WF_vars(cpc[c] # "open" /\ Close(c))
  /\ \A q \in Request :
       /\ WF_vars(Handle(q) /\ UNCHANGED <<lookupVars, standalone, stage>>)
       /\ WF_vars(CutOff(q) /\ UNCHANGED <<lookupVars, standalone, stage>>)
       /\ WF_vars(IdleTimeout(q) /\ UNCHANGED <<lookupVars, standalone, stage>>)
  /\ \A s \in Stopper :
       WF_vars((Shutdown(s) \/ ShutdownTimesOut(s)) /\ UNCHANGED <<lookupVars, standalone, stage>>)
Spec == Init /\ [][Next]_vars /\ Fairness

-----------------------------------------------------------------------------
\* The lookup and the router keep their promises together: the cache never holds what an
\* earlier database said, no reader is used or left open after Close (geoip.go, Update and
\* Close), no tunnel or transport outlives Stop, and a request for a region is carried by
\* that region's pool unless no running node is there (router.go, handleConnect,
\* getTransport and ServeHTTP).
GeoSound == LookupSound /\ RouterSound

\* Close returns although a download is under way and lookups go on, Stop returns although
\* clients neither hang up nor finish, and after Stop every connection through the pools of
\* the old box is closed in the end, also one that became idle after Stop had closed the
\* idle ones.
GeoEnds ==
  /\ \A c \in Closer : cpc[c] = "lock" ~> cpc[c] = "closed"
  /\ \A s \in Stopper : spc[s] = "shutdown" ~> spc[s] = "returned"
  /\ stopped ~> (client = {} /\ upstream = {} /\ idle = {})

=============================================================================
