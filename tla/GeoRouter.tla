----------------------------- MODULE GeoRouter ------------------------------
(***************************************************************************)
(* geoip.Router: the HTTP proxy in front of the region pools.  Requests    *)
(* run in handlers of their own while the manager, the end of the context  *)
(* or a failing listener stops the router.  A CONNECT request becomes a    *)
(* tunnel the HTTP server no longer knows of; other requests share one     *)
(* transport per dialer.  What runs under mu is one step.                  *)
(***************************************************************************)
EXTENDS Naturals, FiniteSets

CONSTANTS Request,     \* requests, one handler each
          Tunnelled,   \* the CONNECT ones
          Wants,       \* the region a request asks for, or Anywhere
          Anywhere,
          Stopper      \* goroutines that call Stop

ASSUME RouterConstants == Tunnelled \subseteq Request /\ DOMAIN Wants = Request

VARIABLES dialers,    \* the regions with a pool, and Anywhere for the global one
          server,     \* "new", "serving", "stopping" (Shutdown), "down"
          stopped,    \* Router.closed
          transports, \* dialers with a cached transport
          tunnels,    \* registered tunnels
          rpc, via,   \* per request: where its handler is, the dialer it was given
          client, upstream,  \* requests whose connection to the client, the target is open
          idle,       \* requests whose upstream connection waits in a transport for reuse
          spc         \* per Stop

routerVars == <<dialers, server, stopped, transports, tunnels, rpc, via, client, upstream, idle, spc>>
routes == <<dialers, server, stopped, spc>>

RouterInit ==
  /\ dialers = {} /\ server = "new" /\ stopped = FALSE /\ transports = {} /\ tunnels = {}
  /\ rpc = [q \in Request |-> "none"] /\ via = [q \in Request |-> Anywhere]
  /\ client = {} /\ upstream = {} /\ idle = {} /\ spc = [s \in Stopper |-> "idle"]

\* SetPool and SetGlobalPool for the pools the box registered, then Start.  A router whose
\* port is taken is given up.
Start(pools) ==
  /\ server = "new" /\ ~stopped
  /\ dialers' = pools /\ server' \in {"serving", "down"}
  /\ UNCHANGED <<stopped, transports, tunnels, rpc, via, client, upstream, idle, spc>>

-----------------------------------------------------------------------------
(* Handlers. *)

To(q, l) == rpc' = [rpc EXCEPT ![q] = l]

\* The deferred closes of a handler that returns.
Ended(q) == /\ To(q, "done") /\ tunnels' = tunnels \ {q}
            /\ client' = client \ {q} /\ upstream' = upstream \ {q}

Accept(q) ==
  /\ server = "serving" /\ rpc[q] = "none"
  /\ To(q, "auth") /\ client' = client \cup {q}
  /\ UNCHANGED <<routes, transports, tunnels, via, upstream, idle>>

\* Bad credentials, an unknown region, a stopped router or no pool at all.
Refuse(q) ==
  /\ rpc[q] = "auth" /\ Ended(q)
  /\ UNCHANGED <<routes, transports, via, idle>>

\* A region without a pool is served by the global pool.
Admit(q) ==
  LET dialer == IF Wants[q] \in dialers THEN Wants[q] ELSE Anywhere
  IN  /\ rpc[q] = "auth" /\ ~stopped /\ dialer \in dialers
      /\ via' = [via EXCEPT ![q] = dialer]
      /\ To(q, IF q \in Tunnelled THEN "dial" ELSE "transport")
      /\ UNCHANGED <<routes, transports, tunnels, client, upstream, idle>>

\* handleConnect: dial within 30 seconds or until the client is gone.
Dial(q) ==
  /\ rpc[q] = "dial" /\ To(q, "hijack") /\ upstream' = upstream \cup {q}
  /\ UNCHANGED <<routes, transports, tunnels, via, client, idle>>

DialFails(q) ==
  /\ rpc[q] = "dial" /\ Ended(q)
  /\ UNCHANGED <<routes, transports, via, idle>>

\* From here the server neither waits for this connection nor closes it.
Hijack(q) ==
  /\ rpc[q] = "hijack" /\ To(q, "register")
  /\ UNCHANGED <<routes, transports, tunnels, via, client, upstream, idle>>

HijackFails(q) ==
  /\ rpc[q] = "hijack" /\ Ended(q)
  /\ UNCHANGED <<routes, transports, via, idle>>

\* A router that was stopped meanwhile takes no more tunnels.
Register(q) ==
  /\ rpc[q] = "register"
  /\ \/ stopped /\ Ended(q)
     \/ /\ ~stopped /\ To(q, "relay") /\ tunnels' = tunnels \cup {q}
        /\ UNCHANGED <<client, upstream>>
  /\ UNCHANGED <<routes, transports, via, idle>>

\* One direction ends, or the request is cancelled: close both ends.
HangUp(q) ==
  /\ rpc[q] = "relay" /\ To(q, "leave")
  /\ client' = client \ {q} /\ upstream' = upstream \ {q}
  /\ UNCHANGED <<routes, transports, tunnels, via, idle>>

Unregister(q) ==
  /\ rpc[q] = "leave" /\ Ended(q)
  /\ UNCHANGED <<routes, transports, via, idle>>

\* getTransport under the read lock, and under the write lock when there is none yet.
FindTransport(q) ==
  /\ rpc[q] = "transport"
  /\ \/ stopped /\ Ended(q)
     \/ /\ ~stopped /\ To(q, IF via[q] \in transports THEN "roundTrip" ELSE "create")
        /\ UNCHANGED <<tunnels, client, upstream>>
  /\ UNCHANGED <<routes, transports, via, idle>>

CreateTransport(q) ==
  /\ rpc[q] = "create"
  /\ \/ stopped /\ Ended(q) /\ UNCHANGED transports
     \/ /\ ~stopped /\ To(q, "roundTrip") /\ transports' = transports \cup {via[q]}
        /\ UNCHANGED <<tunnels, client, upstream>>
  /\ UNCHANGED <<routes, via, idle>>

\* The response comes over a new connection or one that waited for reuse.
RoundTrip(q) ==
  /\ rpc[q] = "roundTrip" /\ To(q, "copy") /\ upstream' = upstream \cup {q}
  /\ idle' \in {idle} \cup {idle \ {p} : p \in {p \in idle : via[p] = via[q]}}
  /\ UNCHANGED <<routes, transports, tunnels, via, client>>

RoundTripFails(q) ==
  /\ rpc[q] = "roundTrip" /\ Ended(q)
  /\ UNCHANGED <<routes, transports, via, idle>>

\* A body read to its end leaves the connection to the transport; otherwise it is closed.
Copied(q) ==
  /\ rpc[q] = "copy" /\ Ended(q) /\ idle' \in {idle, idle \cup {q}}
  /\ UNCHANGED <<routes, transports, via>>

\* IdleConnTimeout, also of a transport the router no longer knows.
IdleTimeout(q) ==
  /\ q \in idle /\ idle' = idle \ {q}
  /\ UNCHANGED <<routes, transports, tunnels, rpc, via, client, upstream>>

-----------------------------------------------------------------------------
(* Stop. *)

Known == {q \in Request : rpc[q] \in {"auth", "dial", "hijack", "transport", "create",
                                      "roundTrip", "copy"}}

\* The first call drops the transports and cuts the tunnels; the others return.
Stop(s) ==
  /\ spc[s] = "idle" /\ server \in {"serving", "stopping"}
  /\ \/ /\ stopped /\ spc' = [spc EXCEPT ![s] = "returned"]
        /\ UNCHANGED <<stopped, server, transports, client, upstream, idle>>
     \/ /\ ~stopped /\ stopped' = TRUE /\ server' = "stopping"
        /\ transports' = {} /\ idle' = {}
        /\ client' = client \ tunnels /\ upstream' = upstream \ tunnels
        /\ spc' = [spc EXCEPT ![s] = "shutdown"]
  /\ UNCHANGED <<dialers, tunnels, rpc, via>>

\* Shutdown returns when no handler is left that the server knows of.
Shutdown(s) ==
  /\ spc[s] = "shutdown" /\ Known = {}
  /\ server' = "down" /\ spc' = [spc EXCEPT ![s] = "returned"]
  /\ UNCHANGED <<dialers, stopped, transports, tunnels, rpc, via, client, upstream, idle>>

\* After five seconds the connections it still knows are closed.
ShutdownTimesOut(s) ==
  /\ spc[s] = "shutdown" /\ Known # {}
  /\ server' = "down" /\ client' = client \ Known
  /\ spc' = [spc EXCEPT ![s] = "returned"]
  /\ UNCHANGED <<dialers, stopped, transports, tunnels, rpc, via, upstream, idle>>

-----------------------------------------------------------------------------
\* A handler goes on by itself; a tunnel or a response lasts until someone closes it.
Handle(q) ==
  \/ Admit(q) \/ Refuse(q) \/ Dial(q) \/ DialFails(q) \/ Hijack(q) \/ HijackFails(q)
  \/ Register(q) \/ Unregister(q) \/ FindTransport(q) \/ CreateTransport(q)
  \/ RoundTrip(q) \/ RoundTripFails(q)
Over(q) == HangUp(q) \/ Copied(q)
CutOff(q) == q \notin client /\ Over(q)

RouterTypeOK ==
  /\ server \in {"new", "serving", "stopping", "down"} /\ stopped \in BOOLEAN
  /\ transports \subseteq dialers /\ tunnels \subseteq Tunnelled
  /\ rpc \in [Request -> {"none", "auth", "dial", "hijack", "register", "relay", "leave", "transport",
                          "create", "roundTrip", "copy", "done"}]
  /\ client \subseteq Request /\ upstream \subseteq Request /\ idle \subseteq Request
  /\ spc \in [Stopper -> {"idle", "shutdown", "returned"}]

\* Once the router is stopped no tunnel carries data, not even one that was dialled or
\* hijacked before and registers after (handleConnect), and no transport is made again
\* (getTransport); the tunnels Stop finds are all there are, and a request went through the
\* pool of its region if there is one.
RouterSound ==
  /\ RouterTypeOK
  /\ stopped => /\ transports = {}
                /\ \A q \in Request : rpc[q] = "relay" => q \notin client /\ q \notin upstream
  /\ \A q \in Request : rpc[q] \in {"relay", "leave"} <=> q \in tunnels
  /\ \A q \in Request : rpc[q] \notin {"none", "auth", "done"} =>
       /\ via[q] \in dialers
       /\ via[q] # Wants[q] => via[q] = Anywhere /\ Wants[q] \notin dialers

=============================================================================
