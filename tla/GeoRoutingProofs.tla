-------------------------- MODULE GeoRoutingProofs --------------------------
(***************************************************************************)
(* Proofs about the GeoIP lookup and the region router, for any sets of    *)
(* callers, hosts, updaters, requests and goroutines that close or stop,   *)
(* any number of databases and any limit of the cache.                     *)
(*                                                                         *)
(* LookupSound is not inductive: what a caller is about to cache was read  *)
(* earlier.  LookupInv adds that an answer stamped with the current epoch  *)
(* is of the database in use, that the updater with updateMu is the only   *)
(* one with readers of its own, which differ from the one in use, and that *)
(* a closed lookup has neither a reader nor an updater.  RouterInv adds to *)
(* RouterSound who may become a tunnel and that a new router is empty.     *)
(***************************************************************************)
EXTENDS GeoRouting, TLAPS, FiniteSetTheorems

\* Only the owner of updateMu has work in progress.
UpdaterAlone ==
  /\ seen \in [Caller -> Nat]
  /\ fresh \in [Updater -> Database \cup {None}] /\ old \in [Updater -> Database \cup {None}]
  /\ \A u \in Updater : upc[u] \in {"download", "swap", "closeOld"} => updateMu = u
  /\ \A u \in Updater : upc[u] \notin {"swap", "closeOld"} => fresh[u] = None /\ old[u] = None
  /\ \A u \in Updater : upc[u] = "download" => downloads < MaxDownloads

\* The readers of an update, newest last.
ReadersInOrder ==
  /\ epoch <= downloads /\ (db # None => db <= downloads)
  /\ \A u \in Updater : upc[u] = "swap" =>
       /\ fresh[u] = downloads /\ fresh[u] \in opened /\ old[u] = None /\ epoch < downloads
       /\ db # None => db < fresh[u]
  /\ \A u \in Updater : upc[u] = "closeOld" => db = fresh[u] /\ db # None /\ old[u] # db

ClosedForGood ==
  /\ closed => db = None /\ opened = {} /\ updateMu = None
  /\ \A c \in Closer : cpc[c] \in {"join", "closed"} => closed

\* What is about to be cached under the current epoch is of the database in use.
AnswersOfEpoch ==
  \A k \in Caller : /\ seen[k] <= epoch
                    /\ pc[k] = "store" /\ seen[k] = epoch /\ db # None => region[k] \in {db, Unknown}

NotYetOpened ==
  stage = "new" => /\ db = None /\ opened = {} /\ ~closed /\ downloads = 0 /\ epoch = 0 /\ DOMAIN cache = {}
                   /\ \A u \in Updater : upc[u] = "idle"
                   /\ \A k \in Caller : pc[k] = "idle"

LookupInv ==
  /\ LookupSound /\ IsFiniteSet(DOMAIN cache)
  /\ UpdaterAlone /\ ReadersInOrder /\ ClosedForGood /\ AnswersOfEpoch /\ NotYetOpened

RouterInv ==
  /\ RouterSound /\ via \in [Request -> dialers \cup {Anywhere}]
  /\ \A q \in Request : rpc[q] \in {"dial", "hijack", "register", "relay", "leave"} => q \in Tunnelled
  /\ server = "new" => dialers = {} /\ transports = {} /\ tunnels = {} /\ \A q \in Request : rpc[q] = "none"

-----------------------------------------------------------------------------
(* The router. *)

\* A request is at most one of the connections a step of its handler closes.
LEMMA HandlerKeepsRouterInv ==
  ASSUME RouterInv, NEW q \in Request, Accept(q) \/ Handle(q) \/ Over(q) \/ IdleTimeout(q)
  PROVE  RouterInv'
<1> USE RouterConstants DEF RouterInv, RouterSound, RouterTypeOK, routes, To, Ended
<1>1. CASE Accept(q)
  BY <1>1 DEF Accept
<1>2. CASE Admit(q)
  BY <1>2 DEF Admit
<1>3. CASE Refuse(q) \/ DialFails(q) \/ HijackFails(q) \/ Unregister(q) \/ RoundTripFails(q)
  BY <1>3 DEF Refuse, DialFails, HijackFails, Unregister, RoundTripFails
<1>4. CASE Dial(q) \/ Hijack(q)
  BY <1>4 DEF Dial, Hijack
<1>5. CASE Register(q)
  BY <1>5 DEF Register
<1>6. CASE FindTransport(q)
  BY <1>6 DEF FindTransport
<1>7. CASE CreateTransport(q)
  BY <1>7 DEF CreateTransport
<1>8. CASE RoundTrip(q)
  BY <1>8 DEF RoundTrip
<1>9. CASE HangUp(q) \/ Copied(q)
  BY <1>9 DEF HangUp, Copied
<1>10. CASE IdleTimeout(q)
  BY <1>10 DEF IdleTimeout
<1> QED BY <1>1, <1>2, <1>3, <1>4, <1>5, <1>6, <1>7, <1>8, <1>9, <1>10 DEF Handle, Over

\* Stop finds every tunnel registered, so it cuts all that relay.
LEMMA StopKeepsRouterInv ==
  ASSUME RouterInv, NEW s \in Stopper, Stop(s) \/ Shutdown(s) \/ ShutdownTimesOut(s)
  PROVE  RouterInv'
<1> USE RouterConstants DEF RouterInv, RouterSound, RouterTypeOK
<1>1. CASE Stop(s)
  BY <1>1 DEF Stop
<1>2. CASE Shutdown(s) \/ ShutdownTimesOut(s)
  BY <1>2 DEF Shutdown, ShutdownTimesOut
<1> QED BY <1>1, <1>2

\* A router starts with no requests, transports or tunnels.
LEMMA StartKeepsRouterInv == ASSUME RouterInv, NEW pools, Start(pools) PROVE RouterInv'
  BY RouterConstants DEF Start, RouterInv, RouterSound, RouterTypeOK

\* Before startGeoIPRouter there is no router.
LEMMA RouterInitially == RouterInit => RouterInv
  BY RouterConstants DEF RouterInit, RouterInv, RouterSound, RouterTypeOK

\* Every step of the composition keeps the invariant of the router.
LEMMA RouterStep == RouterInv /\ [Next]_vars => RouterInv'
<1> SUFFICES ASSUME RouterInv, [Next]_vars PROVE RouterInv'
  OBVIOUS
<1>1. CASE UNCHANGED routerVars
  BY <1>1 DEF RouterInv, RouterSound, RouterTypeOK, routerVars
<1>2. CASE startGeoIPRouter
  BY <1>2, StartKeepsRouterInv DEF startGeoIPRouter
<1>3. CASE Route
  BY <1>3, HandlerKeepsRouterInv, StopKeepsRouterInv DEF Route
<1> QED BY <1>1, <1>2, <1>3 DEF Next, vars, Open, OpenFails, Locate, Age, AutoUpdate,
     BuildReturns, Close

-----------------------------------------------------------------------------
(* The lookup. *)

\* Before Build opens it the lookup has no reader, no cache and no callers.
LEMMA LookupInitially == LookupInit /\ stage = "new" => LookupInv
<1> SUFFICES ASSUME LookupInit, stage = "new" PROVE LookupInv
  OBVIOUS
<1>1. DOMAIN cache = {}
  BY DEF LookupInit
<1>2. IsFiniteSet(DOMAIN cache) /\ Cardinality(DOMAIN cache) = 0
  BY <1>1, FS_EmptySet
<1>3. 0 \in Database /\ \A S : [x \in S |-> None] \in [S -> Database \cup {None}]
  BY LookupConstants DEF Database
<1>4. LookupTypeOK
  BY <1>1, <1>3 DEF LookupInit, LookupTypeOK, Answer
<1>5. LookupSound
  BY <1>1, <1>2, <1>4, LookupConstants DEF LookupInit, LookupSound
<1>6. UpdaterAlone /\ ReadersInOrder /\ ClosedForGood /\ AnswersOfEpoch /\ NotYetOpened
  BY <1>1, <1>3 DEF LookupInit, UpdaterAlone, ReadersInOrder, ClosedForGood,
       AnswersOfEpoch, NotYetOpened
<1> QED BY <1>2, <1>5, <1>6 DEF LookupInv

\* The cache after a step that stores nothing that is not of the database in use.
CacheCurrent ==
  /\ DOMAIN cache \subseteq Host /\ IsFiniteSet(DOMAIN cache)
  /\ Cardinality(DOMAIN cache) <= MaxEntries
  /\ \A h \in DOMAIN cache : cache[h] \in Answer /\ (db # None => cache[h] \in {db, Unknown})

\* A new entry at the limit takes the place of another one.
LEMMA CachedKeepsLimit ==
  ASSUME LookupInv, NEW h \in Host, NEW answer \in Answer, db # None => answer \in {db, Unknown},
         Cached(h, answer), db' = db
  PROVE  CacheCurrent'
<1> DEFINE held == DOMAIN cache
<1>1. IsFiniteSet(held) /\ Cardinality(held) \in Nat /\ Cardinality(held) <= MaxEntries /\ MaxEntries \in Nat \ {0}
  BY FS_CardinalityType, LookupConstants DEF LookupInv, LookupSound
<1>2. PICK gone \in SUBSET held :
        /\ Cardinality(gone) = IF Cardinality(held) >= MaxEntries THEN 1 ELSE 0
        /\ cache' = [x \in (held \ gone) \cup {h} |-> IF x = h THEN answer ELSE cache[x]]
  BY DEF Cached
<1>3. IsFiniteSet(gone) /\ IsFiniteSet(held \ gone)
  BY <1>1, FS_Subset
<1>4. Cardinality(held \ gone) \in Nat /\ Cardinality(held \ gone) + 1 <= MaxEntries
  <2>1. CASE Cardinality(held) >= MaxEntries
    <3>1. PICK x : gone = {x}
      BY <1>2, <1>3, <2>1, FS_Singleton
    <3>2. Cardinality(held \ {x}) = Cardinality(held) - 1
      BY <1>1, <3>1, FS_RemoveElement
    <3> QED BY <1>1, <3>1, <3>2, <2>1
  <2>2. CASE ~(Cardinality(held) >= MaxEntries)
    <3>1. gone = {}
      BY <1>2, <1>3, <2>2, FS_EmptySet
    <3>2. held \ gone = held
      BY <3>1
    <3> QED BY <1>1, <2>2, <3>2
  <2> QED BY <2>1, <2>2
<1>5. DOMAIN cache' = (held \ gone) \cup {h}
  BY <1>2
<1>6. IsFiniteSet(DOMAIN cache') /\ Cardinality(DOMAIN cache') <= MaxEntries
  <2>1. /\ IsFiniteSet((held \ gone) \cup {h})
        /\ \/ Cardinality((held \ gone) \cup {h}) = Cardinality(held \ gone)
           \/ Cardinality((held \ gone) \cup {h}) = Cardinality(held \ gone) + 1
    BY <1>3, FS_AddElement
  <2> QED BY <2>1, <1>1, <1>4, <1>5
<1> QED BY <1>2, <1>5, <1>6 DEF CacheCurrent, LookupInv, LookupSound, LookupTypeOK

\* A leader stores its answer only if no update came after its miss.
LEMMA StoredIsCurrent ==
  ASSUME LookupInv, NEW h \in Host, NEW answer \in Answer, NEW e,
         e = epoch /\ db # None => answer \in {db, Unknown},
         cacheHostAtEpoch(h, answer, e), db' = db
  PROVE  CacheCurrent'
<1>1. CASE UNCHANGED cache
  BY <1>1 DEF CacheCurrent, LookupInv, LookupSound, LookupTypeOK
<1>2. CASE e = epoch /\ Cached(h, answer)
  BY <1>2, CachedKeepsLimit
<1> QED BY <1>1, <1>2 DEF cacheHostAtEpoch

\* What LookupInv says that only the callers' steps can disturb.
LEMMA CallerKeepsLookupInv ==
  ASSUME LookupInv, CacheCurrent', UNCHANGED <<readers, stage>>, stage # "new",
         pc' \in [Caller -> {"idle", "check", "lead", "wait", "resolve", "store", "done"}],
         region' \in [Caller -> Answer], flight' \in [Host -> Caller \cup {None}], seen' \in [Caller -> Nat],
         \A k \in Caller : pc'[k] = "wait" => flight'[HostOf[k]] # None,
         AnswersOfEpoch'
  PROVE  LookupInv'
<1>1. LookupSound' /\ IsFiniteSet(DOMAIN cache)'
  BY DEF CacheCurrent, LookupInv, LookupSound, LookupTypeOK, readers
<1>2. UpdaterAlone' /\ ReadersInOrder' /\ ClosedForGood' /\ NotYetOpened'
  BY DEF LookupInv, UpdaterAlone, ReadersInOrder, ClosedForGood, NotYetOpened, readers
<1> QED BY <1>1, <1>2 DEF LookupInv

\* The cache stays current when neither it nor the database changes.
LEMMA SameCache == LookupInv /\ UNCHANGED <<cache, db>> => CacheCurrent'
  BY DEF CacheCurrent, LookupInv, LookupSound, LookupTypeOK

\* The end of a flight answers its leader and everybody who joined it.
LEMMA LandSettles ==
  ASSUME LookupInv, NEW k \in Caller, NEW answer \in Answer, Land(k, answer), UNCHANGED <<epoch, db, seen>>
  PROVE  /\ pc' \in [Caller -> {"idle", "check", "lead", "wait", "resolve", "store", "done"}]
         /\ region' \in [Caller -> Answer] /\ flight' \in [Host -> Caller \cup {None}] /\ seen' \in [Caller -> Nat]
         /\ \A j \in Caller : pc'[j] = "wait" => flight'[HostOf[j]] # None
         /\ AnswersOfEpoch'
<1> USE DEF LookupInv, LookupSound, LookupTypeOK, UpdaterAlone
<1>1. HostOf[k] \in Host
  BY DEF Host
<1>2. \A j \in Caller : HostOf[j] \in Host
  BY DEF Host
<1>3. \A j \in Caller : pc'[j] # "done" => pc'[j] = pc[j] /\ region'[j] = region[j]
                                           /\ ~(pc[j] = "wait" /\ HostOf[j] = HostOf[k])
  BY DEF Land
<1>4. \A j \in Caller : pc'[j] = "wait" => flight'[HostOf[j]] # None
  BY <1>1, <1>2, <1>3 DEF Land
<1>5. AnswersOfEpoch'
  BY <1>3 DEF AnswersOfEpoch
<1> QED BY <1>1, <1>4, <1>5 DEF Land

\* Every stage of a lookup: cache hit, flight joined or led, resolution, store.
LEMMA LookupKeepsInv ==
  ASSUME LookupInv, NEW k \in Caller, Lookup(k), UNCHANGED stage, stage # "new"
  PROVE  LookupInv'
<1> USE DEF LookupInv, LookupSound, LookupTypeOK, UpdaterAlone, At, Returns
<1>0. HostOf[k] \in Host /\ Unknown \in Answer /\ \A j \in Caller : HostOf[j] \in Host
  BY DEF Host, Answer
<1>1. CASE Enter(k)
  <2>1. UNCHANGED <<readers, cache, seen, flight>> /\ CacheCurrent'
    BY <1>1, SameCache DEF Enter, readers
  <2>2. AnswersOfEpoch'
    BY <1>1, <2>1 DEF Enter, AnswersOfEpoch, readers
  <2> QED BY <1>0, <1>1, <2>1, <2>2, CallerKeepsLookupInv DEF Enter
<1>2. CASE Check(k)
  <2>1. UNCHANGED <<readers, cache, seen>> /\ CacheCurrent'
    BY <1>2, SameCache DEF Check, readers
  <2>2. AnswersOfEpoch'
    BY <1>2, <2>1 DEF Check, AnswersOfEpoch, readers
  <2>3. \A j \in Caller : pc'[j] = "wait" => flight'[HostOf[j]] # None
    BY <1>0, <1>2, LookupConstants DEF Check
  <2> QED BY <1>0, <1>2, <2>1, <2>2, <2>3, CallerKeepsLookupInv DEF Check
<1>3. CASE Lead(k)
  <2>1. UNCHANGED <<readers, cache>> /\ CacheCurrent' /\ epoch \in Nat
    BY <1>3, SameCache DEF Lead, readers, Database
  <2>2. CASE HostOf[k] \in DOMAIN cache /\ Land(k, cache[HostOf[k]]) /\ UNCHANGED seen
    <3>1. cache[HostOf[k]] \in Answer
      BY <2>2
    <3>2. UNCHANGED <<epoch, db, seen>>
      BY <2>1, <2>2 DEF readers
    <3> QED BY <2>1, <2>2, <3>1, <3>2, LandSettles, CallerKeepsLookupInv
  <2>3. CASE At(k, "resolve") /\ seen' = [seen EXCEPT ![k] = epoch] /\ UNCHANGED <<region, flight>>
    <3>1. AnswersOfEpoch'
      BY <2>1, <2>3 DEF AnswersOfEpoch, readers
    <3> QED BY <2>1, <2>3, <3>1, CallerKeepsLookupInv
  <2> QED BY <1>3, <2>2, <2>3 DEF Lead
<1>4. CASE ResolveFails(k)
  <2>1. UNCHANGED <<readers, seen>> /\ UNCHANGED <<epoch, db, seen>>
    BY <1>4 DEF ResolveFails, readers
  <2>2. CacheCurrent'
    BY <1>0, <1>4, <2>1, StoredIsCurrent DEF ResolveFails
  <2> QED BY <1>0, <1>4, <2>1, <2>2, LandSettles, CallerKeepsLookupInv DEF ResolveFails
<1>5. CASE LookupIP(k)
  <2>1. UNCHANGED <<readers, cache, seen, flight>> /\ CacheCurrent'
    BY <1>5, SameCache DEF LookupIP, readers
  <2>2. AnswersOfEpoch'
    BY <1>5, <2>1 DEF LookupIP, AnswersOfEpoch, readers
  <2>3. region' \in [Caller -> Answer]
    BY <1>5 DEF LookupIP, Answer
  <2> QED BY <1>0, <1>5, <2>1, <2>2, <2>3, CallerKeepsLookupInv DEF LookupIP
<1>6. CASE Store(k)
  <2>1. UNCHANGED <<readers, seen>> /\ UNCHANGED <<epoch, db, seen>>
    BY <1>6 DEF Store, readers
  <2>2. CacheCurrent'
    <3>1. seen[k] = epoch /\ db # None => region[k] \in {db, Unknown}
      BY <1>6 DEF Store, AnswersOfEpoch
    <3> QED BY <1>0, <1>6, <2>1, <3>1, StoredIsCurrent DEF Store
  <2> QED BY <1>0, <1>6, <2>1, <2>2, LandSettles, CallerKeepsLookupInv DEF Store
<1> QED BY <1>1, <1>2, <1>3, <1>4, <1>5, <1>6 DEF Lookup

\* A cache entry that runs out is dropped.
LEMMA ExpireKeepsInv ==
  ASSUME LookupInv, NEW h \in Host, Expire(h), UNCHANGED stage, stage # "new"
  PROVE  LookupInv'
<1>1. DOMAIN cache' = DOMAIN cache \ {h} /\ \A x \in DOMAIN cache' : cache'[x] = cache[x]
  BY DEF Expire
<1>2. /\ IsFiniteSet(DOMAIN cache') /\ Cardinality(DOMAIN cache') <= Cardinality(DOMAIN cache)
      /\ Cardinality(DOMAIN cache') \in Nat /\ Cardinality(DOMAIN cache) \in Nat
  BY <1>1, FS_Subset, FS_CardinalityType DEF LookupInv
<1>3. CacheCurrent'
  BY <1>1, <1>2, LookupConstants DEF CacheCurrent, LookupInv, LookupSound, LookupTypeOK,
       Expire, readers
<1>4. AnswersOfEpoch'
  BY DEF LookupInv, AnswersOfEpoch, Expire, readers, callers
<1> QED BY <1>3, <1>4, CallerKeepsLookupInv
        DEF LookupInv, LookupSound, LookupTypeOK, UpdaterAlone, Expire, callers

-----------------------------------------------------------------------------
(* Updates and Close. *)

\* "No reader" is not a database.
LEMMA NoneIsNoDatabase == None \notin Database /\ Database \subseteq Nat
  BY LookupConstants DEF Database

\* Who has updateMu has the only readers that are open beside the one in use.
LEMMA OwnerHasReaders ==
  ASSUME LookupInv, NEW u \in Updater, upc[u] \in {"download", "swap", "closeOld"}
  PROVE  /\ updateMu = u /\ ~closed
         /\ \A v \in Updater : v # u => upc[v] \notin {"download", "swap", "closeOld"}
                                        /\ fresh[v] = None /\ old[v] = None
         /\ opened \subseteq {db, fresh[u], old[u]}
<1>1. updateMu = u /\ u # None
  BY LookupConstants DEF LookupInv, UpdaterAlone
<1>2. \A v \in Updater : v # u => /\ upc[v] \notin {"download", "swap", "closeOld"}
                                  /\ fresh[v] = None /\ old[v] = None
  BY <1>1 DEF LookupInv, UpdaterAlone
<1>3. None \notin opened
  BY NoneIsNoDatabase DEF LookupInv, LookupSound, LookupTypeOK
<1>4. opened \subseteq {db, fresh[u], old[u]}
  BY <1>2, <1>3 DEF LookupInv, LookupSound
<1> QED BY <1>1, <1>2, <1>4 DEF LookupInv, ClosedForGood

\* An updater that finishes leaves no reader open but the one in use.
LEMMA LeavingClosesReaders ==
  ASSUME LookupInv, NEW u \in Updater, upc[u] \in {"download", "swap", "closeOld"},
         Leave(u), opened' = opened \cap {db},
         UNCHANGED <<disk, db, downloads, epoch, cache, cancelled, closed, cpc, callers, stage>>, stage # "new"
  PROVE  LookupInv'
<1> USE DEF LookupInv, Leave, callers
<1>1. /\ updateMu = u /\ ~closed
      /\ \A v \in Updater : v # u => upc[v] \notin {"download", "swap", "closeOld"}
  BY OwnerHasReaders
<1>2. LookupTypeOK' /\ UpdaterAlone'
  BY <1>1 DEF LookupSound, LookupTypeOK, UpdaterAlone
<1>3. \A c \in Closer : cpc'[c] # "closed"
  BY <1>1 DEF ClosedForGood
<1>4. LookupSound'
  BY <1>2, <1>3 DEF LookupSound
<1>5. \A v \in Updater : upc'[v] \notin {"swap", "closeOld"}
  BY <1>1 DEF LookupSound, LookupTypeOK
<1>6. ReadersInOrder' /\ ClosedForGood' /\ AnswersOfEpoch' /\ NotYetOpened'
  BY <1>1, <1>5 DEF ReadersInOrder, ClosedForGood, AnswersOfEpoch, NotYetOpened
<1> QED BY <1>2, <1>4, <1>6

\* The rest of an update: download, swap or refusal after Close, close of the old reader.
LEMMA FinishKeepsInv ==
  ASSUME LookupInv, NEW u \in Updater, Finish(u), UNCHANGED stage, stage # "new"
  PROVE  LookupInv'
<1> USE DEF LookupInv
<1>2. ASSUME upc[u] \in {"download", "swap", "closeOld"}
      PROVE  /\ updateMu = u /\ ~closed
             /\ \A v \in Updater : v # u => upc[v] \notin {"download", "swap", "closeOld"}
                                            /\ fresh[v] = None /\ old[v] = None
             /\ opened \subseteq {db, fresh[u], old[u]}
  BY <1>2, OwnerHasReaders
<1>3. None \notin opened
  BY NoneIsNoDatabase DEF LookupSound, LookupTypeOK
<1>4. CASE Download(u)
  <2>1. downloads \in Nat /\ epoch \in Nat /\ downloads < MaxDownloads /\ downloads' = downloads + 1
        /\ (db # None => db \in Nat) /\ fresh[u] = None /\ old[u] = None /\ MaxDownloads \in Nat
    BY <1>4, LookupConstants DEF Download, LookupSound, LookupTypeOK, UpdaterAlone, Database
  <2>2. downloads' \in Database /\ downloads' # None
    BY <2>1, LookupConstants DEF Database
  <2>3. LookupTypeOK' /\ UpdaterAlone'
    BY <1>2, <1>4, <2>2 DEF Download, LookupSound, LookupTypeOK, UpdaterAlone, callers
  <2>4. \E v \in Updater : downloads' = fresh'[v]
    BY <1>4 DEF Download, UpdaterAlone
  <2>5. \A v \in Updater : fresh[v] \in {None, fresh'[v]} /\ old'[v] = old[v]
    BY <1>4, <2>1 DEF Download, UpdaterAlone
  <2>6. opened' \subseteq {db'} \cup {fresh'[v] : v \in Updater} \cup {old'[v] : v \in Updater}
    BY <1>3, <1>4, <2>4, <2>5 DEF Download, LookupSound
  <2>7. LookupSound'
    <3>1. ~\E c \in Closer : cpc'[c] = "closed"
      BY <1>2, <1>4 DEF Download, ClosedForGood
    <3> QED BY <1>4, <2>3, <2>6, <3>1 DEF Download, LookupSound, callers
  <2>8. ReadersInOrder'
    BY <1>2, <1>4, <2>1 DEF Download, ReadersInOrder, UpdaterAlone, LookupSound, LookupTypeOK
  <2>9. ClosedForGood' /\ AnswersOfEpoch' /\ NotYetOpened'
    BY <1>2, <1>4 DEF Download, ClosedForGood, AnswersOfEpoch, NotYetOpened, callers
  <2> QED BY <1>4, <2>3, <2>7, <2>8, <2>9 DEF Download
<1>5. CASE DownloadFails(u)
  <2>1. fresh[u] = None /\ old[u] = None
    BY <1>5 DEF DownloadFails, UpdaterAlone
  <2>2. opened' = opened \cap {db}
    BY <1>2, <1>3, <1>5, <2>1 DEF DownloadFails
  <2> QED BY <1>5, <2>2, LeavingClosesReaders DEF DownloadFails
<1>6. CASE Swap(u)
  <2>1. /\ fresh[u] = downloads /\ downloads \in Nat /\ epoch \in Nat /\ epoch < downloads
        /\ downloads \in Database /\ downloads <= MaxDownloads /\ MaxDownloads \in Nat /\ downloads # None
        /\ (db # None => db \in Nat /\ db < downloads)
    BY <1>6, LookupConstants DEF Swap, ReadersInOrder, LookupSound, LookupTypeOK, Database
  <2>2. DOMAIN cache' = {} /\ IsFiniteSet(DOMAIN cache') /\ Cardinality(DOMAIN cache') = 0
    <3>1. DOMAIN cache' = {}
      BY <1>6 DEF Swap
    <3> QED BY <3>1, FS_EmptySet
  <2>3. epoch' \in Database /\ epoch' = epoch + 1 /\ epoch' <= downloads
    BY <1>6, <2>1 DEF Swap, Database
  <2>4. LookupTypeOK' /\ UpdaterAlone'
    BY <1>2, <1>6, <2>1, <2>2, <2>3 DEF Swap, LookupSound, LookupTypeOK, UpdaterAlone, callers
  <2>5. \A v \in Updater : fresh'[v] = fresh[v] /\ old[v] \in {None, old'[v]}
    BY <1>6 DEF Swap, UpdaterAlone, ReadersInOrder
  <2>6. old'[u] = db /\ db' = fresh[u]
    BY <1>6 DEF Swap, UpdaterAlone
  <2>7. fresh[u] \in opened
    BY <1>6 DEF Swap, ReadersInOrder
  <2>8. opened' \subseteq {db'} \cup {fresh'[v] : v \in Updater} \cup {old'[v] : v \in Updater}
    BY <1>3, <1>6, <2>5, <2>6 DEF Swap, LookupSound
  <2>9. LookupSound'
    <3>1. ~\E c \in Closer : cpc'[c] = "closed"
      BY <1>2, <1>6 DEF Swap, ClosedForGood
    <3>2. (Cardinality(DOMAIN cache) <= MaxEntries)'
      BY <2>2, LookupConstants
    <3>3. db' \in opened' /\ disk' = db'
      BY <1>6, <2>7 DEF Swap
    <3>4. \A k \in Caller : pc'[k] = "wait" => flight'[HostOf[k]] # None
      BY <1>6 DEF Swap, LookupSound, callers
    <3> QED BY <2>2, <2>4, <2>8, <3>1, <3>2, <3>3, <3>4 DEF LookupSound
  <2>10. ReadersInOrder'
    BY <1>2, <1>6, <2>1, <2>3, <2>6 DEF Swap, ReadersInOrder, UpdaterAlone, LookupSound,
         LookupTypeOK
  <2>11. ClosedForGood' /\ NotYetOpened'
    BY <1>6 DEF Swap, ClosedForGood, NotYetOpened
  <2>12. AnswersOfEpoch'
    BY <1>6, <2>1, <2>3 DEF Swap, AnswersOfEpoch, UpdaterAlone, callers
  <2> QED BY <2>2, <2>4, <2>9, <2>10, <2>11, <2>12
<1>7. CASE SwapRefused(u)
  <2>1. old[u] = None /\ fresh[u] # db
    <3>1. db # None => db < fresh[u] /\ fresh[u] \in Nat
      BY <1>7 DEF SwapRefused, ReadersInOrder, LookupSound, LookupTypeOK, Database
    <3>2. fresh[u] # None
      BY <1>7, LookupConstants DEF SwapRefused, ReadersInOrder, LookupSound, LookupTypeOK,
           Database
    <3> QED BY <1>7, <3>1, <3>2 DEF SwapRefused, ReadersInOrder, LookupSound,
         LookupTypeOK, Database
  <2>2. opened' = opened \cap {db}
    BY <1>2, <1>3, <1>7, <2>1 DEF SwapRefused
  <2> QED BY <1>7, <2>2, LeavingClosesReaders DEF SwapRefused
<1>8. CASE CloseOld(u)
  <2>1. db = fresh[u] /\ old[u] # db
    BY <1>8 DEF CloseOld, ReadersInOrder
  <2>2. opened' = opened \cap {db}
    BY <1>2, <1>3, <1>8, <2>1 DEF CloseOld
  <2> QED BY <1>8, <2>2, LeavingClosesReaders DEF CloseOld
<1> QED BY <1>4, <1>5, <1>6, <1>7, <1>8 DEF Finish

\* An update begins by taking updateMu.
LEMMA StartUpdateKeepsInv ==
  ASSUME LookupInv, NEW u \in Updater, StartUpdate(u), UNCHANGED stage, stage # "new"
  PROVE  LookupInv'
<1> USE DEF LookupInv, StartUpdate, callers
<1>1. \A v \in Updater : upc[v] \notin {"download", "swap", "closeOld"}
  BY LookupConstants DEF UpdaterAlone
<1>2. LookupTypeOK' /\ UpdaterAlone'
  BY <1>1 DEF LookupSound, LookupTypeOK, UpdaterAlone
<1>3. LookupSound'
  BY <1>2 DEF LookupSound
<1>4. ReadersInOrder' /\ ClosedForGood' /\ AnswersOfEpoch' /\ NotYetOpened'
  BY <1>1 DEF LookupSound, LookupTypeOK, ReadersInOrder, ClosedForGood, AnswersOfEpoch,
       NotYetOpened
<1> QED BY <1>2, <1>3, <1>4

\* The update loop ends after Close told it to.
LEMMA LoopExitsKeepsInv ==
  ASSUME LookupInv, LoopExits, UNCHANGED stage, stage # "new"
  PROVE  LookupInv'
<1> USE LookupConstants DEF LookupInv, LoopExits, callers
<1>1. LookupTypeOK' /\ UpdaterAlone'
  BY DEF LookupSound, LookupTypeOK, UpdaterAlone
<1>2. LookupSound'
  BY <1>1 DEF LookupSound
<1>3. ReadersInOrder' /\ ClosedForGood' /\ AnswersOfEpoch' /\ NotYetOpened'
  BY DEF LookupSound, LookupTypeOK, ReadersInOrder, ClosedForGood, AnswersOfEpoch, NotYetOpened
<1> QED BY <1>1, <1>2, <1>3

\* Close takes updateMu, so no updater has a reader open when it closes the one in use.
LEMMA CloseKeepsInv ==
  ASSUME LookupInv, NEW c \in Closer, Cancel(c) \/ CloseReader(c) \/ \E looping \in BOOLEAN : Join(c, looping),
         UNCHANGED stage, stage # "new"
  PROVE  LookupInv'
<1> USE DEF LookupInv, callers
<1>1. CASE Cancel(c)
  <2>1. LookupSound'
    BY <1>1 DEF Cancel, LookupSound, LookupTypeOK
  <2> QED BY <1>1, <2>1 DEF Cancel, UpdaterAlone, ReadersInOrder, ClosedForGood,
       AnswersOfEpoch, NotYetOpened,
                            LookupSound, LookupTypeOK
<1>2. CASE CloseReader(c)
  <2>1. \A u \in Updater : /\ upc[u] \notin {"download", "swap", "closeOld"}
                           /\ fresh[u] = None /\ old[u] = None
    BY <1>2, LookupConstants DEF CloseReader, UpdaterAlone
  <2>2. opened' = {}
    BY <1>2, <2>1, NoneIsNoDatabase DEF CloseReader, LookupSound, LookupTypeOK
  <2>3. LookupTypeOK'
    BY <1>2, <2>2 DEF CloseReader, LookupSound, LookupTypeOK
  <2>4. LookupSound'
    BY <1>2, <2>2, <2>3 DEF CloseReader, LookupSound
  <2>5. UpdaterAlone' /\ ReadersInOrder'
    BY <1>2, <2>1 DEF CloseReader, UpdaterAlone, ReadersInOrder
  <2>6. ClosedForGood' /\ AnswersOfEpoch' /\ NotYetOpened'
    BY <1>2, <2>2 DEF CloseReader, ClosedForGood, AnswersOfEpoch, NotYetOpened
  <2> QED BY <1>2, <2>4, <2>5, <2>6 DEF CloseReader
<1>3. ASSUME NEW looping \in BOOLEAN, Join(c, looping) PROVE LookupInv'
  <2>1. closed /\ db = None /\ opened = {}
    BY <1>3 DEF Join, ClosedForGood
  <2>2. LookupSound'
    BY <1>3, <2>1 DEF Join, LookupSound, LookupTypeOK
  <2> QED BY <1>3, <2>1, <2>2 DEF Join, UpdaterAlone, ReadersInOrder, ClosedForGood,
       AnswersOfEpoch, NotYetOpened
<1> QED BY <1>1, <1>2, <1>3

\* Build opens the lookup on the first database.
LEMMA OpenKeepsInv == ASSUME LookupInv, Open PROVE LookupInv'
<1> USE DEF LookupInv, Open, New, callers
<1>1. 0 \in Database
  BY LookupConstants DEF Database
<1>2. LookupTypeOK' /\ UpdaterAlone'
  BY <1>1 DEF LookupSound, LookupTypeOK, UpdaterAlone
<1>3. \A c \in Closer : cpc[c] # "closed"
  BY DEF ClosedForGood
<1>4. LookupSound'
  BY <1>2, <1>3 DEF LookupSound, NotYetOpened
<1>5. ReadersInOrder' /\ ClosedForGood' /\ AnswersOfEpoch' /\ NotYetOpened'
  BY LookupConstants DEF ReadersInOrder, ClosedForGood, AnswersOfEpoch, NotYetOpened
<1> QED BY <1>2, <1>4, <1>5

\* Only the cache and the answers are forgotten.
LEMMA RouterStartKeepsLookupInv == ASSUME LookupInv, startGeoIPRouter PROVE LookupInv'
<1>1. DOMAIN cache' = {} /\ IsFiniteSet(DOMAIN cache') /\ Cardinality(DOMAIN cache') = 0
  <2>1. DOMAIN cache' = {}
    BY DEF startGeoIPRouter
  <2> QED BY <2>1, FS_EmptySet
<1>2. CacheCurrent'
  BY <1>1, LookupConstants DEF CacheCurrent
<1>3. AnswersOfEpoch'
  BY DEF LookupInv, AnswersOfEpoch, startGeoIPRouter, readers
<1> QED BY <1>2, <1>3, CallerKeepsLookupInv
        DEF startGeoIPRouter, LookupInv, LookupSound, LookupTypeOK, UpdaterAlone, Answer

\* Every step of the composition keeps the invariant of the lookup.
LEMMA LookupStep == LookupInv /\ standalone \in BOOLEAN /\ [Next]_vars => LookupInv' /\ standalone' \in BOOLEAN
<1> SUFFICES ASSUME LookupInv, standalone \in BOOLEAN, [Next]_vars PROVE LookupInv' /\ standalone' \in BOOLEAN
  OBVIOUS
<1>0. UNCHANGED standalone
  BY DEF Next, vars, Open, OpenFails, Locate, Age, AutoUpdate, BuildReturns,
       startGeoIPRouter, Route, Close
<1>1. CASE UNCHANGED lookupVars /\ (stage = "new" \/ stage' # "new")
  <2>1. LookupSound'
    BY <1>1 DEF LookupInv, LookupSound, LookupTypeOK, lookupVars
  <2> QED BY <1>0, <1>1, <2>1 DEF LookupInv, lookupVars, UpdaterAlone, ReadersInOrder,
       ClosedForGood,
                                  AnswersOfEpoch, NotYetOpened
<1>2. CASE Open
  BY <1>0, <1>2, OpenKeepsInv
<1>3. CASE OpenFails \/ BuildReturns
  BY <1>1, <1>3 DEF OpenFails, BuildReturns
<1>4. CASE Route \/ UNCHANGED vars
  BY <1>1, <1>4 DEF Route, vars
<1>5. CASE Locate
  BY <1>0, <1>5, LookupKeepsInv DEF Locate
<1>6. CASE Age
  BY <1>0, <1>6, ExpireKeepsInv DEF Age
<1>7. CASE AutoUpdate
  BY <1>0, <1>7, LoopExitsKeepsInv, StartUpdateKeepsInv, FinishKeepsInv DEF AutoUpdate
<1>8. CASE startGeoIPRouter
  BY <1>0, <1>8, RouterStartKeepsLookupInv
<1>9. ASSUME NEW c \in Closer, Close(c) PROVE LookupInv'
  BY <1>9, CloseKeepsInv DEF Close
<1> QED BY <1>0, <1>2, <1>3, <1>4, <1>5, <1>6, <1>7, <1>8, <1>9 DEF Next

-----------------------------------------------------------------------------
\* GeoSound holds in every reachable state: after an update no answer of an earlier database
\* is in the cache, whatever lookups were under way (cacheHostAtEpoch); the reader in use is
\* open, and Close leaves none open (Update, Close); a stopped router relays nothing and makes
\* no transport (handleConnect, getTransport).
THEOREM GeoIsSound == Spec => []GeoSound
<1> DEFINE Inv == LookupInv /\ RouterInv /\ standalone \in BOOLEAN
<1>1. Init => Inv
  BY LookupInitially, RouterInitially DEF Init
<1>2. Inv /\ [Next]_vars => Inv'
  BY LookupStep, RouterStep
<1>3. Inv => GeoSound
  BY DEF LookupInv, RouterInv, GeoSound
<1> QED BY <1>1, <1>2, <1>3, PTL DEF Spec

=============================================================================
