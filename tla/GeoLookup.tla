----------------------------- MODULE GeoLookup ------------------------------
(***************************************************************************)
(* geoip.Lookup: the reader of the GeoIP database, the cache of regions by *)
(* host, and the updater that swaps the reader while lookups use it.       *)
(*                                                                         *)
(* A database is its version, in the order of the downloads, and stands    *)
(* for every answer it gives: the region of a host is the version that     *)
(* answered, or Unknown.  What runs under mu or cacheMu is one step.       *)
(***************************************************************************)
EXTENDS Naturals, FiniteSets

CONSTANTS Caller,      \* goroutines that look up, one URI each
          HostOf,      \* the host of each caller's URI
          Updater,     \* goroutines that call Update
          Loop,        \* the one of autoUpdateLoop
          Closer,      \* goroutines that call Close
          MaxEntries,  \* 4096
          MaxDownloads, \* bound
          None, Unknown

ASSUME LookupConstants ==
  /\ Loop \in Updater /\ MaxEntries \in Nat \ {0} /\ MaxDownloads \in Nat
  /\ None \notin Nat \cup Updater \cup Caller /\ Unknown \notin Nat

Host == {HostOf[k] : k \in Caller}
Database == 0..MaxDownloads
Answer == Database \cup {Unknown}

VARIABLES disk,      \* the database at the path, or None
          db,        \* the reader in use, or None
          opened,    \* readers that are open
          downloads, \* databases so far
          epoch, cache,          \* cacheEpoch, dnsCache
          updateMu,              \* who has it, or None
          cancelled, closed,     \* ctx and stopChan; closed
          upc, fresh, old,       \* per updater: where it is, its new and old reader
          cpc,                   \* per Close
          pc, seen, region,      \* per caller: where it is, the epoch it read, its answer
          flight                 \* dnsGroup: the caller resolving each host, or None

lookupVars == <<disk, db, opened, downloads, epoch, cache, updateMu, cancelled, closed,
                upc, fresh, old, cpc, pc, seen, region, flight>>
readers == <<disk, db, opened, downloads, epoch, updateMu, cancelled, closed, upc, fresh, old, cpc>>
callers == <<pc, seen, region, flight>>

LookupInit ==
  /\ disk \in {None, 0} /\ db = None /\ opened = {} /\ downloads = 0
  /\ epoch = 0 /\ cache = << >> /\ updateMu = None /\ cancelled = FALSE /\ closed = FALSE
  /\ upc = [u \in Updater |-> "idle"]
  /\ fresh = [u \in Updater |-> None] /\ old = [u \in Updater |-> None]
  /\ cpc = [c \in Closer |-> "open"]
  /\ pc = [k \in Caller |-> "idle"] /\ seen = [k \in Caller |-> 0]
  /\ region = [k \in Caller |-> Unknown] /\ flight = [h \in Host |-> None]

\* EnsureDatabase and Open: a database that is missing or empty is downloaded first.
New ==
  /\ db = None /\ ~closed
  /\ disk' = 0 /\ db' = 0 /\ opened' = {0}
  /\ UNCHANGED <<downloads, epoch, cache, updateMu, cancelled, closed, upc, fresh, old, cpc, callers>>

-----------------------------------------------------------------------------
(* Update, by the ticker of autoUpdateLoop or by a caller. *)

Leave(u) == /\ updateMu' = None /\ upc' = [upc EXCEPT ![u] = "idle"]
            /\ fresh' = [fresh EXCEPT ![u] = None] /\ old' = [old EXCEPT ![u] = None]

\* A lookup that is closed, or being closed, is not updated.
StartUpdate(u) ==
  /\ upc[u] = "idle" /\ updateMu = None /\ ~closed /\ ~cancelled /\ downloads < MaxDownloads
  /\ updateMu' = u /\ upc' = [upc EXCEPT ![u] = "download"]
  /\ UNCHANGED <<disk, db, opened, downloads, epoch, cache, cancelled, closed, fresh, old, cpc, callers>>

\* The staged file is complete, valid and opened.
Download(u) ==
  /\ upc[u] = "download"
  /\ downloads' = downloads + 1 /\ opened' = opened \cup {downloads'}
  /\ fresh' = [fresh EXCEPT ![u] = downloads'] /\ upc' = [upc EXCEPT ![u] = "swap"]
  /\ UNCHANGED <<disk, db, epoch, cache, updateMu, cancelled, closed, old, cpc, callers>>

\* A bad status, a truncated, oversized or invalid file, or the cancellation.
DownloadFails(u) ==
  /\ upc[u] = "download" /\ Leave(u)
  /\ UNCHANGED <<disk, db, opened, downloads, epoch, cache, cancelled, closed, cpc, callers>>

\* Replace the file, then the reader, and forget what the old one answered.
Swap(u) ==
  /\ upc[u] = "swap" /\ ~closed /\ ~cancelled
  /\ disk' = fresh[u] /\ db' = fresh[u]
  /\ epoch' = epoch + 1 /\ cache' = << >>
  /\ old' = [old EXCEPT ![u] = db] /\ upc' = [upc EXCEPT ![u] = "closeOld"]
  /\ UNCHANGED <<opened, downloads, updateMu, cancelled, closed, fresh, cpc, callers>>

\* Closed meanwhile, or the file could not be replaced: the new reader is closed.
SwapRefused(u) ==
  /\ upc[u] = "swap" /\ opened' = opened \ {fresh[u]} /\ Leave(u)
  /\ UNCHANGED <<disk, db, downloads, epoch, cache, cancelled, closed, cpc, callers>>

CloseOld(u) ==
  /\ upc[u] = "closeOld" /\ opened' = opened \ {old[u]} /\ Leave(u)
  /\ UNCHANGED <<disk, db, downloads, epoch, cache, cancelled, closed, cpc, callers>>

\* autoUpdateLoop sees stopChan closed.
LoopExits ==
  /\ upc[Loop] = "idle" /\ cancelled /\ upc' = [upc EXCEPT ![Loop] = "exited"]
  /\ UNCHANGED <<disk, db, opened, downloads, epoch, cache, updateMu, cancelled, closed,
                 fresh, old, cpc, callers>>

-----------------------------------------------------------------------------
(* Close: cancel a download, wait for the updater, close the reader, join the loop. *)

\* Seeded fault: Close does not tell the loop.
CancelNothing(c) ==
  /\ cpc[c] = "open" /\ cpc' = [cpc EXCEPT ![c] = "lock"]
  /\ UNCHANGED <<disk, db, opened, downloads, epoch, cache, updateMu, cancelled, closed, upc, fresh, old, callers>>

Cancel(c) ==
  /\ cpc[c] = "open" /\ cancelled' = TRUE /\ cpc' = [cpc EXCEPT ![c] = "lock"]
  /\ UNCHANGED <<disk, db, opened, downloads, epoch, cache, updateMu, closed, upc, fresh, old, callers>>

CloseReader(c) ==
  /\ cpc[c] = "lock" /\ updateMu = None
  /\ closed' = TRUE /\ db' = None /\ opened' = opened \ {db}
  /\ cpc' = [cpc EXCEPT ![c] = "join"]
  /\ UNCHANGED <<disk, downloads, epoch, cache, updateMu, cancelled, upc, fresh, old, callers>>

\* updateDone is nil without an update interval.
Join(c, looping) ==
  /\ cpc[c] = "join" /\ (looping => upc[Loop] = "exited")
  /\ cpc' = [cpc EXCEPT ![c] = "closed"]
  /\ UNCHANGED <<disk, db, opened, downloads, epoch, cache, updateMu, cancelled, closed,
                 upc, fresh, old, callers>>

-----------------------------------------------------------------------------
(* LookupURI. *)

At(k, l) == pc' = [pc EXCEPT ![k] = l]
Returns(k, answer) == At(k, "done") /\ region' = [region EXCEPT ![k] = answer]

\* A disabled or closed lookup knows nothing.
Enter(k) ==
  /\ pc[k] = "idle"
  /\ \/ db = None /\ Returns(k, Unknown)
     \/ db # None /\ At(k, "check") /\ UNCHANGED region
  /\ UNCHANGED <<readers, cache, seen, flight>>

\* A cached answer, or the first caller for a host resolves it and the others wait.
Check(k) ==
  LET h == HostOf[k]
  IN  /\ pc[k] = "check"
      /\ \/ h \in DOMAIN cache /\ Returns(k, cache[h]) /\ UNCHANGED flight
         \/ /\ h \notin DOMAIN cache
            /\ IF flight[h] = None THEN At(k, "lead") /\ flight' = [flight EXCEPT ![h] = k]
                                   ELSE At(k, "wait") /\ UNCHANGED flight
            /\ UNCHANGED region
      /\ UNCHANGED <<readers, cache, seen>>

\* The flight lands: its leader and everyone who waits for it get the answer.
Land(k, answer) ==
  LET h == HostOf[k]
      aboard == {k} \cup {j \in Caller : pc[j] = "wait" /\ HostOf[j] = h}
  IN  /\ pc' = [j \in Caller |-> IF j \in aboard THEN "done" ELSE pc[j]]
      /\ region' = [j \in Caller |-> IF j \in aboard THEN answer ELSE region[j]]
      /\ flight' = [flight EXCEPT ![h] = None]

\* The leader looks into the cache again and remembers the epoch of its miss.
Lead(k) ==
  LET h == HostOf[k]
  IN  /\ pc[k] = "lead"
      /\ \/ h \in DOMAIN cache /\ Land(k, cache[h]) /\ UNCHANGED seen
         \/ /\ h \notin DOMAIN cache /\ At(k, "resolve")
            /\ seen' = [seen EXCEPT ![k] = epoch] /\ UNCHANGED <<region, flight>>
      /\ UNCHANGED <<readers, cache>>

\* At the limit some entry makes room for the new one.
Cached(h, answer) ==
  \E gone \in SUBSET DOMAIN cache :
    /\ Cardinality(gone) = IF Cardinality(DOMAIN cache) >= MaxEntries THEN 1 ELSE 0
    /\ cache' = [x \in (DOMAIN cache \ gone) \cup {h} |-> IF x = h THEN answer ELSE cache[x]]

\* Seeded fault: the answer is stored whatever happened since the miss.
cacheHostAtAnyEpoch(h, answer, e) == Cached(h, answer)

\* Nothing is stored after an update that cleared the cache.
cacheHostAtEpoch(h, answer, e) ==
  \/ e # epoch /\ UNCHANGED cache
  \/ e = epoch /\ Cached(h, answer)

\* The DNS query fails or times out: Unknown is cached for a minute.
ResolveFails(k) ==
  /\ pc[k] = "resolve" /\ cacheHostAtEpoch(HostOf[k], Unknown, seen[k]) /\ Land(k, Unknown)
  /\ UNCHANGED <<readers, seen>>

\* LookupIP of the address asks the reader in use.
LookupIP(k) ==
  /\ pc[k] = "resolve"
  /\ region' = [region EXCEPT ![k] = IF db = None THEN Unknown ELSE db]
  /\ At(k, "store")
  /\ UNCHANGED <<readers, cache, seen, flight>>

Store(k) ==
  /\ pc[k] = "store" /\ cacheHostAtEpoch(HostOf[k], region[k], seen[k]) /\ Land(k, region[k])
  /\ UNCHANGED <<readers, seen>>

\* An entry outlives its time to live.
Expire(h) ==
  /\ h \in DOMAIN cache /\ cache' = [x \in DOMAIN cache \ {h} |-> cache[x]]
  /\ UNCHANGED <<readers, callers>>

Lookup(k) ==
  Enter(k) \/ Check(k) \/ Lead(k) \/ ResolveFails(k) \/ LookupIP(k) \/ Store(k)
Finish(u) == Download(u) \/ DownloadFails(u) \/ Swap(u) \/ SwapRefused(u) \/ CloseOld(u)

-----------------------------------------------------------------------------
LookupTypeOK ==
  /\ disk \in Database \cup {None} /\ db \in Database \cup {None} /\ opened \subseteq Database
  /\ downloads \in Database /\ epoch \in Database
  /\ DOMAIN cache \subseteq Host /\ \A h \in DOMAIN cache : cache[h] \in Answer
  /\ updateMu \in Updater \cup {None} /\ cancelled \in BOOLEAN /\ closed \in BOOLEAN
  /\ upc \in [Updater -> {"idle", "download", "swap", "closeOld", "exited"}]
  /\ cpc \in [Closer -> {"open", "lock", "join", "closed"}]
  /\ pc \in [Caller -> {"idle", "check", "lead", "wait", "resolve", "store", "done"}]
  /\ region \in [Caller -> Answer] /\ flight \in [Host -> Caller \cup {None}]

\* What the cache answers is what the database in use would, whatever lookups were under way
\* when it was swapped (cacheHostAtEpoch: "A completed database update invalidated this
\* in-flight miss"); the reader in use is open and the one the next start will open; a reader
\* that is not in use belongs to an updater, and after Close there is none.
LookupSound ==
  /\ LookupTypeOK
  /\ db # None => /\ \A h \in DOMAIN cache : cache[h] \in {db, Unknown}
                  /\ db \in opened /\ disk = db
  /\ Cardinality(DOMAIN cache) <= MaxEntries
  /\ opened \subseteq {db} \cup {fresh[u] : u \in Updater} \cup {old[u] : u \in Updater}
  /\ \A k \in Caller : pc[k] = "wait" => flight[HostOf[k]] # None
  /\ (\E c \in Closer : cpc[c] = "closed") => db = None /\ opened = {}

=============================================================================
