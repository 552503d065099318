---------------------------- MODULE ConfigFiles -----------------------------
(***************************************************************************)
(* config/persistence.go: reading and writing one configuration file from  *)
(* several goroutines of several processes.  A writer takes the mutex of   *)
(* its process, flocks the file's .lock sidecar and then the file itself,  *)
(* makes sure that the file it locked is still the one the path names, and *)
(* replaces it by renaming a temporary file over it.  Where the directory  *)
(* cannot be written, it overwrites the file in place instead.             *)
(*                                                                         *)
(* config.yaml holds groups of fields with one owner each (nodes,          *)
(* management settings, subscriptions): updateConfigFile reads the file    *)
(* and writes it back with its owner's group set anew.  Contents say, for  *)
(* every group, which save the file holds, or that it holds none in full;  *)
(* Torn is a file overwritten in part, which may parse all the same.       *)
(* ConfigurationProofs extends this module and NodePorts, so that no       *)
(* definition has the name of one of that module.                          *)
(***************************************************************************)
EXTENDS Naturals, FiniteSets

CONSTANTS Process,      \* processes using the file
          InPlace,      \* those that cannot create files in its directory
          Writer,       \* goroutines that save
          Reader,       \* goroutines that load
          ProcessOf,    \* the process of each goroutine
          GroupOf,      \* the group of fields each writer owns
          MaxAttempts,  \* 32
          Inode,        \* bound: files that can exist at the same time, one for each
                        \* process and the one at the path
          NoInode, None, Torn,
          Garbled,      \* a group of which a file has anything but what was saved last
          Lost,         \* sets of groups that a torn file that parses may not have in full
          MaxSaves,     \* bound: operations of a goroutine
          MaxCrashes    \* bound

ASSUME FileConstants ==
  /\ InPlace \subseteq Process /\ MaxAttempts \in Nat \ {0}
  /\ ProcessOf \in [Writer \cup Reader -> Process] /\ DOMAIN GroupOf = Writer
  /\ Writer \cap Reader = {} /\ None \notin Writer \cup Reader
  /\ IsFiniteSet(Process) /\ IsFiniteSet(Inode) /\ Cardinality(Process) < Cardinality(Inode)
  /\ NoInode \notin Inode /\ MaxSaves \in Nat /\ MaxCrashes \in Nat

Thread == Writer \cup Reader
Group == {GroupOf[w] : w \in Writer}
Contents == [Group -> Nat \cup {Garbled}]

ASSUME TornIsNoContents == Torn \notin Contents /\ Garbled \notin Nat

VARIABLES file,      \* the inode the path names
          data,      \* contents of each inode
          mutex,     \* pathLocks of each process: the goroutine that has it, or None
          lockFile,  \* who has the flock of the .lock file, or None
          flock,     \* flock[i]: who has that of inode i, or None
          pc, fd,    \* per goroutine: where it is, the inode it opened
          buf,       \* what it read
          attempt,   \* rounds of the lock loop
          latest,    \* the saves of each group that succeeded (history)
          damaged,   \* an in-place write did not finish (history)
          spoiled,   \* the groups that nobody has saved since one did not (history)
          left       \* what is left of the bounds

fileVars == <<file, data, mutex, lockFile, flock, pc, fd, buf, attempt, latest, damaged, spoiled, left>>
locks == <<mutex, lockFile, flock>>

FilesInit ==
  /\ file = CHOOSE i \in Inode : TRUE
  /\ data = [i \in Inode |-> [g \in Group |-> 0]]
  /\ mutex = [p \in Process |-> None] /\ lockFile = None /\ flock = [i \in Inode |-> None]
  /\ pc = [t \in Thread |-> "idle"] /\ fd = [t \in Thread |-> NoInode]
  /\ buf = [t \in Thread |-> Torn] /\ attempt = [t \in Thread |-> 0]
  /\ latest = [g \in Group |-> 0] /\ damaged = FALSE /\ spoiled = {}
  /\ left = [x \in Thread \cup {None} |-> IF x = None THEN MaxCrashes ELSE MaxSaves]

Goto(t, l) == pc' = [pc EXCEPT ![t] = l]
Mine(t) == mutex[ProcessOf[t]] = t

\* Seeded fault: the sidecar's unlock is not deferred and an early return skips it.
ReleasedButSidecar(t) ==
  /\ mutex' = [mutex EXCEPT ![ProcessOf[t]] = None] /\ UNCHANGED lockFile
  /\ flock' = [i \in Inode |-> IF flock[i] = t THEN None ELSE flock[i]]
  /\ Goto(t, "idle")
  /\ fd' = [fd EXCEPT ![t] = NoInode] /\ buf' = [buf EXCEPT ![t] = Torn]
  /\ attempt' = [attempt EXCEPT ![t] = 0]

\* The deferred unlocks of a finished operation.
Released(t) ==
  /\ mutex' = [mutex EXCEPT ![ProcessOf[t]] = None]
  /\ lockFile' = IF lockFile = t THEN None ELSE lockFile
  /\ flock' = [i \in Inode |-> IF flock[i] = t THEN None ELSE flock[i]]
  /\ Goto(t, "idle")
  /\ fd' = [fd EXCEPT ![t] = NoInode] /\ buf' = [buf EXCEPT ![t] = Torn]
  /\ attempt' = [attempt EXCEPT ![t] = 0]

-----------------------------------------------------------------------------
(* withPathWriteLock. *)

\* Every operation starts by taking the mutex of its process.
Begin(t) ==
  /\ pc[t] = "idle" /\ left[t] > 0 /\ mutex[ProcessOf[t]] = None
  /\ mutex' = [mutex EXCEPT ![ProcessOf[t]] = t]
  /\ left' = [left EXCEPT ![t] = @ - 1]
  /\ Goto(t, IF t \in Writer /\ ProcessOf[t] \notin InPlace THEN "sidecar" ELSE "open")
  /\ UNCHANGED <<file, data, lockFile, flock, fd, buf, attempt, latest, damaged, spoiled>>

LockSidecar(w) ==
  /\ pc[w] = "sidecar" /\ lockFile = None
  /\ lockFile' = w /\ Goto(w, "open")
  /\ UNCHANGED <<file, data, mutex, flock, fd, buf, attempt, latest, damaged, spoiled, left>>

\* The sidecar exists and cannot be opened: the save is refused.
SidecarRefused(w) ==
  /\ pc[w] = "sidecar" /\ Released(w)
  /\ UNCHANGED <<file, data, latest, damaged, spoiled, left>>

Open(t) ==
  /\ pc[t] = "open"
  /\ fd' = [fd EXCEPT ![t] = file] /\ Goto(t, "flock")
  /\ UNCHANGED <<file, data, locks, buf, attempt, latest, damaged, spoiled, left>>

\* Seeded fault: a reader does not lock the file.
LockFileToWrite(t) ==
  /\ pc[t] = "flock" /\ (t \in Reader \/ flock[fd[t]] = None)
  /\ flock' = IF t \in Writer THEN [flock EXCEPT ![fd[t]] = t] ELSE flock
  /\ Goto(t, IF t \in Writer THEN "compare" ELSE "load")
  /\ UNCHANGED <<file, data, mutex, lockFile, fd, buf, attempt, latest, damaged, spoiled, left>>

LockFile(t) ==
  /\ pc[t] = "flock" /\ flock[fd[t]] = None
  /\ flock' = [flock EXCEPT ![fd[t]] = t]
  /\ Goto(t, IF t \in Writer THEN "compare" ELSE "load")
  /\ UNCHANGED <<file, data, mutex, lockFile, fd, buf, attempt, latest, damaged, spoiled, left>>

\* Seeded fault: whatever file was locked is taken for the one at the path.
CompareNothing(w) ==
  /\ pc[w] = "compare" /\ Goto(w, "read")
  /\ UNCHANGED <<file, data, locks, fd, buf, attempt, latest, damaged, spoiled, left>>

\* os.SameFile: another writer may have replaced the file since it was opened.
Compare(w) ==
  LET same == fd[w] = file
      again == attempt[w] + 1
  IN  /\ pc[w] = "compare"
      /\ \/ same /\ Goto(w, "read") /\ UNCHANGED <<locks, fd, buf, attempt>>
         \/ /\ ~same /\ again < MaxAttempts
            /\ attempt' = [attempt EXCEPT ![w] = again]
            /\ flock' = [flock EXCEPT ![fd[w]] = None]
            /\ fd' = [fd EXCEPT ![w] = NoInode]
            /\ Goto(w, "open")
            /\ UNCHANGED <<mutex, lockFile, buf>>
         \/ ~same /\ again = MaxAttempts /\ Released(w)
      /\ UNCHANGED <<file, data, latest, damaged, spoiled, left>>

-----------------------------------------------------------------------------
(* readFileWithLock and updateConfigFile. *)

\* A load returns what it read.
Load(r) ==
  /\ pc[r] = "load"
  /\ buf' = [buf EXCEPT ![r] = data[fd[r]]] /\ Goto(r, "loaded")
  /\ UNCHANGED <<file, data, locks, fd, attempt, latest, damaged, spoiled, left>>

Loaded(r) ==
  /\ pc[r] = "loaded" /\ Released(r)
  /\ UNCHANGED <<file, data, latest, damaged, spoiled, left>>

\* The owner's group becomes what the owner has in memory, its next save; the others
\* stay as they were read.
Updated(w) == [buf[w] EXCEPT ![GroupOf[w]] = latest[GroupOf[w]] + 1]

\* What yaml.Unmarshal may make of a file.  Nothing marks a torn one: the new text with
\* the end of the old may parse, with any of its groups not what it was.
Parsed(contents) ==
  IF contents # Torn THEN {contents}
  ELSE {[g \in Group |-> IF g \in lost THEN Garbled ELSE latest[g]] : lost \in Lost}

\* A file that does not parse is left alone.
Update(w) ==
  /\ pc[w] = "read"
  /\ \/ /\ \E read \in Parsed(data[fd[w]]) : buf' = [buf EXCEPT ![w] = read]
        /\ Goto(w, IF ProcessOf[w] \in InPlace THEN "overwrite" ELSE "rename")
        /\ UNCHANGED <<locks, fd, attempt>>
     \/ data[fd[w]] = Torn /\ Released(w)
  /\ UNCHANGED <<file, data, latest, damaged, spoiled, left>>

\* A save that fails before it touches the file: no space for the temporary file, a
\* read-only destination.
SaveRefused(w) ==
  /\ pc[w] \in {"rename", "overwrite"} /\ Released(w)
  /\ UNCHANGED <<file, data, latest, damaged, spoiled, left>>

Saved(w) ==
  latest' = [latest EXCEPT ![GroupOf[w]] = @ + 1] /\ spoiled' = spoiled \ {GroupOf[w]}

\* Any inode that neither the path nor an open file refers to.
NewInode == CHOOSE i \in Inode : i # file /\ \A t \in Thread : fd[t] # i

\* lockedPath.write: the complete temporary file takes the path's name, as a new inode.
Rename(w) ==
  /\ pc[w] = "rename"
  /\ file' = NewInode /\ data' = [data EXCEPT ![NewInode] = Updated(w)]
  /\ Saved(w) /\ Goto(w, "unlock")
  /\ UNCHANGED <<locks, fd, buf, attempt, damaged, left>>

\* Replacing a bind mount is refused (EBUSY): overwrite it instead.
RenameRefused(w) ==
  /\ pc[w] = "rename" /\ Goto(w, "overwrite")
  /\ UNCHANGED <<file, data, locks, fd, buf, attempt, latest, damaged, spoiled, left>>

\* writeInPlace: WriteAt, then Truncate and Sync.
Overwrite(w) ==
  /\ pc[w] = "overwrite"
  /\ data' = [data EXCEPT ![fd[w]] = Torn] /\ Goto(w, "truncate")
  /\ UNCHANGED <<file, locks, fd, buf, attempt, latest, damaged, spoiled, left>>

Truncate(w) ==
  /\ pc[w] = "truncate"
  /\ data' = [data EXCEPT ![fd[w]] = Updated(w)]
  /\ Saved(w) /\ Goto(w, "unlock")
  /\ UNCHANGED <<file, locks, fd, buf, attempt, damaged, left>>

\* The write failed half-way; restoring the backup is best effort.
RestoreBackup(w) ==
  /\ pc[w] = "truncate"
  /\ \/ data' = [data EXCEPT ![fd[w]] = buf[w]] /\ UNCHANGED <<damaged, spoiled>>
     \/ damaged' = TRUE /\ spoiled' = Group /\ UNCHANGED data
  /\ Goto(w, "unlock")
  /\ UNCHANGED <<file, locks, fd, buf, attempt, latest, left>>

Unlock(w) ==
  /\ pc[w] = "unlock" /\ Released(w)
  /\ UNCHANGED <<file, data, latest, damaged, spoiled, left>>

\* A process dies and comes back: the operating system drops its locks.
Crash(p) ==
  LET gone == {t \in Thread : ProcessOf[t] = p}
  IN  /\ left[None] > 0 /\ \E t \in gone : pc[t] # "idle"
      /\ left' = [left EXCEPT ![None] = @ - 1]
      /\ damaged' = (damaged \/ \E t \in gone : pc[t] = "truncate")
      /\ spoiled' = IF \E t \in gone : pc[t] = "truncate" THEN Group ELSE spoiled
      /\ mutex' = [mutex EXCEPT ![p] = None]
      /\ lockFile' = IF lockFile \in gone THEN None ELSE lockFile
      /\ flock' = [i \in Inode |-> IF flock[i] \in gone THEN None ELSE flock[i]]
      /\ pc' = [t \in Thread |-> IF t \in gone THEN "idle" ELSE pc[t]]
      /\ fd' = [t \in Thread |-> IF t \in gone THEN NoInode ELSE fd[t]]
      /\ buf' = [t \in Thread |-> IF t \in gone THEN Torn ELSE buf[t]]
      /\ attempt' = [t \in Thread |-> IF t \in gone THEN 0 ELSE attempt[t]]
      /\ UNCHANGED <<file, data, latest>>

-----------------------------------------------------------------------------
Save(w) ==
  \/ LockSidecar(w) \/ Compare(w) \/ Update(w)
  \/ Rename(w) \/ Overwrite(w) \/ Truncate(w) \/ Unlock(w)

Fail(w) == SidecarRefused(w) \/ SaveRefused(w) \/ RenameRefused(w) \/ RestoreBackup(w)

Step(t) == Open(t) \/ LockFile(t) \/ (t \in Writer /\ Save(t))
             \/ (t \in Reader /\ (Load(t) \/ Loaded(t)))

FilesNext ==
  \/ \E t \in Thread : Begin(t) \/ Step(t)
  \/ \E w \in Writer : Fail(w)
  \/ \E p \in Process : Crash(p)

\* A goroutine that can go on does; nothing has to fail.  Saves are bounded, so that a
\* lock is contended finitely often and weak fairness is enough to get it.
Fairness == \A t \in Thread : WF_fileVars(Step(t))
FilesSpec == FilesInit /\ [][FilesNext]_fileVars /\ Fairness

-----------------------------------------------------------------------------
FilesTypeOK ==
  /\ file \in Inode /\ data \in [Inode -> Contents \cup {Torn}]
  /\ mutex \in [Process -> Thread \cup {None}] /\ lockFile \in Writer \cup {None}
  /\ flock \in [Inode -> Thread \cup {None}]
  /\ pc \in [Thread -> {"idle", "sidecar", "open", "flock", "compare", "load", "loaded",
                        "read", "rename", "overwrite", "truncate", "unlock"}]
  /\ fd \in [Thread -> Inode \cup {NoInode}] /\ buf \in [Thread -> Contents \cup {Torn}]
  /\ attempt \in [Thread -> 0..(MaxAttempts - 1)]
  /\ latest \in [Group -> Nat] /\ damaged \in BOOLEAN /\ spoiled \subseteq Group
  /\ left \in [Thread \cup {None} -> 0..(MaxSaves + MaxCrashes)]

\* No save is lost: whoever saved in between, in this process or another, by renaming or
\* in place, the file holds every group as it was saved last (withPathWriteLock: "never
\* operate in separate lock domains").  Only a crash or a failed recovery inside an
\* in-place write spoils groups.  The file is then torn, or it parsed and was saved again
\* with what it held, and a group is right from the first save of its owner on.
UpdatesKept ==
  /\ FilesTypeOK
  /\ \/ data[file] = Torn /\ (spoiled = Group \/ \E w \in Writer : pc[w] = "truncate")
     \/ data[file] # Torn /\ \A g \in Group \ spoiled : data[file][g] = latest[g]
  /\ spoiled # {} => damaged

\* Who loads the file, or reads it to update it, gets a complete one: the contents it had
\* when it was named by the path, never the middle of another goroutine's in-place write
\* (readFileWithLock; lockedPath.read).
ReadsWhole ==
  /\ \A r \in Reader : pc[r] = "loaded" /\ buf[r] = Torn => damaged
  /\ \A w \in Writer : pc[w] = "truncate" =>
       \A t \in Thread \ {w} : pc[t] \in {"load", "loaded", "read", "rename", "overwrite"}
                                => fd[t] # fd[w]

\* Every save and load returns, also when its file is replaced under it time and again and
\* when the process that has the lock dies (the mutex, sidecar and inode locks are always
\* taken in this order).
SavesFinish == \A t \in Thread : pc[t] # "idle" ~> pc[t] = "idle"

=============================================================================
