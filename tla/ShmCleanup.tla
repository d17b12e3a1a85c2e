----------------------------- MODULE ShmCleanup -----------------------------
(***************************************************************************)
(* ShmCleanup, which the first participant of a process runs to remove the *)
(* files of Fast DDS that killed processes left in /dev/shm, while other   *)
(* processes open, lock and use theirs.  One lock file stands for _el and  *)
(* _sl.  What Fast DDS and the kernel do is external.                      *)
(***************************************************************************)
EXTENDS FiniteSets, Integers

CONSTANTS
    Cleaners,    \* the threads that create participants
    ProcessOf,   \* thread -> its process
    Registering, \* processes whose application handles SIGIO itself
    MaxInodes    \* bound on the files ever created

Processes == {ProcessOf[t] : t \in Cleaners}

VARIABLES
    dir,            \* name -> inode in /dev/shm, 0 when there is none
    inodes,         \* how many inodes were used
    held,           \* what processes have open, mapped or locked
    opening,        \* process -> inode its open waits for, 0 when none
    sigio,          \* process -> disposition of SIGIO
    shmemCleanedUp, \* process -> the flag
    pc,             \* thread -> where it is
    old,            \* thread -> oldHandlerInfo
    entries,        \* thread -> entries of the directory still to visit
    visiting,       \* thread -> the base file it is at
    locks,          \* thread -> inode of the lock file it locked, 0 when none
    left,           \* thread -> stale names when it had cleaned undisturbed
    disturbed,      \* threads that did not clean alone
    handler,        \* process -> its own handler of SIGIO: none, kept or lost
    killed          \* processes SIGIO killed

fileVars  == <<dir, inodes, held, opening>>
ghostVars == <<left, handler, killed>>
shmVars == <<fileVars, sigio, shmemCleanedUp, pc, old, entries, visiting, locks, disturbed,
             ghostVars>>

(* fastdds_port7661, fastdds_port7661_el, fastdds_026b18adb7506bb8 and     *)
(* sem.fastdds_port7661_mutex: the length, and where the first and the     *)
(* last underscore are.  The segment has no lock file of its own.          *)
Names == {"port", "port_el", "segment", "sem"}
Shape(n) ==
    CASE n = "port"       -> [size |-> 16, find |-> 7, rfind |-> 7]
      [] n = "port_el"    -> [size |-> 19, find |-> 7, rfind |-> 16]
      [] n = "segment"    -> [size |-> 24, find |-> 7, rfind |-> 7]
      [] n = "sem"        -> [size |-> 26, find |-> 11, rfind |-> 20]

filterPortFiles(n) ==
    /\ n \in {"port", "port_el"}
    /\ Shape(n).rfind # Shape(n).size - 3
filterSegments(n) ==
    /\ n # "sem"
    /\ Shape(n).size - Shape(n).find = 16

Present == {n \in Names : dir[n] # 0}
InUse(n) == \E h \in held : h.inode = dir[n]

(* Threads that hold a write lease on their base file.                     *)
Leasing(t) == pc[t] \in {"remove", "removeLocks", "release"}
LeaseOn(inode) == {t \in Cleaners : Leasing(t) /\ visiting[t].inode = inode}
Cleaning(t) == pc[t] \in {"read", "ignore", "ports", "segments", "remove", "removeLocks",
                          "release", "restore", "putBack", "semaphores"}
NoVisit == [name |-> "none", inode |-> 0, next |-> "none"]

(* Processes that are gone have left everything there.                     *)
ShmInit ==
    /\ dir = [n \in Names |-> CASE n = "port" -> 1 [] n = "port_el" -> 2
                               [] n = "segment" -> 3 [] n = "sem" -> 4]
    /\ inodes = 4
    /\ held = {}
    /\ opening = [p \in Processes |-> 0]
    /\ sigio = [p \in Processes |-> "dfl"]
    /\ shmemCleanedUp = [p \in Processes |-> FALSE]
    /\ pc = [t \in Cleaners |-> "start"]
    /\ old = [t \in Cleaners |-> "none"]
    /\ entries = [t \in Cleaners |-> {}]
    /\ visiting = [t \in Cleaners |-> NoVisit]
    /\ locks = [t \in Cleaners |-> 0]
    /\ left = [t \in Cleaners |-> {}]
    /\ handler = [p \in Processes |-> "none"]
    /\ disturbed = {} /\ killed = {}

Goto(t, place) == pc' = [pc EXCEPT ![t] = place]
Alive(t) == pc[t] # "gone"

(* A process ends: its descriptors, mappings, locks and leases go, its     *)
(* files stay.                                                             *)
EndProcesses(ps, waiting, rest) ==
    /\ pc' = [t \in Cleaners |-> IF ProcessOf[t] \in ps THEN "gone" ELSE pc[t]]
    /\ locks' = [t \in Cleaners |-> IF ProcessOf[t] \in ps THEN 0 ELSE locks[t]]
    /\ entries' = [t \in Cleaners |-> IF ProcessOf[t] \in ps THEN {} ELSE rest[t]]
    /\ visiting' = [t \in Cleaners |-> IF ProcessOf[t] \in ps THEN NoVisit ELSE visiting[t]]
    /\ sigio' = [p \in Processes |-> IF p \in ps THEN "dfl" ELSE sigio[p]]
    /\ handler' = [p \in Processes |-> IF p \in ps THEN "none" ELSE handler[p]]
    /\ held' = {h \in held : h.process \notin ps}
    /\ opening' = [p \in Processes |-> IF p \in ps THEN 0 ELSE waiting[p]]

Exit(p) ==
    /\ \E t \in Cleaners : ProcessOf[t] = p /\ Alive(t)
    /\ EndProcesses({p}, opening, entries)
    /\ UNCHANGED <<dir, inodes, shmemCleanedUp, old, left, killed>>

(* An open of a leased file sends SIGIO to the holder of the lease.        *)
BreakLeaseKills(inode) ==
    {ProcessOf[t] : t \in {u \in LeaseOn(inode) : sigio[ProcessOf[u]] = "dfl"}}

-----------------------------------------------------------------------------
(* ShmCleanup(): the flag.                                                 *)
TestFlag(t) ==
    /\ pc[t] = "start"
    /\ Goto(t, IF shmemCleanedUp[ProcessOf[t]] THEN "user" ELSE "read")
    /\ UNCHANGED <<fileVars, sigio, shmemCleanedUp, old, entries, visiting, locks, ghostVars>>

ReadDisposition(t) ==
    /\ pc[t] = "read"
    /\ shmemCleanedUp' = [shmemCleanedUp EXCEPT ![ProcessOf[t]] = TRUE]
    /\ old' = [old EXCEPT ![t] = sigio[ProcessOf[t]]]
    /\ Goto(t, "ignore")
    /\ UNCHANGED <<fileVars, sigio, entries, visiting, locks, ghostVars>>

(* SIG_IGN in place of SIG_DFL; then the directory is opened for CleanPorts. *)
IgnoreSigio(t) ==
    /\ pc[t] = "ignore"
    /\ LET p == ProcessOf[t] IN
          /\ sigio' = IF old[t] = "dfl" THEN [sigio EXCEPT ![p] = "ign"] ELSE sigio
          /\ handler' = IF old[t] = "dfl" /\ sigio[p] = "handler"
                        THEN [handler EXCEPT ![p] = "lost"] ELSE handler
    /\ entries' = [entries EXCEPT ![t] = {n \in Present : filterPortFiles(n)}]
    /\ Goto(t, "ports")
    /\ UNCHANGED <<fileVars, shmemCleanedUp, old, visiting, locks, left, killed>>

LockFile(n) == IF n = "port" THEN dir["port_el"] ELSE 0
Free(lock) ==
    \/ lock = 0
    \/ (\A h \in held : h.inode # lock) /\ (\A u \in Cleaners : locks[u] # lock)

(* What nobody has open, locked or leased.                                 *)
Stale == {n \in Present : ~InUse(n) /\ Free(LockFile(n)) /\ LeaseOn(dir[n]) = {}}

\* Mutant: the lock files only, without the lease.
CheckLockfiles(n) ==
    /\ dir[n] # 0 /\ Free(LockFile(n))
    /\ LeaseOn(dir[n]) = {}

(* True when the lock file was not there or could be locked, and nobody    *)
(* else has the base file open.                                            *)
CheckLockAll(n) ==
    /\ dir[n] # 0 /\ Free(LockFile(n))
    /\ ~InUse(n)
    /\ LeaseOn(dir[n]) = {}

(* CleanPorts and CleanSegments visit one entry: its locks and the lease   *)
(* are taken, or it is passed by.  The O_NONBLOCK open of a file another   *)
(* cleaner has leased fails, but SIGIO is sent.                            *)
VisitFile(t, n) ==
    /\ pc[t] \in {"ports", "segments"}
    /\ n \in entries[t]
    /\ IF CheckLockAll(n)
       THEN /\ entries' = [entries EXCEPT ![t] = @ \ {n}]
            /\ visiting' = [visiting EXCEPT ![t] = [name |-> n, inode |-> dir[n], next |-> pc[t]]]
            /\ locks' = [locks EXCEPT ![t] = LockFile(n)]
            /\ Goto(t, "remove")
            /\ UNCHANGED <<held, opening, sigio, handler, killed>>
       ELSE LET dead == IF dir[n] # 0 /\ Free(LockFile(n)) THEN BreakLeaseKills(dir[n]) ELSE {} IN
            /\ killed' = killed \cup dead
            /\ EndProcesses(dead, opening, [entries EXCEPT ![t] = @ \ {n}])
    /\ UNCHANGED <<dir, inodes, shmemCleanedUp, old, left>>

RemoveBase(t) ==
    /\ pc[t] = "remove"
    /\ dir' = [dir EXCEPT ![visiting[t].name] = 0]
    /\ Goto(t, "removeLocks")
    /\ UNCHANGED <<inodes, held, opening, sigio, shmemCleanedUp, old, entries, visiting, locks,
                   ghostVars>>

RemoveLocks(t) ==
    /\ pc[t] = "removeLocks"
    /\ dir' = IF visiting[t].name = "port" THEN [dir EXCEPT !["port_el"] = 0] ELSE dir
    /\ Goto(t, "release")
    /\ UNCHANGED <<inodes, held, opening, sigio, shmemCleanedUp, old, entries, visiting, locks,
                   ghostVars>>

ReleaseLocks(t) ==
    /\ pc[t] = "release"
    /\ locks' = [locks EXCEPT ![t] = 0]
    /\ visiting' = [visiting EXCEPT ![t] = NoVisit]
    /\ Goto(t, visiting[t].next)
    /\ UNCHANGED <<fileVars, sigio, shmemCleanedUp, old, entries, ghostVars>>

EndDirectory(t) ==
    /\ entries[t] = {}
    /\ \/ /\ pc[t] = "ports"
          /\ entries' = [entries EXCEPT ![t] = {n \in Present : filterSegments(n)}]
          /\ Goto(t, "segments")
       \/ /\ pc[t] = "segments"
          /\ Goto(t, IF old[t] = "dfl" THEN "restore" ELSE "semaphores")
          /\ UNCHANGED entries
    /\ UNCHANGED <<fileVars, sigio, shmemCleanedUp, old, visiting, locks, ghostVars>>

(* SIG_DFL again, and back to a handler that was registered meanwhile.     *)
RestoreSigio(t) ==
    /\ LET p == ProcessOf[t] IN
          \/ /\ pc[t] = "restore"
             /\ old' = [old EXCEPT ![t] = sigio[p]]
             /\ sigio' = [sigio EXCEPT ![p] = "dfl"]
             /\ Goto(t, IF sigio[p] = "ign" THEN "semaphores" ELSE "putBack")
          \/ /\ pc[t] = "putBack"
             /\ sigio' = [sigio EXCEPT ![p] = old[t]]
             /\ Goto(t, "semaphores")
             /\ UNCHANGED old
    /\ UNCHANGED <<fileVars, shmemCleanedUp, entries, visiting, locks, ghostVars>>

(* sem_open with O_EXCL but no O_CREAT opens any semaphore that is there.  *)
CleanSemaphores(t) ==
    /\ pc[t] = "semaphores"
    /\ dir' = [dir EXCEPT !["sem"] = 0]
    /\ left' = IF t \in disturbed THEN left ELSE [left EXCEPT ![t] = Stale \ {"sem"}]
    /\ Goto(t, "user")
    /\ UNCHANGED <<inodes, held, opening, sigio, shmemCleanedUp, old, entries, visiting, locks,
                   handler, killed>>

-----------------------------------------------------------------------------
(* The participant, Fast DDS: a port is opened or created, then its        *)
(* semaphore opened and its lock file locked.                              *)

(* A cleaner is between its check of the port and the end of its removal.  *)
Removing == \E t \in Cleaners : Leasing(t) /\ visiting[t].name = "port"
Hold(p, n, inode, raced) ==
    held' = held \cup {[process |-> p, name |-> n, inode |-> inode, raced |-> raced]}
Holds(p, n) == \E h \in held : h.process = p /\ h.name = n
UserThread(p) == \E t \in Cleaners : ProcessOf[t] = p /\ pc[t] = "user"

OpenOrCreate(p, n) ==
    /\ UserThread(p) /\ ~Holds(p, n) /\ opening[p] = 0
    /\ IF dir[n] = 0
       THEN /\ inodes < MaxInodes
            /\ inodes' = inodes + 1
            /\ dir' = [dir EXCEPT ![n] = inodes + 1]
            /\ Hold(p, n, inodes + 1, Removing)
       ELSE /\ Hold(p, n, dir[n], Removing)
            /\ UNCHANGED <<dir, inodes>>

OpenPort(p) ==
    \/ /\ LeaseOn(dir["port"]) = {} \/ dir["port"] = 0
       /\ OpenOrCreate(p, "port")
       /\ UNCHANGED <<opening, sigio, shmemCleanedUp, pc, old, entries, visiting, locks, ghostVars>>
    \/ /\ UserThread(p) /\ ~Holds(p, "port") /\ opening[p] = 0
       /\ dir["port"] # 0 /\ LeaseOn(dir["port"]) # {}
       /\ killed' = killed \cup BreakLeaseKills(dir["port"])
       /\ EndProcesses(BreakLeaseKills(dir["port"]), [opening EXCEPT ![p] = dir["port"]], entries)
       /\ UNCHANGED <<dir, inodes, shmemCleanedUp, old, left>>

(* The open that waited for the lease has the inode it had found.          *)
OpenResumes(p) ==
    /\ opening[p] # 0 /\ LeaseOn(opening[p]) = {}
    /\ Hold(p, "port", opening[p], TRUE)
    /\ opening' = [opening EXCEPT ![p] = 0]
    /\ UNCHANGED <<dir, inodes, sigio, shmemCleanedUp, pc, old, entries, visiting, locks, ghostVars>>

OpenPortFiles(p) ==
    /\ Holds(p, "port")
    /\ \/ OpenOrCreate(p, "sem")
       \/ /\ dir["port_el"] = 0 \/ Free(dir["port_el"])
          /\ OpenOrCreate(p, "port_el")
    /\ UNCHANGED <<opening, sigio, shmemCleanedUp, pc, old, entries, visiting, locks, ghostVars>>

(* The application registers a handler for SIGIO.                          *)
RegisterHandler(p) ==
    /\ \E t \in Cleaners : ProcessOf[t] = p /\ Alive(t)
    /\ p \in Registering /\ handler[p] = "none"
    /\ handler' = [handler EXCEPT ![p] = "kept"]
    /\ sigio' = [sigio EXCEPT ![p] = "handler"]
    /\ UNCHANGED <<fileVars, shmemCleanedUp, pc, old, entries, visiting, locks, left, killed>>

ShmCleanup(t) ==
    \/ TestFlag(t) \/ ReadDisposition(t) \/ IgnoreSigio(t)
    \/ \E n \in Names : VisitFile(t, n)
    \/ RemoveBase(t) \/ RemoveLocks(t) \/ ReleaseLocks(t)
    \/ EndDirectory(t) \/ RestoreSigio(t) \/ CleanSemaphores(t)
ShmUser(p) ==
    OpenPort(p) \/ OpenResumes(p) \/ OpenPortFiles(p) \/ RegisterHandler(p) \/ Exit(p)

(* Another thread acts, or is in the middle of a removal.                  *)
Disturb(actors) ==
    disturbed' = {u \in Cleaners :
                    /\ Cleaning(u) /\ Cleaning(u)'
                    /\ \/ u \in disturbed \/ u \notin actors
                       \/ \E v \in Cleaners \ {u} : Leasing(v)}
ShmNext ==
    \/ \E t \in Cleaners : ShmCleanup(t) /\ Disturb({t})
    \/ \E p \in Processes : ShmUser(p) /\ Disturb({})

ShmSpec == ShmInit /\ [][ShmNext]_shmVars
-----------------------------------------------------------------------------
Cleaned(t) == old[t] # "none"
SeveralCleaned(p) == \E t, u \in Cleaners : t # u /\ ProcessOf[t] = p /\ ProcessOf[u] = p
                                            /\ Cleaned(t) /\ Cleaned(u)

(* What a process has open or locked is still the file of that name for    *)
(* the next process, unless it was opened while a cleaner that had checked *)
(* the port was removing it.  Semaphores are unlinked in use or not.       *)
UsedFilesStayLinked ==
    \A h \in held : h.name = "sem" \/ h.raced \/ dir[h.name] = h.inode

(* No process dies of the SIGIO that its lease provokes, and the handler   *)
(* an application registers stays, unless two threads of the process ran   *)
(* ShmCleanup at once or it was registered between the check and SIG_IGN.  *)
SigioHarmless ==
    /\ \A p \in killed : SeveralCleaned(p)
    /\ \A p \in Processes : handler[p] = "kept" =>
          \/ sigio[p] = "handler" \/ SeveralCleaned(p)
          \/ \E t \in Cleaners : ProcessOf[t] = p /\ pc[t] = "putBack" /\ old[t] = "handler"

(* A cleaner that nobody disturbs leaves no port whose files nobody has    *)
(* open, locked or leased.                                                 *)
StalePortsRemoved == \A t \in Cleaners : "port" \notin left[t]

(* Cleaning leaves what is in use alone, does not harm its process and     *)
(* removes the ports nobody uses.                                          *)
CleanupIsHarmless == UsedFilesStayLinked /\ SigioHarmless /\ StalePortsRemoved
=============================================================================
