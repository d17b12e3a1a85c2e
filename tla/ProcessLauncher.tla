--------------------------- MODULE ProcessLauncher ---------------------------
(***************************************************************************)
(* The process launcher (ros2 apps/src/process_launcher/src/launcher.cpp): *)
(* it starts the configured applications, restarts them according to their *)
(* policy, monitors them, and terminates them on SIGINT.                   *)
(*                                                                         *)
(* One thread runs ProcessManager::run; the two signal handlers interrupt  *)
(* it between any two steps.  The kernel is external: fork picks any free  *)
(* pid (also one it used before) or fails, a child ends at any moment and  *)
(* stays a zombie until waitpid, and any number of exits raises the flag   *)
(* childDied once.                                                         *)
(***************************************************************************)
EXTENDS Integers, Sequences, Functions, FiniteSetsExt, SequencesExt

CONSTANTS
    Apps,             \* the configured applications
    Policy,           \* application -> its RestartPolicy
    Pids,             \* the pids the kernel hands out
    MaxExits,         \* bound on the children that end by themselves
    MaxForkFailures   \* bound on the failing forks

ASSUME LauncherAssumption ==
    /\ IsFiniteSet(Apps)
    /\ Policy \in [Apps -> {"ALWAYS", "ON_FAILURE", "NEVER"}]
    /\ Pids \subseteq Nat \ {0}
    /\ MaxExits \in Nat /\ MaxForkFailures \in Nat

ForkFailed == -1                              \* what fork returns then
Free       == [state |-> "free", app |-> "none", status |-> 0]

VARIABLES
    proc,          \* external: pid -> state of the process, its application, exit status
    exits,         \* children that ended by themselves so far
    forkFailures,  \* forks that failed so far
    pidMap,        \* pid -> application: ProcessManager's table
    lastProcTime,  \* pids with a recorded CPU time
    running,       \* cleared by sigintHandler
    childDied,     \* raised by sigchldHandler
    pc,            \* where run is
    toLaunch,      \* the applications launchAllApps has still to start
    app, status,   \* handleChildExit's application and exit status
    pidsLeft,      \* the pids cleanup has still to wait for
    starts,        \* application -> how often it was started
    failures       \* application -> how often it ended with a status other than 0

kernelVars == <<proc, exits, forkFailures>>
histVars   == <<starts, failures>>
vars == <<kernelVars, pidMap, lastProcTime, running, childDied, pc, toLaunch, app, status, pidsLeft,
          histVars>>

Init ==
    /\ proc         = [p \in Pids |-> Free]
    /\ exits        = 0
    /\ forkFailures = 0
    /\ pidMap       = <<>>
    /\ lastProcTime = {}
    /\ running      = TRUE
    /\ childDied    = FALSE
    /\ pc           = "launch"
    /\ toLaunch     \in {s \in [1 .. Cardinality(Apps) -> Apps] : IsInjective(s)}
    /\ app          = "none"
    /\ status       = 0
    /\ pidsLeft     = {}
    /\ starts       = [a \in Apps |-> 0]
    /\ failures     = [a \in Apps |-> 0]

-----------------------------------------------------------------------------
(* The kernel and the signal handlers.                                     *)

(* A child ends; SIGCHLD runs sigchldHandler. *)
ChildExits(p, s) ==
    /\ proc[p].state = "running"
    /\ exits < MaxExits
    /\ exits' = exits + 1
    /\ proc' = [proc EXCEPT ![p].state = "zombie", ![p].status = s]
    /\ childDied' = TRUE
    /\ failures' = IF s = 0 THEN failures ELSE [failures EXCEPT ![proc[p].app] = @ + 1]
    /\ UNCHANGED <<forkFailures, pidMap, lastProcTime, running, pc, toLaunch, app, status,
                   pidsLeft, starts>>

(* A child that was sent SIGTERM ends. *)
ChildTerminates(p) ==
    /\ proc[p].state = "terminated"
    /\ proc' = [proc EXCEPT ![p].state = "zombie", ![p].status = 1]
    /\ childDied' = TRUE
    /\ UNCHANGED <<exits, forkFailures, pidMap, lastProcTime, running, pc, toLaunch, app, status,
                   pidsLeft, histVars>>

SigintHandler ==
    /\ running
    /\ running' = FALSE
    /\ UNCHANGED <<kernelVars, pidMap, lastProcTime, childDied, pc, toLaunch, app, status,
                   pidsLeft, histVars>>

-----------------------------------------------------------------------------
(* startProcess: the child's entry is stored under whatever fork returned. *)

(* The table with an entry stored in it, which replaces the one there was. *)
StoreEntry(p, a) == [q \in DOMAIN pidMap \cup {p} |-> IF q = p THEN a ELSE pidMap[q]]

Forks(a) ==
    \E p \in Pids :
        /\ proc[p] = Free
        /\ proc'   = [proc EXCEPT ![p] = [state |-> "running", app |-> a, status |-> 0]]
        /\ pidMap' = StoreEntry(p, a)
        /\ starts' = [starts EXCEPT ![a] = @ + 1]
        /\ UNCHANGED forkFailures

ForkFails(a) ==
    /\ forkFailures < MaxForkFailures
    /\ forkFailures' = forkFailures + 1
    /\ pidMap' = StoreEntry(ForkFailed, a)
    /\ UNCHANGED <<proc, starts>>

StartProcess(a) == Forks(a) \/ ForkFails(a)

(* launchAllApps starts the next application, whatever the signal handlers *)
(* did meanwhile.                                                          *)
LaunchNext ==
    /\ pc = "launch"
    /\ toLaunch # <<>>
    /\ StartProcess(Head(toLaunch))
    /\ toLaunch' = Tail(toLaunch)
    /\ UNCHANGED <<exits, lastProcTime, running, childDied, pc, app, status, pidsLeft, failures>>

LaunchedAll ==
    /\ pc = "launch"
    /\ toLaunch = <<>>
    /\ pc' = "loop"
    /\ UNCHANGED <<kernelVars, pidMap, lastProcTime, running, childDied, toLaunch, app, status,
                   pidsLeft, histVars>>

-----------------------------------------------------------------------------
(* The main loop of run.                                                   *)

(* while(running), and handleChildExit's test of childDied. *)
CheckFlags ==
    /\ pc = "loop"
    /\ pc' = IF ~running THEN "kill" ELSE IF childDied THEN "reap" ELSE "monitor"
    /\ childDied' = (childDied /\ ~running)
    /\ UNCHANGED <<kernelVars, pidMap, lastProcTime, running, toLaunch, app, status, pidsLeft,
                   histVars>>

Zombies == {p \in Pids : proc[p].state = "zombie"}

\* Mutant: the entry of the ended child is kept.
ReapKeepingEntry ==
    /\ pc = "reap"
    /\ \/ /\ Zombies = {}
          /\ pc' = "monitor"
          /\ UNCHANGED <<proc, pidMap, app, status>>
       \/ \E p \in Zombies :
             /\ app'    = pidMap[p]
             /\ status' = proc[p].status
             /\ proc'   = [proc EXCEPT ![p] = Free]
             /\ pc'     = "decide"
             /\ UNCHANGED pidMap
    /\ UNCHANGED <<exits, forkFailures, lastProcTime, running, childDied, toLaunch, pidsLeft,
                   histVars>>

\* Mutant: one waitpid per signal instead of a loop.
ReapOne ==
    /\ pc = "reap"
    /\ \/ /\ Zombies = {} \/ app # "none"
          /\ pc' = "monitor"
          /\ app' = "none"
          /\ UNCHANGED <<proc, pidMap, status>>
       \/ \E p \in Zombies :
             /\ app = "none"
             /\ app'    = pidMap[p]
             /\ status' = proc[p].status
             /\ proc'   = [proc EXCEPT ![p] = Free]
             /\ pidMap' = Restrict(pidMap, DOMAIN pidMap \ {p})
             /\ pc'     = "decide"
    /\ UNCHANGED <<exits, forkFailures, lastProcTime, running, childDied, toLaunch, pidsLeft,
                   histVars>>

(* waitpid(-1, WNOHANG): reap some child and take its entry out of the     *)
(* table, or leave the loop when no child has ended.                       *)
Reap ==
    /\ pc = "reap"
    /\ \/ /\ Zombies = {}
          /\ pc' = "monitor"
          /\ UNCHANGED <<proc, pidMap, app, status>>
       \/ \E p \in Zombies :
             /\ app'    = pidMap[p]
             /\ status' = proc[p].status
             /\ proc'   = [proc EXCEPT ![p] = Free]
             /\ pidMap' = Restrict(pidMap, DOMAIN pidMap \ {p})
             /\ pc'     = "decide"
    /\ UNCHANGED <<exits, forkFailures, lastProcTime, running, childDied, toLaunch, pidsLeft,
                   histVars>>

\* Mutant: the exit status is not looked at.
RestartUnlessNever == Policy[app] # "NEVER"

ShouldRestart == Policy[app] = "ALWAYS" \/ (Policy[app] = "ON_FAILURE" /\ status # 0)

(* Restart it if its policy says so and running still holds. *)
Decide ==
    /\ pc = "decide"
    /\ pc' = IF ShouldRestart /\ running THEN "restart" ELSE "reap"
    /\ UNCHANGED <<kernelVars, pidMap, lastProcTime, running, childDied, toLaunch, app, status,
                   pidsLeft, histVars>>

Restart ==
    /\ pc = "restart"
    /\ StartProcess(app)
    /\ pc' = "reap"
    /\ UNCHANGED <<exits, lastProcTime, running, childDied, toLaunch, app, status, pidsLeft,
                   failures>>

(* Every pid of the table that kill(pid, 0) finds gets its CPU time        *)
(* recorded; entries of pids that are gone stay.                           *)
MonitorProcesses ==
    /\ pc = "monitor"
    /\ lastProcTime' = lastProcTime \cup DOMAIN pidMap
    /\ pc' = "loop"
    /\ UNCHANGED <<kernelVars, pidMap, running, childDied, toLaunch, app, status, pidsLeft,
                   histVars>>

-----------------------------------------------------------------------------
(* cleanup.                                                                *)

\* Mutant: the children are waited for without SIGTERM.
WaitWithoutKill ==
    /\ pc = "kill"
    /\ pidsLeft' = DOMAIN pidMap
    /\ pc' = "wait"
    /\ UNCHANGED <<kernelVars, pidMap, lastProcTime, running, childDied, toLaunch, app, status,
                   histVars>>

(* SIGTERM to every pid of the table; to -1 it goes to all processes. *)
KillAll ==
    /\ pc = "kill"
    /\ proc' = [p \in Pids |-> IF proc[p].state = "running"
                                  /\ ({p, ForkFailed} \cap DOMAIN pidMap # {})
                               THEN [proc[p] EXCEPT !.state = "terminated"] ELSE proc[p]]
    /\ pidsLeft' = DOMAIN pidMap
    /\ pc' = "wait"
    /\ UNCHANGED <<exits, forkFailures, pidMap, lastProcTime, running, childDied, toLaunch, app,
                   status, histVars>>

(* waitpid on each pid of the table in ascending order: it blocks until    *)
(* that child has ended, returns at once when there is no such child, and  *)
(* -1 stands for any child.                                                *)
WaitNext ==
    /\ pc = "wait"
    /\ pidsLeft # {}
    /\ LET next   == Min(pidsLeft)
           target == IF next = ForkFailed THEN {p \in Pids : proc[p] # Free}
                                          ELSE {p \in {next} : proc[p] # Free}
       IN  \/ /\ target = {}
              /\ pidsLeft' = pidsLeft \ {next}
              /\ UNCHANGED proc
           \/ \E p \in target \cap Zombies :
                 /\ pidsLeft' = pidsLeft \ {next}
                 /\ proc' = [proc EXCEPT ![p] = Free]
    /\ UNCHANGED <<exits, forkFailures, pidMap, lastProcTime, running, childDied, pc, toLaunch, app,
                   status, histVars>>

Exit ==
    /\ pc = "wait"
    /\ pidsLeft = {}
    /\ pc' = "done"
    /\ UNCHANGED <<kernelVars, pidMap, lastProcTime, running, childDied, toLaunch, app, status,
                   pidsLeft, histVars>>

-----------------------------------------------------------------------------
Run ==
    \/ LaunchNext \/ LaunchedAll
    \/ CheckFlags \/ Reap \/ Decide \/ Restart \/ MonitorProcesses
    \/ KillAll \/ WaitNext \/ Exit

Next ==
    \/ \E p \in Pids, s \in {0, 1} : ChildExits(p, s)
    \/ \E p \in Pids : ChildTerminates(p)
    \/ SigintHandler
    \/ Run

(* The launcher keeps running and children obey SIGTERM; children need not *)
(* end and SIGINT need not come.                                           *)
Spec ==
    /\ Init /\ [][Next]_vars
    /\ WF_vars(Run)
    /\ \A p \in Pids : WF_vars(ChildTerminates(p))

-----------------------------------------------------------------------------
(* The types of the launcher's and the kernel's state. *)
TypeOK ==
    /\ proc \in [Pids -> [state : {"free", "running", "terminated", "zombie"},
                          app : Apps \cup {"none"}, status : {0, 1}]]
    /\ exits \in 0 .. MaxExits
    /\ forkFailures \in 0 .. MaxForkFailures
    /\ DOMAIN pidMap \subseteq Pids \cup {ForkFailed}
    /\ Range(pidMap) \subseteq Apps
    /\ lastProcTime \subseteq Pids \cup {ForkFailed}
    /\ running \in BOOLEAN /\ childDied \in BOOLEAN
    /\ pc \in {"launch", "loop", "reap", "decide", "restart", "monitor", "kill", "wait", "done"}
    /\ toLaunch \in Seq(Apps)
    /\ app \in Apps \cup {"none"}
    /\ status \in {0, 1}
    /\ pidsLeft \subseteq Pids \cup {ForkFailed}
    /\ starts \in [Apps -> Nat]
    /\ failures \in [Apps -> Nat]

(* Until cleanup, the table and the kernel agree: every child that was not *)
(* reaped has its own entry, an entry other than the one of a failed fork  *)
(* names a child that was not reaped, although pids are used again, and no *)
(* application runs twice.                                                 *)
TableMatchesChildren ==
    pc \notin {"wait", "done"} =>
        /\ DOMAIN pidMap \ {ForkFailed} = {p \in Pids : proc[p] # Free}
        /\ \A p \in DOMAIN pidMap \ {ForkFailed} : pidMap[p] = proc[p].app
        /\ IsInjective(pidMap)

(* When the launcher exits, none of its children is left, running or as a  *)
(* zombie, even if SIGINT came while an application was being restarted or *)
(* launched.                                                               *)
NoChildLeftBehind == pc = "done" => \A p \in Pids : proc[p] = Free

(* An application with policy NEVER is started at most once, one with      *)
(* ON_FAILURE once more for each failure at most.                          *)
PolicyRespected ==
    \A a \in Apps :
        /\ Policy[a] = "NEVER" => starts[a] <= 1
        /\ Policy[a] = "ON_FAILURE" => starts[a] <= 1 + failures[a]

(* After SIGINT the launcher terminates, wherever it was interrupted. *)
ShutdownCompletes == ~running ~> pc = "done"

RunsApp(a) == \E p \in Pids : proc[p].app = a /\ proc[p].state = "running"
EndedToRestart(a) ==
    \E p \in Zombies : /\ proc[p].app = a
                       /\ \/ Policy[a] = "ALWAYS"
                          \/ Policy[a] = "ON_FAILURE" /\ proc[p].status # 0

(* An application that ended and is to be restarted runs again, unless the *)
(* launcher is shutting down or a fork failed.  The exits of several       *)
(* children may have raised childDied only once.                           *)
EndedAppRunsAgain ==
    \A a \in Apps : EndedToRestart(a) ~> RunsApp(a) \/ ~running \/ forkFailures > 0

(* The state is well typed, the table and the kernel agree, and no child   *)
(* outlives the launcher.                                                  *)
LauncherConsistent == TypeOK /\ TableMatchesChildren /\ NoChildLeftBehind
=============================================================================
