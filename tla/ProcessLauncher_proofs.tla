------------------------ MODULE ProcessLauncher_proofs ------------------------
(***************************************************************************)
(* Proofs about ProcessLauncher for every finite set of applications, all  *)
(* policies, every set of pids and every number of exits and failing       *)
(* forks: the launcher's table is right although pids are used again and   *)
(* signals come at any moment, no child outlives the launcher, and the     *)
(* restart policies are respected.                                         *)
(*                                                                         *)
(* The table is right only because an application is in one place: still   *)
(* to be launched, in the table, or in handleChildExit's hands.            *)
(* LauncherInv says so, and counts the restart that a failed child has     *)
(* earned against the failures from its end until it is restarted.         *)
(***************************************************************************)
EXTENDS ProcessLauncher, FiniteSetTheorems, TLAPS

ShuttingDown == pc \in {"wait", "done"}
InHand       == pc \in {"decide", "restart"}

ToBeLaunched(a) == \E n \in DOMAIN toLaunch : toLaunch[n] = a

(* An application is in one place, and SIGTERM is only sent by cleanup. *)
OnePlaceEach ==
    /\ IsInjective(toLaunch)
    /\ pc # "launch" => toLaunch = <<>>
    /\ \A a \in Apps : ToBeLaunched(a) => starts[a] = 0 /\ a \notin Range(pidMap)
    /\ InHand => app \in Apps /\ app \notin Range(pidMap)
    /\ \A p \in Pids : proc[p].state = "terminated" => ShuttingDown

(* cleanup has yet to wait for every child that is left. *)
LeftAreAwaited ==
    /\ pc = "wait" => {p \in Pids : proc[p] # Free} \subseteq pidsLeft
    /\ NoChildLeftBehind

FailedZombie(a) ==
    \E p \in Pids : proc[p].app = a /\ proc[p].state = "zombie" /\ proc[p].status # 0

(* A failed child of application a waits for handleChildExit to restart it.*)
Owed(a) ==
    \/ ~ShuttingDown /\ FailedZombie(a)
    \/ InHand /\ app = a /\ status # 0

RestartsEarned ==
    /\ \A a \in Apps :
          /\ Policy[a] = "NEVER" => starts[a] <= 1
          /\ Policy[a] = "ON_FAILURE" =>
                starts[a] + (IF Owed(a) THEN 1 ELSE 0) <= 1 + failures[a]
    /\ pc = "restart" => /\ Policy[app] # "NEVER"
                         /\ Policy[app] = "ON_FAILURE" => status # 0

LauncherInv == /\ TypeOK /\ TableMatchesChildren /\ OnePlaceEach /\ LeftAreAwaited
               /\ RestartsEarned

-----------------------------------------------------------------------------
(* The table.                                                              *)

(* Storing an entry for an application that has none. *)
LEMMA StoredEntry ==
    ASSUME NEW p, NEW a, a \notin Range(pidMap), IsInjective(pidMap), pidMap' = StoreEntry(p, a)
    PROVE  /\ DOMAIN pidMap' = DOMAIN pidMap \cup {p} /\ pidMap'[p] = a
           /\ \A q \in DOMAIN pidMap \ {p} : pidMap'[q] = pidMap[q]
           /\ Range(pidMap') \subseteq Range(pidMap) \cup {a}
           /\ IsInjective(pidMap')
<1>1. \A q \in DOMAIN pidMap : pidMap[q] \in Range(pidMap)
  BY DEF Range
<1>2. IsInjective(pidMap')
  BY <1>1 DEF StoreEntry, IsInjective
<1> QED BY <1>2 DEF StoreEntry, Range

(* Erasing an entry. *)
LEMMA EraseEntry ==
    ASSUME NEW f, NEW p \in DOMAIN f
    PROVE  LET g == Restrict(f, DOMAIN f \ {p})
           IN  /\ DOMAIN g = DOMAIN f \ {p}
               /\ \A q \in DOMAIN f \ {p} : g[q] = f[q]
               /\ Range(g) \subseteq Range(f)
               /\ IsInjective(f) => IsInjective(g) /\ f[p] \notin Range(g)
BY DEF Range, IsInjective, Restrict

(* No child is an application's that the table does not list. *)
LEMMA UnlistedHasNoChild ==
    ASSUME LauncherInv, ~ShuttingDown, NEW a \in Apps, a \notin Range(pidMap)
    PROVE  \A p \in Pids : proc[p] # Free => proc[p].app # a
<1> SUFFICES ASSUME NEW p \in Pids, proc[p] # Free PROVE proc[p].app # a
  OBVIOUS
<1>1. p # ForkFailed
  BY LauncherAssumption DEF ForkFailed
<1>2. p \in DOMAIN pidMap /\ pidMap[p] = proc[p].app
  BY <1>1 DEF LauncherInv, TableMatchesChildren, ShuttingDown
<1> QED BY <1>2 DEF Range

(* What startProcess does for an application that is in no other place.    *)
LEMMA StartEffect ==
    ASSUME LauncherInv, ~ShuttingDown, NEW a \in Apps, a \notin Range(pidMap), StartProcess(a)
    PROVE  /\ proc' \in [Pids -> [state : {"free", "running", "terminated", "zombie"},
                                  app : Apps \cup {"none"}, status : {0, 1}]]
           /\ forkFailures' \in 0 .. MaxForkFailures
           /\ starts' = starts \/ starts' = [starts EXCEPT ![a] = @ + 1]
           /\ \A p \in Pids : proc'[p] = proc[p] \/ proc'[p].state = "running"
           /\ DOMAIN pidMap' \subseteq Pids \cup {ForkFailed}
           /\ Range(pidMap') \subseteq Range(pidMap) \cup {a}
           /\ DOMAIN pidMap' \ {ForkFailed} = {p \in Pids : proc'[p] # Free}
           /\ \A p \in DOMAIN pidMap' \ {ForkFailed} : pidMap'[p] = proc'[p].app
           /\ IsInjective(pidMap')
<1>1. /\ DOMAIN pidMap \ {ForkFailed} = {p \in Pids : proc[p] # Free}
      /\ \A p \in DOMAIN pidMap \ {ForkFailed} : pidMap[p] = proc[p].app
      /\ IsInjective(pidMap) /\ DOMAIN pidMap \subseteq Pids \cup {ForkFailed}
  BY DEF LauncherInv, TableMatchesChildren, ShuttingDown, TypeOK
<1>2. ForkFailed \notin Pids
  BY LauncherAssumption DEF ForkFailed
<1>3. CASE Forks(a)
  <2>1. PICK p \in Pids :
          /\ proc[p] = Free
          /\ proc' = [proc EXCEPT ![p] = [state |-> "running", app |-> a, status |-> 0]]
          /\ pidMap' = StoreEntry(p, a)
          /\ starts' = [starts EXCEPT ![a] = @ + 1]
          /\ UNCHANGED forkFailures
    BY <1>3 DEF Forks
  <2>2. proc \in [Pids -> [state : {"free", "running", "terminated", "zombie"},
                           app : Apps \cup {"none"}, status : {0, 1}]]
    BY DEF LauncherInv, TypeOK
  <2>3. /\ proc'[p].state = "running" /\ proc'[p].app = a /\ proc'[p] # Free
        /\ \A q \in Pids \ {p} : proc'[q] = proc[q]
    BY <2>1, <2>2 DEF Free
  <2>4. /\ DOMAIN pidMap' = DOMAIN pidMap \cup {p} /\ pidMap'[p] = a
        /\ \A q \in DOMAIN pidMap \ {p} : pidMap'[q] = pidMap[q]
        /\ Range(pidMap') \subseteq Range(pidMap) \cup {a}
        /\ IsInjective(pidMap')
    <3>1. pidMap' = StoreEntry(p, a) /\ IsInjective(pidMap)
      BY <1>1, <2>1
    <3> QED BY <3>1, StoredEntry
  <2>5. proc' \in [Pids -> [state : {"free", "running", "terminated", "zombie"},
                            app : Apps \cup {"none"}, status : {0, 1}]]
    BY <2>1, <2>2
  <2>6. DOMAIN pidMap' \ {ForkFailed} = {q \in Pids : proc'[q] # Free}
    BY <1>1, <1>2, <2>3, <2>4
  <2>7. \A q \in DOMAIN pidMap' \ {ForkFailed} : pidMap'[q] = proc'[q].app
    BY <1>1, <1>2, <2>3, <2>4
  <2>8. forkFailures' \in 0 .. MaxForkFailures
    BY <2>1 DEF LauncherInv, TypeOK
  <2> QED BY <1>1, <2>1, <2>3, <2>4, <2>5, <2>6, <2>7, <2>8
<1>4. CASE ForkFails(a)
  <2>1. /\ DOMAIN pidMap' = DOMAIN pidMap \cup {ForkFailed}
        /\ \A q \in DOMAIN pidMap \ {ForkFailed} : pidMap'[q] = pidMap[q]
        /\ Range(pidMap') \subseteq Range(pidMap) \cup {a}
        /\ IsInjective(pidMap')
    <3>1. pidMap' = StoreEntry(ForkFailed, a) /\ IsInjective(pidMap)
      BY <1>1, <1>4 DEF ForkFails
    <3> QED BY <3>1, StoredEntry
  <2>2. proc' = proc /\ starts' = starts
    BY <1>4 DEF ForkFails
  <2>3. forkFailures' \in 0 .. MaxForkFailures
    BY <1>4, LauncherAssumption DEF ForkFails, LauncherInv, TypeOK
  <2> QED BY <1>1, <2>1, <2>2, <2>3 DEF LauncherInv, TypeOK
<1> QED BY <1>3, <1>4 DEF StartProcess

-----------------------------------------------------------------------------
(* Each action preserves the invariant.                                    *)

(* launchAllApps starts an application for the first time. *)
LEMMA LaunchNextStep ==
    ASSUME LauncherInv, LaunchNext
    PROVE  LauncherInv'
<1> DEFINE a == Head(toLaunch)
<1>1. /\ toLaunch \in Seq(Apps) /\ toLaunch # <<>> /\ toLaunch' = Tail(toLaunch)
      /\ pc = "launch" /\ StartProcess(a)
      /\ UNCHANGED <<exits, lastProcTime, running, childDied, pc, app, status, pidsLeft, failures>>
  BY DEF LauncherInv, TypeOK, LaunchNext
<1>2. /\ a \in Apps /\ a = toLaunch[1] /\ 1 \in DOMAIN toLaunch /\ toLaunch' \in Seq(Apps)
      /\ \A n \in DOMAIN toLaunch' : /\ n + 1 \in DOMAIN toLaunch /\ n + 1 # 1
                                     /\ toLaunch'[n] = toLaunch[n + 1]
      /\ \A m, n \in DOMAIN toLaunch' : m + 1 = n + 1 => m = n
  BY <1>1
<1>3. ToBeLaunched(a) /\ starts[a] = 0 /\ a \notin Range(pidMap)
  BY <1>2 DEF ToBeLaunched, LauncherInv, OnePlaceEach
<1>4. ~ShuttingDown /\ ~ShuttingDown' /\ ~InHand /\ ~InHand'
  BY <1>1 DEF ShuttingDown, InHand
<1>5. \A b \in Apps : ToBeLaunched(b)' => ToBeLaunched(b) /\ b # a
  BY <1>2 DEF ToBeLaunched, LauncherInv, OnePlaceEach, IsInjective
<1> HIDE DEF a
<1>6. TypeOK'
  <2>1. starts' \in [Apps -> Nat]
    BY <1>1, <1>2, <1>3, <1>4, StartEffect DEF LauncherInv, TypeOK
  <2> QED BY <1>1, <1>2, <1>3, <1>4, <2>1, StartEffect DEF LauncherInv, TypeOK
<1>7. TableMatchesChildren'
  BY <1>1, <1>2, <1>3, <1>4, StartEffect DEF TableMatchesChildren
<1>8. OnePlaceEach'
  <2>1. IsInjective(toLaunch')
    BY <1>2 DEF LauncherInv, OnePlaceEach, IsInjective
  <2>2. \A b \in Apps : ToBeLaunched(b)' => starts'[b] = 0 /\ b \notin Range(pidMap')
    <3>1. /\ starts' = starts \/ starts' = [starts EXCEPT ![a] = @ + 1]
          /\ Range(pidMap') \subseteq Range(pidMap) \cup {a}
      BY <1>1, <1>2, <1>3, <1>4, StartEffect
    <3>2. \A b \in Apps : b # a => starts'[b] = starts[b]
      BY <3>1 DEF LauncherInv, TypeOK
    <3> QED BY <1>5, <3>1, <3>2 DEF LauncherInv, OnePlaceEach
  <2>3. \A p \in Pids : proc'[p].state # "terminated"
    BY <1>1, <1>2, <1>3, <1>4, StartEffect DEF LauncherInv, OnePlaceEach
  <2> QED BY <1>1, <1>4, <2>1, <2>2, <2>3 DEF OnePlaceEach
<1>9. LeftAreAwaited'
  BY <1>1 DEF LeftAreAwaited, NoChildLeftBehind
<1>10. RestartsEarned'
  <2>1. \A b \in Apps : Owed(b)' => Owed(b) /\ b # a
    <3> SUFFICES ASSUME NEW b \in Apps, Owed(b)' PROVE Owed(b) /\ b # a
      OBVIOUS
    <3>1. PICK p \in Pids : proc'[p].app = b /\ proc'[p].state = "zombie" /\ proc'[p].status # 0
      BY <1>4 DEF Owed, FailedZombie
    <3>2. proc'[p] = proc[p] /\ proc[p] # Free
      BY <1>1, <1>2, <1>3, <1>4, <3>1, StartEffect DEF Free
    <3>3. proc[p].app # a
      BY <1>2, <1>3, <1>4, <3>2, UnlistedHasNoChild
    <3> QED BY <1>4, <3>1, <3>2, <3>3 DEF Owed, FailedZombie
  <2>2. \A b \in Apps : /\ b # a => starts'[b] = starts[b]
                        /\ starts'[b] \in Nat /\ starts[b] \in Nat /\ failures[b] \in Nat
                        /\ b = a => starts'[b] <= 1
    <3>1. starts' = starts \/ starts' = [starts EXCEPT ![a] = @ + 1]
      BY <1>1, <1>2, <1>3, <1>4, StartEffect
    <3>2. starts \in [Apps -> Nat] /\ failures \in [Apps -> Nat]
      BY DEF LauncherInv, TypeOK
    <3> QED BY <1>2, <1>3, <3>1, <3>2
  <2> QED BY <1>1, <2>1, <2>2 DEF LauncherInv, RestartsEarned
<1> QED BY <1>6, <1>7, <1>8, <1>9, <1>10 DEF LauncherInv

(* handleChildExit starts the application it holds again. *)
LEMMA RestartStep ==
    ASSUME LauncherInv, Restart
    PROVE  LauncherInv'
<1>1. /\ pc = "restart" /\ pc' = "reap" /\ StartProcess(app)
      /\ UNCHANGED <<exits, lastProcTime, running, childDied, toLaunch, app, status, pidsLeft,
                     failures>>
  BY DEF Restart
<1>2. /\ app \in Apps /\ app \notin Range(pidMap) /\ toLaunch = <<>>
      /\ Policy[app] # "NEVER" /\ (Policy[app] = "ON_FAILURE" => status # 0)
  BY <1>1 DEF LauncherInv, OnePlaceEach, RestartsEarned, InHand
<1>3. ~ShuttingDown /\ ~ShuttingDown' /\ InHand /\ ~InHand'
  BY <1>1 DEF ShuttingDown, InHand
<1>4. TypeOK'
  <2>1. starts' \in [Apps -> Nat]
    BY <1>1, <1>2, <1>3, StartEffect DEF LauncherInv, TypeOK
  <2> QED BY <1>1, <1>2, <1>3, <2>1, StartEffect DEF LauncherInv, TypeOK
<1>5. TableMatchesChildren'
  BY <1>1, <1>2, <1>3, StartEffect DEF TableMatchesChildren
<1>6. OnePlaceEach'
  <2>1. \A b \in Apps : ~ToBeLaunched(b)'
    BY <1>1, <1>2 DEF ToBeLaunched
  <2>2. \A p \in Pids : proc'[p].state # "terminated"
    BY <1>1, <1>2, <1>3, StartEffect DEF LauncherInv, OnePlaceEach
  <2> QED BY <1>1, <1>2, <1>3, <2>1, <2>2 DEF LauncherInv, OnePlaceEach
<1>7. LeftAreAwaited'
  BY <1>1 DEF LeftAreAwaited, NoChildLeftBehind
<1>8. RestartsEarned'
  <2>1. \A b \in Apps : Owed(b)' => Owed(b) /\ b # app
    <3> SUFFICES ASSUME NEW b \in Apps, Owed(b)' PROVE Owed(b) /\ b # app
      OBVIOUS
    <3>1. PICK p \in Pids : proc'[p].app = b /\ proc'[p].state = "zombie" /\ proc'[p].status # 0
      BY <1>3 DEF Owed, FailedZombie
    <3>2. proc'[p] = proc[p] /\ proc[p] # Free
      BY <1>1, <1>2, <1>3, <3>1, StartEffect DEF Free
    <3>3. proc[p].app # app
      BY <1>2, <1>3, <3>2, UnlistedHasNoChild
    <3> QED BY <1>3, <3>1, <3>2, <3>3 DEF Owed, FailedZombie
  <2>2. \A b \in Apps : /\ b # app => starts'[b] = starts[b]
                        /\ starts'[b] \in Nat /\ starts[b] \in Nat /\ failures[b] \in Nat
                        /\ b = app => starts'[b] <= starts[b] + 1
    BY <1>1, <1>2, <1>3, StartEffect DEF LauncherInv, TypeOK
  <2>3. Policy[app] = "ON_FAILURE" => Owed(app)
    BY <1>2, <1>3 DEF Owed
  <2> QED BY <1>1, <1>2, <2>1, <2>2, <2>3 DEF LauncherInv, RestartsEarned
<1> QED BY <1>4, <1>5, <1>6, <1>7, <1>8 DEF LauncherInv

(* A child ends by itself. *)
LEMMA ChildExitsStep ==
    ASSUME LauncherInv, NEW p \in Pids, NEW s \in {0, 1}, ChildExits(p, s)
    PROVE  LauncherInv'
<1> DEFINE Process == [state : {"free", "running", "terminated", "zombie"},
                       app : Apps \cup {"none"}, status : {0, 1}]
<1>1. /\ proc \in [Pids -> Process] /\ proc[p].state = "running"
      /\ proc' = [proc EXCEPT ![p].state = "zombie", ![p].status = s]
      /\ failures' = IF s = 0 THEN failures ELSE [failures EXCEPT ![proc[p].app] = @ + 1]
      /\ UNCHANGED <<forkFailures, pidMap, lastProcTime, running, pc, toLaunch, app, status,
                     pidsLeft, starts>>
  BY DEF LauncherInv, TypeOK, ChildExits
<1>2. /\ proc' \in [Pids -> Process]
      /\ proc'[p].app = proc[p].app /\ proc'[p].state = "zombie" /\ proc'[p].status = s
      /\ \A q \in Pids \ {p} : proc'[q] = proc[q]
      /\ proc[p] # Free /\ proc'[p] # Free
  <2>1. /\ proc'[p] = [proc[p] EXCEPT !.state = "zombie", !.status = s]
        /\ proc[p] \in Process /\ \A q \in Pids \ {p} : proc'[q] = proc[q]
    BY <1>1
  <2>2. /\ proc'[p] \in Process
        /\ proc'[p].app = proc[p].app /\ proc'[p].state = "zombie" /\ proc'[p].status = s
    BY <2>1
  <2>3. proc' \in [Pids -> Process]
    BY <1>1, <2>2
  <2>4. Free.state = "free"
    BY DEF Free
  <2>5. proc[p] # Free /\ proc'[p] # Free
    BY <1>1, <2>2, <2>4
  <2> QED BY <2>1, <2>2, <2>3, <2>5
<1>3. TypeOK'
  <2>1. exits' \in 0 .. MaxExits /\ childDied' \in BOOLEAN
    BY LauncherAssumption DEF ChildExits, LauncherInv, TypeOK
  <2>2. failures' \in [Apps -> Nat]
    <3>1. failures \in [Apps -> Nat]
      BY DEF LauncherInv, TypeOK
    <3>2. failures' = failures \/ failures' = [failures EXCEPT ![proc[p].app] = @ + 1]
      BY <1>1
    <3>3. \A a : [failures EXCEPT ![a] = @ + 1] \in [Apps -> Nat]
      <4> SUFFICES ASSUME NEW a PROVE [failures EXCEPT ![a] = @ + 1] \in [Apps -> Nat]
        OBVIOUS
      <4> DEFINE g == [failures EXCEPT ![a] = @ + 1]
      <4>1. g = [b \in Apps |-> IF b = a THEN failures[b] + 1 ELSE failures[b]]
        BY <3>1
      <4>2. \A b \in Apps : (IF b = a THEN failures[b] + 1 ELSE failures[b]) \in Nat
        BY <3>1
      <4> QED BY <4>1, <4>2
    <3> QED BY <3>1, <3>2, <3>3
  <2> QED BY <1>1, <1>2, <2>1, <2>2 DEF LauncherInv, TypeOK
<1> HIDE DEF Process
<1>4. \A q \in Pids : (proc'[q] = Free <=> proc[q] = Free) /\ proc'[q].app = proc[q].app
  BY <1>2
<1>5. TableMatchesChildren'
  <2>1. ForkFailed \notin Pids
    BY LauncherAssumption DEF ForkFailed
  <2> QED BY <1>1, <1>4, <2>1 DEF LauncherInv, TableMatchesChildren
<1>6. OnePlaceEach'
  <2>1. \A q \in Pids : proc'[q].state = "terminated" => proc[q].state = "terminated"
    BY <1>2
  <2> QED BY <1>1, <2>1 DEF LauncherInv, OnePlaceEach, ToBeLaunched, InHand, ShuttingDown
<1>7. LeftAreAwaited'
  BY <1>1, <1>4 DEF LauncherInv, LeftAreAwaited, NoChildLeftBehind
<1>8. RestartsEarned'
  <2>1. \A a \in Apps : Owed(a)' => Owed(a) \/ (a = proc[p].app /\ s # 0)
    BY <1>1, <1>2 DEF Owed, FailedZombie, InHand, ShuttingDown
  <2>2. \A a \in Apps : /\ failures[a] \in Nat /\ failures'[a] \in Nat /\ starts[a] \in Nat
                        /\ failures[a] <= failures'[a]
                        /\ a = proc[p].app /\ s # 0 => failures'[a] = failures[a] + 1
    BY <1>1 DEF LauncherInv, TypeOK
  <2> QED BY <1>1, <2>1, <2>2 DEF LauncherInv, RestartsEarned
<1> QED BY <1>3, <1>5, <1>6, <1>7, <1>8 DEF LauncherInv

(* A child that cleanup sent SIGTERM ends. *)
LEMMA ChildTerminatesStep ==
    ASSUME LauncherInv, NEW p \in Pids, ChildTerminates(p)
    PROVE  LauncherInv'
<1> DEFINE Process == [state : {"free", "running", "terminated", "zombie"},
                       app : Apps \cup {"none"}, status : {0, 1}]
<1>1. /\ proc \in [Pids -> Process] /\ proc[p].state = "terminated"
      /\ proc' = [proc EXCEPT ![p].state = "zombie", ![p].status = 1]
      /\ UNCHANGED <<exits, forkFailures, pidMap, lastProcTime, running, pc, toLaunch, app, status,
                     pidsLeft, starts, failures>>
  BY DEF LauncherInv, TypeOK, ChildTerminates, histVars
<1>2. /\ proc' \in [Pids -> Process]
      /\ \A q \in Pids \ {p} : proc'[q] = proc[q]
      /\ proc'[p].state = "zombie" /\ proc[p] # Free /\ proc'[p] # Free
  <2>1. /\ proc'[p] = [proc[p] EXCEPT !.state = "zombie", !.status = 1]
        /\ proc[p] \in Process /\ \A q \in Pids \ {p} : proc'[q] = proc[q]
    BY <1>1
  <2>2. proc'[p] \in Process /\ proc'[p].state = "zombie"
    BY <2>1
  <2>3. proc' \in [Pids -> Process]
    BY <1>1, <2>2
  <2>4. Free.state = "free"
    BY DEF Free
  <2>5. proc[p] # Free /\ proc'[p] # Free
    BY <1>1, <2>2, <2>4
  <2> QED BY <2>1, <2>2, <2>3, <2>5
<1>3. ShuttingDown /\ ShuttingDown' /\ ~InHand'
  BY <1>1 DEF LauncherInv, OnePlaceEach, ShuttingDown, InHand
<1>4. TypeOK'
  BY <1>1, <1>2 DEF LauncherInv, TypeOK, ChildTerminates
<1> HIDE DEF Process
<1>5. TableMatchesChildren'
  BY <1>3 DEF TableMatchesChildren, ShuttingDown
<1>6. OnePlaceEach'
  BY <1>1, <1>3 DEF LauncherInv, OnePlaceEach, ToBeLaunched
<1>7. LeftAreAwaited'
  BY <1>1, <1>2 DEF LauncherInv, LeftAreAwaited, NoChildLeftBehind
<1>8. RestartsEarned'
  <2>1. \A a \in Apps : ~Owed(a)'
    BY <1>3 DEF Owed
  <2>2. \A a \in Apps : starts[a] \in Nat /\ failures[a] \in Nat
    BY DEF LauncherInv, TypeOK
  <2> QED BY <1>1, <2>1, <2>2 DEF LauncherInv, RestartsEarned
<1> QED BY <1>4, <1>5, <1>6, <1>7, <1>8 DEF LauncherInv

(* waitpid reaps a child, whose application is then in handleChildExit's   *)
(* hands and no longer in the table.                                       *)
LEMMA ReapStep ==
    ASSUME LauncherInv, Reap
    PROVE  LauncherInv'
<1>1. /\ pc = "reap" /\ toLaunch = <<>> /\ ~ShuttingDown /\ ~InHand
      /\ UNCHANGED <<exits, forkFailures, lastProcTime, running, childDied, toLaunch, pidsLeft,
                     starts, failures>>
  BY DEF LauncherInv, OnePlaceEach, Reap, histVars, ShuttingDown, InHand
<1>2. \A a \in Apps : ~ToBeLaunched(a) /\ ~ToBeLaunched(a)'
  BY <1>1 DEF ToBeLaunched
<1>3. CASE UNCHANGED <<proc, pidMap, app, status>> /\ pc' = "monitor"
  <2>1. TypeOK' /\ TableMatchesChildren' /\ LeftAreAwaited'
    BY <1>1, <1>3 DEF LauncherInv, TypeOK, TableMatchesChildren, LeftAreAwaited, NoChildLeftBehind
  <2>2. OnePlaceEach'
    BY <1>1, <1>2, <1>3 DEF LauncherInv, OnePlaceEach, InHand, ShuttingDown
  <2>3. \A a \in Apps : Owed(a)' => Owed(a)
    BY <1>1, <1>3 DEF Owed, FailedZombie, InHand, ShuttingDown
  <2>4. RestartsEarned'
    BY <1>1, <1>3, <2>3 DEF LauncherInv, TypeOK, RestartsEarned
  <2> QED BY <2>1, <2>2, <2>4 DEF LauncherInv
<1>4. ASSUME NEW p \in Zombies,
             app' = pidMap[p], status' = proc[p].status, proc' = [proc EXCEPT ![p] = Free],
             pidMap' = Restrict(pidMap, DOMAIN pidMap \ {p}), pc' = "decide"
      PROVE  LauncherInv'
  <2> DEFINE Process == [state : {"free", "running", "terminated", "zombie"},
                         app : Apps \cup {"none"}, status : {0, 1}]
  <2>1. /\ p \in Pids /\ proc[p].state = "zombie" /\ proc \in [Pids -> Process]
        /\ proc[p] # Free /\ ForkFailed \notin Pids
    BY LauncherAssumption DEF Zombies, LauncherInv, TypeOK, Free, ForkFailed
  <2>2. /\ DOMAIN pidMap \ {ForkFailed} = {q \in Pids : proc[q] # Free}
        /\ \A q \in DOMAIN pidMap \ {ForkFailed} : pidMap[q] = proc[q].app
        /\ IsInjective(pidMap) /\ p \in DOMAIN pidMap
    BY <1>1, <2>1 DEF LauncherInv, TableMatchesChildren
  <2>3. /\ DOMAIN pidMap' = DOMAIN pidMap \ {p}
        /\ \A q \in DOMAIN pidMap \ {p} : pidMap'[q] = pidMap[q]
        /\ Range(pidMap') \subseteq Range(pidMap)
        /\ IsInjective(pidMap') /\ pidMap[p] \notin Range(pidMap')
    BY <1>4, <2>2, EraseEntry
  <2>4. app' \in Apps /\ app' = proc[p].app /\ status' \in {0, 1}
    BY <1>4, <2>1, <2>2 DEF LauncherInv, TypeOK, Range
  <2>5. /\ proc' \in [Pids -> Process] /\ proc'[p] = Free
        /\ \A q \in Pids \ {p} : proc'[q] = proc[q]
    BY <1>4, <2>1 DEF Free
  <2>6. TypeOK'
    BY <1>1, <1>4, <2>3, <2>4, <2>5 DEF LauncherInv, TypeOK
  <2> HIDE DEF Process
  <2>7. TableMatchesChildren'
    BY <2>1, <2>2, <2>3, <2>5 DEF TableMatchesChildren
  <2>8. OnePlaceEach'
    <3>1. \A q \in Pids : proc'[q].state # "terminated"
      BY <1>1, <2>5 DEF LauncherInv, OnePlaceEach, Free
    <3> QED BY <1>1, <1>2, <1>4, <2>3, <2>4, <3>1 DEF LauncherInv, OnePlaceEach
  <2>9. LeftAreAwaited'
    BY <1>4 DEF LeftAreAwaited, NoChildLeftBehind
  <2>10. RestartsEarned'
    <3>1. \A a \in Apps : Owed(a)' => Owed(a)
      <4>1. \A q \in Pids : proc'[q].state = "zombie" => proc'[q] = proc[q]
        BY <2>5 DEF Free
      <4> QED BY <1>1, <1>4, <2>1, <2>4, <4>1 DEF Owed, FailedZombie
    <3> QED BY <1>1, <1>4, <3>1 DEF LauncherInv, TypeOK, RestartsEarned
  <2> QED BY <2>6, <2>7, <2>8, <2>9, <2>10 DEF LauncherInv
<1> QED BY <1>3, <1>4 DEF Reap

(* handleChildExit decides; only what its policy lets restart is restarted.*)
LEMMA DecideStep ==
    ASSUME LauncherInv, Decide
    PROVE  LauncherInv'
<1>1. /\ pc = "decide" /\ pc' \in {"restart", "reap"} /\ (pc' = "restart" => ShouldRestart)
      /\ UNCHANGED <<proc, exits, forkFailures, pidMap, lastProcTime, running, childDied, toLaunch,
                     app, status, pidsLeft, starts, failures>>
  BY DEF Decide, kernelVars, histVars
<1>2. TypeOK' /\ TableMatchesChildren' /\ LeftAreAwaited'
  BY <1>1 DEF LauncherInv, TypeOK, TableMatchesChildren, LeftAreAwaited, NoChildLeftBehind
<1>3. OnePlaceEach'
  BY <1>1 DEF LauncherInv, OnePlaceEach, ToBeLaunched, InHand, ShuttingDown
<1>4. RestartsEarned'
  <2>1. \A a \in Apps : Owed(a)' => Owed(a)
    BY <1>1 DEF Owed, FailedZombie, InHand, ShuttingDown
  <2> QED BY <1>1, <2>1 DEF LauncherInv, TypeOK, RestartsEarned, ShouldRestart
<1> QED BY <1>2, <1>3, <1>4 DEF LauncherInv

(* The steps of run that start and reap nothing, and SIGINT. *)
LEMMA QuietStep ==
    ASSUME LauncherInv, SigintHandler \/ LaunchedAll \/ CheckFlags \/ MonitorProcesses
    PROVE  LauncherInv'
<1>1. /\ UNCHANGED <<proc, exits, forkFailures, pidMap, toLaunch, app, status, pidsLeft, starts,
                     failures>>
      /\ \/ pc' = pc /\ lastProcTime' = lastProcTime
         \/ /\ pc \in {"launch", "loop", "monitor"} /\ pc' \in {"loop", "kill", "reap", "monitor"}
            /\ pc = "launch" => toLaunch = <<>>
            /\ lastProcTime' \subseteq lastProcTime \cup DOMAIN pidMap
      /\ running' \in BOOLEAN /\ childDied' \in BOOLEAN
  BY DEF LauncherInv, TypeOK, SigintHandler, LaunchedAll, CheckFlags, MonitorProcesses, kernelVars,
         histVars
<1>2. TypeOK'
  BY <1>1 DEF LauncherInv, TypeOK
<1>3. TableMatchesChildren' /\ LeftAreAwaited'
  BY <1>1 DEF LauncherInv, TableMatchesChildren, LeftAreAwaited, NoChildLeftBehind
<1>4. OnePlaceEach'
  BY <1>1 DEF LauncherInv, OnePlaceEach, ToBeLaunched, InHand, ShuttingDown
<1>5. RestartsEarned'
  <2>1. \A a \in Apps : Owed(a)' => Owed(a)
    BY <1>1 DEF Owed, FailedZombie, InHand, ShuttingDown
  <2> QED BY <1>1, <2>1 DEF LauncherInv, TypeOK, RestartsEarned
<1> QED BY <1>2, <1>3, <1>4, <1>5 DEF LauncherInv

(* cleanup sends SIGTERM, and has every child's pid to wait for. *)
LEMMA KillAllStep ==
    ASSUME LauncherInv, KillAll
    PROVE  LauncherInv'
<1> DEFINE Process == [state : {"free", "running", "terminated", "zombie"},
                       app : Apps \cup {"none"}, status : {0, 1}]
<1>1. /\ pc = "kill" /\ pc' = "wait" /\ pidsLeft' = DOMAIN pidMap /\ proc \in [Pids -> Process]
      /\ UNCHANGED <<exits, forkFailures, pidMap, lastProcTime, running, childDied, toLaunch, app,
                     status, starts, failures>>
  BY DEF LauncherInv, TypeOK, KillAll, histVars
<1>2. \A p \in Pids : \/ proc'[p] = proc[p]
                     \/ /\ proc[p].state = "running"
                        /\ proc'[p] = [proc[p] EXCEPT !.state = "terminated"]
  BY DEF KillAll
<1>3. \A p \in Pids : proc'[p] \in Process /\ (proc'[p] # Free => proc[p] # Free)
  <2> SUFFICES ASSUME NEW p \in Pids
               PROVE  proc'[p] \in Process /\ (proc'[p] # Free => proc[p] # Free)
    OBVIOUS
  <2>1. proc[p] \in Process
    BY <1>1
  <2>2. CASE proc'[p] = [proc[p] EXCEPT !.state = "terminated"] /\ proc[p].state = "running"
    BY <2>1, <2>2 DEF Free
  <2> QED BY <1>2, <2>1, <2>2
<1>4. proc' = [p \in Pids |-> proc'[p]]
  BY DEF KillAll
<1>5. proc' \in [Pids -> Process]
  BY <1>3, <1>4
<1>6. TypeOK'
  BY <1>1, <1>5 DEF LauncherInv, TypeOK
<1> HIDE DEF Process
<1>7. TableMatchesChildren'
  BY <1>1 DEF TableMatchesChildren
<1>8. OnePlaceEach'
  BY <1>1 DEF LauncherInv, OnePlaceEach, ToBeLaunched, InHand, ShuttingDown
<1>9. LeftAreAwaited'
  BY <1>1, <1>3 DEF LauncherInv, TableMatchesChildren, LeftAreAwaited, NoChildLeftBehind
<1>10. RestartsEarned'
  <2>1. \A a \in Apps : ~Owed(a)'
    BY <1>1 DEF Owed, InHand, ShuttingDown
  <2>2. \A a \in Apps : starts[a] \in Nat /\ failures[a] \in Nat
    BY DEF LauncherInv, TypeOK
  <2> QED BY <1>1, <2>1, <2>2 DEF LauncherInv, RestartsEarned
<1> QED BY <1>6, <1>7, <1>8, <1>9, <1>10 DEF LauncherInv

(* cleanup waits for one pid, or is done when none is left: only the child *)
(* with the pid that is waited for drops out of the pids that are left, or *)
(* any child when that pid is the one of a failed fork.                    *)
LEMMA CleanupStep ==
    ASSUME LauncherInv, WaitNext \/ Exit
    PROVE  LauncherInv'
<1> DEFINE Process == [state : {"free", "running", "terminated", "zombie"},
                       app : Apps \cup {"none"}, status : {0, 1}]
           next == Min(pidsLeft)
<1>1. /\ pc = "wait" /\ pc' \in {"wait", "done"} /\ proc \in [Pids -> Process]
      /\ ForkFailed \notin Pids
      /\ UNCHANGED <<exits, forkFailures, pidMap, lastProcTime, running, childDied, toLaunch, app,
                     status, starts, failures>>
  BY LauncherAssumption DEF LauncherInv, TypeOK, WaitNext, Exit, histVars, kernelVars, ForkFailed
<1>2. /\ pidsLeft' \subseteq pidsLeft
      /\ proc' = proc \/ \E p \in Pids : proc' = [proc EXCEPT ![p] = Free]
  <2>1. CASE Exit
    BY <2>1 DEF Exit, kernelVars
  <2>2. CASE WaitNext
    BY <2>2 DEF WaitNext, Zombies
  <2> QED BY <2>1, <2>2
<1>3. proc' \in [Pids -> Process] /\ \A p \in Pids : proc'[p] = Free \/ proc'[p] = proc[p]
  BY <1>1, <1>2 DEF Free
<1>4. TypeOK'
  BY <1>1, <1>2, <1>3 DEF LauncherInv, TypeOK
<1> HIDE DEF Process
<1>5. TableMatchesChildren'
  BY <1>1 DEF TableMatchesChildren
<1>6. OnePlaceEach'
  BY <1>1 DEF LauncherInv, OnePlaceEach, ToBeLaunched, InHand, ShuttingDown
<1>7. LeftAreAwaited'
  <2>1. \A p \in Pids : proc[p] # Free => p \in pidsLeft
    BY <1>1 DEF LauncherInv, LeftAreAwaited
  <2>2. CASE Exit
    BY <1>1, <2>1, <2>2 DEF Exit, kernelVars, LeftAreAwaited, NoChildLeftBehind
  <2>3. CASE WaitNext
    <3>1. pc' = "wait"
      BY <2>3 DEF WaitNext
    <3>2. \A p \in Pids : proc'[p] # Free /\ p # next => p \in pidsLeft'
      BY <1>3, <2>1, <2>3 DEF WaitNext
    <3>3. next \in Pids => proc'[next] = Free
      BY <1>1, <2>3 DEF WaitNext
    <3> QED BY <3>1, <3>2, <3>3 DEF LeftAreAwaited, NoChildLeftBehind
  <2> QED BY <2>2, <2>3
<1>8. RestartsEarned'
  <2>1. \A a \in Apps : ~Owed(a)'
    BY <1>1 DEF Owed, InHand, ShuttingDown
  <2>2. \A a \in Apps : starts[a] \in Nat /\ failures[a] \in Nat
    BY DEF LauncherInv, TypeOK
  <2> QED BY <1>1, <2>1, <2>2 DEF LauncherInv, RestartsEarned
<1> QED BY <1>4, <1>5, <1>6, <1>7, <1>8 DEF LauncherInv

-----------------------------------------------------------------------------
(* The theorems.                                                           *)

(* The initial state satisfies the invariant. *)
LEMMA InitLauncher == Init => LauncherInv
<1> SUFFICES ASSUME Init PROVE LauncherInv
  OBVIOUS
<1>1. toLaunch \in Seq(Apps) /\ IsInjective(toLaunch)
  <2>1. Cardinality(Apps) \in Nat
    BY LauncherAssumption, FS_CardinalityType
  <2>2. toLaunch \in [1 .. Cardinality(Apps) -> Apps] /\ IsInjective(toLaunch)
    BY DEF Init
  <2> QED BY <2>1, <2>2
<1>2. DOMAIN pidMap = {} /\ Range(pidMap) = {} /\ IsInjective(pidMap)
  BY DEF Init, Range, IsInjective
<1>3. \A p \in Pids : proc[p] = Free /\ proc[p].state = "free"
  BY DEF Init, Free
<1>4. TypeOK
  <2>1. exits \in 0 .. MaxExits /\ forkFailures \in 0 .. MaxForkFailures
    BY LauncherAssumption DEF Init
  <2> QED BY <1>1, <1>2, <2>1 DEF Init, TypeOK, Free
<1>5. TableMatchesChildren
  BY <1>2, <1>3 DEF TableMatchesChildren
<1>6. OnePlaceEach /\ LeftAreAwaited
  BY <1>1, <1>2, <1>3 DEF Init, OnePlaceEach, LeftAreAwaited, NoChildLeftBehind, InHand
<1>7. RestartsEarned
  <2>1. \A a \in Apps : ~Owed(a)
    BY <1>3 DEF Init, Owed, FailedZombie, InHand
  <2> QED BY <2>1 DEF Init, RestartsEarned
<1> QED BY <1>4, <1>5, <1>6, <1>7 DEF LauncherInv

(* Every step preserves the invariant. *)
LEMMA NextLauncher == LauncherInv /\ [Next]_vars => LauncherInv'
<1> SUFFICES ASSUME LauncherInv, [Next]_vars PROVE LauncherInv'
  OBVIOUS
<1>1. CASE \E p \in Pids, s \in {0, 1} : ChildExits(p, s)
  BY <1>1, ChildExitsStep
<1>2. CASE \E p \in Pids : ChildTerminates(p)
  BY <1>2, ChildTerminatesStep
<1>3. CASE SigintHandler
  BY <1>3, QuietStep
<1>4. CASE Run
  BY <1>4, LaunchNextStep, QuietStep, ReapStep, DecideStep, RestartStep, KillAllStep, CleanupStep
     DEF Run
<1>5. CASE UNCHANGED vars
  BY <1>5 DEF vars, kernelVars, histVars, LauncherInv, TypeOK, TableMatchesChildren, OnePlaceEach,
              LeftAreAwaited, NoChildLeftBehind, RestartsEarned, ToBeLaunched, InHand,
              ShuttingDown, Owed, FailedZombie
<1> QED BY <1>1, <1>2, <1>3, <1>4, <1>5 DEF Next

(* The strengthened invariant holds in every reachable state of the        *)
(* launcher, for any configuration.                                        *)
THEOREM LauncherInvariant == Spec => []LauncherInv
BY InitLauncher, NextLauncher, PTL DEF Spec

(* The launcher's table and the kernel agree until cleanup, and when the   *)
(* launcher exits none of its children is left: for any applications and   *)
(* pids, with SIGINT and SIGCHLD between any two steps, and although fork  *)
(* may fail and the kernel may use a pid again.                            *)
THEOREM LauncherConsistency == Spec => []LauncherConsistent
<1>1. LauncherInv => LauncherConsistent
  BY DEF LauncherInv, LauncherConsistent, LeftAreAwaited
<1> QED BY <1>1, LauncherInvariant, PTL

(* No application is started more often than its restart policy allows.    *)
THEOREM PoliciesRespected == Spec => []PolicyRespected
<1>1. LauncherInv => PolicyRespected
  <2> SUFFICES ASSUME LauncherInv, NEW a \in Apps
               PROVE  /\ Policy[a] = "NEVER" => starts[a] <= 1
                      /\ Policy[a] = "ON_FAILURE" => starts[a] <= 1 + failures[a]
    BY DEF PolicyRespected
  <2>1. starts[a] \in Nat /\ failures[a] \in Nat
    BY DEF LauncherInv, TypeOK
  <2> QED BY <2>1 DEF LauncherInv, RestartsEarned
<1> QED BY <1>1, LauncherInvariant, PTL

================================================================================
