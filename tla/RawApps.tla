------------------------------ MODULE RawApps ------------------------------
(***************************************************************************)
(* The programs that use Fast DDS without the library: baseline-publishers *)
(* and baseline-subscribers, and the two pairs that look for lockups,      *)
(* lockup-publisher with lockup-subscriber and lockup-standalone.  A       *)
(* publisher sends the next value of its range to the subscriber of the    *)
(* same name; SIGUSR1 and SIGUSR2 end the lockup programs, from a signal   *)
(* handler that runs on any of their threads.                              *)
(***************************************************************************)
EXTENDS Integers, Sequences

CONSTANTS
    Scenarios,   \* family of programs, --threads, configuration, environment
    Base,        \* 256, the values of a byte
    MaxWrites,   \* bound on the values published per name
    MaxSignals   \* bound on the signals sent

Uint32 == 0..(Base * Base * Base * Base - 1)

(* Ranges are of uint32_t, which holds the values below 100 as well.       *)
ASSUME RawAssumption ==
    /\ Base \in Nat \ {0, 1}
    /\ Base * Base * Base * Base >= 100
    /\ \A s \in Scenarios :
          /\ s.family \in {"baseline", "lockup", "standalone"}
          /\ \A n \in DOMAIN s.config : s.config[n].min \in Uint32 /\ s.config[n].max \in Uint32

VARIABLES
    scenario,
    main,        \* process -> where its main thread is
    worker,      \* name -> where the publisher's thread is
    current,     \* name -> m_currentValue
    writes,      \* name -> how many values were published
    box,         \* external: name -> the sample its reader has not taken
    shown,       \* name -> the value printed last and the one that was published
    exiting,     \* process -> the flag
    exit_mutex,  \* process -> the thread that locked it, or "free"
    handlers,    \* process -> thread -> the signal handlers on its stack
    signals,     \* signals sent
    lost         \* processes that were notified before they waited

rawVars == <<scenario, main, worker, current, writes, box, shown, exiting, exit_mutex,
             handlers, signals, lost>>

Processes == {"publisher", "subscriber"}
Lockup    == scenario.family # "baseline"
Over(p)   == main[p] \in {"ended", "killed", "aborted"}

-----------------------------------------------------------------------------
(* The constructors: whether the process survives them, whether a full     *)
(* history makes write fail, and how values are counted.                   *)
Ranged(min, max, keepAll, created) == [first |-> min, last |-> max, keepAll |-> keepAll, created |-> created]
BaselinePublisher(env, min, max) == Ranged(min, max, TRUE, TRUE)
(* std::string(getenv(...)) throws if the variable is not set.             *)
LockupPublisher(env, min, max) == Ranged(min, max, FALSE, env.COMMUNICATION_METHOD # "unset")
(* Counts modulo 100, from 1.                                              *)
StandalonePublisher(env, min, max) == Ranged(0, 99, FALSE, TRUE)
BaselineSubscriber(env)   == [created |-> TRUE]
LockupSubscriber(env)     == [created |-> env.COMMUNICATION_METHOD # "unset"]
StandaloneSubscriber(env) == [created |-> TRUE]

Publisher(n) ==
    LET min == scenario.config[n].min
        max == scenario.config[n].max
    IN  CASE scenario.family = "baseline"   -> BaselinePublisher(scenario.env, min, max)
          [] scenario.family = "lockup"     -> LockupPublisher(scenario.env, min, max)
          [] scenario.family = "standalone" -> StandalonePublisher(scenario.env, min, max)
Subscriber ==
    CASE scenario.family = "baseline"   -> BaselineSubscriber(scenario.env)
      [] scenario.family = "lockup"     -> LockupSubscriber(scenario.env)
      [] scenario.family = "standalone" -> StandaloneSubscriber(scenario.env)
Names == DOMAIN scenario.config

RawInit ==
    /\ scenario \in Scenarios
    /\ main = [p \in Processes |-> "start"]
    /\ worker = [n \in Names |-> "none"]
    /\ current = [n \in Names |-> Publisher(n).first]
    /\ writes = [n \in Names |-> 0]
    /\ box = [n \in Names |-> <<>>]
    /\ shown = [n \in Names |-> [value |-> 0, raw |-> 0]]
    /\ exiting = [p \in Processes |-> FALSE]
    /\ exit_mutex = [p \in Processes |-> "free"]
    /\ handlers = [p \in Processes |-> [t \in {"main", "worker"} |-> <<>>]]
    /\ signals = 0
    /\ lost = {}

-----------------------------------------------------------------------------
\* Mutant: the first shift is that of the second byte.
ToTruncated(raw) ==
    <<0, (raw \div (Base * Base)) % Base, (raw \div Base) % Base, raw % Base>>

(* Four bytes, the most significant one first ...                          *)
To(raw) ==
    <<(raw \div (Base * Base * Base)) % Base, (raw \div (Base * Base)) % Base,
      (raw \div Base) % Base, raw % Base>>

(* ... and back; bytes that are missing count as zero.                     *)
From(bytes) ==
    LET byte(i) == IF i <= Len(bytes) THEN bytes[i] ELSE 0
    IN  byte(1) * (Base * Base * Base) + byte(2) * (Base * Base) + byte(3) * Base + byte(4)

(* write replaces what was not taken, or fails when the history keeps all  *)
(* and a reader has not acknowledged it in time; nobody looks.             *)
Write(n, raw) ==
    IF Publisher(n).keepAll /\ box[n] # <<>> /\ main["subscriber"] \notin {"start", "ended", "killed"}
    THEN box[n] ELSE <<[bytes |-> To(raw), raw |-> raw]>>

(* Publish sends the value and moves on, in uint32_t ...                   *)
PublishRanged(n) ==
    [box |-> Write(n, current[n]),
     current |-> IF current[n] = Publisher(n).last THEN Publisher(n).first
                 ELSE (current[n] + 1) % (Base * Base * Base * Base)]
(* ... while lockup-standalone moves on first.                             *)
PublishStandalone(n) ==
    LET next == (current[n] + 1) % 100 IN [box |-> Write(n, next), current |-> next]

(* The publishers of a set publish, one after the other.                   *)
PublishRound(S) ==
    LET sent(n) == IF scenario.family = "standalone" THEN PublishStandalone(n) ELSE PublishRanged(n)
    IN  /\ \A n \in S : writes[n] < MaxWrites
        /\ writes' = [n \in Names |-> IF n \in S THEN writes[n] + 1 ELSE writes[n]]
        /\ box' = [n \in Names |-> IF n \in S THEN sent(n).box ELSE box[n]]
        /\ current' = [n \in Names |-> IF n \in S THEN sent(n).current ELSE current[n]]

-----------------------------------------------------------------------------
NoHandler(p, t) == handlers[p][t] = <<>>

(* main of a publisher: every publisher is created, then the loop or the   *)
(* threads are started.  A configuration that cannot be read ends it.      *)
StartPublisherMain ==
    /\ main["publisher"] = "start"
    /\ LET goes == scenario.readable /\ \A n \in Names : Publisher(n).created
           threads == scenario.threads \/ scenario.family = "standalone"
       IN  /\ main' = [main EXCEPT !["publisher"] =
                         CASE ~goes -> "ended" [] goes /\ threads -> "check"
                           [] goes /\ ~threads -> "loop"]
           /\ worker' = [n \in Names |-> IF goes /\ threads THEN "loop" ELSE "none"]
    /\ UNCHANGED <<scenario, current, writes, box, shown, exiting, exit_mutex, handlers, signals, lost>>

(* RunNoThreads publishes a round in the main thread.                      *)
RunNoThreads ==
    /\ main["publisher"] = "loop"
    /\ NoHandler("publisher", "main")
    /\ \/ /\ ~exiting["publisher"]
          /\ PublishRound(Names)
          /\ UNCHANGED main
       \/ /\ exiting["publisher"]
          /\ main' = [main EXCEPT !["publisher"] = "clear"]
          /\ UNCHANGED <<current, writes, box>>
    /\ UNCHANGED <<scenario, worker, shown, exiting, exit_mutex, handlers, signals, lost>>

(* A thread of RunWithThreads.                                             *)
RunThread(n) ==
    /\ worker[n] = "loop"
    /\ ~Over("publisher")
    /\ NoHandler("publisher", "worker")
    /\ \/ /\ ~exiting["publisher"]
          /\ PublishRound({n})
          /\ UNCHANGED worker
       \/ /\ exiting["publisher"]
          /\ worker' = [worker EXCEPT ![n] = "exited"]
          /\ UNCHANGED <<current, writes, box>>
    /\ UNCHANGED <<scenario, main, shown, exiting, exit_mutex, handlers, signals, lost>>

(* main of a subscriber.                                                   *)
StartSubscriberMain ==
    /\ main["subscriber"] = "start"
    /\ main' = [main EXCEPT !["subscriber"] =
                  IF scenario.readable /\ Subscriber.created THEN "check" ELSE "ended"]
    /\ UNCHANGED <<scenario, worker, current, writes, box, shown, exiting, exit_mutex, handlers,
                   signals, lost>>

(* condition.wait tests its predicate, and then blocks.                    *)
TestExiting(p) ==
    /\ main[p] = "check"
    /\ NoHandler(p, "main")
    /\ main' = [main EXCEPT ![p] = IF exiting[p] THEN "join" ELSE "block"]
    /\ UNCHANGED <<scenario, worker, current, writes, box, shown, exiting, exit_mutex, handlers,
                   signals, lost>>
BlockMain(p) ==
    /\ main[p] = "block"
    /\ NoHandler(p, "main")
    /\ main' = [main EXCEPT ![p] = "wait"]
    /\ UNCHANGED <<scenario, worker, current, writes, box, shown, exiting, exit_mutex, handlers,
                   signals, lost>>

JoinThreads(p) ==
    /\ main[p] = "join"
    /\ NoHandler(p, "main")
    /\ p = "publisher" => \A n \in Names : worker[n] = "exited"
    /\ main' = [main EXCEPT ![p] = "clear"]
    /\ UNCHANGED <<scenario, worker, current, writes, box, shown, exiting, exit_mutex, handlers,
                   signals, lost>>

(* The publishers or subscribers are destroyed with their participants.    *)
ClearEntities(p) ==
    /\ main[p] = "clear"
    /\ NoHandler(p, "main")
    /\ main' = [main EXCEPT ![p] = "ended"]
    /\ box' = IF p = "publisher" THEN [n \in Names |-> <<>>] ELSE box
    /\ UNCHANGED <<scenario, worker, current, writes, shown, exiting, exit_mutex, handlers,
                   signals, lost>>

(* on_data_available takes one sample and prints it.                       *)
OnDataAvailable(n) ==
    /\ main["subscriber"] \in {"check", "block", "wait", "join"}
    /\ box[n] # <<>>
    /\ box' = [box EXCEPT ![n] = <<>>]
    /\ shown' = [shown EXCEPT ![n] = [value |-> From(box[n][1].bytes), raw |-> box[n][1].raw]]
    /\ UNCHANGED <<scenario, main, worker, current, writes, exiting, exit_mutex, handlers, signals, lost>>

-----------------------------------------------------------------------------
(* A signal interrupts a thread; a handler is not interrupted by its own   *)
(* signal.  The baseline programs have no handler and end.                 *)
DeliverSignal(p, t, s) ==
    /\ ~Over(p) /\ main[p] # "start"
    /\ signals < MaxSignals
    /\ t = "worker" => p = "publisher" /\ \E n \in Names : worker[n] = "loop"
    /\ \A i \in DOMAIN handlers[p][t] : handlers[p][t][i].signal # s
    /\ signals' = signals + 1
    /\ IF Lockup
       THEN /\ handlers' = [handlers EXCEPT ![p][t] = <<[signal |-> s, at |-> "enter"]>> \o @]
            /\ UNCHANGED main
       ELSE /\ main' = [main EXCEPT ![p] = "killed"]
            /\ UNCHANGED handlers
    /\ UNCHANGED <<scenario, worker, current, writes, box, shown, exiting, exit_mutex, lost>>

(* SIGUSR1 counts only if EXIT_SIGUSR1 says so, and CLEAN_EXIT chooses the *)
(* way; a variable that is not set ends the process with an exception.     *)
Aborts(s) ==
    /\ s = "SIGUSR1"
    /\ \/ scenario.env.EXIT_SIGUSR1 = "unset"
       \/ scenario.env.EXIT_SIGUSR1 = "true" /\ scenario.env.CLEAN_EXIT = "unset"
Quick(s) ==
    \/ s = "SIGUSR2"
    \/ scenario.env.EXIT_SIGUSR1 = "true" /\ scenario.env.CLEAN_EXIT = "false"

Return(p, t) == handlers' = [handlers EXCEPT ![p][t] = Tail(@)]

(* The flag is set, and a main thread that waits is notified.              *)
ExitCleanly(p, t) ==
    /\ exiting' = [exiting EXCEPT ![p] = TRUE]
    /\ main' = IF main[p] = "wait" THEN [main EXCEPT ![p] = "check"] ELSE main
    /\ lost' = IF main[p] = "block" THEN lost \cup {p} ELSE lost
    /\ Return(p, t)

SignalHandler(p, t) ==
    /\ ~Over(p)
    /\ ~NoHandler(p, t)
    /\ LET h == Head(handlers[p][t]) IN
       \/ /\ h.at = "enter" /\ Aborts(h.signal)
          /\ main' = [main EXCEPT ![p] = "aborted"]
          /\ UNCHANGED <<exiting, exit_mutex, handlers, lost>>
       \/ /\ h.at = "enter" /\ ~Aborts(h.signal) /\ Quick(h.signal)
          /\ exit_mutex[p] = "free"
          /\ exit_mutex' = [exit_mutex EXCEPT ![p] = t]
          /\ handlers' = [handlers EXCEPT ![p][t] = <<[h EXCEPT !.at = "locked"]>> \o Tail(@)]
          /\ UNCHANGED <<main, exiting, lost>>
       \/ /\ h.at = "enter" /\ ~Aborts(h.signal) /\ ~Quick(h.signal)
          /\ UNCHANGED exit_mutex
          /\ \/ scenario.env.EXIT_SIGUSR1 = "true" /\ ExitCleanly(p, t)
             \/ /\ scenario.env.EXIT_SIGUSR1 # "true" /\ Return(p, t)
                /\ UNCHANGED <<main, exiting, lost>>
       \/ /\ h.at = "locked"
          /\ main' = [main EXCEPT ![p] = "killed"]
          /\ UNCHANGED <<exiting, exit_mutex, handlers, lost>>
    /\ UNCHANGED <<scenario, worker, current, writes, box, shown, signals>>

MainStep(p) ==
    TestExiting(p) \/ BlockMain(p) \/ JoinThreads(p) \/ ClearEntities(p)

RawNextState ==
    \/ StartPublisherMain \/ StartSubscriberMain \/ RunNoThreads
    \/ \E n \in Names : RunThread(n) \/ OnDataAvailable(n)
    \/ \E p \in Processes : MainStep(p)
    \/ \E p \in Processes, t \in {"main", "worker"} :
         SignalHandler(p, t) \/ \E s \in {"SIGUSR1", "SIGUSR2"} : DeliverSignal(p, t, s)

-----------------------------------------------------------------------------
(* What a subscriber prints is the value that was published, through the   *)
(* wrap-around of its range and of its bytes.                              *)
ShownAsPublished == \A n \in Names : shown[n].value = shown[n].raw

(* A handler waits for exit_mutex on the thread that holds it.             *)
LocksItself(p) ==
    \E t \in {"main", "worker"} :
        /\ exit_mutex[p] = t
        /\ ~NoHandler(p, t) /\ Head(handlers[p][t]).at = "enter" /\ Quick(Head(handlers[p][t]).signal)

(* A process that was told to exit, or that began to exit at once, is over *)
(* in the end, unless the notification came between the test of the flag   *)
(* and the wait, or a second signal hit the thread that holds the mutex.   *)
SignalledProcessesOver ==
    \A p \in Processes :
        exiting[p] \/ exit_mutex[p] # "free" => Over(p) \/ p \in lost \/ LocksItself(p)
=============================================================================
