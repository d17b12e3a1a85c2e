--------------------------- MODULE ParameterApps ---------------------------
(***************************************************************************)
(* The example applications, testers and integration tests of the          *)
(* middleware, one program or pair of programs at a time: the publishing   *)
(* chain, the read programs, the programs on Fast DDS alone, the testers   *)
(* of the command line, the integration tests and Mapper.                  *)
(***************************************************************************)
EXTENDS PublishApps, ReadApps, RawApps, TesterApps, IntegrationTests, Mapper

VARIABLE program   \* the program or pair of programs that runs
appsVars == <<program, publishVars, readVars, rawVars, testerVars, testVars, mapperVars>>

(* One program or pair of programs runs; the others stay where they begin. *)
AppsInit ==
    /\ program \in {"publish", "read", "raw", "tester", "test", "mapper"}
    /\ PublishInit /\ ReadInit /\ RawInit /\ TesterInit /\ TestInit /\ MapperInit
    /\ program = "publish" \/ arguments = CHOOSE a \in Arguments : TRUE
    /\ program = "read" \/ readArguments = CHOOSE a \in ReadArguments : TRUE
    /\ program = "raw" \/ scenario = CHOOSE s \in Scenarios : TRUE
    /\ program = "tester" \/ argv = CHOOSE c \in CommandLines : TRUE
    /\ program = "test" \/ test = CHOOSE t \in Tests : TRUE

Publishing(A) ==
    /\ program = "publish" /\ A
    /\ UNCHANGED <<program, readVars, rawVars, testerVars, testVars, mapperVars>>
Reading(A) ==
    /\ program = "read" /\ A
    /\ UNCHANGED <<program, publishVars, rawVars, testerVars, testVars, mapperVars>>
Raw(A) ==
    /\ program = "raw" /\ A
    /\ UNCHANGED <<program, publishVars, readVars, testerVars, testVars, mapperVars>>
Tester(A) ==
    /\ program = "tester" /\ A
    /\ UNCHANGED <<program, publishVars, readVars, rawVars, testVars, mapperVars>>
Testing(A) ==
    /\ program = "test" /\ A
    /\ UNCHANGED <<program, publishVars, readVars, rawVars, testerVars, mapperVars>>
Mapping(A) ==
    /\ program = "mapper" /\ A
    /\ UNCHANGED <<program, publishVars, readVars, rawVars, testerVars, testVars>>

AppsNext ==
    \/ Publishing(PublishNextState) \/ Reading(ReadNextState) \/ Raw(RawNextState)
    \/ Tester(TesterNextState) \/ Testing(TestNextState) \/ Mapping(MapperNextState)

(* The threads of each program, the signal handlers among them.            *)
AppsThread(k) ==
    \/ Publishing(CASE k = 1 -> ReaderSteps("subscribe") [] k = 2 -> ReaderSteps("buddy")
                     [] k = 3 -> MirrorSteps [] OTHER -> FALSE)
    \/ Raw(CASE k = 1 -> MainStep("publisher") [] k = 2 -> MainStep("subscriber")
              [] k = 3 -> RunNoThreads [] k = 4 -> RunThread(1)
              [] k = 5 -> SignalHandler("publisher", "main")
              [] k = 6 -> SignalHandler("publisher", "worker")
              [] k = 7 -> SignalHandler("subscriber", "main"))
    \/ Tester(CASE k = 1 -> TesterMainThread [] k \in 2..4 -> OnComplete(k - 1) [] OTHER -> FALSE)
    \/ Testing(CASE k = 1 -> TestDriver [] k = 2 -> OwnerThread [] k = 3 -> Delivery [] OTHER -> FALSE)
    \/ Mapping(IF k = 1 THEN MapperMain ELSE k \in 2..3 /\ Update(InputParameters[k - 1]))

(* Threads run, calls end (EveryCallCompletes), and a stream that ended is *)
(* noticed.  No signal is assumed to come, and nobody to publish.  The     *)
(* programs are alternatives, so threads of several share a conjunct.      *)
AppsSpec == AppsInit /\ [][AppsNext]_appsVars /\ \A k \in 1..7 : WF_appsVars(AppsThread(k))

(* Every program that got its signal has ended, and so has every call of   *)
(* the tester and every integration test; once true it stays true.         *)
Settled ==
    CASE program = "publish" -> SignalledReadersEnded
      [] program = "read"    -> TRUE
      [] program = "raw"     -> SignalledProcessesOver
      [] program = "tester"  -> tester \in {"sub", "ended", "failed"}
      [] program = "test"    -> Done \/ early
      [] program = "mapper"  -> MapperSettled

(* ParameterSubscribe, the buddies, the lockup programs and Mapper end     *)
(* after a signal, and Mapper republishes what arrives before it; a read   *)
(* or write of the tester and every integration test end by themselves,    *)
(* unless Stop came before the thread had set m_run.                       *)
ProgramsEnd == []<>Settled

(* No window of travel times is overrun by calls that come one at a time,  *)
(* and statistics come from a full round of samples.                       *)
WindowsInRange == WindowInRange /\ OverrunNeedsOverlap /\ StatisticsFromSamples

(* Callbacks find the variables of the function that waits for them, and   *)
(* those of Mapper their publisher.                                        *)
CallbacksFindLocals == HandlersFindLocals /\ TesterLocalsAlive /\ PublisherFound

(* What is shown is what was published, and in step; a sequence error of   *)
(* the read programs needs reads that overlap.                             *)
ValuesAsPublished == ShownAsPublished /\ StressInStep /\ MissMeansOverlap /\ RepublishedInTurn
=============================================================================
