--------------------------- MODULE MCParameterApps ---------------------------
EXTENDS ParameterApps, TLC

Commands(publish, subscribe, buddy, mirror, started) ==
    [publish |-> publish, subscribe |-> subscribe, buddy |-> buddy, mirror |-> mirror,
     started |-> started]
SomeArguments ==
    {Commands(<<<<"publishrate", 1>>, <<"publishparms", 1>>>>,
              <<<<"streamfilterrange", 1>>, <<"testreadsequential", 0>>>>, <<>>, <<>>, {"publish", "subscribe"}),
     Commands(<<<<"publishrate", 1>>, <<"publishparms", 1>>>>, <<>>,
              <<<<"streamfilterrange", 1>>>>,
              <<<<"subscribe", 0>>, <<"streamfilterrange", 1>>, <<"testreadsequential", 0>>>>,
              {"publish", "buddy", "mirror"}),
     Commands(<<<<"publishrate", 1>>, <<"publishonce", 0>>>>, <<>>, <<>>,
              <<<<"subscribe", 0>>, <<"streamclientmax", 1>>, <<"periodic", 1>>>>,
              {"publish", "buddy", "mirror"}),
     Commands(<<<<"publishparms", 1>>>>, <<<<"help", 0>>>>, <<>>, <<<<"help", 0>>>>,
              {"publish", "subscribe", "mirror"})}

ReadClientArgs(parms, once, sequential) ==
    [help |-> FALSE, readparms |-> parms, readonce |-> once, showreadvalues |-> TRUE,
     testreadsequential |-> sequential]
ReadServerArgs(parms) == [help |-> FALSE, serverreadparms |-> parms]
SomeReadArguments ==
    {[client |-> ReadClientArgs(1, FALSE, TRUE), server |-> ReadServerArgs(2), DEBUG_TIMING |-> FALSE],
     [client |-> ReadClientArgs(2, TRUE, TRUE), server |-> ReadServerArgs(2), DEBUG_TIMING |-> FALSE],
     [client |-> ReadClientArgs(0, FALSE, FALSE), server |-> ReadServerArgs(-1), DEBUG_TIMING |-> TRUE],
     [client |-> ReadClientArgs(1, TRUE, TRUE), server |-> ReadServerArgs(0), DEBUG_TIMING |-> TRUE]}

Environment(usr1, clean, method) ==
    [EXIT_SIGUSR1 |-> usr1, CLEAN_EXIT |-> clean, COMMUNICATION_METHOD |-> method]
Scenario(family, threads, env) ==
    [family |-> family, threads |-> threads, readable |-> TRUE, env |-> env,
     config |-> <<[min |-> 254, max |-> 255]>>]
SomeScenarios ==
    {Scenario("baseline", TRUE, Environment("unset", "unset", "unset")),
     Scenario("lockup", FALSE, Environment("true", "true", "udp")),
     Scenario("lockup", TRUE, Environment("true", "false", "shm")),
     Scenario("lockup", TRUE, Environment("true", "true", "shm")),
     Scenario("lockup", TRUE, Environment("true", "true", "unset")),
     Scenario("standalone", TRUE, Environment("false", "unset", "unset")),
     Scenario("standalone", TRUE, Environment("true", "unset", "unset"))}

SomeCommandLines ==
    {<<>>, <<"-h">>, <<"sub", "--name", "A">>, <<"list", "--name", "A">>,
     <<"read", "--name", "A", "--name", "B", "--name", "A">>,
     <<"write", "--name", "A", "--uinteger64_value", "0x1F", "--double_value", "12">>,
     <<"write", "--name", "A", "--binary_value", "apple">>,
     <<"pub", "--name", "A", "--boolean_value", "1", "--delay", "12ms", "--name">>,
     <<"pub", "--name", "A", "--binary_value", "apple">>,
     <<"pub", "--name", "A", "--name", "B", "--string_value", "apple">>}

SomeTests ==
    {DataLargerThan4MbWillNotCallSubscription, PublisherSetsQualityBadWhenDisconnected,
     PublisherSendsMetadataToSubscribers, MultipleClientWrites,
     MultipleClientReadsOfDifferentParameters, ServerIsNotAvailable, ServerIsAvailable,
     ServerDoesNotHaveRequestedContent, MultipleRequestsToSameServer,
     ServerSideCanReplyAsynchronously, WritePayloadExceedsMax, ReadPayloadExceedsMax,
     RequestApproachesMax, ResponseExceedsMax}
    \cup {DataWithinBoundsWillCallSubscription(text) : text \in {"255B", "4MB"}}

TwoInputs == <<"A", "machine.fuel_level_1">>
=============================================================================
