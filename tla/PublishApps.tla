---------------------------- MODULE PublishApps ----------------------------
(***************************************************************************)
(* The publishing chain of the example applications: ParameterPublish,     *)
(* its direct reader ParameterSubscribe, and ParameterBuddyGen7CDAServer,  *)
(* which hands the parameters on to a CDA server that streams them to      *)
(* ParameterBuddyGen7CDAClient (the mirror).                               *)
(*                                                                         *)
(* The parameter service delivers the latest value of a parameter          *)
(* (ParameterSubscription); the CDA server, which is not part of the       *)
(* repository, queues the updates of a stream.  Parameters are numbered    *)
(* from 1, and Latency is the channel with the sender's clock.             *)
(***************************************************************************)
EXTENDS Integers, SequencesExt, LatencyWindow

CONSTANTS
    Arguments,   \* the command lines tried: options per program, and who is started
    MaxRounds    \* bound on the rounds of ParameterPublish

VARIABLES
    arguments,    \* the command lines of this run
    publisher,    \* ParameterPublish: where it is, UniqueIntValue, what is left of a round
    channel,      \* external: program -> parameter -> values not delivered yet
    keepRunning,  \* program -> its flag, 1 until a signal
    place,        \* program -> where its thread is
    sequence,     \* program -> LastDisplayValue and SequentialMisses
    window,       \* program -> its latency window
    stream,       \* external: updates on their way to the mirror
    samples,      \* the mirror's SampleCount
    server        \* the buddy's gRPC server: "none", "registered", "shutdown"

publishVars == <<arguments, publisher, channel, keepRunning, place, sequence, window,
                 stream, samples, server>>

Latency == 0
None    == -1
Readers  == {"subscribe", "buddy"}

-----------------------------------------------------------------------------
(* Command lines.  An option that is given twice counts once, with its     *)
(* last value; --help ends the program, except in the buddy server.        *)
Given(args, option) == \E i \in 1..Len(args) : args[i][1] = option
Value(args, option, default) ==
    IF ~Given(args, option) THEN default
    ELSE LET i == CHOOSE i \in 1..Len(args) :
                    args[i][1] = option /\ \A j \in (i + 1)..Len(args) : args[j][1] # option
         IN  args[i][2]

PublishMain(args) ==
    [runs |-> ~Given(args, "help"), rate |-> Value(args, "publishrate", -1),
     parms |-> Value(args, "publishparms", -1), once |-> Given(args, "publishonce")]
SubscribeMain(args) ==
    [runs |-> ~Given(args, "help"), range |-> Value(args, "streamfilterrange", -1),
     sequential |-> Given(args, "testreadsequential")]
BuddyMain(args) ==
    [runs |-> TRUE, range |-> Value(args, "streamfilterrange", -1)]
MirrorMain(args) ==
    [runs |-> ~Given(args, "help"), stream |-> Given(args, "subscribe"),
     max |-> Value(args, "streamclientmax", -1), range |-> Value(args, "streamfilterrange", -1),
     sequential |-> Given(args, "testreadsequential"), periodic |-> Value(args, "periodic", -1)]

Publish   == PublishMain(arguments.publish)
Subscribe == SubscribeMain(arguments.subscribe)
Buddy     == BuddyMain(arguments.buddy)
Mirror    == MirrorMain(arguments.mirror)

FilterRange(p) == IF p = "subscribe" THEN Subscribe.range ELSE Buddy.range
Subscribed(p) == {Latency} \cup 1..FilterRange(p)

-----------------------------------------------------------------------------
PublishInit ==
    /\ arguments \in Arguments
    /\ publisher = [at |-> IF "publish" \in arguments.started THEN "start" ELSE "ended", value |-> 0, left |-> <<>>, kept |-> [i \in {} |-> None]]
    /\ channel = [p \in Readers |-> [i \in {} |-> None]]
    /\ keepRunning = [p \in Readers |-> TRUE]
    /\ place = [p \in Readers \cup {"mirror"} |-> IF p \in arguments.started THEN "start" ELSE "ended"]
    /\ sequence = [subscribe |-> [last |-> 1, misses |-> 0], mirror |-> [last |-> -1, misses |-> 0]]
    /\ window = [p \in {"subscribe", "mirror"} |-> NewWindow]
    /\ stream = <<>>
    /\ samples = 0
    /\ server = "none"

(* ParameterPublishDataLoader *)
Channels == (IF Publish.parms < 1 THEN <<>> ELSE [i \in 1..Publish.parms |-> i]) \o <<Latency>>

(* A value reaches every program that subscribed to the parameter; one     *)
(* that was not delivered is replaced.                                     *)
Deliver(values) ==
    channel' = [p \in Readers |->
                  IF place[p] = "subscribed"
                  THEN [i \in DOMAIN channel[p] \cup (DOMAIN values \cap Subscribed(p)) |->
                          IF i \in DOMAIN values THEN values[i] ELSE channel[p][i]]
                  ELSE channel[p]]

(* The service is created with an empty value for every parameter.         *)
StartPublishing ==
    /\ publisher.at = "start"
    /\ LET goes == Publish.runs /\ Publish.rate >= 1
           kept == IF goes THEN [i \in ToSet(Channels) |-> 0] ELSE publisher.kept
       IN  /\ publisher' = [publisher EXCEPT !.value = 1, !.kept = kept,
                               !.at = IF goes THEN "round" ELSE "ended"]
           /\ Deliver(kept)
    /\ UNCHANGED <<arguments, keepRunning, place, sequence, window, stream, samples, server>>

BeginRound ==
    /\ publisher.at = "round"
    /\ publisher.value <= MaxRounds
    /\ publisher' = [publisher EXCEPT !.at = "publishing", !.value = @ + 1, !.left = Channels]
    /\ UNCHANGED <<arguments, channel, keepRunning, place, sequence, window, stream, samples, server>>

(* The same value for every parameter; the latency channel has no number.  *)
PublishNext ==
    /\ publisher.at = "publishing"
    /\ publisher.left # <<>>
    /\ LET i == Head(publisher.left)
           v == IF i = Latency THEN 0 ELSE publisher.value
       IN  /\ Deliver([j \in {i} |-> v])
           /\ publisher' = [publisher EXCEPT !.left = Tail(@), !.kept[i] = v]
    /\ UNCHANGED <<arguments, keepRunning, place, sequence, window, stream, samples, server>>

EndRound ==
    /\ publisher.at = "publishing"
    /\ publisher.left = <<>>
    /\ publisher' = [publisher EXCEPT !.at = IF Publish.once THEN "ended" ELSE "round"]
    /\ UNCHANGED <<arguments, channel, keepRunning, place, sequence, window, stream, samples, server>>

-----------------------------------------------------------------------------
(* The sequence test of a reader: one LastDisplayValue for all parameters, *)
(* the latency channel among them, and a first value that marks "unset".   *)
Check(s, unset, v) ==
    [last |-> v,
     misses |-> IF s.last # unset /\ s.last + 1 # v THEN s.misses + 1 ELSE s.misses]

(* The thread creates its service; the values the publisher keeps for late *)
(* readers arrive.  The buddy's main has registered its server by then.    *)
StartReader(p) ==
    /\ place[p] = "start"
    /\ p = "buddy" => server # "none"
    /\ LET settings == IF p = "subscribe" THEN Subscribe ELSE Buddy
           kept == DOMAIN publisher.kept \cap Subscribed(p)
       IN  IF settings.runs
           THEN /\ place' = [place EXCEPT ![p] = "subscribed"]
                /\ channel' = [channel EXCEPT ![p] = [i \in kept |-> publisher.kept[i]]]
           ELSE /\ place' = [place EXCEPT ![p] = "ended"]
                /\ UNCHANGED channel
    /\ UNCHANGED <<arguments, publisher, keepRunning, sequence, window, stream, samples, server>>

(* on_subscription of ParameterSubscribe.                                  *)
OnSubscription ==
    /\ place["subscribe"] \in {"subscribed", "leaving"}
    /\ \E i \in DOMAIN channel["subscribe"], skewed \in BOOLEAN :
        /\ channel' = [channel EXCEPT !["subscribe"] = [j \in DOMAIN @ \ {i} |-> @[j]]]
        /\ IF i = Latency
           THEN window' = [window EXCEPT !["subscribe"] = TimeSubscription(@, skewed)]
           ELSE ~skewed /\ UNCHANGED window
        /\ IF Subscribe.sequential
           THEN sequence' = [sequence EXCEPT !["subscribe"] =
                               Check(@, 1, channel["subscribe"][i])]
           ELSE UNCHANGED sequence
    /\ UNCHANGED <<arguments, publisher, keepRunning, place, stream, samples, server>>

(* The buddy's on_subscription writes the value to the CDA server.         *)
ForwardToCDA ==
    /\ place["buddy"] \in {"subscribed", "leaving"}
    /\ \E i \in DOMAIN channel["buddy"] :
        /\ channel' = [channel EXCEPT !["buddy"] = [j \in DOMAIN @ \ {i} |-> @[j]]]
        /\ stream' = IF place["mirror"] = "streaming" /\ i \in {Latency} \cup 1..Mirror.range
                     THEN Append(stream, <<i, channel["buddy"][i]>>) ELSE stream
    /\ UNCHANGED <<arguments, publisher, keepRunning, place, sequence, window, samples, server>>

(* SIGINT or SIGTERM.  The buddy also shuts its gRPC server down, once the *)
(* handler can find it.                                                    *)
ExitProgram(p) ==
    /\ p \in Readers
    /\ place[p] # "ended"
    /\ keepRunning' = [keepRunning EXCEPT ![p] = FALSE]
    /\ server' = IF p = "buddy" /\ server = "registered" THEN "shutdown" ELSE server
    /\ UNCHANGED <<arguments, publisher, channel, place, sequence, window, stream, samples>>

(* main of the buddy builds and registers the server before its thread.    *)
BuildServer ==
    /\ place["buddy"] = "start"
    /\ server = "none"
    /\ server' = "registered"
    /\ UNCHANGED <<arguments, publisher, channel, keepRunning, place, sequence, window, stream, samples>>

\* Mutant: the thread stays until its publisher has gone.
LeaveOnDisconnect(p) ==
    /\ place[p] = "subscribed"
    /\ ~keepRunning[p]
    /\ publisher.at = "ended"
    /\ place' = [place EXCEPT ![p] = "leaving"]
    /\ UNCHANGED <<arguments, publisher, channel, keepRunning, sequence, window, stream, samples, server>>

(* The 250 ms poll; ~Service then waits for a callback that is running.    *)
LeaveLoop(p) ==
    /\ place[p] = "subscribed"
    /\ ~keepRunning[p]
    /\ place' = [place EXCEPT ![p] = "leaving"]
    /\ UNCHANGED <<arguments, publisher, channel, keepRunning, sequence, window, stream, samples, server>>

(* The buddy's main then waits for its gRPC server.                        *)
EndReader(p) ==
    /\ place[p] = "leaving"
    /\ p = "buddy" => server = "shutdown"
    /\ place' = [place EXCEPT ![p] = "ended"]
    /\ channel' = [channel EXCEPT ![p] = [i \in {} |-> None]]
    /\ UNCHANGED <<arguments, publisher, keepRunning, sequence, window, stream, samples, server>>

-----------------------------------------------------------------------------
(* MirrorReadUpdateStream, and after it MirrorReadPeriodicStream.          *)
StartMirror ==
    /\ place["mirror"] = "start"
    /\ place' = [place EXCEPT !["mirror"] =
                   CASE ~Mirror.runs -> "ended"
                     [] Mirror.runs /\ Mirror.stream -> "streaming"
                     [] Mirror.runs /\ ~Mirror.stream -> "joined"]
    /\ UNCHANGED <<arguments, publisher, channel, keepRunning, sequence, window, stream, samples, server>>

(* SampleCountQuit *)
AtMax(n) == Mirror.max > 0 /\ n >= Mirror.max

(* One update: the sequence test, the limit, and only then the timing.     *)
ReadUpdate ==
    /\ place["mirror"] = "streaming"
    /\ stream # <<>>
    /\ stream' = Tail(stream)
    /\ samples' = samples + 1
    /\ sequence' = IF Mirror.sequential
                   THEN [sequence EXCEPT !["mirror"] = Check(@, -1, Head(stream)[2])]
                   ELSE sequence
    /\ \/ /\ AtMax(samples')
          /\ place' = [place EXCEPT !["mirror"] = "joined"]
          /\ UNCHANGED window
       \/ /\ ~AtMax(samples')
          /\ UNCHANGED place
          /\ IF Head(stream)[1] = Latency
             THEN \E skewed \in BOOLEAN :
                    window' = [window EXCEPT !["mirror"] = TimeMirrored(@, skewed)]
             ELSE UNCHANGED window
    /\ UNCHANGED <<arguments, publisher, channel, keepRunning, server>>

(* The stream ends with the server.                                        *)
StreamCloses ==
    /\ place["mirror"] = "streaming"
    /\ stream = <<>>
    /\ server = "shutdown"
    /\ place' = [place EXCEPT !["mirror"] = "joined"]
    /\ UNCHANGED <<arguments, publisher, channel, keepRunning, sequence, window, stream, samples, server>>

(* The second stream counts its own samples.                               *)
StartPeriodic ==
    /\ place["mirror"] = "joined"
    /\ place' = [place EXCEPT !["mirror"] = IF Mirror.periodic > 0 THEN "periodic" ELSE "ended"]
    /\ samples' = 0
    /\ stream' = <<>>
    /\ UNCHANGED <<arguments, publisher, channel, keepRunning, sequence, window, server>>

(* A group of values from the CDA server, or the end of the stream.        *)
ReadPeriodic ==
    /\ place["mirror"] = "periodic"
    /\ \/ /\ server # "shutdown"
          /\ samples < MaxRounds
          /\ samples' = samples + 1
          /\ place' = [place EXCEPT !["mirror"] = IF AtMax(samples') THEN "ended" ELSE @]
       \/ /\ server = "shutdown"
          /\ UNCHANGED samples
          /\ place' = [place EXCEPT !["mirror"] = "ended"]
    /\ UNCHANGED <<arguments, publisher, channel, keepRunning, sequence, window, stream, server>>

ReaderSteps(p) ==
    \/ p = "buddy" /\ BuildServer
    \/ StartReader(p) \/ LeaveLoop(p) \/ EndReader(p)
MirrorSteps == StartMirror \/ ReadUpdate \/ StreamCloses \/ StartPeriodic \/ ReadPeriodic

PublishNextState ==
    \/ StartPublishing \/ BeginRound \/ PublishNext \/ EndRound
    \/ \E p \in Readers : ReaderSteps(p) \/ ExitProgram(p)
    \/ OnSubscription \/ ForwardToCDA \/ MirrorSteps

-----------------------------------------------------------------------------
(* No travel time is stored behind RunningAverage, whatever the order of   *)
(* skewed, tossed and measured samples.                                    *)
WindowInRange == \A p \in DOMAIN window : ~window[p].overrun

(* Statistics are computed from slots that were written, unless a skewed   *)
(* sample made the window skip one.                                        *)
StatisticsFromSamples ==
    \A p \in DOMAIN window : FALSE \in window[p].printed => window[p].skipped

(* A signal ends ParameterSubscribe, ends the buddy server if it comes     *)
(* when the handler can find the gRPC server, and then also the mirror,    *)
(* however far the publisher is.                                           *)
SignalledReadersEnded ==
    /\ keepRunning["subscribe"] \/ place["subscribe"] = "ended"
    /\ server = "shutdown" => place["buddy"] = "ended" /\ place["mirror"] = "ended"
=============================================================================
