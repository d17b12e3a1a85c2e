-------------------------- MODULE IntegrationTests --------------------------
(***************************************************************************)
(* The integration tests of the parameter service, as the code that drives *)
(* the library: ParameterServiceOwnerInstance, a service with a thread of  *)
(* its own, the fixtures, and the tests themselves.                        *)
(*                                                                         *)
(* The library appears as its other modules describe it: a subscription    *)
(* gets the latest value and a last call of quality BAD when its publisher *)
(* goes, and a call ends in SUCCESS or FAILURE.  A size is "small", "max"  *)
(* (serialised, exactly the limit) or "over".                              *)
(***************************************************************************)
EXTENDS Integers, Sequences

CONSTANT Tests    \* the tests that are run

VARIABLES
    test,      \* the test of this run
    step,      \* position in its script; 0 when an assertion ended it
    owner,     \* the owner instance: thread, m_run, m_wakeup, queue
    link,      \* external: values on their way to the subscription
    fixture,   \* m_receivedSubscriptionData, m_received
    calls,     \* request number -> "posted", "SUCCESS", "FAILURE"
    failed,    \* expectations that did not hold
    early      \* Stop was called before the thread set m_run

testVars == <<test, step, owner, link, fixture, calls, failed, early>>

-----------------------------------------------------------------------------
(* A value as it is sent: its text, size, quality and unit.                *)
Sent(text, size, quality, unit) ==
    [text |-> text, size |-> size, quality |-> quality, unit |-> unit]
NoValue == Sent("", "small", "none", "none")

(* What an owner instance serves: an initial value, writes that return     *)
(* what was written, and reads of a short value.                           *)
AddPublisher(text, quality, unit) == Sent(text, "small", quality, unit)
AddOnWrite(size) == [served |-> "now", reply |-> size]
AddOnRead        == [served |-> "now", reply |-> "small"]

(* ClampValueToLength takes off as many bytes as the identity, the quality *)
(* and the lengths need: a value of the limit is then sent, and one byte   *)
(* more is not.                                                            *)
ClampValueToLength(text) == IF text = "4MB + 1" THEN "over" ELSE IF text = "4MB" THEN "max" ELSE "small"

(* The scripts of the subscription tests.                                  *)
DataLargerThan4MbWillNotCallSubscription ==
    [kind |-> "subscribe", metadata |-> FALSE, initial |-> AddPublisher("255B", "GOOD", "none"),
     script |-> <<<<"run">>, <<"wait">>, <<"verify", Sent("255B", "small", "GOOD", "none")>>,
                  <<"next", Sent("4MB + 1", ClampValueToLength("4MB + 1"), "GOOD", "none")>>,
                  <<"wait none">>, <<"stop">>, <<"join">>>>]
PublisherSetsQualityBadWhenDisconnected ==
    [kind |-> "subscribe", metadata |-> FALSE, initial |-> AddPublisher("Apple", "GOOD", "none"),
     script |-> <<<<"run">>, <<"wait">>, <<"verify", Sent("Apple", "small", "GOOD", "none")>>,
                  <<"stop">>, <<"join">>, <<"wait">>,
                  <<"verify", Sent("Apple", "small", "BAD", "none")>>>>]
PublisherSendsMetadataToSubscribers ==
    [kind |-> "subscribe", metadata |-> TRUE, initial |-> AddPublisher("Apple", "GOOD", "gal"),
     script |-> <<<<"run">>, <<"wait">>, <<"verify", Sent("Apple", "small", "GOOD", "gal")>>,
                  <<"stop">>, <<"join">>, <<"wait">>,
                  <<"verify", Sent("Apple", "small", "BAD", "gal")>>>>]
DataWithinBoundsWillCallSubscription(text) ==
    [kind |-> "subscribe", metadata |-> FALSE, initial |-> AddPublisher("default", "GOOD", "none"),
     script |-> <<<<"run">>, <<"wait">>, <<"verify", Sent("default", "small", "GOOD", "none")>>,
                  <<"next", Sent(text, ClampValueToLength(text), "GOOD", "none")>>, <<"wait">>,
                  <<"verify", Sent(text, ClampValueToLength(text), "GOOD", "none")>>,
                  <<"stop">>, <<"join">>>>]

(* The fixture ClientRequests serves reads of one parameter and writes of  *)
(* another with an owner instance.  A request: what the server does with   *)
(* it, its sizes, and the status that is expected.                         *)
Request(at, size, expected) ==
    [served |-> at.served, reply |-> at.reply, size |-> size, expected |-> expected]
By(server, reply) == [served |-> server, reply |-> reply]
Requests(own, requests) ==
    [kind |-> "requests", own |-> own, requests |-> requests,
     script |-> (IF own THEN <<<<"run">>>> ELSE <<>>) \o <<<<"request">>, <<"complete">>, <<"stop">>, <<"join">>>>]

MultipleClientWrites ==
    Requests(TRUE, [n \in 1..4 |-> Request(AddOnWrite("small"), "small", "SUCCESS")])
MultipleClientReadsOfDifferentParameters ==
    Requests(FALSE, [n \in 1..3 |-> Request(By("other", "small"), "small", "SUCCESS")])
ServerIsNotAvailable == Requests(FALSE, <<Request(By("nobody", "small"), "small", "FAILURE")>>)
ServerIsAvailable    == Requests(TRUE, <<Request(AddOnRead, "small", "SUCCESS")>>)
ServerDoesNotHaveRequestedContent ==
    Requests(TRUE, <<Request(By("unknown", "small"), "small", "FAILURE")>>)
MultipleRequestsToSameServer ==
    Requests(TRUE, [n \in 1..2 |-> Request(AddOnRead, "small", "SUCCESS")])
ServerSideCanReplyAsynchronously ==
    Requests(FALSE, <<Request(By("later", "small"), "small", "SUCCESS")>>)
WritePayloadExceedsMax == Requests(TRUE, <<Request(AddOnWrite("over"), "over", "FAILURE")>>)
ReadPayloadExceedsMax  == Requests(TRUE, <<Request(AddOnRead, "small", "SUCCESS")>>)
RequestApproachesMax   == Requests(TRUE, <<Request(AddOnWrite("max"), "max", "SUCCESS")>>)
ResponseExceedsMax     == Requests(FALSE, <<Request(By("other", "over"), "small", "FAILURE")>>)

-----------------------------------------------------------------------------
TestInit ==
    /\ test \in Tests
    /\ step = 1
    /\ owner = [at |-> "none", run |-> FALSE, wakeup |-> FALSE, queue |-> <<>>]
    /\ link = <<>>
    /\ fixture = [data |-> NoValue, received |-> FALSE, last |-> NoValue]
    /\ calls = <<>>
    /\ failed = {}
    /\ early = FALSE

At(what) == step \in 1..Len(test.script) /\ test.script[step][1] = what
Done     == step \notin 1..Len(test.script)
Advance  == step' = step + 1

(* Run starts the thread ...                                               *)
OwnerRun ==
    /\ At("run")
    /\ owner' = [owner EXCEPT !.at = "started"]
    /\ Advance
    /\ UNCHANGED <<test, link, fixture, calls, failed, early>>

(* ... which sets m_run and creates the service, whose publisher sends its *)
(* initial value (AddPublisher) to the subscription.                       *)
OwnerSetsRun ==
    /\ owner.at = "started"
    /\ owner' = [owner EXCEPT !.at = "create", !.run = TRUE]
    /\ UNCHANGED <<test, step, link, fixture, calls, failed, early>>

OwnerCreatesService ==
    /\ owner.at = "create"
    /\ owner' = [owner EXCEPT !.at = "loop"]
    /\ link' = IF test.kind = "subscribe" THEN <<test.initial>> ELSE <<>>
    /\ UNCHANGED <<test, step, fixture, calls, failed, early>>

(* A woken thread leaves, or publishes what is queued; a value that was    *)
(* not taken yet is replaced, and one over the limit is not sent.          *)
OwnerWakes ==
    /\ owner.at = "loop"
    /\ owner.run /\ owner.wakeup
    /\ owner' = [owner EXCEPT !.wakeup = FALSE, !.queue = <<>>]
    /\ LET sent == SelectSeq(owner.queue, LAMBDA v : v.size # "over")
       IN  link' = IF sent = <<>> THEN link ELSE <<sent[Len(sent)]>>
    /\ UNCHANGED <<test, step, fixture, calls, failed, early>>

OwnerLeaves ==
    /\ owner.at = "loop"
    /\ ~owner.run
    /\ owner' = [owner EXCEPT !.at = "left"]
    /\ UNCHANGED <<test, step, link, fixture, calls, failed, early>>

(* ~Service: the subscription gets its last value again, as BAD.           *)
OwnerServiceGoes ==
    /\ owner.at = "left"
    /\ owner' = [owner EXCEPT !.at = "ended"]
    /\ link' = IF test.kind = "subscribe" THEN <<[fixture.last EXCEPT !.quality = "BAD"]>> ELSE <<>>
    /\ UNCHANGED <<test, step, fixture, calls, failed, early>>

(* NextValue queues and wakes.                                             *)
NextValue ==
    /\ At("next")
    /\ owner' = [owner EXCEPT !.queue = Append(@, test.script[step][2]), !.wakeup = TRUE]
    /\ Advance
    /\ UNCHANGED <<test, link, fixture, calls, failed, early>>

(* Stop, also called by the destructor, clears m_run and wakes ...         *)
OwnerStop ==
    /\ At("stop")
    /\ owner' = [owner EXCEPT !.run = FALSE, !.wakeup = TRUE]
    /\ early' = (owner.at = "started")
    /\ Advance
    /\ UNCHANGED <<test, link, fixture, calls, failed>>

(* ... and joins the thread.                                               *)
OwnerJoin ==
    /\ At("join")
    /\ owner.at \in {"none", "ended"}
    /\ Advance
    /\ UNCHANGED <<test, owner, link, fixture, calls, failed, early>>

-----------------------------------------------------------------------------
(* ProcessReceivedSubscription: a second value before the first one was    *)
(* verified is a failure.  The unit is kept only with the metadata.        *)
ProcessReceivedSubscription ==
    /\ link # <<>>
    /\ link' = <<>>
    /\ LET v == link[1]
           seen == [v EXCEPT !.unit = IF test.metadata THEN @ ELSE "none"]
       IN  IF fixture.data = NoValue
           THEN /\ fixture' = [data |-> seen, received |-> TRUE, last |-> v]
                /\ UNCHANGED failed
           ELSE /\ fixture' = [fixture EXCEPT !.data = NoValue, !.last = v]
                /\ failed' = failed \cup {"pending value"}
    /\ UNCHANGED <<test, step, owner, calls, early>>

(* WaitForData: ten seconds, in which what is on its way arrives ...       *)
WaitForData ==
    /\ At("wait")
    /\ fixture.received
    /\ fixture' = [fixture EXCEPT !.received = FALSE]
    /\ Advance
    /\ UNCHANGED <<test, owner, link, calls, failed, early>>

(* ... or 100 ms, at the end of which nothing may have come.               *)
WaitForNoData ==
    /\ At("wait none")
    /\ fixture' = [fixture EXCEPT !.received = FALSE]
    /\ failed' = IF fixture.received THEN failed \cup {"status"} ELSE failed
    /\ Advance
    /\ UNCHANGED <<test, owner, link, calls, early>>

(* VerifyAndClearSubscriptionData *)
VerifyAndClear ==
    /\ At("verify")
    /\ failed' = IF fixture.data = test.script[step][2] THEN failed ELSE failed \cup {"value"}
    /\ step' = IF fixture.data = NoValue THEN 0 ELSE step + 1
    /\ fixture' = [fixture EXCEPT !.data = NoValue]
    /\ UNCHANGED <<test, owner, link, calls, early>>

-----------------------------------------------------------------------------
(* The requests of a test are posted at once.                              *)
PostRequests ==
    /\ At("request")
    /\ calls' = [n \in 1..Len(test.requests) |-> "posted"]
    /\ Advance
    /\ UNCHANGED <<test, owner, link, fixture, failed, early>>

Serving(r) == r.served \in {"other", "later"} \/ (r.served # "nobody" /\ owner.at = "loop")

\* Mutant: the client does not look at the size of a request.
OutcomeOfAnySize(r) == IF ~Serving(r) \/ r.served = "unknown" THEN "FAILURE" ELSE "SUCCESS"

(* The client refuses a request over the limit, and the server a reply;    *)
(* without a server, or with one that does not know the parameter, a call  *)
(* fails.                                                                  *)
Outcome(r) ==
    IF r.size = "over" \/ ~Serving(r) \/ r.served = "unknown" \/ r.reply = "over"
    THEN "FAILURE" ELSE "SUCCESS"

(* A call waits for the server to appear unless it fails without one; the  *)
(* discovery is assumed to take less than the client's timeout.            *)
RequestEnds(n) ==
    /\ n \in DOMAIN calls /\ calls[n] = "posted"
    /\ LET r == test.requests[n]
       IN  /\ r.size = "over" \/ Serving(r) \/ r.served = "nobody"
           /\ calls' = [calls EXCEPT ![n] = Outcome(r)]
           /\ failed' = IF Outcome(r) = r.expected THEN failed ELSE failed \cup {"status"}
    /\ UNCHANGED <<test, step, owner, link, fixture, early>>

(* The test waits for its promise, or for the count of its callbacks.      *)
RequestsComplete ==
    /\ At("complete")
    /\ \A n \in DOMAIN calls : calls[n] # "posted"
    /\ Advance
    /\ UNCHANGED <<test, owner, link, fixture, calls, failed, early>>

TestDriver ==
    \/ OwnerRun \/ NextValue \/ OwnerStop \/ OwnerJoin \/ WaitForData \/ WaitForNoData
    \/ VerifyAndClear \/ PostRequests \/ RequestsComplete
OwnerThread ==
    \/ OwnerSetsRun \/ OwnerCreatesService \/ OwnerWakes \/ OwnerLeaves \/ OwnerServiceGoes
Delivery ==
    ProcessReceivedSubscription \/ \E n \in DOMAIN calls : RequestEnds(n)

TestNextState == TestDriver \/ OwnerThread \/ Delivery

-----------------------------------------------------------------------------
(* No expectation of a test fails, in any order of its threads.            *)
TestsHold == failed = {}
=============================================================================
