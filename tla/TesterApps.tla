----------------------------- MODULE TesterApps -----------------------------
(***************************************************************************)
(* middleware-parameters-tester, which publishes, subscribes to, reads or  *)
(* writes parameters from the command line, and stress-tester.  A read or  *)
(* write is sent by a thread of the client's pool and ends with a call of  *)
(* on_complete, which uses variables of the function that waits for it.    *)
(***************************************************************************)
EXTENDS Integers, Sequences, FiniteSets

CONSTANTS
    CommandLines,   \* the command lines tried, as sequences of words
    StressCount,    \* parameters of the stress tester
    ByteMax,        \* UINT8_MAX
    MaxStress       \* bound on the rounds of the stress tester

VARIABLES
    argv,       \* the command line
    parsed,     \* what ParseArgs made of it
    tester,     \* where main is: "parse", an action, "wait", "ended", "failed"
    tried,      \* name number -> how far its read or write is
    mtx,        \* the call whose on_complete holds mtx, or 0
    pending,    \* calls not completed: pending, or ~done
    printed,    \* what was printed
    stress      \* stress-tester: current_value, next_value, what was published

testerVars == <<argv, parsed, tester, tried, mtx, pending, printed, stress>>

-----------------------------------------------------------------------------
Error == [error |-> TRUE]

(* std::stod and std::stoull on the words the command lines use: the first *)
(* understands a hexadecimal number, the second stops at its x; "none" is  *)
(* the exception.  Values are written as words.                            *)
Stod(w)   == CASE w = "12" -> "12" [] w = "0x1F" -> "31" [] OTHER -> "none"
Stoull(w) == CASE w = "12" -> "12" [] w = "0x1F" -> "0" [] OTHER -> "none"

(* ParseDelay drops the suffix "ms".                                       *)
ParseDelay(w) == Stoull(IF w = "12ms" THEN "12" ELSE w)

(* HexToBytes drops the prefix 0x; unhex throws for anything but digits.   *)
HexToBytes(w) == CASE w = "12" -> "18" [] w = "0x1F" -> "31" [] OTHER -> "none"

Kinds == <<"--double_value", "--string_value", "--binary_value", "--boolean_value", "--uinteger64_value">>
Options == {"--name", "--delay"} \cup {Kinds[k] : k \in 1..Len(Kinds)}

(* What ParseArgs makes of one option: numbers are converted at once.      *)
TakeOption(args, option, word) ==
    LET bad == \/ option = "--delay" /\ ParseDelay(word) = "none"
               \/ option = "--double_value" /\ Stod(word) = "none"
               \/ option = "--uinteger64_value" /\ Stoull(word) = "none"
    IN  IF bad THEN Error
        ELSE IF option = "--name" THEN [args EXCEPT !.names = Append(@, word)]
        ELSE IF option = "--delay" THEN [args EXCEPT !.delay = ParseDelay(word)]
        ELSE [args EXCEPT !.values = [k \in DOMAIN @ \cup {option} |->
                                        IF k = option THEN word ELSE @[k]]]

(* ParseArgs: an option without a word after it is skipped, as is a word   *)
(* that is no option; then the combinations are checked.                   *)
ParseArgs(words) ==
    LET parse[i \in Nat] ==   \* of the words before i; <<arguments, next position>>
            IF i < 2 THEN <<[error |-> FALSE, names |-> <<>>, delay |-> "5000", values |-> [k \in {} |-> ""],
                             action |-> IF words[1] \in {"--help", "-h"} THEN "help" ELSE words[1]], 2>>
            ELSE LET before == parse[i - 1]
                 IN  IF before[1].error \/ before[2] # i THEN before
                     ELSE IF words[i] \in Options /\ i + 1 <= Len(words)
                          THEN <<TakeOption(before[1], words[i], words[i + 1]), i + 2>>
                          ELSE <<before[1], i + 1>>
        args == parse[Len(words)][1]
        one == {"pub", "write"}
    IN  IF words = <<>> THEN Error
        ELSE IF args.error THEN Error
        ELSE IF \/ args.names = <<>> /\ args.action # "help"
                \/ args.action \in one /\ (Len(args.names) > 1 \/ DOMAIN args.values = {})
             THEN Error ELSE args

(* The command lines have a list of names, or are refused.                 *)
ASSUME TesterAssumption ==
    /\ \A words \in CommandLines :
          LET args == ParseArgs(words) IN args.error \/ Len(args.names) \in Nat
    /\ StressCount \in Nat \ {0}
    /\ ByteMax \in Nat \ {0}

(* BuildData takes the first kind that was given, in this order.           *)
BuildData(args) ==
    LET k == CHOOSE k \in 1..Len(Kinds) :
                /\ Kinds[k] \in DOMAIN args.values
                /\ \A j \in 1..(k - 1) : Kinds[j] \notin DOMAIN args.values
        word == args.values[Kinds[k]]
    IN  CASE k = 1 -> [kind |-> "double", value |-> Stod(word)]
          [] k = 2 -> [kind |-> "string", value |-> word]
          [] k = 3 -> [kind |-> "binary", value |-> HexToBytes(word)]
          [] k = 4 -> [kind |-> "boolean", value |-> IF word \in {"true", "1"} THEN "true" ELSE "false"]
          [] k = 5 -> [kind |-> "uint64", value |-> Stoull(word)]

(* PrintData shows a value under its kind, a value of no kind as unknown.  *)
Unknown == [kind |-> "unknown type", value |-> ""]
PrintData(id, data) == printed' = printed \cup {<<id, data>>}

-----------------------------------------------------------------------------
TesterInit ==
    /\ argv \in CommandLines
    /\ parsed = Error
    /\ tester = "parse"
    /\ tried = <<>>
    /\ mtx = 0
    /\ pending = 0
    /\ printed = {}
    /\ stress = [current |-> 1, next |-> 0, left |-> {}, rounds |-> 0,
                 published |-> [i \in 1..StressCount |-> 0]]

(* main dispatches; every exception ends it with code 1.                   *)
TesterMain ==
    /\ tester = "parse"
    /\ parsed' = ParseArgs(argv)
    /\ tester' = IF parsed'.error \/ parsed'.action \notin {"help", "pub", "sub", "read", "write"} THEN "failed"
                 ELSE IF parsed'.action = "help" THEN "ended" ELSE parsed'.action
    /\ UNCHANGED <<argv, tried, mtx, pending, printed, stress>>

Fail == tester' = "failed" /\ UNCHANGED <<tried, pending, printed>>

(* RunPub and RunWrite fail on bytes that are not hexadecimal.             *)
Unbuildable == BuildData(parsed).kind = "binary" /\ BuildData(parsed).value = "none"

RunPub ==
    /\ tester = "pub"
    /\ IF Unbuildable THEN Fail
       ELSE /\ PrintData(parsed.names[1], BuildData(parsed))
            /\ tester' = "ended"
            /\ UNCHANGED <<tried, pending>>
    /\ UNCHANGED <<argv, parsed, mtx, stress>>

(* RunSub waits for ever; its callbacks print the updates they get.        *)
RunSub ==
    /\ tester = "sub"
    /\ \E n \in 1..Len(parsed.names) : PrintData(parsed.names[n], Unknown)
    /\ UNCHANGED <<argv, parsed, tester, tried, mtx, pending, stress>>

(* RunRead posts a read per name, RunWrite one write; both then wait.      *)
RunRead ==
    /\ tester = "read"
    /\ tried' = [n \in 1..Len(parsed.names) |-> "posted"]
    /\ pending' = Len(parsed.names)
    /\ tester' = "wait"
    /\ UNCHANGED <<argv, parsed, mtx, printed, stress>>

RunWrite ==
    /\ tester = "write"
    /\ IF Unbuildable THEN Fail
       ELSE /\ tried' = <<"posted">>
            /\ pending' = 1
            /\ tester' = "wait"
            /\ UNCHANGED printed
    /\ UNCHANGED <<argv, parsed, mtx, stress>>

(* A thread of the pool completes a call, with an answer or a failure:     *)
(* on_complete prints, locks, counts, notifies and unlocks.                *)
PrintComplete(n) ==
    /\ tried[n] = "posted"
    /\ \E data \in {Unknown} \cup (IF parsed.action = "write" THEN {BuildData(parsed)} ELSE {}) :
          PrintData(parsed.names[n], data)
    /\ tried' = [tried EXCEPT ![n] = "printed"]
    /\ UNCHANGED <<tester, mtx, pending>>

CountComplete(n) ==
    /\ tried[n] = "printed"
    /\ mtx = 0
    /\ mtx' = n
    /\ pending' = pending - 1
    /\ tried' = [tried EXCEPT ![n] = "counted"]
    /\ UNCHANGED <<tester, printed>>

NotifyComplete(n) ==
    /\ tried[n] = "counted"
    /\ mtx' = 0
    /\ tried' = [tried EXCEPT ![n] = "done"]
    /\ tester' = IF tester = "blocked" THEN "wait" ELSE tester
    /\ UNCHANGED <<pending, printed>>

OnComplete(n) ==
    /\ n \in DOMAIN tried
    /\ PrintComplete(n) \/ CountComplete(n) \/ NotifyComplete(n)
    /\ UNCHANGED <<argv, parsed, stress>>

(* cv.wait tests its predicate under the mutex; blocking releases it.      *)
WaitForCalls ==
    /\ tester = "wait"
    /\ mtx = 0
    /\ tester' = IF pending = 0 THEN "ended" ELSE "blocked"
    /\ UNCHANGED <<argv, parsed, tried, mtx, pending, printed, stress>>

-----------------------------------------------------------------------------
(* stress-tester: a round publishes next_value to every parameter, and     *)
(* current_value starts again at 0.                                        *)
StressRound ==
    /\ stress.left = {}
    /\ stress.rounds < MaxStress
    /\ stress' = [stress EXCEPT !.next = stress.current, !.rounds = @ + 1, !.left = 1..StressCount,
                    !.current = stress.current + 1]
    /\ UNCHANGED <<argv, parsed, tester, tried, mtx, pending, printed>>

ResetValue(c) == IF c > ByteMax THEN 0 ELSE c

StressPublish ==
    /\ stress.left # {}
    /\ LET i == CHOOSE i \in stress.left : \A j \in stress.left : i <= j
       IN  stress' = [stress EXCEPT !.published[i] = stress.next, !.left = @ \ {i},
                        !.current = IF stress.left = {i} THEN ResetValue(@) ELSE @]
    /\ UNCHANGED <<argv, parsed, tester, tried, mtx, pending, printed>>

TesterMainThread == TesterMain \/ RunPub \/ RunRead \/ RunWrite \/ WaitForCalls

TesterNextState ==
    \/ TesterMainThread \/ RunSub
    \/ \E n \in DOMAIN tried : OnComplete(n)
    \/ StressRound \/ StressPublish

-----------------------------------------------------------------------------
(* The function that waits returns only when no callback can still touch   *)
(* its mutex, condition or counter.                                        *)
TesterLocalsAlive ==
    tester = "ended" => \A n \in DOMAIN tried : tried[n] = "done"

(* The parameters of a stress tester are at most one round apart, through  *)
(* the start from 0, and in a byte.                                        *)
StressInStep ==
    \A i, j \in 1..StressCount :
        /\ stress.published[i] \in 0..ByteMax
        /\ i < j => stress.published[i] - stress.published[j] \in {0, 1, -ByteMax}
=============================================================================
