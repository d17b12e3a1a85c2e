--------------------------- MODULE LatencyWindow ---------------------------
(***************************************************************************)
(* The running average of travel times that ParameterSubscribe,            *)
(* ParameterReadClient and ParameterBuddyGen7CDAClient keep: the array     *)
(* RunningAverage[SAMPLE_AVERAGE], the index WhichSample and the flag      *)
(* TossFirstTiming.  A slot is reduced to whether it was ever written, a   *)
(* travel time to whether the two clocks are more than ten seconds apart   *)
(* ("skewed").                                                             *)
(***************************************************************************)
EXTENDS Naturals

CONSTANT SampleAverage   \* SAMPLE_AVERAGE: 50 in the programs

ASSUME SampleAverageAssumption == SampleAverage \in Nat \ {0, 1}

Slots == 0..(SampleAverage - 1)

NewWindow ==
    [written |-> {},      \* the slots that hold a travel time
     which |-> 0,         \* WhichSample
     toss |-> TRUE,       \* TossFirstTiming
     skipped |-> FALSE,   \* a skewed sample left a slot as it was
     overrun |-> FALSE,   \* a travel time was stored behind the array
     printed |-> {}]      \* per statistics printed: were all slots written?

\* Mutant: the counter is not reset.
SkipForever(w) == [w EXCEPT !.which = @ + 1, !.skipped = TRUE]

(* A skewed sample leaves its slot as it is.                               *)
SkipSlot(w) ==
    [w EXCEPT !.which = IF @ + 1 = SampleAverage THEN 0 ELSE @ + 1, !.skipped = TRUE]

(* RunningAverage[WhichSample++]; the first sample is tossed.              *)
StoreTravelTime(w) ==
    IF w.toss THEN [w EXCEPT !.toss = FALSE]
    ELSE [w EXCEPT !.written = @ \cup ({w.which} \cap Slots),
                   !.which = @ + 1,
                   !.overrun = @ \/ w.which \notin Slots]

(* A full window is printed from all of its slots.                         *)
PrintWhenFull(w) ==
    IF w.which # SampleAverage THEN w
    ELSE [w EXCEPT !.which = 0, !.printed = @ \cup {w.written = Slots}]

(* ParameterSubscribe and ParameterReadClient store a travel time of zero  *)
(* after they skipped a slot.                                              *)
TimeSubscription(w, skewed) ==
    PrintWhenFull(StoreTravelTime(IF skewed THEN SkipSlot(w) ELSE w))

(* The mirror client goes back to its blocking read instead.               *)
TimeMirrored(w, skewed) ==
    IF skewed THEN SkipSlot(w) ELSE PrintWhenFull(StoreTravelTime(w))
=============================================================================
