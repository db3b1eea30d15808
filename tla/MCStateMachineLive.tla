------------------------- MODULE MCStateMachineLive -------------------------
(* An instance of StateMachine whose loop never misses a sampling window:    *)
(* no LoopTime exceeds a sample time.                                        *)
EXTENDS StateMachine

\* A hill over the codes 0 .. 2; each code may also read low or saturated.
MCCurve == [c \in 0 .. 3 |-> <<{0, 2}, {5}, {2, 6}, {1, 3}>>[c + 1]]

MCParams ==
    [settle : {1, 3}, sample : {2}, delay : {1}, threshold : {1}]

MCDefault == [settle |-> 1, sample |-> 2, delay |-> 1, threshold |-> 1]

MCLoopTimes == {1, 2}

MCDacWriteTimes == {1}
=============================================================================
