----------------------------- MODULE MCChannel ------------------------------
(* One channel with its history, checked against ChannelModes as well. *)
EXTENDS ChannelHistory, ChannelRefinement

\* Readings over the codes 0 .. 3 the scan drives and 4, which the operating
\* point may move to. 4 is a saturated reading. The powers make hills with their
\* peak at 1 or 2, a plateau (1 * 4 = 2 * 2), slopes that never come down (3 * 2)
\* and flat zero.
MCCurve == [c \in 0 .. 4 |-> <<{0, 2}, {0, 4}, {0, 2}, {0, 2}, {2}>>[c + 1]]

\* A window of two milliseconds, and one that a loop of two may jump over, after a
\* settling time that is longer than a write of the DAC.
MCParams ==
    {[settle |-> 1, sample |-> 2, delay |-> 1, threshold |-> 1],
     [settle |-> 3, sample |-> 1, delay |-> 1, threshold |-> 1]}

MCDefault == [settle |-> 1, sample |-> 2, delay |-> 1, threshold |-> 1]

MCLoopTimes == {1, 2}

MCDacWriteTimes == {1}
=============================================================================
