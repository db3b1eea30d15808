----------------------------- MODULE MCRealScan -----------------------------
(* ChannelHistory with the widths and limits of the build, for the device of *)
(* the test RunIvScanBadDiodeNoMppReturned: the same current at every code.  *)
EXTENDS ChannelHistory

FIXED_CURRENT == 2459

MCCurve == [c \in 0 .. 255 |-> {FIXED_CURRENT}]

MCDefault == [settle |-> 200, sample |-> 200, delay |-> 200, threshold |-> 100]

MCParams == {MCDefault}

MCLoopTimes == {200}

MCDacWriteTimes == {2}
=============================================================================
