---------------------------- MODULE MCIoWrapper -----------------------------
(* A small instance of IoWrapper with the clocks of MX7705Private.h,          *)
(* MCP4802Private.h and TC77Private.h: 1 degree below zero, 20 degrees and    *)
(* 130 degrees are what the sensor may measure.  The parts share the bus,     *)
(* and are taken one or two at a time.                                        *)
EXTENDS IoWrapper

MCSpeeds == [chip \in Chips |-> CASE chip = "adc"  -> 5000000
                                  [] chip = "dac"  -> 20000000
                                  [] chip = "temp" -> 7000000]

MCPrograms == {{"dac", "adc"}, {"dac", "dac_gain"}, {"temp"}, {"gain"}}

MCTemperatures == {-16, 320, 2080}
=============================================================================
