------------------------------ MODULE MCBoard -------------------------------
(* A small instance of Board: pin 3 is on timer 2, 5 is an LED's and on       *)
(* timer 0, 7 the comms LED that the handlers of Wire write to.               *)
EXTENDS Board

MCPrograms == {{"digital", "pwm", "analog", "comms"}, {"tone", "pwm", "comms"},
               {"led", "comms"}, {"external", "edges"}, {"external", "spi"}}

MCTones == {[frequency |-> 1000, duration |-> 1], [frequency |-> 30, duration |-> 0]}

MCFlashTimes == {<<2, 1>>}

MCFlashCounts == {-1, 0, 2}
=============================================================================
