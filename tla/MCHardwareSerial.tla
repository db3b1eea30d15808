-------------------------- MODULE MCHardwareSerial --------------------------
(* A small instance of HardwareSerial.  The two directions share end() and    *)
(* the interrupt flag only, so that they are checked one at a time.           *)
EXTENDS HardwareSerial

MCPrograms == {{"write"}, {"read"}}
=============================================================================
