---------------------------- MODULE ChannelModes ----------------------------
(***************************************************************************)
(* What a channel promises, without time, currents or the state hierarchy: *)
(* it checks its device, scans every code of the scan range once and in    *)
(* order, starts tracking strictly inside the range, then repeats the      *)
(* cycle delay, this point, next point, move by one code.  It gives up     *)
(* only between measurements, after a result, and then drives zero volts   *)
(* until it is reset.  StateMachine implements it (ChannelRefinement).     *)
(***************************************************************************)
EXTENDS Integers

CONSTANTS CodeMod, V_SCAN_MAX

VARIABLES
    mode,    \* "init", "scan", "track" or "error"
    task,    \* what is going on now: "none", "delay" or a measurement
    done,    \* tasks finished in this scan or in this tracking cycle
    point,   \* the code of the operating point that is tracked
    output   \* the code driven by the DAC

modeVars == <<mode, task, done, point, output>>

Cycle == <<"delay", "this", "next">>

\* The code the DAC drives while a task goes on; the delay leaves it alone.
TaskOutput(t) ==
    CASE t = "scan" -> done
      [] t = "this" -> point
      [] t = "next" -> (point + 1) % CodeMod
      [] OTHER -> output

Init ==
    /\ mode = "init" /\ task = "none" /\ done = 0
    /\ point = 0 /\ output = 0

StartScan ==
    /\ mode = "init"
    /\ mode' = "scan"
    /\ UNCHANGED <<task, done, point, output>>

Begin(t) ==
    /\ task = "none"
    /\ \/ mode = "scan" /\ done <= V_SCAN_MAX /\ t = "scan"
       \/ mode = "track" /\ done < 3 /\ t = Cycle[done + 1]
    /\ task' = t
    /\ output' = TaskOutput(t)
    /\ UNCHANGED <<mode, done, point>>

Finish ==
    /\ task # "none"
    /\ task' = "none"
    /\ done' = done + 1
    /\ UNCHANGED <<mode, point, output>>

\* The end points of the range never win a scan of the right shape.
StartTracking ==
    /\ mode = "scan" /\ task = "none" /\ done = V_SCAN_MAX + 1
    /\ mode' = "track"
    /\ done' = 0
    /\ point' \in 1 .. V_SCAN_MAX - 1
    /\ UNCHANGED <<task, output>>

Move ==
    /\ mode = "track" /\ task = "none" /\ done = 3
    /\ point' \in {(point + 1) % CodeMod, (point - 1) % CodeMod}
    /\ done' = 0
    /\ UNCHANGED <<mode, task, output>>

Fail ==
    /\ task = "none"
    /\ \/ mode = "init"
       \/ mode = "scan" /\ done = V_SCAN_MAX + 1
       \/ mode = "track" /\ done \in {2, 3}
    /\ mode' = "error"
    /\ done' = 0
    /\ output' = 0
    /\ UNCHANGED <<task, point>>

Reset ==
    /\ mode' = "init" /\ task' = "none" /\ done' = 0
    /\ point' = 0 /\ output' = 0

Next ==
    \/ StartScan
    \/ \E t \in {"scan", "delay", "this", "next"} : Begin(t)
    \/ Finish
    \/ StartTracking
    \/ Move
    \/ Fail
    \/ Reset

Spec == Init /\ [][Next]_modeVars
=============================================================================
