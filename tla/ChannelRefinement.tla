------------------------- MODULE ChannelRefinement --------------------------
(* The state machine of LifeTester/StateMachine.cpp implements ChannelModes. *)
EXTENDS StateMachine

ModeOf(l) ==
    CASE l.state = "Initialise" -> "init"
      [] l.state \in {"ScanningMode", "MeasureScan"} -> "scan"
      [] l.state \in TrackingStates -> "track"
      [] OTHER -> "error"

TaskOf(l) ==
    CASE l.state = "TrackingDelay" -> "delay"
      [] l.state \in MeasureStates -> PointOf(l.state)
      [] OTHER -> "none"

\* vScan counts the points of a scan; the done flags count the tasks of a cycle.
DoneOf(l) ==
    CASE ModeOf(l) = "scan" -> l.v["scan"]
      [] ModeOf(l) = "track" /\ ~l.delayDone -> 0
      [] ModeOf(l) = "track" /\ l.delayDone /\ ~l.thisDone -> 1
      [] ModeOf(l) = "track" /\ l.delayDone /\ l.thisDone /\ ~l.nextDone -> 2
      [] ModeOf(l) = "track" /\ l.delayDone /\ l.thisDone /\ l.nextDone -> 3
      [] OTHER -> 0

Modes == INSTANCE ChannelModes WITH
    mode   <- ModeOf(lt),
    task   <- TaskOf(lt),
    done   <- DoneOf(lt),
    point  <- lt.v["this"],
    output <- lt.dac

\* Every step of the state machine is a step of the abstract channel or leaves
\* it unchanged: the order of scan, delay, measurements and moves, the start
\* strictly inside the scan range, no failure in the middle of a measurement,
\* and zero output until a reset after one.
ImplementsModes == Modes!Spec
=============================================================================
