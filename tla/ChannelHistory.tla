--------------------------- MODULE ChannelHistory ---------------------------
(***************************************************************************)
(* StateMachine with history variables: what the channel did to the device *)
(* and what the device answered, independently of the fields the code      *)
(* keeps.  They only record; every step is a step of StateMachine.         *)
(***************************************************************************)
EXTENDS StateMachine

CONSTANT QuietCap   \* longest settling time the history tells apart

ASSUME QuietAssumption ==
    /\ QuietCap \in Nat
    /\ \A c \in Params : c.settle <= QuietCap

VARIABLES
    quiet,    \* milliseconds since the DAC output last changed, up to QuietCap
    scanned,  \* <<code, current>> of every point measured in this scan
    streak,   \* bad readings since the last good one
    tracked   \* a good reading was taken in tracking mode since the reset

history == <<quiet, scanned, streak, tracked>>

hvars == <<lt, now, config, quiet, scanned, streak, tracked>>

UpToCap(d) == IF d > QuietCap THEN QuietCap ELSE d

\* The output changes at the end of a step.
QuietAfter(d) == IF lt'.dac # lt.dac THEN 0 ELSE UpToCap(quiet + d)

\* The short-circuit reading of InitialiseStep, judged in this step.
InitReading ==
    /\ lt.state = "Initialise"
    /\ lt'.state = "ScanningMode" \/ lt'.nErrorReads # lt.nErrorReads

\* The average of a tracking measurement, judged in this step.
TrackReading ==
    /\ lt.state \in {"MeasureThis", "MeasureNext"}
    /\ lt'.state = "TrackingMode"

\* The output is zero from DacInit on, which setup() calls before it resets the
\* channels: at least since that reset has begun.
HInit ==
    /\ Init
    /\ quiet = UpToCap(Elapsed(lt, now))
    /\ scanned = {} /\ streak = 0 /\ tracked = FALSE

HUpdateStep ==
    /\ UpdateStep
    /\ quiet' = QuietAfter((now' - now) % TimeMod)
    /\ scanned' =
          CASE lt.state = "MeasureScan" /\ lt'.state = "ScanningMode" ->
                  scanned \cup {<<lt.v["scan"], lt'.i["scan"]>>}
            [] lt'.state = "TrackingMode" -> {}
            [] OTHER -> scanned
    /\ streak' =
          CASE InitReading \/ TrackReading ->
                  IF lt'.error = "ok" THEN 0 ELSE streak + 1
            [] OTHER -> streak
    /\ tracked' = (tracked \/ (TrackReading /\ lt'.error = "ok"))

HReset ==
    /\ Reset
    /\ quiet' = QuietAfter((now' - now) % TimeMod)
    /\ scanned' = {} /\ streak' = 0 /\ tracked' = FALSE

HSetParams ==
    /\ SetParams
    /\ UNCHANGED history

HNext == HUpdateStep \/ HReset \/ HSetParams

HSpec == HInit /\ [][HNext]_hvars

-----------------------------------------------------------------------------
(* Properties *)

\* No sample of a scan or of the tracking is asked for before the output has been
\* constant for the settling time in force, however the millisecond counter wraps
\* around and whatever the master does to the parameters.  A short-circuit reading
\* may come early, but by no more than one write of the DAC takes: InitialiseEntry
\* starts its timer before it writes zero, MeasureDataPointEntry after its write.
ReadingsAreSettled ==
    [][/\ lt'.nSamples > lt.nSamples => quiet' >= config.settle
       /\ InitReading /\ HUpdateStep =>
             \E d \in DacWriteTimes : quiet' + d >= config.settle]_hvars

\* Powers as the device delivered them, not as the code computed them.
TruePower(pt) == pt[1] * pt[2]

\* The points of a scan make a hill: some point beats both ends.
IsHill ==
    \E pt \in scanned : \A end \in scanned :
        end[1] \in {V_SCAN_MIN, V_SCAN_MAX} => TruePower(pt) > TruePower(end)

\* The first point with the highest power of the scan.
IsPeak(code) ==
    \E pt \in scanned :
        /\ pt[1] = code
        /\ \A other \in scanned :
              \/ TruePower(pt) > TruePower(other)
              \/ TruePower(pt) = TruePower(other) /\ code <= other[1]

\* When a scan ends, every code of the range has been measured exactly once,
\* and the channel goes on to track from the first maximum if the scan is a
\* hill and fails with invalidScan if it is not.
ScanFindsPeak ==
    [][lt.state = "ScanningMode" /\ lt'.state # "MeasureScan" /\ HUpdateStep =>
          /\ {pt[1] : pt \in scanned} = V_SCAN_MIN .. V_SCAN_MAX
          /\ \A pt, other \in scanned : pt[1] = other[1] => pt = other
          /\ IF IsHill
             THEN lt'.state = "TrackingMode" /\ IsPeak(lt'.v["this"])
             ELSE lt'.state = "Error" /\ lt'.error = "invalidScan"]_hvars

\* TestStateMachine.cpp on a device with a constant current: "power shape is not
\* hill shaped. Expect error to be returned."
NonHillScanFails ==
    [][HUpdateStep /\ lt.state = "ScanningMode" /\ ~IsHill
          => lt'.state # "TrackingMode"]_hvars

\* After one good tracking measurement nErrorReads is the number of bad ones
\* in succession, so that a channel survives any pattern of faults with no
\* more than MAX_ERROR_READS in a row, and fails on the next one.
ErrorReadsAreInSuccession == tracked => lt.nErrorReads = streak

\* The comment in MeasureDataPointEntry: "Transition to error state only if
\* there have been lots of error readings in succession".
FailsOnlyInSuccession ==
    [][HUpdateStep /\ lt.state # "Error" /\ lt'.state = "Error"
          /\ lt'.error # "invalidScan" => streak > MAX_ERROR_READS]_hvars
=============================================================================
