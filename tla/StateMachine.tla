---------------------------- MODULE StateMachine ----------------------------
(***************************************************************************)
(* One channel of the life tester: the hierarchical state machine of       *)
(* LifeTester/StateMachine.cpp, which drives a device through a DAC, finds *)
(* its maximum power point in a voltage scan and then tracks it.           *)
(*                                                                         *)
(* The C functions take a LifeTester_t and update it in place; here each   *)
(* is an operator from the record before the call to the record after it,  *)
(* under the same name.  The step, exit, entry and transition functions a  *)
(* call of StateMachine_UpdateStep runs are composed, so that one call is  *)
(* one step of the specification: nothing of the main loop runs between    *)
(* them, and the interrupt handlers touch only the parameters (config).    *)
(*                                                                         *)
(* vActive, iActive and pActive are always assigned together (lines        *)
(* 209-239): they are the one field "active", which names a point.         *)
(***************************************************************************)
EXTENDS Integers

CONSTANTS
    CodeMod,          \* a DAC code is a uint8_t: 2^8
    WordMod,          \* int has 16 bits on the ATmega328P: 2^16
    TimeMod,          \* millis() is a uint32_t: 2^32
    V_SCAN_MAX,       \* the last code of a scan
    MAX_ERROR_READS,  \* bad readings a channel survives
    MIN_CURRENT,      \* a tracked current below this is an error
    MAX_CURRENT,      \* a current at or above this is saturated
    Params,           \* the parameter records the master may have set
    DefaultParams,    \* the parameters of Config_InitParams
    LoopTimes,        \* milliseconds from one UpdateStep to the next
    DacWriteTimes,    \* milliseconds a call of DacSetOutput takes to the new output
    Curve             \* ADC readings the device may give at each DAC code

Codes == 0 .. CodeMod - 1
Words == 0 .. WordMod - 1
Times == 0 .. TimeMod - 1

ParamRecords ==
    [settle : Words, sample : Words, delay : Words, threshold : Words]

ASSUME WidthAssumption ==
    /\ CodeMod \in Nat /\ CodeMod > 1
    /\ WordMod \in Nat /\ WordMod > 1
    /\ TimeMod \in Nat /\ TimeMod > 0

ASSUME LimitAssumption ==
    /\ V_SCAN_MAX \in Nat /\ V_SCAN_MAX > 0 /\ V_SCAN_MAX + 1 < CodeMod
    /\ MAX_ERROR_READS \in Nat /\ MAX_ERROR_READS + 1 < WordMod
    /\ MIN_CURRENT \in Nat
    /\ MAX_CURRENT \in Nat

ASSUME EnvironmentAssumption ==
    /\ Params \subseteq ParamRecords
    /\ DefaultParams \in Params
    /\ LoopTimes \subseteq 1 .. TimeMod - 1
    /\ DacWriteTimes \subseteq 1 .. TimeMod - 1
    /\ Curve \in [Codes -> (SUBSET Words) \ {{}}]

V_SCAN_MIN == 0
DV_SCAN == 1
DV_MPPT == 1

VARIABLES
    lt,      \* the LifeTester_t of the channel, with its LED and DAC output
    now,     \* millis() at the end of the last call of UpdateStep or Reset
    config   \* the static parameters of Common/Config.cpp

vars == <<lt, now, config>>

-----------------------------------------------------------------------------
(* The LifeTester_t record *)

Points == {"this", "next", "scan"}

MeasureStates == {"MeasureThis", "MeasureNext", "MeasureScan"}

States == MeasureStates \cup
    {"None", "Initialise", "ScanningMode", "TrackingMode", "TrackingDelay", "Error"}

Errors == {"ok", "lowCurrent", "currentLimit", "currentThreshold",
           "invalidScan", "DacSetFailed"}

LedPatterns == {"init", "scan", "off", "oneFlash", "twoFlashes", "error"}

LifeTester ==
    [state : States, active : Points \cup {"NULL"}, error : Errors,
     led : LedPatterns, dac : Codes, timer : Times,
     v : [Points -> Codes], i : [Points -> Words], p : [Points -> Words],
     vScanMpp : Codes, iScanMpp : Words, pScanMpp : Words,
     pScanInitial : Words, pScanFinal : Words,
     iSampleSum : Nat, nSamples : Nat, nErrorReads : Words,
     thisDone : BOOLEAN, nextDone : BOOLEAN, delayDone : BOOLEAN]

\* uint8_t * uint16_t is computed in a 16-bit unsigned int before it is
\* stored in the uint32_t power.
Power(v, i) == (v * i) % WordMod

Elapsed(l, t) == (t - l.timer) % TimeMod

Parent(s) ==
    CASE s = "MeasureScan" -> "ScanningMode"
      [] s \in {"MeasureThis", "MeasureNext", "TrackingDelay"} -> "TrackingMode"
      [] OTHER -> "NULL"

-----------------------------------------------------------------------------
(* Entry and exit functions *)

\* The timer is read before the DAC is written, which waits twice for the delay
\* of its chip select: the output is zero from the end of the call on (OutputSet).
InitialiseEntry(l, t) ==
    LET zero == [pt \in Points |-> 0]
    IN  [state |-> l.state, active |-> "NULL", error |-> "ok",
         led |-> "init", dac |-> 0, timer |-> t,
         v |-> zero, i |-> zero, p |-> zero,
         vScanMpp |-> 0, iScanMpp |-> 0, pScanMpp |-> 0,
         pScanInitial |-> 0, pScanFinal |-> 0,
         iSampleSum |-> 0, nSamples |-> 0, nErrorReads |-> 0,
         thisDone |-> FALSE, nextDone |-> FALSE, delayDone |-> FALSE]

ScanningModeEntry(l) == [l EXCEPT !.led = "scan", !.v["scan"] = 0]

ScanningModeExit(l) == [l EXCEPT !.led = "off"]

TrackingDelayEntry(l, t) == [l EXCEPT !.timer = t]

\* Mutant: the end of the delay is not recorded.
Mut_DelayForgotten(l) == l

TrackingDelayExit(l) == [l EXCEPT !.delayDone = TRUE]

\* Mutant: a failed channel keeps driving its device.
Mut_OutputLeftOn(l) == [l EXCEPT !.led = "error"]

ErrorEntry(l) == [l EXCEPT !.led = "error", !.dac = 0]

\* Mutant: the last of several maxima wins the scan.
Mut_LastMaximum(l) ==
    LET power == Power(l.v["scan"], l.i["scan"])
        best  == power >= l.pScanMpp
    IN  [l EXCEPT !.p["scan"] = power,
                  !.pScanMpp = IF best THEN power ELSE @,
                  !.iScanMpp = IF best THEN l.i["scan"] ELSE @,
                  !.vScanMpp = IF best THEN l.v["scan"] ELSE @,
                  !.pScanInitial = IF l.v["scan"] = V_SCAN_MIN THEN power ELSE @,
                  !.pScanFinal = IF l.v["scan"] = V_SCAN_MAX THEN power ELSE @]

UpdateScanData(l) ==
    LET power == Power(l.v["scan"], l.i["scan"])
        best  == power > l.pScanMpp
    IN  [l EXCEPT !.p["scan"] = power,
                  !.pScanMpp = IF best THEN power ELSE @,
                  !.iScanMpp = IF best THEN l.i["scan"] ELSE @,
                  !.vScanMpp = IF best THEN l.v["scan"] ELSE @,
                  !.pScanInitial = IF l.v["scan"] = V_SCAN_MIN THEN power ELSE @,
                  !.pScanFinal =
                      IF l.v["scan"] # V_SCAN_MIN /\ l.v["scan"] = V_SCAN_MAX
                      THEN power ELSE @]

MeasureScanDataPointExit(l) ==
    [UpdateScanData(l) EXCEPT !.v["scan"] = (@ + DV_SCAN) % CodeMod]

\* Mutant: a good reading does not clear the count.
Mut_CountNotCleared(l) ==
    LET bad(e) == [l EXCEPT !.error = e, !.nErrorReads = (@ + 1) % WordMod]
    IN  CASE l.i[l.active] < MIN_CURRENT -> bad("lowCurrent")
          [] l.i[l.active] >= MIN_CURRENT /\ l.i[l.active] >= MAX_CURRENT ->
                bad("currentLimit")
          [] OTHER -> [l EXCEPT !.error = "ok"]

UpdateErrorReadings(l) ==
    LET bad(e) == [l EXCEPT !.error = e, !.nErrorReads = (@ + 1) % WordMod]
    IN  CASE l.i[l.active] < MIN_CURRENT -> bad("lowCurrent")
          [] l.i[l.active] >= MIN_CURRENT /\ l.i[l.active] >= MAX_CURRENT ->
                bad("currentLimit")
          [] OTHER -> [l EXCEPT !.error = "ok", !.nErrorReads = 0]

MeasureThisDataPointExit(l) ==
    UpdateErrorReadings([l EXCEPT !.thisDone = TRUE])

MeasureNextDataPointExit(l) ==
    UpdateErrorReadings([l EXCEPT !.nextDone = TRUE])

\* The exit function of state s, which no state but these has.
RunExit(l, s) ==
    CASE s = "ScanningMode"  -> ScanningModeExit(l)
      [] s = "MeasureScan"   -> MeasureScanDataPointExit(l)
      [] s = "MeasureThis"   -> MeasureThisDataPointExit(l)
      [] s = "MeasureNext"   -> MeasureNextDataPointExit(l)
      [] s = "TrackingDelay" -> TrackingDelayExit(l)
      [] OTHER -> l

-----------------------------------------------------------------------------
(* Transitions: StateMachineTransitionToState runs the exit functions      *)
(* (Leave), then the entry functions (Arrive), then stores the state.      *)

\* Neither already there, nor from a parent to its child.
ExitsChild(s, target) == target # s /\ Parent(target) # s

\* Neither already there, nor from a child to its parent.
EntersChild(s, target) == target # s /\ target # Parent(s)

\* Between states that are not parent and child or children of one parent.
CrossesParents(s, target) ==
    /\ ExitsChild(s, target) /\ EntersChild(s, target)
    /\ Parent(target) # Parent(s)

ExitParent(l, parent) == IF parent = "ScanningMode" THEN ScanningModeExit(l) ELSE l

EnterParent(l, parent) == IF parent = "ScanningMode" THEN ScanningModeEntry(l) ELSE l

LeaveChild(l, target) == IF ExitsChild(l.state, target) THEN RunExit(l, l.state) ELSE l

Leave(l, target) ==
    IF CrossesParents(l.state, target)
    THEN ExitParent(LeaveChild(l, target), Parent(l.state))
    ELSE LeaveChild(l, target)

\* ErrorEvent raised inside an entry function: it is dispatched on the state
\* being left, whose transition runs to its end before the entry goes on.
RaiseErrorInEntry(l) ==
    IF l.state \in {"None", "TrackingDelay", "Error"}
    THEN l
    ELSE [ErrorEntry(Leave(l, "Error")) EXCEPT !.state = "Error"]

\* The timer is read after the DAC was written.
ResetForNextMeasurement(l, t) ==
    [l EXCEPT !.nSamples = 0, !.iSampleSum = 0, !.timer = t]

CheckErrorReads(l) ==
    IF l.nErrorReads > MAX_ERROR_READS THEN RaiseErrorInEntry(l) ELSE l

\* The output read back is the copy DacSetOutput has just stored.
CheckDacOutput(l, t) ==
    IF l.dac # l.v[l.active]
    THEN RaiseErrorInEntry([l EXCEPT !.error = "DacSetFailed"])
    ELSE ResetForNextMeasurement(l, t)

DacSetOutputToActiveVoltage(l) == [l EXCEPT !.dac = l.v[l.active]]

MeasureDataPointEntry(l, t) ==
    CheckDacOutput(DacSetOutputToActiveVoltage(CheckErrorReads(l)), t)

RunEntry(l, s, t) ==
    CASE s = "Initialise"       -> InitialiseEntry(l, t)
      [] s = "ScanningMode"     -> ScanningModeEntry(l)
      [] s = "TrackingDelay"    -> TrackingDelayEntry(l, t)
      [] s \in MeasureStates    -> MeasureDataPointEntry(l, t)
      [] s = "Error"            -> ErrorEntry(l)
      [] OTHER -> l

Arrive(l, from, target, t) ==
    IF EntersChild(from, target)
    THEN RunEntry(IF CrossesParents(from, target)
                  THEN EnterParent(l, Parent(target)) ELSE l, target, t)
    ELSE l

TransitionToState(l, target, t) ==
    [Arrive(Leave(l, target), l.state, target, t) EXCEPT !.state = target]

-----------------------------------------------------------------------------
(* Transition functions: the state that an event leads to.  A transition   *)
(* to the current state does nothing, which stands for none at all.        *)

Go(l, target) == [lt |-> l, target |-> target]

Stay(l) == Go(l, l.state)

InitialiseTran(l, e) ==
    CASE e = "MeasurementDone" -> Go([l EXCEPT !.active = "scan"], "ScanningMode")
      [] e = "Error" -> Go(l, "Error")
      [] OTHER -> Go(l, "Initialise")

ScanningModeTran(l, e) ==
    CASE e = "MeasurementStart" -> Go([l EXCEPT !.active = "scan"], "MeasureScan")
      [] e = "ScanningDone" -> Go([l EXCEPT !.active = "this"], "TrackingMode")
      [] e = "Error" -> Go(l, "Error")
      [] OTHER -> Stay(l)

\* Mutant: the pointers still select this point when the next one is measured.
Mut_NextNotActivated(l, e) ==
    CASE e = "MeasurementStart" /\ ~l.thisDone ->
            Go([l EXCEPT !.active = "this"], "MeasureThis")
      [] e = "MeasurementStart" /\ l.thisDone /\ ~l.nextDone -> Go(l, "MeasureNext")
      [] e = "TrackDelayStart" -> Go(l, "TrackingDelay")
      [] e = "Error" -> Go(l, "Error")
      [] OTHER -> Stay(l)

TrackingModeTran(l, e) ==
    CASE e = "MeasurementStart" /\ ~l.thisDone ->
            Go([l EXCEPT !.active = "this"], "MeasureThis")
      [] e = "MeasurementStart" /\ l.thisDone /\ ~l.nextDone ->
            Go([l EXCEPT !.active = "next"], "MeasureNext")
      [] e = "TrackDelayStart" -> Go(l, "TrackingDelay")
      [] e = "Error" -> Go(l, "Error")
      [] OTHER -> Stay(l)

MeasureDataPointTran(l, e) ==
    CASE e = "MeasurementDone" -> Go(l, Parent(l.state))
      [] e = "Error" -> Go(l, "Error")
      [] OTHER -> Stay(l)

\* Only the transition function of the current state runs, never its parent's.
TransitionOnEvent(l, e) ==
    CASE l.state = "Initialise"       -> InitialiseTran(l, e)
      [] l.state = "ScanningMode"     -> ScanningModeTran(l, e)
      [] l.state = "TrackingMode"     -> TrackingModeTran(l, e)
      [] l.state \in MeasureStates    -> MeasureDataPointTran(l, e)
      [] OTHER -> Stay(l)

-----------------------------------------------------------------------------
(* Step functions: the record after the step and the event it raises last, *)
(* if any.  c are the parameters, i is the ADC reading if one is taken.    *)

After(l, e) == [lt |-> l, event |-> e]

Quiet(l) == After(l, "None")

InitialiseStep(l, t, c, i) ==
    LET bad(e) == [l EXCEPT !.error = e, !.nErrorReads = (@ + 1) % WordMod]
        judged == CASE i < c.threshold -> Quiet(bad("currentThreshold"))
                    [] i >= c.threshold /\ i >= MAX_CURRENT ->
                          Quiet(bad("currentLimit"))
                    [] OTHER -> After([l EXCEPT !.error = "ok"], "MeasurementDone")
    IN  CASE l.nErrorReads > MAX_ERROR_READS -> After(l, "Error")
          [] l.nErrorReads <= MAX_ERROR_READS /\ Elapsed(l, t) < c.settle -> Quiet(l)
          [] OTHER -> judged

\* Mutant: a scan that starts at its maximum is taken for a hill.
Mut_FlatStartAccepted(l) ==
    IF l.v["scan"] <= V_SCAN_MAX
    THEN After(l, "MeasurementStart")
    ELSE IF l.pScanFinal < l.pScanMpp \/ l.pScanMpp = 0
         THEN After([l EXCEPT !.v["this"] = l.vScanMpp,
                              !.v["next"] = (l.vScanMpp + DV_MPPT) % CodeMod],
                    "ScanningDone")
         ELSE After([l EXCEPT !.error = "invalidScan"], "Error")

\* The scan has the shape of a hill as far as the code can tell.
ScanShapeOk(l) == l.pScanInitial < l.pScanMpp /\ l.pScanFinal < l.pScanMpp

ScanningModeStep(l) ==
    LET judged == [l EXCEPT !.error = IF ScanShapeOk(l) THEN @ ELSE "invalidScan"]
    IN  CASE l.v["scan"] <= V_SCAN_MAX -> After(l, "MeasurementStart")
          [] ~(l.v["scan"] <= V_SCAN_MAX) /\ judged.error = "ok" ->
                After([judged EXCEPT
                          !.v["this"] = l.vScanMpp,
                          !.v["next"] = (l.vScanMpp + DV_MPPT) % CodeMod],
                      "ScanningDone")
          [] OTHER -> After(judged, "Error")

\* Mutant: the sample time is taken for the settling time.
Mut_TimesSwapped(l, t, c, i) ==
    LET elapsed == Elapsed(l, t)
        close   == (c.settle + c.sample) % WordMod
        mean    == l.iSampleSum \div l.nSamples
    IN  CASE elapsed >= c.sample /\ elapsed < close ->
                Quiet([l EXCEPT !.iSampleSum = @ + i, !.nSamples = @ + 1])
          [] elapsed >= close /\ l.nSamples > 0 ->
                After([l EXCEPT !.i[l.active] = mean,
                                !.p[l.active] = Power(l.v[l.active], mean)],
                      "MeasurementDone")
          [] elapsed >= close /\ l.nSamples = 0 -> Quiet([l EXCEPT !.timer = t])
          [] OTHER -> Quiet(l)

MeasureDataPointStep(l, t, c, i) ==
    LET elapsed == Elapsed(l, t)
        close   == (c.settle + c.sample) % WordMod  \* uint16_t + uint16_t
        mean    == l.iSampleSum \div l.nSamples
    IN  CASE elapsed >= c.settle /\ elapsed < close ->
                Quiet([l EXCEPT !.iSampleSum = @ + i, !.nSamples = @ + 1])
          [] elapsed >= close /\ l.nSamples > 0 ->
                After([l EXCEPT !.i[l.active] = mean,
                                !.p[l.active] = Power(l.v[l.active], mean)],
                      "MeasurementDone")
          [] elapsed >= close /\ l.nSamples = 0 -> Quiet([l EXCEPT !.timer = t])
          [] OTHER -> Quiet(l)

UpdateTrackingData(l) ==
    LET uphill == l.p["next"] > l.p["this"]
        v      == (IF uphill THEN l.v["this"] + DV_MPPT
                             ELSE l.v["this"] - DV_MPPT) % CodeMod
    IN  [l EXCEPT !.v["this"] = v,
                  !.v["next"] = (v + DV_MPPT) % CodeMod,
                  !.led = IF uphill THEN "twoFlashes" ELSE "oneFlash"]

\* Mutant: the error count is only checked before the delay.
Mut_BudgetNotChecked(l) ==
    CASE l.nErrorReads > MAX_ERROR_READS /\ ~l.delayDone -> After(l, "Error")
      [] l.nErrorReads <= MAX_ERROR_READS /\ ~l.delayDone ->
            After(l, "TrackDelayStart")
      [] l.delayDone /\ ~(l.thisDone /\ l.nextDone) -> After(l, "MeasurementStart")
      [] OTHER -> Quiet([UpdateTrackingData(l) EXCEPT !.thisDone = FALSE,
                                                      !.nextDone = FALSE,
                                                      !.delayDone = FALSE])

\* Mutant: the next point is not measured again after a move.
Mut_NextResultKept(l) ==
    CASE l.nErrorReads > MAX_ERROR_READS -> After(l, "Error")
      [] l.nErrorReads <= MAX_ERROR_READS /\ ~l.delayDone ->
            After(l, "TrackDelayStart")
      [] l.nErrorReads <= MAX_ERROR_READS /\ l.delayDone
            /\ ~(l.thisDone /\ l.nextDone) -> After(l, "MeasurementStart")
      [] OTHER -> Quiet([UpdateTrackingData(l) EXCEPT !.thisDone = FALSE,
                                                      !.delayDone = FALSE])

TrackingModeStep(l) ==
    CASE l.nErrorReads > MAX_ERROR_READS -> After(l, "Error")
      [] l.nErrorReads <= MAX_ERROR_READS /\ ~l.delayDone ->
            After(l, "TrackDelayStart")
      [] l.nErrorReads <= MAX_ERROR_READS /\ l.delayDone
            /\ ~(l.thisDone /\ l.nextDone) -> After(l, "MeasurementStart")
      [] OTHER -> Quiet([UpdateTrackingData(l) EXCEPT !.thisDone = FALSE,
                                                      !.nextDone = FALSE,
                                                      !.delayDone = FALSE])

\* The delay ends its state itself, without an event.
TrackingDelayStep(l, t, c) ==
    IF Elapsed(l, t) >= c.delay THEN Go(l, "TrackingMode") ELSE Stay(l)

ParentStep(l) ==
    CASE Parent(l.state) = "ScanningMode" -> ScanningModeStep(l)
      [] Parent(l.state) = "TrackingMode" -> TrackingModeStep(l)
      [] OTHER -> Quiet(l)

ChildStep(l, t, c, i) ==
    CASE l.state = "Initialise"    -> InitialiseStep(l, t, c, i)
      [] l.state = "ScanningMode"  -> ScanningModeStep(l)
      [] l.state = "TrackingMode"  -> TrackingModeStep(l)
      [] l.state \in MeasureStates -> MeasureDataPointStep(l, t, c, i)
      [] OTHER -> Quiet(l)

React(s) == TransitionOnEvent(s.lt, s.event)

Follow(g, t) == TransitionToState(g.lt, g.target, t)

RunParentStep(l, t) == Follow(React(ParentStep(l)), t)

RunChildStep(l, t, c, i) ==
    Follow(IF l.state = "TrackingDelay" THEN TrackingDelayStep(l, t, c)
                                        ELSE React(ChildStep(l, t, c, i)), t)

-----------------------------------------------------------------------------
(* The public functions, called from setup() and the main loop *)

\* The exit function of the abandoned state is skipped: the state is None
\* when the transition starts.
StateMachine_Reset(l, t) ==
    TransitionToState([l EXCEPT !.state = "None"], "Initialise", t)

\* The clock when a reset that began at time t has set the output.
OutputSet(t) == {(t + d) % TimeMod : d \in DacWriteTimes}

Init ==
    /\ config = DefaultParams
    /\ \E t \in Times :
          /\ lt = StateMachine_Reset([state |-> "None"], t)
          /\ now \in OutputSet(t)

\* The parent's step function runs first, then that of the state it left.
\* The ADC is read at the DAC output in force when the second one runs.
UpdateStep ==
    \E d \in LoopTimes :
        LET t      == (now + d) % TimeMod
            middle == RunParentStep(lt, t)
        IN  \E i \in Curve[middle.dac] :
                /\ now' = t
                /\ lt' = RunChildStep(middle, t, config, i)
                /\ UNCHANGED config

\* The master's reset command, served by the main loop between two updates.
Reset ==
    /\ lt' = StateMachine_Reset(lt, now)
    /\ now' \in OutputSet(now)
    /\ UNCHANGED config

\* The interrupt handler stores the parameters field by field, each in two
\* bytes; Params holds the torn mixtures as well as the values meant.
SetParams ==
    /\ config' \in Params
    /\ UNCHANGED <<lt, now>>

Next == UpdateStep \/ Reset \/ SetParams

Spec == Init /\ [][Next]_vars

\* Of the actions, UpdateStep and Reset advance the clock.
ClockAdvances == \E d \in LoopTimes \cup DacWriteTimes : now' = (now + d) % TimeMod

\* The main loop never stops: it calls UpdateStep again and again, unless it is
\* given a reset in each of its turns.
FairSpec == Spec /\ WF_now(ClockAdvances)

-----------------------------------------------------------------------------
(* Properties *)

TypeOK ==
    /\ lt \in LifeTester
    /\ now \in Times
    /\ config \in ParamRecords

TrackingStates == {"TrackingMode", "TrackingDelay", "MeasureThis", "MeasureNext"}

PointOf(s) ==
    CASE s = "MeasureThis" -> "this"
      [] s = "MeasureNext" -> "next"
      [] s = "MeasureScan" -> "scan"

\* A channel that has not started or has failed drives its device with zero
\* volts, and a failed one says why: no path into StateError leaves the error
\* code at ok or lets a later DacSetOutput undo that of ErrorEntry.
SafeWhenNotRunning ==
    /\ lt.state \in {"Initialise", "Error"} => lt.dac = 0
    /\ lt.state = "Error" => lt.error # "ok"

\* While a point is measured, the DAC drives the voltage the result will be
\* filed under, and the pointers select that point.
DrivesMeasuredPoint ==
    lt.state \in MeasureStates =>
        /\ lt.active = PointOf(lt.state)
        /\ lt.dac = lt.v[lt.active]

\* No measurement starts after the channel has used up its bad readings, so
\* MeasureDataPointEntry never raises an error in the middle of a transition
\* (the outer transition would overwrite the state and the output it left).
WithinErrorBudget ==
    /\ lt.nErrorReads <= MAX_ERROR_READS + 1
    /\ lt.state \in MeasureStates \cup {"ScanningMode", "TrackingDelay"} =>
            lt.nErrorReads <= MAX_ERROR_READS

\* A power that TrackingModeStep compares is the power of the voltage it is
\* filed under: a move of vThis and vNext leaves no result of the old points
\* marked done, and the cycle is delay, this, next in that order.
ComparedPowersAreCurrent ==
    lt.state \in TrackingStates =>
        /\ lt.thisDone => /\ lt.p["this"] = Power(lt.v["this"], lt.i["this"])
                          /\ lt.delayDone
        /\ lt.nextDone => /\ lt.p["next"] = Power(lt.v["next"], lt.i["next"])
                          /\ lt.thisDone
        /\ lt.v["next"] = (lt.v["this"] + DV_MPPT) % CodeMod

\* From some point on the master neither resets nor retunes the channel.  (One
\* that keeps shortening the settling time in the middle of a measurement can
\* make the loop miss every sampling window.)
MasterLeavesAlone == <>[][~Reset /\ ~SetParams]_vars

\* A channel left alone by the master, whose loop is no slower than the sample
\* time, fails for good or goes through tracking cycles for ever: no reading,
\* no retry of a missed window, no wrap of the timer and no leftover flag keeps
\* it in a scan, in a measurement or in the middle of a cycle.
TracksOrFails ==
    MasterLeavesAlone =>
        \/ []<>(lt.state = "TrackingDelay") /\ []<>(lt.state = "MeasureNext")
        \/ <>[](lt.state = "Error")
=============================================================================
