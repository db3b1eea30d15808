--------------------------- MODULE Channel_proofs ---------------------------
(***************************************************************************)
(* More proofs about one channel: that it implements ChannelModes, and     *)
(* what its history shows of its readings.  Both follow from the outcomes  *)
(* that one call of UpdateStep may have (Outcome), each an operator        *)
(* from the record before the call to the one after it.                    *)
(***************************************************************************)
EXTENDS StateMachine_proofs, ChannelHistory, ChannelRefinement

-----------------------------------------------------------------------------
(* The inductive invariant, on top of Good *)

\* Before its first scan a channel knows no maximum.
NoMaximumYet(l) ==
    l.state = "Initialise" =>
        /\ l.vScanMpp = 0 /\ l.pScanMpp = 0
        /\ l.pScanInitial = 0 /\ l.pScanFinal = 0

\* The maximum of a scan is at a code already measured, and beats an end of the
\* range only from somewhere else.
MaximumMeasured(l) ==
    l.state \in {"ScanningMode", "MeasureScan"} =>
        /\ l.v["scan"] <= V_SCAN_MAX + 1
        /\ l.v["scan"] = 0 => l.vScanMpp = 0 /\ l.pScanMpp = 0
        /\ l.v["scan"] > 0 => l.vScanMpp < l.v["scan"]
        /\ l.vScanMpp = 0 => l.pScanMpp <= l.pScanInitial
        /\ l.vScanMpp = V_SCAN_MAX => l.pScanMpp <= l.pScanFinal

\* A channel exceeds its budget only by a result of the present cycle.
OverspentByResult(l) ==
    l.state = "TrackingMode" /\ l.nErrorReads > MAX_ERROR_READS => l.thisDone

\* A scan only starts, and goes on, without an error.
ScanWithoutError(l) ==
    l.state \in {"ScanningMode", "MeasureScan"} => l.error = "ok"

Sound(l) ==
    /\ NoMaximumYet(l)
    /\ MaximumMeasured(l)
    /\ OverspentByResult(l)
    /\ ScanWithoutError(l)

CInv == Inv /\ Sound(lt)

\* While a point is measured the timer shows no more than the time the output has
\* been constant; before the scan it may show a write of the DAC more.
TimerIsQuiet ==
    /\ lt.state \in MeasureStates => Elapsed(lt, now) <= quiet \/ quiet = QuietCap
    /\ lt.state = "Initialise" =>
          \E d \in DacWriteTimes : Elapsed(lt, now) <= quiet + d \/ quiet = QuietCap

\* The history agrees with the record.
HInv ==
    /\ config \in Params
    /\ quiet \in 0 .. QuietCap
    /\ TimerIsQuiet
    /\ streak \in Nat
    /\ tracked \in BOOLEAN
    /\ tracked => lt.state \in TrackingStates \cup {"Error"}
    /\ tracked => lt.nErrorReads = streak

-----------------------------------------------------------------------------
(* The outcomes of a call of UpdateStep that changes the record *)

Settled(l, t, c) == Elapsed(l, t) >= c.settle

\* The short-circuit reading is out of range.
CountsBadReading(l, r) ==
    /\ l.state = "Initialise"
    /\ \E e \in Errors \ {"ok"} :
          r = [l EXCEPT !.error = e, !.nErrorReads = l.nErrorReads + 1]

StartsScan(l, r) ==
    /\ l.state = "Initialise"
    /\ r = [l EXCEPT !.error = "ok", !.active = "scan", !.led = "scan",
                     !.v["scan"] = 0, !.state = "ScanningMode"]

\* The only ways into StateError: too many bad readings, or a scan at its end.
Fails(l, r) ==
    /\ \/ l.state \in {"Initialise", "TrackingMode"} /\ l.nErrorReads > MAX_ERROR_READS
       \/ l.state = "ScanningMode" /\ l.v["scan"] > V_SCAN_MAX /\ ~ScanShapeOk(l)
    /\ \E e \in Errors :
          /\ e = IF l.state = "ScanningMode" THEN "invalidScan" ELSE l.error
          /\ r = [l EXCEPT !.error = e, !.led = "error", !.dac = 0, !.state = "Error"]

\* Measurement s starts: its point is driven and the samples are cleared.
Measures(l, t, s, r) ==
    /\ \/ s = "MeasureScan" /\ l.state = "ScanningMode" /\ l.v["scan"] <= V_SCAN_MAX
       \/ s = "MeasureThis" /\ l.state = "TrackingMode" /\ l.delayDone /\ ~l.thisDone
       \/ s = "MeasureNext" /\ l.state = "TrackingMode" /\ l.delayDone
             /\ l.thisDone /\ ~l.nextDone
    /\ r = [l EXCEPT !.active = PointOf(s), !.dac = l.v[PointOf(s)],
                     !.nSamples = 0, !.iSampleSum = 0, !.timer = t, !.state = s]

TakesSample(l, i, r) ==
    /\ l.state \in MeasureStates
    /\ r = [l EXCEPT !.iSampleSum = l.iSampleSum + i, !.nSamples = l.nSamples + 1]

WaitsAgain(l, t, r) ==
    /\ l.state \in MeasureStates
    /\ r = [l EXCEPT !.timer = t]

Mean(l) == l.iSampleSum \div l.nSamples

\* The average is filed under the active point.
Filed(l) ==
    [l EXCEPT !.i[l.active] = Mean(l), !.p[l.active] = Power(l.v[l.active], Mean(l))]

ScansPoint(l, r) ==
    /\ l.state = "MeasureScan" /\ l.nSamples > 0
    /\ r = [MeasureScanDataPointExit(Filed(l)) EXCEPT !.state = "ScanningMode"]

TracksThis(l, r) ==
    /\ l.state = "MeasureThis" /\ l.nSamples > 0
    /\ r = [MeasureThisDataPointExit(Filed(l)) EXCEPT !.state = "TrackingMode"]

TracksNext(l, r) ==
    /\ l.state = "MeasureNext" /\ l.nSamples > 0
    /\ r = [MeasureNextDataPointExit(Filed(l)) EXCEPT !.state = "TrackingMode"]

\* A scan of the right shape: tracking starts from its maximum.
StartsTracking(l, r) ==
    /\ l.state = "ScanningMode" /\ l.v["scan"] > V_SCAN_MAX /\ ScanShapeOk(l)
    /\ r = [l EXCEPT !.v["this"] = l.vScanMpp,
                     !.v["next"] = (l.vScanMpp + DV_MPPT) % CodeMod,
                     !.active = "this", !.led = "off", !.state = "TrackingMode"]

StartsDelay(l, t, r) ==
    /\ l.state = "TrackingMode" /\ ~l.delayDone
    /\ r = [l EXCEPT !.timer = t, !.state = "TrackingDelay"]

EndsDelay(l, r) ==
    /\ l.state = "TrackingDelay"
    /\ r = [l EXCEPT !.delayDone = TRUE, !.state = "TrackingMode"]

Moves(l, r) ==
    /\ l.state = "TrackingMode" /\ l.nErrorReads <= MAX_ERROR_READS
    /\ l.delayDone /\ l.thisDone /\ l.nextDone
    /\ r = [UpdateTrackingData(l) EXCEPT !.thisDone = FALSE, !.nextDone = FALSE,
                                         !.delayDone = FALSE]

Outcome(l, t, c, i, r) ==
    \/ r = l /\ l.state # "ScanningMode"
    \/ Settled(l, t, c) /\ CountsBadReading(l, r)
    \/ Settled(l, t, c) /\ StartsScan(l, r)
    \/ Fails(l, r)
    \/ \E s \in MeasureStates : Measures(l, t, s, r)
    \/ Settled(l, t, c) /\ TakesSample(l, i, r)
    \/ WaitsAgain(l, t, r)
    \/ ScansPoint(l, r)
    \/ TracksThis(l, r)
    \/ TracksNext(l, r)
    \/ StartsTracking(l, r)
    \/ StartsDelay(l, t, r)
    \/ EndsDelay(l, r)
    \/ Moves(l, r)

-----------------------------------------------------------------------------
(* Every call of UpdateStep has one of these outcomes *)

\* The short-circuit check.
LEMMA InitialiseOutcome ==
    ASSUME NEW l, Good(l), l.state = "Initialise",
           NEW t \in Times, NEW c \in ParamRecords, NEW i \in Words
    PROVE  Outcome(l, t, c, i, Follow(React(InitialiseStep(l, t, c, i)), t))
<1> DEFINE bad(e) == [l EXCEPT !.error = e, !.nErrorReads = (@ + 1) % WordMod]
           fine == [l EXCEPT !.error = "ok"]
           s == InitialiseStep(l, t, c, i)
           r == Follow(React(s), t)
<1>0. l \in LifeTester /\ l.nErrorReads \in Words
      /\ Elapsed(l, t) \in Int /\ c.settle \in Int
  <2>1. l \in LifeTester /\ l.timer \in Int /\ t \in Int
    BY DEF Good, LifeTester, Times
  <2>2. QED
    BY <2>1, WidthAssumption DEF LifeTester, Elapsed, ParamRecords, Words
<1>1. CASE l.nErrorReads > MAX_ERROR_READS
  <2>1. s = After(l, "Error")
    <3>1. ~(l.nErrorReads <= MAX_ERROR_READS)
      BY <1>0, <1>1, LimitAssumption DEF Words
    <3>2. QED
      BY <1>1, <3>1 DEF InitialiseStep
  <2>2. r = [ErrorEntry(l) EXCEPT !.state = "Error"]
    BY <2>1, FromInitialise
       DEF Follow, React, After, TransitionOnEvent, InitialiseTran, Go, MeasureStates
  <2>3. l.error \in Errors
        /\ r = [l EXCEPT !.error = l.error, !.led = "error", !.dac = 0, !.state = "Error"]
    BY <1>0, <2>2, ZenonT(40) DEF ErrorEntry, LifeTester
  <2>4. Fails(l, r)
    BY <1>1, <2>3 DEF Fails
  <2>5. QED
    BY <2>4 DEF Outcome
<1>2. CASE l.nErrorReads <= MAX_ERROR_READS /\ Elapsed(l, t) < c.settle
  <2>1. s = Quiet(l)
    <3>1. ~(l.nErrorReads > MAX_ERROR_READS)
      BY <1>0, <1>2, LimitAssumption DEF Words
    <3>2. QED
      BY <1>2, <3>1 DEF InitialiseStep
  <2>2. r = l
    BY <1>0, <2>1, QuietStep
  <2>3. QED
    BY <2>2 DEF Outcome
<1>3. CASE l.nErrorReads <= MAX_ERROR_READS /\ ~(Elapsed(l, t) < c.settle)
  <2>0. ~(l.nErrorReads > MAX_ERROR_READS) /\ Settled(l, t, c)
    BY <1>0, <1>3, LimitAssumption DEF Words, Settled
  <2>1. s \in {Quiet(bad("currentThreshold")), Quiet(bad("currentLimit")),
               After(fine, "MeasurementDone")}
    BY <1>3, <2>0 DEF InitialiseStep
  <2>2. ASSUME NEW e \in {"currentThreshold", "currentLimit"}, s = Quiet(bad(e))
        PROVE  CountsBadReading(l, r)
    <3>1. l.nErrorReads + 1 \in Words /\ (l.nErrorReads + 1) % WordMod = l.nErrorReads + 1
      <4>1. l.nErrorReads + 1 \in 0 .. WordMod - 1
        BY <1>0, <1>3, LimitAssumption, WidthAssumption DEF Words
      <4>2. QED
        BY <4>1, WidthAssumption DEF Words
    <3>2. e \in Errors \ {"ok"}
      BY FieldValues
    <3>3. bad(e) = [l EXCEPT !.error = e, !.nErrorReads = l.nErrorReads + 1]
      BY <1>0, <3>1 DEF LifeTester
    <3>4. bad(e) \in LifeTester
      BY <1>0, <3>1, <3>2, <3>3 DEF LifeTester
    <3>5. r = bad(e)
      BY <2>2, <3>4, QuietStep
    <3>6. QED
      BY <3>2, <3>3, <3>5 DEF CountsBadReading
  <2>3. ASSUME s = After(fine, "MeasurementDone")
        PROVE  StartsScan(l, r)
    <3> DEFINE a == [fine EXCEPT !.active = "scan"]
    <3>1. a.state = "Initialise" /\ fine.state = "Initialise"
      BY <1>0 DEF LifeTester
    <3>2. React(After(fine, "MeasurementDone")) = Go(a, "ScanningMode")
      BY <3>1 DEF React, After, TransitionOnEvent, InitialiseTran, MeasureStates
    <3>3. Follow(Go(a, "ScanningMode"), t)
             = [ScanningModeEntry(a) EXCEPT !.state = "ScanningMode"]
      BY <3>1, FromInitialise DEF Follow, Go
    <3>4. r = [l EXCEPT !.error = "ok", !.active = "scan", !.led = "scan",
                       !.v["scan"] = 0, !.state = "ScanningMode"]
      BY <1>0, <2>3, <3>2, <3>3 DEF ScanningModeEntry, LifeTester
    <3>5. QED
      BY <3>4 DEF StartsScan
  <2>4. Settled(l, t, c) /\ (CountsBadReading(l, r) \/ StartsScan(l, r))
    BY <2>0, <2>1, <2>2, <2>3
  <2>5. QED
    BY <2>4 DEF Outcome
<1>4. QED
  BY <1>0, <1>1, <1>2, <1>3, LimitAssumption DEF Words

\* Scanning mode between two points.
LEMMA ScanningOutcome ==
    ASSUME NEW l, Good(l), Sound(l), l.state = "ScanningMode",
           NEW t \in Times, NEW c, NEW i
    PROVE  Outcome(l, t, c, i, Follow(React(ScanningModeStep(l)), t))
<1> DEFINE r == Follow(React(ScanningModeStep(l)), t)
<1>0. /\ l \in LifeTester /\ l.v["scan"] \in Int /\ l.error = "ok"
      /\ l.nErrorReads <= MAX_ERROR_READS
  BY DEF Good, LifeTester, Points, Codes, Sound, ScanWithoutError, Budgeted
<1>1. CASE l.v["scan"] <= V_SCAN_MAX
  <2> DEFINE a == [l EXCEPT !.active = "scan"]
  <2>1. ScanningModeStep(l) = After(l, "MeasurementStart")
    BY <1>1 DEF ScanningModeStep
  <2>2. /\ a \in LifeTester /\ a.state = "ScanningMode" /\ a.active = "scan"
        /\ a.active \in Points /\ a.nErrorReads = l.nErrorReads /\ a.v = l.v
    BY <1>0, FieldValues DEF LifeTester
  <2>3. React(After(l, "MeasurementStart")) = Go(a, "MeasureScan")
    BY DEF React, After, TransitionOnEvent, ScanningModeTran, MeasureStates
  <2>4. Follow(Go(a, "MeasureScan"), t)
           = [MeasureDataPointEntry(a, t) EXCEPT !.state = "MeasureScan"]
    BY <2>2, FromScanning, ZenonT(40) DEF Follow, Go
  <2>5. MeasureDataPointEntry(a, t)
           = [a EXCEPT !.dac = a.v[a.active], !.nSamples = 0,
                       !.iSampleSum = 0, !.timer = t]
    BY <1>0, <2>2, MeasurementStarts
  <2>6. PointOf("MeasureScan") = "scan" /\ "MeasureScan" \in MeasureStates
    BY DEF PointOf, MeasureStates
  <2>7. r = [l EXCEPT !.active = "scan", !.dac = l.v["scan"], !.nSamples = 0,
                     !.iSampleSum = 0, !.timer = t, !.state = "MeasureScan"]
    BY <1>0, <2>1, <2>2, <2>3, <2>4, <2>5 DEF LifeTester
  <2>8. Measures(l, t, "MeasureScan", r)
    BY <1>1, <2>6, <2>7 DEF Measures
  <2>9. QED
    BY <2>6, <2>8 DEF Outcome
<1>2. CASE ~(l.v["scan"] <= V_SCAN_MAX) /\ ScanShapeOk(l)
  <2> DEFINE judged == [l EXCEPT !.error = IF ScanShapeOk(l) THEN @ ELSE "invalidScan"]
             a == [judged EXCEPT !.v["this"] = l.vScanMpp,
                                 !.v["next"] = (l.vScanMpp + DV_MPPT) % CodeMod]
             b == [a EXCEPT !.active = "this"]
  <2>1. judged = l
    BY <1>0, <1>2 DEF LifeTester
  <2>2. ScanningModeStep(l) = After(a, "ScanningDone")
    BY <1>0, <1>2, <2>1 DEF ScanningModeStep
  <2>3. a.state = "ScanningMode" /\ b.state = "ScanningMode"
    BY <1>0, <2>1 DEF LifeTester
  <2>4. React(After(a, "ScanningDone")) = Go(b, "TrackingMode")
    BY <2>3 DEF React, After, TransitionOnEvent, ScanningModeTran, MeasureStates
  <2>5. Follow(Go(b, "TrackingMode"), t)
           = [ScanningModeExit(b) EXCEPT !.state = "TrackingMode"]
    BY <2>3, FromScanning DEF Follow, Go
  <2>6. r = [l EXCEPT !.v["this"] = l.vScanMpp,
                     !.v["next"] = (l.vScanMpp + DV_MPPT) % CodeMod,
                     !.active = "this", !.led = "off", !.state = "TrackingMode"]
    <3>1. r = [ScanningModeExit(b) EXCEPT !.state = "TrackingMode"]
      BY <2>2, <2>4, <2>5
    <3> HIDE DEF r, judged
    <3>2. QED
      BY <1>0, <2>1, <3>1 DEF ScanningModeExit, LifeTester
  <2>7. l.v["scan"] > V_SCAN_MAX
    BY <1>0, <1>2, LimitAssumption
  <2>8. StartsTracking(l, r)
    BY <1>2, <2>6, <2>7 DEF StartsTracking
  <2>9. QED
    BY <2>8 DEF Outcome
<1>3. CASE ~(l.v["scan"] <= V_SCAN_MAX) /\ ~ScanShapeOk(l)
  <2> DEFINE judged == [l EXCEPT !.error = IF ScanShapeOk(l) THEN @ ELSE "invalidScan"]
  <2>1. judged = [l EXCEPT !.error = "invalidScan"] /\ judged.error = "invalidScan"
        /\ judged.state = "ScanningMode"
    BY <1>0, <1>3 DEF LifeTester
  <2>2. ScanningModeStep(l) = After(judged, "Error")
    BY <1>3, <2>1 DEF ScanningModeStep
  <2> HIDE DEF judged
  <2>3. Follow(React(After(judged, "Error")), t)
           = [ErrorEntry(ScanningModeExit(judged)) EXCEPT !.state = "Error"]
    BY <2>1, FromScanning
       DEF Follow, React, After, Go, TransitionOnEvent, ScanningModeTran, MeasureStates
  <2>4. r = [l EXCEPT !.error = "invalidScan", !.led = "error", !.dac = 0,
                     !.state = "Error"]
    <3>1. r = [ErrorEntry(ScanningModeExit(judged)) EXCEPT !.state = "Error"]
      BY <2>2, <2>3
    <3> HIDE DEF r
    <3>2. QED
      BY <1>0, <2>1, <3>1 DEF ErrorEntry, ScanningModeExit, LifeTester
  <2>5. l.v["scan"] > V_SCAN_MAX
    BY <1>0, <1>3, LimitAssumption
  <2>6. Fails(l, r)
    BY <1>3, <2>4, <2>5, FieldValues DEF Fails
  <2>7. QED
    BY <2>6 DEF Outcome
<1>4. QED
  BY <1>1, <1>2, <1>3

\* Tracking mode between two tasks.
LEMMA TrackingOutcome ==
    ASSUME NEW l, Good(l), l.state = "TrackingMode",
           NEW t \in Times, NEW c, NEW i
    PROVE  Outcome(l, t, c, i, Follow(React(TrackingModeStep(l)), t))
<1> DEFINE r == Follow(React(TrackingModeStep(l)), t)
<1>1. l \in LifeTester /\ l.nErrorReads \in Int
  BY DEF Good, LifeTester, Words
<1>2. CASE l.nErrorReads > MAX_ERROR_READS
  <2>1. TrackingModeStep(l) = After(l, "Error")
    BY <1>1, <1>2, LimitAssumption DEF TrackingModeStep
  <2>2. Follow(React(After(l, "Error")), t) = [ErrorEntry(l) EXCEPT !.state = "Error"]
    BY FromTracking
       DEF Follow, React, After, Go, TransitionOnEvent, TrackingModeTran, MeasureStates
  <2>3. l.error \in Errors
        /\ r = [l EXCEPT !.error = l.error, !.led = "error", !.dac = 0, !.state = "Error"]
    BY <1>1, <2>1, <2>2 DEF ErrorEntry, LifeTester
  <2>4. Fails(l, r)
    BY <1>2, <2>3 DEF Fails
  <2>5. QED
    BY <2>4 DEF Outcome
<1>3. CASE l.nErrorReads <= MAX_ERROR_READS /\ ~l.delayDone
  <2>1. TrackingModeStep(l) = After(l, "TrackDelayStart")
    BY <1>1, <1>3, LimitAssumption DEF TrackingModeStep
  <2>2. Follow(React(After(l, "TrackDelayStart")), t)
           = [TrackingDelayEntry(l, t) EXCEPT !.state = "TrackingDelay"]
    BY FromTracking
       DEF Follow, React, After, Go, TransitionOnEvent, TrackingModeTran, MeasureStates
  <2>3. StartsDelay(l, t, r)
    BY <1>1, <1>3, <2>1, <2>2 DEF StartsDelay, TrackingDelayEntry, LifeTester
  <2>4. QED
    BY <2>3 DEF Outcome
<1>4. CASE l.nErrorReads <= MAX_ERROR_READS /\ l.delayDone /\ ~(l.thisDone /\ l.nextDone)
  <2> DEFINE s == IF l.thisDone THEN "MeasureNext" ELSE "MeasureThis"
             a == [l EXCEPT !.active = PointOf(s)]
  <2>1. TrackingModeStep(l) = After(l, "MeasurementStart")
    BY <1>1, <1>4, LimitAssumption DEF TrackingModeStep
  <2>2. React(After(l, "MeasurementStart")) = Go(a, s)
    BY <1>4 DEF React, After, TransitionOnEvent, MeasureStates, TrackingModeTran, PointOf
  <2>3. s \in {"MeasureThis", "MeasureNext"} /\ s \in MeasureStates
        /\ PointOf(s) \in Points
    BY DEF MeasureStates, PointOf, Points
  <2>4. /\ a \in LifeTester /\ a.state = "TrackingMode" /\ a.active = PointOf(s)
        /\ a.nErrorReads = l.nErrorReads /\ a.v = l.v
    BY <1>1, <2>3 DEF LifeTester
  <2> HIDE DEF a, s
  <2>5. Follow(Go(a, s), t) = [MeasureDataPointEntry(a, t) EXCEPT !.state = s]
    BY <2>3, <2>4, FromTracking DEF Follow, Go
  <2>6. MeasureDataPointEntry(a, t)
           = [a EXCEPT !.dac = a.v[a.active], !.nSamples = 0,
                       !.iSampleSum = 0, !.timer = t]
    <3>1. a.active \in Points /\ a.nErrorReads <= MAX_ERROR_READS
      BY <1>4, <2>3, <2>4
    <3>2. QED
      BY <2>4, <3>1, MeasurementStarts
  <2>7. Measures(l, t, s, r)
    <3>1. r = [MeasureDataPointEntry(a, t) EXCEPT !.state = s]
      BY <2>1, <2>2, <2>5
    <3>2. \/ s = "MeasureThis" /\ ~l.thisDone
          \/ s = "MeasureNext" /\ l.thisDone /\ ~l.nextDone
      BY <1>4 DEF s
    <3> HIDE DEF r
    <3>3. r = [l EXCEPT !.active = PointOf(s), !.dac = l.v[PointOf(s)],
                       !.nSamples = 0, !.iSampleSum = 0, !.timer = t, !.state = s]
      BY <1>1, <2>4, <2>6, <3>1 DEF LifeTester, a
    <3>4. QED
      BY <1>4, <3>2, <3>3 DEF Measures
  <2>8. QED
    BY <2>3, <2>7 DEF Outcome
<1>5. CASE l.nErrorReads <= MAX_ERROR_READS /\ l.delayDone /\ l.thisDone /\ l.nextDone
  <2> DEFINE u == UpdateTrackingData(l)
             m == [u EXCEPT !.thisDone = FALSE, !.nextDone = FALSE, !.delayDone = FALSE]
  <2>1. TrackingModeStep(l) = Quiet(m)
    BY <1>1, <1>5, LimitAssumption DEF TrackingModeStep
  <2>2. u \in LifeTester
    BY <1>1, UpdateTrackingDataEffect
  <2> HIDE DEF u
  <2>3. m \in LifeTester
    BY <2>2 DEF LifeTester
  <2>4. r = m
    BY <2>1, <2>3, QuietStep
  <2>5. Moves(l, r)
    BY <1>5, <2>4 DEF Moves, u
  <2>6. QED
    BY <2>5 DEF Outcome
<1>6. QED
  BY <1>1, <1>2, <1>3, <1>4, <1>5, LimitAssumption

\* The delay between two cycles.
LEMMA DelayOutcome ==
    ASSUME NEW l, Good(l), l.state = "TrackingDelay",
           NEW t \in Times, NEW c, NEW i
    PROVE  Outcome(l, t, c, i, Follow(TrackingDelayStep(l, t, c), t))
<1> DEFINE r == Follow(TrackingDelayStep(l, t, c), t)
<1>1. l \in LifeTester
  BY DEF Good
<1>2. r = l \/ r = [TrackingDelayExit(l) EXCEPT !.state = "TrackingMode"]
  BY <1>1, FromChild, StaysPut DEF TrackingDelayStep, Follow, Go, Stay
<1>3. r = l \/ EndsDelay(l, r)
  BY <1>1, <1>2 DEF TrackingDelayExit, EndsDelay, LifeTester
<1>4. QED
  BY <1>3 DEF Outcome

\* Filing the average changes two results and keeps to the types.
LEMMA FiledType ==
    ASSUME NEW l, Good(l), l.state \in MeasureStates, l.nSamples > 0
    PROVE  /\ Mean(l) \in Words
           /\ Filed(l) \in LifeTester
           /\ Filed(l).state = l.state
           /\ Filed(l) = [l EXCEPT !.i = [l.i EXCEPT ![l.active] = Mean(l)],
                                   !.p = [l.p EXCEPT ![l.active] =
                                             Power(l.v[l.active], Mean(l))]]
<1> DEFINE pw == Power(l.v[l.active], Mean(l))
<1>1. /\ l \in LifeTester /\ l.nSamples \in Nat \ {0} /\ l.iSampleSum \in Nat
      /\ l.iSampleSum <= l.nSamples * (WordMod - 1)
      /\ l.active \in Points /\ l.v[l.active] \in Codes
  BY DEF Good, LifeTester, Driven, PointOf, MeasureStates, Points, SumBounded
<1>2. Mean(l) \in Words
  BY <1>1, MeanType DEF Mean
<1>3. pw \in Words
  BY <1>1, <1>2, PowerType
<1> HIDE DEF pw
<1>4. /\ [l.i EXCEPT ![l.active] = Mean(l)] \in [Points -> Words]
      /\ [l.p EXCEPT ![l.active] = pw] \in [Points -> Words]
  BY <1>1, <1>2, <1>3 DEF LifeTester
<1>5. /\ Filed(l) = [l EXCEPT !.i = [l.i EXCEPT ![l.active] = Mean(l)],
                              !.p = [l.p EXCEPT ![l.active] = pw]]
  BY <1>1 DEF Filed, pw, LifeTester
<1>6. Filed(l) \in LifeTester
  BY <1>1, <1>4, <1>5 DEF LifeTester
<1>7. Filed(l).state = l.state
  BY <1>1, <1>5 DEF LifeTester
<1>8. QED
  BY <1>2, <1>5, <1>6, <1>7 DEF pw

\* A measurement under way.
LEMMA MeasureOutcome ==
    ASSUME NEW l, Good(l), l.state \in MeasureStates,
           NEW t \in Times, NEW c \in ParamRecords, NEW i \in Words
    PROVE  Outcome(l, t, c, i, Follow(React(MeasureDataPointStep(l, t, c, i)), t))
<1> DEFINE elapsed == Elapsed(l, t)
           close == (c.settle + c.sample) % WordMod
           sampled == [l EXCEPT !.iSampleSum = @ + i, !.nSamples = @ + 1]
           restarted == [l EXCEPT !.timer = t]
           done == After(Filed(l), "MeasurementDone")
           s == MeasureDataPointStep(l, t, c, i)
           r == Follow(React(s), t)
<1>1. /\ l \in LifeTester /\ l.nSamples \in Nat /\ l.iSampleSum \in Nat
  BY DEF Good, LifeTester
<1>2. \/ s = Quiet(l)
      \/ s = Quiet(sampled) /\ elapsed >= c.settle
      \/ s = Quiet(restarted)
      \/ s = done /\ l.nSamples > 0
  <2>1. elapsed \in Int /\ close \in Int /\ c.settle \in Int
    <3>1. c.settle \in Int /\ c.sample \in Int /\ t \in Int /\ l.timer \in Int
      BY <1>1 DEF ParamRecords, Words, Times, LifeTester
    <3>2. QED
      BY <3>1, WidthAssumption DEF Elapsed
  <2>2. done = After([l EXCEPT !.i[l.active] = l.iSampleSum \div l.nSamples,
                               !.p[l.active] = Power(l.v[l.active],
                                                     l.iSampleSum \div l.nSamples)],
                     "MeasurementDone")
    BY DEF Filed, Mean
  <2> HIDE DEF elapsed, close, done
  <2>3. s = CASE elapsed >= c.settle /\ elapsed < close -> Quiet(sampled)
              [] elapsed >= close /\ l.nSamples > 0 -> done
              [] elapsed >= close /\ l.nSamples = 0 -> Quiet(restarted)
              [] OTHER -> Quiet(l)
    BY <2>2 DEF MeasureDataPointStep, elapsed, close
  <2>4. QED
    BY <2>1, <2>3, <1>1
<1>3. CASE s = Quiet(l)
  BY <1>1, <1>3, QuietStep DEF Outcome, MeasureStates
<1>4. CASE s = Quiet(sampled) /\ elapsed >= c.settle
  <2>1. sampled = [l EXCEPT !.iSampleSum = l.iSampleSum + i, !.nSamples = l.nSamples + 1]
    BY <1>1 DEF LifeTester
  <2>2. l.iSampleSum + i \in Nat /\ l.nSamples + 1 \in Nat
    BY <1>1 DEF Words
  <2>3. sampled \in LifeTester
    BY <1>1, <2>1, <2>2 DEF LifeTester
  <2>4. r = sampled
    BY <1>4, <2>3, QuietStep
  <2>5. Settled(l, t, c) /\ TakesSample(l, i, r)
    BY <1>4, <2>1, <2>4 DEF Settled, TakesSample
  <2>6. QED
    BY <2>5 DEF Outcome
<1>5. CASE s = Quiet(restarted)
  <2>1. restarted \in LifeTester
    BY <1>1 DEF LifeTester
  <2>2. r = restarted
    BY <1>5, <2>1, QuietStep
  <2>3. QED
    BY <2>2 DEF WaitsAgain, Outcome
<1>6. CASE s = done /\ l.nSamples > 0
  <2> DEFINE f == Filed(l)
  <2>1. f \in LifeTester /\ f.state = l.state
    BY <1>6, FiledType
  <2> HIDE DEF f
  <2>2. React(After(f, "MeasurementDone")) = Go(f, Parent(l.state))
    BY <2>1 DEF React, After, TransitionOnEvent, MeasureDataPointTran, MeasureStates
  <2>3. \/ l.state = "MeasureScan" /\ Follow(Go(f, Parent(l.state)), t)
              = [MeasureScanDataPointExit(f) EXCEPT !.state = "ScanningMode"]
        \/ l.state = "MeasureThis" /\ Follow(Go(f, Parent(l.state)), t)
              = [MeasureThisDataPointExit(f) EXCEPT !.state = "TrackingMode"]
        \/ l.state = "MeasureNext" /\ Follow(Go(f, Parent(l.state)), t)
              = [MeasureNextDataPointExit(f) EXCEPT !.state = "TrackingMode"]
    BY <2>1, FromChild DEF Follow, Go, Parent, MeasureStates
  <2>4. r = Follow(Go(f, Parent(l.state)), t)
    BY <1>6, <2>2 DEF f
  <2> HIDE DEF r
  <2>5. ScansPoint(l, r) \/ TracksThis(l, r) \/ TracksNext(l, r)
    BY <1>6, <2>3, <2>4 DEF ScansPoint, TracksThis, TracksNext, f
  <2>6. QED
    BY <2>5 DEF Outcome, r, s
<1>7. QED
  BY <1>2, <1>3, <1>4, <1>5, <1>6

\* One call of StateMachine_UpdateStep.
LEMMA StepOutcome ==
    ASSUME NEW l, Good(l), Sound(l),
           NEW t \in Times, NEW c \in ParamRecords, NEW i \in Words
    PROVE  Outcome(l, t, c, i, RunChildStep(l, t, c, i))
<1> USE DEF RunChildStep, ChildStep, MeasureStates
<1>1. CASE l.state = "Initialise"
  BY <1>1, InitialiseOutcome
<1>2. CASE l.state = "ScanningMode"
  BY <1>2, ScanningOutcome
<1>3. CASE l.state = "TrackingMode"
  BY <1>3, TrackingOutcome
<1>4. CASE l.state = "TrackingDelay"
  BY <1>4, DelayOutcome
<1>5. CASE l.state \in MeasureStates
  <2>1. RunChildStep(l, t, c, i) = Follow(React(MeasureDataPointStep(l, t, c, i)), t)
    BY <1>5
  <2>2. QED
    BY <1>5, <2>1, MeasureOutcome
<1>6. CASE l.state = "Error"
  BY <1>6, QuietStep DEF Good, Outcome
<1>7. QED
  BY <1>1, <1>2, <1>3, <1>4, <1>5, <1>6 DEF Good, LifeTester, States

\* The parent's step changes nothing before it (ParentStepIdle), so the ADC is
\* read at the output of the record before the call.
LEMMA UpdateOutcome ==
    ASSUME CInv, UpdateStep
    PROVE  \E d \in LoopTimes : \E i \in Curve[lt.dac] :
              /\ now' = (now + d) % TimeMod
              /\ now' \in Times
              /\ config' = config
              /\ i \in Words
              /\ Outcome(lt, now', config, i, lt')
<1>1. /\ Good(lt) /\ Sound(lt) /\ lt \in LifeTester
      /\ now \in Times /\ config \in ParamRecords
  BY DEF CInv, Inv, Good
<1>2. PICK d \in LoopTimes :
        LET t == (now + d) % TimeMod
            middle == RunParentStep(lt, t)
        IN  \E i \in Curve[middle.dac] :
                /\ now' = t
                /\ lt' = RunChildStep(middle, t, config, i)
                /\ UNCHANGED config
  BY DEF UpdateStep
<1> DEFINE t == (now + d) % TimeMod
<1>3. t \in Times
  BY <1>1, WidthAssumption, EnvironmentAssumption DEF Times
<1>4. RunParentStep(lt, t) = lt
  BY <1>1, ParentStepIdle
<1>5. Curve[lt.dac] \subseteq Words
  BY <1>1, EnvironmentAssumption DEF LifeTester
<1>6. PICK i \in Curve[lt.dac] : lt' = RunChildStep(lt, t, config, i)
  BY <1>2, <1>4
<1>7. now' = t /\ config' = config
  BY <1>2
<1> HIDE DEF t
<1>8. Outcome(lt, t, config, i, lt')
  BY <1>1, <1>3, <1>5, <1>6, StepOutcome
<1>9. QED
  BY <1>3, <1>5, <1>7, <1>8 DEF t

-----------------------------------------------------------------------------
(* What the measurements leave behind *)

\* A scan point of power pw: the maximum, the end points and vScan.
PointScanned(l, r, pw) ==
    /\ r.state = "ScanningMode"
    /\ r.v = [l.v EXCEPT !["scan"] = l.v["scan"] + 1]
    /\ r.v["scan"] = l.v["scan"] + 1
    /\ r.v["this"] = l.v["this"]
    /\ r.i["scan"] = Mean(l)
    /\ r.dac = l.dac /\ r.timer = l.timer /\ r.error = l.error
    /\ r.nSamples = l.nSamples /\ r.nErrorReads = l.nErrorReads
    /\ r.thisDone = l.thisDone /\ r.nextDone = l.nextDone
    /\ r.delayDone = l.delayDone
    /\ r.pScanMpp = (IF pw > l.pScanMpp THEN pw ELSE l.pScanMpp)
    /\ r.vScanMpp = (IF pw > l.pScanMpp THEN l.v["scan"] ELSE l.vScanMpp)
    /\ r.pScanInitial = (IF l.v["scan"] = 0 THEN pw ELSE l.pScanInitial)
    /\ r.pScanFinal = (IF l.v["scan"] = V_SCAN_MAX THEN pw ELSE l.pScanFinal)

\* What MeasureScanDataPointExit does with the average of a scan point.
LEMMA ScanPointEffect ==
    ASSUME NEW l, Good(l), Sound(l), NEW r, ScansPoint(l, r)
    PROVE  PointScanned(l, r, Power(l.v["scan"], Mean(l)))
<1> DEFINE pw == Power(l.v["scan"], Mean(l))
           f == Filed(l)
           d == UpdateScanData(f)
           n == (d.v["scan"] + DV_SCAN) % CodeMod
<1>0. l.state = "MeasureScan" /\ l.nSamples > 0 /\ l.state \in MeasureStates
  BY DEF ScansPoint, MeasureStates
<1>1. /\ l \in LifeTester /\ l.active = "scan"
      /\ l.v["scan"] \in Nat /\ l.v["scan"] <= V_SCAN_MAX
  BY <1>0 DEF Good, Driven, PointOf, Scanned, LifeTester, Points, Codes
<1>2. /\ f \in LifeTester /\ f.v = l.v /\ f.i["scan"] = Mean(l)
      /\ f.state = l.state /\ f.dac = l.dac /\ f.timer = l.timer /\ f.error = l.error
      /\ f.nSamples = l.nSamples /\ f.nErrorReads = l.nErrorReads
      /\ f.thisDone = l.thisDone /\ f.nextDone = l.nextDone
      /\ f.delayDone = l.delayDone
      /\ f.pScanMpp = l.pScanMpp /\ f.vScanMpp = l.vScanMpp
      /\ f.pScanInitial = l.pScanInitial /\ f.pScanFinal = l.pScanFinal
  <2>1. f = [l EXCEPT !.i = [l.i EXCEPT ![l.active] = Mean(l)],
                      !.p = [l.p EXCEPT ![l.active] = Power(l.v[l.active], Mean(l))]]
        /\ f \in LifeTester
    BY <1>0, FiledType
  <2> HIDE DEF f
  <2>2. QED
    BY <1>1, <2>1 DEF LifeTester, Points
<1> HIDE DEF f
<1>3. /\ d \in LifeTester /\ d.v = l.v /\ d.i["scan"] = Mean(l)
      /\ d.dac = l.dac /\ d.timer = l.timer /\ d.error = l.error
      /\ d.nSamples = l.nSamples /\ d.nErrorReads = l.nErrorReads
      /\ d.thisDone = l.thisDone /\ d.nextDone = l.nextDone
      /\ d.delayDone = l.delayDone
      /\ d.pScanMpp = (IF pw > l.pScanMpp THEN pw ELSE l.pScanMpp)
      /\ d.vScanMpp = (IF pw > l.pScanMpp THEN l.v["scan"] ELSE l.vScanMpp)
      /\ d.pScanInitial = (IF l.v["scan"] = 0 THEN pw ELSE l.pScanInitial)
      /\ d.pScanFinal = (IF l.v["scan"] = V_SCAN_MAX THEN pw ELSE l.pScanFinal)
  <2>1. pw \in Words
    BY <1>0, <1>1, FiledType, PowerType DEF LifeTester, Points
  <2>2. Power(f.v["scan"], f.i["scan"]) = pw
    BY <1>2
  <2> HIDE DEF pw
  <2> DEFINE best == pw > l.pScanMpp
             m == IF best THEN pw ELSE l.pScanMpp
             k == IF best THEN f.i["scan"] ELSE f.iScanMpp
             c == IF best THEN l.v["scan"] ELSE l.vScanMpp
             first == IF l.v["scan"] = 0 THEN pw ELSE l.pScanInitial
             last == IF l.v["scan"] = V_SCAN_MAX THEN pw ELSE l.pScanFinal
             q == [f.p EXCEPT !["scan"] = pw]
  <2>3. /\ m \in Words /\ k \in Words /\ c \in Codes
        /\ first \in Words /\ last \in Words /\ q \in [Points -> Words]
    BY <1>1, <1>2, <2>1 DEF LifeTester, Points
  <2>4. last = IF l.v["scan"] # V_SCAN_MIN /\ l.v["scan"] = V_SCAN_MAX
               THEN pw ELSE f.pScanFinal
    BY <1>2, LimitAssumption DEF V_SCAN_MIN
  <2>5. d = [f EXCEPT !.p = q, !.pScanMpp = m, !.iScanMpp = k, !.vScanMpp = c,
                      !.pScanInitial = first, !.pScanFinal = last]
    <3>1. d = [f EXCEPT
                 !.p = q, !.pScanMpp = m, !.iScanMpp = k, !.vScanMpp = c,
                 !.pScanInitial = first,
                 !.pScanFinal = IF l.v["scan"] # V_SCAN_MIN /\ l.v["scan"] = V_SCAN_MAX
                                THEN pw ELSE f.pScanFinal]
      BY <1>2, <2>2 DEF UpdateScanData, V_SCAN_MIN, LifeTester
    <3>2. QED
      BY <2>4, <3>1
  <2> HIDE DEF d, m, k, c, first, last, q, best
  <2>6. /\ d \in LifeTester /\ d.v = f.v /\ d.i = f.i
        /\ d.dac = f.dac /\ d.timer = f.timer /\ d.error = f.error
        /\ d.nSamples = f.nSamples /\ d.nErrorReads = f.nErrorReads
        /\ d.thisDone = f.thisDone /\ d.nextDone = f.nextDone
        /\ d.delayDone = f.delayDone
        /\ d.pScanMpp = m /\ d.vScanMpp = c
        /\ d.pScanInitial = first /\ d.pScanFinal = last
    BY <1>2, <2>3, <2>5 DEF LifeTester
  <2>7. QED
    BY <1>2, <2>6 DEF m, c, first, last, best
<1> HIDE DEF d, pw
<1>4. n = l.v["scan"] + 1
  <2>1. l.v["scan"] + 1 \in 0 .. CodeMod - 1
    BY <1>1, LimitAssumption, WidthAssumption
  <2>2. n = (l.v["scan"] + 1) % CodeMod
    BY <1>3 DEF DV_SCAN
  <2>3. QED
    BY <2>1, <2>2, WidthAssumption
<1>5. r = [[d EXCEPT !.v["scan"] = n] EXCEPT !.state = "ScanningMode"]
  <2>1. r = [MeasureScanDataPointExit(f) EXCEPT !.state = "ScanningMode"]
    BY DEF ScansPoint, f
  <2>2. MeasureScanDataPointExit(f) = [d EXCEPT !.v["scan"] = n]
    BY <1>3 DEF MeasureScanDataPointExit, LifeTester, d
  <2>3. QED
    BY <2>1, <2>2
<1> HIDE DEF n
<1>6. r = [d EXCEPT !.v = [l.v EXCEPT !["scan"] = n], !.state = "ScanningMode"]
  BY <1>3, <1>5 DEF LifeTester
<1>7. /\ r.v = [l.v EXCEPT !["scan"] = n] /\ r.v["scan"] = n
      /\ r.v["this"] = l.v["this"] /\ r.state = "ScanningMode"
  BY <1>1, <1>3, <1>6 DEF LifeTester, Points
<1>8. /\ r.i = d.i /\ r.dac = d.dac /\ r.timer = d.timer /\ r.error = d.error
      /\ r.nSamples = d.nSamples /\ r.nErrorReads = d.nErrorReads
      /\ r.thisDone = d.thisDone /\ r.nextDone = d.nextDone
      /\ r.delayDone = d.delayDone
      /\ r.pScanMpp = d.pScanMpp /\ r.vScanMpp = d.vScanMpp
      /\ r.pScanInitial = d.pScanInitial /\ r.pScanFinal = d.pScanFinal
  BY <1>3, <1>6 DEF LifeTester
<1>9. QED
  BY <1>3, <1>4, <1>7, <1>8 DEF PointScanned, pw

\* A tracked point: one flag, and the count of bad readings.
LEMMA TrackPointEffect ==
    ASSUME NEW l, Good(l), NEW r, TracksThis(l, r) \/ TracksNext(l, r)
    PROVE  /\ r.state = "TrackingMode"
           /\ r.v = l.v /\ r.dac = l.dac /\ r.timer = l.timer
           /\ r.nSamples = l.nSamples
           /\ r.thisDone /\ r.delayDone
           /\ r.nextDone = (l.state = "MeasureNext")
           /\ \/ r.error = "ok" /\ r.nErrorReads = 0
              \/ r.error # "ok" /\ r.nErrorReads = l.nErrorReads + 1
<1> DEFINE f == Filed(l)
           y == IF l.state = "MeasureThis" THEN [f EXCEPT !.thisDone = TRUE]
                                           ELSE [f EXCEPT !.nextDone = TRUE]
           u == UpdateErrorReadings(y)
<1>0. l.state \in {"MeasureThis", "MeasureNext"} /\ l.nSamples > 0
      /\ l.state \in MeasureStates
  BY DEF TracksThis, TracksNext, MeasureStates
<1>1. /\ l \in LifeTester /\ l.active \in Points /\ l.nErrorReads \in Nat
      /\ l.nErrorReads + 1 < WordMod
      /\ l.delayDone /\ l.thisDone = (l.state = "MeasureNext") /\ ~l.nextDone
  <2>1. l \in LifeTester /\ l.active \in Points /\ l.nErrorReads \in Nat
    BY <1>0 DEF Good, Driven, PointOf, LifeTester, Points, Words, MeasureStates
  <2>2. l.nErrorReads <= MAX_ERROR_READS
    BY <1>0 DEF Good, Budgeted, MeasureStates
  <2>3. l.nErrorReads + 1 < WordMod
    BY <2>1, <2>2, LimitAssumption, WidthAssumption
  <2>4. l.delayDone /\ l.thisDone = (l.state = "MeasureNext") /\ ~l.nextDone
    BY <1>0, <2>1 DEF Good, FlagsInOrder, LifeTester
  <2>5. QED
    BY <2>1, <2>3, <2>4
<1>2. /\ f \in LifeTester /\ f.v = l.v /\ f.dac = l.dac /\ f.timer = l.timer
      /\ f.active = l.active
      /\ f.nSamples = l.nSamples /\ f.nErrorReads = l.nErrorReads
      /\ f.thisDone = l.thisDone /\ f.nextDone = l.nextDone
      /\ f.delayDone = l.delayDone
  <2>1. f = [l EXCEPT !.i = [l.i EXCEPT ![l.active] = Mean(l)],
                      !.p = [l.p EXCEPT ![l.active] = Power(l.v[l.active], Mean(l))]]
        /\ f \in LifeTester
    BY <1>0, FiledType
  <2> HIDE DEF f
  <2>2. QED
    BY <1>1, <2>1 DEF LifeTester
<1>3. r = [u EXCEPT !.state = "TrackingMode"]
  BY <1>0 DEF TracksThis, TracksNext, MeasureThisDataPointExit, MeasureNextDataPointExit
<1> HIDE DEF f
<1>4. /\ y \in LifeTester /\ y.v = l.v /\ y.dac = l.dac /\ y.timer = l.timer
      /\ y.active = l.active
      /\ y.nSamples = l.nSamples /\ y.nErrorReads = l.nErrorReads
      /\ y.thisDone /\ y.nextDone = (l.state = "MeasureNext") /\ y.delayDone
  BY <1>0, <1>1, <1>2 DEF LifeTester
<1> HIDE DEF y
<1>5. \/ u = [y EXCEPT !.error = "ok", !.nErrorReads = 0]
      \/ \E e \in {"lowCurrent", "currentLimit"} :
            u = [y EXCEPT !.error = e, !.nErrorReads = l.nErrorReads + 1]
  <2>1. y.i[y.active] \in Int
    BY <1>1, <1>4 DEF LifeTester, Words
  <2>2. (l.nErrorReads + 1) % WordMod = l.nErrorReads + 1
    BY <1>1, WidthAssumption
  <2> DEFINE bad(e) == [y EXCEPT !.error = e, !.nErrorReads = (@ + 1) % WordMod]
  <2>3. \A e : bad(e) = [y EXCEPT !.error = e, !.nErrorReads = l.nErrorReads + 1]
    BY <1>4, <2>2 DEF LifeTester
  <2>4. u \in {bad("lowCurrent"), bad("currentLimit"),
               [y EXCEPT !.error = "ok", !.nErrorReads = 0]}
    BY <2>1, LimitAssumption DEF UpdateErrorReadings
  <2> HIDE DEF bad, u
  <2>5. QED
    BY <2>3, <2>4
<1> HIDE DEF u
<1>6. /\ r.state = "TrackingMode"
      /\ r.v = y.v /\ r.dac = y.dac /\ r.timer = y.timer /\ r.nSamples = y.nSamples
      /\ r.thisDone = y.thisDone /\ r.nextDone = y.nextDone
      /\ r.delayDone = y.delayDone
  BY <1>3, <1>4, <1>5 DEF LifeTester
<1>7. \/ r.error = "ok" /\ r.nErrorReads = 0
      \/ r.error # "ok" /\ r.nErrorReads = l.nErrorReads + 1
  BY <1>3, <1>4, <1>5 DEF LifeTester
<1>8. QED
  BY <1>4, <1>6, <1>7

\* A move: one code up or down, and a new cycle.
LEMMA MoveEffect ==
    ASSUME NEW l, Good(l), NEW r, Moves(l, r)
    PROVE  /\ r.state = "TrackingMode"
           /\ r.v["this"] \in {(l.v["this"] + 1) % CodeMod, (l.v["this"] - 1) % CodeMod}
           /\ r.dac = l.dac /\ r.timer = l.timer /\ r.nSamples = l.nSamples
           /\ r.nErrorReads = l.nErrorReads
           /\ ~r.thisDone /\ ~r.nextDone /\ ~r.delayDone
<1> DEFINE u == UpdateTrackingData(l)
<1>0. l \in LifeTester /\ u \in LifeTester
  BY UpdateTrackingDataEffect DEF Good
<1>1. /\ u.state = l.state /\ u.dac = l.dac /\ u.timer = l.timer
      /\ u.nSamples = l.nSamples /\ u.nErrorReads = l.nErrorReads
      /\ u.v["this"] \in {(l.v["this"] + 1) % CodeMod, (l.v["this"] - 1) % CodeMod}
  <2>1. u.v["this"] = (IF l.p["next"] > l.p["this"]
                       THEN l.v["this"] + DV_MPPT ELSE l.v["this"] - DV_MPPT) % CodeMod
    BY <1>0 DEF UpdateTrackingData, LifeTester, Points
  <2>2. u.v["this"] \in {(l.v["this"] + 1) % CodeMod, (l.v["this"] - 1) % CodeMod}
    BY <2>1 DEF DV_MPPT
  <2>3. /\ u.state = l.state /\ u.dac = l.dac /\ u.timer = l.timer
        /\ u.nSamples = l.nSamples /\ u.nErrorReads = l.nErrorReads
    BY <1>0 DEF UpdateTrackingData, LifeTester
  <2>4. QED
    BY <2>2, <2>3
<1> HIDE DEF u
<1>2. r = [u EXCEPT !.thisDone = FALSE, !.nextDone = FALSE, !.delayDone = FALSE]
      /\ l.state = "TrackingMode"
  BY DEF Moves, u
<1>3. QED
  BY <1>0, <1>1, <1>2 DEF LifeTester

-----------------------------------------------------------------------------
(* The invariant *)

\* Each outcome keeps the additional facts about the record.
LEMMA OutcomeSound ==
    ASSUME NEW l, Good(l), Sound(l), NEW t, NEW c, NEW i, NEW r,
           Outcome(l, t, c, i, r)
    PROVE  Sound(r)
<1> USE DEF NoMaximumYet, MaximumMeasured, OverspentByResult, ScanWithoutError
<1>0. l \in LifeTester
  BY DEF Good
<1>1. CASE r = l
  BY <1>1
<1>2. CASE CountsBadReading(l, r)
  BY <1>0, <1>2 DEF CountsBadReading, Sound, LifeTester
<1>3. CASE StartsScan(l, r)
  <2>1. /\ r.state = "ScanningMode" /\ r.v["scan"] = 0 /\ r.error = "ok"
        /\ r.vScanMpp = 0 /\ r.pScanMpp = 0 /\ r.pScanInitial = 0 /\ r.pScanFinal = 0
    BY <1>0, <1>3 DEF StartsScan, Sound, LifeTester, Points
  <2>2. QED
    BY <2>1, LimitAssumption DEF Sound
<1>4. CASE Fails(l, r)
  <2>1. r.state = "Error"
    BY <1>0, <1>4 DEF Fails, LifeTester
  <2>2. QED
    BY <2>1 DEF Sound
<1>5. CASE \E s \in MeasureStates : Measures(l, t, s, r)
  <2>1. PICK s \in MeasureStates : Measures(l, t, s, r)
    BY <1>5
  <2>2. /\ r.state = s /\ r.v = l.v /\ r.error = l.error
        /\ r.vScanMpp = l.vScanMpp /\ r.pScanMpp = l.pScanMpp
        /\ r.pScanInitial = l.pScanInitial /\ r.pScanFinal = l.pScanFinal
    BY <1>0, <2>1 DEF Measures, LifeTester
  <2>3. s = "MeasureScan" => l.state = "ScanningMode"
    BY <2>1 DEF Measures
  <2>4. QED
    BY <2>2, <2>3 DEF Sound, MeasureStates
<1>6. CASE TakesSample(l, i, r) \/ WaitsAgain(l, t, r)
  <2>1. /\ r.state = l.state /\ r.v = l.v /\ r.error = l.error
        /\ r.vScanMpp = l.vScanMpp /\ r.pScanMpp = l.pScanMpp
        /\ r.pScanInitial = l.pScanInitial /\ r.pScanFinal = l.pScanFinal
        /\ l.state \in MeasureStates
    BY <1>0, <1>6 DEF TakesSample, WaitsAgain, LifeTester
  <2>2. QED
    BY <2>1 DEF Sound, MeasureStates
<1>7. CASE ScansPoint(l, r)
  <2> DEFINE pw == Power(l.v["scan"], Mean(l))
  <2>0. PointScanned(l, r, pw)
    BY <1>7, ScanPointEffect
  <2>1. /\ r.state = "ScanningMode" /\ r.v["scan"] = l.v["scan"] + 1
        /\ r.error = l.error
        /\ r.pScanMpp = (IF pw > l.pScanMpp THEN pw ELSE l.pScanMpp)
        /\ r.vScanMpp = (IF pw > l.pScanMpp THEN l.v["scan"] ELSE l.vScanMpp)
        /\ r.pScanInitial = (IF l.v["scan"] = 0 THEN pw ELSE l.pScanInitial)
        /\ r.pScanFinal = (IF l.v["scan"] = V_SCAN_MAX THEN pw ELSE l.pScanFinal)
    BY <2>0 DEF PointScanned
  <2>2. l.state = "MeasureScan" /\ l.nSamples > 0 /\ l.state \in MeasureStates
    BY <1>7 DEF ScansPoint, MeasureStates
  <2>3. /\ pw \in Nat /\ l.v["scan"] \in Nat /\ l.v["scan"] <= V_SCAN_MAX
        /\ l.vScanMpp \in Nat /\ l.pScanMpp \in Nat
        /\ l.pScanInitial \in Nat /\ l.pScanFinal \in Nat
    <3>1. pw \in Words
      BY <1>0, <2>2, FiledType, PowerType DEF LifeTester, Points
    <3> HIDE DEF pw
    <3>2. QED
      BY <1>0, <2>2, <3>1 DEF Good, Scanned, LifeTester, Points, Codes, Words
  <2>4. /\ l.error = "ok"
        /\ l.v["scan"] = 0 => l.vScanMpp = 0 /\ l.pScanMpp = 0
        /\ l.v["scan"] > 0 => l.vScanMpp < l.v["scan"]
        /\ l.vScanMpp = 0 => l.pScanMpp <= l.pScanInitial
        /\ l.vScanMpp = V_SCAN_MAX => l.pScanMpp <= l.pScanFinal
    BY <2>2 DEF Sound
  <2> HIDE DEF pw
  <2>5. /\ r.v["scan"] <= V_SCAN_MAX + 1
        /\ r.v["scan"] > 0
        /\ r.vScanMpp < r.v["scan"]
    BY <2>1, <2>3, <2>4, LimitAssumption
  <2>6. r.vScanMpp = 0 => r.pScanMpp <= r.pScanInitial
    BY <2>1, <2>3, <2>4
  <2>7. r.vScanMpp = V_SCAN_MAX => r.pScanMpp <= r.pScanFinal
    BY <2>1, <2>3, <2>4, LimitAssumption
  <2>8. QED
    BY <2>1, <2>4, <2>5, <2>6, <2>7 DEF Sound
<1>8. CASE TracksThis(l, r) \/ TracksNext(l, r)
  BY <1>8, TrackPointEffect DEF Sound
<1>9. CASE StartsTracking(l, r)
  <2>1. r.state = "TrackingMode" /\ r.nErrorReads = l.nErrorReads
    BY <1>0, <1>9 DEF StartsTracking, LifeTester
  <2>2. l.nErrorReads \in Nat /\ l.nErrorReads <= MAX_ERROR_READS
    BY <1>0, <1>9 DEF StartsTracking, Good, Budgeted, LifeTester, Words
  <2>3. QED
    BY <2>1, <2>2, LimitAssumption DEF Sound
<1>10. CASE StartsDelay(l, t, r)
  <2>1. r.state = "TrackingDelay"
    BY <1>0, <1>10 DEF StartsDelay, LifeTester
  <2>2. QED
    BY <2>1 DEF Sound
<1>11. CASE EndsDelay(l, r)
  <2>1. r.state = "TrackingMode" /\ r.nErrorReads = l.nErrorReads
    BY <1>0, <1>11 DEF EndsDelay, LifeTester
  <2>2. l.nErrorReads \in Nat /\ l.nErrorReads <= MAX_ERROR_READS
    BY <1>0, <1>11 DEF EndsDelay, Good, Budgeted, LifeTester, Words
  <2>3. QED
    BY <2>1, <2>2, LimitAssumption DEF Sound
<1>12. CASE Moves(l, r)
  <2>1. r.state = "TrackingMode" /\ r.nErrorReads = l.nErrorReads
    BY <1>12, MoveEffect
  <2>2. l.nErrorReads \in Nat /\ l.nErrorReads <= MAX_ERROR_READS
    BY <1>0, <1>12 DEF Moves, LifeTester, Words
  <2>3. QED
    BY <2>1, <2>2, LimitAssumption DEF Sound
<1>13. QED
  BY <1>1, <1>2, <1>3, <1>4, <1>5, <1>6, <1>7, <1>8, <1>9, <1>10, <1>11, <1>12
     DEF Outcome

\* What a reset writes: it does not look at the record it replaces.
LEMMA ResetEffect ==
    ASSUME NEW l, NEW t, l.state = "None"
    PROVE  TransitionToState(l, "Initialise", t)
              = [InitialiseEntry(l, t) EXCEPT !.state = "Initialise"]
BY DEF TransitionToState, Leave, LeaveChild, ExitParent, Arrive, EnterParent,
       ExitsChild, EntersChild, CrossesParents, Parent, RunExit, RunEntry,
       MeasureStates

\* A channel that has just been reset.
Fresh(l, t) ==
    /\ l.state = "Initialise" /\ l.dac = 0 /\ l.timer = t
    /\ l.v["this"] = 0 /\ l.v["scan"] = 0 /\ l.nErrorReads = 0 /\ l.nSamples = 0
    /\ l.vScanMpp = 0 /\ l.pScanMpp = 0 /\ l.pScanInitial = 0 /\ l.pScanFinal = 0
    /\ ~l.delayDone /\ ~l.thisDone /\ ~l.nextDone

\* setup() and the reset command leave the same record behind.
LEMMA ResetFresh ==
    /\ Init => \E t \in Times : Fresh(lt, t) /\ now \in OutputSet(t)
    /\ Inv /\ Reset => Fresh(lt', now) /\ now' \in OutputSet(now)
<1>1. ASSUME NEW l, NEW t, l.state = "None"
      PROVE  Fresh(TransitionToState(l, "Initialise", t), t)
  <2> DEFINE r == [InitialiseEntry(l, t) EXCEPT !.state = "Initialise"]
  <2>1. Fresh(r, t)
    BY DEF Fresh, InitialiseEntry, Points
  <2>2. QED
    BY <1>1, <2>1, ResetEffect
<1>2. Init => \E t \in Times : Fresh(lt, t) /\ now \in OutputSet(t)
  BY <1>1 DEF Init, StateMachine_Reset
<1>3. Inv /\ Reset => Fresh(lt', now) /\ now' \in OutputSet(now)
  <2>1. SUFFICES ASSUME Inv, Reset PROVE Fresh(lt', now) /\ now' \in OutputSet(now)
    OBVIOUS
  <2>2. [lt EXCEPT !.state = "None"].state = "None"
    BY <2>1 DEF Inv, Good, LifeTester
  <2>3. QED
    BY <1>1, <2>1, <2>2 DEF Reset, StateMachine_Reset
<1>4. QED
  BY <1>2, <1>3

LEMMA FreshSound == ASSUME NEW l, NEW t, Fresh(l, t) PROVE Sound(l)
BY LimitAssumption
   DEF Fresh, Sound, NoMaximumYet, MaximumMeasured, OverspentByResult, ScanWithoutError

\* setup() establishes the invariant.
LEMMA CInvInit == Init => CInv
BY InvInit, ResetFresh, FreshSound DEF CInv

\* Every step keeps it.
LEMMA CInvNext == CInv /\ [Next]_vars => CInv'
<1> SUFFICES ASSUME CInv, [Next]_vars PROVE CInv'
  OBVIOUS
<1>1. Inv' /\ Good(lt) /\ Sound(lt)
  BY InvNext DEF CInv, Inv
<1>2. CASE UpdateStep
  <2>1. Sound(lt')
    BY <1>1, <1>2, UpdateOutcome, OutcomeSound
  <2>2. QED
    BY <1>1, <2>1 DEF CInv
<1>3. CASE Reset
  <2>1. Sound(lt')
    BY <1>3, ResetFresh, FreshSound DEF CInv
  <2>2. QED
    BY <1>1, <2>1 DEF CInv
<1>4. CASE SetParams \/ UNCHANGED vars
  <2>1. lt' = lt
    BY <1>4 DEF SetParams, vars
  <2>2. QED
    BY <1>1, <2>1 DEF CInv
<1>5. QED
  BY <1>2, <1>3, <1>4 DEF Next

-----------------------------------------------------------------------------
(* The channel implements ChannelModes *)

\* How the abstract channel sees a record, by its state.
LEMMA Abstraction ==
    ASSUME NEW l, Good(l)
    PROVE  /\ l.state = "Initialise" =>
                 ModeOf(l) = "init" /\ TaskOf(l) = "none" /\ DoneOf(l) = 0
           /\ l.state = "ScanningMode" =>
                 ModeOf(l) = "scan" /\ TaskOf(l) = "none" /\ DoneOf(l) = l.v["scan"]
           /\ l.state = "MeasureScan" =>
                 ModeOf(l) = "scan" /\ TaskOf(l) = "scan" /\ DoneOf(l) = l.v["scan"]
           /\ l.state = "TrackingMode" =>
                 /\ ModeOf(l) = "track" /\ TaskOf(l) = "none"
                 /\ ~l.delayDone => DoneOf(l) = 0
                 /\ l.delayDone /\ ~l.thisDone => DoneOf(l) = 1
                 /\ l.delayDone /\ l.thisDone /\ ~l.nextDone => DoneOf(l) = 2
                 /\ l.delayDone /\ l.thisDone /\ l.nextDone => DoneOf(l) = 3
           /\ l.state = "TrackingDelay" =>
                 ModeOf(l) = "track" /\ TaskOf(l) = "delay" /\ DoneOf(l) = 0
           /\ l.state = "MeasureThis" =>
                 ModeOf(l) = "track" /\ TaskOf(l) = "this" /\ DoneOf(l) = 1
           /\ l.state = "MeasureNext" =>
                 ModeOf(l) = "track" /\ TaskOf(l) = "next" /\ DoneOf(l) = 2
           /\ l.state = "Error" =>
                 ModeOf(l) = "error" /\ TaskOf(l) = "none" /\ DoneOf(l) = 0
BY DEF Good, FlagsInOrder, ModeOf, TaskOf, DoneOf, PointOf, TrackingStates, MeasureStates

\* The initial state of the channel is that of ChannelModes, and so is a reset.
LEMMA FreshIsInit ==
    ASSUME NEW l, NEW t, Good(l), Fresh(l, t)
    PROVE  /\ ModeOf(l) = "init" /\ TaskOf(l) = "none" /\ DoneOf(l) = 0
           /\ l.v["this"] = 0 /\ l.dac = 0
BY Abstraction DEF Fresh

\* A call of UpdateStep is a step of ChannelModes, or none.
LEMMA UpdateRefines == CInv /\ UpdateStep /\ CInv' => [Modes!Next]_(Modes!modeVars)
<1> SUFFICES ASSUME CInv, UpdateStep, CInv' PROVE [Modes!Next]_(Modes!modeVars)
  OBVIOUS
<1> DEFINE stutter == UNCHANGED <<ModeOf(lt), TaskOf(lt), DoneOf(lt), lt.v["this"], lt.dac>>
<1> USE DEF Modes!TaskOutput, Modes!Cycle
<1>0. stutter => [Modes!Next]_(Modes!modeVars)
  BY DEF Modes!modeVars
<1>1. /\ Good(lt) /\ Sound(lt) /\ lt \in LifeTester
      /\ Good(lt') /\ Sound(lt') /\ lt' \in LifeTester
  BY DEF CInv, Inv, Good
<1>2. PICK d \in LoopTimes, i \in Words : Outcome(lt, now', config, i, lt')
  BY UpdateOutcome
<1>a. Good(lt) /\ Good(lt')
  BY <1>1
<1>3. CASE lt' = lt
  BY <1>0, <1>3
<1>4. CASE CountsBadReading(lt, lt')
  <2>1. /\ lt.state = "Initialise" /\ lt'.state = "Initialise"
        /\ lt'.v = lt.v /\ lt'.dac = lt.dac
    BY <1>1, <1>4 DEF CountsBadReading, LifeTester
  <2>2. stutter
    BY <1>a, <2>1, Abstraction
  <2>3. QED
    BY <1>0, <2>2
<1>5. CASE StartsScan(lt, lt')
  <2>1. /\ lt.state = "Initialise" /\ lt'.state = "ScanningMode"
        /\ lt'.v["scan"] = 0 /\ lt'.v["this"] = lt.v["this"] /\ lt'.dac = lt.dac
    BY <1>1, <1>5 DEF StartsScan, LifeTester, Points
  <2>2. Modes!StartScan
    BY <1>a, <2>1, Abstraction DEF Modes!StartScan
  <2>3. QED
    BY <2>2 DEF Modes!Next
<1>6. CASE Fails(lt, lt')
  <2>1. lt'.state = "Error" /\ lt'.dac = 0 /\ lt'.v = lt.v
    BY <1>1, <1>6 DEF Fails, LifeTester
  <2>2. /\ lt.state \in {"Initialise", "ScanningMode", "TrackingMode"}
        /\ lt.state = "ScanningMode" => lt.v["scan"] = V_SCAN_MAX + 1
        /\ lt.state = "TrackingMode" => lt.thisDone /\ lt.delayDone
    <3>1. lt.v["scan"] \in Nat
      BY <1>1 DEF LifeTester, Points, Codes
    <3>2. QED
      BY <1>1, <1>6, <3>1, LimitAssumption
         DEF Fails, Sound, MaximumMeasured, OverspentByResult, Good, Compared,
             TrackingStates
  <2>3. /\ TaskOf(lt) = "none" /\ TaskOf(lt') = "none"
        /\ \/ ModeOf(lt) = "init"
           \/ ModeOf(lt) = "scan" /\ DoneOf(lt) = V_SCAN_MAX + 1
           \/ ModeOf(lt) = "track" /\ DoneOf(lt) \in {2, 3}
        /\ ModeOf(lt') = "error" /\ DoneOf(lt') = 0
    BY <1>a, <2>1, <2>2, Abstraction
  <2>4. Modes!Fail
    BY <2>1, <2>3 DEF Modes!Fail
  <2>5. QED
    BY <2>4 DEF Modes!Next
<1>7. CASE \E s \in MeasureStates : Measures(lt, now', s, lt')
  <2>1. PICK s \in MeasureStates : Measures(lt, now', s, lt')
    BY <1>7
  <2>2. /\ lt'.state = s /\ lt'.v = lt.v /\ lt'.dac = lt.v[PointOf(s)]
        /\ lt'.delayDone = lt.delayDone /\ lt'.thisDone = lt.thisDone
        /\ lt'.nextDone = lt.nextDone
    BY <1>1, <2>1 DEF Measures, LifeTester
  <2>3. CASE s = "MeasureScan"
    <3>1. /\ lt.state = "ScanningMode" /\ lt.v["scan"] <= V_SCAN_MAX
          /\ PointOf(s) = "scan"
      BY <2>1, <2>3 DEF Measures, PointOf
    <3>2. Modes!Begin("scan")
      BY <1>a, <2>2, <2>3, <3>1, Abstraction DEF Modes!Begin
    <3>3. QED
      BY <3>2 DEF Modes!Next
  <2>4. CASE s = "MeasureThis"
    <3>1. /\ lt.state = "TrackingMode" /\ lt.delayDone /\ ~lt.thisDone
          /\ PointOf(s) = "this"
      BY <2>1, <2>4 DEF Measures, PointOf
    <3>2. Modes!Begin("this")
      BY <1>a, <2>2, <2>4, <3>1, Abstraction DEF Modes!Begin
    <3>3. QED
      BY <3>2 DEF Modes!Next
  <2>5. CASE s = "MeasureNext"
    <3>1. /\ lt.state = "TrackingMode" /\ lt.delayDone /\ lt.thisDone /\ ~lt.nextDone
          /\ PointOf(s) = "next"
      BY <2>1, <2>5 DEF Measures, PointOf
    <3>2. lt.v["next"] = (lt.v["this"] + 1) % CodeMod
      BY <1>1, <3>1 DEF Good, Compared, TrackingStates, DV_MPPT
    <3>3. Modes!Begin("next")
      BY <1>a, <2>2, <2>5, <3>1, <3>2, Abstraction DEF Modes!Begin
    <3>4. QED
      BY <3>3 DEF Modes!Next
  <2>6. QED
    BY <2>3, <2>4, <2>5 DEF MeasureStates
<1>8. CASE TakesSample(lt, i, lt') \/ WaitsAgain(lt, now', lt')
  <2>1. /\ lt'.state = lt.state /\ lt'.v = lt.v /\ lt'.dac = lt.dac
        /\ lt.state \in MeasureStates
    BY <1>1, <1>8 DEF TakesSample, WaitsAgain, LifeTester
  <2>2. stutter
    BY <1>a, <2>1, Abstraction DEF MeasureStates
  <2>3. QED
    BY <1>0, <2>2
<1>9. CASE ScansPoint(lt, lt')
  <2>1. /\ lt'.state = "ScanningMode" /\ lt'.v["scan"] = lt.v["scan"] + 1
        /\ lt'.v["this"] = lt.v["this"] /\ lt'.dac = lt.dac
    BY <1>1, <1>9, ScanPointEffect, ZenonT(40) DEF PointScanned
  <2>2. lt.state = "MeasureScan"
    BY <1>9 DEF ScansPoint
  <2>3. Modes!Finish
    BY <1>a, <2>1, <2>2, Abstraction DEF Modes!Finish
  <2>4. QED
    BY <2>3 DEF Modes!Next
<1>10. CASE TracksThis(lt, lt') \/ TracksNext(lt, lt')
  <2>1. /\ lt'.state = "TrackingMode" /\ lt'.v = lt.v /\ lt'.dac = lt.dac
        /\ lt'.thisDone /\ lt'.delayDone
        /\ lt'.nextDone = (lt.state = "MeasureNext")
    BY <1>1, <1>10, TrackPointEffect
  <2>2. lt.state \in {"MeasureThis", "MeasureNext"}
    BY <1>10 DEF TracksThis, TracksNext
  <2>3. TaskOf(lt') = "none" /\ ModeOf(lt') = "track"
        /\ DoneOf(lt') = IF lt.state = "MeasureThis" THEN 2 ELSE 3
    BY <1>a, <2>1, <2>2, Abstraction
  <2>4. TaskOf(lt) # "none" /\ ModeOf(lt) = "track"
        /\ DoneOf(lt) = IF lt.state = "MeasureThis" THEN 1 ELSE 2
    BY <1>a, <2>2, Abstraction
  <2>5. Modes!Finish
    BY <2>1, <2>3, <2>4 DEF Modes!Finish
  <2>6. QED
    BY <2>5 DEF Modes!Next
<1>11. CASE StartsTracking(lt, lt')
  <2>1. /\ lt.state = "ScanningMode" /\ lt'.state = "TrackingMode"
        /\ lt'.v["this"] = lt.vScanMpp /\ lt'.dac = lt.dac
        /\ lt'.delayDone = lt.delayDone
    BY <1>1, <1>11 DEF StartsTracking, LifeTester, Points
  <2>2. ~lt.delayDone
    BY <1>1, <2>1 DEF Good, FlagsInOrder
  <2>3. lt.v["scan"] = V_SCAN_MAX + 1 /\ lt.vScanMpp \in 1 .. V_SCAN_MAX - 1
    <3>1. /\ lt.v["scan"] \in Nat /\ lt.vScanMpp \in Nat /\ lt.pScanMpp \in Nat
          /\ lt.pScanInitial \in Nat /\ lt.pScanFinal \in Nat
      BY <1>1 DEF LifeTester, Points, Codes, Words
    <3>2. lt.v["scan"] > V_SCAN_MAX /\ ScanShapeOk(lt)
      BY <1>11 DEF StartsTracking
    <3>3. /\ lt.v["scan"] <= V_SCAN_MAX + 1
          /\ lt.v["scan"] > 0 => lt.vScanMpp < lt.v["scan"]
          /\ lt.vScanMpp = 0 => lt.pScanMpp <= lt.pScanInitial
          /\ lt.vScanMpp = V_SCAN_MAX => lt.pScanMpp <= lt.pScanFinal
      BY <1>1, <2>1 DEF Sound, MaximumMeasured
    <3>4. QED
      BY <3>1, <3>2, <3>3, LimitAssumption DEF ScanShapeOk
  <2>4. /\ ModeOf(lt) = "scan" /\ TaskOf(lt) = "none" /\ DoneOf(lt) = V_SCAN_MAX + 1
        /\ ModeOf(lt') = "track" /\ TaskOf(lt') = "none" /\ DoneOf(lt') = 0
    BY <1>a, <2>1, <2>2, <2>3, Abstraction
  <2>5. Modes!StartTracking
    BY <2>1, <2>3, <2>4 DEF Modes!StartTracking
  <2>6. QED
    BY <2>5 DEF Modes!Next
<1>12. CASE StartsDelay(lt, now', lt')
  <2>1. /\ lt.state = "TrackingMode" /\ ~lt.delayDone /\ lt'.state = "TrackingDelay"
        /\ lt'.v = lt.v /\ lt'.dac = lt.dac
    BY <1>1, <1>12 DEF StartsDelay, LifeTester
  <2>2. Modes!Begin("delay")
    BY <1>a, <2>1, Abstraction DEF Modes!Begin
  <2>3. QED
    BY <2>2 DEF Modes!Next
<1>13. CASE EndsDelay(lt, lt')
  <2>1. /\ lt.state = "TrackingDelay" /\ lt'.state = "TrackingMode"
        /\ lt'.v = lt.v /\ lt'.dac = lt.dac
        /\ lt'.delayDone /\ lt'.thisDone = lt.thisDone
    BY <1>1, <1>13 DEF EndsDelay, LifeTester
  <2>2. ~lt.thisDone
    BY <1>1, <2>1 DEF Good, FlagsInOrder
  <2>3. /\ TaskOf(lt) = "delay" /\ TaskOf(lt') = "none"
        /\ DoneOf(lt) = 0 /\ DoneOf(lt') = 1
        /\ ModeOf(lt') = ModeOf(lt)
    BY <1>a, <2>1, <2>2, Abstraction
  <2>4. Modes!Finish
    BY <2>1, <2>3 DEF Modes!Finish
  <2>5. QED
    BY <2>4 DEF Modes!Next
<1>14. CASE Moves(lt, lt')
  <2>1. /\ lt'.state = "TrackingMode" /\ lt'.dac = lt.dac /\ ~lt'.delayDone
        /\ lt'.v["this"] \in {(lt.v["this"] + 1) % CodeMod, (lt.v["this"] - 1) % CodeMod}
    BY <1>1, <1>14, MoveEffect
  <2>2. lt.state = "TrackingMode" /\ lt.delayDone /\ lt.thisDone /\ lt.nextDone
    BY <1>14 DEF Moves
  <2>3. Modes!Move
    BY <1>a, <2>1, <2>2, Abstraction DEF Modes!Move
  <2>4. QED
    BY <2>3 DEF Modes!Next
<1>15. QED
  BY <1>2, <1>3, <1>4, <1>5, <1>6, <1>7, <1>8, <1>9, <1>10, <1>11, <1>12, <1>13, <1>14
     DEF Outcome

\* So is every other step: a reset starts over, the parameters are not seen.
LEMMA StepRefines == CInv /\ [Next]_vars => [Modes!Next]_(Modes!modeVars)
<1> SUFFICES ASSUME CInv, [Next]_vars PROVE [Modes!Next]_(Modes!modeVars)
  OBVIOUS
<1>1. CInv'
  BY CInvNext
<1>2. CASE UpdateStep
  BY <1>1, <1>2, UpdateRefines
<1>3. CASE Reset
  <2>1. Good(lt') /\ Fresh(lt', now)
    BY <1>1, <1>3, ResetFresh DEF CInv, Inv
  <2>2. Modes!Reset
    BY <2>1, FreshIsInit DEF Modes!Reset
  <2>3. QED
    BY <2>2 DEF Modes!Next
<1>4. CASE SetParams \/ UNCHANGED vars
  BY <1>4 DEF SetParams, vars, Modes!modeVars
<1>5. QED
  BY <1>2, <1>3, <1>4 DEF Next

\* The state machine of LifeTester/StateMachine.cpp implements ChannelModes, for
\* any widths, limits, loop times, device and parameters: it scans every code once
\* and in order, starts tracking strictly inside the range, repeats the cycle delay,
\* this, next, move, fails only between measurements and then drives zero volts.
THEOREM ModesImplemented == Spec => ImplementsModes
<1>1. Init => Modes!Init
  BY InvInit, ResetFresh, FreshIsInit DEF Inv, Modes!Init
<1>2. QED
  BY <1>1, CInvInit, CInvNext, StepRefines, PTL DEF Spec, ImplementsModes, Modes!Spec

-----------------------------------------------------------------------------
(* The clock *)

\* One turn of a counter that wraps around, forwards and backwards.
LEMMA Wrap ==
    ASSUME NEW m \in Nat \ {0}, NEW x \in Int
    PROVE  /\ 0 <= x /\ x < 2 * m => x % m = IF x < m THEN x ELSE x - m
           /\ -m <= x /\ x < m => x % m = IF x < 0 THEN x + m ELSE x
<1>1. ASSUME 0 <= x, x < m PROVE x % m = x
  BY <1>1
<1>2. ASSUME m <= x, x < 2 * m PROVE x % m = x - m
  BY <1>2
<1>3. ASSUME -m <= x, x < 0 PROVE x % m = x + m
  BY <1>3
<1> DEFINE y == x % m
<1>4. y \in Int
  OBVIOUS
<1> HIDE DEF y
<1>5. 0 <= x /\ x < 2 * m => y = IF x < m THEN x ELSE x - m
  BY <1>1, <1>2, <1>4 DEF y
<1>6. -m <= x /\ x < m => y = IF x < 0 THEN x + m ELSE x
  BY <1>1, <1>3, <1>4 DEF y
<1>7. QED
  BY <1>5, <1>6 DEF y

\* No time has passed since now.
LEMMA NoTime == ASSUME NEW n \in Times PROVE (n - n) % TimeMod = 0
<1>1. n - n = 0
  BY DEF Times
<1>2. 0 % TimeMod = 0
  BY WidthAssumption
<1>3. QED
  BY <1>1, <1>2

\* d milliseconds later the clock shows d more than before, and the time since any
\* moment has grown by d or wrapped around.
LEMMA ClockStep ==
    ASSUME NEW n \in Times, NEW m \in Times, NEW d \in LoopTimes \cup DacWriteTimes
    PROVE  LET t == (n + d) % TimeMod
           IN  /\ t \in Times
               /\ d \in Nat
               /\ (t - n) % TimeMod = d
               /\ (t - m) % TimeMod \in Nat
               /\ (t - m) % TimeMod <= ((n - m) % TimeMod) + d
<1> DEFINE t == (n + d) % TimeMod
<1>1. /\ n \in 0 .. TimeMod - 1 /\ m \in 0 .. TimeMod - 1
      /\ d \in 1 .. TimeMod - 1 /\ TimeMod \in Nat \ {0}
  BY EnvironmentAssumption, WidthAssumption DEF Times
<1>2. t = IF n + d < TimeMod THEN n + d ELSE n + d - TimeMod
  <2> DEFINE x == n + d
  <2>1. x \in Int /\ 0 <= x /\ x < 2 * TimeMod
    BY <1>1
  <2> HIDE DEF x
  <2>2. x % TimeMod = IF x < TimeMod THEN x ELSE x - TimeMod
    BY <1>1, <2>1, Wrap
  <2>3. QED
    BY <1>1, <2>2 DEF x
<1>3. t \in 0 .. TimeMod - 1
  BY <1>1
<1> HIDE DEF t
<1>4. ASSUME NEW y \in 0 .. TimeMod - 1, NEW z \in 0 .. TimeMod - 1
      PROVE  (y - z) % TimeMod = IF y < z THEN y - z + TimeMod ELSE y - z
  <2> DEFINE x == y - z
  <2>1. x \in Int /\ -TimeMod <= x /\ x < TimeMod
    BY <1>1
  <2> HIDE DEF x
  <2>2. x % TimeMod = IF x < 0 THEN x + TimeMod ELSE x
    BY <1>1, <2>1, Wrap
  <2>3. QED
    BY <2>2 DEF x
<1>5. /\ (t - n) % TimeMod = IF t < n THEN t - n + TimeMod ELSE t - n
      /\ (n - m) % TimeMod = IF n < m THEN n - m + TimeMod ELSE n - m
      /\ (t - m) % TimeMod = IF t < m THEN t - m + TimeMod ELSE t - m
  BY <1>1, <1>3, <1>4
<1> DEFINE e == (t - n) % TimeMod
           f == (n - m) % TimeMod
           g == (t - m) % TimeMod
<1> HIDE DEF e, f, g
<1>6. e = d /\ g \in Nat
  BY <1>1, <1>2, <1>3, <1>5 DEF e, g
<1>7. g <= f + d
  BY <1>1, <1>2, <1>3, <1>5 DEF f, g
<1>8. QED
  BY <1>1, <1>3, <1>6, <1>7 DEF Times, t, e, f, g

-----------------------------------------------------------------------------
(* What the history shows *)

\* A call that judges the short-circuit reading, or adds a sample.
ReadsShortCircuit(l, r) ==
    l.state = "Initialise" /\ (r.state = "ScanningMode" \/ r.nErrorReads # l.nErrorReads)

AddsSample(l, r) == r.nSamples > l.nSamples

\* A call that judges the average of a tracking measurement.
Judges(l, r) == l.state \in {"MeasureThis", "MeasureNext"} /\ r.state = "TrackingMode"

OnceTracked == TrackingStates \cup {"Error"}

\* A measurement restarts the timer when it sets the output, and readings wait for it.
TimerFollows(l, t, c, r) ==
    LET same == r.timer = l.timer /\ r.dac = l.dac
    IN  /\ r.state \in MeasureStates => r.timer = t \/ (same /\ l.state \in MeasureStates)
        /\ r.state = "Initialise" => same /\ l.state = "Initialise"
        /\ ReadsShortCircuit(l, r) => Settled(l, t, c) /\ same
        /\ AddsSample(l, r) => Settled(l, t, c) /\ same /\ l.state \in MeasureStates

\* Once tracking, only an average changes the count of bad readings.
CountFollows(l, r) ==
    l.state \in OnceTracked =>
        /\ r.state \in OnceTracked
        /\ IF Judges(l, r)
           THEN \/ r.error = "ok" /\ r.nErrorReads = 0
                \/ r.error # "ok" /\ r.nErrorReads = l.nErrorReads + 1
           ELSE r.nErrorReads = l.nErrorReads

\* Each outcome as the history sees it.
LEMMA OutcomeTiming ==
    ASSUME NEW l, Good(l), Sound(l), NEW t, NEW c, NEW i, NEW r,
           Outcome(l, t, c, i, r)
    PROVE  TimerFollows(l, t, c, r) /\ CountFollows(l, r)
<1> USE DEF TimerFollows, CountFollows, ReadsShortCircuit, AddsSample, Judges, MeasureStates
<1>0. l \in LifeTester /\ l.nSamples \in Nat
  BY DEF Good, LifeTester
<1>1. CASE r = l
  BY <1>0, <1>1 DEF OnceTracked
<1>2. CASE Settled(l, t, c) /\ CountsBadReading(l, r)
  <2>1. /\ l.state = "Initialise" /\ r.state = "Initialise" /\ r.dac = l.dac
        /\ r.timer = l.timer /\ r.nSamples = l.nSamples
    BY <1>0, <1>2 DEF CountsBadReading, LifeTester
  <2>2. QED
    BY <1>0, <1>2, <2>1 DEF OnceTracked, TrackingStates
<1>3. CASE Settled(l, t, c) /\ StartsScan(l, r)
  <2>1. /\ l.state = "Initialise" /\ r.dac = l.dac /\ r.timer = l.timer
        /\ r.state = "ScanningMode" /\ r.nSamples = l.nSamples
    BY <1>0, <1>3 DEF StartsScan, LifeTester
  <2>2. QED
    BY <1>0, <1>3, <2>1 DEF OnceTracked, TrackingStates
<1>4. CASE Fails(l, r)
  <2>1. /\ r.state = "Error" /\ r.nErrorReads = l.nErrorReads
        /\ r.nSamples = l.nSamples
        /\ l.state \in {"Initialise", "ScanningMode", "TrackingMode"}
    BY <1>0, <1>4 DEF Fails, LifeTester
  <2>2. QED
    BY <1>0, <2>1 DEF OnceTracked
<1>5. CASE \E s \in MeasureStates : Measures(l, t, s, r)
  <2>1. PICK s \in MeasureStates : Measures(l, t, s, r)
    BY <1>5
  <2>2. /\ r.state = s /\ r.timer = t /\ r.nErrorReads = l.nErrorReads
        /\ r.nSamples = 0
    BY <1>0, <2>1 DEF Measures, LifeTester
  <2>3. \/ s = "MeasureScan" /\ l.state = "ScanningMode"
        \/ s \in {"MeasureThis", "MeasureNext"} /\ l.state = "TrackingMode"
    BY <2>1 DEF Measures
  <2>4. QED
    BY <1>0, <2>2, <2>3 DEF OnceTracked, TrackingStates
<1>6. CASE Settled(l, t, c) /\ TakesSample(l, i, r)
  <2>1. /\ l.state \in MeasureStates /\ r.state = l.state /\ r.dac = l.dac
        /\ r.timer = l.timer /\ r.nErrorReads = l.nErrorReads
    BY <1>0, <1>6 DEF TakesSample, LifeTester
  <2>2. QED
    BY <1>6, <2>1 DEF OnceTracked, TrackingStates, MeasureStates
<1>7. CASE WaitsAgain(l, t, r)
  <2>1. /\ l.state \in MeasureStates /\ r.state = l.state
        /\ r.timer = t /\ r.nErrorReads = l.nErrorReads /\ r.nSamples = l.nSamples
    BY <1>0, <1>7 DEF WaitsAgain, LifeTester
  <2>2. QED
    BY <1>0, <2>1 DEF OnceTracked, TrackingStates, MeasureStates
<1>8. CASE ScansPoint(l, r)
  <2>1. /\ r.state = "ScanningMode" /\ r.dac = l.dac /\ r.timer = l.timer
        /\ r.nSamples = l.nSamples /\ r.nErrorReads = l.nErrorReads
    BY <1>8, ScanPointEffect, ZenonT(40) DEF PointScanned
  <2>2. l.state = "MeasureScan"
    BY <1>8 DEF ScansPoint
  <2>3. QED
    BY <1>0, <2>1, <2>2 DEF OnceTracked, TrackingStates
<1>9. CASE TracksThis(l, r) \/ TracksNext(l, r)
  <2>1. /\ r.state = "TrackingMode" /\ r.dac = l.dac /\ r.timer = l.timer
        /\ r.nSamples = l.nSamples
        /\ \/ r.error = "ok" /\ r.nErrorReads = 0
           \/ r.error # "ok" /\ r.nErrorReads = l.nErrorReads + 1
    BY <1>9, TrackPointEffect
  <2>2. l.state \in {"MeasureThis", "MeasureNext"}
    BY <1>9 DEF TracksThis, TracksNext
  <2>3. QED
    BY <1>0, <2>1, <2>2 DEF OnceTracked, TrackingStates
<1>10. CASE StartsTracking(l, r)
  <2>1. /\ l.state = "ScanningMode" /\ r.state = "TrackingMode" /\ r.dac = l.dac
        /\ r.timer = l.timer /\ r.nSamples = l.nSamples
    BY <1>0, <1>10 DEF StartsTracking, LifeTester
  <2>2. QED
    BY <1>0, <2>1 DEF OnceTracked, TrackingStates
<1>11. CASE StartsDelay(l, t, r)
  <2>1. /\ l.state = "TrackingMode" /\ r.state = "TrackingDelay" /\ r.timer = t
        /\ r.nSamples = l.nSamples /\ r.nErrorReads = l.nErrorReads
    BY <1>0, <1>11 DEF StartsDelay, LifeTester
  <2>2. QED
    BY <1>0, <2>1 DEF OnceTracked, TrackingStates
<1>12. CASE EndsDelay(l, r)
  <2>1. /\ l.state = "TrackingDelay" /\ r.state = "TrackingMode" /\ r.dac = l.dac
        /\ r.timer = l.timer /\ r.nSamples = l.nSamples
        /\ r.nErrorReads = l.nErrorReads
    BY <1>0, <1>12 DEF EndsDelay, LifeTester
  <2>2. QED
    BY <1>0, <2>1 DEF OnceTracked, TrackingStates
<1>13. CASE Moves(l, r)
  <2>1. /\ r.state = "TrackingMode" /\ r.dac = l.dac /\ r.timer = l.timer
        /\ r.nSamples = l.nSamples /\ r.nErrorReads = l.nErrorReads
    BY <1>13, MoveEffect
  <2>2. l.state = "TrackingMode"
    BY <1>13 DEF Moves
  <2>3. QED
    BY <1>0, <2>1, <2>2 DEF OnceTracked, TrackingStates
<1>14. QED
  BY <1>1, <1>2, <1>3, <1>4, <1>5, <1>6, <1>7, <1>8, <1>9, <1>10, <1>11, <1>12, <1>13
     DEF Outcome

\* After a call of UpdateStep the time the output has been constant has grown at
\* least as much as the time the timer shows; a sample finds it long enough, and
\* a short-circuit reading no shorter by more than a write of the DAC.
LEMMA QuietFollows ==
    ASSUME CInv, HInv, HUpdateStep
    PROVE  /\ quiet' \in 0 .. QuietCap
           /\ TimerIsQuiet'
           /\ AddsSample(lt, lt') => quiet' >= config.settle
           /\ ReadsShortCircuit(lt, lt') =>
                 \E d \in DacWriteTimes : quiet' + d >= config.settle
<1>1. /\ Good(lt) /\ Sound(lt) /\ now \in Times /\ lt.timer \in Times
      /\ config \in ParamRecords /\ UpdateStep
  BY DEF CInv, Inv, Good, LifeTester, HUpdateStep
<1>2. PICK d \in LoopTimes, i \in Words :
        /\ now' = (now + d) % TimeMod
        /\ Outcome(lt, now', config, i, lt')
  BY UpdateOutcome, <1>1
<1>3. TimerFollows(lt, now', config, lt')
  BY <1>1, <1>2, OutcomeTiming
<1> DEFINE e == Elapsed(lt, now)
           f == Elapsed(lt, now')
           b == QuietAfter((now' - now) % TimeMod)
<1>4. /\ now' \in Times /\ d \in Nat /\ (now' - now) % TimeMod = d
      /\ f \in Nat /\ f <= e + d
  BY <1>1, <1>2, ClockStep DEF Elapsed
<1>5. e \in Nat
  BY <1>1, WidthAssumption DEF Elapsed, Times
<1>6. /\ quiet' = b /\ b = IF lt'.dac # lt.dac THEN 0
                           ELSE IF quiet + d > QuietCap THEN QuietCap ELSE quiet + d
      /\ quiet \in 0 .. QuietCap /\ QuietCap \in Nat
  BY <1>4, QuietAssumption DEF HUpdateStep, QuietAfter, UpToCap, HInv
<1>7. DacWriteTimes \subseteq Nat
  BY WidthAssumption, EnvironmentAssumption
<1>8. /\ lt.state \in MeasureStates => e <= quiet \/ quiet = QuietCap
      /\ lt.state = "Initialise" => \E w \in DacWriteTimes : e <= quiet + w \/ quiet = QuietCap
  BY DEF HInv, TimerIsQuiet
<1> HIDE DEF e, f, b
<1>9. quiet' \in 0 .. QuietCap
  BY <1>4, <1>6
<1>10. ASSUME NEW w \in Nat, e <= quiet + w \/ quiet = QuietCap, lt'.dac = lt.dac
       PROVE  f <= quiet' + w \/ quiet' = QuietCap
  BY <1>4, <1>5, <1>6, <1>10
<1>11. ASSUME lt.state \in MeasureStates, lt'.dac = lt.dac
       PROVE  f <= quiet' \/ quiet' = QuietCap
  <2>1. e <= quiet + 0 \/ quiet = QuietCap
    BY <1>6, <1>8, <1>11
  <2>2. f <= quiet' + 0 \/ quiet' = QuietCap
    BY <1>10, <1>11, <2>1
  <2>3. QED
    BY <1>9, <2>2
<1>12. ASSUME lt.state = "Initialise", lt'.dac = lt.dac
       PROVE  \E w \in DacWriteTimes : f <= quiet' + w \/ quiet' = QuietCap
  BY <1>7, <1>8, <1>10, <1>12
<1>13. TimerIsQuiet'
  <2>1. ASSUME lt'.state \in MeasureStates
        PROVE  Elapsed(lt', now') <= quiet' \/ quiet' = QuietCap
    <3>1. CASE lt'.timer = now'
      <4>1. Elapsed(lt', now') = 0
        BY <1>4, <3>1, NoTime DEF Elapsed
      <4>2. QED
        BY <1>9, <4>1, QuietAssumption
    <3>2. CASE lt'.timer = lt.timer /\ lt'.dac = lt.dac /\ lt.state \in MeasureStates
      BY <1>11, <3>2 DEF Elapsed, f
    <3>3. QED
      BY <1>3, <2>1, <3>1, <3>2 DEF TimerFollows
  <2>2. ASSUME lt'.state = "Initialise"
        PROVE  \E w \in DacWriteTimes :
                  Elapsed(lt', now') <= quiet' + w \/ quiet' = QuietCap
    <3>1. lt'.timer = lt.timer /\ lt'.dac = lt.dac /\ lt.state = "Initialise"
      BY <1>3, <2>2 DEF TimerFollows
    <3>2. QED
      BY <1>12, <3>1 DEF Elapsed, f
  <2>3. QED
    BY <2>1, <2>2 DEF TimerIsQuiet
<1>14. config.settle \in Nat /\ config.settle <= QuietCap
  BY <1>1, QuietAssumption DEF ParamRecords, Words, HInv
<1>15. ASSUME AddsSample(lt, lt') PROVE quiet' >= config.settle
  <2>1. f >= config.settle /\ lt'.dac = lt.dac /\ lt.state \in MeasureStates
    BY <1>3, <1>15 DEF TimerFollows, Settled, f
  <2>2. QED
    BY <1>4, <1>9, <1>11, <1>14, <2>1
<1>16. ASSUME ReadsShortCircuit(lt, lt')
       PROVE  \E w \in DacWriteTimes : quiet' + w >= config.settle
  <2>1. f >= config.settle /\ lt'.dac = lt.dac /\ lt.state = "Initialise"
    BY <1>3, <1>16 DEF TimerFollows, Settled, f, ReadsShortCircuit
  <2>2. PICK w \in DacWriteTimes : f <= quiet' + w \/ quiet' = QuietCap
    BY <1>12, <2>1
  <2>3. quiet' + w >= config.settle
    BY <1>4, <1>6, <1>7, <1>9, <1>14, <2>1, <2>2
  <2>4. QED
    BY <2>3
<1>17. QED
  BY <1>9, <1>13, <1>15, <1>16

\* The history's count of bad readings in succession and the code's agree.
LEMMA StreakFollows ==
    ASSUME CInv, HInv, HUpdateStep
    PROVE  /\ streak' \in Nat /\ tracked' \in BOOLEAN
           /\ tracked' => lt'.state \in OnceTracked
           /\ tracked' => lt'.nErrorReads = streak'
<1>1. /\ Good(lt) /\ Sound(lt) /\ UpdateStep
      /\ streak \in Nat /\ tracked \in BOOLEAN
      /\ tracked => lt.state \in OnceTracked
      /\ tracked => lt.nErrorReads = streak
  BY DEF CInv, Inv, HInv, HUpdateStep, OnceTracked
<1>2. CountFollows(lt, lt')
  <2>1. PICK d \in LoopTimes, i \in Words : Outcome(lt, now', config, i, lt')
    BY UpdateOutcome, <1>1
  <2>2. QED
    BY <1>1, <2>1, OutcomeTiming
<1>3. /\ streak' = IF InitReading \/ TrackReading
                   THEN IF lt'.error = "ok" THEN 0 ELSE streak + 1
                   ELSE streak
      /\ tracked' = (tracked \/ (TrackReading /\ lt'.error = "ok"))
      /\ TrackReading = Judges(lt, lt')
  BY DEF HUpdateStep, TrackReading, Judges
<1>4. streak' \in Nat /\ tracked' \in BOOLEAN
  BY <1>1, <1>3
<1>5. CASE tracked
  <2>1. lt.state \in OnceTracked /\ lt.nErrorReads = streak /\ ~InitReading
    BY <1>1, <1>5 DEF InitReading, OnceTracked, TrackingStates
  <2>2. QED
    BY <1>2, <1>3, <1>4, <2>1 DEF CountFollows
<1>6. CASE ~tracked /\ tracked'
  <2>1. TrackReading /\ lt'.error = "ok" /\ streak' = 0
    BY <1>3, <1>6
  <2>2. lt.state \in OnceTracked
    BY <2>1 DEF TrackReading, OnceTracked, TrackingStates
  <2>3. QED
    BY <1>2, <1>3, <1>4, <2>1, <2>2 DEF CountFollows
<1>7. QED
  BY <1>1, <1>4, <1>5, <1>6

\* A reset that began at time t and has set the output is shown by the timer as one
\* write of the DAC.
LEMMA WriteElapsed ==
    ASSUME NEW t \in Times, NEW n \in OutputSet(t), NEW l, l.timer = t
    PROVE  /\ n \in Times
           /\ \E d \in DacWriteTimes : d \in Nat /\ Elapsed(l, n) = d /\ (n - t) % TimeMod = d
<1>1. PICK d \in DacWriteTimes : n = (t + d) % TimeMod
  BY DEF OutputSet
<1>2. n \in Times /\ d \in Nat /\ (n - t) % TimeMod = d
  BY <1>1, ClockStep
<1>3. QED
  BY <1>2 DEF Elapsed

\* setup() agrees with an empty history.
LEMMA HInvInit == HInit => CInv /\ HInv
<1> SUFFICES ASSUME HInit PROVE CInv /\ HInv
  OBVIOUS
<1>1. CInv /\ config \in Params
  BY CInvInit, EnvironmentAssumption DEF HInit, Init
<1>2. PICK t \in Times : Fresh(lt, t) /\ now \in OutputSet(t)
  BY ResetFresh DEF HInit
<1>3. PICK d \in DacWriteTimes : d \in Nat /\ Elapsed(lt, now) = d
  BY <1>2, WriteElapsed DEF Fresh
<1>4. quiet = UpToCap(d) /\ streak = 0 /\ tracked = FALSE
  BY <1>3 DEF HInit
<1>5. quiet \in 0 .. QuietCap /\ (d <= quiet \/ quiet = QuietCap)
  BY <1>3, <1>4, QuietAssumption DEF UpToCap
<1>6. TimerIsQuiet
  <2>1. lt.state = "Initialise" /\ lt.state \notin MeasureStates
    BY <1>2 DEF Fresh, MeasureStates
  <2>2. Elapsed(lt, now) <= quiet + d
    BY <1>3, <1>5
  <2>3. QED
    BY <2>1, <2>2 DEF TimerIsQuiet
<1>7. QED
  BY <1>1, <1>4, <1>5, <1>6 DEF HInv

\* Every step keeps the history in agreement.
LEMMA HInvNext == CInv /\ HInv /\ [HNext]_hvars => CInv' /\ HInv'
<1> SUFFICES ASSUME CInv, HInv, [HNext]_hvars PROVE CInv' /\ HInv'
  OBVIOUS
<1>1. [Next]_vars
  BY DEF HNext, HUpdateStep, HReset, HSetParams, Next, hvars, vars
<1>2. CInv'
  BY <1>1, CInvNext
<1>3. CASE HUpdateStep
  <2>1. config' = config
    BY <1>3 DEF HUpdateStep, UpdateStep
  <2>2. QED
    BY <1>2, <1>3, <2>1, QuietFollows, StreakFollows DEF HInv, OnceTracked
<1>4. CASE HReset
  <2>1. /\ Fresh(lt', now) /\ now' \in OutputSet(now)
        /\ config' = config /\ now \in Times
    BY <1>4, ResetFresh DEF CInv, Inv, HReset, Reset
  <2>2. PICK d \in DacWriteTimes :
          d \in Nat /\ Elapsed(lt', now') = d /\ (now' - now) % TimeMod = d
    BY <2>1, WriteElapsed DEF Fresh
  <2>3. quiet' \in 0 .. QuietCap
    BY <1>4, <2>2, QuietAssumption DEF HReset, QuietAfter, UpToCap, HInv
  <2>4. streak' = 0 /\ tracked' = FALSE
    BY <1>4 DEF HReset
  <2>5. TimerIsQuiet'
    <3>1. lt'.state = "Initialise" /\ lt'.state \notin MeasureStates
      BY <2>1 DEF Fresh, MeasureStates
    <3>2. Elapsed(lt', now') <= quiet' + d
      <4> DEFINE e == Elapsed(lt', now')
                 q == quiet'
      <4>1. e = d /\ d \in Nat /\ q \in Nat
        BY <2>2, <2>3, QuietAssumption
      <4> HIDE DEF e, q
      <4>2. e <= q + d
        BY <4>1
      <4>3. QED
        BY <4>2 DEF e, q
    <3>3. QED
      BY <3>1, <3>2 DEF TimerIsQuiet
  <2>6. QED
    BY <1>2, <2>1, <2>3, <2>4, <2>5 DEF HInv
<1>5. CASE HSetParams
  <2>1. /\ lt' = lt /\ now' = now /\ config' \in Params
        /\ quiet' = quiet /\ streak' = streak /\ tracked' = tracked
    BY <1>5 DEF HSetParams, SetParams, history
  <2>2. QED
    BY <1>2, <2>1 DEF HInv, TimerIsQuiet
<1>6. CASE UNCHANGED hvars
  BY <1>2, <1>6 DEF hvars, HInv, TimerIsQuiet
<1>7. QED
  BY <1>3, <1>4, <1>5, <1>6 DEF HNext

\* The history only records: its channel is a channel of StateMachine, so the
\* invariants and the refinement proved of Spec hold of it.
THEOREM HistoryRecords == HSpec => Spec
<1>1. HInit => Init
  BY DEF HInit
<1>2. [HNext]_hvars => [Next]_vars
  BY DEF HNext, HUpdateStep, HReset, HSetParams, Next, hvars, vars
<1>3. QED
  BY <1>1, <1>2, PTL DEF HSpec, Spec

\* After one good tracking measurement the code's count of bad readings is their
\* number in succession, for any device and budget (UpdateErrorReadings).
THEOREM SuccessionCounted == HSpec => []ErrorReadsAreInSuccession
<1>1. HInv => ErrorReadsAreInSuccession
  BY DEF HInv, ErrorReadsAreInSuccession
<1>2. QED
  BY <1>1, HInvInit, HInvNext, PTL DEF HSpec

\* No sample is summed before the output has been constant for the settling time in
\* force, and no short-circuit reading is judged earlier than that by more than one
\* write of the DAC, which InitialiseEntry makes after it has read its timer: for any
\* clock width, loop times, write times and changes of the parameters
\* (InitialiseStep, MeasureDataPointStep).
THEOREM ReadingsSettled == HSpec => ReadingsAreSettled
<1>1. ASSUME CInv, HInv, [HNext]_hvars
      PROVE  /\ lt'.nSamples > lt.nSamples => quiet' >= config.settle
             /\ InitReading /\ HUpdateStep =>
                   \E d \in DacWriteTimes : quiet' + d >= config.settle
  <2>1. CASE HUpdateStep
    BY <1>1, <2>1, QuietFollows DEF AddsSample, ReadsShortCircuit, InitReading
  <2>2. CASE HReset
    <3>1. lt'.nSamples = 0 /\ lt.nSamples \in Nat
      BY <1>1, <2>2, ResetFresh DEF HReset, Fresh, CInv, Inv, Good, LifeTester
    <3>2. QED
      BY <2>1, <3>1
  <2>3. CASE lt' = lt
    <3>1. ~(lt'.nSamples > lt.nSamples)
      BY <1>1, <2>3 DEF CInv, Inv, Good, LifeTester
    <3>2. QED
      BY <2>1, <3>1
  <2>4. QED
    BY <1>1, <2>1, <2>2, <2>3 DEF HNext, HSetParams, SetParams, hvars
<1>2. QED
  BY <1>1, HInvInit, HInvNext, PTL DEF HSpec, ReadingsAreSettled

-----------------------------------------------------------------------------
(* The scan finds the peak of a device whose powers fit a word *)

\* No product of a scanned code and a reading wraps around in 16 bits.
PowersFit ==
    \A code \in V_SCAN_MIN .. V_SCAN_MAX : \A i \in Curve[code] : code * i < WordMod

\* The mean of the samples of a scan point does not wrap around either.
MeanFits(l) ==
    l.state = "MeasureScan" =>
        l.v["scan"] * l.iSampleSum <= l.nSamples * (WordMod - 1)

\* The results of the scan belong to the points of S, one for each code so far.
ScanOf(l, S) ==
    /\ \A pt \in S : /\ pt = <<pt[1], pt[2]>> /\ pt[1] \in 0 .. l.v["scan"] - 1
                     /\ pt[2] \in Words
    /\ \A n \in 0 .. l.v["scan"] - 1 : \E pt \in S : pt[1] = n
    /\ \A pt, other \in S : pt[1] = other[1] => pt = other
    /\ \A pt \in S : TruePower(pt) <= l.pScanMpp
    /\ \A pt \in S : TruePower(pt) = l.pScanMpp => l.vScanMpp <= pt[1]
    /\ l.pScanMpp > 0 =>
          \E pt \in S : pt[1] = l.vScanMpp /\ TruePower(pt) = l.pScanMpp
    /\ \A pt \in S : pt[1] = V_SCAN_MIN => TruePower(pt) = l.pScanInitial
    /\ \A pt \in S : pt[1] = V_SCAN_MAX => TruePower(pt) = l.pScanFinal

PInv ==
    /\ MeanFits(lt)
    /\ lt.state = "Initialise" => scanned = {}
    /\ lt.state \in {"ScanningMode", "MeasureScan"} => ScanOf(lt, scanned)

\* A mean is no larger than the samples allow, for any factor.
LEMMA MeanProduct ==
    ASSUME NEW v \in Nat, NEW s \in Nat, NEW n \in Nat \ {0}, NEW w \in Nat,
           v * s <= n * w
    PROVE  v * (s \div n) <= w
<1> DEFINE q == s \div n
<1>1. q \in Nat /\ n * q <= s
  OBVIOUS
<1> HIDE DEF q
<1>2. v * (n * q) <= v * s
  BY <1>1
<1>3. v * (n * q) = n * (v * q)
  BY <1>1
<1> DEFINE x == v * q
<1>4. x \in Nat
  BY <1>1
<1> HIDE DEF x
<1>5. n * x <= n * w
  <2>1. v * s \in Nat /\ n * w \in Nat /\ n * x \in Nat
    BY <1>4
  <2>2. n * x = v * (n * q)
    BY <1>3 DEF x
  <2> DEFINE a == n * x
             b == v * s
             c == n * w
  <2>3. a <= b /\ b <= c /\ a \in Nat /\ b \in Nat /\ c \in Nat
    BY <1>2, <2>1, <2>2
  <2> HIDE DEF a, b, c
  <2>4. a <= c
    BY <2>3
  <2>5. QED
    BY <2>4 DEF a, c
<1>6. x <= w
  <2>1. SUFFICES ASSUME x >= w + 1 PROVE FALSE
    BY <1>4
  <2>2. n * x >= n * (w + 1)
    BY <2>1, <1>4
  <2>3. n * (w + 1) = n * w + n
    OBVIOUS
  <2> DEFINE a == n * x
             c == n * w
  <2>4. a \in Nat /\ c \in Nat /\ a >= c + n /\ a <= c
    BY <1>4, <1>5, <2>2, <2>3
  <2> HIDE DEF a, c
  <2>5. QED
    BY <2>4
<1>7. QED
  BY <1>6 DEF x, q

\* A sample taken at the scanned code keeps the mean of the power in a word.
LEMMA SampleFits ==
    ASSUME NEW v \in Nat, NEW s \in Nat, NEW n \in Nat, NEW i \in Nat, NEW w \in Nat,
           v * s <= n * w, v * i <= w
    PROVE  v * (s + i) <= (n + 1) * w
<1> DEFINE a == v * s
           b == v * i
           c == n * w
<1>1. v * (s + i) = a + b /\ (n + 1) * w = c + w
  OBVIOUS
<1>2. a \in Nat /\ b \in Nat /\ c \in Nat /\ a <= c /\ b <= w
  OBVIOUS
<1> HIDE DEF a, b, c
<1>3. a + b <= c + w
  BY <1>2
<1>4. QED
  BY <1>1, <1>3

\* Each outcome keeps the mean of a scan point small enough for its power.
LEMMA OutcomeFits ==
    ASSUME PowersFit, NEW l, Good(l), MeanFits(l), NEW t, NEW c,
           NEW i \in Words, i \in Curve[l.dac], NEW r, Outcome(l, t, c, i, r)
    PROVE  MeanFits(r)
<1>0. l \in LifeTester
  BY DEF Good
<1>1. SUFFICES ASSUME r.state = "MeasureScan"
               PROVE  r.v["scan"] * r.iSampleSum <= r.nSamples * (WordMod - 1)
  BY DEF MeanFits
<1>2. CASE r = l
  BY <1>1, <1>2 DEF MeanFits
<1>3. CASE \E s \in MeasureStates : Measures(l, t, s, r)
  <2>1. r.iSampleSum = 0 /\ r.nSamples = 0 /\ r.v["scan"] \in Nat
    BY <1>0, <1>3 DEF Measures, LifeTester, Points, Codes
  <2>2. QED
    BY <2>1, WidthAssumption
<1>4. CASE TakesSample(l, i, r)
  <2>1. /\ l.state = "MeasureScan" /\ r.v = l.v
        /\ r.iSampleSum = l.iSampleSum + i /\ r.nSamples = l.nSamples + 1
    BY <1>0, <1>1, <1>4 DEF TakesSample, LifeTester
  <2>2. /\ l.dac = l.v["scan"] /\ l.v["scan"] <= V_SCAN_MAX
        /\ l.v["scan"] \in Nat /\ l.iSampleSum \in Nat /\ l.nSamples \in Nat
        /\ i \in Nat
    BY <1>0, <2>1
       DEF Good, Driven, Scanned, MeasureStates, PointOf, LifeTester, Points, Codes, Words
  <2>3. l.v["scan"] * i < WordMod
    BY <2>2, LimitAssumption DEF PowersFit, V_SCAN_MIN
  <2>4. l.v["scan"] * l.iSampleSum <= l.nSamples * (WordMod - 1)
    BY <2>1 DEF MeanFits
  <2> DEFINE w == WordMod - 1
             v == l.v["scan"]
  <2>5. w \in Nat /\ v * i \in Nat
    BY <2>2, WidthAssumption
  <2>6. v * i <= w
    BY <2>3, <2>5, WidthAssumption
  <2> HIDE DEF w, v
  <2>7. v * (l.iSampleSum + i) <= (l.nSamples + 1) * w
    BY <2>2, <2>4, <2>5, <2>6, SampleFits DEF v, w
  <2>8. QED
    BY <2>1, <2>7 DEF v, w
<1>5. CASE WaitsAgain(l, t, r)
  <2>1. /\ l.state = "MeasureScan" /\ r.v = l.v
        /\ r.iSampleSum = l.iSampleSum /\ r.nSamples = l.nSamples
    BY <1>0, <1>1, <1>5 DEF WaitsAgain, LifeTester
  <2>2. QED
    BY <2>1 DEF MeanFits
<1>6. CASE ScansPoint(l, r) \/ TracksThis(l, r) \/ TracksNext(l, r)
  <2>1. r.state \in {"ScanningMode", "TrackingMode"}
    <3>1. CASE ScansPoint(l, r)
      <4>1. MeasureScanDataPointExit(Filed(l)) \in LifeTester
        BY <3>1, FiledType, ScanExitEffect DEF ScansPoint, MeasureStates
      <4>2. QED
        BY <3>1, <4>1 DEF ScansPoint, LifeTester
    <3>2. CASE TracksThis(l, r) \/ TracksNext(l, r)
      BY <3>2, TrackPointEffect
    <3>3. QED
      BY <1>6, <3>1, <3>2
  <2>2. QED
    BY <1>1, <2>1
<1>7. CASE CountsBadReading(l, r) \/ StartsScan(l, r) \/ Fails(l, r)
  BY <1>0, <1>1, <1>7 DEF CountsBadReading, StartsScan, Fails, LifeTester
<1>8. CASE StartsTracking(l, r) \/ StartsDelay(l, t, r) \/ EndsDelay(l, r)
  BY <1>0, <1>1, <1>8 DEF StartsTracking, StartsDelay, EndsDelay, LifeTester
<1>9. CASE Moves(l, r)
  BY <1>1, <1>9, MoveEffect
<1>10. QED
  BY <1>2, <1>3, <1>4, <1>5, <1>6, <1>7, <1>8, <1>9 DEF Outcome

\* One more point: the maximum is still the first maximum of the points so far.
LEMMA PointAdded ==
    ASSUME PowersFit, NEW l, Good(l), Sound(l), MeanFits(l),
           NEW r, ScansPoint(l, r), NEW S, ScanOf(l, S)
    PROVE  ScanOf(r, S \cup {<<l.v["scan"], r.i["scan"]>>})
<1> DEFINE k == l.v["scan"]
           m == Mean(l)
           new == <<k, m>>
           T == S \cup {new}
           pw == Power(k, m)
<1>1. /\ l \in LifeTester /\ l.state = "MeasureScan" /\ l.nSamples > 0
      /\ k \in Nat /\ k <= V_SCAN_MAX /\ m \in Words
      /\ l.nSamples \in Nat \ {0} /\ l.iSampleSum \in Nat
  <2>1. /\ l \in LifeTester /\ l.state = "MeasureScan" /\ l.nSamples > 0
        /\ l.state \in MeasureStates
    BY DEF ScansPoint, Good, MeasureStates
  <2>2. m \in Words
    BY <2>1, FiledType
  <2>3. k \in Nat /\ k <= V_SCAN_MAX
    BY <2>1 DEF Good, Scanned, LifeTester, Points, Codes
  <2>4. l.nSamples \in Nat \ {0} /\ l.iSampleSum \in Nat
    BY <2>1 DEF LifeTester
  <2>5. QED
    BY <2>1, <2>2, <2>3, <2>4
<1>2. PointScanned(l, r, pw)
  BY ScanPointEffect
<1>3. pw = k * m /\ pw \in Nat
  <2> DEFINE w == WordMod - 1
  <2>1. w \in Nat
    BY WidthAssumption
  <2>2. k * l.iSampleSum <= l.nSamples * w
    BY <1>1 DEF MeanFits
  <2> HIDE DEF w
  <2>3. k * (l.iSampleSum \div l.nSamples) <= w
    BY <1>1, <2>1, <2>2, MeanProduct
  <2> DEFINE x == k * m
  <2>4. x \in Nat
    BY <1>1 DEF Words
  <2>5. x <= w
    BY <2>3 DEF Mean
  <2> HIDE DEF x
  <2>6. x % WordMod = x
    BY <2>4, <2>5, WidthAssumption DEF w
  <2>7. QED
    BY <2>4, <2>6 DEF Power, x
<1> HIDE DEF k, m, pw
<1>4. /\ r.v["scan"] = k + 1 /\ r.i["scan"] = m
      /\ r.pScanMpp = (IF pw > l.pScanMpp THEN pw ELSE l.pScanMpp)
      /\ r.vScanMpp = (IF pw > l.pScanMpp THEN k ELSE l.vScanMpp)
      /\ r.pScanInitial = (IF k = 0 THEN pw ELSE l.pScanInitial)
      /\ r.pScanFinal = (IF k = V_SCAN_MAX THEN pw ELSE l.pScanFinal)
  BY <1>2 DEF PointScanned, k, m
<1>5. l.pScanMpp \in Nat /\ l.vScanMpp \in Nat
  BY <1>1 DEF LifeTester, Words, Codes
<1>6. new = <<new[1], new[2]>> /\ new[1] = k /\ new[2] = m /\ TruePower(new) = pw
  BY <1>3 DEF TruePower
<1>7. /\ \A pt \in S : /\ pt = <<pt[1], pt[2]>> /\ pt[1] \in 0 .. k - 1 /\ pt[2] \in Words
                       /\ TruePower(pt) <= l.pScanMpp
                       /\ TruePower(pt) = l.pScanMpp => l.vScanMpp <= pt[1]
                       /\ pt[1] = V_SCAN_MIN => TruePower(pt) = l.pScanInitial
                       /\ pt[1] = V_SCAN_MAX => TruePower(pt) = l.pScanFinal
      /\ \A n \in 0 .. k - 1 : \E pt \in S : pt[1] = n
      /\ \A pt, other \in S : pt[1] = other[1] => pt = other
      /\ l.pScanMpp > 0 =>
            \E pt \in S : pt[1] = l.vScanMpp /\ TruePower(pt) = l.pScanMpp
  BY DEF ScanOf, k
<1> HIDE DEF new
<1>8. \A pt \in S : TruePower(pt) \in Nat
  BY <1>7 DEF TruePower, Words
<1>9. /\ \A pt \in T : /\ pt = <<pt[1], pt[2]>> /\ pt[1] \in 0 .. k /\ pt[2] \in Words
      /\ \A n \in 0 .. k : \E pt \in T : pt[1] = n
  <2>1. \A pt \in T : /\ pt = <<pt[1], pt[2]>> /\ pt[1] \in 0 .. k /\ pt[2] \in Words
    BY <1>1, <1>6, <1>7
  <2>2. ASSUME NEW n \in 0 .. k PROVE \E pt \in T : pt[1] = n
    <3>1. CASE n = k
      BY <1>6, <3>1
    <3>2. CASE n # k
      BY <1>1, <1>7, <3>2
    <3>3. QED
      BY <3>1, <3>2
  <2>3. QED
    BY <2>1, <2>2
<1>10. \A pt, other \in T : pt[1] = other[1] => pt = other
  <2>1. \A pt \in S : pt[1] # k
    BY <1>1, <1>7
  <2>2. QED
    BY <1>6, <1>7, <2>1
<1>11. \A pt \in T : TruePower(pt) <= r.pScanMpp
  BY <1>3, <1>4, <1>5, <1>6, <1>7, <1>8
<1>12. \A pt \in T : TruePower(pt) = r.pScanMpp => r.vScanMpp <= pt[1]
  <2>1. ASSUME NEW pt \in S, TruePower(pt) = r.pScanMpp PROVE r.vScanMpp <= pt[1]
    BY <1>3, <1>4, <1>5, <1>7, <1>8, <2>1
  <2>2. ASSUME pw = r.pScanMpp PROVE r.vScanMpp <= k
    <3>1. l.vScanMpp <= k
      BY <1>1, <1>5 DEF Sound, MaximumMeasured, k
    <3>2. QED
      BY <1>1, <1>4, <3>1
  <2>3. QED
    BY <1>6, <2>1, <2>2
<1>13. r.pScanMpp > 0 =>
          \E pt \in T : pt[1] = r.vScanMpp /\ TruePower(pt) = r.pScanMpp
  <2>1. CASE pw > l.pScanMpp
    BY <1>4, <1>6, <2>1
  <2>2. CASE ~(pw > l.pScanMpp)
    BY <1>4, <1>7, <2>2
  <2>3. QED
    BY <2>1, <2>2
<1>14. \A pt \in T : pt[1] = V_SCAN_MIN => TruePower(pt) = r.pScanInitial
  <2>1. ASSUME NEW pt \in S, pt[1] = V_SCAN_MIN PROVE TruePower(pt) = r.pScanInitial
    BY <1>1, <1>4, <1>7, <2>1 DEF V_SCAN_MIN
  <2>2. QED
    BY <1>4, <1>6, <2>1 DEF V_SCAN_MIN
<1>15. \A pt \in T : pt[1] = V_SCAN_MAX => TruePower(pt) = r.pScanFinal
  <2>1. ASSUME NEW pt \in S, pt[1] = V_SCAN_MAX PROVE TruePower(pt) = r.pScanFinal
    BY <1>1, <1>4, <1>7, <2>1
  <2>2. QED
    BY <1>4, <1>6, <2>1
<1>16. r.v["scan"] - 1 = k
  BY <1>1, <1>4
<1>17. ScanOf(r, T)
  BY <1>9, <1>10, <1>11, <1>12, <1>13, <1>14, <1>15, <1>16 DEF ScanOf
<1>18. QED
  BY <1>4, <1>17 DEF new, k

\* A call of UpdateStep keeps the scanned points and the results in agreement.
LEMMA PointsFollow == PowersFit /\ CInv /\ PInv /\ HUpdateStep => PInv'
<1> SUFFICES ASSUME PowersFit, CInv, PInv, HUpdateStep PROVE PInv'
  OBVIOUS
<1>1. /\ Good(lt) /\ Sound(lt) /\ lt \in LifeTester /\ MeanFits(lt) /\ UpdateStep
      /\ lt.state = "Initialise" => scanned = {}
      /\ lt.state \in {"ScanningMode", "MeasureScan"} => ScanOf(lt, scanned)
  BY DEF CInv, Inv, Good, PInv, HUpdateStep
<1>2. PICK d \in LoopTimes, i \in Curve[lt.dac] :
        i \in Words /\ Outcome(lt, now', config, i, lt')
  BY UpdateOutcome, <1>1
<1>3. MeanFits(lt')
  BY <1>1, <1>2, OutcomeFits
<1>4. scanned' = IF lt.state = "MeasureScan" /\ lt'.state = "ScanningMode"
                 THEN scanned \cup {<<lt.v["scan"], lt'.i["scan"]>>}
                 ELSE IF lt'.state = "TrackingMode" THEN {} ELSE scanned
  BY DEF HUpdateStep
<1> DEFINE Kept == /\ lt'.state = "Initialise" => scanned' = {}
                   /\ lt'.state \in {"ScanningMode", "MeasureScan"} =>
                         ScanOf(lt', scanned')
<1> SUFFICES Kept
  BY <1>3 DEF PInv
<1>5. CASE lt' = lt /\ lt.state # "ScanningMode"
  BY <1>1, <1>4, <1>5
<1>6. CASE CountsBadReading(lt, lt')
  <2>1. lt.state = "Initialise" /\ lt'.state = "Initialise"
    BY <1>1, <1>6 DEF CountsBadReading, LifeTester
  <2>2. QED
    BY <1>1, <1>4, <2>1
<1>7. CASE StartsScan(lt, lt')
  <2>1. /\ lt.state = "Initialise" /\ lt'.state = "ScanningMode" /\ lt'.v["scan"] = 0
        /\ lt'.pScanMpp = 0
    BY <1>1, <1>7 DEF StartsScan, LifeTester, Points, Sound, NoMaximumYet
  <2>2. scanned' = {}
    BY <1>1, <1>4, <2>1
  <2>3. ScanOf(lt', {})
    BY <2>1 DEF ScanOf
  <2>4. QED
    BY <2>1, <2>2, <2>3
<1>8. CASE \/ \E s \in MeasureStates : Measures(lt, now', s, lt')
           \/ TakesSample(lt, i, lt') \/ WaitsAgain(lt, now', lt')
  <2>1. /\ lt'.v = lt.v /\ lt'.pScanMpp = lt.pScanMpp /\ lt'.vScanMpp = lt.vScanMpp
        /\ lt'.pScanInitial = lt.pScanInitial /\ lt'.pScanFinal = lt.pScanFinal
        /\ lt'.state \in MeasureStates
        /\ lt'.state = "MeasureScan" => lt.state \in {"ScanningMode", "MeasureScan"}
    <3>1. ASSUME NEW s \in MeasureStates, Measures(lt, now', s, lt')
          PROVE  /\ lt'.v = lt.v /\ lt'.pScanMpp = lt.pScanMpp /\ lt'.vScanMpp = lt.vScanMpp
                 /\ lt'.pScanInitial = lt.pScanInitial /\ lt'.pScanFinal = lt.pScanFinal
                 /\ lt'.state = s
                 /\ s = "MeasureScan" => lt.state = "ScanningMode"
      BY <1>1, <3>1 DEF Measures, LifeTester, MeasureStates
    <3>2. CASE TakesSample(lt, i, lt') \/ WaitsAgain(lt, now', lt')
      BY <1>1, <3>2 DEF TakesSample, WaitsAgain, LifeTester
    <3>3. QED
      BY <1>8, <3>1, <3>2
  <2>2. scanned' = scanned
    BY <1>4, <2>1 DEF MeasureStates
  <2>3. ScanOf(lt, scanned) => ScanOf(lt', scanned)
    BY <2>1 DEF ScanOf
  <2>4. QED
    BY <1>1, <2>1, <2>2, <2>3 DEF MeasureStates
<1>9. CASE ScansPoint(lt, lt')
  <2>1. lt.state = "MeasureScan" /\ lt'.state = "ScanningMode"
    BY <1>1, <1>9, ScanPointEffect DEF ScansPoint, PointScanned
  <2>2. ScanOf(lt', scanned')
    BY <1>1, <1>4, <1>9, <2>1, PointAdded
  <2>3. QED
    BY <2>1, <2>2
<1>10. ASSUME lt'.state \in {"Error", "TrackingMode", "TrackingDelay"} PROVE Kept
  BY <1>10
<1>11. ASSUME \/ Fails(lt, lt') \/ TracksThis(lt, lt') \/ TracksNext(lt, lt')
              \/ StartsTracking(lt, lt') \/ StartsDelay(lt, now', lt')
              \/ EndsDelay(lt, lt') \/ Moves(lt, lt')
       PROVE  lt'.state \in {"Error", "TrackingMode", "TrackingDelay"}
  <2>1. CASE Fails(lt, lt')
    BY <1>1, <2>1 DEF Fails, LifeTester
  <2>2. CASE TracksThis(lt, lt') \/ TracksNext(lt, lt')
    BY <1>1, <2>2, TrackPointEffect
  <2>3. CASE StartsTracking(lt, lt') \/ StartsDelay(lt, now', lt') \/ EndsDelay(lt, lt')
    BY <1>1, <2>3 DEF StartsTracking, StartsDelay, EndsDelay, LifeTester
  <2>4. CASE Moves(lt, lt')
    BY <1>1, <2>4, MoveEffect
  <2>5. QED
    BY <1>11, <2>1, <2>2, <2>3, <2>4
<1> HIDE DEF Kept
<1>12. QED
  BY <1>2, <1>5, <1>6, <1>7, <1>8, <1>9, <1>10, <1>11 DEF Outcome

LEMMA PInvInit == HInit => PInv
BY ResetFresh DEF HInit, PInv, Fresh, MeanFits

LEMMA PInvNext == PowersFit /\ CInv /\ PInv /\ [HNext]_hvars => PInv'
<1> SUFFICES ASSUME PowersFit, CInv, PInv, [HNext]_hvars PROVE PInv'
  OBVIOUS
<1>1. CASE HUpdateStep
  BY <1>1, PointsFollow
<1>2. CASE HReset
  <2>1. lt'.state = "Initialise" /\ scanned' = {}
    BY <1>2, ResetFresh DEF CInv, HReset, Fresh
  <2>2. QED
    BY <2>1 DEF PInv, MeanFits
<1>3. CASE HSetParams \/ UNCHANGED hvars
  BY <1>3 DEF HSetParams, SetParams, history, hvars, PInv
<1>4. QED
  BY <1>1, <1>2, <1>3 DEF HNext

\* The code's test of the shape of the scan agrees with the hill the device shows,
\* and its maximum with the peak.
LEMMA ShapeIsHill ==
    ASSUME NEW l \in LifeTester, NEW S, ScanOf(l, S), l.v["scan"] = V_SCAN_MAX + 1
    PROVE  /\ {pt[1] : pt \in S} = V_SCAN_MIN .. V_SCAN_MAX
           /\ ScanShapeOk(l) <=>
                 \E pt \in S : \A end \in S :
                    end[1] \in {V_SCAN_MIN, V_SCAN_MAX} => TruePower(pt) > TruePower(end)
           /\ ScanShapeOk(l) =>
                 \E pt \in S :
                    /\ pt[1] = l.vScanMpp
                    /\ \A other \in S :
                          \/ TruePower(pt) > TruePower(other)
                          \/ TruePower(pt) = TruePower(other) /\ l.vScanMpp <= other[1]
<1>1. /\ l.pScanMpp \in Nat /\ l.vScanMpp \in Nat
      /\ l.pScanInitial \in Nat /\ l.pScanFinal \in Nat
      /\ l.v["scan"] - 1 = V_SCAN_MAX /\ V_SCAN_MAX \in Nat
  BY LimitAssumption DEF LifeTester, Words, Codes
<1>2. /\ \A pt \in S : /\ pt[1] \in 0 .. V_SCAN_MAX /\ pt[2] \in Words
                       /\ TruePower(pt) <= l.pScanMpp
                       /\ TruePower(pt) = l.pScanMpp => l.vScanMpp <= pt[1]
                       /\ pt[1] = V_SCAN_MIN => TruePower(pt) = l.pScanInitial
                       /\ pt[1] = V_SCAN_MAX => TruePower(pt) = l.pScanFinal
      /\ \A n \in 0 .. V_SCAN_MAX : \E pt \in S : pt[1] = n
      /\ l.pScanMpp > 0 =>
            \E pt \in S : pt[1] = l.vScanMpp /\ TruePower(pt) = l.pScanMpp
  BY <1>1 DEF ScanOf
<1>3. \A pt \in S : TruePower(pt) \in Nat
  BY <1>2 DEF TruePower, Words
<1>4. {pt[1] : pt \in S} = V_SCAN_MIN .. V_SCAN_MAX
  BY <1>2 DEF V_SCAN_MIN
<1>5. PICK first \in S : first[1] = V_SCAN_MIN /\ TruePower(first) = l.pScanInitial
  BY <1>1, <1>2 DEF V_SCAN_MIN
<1>6. PICK last \in S : last[1] = V_SCAN_MAX /\ TruePower(last) = l.pScanFinal
  BY <1>1, <1>2
<1>7. ASSUME NEW pt \in S,
             \A end \in S : end[1] \in {V_SCAN_MIN, V_SCAN_MAX} =>
                TruePower(pt) > TruePower(end)
      PROVE  ScanShapeOk(l)
  <2>1. TruePower(pt) > l.pScanInitial /\ TruePower(pt) > l.pScanFinal
    BY <1>5, <1>6, <1>7
  <2>2. TruePower(pt) <= l.pScanMpp /\ TruePower(pt) \in Nat
    BY <1>2, <1>3
  <2>3. QED
    BY <1>1, <2>1, <2>2 DEF ScanShapeOk
<1>8. ASSUME ScanShapeOk(l)
      PROVE  \E pt \in S : pt[1] = l.vScanMpp /\ TruePower(pt) = l.pScanMpp
  BY <1>1, <1>2, <1>8 DEF ScanShapeOk
<1>9. ASSUME ScanShapeOk(l)
      PROVE  \E pt \in S : \A end \in S :
                end[1] \in {V_SCAN_MIN, V_SCAN_MAX} => TruePower(pt) > TruePower(end)
  <2>1. PICK pt \in S : TruePower(pt) = l.pScanMpp
    BY <1>8, <1>9
  <2>2. ASSUME NEW end \in S, end[1] \in {V_SCAN_MIN, V_SCAN_MAX}
        PROVE  TruePower(pt) > TruePower(end)
    BY <1>1, <1>2, <1>9, <2>1, <2>2 DEF ScanShapeOk
  <2>3. QED
    BY <2>2
<1>10. ASSUME ScanShapeOk(l)
       PROVE  \E pt \in S :
                 /\ pt[1] = l.vScanMpp
                 /\ \A other \in S :
                       \/ TruePower(pt) > TruePower(other)
                       \/ TruePower(pt) = TruePower(other) /\ l.vScanMpp <= other[1]
  <2>1. PICK pt \in S : pt[1] = l.vScanMpp /\ TruePower(pt) = l.pScanMpp
    BY <1>8, <1>10
  <2>2. ASSUME NEW other \in S
        PROVE  \/ TruePower(pt) > TruePower(other)
               \/ TruePower(pt) = TruePower(other) /\ l.vScanMpp <= other[1]
    BY <1>1, <1>2, <1>3, <2>1
  <2>3. QED
    BY <2>1, <2>2
<1>11. QED
  BY <1>4, <1>7, <1>9, <1>10

\* On a device whose powers fit a word, a scan measures every code once, and the
\* channel tracks from the first maximum exactly when the scan is a hill
\* (UpdateScanData, ScanShapeOk, ScanningModeStep).  Where powers wrap around this
\* fails: the run of the real scan shows a slope that is taken for a hill.
THEOREM ScanCorrect == PowersFit /\ HSpec => ScanFindsPeak
<1>1. PowersFit /\ CInv /\ PInv /\ [HNext]_hvars =>
        [HUpdateStep /\ lt.state = "ScanningMode" /\ lt'.state # "MeasureScan" =>
          /\ {pt[1] : pt \in scanned} = V_SCAN_MIN .. V_SCAN_MAX
          /\ \A pt, other \in scanned : pt[1] = other[1] => pt = other
          /\ IF IsHill
             THEN lt'.state = "TrackingMode" /\ IsPeak(lt'.v["this"])
             ELSE lt'.state = "Error" /\ lt'.error = "invalidScan"]_hvars
  <2>1. SUFFICES ASSUME CInv, PInv, HUpdateStep, lt.state = "ScanningMode",
                        lt'.state # "MeasureScan"
                 PROVE  /\ {pt[1] : pt \in scanned} = V_SCAN_MIN .. V_SCAN_MAX
                        /\ \A pt, other \in scanned : pt[1] = other[1] => pt = other
                        /\ IF IsHill
                           THEN lt'.state = "TrackingMode" /\ IsPeak(lt'.v["this"])
                           ELSE lt'.state = "Error" /\ lt'.error = "invalidScan"
    OBVIOUS
  <2>2. /\ Good(lt) /\ Sound(lt) /\ lt \in LifeTester /\ ScanOf(lt, scanned)
        /\ lt.v["scan"] \in Nat /\ lt.v["scan"] <= V_SCAN_MAX + 1 /\ UpdateStep
    BY <2>1 DEF CInv, Inv, Good, PInv, Sound, MaximumMeasured, LifeTester, Points,
                Codes, HUpdateStep
  <2>3. PICK d \in LoopTimes, i \in Words : Outcome(lt, now', config, i, lt')
    BY UpdateOutcome, <2>1, <2>2
  <2>4. StartsTracking(lt, lt') \/ Fails(lt, lt')
    <3>1. ~(\E s \in MeasureStates : Measures(lt, now', s, lt'))
      <4>1. ASSUME NEW s \in MeasureStates, Measures(lt, now', s, lt') PROVE FALSE
        <5>1. s = "MeasureScan"
          BY <2>1, <4>1 DEF Measures
        <5>2. lt'.state = s
          BY <2>2, <4>1 DEF Measures, LifeTester
        <5>3. QED
          BY <2>1, <5>1, <5>2
      <4>2. QED
        BY <4>1
    <3>2. QED
      BY <2>1, <2>3, <3>1
         DEF Outcome, CountsBadReading, StartsScan, TakesSample, WaitsAgain,
             ScansPoint, TracksThis, TracksNext, StartsDelay, EndsDelay, Moves,
             MeasureStates
  <2>5. lt.v["scan"] = V_SCAN_MAX + 1
    <3>1. lt.v["scan"] > V_SCAN_MAX
      <4>1. CASE StartsTracking(lt, lt')
        BY <4>1 DEF StartsTracking
      <4>2. CASE Fails(lt, lt')
        BY <2>1, <4>2 DEF Fails
      <4>3. QED
        BY <2>4, <4>1, <4>2
    <3>2. V_SCAN_MAX \in Nat
      BY LimitAssumption DEF Codes
    <3>3. QED
      BY <2>2, <3>1, <3>2
  <2>6. /\ {pt[1] : pt \in scanned} = V_SCAN_MIN .. V_SCAN_MAX
        /\ ScanShapeOk(lt) <=> IsHill
        /\ ScanShapeOk(lt) => IsPeak(lt.vScanMpp)
    BY <2>2, <2>5, ShapeIsHill DEF IsHill, IsPeak
  <2>7. \A pt, other \in scanned : pt[1] = other[1] => pt = other
    BY <2>2 DEF ScanOf
  <2>8. CASE StartsTracking(lt, lt')
    <3>1. /\ lt'.state = "TrackingMode" /\ lt'.v["this"] = lt.vScanMpp
          /\ ScanShapeOk(lt)
      BY <2>2, <2>8 DEF StartsTracking, LifeTester, Points
    <3>2. QED
      BY <2>6, <2>7, <3>1
  <2>9. CASE Fails(lt, lt')
    <3>1. lt'.state = "Error" /\ lt'.error = "invalidScan" /\ ~ScanShapeOk(lt)
      BY <2>1, <2>2, <2>9 DEF Fails, LifeTester
    <3>2. QED
      BY <2>6, <2>7, <3>1
  <2>10. QED
    BY <2>4, <2>8, <2>9
<1>2. HInit => CInv /\ PInv
  BY HInvInit, PInvInit
<1>3. CInv /\ [HNext]_hvars => CInv'
  BY CInvNext DEF HNext, HUpdateStep, HReset, HSetParams, Next, hvars, vars
<1>4. PowersFit /\ CInv /\ PInv /\ [HNext]_hvars => PInv'
  BY PInvNext
<1>5. QED
  <2>1. ASSUME PowersFit PROVE HSpec => ScanFindsPeak
    BY <1>1, <1>2, <1>3, <1>4, <2>1, PTL DEF HSpec, ScanFindsPeak
  <2>2. QED
    BY <2>1
=============================================================================
