------------------------ MODULE StateMachine_proofs -------------------------
(***************************************************************************)
(* Proofs about one channel.  The inductive invariant is a predicate on    *)
(* the LifeTester_t record (Good); each handler of the state machine is    *)
(* shown to preserve it, and the theorems of Spec follow.                  *)
(***************************************************************************)
EXTENDS StateMachine, TLAPS

-----------------------------------------------------------------------------
(* The inductive invariant *)

\* The mean of the samples fits the uint16_t it is stored in.
SumBounded(l) == l.iSampleSum <= l.nSamples * (WordMod - 1)

Rested(l) ==
    /\ l.state \in {"Initialise", "Error"} => l.dac = 0
    /\ l.state = "Error" => l.error # "ok"

Driven(l) ==
    l.state \in MeasureStates => /\ l.active = PointOf(l.state)
                                 /\ l.dac = l.v[l.active]

Scanned(l) == l.state = "MeasureScan" => l.v["scan"] <= V_SCAN_MAX

\* A channel over its budget always has an error to show for it.
Budgeted(l) ==
    /\ l.nErrorReads <= MAX_ERROR_READS + 1
    /\ l.nErrorReads > MAX_ERROR_READS => l.error # "ok"
    /\ l.state \in MeasureStates \cup {"ScanningMode", "TrackingDelay"} =>
          l.nErrorReads <= MAX_ERROR_READS

\* Where a channel is in its tracking cycle.
FlagsInOrder(l) ==
    /\ l.state \in {"Initialise", "ScanningMode", "MeasureScan", "TrackingDelay"} =>
          ~l.delayDone /\ ~l.thisDone /\ ~l.nextDone
    /\ l.state = "MeasureThis" => l.delayDone /\ ~l.thisDone /\ ~l.nextDone
    /\ l.state = "MeasureNext" => l.delayDone /\ l.thisDone /\ ~l.nextDone

Compared(l) ==
    l.state \in TrackingStates =>
        /\ l.thisDone => /\ l.p["this"] = Power(l.v["this"], l.i["this"])
                         /\ l.delayDone
        /\ l.nextDone => /\ l.p["next"] = Power(l.v["next"], l.i["next"])
                         /\ l.thisDone
        /\ l.v["next"] = (l.v["this"] + DV_MPPT) % CodeMod

Good(l) ==
    /\ l \in LifeTester
    /\ l.state # "None"
    /\ SumBounded(l)
    /\ Rested(l)
    /\ Driven(l)
    /\ Scanned(l)
    /\ Budgeted(l)
    /\ FlagsInOrder(l)
    /\ Compared(l)

Inv == Good(lt) /\ now \in Times /\ config \in ParamRecords

-----------------------------------------------------------------------------
(* Arithmetic *)

\* A 16-bit product is a word, whatever its factors.
LEMMA PowerType ==
    ASSUME NEW v \in Codes, NEW i \in Words
    PROVE  Power(v, i) \in Words
<1>1. v * i \in Nat
  BY WidthAssumption DEF Codes, Words
<1>2. QED
  BY <1>1, WidthAssumption DEF Power, Words

\* Members of the sets the fields of a LifeTester_t range over.
LEMMA FieldValues ==
    /\ 0 \in Codes /\ 0 \in Words /\ 0 \in Nat
    /\ {"Initialise", "ScanningMode", "TrackingMode", "TrackingDelay", "Error",
        "MeasureThis", "MeasureNext", "MeasureScan"} \subseteq States
    /\ {"ok", "lowCurrent", "currentLimit", "currentThreshold", "invalidScan"}
          \subseteq Errors
    /\ {"init", "scan", "off", "oneFlash", "twoFlashes", "error"} \subseteq LedPatterns
    /\ {"this", "next", "scan"} = Points
<1>1. 0 \in Codes /\ 0 \in Words /\ 0 \in Nat
  BY WidthAssumption DEF Codes, Words
<1>2. QED
  BY <1>1 DEF States, MeasureStates, Errors, LedPatterns, Points

\* uint8_t arithmetic yields a code.
LEMMA CodeType ==
    ASSUME NEW x \in Int
    PROVE  x % CodeMod \in Codes
BY WidthAssumption DEF Codes

\* Another sample keeps the sum in bounds.
LEMMA SumStep ==
    ASSUME NEW s \in Nat, NEW n \in Nat, NEW i \in Words, s <= n * (WordMod - 1)
    PROVE  s + i <= (n + 1) * (WordMod - 1)
<1> DEFINE w == WordMod - 1
<1>1. w \in Nat /\ i <= w
  BY WidthAssumption DEF Words
<1> HIDE DEF w
<1>2. (n + 1) * w = n * w + w
  BY <1>1
<1>3. n * w \in Nat /\ s <= n * w
  BY <1>1 DEF w
<1>4. s + i <= n * w + w
  BY <1>1, <1>3 DEF Words
<1>5. QED
  BY <1>2, <1>4 DEF w

\* The mean of samples that fit a word fits a word.
LEMMA MeanType ==
    ASSUME NEW s \in Nat, NEW n \in Nat \ {0}, s <= n * (WordMod - 1)
    PROVE  s \div n \in Words
<1> DEFINE w == WordMod - 1
           q == s \div n
<1>1. w \in Nat
  BY WidthAssumption
<1>2. q \in Nat /\ n * q <= s
  OBVIOUS
<1> HIDE DEF w, q
<1>3. n * q <= n * w
  BY <1>1, <1>2 DEF w
<1>4. q <= w
  <2>1. SUFFICES ASSUME q >= w + 1 PROVE FALSE
    BY <1>1, <1>2
  <2>2. n * q >= n * (w + 1)
    BY <2>1, <1>1, <1>2
  <2>3. n * (w + 1) = n * w + n
    BY <1>1
  <2>4. QED
    BY <1>1, <1>2, <1>3, <2>2, <2>3
<1>5. QED
  BY <1>1, <1>2, <1>4, WidthAssumption DEF q, w, Words

-----------------------------------------------------------------------------
(* What StateMachineTransitionToState amounts to, pair by pair *)

\* From the short-circuit check: to an error or to the scan.
LEMMA FromInitialise ==
    ASSUME NEW l, NEW t, l.state = "Initialise"
    PROVE  /\ TransitionToState(l, "Error", t)
                 = [ErrorEntry(l) EXCEPT !.state = "Error"]
           /\ TransitionToState(l, "ScanningMode", t)
                 = [ScanningModeEntry(l) EXCEPT !.state = "ScanningMode"]
BY DEF TransitionToState, Leave, LeaveChild, ExitParent, Arrive, EnterParent,
       ExitsChild, EntersChild, CrossesParents, Parent, RunExit, RunEntry,
       MeasureStates

\* From scanning mode: its exit function runs unless a point is measured.
LEMMA FromScanning ==
    ASSUME NEW l, NEW t, l.state = "ScanningMode"
    PROVE  /\ TransitionToState(l, "Error", t)
                 = [ErrorEntry(ScanningModeExit(l)) EXCEPT !.state = "Error"]
           /\ TransitionToState(l, "TrackingMode", t)
                 = [ScanningModeExit(l) EXCEPT !.state = "TrackingMode"]
           /\ TransitionToState(l, "MeasureScan", t)
                 = [MeasureDataPointEntry(l, t) EXCEPT !.state = "MeasureScan"]
BY DEF TransitionToState, Leave, LeaveChild, ExitParent, Arrive, EnterParent,
       ExitsChild, EntersChild, CrossesParents, Parent, RunExit, RunEntry,
       MeasureStates

\* From tracking mode, which has no exit function.
LEMMA FromTracking ==
    ASSUME NEW l, NEW t, l.state = "TrackingMode"
    PROVE  /\ TransitionToState(l, "Error", t)
                 = [ErrorEntry(l) EXCEPT !.state = "Error"]
           /\ TransitionToState(l, "TrackingDelay", t)
                 = [TrackingDelayEntry(l, t) EXCEPT !.state = "TrackingDelay"]
           /\ TransitionToState(l, "MeasureThis", t)
                 = [MeasureDataPointEntry(l, t) EXCEPT !.state = "MeasureThis"]
           /\ TransitionToState(l, "MeasureNext", t)
                 = [MeasureDataPointEntry(l, t) EXCEPT !.state = "MeasureNext"]
BY DEF TransitionToState, Leave, LeaveChild, ExitParent, Arrive, EnterParent,
       ExitsChild, EntersChild, CrossesParents, Parent, RunExit, RunEntry,
       MeasureStates

\* From a child state back to its parent: only the exit of the child runs.
LEMMA FromChild ==
    ASSUME NEW l, NEW t
    PROVE  /\ l.state = "MeasureScan" => TransitionToState(l, "ScanningMode", t)
                 = [MeasureScanDataPointExit(l) EXCEPT !.state = "ScanningMode"]
           /\ l.state = "MeasureThis" => TransitionToState(l, "TrackingMode", t)
                 = [MeasureThisDataPointExit(l) EXCEPT !.state = "TrackingMode"]
           /\ l.state = "MeasureNext" => TransitionToState(l, "TrackingMode", t)
                 = [MeasureNextDataPointExit(l) EXCEPT !.state = "TrackingMode"]
           /\ l.state = "TrackingDelay" => TransitionToState(l, "TrackingMode", t)
                 = [TrackingDelayExit(l) EXCEPT !.state = "TrackingMode"]
BY DEF TransitionToState, Leave, LeaveChild, ExitParent, Arrive, EnterParent,
       ExitsChild, EntersChild, CrossesParents, Parent, RunExit, RunEntry,
       MeasureStates

\* Within the error budget a measurement starts without raising an error.
LEMMA MeasurementStarts ==
    ASSUME NEW l \in LifeTester, NEW t \in Times, l.active \in Points,
           l.nErrorReads <= MAX_ERROR_READS
    PROVE  MeasureDataPointEntry(l, t)
              = [l EXCEPT !.dac = l.v[l.active], !.nSamples = 0,
                          !.iSampleSum = 0, !.timer = t]
<1>1. ~(l.nErrorReads > MAX_ERROR_READS)
  BY LimitAssumption DEF LifeTester, Words
<1> DEFINE d == [l EXCEPT !.dac = l.v[l.active]]
<1>2. d.dac = d.v[d.active]
  BY DEF LifeTester
<1>3. MeasureDataPointEntry(l, t) = ResetForNextMeasurement(d, t)
  BY <1>1, <1>2 DEF MeasureDataPointEntry, CheckErrorReads, CheckDacOutput,
                    DacSetOutputToActiveVoltage
<1>4. QED
  BY <1>3 DEF ResetForNextMeasurement, LifeTester

\* A transition to the current state does nothing.
LEMMA StaysPut ==
    ASSUME NEW l \in LifeTester, NEW t
    PROVE  Follow(Stay(l), t) = l
BY DEF Follow, Stay, Go, TransitionToState, Leave, LeaveChild, Arrive,
       ExitsChild, EntersChild, CrossesParents, LifeTester

\* A step that raises no event ends there.
LEMMA QuietStep ==
    ASSUME NEW l \in LifeTester, NEW t
    PROVE  Follow(React(Quiet(l)), t) = l
<1>1. React(Quiet(l)) = Stay(l)
  BY DEF React, Quiet, After, TransitionOnEvent, InitialiseTran, ScanningModeTran,
         TrackingModeTran, MeasureDataPointTran, Stay, Go
<1>2. QED
  BY <1>1, StaysPut

-----------------------------------------------------------------------------
(* Each handler preserves Good *)

\* A reset needs nothing of the record it replaces.
LEMMA EntersInitialise ==
    ASSUME NEW l, NEW t \in Times, l.state = "None"
    PROVE  Good(TransitionToState(l, "Initialise", t))
<1> DEFINE r == [InitialiseEntry(l, t) EXCEPT !.state = "Initialise"]
<1>1. TransitionToState(l, "Initialise", t) = r
  BY DEF TransitionToState, Leave, LeaveChild, ExitParent, Arrive, EnterParent,
       ExitsChild, EntersChild, CrossesParents, Parent, RunExit, RunEntry,
       MeasureStates
<1>2. r \in LifeTester
  BY FieldValues DEF InitialiseEntry, LifeTester
<1>3. SumBounded(r)
  BY WidthAssumption DEF InitialiseEntry, SumBounded
<1>4. Good(r)
  BY <1>2, <1>3, LimitAssumption
     DEF InitialiseEntry, Good, Rested, Driven, Scanned, Budgeted,
         FlagsInOrder, Compared, MeasureStates, TrackingStates
<1>5. QED
  BY <1>1, <1>4

\* A reset is good from any record, whatever state it abandons.
LEMMA ResetGood ==
    ASSUME NEW l \in LifeTester, NEW t \in Times
    PROVE  Good(StateMachine_Reset(l, t))
BY EntersInitialise DEF StateMachine_Reset, LifeTester

\* While a measurement or the delay goes on, the step function of the parent
\* changes nothing: the channel is within its error budget, the point is
\* inside the scan range, and the events raised mean nothing to the child.
LEMMA ParentStepIdle ==
    ASSUME NEW l, Good(l), NEW t
    PROVE  RunParentStep(l, t) = l
<1>0. l \in LifeTester
  BY DEF Good
<1>1. CASE l.state = "MeasureScan"
  BY <1>1, <1>0, StaysPut
     DEF Good, Scanned, RunParentStep, ParentStep, Parent, ScanningModeStep, React,
         After, TransitionOnEvent, MeasureDataPointTran, MeasureStates
<1>2. CASE l.state \in {"MeasureThis", "MeasureNext"}
  BY <1>2, <1>0, StaysPut, LimitAssumption, SMTT(20)
     DEF Good, Budgeted, FlagsInOrder, RunParentStep, ParentStep, Parent,
         TrackingModeStep, React, After, TransitionOnEvent, MeasureDataPointTran,
         MeasureStates
<1>3. CASE l.state = "TrackingDelay"
  BY <1>3, <1>0, StaysPut, LimitAssumption
     DEF Good, Budgeted, FlagsInOrder, RunParentStep, ParentStep, Parent,
         TrackingModeStep, React, After, TransitionOnEvent, MeasureStates
<1>4. CASE l.state \in {"Initialise", "ScanningMode", "TrackingMode", "Error"}
  BY <1>4, <1>0, QuietStep DEF RunParentStep, ParentStep, Parent
<1>5. QED
  BY <1>1, <1>2, <1>3, <1>4 DEF Good, LifeTester, States, MeasureStates

\* Entering StateError with an error to show is safe from anywhere.
LEMMA FailureGood ==
    ASSUME NEW l \in LifeTester, SumBounded(l),
           l.nErrorReads <= MAX_ERROR_READS + 1, l.error # "ok"
    PROVE  Good([ErrorEntry(l) EXCEPT !.state = "Error"])
<1> DEFINE r == [ErrorEntry(l) EXCEPT !.state = "Error"]
<1>1. r \in LifeTester
  BY FieldValues DEF ErrorEntry, LifeTester
<1>2. /\ r.state = "Error" /\ r.dac = 0 /\ r.error = l.error
      /\ r.nErrorReads = l.nErrorReads
      /\ r.iSampleSum = l.iSampleSum /\ r.nSamples = l.nSamples
  BY DEF ErrorEntry, LifeTester
<1> HIDE DEF r
<1>3. SumBounded(r)
  BY <1>2 DEF SumBounded
<1>4. Budgeted(r)
  BY <1>2 DEF Budgeted, MeasureStates
<1>5. Rested(r) /\ Driven(r) /\ Scanned(r) /\ FlagsInOrder(r) /\ Compared(r)
  BY <1>2 DEF Rested, Driven, Scanned, FlagsInOrder, Compared,
              MeasureStates, TrackingStates
<1>6. QED
  BY <1>1, <1>2, <1>3, <1>4, <1>5 DEF Good, r

\* Starting a measurement within the budget, in scanning or in tracking mode.
LEMMA MeasureStartGood ==
    ASSUME NEW l, Good(l), NEW t \in Times, NEW s \in MeasureStates,
           l.nErrorReads <= MAX_ERROR_READS,
           s = "MeasureScan" =>
              /\ l.v["scan"] <= V_SCAN_MAX
              /\ ~l.delayDone /\ ~l.thisDone /\ ~l.nextDone,
           s = "MeasureThis" => l.delayDone /\ ~l.thisDone /\ ~l.nextDone,
           s = "MeasureNext" => l.delayDone /\ l.thisDone /\ ~l.nextDone,
           s # "MeasureScan" => l.state = "TrackingMode"
    PROVE  Good([MeasureDataPointEntry([l EXCEPT !.active = PointOf(s)], t)
                    EXCEPT !.state = s])
<1> DEFINE a == [l EXCEPT !.active = PointOf(s)]
           r == [l EXCEPT !.active = PointOf(s), !.dac = l.v[PointOf(s)],
                          !.nSamples = 0, !.iSampleSum = 0, !.timer = t,
                          !.state = s]
<1>1. PointOf(s) \in Points
  BY DEF PointOf, MeasureStates, Points
<1>2. l \in LifeTester /\ a \in LifeTester /\ a.active = PointOf(s)
      /\ a.nErrorReads = l.nErrorReads /\ a.v = l.v
  BY <1>1 DEF Good, LifeTester
<1>3. MeasureDataPointEntry(a, t)
         = [a EXCEPT !.dac = a.v[a.active], !.nSamples = 0,
                     !.iSampleSum = 0, !.timer = t]
  BY <1>1, <1>2, MeasurementStarts
<1>4. [MeasureDataPointEntry(a, t) EXCEPT !.state = s] = r
  BY <1>2, <1>3 DEF LifeTester
<1>5. r \in LifeTester
  <2>1. l.v[PointOf(s)] \in Codes /\ s \in States
    BY <1>1, <1>2 DEF LifeTester, States
  <2>2. QED
    BY <1>1, <1>2, <2>1, FieldValues, ZenonT(40) DEF LifeTester
<1>6. /\ r.state = s /\ r.active = PointOf(s) /\ r.dac = l.v[PointOf(s)]
      /\ r.v = l.v /\ r.p = l.p /\ r.i = l.i
      /\ r.iSampleSum = 0 /\ r.nSamples = 0
      /\ r.nErrorReads = l.nErrorReads /\ r.error = l.error
      /\ r.delayDone = l.delayDone /\ r.thisDone = l.thisDone
      /\ r.nextDone = l.nextDone
  BY <1>2 DEF LifeTester
<1>7. s # "None" /\ s \notin {"Initialise", "ScanningMode", "TrackingDelay", "Error"}
  BY DEF MeasureStates
<1> HIDE DEF r, a
<1>8. SumBounded(r)
  BY <1>6, WidthAssumption DEF SumBounded
<1>9. Budgeted(r)
  BY <1>2, <1>6, LimitAssumption DEF Budgeted, LifeTester, Words
<1>10. Rested(r) /\ Driven(r) /\ Scanned(r) /\ FlagsInOrder(r)
  BY <1>6, <1>7 DEF Rested, Driven, Scanned, FlagsInOrder
<1>11. Compared(r)
  BY <1>6, <1>7 DEF Good, Compared, TrackingStates, MeasureStates
<1>12. QED
  BY <1>4, <1>5, <1>6, <1>7, <1>8, <1>9, <1>10, <1>11 DEF Good, a

\* The short-circuit check: fail, wait, count a bad reading or start the scan.
LEMMA InitialiseGood ==
    ASSUME NEW l, Good(l), l.state = "Initialise",
           NEW t \in Times, NEW c \in ParamRecords, NEW i \in Words
    PROVE  Good(Follow(React(InitialiseStep(l, t, c, i)), t))
<1> DEFINE bad(e) == [l EXCEPT !.error = e, !.nErrorReads = (@ + 1) % WordMod]
           fine == [l EXCEPT !.error = "ok"]
<1>0. /\ l \in LifeTester /\ SumBounded(l) /\ Rested(l) /\ Budgeted(l)
      /\ FlagsInOrder(l) /\ l.nErrorReads \in Words
  BY DEF Good, LifeTester
<1>1. CASE l.nErrorReads > MAX_ERROR_READS
  <2>1. InitialiseStep(l, t, c, i) = After(l, "Error")
    <3>1. ~(l.nErrorReads <= MAX_ERROR_READS)
      BY <1>0, <1>1, LimitAssumption DEF Words
    <3>2. QED
      BY <1>1, <3>1 DEF InitialiseStep
  <2>2. Follow(React(After(l, "Error")), t) = [ErrorEntry(l) EXCEPT !.state = "Error"]
    BY FromInitialise
       DEF Follow, React, After, TransitionOnEvent, InitialiseTran, Go, MeasureStates
  <2>3. QED
    BY <1>0, <1>1, <2>1, <2>2, FailureGood DEF Budgeted
<1>2. CASE ~(l.nErrorReads > MAX_ERROR_READS)
  <2>0. l.nErrorReads <= MAX_ERROR_READS
    BY <1>0, <1>2, LimitAssumption DEF Words
  <2>1. InitialiseStep(l, t, c, i)
           \in {Quiet(l), Quiet(bad("currentThreshold")), Quiet(bad("currentLimit")),
                After(fine, "MeasurementDone")}
    BY <1>2, <2>0 DEF InitialiseStep
  <2>2. ASSUME NEW e \in {"currentThreshold", "currentLimit"}
        PROVE  bad(e) \in LifeTester /\ Good(bad(e))
    <3> DEFINE n == (l.nErrorReads + 1) % WordMod
               r == [l EXCEPT !.error = e, !.nErrorReads = n]
    <3>1. n = l.nErrorReads + 1 /\ n \in Words /\ n <= MAX_ERROR_READS + 1
      <4>1. l.nErrorReads + 1 \in 0 .. WordMod - 1
        BY <1>0, <2>0, LimitAssumption, WidthAssumption DEF Words
      <4>2. n = l.nErrorReads + 1
        BY <4>1, WidthAssumption
      <4>3. QED
        BY <4>1, <4>2, <1>0, <2>0, LimitAssumption DEF Words
    <3> HIDE DEF n
    <3>2. e \in Errors /\ e # "ok"
      BY FieldValues
    <3>3. /\ r \in LifeTester /\ r.state = "Initialise" /\ r.dac = l.dac
          /\ r.nErrorReads = n /\ r.error # "ok"
          /\ r.iSampleSum = l.iSampleSum /\ r.nSamples = l.nSamples
          /\ r.thisDone = l.thisDone /\ r.nextDone = l.nextDone
          /\ r.delayDone = l.delayDone
      BY <1>0, <3>1, <3>2 DEF LifeTester
    <3>4. r = bad(e)
      BY DEF n
    <3> HIDE DEF r, bad
    <3>5. SumBounded(r) /\ Budgeted(r)
      BY <1>0, <3>1, <3>3 DEF SumBounded, Budgeted, MeasureStates
    <3>6. Rested(r) /\ Driven(r) /\ Scanned(r) /\ FlagsInOrder(r) /\ Compared(r)
      BY <1>0, <3>3 DEF Rested, Driven, Scanned, FlagsInOrder, Compared,
                        MeasureStates, TrackingStates
    <3>7. QED
      BY <3>3, <3>4, <3>5, <3>6 DEF Good
  <2>3. Good(Follow(React(After(fine, "MeasurementDone")), t))
    <3> DEFINE a == [fine EXCEPT !.active = "scan"]
               r == [ScanningModeEntry(a) EXCEPT !.state = "ScanningMode"]
    <3>1. a.state = "Initialise" /\ fine.state = "Initialise"
      BY <1>0 DEF LifeTester
    <3>2. Follow(React(After(fine, "MeasurementDone")), t) = r
      <4>1. React(After(fine, "MeasurementDone")) = Go(a, "ScanningMode")
        BY <3>1 DEF React, After, TransitionOnEvent, InitialiseTran, MeasureStates
      <4>2. Follow(Go(a, "ScanningMode"), t) = r
        BY <3>1, FromInitialise DEF Follow, Go
      <4>3. QED
        BY <4>1, <4>2
    <3>3. /\ r \in LifeTester
          /\ r.state = "ScanningMode" /\ r.nErrorReads = l.nErrorReads
          /\ r.iSampleSum = l.iSampleSum /\ r.nSamples = l.nSamples
          /\ r.thisDone = l.thisDone /\ r.nextDone = l.nextDone
          /\ r.delayDone = l.delayDone
      BY <1>0, FieldValues DEF ScanningModeEntry, LifeTester
    <3> HIDE DEF r
    <3>4. SumBounded(r)
      BY <1>0, <3>3 DEF SumBounded
    <3>5. Budgeted(r)
      BY <1>0, <2>0, <3>3, LimitAssumption DEF Budgeted, Words
    <3>6. Rested(r) /\ Driven(r) /\ Scanned(r) /\ FlagsInOrder(r) /\ Compared(r)
      BY <1>0, <3>3 DEF Rested, Driven, Scanned, FlagsInOrder, Compared,
                        MeasureStates, TrackingStates
    <3>7. QED
      BY <3>2, <3>3, <3>4, <3>5, <3>6 DEF Good
  <2> HIDE DEF bad, fine
  <2>4. QED
    BY <1>0, <2>1, <2>2, <2>3, QuietStep
<1>3. QED
  BY <1>1, <1>2

\* Judging an average keeps the count within one of the budget, and leaves
\* everything but the count and the error code alone.
LEMMA UpdateErrorReadingsEffect ==
    ASSUME NEW y \in LifeTester, y.active \in Points,
           y.nErrorReads <= MAX_ERROR_READS
    PROVE  LET u == UpdateErrorReadings(y)
           IN  /\ u \in LifeTester
               /\ u.nErrorReads <= MAX_ERROR_READS + 1
               /\ u.nErrorReads > MAX_ERROR_READS => u.error # "ok"
               /\ u.v = y.v /\ u.i = y.i /\ u.p = y.p /\ u.dac = y.dac
               /\ u.iSampleSum = y.iSampleSum /\ u.nSamples = y.nSamples
               /\ u.thisDone = y.thisDone /\ u.nextDone = y.nextDone
               /\ u.delayDone = y.delayDone /\ u.state = y.state
<1>0. y.nErrorReads \in Nat /\ y.nErrorReads + 1 \in Words
      /\ (y.nErrorReads + 1) % WordMod = y.nErrorReads + 1
  <2>1. y.nErrorReads \in 0 .. WordMod - 1
    BY DEF LifeTester, Words
  <2>2. y.nErrorReads + 1 \in 0 .. WordMod - 1
    BY <2>1, LimitAssumption, WidthAssumption
  <2>3. (y.nErrorReads + 1) % WordMod = y.nErrorReads + 1
    BY <2>2, WidthAssumption
  <2>4. QED
    BY <2>1, <2>2, <2>3 DEF Words
<1> DEFINE bad(e) == [y EXCEPT !.error = e, !.nErrorReads = (@ + 1) % WordMod]
           good == [y EXCEPT !.error = "ok", !.nErrorReads = 0]
<1>1. UpdateErrorReadings(y) \in {bad("lowCurrent"), bad("currentLimit"), good}
  <2>1. y.i[y.active] \in Int
    BY DEF LifeTester, Words
  <2>2. QED
    BY <2>1, LimitAssumption DEF UpdateErrorReadings
<1> DEFINE Kept(u) ==
              /\ u \in LifeTester
              /\ u.v = y.v /\ u.i = y.i /\ u.p = y.p /\ u.dac = y.dac
              /\ u.iSampleSum = y.iSampleSum /\ u.nSamples = y.nSamples
              /\ u.thisDone = y.thisDone /\ u.nextDone = y.nextDone
              /\ u.delayDone = y.delayDone /\ u.state = y.state
<1>2. Kept(good) /\ good.nErrorReads = 0
  BY FieldValues DEF LifeTester
<1>3. ASSUME NEW e \in {"lowCurrent", "currentLimit"}
      PROVE  /\ Kept(bad(e))
             /\ bad(e).nErrorReads = y.nErrorReads + 1
             /\ bad(e).error # "ok"
  <2>1. e \in Errors /\ e # "ok"
    BY FieldValues
  <2> DEFINE n == (y.nErrorReads + 1) % WordMod
  <2>2. n \in Words /\ n = y.nErrorReads + 1
    BY <1>0
  <2> HIDE DEF n
  <2>3. [y EXCEPT !.error = e, !.nErrorReads = n] = bad(e)
    BY DEF n
  <2>4. Kept([y EXCEPT !.error = e, !.nErrorReads = n])
    BY <2>1, <2>2 DEF LifeTester
  <2>5. QED
    BY <2>1, <2>2, <2>3, <2>4 DEF LifeTester
<1> DEFINE u == UpdateErrorReadings(y)
<1>4. Kept(u)
  BY <1>1, <1>2, <1>3
<1>5. u.nErrorReads = 0 \/ (u.nErrorReads = y.nErrorReads + 1 /\ u.error # "ok")
  BY <1>1, <1>2, <1>3
<1> HIDE DEF u, Kept
<1>6. /\ u.nErrorReads <= MAX_ERROR_READS + 1
      /\ u.nErrorReads > MAX_ERROR_READS => u.error # "ok"
  BY <1>0, <1>5, LimitAssumption
<1>7. QED
  BY <1>4, <1>6 DEF u, Kept

\* The exit from a scan point touches the scan results and vScan only.
LEMMA ScanExitEffect ==
    ASSUME NEW l \in LifeTester
    PROVE  LET u == MeasureScanDataPointExit(l)
           IN  /\ u \in LifeTester
               /\ u.iSampleSum = l.iSampleSum /\ u.nSamples = l.nSamples
               /\ u.nErrorReads = l.nErrorReads /\ u.error = l.error
               /\ u.thisDone = l.thisDone /\ u.nextDone = l.nextDone
               /\ u.delayDone = l.delayDone
<1> DEFINE pw == Power(l.v["scan"], l.i["scan"])
           d == UpdateScanData(l)
<1>1. l.v["scan"] \in Codes /\ l.i["scan"] \in Words /\ pw \in Words
  BY PowerType DEF LifeTester, Points
<1>2. [l.p EXCEPT !["scan"] = pw] \in [Points -> Words]
  BY <1>1 DEF LifeTester
<1> HIDE DEF pw
<1>3. /\ d \in LifeTester
      /\ d.iSampleSum = l.iSampleSum /\ d.nSamples = l.nSamples
      /\ d.nErrorReads = l.nErrorReads /\ d.error = l.error
      /\ d.thisDone = l.thisDone /\ d.nextDone = l.nextDone
      /\ d.delayDone = l.delayDone
  BY <1>1, <1>2 DEF UpdateScanData, LifeTester, pw
<1> HIDE DEF d
<1>4. (d.v["scan"] + DV_SCAN) % CodeMod \in Codes
  <2>1. d.v["scan"] + DV_SCAN \in Int
    BY <1>3 DEF LifeTester, Points, Codes, DV_SCAN
  <2>2. QED
    BY <2>1, CodeType
<1>5. QED
  BY <1>3, <1>4 DEF MeasureScanDataPointExit, LifeTester, d

\* A scan point, once averaged, returns the channel to scanning mode.
LEMMA ScanPointDoneGood ==
    ASSUME NEW x \in LifeTester, x.state = "MeasureScan", SumBounded(x),
           Budgeted(x), FlagsInOrder(x), NEW t
    PROVE  Good(Follow(React(After(x, "MeasurementDone")), t))
<1> DEFINE u == MeasureScanDataPointExit(x)
           r == [u EXCEPT !.state = "ScanningMode"]
<1>1. Follow(React(After(x, "MeasurementDone")), t) = r
  BY FromChild DEF Follow, React, After, Go, TransitionOnEvent,
                   MeasureDataPointTran, MeasureStates, Parent
<1>2. /\ u \in LifeTester
      /\ u.iSampleSum = x.iSampleSum /\ u.nSamples = x.nSamples
      /\ u.nErrorReads = x.nErrorReads /\ u.error = x.error
      /\ u.thisDone = x.thisDone /\ u.nextDone = x.nextDone
      /\ u.delayDone = x.delayDone
  BY ScanExitEffect
<1> HIDE DEF u
<1>3. /\ r \in LifeTester /\ r.state = "ScanningMode"
      /\ r.iSampleSum = x.iSampleSum /\ r.nSamples = x.nSamples
      /\ r.nErrorReads = x.nErrorReads /\ r.error = x.error
      /\ r.thisDone = x.thisDone /\ r.nextDone = x.nextDone
      /\ r.delayDone = x.delayDone
  BY <1>2, FieldValues DEF LifeTester
<1> HIDE DEF r
<1>4. SumBounded(r)
  BY <1>3 DEF SumBounded
<1>5. Budgeted(r)
  BY <1>3 DEF Budgeted, MeasureStates
<1>6. Rested(r) /\ Driven(r) /\ Scanned(r) /\ FlagsInOrder(r) /\ Compared(r)
  BY <1>3 DEF Rested, Driven, Scanned, FlagsInOrder, Compared,
              MeasureStates, TrackingStates
<1>7. QED
  BY <1>1, <1>3, <1>4, <1>5, <1>6 DEF Good

\* A tracked point, once averaged and filed under the voltage it was driven
\* at, returns the channel to tracking mode.
LEMMA TrackPointDoneGood ==
    ASSUME NEW x \in LifeTester, x.state \in {"MeasureThis", "MeasureNext"},
           x.active = PointOf(x.state), SumBounded(x),
           Budgeted(x), FlagsInOrder(x), Compared(x),
           x.p[x.active] = Power(x.v[x.active], x.i[x.active]),
           NEW t
    PROVE  Good(Follow(React(After(x, "MeasurementDone")), t))
<1> DEFINE y == IF x.state = "MeasureThis" THEN [x EXCEPT !.thisDone = TRUE]
                                           ELSE [x EXCEPT !.nextDone = TRUE]
           u == UpdateErrorReadings(y)
           r == [u EXCEPT !.state = "TrackingMode"]
<1>1. Follow(React(After(x, "MeasurementDone")), t) = r
  BY FromChild DEF Follow, React, After, Go, TransitionOnEvent,
                   MeasureDataPointTran, MeasureStates, Parent,
                   MeasureThisDataPointExit, MeasureNextDataPointExit
<1>2. /\ y \in LifeTester /\ y.active \in Points
      /\ y.nErrorReads = x.nErrorReads
      /\ y.v = x.v /\ y.i = x.i /\ y.p = x.p
      /\ y.iSampleSum = x.iSampleSum /\ y.nSamples = x.nSamples
      /\ y.delayDone = x.delayDone
      /\ y.thisDone = (x.thisDone \/ x.state = "MeasureThis")
      /\ y.nextDone = (x.nextDone \/ x.state = "MeasureNext")
  BY DEF LifeTester, PointOf, Points
<1>3. x.nErrorReads <= MAX_ERROR_READS
  BY DEF Budgeted, MeasureStates
<1> HIDE DEF y
<1>4. /\ u \in LifeTester
      /\ u.nErrorReads <= MAX_ERROR_READS + 1
      /\ u.nErrorReads > MAX_ERROR_READS => u.error # "ok"
      /\ u.v = x.v /\ u.i = x.i /\ u.p = x.p
      /\ u.iSampleSum = x.iSampleSum /\ u.nSamples = x.nSamples
      /\ u.thisDone = y.thisDone /\ u.nextDone = y.nextDone
      /\ u.delayDone = x.delayDone
  BY <1>2, <1>3, UpdateErrorReadingsEffect
<1> HIDE DEF u
<1>5. /\ r \in LifeTester /\ r.state = "TrackingMode"
      /\ r.nErrorReads = u.nErrorReads /\ r.error = u.error
      /\ r.v = x.v /\ r.i = x.i /\ r.p = x.p
      /\ r.iSampleSum = x.iSampleSum /\ r.nSamples = x.nSamples
      /\ r.thisDone = y.thisDone /\ r.nextDone = y.nextDone
      /\ r.delayDone = x.delayDone
  BY <1>4, FieldValues DEF LifeTester
<1> HIDE DEF r
<1>6. SumBounded(r)
  BY <1>5 DEF SumBounded
<1>7. Budgeted(r)
  BY <1>4, <1>5 DEF Budgeted, MeasureStates
<1>8. Rested(r) /\ Driven(r) /\ Scanned(r) /\ FlagsInOrder(r)
  BY <1>5 DEF Rested, Driven, Scanned, FlagsInOrder, MeasureStates
<1>9. Compared(r)
  BY <1>2, <1>5 DEF Compared, FlagsInOrder, TrackingStates, PointOf
<1>10. QED
  BY <1>1, <1>5, <1>6, <1>7, <1>8, <1>9 DEF Good

\* One call of the step function of a measurement: wait, take a sample, start
\* the window again if it was missed, or file the average.
LEMMA MeasureStepGood ==
    ASSUME NEW l, Good(l), l.state \in MeasureStates,
           NEW t \in Times, NEW c \in ParamRecords, NEW i \in Words
    PROVE  Good(Follow(React(MeasureDataPointStep(l, t, c, i)), t))
<1> DEFINE elapsed == Elapsed(l, t)
           close == (c.settle + c.sample) % WordMod
           mean == l.iSampleSum \div l.nSamples
           sampled == [l EXCEPT !.iSampleSum = @ + i, !.nSamples = @ + 1]
           restarted == [l EXCEPT !.timer = t]
           filed == [l EXCEPT !.i[l.active] = mean,
                              !.p[l.active] = Power(l.v[l.active], mean)]
           done == After(filed, "MeasurementDone")
<1>1. /\ l \in LifeTester /\ l.state # "None" /\ SumBounded(l) /\ Driven(l)
      /\ Rested(l) /\ Scanned(l) /\ Budgeted(l) /\ FlagsInOrder(l) /\ Compared(l)
  BY DEF Good
<1>2. /\ l.nSamples \in Nat /\ l.iSampleSum \in Nat
      /\ l.active = PointOf(l.state) /\ l.active \in Points
  BY <1>1 DEF LifeTester, Driven, PointOf, MeasureStates, Points
<1>3. \/ MeasureDataPointStep(l, t, c, i)
              \in {Quiet(l), Quiet(sampled), Quiet(restarted)}
      \/ l.nSamples > 0 /\ MeasureDataPointStep(l, t, c, i) = done
  <2>1. elapsed \in Int /\ close \in Int /\ c.settle \in Int
    <3>1. c.settle \in Int /\ c.sample \in Int /\ t \in Int /\ l.timer \in Int
      BY <1>1 DEF ParamRecords, Words, Times, LifeTester
    <3>2. QED
      BY <3>1, WidthAssumption DEF Elapsed
  <2> HIDE DEF elapsed, close, mean
  <2>2. MeasureDataPointStep(l, t, c, i)
           = CASE elapsed >= c.settle /\ elapsed < close -> Quiet(sampled)
               [] elapsed >= close /\ l.nSamples > 0 -> done
               [] elapsed >= close /\ l.nSamples = 0 -> Quiet(restarted)
               [] OTHER -> Quiet(l)
    BY DEF MeasureDataPointStep, elapsed, close, mean
  <2>3. QED
    BY <2>1, <2>2, <1>2
<1>4. sampled \in LifeTester /\ Good(sampled)
  <2>1. sampled \in LifeTester
    <3>1. l.iSampleSum + i \in Nat /\ l.nSamples + 1 \in Nat
      BY <1>2 DEF Words
    <3>2. QED
      BY <1>1, <3>1 DEF LifeTester
  <2>2. /\ sampled.iSampleSum = l.iSampleSum + i
        /\ sampled.nSamples = l.nSamples + 1
        /\ sampled.state = l.state /\ sampled.active = l.active
        /\ sampled.dac = l.dac /\ sampled.v = l.v /\ sampled.p = l.p
        /\ sampled.i = l.i /\ sampled.error = l.error
        /\ sampled.nErrorReads = l.nErrorReads
        /\ sampled.thisDone = l.thisDone /\ sampled.nextDone = l.nextDone
        /\ sampled.delayDone = l.delayDone
    BY <1>1 DEF LifeTester
  <2>3. SumBounded(sampled)
    BY <1>1, <1>2, <2>2, SumStep DEF SumBounded
  <2> HIDE DEF sampled
  <2>4. Rested(sampled) /\ Driven(sampled) /\ Scanned(sampled)
        /\ Budgeted(sampled) /\ FlagsInOrder(sampled) /\ Compared(sampled)
    BY <1>1, <2>2 DEF Rested, Driven, Scanned, Budgeted, FlagsInOrder, Compared
  <2>5. QED
    BY <1>1, <2>1, <2>2, <2>3, <2>4 DEF Good
<1>5. restarted \in LifeTester /\ Good(restarted)
  <2>1. restarted \in LifeTester
    BY <1>1 DEF LifeTester
  <2>2. /\ restarted.iSampleSum = l.iSampleSum
        /\ restarted.nSamples = l.nSamples
        /\ restarted.state = l.state /\ restarted.active = l.active
        /\ restarted.dac = l.dac /\ restarted.v = l.v /\ restarted.p = l.p
        /\ restarted.i = l.i /\ restarted.error = l.error
        /\ restarted.nErrorReads = l.nErrorReads
        /\ restarted.thisDone = l.thisDone /\ restarted.nextDone = l.nextDone
        /\ restarted.delayDone = l.delayDone
    BY <1>1 DEF LifeTester
  <2> HIDE DEF restarted
  <2>3. SumBounded(restarted)
    BY <1>1, <2>2 DEF SumBounded
  <2>4. Rested(restarted) /\ Driven(restarted) /\ Scanned(restarted)
        /\ Budgeted(restarted) /\ FlagsInOrder(restarted) /\ Compared(restarted)
    BY <1>1, <2>2 DEF Rested, Driven, Scanned, Budgeted, FlagsInOrder, Compared
  <2>5. QED
    BY <1>1, <2>1, <2>2, <2>3, <2>4 DEF Good
<1>6. ASSUME l.nSamples > 0 PROVE Good(Follow(React(done), t))
  <2>1. mean \in Words
    BY <1>6, <1>1, <1>2, MeanType DEF SumBounded
  <2> HIDE DEF mean
  <2> DEFINE pw == Power(l.v[l.active], mean)
  <2>2. pw \in Words
    BY <2>1, <1>1, <1>2, PowerType DEF LifeTester
  <2> HIDE DEF pw
  <2>3. /\ [l.i EXCEPT ![l.active] = mean] \in [Points -> Words]
        /\ [l.p EXCEPT ![l.active] = pw] \in [Points -> Words]
    BY <2>1, <2>2, <1>1, <1>2 DEF LifeTester
  <2>4. /\ filed \in LifeTester
        /\ filed.i = [l.i EXCEPT ![l.active] = mean]
        /\ filed.p = [l.p EXCEPT ![l.active] = pw]
        /\ filed.iSampleSum = l.iSampleSum /\ filed.nSamples = l.nSamples
        /\ filed.state = l.state /\ filed.active = l.active
        /\ filed.v = l.v /\ filed.error = l.error
        /\ filed.nErrorReads = l.nErrorReads
        /\ filed.thisDone = l.thisDone /\ filed.nextDone = l.nextDone
        /\ filed.delayDone = l.delayDone
    BY <2>3, <1>1 DEF LifeTester, pw
  <2> HIDE DEF filed
  <2>5. SumBounded(filed) /\ Budgeted(filed) /\ FlagsInOrder(filed)
    BY <1>1, <2>4 DEF SumBounded, Budgeted, FlagsInOrder
  <2>6. CASE l.state = "MeasureScan"
    BY <2>6, <2>4, <2>5, ScanPointDoneGood
  <2>7. CASE l.state \in {"MeasureThis", "MeasureNext"}
    <3>1. filed.p[filed.active] = Power(filed.v[filed.active], filed.i[filed.active])
      BY <2>4, <1>1, <1>2 DEF pw, LifeTester
    <3>2. Compared(filed)
      BY <2>7, <2>4, <1>1, <1>2
         DEF Compared, FlagsInOrder, TrackingStates, PointOf, LifeTester, Points
    <3>3. QED
      BY <2>7, <2>4, <2>5, <3>1, <3>2, <1>2, TrackPointDoneGood
  <2>8. QED
    BY <2>6, <2>7 DEF MeasureStates
<1> HIDE DEF sampled, restarted, done
<1>7. QED
  BY <1>1, <1>3, <1>4, <1>5, <1>6, QuietStep

\* Scanning mode between two points: measure the next one, or judge the scan.
LEMMA ScanningGood ==
    ASSUME NEW l, Good(l), l.state = "ScanningMode", NEW t \in Times
    PROVE  Good(Follow(React(ScanningModeStep(l)), t))
<1>1. /\ l \in LifeTester /\ SumBounded(l) /\ Budgeted(l)
      /\ l.nErrorReads <= MAX_ERROR_READS
      /\ ~l.delayDone /\ ~l.thisDone /\ ~l.nextDone
  BY DEF Good, Budgeted, FlagsInOrder
<1>2. CASE l.v["scan"] <= V_SCAN_MAX
  <2> DEFINE a == [l EXCEPT !.active = PointOf("MeasureScan")]
  <2>1. a.state = "ScanningMode"
    BY <1>1 DEF LifeTester
  <2>2. React(ScanningModeStep(l)) = Go(a, "MeasureScan")
    BY <1>2 DEF ScanningModeStep, React, After, TransitionOnEvent,
                ScanningModeTran, PointOf, MeasureStates
  <2>3. Follow(Go(a, "MeasureScan"), t)
           = [MeasureDataPointEntry(a, t) EXCEPT !.state = "MeasureScan"]
    BY <2>1, FromScanning DEF Follow, Go
  <2>4. /\ "MeasureScan" \in MeasureStates
        /\ "MeasureScan" # "MeasureThis" /\ "MeasureScan" # "MeasureNext"
    BY DEF MeasureStates
  <2>5. Good([MeasureDataPointEntry(a, t) EXCEPT !.state = "MeasureScan"])
    BY <2>4, <1>1, <1>2, MeasureStartGood
  <2>6. QED
    BY <2>2, <2>3, <2>5
<1>3. CASE ~(l.v["scan"] <= V_SCAN_MAX)
  <2> DEFINE judged == [l EXCEPT !.error = IF ScanShapeOk(l) THEN @ ELSE "invalidScan"]
             code == (l.vScanMpp + DV_MPPT) % CodeMod
             start == [judged EXCEPT !.v["this"] = l.vScanMpp, !.v["next"] = code]
  <2>1. ScanningModeStep(l) = IF judged.error = "ok" THEN After(start, "ScanningDone")
                                                     ELSE After(judged, "Error")
    BY <1>3 DEF ScanningModeStep
  <2>2. /\ judged \in LifeTester /\ judged.state = "ScanningMode"
        /\ judged.iSampleSum = l.iSampleSum /\ judged.nSamples = l.nSamples
        /\ judged.nErrorReads = l.nErrorReads
        /\ judged.thisDone = l.thisDone /\ judged.nextDone = l.nextDone
        /\ judged.delayDone = l.delayDone
    BY <1>1, FieldValues DEF LifeTester
  <2>3. l.vScanMpp \in Codes /\ code \in Codes
    BY <1>1, CodeType DEF LifeTester, Codes, DV_MPPT
  <2> HIDE DEF judged, code
  <2>4. CASE judged.error = "ok"
    <3> DEFINE s == [start EXCEPT !.active = "this"]
               r == [ScanningModeExit(s) EXCEPT !.state = "TrackingMode"]
    <3>1. /\ start \in LifeTester /\ start.state = "ScanningMode"
          /\ start.v["this"] = l.vScanMpp /\ start.v["next"] = code
          /\ start.iSampleSum = l.iSampleSum /\ start.nSamples = l.nSamples
          /\ start.nErrorReads = l.nErrorReads
          /\ start.thisDone = l.thisDone /\ start.nextDone = l.nextDone
          /\ start.delayDone = l.delayDone
      BY <2>2, <2>3, <2>4, FieldValues DEF LifeTester, Points
    <3> HIDE DEF start
    <3>2. s.state = "ScanningMode"
      BY <3>1 DEF LifeTester
    <3>3. React(After(start, "ScanningDone")) = Go(s, "TrackingMode")
      BY <3>1 DEF React, After, TransitionOnEvent, ScanningModeTran, MeasureStates
    <3>4. Follow(Go(s, "TrackingMode"), t) = r
      BY <3>2, FromScanning DEF Follow, Go
    <3>5. /\ r \in LifeTester /\ r.state = "TrackingMode"
          /\ r.v = start.v
          /\ r.iSampleSum = l.iSampleSum /\ r.nSamples = l.nSamples
          /\ r.nErrorReads = l.nErrorReads
          /\ ~r.thisDone /\ ~r.nextDone /\ ~r.delayDone
      BY <1>1, <3>1, FieldValues, ZenonT(40) DEF ScanningModeExit, LifeTester
    <3> HIDE DEF r
    <3>6. SumBounded(r)
      BY <1>1, <3>5 DEF SumBounded
    <3>7. Budgeted(r)
      BY <1>1, <3>5, LimitAssumption DEF Budgeted, MeasureStates, LifeTester, Words
    <3>8. Rested(r) /\ Driven(r) /\ Scanned(r) /\ FlagsInOrder(r)
      BY <3>5 DEF Rested, Driven, Scanned, FlagsInOrder, MeasureStates
    <3>9. Compared(r)
      BY <3>1, <3>5 DEF Compared, code
    <3>10. Good(r)
      BY <3>5, <3>6, <3>7, <3>8, <3>9 DEF Good
    <3>11. QED
      BY <2>1, <2>4, <3>3, <3>4, <3>10
  <2>5. CASE judged.error # "ok"
    <3> DEFINE s == ScanningModeExit(judged)
    <3>1. Follow(React(After(judged, "Error")), t) = [ErrorEntry(s) EXCEPT !.state = "Error"]
      BY <2>2, FromScanning
         DEF Follow, React, After, Go, TransitionOnEvent, ScanningModeTran, MeasureStates
    <3>2. /\ s \in LifeTester /\ s.error = judged.error
          /\ s.nErrorReads = l.nErrorReads
          /\ s.iSampleSum = l.iSampleSum /\ s.nSamples = l.nSamples
      BY <2>2, FieldValues DEF ScanningModeExit, LifeTester
    <3> HIDE DEF s
    <3>3. SumBounded(s) /\ s.nErrorReads <= MAX_ERROR_READS + 1
      BY <1>1, <3>2 DEF SumBounded, Budgeted
    <3>4. QED
      BY <2>1, <2>5, <3>1, <3>2, <3>3, FailureGood
  <2>6. QED
    BY <2>4, <2>5
<1>4. QED
  BY <1>2, <1>3

\* Comparing the two powers moves both voltages together.
LEMMA UpdateTrackingDataEffect ==
    ASSUME NEW l \in LifeTester
    PROVE  LET u == UpdateTrackingData(l)
           IN  /\ u \in LifeTester
               /\ u.v["next"] = (u.v["this"] + DV_MPPT) % CodeMod
               /\ u.iSampleSum = l.iSampleSum /\ u.nSamples = l.nSamples
               /\ u.nErrorReads = l.nErrorReads /\ u.error = l.error
<1> DEFINE uphill == l.p["next"] > l.p["this"]
           v == (IF uphill THEN l.v["this"] + DV_MPPT
                           ELSE l.v["this"] - DV_MPPT) % CodeMod
           w == (v + DV_MPPT) % CodeMod
           led == IF uphill THEN "twoFlashes" ELSE "oneFlash"
           u == [l EXCEPT !.v["this"] = v, !.v["next"] = w, !.led = led]
<1>1. UpdateTrackingData(l) = u
  BY DEF UpdateTrackingData
<1>2. v \in Codes
  <2>1. l.v["this"] \in Int
    BY DEF LifeTester, Points, Codes
  <2>2. QED
    BY <2>1, CodeType DEF DV_MPPT
<1> HIDE DEF v
<1>3. w \in Codes
  BY <1>2, CodeType DEF Codes, DV_MPPT
<1>4. led \in LedPatterns
  BY FieldValues
<1> HIDE DEF led
<1>5. /\ u.v["this"] = v /\ u.v["next"] = w
      /\ u.iSampleSum = l.iSampleSum /\ u.nSamples = l.nSamples
      /\ u.nErrorReads = l.nErrorReads /\ u.error = l.error
  BY DEF LifeTester, Points
<1> HIDE DEF w
<1>6. u \in LifeTester
  BY <1>2, <1>3, <1>4 DEF LifeTester
<1> HIDE DEF u
<1>7. QED
  BY <1>1, <1>5, <1>6 DEF w

\* Tracking mode between two tasks: fail, wait, measure or move.
LEMMA TrackingGood ==
    ASSUME NEW l, Good(l), l.state = "TrackingMode", NEW t \in Times
    PROVE  Good(Follow(React(TrackingModeStep(l)), t))
<1>1. /\ l \in LifeTester /\ SumBounded(l) /\ Budgeted(l) /\ Compared(l)
      /\ l.nErrorReads \in Int
  BY DEF Good, LifeTester, Words
<1>2. CASE l.nErrorReads > MAX_ERROR_READS
  <2>1. TrackingModeStep(l) = After(l, "Error")
    BY <1>1, <1>2, LimitAssumption DEF TrackingModeStep
  <2>2. Follow(React(After(l, "Error")), t) = [ErrorEntry(l) EXCEPT !.state = "Error"]
    BY FromTracking
       DEF Follow, React, After, Go, TransitionOnEvent, TrackingModeTran, MeasureStates
  <2>3. QED
    BY <2>1, <2>2, <1>1, <1>2, FailureGood DEF Budgeted
<1>3. CASE l.nErrorReads <= MAX_ERROR_READS /\ ~l.delayDone
  <2> DEFINE r == [TrackingDelayEntry(l, t) EXCEPT !.state = "TrackingDelay"]
  <2>1. TrackingModeStep(l) = After(l, "TrackDelayStart")
    BY <1>1, <1>3, LimitAssumption DEF TrackingModeStep
  <2>2. Follow(React(After(l, "TrackDelayStart")), t) = r
    BY FromTracking
       DEF Follow, React, After, Go, TransitionOnEvent, TrackingModeTran, MeasureStates
  <2>3. /\ r \in LifeTester /\ r.state = "TrackingDelay"
        /\ r.v = l.v /\ r.i = l.i /\ r.p = l.p
        /\ r.iSampleSum = l.iSampleSum /\ r.nSamples = l.nSamples
        /\ r.nErrorReads = l.nErrorReads /\ r.error = l.error
        /\ r.thisDone = l.thisDone /\ r.nextDone = l.nextDone
        /\ r.delayDone = l.delayDone
    BY <1>1, FieldValues DEF TrackingDelayEntry, LifeTester
  <2> HIDE DEF r
  <2>4. ~l.thisDone /\ ~l.nextDone
    BY <1>1, <1>3 DEF Compared, TrackingStates
  <2>5. SumBounded(r) /\ Budgeted(r)
    BY <1>1, <1>3, <2>3 DEF SumBounded, Budgeted
  <2>6. Rested(r) /\ Driven(r) /\ Scanned(r) /\ FlagsInOrder(r) /\ Compared(r)
    BY <1>1, <1>3, <2>3, <2>4
       DEF Rested, Driven, Scanned, FlagsInOrder, Compared, MeasureStates, TrackingStates
  <2>7. QED
    BY <2>1, <2>2, <2>3, <2>5, <2>6 DEF Good
<1>4. CASE l.nErrorReads <= MAX_ERROR_READS /\ l.delayDone /\ ~(l.thisDone /\ l.nextDone)
  <2>1. TrackingModeStep(l) = After(l, "MeasurementStart")
    BY <1>1, <1>4, LimitAssumption DEF TrackingModeStep
  <2>2. React(After(l, "MeasurementStart")) = TrackingModeTran(l, "MeasurementStart")
    BY DEF React, After, TransitionOnEvent, MeasureStates
  <2>3. CASE ~l.thisDone
    <3> DEFINE a == [l EXCEPT !.active = PointOf("MeasureThis")]
    <3>1. TrackingModeTran(l, "MeasurementStart") = Go(a, "MeasureThis")
      BY <2>3 DEF TrackingModeTran, PointOf
    <3>2. a.state = "TrackingMode"
      BY <1>1 DEF LifeTester
    <3>3. ~l.nextDone
      BY <1>1, <2>3 DEF Compared, TrackingStates
    <3>4. "MeasureThis" \in MeasureStates
      BY DEF MeasureStates
    <3>5. Good([MeasureDataPointEntry(a, t) EXCEPT !.state = "MeasureThis"])
      BY <1>1, <1>4, <2>3, <3>3, <3>4, MeasureStartGood
    <3>6. Follow(Go(a, "MeasureThis"), t)
             = [MeasureDataPointEntry(a, t) EXCEPT !.state = "MeasureThis"]
      BY <3>2, FromTracking DEF Follow, Go
    <3>7. QED
      BY <2>1, <2>2, <3>1, <3>5, <3>6
  <2>4. CASE l.thisDone
    <3> DEFINE a == [l EXCEPT !.active = PointOf("MeasureNext")]
    <3>1. TrackingModeTran(l, "MeasurementStart") = Go(a, "MeasureNext")
      BY <1>4, <2>4 DEF TrackingModeTran, PointOf
    <3>2. a.state = "TrackingMode"
      BY <1>1 DEF LifeTester
    <3>3. "MeasureNext" \in MeasureStates
      BY DEF MeasureStates
    <3>4. Good([MeasureDataPointEntry(a, t) EXCEPT !.state = "MeasureNext"])
      BY <1>1, <1>4, <2>4, <3>3, MeasureStartGood
    <3>5. Follow(Go(a, "MeasureNext"), t)
             = [MeasureDataPointEntry(a, t) EXCEPT !.state = "MeasureNext"]
      BY <3>2, FromTracking DEF Follow, Go
    <3>6. QED
      BY <2>1, <2>2, <3>1, <3>4, <3>5
  <2>5. QED
    BY <2>3, <2>4
<1>5. CASE l.nErrorReads <= MAX_ERROR_READS /\ l.delayDone /\ l.thisDone /\ l.nextDone
  <2> DEFINE u == UpdateTrackingData(l)
             r == [u EXCEPT !.thisDone = FALSE, !.nextDone = FALSE, !.delayDone = FALSE]
  <2>1. TrackingModeStep(l) = Quiet(r)
    BY <1>1, <1>5, LimitAssumption DEF TrackingModeStep
  <2>2. u.state = "TrackingMode"
    BY <1>1 DEF UpdateTrackingData, LifeTester
  <2>3. /\ u \in LifeTester
        /\ u.v["next"] = (u.v["this"] + DV_MPPT) % CodeMod
        /\ u.iSampleSum = l.iSampleSum /\ u.nSamples = l.nSamples
        /\ u.nErrorReads = l.nErrorReads /\ u.error = l.error
    BY <1>1, UpdateTrackingDataEffect
  <2> HIDE DEF u
  <2>4. /\ r \in LifeTester /\ r.state = "TrackingMode"
        /\ r.v = u.v /\ ~r.thisDone /\ ~r.nextDone /\ ~r.delayDone
        /\ r.iSampleSum = l.iSampleSum /\ r.nSamples = l.nSamples
        /\ r.nErrorReads = l.nErrorReads /\ r.error = l.error
    BY <2>2, <2>3 DEF LifeTester
  <2> HIDE DEF r
  <2>5. SumBounded(r) /\ Budgeted(r)
    BY <1>1, <1>5, <2>4 DEF SumBounded, Budgeted
  <2>6. Rested(r) /\ Driven(r) /\ Scanned(r) /\ FlagsInOrder(r) /\ Compared(r)
    BY <2>3, <2>4
       DEF Rested, Driven, Scanned, FlagsInOrder, Compared, MeasureStates
  <2>7. Good(r)
    BY <2>4, <2>5, <2>6 DEF Good
  <2>8. QED
    BY <2>1, <2>4, <2>7, QuietStep
<1>6. QED
  BY <1>1, <1>2, <1>3, <1>4, <1>5, LimitAssumption

\* The end of the delay, which TrackingDelayStep brings about itself.
LEMMA DelayGood ==
    ASSUME NEW l, Good(l), l.state = "TrackingDelay",
           NEW t \in Times, NEW c \in ParamRecords
    PROVE  Good(Follow(TrackingDelayStep(l, t, c), t))
<1> DEFINE r == [TrackingDelayExit(l) EXCEPT !.state = "TrackingMode"]
<1>1. Follow(TrackingDelayStep(l, t, c), t) \in {l, r}
  BY FromChild, StaysPut DEF Good, TrackingDelayStep, Follow, Go, Stay
<1>2. /\ l \in LifeTester /\ SumBounded(l) /\ Budgeted(l) /\ Compared(l)
      /\ ~l.thisDone /\ ~l.nextDone
  BY DEF Good, FlagsInOrder
<1>3. /\ r \in LifeTester /\ r.state = "TrackingMode"
      /\ r.v = l.v /\ r.i = l.i /\ r.p = l.p
      /\ r.iSampleSum = l.iSampleSum /\ r.nSamples = l.nSamples
      /\ r.nErrorReads = l.nErrorReads /\ r.error = l.error
      /\ r.thisDone = l.thisDone /\ r.nextDone = l.nextDone
      /\ r.delayDone = TRUE
  BY <1>2, FieldValues DEF TrackingDelayExit, LifeTester
<1> HIDE DEF r
<1>4. SumBounded(r) /\ Budgeted(r)
  BY <1>2, <1>3 DEF SumBounded, Budgeted
<1>5. Rested(r) /\ Driven(r) /\ Scanned(r) /\ FlagsInOrder(r) /\ Compared(r)
  BY <1>2, <1>3
     DEF Rested, Driven, Scanned, FlagsInOrder, Compared, MeasureStates, TrackingStates
<1>6. Good(r)
  BY <1>3, <1>4, <1>5 DEF Good
<1>7. QED
  BY <1>1, <1>6

\* One call of StateMachine_UpdateStep.
LEMMA UpdateStepGood ==
    ASSUME NEW l, Good(l), NEW t \in Times, NEW c \in ParamRecords, NEW i \in Words
    PROVE  Good(RunChildStep(l, t, c, i))
<1> USE DEF RunChildStep, ChildStep, MeasureStates
<1>1. CASE l.state = "Initialise"
  BY <1>1, InitialiseGood
<1>2. CASE l.state = "ScanningMode"
  BY <1>2, ScanningGood
<1>3. CASE l.state = "TrackingMode"
  BY <1>3, TrackingGood
<1>4. CASE l.state = "TrackingDelay"
  BY <1>4, DelayGood
<1>5. CASE l.state \in MeasureStates
  <2>1. RunChildStep(l, t, c, i) = Follow(React(MeasureDataPointStep(l, t, c, i)), t)
    BY <1>5
  <2>2. QED
    BY <1>5, <2>1, MeasureStepGood
<1>6. CASE l.state = "Error"
  BY <1>6, QuietStep DEF Good
<1>7. QED
  BY <1>1, <1>2, <1>3, <1>4, <1>5, <1>6 DEF Good, LifeTester, States

-----------------------------------------------------------------------------
(* The invariant and what follows from it *)

\* The clock stays in its range while the output is written.
LEMMA OutputSetInTimes == \A t \in Times : OutputSet(t) \subseteq Times
BY WidthAssumption, EnvironmentAssumption DEF OutputSet, Times

\* setup() leaves the channel good.
LEMMA InvInit == Init => Inv
<1> SUFFICES ASSUME Init PROVE Inv
  OBVIOUS
<1>1. PICK t \in Times : /\ lt = StateMachine_Reset([state |-> "None"], t)
                         /\ now \in OutputSet(t)
  BY DEF Init
<1>2. Good(lt)
  BY <1>1, EntersInitialise DEF StateMachine_Reset
<1>3. config \in ParamRecords
  BY EnvironmentAssumption DEF Init
<1>4. QED
  BY <1>1, <1>2, <1>3, OutputSetInTimes DEF Inv

\* Every call of UpdateStep, every reset and every change of the parameters keeps
\* the channel good.
LEMMA InvNext == Inv /\ [Next]_vars => Inv'
<1> SUFFICES ASSUME Inv, [Next]_vars PROVE Inv'
  OBVIOUS
<1>1. Good(lt) /\ lt \in LifeTester /\ now \in Times /\ config \in ParamRecords
  BY DEF Inv, Good
<1>2. CASE UpdateStep
  <2>1. PICK d \in LoopTimes :
          LET t == (now + d) % TimeMod
              middle == RunParentStep(lt, t)
          IN  \E i \in Curve[middle.dac] :
                  /\ now' = t
                  /\ lt' = RunChildStep(middle, t, config, i)
                  /\ UNCHANGED config
    BY <1>2 DEF UpdateStep
  <2> DEFINE t == (now + d) % TimeMod
  <2>2. t \in Times
    BY <1>1, WidthAssumption, EnvironmentAssumption DEF Times
  <2>3. RunParentStep(lt, t) = lt
    BY <1>1, ParentStepIdle
  <2>4. Curve[lt.dac] \subseteq Words
    BY <1>1, EnvironmentAssumption DEF LifeTester
  <2>5. PICK i \in Words : lt' = RunChildStep(lt, t, config, i)
    BY <2>1, <2>3, <2>4
  <2>6. now' = t /\ config' = config
    BY <2>1
  <2> HIDE DEF t
  <2>7. Good(lt')
    BY <1>1, <2>2, <2>5, UpdateStepGood
  <2>8. QED
    BY <1>1, <2>2, <2>6, <2>7 DEF Inv
<1>3. CASE Reset
  <2>1. Good(lt')
    BY <1>1, <1>3, ResetGood DEF Reset
  <2>2. QED
    BY <1>1, <1>3, <2>1, OutputSetInTimes DEF Inv, Reset
<1>4. CASE SetParams
  <2>1. config' \in ParamRecords
    BY <1>4, EnvironmentAssumption DEF SetParams
  <2>2. QED
    BY <1>1, <1>4, <2>1 DEF Inv, SetParams
<1>5. CASE UNCHANGED vars
  BY <1>1, <1>5 DEF Inv, vars
<1>6. QED
  BY <1>2, <1>3, <1>4, <1>5 DEF Next

\* The inductive invariant holds in every reachable state, for any widths, limits,
\* loop times, device and parameters.
THEOREM Invariance == Spec => []Inv
<1>1. QED
  BY InvInit, InvNext, PTL DEF Spec

\* Every field of the channel keeps to its type: no mean of samples outgrows
\* a word and no voltage a DAC code, for every width, limit and device.
THEOREM TypeCorrect == Spec => []TypeOK
<1>1. Inv => TypeOK
  BY DEF Inv, Good, TypeOK
<1>2. QED
  BY <1>1, Invariance, PTL

\* A channel that is initialising or has failed drives zero volts, and a
\* failed one has an error code to show (ErrorEntry, InitialiseEntry).
THEOREM SafetyWhenNotRunning == Spec => []SafeWhenNotRunning
<1>1. Inv => SafeWhenNotRunning
  BY DEF Inv, Good, Rested, SafeWhenNotRunning
<1>2. QED
  BY <1>1, Invariance, PTL

\* A measurement is driven at the voltage it will be filed under
\* (MeasureDataPointEntry and the Activate functions).
THEOREM DriveCorrect == Spec => []DrivesMeasuredPoint
<1>1. Inv => DrivesMeasuredPoint
  BY DEF Inv, Good, Driven, DrivesMeasuredPoint
<1>2. QED
  BY <1>1, Invariance, PTL

\* No measurement starts over the error budget, so the error transition inside
\* MeasureDataPointEntry is never taken.
THEOREM BudgetKept == Spec => []WithinErrorBudget
<1>1. Inv => WithinErrorBudget
  BY DEF Inv, Good, Budgeted, WithinErrorBudget
<1>2. QED
  BY <1>1, Invariance, PTL

\* The two powers TrackingModeStep compares belong to the voltages they stand
\* next to, and to the present cycle.
THEOREM ComparisonCurrent == Spec => []ComparedPowersAreCurrent
<1>1. Inv => ComparedPowersAreCurrent
  BY DEF Inv, Good, Compared, ComparedPowersAreCurrent
<1>2. QED
  BY <1>1, Invariance, PTL
=============================================================================
