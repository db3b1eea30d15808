------------------------------ MODULE LedFlash ------------------------------
(* LedFlash.cpp: the flasher of a channel's LED, timed with millis() and      *)
(* updated in the main loop.                                                  *)
EXTENDS Pins

CONSTANTS
    LedPin,
    MillisMod,      \* the values of millis(): 2^32
    FlashMod,       \* the values of nFlash: 2^16
    FlashTimes,     \* pairs <<on, off>> that the program sets
    FlashCounts,    \* arguments of stopAfter, which are signed
    MaxUpdateGap,   \* bound on the milliseconds between two updates
    MaxLedCalls     \* bound on the calls other than update

\* LedFlashPrivate.h, in units of 200 ms
DEFAULT_ON_TIME  == 1
DEFAULT_OFF_TIME == 4

ASSUME LedFlashAssumption ==
    /\ LedPin \in Pins \ HandlerPins /\ MillisMod \in Nat \ {0} /\ FlashMod \in Nat \ {0}
    /\ FlashCounts \subseteq Int /\ MaxUpdateGap \in Nat \ {0} /\ MaxLedCalls \in Nat
    \* Else a time may never be seen to be over.
    /\ \A t \in FlashTimes \cup {<<DEFAULT_ON_TIME, DEFAULT_OFF_TIME>>} :
           \A i \in {1, 2} : t[i] \in Nat /\ t[i] + MaxUpdateGap < MillisMod

VARIABLES
    onTime, offTime, ledState, previousMillis, nFlash, flashConst,
    millis,         \* the clock
    gap,            \* milliseconds since the last update
    ledCalls,
    owed,           \* flashes that stopAfter still has to show, Unknown
                    \* while on() or off() interfere (history)
    shown           \* flashes seen since (history)

ledVars == <<onTime, offTime, ledState, previousMillis, nFlash, flashConst,
             millis, gap, ledCalls, owed, shown>>

Unknown == -1
Lit == LedPin \in reg[Output(LedPin)]

\* The constructor, which makes the pin an output and drives it low.
LedInit ==
    /\ onTime = DEFAULT_ON_TIME /\ offTime = DEFAULT_OFF_TIME
    /\ ledState = FALSE /\ previousMillis = 0
    /\ nFlash = 0 /\ flashConst = TRUE
    /\ millis = 0 /\ gap = 0 /\ ledCalls = 0 /\ owed = Unknown /\ shown = 0

-----------------------------------------------------------------------------
LedCall == Idle /\ ledCalls < MaxLedCalls /\ ledCalls' = ledCalls + 1

t(onNew, offNew) ==
    /\ LedCall
    /\ onTime' = onNew /\ offTime' = offNew
    /\ UNCHANGED <<pinVars, ledState, previousMillis, nFlash, flashConst, millis, gap, owed, shown>>

keepFlashing ==
    /\ LedCall
    /\ flashConst' = TRUE /\ owed' = Unknown
    /\ UNCHANGED <<pinVars, onTime, offTime, ledState, previousMillis, nFlash, millis, gap, shown>>

\* off() has left ledState as it was, so that the first of the flashes after
\* it is one in the dark.
stopAfter(n) ==
    /\ LedCall
    /\ nFlash' = n % FlashMod /\ flashConst' = FALSE
    /\ owed' = IF nFlash' > 0 /\ ledState /\ ~Lit THEN nFlash' - 1 ELSE nFlash'
    /\ shown' = 0
    /\ UNCHANGED <<pinVars, onTime, offTime, ledState, previousMillis, millis, gap>>

\* on() and off()
onOff(high) ==
    /\ LedCall
    /\ CallDigitalWrite(LedPin, high)
    /\ owed' = Unknown
    /\ UNCHANGED <<onTime, offTime, ledState, previousMillis, nFlash, flashConst, millis, gap, shown>>

-----------------------------------------------------------------------------
Flashing == flashConst \/ nFlash > 0

Elapsed == (millis - previousMillis) % MillisMod

TimeToTurnOff == Flashing /\ ledState /\ Elapsed > onTime
TimeToTurnOn  == Flashing /\ ~ledState /\ Elapsed > offTime

TurnOff ==
    /\ TimeToTurnOff
    /\ ledState' = FALSE /\ previousMillis' = millis
    /\ CallDigitalWrite(LedPin, FALSE)
    /\ nFlash' = IF flashConst THEN nFlash ELSE nFlash - 1
    /\ shown' = IF owed # Unknown /\ Lit THEN shown + 1 ELSE shown

Mut_CountedOnBoth ==
    /\ TimeToTurnOn
    /\ ledState' = TRUE /\ previousMillis' = millis
    /\ CallDigitalWrite(LedPin, TRUE)
    /\ nFlash' = IF flashConst THEN nFlash ELSE nFlash - 1
    /\ UNCHANGED shown

TurnOn ==
    /\ TimeToTurnOn
    /\ ledState' = TRUE /\ previousMillis' = millis
    /\ CallDigitalWrite(LedPin, TRUE)
    /\ UNCHANGED <<nFlash, shown>>

StayAsIs ==
    /\ Idle /\ ~TimeToTurnOff /\ ~TimeToTurnOn
    /\ UNCHANGED <<pinVars, ledState, previousMillis, nFlash, shown>>

update ==
    /\ TurnOff \/ TurnOn \/ StayAsIs
    /\ gap' = 0
    /\ UNCHANGED <<onTime, offTime, flashConst, millis, ledCalls, owed>>

Millisecond ==
    /\ gap < MaxUpdateGap
    /\ gap' = gap + 1 /\ millis' = (millis + 1) % MillisMod
    /\ UNCHANGED <<pinVars, onTime, offTime, ledState, previousMillis, nFlash, flashConst,
                   ledCalls, owed, shown>>

LedCalls ==
    \/ \E times \in FlashTimes : t(times[1], times[2])
    \/ keepFlashing
    \/ \E n \in FlashCounts : stopAfter(n)
    \/ \E high \in BOOLEAN : onOff(high)
=============================================================================
