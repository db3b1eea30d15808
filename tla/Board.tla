-------------------------------- MODULE Board -------------------------------
(* The pins with everything that uses them: the calls of the wiring library,  *)
(* a tone, the flasher of an LED and the external interrupts in the program,  *)
(* and the handlers that run between its steps.                               *)
EXTENDS Tone, LedFlash, SpiTransactions

CONSTANTS
    Programs,       \* what a program uses, a set of Parts
    ProgramPins     \* the pins that its calls of the wiring library are about

Parts == {"digital", "pwm", "analog", "tone", "led", "comms", "external", "edges", "spi"}

ASSUME BoardAssumption ==
    /\ Programs \subseteq SUBSET Parts
    \* The program makes a handler's pin an output, and leaves it to the handler.
    /\ ProgramPins \subseteq Pins \ HandlerPins /\ LedPin \notin ProgramPins \cup TonePins

VARIABLE use                \* the member of Programs that runs

vars == <<pinVars, toneVars, ledVars, externalVars, spiVars, use>>

Init ==
    /\ use \in Programs
    /\ PinsInit({LedPin}) /\ ToneInit /\ LedInit /\ ExternalInit /\ SpiInit

-----------------------------------------------------------------------------
WiringCalls ==
    /\ \/ /\ "digital" \in use
          /\ \E p \in ProgramPins :
                 \/ \E mode \in {"INPUT", "INPUT_PULLUP", "OUTPUT"} : CallPinMode(p, mode)
                 \/ \E high \in BOOLEAN : CallDigitalWrite(p, high)
                 \/ CallDigitalRead(p)
       \/ "digital" \in use /\ \E p \in HandlerPins : CallPinMode(p, "OUTPUT")
       \/ "pwm" \in use /\ \E p \in ProgramPins, val \in Duties : CallAnalogWrite(p, val)
       \/ "analog" \in use /\ \E p \in AnalogPins : CallAnalogRead(p)
       \/ "analog" \in use /\ \E mode \in {0, 1, 3} : analogReference(mode)
    /\ UNCHANGED <<toneVars, ledVars, externalVars, spiVars>>

ToneCalls ==
    /\ "tone" \in use
    /\ \E p \in TonePins :
           \/ \E asTone \in Tones : CallTone(p, asTone)
           \/ CallNoTone(p)
    /\ UNCHANGED <<ledVars, externalVars, spiVars>>

Led ==
    /\ "led" \in use
    /\ LedCalls \/ update
    /\ UNCHANGED <<toneVars, externalVars, spiVars>>

ExternalCalls ==
    /\ "external" \in use /\ ~open
    /\ \E n \in Lines :
           \/ \E f \in UserFuncs : CallAttachInterrupt(n, f)
           \/ CallDetachInterrupt(n)
    /\ UNCHANGED <<toneVars, ledVars, spiVars>>

Spi == "spi" \in use /\ SpiCalls /\ UNCHANGED <<toneVars, ledVars>>

Step ==
    \/ PinsStep /\ UNCHANGED <<toneVars, ledVars, externalVars, spiVars>>
    \/ ToneStep /\ UNCHANGED <<ledVars, externalVars, spiVars>>
    \/ ExternalStep /\ UNCHANGED <<toneVars, ledVars, spiVars>>
    \/ SpiStep /\ UNCHANGED <<toneVars, ledVars>>

\* The program is never done: it makes the next call, or a step of the last.
Program ==
    /\ WiringCalls \/ ToneCalls \/ Led \/ ExternalCalls \/ Spi \/ Step
    /\ UNCHANGED use

Clock ==
    /\ "led" \in use
    /\ Millisecond
    /\ UNCHANGED <<toneVars, externalVars, spiVars, use>>

Handlers ==
    /\ \/ "comms" \in use /\ HandlerWrites /\ UNCHANGED <<toneVars, ledVars, externalVars, spiVars>>
       \/ ToneInterrupt /\ UNCHANGED <<ledVars, externalVars, spiVars>>
       \/ "edges" \in use /\ (Edge \/ ExternalInterrupt) /\ UNCHANGED <<toneVars, ledVars, spiVars>>
    /\ UNCHANGED use

Next == Program \/ Clock \/ Handlers

Spec == Init /\ [][Next]_vars
FairSpec == Spec /\ WF_vars(Program) /\ WF_vars(Clock)

-----------------------------------------------------------------------------
(* Whatever the handlers do between the steps of a call, every pin that is    *)
(* not in the call is connected and driven as it was last asked for, and a    *)
(* call that reads answers for the pin and the reference it was asked about   *)
(* (pinMode, digitalWrite, analogWrite, digitalRead, analogRead).  A pin that *)
(* sounds is left to the tone and may read as either level, and a call that   *)
(* the end of a tone overtakes is not covered.                                *)
PinsAreDriven ==
    ~overtaken =>
        /\ \A p \in Pins \ (InCall \cup {tone_pins}) : Driven(p)
        /\ Len(answer) = 1 /\ asked[pin].out /\ "tone" \notin use => answer[1] = asked[pin].high
        /\ Len(answer) = 2 => answer = <<analogChannel(pin), analog_reference>>

(* While a tone sounds its timer runs with the top and the divisor of its     *)
(* frequency and toggles its pin; when it has ended, by itself or by noTone,  *)
(* the timer is handed back as init() has set it and nothing toggles a pin    *)
(* (tone, noTone, disableTimer and the interrupt).  It fails after a tone has *)
(* ended amid a call that goes on to use its timer.                           *)
ToneIsAsAsked ==
    Idle /\ ~overtaken =>
        LET wgm == reg["TCCR2A"] \cap Wgm2 IN
        IF tone_pins = NoPin
        THEN ~OCIE2A /\ wgm = {WGM20} /\ prescaler2 = 64
        ELSE /\ OCIE2A /\ wgm = {WGM21} /\ timer2_pin = tone_pins
             /\ prescaler2 = Prescaler(sounding.frequency)
             /\ ocr[OCR2A] = Top(sounding.frequency, prescaler2) % 256

(* stopAfter(n) lets the LED flash n times, then leaves it dark and stops: an *)
(* LED that off() has darkened while it was on flashes once less              *)
(* (Flasher::stopAfter, update, off).                                         *)
FlashesAsAsked ==
    /\ [](Idle /\ ~flashConst /\ nFlash = 0 /\ owed > 0 => shown = owed /\ ~Lit)
    /\ []<>(flashConst \/ nFlash = 0)
=============================================================================
