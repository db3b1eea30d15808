-------------------------------- MODULE Tone --------------------------------
(* Tone.cpp for the one timer it is built with, timer 2: an interrupt toggles *)
(* the pin at every compare match, counts the toggles of a tone that has a    *)
(* duration, and ends it by itself.                                           *)
EXTENDS Pins

CONSTANTS
    F_CPU,          \* cycles a second
    TonePins,       \* arguments of tone and noTone
    Tones           \* the other two: frequency in Hz and duration in ms

ASSUME ToneAssumption ==
    /\ F_CPU \in Nat \ {0}
    /\ TonePins \subseteq Pins \ HandlerPins

ASSUME TonesAssumption == Tones \subseteq [frequency : 1 .. 65535, duration : Nat]

VARIABLES
    tone_pins,              \* tone_pins[0]: the pin that sounds, or NoPin
    timer2_pin,             \* timer2_pin_port and _mask
    timer2_toggle_count,    \* toggles to go, negative for no end
    OCIE2A,                 \* the compare interrupt is enabled
    prescaler2,             \* of TCCR2B, 0 for stopped
    sounding,               \* what tone() was last asked for (history)
    overtaken               \* a tone has ended amid a call that uses its timer (history)

toneVars == <<tone_pins, timer2_pin, timer2_toggle_count, OCIE2A, prescaler2, sounding, overtaken>>

NoPin == 255
OCR2A == 11                 \* the pin whose output compare register is timer 2's top
Wgm2  == {WGM20, WGM21}
Timer2Pins == {p \in Pins : OnTimer(p) /\ Timer(p) = "TCCR2A"}

ToneInit ==
    /\ tone_pins = NoPin /\ timer2_pin = NoPin /\ timer2_toggle_count = 0
    /\ OCIE2A = FALSE /\ prescaler2 = 64
    /\ sounding = [frequency |-> 1, duration |-> 0] /\ overtaken = FALSE

-----------------------------------------------------------------------------
(* The frequency *)

Divisors == {1, 8, 32, 64, 128, 256, 1024}
Top(frequency, divisor) == F_CPU \div (2 * frequency * divisor) - 1

\* The smallest divisor whose top fits in 8 bits, or else the largest.
Prescaler(frequency) ==
    LET fits == {d \in Divisors : Top(frequency, d) <= 255} \cup {1024}
    IN  CHOOSE d \in fits : \A e \in fits : d <= e

ToggleCount(t) ==
    IF t.duration > 0 THEN (((2 * t.frequency) % 65536) * t.duration) \div 1000 ELSE -1

-----------------------------------------------------------------------------
(* The scripts *)

Setup == <<Access("write", "TCCR2A", {}, 0), Other("prescale", 0)>>
         \o ReadModifyWrite("set", "TCCR2A", {WGM21})
         \o <<Other("prescale", 1), Other("tone_pin", 0)>>

Start(p, t) == pinMode(p, "OUTPUT") \o
    <<Other("prescale", Prescaler(t.frequency)),
      Other("top", Top(t.frequency, Prescaler(t.frequency)) % 256),
      Other("count", ToggleCount(t)),
      Other("compare_interrupt", TRUE)>>

Mut_ModeKept == <<Other("compare_interrupt", FALSE), Other("prescale", 64), Other("top", 0)>>

disableTimer == <<Other("compare_interrupt", FALSE), Access("write", "TCCR2A", {WGM20}, 0),
                  Other("prescale", 64), Other("top", 0)>>

CallTone(p, t) ==
    /\ Calls(p, <<Other("begin", t)>>)
    /\ UNCHANGED <<asked, toneVars>>

CallNoTone(p) ==
    /\ Calls(p, <<Other("end", 0)>>)
    /\ UNCHANGED <<asked, toneVars>>

\* A pin that sounds already only gets the new tone; the one timer may be taken.
toneBegin ==
    /\ ~Idle /\ Head(script).op = "begin"
    /\ LET t == Head(script).arg IN
       /\ \/ /\ tone_pins = pin
             /\ script' = Start(pin, t)
             /\ asked' = [asked EXCEPT ![pin].out = TRUE]
             /\ sounding' = t /\ UNCHANGED tone_pins
          \/ /\ tone_pins = NoPin
             /\ script' = Setup \o Start(pin, t)
             /\ asked' = [asked EXCEPT ![pin].out = TRUE]
             /\ sounding' = t /\ tone_pins' = pin
          \/ /\ tone_pins \notin {pin, NoPin}
             /\ script' = Tail(script)
             /\ UNCHANGED <<asked, sounding, tone_pins>>
    /\ UNCHANGED <<hardware, copy, pin, answer, analog_reference,
                   timer2_pin, timer2_toggle_count, OCIE2A, prescaler2, overtaken>>

noTone ==
    /\ ~Idle /\ Head(script).op = "end"
    /\ IF tone_pins = pin
       THEN /\ tone_pins' = NoPin
            /\ script' = disableTimer \o digitalWrite(pin, FALSE)
       ELSE /\ script' = digitalWrite(pin, FALSE)
            /\ UNCHANGED tone_pins
    /\ Asks(pin, asked[pin].out, FALSE, 0)
    /\ UNCHANGED <<hardware, copy, pin, answer, analog_reference,
                   timer2_pin, timer2_toggle_count, OCIE2A, prescaler2, sounding, overtaken>>

-----------------------------------------------------------------------------
(* The steps of the two calls *)

\* The pins on timer 2 lose it to the tone, and are as they were written before.
LosePWM == [p \in Pins |-> IF p \in Timer2Pins THEN [asked[p] EXCEPT !.duty = 0] ELSE asked[p]]

WriteRegister ==
    /\ Does("write")
    /\ reg' = [reg EXCEPT ![Head(script).reg] = Head(script).bits]
    /\ asked' = LosePWM
    /\ UNCHANGED <<ocr, toneVars>>

SetTop ==
    /\ Does("top") /\ ocr' = [ocr EXCEPT ![OCR2A] = Head(script).arg]
    /\ UNCHANGED <<reg, asked, toneVars>>

SetTone ==
    /\ \/ /\ Does("prescale") /\ prescaler2' = Head(script).arg
          /\ UNCHANGED <<timer2_pin, timer2_toggle_count, OCIE2A>>
       \/ /\ Does("tone_pin") /\ timer2_pin' = pin
          /\ UNCHANGED <<prescaler2, timer2_toggle_count, OCIE2A>>
       \/ /\ Does("count") /\ timer2_toggle_count' = Head(script).arg
          /\ UNCHANGED <<prescaler2, timer2_pin, OCIE2A>>
       \/ /\ Does("compare_interrupt") /\ OCIE2A' = Head(script).arg
          /\ UNCHANGED <<prescaler2, timer2_pin, timer2_toggle_count>>
    /\ UNCHANGED <<reg, ocr, asked, tone_pins, sounding, overtaken>>

ToneStep ==
    \/ toneBegin \/ noTone
    \/ /\ WriteRegister \/ SetTop \/ SetTone
       /\ UNCHANGED <<interrupts, sreg, adc, copy, pin, answer, analog_reference>>

-----------------------------------------------------------------------------
(* The interrupt *)

Compare == interrupts /\ OCIE2A /\ prescaler2 # 0

Toggle ==
    /\ Compare /\ timer2_toggle_count # 0
    /\ reg' = [reg EXCEPT ![Output(timer2_pin)] =
                  IF timer2_pin \in @ THEN @ \ {timer2_pin} ELSE @ \cup {timer2_pin}]
    /\ timer2_toggle_count' = timer2_toggle_count - (IF timer2_toggle_count > 0 THEN 1 ELSE 0)
    /\ UNCHANGED <<ocr, interrupts, sreg, adc, program, asked,
                   tone_pins, timer2_pin, OCIE2A, prescaler2, sounding, overtaken>>

\* The program is in a call that goes on from what it has seen of timer 2, or of
\* the timer that the end of the tone disconnects its pin from.
TimerInUse ==
    /\ ~Idle /\ Head(script).op \notin {"begin", "end"}
    /\ \/ pin \in Timer2Pins \cup {tone_pins, timer2_pin}
       \/ OnTimer(pin) /\ OnTimer(tone_pins) /\ Timer(pin) = Timer(tone_pins)

TimerAfterEnd == [reg EXCEPT !["TCCR2A"] = {WGM20}]

\* noTone(tone_pins[0]), whole.  If the program has emptied tone_pins in the
\* meantime it is noTone(255), and what lies behind the tables says which bit
\* of which port is cleared, if any.
EndOfTone ==
    /\ Compare /\ timer2_toggle_count = 0
    /\ OCIE2A' = FALSE /\ prescaler2' = 64 /\ ocr' = [ocr EXCEPT ![OCR2A] = 0]
    /\ tone_pins' = NoPin
    /\ IF tone_pins # NoPin
       THEN /\ reg' = Written(TimerAfterEnd, tone_pins, FALSE)
            /\ asked' = [LosePWM EXCEPT ![tone_pins] = [out |-> @.out, high |-> FALSE, duty |-> 0]]
            /\ overtaken' = (overtaken \/ TimerInUse)
       ELSE /\ \/ reg' = TimerAfterEnd
               \/ \E p \in Pins : reg' = Written(TimerAfterEnd, p, FALSE)
            /\ asked' = LosePWM /\ overtaken' = TRUE
    /\ UNCHANGED <<interrupts, sreg, adc, program, timer2_pin, timer2_toggle_count, sounding>>

ToneInterrupt == Toggle \/ EndOfTone
=============================================================================
