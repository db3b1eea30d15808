-------------------------------- MODULE Pins --------------------------------
(* wiring_digital.c, wiring_analog.c and the tables of pins_arduino.h: the    *)
(* pins and the registers behind them.  A call of the program is a script of  *)
(* register accesses, one a step; an interrupt handler runs whole, between    *)
(* two steps, while interrupts are enabled.                                   *)
EXTENDS Integers, Sequences, FiniteSets

CONSTANTS
    Pins,           \* the pins of the instance, by number
    HandlerPins,    \* those that an interrupt handler writes to, the program never
    AnalogPins,     \* arguments of analogRead
    Duties          \* arguments of analogWrite

NUM_DIGITAL_PINS == 20

-----------------------------------------------------------------------------
(* The tables *)

digital_pin_to_port(p) == IF p < 8 THEN "D" ELSE IF p < 14 THEN "B" ELSE "C"

port_to_mode   == [B |-> "DDRB",  C |-> "DDRC",  D |-> "DDRD"]
port_to_output == [B |-> "PORTB", C |-> "PORTC", D |-> "PORTD"]

\* The register that connects a pin to its timer, for the pins that have one.
digital_pin_to_timer ==
    [p \in {3, 5, 6, 9, 10, 11} |->
        CASE p \in {5, 6} -> "TCCR0A" [] p \in {9, 10} -> "TCCR1A" [] p \in {3, 11} -> "TCCR2A"]

Mode(p)    == port_to_mode[digital_pin_to_port(p)]
Output(p)  == port_to_output[digital_pin_to_port(p)]
OnTimer(p) == p \in DOMAIN digital_pin_to_timer
Timer(p)   == digital_pin_to_timer[p]

ASSUME PinsAssumption ==
    /\ Pins \subseteq 0 .. NUM_DIGITAL_PINS - 1 /\ HandlerPins \subseteq Pins
    /\ AnalogPins \subseteq 0 .. NUM_DIGITAL_PINS - 1 /\ Duties \subseteq 0 .. 255
    \* A handler's pins are not on a timer: the connections are not protected.
    /\ \A p \in HandlerPins : ~OnTimer(p)

\* A register is the set of its bits that are on: bits of pins, and the mode
\* bits of timer 2, numbered after the pins.
WGM20 == NUM_DIGITAL_PINS
WGM21 == NUM_DIGITAL_PINS + 1

Registers == {port_to_mode[c] : c \in DOMAIN port_to_mode}
                \cup {port_to_output[c] : c \in DOMAIN port_to_output}
                \cup {"TCCR0A", "TCCR1A", "TCCR2A"}

VARIABLES
    reg,                \* the registers
    ocr,                \* the duty or top of the output compare registers, by pin
    interrupts,         \* SREG_I
    sreg,               \* SREG_I as a protected section has found it
    analog_reference,
    script,             \* the accesses that are left of the program's call
    copy,               \* the register value that the program has loaded
    pin,                \* the argument of the call
    adc,                \* ADMUX: channel and reference
    answer,             \* what the last call has returned, <<>> for nothing
    asked               \* what each pin was last asked for (history)

hardware == <<reg, ocr, interrupts, sreg, adc>>
program  == <<script, copy, pin, answer, analog_reference>>
pinVars  == <<hardware, program, asked>>

\* As init() leaves the timers, connected to no pin and timer 2 in
\* phase-correct PWM, with some pins made outputs by the constructors.
RegistersInitial(outputs) ==
    [r \in Registers |->
        IF r = "TCCR2A" THEN {WGM20} ELSE {p \in outputs : r = Mode(p)}]

PinsInit(outputs) ==
    /\ reg = RegistersInitial(outputs)
    /\ ocr = [p \in DOMAIN digital_pin_to_timer |-> 0]
    /\ interrupts = TRUE /\ sreg = TRUE /\ analog_reference = 1
    /\ script = <<>> /\ copy = {} /\ pin = 0 /\ answer = <<>>
    /\ adc = [channel |-> 0, reference |-> 0]
    /\ asked = [p \in Pins |-> [out |-> p \in outputs, high |-> FALSE, duty |-> 0]]

-----------------------------------------------------------------------------
(* Accesses, and the scripts of the calls *)

Access(op, r, bits, arg) == [op |-> op, reg |-> r, bits |-> bits, arg |-> arg]
Other(op, arg) == Access(op, "none", {}, arg)

ReadModifyWrite(op, r, bits) == <<Access("load", r, {}, 0), Access(op, r, bits, 0)>>
Protected(accesses) == <<Other("cli", 0)>> \o accesses \o <<Other("sei", 0)>>

pinMode(p, mode) == Protected(
    CASE mode = "OUTPUT" -> ReadModifyWrite("set", Mode(p), {p})
      [] mode = "INPUT" -> ReadModifyWrite("clear", Mode(p), {p})
                               \o ReadModifyWrite("clear", Output(p), {p})
      [] mode = "INPUT_PULLUP" -> ReadModifyWrite("clear", Mode(p), {p})
                                      \o ReadModifyWrite("set", Output(p), {p}))

turnOffPWM(p) == IF OnTimer(p) THEN ReadModifyWrite("clear", Timer(p), {p}) ELSE <<>>

Mut_InterruptsLeftOn(p, high) ==
    turnOffPWM(p) \o ReadModifyWrite(IF high THEN "set" ELSE "clear", Output(p), {p})

digitalWrite(p, high) ==
    turnOffPWM(p) \o Protected(ReadModifyWrite(IF high THEN "set" ELSE "clear", Output(p), {p}))

digitalRead(p) == turnOffPWM(p) \o <<Other("read", p)>>

\* A pin without a timer, and the two ends of the range, are written digitally.
analogWrite(p, val) == pinMode(p, "OUTPUT") \o
    IF OnTimer(p) /\ val \notin {0, 255}
    THEN ReadModifyWrite("set", Timer(p), {p}) \o <<Other("duty", val)>>
    ELSE digitalWrite(p, val >= 128)

analogChannel(p) == (IF p >= 14 THEN p - 14 ELSE p) % 8

analogRead(p) == <<Other("admux", analogChannel(p)), Other("convert", p)>>

\* digitalWrite called by a handler, where nothing comes between its accesses.
Written(registers, p, high) ==
    [r \in Registers |->
        CASE r = Output(p) -> IF high THEN registers[r] \cup {p} ELSE registers[r] \ {p}
          [] OnTimer(p) /\ r = Timer(p) -> registers[r] \ {p}
          [] OTHER -> registers[r]]

-----------------------------------------------------------------------------
(* The calls of the program *)

Idle == script = <<>>

Calls(p, accesses) ==
    /\ Idle
    /\ script' = accesses /\ pin' = p /\ answer' = <<>>
    /\ UNCHANGED <<hardware, copy, analog_reference>>

Asks(p, out, high, duty) == asked' = [asked EXCEPT ![p] = [out |-> out, high |-> high, duty |-> duty]]

CallPinMode(p, mode) ==
    /\ p \in HandlerPins => mode = "OUTPUT"
    /\ Calls(p, pinMode(p, mode))
    /\ Asks(p, mode = "OUTPUT",
            CASE mode = "OUTPUT" -> asked[p].high [] mode = "INPUT" -> FALSE [] OTHER -> TRUE,
            asked[p].duty)

CallDigitalWrite(p, high) ==
    /\ Calls(p, digitalWrite(p, high))
    /\ Asks(p, asked[p].out, high, 0)

CallDigitalRead(p) ==
    /\ Calls(p, digitalRead(p))
    /\ Asks(p, asked[p].out, asked[p].high, 0)

CallAnalogWrite(p, val) ==
    /\ Calls(p, analogWrite(p, val))
    /\ IF OnTimer(p) /\ val \in 1 .. 254
       THEN Asks(p, TRUE, asked[p].high, val)
       ELSE Asks(p, TRUE, val >= 128, 0)

CallAnalogRead(p) == Calls(p, analogRead(p)) /\ UNCHANGED asked

analogReference(mode) ==
    /\ Idle
    /\ analog_reference' = mode /\ answer' = <<>>
    /\ UNCHANGED <<hardware, script, copy, pin, asked>>

-----------------------------------------------------------------------------
(* The steps of the program's call *)

Does(op) == ~Idle /\ Head(script).op = op /\ script' = Tail(script)

DisableInterrupts ==
    /\ Does("cli") /\ interrupts' = FALSE /\ sreg' = interrupts
    /\ UNCHANGED <<reg, ocr, adc, copy, pin, answer, analog_reference, asked>>

RestoreInterrupts ==
    /\ Does("sei") /\ interrupts' = sreg
    /\ UNCHANGED <<reg, ocr, sreg, adc, copy, pin, answer, analog_reference, asked>>

LoadRegister ==
    /\ Does("load") /\ copy' = reg[Head(script).reg]
    /\ UNCHANGED <<hardware, pin, answer, analog_reference, asked>>

\* The store writes every bit of the register, as the load has found it.
StoreRegister ==
    /\ \/ Does("set")   /\ reg' = [reg EXCEPT ![Head(script).reg] = copy \cup Head(script).bits]
       \/ Does("clear") /\ reg' = [reg EXCEPT ![Head(script).reg] = copy \ Head(script).bits]
    /\ copy' = {}
    /\ UNCHANGED <<ocr, interrupts, sreg, adc, pin, answer, analog_reference, asked>>

SetDuty ==
    /\ Does("duty") /\ ocr' = [ocr EXCEPT ![pin] = Head(script).arg]
    /\ UNCHANGED <<reg, interrupts, sreg, adc, copy, pin, answer, analog_reference, asked>>

\* An output reads as it is driven, an input as the board drives it.
ReadPin ==
    /\ Does("read")
    /\ answer' \in IF pin \in reg[Mode(pin)] THEN {<<pin \in reg[Output(pin)]>>}
                                             ELSE {<<TRUE>>, <<FALSE>>}
    /\ UNCHANGED <<hardware, copy, pin, analog_reference, asked>>

SelectChannel ==
    /\ Does("admux")
    /\ adc' = [channel |-> Head(script).arg, reference |-> analog_reference]
    /\ UNCHANGED <<reg, ocr, interrupts, sreg, copy, pin, answer, analog_reference, asked>>

Convert ==
    /\ Does("convert")
    /\ answer' = <<adc.channel, adc.reference>>
    /\ UNCHANGED <<hardware, copy, pin, analog_reference, asked>>

PinsStep ==
    \/ DisableInterrupts \/ RestoreInterrupts
    \/ LoadRegister \/ StoreRegister \/ SetDuty
    \/ ReadPin \/ SelectChannel \/ Convert

-----------------------------------------------------------------------------
(* A handler: Controller.cpp lights the comms LED from the handlers of Wire. *)
HandlerWrites ==
    /\ interrupts
    /\ \E p \in HandlerPins, high \in BOOLEAN :
           /\ reg' = Written(reg, p, high)
           /\ asked' = [asked EXCEPT ![p].high = high]
    /\ UNCHANGED <<ocr, interrupts, sreg, adc, program>>

-----------------------------------------------------------------------------
\* p is connected and driven as it was last asked for, level or duty.
Driven(p) ==
    /\ p \in reg[Mode(p)] <=> asked[p].out
    /\ p \in reg[Output(p)] <=> asked[p].high
    /\ OnTimer(p) => /\ p \in reg[Timer(p)] <=> asked[p].duty # 0
                     /\ asked[p].duty # 0 => ocr[p] = asked[p].duty

InCall == IF Idle THEN {} ELSE {pin}
=============================================================================
