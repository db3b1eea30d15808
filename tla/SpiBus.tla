------------------------------- MODULE SpiBus -------------------------------
(* SpiCommon.cpp and the part of the SPI library it uses: the bus that the    *)
(* converters and the temperature sensor share.  A driver makes a script of   *)
(* transactions; the bus opens each, transfers its bytes and closes it.       *)
EXTENDS Integers, Sequences

CONSTANTS
    F_CPU,              \* the processor's clock
    SPI_CLOCK_SPEED     \* the clock that each chip asks for

Chips == {"adc", "dac", "temp"}
Byte  == 0 .. 255

ASSUME SpiAssumption ==
    /\ F_CPU \in Nat \ {0}
    /\ SPI_CLOCK_SPEED \in [Chips -> Nat \ {0}]

VARIABLES
    initialized,    \* SPI.begin() was called
    spcr,           \* the settings in effect
    cs,             \* the chip select pins: "input", "high" or "low"
    script,         \* the transactions to do, the first of them in progress
    sent,           \* bytes transferred in it
    inbox           \* bytes that transactions marked as reads have returned

bus == <<initialized, spcr, cs, script, sent, inbox>>

-----------------------------------------------------------------------------
(* Transactions *)

Write(chip, byte) == [chip |-> chip, out |-> <<byte>>, reads |-> FALSE]
Send(chip, word)  == [chip |-> chip, out |-> <<word \div 256, word % 256>>, reads |-> FALSE]
ReadByte(chip)    == [chip |-> chip, out |-> <<0>>, reads |-> TRUE]
Read16Bit(chip)   == [chip |-> chip, out |-> <<0, 0>>, reads |-> TRUE]

Word(bytes) == bytes[1] * 256 + bytes[2]

(* SPISettings: the fastest of the clock's dividers that is not faster than   *)
(* what the chip asks for, or the slowest.                                    *)
Dividers == {2, 4, 8, 16, 32, 64, 128}

Divider(speed) ==
    LET slowEnough == {d \in Dividers : speed >= F_CPU \div d} IN
        IF slowEnough = {} THEN 128
        ELSE CHOOSE d \in slowEnough : \A e \in slowEnough : d <= e

Settings(chip) ==
    [divider |-> Divider(SPI_CLOCK_SPEED[chip]),
     mode    |-> IF chip = "adc" THEN 3 ELSE 0]

Selected == {chip \in Chips : cs[chip] = "low"}

-----------------------------------------------------------------------------
BusInit ==
    /\ initialized = FALSE
    /\ spcr = [divider |-> 4, mode |-> 0]
    /\ cs = [chip \in Chips |-> "input"]
    /\ script = <<>> /\ sent = 0 /\ inbox = <<>>

(* SPI.begin: pin SS becomes an output that is high, if it is not yet one.    *)
(* It is the pin that selects the ADC.                                        *)
SpiBegin ==
    /\ initialized' = TRUE
    /\ cs' = IF cs["adc"] = "input" THEN [cs EXCEPT !["adc"] = "high"] ELSE cs
    /\ UNCHANGED <<spcr, script, sent, inbox>>

InitChipSelectPin(chip) == cs' = [cs EXCEPT ![chip] = "high"]

\* A driver starts its transactions.
Start(transactions) ==
    /\ script' = transactions /\ sent' = 0 /\ inbox' = <<>>
    /\ UNCHANGED <<initialized, spcr>>

Quiet == script = <<>>

OpenSpiConnection ==
    /\ ~Quiet
    /\ Head(script).chip \notin Selected
    /\ spcr' = Settings(Head(script).chip)
    /\ cs' = [cs EXCEPT ![Head(script).chip] = "low"]
    /\ UNCHANGED <<initialized, script, sent, inbox>>

\* The bus's part of a transfer in which the chip answers with a byte.
SpiTransferByte(answer) ==
    /\ ~Quiet
    /\ Head(script).chip \in Selected
    /\ sent < Len(Head(script).out)
    /\ sent' = sent + 1
    /\ inbox' = IF Head(script).reads THEN Append(inbox, answer) ELSE inbox
    /\ UNCHANGED <<initialized, spcr, cs, script>>

CloseSpiConnection ==
    /\ ~Quiet
    /\ Head(script).chip \in Selected
    /\ sent = Len(Head(script).out)
    /\ cs' = [cs EXCEPT ![Head(script).chip] = "high"]
    /\ script' = Tail(script) /\ sent' = 0
    /\ UNCHANGED <<initialized, spcr, inbox>>
=============================================================================
