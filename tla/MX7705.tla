------------------------------- MODULE MX7705 -------------------------------
(* MX7705.cpp, and the converter it drives.  The converter takes a request    *)
(* byte, which names a register and whether it is read or written, and then   *)
(* the register's bytes, whatever the driver takes them for.                  *)
EXTENDS SpiBus

CONSTANT TIMEOUT_POLLS     \* the polls that fit into TIMEOUT_MS

ASSUME MX7705Assumption == TIMEOUT_POLLS \in Nat \ {0}

Channels == {0, 1}
CommsReg == 0
SetupReg == 1
ClockReg == 2
DataReg  == 3
PGA_MASK == 7

VARIABLES
    MX7705_errorCondition,
    timeout,       \* a local of MX7705_ReadData
    pollCount,     \* polls since its start, for the time
    adc            \* the converter

driver == <<MX7705_errorCondition, timeout, pollCount>>

-----------------------------------------------------------------------------
(* Registers as bytes *)

RequestRegRead(reg, ch)  == reg * 16 + 8 + ch
RequestRegWrite(reg, ch) == reg * 16 + ch

\* Clock out disabled, no divider, filter 1, and the identity bit; self
\* calibration, gain 0, unipolar, unbuffered.
ClockSettings == 128 + 16 + 1
SetupSettings == 64 + 4

GainOf(setup) == (setup \div 8) % 8
WithGain(setup, gain) == setup - GainOf(setup) * 8 + gain * 8

DRDY(comms) == comms >= 128

-----------------------------------------------------------------------------
(* The converter.  It converts the channel of the last request; a request of  *)
(* another one discards what it has.  What it gives as data is the channel    *)
(* converted and whether it was given before.                                 *)

AdcInitial ==
    [reg |-> CommsReg, reads |-> FALSE, ch |-> 0, low |-> FALSE,
     setup |-> [ch \in Channels |-> 1], clock |-> [ch \in Channels |-> 5],
     converted |-> 0, ready |-> FALSE]

ResultByte(channel) == channel + 1

Sample(channel) == <<ResultByte(channel), 1>>

AdcAnswer(d) ==
    IF ~d.reads THEN 0
    ELSE CASE d.reg = CommsReg -> IF d.ready THEN 0 ELSE 128
           [] d.reg = SetupReg -> d.setup[d.ch]
           [] d.reg = ClockReg -> d.clock[d.ch]
           [] d.reg = DataReg  -> IF d.low THEN IF d.ready THEN 1 ELSE 0
                                  ELSE ResultByte(d.converted)
           [] OTHER -> 0

AwaitRequest(d) == [d EXCEPT !.reg = CommsReg, !.reads = FALSE, !.low = FALSE]

TakeRequest(d, byte) ==
    LET ch == byte % 2 IN
        [d EXCEPT !.reg = (byte \div 16) % 8, !.reads = (byte \div 8) % 2 = 1,
                  !.ch = ch, !.low = FALSE, !.ready = @ /\ ch = d.ch]

AdcShift(d, byte) ==
    CASE d.reads /\ d.reg = DataReg /\ ~d.low -> [d EXCEPT !.low = TRUE]
      [] d.reads /\ d.reg = DataReg /\ d.low  -> [AwaitRequest(d) EXCEPT !.ready = FALSE]
      [] d.reads /\ d.reg # DataReg -> AwaitRequest(d)
      [] ~d.reads /\ d.reg = CommsReg -> TakeRequest(d, byte)
      [] ~d.reads /\ d.reg = SetupReg -> [AwaitRequest(d) EXCEPT !.setup[d.ch] = byte]
      [] ~d.reads /\ d.reg = ClockReg -> [AwaitRequest(d) EXCEPT !.clock[d.ch] = byte]
      [] OTHER -> AwaitRequest(d)

\* The converter finishes a conversion of its channel.
Convert ==
    /\ ~adc.ready
    /\ adc' = [adc EXCEPT !.ready = TRUE, !.converted = adc.ch]

-----------------------------------------------------------------------------
(* The driver: the transactions of a call, and what it does with the answers *)

MX7705_Write(byte) == Write("adc", byte)
ReadRegister(reg, ch) == <<MX7705_Write(RequestRegRead(reg, ch)), ReadByte("adc")>>
WriteRegister(reg, ch, byte) == <<MX7705_Write(RequestRegWrite(reg, ch)), MX7705_Write(byte)>>

\* Mutant: the registers are not read back.
Mut_NotReadBack == TRUE

IsVerified == inbox = <<ClockSettings, SetupSettings>>

InitScript(ch) ==
    WriteRegister(ClockReg, ch, ClockSettings) \o WriteRegister(SetupReg, ch, SetupSettings)
        \o ReadRegister(ClockReg, ch) \o ReadRegister(SetupReg, ch)

MX7705_Init(ch) ==
    /\ InitChipSelectPin("adc")
    /\ MX7705_errorCondition' = FALSE
    /\ Start(InitScript(ch))
    /\ UNCHANGED <<timeout, pollCount>>

InitReturns ==
    /\ MX7705_errorCondition' = (MX7705_errorCondition \/ ~IsVerified)
    /\ UNCHANGED <<timeout, pollCount>>

IsCommsRegBusy(ch) == ReadRegister(CommsReg, ch)

\* The time is taken before each poll, which takes four delays of the chip
\* select: it is measured in polls.
Poll(count, ch) ==
    /\ pollCount' = count
    /\ timeout' = (count > TIMEOUT_POLLS)
    /\ Start(IsCommsRegBusy(ch)) /\ UNCHANGED cs
    /\ UNCHANGED MX7705_errorCondition

PollsAgain == DRDY(inbox[1]) /\ ~timeout

ReadTimesOut ==
    /\ ~PollsAgain /\ timeout
    /\ MX7705_errorCondition' = TRUE
    /\ timeout' = FALSE /\ pollCount' = 0

\* Mutant: the data is asked for with a fixed channel.
Mut_ChannelIgnored(ch) == <<MX7705_Write(RequestRegRead(DataReg, 0)), Read16Bit("adc")>>

DataScript(ch) == <<MX7705_Write(RequestRegRead(DataReg, ch)), Read16Bit("adc")>>

RequestData(ch) ==
    /\ ~PollsAgain /\ ~timeout
    /\ Start(DataScript(ch)) /\ UNCHANGED cs
    /\ pollCount' = 0
    /\ UNCHANGED <<MX7705_errorCondition, timeout>>

MX7705_GetGain(ch) ==
    /\ Start(ReadRegister(SetupReg, ch)) /\ UNCHANGED cs
    /\ UNCHANGED driver

WriteGain(gain, ch) ==
    /\ gain <= PGA_MASK
    /\ Start(WriteRegister(SetupReg, ch, WithGain(inbox[1], gain))) /\ UNCHANGED cs
    /\ UNCHANGED driver
=============================================================================
