----------------------------- MODULE IoWrapper ------------------------------
(* IoWrapper.cpp: the converters and the sensor together, on one bus, as the  *)
(* setup and the main loop use them.  A byte may be garbled on the bus, and   *)
(* the processor may restart between any two steps of a transaction, with the *)
(* chips left as they are.                                                    *)
EXTENDS MX7705, MCP4802, TC77

CONSTANTS
    Programs,       \* what a program calls, a set of Parts
    GainsSet,       \* gains that the program sets
    StepFrom,       \* gains that it increments and decrements
    MaxTroubles     \* bound on garbled bytes and restarts together

Parts == {"dac", "dac_gain", "adc", "gain", "temp"}

ASSUME IoAssumption ==
    /\ Programs \subseteq SUBSET Parts
    /\ GainsSet \subseteq 0 .. 8 /\ StepFrom \subseteq 0 .. 7 /\ MaxTroubles \in Nat

VARIABLES
    use,            \* the member of Programs that is run
    stage,          \* where setup is, "loop" after it
    call,           \* the call in progress
    dacOutput,      \* copy of the last output on each channel
    result,         \* of the last AdcReadData
    troubles,
    clean,          \* no byte was garbled since the last restart
    verified,       \* channels of the ADC whose initialisation found no error
    wanted          \* the gains that the program has set since then

vars == <<bus, driver, adc, gain, dac, shifted, errorCondition, previousReading,
          due, sensor, use, stage, call, dacOutput, result, troubles, clean, verified, wanted>>

mx7705  == <<driver, adc>>
mcp4802 == <<gain, dac, shifted>>
tc77    == <<errorCondition, previousReading, due, sensor>>
wrapper == <<use, stage, dacOutput, result>>
fault   == <<troubles, clean, verified, wanted>>

Idle == [op |-> "none", ch |-> 0, arg |-> 0]
Call(op, ch, arg) == call' = [op |-> op, ch |-> ch, arg |-> arg]
Returns == call' = Idle

Init ==
    /\ BusInit
    /\ MX7705_errorCondition = FALSE /\ timeout = FALSE /\ pollCount = 0
    /\ adc = AdcInitial
    /\ gain = highGain /\ dac = DacInitial /\ shifted = <<>>
    /\ errorCondition = FALSE /\ previousReading = 0 /\ due = FALSE
    /\ sensor = 0
    /\ use \in Programs /\ stage = "spi" /\ call = Idle
    /\ dacOutput = [ch \in DacChannels |-> 0] /\ result = <<0, 0>>
    /\ troubles = 0 /\ clean = TRUE /\ verified = {} /\ wanted = [ch \in Channels |-> 0]

-----------------------------------------------------------------------------
(* The bus with the chips on it *)

\* The sensor's word is the one it has when it is selected.
Open ==
    /\ OpenSpiConnection
    /\ sensor' \in IF cs'["temp"] = "low" THEN TempWords ELSE {sensor}
    /\ UNCHANGED <<mx7705, mcp4802, errorCondition, previousReading, due, wrapper, call, fault>>

Answer(chip) ==
    CASE chip = "adc"  -> AdcAnswer(adc)
      [] chip = "dac"  -> 255
      [] chip = "temp" -> IF sent = 0 THEN sensor \div 256 ELSE sensor % 256

\* A selected chip understands what is clocked with its settings.
Takes(chip) == chip \in Selected /\ initialized /\ spcr = Settings(chip)

\* Every chip that is selected takes the byte, and one of them answers.
Exchange(byte, answer) ==
    /\ SpiTransferByte(answer)
    /\ adc' = IF Takes("adc") THEN AdcShift(adc, byte) ELSE adc
    /\ shifted' = IF Takes("dac") THEN Append(shifted, byte) ELSE shifted
    /\ UNCHANGED <<driver, gain, dac, tc77, wrapper, call, verified, wanted>>

Transfer ==
    /\ ~Quiet /\ sent < Len(Head(script).out)
    /\ \E chip \in Selected : Exchange(Head(script).out[sent + 1], Answer(chip))
    /\ UNCHANGED <<troubles, clean>>

\* The chip or the processor takes a byte for one without edges.
Garble ==
    /\ troubles < MaxTroubles
    /\ ~Quiet /\ sent < Len(Head(script).out)
    /\ \E chip \in Selected, garbled \in {0, 255} :
          \/ Exchange(garbled, Answer(chip))
          \/ Exchange(Head(script).out[sent + 1], garbled)
    /\ troubles' = troubles + 1 /\ clean' = FALSE

Close ==
    /\ CloseSpiConnection
    /\ dac' = IF cs'["dac"] = "high" THEN Latch(dac, shifted) ELSE dac
    /\ shifted' = IF cs'["dac"] = "high" THEN <<>> ELSE shifted
    /\ sensor' = IF cs'["temp"] = "high" THEN 0 ELSE sensor
    /\ UNCHANGED <<mx7705, gain, errorCondition, previousReading, due, wrapper, call, fault>>

Bus == Open \/ Transfer \/ Close

-----------------------------------------------------------------------------
(* setup(): SPI.begin, DacInit, AdcInit for both channels, TempSenseInit *)

Ready(place) == stage = place /\ call = Idle

Uses(part) == Ready("loop") /\ part \in use

SetupSpi ==
    /\ Ready("spi")
    /\ SpiBegin
    /\ stage' = "dac"
    /\ UNCHANGED <<mx7705, mcp4802, tc77, use, call, dacOutput, result, fault>>

DacInit ==
    /\ Ready("dac")
    /\ MCP4802_Init
    /\ stage' = "adc" /\ Call("dac", 0, 0)
    /\ UNCHANGED <<mx7705, dac, shifted, tc77, use, dacOutput, result, fault>>

InitAdc(ch) ==
    /\ MX7705_Init(ch)
    /\ Call("init", ch, 0)
    /\ UNCHANGED <<adc, mcp4802, tc77, wrapper, fault>>

AdcInit == Ready("adc") /\ InitAdc(0)

AdcInitReturns ==
    /\ call.op = "init" /\ Quiet
    /\ InitReturns
    /\ Call(IF call.ch = 0 THEN "next" ELSE "none", 0, 0)
    /\ stage' = IF call.ch = 0 THEN stage ELSE "temp"
    /\ verified' = IF MX7705_errorCondition' THEN verified ELSE verified \cup {call.ch}
    /\ UNCHANGED <<bus, adc, mcp4802, tc77, use, dacOutput, result, troubles, clean, wanted>>

AdcInitNext == call.op = "next" /\ InitAdc(1)

TempSenseInit ==
    /\ Ready("temp")
    /\ TC77_Init
    /\ stage' = "loop"
    /\ UNCHANGED <<initialized, spcr, script, sent, inbox, mx7705, mcp4802, sensor,
                   use, call, dacOutput, result, fault>>

-----------------------------------------------------------------------------
(* Calls of the main loop *)

KeepCopy(output, ch) == dacOutput' = [dacOutput EXCEPT ![ch] = output]

DacSetOutput(output, ch) ==
    /\ Uses("dac")
    /\ Start(MCP4802_Output(output, ch)) /\ UNCHANGED cs
    /\ Call("output", ch, output)
    /\ UNCHANGED <<mx7705, mcp4802, tc77, wrapper, fault>>

DacCallReturns ==
    /\ call.op \in {"dac", "output"} /\ Quiet
    /\ IF call.op = "output" THEN KeepCopy(call.arg, call.ch) ELSE UNCHANGED dacOutput
    /\ Returns
    /\ UNCHANGED <<bus, mx7705, mcp4802, tc77, use, stage, result, fault>>

DacSetGain(requestedGain) ==
    /\ Uses("dac_gain")
    /\ MCP4802_SetGain(requestedGain)
    /\ UNCHANGED <<bus, mx7705, dac, shifted, tc77, wrapper, call, fault>>

AdcReadData(ch) ==
    /\ Uses("adc")
    /\ Poll(0, ch)
    /\ Call("poll", ch, 0)
    /\ UNCHANGED <<adc, mcp4802, tc77, wrapper, fault>>

AdcPolled ==
    /\ call.op = "poll" /\ Quiet
    /\ \/ /\ PollsAgain
          /\ Poll(pollCount + 1, call.ch)
          /\ UNCHANGED <<call, result>>
       \/ /\ ReadTimesOut
          /\ result' = <<0, 0>> /\ Returns
          /\ UNCHANGED bus
       \/ /\ RequestData(call.ch)
          /\ Call("data", call.ch, 0)
          /\ UNCHANGED result
    /\ UNCHANGED <<adc, mcp4802, tc77, use, stage, dacOutput, fault>>

AdcDataRead ==
    /\ call.op = "data" /\ Quiet
    /\ result' = inbox
    /\ Returns
    /\ UNCHANGED <<bus, mx7705, mcp4802, tc77, use, stage, dacOutput, fault>>

\* Of the channels, the wrapper sets the gain of 0 only.
AdcSetGain(newGain, ch) ==
    /\ Uses("gain")
    /\ ch = 0 /\ newGain <= PGA_MASK
    /\ MX7705_GetGain(0)
    /\ Call("gain", 0, newGain)
    /\ wanted' = [wanted EXCEPT ![0] = newGain]
    /\ UNCHANGED <<adc, mcp4802, tc77, wrapper, troubles, clean, verified>>

AdcGainRead ==
    /\ call.op = "gain" /\ Quiet
    /\ WriteGain(call.arg, call.ch)
    /\ Call("gain_set", call.ch, 0)
    /\ UNCHANGED <<adc, mcp4802, tc77, wrapper, fault>>

\* MX7705_IncrementGain and MX7705_DecrementGain, of the driver only: the step
\* is 1 or, in a byte, 255.
StepGain(ch, step) ==
    /\ Uses("gain") /\ wanted[ch] \in StepFrom
    /\ MX7705_GetGain(ch)
    /\ Call("step", ch, step)
    /\ LET next == wanted[ch] + IF step = 1 THEN 1 ELSE -1 IN
          wanted' = [wanted EXCEPT ![ch] = IF next \in 0 .. PGA_MASK THEN next ELSE @]
    /\ UNCHANGED <<adc, mcp4802, tc77, wrapper, troubles, clean, verified>>

GainStepRead ==
    /\ call.op = "step" /\ Quiet
    /\ LET next == (GainOf(inbox[1]) + call.arg) % 256 IN
          IF next <= PGA_MASK
          THEN MX7705_GetGain(call.ch) /\ Call("gain", call.ch, next)
          ELSE Returns /\ UNCHANGED <<bus, driver>>
    /\ UNCHANGED <<adc, mcp4802, tc77, wrapper, fault>>

AdcGainSet ==
    /\ call.op = "gain_set" /\ Quiet
    /\ Returns
    /\ UNCHANGED <<bus, mx7705, mcp4802, tc77, wrapper, fault>>

TempSenseUpdate ==
    /\ Uses("temp")
    /\ due
    /\ Start(TC77_ReadRawData) /\ UNCHANGED cs
    /\ Call("temp", 0, 0)
    /\ UNCHANGED <<mx7705, mcp4802, tc77, wrapper, fault>>

TempSenseRead ==
    /\ call.op = "temp" /\ Quiet
    /\ TC77_Store(Word(inbox))
    /\ Returns
    /\ UNCHANGED <<bus, mx7705, mcp4802, sensor, wrapper, fault>>
-----------------------------------------------------------------------------
(* The environment *)

AdcConverts ==
    /\ Convert
    /\ UNCHANGED <<bus, driver, mcp4802, tc77, wrapper, call, fault>>

\* CONVERSION_TIME has passed.
TimePasses ==
    /\ ~due /\ stage = "loop" /\ "temp" \in use
    /\ due' = TRUE
    /\ UNCHANGED <<bus, mx7705, mcp4802, errorCondition, previousReading, sensor, wrapper, call,
                   fault>>

\* The processor starts from Init again: its pins are inputs, that do not select
\* a chip, and the DAC drops what was shifted into it.
Restart ==
    /\ troubles < MaxTroubles /\ stage # "spi"
    /\ initialized' = FALSE /\ spcr' = [divider |-> 4, mode |-> 0]
    /\ cs' = [chip \in Chips |-> "input"]
    /\ script' = <<>> /\ sent' = 0 /\ inbox' = <<>>
    /\ MX7705_errorCondition' = FALSE /\ timeout' = FALSE /\ pollCount' = 0
    /\ gain' = highGain /\ shifted' = <<>>
    /\ errorCondition' = FALSE /\ previousReading' = 0 /\ due' = FALSE /\ sensor' = 0
    /\ stage' = "spi" /\ call' = Idle
    /\ dacOutput' = [ch \in DacChannels |-> 0] /\ result' = <<0, 0>>
    /\ troubles' = troubles + 1 /\ clean' = TRUE /\ verified' = {} /\ wanted' = [ch \in Channels |-> 0]
    /\ UNCHANGED <<adc, dac, use>>

Program ==
    \/ SetupSpi \/ DacInit \/ AdcInit \/ AdcInitNext \/ TempSenseInit
    \/ \E output \in Levels, ch \in DacChannels : DacSetOutput(output, ch)
    \/ \E g \in Gains : DacSetGain(g)
    \/ \E ch \in Channels : AdcReadData(ch)
    \/ \E g \in GainsSet, ch \in Channels : AdcSetGain(g, ch)
    \/ \E ch \in Channels, step \in {1, 255} : StepGain(ch, step)
    \/ TempSenseUpdate

Continue ==
    \/ AdcInitReturns \/ DacCallReturns \/ AdcPolled \/ AdcDataRead
    \/ AdcGainRead \/ AdcGainSet \/ GainStepRead \/ TempSenseRead

Next == Bus \/ Garble \/ Program \/ Continue \/ AdcConverts \/ TimePasses \/ Restart

Spec == Init /\ [][Next]_vars

\* A call goes on; nothing is assumed of the chips.
FairSpec == Spec /\ WF_vars(Bus) /\ WF_vars(Continue) /\ WF_vars(AdcInitNext)

-----------------------------------------------------------------------------
(* What the wrapper promises *)

ToLoop == stage = "loop" /\ call = Idle

\* A channel of the ADC whose initialisation finds no error has its settings,
\* with a byte garbled and with the converter left amid a transfer by a
\* restart; and a clean bus keeps it as the program sets it from then on.
AdcIsAsSet ==
    [][/\ (call.op = "init" /\ call'.op # "init" /\ stage' # "spi" /\ ~MX7705_errorCondition') =>
             adc.clock[call.ch] = ClockSettings /\ adc.setup[call.ch] = SetupSettings
       /\ (ToLoop /\ clean) =>
             \A ch \in verified : adc.clock[ch] = ClockSettings
                                 /\ adc.setup[ch] = WithGain(SetupSettings, wanted[ch])]_vars

\* AdcReadData returns, whatever the converter does; and on a clean bus with a
\* conversion of the channel that was asked for, made since the last was read,
\* or with 0 and an error.
ReadIsAnswered ==
    /\ [][(clean /\ call.op \in {"poll", "data"} /\ call' = Idle /\ stage' = "loop") =>
             \/ result' = Sample(call.ch)
             \/ result' = <<0, 0>> /\ MX7705_errorCondition']_vars
    /\ (call.op = "poll") ~> (call = Idle)

\* The DAC gives what the copies say, on both channels and from the start of
\* the loop on: a channel that is not driven again keeps its output through the
\* calls for the other one.
DacMatchesCopy ==
    (ToLoop /\ clean) =>
        \A ch \in DacChannels : dac[ch].level = dacOutput[ch] /\ dac[ch].shdn = shdnOff

\* The stored temperature is none, or a word that the sensor gave as valid and
\* that converts to what was measured, or one that is over temperature, with
\* the error to tell so.
TemperatureIsValid ==
    clean => \/ previousReading = 0
             \/ \E t \in Temperatures :
                    previousReading = TempWord(t, TRUE) /\ TC77_ConvertToTemp(previousReading) = t
             \/ previousReading \in TempWords /\ errorCondition
=============================================================================
