------------------------------ MODULE MCP4802 -------------------------------
(* MCP4802.cpp and the converter it drives, which takes over the word that    *)
(* was shifted into it when its chip select rises.                            *)
EXTENDS SpiBus

CONSTANT Levels     \* outputs that the program sets

ASSUME MCP4802Assumption == Levels \subseteq Byte

DacChannels == {0, 1}
highGain == 0
lowGain  == 1
Gains    == {highGain, lowGain}
shdnOn   == 0
shdnOff  == 1

VARIABLES
    gain,        \* of the driver, for both channels
    dac,         \* what the converter gives on each channel
    shifted      \* the bytes shifted into it since it was selected

GetDacCommand(ch, g, shdn, output) == ch * 32768 + g * 8192 + shdn * 4096 + output * 16

DacInitial == [ch \in DacChannels |-> [level |-> 0, gain |-> lowGain, shdn |-> shdnOn]]

\* A word that is not complete is not taken over.
Latch(d, bytes) ==
    IF Len(bytes) # 2 THEN d
    ELSE LET word == Word(bytes) IN
        [d EXCEPT ![word \div 32768] =
            [level |-> (word \div 16) % 256, gain |-> (word \div 8192) % 2,
             shdn |-> (word \div 4096) % 2]]

MCP4802_Output(output, ch) == <<Send("dac", GetDacCommand(ch, gain, shdnOff, output))>>

\* Mutant: one output is left at what it was before a restart.
Mut_OneOutput == /\ InitChipSelectPin("dac") /\ gain' = lowGain
                 /\ Start(<<Send("dac", GetDacCommand(0, lowGain, shdnOff, 0))>>)

MCP4802_Init ==
    /\ InitChipSelectPin("dac")
    /\ gain' = lowGain
    /\ Start([k \in 1 .. 2 |-> Send("dac", GetDacCommand(k - 1, lowGain, shdnOff, 0))])

MCP4802_SetGain(requestedGain) == gain' = requestedGain
=============================================================================
