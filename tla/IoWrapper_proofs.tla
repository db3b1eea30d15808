-------------------------- MODULE IoWrapper_proofs --------------------------
(***************************************************************************)
(* Proofs about the converters and the sensor on their bus, for every      *)
(* program, output, gain and temperature, every clock of the chips and any *)
(* number of garbled bytes and restarts: that the DAC gives what the       *)
(* program's copies say, that a temperature is stored only as the sensor   *)
(* gave it, that the ADC has the settings that an initialisation verified  *)
(* and the gains that the program has set, and that a read of it is        *)
(* answered with a conversion of its channel or with an error.             *)
(***************************************************************************)
EXTENDS IoWrapper, SequenceTheorems, TLAPS

-----------------------------------------------------------------------------
(* The invariant *)

Stages == {"spi", "dac", "adc", "temp", "loop"}
AdcOps == {"init", "poll", "data", "gain", "gain_set", "step"}
Ops    == {"none", "dac", "next", "output", "temp"} \cup AdcOps

\* The call that is made tells how far the setup is.
SetupOrder ==
    /\ stage \in Stages /\ call.op \in Ops
    /\ stage # "spi" => initialized
    /\ stage \in {"spi", "dac"} => call.op = "none"
    /\ call.op \in {"dac", "init", "next"} => stage = "adc"
    /\ call.op \in {"output", "temp"} \cup (AdcOps \ {"init"}) => stage = "loop"

\* The transactions that are left of a call.
ForAdc ==
    /\ script \in Seq({script[i] : i \in DOMAIN script})
    /\ \A i \in DOMAIN script : script[i].chip = "adc"

DacInitSend(ch) == Send("dac", GetDacCommand(ch, lowGain, shdnOff, 0))
OutputSend == Send("dac", GetDacCommand(call.ch, gain, shdnOff, call.arg))

ScriptOfCall ==
    /\ call.op \in {"none", "next"} => script = <<>>
    /\ call.op = "dac" => script \in {<<DacInitSend(0), DacInitSend(1)>>, <<DacInitSend(1)>>, <<>>}
    /\ call.op = "output" =>
          /\ call.ch \in DacChannels /\ call.arg \in Levels
          /\ script \in {<<OutputSend>>, <<>>}
    /\ call.op = "temp" => script \in {<<Read16Bit("temp")>>, <<>>}
    /\ call.op \in AdcOps => ForAdc

\* One chip at most is selected, that of the transaction in progress, with its
\* settings in effect.
Selection ==
    /\ cs \in [Chips -> {"input", "high", "low"}] /\ sent \in Nat /\ gain \in Gains
    /\ \A chip \in Chips : cs[chip] = "low" =>
          script # <<>> /\ Head(script).chip = chip /\ spcr = Settings(chip)
    /\ Selected = {} => sent = 0
    /\ cs["dac"] # "low" => shifted = <<>>

\* The bytes that the DAC has when none was garbled.
Prefix(bytes) == IF sent = 0 THEN <<>> ELSE IF sent = 1 THEN <<bytes[1]>> ELSE bytes

DacShifts ==
    clean /\ cs["dac"] = "low" => sent \in 0 .. 2 /\ shifted = Prefix(Head(script).out)

Gives(ch, output) == dac[ch].level = output /\ dac[ch].shdn = shdnOff

DacGives ==
    /\ DOMAIN dac = DacChannels /\ dacOutput \in [DacChannels -> Byte]
    /\ stage # "loop" => dacOutput = [ch \in DacChannels |-> 0]
    /\ clean =>
          /\ call.op = "dac" => /\ script = <<DacInitSend(1)>> => Gives(0, 0)
                                /\ script = <<>> => Gives(0, 0) /\ Gives(1, 0)
          /\ call.op = "output" =>
                /\ \A ch \in DacChannels \ {call.ch} : Gives(ch, dacOutput[ch])
                /\ script = <<>> => Gives(call.ch, call.arg)
          /\ stage \in {"adc", "temp", "loop"} /\ call.op \notin {"dac", "output"} =>
                \A ch \in DacChannels : Gives(ch, dacOutput[ch])

\* The bytes that the sensor has given of its word.
Bytes(word) == <<word \div 256, word % 256>>

SensorShifts ==
    clean /\ call.op = "temp" =>
        /\ script = <<>> => \E word \in TempWords : inbox = Bytes(word)
        /\ script # <<>> => sent \in 0 .. 2 /\ inbox = Prefix(Bytes(sensor))
        /\ cs["temp"] = "low" => sensor \in TempWords

Inv ==
    /\ SetupOrder /\ ScriptOfCall /\ Selection
    /\ DacShifts /\ DacGives /\ SensorShifts /\ TemperatureIsValid
    /\ errorCondition \in BOOLEAN

-----------------------------------------------------------------------------
(* Sequences and words *)

\* A sequence is one of its own elements.
LEMMA SeqOfItself ==
    ASSUME NEW S, NEW s \in Seq(S)
    PROVE  s \in Seq({s[i] : i \in DOMAIN s}) /\ \A i \in DOMAIN s : s[i] \in S
<1> DEFINE T == {s[i] : i \in DOMAIN s}
<1>1. Len(s) \in Nat /\ s \in [1 .. Len(s) -> S] /\ DOMAIN s = 1 .. Len(s)
  BY LenProperties
<1>2. s \in [1 .. Len(s) -> T]
  BY <1>1
<1>3. s \in Seq(T)
  BY <1>1, <1>2, SeqDef
<1>4. QED
  BY <1>1, <1>3

\* The next transactions of the ADC are for it as well.
LEMMA AdcScript ==
    ASSUME NEW S, script' \in Seq(S), \A x \in S : x.chip = "adc"
    PROVE  ForAdc'
<1> DEFINE s == script'
<1>1. s \in Seq({s[i] : i \in DOMAIN s}) /\ \A i \in DOMAIN s : s[i] \in S
  <2>1. s \in Seq(S)
    OBVIOUS
  <2> HIDE DEF s
  <2>2. QED
    BY <2>1, SeqOfItself
<1>2. QED
  BY <1>1 DEF ForAdc

LEMMA AdcRest ==
    ASSUME ForAdc, script # <<>>, script' = Tail(script)
    PROVE  ForAdc'
<1> DEFINE S == {script[i] : i \in DOMAIN script}
<1>1. script \in Seq(S) /\ \A x \in S : x.chip = "adc"
  BY DEF ForAdc
<1> HIDE DEF S
<1>2. script' \in Seq(S)
  BY <1>1, HeadTailProperties
<1>3. QED
  BY <1>1, <1>2, AdcScript

LEMMA AdcHead ==
    ASSUME ForAdc, script # <<>>
    PROVE  Head(script).chip = "adc"
<1> DEFINE S == {script[i] : i \in DOMAIN script}
<1>1. script \in Seq(S) /\ \A x \in S : x.chip = "adc"
  BY DEF ForAdc
<1> HIDE DEF S
<1>2. Head(script) \in S
  BY <1>1, HeadTailProperties
<1>3. QED
  BY <1>1, <1>2

\* What the ADC's driver makes of a call.
LEMMA AdcScripts ==
    /\ \A reg, ch : script' = ReadRegister(reg, ch) => ForAdc'
    /\ \A reg, ch, byte : script' = WriteRegister(reg, ch, byte) => ForAdc'
    /\ \A ch : script' = DataScript(ch) => ForAdc'
    /\ \A ch : script' = InitScript(ch) => ForAdc'
<1>1. \A reg, ch : script' = ReadRegister(reg, ch) => ForAdc'
  <2> SUFFICES ASSUME NEW reg, NEW ch, script' = ReadRegister(reg, ch) PROVE ForAdc'
    OBVIOUS
  <2> DEFINE a == MX7705_Write(RequestRegRead(reg, ch))
             b == ReadByte("adc")
  <2>1. a.chip = "adc" /\ b.chip = "adc"
    BY DEF MX7705_Write, Write, ReadByte
  <2>2. script' = <<a, b>>
    BY DEF ReadRegister
  <2> HIDE DEF a, b
  <2>3. script' \in Seq({a, b})
    BY <2>2
  <2>4. QED
    BY <2>1, <2>3, AdcScript
<1>2. \A reg, ch, byte : script' = WriteRegister(reg, ch, byte) => ForAdc'
  <2> SUFFICES ASSUME NEW reg, NEW ch, NEW byte, script' = WriteRegister(reg, ch, byte)
               PROVE  ForAdc'
    OBVIOUS
  <2> DEFINE a == MX7705_Write(RequestRegWrite(reg, ch))
             b == MX7705_Write(byte)
  <2>1. a.chip = "adc" /\ b.chip = "adc"
    BY DEF MX7705_Write, Write
  <2>2. script' = <<a, b>>
    BY DEF WriteRegister
  <2> HIDE DEF a, b
  <2>3. script' \in Seq({a, b})
    BY <2>2
  <2>4. QED
    BY <2>1, <2>3, AdcScript
<1>3. \A ch : script' = DataScript(ch) => ForAdc'
  <2> SUFFICES ASSUME NEW ch, script' = DataScript(ch) PROVE ForAdc'
    OBVIOUS
  <2> DEFINE a == MX7705_Write(RequestRegRead(DataReg, ch))
             b == Read16Bit("adc")
  <2>1. a.chip = "adc" /\ b.chip = "adc"
    BY DEF MX7705_Write, Write, Read16Bit
  <2>2. script' = <<a, b>>
    BY DEF DataScript
  <2> HIDE DEF a, b
  <2>3. script' \in Seq({a, b})
    BY <2>2
  <2>4. QED
    BY <2>1, <2>3, AdcScript
<1>4. \A ch : script' = InitScript(ch) => ForAdc'
  <2> SUFFICES ASSUME NEW ch, script' = InitScript(ch) PROVE ForAdc'
    OBVIOUS
  <2> DEFINE w1 == WriteRegister(ClockReg, ch, ClockSettings)
             w2 == WriteRegister(SetupReg, ch, SetupSettings)
             r1 == ReadRegister(ClockReg, ch)
             r2 == ReadRegister(SetupReg, ch)
             S == {MX7705_Write(RequestRegWrite(ClockReg, ch)), MX7705_Write(ClockSettings),
                   MX7705_Write(RequestRegWrite(SetupReg, ch)), MX7705_Write(SetupSettings),
                   MX7705_Write(RequestRegRead(ClockReg, ch)),
                   MX7705_Write(RequestRegRead(SetupReg, ch)), ReadByte("adc")}
  <2>1. \A x \in S : x.chip = "adc"
    BY DEF MX7705_Write, Write, ReadByte
  <2>2. w1 \in Seq(S)
    <3> DEFINE a == MX7705_Write(RequestRegWrite(ClockReg, ch))
               b == MX7705_Write(ClockSettings)
    <3>1. a \in S /\ b \in S /\ w1 = <<a, b>>
      BY DEF WriteRegister
    <3> HIDE DEF a, b, S, w1
    <3>2. QED
      BY <3>1
  <2>3. w2 \in Seq(S)
    <3> DEFINE a == MX7705_Write(RequestRegWrite(SetupReg, ch))
               b == MX7705_Write(SetupSettings)
    <3>1. a \in S /\ b \in S /\ w2 = <<a, b>>
      BY DEF WriteRegister
    <3> HIDE DEF a, b, S, w2
    <3>2. QED
      BY <3>1
  <2>4. r1 \in Seq(S)
    <3> DEFINE a == MX7705_Write(RequestRegRead(ClockReg, ch))
               b == ReadByte("adc")
    <3>1. a \in S /\ b \in S /\ r1 = <<a, b>>
      BY DEF ReadRegister
    <3> HIDE DEF a, b, S, r1
    <3>2. QED
      BY <3>1
  <2>5. r2 \in Seq(S)
    <3> DEFINE a == MX7705_Write(RequestRegRead(SetupReg, ch))
               b == ReadByte("adc")
    <3>1. a \in S /\ b \in S /\ r2 = <<a, b>>
      BY DEF ReadRegister
    <3> HIDE DEF a, b, S, r2
    <3>2. QED
      BY <3>1
  <2>6. script' = w1 \o w2 \o r1 \o r2
    BY DEF InitScript
  <2> HIDE DEF w1, w2, r1, r2, S
  <2>7. script' \in Seq(S)
    BY <2>2, <2>3, <2>4, <2>5, <2>6, ConcatProperties
  <2>8. QED
    BY <2>1, <2>7, AdcScript
<1>5. QED
  BY <1>1, <1>2, <1>3, <1>4

\* The two bytes of a word are the word again.
LEMMA WordOfBytes ==
    ASSUME NEW w \in Nat
    PROVE  w \div 256 \in Nat /\ w % 256 \in Byte /\ Word(Bytes(w)) = w
<1>1. w \div 256 \in Nat /\ w % 256 \in Byte /\ w = (w \div 256) * 256 + (w % 256)
  BY DEF Byte
<1>2. QED
  BY <1>1 DEF Word, Bytes

\* The DAC takes from a command what the driver has put into it.
LEMMA LatchTakes ==
    ASSUME DOMAIN dac = DacChannels, NEW ch \in DacChannels, NEW g \in Gains,
           NEW output \in Byte,
           dac' = Latch(dac, Send("dac", GetDacCommand(ch, g, shdnOff, output)).out)
    PROVE  /\ DOMAIN dac' = DacChannels
           /\ Gives(ch, output)'
           /\ \A c \in DacChannels \ {ch} : dac'[c] = dac[c]
<1> DEFINE w == GetDacCommand(ch, g, shdnOff, output)
<1>1. ch \in {0, 1} /\ g \in {0, 1} /\ output \in 0 .. 255
  BY DEF DacChannels, Gains, highGain, lowGain, Byte
<1>2. w = ch * 32768 + g * 8192 + 4096 + output * 16
  BY DEF GetDacCommand, shdnOff
<1>3. w \in Nat
  BY <1>1, <1>2
<1>4. w \div 32768 = ch
  BY <1>1, <1>2
<1>5. (w \div 16) % 256 = output
  <2>1. w \div 16 = (ch * 8 + g * 2 + 1) * 256 + output
    BY <1>1, <1>2
  <2>2. QED
    BY <1>1, <2>1
<1>6. (w \div 4096) % 2 = 1
  <2>1. w \div 4096 = ch * 8 + g * 2 + 1
    BY <1>1, <1>2
  <2>2. QED
    BY <1>1, <2>1
<1>7. Send("dac", w).out = Bytes(w)
  BY DEF Send, Bytes
<1> HIDE DEF w
<1>8. Len(Bytes(w)) = 2
  BY DEF Bytes
<1>9. Word(Bytes(w)) = w
  BY <1>3, WordOfBytes
<1> DEFINE x == Latch(dac, Bytes(w))
<1>10. dac' = x
  BY <1>7 DEF w
<1>11. \A d, b : Len(b) = 2 /\ Word(b) = w => Latch(d, b) =
          [d EXCEPT ![w \div 32768] = [level |-> (w \div 16) % 256, gain |-> (w \div 8192) % 2,
                                       shdn |-> (w \div 4096) % 2]]
  BY DEF Latch
<1>12. x = [dac EXCEPT ![ch] = [level |-> output, gain |-> (w \div 8192) % 2, shdn |-> 1]]
  BY <1>4, <1>5, <1>6, <1>8, <1>9, <1>11
<1> HIDE DEF x
<1>13. DOMAIN x = DacChannels /\ x[ch].level = output /\ x[ch].shdn = shdnOff
  BY <1>12 DEF shdnOff
<1>14. \A c \in DacChannels \ {ch} : x[c] = dac[c]
  BY <1>12
<1>15. QED
  BY <1>10, <1>13, <1>14 DEF Gives

LEMMA Pairs ==
    \A a, b : /\ Head(<<a, b>>) = a /\ Tail(<<a, b>>) = <<b>> /\ <<a, b>> # <<>>
              /\ Head(<<a>>) = a /\ Tail(<<a>>) = <<>> /\ <<a>> # <<>> /\ <<a, b>> # <<a>>
              /\ <<a, b>> # <<b>>
              /\ Append(<<>>, a) = <<a>> /\ Append(<<a>>, b) = <<a, b>>
<1> TAKE a, b
<1>1. Head(<<a, b>>) = a /\ <<a, b>> # <<>> /\ Head(<<a>>) = a /\ <<a>> # <<>>
  OBVIOUS
<1>2. Len(<<a, b>>) = 2 /\ Len(<<a>>) = 1 /\ Len(<<b>>) = 1
  OBVIOUS
<1>3. Tail(<<a, b>>) = <<b>>
  OBVIOUS
<1>4. Tail(<<a>>) = <<>>
  OBVIOUS
<1>5. Append(<<>>, a) = <<a>>
  OBVIOUS
<1>6. Append(<<a>>, b) = <<a, b>>
  <2> DEFINE S == {a, b}
             s == Append(<<a>>, b)
  <2>1. <<a>> \in Seq(S) /\ b \in S /\ Len(<<a>>) = 1 /\ <<a, b>> \in Seq(S)
    OBVIOUS
  <2>2. s \in Seq(S) /\ Len(s) = 2 /\ s[1] = a /\ s[2] = b
    BY <2>1, AppendProperties
  <2> HIDE DEF s
  <2>3. \A i \in 1 .. Len(s) : s[i] = <<a, b>>[i]
    BY <2>2
  <2>4. s = <<a, b>>
    BY <1>2, <2>1, <2>2, <2>3, SeqEqual
  <2>5. QED
    BY <2>4 DEF s
<1>7. <<a, b>> # <<a>> /\ <<a, b>> # <<b>>
  BY <1>2
<1>8. QED
  BY <1>1, <1>3, <1>4, <1>5, <1>6, <1>7

-----------------------------------------------------------------------------
(* The bus *)

LEMMA NoneSelected ==
    ASSUME Selection, script = <<>>
    PROVE  /\ \A chip \in Chips : cs[chip] # "low"
           /\ cs["dac"] # "low" /\ cs["temp"] # "low" /\ sent = 0 /\ shifted = <<>>
<1>1. \A chip \in Chips : cs[chip] # "low"
  BY DEF Selection
<1>2. cs["dac"] # "low" /\ cs["temp"] # "low"
  BY <1>1 DEF Chips
<1>3. Selected = {}
  BY <1>1 DEF Selected
<1>4. QED
  BY <1>1, <1>2, <1>3 DEF Selection

\* The transaction in progress is one of the call's.
LEMMA InProgress ==
    ASSUME Inv, script # <<>>
    PROVE  /\ call.op \in {"dac", "output", "temp"} \cup AdcOps
           /\ call.op \in {"dac", "output"} =>
                 Head(script).chip = "dac" /\ Head(script).reads = FALSE
           /\ call.op = "temp" => Head(script) = Read16Bit("temp")
           /\ call.op \in AdcOps => Head(script).chip = "adc"
           /\ Head(script).chip \in Chips
           /\ stage # "spi" /\ initialized
<1>1. call.op \in {"dac", "output", "temp"} \cup AdcOps
  BY DEF Inv, SetupOrder, ScriptOfCall, Ops
<1>2. \A ch : DacInitSend(ch).chip = "dac" /\ DacInitSend(ch).reads = FALSE
  BY DEF DacInitSend, Send
<1>3. OutputSend.chip = "dac" /\ OutputSend.reads = FALSE
  BY DEF OutputSend, Send
<1>4. ASSUME call.op = "dac"
      PROVE  Head(script).chip = "dac" /\ Head(script).reads = FALSE
  <2>1. script \in {<<DacInitSend(0), DacInitSend(1)>>, <<DacInitSend(1)>>}
    BY <1>4 DEF Inv, ScriptOfCall
  <2>2. Head(script) \in {DacInitSend(0), DacInitSend(1)}
    BY <2>1, Pairs
  <2>3. QED
    BY <1>2, <2>2
<1>5. ASSUME call.op = "output"
      PROVE  Head(script).chip = "dac" /\ Head(script).reads = FALSE
  <2>1. script = <<OutputSend>>
    BY <1>5 DEF Inv, ScriptOfCall
  <2>2. Head(script) = OutputSend
    BY <2>1, Pairs
  <2>3. QED
    BY <1>3, <2>2
<1>6. ASSUME call.op = "temp"
      PROVE  Head(script) = Read16Bit("temp") /\ Head(script).chip = "temp"
  <2>1. script = <<Read16Bit("temp")>>
    BY <1>6 DEF Inv, ScriptOfCall
  <2>2. Head(script) = Read16Bit("temp")
    BY <2>1, Pairs
  <2>3. QED
    BY <2>2 DEF Read16Bit
<1>7. call.op \in AdcOps => Head(script).chip = "adc"
  BY AdcHead DEF Inv, ScriptOfCall
<1>8. Head(script).chip \in Chips
  BY <1>1, <1>4, <1>5, <1>6, <1>7 DEF Chips
<1>9. stage # "spi" /\ initialized
  BY <1>1 DEF Inv, SetupOrder, AdcOps
<1>10. QED
  BY <1>1, <1>4, <1>5, <1>6, <1>7, <1>8, <1>9

\* What the DAC is sent is two bytes, which say an output of a channel.
LEMMA DacSends ==
    ASSUME Inv, script # <<>>, Head(script).chip = "dac"
    PROVE  /\ call.op \in {"dac", "output"}
           /\ \E a, b : Head(script).out = <<a, b>>
<1>1. call.op \in {"dac", "output"}
  <2>1. call.op # "temp"
    BY InProgress DEF Read16Bit
  <2>2. QED
    BY <2>1, InProgress
<1>2. \A w : \E a, b : Send("dac", w).out = <<a, b>>
  BY DEF Send
<1>3. CASE call.op = "dac"
  <2>1. script \in {<<DacInitSend(0), DacInitSend(1)>>, <<DacInitSend(1)>>}
    BY <1>3 DEF Inv, ScriptOfCall
  <2>2. Head(script) \in {DacInitSend(0), DacInitSend(1)}
    BY <2>1, Pairs
  <2>3. QED
    BY <1>1, <1>2, <2>2 DEF DacInitSend
<1>4. CASE call.op = "output"
  <2>1. script = <<OutputSend>>
    BY <1>4 DEF Inv, ScriptOfCall
  <2>2. Head(script) = OutputSend
    BY <2>1, Pairs
  <2>3. QED
    BY <1>1, <1>2, <2>2 DEF OutputSend
<1>5. QED
  BY <1>1, <1>3, <1>4

LEMMA OpenInv ==
    ASSUME Inv, Open
    PROVE  Inv'
<1> DEFINE c == Head(script).chip
<1>1. /\ script # <<>> /\ c \notin Selected /\ spcr' = Settings(c)
      /\ cs' = [cs EXCEPT ![c] = "low"]
      /\ UNCHANGED <<initialized, script, sent, inbox>>
  BY DEF Open, OpenSpiConnection, Quiet
<1>2. /\ UNCHANGED <<gain, dac, shifted, errorCondition, previousReading, stage, dacOutput, call,
                     clean>>
      /\ sensor' \in IF cs'["temp"] = "low" THEN TempWords ELSE {sensor}
  BY DEF Open, mcp4802, wrapper, fault
<1>3. c \in Chips
  BY <1>1, InProgress
<1> HIDE DEF c
<1>4. cs \in [Chips -> {"input", "high", "low"}] /\ cs[c] # "low"
  BY <1>1, <1>3 DEF Inv, Selection, Selected
<1>5. \A chip \in Chips : cs[chip] # "low"
  BY <1>4 DEF Inv, Selection, c
<1>6. sent = 0 /\ shifted = <<>>
  BY <1>5 DEF Inv, Selection, Selected, Chips
<1>7. SetupOrder'
  BY <1>1, <1>2 DEF Inv, SetupOrder
<1>8. ScriptOfCall'
  BY <1>1, <1>2 DEF Inv, ScriptOfCall, ForAdc, OutputSend
<1>9. Selection'
  <2>1. cs' \in [Chips -> {"input", "high", "low"}]
    BY <1>1, <1>4
  <2>2. ASSUME NEW chip \in Chips, cs'[chip] = "low"
        PROVE  script' # <<>> /\ Head(script').chip = chip /\ spcr' = Settings(chip)
    <3>1. chip = c
      BY <1>1, <1>4, <1>5, <2>2
    <3>2. QED
      BY <1>1, <3>1 DEF c
  <2>3. sent' = 0 /\ shifted' = <<>> /\ gain' \in Gains
    BY <1>1, <1>2, <1>6 DEF Inv, Selection
  <2>4. QED
    BY <2>1, <2>2, <2>3, <1>1, <1>2, <1>6 DEF Selection, Inv
<1>10. DacShifts'
  BY <1>1, <1>2, <1>6 DEF DacShifts, Prefix
<1>11. DacGives'
  BY <1>1, <1>2 DEF Inv, DacGives, Gives
<1>12. SensorShifts'
  <2> SUFFICES ASSUME clean, call.op = "temp" PROVE SensorShifts'
    BY <1>2 DEF SensorShifts
  <2>1. inbox = <<>>
    BY <1>1, <1>6 DEF Inv, SensorShifts, Prefix
  <2>2. Prefix(Bytes(sensor))' = <<>>
    BY <1>1, <1>6 DEF Prefix
  <2>3. cs'["temp"] = "low" => sensor' \in TempWords
    BY <1>2
  <2>4. QED
    BY <1>1, <1>6, <2>1, <2>2, <2>3 DEF SensorShifts
<1>13. TemperatureIsValid' /\ errorCondition' \in BOOLEAN
  BY <1>2 DEF Inv, TemperatureIsValid
<1>14. QED
  BY <1>7, <1>8, <1>9, <1>10, <1>11, <1>12, <1>13 DEF Inv

\* A byte is exchanged with the chip of the transaction; as long as none was
\* garbled it is that of the transaction, and the chip's own.
LEMMA ExchangeInv ==
    ASSUME Inv, NEW byte, NEW answer, Exchange(byte, answer), NEW chip0 \in Selected,
           clean' => clean /\ byte = Head(script).out[sent + 1] /\ answer = Answer(chip0)
    PROVE  Inv'
<1> DEFINE c == Head(script).chip
<1>1. /\ script # <<>> /\ c \in Selected /\ sent < Len(Head(script).out)
      /\ sent' = sent + 1
      /\ inbox' = IF Head(script).reads THEN Append(inbox, answer) ELSE inbox
      /\ UNCHANGED <<initialized, spcr, cs, script>>
  BY DEF Exchange, SpiTransferByte, Quiet
<1>2. /\ shifted' = IF Takes("dac") THEN Append(shifted, byte) ELSE shifted
      /\ UNCHANGED <<gain, dac, errorCondition, previousReading, sensor, stage, dacOutput, call>>
  BY DEF Exchange, tc77, wrapper
<1>3. \A chip \in Chips : cs[chip] = "low" => chip = c /\ spcr = Settings(chip)
  BY DEF Inv, Selection
<1>4. c \in Chips /\ cs[c] = "low" /\ chip0 = c /\ initialized
  BY <1>1, <1>3, InProgress DEF Selected
<1>5. sent \in Nat /\ cs \in [Chips -> {"input", "high", "low"}]
  BY DEF Inv, Selection
<1>6. SetupOrder'
  BY <1>1, <1>2 DEF Inv, SetupOrder
<1>7. ScriptOfCall'
  BY <1>1, <1>2 DEF Inv, ScriptOfCall, ForAdc, OutputSend
<1>8. cs["dac"] # "low" => shifted' = <<>>
  <2>1. cs["dac"] # "low" => ~Takes("dac")
    BY DEF Takes, Selected
  <2>2. QED
    BY <1>2, <2>1 DEF Inv, Selection
<1>9. Selection'
  <2>1. sent' \in Nat
    BY <1>1, <1>5
  <2>2. Selected' # {}
    BY <1>1 DEF Selected
  <2>3. \A chip \in Chips : cs'[chip] = "low" =>
            script' # <<>> /\ Head(script').chip = chip /\ spcr' = Settings(chip)
    BY <1>1, <1>3
  <2>4. gain' \in Gains
    BY <1>2 DEF Inv, Selection
  <2>5. cs' \in [Chips -> {"input", "high", "low"}] /\ (cs'["dac"] # "low" => shifted' = <<>>)
    BY <1>1, <1>5, <1>8
  <2>6. QED
    BY <2>1, <2>2, <2>3, <2>4, <2>5 DEF Selection
<1>10. DacShifts'
  <2> SUFFICES ASSUME clean', cs["dac"] = "low"
               PROVE  sent' \in 0 .. 2 /\ shifted' = Prefix(Head(script).out)'
    BY <1>1 DEF DacShifts
  <2>1. c = "dac" /\ spcr = Settings("dac")
    BY <1>3 DEF Chips
  <2>2. Takes("dac")
    BY <1>1, <1>4, <2>1 DEF Takes
  <2>3. shifted' = Append(shifted, Head(script).out[sent + 1])
    BY <1>2, <2>2
  <2>4. shifted = Prefix(Head(script).out)
    BY DEF Inv, DacShifts
  <2>5. PICK a, b : Head(script).out = <<a, b>>
    BY <1>1, <2>1, DacSends
  <2>6. sent \in {0, 1}
    <3>1. Len(<<a, b>>) = 2
      OBVIOUS
    <3>2. Len(Head(script).out) = 2
      BY <2>5, <3>1
    <3> DEFINE n == Len(Head(script).out)
    <3>3. n = 2 /\ sent < n
      BY <1>1, <3>2
    <3> HIDE DEF n
    <3>4. QED
      BY <1>5, <3>3
  <2>7. CASE sent = 0
    <3>1. shifted' = <<a>> /\ sent' = 1
      BY <1>1, <2>3, <2>4, <2>5, <2>7, Pairs DEF Prefix
    <3>2. QED
      BY <1>1, <2>5, <3>1 DEF Prefix
  <2>8. CASE sent = 1
    <3>1. shifted = <<a>> /\ sent' = 2 /\ Head(script).out[sent + 1] = b
      BY <1>1, <2>4, <2>5, <2>8 DEF Prefix
    <3>2. shifted' = <<a, b>>
      BY <2>3, <3>1, Pairs
    <3>3. QED
      BY <1>1, <2>5, <3>1, <3>2 DEF Prefix
  <2>9. QED
    BY <2>6, <2>7, <2>8
<1>11. DacGives'
  <2>1. clean' => clean
    OBVIOUS
  <2>2. QED
    BY <1>1, <1>2, <2>1 DEF Inv, DacGives, Gives
<1>12. SensorShifts'
  <2> SUFFICES ASSUME clean', call.op = "temp"
               PROVE  /\ sent' \in 0 .. 2 /\ inbox' = Prefix(Bytes(sensor))'
                      /\ cs["temp"] = "low" => sensor \in TempWords
    BY <1>1, <1>2 DEF SensorShifts
  <2>1. Head(script) = Read16Bit("temp")
    BY <1>1, InProgress
  <2>2. c = "temp" /\ Head(script).reads = TRUE /\ Head(script).out = <<0, 0>>
    BY <2>1 DEF Read16Bit
  <2>3. Len(Head(script).out) = 2
    BY <2>2
  <2>4. sent \in {0, 1}
    BY <1>1, <1>5, <2>3
  <2>5. answer = IF sent = 0 THEN sensor \div 256 ELSE sensor % 256
    BY <1>4, <2>2 DEF Answer
  <2>6. inbox' = Append(inbox, answer)
    BY <1>1, <2>2
  <2>7. inbox = Prefix(Bytes(sensor)) /\ (cs["temp"] = "low" => sensor \in TempWords)
    BY <1>1 DEF Inv, SensorShifts
  <2>8. CASE sent = 0
    <3>1. inbox' = <<sensor \div 256>> /\ sent' = 1
      <4>1. inbox = <<>>
        BY <2>7, <2>8 DEF Prefix
      <4>2. inbox' = <<answer>>
        BY <2>6, <4>1, Pairs
      <4>3. answer = sensor \div 256
        BY <2>5, <2>8
      <4>4. sent' = 1
        BY <1>1, <2>8
      <4> DEFINE q == sensor \div 256
      <4>5. answer = q
        BY <4>3
      <4> HIDE DEF q
      <4>6. inbox' = <<q>>
        BY <4>2, <4>5
      <4>7. QED
        BY <4>4, <4>6 DEF q
    <3>2. Prefix(Bytes(sensor))' = <<sensor \div 256>>
      BY <1>2, <3>1 DEF Prefix, Bytes
    <3>3. QED
      BY <2>7, <3>1, <3>2
  <2>9. CASE sent = 1
    <3>1. inbox = <<sensor \div 256>> /\ sent' = 2
      BY <1>1, <2>7, <2>9 DEF Prefix, Bytes
    <3>2. inbox' = <<sensor \div 256, sensor % 256>>
      BY <2>5, <2>6, <2>9, <3>1, Pairs
    <3>3. Prefix(Bytes(sensor))' = <<sensor \div 256, sensor % 256>>
      BY <1>2, <3>1 DEF Prefix, Bytes
    <3>4. QED
      BY <2>7, <3>1, <3>2, <3>3
  <2>10. QED
    BY <2>4, <2>8, <2>9
<1>13. TemperatureIsValid' /\ errorCondition' \in BOOLEAN
  <2>1. clean' => clean
    OBVIOUS
  <2>2. QED
    BY <1>2, <2>1 DEF Inv, TemperatureIsValid
<1>14. QED
  BY <1>6, <1>7, <1>9, <1>10, <1>11, <1>12, <1>13 DEF Inv

LEMMA TransferInv ==
    ASSUME Inv, Transfer \/ Garble
    PROVE  Inv'
<1>1. CASE Transfer
  <2>1. PICK chip \in Selected : Exchange(Head(script).out[sent + 1], Answer(chip))
    BY <1>1 DEF Transfer
  <2>2. clean' = clean
    BY <1>1 DEF Transfer
  <2>3. QED
    BY <2>1, <2>2, ExchangeInv
<1>2. CASE Garble
  <2>1. PICK chip \in Selected, garbled \in {0, 255} :
           \/ Exchange(garbled, Answer(chip))
           \/ Exchange(Head(script).out[sent + 1], garbled)
    BY <1>2 DEF Garble
  <2>2. clean' = FALSE
    BY <1>2 DEF Garble
  <2>3. QED
    BY <2>1, <2>2, ExchangeInv
<1>3. QED
  BY <1>1, <1>2

LEMMA CloseInv ==
    ASSUME Inv, Close
    PROVE  Inv'
<1> DEFINE c == Head(script).chip
<1>1. /\ script # <<>> /\ c \in Selected /\ sent = Len(Head(script).out)
      /\ cs' = [cs EXCEPT ![c] = "high"]
      /\ script' = Tail(script) /\ sent' = 0
      /\ UNCHANGED <<initialized, spcr, inbox>>
  BY DEF Close, CloseSpiConnection, Quiet
<1>2. /\ dac' = IF cs'["dac"] = "high" THEN Latch(dac, shifted) ELSE dac
      /\ shifted' = IF cs'["dac"] = "high" THEN <<>> ELSE shifted
      /\ UNCHANGED <<gain, errorCondition, previousReading, stage, dacOutput, call, clean>>
  BY DEF Close, wrapper, fault
<1>3. \A chip \in Chips : cs[chip] = "low" => chip = c
  BY DEF Inv, Selection
<1>4. c \in Chips /\ cs[c] = "low" /\ cs \in [Chips -> {"input", "high", "low"}]
  BY <1>1, InProgress DEF Selected, Inv, Selection
<1> HIDE DEF c
<1>5. cs' \in [Chips -> {"input", "high", "low"}] /\ cs'[c] = "high"
      /\ \A chip \in Chips : cs'[chip] # "low"
  BY <1>1, <1>3, <1>4
<1>6. "dac" \in Chips /\ "temp" \in Chips
  BY DEF Chips
<1>7. SetupOrder'
  BY <1>1, <1>2 DEF Inv, SetupOrder
<1>8. shifted' = <<>>
  <2>1. CASE c = "dac"
    BY <1>2, <1>5, <2>1
  <2>2. CASE c # "dac"
    <3>1. shifted = <<>>
      BY <1>3, <1>6, <2>2 DEF Inv, Selection
    <3>2. QED
      BY <1>2, <3>1
  <2>3. QED
    BY <2>1, <2>2
<1>9. Selection'
  <2>1. gain' \in Gains
    BY <1>2 DEF Inv, Selection
  <2>2. QED
    BY <1>1, <1>5, <1>8, <2>1 DEF Selection
<1>10. DacShifts'
  BY <1>5, <1>6 DEF DacShifts
\* The DAC latches what it was sent when it is the one that is released.
<1>11. c # "dac" => dac' = dac
  <2> SUFFICES ASSUME c # "dac" PROVE dac' = dac
    OBVIOUS
  <2>1. shifted = <<>>
    BY <1>3, <1>6 DEF Inv, Selection
  <2>2. Len(shifted) # 2
    BY <2>1
  <2>3. Latch(dac, shifted) = dac
    BY <2>2 DEF Latch
  <2>4. QED
    BY <1>2, <2>3
<1>12. c = "dac" => dac' = Latch(dac, shifted) /\ (clean => shifted = Head(script).out)
  <2> SUFFICES ASSUME c = "dac"
               PROVE  dac' = Latch(dac, shifted) /\ (clean => shifted = Head(script).out)
    OBVIOUS
  <2>1. dac' = Latch(dac, shifted)
    BY <1>2, <1>5
  <2>2. PICK a, b : Head(script).out = <<a, b>>
    BY <1>1, DacSends DEF c
  <2>3. Len(<<a, b>>) = 2
    OBVIOUS
  <2>4. sent = 2
    BY <1>1, <2>2, <2>3
  <2>5. clean => shifted = Prefix(Head(script).out)
    BY <1>4 DEF Inv, DacShifts
  <2>6. clean => shifted = Head(script).out
    BY <2>4, <2>5 DEF Prefix
  <2>7. QED
    BY <2>1, <2>6
<1>13. DOMAIN dac' = DacChannels
  <2>1. \A d, b : DOMAIN Latch(d, b) = DOMAIN d
    BY DEF Latch
  <2>2. dac' = dac \/ dac' = Latch(dac, shifted)
    BY <1>2
  <2>3. QED
    BY <2>1, <2>2 DEF Inv, DacGives
<1>14. ScriptOfCall'
  <2>1. OutputSend' = OutputSend
    BY <1>2 DEF OutputSend
  <2>2. call.op = "dac" => script' \in {<<DacInitSend(1)>>, <<>>}
    <3> SUFFICES ASSUME call.op = "dac" PROVE script' \in {<<DacInitSend(1)>>, <<>>}
      OBVIOUS
    <3>1. script \in {<<DacInitSend(0), DacInitSend(1)>>, <<DacInitSend(1)>>}
      BY <1>1 DEF Inv, ScriptOfCall
    <3> DEFINE a == DacInitSend(0)
               b == DacInitSend(1)
    <3>2. Tail(<<a, b>>) = <<b>> /\ Tail(<<b>>) = <<>>
      BY Pairs
    <3>3. script = <<a, b>> \/ script = <<b>>
      BY <3>1
    <3> HIDE DEF a, b
    <3>4. script' = <<b>> \/ script' = <<>>
      BY <1>1, <3>2, <3>3
    <3>5. QED
      BY <3>4 DEF b
  <2>3. call.op = "output" => script' = <<>>
    <3> SUFFICES ASSUME call.op = "output" PROVE script' = <<>>
      OBVIOUS
    <3>1. script = <<OutputSend>>
      BY <1>1 DEF Inv, ScriptOfCall
    <3>2. QED
      BY <1>1, <3>1, Pairs
  <2>4. call.op = "temp" => script' = <<>>
    <3> SUFFICES ASSUME call.op = "temp" PROVE script' = <<>>
      OBVIOUS
    <3>1. script = <<Read16Bit("temp")>>
      BY <1>1 DEF Inv, ScriptOfCall
    <3>2. QED
      BY <1>1, <3>1, Pairs
  <2>5. call.op \in AdcOps => ForAdc'
    BY <1>1, AdcRest DEF Inv, ScriptOfCall
  <2>6. call.op \notin {"none", "next"}
    BY <1>1 DEF Inv, ScriptOfCall
  <2>7. call.op = "output" => call.ch \in DacChannels /\ call.arg \in Levels
    BY DEF Inv, ScriptOfCall
  <2>8. QED
    BY <1>2, <2>2, <2>3, <2>4, <2>5, <2>6, <2>7 DEF ScriptOfCall
<1>15. DacGives'
  <2>1. /\ dacOutput' \in [DacChannels -> Byte]
        /\ stage' # "loop" => dacOutput' = [ch \in DacChannels |-> 0]
    BY <1>2 DEF Inv, DacGives
  <2>2. ASSUME clean, call.op = "dac"
        PROVE  /\ script' = <<DacInitSend(1)>> => Gives(0, 0)'
               /\ script' = <<>> => Gives(0, 0)' /\ Gives(1, 0)'
    <3>1. c = "dac"
      BY <1>1, <2>2, InProgress DEF c
    <3>2. dac' = Latch(dac, Head(script).out)
      BY <1>12, <2>2, <3>1
    <3>3. 0 \in DacChannels /\ 1 \in DacChannels /\ lowGain \in Gains /\ 0 \in Byte
      BY DEF DacChannels, Gains, Byte
    <3>4. DOMAIN dac = DacChannels
      BY DEF Inv, DacGives
    <3>5. CASE script = <<DacInitSend(0), DacInitSend(1)>>
      <4>1. Head(script) = DacInitSend(0) /\ script' = <<DacInitSend(1)>>
        BY <1>1, <3>5, Pairs
      <4>2. Gives(0, 0)'
        BY <3>2, <3>3, <3>4, <4>1, LatchTakes DEF DacInitSend
      <4>3. script' # <<>>
        BY <4>1, Pairs
      <4>4. QED
        BY <4>2, <4>3
    <3>6. CASE script = <<DacInitSend(1)>>
      <4>1. Head(script) = DacInitSend(1) /\ script' = <<>>
        BY <1>1, <3>6, Pairs
      <4>2. Gives(1, 0)' /\ \A ch \in DacChannels \ {1} : dac'[ch] = dac[ch]
        BY <3>2, <3>3, <3>4, <4>1, LatchTakes DEF DacInitSend
      <4>3. Gives(0, 0)
        BY <2>2, <3>6 DEF Inv, DacGives
      <4>4. Gives(0, 0)'
        BY <3>3, <4>2, <4>3 DEF Gives
      <4>5. QED
        BY <4>2, <4>4
    <3>7. QED
      BY <1>1, <2>2, <3>5, <3>6 DEF Inv, ScriptOfCall
  <2>3. ASSUME clean, call.op = "output"
        PROVE  /\ \A ch \in DacChannels \ {call.ch} : Gives(ch, dacOutput[ch])'
               /\ Gives(call.ch, call.arg)'
    <3>1. c = "dac"
      BY <1>1, <2>3, InProgress DEF c
    <3>2. dac' = Latch(dac, Head(script).out)
      BY <1>12, <2>3, <3>1
    <3>3. script = <<OutputSend>> /\ call.ch \in DacChannels /\ call.arg \in Byte /\ gain \in Gains
      BY <1>1, <2>3, MCP4802Assumption DEF Inv, ScriptOfCall, Selection
    <3>4. Head(script) = OutputSend
      BY <3>3, Pairs
    <3>5. DOMAIN dac = DacChannels
      BY DEF Inv, DacGives
    <3> DEFINE k == call.ch
               o == call.arg
    <3>6. dac' = Latch(dac, Send("dac", GetDacCommand(k, gain, shdnOff, o)).out)
          /\ k \in DacChannels /\ o \in Byte /\ gain \in Gains
      BY <3>2, <3>3, <3>4 DEF OutputSend
    <3> HIDE DEF k, o
    <3>7. (dac'[k].level = o /\ dac'[k].shdn = shdnOff)
          /\ \A ch \in DacChannels \ {k} : dac'[ch] = dac[ch]
      BY <3>5, <3>6, LatchTakes DEF Gives
    <3>8. \A ch \in DacChannels \ {k} : Gives(ch, dacOutput[ch])
      BY <2>3 DEF Inv, DacGives, k
    <3>9. QED
      BY <1>2, <3>7, <3>8 DEF Gives, k, o
  <2>4. ASSUME clean, stage \in {"adc", "temp", "loop"}, call.op \notin {"dac", "output"},
               NEW ch \in DacChannels
        PROVE  Gives(ch, dacOutput[ch])'
    <3>1. c # "dac"
      BY <1>1, <2>4, DacSends DEF c
    <3>2. dac' = dac
      BY <1>11, <3>1
    <3>3. Gives(ch, dacOutput[ch])
      BY <2>4 DEF Inv, DacGives
    <3>4. QED
      BY <1>2, <3>2, <3>3 DEF Gives
  <2>5. QED
    BY <1>2, <1>13, <2>1, <2>2, <2>3, <2>4 DEF DacGives, Gives
<1>16. SensorShifts'
  <2> SUFFICES ASSUME clean, call.op = "temp"
               PROVE  script' = <<>> /\ \E word \in TempWords : inbox = Bytes(word)
    <3>1. cs'["temp"] # "low"
      BY <1>5, <1>6
    <3>2. QED
      BY <1>1, <1>2, <3>1 DEF SensorShifts
  <2>1. script = <<Read16Bit("temp")>> /\ Head(script) = Read16Bit("temp")
    BY <1>1, InProgress DEF Inv, ScriptOfCall
  <2>2. script' = <<>>
    BY <1>1, <2>1, Pairs
  <2>3. c = "temp" /\ Head(script).out = <<0, 0>>
    BY <2>1 DEF Read16Bit, c
  <2>4. sent = 2
    <3>1. Len(<<0, 0>>) = 2
      OBVIOUS
    <3>2. QED
      BY <1>1, <2>3, <3>1
  <2>5. sensor \in TempWords /\ inbox = Prefix(Bytes(sensor))
    BY <1>1, <1>4, <2>3 DEF Inv, SensorShifts
  <2>6. inbox = Bytes(sensor)
    BY <2>4, <2>5 DEF Prefix
  <2>7. QED
    BY <2>2, <2>5, <2>6
<1>17. TemperatureIsValid' /\ errorCondition' \in BOOLEAN
  BY <1>2 DEF Inv, TemperatureIsValid
<1>18. QED
  BY <1>7, <1>9, <1>10, <1>14, <1>15, <1>16, <1>17 DEF Inv

-----------------------------------------------------------------------------
(* Steps between two transactions *)

\* The temperature is left alone.
LEMMA TempKept ==
    ASSUME Inv, UNCHANGED <<errorCondition, previousReading, clean>>
    PROVE  TemperatureIsValid' /\ errorCondition' \in BOOLEAN
<1>1. /\ errorCondition \in BOOLEAN
      /\ errorCondition' <=> errorCondition
      /\ previousReading' = previousReading
      /\ clean' => clean
  BY DEF Inv
<1>2. TemperatureIsValid'
  <2> SUFFICES ASSUME clean' PROVE TemperatureIsValid'
    BY DEF TemperatureIsValid
  <2>1. \/ previousReading = 0
        \/ \E t \in Temperatures :
               previousReading = TempWord(t, TRUE) /\ TC77_ConvertToTemp(previousReading) = t
        \/ previousReading \in TempWords /\ errorCondition
    BY <1>1 DEF Inv, TemperatureIsValid
  <2>2. QED
    BY <1>1, <2>1 DEF TemperatureIsValid
<1>3. QED
  BY <1>1, <1>2

\* Nothing that the invariant is about changes.
LEMMA Frame ==
    ASSUME Inv,
           UNCHANGED <<bus, gain, dac, shifted, errorCondition, previousReading, sensor,
                       stage, call, dacOutput, clean>>
    PROVE  Inv'
<1>1. /\ UNCHANGED <<initialized, spcr, cs, script, sent, inbox>>
      /\ UNCHANGED <<gain, dac, shifted, errorCondition, previousReading, sensor>>
      /\ UNCHANGED <<stage, call, dacOutput, clean>>
  BY DEF bus
<1>2. SetupOrder'
  BY <1>1 DEF Inv, SetupOrder
<1>3. ScriptOfCall'
  BY <1>1 DEF Inv, ScriptOfCall, ForAdc, OutputSend
<1>4. Selection'
  BY <1>1 DEF Inv, Selection, Selected
<1>5. DacShifts'
  BY <1>1 DEF Inv, DacShifts, Prefix
<1>6. DacGives'
  BY <1>1 DEF Inv, DacGives, Gives
<1>7. SensorShifts'
  BY <1>1 DEF Inv, SensorShifts, Prefix, Bytes
<1>8. TemperatureIsValid' /\ errorCondition' \in BOOLEAN
  BY <1>1, TempKept
<1>9. QED
  BY <1>2, <1>3, <1>4, <1>5, <1>6, <1>7, <1>8 DEF Inv

NoneLow == cs \in [Chips -> {"input", "high", "low"}] /\ \A chip \in Chips : cs[chip] # "low"

LEMMA BetweenTransactions ==
    ASSUME NoneLow', sent' = 0, gain' \in Gains, shifted' = <<>>
    PROVE  Selection' /\ DacShifts'
<1>1. cs'["dac"] # "low"
  BY DEF NoneLow, Chips
<1>2. Selection'
  BY DEF Selection, NoneLow
<1>3. DacShifts'
  BY <1>1 DEF DacShifts
<1>4. QED
  BY <1>2, <1>3

LEMMA QuietIsNoneLow ==
    ASSUME Inv, script = <<>>
    PROVE  /\ NoneLow /\ sent = 0 /\ gain \in Gains /\ shifted = <<>>
           /\ UNCHANGED cs => NoneLow'
           /\ \A chip \in Chips : cs' = [cs EXCEPT ![chip] = "high"] => NoneLow'
<1>1. NoneLow /\ sent = 0 /\ gain \in Gains /\ shifted = <<>>
  BY NoneSelected DEF Inv, NoneLow, Selection
<1>2. UNCHANGED cs => NoneLow'
  BY <1>1 DEF NoneLow
<1>3. ASSUME NEW chip \in Chips, cs' = [cs EXCEPT ![chip] = "high"] PROVE NoneLow'
  BY <1>1, <1>3 DEF NoneLow
<1>4. QED
  BY <1>1, <1>2, <1>3

\* A step of a call of the ADC, which leaves the other chips alone.
LEMMA AdcCalls ==
    ASSUME Inv, script = <<>>, call.op \notin {"dac", "output", "temp"},
           stage \in {"adc", "temp", "loop"}, stage' \in {"adc", "temp", "loop"},
           stage' # "loop" => stage # "loop",
           UNCHANGED <<gain, dac, shifted, dacOutput, clean, errorCondition, previousReading>>,
           NoneLow', sent' = 0, SetupOrder',
           call'.op \in {"none", "next"} \cup AdcOps,
           call'.op \in {"none", "next"} => script' = <<>>,
           call'.op \in AdcOps => ForAdc'
    PROVE  Inv'
<1>1. call'.op \notin {"dac", "output", "temp"}
  BY DEF AdcOps
<1>2. ScriptOfCall'
  BY <1>1 DEF ScriptOfCall
<1>3. Selection' /\ DacShifts'
  BY QuietIsNoneLow, BetweenTransactions
<1>4. DacGives'
  <2>1. \A ch \in DacChannels : clean => Gives(ch, dacOutput[ch])
    BY DEF Inv, DacGives
  <2>2. \A ch \in DacChannels : clean' => Gives(ch, dacOutput[ch])'
    BY <2>1 DEF Gives
  <2>3. /\ DOMAIN dac' = DacChannels /\ dacOutput' \in [DacChannels -> Byte]
        /\ stage' # "loop" => dacOutput' = [ch \in DacChannels |-> 0]
    BY DEF Inv, DacGives
  <2>4. QED
    BY <1>1, <2>2, <2>3 DEF DacGives
<1>5. SensorShifts'
  BY <1>1 DEF SensorShifts
<1>6. TemperatureIsValid' /\ errorCondition' \in BOOLEAN
  BY DEF Inv, TemperatureIsValid
<1>7. QED
  BY <1>2, <1>3, <1>4, <1>5, <1>6 DEF Inv

-----------------------------------------------------------------------------
(* Calls of the ADC *)

LEMMA InitAdcInv ==
    ASSUME Inv, script = <<>>, stage = "adc", call.op \in {"none", "next"},
           NEW ch, InitAdc(ch)
    PROVE  Inv'
<1>1. /\ cs' = [cs EXCEPT !["adc"] = "high"]
      /\ script' = InitScript(ch) /\ sent' = 0 /\ UNCHANGED initialized
      /\ call' = [op |-> "init", ch |-> ch, arg |-> 0]
  BY DEF InitAdc, MX7705_Init, InitChipSelectPin, Start, Call
<1>2. UNCHANGED <<gain, dac, shifted, dacOutput, clean, errorCondition, previousReading, stage>>
  BY DEF InitAdc, mcp4802, tc77, wrapper, fault
<1>3. call'.op = "init"
  BY <1>1
<1>4. NoneLow'
  BY <1>1, QuietIsNoneLow DEF Chips
<1>5. ForAdc'
  BY <1>1, AdcScripts
<1>6. SetupOrder'
  BY <1>1, <1>2, <1>3 DEF Inv, SetupOrder, Ops, AdcOps, Stages
<1>7. call'.op \in AdcOps /\ call'.op \notin {"none", "next"}
  BY <1>3 DEF AdcOps
<1>8. QED
  BY <1>1, <1>2, <1>4, <1>5, <1>6, <1>7, AdcCalls

LEMMA AdcInitReturnsInv ==
    ASSUME Inv, AdcInitReturns
    PROVE  Inv'
<1>1. /\ call.op = "init" /\ script = <<>>
      /\ call' = [op |-> IF call.ch = 0 THEN "next" ELSE "none", ch |-> 0, arg |-> 0]
      /\ stage' = IF call.ch = 0 THEN stage ELSE "temp"
  BY DEF AdcInitReturns, Quiet, Call
<1>2. /\ UNCHANGED <<initialized, cs, script, sent>>
      /\ UNCHANGED <<gain, dac, shifted, dacOutput, clean, errorCondition, previousReading>>
  BY DEF AdcInitReturns, bus, mcp4802, tc77
<1>3. stage = "adc" /\ initialized
  BY <1>1 DEF Inv, SetupOrder
<1>4. \/ call'.op = "next" /\ stage' = "adc"
      \/ call'.op = "none" /\ stage' = "temp"
  <2>1. CASE call.ch = 0
    <3>1. call' = [op |-> "next", ch |-> 0, arg |-> 0] /\ stage' = "adc"
      BY <1>1, <1>3, <2>1
    <3>2. call'.op = "next"
      BY <3>1
    <3>3. QED
      BY <3>1, <3>2
  <2>2. CASE call.ch # 0
    <3>1. call' = [op |-> "none", ch |-> 0, arg |-> 0] /\ stage' = "temp"
      BY <1>1, <2>2
    <3>2. call'.op = "none"
      BY <3>1
    <3>3. QED
      BY <3>1, <3>2
  <2>3. QED
    BY <2>1, <2>2
<1>5. NoneLow' /\ sent' = 0
  BY <1>1, <1>2, QuietIsNoneLow
<1>6. SetupOrder'
  BY <1>2, <1>3, <1>4 DEF SetupOrder, Ops, AdcOps, Stages
<1>7. call'.op \in {"none", "next"} /\ call'.op \notin AdcOps
  BY <1>4 DEF AdcOps
<1>8. stage' \in {"adc", "temp", "loop"}
  BY <1>4
<1>9. QED
  BY <1>1, <1>2, <1>3, <1>5, <1>6, <1>7, <1>8, AdcCalls

\* A call of the main loop starts a transaction of the ADC, or goes on to one.
LEMMA AdcStarts ==
    ASSUME Inv, script = <<>>, stage = "loop", call.op \notin {"dac", "output", "temp"},
           NEW transactions, Start(transactions), UNCHANGED cs, UNCHANGED stage,
           UNCHANGED <<gain, dac, shifted, dacOutput, clean, errorCondition, previousReading>>,
           ForAdc', call'.op \in AdcOps \ {"init"}
    PROVE  Inv'
<1>1. sent' = 0 /\ UNCHANGED initialized
  BY DEF Start
<1>2. SetupOrder'
  BY <1>1 DEF Inv, SetupOrder, Ops, AdcOps, Stages
<1>3. NoneLow'
  BY QuietIsNoneLow
<1>4. call'.op \in AdcOps /\ call'.op \notin {"none", "next"}
  BY DEF AdcOps
<1>5. QED
  BY <1>1, <1>2, <1>3, <1>4, AdcCalls

\* ... or returns.
LEMMA AdcReturns ==
    ASSUME Inv, script = <<>>, stage = "loop", call.op \notin {"dac", "output", "temp"},
           UNCHANGED bus, UNCHANGED stage, Returns,
           UNCHANGED <<gain, dac, shifted, dacOutput, clean, errorCondition, previousReading>>
    PROVE  Inv'
<1>1. UNCHANGED <<initialized, cs, script, sent>>
  BY DEF bus
<1>2. call'.op = "none"
  BY DEF Returns, Idle
<1>3. SetupOrder'
  BY <1>1, <1>2 DEF Inv, SetupOrder, Ops, AdcOps, Stages
<1>4. NoneLow' /\ sent' = 0
  BY <1>1, QuietIsNoneLow
<1>5. call'.op \in {"none", "next"} /\ call'.op \notin AdcOps /\ script' = <<>>
  BY <1>1, <1>2 DEF AdcOps
<1>6. QED
  BY <1>3, <1>4, <1>5, AdcCalls

\* Between two calls the bus is quiet.
LEMMA IdleIsQuiet ==
    ASSUME Inv, call = Idle
    PROVE  script = <<>> /\ call.op = "none"
<1>1. call.op = "none"
  BY DEF Idle
<1>2. QED
  BY <1>1 DEF Inv, ScriptOfCall

LEMMA AdcProgramInv ==
    ASSUME Inv,
           \/ \E ch \in Channels : AdcReadData(ch)
           \/ \E g \in GainsSet, ch \in Channels : AdcSetGain(g, ch)
           \/ \E ch \in Channels, step \in {1, 255} : StepGain(ch, step)
    PROVE  Inv'
<1>1. ASSUME NEW ch \in Channels, AdcReadData(ch) PROVE Inv'
  <2>1. /\ stage = "loop" /\ call = Idle
        /\ Start(IsCommsRegBusy(ch)) /\ UNCHANGED cs
        /\ call' = [op |-> "poll", ch |-> ch, arg |-> 0]
    BY <1>1 DEF AdcReadData, Uses, Ready, Poll, Call
  <2>2. UNCHANGED <<gain, dac, shifted, dacOutput, clean, errorCondition, previousReading, stage>>
    BY <1>1 DEF AdcReadData, mcp4802, tc77, wrapper, fault
  <2>3. call'.op \in AdcOps \ {"init"}
    BY <2>1 DEF AdcOps
  <2>4. ForAdc'
    BY <2>1, AdcScripts DEF Start, IsCommsRegBusy
  <2>5. QED
    BY <2>1, <2>2, <2>3, <2>4, IdleIsQuiet, AdcStarts
<1>2. ASSUME NEW g \in GainsSet, NEW ch \in Channels, AdcSetGain(g, ch) PROVE Inv'
  <2>1. /\ stage = "loop" /\ call = Idle
        /\ Start(ReadRegister(SetupReg, 0)) /\ UNCHANGED cs
        /\ call' = [op |-> "gain", ch |-> 0, arg |-> g]
    BY <1>2 DEF AdcSetGain, Uses, Ready, MX7705_GetGain, Call
  <2>2. UNCHANGED <<gain, dac, shifted, dacOutput, clean, errorCondition, previousReading, stage>>
    BY <1>2 DEF AdcSetGain, mcp4802, tc77, wrapper
  <2>3. call'.op \in AdcOps \ {"init"}
    BY <2>1 DEF AdcOps
  <2>4. ForAdc'
    BY <2>1, AdcScripts DEF Start
  <2>5. QED
    BY <2>1, <2>2, <2>3, <2>4, IdleIsQuiet, AdcStarts
<1>3. ASSUME NEW ch \in Channels, NEW step \in {1, 255}, StepGain(ch, step) PROVE Inv'
  <2>1. /\ stage = "loop" /\ call = Idle
        /\ Start(ReadRegister(SetupReg, ch)) /\ UNCHANGED cs
        /\ call' = [op |-> "step", ch |-> ch, arg |-> step]
    BY <1>3 DEF StepGain, Uses, Ready, MX7705_GetGain, Call
  <2>2. UNCHANGED <<gain, dac, shifted, dacOutput, clean, errorCondition, previousReading, stage>>
    BY <1>3 DEF StepGain, mcp4802, tc77, wrapper
  <2>3. call'.op \in AdcOps \ {"init"}
    BY <2>1 DEF AdcOps
  <2>4. ForAdc'
    BY <2>1, AdcScripts DEF Start
  <2>5. QED
    BY <2>1, <2>2, <2>3, <2>4, IdleIsQuiet, AdcStarts
<1>4. QED
  BY <1>1, <1>2, <1>3

LEMMA AdcPolledInv ==
    ASSUME Inv, AdcPolled
    PROVE  Inv'
<1>1. /\ call.op = "poll" /\ script = <<>>
      /\ UNCHANGED <<gain, dac, shifted, dacOutput, clean, errorCondition, previousReading, stage>>
  BY DEF AdcPolled, Quiet, mcp4802, tc77, fault
<1>2. stage = "loop" /\ call.op \notin {"dac", "output", "temp"}
  BY <1>1 DEF Inv, SetupOrder, AdcOps
<1>3. \/ Poll(pollCount + 1, call.ch) /\ UNCHANGED call
      \/ Returns /\ UNCHANGED bus
      \/ RequestData(call.ch) /\ Call("data", call.ch, 0)
  BY DEF AdcPolled
<1>4. CASE Poll(pollCount + 1, call.ch) /\ UNCHANGED call
  <2>1. Start(IsCommsRegBusy(call.ch)) /\ UNCHANGED cs
    BY <1>4 DEF Poll
  <2>2. ForAdc'
    BY <2>1, AdcScripts DEF Start, IsCommsRegBusy
  <2>3. call'.op \in AdcOps \ {"init"}
    BY <1>1, <1>4 DEF AdcOps
  <2>4. QED
    BY <1>1, <1>2, <2>1, <2>2, <2>3, AdcStarts
<1>5. CASE Returns /\ UNCHANGED bus
  BY <1>1, <1>2, <1>5, AdcReturns
<1>6. CASE RequestData(call.ch) /\ Call("data", call.ch, 0)
  <2>1. Start(DataScript(call.ch)) /\ UNCHANGED cs
    BY <1>6 DEF RequestData
  <2>2. ForAdc'
    BY <2>1, AdcScripts DEF Start
  <2>3. call'.op \in AdcOps \ {"init"}
    BY <1>6 DEF Call, AdcOps
  <2>4. QED
    BY <1>1, <1>2, <2>1, <2>2, <2>3, AdcStarts
<1>7. QED
  BY <1>3, <1>4, <1>5, <1>6

LEMMA AdcDoneInv ==
    ASSUME Inv, AdcDataRead \/ AdcGainSet
    PROVE  Inv'
<1>1. /\ call.op \in {"data", "gain_set"} /\ script = <<>> /\ Returns
      /\ UNCHANGED bus
      /\ UNCHANGED <<gain, dac, shifted, dacOutput, clean, errorCondition, previousReading, stage>>
  BY DEF AdcDataRead, AdcGainSet, Quiet, mcp4802, tc77, fault, wrapper
<1>2. stage = "loop" /\ call.op \notin {"dac", "output", "temp"}
  BY <1>1 DEF Inv, SetupOrder, AdcOps
<1>3. QED
  BY <1>1, <1>2, AdcReturns

LEMMA AdcGainReadInv ==
    ASSUME Inv, AdcGainRead
    PROVE  Inv'
<1>1. /\ call.op = "gain" /\ script = <<>>
      /\ Start(WriteRegister(SetupReg, call.ch, WithGain(inbox[1], call.arg))) /\ UNCHANGED cs
      /\ call' = [op |-> "gain_set", ch |-> call.ch, arg |-> 0]
  BY DEF AdcGainRead, Quiet, WriteGain, Call
<1>2. UNCHANGED <<gain, dac, shifted, dacOutput, clean, errorCondition, previousReading, stage>>
  BY DEF AdcGainRead, mcp4802, tc77, fault, wrapper
<1>3. stage = "loop" /\ call.op \notin {"dac", "output", "temp"}
  BY <1>1 DEF Inv, SetupOrder, AdcOps
<1>4. call'.op \in AdcOps \ {"init"}
  BY <1>1 DEF AdcOps
<1>5. ForAdc'
  BY <1>1, AdcScripts DEF Start
<1>6. QED
  BY <1>1, <1>2, <1>3, <1>4, <1>5, AdcStarts

LEMMA GainStepReadInv ==
    ASSUME Inv, GainStepRead
    PROVE  Inv'
<1>1. /\ call.op = "step" /\ script = <<>>
      /\ UNCHANGED <<gain, dac, shifted, dacOutput, clean, errorCondition, previousReading, stage>>
  BY DEF GainStepRead, Quiet, mcp4802, tc77, fault, wrapper
<1>2. stage = "loop" /\ call.op \notin {"dac", "output", "temp"}
  BY <1>1 DEF Inv, SetupOrder, AdcOps
<1>3. \/ \E next : MX7705_GetGain(call.ch) /\ Call("gain", call.ch, next)
      \/ Returns /\ UNCHANGED bus
  BY DEF GainStepRead
<1>4. CASE \E next : MX7705_GetGain(call.ch) /\ Call("gain", call.ch, next)
  <2>1. PICK next : MX7705_GetGain(call.ch) /\ Call("gain", call.ch, next)
    BY <1>4
  <2>2. Start(ReadRegister(SetupReg, call.ch)) /\ UNCHANGED cs
    BY <2>1 DEF MX7705_GetGain
  <2>3. ForAdc'
    BY <2>2, AdcScripts DEF Start
  <2>4. call'.op \in AdcOps \ {"init"}
    BY <2>1 DEF Call, AdcOps
  <2>5. QED
    BY <1>1, <1>2, <2>2, <2>3, <2>4, AdcStarts
<1>5. CASE Returns /\ UNCHANGED bus
  BY <1>1, <1>2, <1>5, AdcReturns
<1>6. QED
  BY <1>3, <1>4, <1>5

-----------------------------------------------------------------------------
(* Calls of the DAC *)

LEMMA DacInitInv ==
    ASSUME Inv, DacInit
    PROVE  Inv'
<1> DEFINE a == DacInitSend(0)
           b == DacInitSend(1)
<1>1. /\ stage = "dac" /\ call = Idle
      /\ cs' = [cs EXCEPT !["dac"] = "high"] /\ gain' = lowGain
      /\ sent' = 0 /\ inbox' = <<>> /\ UNCHANGED initialized
      /\ stage' = "adc" /\ call' = [op |-> "dac", ch |-> 0, arg |-> 0]
      /\ UNCHANGED <<dac, shifted, dacOutput, clean, errorCondition, previousReading>>
  BY DEF DacInit, Ready, MCP4802_Init, InitChipSelectPin, Start, Call, tc77, fault
<1>2. script' = <<a, b>>
  <2> DEFINE F(k) == Send("dac", GetDacCommand(k - 1, lowGain, shdnOff, 0))
  <2>1. script' = [k \in 1 .. 2 |-> F(k)]
    BY DEF DacInit, MCP4802_Init, Start
  <2>2. F(1) = a /\ F(2) = b
    BY DEF DacInitSend
  <2> HIDE DEF F, a, b
  <2>3. [k \in 1 .. 2 |-> F(k)] = <<F(1), F(2)>>
    OBVIOUS
  <2>4. QED
    BY <2>1, <2>2, <2>3
<1> HIDE DEF a, b
<1>3. script' \notin {<<b>>, <<>>}
  BY <1>2, Pairs
<1>4. script = <<>> /\ call'.op = "dac"
  BY <1>1, IdleIsQuiet
<1>5. call'.op \notin {"none", "next", "output", "temp"} \cup AdcOps
  BY <1>4 DEF AdcOps
<1>6. SetupOrder'
  BY <1>1, <1>4, <1>5 DEF Inv, SetupOrder, Ops, Stages
<1>7. ScriptOfCall'
  BY <1>2, <1>4, <1>5 DEF ScriptOfCall, a, b
<1>8. Selection' /\ DacShifts'
  <2>1. NoneLow' /\ shifted' = <<>>
    BY <1>1, <1>4, QuietIsNoneLow DEF Chips
  <2>2. gain' \in Gains
    BY <1>1 DEF Gains
  <2>3. QED
    BY <1>1, <2>1, <2>2, BetweenTransactions
<1>9. DacGives'
  BY <1>1, <1>3, <1>4 DEF Inv, DacGives, b
<1>10. SensorShifts'
  BY <1>4 DEF SensorShifts
<1>11. QED
  BY <1>1, <1>6, <1>7, <1>8, <1>9, <1>10, TempKept DEF Inv

LEMMA DacSetOutputInv ==
    ASSUME Inv, NEW output \in Levels, NEW ch \in DacChannels, DacSetOutput(output, ch)
    PROVE  Inv'
<1> DEFINE s == Send("dac", GetDacCommand(ch, gain, shdnOff, output))
<1>1. /\ stage = "loop" /\ call = Idle
      /\ script' = <<s>> /\ sent' = 0
      /\ call' = [op |-> "output", ch |-> ch, arg |-> output]
      /\ UNCHANGED <<initialized, cs, gain, dac, shifted, stage, dacOutput, clean,
                     errorCondition, previousReading>>
  BY DEF DacSetOutput, Uses, Ready, MCP4802_Output, Start, Call, mcp4802, tc77, fault, wrapper
<1>2. s = OutputSend'
  BY <1>1 DEF OutputSend
<1> HIDE DEF s
<1>3. script = <<>> /\ call.op = "none"
  BY <1>1, IdleIsQuiet
<1>4. call'.op = "output" /\ call'.ch = ch /\ call'.arg = output
  BY <1>1
<1>5. call'.op \notin {"none", "next", "dac", "temp"} \cup AdcOps
  BY <1>4 DEF AdcOps
<1>6. SetupOrder'
  BY <1>1, <1>4, <1>5 DEF Inv, SetupOrder, Ops, Stages
<1>7. ScriptOfCall'
  BY <1>1, <1>2, <1>4, <1>5 DEF ScriptOfCall
<1>8. Selection' /\ DacShifts'
  <2>1. NoneLow' /\ shifted' = <<>> /\ gain' \in Gains
    BY <1>1, <1>3, QuietIsNoneLow
  <2>2. QED
    BY <1>1, <2>1, BetweenTransactions
<1>9. DacGives'
  <2>1. \A c \in DacChannels : clean => Gives(c, dacOutput[c])
    BY <1>1, <1>3 DEF Inv, DacGives
  <2>2. \A c \in DacChannels : clean' => Gives(c, dacOutput[c])'
    BY <1>1, <2>1 DEF Gives
  <2>3. DOMAIN dac' = DacChannels /\ dacOutput' \in [DacChannels -> Byte] /\ stage' = "loop"
    BY <1>1 DEF Inv, DacGives
  <2>4. script' # <<>>
    BY <1>1, Pairs
  <2>5. QED
    BY <1>4, <2>2, <2>3, <2>4 DEF DacGives
<1>10. SensorShifts'
  BY <1>4 DEF SensorShifts
<1>11. QED
  BY <1>1, <1>6, <1>7, <1>8, <1>9, <1>10, TempKept DEF Inv

LEMMA DacCallReturnsInv ==
    ASSUME Inv, DacCallReturns
    PROVE  Inv'
<1>1. /\ call.op \in {"dac", "output"} /\ script = <<>> /\ call' = Idle
      /\ UNCHANGED <<initialized, cs, script, sent, gain, dac, shifted, stage, clean,
                     errorCondition, previousReading>>
      /\ call.op = "dac" => dacOutput' = dacOutput
      /\ call.op = "output" => dacOutput' = [dacOutput EXCEPT ![call.ch] = call.arg]
  BY DEF DacCallReturns, Quiet, Returns, KeepCopy, bus, mcp4802, tc77, fault
<1>2. call'.op = "none"
  BY <1>1 DEF Idle
<1>3. call'.op \notin {"next", "dac", "output", "temp"} \cup AdcOps
  BY <1>2 DEF AdcOps
<1>4. /\ call.op = "dac" => stage = "adc"
      /\ call.op = "output" => stage = "loop" /\ call.ch \in DacChannels /\ call.arg \in Byte
  BY MCP4802Assumption DEF Inv, SetupOrder, ScriptOfCall
<1>5. SetupOrder'
  BY <1>1, <1>2, <1>3 DEF Inv, SetupOrder, Ops, Stages
<1>6. ScriptOfCall'
  BY <1>1, <1>2, <1>3 DEF ScriptOfCall
<1>7. Selection' /\ DacShifts'
  <2>1. NoneLow' /\ shifted' = <<>> /\ gain' \in Gains /\ sent' = 0
    BY <1>1, QuietIsNoneLow
  <2>2. QED
    BY <1>1, <2>1, BetweenTransactions
<1>8. dacOutput \in [DacChannels -> Byte] /\ DOMAIN dac' = DacChannels
  BY <1>1 DEF Inv, DacGives
<1>9. dacOutput' \in [DacChannels -> Byte]
  BY <1>1, <1>4, <1>8
<1>10. stage' # "loop" => dacOutput' = [ch \in DacChannels |-> 0]
  BY <1>1, <1>4 DEF Inv, DacGives
<1>11. ASSUME clean, NEW ch \in DacChannels PROVE Gives(ch, dacOutput[ch])'
  <2>1. CASE call.op = "dac"
    <3>1. Gives(0, 0) /\ Gives(1, 0)
      BY <1>1, <1>11, <2>1 DEF Inv, DacGives
    <3>2. dacOutput'[ch] = 0
      BY <1>1, <1>4, <1>10, <2>1
    <3>3. QED
      BY <1>1, <3>1, <3>2 DEF DacChannels, Gives
  <2>2. CASE call.op = "output"
    <3>1. Gives(call.ch, call.arg) /\ \A c \in DacChannels \ {call.ch} : Gives(c, dacOutput[c])
      BY <1>1, <1>11, <2>2 DEF Inv, DacGives
    <3>2. dacOutput'[ch] = IF ch = call.ch THEN call.arg ELSE dacOutput[ch]
      BY <1>1, <1>8, <2>2
    <3>3. QED
      BY <1>1, <3>1, <3>2 DEF Gives
  <2>3. QED
    BY <1>1, <2>1, <2>2
<1>12. DacGives'
  BY <1>1, <1>3, <1>8, <1>9, <1>10, <1>11 DEF DacGives
<1>13. SensorShifts'
  BY <1>2 DEF SensorShifts
<1>14. QED
  BY <1>1, <1>5, <1>6, <1>7, <1>12, <1>13, TempKept DEF Inv

LEMMA DacSetGainInv ==
    ASSUME Inv, NEW g \in Gains, DacSetGain(g)
    PROVE  Inv'
<1>1. /\ call = Idle /\ gain' = g
      /\ UNCHANGED <<initialized, cs, script, sent, dac, shifted, stage, call, dacOutput, clean,
                     errorCondition, previousReading>>
  BY DEF DacSetGain, Uses, Ready, MCP4802_SetGain, bus, tc77, fault, wrapper
<1>2. script = <<>> /\ call.op = "none"
  BY <1>1, IdleIsQuiet
<1>3. SetupOrder'
  BY <1>1 DEF Inv, SetupOrder
<1>4. ScriptOfCall'
  BY <1>1, <1>2 DEF ScriptOfCall, AdcOps
<1>5. Selection' /\ DacShifts'
  <2>1. NoneLow' /\ shifted' = <<>> /\ sent' = 0
    BY <1>1, <1>2, QuietIsNoneLow
  <2>2. QED
    BY <1>1, <2>1, BetweenTransactions
<1>6. DacGives'
  BY <1>1 DEF Inv, DacGives, Gives
<1>7. SensorShifts'
  BY <1>1, <1>2 DEF SensorShifts
<1>8. QED
  BY <1>1, <1>3, <1>4, <1>5, <1>6, <1>7, TempKept DEF Inv

-----------------------------------------------------------------------------
(* The sensor *)

LEMMA TempSenseInitInv ==
    ASSUME Inv, TempSenseInit
    PROVE  Inv'
<1>1. /\ stage = "temp" /\ call = Idle /\ stage' = "loop"
      /\ cs' = [cs EXCEPT !["temp"] = "high"]
      /\ errorCondition' = FALSE /\ previousReading' = 0
      /\ UNCHANGED <<initialized, script, sent, gain, dac, shifted, call, dacOutput, clean>>
  BY DEF TempSenseInit, Ready, TC77_Init, InitChipSelectPin, mcp4802, fault
<1>2. script = <<>> /\ call.op = "none"
  BY <1>1, IdleIsQuiet
<1>3. SetupOrder'
  BY <1>1, <1>2 DEF Inv, SetupOrder, Stages, AdcOps
<1>4. ScriptOfCall'
  BY <1>1, <1>2 DEF ScriptOfCall, AdcOps
<1>5. Selection' /\ DacShifts'
  <2>1. NoneLow' /\ shifted' = <<>> /\ sent' = 0 /\ gain' \in Gains
    BY <1>1, <1>2, QuietIsNoneLow DEF Chips
  <2>2. QED
    BY <2>1, BetweenTransactions
<1>6. DacGives'
  <2>1. \A c \in DacChannels : clean => Gives(c, dacOutput[c])
    BY <1>1, <1>2 DEF Inv, DacGives
  <2>2. \A c \in DacChannels : clean' => Gives(c, dacOutput[c])'
    BY <1>1, <2>1 DEF Gives
  <2>3. DOMAIN dac' = DacChannels /\ dacOutput' \in [DacChannels -> Byte]
    BY <1>1 DEF Inv, DacGives
  <2>4. QED
    BY <1>1, <1>2, <2>2, <2>3 DEF DacGives
<1>7. SensorShifts'
  BY <1>1, <1>2 DEF SensorShifts
<1>8. TemperatureIsValid'
  BY <1>1 DEF TemperatureIsValid
<1>9. QED
  BY <1>1, <1>3, <1>4, <1>5, <1>6, <1>7, <1>8 DEF Inv

LEMMA TempSenseUpdateInv ==
    ASSUME Inv, TempSenseUpdate
    PROVE  Inv'
<1> DEFINE s == Read16Bit("temp")
<1>1. /\ stage = "loop" /\ call = Idle
      /\ script' = <<s>> /\ sent' = 0 /\ inbox' = <<>>
      /\ call' = [op |-> "temp", ch |-> 0, arg |-> 0]
      /\ UNCHANGED <<initialized, cs, gain, dac, shifted, stage, dacOutput, clean,
                     errorCondition, previousReading>>
  BY DEF TempSenseUpdate, Uses, Ready, TC77_ReadRawData, Start, Call, mcp4802, tc77, fault, wrapper
<1> HIDE DEF s
<1>2. script = <<>> /\ call.op = "none"
  BY <1>1, IdleIsQuiet
<1>3. call'.op = "temp"
  BY <1>1
<1>4. call'.op \notin {"none", "next", "dac", "output"} \cup AdcOps
  BY <1>3 DEF AdcOps
<1>5. SetupOrder'
  BY <1>1, <1>3, <1>4 DEF Inv, SetupOrder, Ops, Stages
<1>6. ScriptOfCall'
  BY <1>1, <1>3, <1>4 DEF ScriptOfCall, s
<1>7. NoneLow' /\ shifted' = <<>> /\ gain' \in Gains
  BY <1>1, <1>2, QuietIsNoneLow
<1>8. Selection' /\ DacShifts'
  BY <1>1, <1>7, BetweenTransactions
<1>9. DacGives'
  <2>1. \A c \in DacChannels : clean => Gives(c, dacOutput[c])
    BY <1>1, <1>2 DEF Inv, DacGives
  <2>2. \A c \in DacChannels : clean' => Gives(c, dacOutput[c])'
    BY <1>1, <2>1 DEF Gives
  <2>3. DOMAIN dac' = DacChannels /\ dacOutput' \in [DacChannels -> Byte] /\ stage' = "loop"
    BY <1>1 DEF Inv, DacGives
  <2>4. QED
    BY <1>3, <2>2, <2>3 DEF DacGives
<1>10. SensorShifts'
  <2>1. script' # <<>>
    BY <1>1, Pairs
  <2>2. Prefix(Bytes(sensor))' = <<>>
    BY <1>1 DEF Prefix
  <2>3. cs'["temp"] # "low"
    BY <1>7 DEF NoneLow, Chips
  <2>4. QED
    BY <1>1, <2>1, <2>2, <2>3 DEF SensorShifts
<1>11. QED
  BY <1>1, <1>5, <1>6, <1>8, <1>9, <1>10, TempKept DEF Inv

\* What a word says: one that is ready is valid, and one below zero, which has
\* its sign bit set, is over temperature; another one converts to what it was.
LEMMA WordSays ==
    ASSUME NEW t \in Temperatures, NEW v \in BOOLEAN
    PROVE  LET w == TempWord(t, v) IN
           /\ w \in Nat
           /\ TC77_IsReady(w) => v = TRUE
           /\ ~TC77_IsOverTemp(w) => TC77_ConvertToTemp(w) = t
<1> DEFINE m == t % 8192
           w == TempWord(t, v)
<1>1. t \in -880 .. 2400
  BY TC77Assumption
<1>2. m \in 0 .. 8191 /\ (t >= 0 => m = t) /\ (t < 0 => m >= 7312)
  <2> DEFINE q == t \div 8192
  <2>1. q \in Int /\ m \in 0 .. 8191 /\ t = 8192 * q + m
    BY <1>1
  <2> HIDE DEF q, m
  <2>2. t >= 0 => q = 0
    BY <1>1, <2>1
  <2>3. t < 0 => q = -1
    BY <1>1, <2>1
  <2>4. QED
    BY <1>1, <2>1, <2>2, <2>3
<1>3. w = m * 8 + IF v THEN 4 ELSE 0
  BY DEF TempWord
<1> HIDE DEF m, w
<1>4. v = TRUE \/ v = FALSE
  OBVIOUS
<1>5. v = TRUE => w = m * 8 + 4
  BY <1>3
<1>6. v = FALSE => w = m * 8
  BY <1>2, <1>3
<1>7. w \in Nat /\ w \div 8 = m
  <2>1. m * 8 \in Nat /\ (m * 8) \div 8 = m /\ (m * 8 + 4) \div 8 = m
    BY <1>2
  <2>2. QED
    BY <1>2, <1>4, <1>5, <1>6, <2>1
<1>8. TC77_IsReady(w) => v = TRUE
  <2>1. (m * 8) \div 4 = 2 * m
    BY <1>2
  <2>2. (2 * m) % 2 = 0
    BY <1>2
  <2>3. v = FALSE => (w \div 4) % 2 = 0
    BY <1>6, <2>1, <2>2
  <2>4. QED
    BY <1>4, <2>3 DEF TC77_IsReady
<1>9. ~TC77_IsOverTemp(w) => m = t
  <2>1. t < 0 => w >= 58496
    BY <1>2, <1>4, <1>5, <1>6
  <2>2. t < 0 => w \div 256 >= 62
    BY <1>7, <2>1
  <2>3. QED
    BY <1>1, <1>2, <2>2 DEF TC77_IsOverTemp, MSB_OVERTEMP
<1>10. QED
  BY <1>7, <1>8, <1>9 DEF TC77_ConvertToTemp, w

LEMMA TempSenseReadInv ==
    ASSUME Inv, TempSenseRead
    PROVE  Inv'
<1> DEFINE w == Word(inbox)
<1>1. /\ call.op = "temp" /\ script = <<>> /\ call' = Idle
      /\ UNCHANGED <<initialized, cs, script, sent, gain, dac, shifted, stage, dacOutput, clean>>
  BY DEF TempSenseRead, Quiet, Returns, bus, mcp4802, fault, wrapper
<1>2. /\ errorCondition' = (errorCondition \/ TC77_IsOverTemp(w))
      /\ previousReading' =
            IF TC77_IsOverTemp(w) \/ TC77_IsReady(w) THEN w ELSE previousReading
  BY DEF TempSenseRead, TC77_Store
<1> HIDE DEF w
<1>3. call'.op = "none" /\ stage = "loop" /\ errorCondition \in BOOLEAN
  BY <1>1 DEF Idle, Inv, SetupOrder
<1>4. call'.op \notin {"next", "dac", "output", "temp"} \cup AdcOps
  BY <1>3 DEF AdcOps
<1>5. SetupOrder'
  BY <1>1, <1>3, <1>4 DEF Inv, SetupOrder, Ops, Stages
<1>6. ScriptOfCall'
  BY <1>1, <1>3, <1>4 DEF ScriptOfCall
<1>7. Selection' /\ DacShifts'
  <2>1. NoneLow' /\ shifted' = <<>> /\ gain' \in Gains /\ sent' = 0
    BY <1>1, QuietIsNoneLow
  <2>2. QED
    BY <2>1, BetweenTransactions
<1>8. DacGives'
  <2>1. \A c \in DacChannels : clean => Gives(c, dacOutput[c])
    BY <1>1, <1>3 DEF Inv, DacGives
  <2>2. \A c \in DacChannels : clean' => Gives(c, dacOutput[c])'
    BY <1>1, <2>1 DEF Gives
  <2>3. DOMAIN dac' = DacChannels /\ dacOutput' \in [DacChannels -> Byte] /\ stage' = "loop"
    BY <1>1, <1>3 DEF Inv, DacGives
  <2>4. QED
    BY <1>3, <2>2, <2>3 DEF DacGives
<1>9. SensorShifts'
  BY <1>3 DEF SensorShifts
<1>10. errorCondition' \in BOOLEAN
  <2>1. TC77_IsOverTemp(w) \in BOOLEAN
    BY DEF TC77_IsOverTemp
  <2>2. QED
    BY <1>2, <1>3, <2>1
<1>11. ASSUME clean' PROVE TemperatureIsValid'
  <2>1. clean
    BY <1>1, <1>11
  <2>2. PICK word \in TempWords : inbox = Bytes(word)
    BY <1>1, <2>1 DEF Inv, SensorShifts
  <2>3. PICK t \in Temperatures, v \in BOOLEAN : word = TempWord(t, v)
    BY <2>2 DEF TempWords
  <2>4. /\ word \in Nat
        /\ TC77_IsReady(word) => v = TRUE
        /\ ~TC77_IsOverTemp(word) => TC77_ConvertToTemp(word) = t
    BY <2>3, WordSays
  <2>5. w = word
    BY <2>2, <2>4, WordOfBytes DEF w
  <2>6. CASE TC77_IsOverTemp(w)
    <3>1. previousReading' = word /\ errorCondition'
      BY <1>2, <2>5, <2>6
    <3>2. QED
      BY <2>2, <3>1 DEF TemperatureIsValid
  <2>7. CASE ~TC77_IsOverTemp(w) /\ TC77_IsReady(w)
    <3>1. previousReading' = word
      BY <1>2, <2>5, <2>7
    <3>2. word = TempWord(t, TRUE) /\ TC77_ConvertToTemp(word) = t
      BY <2>3, <2>4, <2>5, <2>7
    <3>3. QED
      BY <3>1, <3>2 DEF TemperatureIsValid
  <2>8. CASE ~TC77_IsOverTemp(w) /\ ~TC77_IsReady(w)
    <3>1. previousReading' = previousReading /\ errorCondition' = errorCondition
      BY <1>2, <1>3, <2>8
    <3>2. QED
      BY <1>1, <3>1, TempKept
  <2>9. QED
    BY <2>6, <2>7, <2>8
<1>12. TemperatureIsValid'
  BY <1>11 DEF TemperatureIsValid
<1>13. QED
  BY <1>5, <1>6, <1>7, <1>8, <1>9, <1>10, <1>12 DEF Inv

-----------------------------------------------------------------------------
(* The setup, a restart and the theorems *)

\* What a program begins with, whatever the DAC was left to give.
LEMMA BeginsInv ==
    ASSUME stage' = "spi", call' = Idle, script' = <<>>, sent' = 0,
           cs' = [chip \in Chips |-> "input"], gain' = highGain, shifted' = <<>>,
           DOMAIN dac' = DacChannels, dacOutput' = [ch \in DacChannels |-> 0],
           errorCondition' = FALSE, previousReading' = 0
    PROVE  Inv'
<1>1. call'.op = "none"
  BY DEF Idle
<1>2. SetupOrder'
  BY <1>1 DEF SetupOrder, Ops, Stages, AdcOps
<1>3. ScriptOfCall'
  BY <1>1 DEF ScriptOfCall, AdcOps
<1>4. Selection' /\ DacShifts'
  <2>1. NoneLow' /\ gain' \in Gains
    BY DEF NoneLow, Gains
  <2>2. QED
    BY <2>1, BetweenTransactions
<1>5. DacGives'
  BY <1>1 DEF DacGives, Byte
<1>6. SensorShifts'
  BY <1>1 DEF SensorShifts
<1>7. TemperatureIsValid'
  BY DEF TemperatureIsValid
<1>8. QED
  BY <1>2, <1>3, <1>4, <1>5, <1>6, <1>7 DEF Inv

LEMMA InitInv ==
    ASSUME Init
    PROVE  Inv
<1>1. /\ stage = "spi" /\ call = Idle /\ gain = highGain /\ shifted = <<>>
      /\ dac = DacInitial /\ dacOutput = [ch \in DacChannels |-> 0]
      /\ errorCondition = FALSE /\ previousReading = 0
      /\ script = <<>> /\ sent = 0 /\ cs = [chip \in Chips |-> "input"]
  BY DEF Init, BusInit
<1>2. call.op = "none"
  BY <1>1 DEF Idle
<1>3. SetupOrder
  BY <1>1, <1>2 DEF SetupOrder, Ops, Stages, AdcOps
<1>4. ScriptOfCall
  BY <1>1, <1>2 DEF ScriptOfCall, AdcOps
<1>5. Selection
  <2>1. cs \in [Chips -> {"input", "high", "low"}] /\ \A chip \in Chips : cs[chip] # "low"
    BY <1>1
  <2>2. QED
    BY <1>1, <2>1 DEF Selection, Gains
<1>6. DacShifts
  <2>1. cs["dac"] # "low"
    BY <1>1 DEF Chips
  <2>2. QED
    BY <2>1 DEF DacShifts
<1>7. DacGives
  BY <1>1, <1>2 DEF DacGives, DacInitial, Byte
<1>8. SensorShifts
  BY <1>2 DEF SensorShifts
<1>9. TemperatureIsValid
  BY <1>1 DEF TemperatureIsValid
<1>10. QED
  BY <1>1, <1>3, <1>4, <1>5, <1>6, <1>7, <1>8, <1>9 DEF Inv

LEMMA RestartInv ==
    ASSUME Inv, Restart
    PROVE  Inv'
<1>1. /\ stage' = "spi" /\ call' = Idle /\ script' = <<>> /\ sent' = 0
      /\ cs' = [chip \in Chips |-> "input"] /\ gain' = highGain /\ shifted' = <<>>
      /\ dac' = dac /\ dacOutput' = [ch \in DacChannels |-> 0]
      /\ errorCondition' = FALSE /\ previousReading' = 0
  BY DEF Restart
<1>2. DOMAIN dac' = DacChannels
  BY <1>1 DEF Inv, DacGives
<1>3. QED
  BY <1>1, <1>2, BeginsInv

LEMMA SetupSpiInv ==
    ASSUME Inv, SetupSpi
    PROVE  Inv'
<1>1. /\ stage = "spi" /\ call = Idle /\ stage' = "dac" /\ initialized' = TRUE
      /\ cs' = IF cs["adc"] = "input" THEN [cs EXCEPT !["adc"] = "high"] ELSE cs
      /\ UNCHANGED <<script, sent, gain, dac, shifted, call, dacOutput, clean,
                     errorCondition, previousReading>>
  BY DEF SetupSpi, Ready, SpiBegin, mcp4802, tc77, fault
<1>2. script = <<>> /\ call.op = "none"
  BY <1>1, IdleIsQuiet
<1>3. SetupOrder'
  BY <1>1, <1>2 DEF SetupOrder, Ops, Stages, AdcOps
<1>4. ScriptOfCall'
  BY <1>1, <1>2 DEF ScriptOfCall, AdcOps
<1>5. Selection' /\ DacShifts'
  <2>1. cs' = [cs EXCEPT !["adc"] = "high"] \/ cs' = cs
    BY <1>1
  <2>2. NoneLow' /\ shifted' = <<>> /\ sent' = 0 /\ gain' \in Gains
    BY <1>1, <1>2, <2>1, QuietIsNoneLow DEF Chips
  <2>3. QED
    BY <2>2, BetweenTransactions
<1>6. DacGives'
  BY <1>1, <1>2 DEF Inv, DacGives
<1>7. SensorShifts'
  BY <1>1, <1>2 DEF SensorShifts
<1>8. QED
  BY <1>1, <1>3, <1>4, <1>5, <1>6, <1>7, TempKept DEF Inv

LEMMA EnvironmentInv ==
    ASSUME Inv, AdcConverts \/ TimePasses \/ UNCHANGED vars
    PROVE  Inv'
<1>1. UNCHANGED <<bus, gain, dac, shifted, errorCondition, previousReading, sensor,
                  stage, call, dacOutput, clean>>
  BY DEF AdcConverts, TimePasses, vars, mcp4802, tc77, wrapper, fault
<1>2. QED
  BY <1>1, Frame

LEMMA NextInv ==
    ASSUME Inv, [Next]_vars
    PROVE  Inv'
<1>1. CASE Bus
  BY <1>1, OpenInv, TransferInv, CloseInv DEF Bus
<1>2. CASE Garble
  BY <1>2, TransferInv
<1>3. CASE Program
  <2>1. CASE AdcInit
    <3>1. stage = "adc" /\ call = Idle /\ InitAdc(0)
      BY <2>1 DEF AdcInit, Ready
    <3>2. QED
      BY <3>1, IdleIsQuiet, InitAdcInv
  <2>2. CASE AdcInitNext
    <3>1. call.op = "next" /\ InitAdc(1)
      BY <2>2 DEF AdcInitNext
    <3>2. script = <<>> /\ stage = "adc"
      BY <3>1 DEF Inv, ScriptOfCall, SetupOrder
    <3>3. QED
      BY <3>1, <3>2, InitAdcInv
  <2>3. QED
    BY <1>3, <2>1, <2>2, SetupSpiInv, DacInitInv, TempSenseInitInv, DacSetOutputInv,
       DacSetGainInv, AdcProgramInv, TempSenseUpdateInv DEF Program
<1>4. CASE Continue
  BY <1>4, AdcInitReturnsInv, DacCallReturnsInv, AdcPolledInv, AdcDoneInv, AdcGainReadInv,
     GainStepReadInv, TempSenseReadInv DEF Continue
<1>5. CASE Restart
  BY <1>5, RestartInv
<1>6. CASE AdcConverts \/ TimePasses \/ UNCHANGED vars
  BY <1>6, EnvironmentInv
<1>7. QED
  BY <1>1, <1>2, <1>3, <1>4, <1>5, <1>6 DEF Next

\* The invariant holds in every state: one chip is selected at most, the call
\* in progress tells which transactions are left, and what was clocked into the
\* DAC and out of the sensor is a prefix of the word that was meant.
THEOREM Invariance == Spec => []Inv
<1>1. Init => Inv
  BY InitInv
<1>2. Inv /\ [Next]_vars => Inv'
  BY NextInv
<1>3. QED
  BY <1>1, <1>2, PTL DEF Spec

\* The DAC gives what the copies of the wrapper say, on both of its channels,
\* whenever the loop is between two calls and no byte was garbled: through every
\* interleaving of calls and restarts.
THEOREM DacMatches == Spec => []DacMatchesCopy
<1>1. Inv => DacMatchesCopy
  <2> SUFFICES ASSUME Inv, ToLoop, clean, NEW ch \in DacChannels
               PROVE  Gives(ch, dacOutput[ch])
    BY DEF DacMatchesCopy, Gives
  <2>1. stage = "loop" /\ call.op = "none"
    BY DEF ToLoop, Idle
  <2>2. QED
    BY <2>1 DEF Inv, DacGives
<1>2. QED
  BY <1>1, Invariance, PTL

\* A stored temperature is none, or one that the sensor gave as valid and that
\* converts to what was measured, or over temperature with the error to tell so.
THEOREM TemperatureValid == Spec => []TemperatureIsValid
<1>1. Inv => TemperatureIsValid
  BY DEF Inv
<1>2. QED
  BY <1>1, Invariance, PTL
-----------------------------------------------------------------------------
(* The invariant of the ADC *)

Fields == {"reg", "reads", "ch", "low", "setup", "clock", "converted", "ready"}

Converter(d) ==
    /\ DOMAIN d = Fields
    /\ d.reg \in Int /\ d.ch \in Channels /\ d.converted \in Channels
    /\ d.reads \in BOOLEAN /\ d.low \in BOOLEAN /\ d.ready \in BOOLEAN
    /\ d.setup \in [Channels -> Int] /\ d.clock \in [Channels -> Int]
    /\ d.ready => d.converted = d.ch

\* It takes the next byte for a request; or it has taken one of the call's.
Awaits(d) == d.reg = CommsReg /\ ~d.reads

AsksToRead(reg)  == adc.reg = reg /\ adc.reads /\ adc.ch = call.ch /\ ~adc.low
AsksToWrite(reg) == adc.reg = reg /\ ~adc.reads /\ adc.ch = call.ch /\ ~adc.low

\* What is left of a call is the end of these transactions, some of them reads.
Sends(outs, reading) ==
    /\ Len(script) <= Len(outs)
    /\ \A i \in 1 .. Len(script) :
           LET n == Len(outs) - Len(script) + i IN
           script[i].out = outs[n] /\ (script[i].reads <=> n \in reading)

InitOuts(ch) ==
    <<<<RequestRegWrite(ClockReg, ch)>>, <<ClockSettings>>,
      <<RequestRegWrite(SetupReg, ch)>>, <<SetupSettings>>,
      <<RequestRegRead(ClockReg, ch)>>, <<0>>, <<RequestRegRead(SetupReg, ch)>>, <<0>>>>

ReadOuts(reg, ch) == <<<<RequestRegRead(reg, ch)>>, <<0>>>>
DataOuts(ch) == <<<<RequestRegRead(DataReg, ch)>>, <<0, 0>>>>
GainOuts(ch, byte) == <<<<RequestRegWrite(SetupReg, ch)>>, <<byte>>>>

\* How many bytes of a call of n transactions have been transferred.
Place(n) == n - Len(script) + sent
DataPlace == IF script = <<>> THEN 3 ELSE Place(2)

AdcScriptOfCall ==
    call.op \in AdcOps =>
        /\ call.ch \in Channels /\ inbox \in Seq(Int)
        /\ script # <<>> => sent = 0 \/ sent <= Len(Head(script).out)
        /\ call.op = "init" =>
              /\ Sends(InitOuts(call.ch), {6, 8})
              /\ Len(inbox) = IF Place(8) < 6 THEN 0 ELSE IF Place(8) < 8 THEN 1 ELSE 2
        /\ call.op = "poll" =>
              Sends(ReadOuts(CommsReg, call.ch), {2}) /\ Len(inbox) = IF Place(2) < 2 THEN 0 ELSE 1
        /\ call.op \in {"gain", "step"} =>
              Sends(ReadOuts(SetupReg, call.ch), {2}) /\ Len(inbox) = IF Place(2) < 2 THEN 0 ELSE 1
        /\ call.op = "data" =>
              /\ Sends(DataOuts(call.ch), {2})
              /\ Len(inbox) = IF DataPlace < 2 THEN 0 ELSE DataPlace - 1
        /\ call.op = "gain_set" => \E byte \in Int : Sends(GainOuts(call.ch, byte), {})

\* An initialisation is verified only by what the converter really has: from any
\* state that it may be in, and whatever is garbled.
ReadBackAt(t) ==
    /\ t = 5 => \/ ~adc.reads \/ AsksToRead(ClockReg)
                \/ adc.reg = DataReg /\ adc.low
                \/ adc.reg = 7
    /\ t = 6 /\ inbox[1] = ClockSettings => Awaits(adc) /\ adc.clock[call.ch] = ClockSettings
    /\ t = 7 /\ inbox[1] = ClockSettings =>
          /\ adc.clock[call.ch] = ClockSettings
          /\ Awaits(adc) \/ AsksToRead(SetupReg) \/ (adc.reads /\ adc.reg = 7)
    /\ t = 8 /\ IsVerified =>
          adc.clock[call.ch] = ClockSettings /\ adc.setup[call.ch] = SetupSettings

\* On a clean bus the converter takes the bytes of an initialisation for what
\* they are; or it was left amid a transfer, and is back in step before the end.
InStep(t) ==
    /\ t \in {0, 2, 4, 6, 8} => Awaits(adc)
    /\ t = 1 => AsksToWrite(ClockReg)
    /\ t = 3 => AsksToWrite(SetupReg)
    /\ t = 5 => AsksToRead(ClockReg)
    /\ t = 7 => AsksToRead(SetupReg)

OutOfStep(t) ==
    /\ t <= 5
    /\ t = 1 => Awaits(adc) \/ (adc.reads /\ adc.reg = DataReg /\ adc.low)
    /\ t = 2 => adc.reg = SetupReg /\ ~adc.reads
    /\ t \in {3, 5} => Awaits(adc)
    /\ t = 4 => adc.reg = 4 /\ ~adc.reads

InitAt(t) == InStep(t) \/ (call.ch = 0 /\ OutOfStep(t))

PollAt(t) ==
    /\ t = 0 => Awaits(adc)
    /\ t = 1 => AsksToRead(CommsReg)
    /\ t = 2 => Awaits(adc) /\ adc.ch = call.ch /\ (inbox[1] < 128 => adc.ready)

DataAt(t) ==
    /\ t = 0 => Awaits(adc)
    /\ t = 1 => AsksToRead(DataReg)
    /\ t = 2 => adc.reads /\ adc.reg = DataReg /\ adc.low /\ inbox[1] = ResultByte(call.ch)
    /\ t = 3 => Awaits(adc) /\ inbox = Sample(call.ch)
    /\ t < 3 => adc.ready /\ adc.ch = call.ch

GainAt(t) ==
    /\ t = 0 => Awaits(adc)
    /\ t = 1 => AsksToRead(SetupReg)
    /\ t = 2 => Awaits(adc) /\ inbox[1] = adc.setup[call.ch]

GainSetAt(t) ==
    /\ t \in {0, 2} => Awaits(adc)
    /\ t = 1 => AsksToWrite(SetupReg)

Synchronous ==
    clean =>
        /\ (stage \in {"temp", "loop"} \/ call.op = "next") /\ call.op \notin AdcOps => Awaits(adc)
        /\ call.op = "init" => InitAt(Place(8))
        /\ call.op = "poll" => PollAt(Place(2))
        /\ call.op = "data" => DataAt(DataPlace)
        /\ call.op \in {"gain", "step"} => GainAt(Place(2))
        /\ call.op = "gain_set" => GainSetAt(Place(2))

\* The gain that the program has set last is the one that the call in progress
\* is about to set, or the one that a channel has.
Stepped(g) ==
    LET next == g + IF call.arg = 1 THEN 1 ELSE -1 IN
        IF next \in 0 .. PGA_MASK THEN next ELSE g

HasGain(ch, g) ==
    /\ adc.setup[ch] = WithGain(SetupSettings, g)
    /\ IF ch = call.ch /\ call.op = "step" THEN wanted[ch] = Stepped(g)
       ELSE IF ch = call.ch /\ call.op = "gain" THEN wanted[ch] = call.arg
       ELSE IF ch = call.ch /\ call.op = "gain_set" /\ Place(2) < 2
       THEN script[Len(script)].out = <<WithGain(SetupSettings, wanted[ch])>>
       ELSE wanted[ch] = g

IsSet(ch) == adc.clock[ch] = ClockSettings /\ \E g \in 0 .. PGA_MASK : HasGain(ch, g)

Verified ==
    /\ verified \subseteq Channels /\ wanted \in [Channels -> 0 .. PGA_MASK]
    /\ stage # "loop" => wanted = [ch \in Channels |-> 0]
    /\ stage \in {"spi", "dac", "adc"} => verified \subseteq {0}
    /\ stage \in {"spi", "dac"} \/ (stage = "adc" /\ call.op \in {"dac", "none"}) => verified = {}
    /\ call.op = "init" /\ call.ch = 0 => verified = {}
    /\ call.op = "step" => call.arg \in {1, 255}
    /\ call.op = "gain" => call.arg \in 0 .. PGA_MASK
    /\ clean => \A ch \in verified : IsSet(ch)

AdcInv ==
    /\ Converter(adc) /\ AdcScriptOfCall
    /\ call.op = "init" => ReadBackAt(Place(8))
    /\ Synchronous /\ Verified

-----------------------------------------------------------------------------
(* What the converter makes of a byte *)

SameRegisters(e, d) == e.setup = d.setup /\ e.clock = d.clock

LEMMA AwaitIs ==
    ASSUME NEW d, Converter(d)
    PROVE  LET e == AwaitRequest(d) IN
           /\ Converter(e) /\ Awaits(e) /\ SameRegisters(e, d)
           /\ e.ch = d.ch /\ e.converted = d.converted /\ e.ready = d.ready
BY DEF Converter, Fields, Awaits, AwaitRequest, CommsReg, SameRegisters

LEMMA RequestIs ==
    ASSUME NEW d, Converter(d), NEW byte \in Int
    PROVE  LET e == TakeRequest(d, byte) IN
           /\ Converter(e) /\ SameRegisters(e, d)
           /\ e.reg = (byte \div 16) % 8 /\ (e.reads <=> (byte \div 8) % 2 = 1)
           /\ e.ch = byte % 2 /\ ~e.low /\ e.converted = d.converted
           /\ e.ready <=> d.ready /\ e.ch = d.ch
<1> DEFINE r == (byte \div 16) % 8
           c == byte % 2
           t == (byte \div 8) % 2 = 1
           y == d.ready /\ c = d.ch
<1>1. r \in Int /\ c \in Channels
  BY DEF Channels
<1>2. t \in BOOLEAN /\ y \in BOOLEAN
  OBVIOUS
<1>3. TakeRequest(d, byte) = [d EXCEPT !.reg = r, !.reads = t, !.ch = c, !.low = FALSE, !.ready = y]
  BY DEF TakeRequest, Converter, Fields
<1>4. y => d.converted = c
  BY DEF Converter
<1> HIDE DEF r, c, t, y
<1> DEFINE e == [d EXCEPT !.reg = r, !.reads = t, !.ch = c, !.low = FALSE, !.ready = y]
<1>5. e.reg = r /\ e.ch = c /\ (e.reads <=> t) /\ ~e.low /\ (e.ready <=> y)
  BY DEF Converter, Fields
<1>6. Converter(e) /\ SameRegisters(e, d) /\ e.converted = d.converted
  BY <1>1, <1>2, <1>4 DEF Converter, Fields, SameRegisters
<1>7. QED
  BY <1>3, <1>5, <1>6 DEF r, c, t, y

LEMMA SetupIs ==
    ASSUME NEW d, Converter(d), NEW byte \in Int
    PROVE  LET e == [AwaitRequest(d) EXCEPT !.setup[d.ch] = byte] IN
           /\ Converter(e) /\ Awaits(e) /\ e.clock = d.clock
           /\ e.setup = [d.setup EXCEPT ![d.ch] = byte]
           /\ e.ch = d.ch /\ e.converted = d.converted /\ e.ready = d.ready
<1> DEFINE a == AwaitRequest(d)
           s == [d.setup EXCEPT ![d.ch] = byte]
           e == [a EXCEPT !.setup = s]
<1>1. /\ Converter(a) /\ Awaits(a) /\ SameRegisters(a, d)
      /\ a.ch = d.ch /\ a.converted = d.converted /\ a.ready = d.ready
  BY AwaitIs
<1>2. s \in [Channels -> Int]
  BY DEF Converter
<1>3. [AwaitRequest(d) EXCEPT !.setup[d.ch] = byte] = e
  BY <1>1 DEF SameRegisters
<1> HIDE DEF a, s
<1>4. QED
  BY <1>1, <1>2, <1>3 DEF Converter, Fields, Awaits, SameRegisters, s

LEMMA ClockIs ==
    ASSUME NEW d, Converter(d), NEW byte \in Int
    PROVE  LET e == [AwaitRequest(d) EXCEPT !.clock[d.ch] = byte] IN
           /\ Converter(e) /\ Awaits(e) /\ e.setup = d.setup
           /\ e.clock = [d.clock EXCEPT ![d.ch] = byte]
           /\ e.ch = d.ch /\ e.converted = d.converted /\ e.ready = d.ready
<1> DEFINE a == AwaitRequest(d)
           s == [d.clock EXCEPT ![d.ch] = byte]
           e == [a EXCEPT !.clock = s]
<1>1. /\ Converter(a) /\ Awaits(a) /\ SameRegisters(a, d)
      /\ a.ch = d.ch /\ a.converted = d.converted /\ a.ready = d.ready
  BY AwaitIs
<1>2. s \in [Channels -> Int]
  BY DEF Converter
<1>3. [AwaitRequest(d) EXCEPT !.clock[d.ch] = byte] = e
  BY <1>1 DEF SameRegisters
<1> HIDE DEF a, s
<1>4. QED
  BY <1>1, <1>2, <1>3 DEF Converter, Fields, Awaits, SameRegisters, s

LEMMA LowIs ==
    ASSUME NEW d, Converter(d)
    PROVE  LET e == [d EXCEPT !.low = TRUE] IN
           /\ Converter(e) /\ SameRegisters(e, d) /\ e.low
           /\ e.reg = d.reg /\ e.reads = d.reads
           /\ e.ch = d.ch /\ e.converted = d.converted /\ e.ready = d.ready
BY DEF Converter, Fields, SameRegisters

LEMMA GivenIs ==
    ASSUME NEW d, Converter(d)
    PROVE  LET e == [AwaitRequest(d) EXCEPT !.ready = FALSE] IN
           /\ Converter(e) /\ Awaits(e) /\ SameRegisters(e, d) /\ e.ch = d.ch
<1> DEFINE a == AwaitRequest(d)
<1>1. Converter(a) /\ Awaits(a) /\ SameRegisters(a, d) /\ a.ch = d.ch
  BY AwaitIs
<1> HIDE DEF a
<1>2. LET e == [a EXCEPT !.ready = FALSE] IN
         Converter(e) /\ Awaits(e) /\ SameRegisters(e, d) /\ e.ch = d.ch
  BY <1>1 DEF Converter, Fields, Awaits, SameRegisters
<1>3. QED
  BY <1>2 DEF a

\* What becomes of the converter, except for a request and a register's value.
ShiftsTo(e, d) ==
    /\ d.reads \/ d.reg \notin {CommsReg, SetupReg} => e.setup = d.setup
    /\ d.reads \/ d.reg \notin {CommsReg, ClockReg} => e.clock = d.clock
    /\ ~Awaits(d) /\ ~(d.reads /\ d.reg = DataReg /\ ~d.low) => Awaits(e) /\ e.ch = d.ch
    /\ d.reads /\ d.reg = DataReg /\ ~d.low =>
          /\ e.reads /\ e.reg = DataReg /\ e.low
          /\ e.ch = d.ch /\ e.converted = d.converted /\ e.ready = d.ready
    /\ d.reads /\ d.reg # DataReg => e.ready = d.ready

\* A byte is a request, the value of a register, or clocks a register out.
LEMMA ShiftIs ==
    ASSUME NEW d, Converter(d), NEW byte \in Int, NEW e, e = AdcShift(d, byte)
    PROVE  /\ Converter(e) /\ ShiftsTo(e, d)
           /\ Awaits(d) => e = TakeRequest(d, byte)
           /\ ~d.reads /\ d.reg = SetupReg =>
                 /\ e.setup[d.ch] = byte
                 /\ \A c \in Channels \ {d.ch} : e.setup[c] = d.setup[c]
           /\ ~d.reads /\ d.reg = ClockReg =>
                 /\ e.clock[d.ch] = byte
                 /\ \A c \in Channels \ {d.ch} : e.clock[c] = d.clock[c]
<1> DEFINE a == AwaitRequest(d)
           x1 == [d EXCEPT !.low = TRUE]
           x2 == [a EXCEPT !.ready = FALSE]
           x3 == TakeRequest(d, byte)
           x4 == [a EXCEPT !.setup[d.ch] = byte]
           x5 == [a EXCEPT !.clock[d.ch] = byte]
<1>0. e = CASE d.reads /\ d.reg = DataReg /\ ~d.low -> x1
            [] d.reads /\ d.reg = DataReg /\ d.low  -> x2
            [] d.reads /\ d.reg # DataReg -> a
            [] ~d.reads /\ d.reg = CommsReg -> x3
            [] ~d.reads /\ d.reg = SetupReg -> x4
            [] ~d.reads /\ d.reg = ClockReg -> x5
            [] OTHER -> a
  BY DEF AdcShift
<1>1. /\ Converter(a) /\ Awaits(a) /\ SameRegisters(a, d)
      /\ a.ch = d.ch /\ a.converted = d.converted /\ a.ready = d.ready
  BY AwaitIs
<1>2. /\ Converter(x1) /\ SameRegisters(x1, d) /\ x1.low
      /\ x1.reg = d.reg /\ x1.reads = d.reads
      /\ x1.ch = d.ch /\ x1.converted = d.converted /\ x1.ready = d.ready
  BY LowIs
<1>3. Converter(x2) /\ Awaits(x2) /\ SameRegisters(x2, d) /\ x2.ch = d.ch
  BY GivenIs
<1>4. Converter(x3) /\ SameRegisters(x3, d)
  BY RequestIs
<1>5. /\ Converter(x4) /\ Awaits(x4) /\ x4.clock = d.clock
      /\ x4.setup = [d.setup EXCEPT ![d.ch] = byte] /\ x4.ch = d.ch
  BY SetupIs
<1>6. /\ Converter(x5) /\ Awaits(x5) /\ x5.setup = d.setup
      /\ x5.clock = [d.clock EXCEPT ![d.ch] = byte] /\ x5.ch = d.ch
  BY ClockIs
<1>7. d.reads \in BOOLEAN /\ d.low \in BOOLEAN
  BY DEF Converter
<1>8. CommsReg = 0 /\ SetupReg = 1 /\ ClockReg = 2 /\ DataReg = 3
  BY DEF CommsReg, SetupReg, ClockReg, DataReg
<1> HIDE DEF a, x1, x2, x3, x4, x5
<1>9. /\ Converter(e)
      /\ ~d.reads /\ d.reg = CommsReg => e = TakeRequest(d, byte)
      /\ d.reads \/ d.reg \notin {CommsReg, SetupReg} => e.setup = d.setup
      /\ d.reads \/ d.reg \notin {CommsReg, ClockReg} => e.clock = d.clock
      /\ ~d.reads /\ d.reg = SetupReg => e.setup = [d.setup EXCEPT ![d.ch] = byte]
      /\ ~d.reads /\ d.reg = ClockReg => e.clock = [d.clock EXCEPT ![d.ch] = byte]
      /\ ~(d.reads /\ d.reg = DataReg /\ ~d.low) /\ ~(~d.reads /\ d.reg = CommsReg) =>
            Awaits(e) /\ e.ch = d.ch
      /\ d.reads /\ d.reg = DataReg /\ ~d.low =>
            /\ e.reads /\ e.reg = DataReg /\ e.low
            /\ e.ch = d.ch /\ e.converted = d.converted /\ e.ready = d.ready
      /\ d.reads /\ d.reg # DataReg => e.ready = d.ready
  <2>1. CASE d.reads /\ d.reg = DataReg /\ ~d.low
    BY <1>0, <1>2, <1>7, <1>8, <2>1 DEF SameRegisters
  <2>2. CASE d.reads /\ d.reg = DataReg /\ d.low
    BY <1>0, <1>3, <1>7, <1>8, <2>2 DEF SameRegisters
  <2>3. CASE d.reads /\ d.reg # DataReg
    BY <1>0, <1>1, <1>7, <1>8, <2>3 DEF SameRegisters
  <2>4. CASE ~d.reads /\ d.reg = CommsReg
    <3>1. e = x3
      BY <1>0, <1>8, <2>4
    <3>2. QED
      BY <3>1, <1>4, <1>8, <2>4 DEF x3, SameRegisters
  <2>5. CASE ~d.reads /\ d.reg = SetupReg
    BY <1>0, <1>5, <1>7, <1>8, <2>5
  <2>6. CASE ~d.reads /\ d.reg = ClockReg
    BY <1>0, <1>6, <1>7, <1>8, <2>6
  <2>7. CASE ~d.reads /\ d.reg \notin {CommsReg, SetupReg, ClockReg}
    BY <1>0, <1>1, <1>7, <1>8, <2>7 DEF SameRegisters
  <2>8. QED
    BY <1>7, <2>1, <2>2, <2>3, <2>4, <2>5, <2>6, <2>7
<1>10. ~Awaits(d) <=> ~(~d.reads /\ d.reg = CommsReg)
  BY DEF Awaits
<1>11. ~d.reads /\ d.reg = SetupReg =>
         e.setup[d.ch] = byte /\ \A c \in Channels \ {d.ch} : e.setup[c] = d.setup[c]
  BY <1>9 DEF Converter
<1>12. ~d.reads /\ d.reg = ClockReg =>
         e.clock[d.ch] = byte /\ \A c \in Channels \ {d.ch} : e.clock[c] = d.clock[c]
  BY <1>9 DEF Converter
<1>13. QED
  BY <1>9, <1>10, <1>11, <1>12 DEF ShiftsTo

\* The requests of the driver, and what other bytes are when taken for requests.
LEMMA RequestBits ==
    /\ \A reg \in {CommsReg, SetupReg, ClockReg, DataReg}, ch \in Channels :
          /\ LET b == RequestRegRead(reg, ch) IN
             b \in Int /\ (b \div 16) % 8 = reg /\ (b \div 8) % 2 = 1 /\ b % 2 = ch
          /\ LET b == RequestRegWrite(reg, ch) IN
             b \in Int /\ (b \div 16) % 8 = reg /\ (b \div 8) % 2 = 0 /\ b % 2 = ch
    /\ (0 \div 16) % 8 = 0 /\ (0 \div 8) % 2 = 0
    /\ (255 \div 16) % 8 = 7 /\ (255 \div 8) % 2 = 1
    /\ ClockSettings = 145 /\ (145 \div 16) % 8 = 1 /\ (145 \div 8) % 2 = 0
    /\ SetupSettings = 68 /\ (68 \div 16) % 8 = 4 /\ (68 \div 8) % 2 = 0
BY DEF RequestRegRead, RequestRegWrite, Channels, CommsReg, SetupReg, ClockReg, DataReg,
       ClockSettings, SetupSettings

LEMMA AwaitedIs ==
    ASSUME NEW d, Converter(d), Awaits(d), NEW byte \in Int, NEW e, e = AdcShift(d, byte)
    PROVE  /\ SameRegisters(e, d) /\ ~e.low /\ e.converted = d.converted
           /\ e.ready <=> d.ready /\ e.ch = d.ch
           /\ \A reg \in {CommsReg, SetupReg, ClockReg, DataReg}, ch \in Channels :
                 /\ byte = RequestRegRead(reg, ch) => e.reg = reg /\ e.reads /\ e.ch = ch
                 /\ byte = RequestRegWrite(reg, ch) => e.reg = reg /\ ~e.reads /\ e.ch = ch
           /\ byte = 0 => Awaits(e)
           /\ byte = 255 => e.reg = 7 /\ e.reads
           /\ byte = ClockSettings => e.reg = SetupReg /\ ~e.reads
           /\ byte = SetupSettings => e.reg = 4 /\ ~e.reads
<1>1. e = TakeRequest(d, byte)
  BY ShiftIs
<1>2. /\ Converter(e) /\ SameRegisters(e, d)
      /\ e.reg = (byte \div 16) % 8 /\ (e.reads <=> (byte \div 8) % 2 = 1)
      /\ e.ch = byte % 2 /\ ~e.low /\ e.converted = d.converted
      /\ e.ready <=> d.ready /\ e.ch = d.ch
  <2> DEFINE x == TakeRequest(d, byte)
  <2>1. /\ Converter(x) /\ SameRegisters(x, d)
        /\ x.reg = (byte \div 16) % 8 /\ (x.reads <=> (byte \div 8) % 2 = 1)
        /\ x.ch = byte % 2 /\ ~x.low /\ x.converted = d.converted
        /\ x.ready <=> d.ready /\ x.ch = d.ch
    BY RequestIs
  <2> HIDE DEF x
  <2>2. e = x
    BY <1>1 DEF x
  <2>3. QED
    BY <2>1, <2>2
<1>3. CommsReg = 0 /\ SetupReg = 1
  BY DEF CommsReg, SetupReg
<1>4. ASSUME NEW reg \in {CommsReg, SetupReg, ClockReg, DataReg}, NEW ch \in Channels
      PROVE  /\ byte = RequestRegRead(reg, ch) => e.reg = reg /\ e.reads /\ e.ch = ch
             /\ byte = RequestRegWrite(reg, ch) => e.reg = reg /\ ~e.reads /\ e.ch = ch
  BY <1>2, RequestBits
<1>5. byte = 0 => Awaits(e)
  BY <1>2, <1>3, RequestBits DEF Awaits
<1>6. /\ byte = 255 => e.reg = 7 /\ e.reads
      /\ byte = ClockSettings => e.reg = SetupReg /\ ~e.reads
      /\ byte = SetupSettings => e.reg = 4 /\ ~e.reads
  BY <1>2, <1>3, RequestBits
<1>7. QED
  BY <1>2, <1>4, <1>5, <1>6

-----------------------------------------------------------------------------
(* The transactions of the ADC *)

LEMMA SendsHead ==
    ASSUME NEW outs, NEW n \in Nat, n = Len(outs), NEW reading, NEW S, script \in Seq(S),
           script # <<>>, Sends(outs, reading)
    PROVE  /\ Len(script) \in 1 .. n
           /\ LET k == n - Len(script) + 1 IN
              Head(script).out = outs[k] /\ (Head(script).reads <=> k \in reading)
<1>1. Len(script) \in Nat /\ Len(script) # 0 /\ Head(script) = script[1]
  BY HeadTailProperties, EmptySeq, LenProperties
<1>2. Len(script) \in 1 .. n
  BY <1>1 DEF Sends
<1>3. 1 \in 1 .. Len(script)
  BY <1>1
<1>4. LET k == n - Len(script) + 1 IN
      script[1].out = outs[k] /\ (script[1].reads <=> k \in reading)
  BY <1>3 DEF Sends
<1>5. QED
  BY <1>1, <1>2, <1>4

LEMMA SendsRest ==
    ASSUME NEW outs, NEW n \in Nat, n = Len(outs), NEW reading, NEW S, script \in Seq(S),
           script # <<>>, Sends(outs, reading), script' = Tail(script)
    PROVE  Sends(outs, reading)' /\ Len(script') = Len(script) - 1
<1>1. /\ Len(script) \in Nat /\ Len(script) # 0
      /\ Len(Tail(script)) = Len(script) - 1
      /\ \A i \in 1 .. Len(Tail(script)) : Tail(script)[i] = script[i + 1]
  BY HeadTailProperties, EmptySeq, LenProperties
<1> DEFINE m == Len(script)
           t == Tail(script)
<1>2. m \in Nat /\ m # 0 /\ Len(t) = m - 1 /\ \A i \in 1 .. m - 1 : t[i] = script[i + 1]
  BY <1>1
<1>3. m <= n /\ \A i \in 1 .. m : script[i].out = outs[n - m + i]
                                  /\ (script[i].reads <=> n - m + i \in reading)
  BY DEF Sends
<1> HIDE DEF m, t
<1>4. \A i \in 1 .. m - 1 : t[i].out = outs[n - (m - 1) + i]
                            /\ (t[i].reads <=> n - (m - 1) + i \in reading)
  <2> TAKE i \in 1 .. m - 1
  <2>1. i + 1 \in 1 .. m /\ n - (m - 1) + i = n - m + (i + 1)
    BY <1>2
  <2>2. QED
    BY <1>2, <1>3, <2>1
<1>5. Len(t) <= n /\ \A i \in 1 .. Len(t) : t[i].out = outs[n - Len(t) + i]
                                  /\ (t[i].reads <=> n - Len(t) + i \in reading)
  BY <1>2, <1>3, <1>4
<1>6. script' = t
  BY DEF t
<1>7. Sends(outs, reading)'
  BY <1>5, <1>6 DEF Sends
<1>8. QED
  BY <1>2, <1>6, <1>7 DEF m

LEMMA SendsAll ==
    ASSUME NEW outs, NEW n \in Nat, n = Len(outs), NEW reading,
           Len(script') = n,
           \A i \in 1 .. n : /\ script'[i].out = outs[i]
                             /\ script'[i].reads <=> i \in reading
    PROVE  Sends(outs, reading)'
<1>1. \A i \in 1 .. n : n - n + i = i
  OBVIOUS
<1>2. QED
  BY <1>1 DEF Sends

\* The place in a call whose transactions are of one byte each.
LEMMA BytePlace ==
    ASSUME NEW outs, NEW n \in Nat, n = Len(outs), NEW reading, NEW S, script \in Seq(S),
           Sends(outs, reading), \A k \in 1 .. n : \E b : outs[k] = <<b>>,
           sent \in Nat, script = <<>> => sent = 0,
           script # <<>> => sent = 0 \/ sent <= Len(Head(script).out)
    PROVE  /\ Place(n) \in 0 .. n
           /\ script = <<>> => Place(n) = n
           /\ script # <<>> /\ sent < Len(Head(script).out) =>
                 /\ sent = 0 /\ Place(n) \in 0 .. n - 1
                 /\ Head(script).out = outs[Place(n) + 1]
                 /\ Head(script).reads <=> (Place(n) + 1) \in reading
           /\ script # <<>> /\ sent = Len(Head(script).out) => sent = 1
           /\ Place(n) < n => script # <<>>
<1>1. Len(script) \in Nat /\ (Len(script) = 0 <=> script = <<>>)
  BY EmptySeq, LenProperties
<1>2. CASE script = <<>>
  BY <1>1, <1>2 DEF Place
<1>3. CASE script # <<>>
  <2>1. /\ Len(script) \in 1 .. n
        /\ LET k == n - Len(script) + 1 IN
           Head(script).out = outs[k] /\ (Head(script).reads <=> k \in reading)
    BY <1>3, SendsHead
  <2> DEFINE k == n - Len(script) + 1
             h == Head(script).out
  <2>2. k \in 1 .. n /\ k \in Int
    BY <2>1
  <2>3. h = outs[k] /\ (Head(script).reads <=> k \in reading)
    BY <2>1
  <2>4. \A b : Len(<<b>>) = 1
    OBVIOUS
  <2>5. Len(h) = 1
    <3> HIDE DEF k, h
    <3>1. PICK b : outs[k] = <<b>>
      BY <2>2
    <3>2. QED
      BY <2>3, <2>4, <3>1
  <2>6. h = Head(script).out
    OBVIOUS
  <2> DEFINE l == Len(h)
             m == Len(script)
  <2>7. l = 1 /\ m \in 1 .. n /\ k = n - m + 1 /\ Place(n) = n - m + sent
    BY <2>1, <2>5 DEF Place
  <2> HIDE DEF k, h
  <2>10. (sent = 0 \/ sent <= l) /\ (sent < Len(Head(script).out) <=> sent < l)
             /\ (sent = Len(Head(script).out) <=> sent = l)
    BY <1>3, <2>6
  <2> HIDE DEF l, m
  <2>11. sent \in {0, 1} /\ Place(n) = k - 1 + sent
    BY <2>7, <2>10
  <2>8. sent < Len(Head(script).out) => sent = 0 /\ Place(n) + 1 = k
    BY <2>2, <2>7, <2>10, <2>11
  <2>9. Place(n) \in 0 .. n
    BY <2>2, <2>11
  <2>12. ASSUME sent < Len(Head(script).out)
         PROVE  /\ sent = 0 /\ Place(n) \in 0 .. n - 1
                /\ Head(script).out = outs[Place(n) + 1]
                /\ Head(script).reads <=> (Place(n) + 1) \in reading
    <3>1. sent = 0 /\ Place(n) + 1 = k
      BY <2>8, <2>12
    <3>2. Place(n) \in 0 .. n - 1
      BY <2>2, <2>9, <3>1
    <3>3. QED
      BY <2>3, <2>6, <3>1, <3>2
  <2>13. sent = Len(Head(script).out) => sent = 1
    BY <2>7, <2>10
  <2>14. QED
    BY <1>3, <2>9, <2>12, <2>13
<1>4. QED
  BY <1>2, <1>3

\* The place in a read of data.
LEMMA DataPlaces ==
    ASSUME NEW ch, NEW S, script \in Seq(S), Sends(DataOuts(ch), {2}),
           sent \in Nat, script = <<>> => sent = 0,
           script # <<>> => sent = 0 \/ sent <= Len(Head(script).out)
    PROVE  /\ DataPlace \in 0 .. 3 /\ (script = <<>> => DataPlace = 3)
           /\ script # <<>> /\ sent < Len(Head(script).out) =>
                 /\ DataPlace \in 0 .. 2
                 /\ Head(script).out[sent + 1] =
                       IF DataPlace = 0 THEN RequestRegRead(DataReg, ch) ELSE 0
                 /\ Head(script).reads <=> DataPlace # 0
                 /\ Len(script) - 2 + DataPlace = sent
           /\ script # <<>> /\ sent = Len(Head(script).out) =>
                 \/ Len(script) = 2 /\ DataPlace = 1
                 \/ Len(script) = 1 /\ DataPlace = 3
<1> DEFINE a == <<RequestRegRead(DataReg, ch)>>
           b == <<0, 0>>
           outs == <<a, b>>
<1>1. DataOuts(ch) = outs /\ Len(outs) = 2 /\ outs[1] = a /\ outs[2] = b
  BY DEF DataOuts
<1>2. Len(a) = 1 /\ a[1] = RequestRegRead(DataReg, ch) /\ Len(b) = 2 /\ b[1] = 0 /\ b[2] = 0
  OBVIOUS
<1> HIDE DEF a, b, outs
<1>3. CASE script = <<>>
  BY <1>3 DEF DataPlace
<1>4. CASE script # <<>>
  <2>1. /\ Len(script) \in 1 .. 2
        /\ LET k == 2 - Len(script) + 1 IN
           Head(script).out = outs[k] /\ (Head(script).reads <=> k \in {2})
    BY <1>1, <1>4, SendsHead
  <2>2. CASE Len(script) = 2
    <3>1. Head(script).out = a /\ ~Head(script).reads
      BY <1>1, <2>1, <2>2
    <3> DEFINE l == Len(Head(script).out)
               m == Len(script)
    <3>2. l = 1 /\ (sent = 0 \/ sent <= l) /\ m = 2 /\ DataPlace = 2 - m + sent
      BY <1>2, <1>4, <2>2, <3>1 DEF DataPlace, Place
    <3>3. Head(script).out[1] = a[1] /\ Head(script).out[2] = a[2]
      BY <3>1
    <3> HIDE DEF l, m
    <3>4. sent \in {0, 1} /\ DataPlace = sent /\ (sent < l => sent \in {0})
             /\ (sent = l => sent = 1) /\ m - 2 + DataPlace = sent
      BY <3>2
    <3>5. sent < l => Head(script).out[sent + 1] =
             IF DataPlace = 0 THEN RequestRegRead(DataReg, ch) ELSE 0
      BY <1>2, <3>3, <3>4
    <3>6. QED
      BY <1>4, <2>2, <3>1, <3>2, <3>4, <3>5 DEF l, m
  <2>3. CASE Len(script) = 1
    <3>1. Head(script).out = b /\ Head(script).reads
      BY <1>1, <2>1, <2>3
    <3> DEFINE l == Len(Head(script).out)
               m == Len(script)
    <3>2. l = 2 /\ (sent = 0 \/ sent <= l) /\ m = 1 /\ DataPlace = 2 - m + sent
      BY <1>2, <1>4, <2>3, <3>1 DEF DataPlace, Place
    <3>3. Head(script).out[1] = b[1] /\ Head(script).out[2] = b[2]
      BY <3>1
    <3> HIDE DEF l, m
    <3>4. sent \in {0, 1, 2} /\ DataPlace = sent + 1 /\ (sent < l => sent \in {0, 1})
             /\ (sent = l => sent = 2) /\ m - 2 + DataPlace = sent
      BY <3>2
    <3>5. sent < l => Head(script).out[sent + 1] =
             IF DataPlace = 0 THEN RequestRegRead(DataReg, ch) ELSE 0
      BY <1>2, <3>3, <3>4
    <3>6. QED
      BY <1>4, <2>3, <3>1, <3>2, <3>4, <3>5 DEF l, m
  <2>4. QED
    BY <2>1, <2>2, <2>3
<1>5. QED
  BY <1>3, <1>4

LEMMA AnswerIs ==
    ASSUME NEW d, Converter(d)
    PROVE  /\ AdcAnswer(d) \in Int
           /\ ~d.reads => AdcAnswer(d) = 0
           /\ d.reads /\ d.reg = CommsReg => AdcAnswer(d) = IF d.ready THEN 0 ELSE 128
           /\ d.reads /\ d.reg = SetupReg => AdcAnswer(d) = d.setup[d.ch]
           /\ d.reads /\ d.reg = ClockReg => AdcAnswer(d) = d.clock[d.ch]
           /\ d.reads /\ d.reg = DataReg /\ ~d.low => AdcAnswer(d) = ResultByte(d.converted)
           /\ d.reads /\ d.reg = DataReg /\ d.low => AdcAnswer(d) = IF d.ready THEN 1 ELSE 0
           /\ d.reg = 7 => AdcAnswer(d) = 0
<1>1. CommsReg = 0 /\ SetupReg = 1 /\ ClockReg = 2 /\ DataReg = 3
  BY DEF CommsReg, SetupReg, ClockReg, DataReg
<1>2. /\ d.setup[d.ch] \in Int /\ d.clock[d.ch] \in Int /\ ResultByte(d.converted) \in Int
      /\ d.reads \in BOOLEAN /\ d.low \in BOOLEAN /\ d.ready \in BOOLEAN
  BY DEF Converter, Channels, ResultByte
<1> DEFINE a == AdcAnswer(d)
<1>3. a = IF ~d.reads THEN 0
          ELSE CASE d.reg = CommsReg -> IF d.ready THEN 0 ELSE 128
                 [] d.reg = SetupReg -> d.setup[d.ch]
                 [] d.reg = ClockReg -> d.clock[d.ch]
                 [] d.reg = DataReg  -> IF d.low THEN IF d.ready THEN 1 ELSE 0
                                        ELSE ResultByte(d.converted)
                 [] OTHER -> 0
  BY DEF AdcAnswer
<1> HIDE DEF a
<1>4. CASE d.reg \notin {CommsReg, SetupReg, ClockReg, DataReg} \/ ~d.reads
  <2>1. a = 0
    BY <1>1, <1>2, <1>3, <1>4
  <2>2. QED
    BY <1>1, <1>2, <1>4, <2>1 DEF a
<1>5. CASE d.reads /\ d.reg = CommsReg
  <2>1. a = IF d.ready THEN 0 ELSE 128
    BY <1>1, <1>2, <1>3, <1>5
  <2>2. QED
    BY <1>1, <1>2, <1>5, <2>1 DEF a
<1>6. CASE d.reads /\ d.reg = SetupReg
  <2>1. a = d.setup[d.ch]
    BY <1>1, <1>2, <1>3, <1>6
  <2>2. QED
    BY <1>1, <1>2, <1>6, <2>1 DEF a
<1>7. CASE d.reads /\ d.reg = ClockReg
  <2>1. a = d.clock[d.ch]
    BY <1>1, <1>2, <1>3, <1>7
  <2>2. QED
    BY <1>1, <1>2, <1>7, <2>1 DEF a
<1>8. CASE d.reads /\ d.reg = DataReg
  <2>1. a = IF d.low THEN IF d.ready THEN 1 ELSE 0 ELSE ResultByte(d.converted)
    BY <1>1, <1>2, <1>3, <1>8
  <2>2. QED
    BY <1>1, <1>2, <1>8, <2>1 DEF a
<1>9. QED
  BY <1>2, <1>4, <1>5, <1>6, <1>7, <1>8

\* A byte is exchanged with the ADC; as long as none was garbled it is that of
\* the transaction, and the converter's own.
AdcStep(byte, answer) ==
    /\ script # <<>> /\ sent < Len(Head(script).out)
    /\ sent' = sent + 1 /\ UNCHANGED <<script, stage, call, verified, wanted>>
    /\ inbox' = IF Head(script).reads THEN Append(inbox, answer) ELSE inbox
    /\ adc' = AdcShift(adc, byte)
    /\ byte \in {Head(script).out[sent + 1], 0, 255}
    /\ answer \in {AdcAnswer(adc), 0, 255}
    /\ clean' => clean /\ byte = Head(script).out[sent + 1] /\ answer = AdcAnswer(adc)

LEMMA ExchangeIs ==
    ASSUME Inv, NEW byte, NEW answer, Exchange(byte, answer), NEW chip0 \in Selected
    PROVE  /\ script # <<>> /\ sent < Len(Head(script).out)
           /\ sent' = sent + 1 /\ UNCHANGED <<script, stage, call, verified, wanted>>
           /\ inbox' = IF Head(script).reads THEN Append(inbox, answer) ELSE inbox
           /\ call.op \in AdcOps => adc' = AdcShift(adc, byte) /\ chip0 = "adc"
           /\ call.op \notin AdcOps => adc' = adc
<1> DEFINE c == Head(script).chip
<1>1. /\ script # <<>> /\ c \in Selected /\ sent < Len(Head(script).out)
      /\ sent' = sent + 1
      /\ inbox' = IF Head(script).reads THEN Append(inbox, answer) ELSE inbox
      /\ UNCHANGED script
  BY DEF Exchange, SpiTransferByte, Quiet
<1>2. /\ adc' = IF Takes("adc") THEN AdcShift(adc, byte) ELSE adc
      /\ UNCHANGED <<stage, call, verified, wanted>>
  BY DEF Exchange, wrapper
<1>3. \A chip \in Chips : cs[chip] = "low" => chip = c /\ spcr = Settings(chip)
  BY DEF Inv, Selection
<1>4. c \in Chips /\ chip0 = c /\ initialized /\ spcr = Settings(c)
  BY <1>1, <1>3, InProgress DEF Selected
<1>5. call.op \in AdcOps => c = "adc"
  BY <1>1, InProgress
<1>6. call.op \notin AdcOps => c # "adc"
  <2>1. Read16Bit("temp").chip = "temp"
    BY DEF Read16Bit
  <2> SUFFICES ASSUME call.op \notin AdcOps PROVE c # "adc"
    OBVIOUS
  <2>2. call.op \in {"dac", "output"} \/ call.op = "temp"
    BY <1>1, InProgress
  <2>3. c = "dac" \/ c = "temp"
    BY <1>1, <2>1, <2>2, InProgress
  <2>4. QED
    BY <2>3
<1>7. c = "adc" => Takes("adc")
  BY <1>1, <1>4 DEF Takes
<1>8. c # "adc" => ~Takes("adc")
  BY <1>3 DEF Takes, Selected
<1> HIDE DEF c
<1>9. QED
  BY <1>1, <1>2, <1>4, <1>5, <1>6, <1>7, <1>8

LEMMA Exchanges ==
    ASSUME Inv, Transfer \/ Garble
    PROVE  /\ call.op \in AdcOps => \E byte, answer : AdcStep(byte, answer)
           /\ call.op \notin AdcOps =>
                 UNCHANGED <<adc, stage, call, verified, wanted>> /\ (clean' => clean)
<1>1. CASE Transfer
  <2> DEFINE byte == Head(script).out[sent + 1]
  <2>1. PICK chip \in Selected : Exchange(byte, Answer(chip))
    BY <1>1 DEF Transfer
  <2>2. clean' = clean
    BY <1>1 DEF Transfer
  <2>3. /\ script # <<>> /\ sent < Len(Head(script).out)
        /\ sent' = sent + 1 /\ UNCHANGED <<script, stage, call, verified, wanted>>
        /\ inbox' = IF Head(script).reads THEN Append(inbox, Answer(chip)) ELSE inbox
        /\ call.op \in AdcOps => adc' = AdcShift(adc, byte) /\ chip = "adc"
        /\ call.op \notin AdcOps => adc' = adc
    BY <2>1, ExchangeIs
  <2>4. Answer("adc") = AdcAnswer(adc)
    BY DEF Answer
  <2>5. call.op \in AdcOps => AdcStep(byte, AdcAnswer(adc))
    BY <2>2, <2>3, <2>4 DEF AdcStep
  <2>6. QED
    BY <2>2, <2>3, <2>5
<1>2. CASE Garble
  <2> DEFINE byte == Head(script).out[sent + 1]
  <2>1. PICK chip \in Selected, garbled \in {0, 255} :
           Exchange(garbled, Answer(chip)) \/ Exchange(byte, garbled)
    BY <1>2 DEF Garble
  <2>2. clean' = FALSE
    BY <1>2 DEF Garble
  <2>3. Answer("adc") = AdcAnswer(adc)
    BY DEF Answer
  <2>4. CASE Exchange(garbled, Answer(chip))
    <3>1. /\ script # <<>> /\ sent < Len(Head(script).out)
          /\ sent' = sent + 1 /\ UNCHANGED <<script, stage, call, verified, wanted>>
          /\ inbox' = IF Head(script).reads THEN Append(inbox, Answer(chip)) ELSE inbox
          /\ call.op \in AdcOps => adc' = AdcShift(adc, garbled) /\ chip = "adc"
          /\ call.op \notin AdcOps => adc' = adc
      BY <2>4, ExchangeIs
    <3>2. call.op \in AdcOps => AdcStep(garbled, AdcAnswer(adc))
      BY <2>2, <2>3, <3>1 DEF AdcStep
    <3>3. QED
      BY <2>2, <3>1, <3>2
  <2>5. CASE Exchange(byte, garbled)
    <3>1. /\ script # <<>> /\ sent < Len(Head(script).out)
          /\ sent' = sent + 1 /\ UNCHANGED <<script, stage, call, verified, wanted>>
          /\ inbox' = IF Head(script).reads THEN Append(inbox, garbled) ELSE inbox
          /\ call.op \in AdcOps => adc' = AdcShift(adc, byte)
          /\ call.op \notin AdcOps => adc' = adc
      BY <2>5, ExchangeIs
    <3>2. call.op \in AdcOps => AdcStep(byte, garbled)
      BY <2>2, <3>1 DEF AdcStep
    <3>3. QED
      BY <2>2, <3>1, <3>2
  <2>6. QED
    BY <2>1, <2>4, <2>5
<1>3. QED
  BY <1>1, <1>2

-----------------------------------------------------------------------------
(* A byte of an initialisation *)

LEMMA AdcCallFacts ==
    ASSUME Inv, AdcInv, call.op \in AdcOps
    PROVE  /\ \E S : script \in Seq(S)
           /\ sent \in Nat /\ (script = <<>> => sent = 0)
           /\ script # <<>> => sent = 0 \/ sent <= Len(Head(script).out)
           /\ call.ch \in Channels /\ inbox \in Seq(Int) /\ Len(inbox) \in Nat
           /\ Converter(adc)
<1>1. ForAdc
  BY DEF Inv, ScriptOfCall
<1>2. \E S : script \in Seq(S)
  BY <1>1 DEF ForAdc
<1>3. sent \in Nat
  BY DEF Inv, Selection
<1>4. script = <<>> => sent = 0
  BY NoneSelected DEF Inv
<1>5. /\ script # <<>> => sent = 0 \/ sent <= Len(Head(script).out)
      /\ call.ch \in Channels /\ inbox \in Seq(Int) /\ Converter(adc)
  BY DEF AdcInv, AdcScriptOfCall
<1>6. Len(inbox) \in Nat
  BY <1>5, LenProperties
<1>7. QED
  BY <1>2, <1>3, <1>4, <1>5, <1>6

\* What a byte is, and what it makes of the converter and the answers.
LEMMA StepFacts ==
    ASSUME Inv, AdcInv, call.op \in AdcOps, NEW byte, NEW answer, AdcStep(byte, answer),
           Head(script).out[sent + 1] \in Int
    PROVE  /\ byte \in Int /\ answer \in Int /\ Converter(adc')
           /\ inbox' \in Seq(Int)
           /\ Head(script).reads =>
                 /\ Len(inbox') = Len(inbox) + 1 /\ inbox'[Len(inbox) + 1] = answer
                 /\ \A i \in 1 .. Len(inbox) : inbox'[i] = inbox[i]
           /\ ~Head(script).reads => inbox' = inbox
           /\ script' # <<>> => sent' <= Len(Head(script').out)
<1>1. Converter(adc) /\ inbox \in Seq(Int) /\ sent \in Nat
  BY AdcCallFacts
<1>2. byte \in Int /\ answer \in Int
  BY <1>1, AnswerIs DEF AdcStep
<1>3. Converter(adc')
  <2>1. adc' = AdcShift(adc, byte)
    BY DEF AdcStep
  <2>2. QED
    BY <1>1, <1>2, <2>1, ShiftIs
<1>4. inbox' = IF Head(script).reads THEN Append(inbox, answer) ELSE inbox
  BY DEF AdcStep
<1>5. /\ Append(inbox, answer) \in Seq(Int)
      /\ Len(Append(inbox, answer)) = Len(inbox) + 1
      /\ Append(inbox, answer)[Len(inbox) + 1] = answer
      /\ \A i \in 1 .. Len(inbox) : Append(inbox, answer)[i] = inbox[i]
  BY <1>1, <1>2, AppendProperties
<1>6. script' # <<>> => sent' <= Len(Head(script').out)
  <2> DEFINE l == Len(Head(script).out)
  <2>1. l \in Int \/ ~(l \in Int)
    OBVIOUS
  <2>2. QED
    BY <1>1 DEF AdcStep
<1>7. QED
  BY <1>1, <1>2, <1>3, <1>4, <1>5, <1>6

LEMMA InitOutsAre ==
    ASSUME NEW ch \in Channels
    PROVE  LET o == InitOuts(ch) IN
           /\ Len(o) = 8
           /\ o[1] = <<RequestRegWrite(ClockReg, ch)>> /\ o[2] = <<ClockSettings>>
           /\ o[3] = <<RequestRegWrite(SetupReg, ch)>> /\ o[4] = <<SetupSettings>>
           /\ o[5] = <<RequestRegRead(ClockReg, ch)>> /\ o[6] = <<0>>
           /\ o[7] = <<RequestRegRead(SetupReg, ch)>> /\ o[8] = <<0>>
           /\ \A k \in 1 .. 8 : \E b \in Int : o[k] = <<b>>
<1> DEFINE o == InitOuts(ch)
<1>1. /\ Len(o) = 8
      /\ o[1] = <<RequestRegWrite(ClockReg, ch)>> /\ o[2] = <<ClockSettings>>
      /\ o[3] = <<RequestRegWrite(SetupReg, ch)>> /\ o[4] = <<SetupSettings>>
      /\ o[5] = <<RequestRegRead(ClockReg, ch)>> /\ o[6] = <<0>>
      /\ o[7] = <<RequestRegRead(SetupReg, ch)>> /\ o[8] = <<0>>
  BY DEF InitOuts
<1>2. /\ RequestRegWrite(ClockReg, ch) \in Int /\ RequestRegWrite(SetupReg, ch) \in Int
      /\ RequestRegRead(ClockReg, ch) \in Int /\ RequestRegRead(SetupReg, ch) \in Int
      /\ ClockSettings \in Int /\ SetupSettings \in Int
  BY RequestBits
<1> HIDE DEF o
<1>3. ASSUME NEW k \in 1 .. 8 PROVE \E b \in Int : o[k] = <<b>>
  <2>1. k \in {1, 2, 3, 4, 5, 6, 7, 8}
    OBVIOUS
  <2>2. QED
    BY <1>1, <1>2, <2>1
<1>4. QED
  BY <1>1, <1>3 DEF o

LEMMA InitByte ==
    ASSUME Inv, AdcInv, call.op = "init", NEW byte, NEW answer, AdcStep(byte, answer)
    PROVE  \E t \in 0 .. 7 :
              /\ Place(8) = t /\ Place(8)' = t + 1 /\ sent = 0
              /\ LET b == Head(script).out[sent + 1] IN
                 /\ b \in Int
                 /\ t = 0 => b = RequestRegWrite(ClockReg, call.ch)
                 /\ t = 1 => b = ClockSettings
                 /\ t = 2 => b = RequestRegWrite(SetupReg, call.ch)
                 /\ t = 3 => b = SetupSettings
                 /\ t = 4 => b = RequestRegRead(ClockReg, call.ch)
                 /\ t = 6 => b = RequestRegRead(SetupReg, call.ch)
                 /\ t \in {5, 7} => b = 0
              /\ Head(script).reads <=> t \in {5, 7}
<1>1. call.op \in AdcOps
  BY DEF AdcOps
<1>2. /\ sent \in Nat /\ (script = <<>> => sent = 0)
      /\ script # <<>> => sent = 0 \/ sent <= Len(Head(script).out)
      /\ call.ch \in Channels
  BY <1>1, AdcCallFacts
<1>3. PICK S : script \in Seq(S)
  BY <1>1, AdcCallFacts
<1>4. Sends(InitOuts(call.ch), {6, 8})
  BY <1>1 DEF AdcInv, AdcScriptOfCall
<1>5. PICK ch \in Channels : ch = call.ch
  BY <1>2
<1> DEFINE o == InitOuts(ch)
<1>6. /\ Len(o) = 8
      /\ o[1] = <<RequestRegWrite(ClockReg, ch)>> /\ o[2] = <<ClockSettings>>
      /\ o[3] = <<RequestRegWrite(SetupReg, ch)>> /\ o[4] = <<SetupSettings>>
      /\ o[5] = <<RequestRegRead(ClockReg, ch)>> /\ o[6] = <<0>>
      /\ o[7] = <<RequestRegRead(SetupReg, ch)>> /\ o[8] = <<0>>
      /\ \A k \in 1 .. 8 : \E b \in Int : o[k] = <<b>>
  BY InitOutsAre
<1>7. Sends(o, {6, 8})
  BY <1>4, <1>5
<1> HIDE DEF o
<1>8. script # <<>> /\ sent < Len(Head(script).out) /\ script' = script /\ sent' = sent + 1
  BY DEF AdcStep
<1>9. /\ sent = 0 /\ Place(8) \in 0 .. 8 - 1
      /\ Head(script).out = o[Place(8) + 1]
      /\ Head(script).reads <=> (Place(8) + 1) \in {6, 8}
  <2>1. \A k \in 1 .. 8 : \E b : o[k] = <<b>>
    BY <1>6
  <2>2. 8 \in Nat /\ 8 = Len(o)
    BY <1>6
  <2>3. PICK n \in Nat : n = 8
    OBVIOUS
  <2>7. PICK R : R = {6, 8}
    OBVIOUS
  <2>4. n = Len(o) /\ Sends(o, R) /\ \A k \in 1 .. n : \E b : o[k] = <<b>>
    BY <1>7, <2>1, <2>2, <2>3, <2>7
  <2>5. script # <<>> /\ sent < Len(Head(script).out) =>
           /\ sent = 0 /\ Place(n) \in 0 .. n - 1
           /\ Head(script).out = o[Place(n) + 1]
           /\ Head(script).reads <=> (Place(n) + 1) \in R
    BY <1>2, <1>3, <2>4, BytePlace
  <2>6. QED
    BY <1>8, <2>3, <2>5, <2>7
<1>10. PICK t \in 0 .. 7 : t = Place(8)
  BY <1>9
<1>11. Place(8)' = t + 1
  <2>1. Len(script) \in Nat
    BY <1>3, LenProperties
  <2>2. QED
    BY <1>2, <1>8, <1>10, <2>1 DEF Place
<1>12. Head(script).out = o[t + 1] /\ (Head(script).reads <=> t \in {5, 7})
  BY <1>9, <1>10
<1>13. PICK b \in Int : o[t + 1] = <<b>>
  BY <1>6
<1>14. Head(script).out[sent + 1] = b
  BY <1>9, <1>12, <1>13
<1>15. \A x, y : <<x>> = <<y>> => x = y
  OBVIOUS
<1>16. /\ t = 0 => b = RequestRegWrite(ClockReg, ch)
       /\ t = 1 => b = ClockSettings
       /\ t = 2 => b = RequestRegWrite(SetupReg, ch)
       /\ t = 3 => b = SetupSettings
       /\ t = 4 => b = RequestRegRead(ClockReg, ch)
       /\ t = 6 => b = RequestRegRead(SetupReg, ch)
       /\ t \in {5, 7} => b = 0
  BY <1>6, <1>13, <1>15
<1>17. QED
  BY <1>5, <1>9, <1>10, <1>11, <1>12, <1>14, <1>16

\* The converter's registers, and the place in a call, have these names.
LEMMA Numbers ==
    /\ CommsReg = 0 /\ SetupReg = 1 /\ ClockReg = 2 /\ DataReg = 3
    /\ ClockSettings = 145 /\ SetupSettings = 68 /\ Channels = {0, 1} /\ PGA_MASK = 7
BY DEF CommsReg, SetupReg, ClockReg, DataReg, ClockSettings, SetupSettings, Channels, PGA_MASK

LEMMA InitReadBack ==
    ASSUME Inv, AdcInv, call.op = "init", NEW byte, NEW answer, AdcStep(byte, answer)
    PROVE  ReadBackAt(Place(8))'
<1>1. PICK t \in 0 .. 7 :
              /\ Place(8) = t /\ Place(8)' = t + 1 /\ sent = 0
              /\ LET b == Head(script).out[sent + 1] IN
                 /\ b \in Int
                 /\ t = 0 => b = RequestRegWrite(ClockReg, call.ch)
                 /\ t = 1 => b = ClockSettings
                 /\ t = 2 => b = RequestRegWrite(SetupReg, call.ch)
                 /\ t = 3 => b = SetupSettings
                 /\ t = 4 => b = RequestRegRead(ClockReg, call.ch)
                 /\ t = 6 => b = RequestRegRead(SetupReg, call.ch)
                 /\ t \in {5, 7} => b = 0
              /\ Head(script).reads <=> t \in {5, 7}
  BY InitByte
<1>2. call.op \in AdcOps
  BY DEF AdcOps
<1>3. Converter(adc) /\ call.ch \in Channels /\ inbox \in Seq(Int)
  BY <1>2, AdcCallFacts
<1>4. /\ byte \in Int /\ answer \in Int /\ Converter(adc')
      /\ Head(script).reads =>
            /\ Len(inbox') = Len(inbox) + 1 /\ inbox'[Len(inbox) + 1] = answer
            /\ \A i \in 1 .. Len(inbox) : inbox'[i] = inbox[i]
      /\ ~Head(script).reads => inbox' = inbox
  BY <1>1, <1>2, StepFacts
<1>5. /\ adc' = AdcShift(adc, byte) /\ call' = call
      /\ byte \in {Head(script).out[sent + 1], 0, 255}
      /\ answer \in {AdcAnswer(adc), 0, 255}
  BY DEF AdcStep
<1>14. ShiftsTo(adc', adc)
  BY <1>3, <1>4, <1>5, ShiftIs
<1>6. Len(inbox) = IF t < 6 THEN 0 ELSE IF t < 8 THEN 1 ELSE 2
  BY <1>1, <1>2 DEF AdcInv, AdcScriptOfCall
<1>7. ReadBackAt(t)
  BY <1>1 DEF AdcInv
<1>8. CASE t = 4
  <2>1. byte \in {RequestRegRead(ClockReg, call.ch), 0, 255}
    BY <1>1, <1>5, <1>8
  <2>2. CASE Awaits(adc)
    <3>1. byte = RequestRegRead(ClockReg, call.ch) =>
             adc'.reg = ClockReg /\ adc'.reads /\ adc'.ch = call.ch /\ ~adc'.low
      BY <1>3, <1>4, <1>5, <2>2, AwaitedIs
    <3>2. (byte = 0 => Awaits(adc')) /\ (byte = 255 => adc'.reg = 7)
      BY <1>3, <1>4, <1>5, <2>2, AwaitedIs
    <3>3. ~adc'.reads \/ AsksToRead(ClockReg)' \/ adc'.reg = 7
      BY <1>5, <2>1, <3>1, <3>2 DEF AsksToRead, Awaits
    <3>4. QED
      BY <1>1, <1>8, <3>3 DEF ReadBackAt
  <2>3. CASE adc.reads /\ adc.reg = DataReg /\ ~adc.low
    <3>1. adc'.reg = DataReg /\ adc'.low
      BY <1>14, <2>3 DEF ShiftsTo
    <3>2. QED
      BY <1>1, <1>8, <3>1 DEF ReadBackAt
  <2>4. CASE ~Awaits(adc) /\ ~(adc.reads /\ adc.reg = DataReg /\ ~adc.low)
    <3>1. Awaits(adc')
      BY <1>14, <2>4 DEF ShiftsTo
    <3>2. QED
      BY <1>1, <1>8, <3>1 DEF ReadBackAt, Awaits
  <2>5. QED
    BY <2>2, <2>3, <2>4
<1>9. CASE t = 5
  <2>1. inbox'[1] = answer
    BY <1>1, <1>4, <1>6, <1>9
  <2>2. ASSUME answer = ClockSettings
        PROVE  Awaits(adc') /\ adc'.clock[call.ch] = ClockSettings
    <3>1. AdcAnswer(adc) = ClockSettings /\ ClockSettings = 145
      BY <1>5, <2>2, Numbers
    <3>2. adc.reads /\ ~(adc.reg = DataReg /\ adc.low) /\ adc.reg # 7
      BY <1>3, <3>1, AnswerIs
    <3>3. AsksToRead(ClockReg)
      BY <1>7, <1>9, <3>2 DEF ReadBackAt
    <3>4. adc.reg = ClockReg /\ adc.reg # DataReg /\ adc.ch = call.ch
      BY <3>3, Numbers DEF AsksToRead
    <3>5. adc.clock[call.ch] = ClockSettings
      BY <1>3, <3>1, <3>2, <3>4, AnswerIs
    <3>6. Awaits(adc') /\ adc'.clock = adc.clock
      <4>1. ~(adc.reads /\ adc.reg = DataReg /\ ~adc.low) /\ ~(~adc.reads /\ adc.reg = CommsReg)
        BY <3>2, <3>4
      <4>2. QED
        BY <1>14, <3>2, <4>1 DEF ShiftsTo, Awaits
    <3>7. QED
      BY <3>5, <3>6
  <2>3. QED
    BY <1>1, <1>5, <1>9, <2>1, <2>2 DEF ReadBackAt
<1>10. CASE t = 6
  <2>1. inbox' = inbox
    BY <1>1, <1>4, <1>10
  <2>2. ASSUME inbox[1] = ClockSettings
        PROVE  /\ adc'.clock[call.ch] = ClockSettings
               /\ Awaits(adc') \/ AsksToRead(SetupReg)' \/ (adc'.reads /\ adc'.reg = 7)
    <3>1. Awaits(adc) /\ adc.clock[call.ch] = ClockSettings
      BY <1>7, <1>10, <2>2 DEF ReadBackAt
    <3>2. byte \in {RequestRegRead(SetupReg, call.ch), 0, 255}
      BY <1>1, <1>5, <1>10
    <3>3. /\ SameRegisters(adc', adc) /\ ~adc'.low
          /\ byte = RequestRegRead(SetupReg, call.ch) =>
                adc'.reg = SetupReg /\ adc'.reads /\ adc'.ch = call.ch
          /\ byte = 0 => Awaits(adc')
          /\ byte = 255 => adc'.reg = 7 /\ adc'.reads
      BY <1>3, <1>4, <1>5, <3>1, AwaitedIs
    <3>4. QED
      BY <1>5, <3>1, <3>2, <3>3 DEF AsksToRead, SameRegisters
  <2>3. QED
    BY <1>1, <1>5, <1>10, <2>1, <2>2 DEF ReadBackAt
<1>11. CASE t = 7
  <2>1. inbox'[1] = inbox[1] /\ inbox'[2] = answer
    BY <1>1, <1>4, <1>6, <1>11
  <2>2. ASSUME IsVerified'
        PROVE  adc'.clock[call.ch] = ClockSettings /\ adc'.setup[call.ch] = SetupSettings
    <3>1. inbox[1] = ClockSettings /\ answer = SetupSettings
      <4>1. inbox' = <<ClockSettings, SetupSettings>>
        BY <2>2 DEF IsVerified
      <4>2. QED
        BY <2>1, <4>1
    <3>2. AdcAnswer(adc) = SetupSettings /\ SetupSettings = 68
      BY <1>5, <3>1, Numbers
    <3>3. adc.reads /\ adc.reg # 7
      BY <1>3, <3>2, AnswerIs
    <3>4. AsksToRead(SetupReg) /\ adc.clock[call.ch] = ClockSettings
      BY <1>7, <1>11, <3>1, <3>3 DEF ReadBackAt, Awaits
    <3>5. adc.reg = SetupReg /\ adc.ch = call.ch /\ adc.reg # DataReg
      BY <3>4, Numbers DEF AsksToRead
    <3>6. adc.setup[call.ch] = SetupSettings
      BY <1>3, <3>2, <3>3, <3>5, AnswerIs
    <3>7. adc'.setup = adc.setup /\ adc'.clock = adc.clock
      BY <1>14, <3>3 DEF ShiftsTo
    <3>8. QED
      BY <3>4, <3>6, <3>7
  <2>3. QED
    BY <1>1, <1>5, <1>11, <2>2 DEF ReadBackAt
<1>12. CASE t \in 0 .. 3
  BY <1>1, <1>12 DEF ReadBackAt
<1>13. QED
  BY <1>8, <1>9, <1>10, <1>11, <1>12

LEMMA InitStaysInStep ==
    ASSUME Inv, AdcInv, call.op = "init", NEW byte, NEW answer, AdcStep(byte, answer), clean'
    PROVE  InitAt(Place(8))'
<1>1. PICK t \in 0 .. 7 :
              /\ Place(8) = t /\ Place(8)' = t + 1 /\ sent = 0
              /\ LET b == Head(script).out[sent + 1] IN
                 /\ b \in Int
                 /\ t = 0 => b = RequestRegWrite(ClockReg, call.ch)
                 /\ t = 1 => b = ClockSettings
                 /\ t = 2 => b = RequestRegWrite(SetupReg, call.ch)
                 /\ t = 3 => b = SetupSettings
                 /\ t = 4 => b = RequestRegRead(ClockReg, call.ch)
                 /\ t = 6 => b = RequestRegRead(SetupReg, call.ch)
                 /\ t \in {5, 7} => b = 0
              /\ Head(script).reads <=> t \in {5, 7}
  BY InitByte
<1>2. call.op \in AdcOps
  BY DEF AdcOps
<1>3. Converter(adc) /\ call.ch \in Channels /\ inbox \in Seq(Int)
  BY <1>2, AdcCallFacts
<1>4. byte \in Int /\ answer \in Int /\ Converter(adc')
  BY <1>1, <1>2, StepFacts
<1>5. adc' = AdcShift(adc, byte) /\ call' = call
  BY DEF AdcStep
<1>6. ShiftsTo(adc', adc)
  BY <1>3, <1>4, <1>5, ShiftIs
<1>7. /\ clean /\ byte \in Int
      /\ t = 0 => byte = RequestRegWrite(ClockReg, call.ch)
      /\ t = 1 => byte = ClockSettings
      /\ t = 2 => byte = RequestRegWrite(SetupReg, call.ch)
      /\ t = 3 => byte = SetupSettings
      /\ t = 4 => byte = RequestRegRead(ClockReg, call.ch)
      /\ t = 6 => byte = RequestRegRead(SetupReg, call.ch)
      /\ t \in {5, 7} => byte = 0
  BY <1>1, <1>4 DEF AdcStep
<1>8. InitAt(t)
  BY <1>1, <1>7 DEF AdcInv, Synchronous
<1>9. Awaits(adc) =>
         /\ SameRegisters(adc', adc) /\ ~adc'.low
         /\ \A reg \in {CommsReg, SetupReg, ClockReg, DataReg}, ch \in Channels :
               /\ byte = RequestRegRead(reg, ch) =>
                     adc'.reg = reg /\ adc'.reads /\ adc'.ch = ch
               /\ byte = RequestRegWrite(reg, ch) =>
                     adc'.reg = reg /\ ~adc'.reads /\ adc'.ch = ch
         /\ byte = 0 => Awaits(adc')
         /\ byte = ClockSettings => adc'.reg = SetupReg /\ ~adc'.reads
         /\ byte = SetupSettings => adc'.reg = 4 /\ ~adc'.reads
  BY <1>3, <1>4, <1>5, AwaitedIs
<1>10. ~Awaits(adc) /\ ~(adc.reads /\ adc.reg = DataReg /\ ~adc.low) => Awaits(adc')
  BY <1>6 DEF ShiftsTo
<1>11. CASE t = 0 /\ Awaits(adc)
  <2>1. adc'.reg = ClockReg /\ ~adc'.reads /\ adc'.ch = call.ch /\ ~adc'.low
    BY <1>3, <1>7, <1>9, <1>11
  <2>2. AsksToWrite(ClockReg)'
    BY <1>5, <2>1 DEF AsksToWrite
  <2>3. InStep(t + 1)'
    BY <1>11, <2>2 DEF InStep
  <2>4. QED
    BY <1>1, <2>3 DEF InitAt
<1>12. CASE t = 0 /\ call.ch = 0 /\ adc.reads /\ adc.reg = DataReg /\ ~adc.low
  <2>1. adc'.reads /\ adc'.reg = DataReg /\ adc'.low
    BY <1>6, <1>12 DEF ShiftsTo
  <2>2. OutOfStep(t + 1)'
    BY <1>12, <2>1 DEF OutOfStep
  <2>3. QED
    BY <1>1, <1>5, <1>12, <2>2 DEF InitAt
<1>13. CASE t = 0 /\ call.ch = 0 /\ ~Awaits(adc) /\ ~(adc.reads /\ adc.reg = DataReg /\ ~adc.low)
  <2>1. Awaits(adc')
    BY <1>10, <1>13
  <2>2. OutOfStep(t + 1)'
    BY <1>13, <2>1 DEF OutOfStep
  <2>3. QED
    BY <1>1, <1>5, <1>13, <2>2 DEF InitAt
<1>14. CASE t = 1 /\ AsksToWrite(ClockReg)
  <2>1. ~Awaits(adc) /\ ~(adc.reads /\ adc.reg = DataReg /\ ~adc.low)
    BY <1>14, Numbers DEF Awaits, AsksToWrite
  <2>2. Awaits(adc')
    BY <1>10, <2>1
  <2>3. InStep(t + 1)'
    BY <1>14, <2>2 DEF InStep
  <2>4. QED
    BY <1>1, <2>3 DEF InitAt
<1>15. CASE t = 1 /\ adc.reads /\ adc.reg = DataReg /\ adc.low
  <2>1. ~Awaits(adc) /\ ~(adc.reads /\ adc.reg = DataReg /\ ~adc.low)
    BY <1>15, Numbers DEF Awaits
  <2>2. Awaits(adc')
    BY <1>10, <2>1
  <2>3. InStep(t + 1)'
    BY <1>15, <2>2 DEF InStep
  <2>4. QED
    BY <1>1, <2>3 DEF InitAt
<1>16. CASE t = 1 /\ call.ch = 0 /\ Awaits(adc)
  <2>1. adc'.reg = SetupReg /\ ~adc'.reads
    BY <1>7, <1>9, <1>16
  <2>2. OutOfStep(t + 1)'
    BY <1>16, <2>1 DEF OutOfStep
  <2>3. QED
    BY <1>1, <1>5, <1>16, <2>2 DEF InitAt
<1>17. CASE t = 2 /\ Awaits(adc)
  <2>1. adc'.reg = SetupReg /\ ~adc'.reads /\ adc'.ch = call.ch /\ ~adc'.low
    BY <1>3, <1>7, <1>9, <1>17
  <2>2. AsksToWrite(SetupReg)'
    BY <1>5, <2>1 DEF AsksToWrite
  <2>3. InStep(t + 1)'
    BY <1>17, <2>2 DEF InStep
  <2>4. QED
    BY <1>1, <2>3 DEF InitAt
<1>18. CASE t = 2 /\ call.ch = 0 /\ adc.reg = SetupReg /\ ~adc.reads
  <2>1. Awaits(adc')
    BY <1>10, Numbers, <1>18 DEF Awaits
  <2>2. OutOfStep(t + 1)'
    BY <1>18, <2>1 DEF OutOfStep
  <2>3. QED
    BY <1>1, <1>5, <1>18, <2>2 DEF InitAt
<1>19. CASE t = 3 /\ AsksToWrite(SetupReg)
  <2>1. ~Awaits(adc) /\ ~(adc.reads /\ adc.reg = DataReg /\ ~adc.low)
    BY <1>19, Numbers DEF Awaits, AsksToWrite
  <2>2. Awaits(adc')
    BY <1>10, <2>1
  <2>3. InStep(t + 1)'
    BY <1>19, <2>2 DEF InStep
  <2>4. QED
    BY <1>1, <2>3 DEF InitAt
<1>20. CASE t = 3 /\ call.ch = 0 /\ Awaits(adc)
  <2>1. adc'.reg = 4 /\ ~adc'.reads
    BY <1>7, <1>9, <1>20
  <2>2. OutOfStep(t + 1)'
    BY <1>20, <2>1 DEF OutOfStep
  <2>3. QED
    BY <1>1, <1>5, <1>20, <2>2 DEF InitAt
<1>21. CASE t = 4 /\ Awaits(adc)
  <2>1. adc'.reg = ClockReg /\ adc'.reads /\ adc'.ch = call.ch /\ ~adc'.low
    BY <1>3, <1>7, <1>9, <1>21
  <2>2. AsksToRead(ClockReg)'
    BY <1>5, <2>1 DEF AsksToRead
  <2>3. InStep(t + 1)'
    BY <1>21, <2>2 DEF InStep
  <2>4. QED
    BY <1>1, <2>3 DEF InitAt
<1>22. CASE t = 4 /\ call.ch = 0 /\ adc.reg = 4 /\ ~adc.reads
  <2>1. Awaits(adc')
    BY <1>10, Numbers, <1>22 DEF Awaits
  <2>2. OutOfStep(t + 1)'
    BY <1>22, <2>1 DEF OutOfStep
  <2>3. QED
    BY <1>1, <1>5, <1>22, <2>2 DEF InitAt
<1>23. CASE t = 5 /\ AsksToRead(ClockReg)
  <2>1. ~Awaits(adc) /\ ~(adc.reads /\ adc.reg = DataReg /\ ~adc.low)
    BY <1>23, Numbers DEF Awaits, AsksToRead
  <2>2. Awaits(adc')
    BY <1>10, <2>1
  <2>3. InStep(t + 1)'
    BY <1>23, <2>2 DEF InStep
  <2>4. QED
    BY <1>1, <2>3 DEF InitAt
<1>24. CASE t = 5 /\ Awaits(adc)
  <2>1. Awaits(adc')
    BY <1>7, <1>9, <1>24
  <2>2. InStep(t + 1)'
    BY <1>24, <2>1 DEF InStep
  <2>3. QED
    BY <1>1, <2>2 DEF InitAt
<1>25. CASE t = 6 /\ Awaits(adc)
  <2>1. adc'.reg = SetupReg /\ adc'.reads /\ adc'.ch = call.ch /\ ~adc'.low
    BY <1>3, <1>7, <1>9, <1>25
  <2>2. AsksToRead(SetupReg)'
    BY <1>5, <2>1 DEF AsksToRead
  <2>3. InStep(t + 1)'
    BY <1>25, <2>2 DEF InStep
  <2>4. QED
    BY <1>1, <2>3 DEF InitAt
<1>26. CASE t = 7 /\ AsksToRead(SetupReg)
  <2>1. ~Awaits(adc) /\ ~(adc.reads /\ adc.reg = DataReg /\ ~adc.low)
    BY <1>26, Numbers DEF Awaits, AsksToRead
  <2>2. Awaits(adc')
    BY <1>10, <2>1
  <2>3. InStep(t + 1)'
    BY <1>26, <2>2 DEF InStep
  <2>4. QED
    BY <1>1, <2>3 DEF InitAt
<1>27. QED
  <2>1. t \in {0, 1, 2, 3, 4, 5, 6, 7}
    BY <1>1
  <2>2. CASE call.ch = 0 /\ OutOfStep(t)
    <3>1. /\ t <= 5
          /\ t = 1 => Awaits(adc) \/ (adc.reads /\ adc.reg = DataReg /\ adc.low)
          /\ t = 2 => adc.reg = SetupReg /\ ~adc.reads
          /\ t \in {3, 5} => Awaits(adc)
          /\ t = 4 => adc.reg = 4 /\ ~adc.reads
      BY <2>2 DEF OutOfStep
    <3>2. QED
      BY <2>1, <2>2, <3>1, <1>11, <1>12, <1>13, <1>15, <1>16, <1>18, <1>20, <1>22, <1>24
  <2>3. CASE InStep(t)
    <3>1. /\ t \in {0, 2, 4, 6} => Awaits(adc)
          /\ t = 1 => AsksToWrite(ClockReg)
          /\ t = 3 => AsksToWrite(SetupReg)
          /\ t = 5 => AsksToRead(ClockReg)
          /\ t = 7 => AsksToRead(SetupReg)
      BY <2>3 DEF InStep
    <3>2. QED
      BY <2>1, <3>1, <1>11, <1>14, <1>17, <1>19, <1>21, <1>23, <1>25, <1>26
  <2>4. QED
    BY <1>8, <2>2, <2>3 DEF InitAt

\* The registers of the other channel, which may be verified, are left alone.
LEMMA InitLeavesOther ==
    ASSUME Inv, AdcInv, call.op = "init", NEW byte, NEW answer, AdcStep(byte, answer), clean',
           NEW other \in verified
    PROVE  adc'.setup[other] = adc.setup[other] /\ adc'.clock[other] = adc.clock[other]
<1>1. PICK t \in 0 .. 7 :
              /\ Place(8) = t /\ Place(8)' = t + 1 /\ sent = 0
              /\ LET b == Head(script).out[sent + 1] IN
                 /\ b \in Int
                 /\ t = 0 => b = RequestRegWrite(ClockReg, call.ch)
                 /\ t = 1 => b = ClockSettings
                 /\ t = 2 => b = RequestRegWrite(SetupReg, call.ch)
                 /\ t = 3 => b = SetupSettings
                 /\ t = 4 => b = RequestRegRead(ClockReg, call.ch)
                 /\ t = 6 => b = RequestRegRead(SetupReg, call.ch)
                 /\ t \in {5, 7} => b = 0
              /\ Head(script).reads <=> t \in {5, 7}
  BY InitByte
<1>2. call.op \in AdcOps
  BY DEF AdcOps
<1>3. Converter(adc) /\ call.ch \in Channels /\ inbox \in Seq(Int)
  BY <1>2, AdcCallFacts
<1>4. byte \in Int /\ answer \in Int /\ Converter(adc')
  BY <1>1, <1>2, StepFacts
<1>5. adc' = AdcShift(adc, byte) /\ call' = call
  BY DEF AdcStep
<1>6. ShiftsTo(adc', adc)
  BY <1>3, <1>4, <1>5, ShiftIs
<1>7. /\ clean /\ byte \in Int
      /\ t = 0 => byte = RequestRegWrite(ClockReg, call.ch)
      /\ t = 1 => byte = ClockSettings
      /\ t = 2 => byte = RequestRegWrite(SetupReg, call.ch)
      /\ t = 3 => byte = SetupSettings
      /\ t = 4 => byte = RequestRegRead(ClockReg, call.ch)
      /\ t = 6 => byte = RequestRegRead(SetupReg, call.ch)
      /\ t \in {5, 7} => byte = 0
  BY <1>1, <1>4 DEF AdcStep
<1>8. InitAt(t)
  BY <1>1, <1>7 DEF AdcInv, Synchronous
<1>9. Awaits(adc) =>
         /\ SameRegisters(adc', adc) /\ ~adc'.low
         /\ \A reg \in {CommsReg, SetupReg, ClockReg, DataReg}, ch \in Channels :
               /\ byte = RequestRegRead(reg, ch) =>
                     adc'.reg = reg /\ adc'.reads /\ adc'.ch = ch
               /\ byte = RequestRegWrite(reg, ch) =>
                     adc'.reg = reg /\ ~adc'.reads /\ adc'.ch = ch
         /\ byte = 0 => Awaits(adc')
         /\ byte = ClockSettings => adc'.reg = SetupReg /\ ~adc'.reads
         /\ byte = SetupSettings => adc'.reg = 4 /\ ~adc'.reads
  BY <1>3, <1>4, <1>5, AwaitedIs
<1>10. ~Awaits(adc) /\ ~(adc.reads /\ adc.reg = DataReg /\ ~adc.low) => Awaits(adc')
  BY <1>6 DEF ShiftsTo
<1>11. other = 0 /\ call.ch = 1
  <2>1. stage = "adc"
    BY DEF Inv, SetupOrder
  <2>2. verified \subseteq {0} /\ (call.ch = 0 => verified = {})
    BY <2>1 DEF AdcInv, Verified
  <2>3. QED
    BY <1>3, <2>2, Numbers
<1>12. InStep(t)
  BY <1>8, <1>11 DEF InitAt
<1>13. CASE Awaits(adc)
  BY <1>9, <1>13 DEF SameRegisters
<1>14. CASE adc.reads
  BY <1>6, <1>14 DEF ShiftsTo
<1>15. CASE t = 1 \/ t = 3
  <2>1. adc.ch = 1 /\ ~adc.reads /\ adc.reg \in {ClockReg, SetupReg}
    BY <1>11, <1>12, <1>15 DEF InStep, AsksToWrite
  <2>2. CASE adc.reg = ClockReg
    <3>1. adc'.clock[other] = adc.clock[other] /\ adc'.setup = adc.setup
      <4>1. adc'.setup = adc.setup
        BY <1>6, <2>2, Numbers DEF ShiftsTo
      <4>2. ~adc.reads /\ adc.reg = ClockReg =>
               \A c \in Channels \ {adc.ch} : adc'.clock[c] = adc.clock[c]
        BY <1>3, <1>4, <1>5, ShiftIs
      <4>3. other \in Channels \ {adc.ch}
        BY <1>11, <2>1, Numbers
      <4>4. QED
        BY <2>1, <2>2, <4>1, <4>2, <4>3
    <3>2. QED
      BY <3>1
  <2>3. CASE adc.reg = SetupReg
    <3>1. adc'.setup[other] = adc.setup[other] /\ adc'.clock = adc.clock
      <4>1. adc'.clock = adc.clock
        BY <1>6, <2>3, Numbers DEF ShiftsTo
      <4>2. ~adc.reads /\ adc.reg = SetupReg =>
               \A c \in Channels \ {adc.ch} : adc'.setup[c] = adc.setup[c]
        BY <1>3, <1>4, <1>5, ShiftIs
      <4>3. other \in Channels \ {adc.ch}
        BY <1>11, <2>1, Numbers
      <4>4. QED
        BY <2>1, <2>3, <4>1, <4>2, <4>3
    <3>2. QED
      BY <3>1
  <2>4. QED
    BY <2>1, <2>2, <2>3
<1>16. QED
  <2>1. t \in {0, 1, 2, 3, 4, 5, 6, 7}
    BY <1>1
  <2>2. t \in {0, 2, 4, 6} => Awaits(adc)
    BY <1>12 DEF InStep
  <2>3. t \in {5, 7} => adc.reads
    BY <1>12 DEF InStep, AsksToRead
  <2>4. QED
    BY <2>1, <2>2, <2>3, <1>13, <1>14, <1>15

LEMMA InitScriptStays ==
    ASSUME Inv, AdcInv, call.op = "init", NEW byte, NEW answer, AdcStep(byte, answer)
    PROVE  AdcScriptOfCall'
<1>1. PICK t \in 0 .. 7 :
              /\ Place(8) = t /\ Place(8)' = t + 1 /\ sent = 0
              /\ Head(script).out[sent + 1] \in Int
              /\ Head(script).reads <=> t \in {5, 7}
  BY InitByte
<1>2. call.op \in AdcOps
  BY DEF AdcOps
<1>3. call.ch \in Channels /\ Len(inbox) \in Nat
  BY <1>2, AdcCallFacts
<1>4. /\ inbox' \in Seq(Int)
      /\ Head(script).reads => Len(inbox') = Len(inbox) + 1
      /\ ~Head(script).reads => inbox' = inbox
      /\ script' # <<>> => sent' <= Len(Head(script').out)
  BY <1>1, <1>2, StepFacts
<1>5. script' = script /\ call' = call
  BY DEF AdcStep
<1>6. /\ Sends(InitOuts(call.ch), {6, 8})
      /\ Len(inbox) = IF t < 6 THEN 0 ELSE IF t < 8 THEN 1 ELSE 2
  BY <1>1, <1>2 DEF AdcInv, AdcScriptOfCall
<1>7. Sends(InitOuts(call.ch), {6, 8})'
  BY <1>5, <1>6 DEF Sends, InitOuts
<1>8. Len(inbox') = IF t + 1 < 6 THEN 0 ELSE IF t + 1 < 8 THEN 1 ELSE 2
  BY <1>1, <1>3, <1>4, <1>6
<1>9. QED
  BY <1>1, <1>3, <1>4, <1>5, <1>7, <1>8 DEF AdcScriptOfCall

-----------------------------------------------------------------------------
(* A byte of another call *)

\* What was set stays set, as long as the registers of what was verified do.
LEMMA VerifiedKept ==
    ASSUME Verified, UNCHANGED <<stage, call, verified, wanted>>, clean' => clean,
           call.op # "gain_set",
           clean' => \A ch \in verified : /\ adc'.setup[ch] = adc.setup[ch]
                                          /\ adc'.clock[ch] = adc.clock[ch]
    PROVE  Verified'
<1>1. ASSUME clean', NEW ch \in verified PROVE IsSet(ch)'
  <2>1. IsSet(ch)
    BY <1>1 DEF Verified
  <2>2. PICK g \in 0 .. PGA_MASK : HasGain(ch, g)
    BY <2>1 DEF IsSet
  <2>3. adc'.setup[ch] = adc.setup[ch] /\ adc'.clock[ch] = adc.clock[ch]
    BY <1>1
  <2>4. HasGain(ch, g)'
    BY <2>2, <2>3 DEF HasGain, Stepped
  <2>5. QED
    BY <2>1, <2>3, <2>4 DEF IsSet
<1>2. clean' => \A ch \in verified' : IsSet(ch)'
  BY <1>1
<1>3. QED
  BY <1>2 DEF Verified

LEMMA TwoBytes ==
    ASSUME Inv, AdcInv, call.op \in AdcOps, NEW a \in Int, NEW b \in Int, NEW R,
           Sends(<<<<a>>, <<b>>>>, R), NEW byte, NEW answer, AdcStep(byte, answer)
    PROVE  /\ Sends(<<<<a>>, <<b>>>>, R)'
           /\ \E t \in {0, 1} :
                 /\ Place(2) = t /\ Place(2)' = t + 1 /\ sent = 0 /\ Len(script) = 2 - t
                 /\ Head(script).out[sent + 1] = IF t = 0 THEN a ELSE b
                 /\ Head(script).reads <=> t + 1 \in R
<1>1. /\ sent \in Nat /\ (script = <<>> => sent = 0)
      /\ script # <<>> => sent = 0 \/ sent <= Len(Head(script).out)
  BY AdcCallFacts
<1>2. PICK S : script \in Seq(S)
  BY AdcCallFacts
<1> DEFINE o == <<<<a>>, <<b>>>>
<1>3. Len(o) = 2 /\ o[1] = <<a>> /\ o[2] = <<b>> /\ \A k \in 1 .. 2 : \E x : o[k] = <<x>>
  <2>1. Len(o) = 2 /\ o[1] = <<a>> /\ o[2] = <<b>>
    OBVIOUS
  <2>2. \A k \in 1 .. 2 : k = 1 \/ k = 2
    OBVIOUS
  <2> HIDE DEF o
  <2>3. QED
    BY <2>1, <2>2
<1> HIDE DEF o
<1>4. Sends(o, R)
  BY DEF o
<1>5. script # <<>> /\ sent < Len(Head(script).out) /\ script' = script /\ sent' = sent + 1
  BY DEF AdcStep
<1>6. PICK n \in Nat : n = 2
  OBVIOUS
<1>7. n = Len(o) /\ \A k \in 1 .. n : \E x : o[k] = <<x>>
  BY <1>3, <1>6
<1>8. script # <<>> /\ sent < Len(Head(script).out) =>
           /\ sent = 0 /\ Place(n) \in 0 .. n - 1
           /\ Head(script).out = o[Place(n) + 1]
           /\ Head(script).reads <=> (Place(n) + 1) \in R
  BY <1>1, <1>2, <1>4, <1>7, BytePlace
<1>9. /\ sent = 0 /\ Place(2) \in 0 .. 1
      /\ Head(script).out = o[Place(2) + 1]
      /\ Head(script).reads <=> (Place(2) + 1) \in R
  BY <1>5, <1>6, <1>8
<1>10. PICK t \in {0, 1} : t = Place(2)
  BY <1>9
<1>11. Len(script) = 2 - t /\ Place(2)' = t + 1
  <2>1. Len(script) \in Nat
    BY <1>2, LenProperties
  <2>2. QED
    BY <1>5, <1>9, <1>10, <2>1 DEF Place
<1>12. Head(script).out[sent + 1] = IF t = 0 THEN a ELSE b
  <2>1. Head(script).out = IF t = 0 THEN <<a>> ELSE <<b>>
    BY <1>3, <1>9, <1>10
  <2>2. QED
    BY <1>9, <2>1
<1>13. Sends(o, R)'
  BY <1>4, <1>5 DEF Sends
<1>14. QED
  BY <1>9, <1>10, <1>11, <1>12, <1>13 DEF o

\* A call that reads a register of one byte.
LEMMA ReadStep ==
    ASSUME Inv, AdcInv, call.op \in {"poll", "gain", "step"},
           NEW byte, NEW answer, AdcStep(byte, answer)
    PROVE  AdcScriptOfCall' /\ Synchronous' /\ Verified' /\ Converter(adc')
<1> DEFINE reg == IF call.op = "poll" THEN CommsReg ELSE SetupReg
           a == RequestRegRead(reg, call.ch)
<1>1. call.op \in AdcOps
  BY DEF AdcOps
<1>2. Converter(adc) /\ call.ch \in Channels /\ inbox \in Seq(Int) /\ Len(inbox) \in Nat
  BY <1>1, AdcCallFacts
<1>3. reg \in {CommsReg, SetupReg} /\ a \in Int /\ reg # DataReg
  <2>1. reg \in {CommsReg, SetupReg}
    OBVIOUS
  <2> HIDE DEF reg
  <2>2. reg \in {CommsReg, SetupReg, ClockReg, DataReg} /\ reg # DataReg
    BY <2>1, Numbers
  <2>3. RequestRegRead(reg, call.ch) \in Int
    BY <1>2, <2>2, RequestBits
  <2>4. QED
    BY <2>1, <2>2, <2>3
<1>4. ReadOuts(reg, call.ch) = <<<<a>>, <<0>>>>
  BY DEF ReadOuts
<1>5. Sends(ReadOuts(reg, call.ch), {2}) /\ Len(inbox) = IF Place(2) < 2 THEN 0 ELSE 1
  BY <1>1 DEF AdcInv, AdcScriptOfCall
<1> HIDE DEF reg, a
<1>6. /\ \E x \in Int : x = a /\ Sends(<<<<x>>, <<0>>>>, {2})'
      /\ \E t \in {0, 1} :
            /\ Place(2) = t /\ Place(2)' = t + 1 /\ sent = 0 /\ Len(script) = 2 - t
            /\ Head(script).out[sent + 1] = IF t = 0 THEN a ELSE 0
            /\ Head(script).reads <=> t + 1 \in {2}
  <2>1. PICK b \in Int : b = 0
    OBVIOUS
  <2>5. PICK R : R = {2}
    OBVIOUS
  <2>6. PICK x \in Int : x = a
    BY <1>3
  <2>2. Sends(<<<<x>>, <<b>>>>, R)
    BY <1>4, <1>5, <2>1, <2>5, <2>6
  <2>3. /\ Sends(<<<<x>>, <<b>>>>, R)'
        /\ \E t \in {0, 1} :
              /\ Place(2) = t /\ Place(2)' = t + 1 /\ sent = 0 /\ Len(script) = 2 - t
              /\ Head(script).out[sent + 1] = IF t = 0 THEN x ELSE b
              /\ Head(script).reads <=> t + 1 \in R
    BY <1>1, <2>2, TwoBytes
  <2>4. QED
    BY <2>1, <2>3, <2>5, <2>6
<1>7. PICK t \in {0, 1} :
         /\ Place(2) = t /\ Place(2)' = t + 1 /\ sent = 0
         /\ Head(script).out[sent + 1] = IF t = 0 THEN a ELSE 0
         /\ Head(script).reads <=> t = 1
  BY <1>6
<1>8. Head(script).out[sent + 1] \in Int
  BY <1>3, <1>7
<1>9. /\ byte \in Int /\ answer \in Int /\ Converter(adc')
      /\ inbox' \in Seq(Int)
      /\ Head(script).reads =>
            Len(inbox') = Len(inbox) + 1 /\ inbox'[Len(inbox) + 1] = answer
      /\ ~Head(script).reads => inbox' = inbox
      /\ script' # <<>> => sent' <= Len(Head(script').out)
  BY <1>1, <1>8, StepFacts
<1>10. /\ adc' = AdcShift(adc, byte) /\ UNCHANGED <<script, stage, call, verified, wanted>>
       /\ clean' => clean /\ byte = Head(script).out[sent + 1] /\ answer = AdcAnswer(adc)
  BY DEF AdcStep
<1>11. ShiftsTo(adc', adc)
  BY <1>2, <1>9, <1>10, ShiftIs
<1>12. Len(inbox) = 0 /\ (t = 0 => Len(inbox') = 0)
          /\ (t = 1 => Len(inbox') = 1 /\ inbox'[1] = answer)
  BY <1>5, <1>7, <1>9
<1>13. AdcScriptOfCall'
  <2>1. Sends(ReadOuts(reg, call.ch), {2})'
    <3>1. PICK x \in Int : x = a /\ Sends(<<<<x>>, <<0>>>>, {2})'
      BY <1>6
    <3>2. ReadOuts(reg, call.ch)' = <<<<x>>, <<0>>>>
      BY <3>1, <1>10 DEF ReadOuts, a, reg
    <3>3. QED
      BY <3>1, <3>2 DEF Sends
  <2>2. Len(inbox') = IF t + 1 < 2 THEN 0 ELSE 1
    BY <1>12
  <2>3. QED
    BY <1>1, <1>2, <1>7, <1>9, <1>10, <2>1, <2>2 DEF AdcScriptOfCall, reg
<1>14. clean' => /\ t = 0 => Awaits(adc) /\ AsksToRead(reg)' /\ SameRegisters(adc', adc)
                 /\ t = 1 => /\ AsksToRead(reg) /\ Awaits(adc') /\ adc'.ch = call.ch
                             /\ SameRegisters(adc', adc) /\ adc'.ready = adc.ready
  <2> SUFFICES ASSUME clean'
               PROVE  /\ t = 0 => Awaits(adc) /\ AsksToRead(reg)' /\ SameRegisters(adc', adc)
                      /\ t = 1 => /\ AsksToRead(reg) /\ Awaits(adc') /\ adc'.ch = call.ch
                                  /\ SameRegisters(adc', adc) /\ adc'.ready = adc.ready
    OBVIOUS
  <2>1. clean /\ byte = IF t = 0 THEN a ELSE 0
    BY <1>7, <1>10
  <2>2. (t = 0 => Awaits(adc)) /\ (t = 1 => AsksToRead(reg))
    <3>1. (call.op = "poll" => PollAt(t)) /\ (call.op # "poll" => GainAt(t))
      BY <1>7, <2>1 DEF AdcInv, Synchronous
    <3>2. QED
      BY <3>1 DEF PollAt, GainAt, reg
  <2>3. ASSUME t = 0 PROVE AsksToRead(reg)' /\ SameRegisters(adc', adc)
    <3>1. byte = RequestRegRead(reg, call.ch) /\ Awaits(adc)
      BY <2>1, <2>2, <2>3 DEF a
    <3>2. adc'.reg = reg /\ adc'.reads /\ adc'.ch = call.ch /\ ~adc'.low
             /\ SameRegisters(adc', adc)
      BY <1>2, <1>3, <1>9, <1>10, <3>1, AwaitedIs
    <3>3. reg' = reg
      BY <1>10 DEF reg
    <3>4. QED
      BY <1>10, <3>2, <3>3 DEF AsksToRead
  <2>4. ASSUME t = 1
        PROVE  /\ Awaits(adc') /\ adc'.ch = call.ch
               /\ SameRegisters(adc', adc) /\ adc'.ready = adc.ready
    <3>1. adc.reads /\ adc.reg = reg /\ adc.ch = call.ch
      BY <2>2, <2>4 DEF AsksToRead
    <3>2. ~Awaits(adc) /\ adc.reg # DataReg
      BY <1>3, <3>1 DEF Awaits
    <3>3. QED
      BY <1>11, <3>1, <3>2 DEF ShiftsTo, SameRegisters
  <2>5. QED
    BY <2>2, <2>3, <2>4
<1>15. Synchronous'
  <2> SUFFICES ASSUME clean' PROVE Synchronous'
    BY DEF Synchronous
  <2>1. clean /\ answer = AdcAnswer(adc)
    BY <1>10
  <2>2. CASE t = 0
    <3>1. AsksToRead(reg)' /\ Place(2)' = 1
      BY <1>7, <1>14, <2>2
    <3>2. call.op = "poll" => PollAt(1)'
      BY <3>1, <1>10 DEF PollAt, reg
    <3>3. call.op # "poll" => GainAt(1)'
      BY <3>1, <1>10 DEF GainAt, reg
    <3>4. QED
      BY <1>1, <1>10, <3>1, <3>2, <3>3 DEF Synchronous
  <2>3. CASE t = 1
    <3>1. /\ AsksToRead(reg) /\ Awaits(adc') /\ adc'.ch = call.ch
          /\ SameRegisters(adc', adc) /\ adc'.ready = adc.ready
      BY <1>14, <2>3
    <3>2. Place(2)' = 2 /\ inbox'[1] = answer
      BY <1>7, <1>12, <2>3
    <3>3. adc.reads /\ adc.reg = reg /\ adc.ch = call.ch
      BY <3>1 DEF AsksToRead
    <3>4. ASSUME call.op = "poll" PROVE PollAt(2)'
      <4>1. answer = IF adc.ready THEN 0 ELSE 128
        BY <1>2, <2>1, <3>3, <3>4, AnswerIs DEF reg
      <4>2. inbox'[1] < 128 => adc'.ready
        BY <3>1, <3>2, <4>1
      <4>3. QED
        BY <1>10, <3>1, <4>2 DEF PollAt
    <3>5. ASSUME call.op # "poll" PROVE GainAt(2)'
      <4>1. answer = adc.setup[call.ch]
        BY <1>2, <2>1, <3>3, <3>5, AnswerIs DEF reg
      <4>2. QED
        BY <1>10, <3>1, <3>2, <4>1 DEF GainAt, SameRegisters
    <3>6. QED
      BY <1>1, <1>10, <3>2, <3>4, <3>5 DEF Synchronous
  <2>4. QED
    BY <2>2, <2>3
<1>16. Verified'
  <2>1. clean' => \A ch \in verified : /\ adc'.setup[ch] = adc.setup[ch]
                                       /\ adc'.clock[ch] = adc.clock[ch]
    BY <1>14 DEF SameRegisters
  <2>2. call.op # "gain_set"
    OBVIOUS
  <2>3. QED
    BY <1>10, <2>1, <2>2, VerifiedKept DEF AdcInv
<1>17. QED
  BY <1>9, <1>13, <1>15, <1>16

\* The read of a sample.
LEMMA DataStep ==
    ASSUME Inv, AdcInv, call.op = "data", NEW byte, NEW answer, AdcStep(byte, answer)
    PROVE  AdcScriptOfCall' /\ Synchronous' /\ Verified' /\ Converter(adc')
<1>1. call.op \in AdcOps
  BY DEF AdcOps
<1>2. /\ Converter(adc) /\ call.ch \in Channels /\ inbox \in Seq(Int) /\ Len(inbox) \in Nat
      /\ sent \in Nat /\ (script = <<>> => sent = 0)
      /\ script # <<>> => sent = 0 \/ sent <= Len(Head(script).out)
  BY <1>1, AdcCallFacts
<1>3. PICK S : script \in Seq(S)
  BY <1>1, AdcCallFacts
<1>4. Sends(DataOuts(call.ch), {2}) /\ Len(inbox) = IF DataPlace < 2 THEN 0 ELSE DataPlace - 1
  BY <1>1 DEF AdcInv, AdcScriptOfCall
<1>5. script # <<>> /\ sent < Len(Head(script).out) /\ script' = script /\ sent' = sent + 1
  BY DEF AdcStep
<1>6. /\ DataPlace \in 0 .. 2
      /\ Head(script).out[sent + 1] =
            IF DataPlace = 0 THEN RequestRegRead(DataReg, call.ch) ELSE 0
      /\ Head(script).reads <=> DataPlace # 0
      /\ Len(script) - 2 + DataPlace = sent
  BY <1>2, <1>3, <1>4, <1>5, DataPlaces
<1>7. PICK t \in 0 .. 2 : t = DataPlace
  BY <1>6
<1>8. DataPlace' = t + 1
  <2>1. Len(script) \in Nat
    BY <1>3, LenProperties
  <2>2. QED
    BY <1>2, <1>5, <1>6, <1>7, <2>1 DEF DataPlace, Place
<1>9. RequestRegRead(DataReg, call.ch) \in Int
  BY <1>2, RequestBits
<1>10. Head(script).out[sent + 1] = IF t = 0 THEN RequestRegRead(DataReg, call.ch) ELSE 0
  BY <1>6, <1>7
<1>11. /\ byte \in Int /\ answer \in Int /\ Converter(adc')
       /\ inbox' \in Seq(Int)
       /\ Head(script).reads =>
             /\ Len(inbox') = Len(inbox) + 1 /\ inbox'[Len(inbox) + 1] = answer
             /\ \A i \in 1 .. Len(inbox) : inbox'[i] = inbox[i]
       /\ ~Head(script).reads => inbox' = inbox
       /\ script' # <<>> => sent' <= Len(Head(script').out)
  <2>1. Head(script).out[sent + 1] \in Int
    BY <1>9, <1>10
  <2>2. QED
    BY <1>1, <2>1, StepFacts
<1>12. /\ adc' = AdcShift(adc, byte) /\ UNCHANGED <<stage, call, verified, wanted>>
       /\ clean' => clean /\ byte = Head(script).out[sent + 1] /\ answer = AdcAnswer(adc)
  BY DEF AdcStep
<1>13. ShiftsTo(adc', adc)
  BY <1>2, <1>11, <1>12, ShiftIs
<1>14. /\ t = 0 => Len(inbox') = 0
       /\ t = 1 => Len(inbox') = 1 /\ inbox'[1] = answer
       /\ t = 2 => Len(inbox') = 2 /\ inbox'[1] = inbox[1] /\ inbox'[2] = answer
  <2>1. Len(inbox) = (IF t < 2 THEN 0 ELSE t - 1) /\ (Head(script).reads <=> t # 0)
    BY <1>4, <1>6, <1>7
  <2>2. t = 0 \/ t = 1 \/ t = 2
    OBVIOUS
  <2>3. /\ t = 0 => Len(inbox) = 0 /\ inbox' = inbox
        /\ t = 1 => Len(inbox) = 0 /\ Head(script).reads
        /\ t = 2 => Len(inbox) = 1 /\ Head(script).reads
    BY <2>1, <2>2, <1>11
  <2>4. t = 1 => Len(inbox') = 0 + 1 /\ inbox'[0 + 1] = answer
    BY <2>3, <1>11
  <2>5. ASSUME t = 2
        PROVE  Len(inbox') = 1 + 1 /\ inbox'[1 + 1] = answer /\ inbox'[1] = inbox[1]
    <3>1. PICK n \in Nat : n = Len(inbox)
      BY <1>2
    <3>2. n = 1 /\ Head(script).reads
      BY <2>3, <2>5, <3>1
    <3>3. /\ Len(inbox') = n + 1 /\ inbox'[n + 1] = answer
          /\ \A i \in 1 .. n : inbox'[i] = inbox[i]
      BY <1>11, <3>1, <3>2
    <3>4. QED
      BY <3>2, <3>3
  <2>6. QED
    BY <2>3, <2>4, <2>5
<1>15. AdcScriptOfCall'
  <2>1. Sends(DataOuts(call.ch), {2})'
    BY <1>4, <1>5, <1>12 DEF Sends, DataOuts
  <2>2. Len(inbox') = IF t + 1 < 2 THEN 0 ELSE t + 1 - 1
    <3>1. CASE t = 0
      BY <1>14, <3>1
    <3>2. CASE t = 1
      BY <1>14, <3>2
    <3>3. CASE t = 2
      <4>1. Len(inbox') = 2 /\ t + 1 - 1 = 2 /\ ~(t + 1 < 2)
        BY <1>14, <3>3
      <4>2. QED
        BY <4>1
    <3>4. t = 0 \/ t = 1 \/ t = 2
      OBVIOUS
    <3>5. QED
      BY <3>1, <3>2, <3>3, <3>4
  <2>3. QED
    BY <1>1, <1>2, <1>8, <1>11, <1>12, <2>1, <2>2 DEF AdcScriptOfCall
<1>16. clean' => DataAt(t + 1)' /\ SameRegisters(adc', adc)
  <2> SUFFICES ASSUME clean' PROVE DataAt(t + 1)' /\ SameRegisters(adc', adc)
    OBVIOUS
  <2>1. /\ clean /\ answer = AdcAnswer(adc)
        /\ byte = IF t = 0 THEN RequestRegRead(DataReg, call.ch) ELSE 0
    BY <1>10, <1>12
  <2>2. DataAt(t)
    BY <1>7, <2>1 DEF AdcInv, Synchronous
  <2>3. adc.ready /\ adc.ch = call.ch /\ adc.converted = call.ch
    BY <1>2, <2>2 DEF DataAt, Converter
  <2>4. CASE t = 0
    <3>1. Awaits(adc) /\ byte = RequestRegRead(DataReg, call.ch)
      BY <2>1, <2>2, <2>4 DEF DataAt
    <3>2. DataReg \in {CommsReg, SetupReg, ClockReg, DataReg}
      OBVIOUS
    <3>3. /\ adc'.reg = DataReg /\ adc'.reads /\ adc'.ch = call.ch /\ ~adc'.low
          /\ SameRegisters(adc', adc) /\ (adc'.ready <=> adc.ready /\ adc'.ch = adc.ch)
      BY <1>2, <1>11, <1>12, <3>1, <3>2, AwaitedIs
    <3>4. AsksToRead(DataReg)' /\ adc'.ready
      BY <1>12, <2>3, <3>3 DEF AsksToRead
    <3>5. QED
      BY <1>12, <2>4, <3>3, <3>4 DEF DataAt
  <2>5. CASE t = 1
    <3>1. adc.reads /\ adc.reg = DataReg /\ ~adc.low
      BY <2>2, <2>5 DEF DataAt, AsksToRead
    <3>2. /\ adc'.reads /\ adc'.reg = DataReg /\ adc'.low
          /\ adc'.ch = adc.ch /\ adc'.ready = adc.ready /\ SameRegisters(adc', adc)
      BY <1>13, <3>1 DEF ShiftsTo, SameRegisters
    <3>3. answer = ResultByte(call.ch)
      BY <1>2, <2>1, <2>3, <3>1, AnswerIs
    <3>4. QED
      BY <1>12, <1>14, <2>3, <2>5, <3>2, <3>3 DEF DataAt
  <2>6. CASE t = 2
    <3>1. adc.reads /\ adc.reg = DataReg /\ adc.low /\ inbox[1] = ResultByte(call.ch)
      BY <2>2, <2>6 DEF DataAt
    <3>2. Awaits(adc') /\ SameRegisters(adc', adc)
      <4>1. ~Awaits(adc) /\ ~(adc.reads /\ adc.reg = DataReg /\ ~adc.low)
        BY <3>1 DEF Awaits
      <4>2. QED
        BY <1>13, <3>1, <4>1 DEF ShiftsTo, SameRegisters
    <3>3. answer = 1
      BY <1>2, <2>1, <2>3, <3>1, AnswerIs
    <3>4. inbox' = Sample(call.ch)
      <4> DEFINE x == ResultByte(call.ch)
                 s == <<x, 1>>
                 i == inbox'
      <4>1. x \in Int
        BY <1>2, Numbers DEF ResultByte
      <4>2. Len(i) = 2 /\ i[1] = x /\ i[2] = 1 /\ i \in Seq(Int)
        BY <1>11, <1>14, <2>6, <3>1, <3>3
      <4> HIDE DEF x, i
      <4>3. s \in Seq(Int) /\ Len(s) = 2 /\ s[1] = x /\ s[2] = 1
        BY <4>1
      <4> HIDE DEF s
      <4>4. \A k \in 1 .. 2 : i[k] = s[k]
        <5>1. \A k \in 1 .. 2 : k = 1 \/ k = 2
          OBVIOUS
        <5>2. QED
          BY <4>2, <4>3, <5>1
      <4>5. i = s
        BY <4>2, <4>3, <4>4, SeqEqual
      <4>6. QED
        BY <4>5 DEF i, s, x, Sample
    <3>5. QED
      BY <1>12, <2>6, <3>2, <3>4 DEF DataAt
  <2>7. QED
    BY <2>4, <2>5, <2>6
<1>17. Synchronous'
  <2> SUFFICES ASSUME clean' PROVE Synchronous'
    BY DEF Synchronous
  <2>1. DataAt(DataPlace)'
    BY <1>8, <1>16 DEF DataAt
  <2>2. QED
    BY <1>1, <1>12, <2>1 DEF Synchronous
<1>18. Verified'
  <2>1. clean' => \A ch \in verified : /\ adc'.setup[ch] = adc.setup[ch]
                                       /\ adc'.clock[ch] = adc.clock[ch]
    BY <1>16 DEF SameRegisters
  <2>2. call.op # "gain_set"
    OBVIOUS
  <2>3. QED
    BY <1>12, <2>1, <2>2, VerifiedKept DEF AdcInv
<1>19. QED
  BY <1>11, <1>15, <1>17, <1>18

\* The write of a gain.
LEMMA GainSetStep ==
    ASSUME Inv, AdcInv, call.op = "gain_set", NEW byte, NEW answer, AdcStep(byte, answer)
    PROVE  AdcScriptOfCall' /\ Synchronous' /\ Verified' /\ Converter(adc')
<1>1. call.op \in AdcOps
  BY DEF AdcOps
<1>2. Converter(adc) /\ call.ch \in Channels /\ inbox \in Seq(Int) /\ Len(inbox) \in Nat
  BY <1>1, AdcCallFacts
<1>3. PICK b \in Int : Sends(GainOuts(call.ch, b), {})
  BY <1>1 DEF AdcInv, AdcScriptOfCall
<1>4. PICK a \in Int : a = RequestRegWrite(SetupReg, call.ch)
  BY <1>2, RequestBits
<1>5. GainOuts(call.ch, b) = <<<<a>>, <<b>>>>
  BY <1>4 DEF GainOuts
<1>6. PICK R : R = {}
  OBVIOUS
<1>7. Sends(<<<<a>>, <<b>>>>, R)
  BY <1>3, <1>5, <1>6
<1>8. /\ Sends(<<<<a>>, <<b>>>>, R)'
      /\ \E t \in {0, 1} :
            /\ Place(2) = t /\ Place(2)' = t + 1 /\ sent = 0 /\ Len(script) = 2 - t
            /\ Head(script).out[sent + 1] = IF t = 0 THEN a ELSE b
            /\ Head(script).reads <=> t + 1 \in R
  BY <1>1, <1>7, TwoBytes
<1>9. PICK t \in {0, 1} :
         /\ Place(2) = t /\ Place(2)' = t + 1 /\ sent = 0 /\ Len(script) = 2 - t
         /\ Head(script).out[sent + 1] = IF t = 0 THEN a ELSE b
         /\ ~Head(script).reads
  BY <1>6, <1>8
<1>10. /\ byte \in Int /\ Converter(adc') /\ inbox' = inbox
       /\ script' # <<>> => sent' <= Len(Head(script').out)
  <2>1. Head(script).out[sent + 1] \in Int
    BY <1>9
  <2>2. QED
    BY <1>1, <1>9, <2>1, StepFacts
<1>11. /\ adc' = AdcShift(adc, byte) /\ UNCHANGED <<script, stage, call, verified, wanted>>
       /\ clean' => clean /\ byte = IF t = 0 THEN a ELSE b
  BY <1>9 DEF AdcStep
<1>12. ShiftsTo(adc', adc)
  BY <1>2, <1>10, <1>11, ShiftIs
<1>13. AdcScriptOfCall'
  <2>1. GainOuts(call.ch, b)' = <<<<a>>, <<b>>>>
    BY <1>4, <1>11 DEF GainOuts
  <2>2. Sends(GainOuts(call.ch, b), {})'
    BY <1>6, <1>8, <2>1 DEF Sends
  <2>3. QED
    BY <1>1, <1>2, <1>10, <1>11, <2>2 DEF AdcScriptOfCall
<1>14. ASSUME clean', t = 0
       PROVE  AsksToWrite(SetupReg)' /\ SameRegisters(adc', adc)
  <2>1. Awaits(adc) /\ byte = RequestRegWrite(SetupReg, call.ch)
    BY <1>4, <1>9, <1>11, <1>14 DEF AdcInv, Synchronous, GainSetAt
  <2>2. /\ adc'.reg = SetupReg /\ ~adc'.reads /\ adc'.ch = call.ch /\ ~adc'.low
        /\ SameRegisters(adc', adc)
    BY <1>2, <1>10, <1>11, <2>1, AwaitedIs
  <2>3. QED
    BY <1>11, <2>2 DEF AsksToWrite
<1>15. ASSUME clean', t = 1
       PROVE  /\ Awaits(adc') /\ adc'.clock = adc.clock /\ adc'.setup[call.ch] = b
              /\ \A c \in Channels \ {call.ch} : adc'.setup[c] = adc.setup[c]
  <2>1. AsksToWrite(SetupReg) /\ byte = b
    BY <1>9, <1>11, <1>15 DEF AdcInv, Synchronous, GainSetAt
  <2>2. adc.reg = SetupReg /\ ~adc.reads /\ adc.ch = call.ch
    BY <2>1 DEF AsksToWrite
  <2>3. ~Awaits(adc) /\ adc.reg \notin {CommsReg, ClockReg}
    BY <2>2, Numbers DEF Awaits
  <2>4. Awaits(adc') /\ adc'.clock = adc.clock
    BY <1>12, <2>2, <2>3 DEF ShiftsTo
  <2>5. ~adc.reads /\ adc.reg = SetupReg =>
           /\ adc'.setup[adc.ch] = byte
           /\ \A c \in Channels \ {adc.ch} : adc'.setup[c] = adc.setup[c]
    BY <1>2, <1>10, <1>11, ShiftIs
  <2>6. QED
    BY <2>1, <2>2, <2>4, <2>5
<1>16. Synchronous'
  <2> SUFFICES ASSUME clean' PROVE Synchronous'
    BY DEF Synchronous
  <2>1. GainSetAt(t + 1)'
    BY <1>14, <1>15 DEF GainSetAt
  <2>2. GainSetAt(Place(2))'
    BY <1>9, <2>1 DEF GainSetAt
  <2>3. QED
    BY <1>1, <1>11, <2>2 DEF Synchronous
<1>17. ASSUME clean', NEW ch \in verified PROVE IsSet(ch)'
  <2>1. clean /\ IsSet(ch) /\ ch \in Channels
    BY <1>11, <1>17 DEF AdcInv, Verified
  <2>2. PICK g \in 0 .. PGA_MASK : HasGain(ch, g)
    BY <2>1 DEF IsSet
  <2>3. adc'.clock[ch] = ClockSettings
    BY <1>14, <1>15, <1>17, <2>1 DEF IsSet, SameRegisters
  <2>4. CASE ch # call.ch
    <3>1. adc'.setup[ch] = adc.setup[ch]
      BY <1>14, <1>15, <1>17, <2>1, <2>4 DEF SameRegisters
    <3>2. HasGain(ch, g)'
      BY <1>11, <2>2, <2>4, <3>1 DEF HasGain
    <3>3. QED
      BY <2>3, <3>2 DEF IsSet
  <2>5. CASE ch = call.ch /\ t = 0
    <3>1. adc'.setup[ch] = adc.setup[ch]
      BY <1>14, <1>17, <2>5 DEF SameRegisters
    <3>2. Place(2) < 2 /\ Place(2)' < 2
      BY <1>9, <2>5
    <3>3. HasGain(ch, g)'
      BY <1>11, <2>2, <2>5, <3>1, <3>2 DEF HasGain
    <3>4. QED
      BY <2>3, <3>3 DEF IsSet
  <2>6. CASE ch = call.ch /\ t = 1
    <3>1. script[Len(script)].out = <<WithGain(SetupSettings, wanted[ch])>>
      BY <1>9, <2>2, <2>6 DEF HasGain
    <3>2. script[Len(script)].out = <<b>>
      <4>1. Len(script) = 1 /\ Len(<<<<a>>, <<b>>>>) = 2 /\ <<<<a>>, <<b>>>>[2] = <<b>>
        BY <1>9, <2>6
      <4>2. \A i \in 1 .. Len(script) :
               script[i].out = <<<<a>>, <<b>>>>[Len(<<<<a>>, <<b>>>>) - Len(script) + i]
        BY <1>7 DEF Sends
      <4> DEFINE o == <<<<a>>, <<b>>>>
                 m == Len(script)
      <4>3. m = 1 /\ Len(o) = 2 /\ o[2] = <<b>>
               /\ \A i \in 1 .. m : script[i].out = o[Len(o) - m + i]
        BY <4>1, <4>2
      <4> HIDE DEF o, m
      <4>4. script[m].out = <<b>>
        BY <4>3
      <4>5. QED
        BY <4>4 DEF m
    <3>3. b = WithGain(SetupSettings, wanted[ch])
      <4>1. \A x, y : <<x>> = <<y>> => x = y
        OBVIOUS
      <4>2. QED
        BY <3>1, <3>2, <4>1
    <3>4. adc'.setup[ch] = WithGain(SetupSettings, wanted[ch])
      BY <1>15, <1>17, <2>6, <3>3
    <3>5. PICK w \in 0 .. PGA_MASK : w = wanted[ch]
      BY <2>1 DEF AdcInv, Verified
    <3>6. HasGain(ch, w)'
      <4>1. ~(Place(2)' < 2)
        BY <1>9, <2>6
      <4>2. QED
        BY <1>11, <2>6, <3>4, <3>5, <4>1 DEF HasGain
    <3>7. QED
      BY <2>3, <3>6 DEF IsSet
  <2>7. QED
    BY <2>4, <2>5, <2>6
<1>18. Verified'
  BY <1>11, <1>17 DEF AdcInv, Verified
<1>19. QED
  BY <1>10, <1>13, <1>16, <1>18

-----------------------------------------------------------------------------
(* The bus and the converter *)

LEMMA TransferAdc ==
    ASSUME Inv, AdcInv, Transfer \/ Garble
    PROVE  AdcInv'
<1>1. CASE call.op \notin AdcOps
  <2>1. UNCHANGED <<adc, stage, call, verified, wanted>> /\ (clean' => clean)
    BY <1>1, Exchanges
  <2>2. call.op \notin {"init", "poll", "data", "gain", "gain_set", "step"}
    BY <1>1 DEF AdcOps
  <2>3. Converter(adc') /\ AdcScriptOfCall'
    BY <1>1, <2>1 DEF AdcInv, AdcScriptOfCall
  <2>4. Synchronous'
    BY <2>1, <2>2 DEF AdcInv, Synchronous
  <2>5. Verified'
    BY <2>1, <2>2, VerifiedKept DEF AdcInv
  <2>6. call'.op # "init"
    BY <2>1, <2>2
  <2>7. QED
    BY <2>3, <2>4, <2>5, <2>6 DEF AdcInv
<1>2. CASE call.op \in AdcOps
  <2>1. PICK byte, answer : AdcStep(byte, answer)
    BY <1>2, Exchanges
  <2>2. UNCHANGED <<stage, call, verified, wanted>> /\ (clean' => clean)
    BY <2>1 DEF AdcStep
  <2>3. CASE call.op = "init"
    <3>1. AdcScriptOfCall' /\ ReadBackAt(Place(8))'
      BY <2>1, <2>3, InitScriptStays, InitReadBack
    <3>2. clean' => InitAt(Place(8))'
      BY <2>1, <2>3, InitStaysInStep
    <3>3. call'.op = "init"
      BY <2>2, <2>3
    <3>4. Synchronous'
      BY <3>2, <3>3 DEF Synchronous, AdcOps
    <3>5. Verified'
      <4>1. clean' => \A ch \in verified : /\ adc'.setup[ch] = adc.setup[ch]
                                           /\ adc'.clock[ch] = adc.clock[ch]
        BY <2>1, <2>3, InitLeavesOther
      <4>2. call.op # "gain_set"
        BY <2>3
      <4>3. QED
        BY <2>2, <4>1, <4>2, VerifiedKept DEF AdcInv
    <3>6. Converter(adc')
      <4>1. Head(script).out[sent + 1] \in Int
        BY <2>1, <2>3, InitByte
      <4>2. QED
        BY <1>2, <2>1, <4>1, StepFacts
    <3>7. QED
      BY <3>1, <3>4, <3>5, <3>6 DEF AdcInv
  <2>4. CASE call.op # "init"
    <3>1. AdcScriptOfCall' /\ Synchronous' /\ Verified' /\ Converter(adc')
      BY <1>2, <2>1, <2>4, ReadStep, DataStep, GainSetStep DEF AdcOps
    <3>2. call'.op # "init"
      BY <2>2, <2>4
    <3>3. QED
      BY <3>1, <3>2 DEF AdcInv
  <2>5. QED
    BY <2>3, <2>4
<1>3. QED
  BY <1>1, <1>2

\* The end of a transaction is not a step of the call's bytes.
LEMMA ClosedPlace ==
    ASSUME NEW outs, NEW n \in Nat, n = Len(outs), NEW R, NEW S, script \in Seq(S),
           Sends(outs, R), \A k \in 1 .. n : \E b : outs[k] = <<b>>,
           sent \in Nat, script = <<>> => sent = 0,
           script # <<>>, sent = Len(Head(script).out),
           script' = Tail(script), sent' = 0
    PROVE  Place(n)' = Place(n) /\ Sends(outs, R)' /\ Len(script') = Len(script) - 1
<1>1. sent = 1
  BY BytePlace
<1>2. Sends(outs, R)' /\ Len(script') = Len(script) - 1
  BY SendsRest
<1>3. PICK m \in Nat : m = Len(script)
  BY LenProperties
<1>4. Place(n) = n - m + 1 /\ Place(n)' = n - (m - 1) + 0
  BY <1>1, <1>2, <1>3 DEF Place
<1>5. n - (m - 1) + 0 = n - m + 1
  OBVIOUS
<1>6. QED
  BY <1>2, <1>4, <1>5

LEMMA ClosedTwo ==
    ASSUME NEW a, NEW b, NEW R, NEW S, script \in Seq(S), Sends(<<<<a>>, <<b>>>>, R),
           sent \in Nat, script = <<>> => sent = 0,
           script # <<>>, sent = Len(Head(script).out),
           script' = Tail(script), sent' = 0
    PROVE  /\ Place(2)' = Place(2) /\ Sends(<<<<a>>, <<b>>>>, R)'
           /\ Len(script') = Len(script) - 1
           /\ Place(2) < 2 => script[Len(script)] = script'[Len(script')]
<1> DEFINE o == <<<<a>>, <<b>>>>
<1>1. Len(o) = 2 /\ \A k \in 1 .. 2 : \E x : o[k] = <<x>>
  <2>1. Len(o) = 2 /\ o[1] = <<a>> /\ o[2] = <<b>>
    OBVIOUS
  <2>2. \A k \in 1 .. 2 : k = 1 \/ k = 2
    OBVIOUS
  <2> HIDE DEF o
  <2>3. QED
    BY <2>1, <2>2
<1> HIDE DEF o
<1>2. PICK n \in Nat : n = 2
  OBVIOUS
<1>3. n = Len(o) /\ (\A k \in 1 .. n : \E x : o[k] = <<x>>) /\ Sends(o, R)
  BY <1>1, <1>2 DEF o
<1>4. Place(n)' = Place(n) /\ Sends(o, R)' /\ Len(script') = Len(script) - 1
  BY <1>3, ClosedPlace
<1>5. sent = 1
  BY <1>3, BytePlace
<1>6. ASSUME Place(2) < 2 PROVE script[Len(script)] = script'[Len(script')]
  <2>1. PICK m \in Nat : m = Len(script)
    BY LenProperties
  <2>2. 2 - m + 1 < 2
    BY <1>5, <1>6, <2>1 DEF Place
  <2>3. m > 1
    BY <2>2
  <2>4. \A i \in 1 .. Len(Tail(script)) : Tail(script)[i] = script[i + 1]
    BY HeadTailProperties
  <2>5. Len(script') = m - 1 /\ Len(Tail(script)) = m - 1
    BY <1>4, <2>1
  <2>6. m - 1 \in 1 .. m - 1 /\ m - 1 + 1 = m
    BY <2>3
  <2>7. Tail(script)[m - 1] = script[m]
    BY <2>4, <2>5, <2>6
  <2>8. QED
    BY <2>1, <2>5, <2>7
<1>7. QED
  BY <1>2, <1>4, <1>6 DEF o

LEMMA CloseAdc ==
    ASSUME Inv, AdcInv, Close
    PROVE  AdcInv'
<1>1. /\ script # <<>> /\ sent = Len(Head(script).out)
      /\ script' = Tail(script) /\ sent' = 0 /\ inbox' = inbox
      /\ UNCHANGED <<adc, stage, call, clean, verified, wanted>>
  BY DEF Close, CloseSpiConnection, Quiet, mx7705, wrapper, fault
<1>2. Converter(adc')
  BY <1>1 DEF AdcInv
<1>3. CASE call.op \notin AdcOps
  <2>1. call.op \notin {"init", "poll", "data", "gain", "gain_set", "step"}
    BY <1>3 DEF AdcOps
  <2>2. AdcScriptOfCall'
    BY <1>1, <1>3 DEF AdcScriptOfCall
  <2>3. Synchronous'
    BY <1>1, <2>1 DEF AdcInv, Synchronous
  <2>4. Verified'
    BY <1>1, <2>1, VerifiedKept DEF AdcInv
  <2>5. QED
    BY <1>1, <1>2, <2>1, <2>2, <2>3, <2>4 DEF AdcInv
<1>4. ASSUME call.op \in AdcOps
      PROVE  /\ \E S : script \in Seq(S)
             /\ sent \in Nat /\ (script = <<>> => sent = 0)
             /\ call.ch \in Channels /\ inbox \in Seq(Int)
  BY <1>4, AdcCallFacts
<1>5. CASE call.op = "init"
  <2>1. PICK S : script \in Seq(S)
    BY <1>4, <1>5 DEF AdcOps
  <2>2. PICK ch \in Channels : ch = call.ch
    BY <1>4, <1>5 DEF AdcOps
  <2>3. PICK o : o = InitOuts(ch)
    OBVIOUS
  <2>4. PICK n \in Nat : n = 8
    OBVIOUS
  <2>5. PICK R : R = {6, 8}
    OBVIOUS
  <2>6. n = Len(o) /\ \A k \in 1 .. n : \E b : o[k] = <<b>>
    BY <2>3, <2>4, InitOutsAre
  <2>7. Sends(o, R)
    BY <1>5, <2>2, <2>3, <2>5 DEF AdcInv, AdcScriptOfCall, AdcOps
  <2>8. sent \in Nat /\ (script = <<>> => sent = 0)
    BY <1>4, <1>5 DEF AdcOps
  <2>9. Place(n)' = Place(n) /\ Sends(o, R)'
    BY <1>1, <2>1, <2>6, <2>7, <2>8, ClosedPlace
  <2>10. PICK t : t = Place(8)
    OBVIOUS
  <2>11. Place(8)' = t
    BY <2>4, <2>9, <2>10
  <2>12. Len(inbox) = IF t < 6 THEN 0 ELSE IF t < 8 THEN 1 ELSE 2
    BY <1>5, <2>10 DEF AdcInv, AdcScriptOfCall, AdcOps
  <2>13. ReadBackAt(t) /\ (clean => InitAt(t))
    BY <1>5, <2>10 DEF AdcInv, Synchronous
  <2>14. Sends(InitOuts(call.ch), {6, 8})'
    <3>1. InitOuts(call.ch)' = o
      BY <1>1, <2>2, <2>3 DEF InitOuts
    <3>2. QED
      BY <2>5, <2>9, <3>1 DEF Sends
  <2>15. AdcScriptOfCall'
    BY <1>1, <1>4, <1>5, <2>11, <2>12, <2>14 DEF AdcScriptOfCall
  <2>16. ReadBackAt(t)'
    BY <1>1, <2>13 DEF ReadBackAt, AsksToRead, IsVerified
  <2>17. clean' => InitAt(t)'
    BY <1>1, <2>13 DEF InitAt, InStep, OutOfStep, AsksToRead, AsksToWrite
  <2>18. ReadBackAt(Place(8))' /\ (clean' => InitAt(Place(8))')
    BY <2>11, <2>16, <2>17 DEF ReadBackAt, InitAt, InStep, OutOfStep
  <2>19. Synchronous'
    BY <1>1, <1>5, <2>18 DEF Synchronous, AdcOps
  <2>20. call.op # "gain_set"
    BY <1>5
  <2>21. Verified'
    BY <1>1, <2>20, VerifiedKept DEF AdcInv
  <2>22. QED
    BY <1>2, <2>15, <2>18, <2>19, <2>21 DEF AdcInv
<1>6. CASE call.op \in {"poll", "gain", "step"}
  <2>1. call.op \in AdcOps /\ call.op \notin {"init", "data", "gain_set"}
    BY <1>6 DEF AdcOps
  <2>2. PICK S : script \in Seq(S)
    BY <1>4, <2>1
  <2>3. PICK reg : reg = IF call.op = "poll" THEN CommsReg ELSE SetupReg
    OBVIOUS
  <2>4. PICK a : a = RequestRegRead(reg, call.ch)
    OBVIOUS
  <2>5. PICK b : b = 0
    OBVIOUS
  <2>6. PICK R : R = {2}
    OBVIOUS
  <2>7. Sends(ReadOuts(reg, call.ch), {2}) /\ Len(inbox) = IF Place(2) < 2 THEN 0 ELSE 1
    BY <1>6, <2>1, <2>3 DEF AdcInv, AdcScriptOfCall
  <2>8. Sends(<<<<a>>, <<b>>>>, R)
    BY <2>4, <2>5, <2>6, <2>7 DEF ReadOuts
  <2>9. Place(2)' = Place(2) /\ Sends(<<<<a>>, <<b>>>>, R)'
    BY <1>1, <1>4, <2>1, <2>2, <2>8, ClosedTwo
  <2>10. PICK t : t = Place(2)
    OBVIOUS
  <2>11. Place(2)' = t
    BY <2>9, <2>10
  <2>12. clean => (call.op = "poll" => PollAt(t)) /\ (call.op # "poll" => GainAt(t))
    BY <1>6, <2>10 DEF AdcInv, Synchronous
  <2>13. Sends(ReadOuts(reg, call.ch), {2})'
    <3>1. ReadOuts(reg, call.ch)' = <<<<a>>, <<b>>>>
      BY <1>1, <2>4, <2>5 DEF ReadOuts
    <3>2. QED
      BY <2>6, <2>9, <3>1 DEF Sends
  <2>14. Len(inbox) = IF t < 2 THEN 0 ELSE 1
    BY <2>7, <2>10
  <2>15. AdcScriptOfCall'
    BY <1>1, <1>4, <1>6, <2>1, <2>3, <2>11, <2>13, <2>14 DEF AdcScriptOfCall
  <2>16. clean' => (call.op = "poll" => PollAt(t)') /\ (call.op # "poll" => GainAt(t)')
    BY <1>1, <2>12 DEF PollAt, GainAt, AsksToRead
  <2>17. clean' => /\ call.op = "poll" => PollAt(Place(2))'
                   /\ call.op # "poll" => GainAt(Place(2))'
    BY <2>11, <2>16 DEF PollAt, GainAt
  <2>18. Synchronous'
    BY <1>1, <1>6, <2>1, <2>17 DEF Synchronous
  <2>19. Verified'
    BY <1>1, <2>1, VerifiedKept DEF AdcInv
  <2>20. QED
    BY <1>1, <1>2, <2>1, <2>15, <2>18, <2>19 DEF AdcInv
<1>7. CASE call.op = "gain_set"
  <2>1. call.op \in AdcOps /\ call.op \notin {"init", "data", "poll", "gain", "step"}
    BY <1>7 DEF AdcOps
  <2>2. PICK S : script \in Seq(S)
    BY <1>4, <2>1
  <2>3. PICK b \in Int : Sends(GainOuts(call.ch, b), {})
    BY <1>7, <2>1 DEF AdcInv, AdcScriptOfCall
  <2>4. PICK a : a = RequestRegWrite(SetupReg, call.ch)
    OBVIOUS
  <2>5. PICK R : R = {}
    OBVIOUS
  <2>6. Sends(<<<<a>>, <<b>>>>, R)
    BY <2>3, <2>4, <2>5 DEF GainOuts
  <2>7. /\ Place(2)' = Place(2) /\ Sends(<<<<a>>, <<b>>>>, R)'
        /\ Place(2) < 2 => script[Len(script)] = script'[Len(script')]
    BY <1>1, <1>4, <2>1, <2>2, <2>6, ClosedTwo
  <2>8. PICK t : t = Place(2)
    OBVIOUS
  <2>9. Place(2)' = t
    BY <2>7, <2>8
  <2>10. Sends(GainOuts(call.ch, b), {})'
    <3>1. GainOuts(call.ch, b)' = <<<<a>>, <<b>>>>
      BY <1>1, <2>4 DEF GainOuts
    <3>2. QED
      BY <2>5, <2>7, <3>1 DEF Sends
  <2>11. AdcScriptOfCall'
    BY <1>1, <1>4, <2>1, <2>10 DEF AdcScriptOfCall
  <2>12. clean => GainSetAt(t)
    BY <1>7, <2>8 DEF AdcInv, Synchronous
  <2>13. clean' => GainSetAt(t)'
    BY <1>1, <2>12 DEF GainSetAt, AsksToWrite
  <2>14. clean' => GainSetAt(Place(2))'
    BY <2>9, <2>13 DEF GainSetAt
  <2>15. Synchronous'
    BY <1>1, <2>1, <2>14 DEF Synchronous
  <2>16. ASSUME clean, NEW ch \in verified PROVE IsSet(ch)'
    <3>1. IsSet(ch)
      BY <2>16 DEF AdcInv, Verified
    <3>2. PICK g \in 0 .. PGA_MASK : HasGain(ch, g)
      BY <3>1 DEF IsSet
    <3>3. HasGain(ch, g)'
      BY <1>1, <2>1, <2>7, <3>2 DEF HasGain
    <3>4. QED
      BY <1>1, <3>1, <3>3 DEF IsSet
  <2>17. Verified'
    BY <1>1, <2>16 DEF AdcInv, Verified
  <2>18. QED
    BY <1>1, <1>2, <2>1, <2>11, <2>15, <2>17 DEF AdcInv
<1>8. CASE call.op = "data"
  <2>1. call.op \in AdcOps /\ call.op \notin {"init", "gain_set", "poll", "gain", "step"}
    BY <1>8 DEF AdcOps
  <2>2. PICK S : script \in Seq(S)
    BY <1>4, <2>1
  <2>3. Sends(DataOuts(call.ch), {2}) /\ Len(inbox) = IF DataPlace < 2 THEN 0 ELSE DataPlace - 1
    BY <1>8, <2>1 DEF AdcInv, AdcScriptOfCall
  <2>4. \/ Len(script) = 2 /\ DataPlace = 1
        \/ Len(script) = 1 /\ DataPlace = 3
    <3>1. script # <<>> => sent = 0 \/ sent <= Len(Head(script).out)
      BY <2>1, AdcCallFacts
    <3>2. QED
      BY <1>1, <1>4, <2>1, <2>2, <2>3, <3>1, DataPlaces
  <2>5. PICK o : o = DataOuts(call.ch)
    OBVIOUS
  <2>6. PICK n \in Nat : n = 2
    OBVIOUS
  <2>7. PICK R : R = {2}
    OBVIOUS
  <2>8. n = Len(o) /\ Sends(o, R)
    BY <2>3, <2>5, <2>6, <2>7 DEF DataOuts
  <2>9. Sends(o, R)' /\ Len(script') = Len(script) - 1
    BY <1>1, <2>2, <2>8, SendsRest
  <2>10. PICK t : t = DataPlace
    OBVIOUS
  <2>11. DataPlace' = t
    <3>1. CASE Len(script) = 2 /\ DataPlace = 1
      <4>1. Len(script') = 1
        BY <2>9, <3>1
      <4>2. script' # <<>>
        BY <4>1
      <4>3. Place(2)' = 2 - 1 + 0
        BY <1>1, <4>1 DEF Place
      <4>4. DataPlace' = Place(2)'
        BY <4>2 DEF DataPlace
      <4>5. QED
        BY <2>10, <3>1, <4>3, <4>4
    <3>2. CASE Len(script) = 1 /\ DataPlace = 3
      <4>1. Len(script') = 0
        BY <2>9, <3>2
      <4>2. script' = <<>>
        BY <1>1, <2>2, <4>1, HeadTailProperties, EmptySeq
      <4>3. QED
        BY <2>10, <3>2, <4>2 DEF DataPlace
    <3>3. QED
      BY <2>4, <3>1, <3>2
  <2>12. Sends(DataOuts(call.ch), {2})'
    <3>1. DataOuts(call.ch)' = o
      BY <1>1, <2>5 DEF DataOuts
    <3>2. QED
      BY <2>7, <2>9, <3>1 DEF Sends
  <2>13. Len(inbox) = IF t < 2 THEN 0 ELSE t - 1
    BY <2>3, <2>10
  <2>14. AdcScriptOfCall'
    BY <1>1, <1>4, <2>1, <2>11, <2>12, <2>13 DEF AdcScriptOfCall
  <2>15. clean => DataAt(t)
    BY <1>8, <2>10 DEF AdcInv, Synchronous
  <2>16. clean' => DataAt(t)'
    BY <1>1, <2>15 DEF DataAt, AsksToRead
  <2>17. clean' => DataAt(DataPlace)'
    BY <2>11, <2>16 DEF DataAt
  <2>18. Synchronous'
    BY <1>1, <2>1, <2>17 DEF Synchronous
  <2>19. Verified'
    BY <1>1, <2>1, VerifiedKept DEF AdcInv
  <2>20. QED
    BY <1>1, <1>2, <2>1, <2>14, <2>18, <2>19 DEF AdcInv
<1>9. QED
  BY <1>3, <1>5, <1>6, <1>7, <1>8 DEF AdcOps

LEMMA SameScript ==
    ASSUME AdcScriptOfCall, UNCHANGED <<script, sent, inbox, call>>
    PROVE  AdcScriptOfCall'
<1>1. PICK ch : ch = call.ch
  OBVIOUS
<1>2. \A outs, R : Sends(outs, R) => Sends(outs, R)'
  BY DEF Sends
<1>3. PICK R, N : R = {2} /\ N = {6, 8}
  OBVIOUS
<1>4. Sends(InitOuts(call.ch), N) => Sends(InitOuts(call.ch), N)'
  <2>1. PICK o : o = InitOuts(ch)
    OBVIOUS
  <2>2. InitOuts(call.ch)' = o
    BY <1>1, <2>1 DEF InitOuts
  <2>3. QED
    BY <1>1, <1>2, <2>1, <2>2 DEF Sends
<1>5. \A reg : Sends(ReadOuts(reg, call.ch), R) => Sends(ReadOuts(reg, call.ch), R)'
  <2> TAKE reg
  <2>1. PICK o : o = ReadOuts(reg, ch)
    OBVIOUS
  <2>2. ReadOuts(reg, call.ch)' = o
    BY <1>1, <2>1 DEF ReadOuts
  <2>3. QED
    BY <1>1, <1>2, <2>1, <2>2 DEF Sends
<1>6. Sends(DataOuts(call.ch), R) => Sends(DataOuts(call.ch), R)'
  <2>1. PICK o : o = DataOuts(ch)
    OBVIOUS
  <2>2. DataOuts(call.ch)' = o
    BY <1>1, <2>1 DEF DataOuts
  <2>3. QED
    BY <1>1, <1>2, <2>1, <2>2 DEF Sends
<1>7. \A byte : Sends(GainOuts(call.ch, byte), {}) => Sends(GainOuts(call.ch, byte), {})'
  <2> TAKE byte
  <2>1. PICK o, E : o = GainOuts(ch, byte) /\ E = {}
    OBVIOUS
  <2>2. GainOuts(call.ch, byte)' = o
    BY <1>1, <2>1 DEF GainOuts
  <2>3. QED
    BY <1>1, <1>2, <2>1, <2>2 DEF Sends
<1>8. Place(8)' = Place(8) /\ Place(2)' = Place(2) /\ DataPlace' = DataPlace
  BY DEF Place, DataPlace
<1> DEFINE a == Sends(InitOuts(call.ch), {6, 8})
           b(reg) == Sends(ReadOuts(reg, call.ch), {2})
           c == Sends(DataOuts(call.ch), {2})
           d(byte) == Sends(GainOuts(call.ch, byte), {})
<1>9. (a => a') /\ (\A reg : b(reg) => b(reg)') /\ (c => c') /\ (\A byte : d(byte) => d(byte)')
  BY <1>3, <1>4, <1>5, <1>6, <1>7
<1>10. QED
  BY <1>8, <1>9 DEF AdcScriptOfCall

\* A step that leaves the converter and its driver's call alone.
LEMMA SameAdc ==
    ASSUME AdcInv, UNCHANGED <<adc, script, sent, inbox, call, stage, clean, verified, wanted>>
    PROVE  AdcInv'
<1>1. Converter(adc') /\ (call'.op = "init" => ReadBackAt(Place(8))')
  BY DEF AdcInv, ReadBackAt, Place, AsksToRead, IsVerified
<1>2. AdcScriptOfCall'
  BY SameScript DEF AdcInv
<1>3. Synchronous'
  <2>1. Place(8)' = Place(8) /\ Place(2)' = Place(2) /\ DataPlace' = DataPlace
    BY DEF Place, DataPlace
  <2>2. /\ InitAt(Place(8)) => InitAt(Place(8))'
        /\ PollAt(Place(2)) => PollAt(Place(2))'
        /\ DataAt(DataPlace) => DataAt(DataPlace)'
        /\ GainAt(Place(2)) => GainAt(Place(2))'
        /\ GainSetAt(Place(2)) => GainSetAt(Place(2))'
    BY <2>1 DEF InitAt, InStep, OutOfStep, PollAt, DataAt, GainAt, GainSetAt, AsksToRead,
                AsksToWrite
  <2>3. QED
    BY <2>2 DEF AdcInv, Synchronous
<1>4. Verified'
  <2>1. ASSUME clean, NEW ch \in verified PROVE IsSet(ch)'
    <3>1. IsSet(ch)
      BY <2>1 DEF AdcInv, Verified
    <3>2. PICK g \in 0 .. PGA_MASK : HasGain(ch, g)
      BY <3>1 DEF IsSet
    <3>3. HasGain(ch, g)'
      BY <3>2 DEF HasGain, Stepped, Place
    <3>4. QED
      BY <3>1, <3>3 DEF IsSet
  <2>2. QED
    BY <2>1 DEF AdcInv, Verified
<1>5. QED
  BY <1>1, <1>2, <1>3, <1>4 DEF AdcInv

\* A new conversion is of the channel asked for last.
LEMMA ConvertAdc ==
    ASSUME Inv, AdcInv, AdcConverts
    PROVE  AdcInv'
<1>1. UNCHANGED <<script, sent, inbox, call, stage, clean, verified, wanted>>
  BY DEF AdcConverts, bus, wrapper, fault
<1>2. adc' = [adc EXCEPT !.ready = TRUE, !.converted = adc.ch]
  BY DEF AdcConverts, Convert
<1>3. /\ Converter(adc') /\ SameRegisters(adc', adc) /\ adc'.ready
      /\ adc'.reg = adc.reg /\ adc'.ch = adc.ch
      /\ adc'.reads = adc.reads /\ adc'.low = adc.low
  BY <1>2 DEF AdcInv, Converter, Fields, SameRegisters
<1>4. /\ Awaits(adc') <=> Awaits(adc)
      /\ \A reg : (AsksToRead(reg)' <=> AsksToRead(reg))
                  /\ (AsksToWrite(reg)' <=> AsksToWrite(reg))
  BY <1>1, <1>3 DEF Awaits, AsksToRead, AsksToWrite
<1>5. Place(8)' = Place(8) /\ Place(2)' = Place(2) /\ DataPlace' = DataPlace
  BY <1>1 DEF Place, DataPlace
<1>6. call'.op = "init" => ReadBackAt(Place(8))'
  <2>1. IsVerified' <=> IsVerified
    BY <1>1 DEF IsVerified
  <2>2. QED
    BY <1>1, <1>3, <1>4, <1>5, <2>1 DEF AdcInv, ReadBackAt, SameRegisters
<1>7. AdcScriptOfCall'
  BY <1>1, SameScript DEF AdcInv
<1>8. Synchronous'
  <2>1. /\ InitAt(Place(8)) => InitAt(Place(8))'
        /\ PollAt(Place(2)) => PollAt(Place(2))'
        /\ DataAt(DataPlace) => DataAt(DataPlace)'
        /\ GainAt(Place(2)) => GainAt(Place(2))'
        /\ GainSetAt(Place(2)) => GainSetAt(Place(2))'
    BY <1>1, <1>3, <1>4, <1>5 DEF InitAt, InStep, OutOfStep, PollAt, DataAt, GainAt, GainSetAt,
                                  SameRegisters
  <2>2. QED
    BY <1>1, <1>4, <2>1 DEF AdcInv, Synchronous
<1>9. Verified'
  <2>1. ASSUME clean, NEW ch \in verified PROVE IsSet(ch)'
    <3>1. IsSet(ch)
      BY <2>1 DEF AdcInv, Verified
    <3>2. PICK g \in 0 .. PGA_MASK : HasGain(ch, g)
      BY <3>1 DEF IsSet
    <3>3. HasGain(ch, g)'
      BY <1>1, <1>3, <3>2 DEF HasGain, Stepped, Place, SameRegisters
    <3>4. QED
      BY <1>3, <3>1, <3>3 DEF IsSet, SameRegisters
  <2>2. QED
    BY <1>1, <2>1 DEF AdcInv, Verified
<1>10. QED
  BY <1>3, <1>6, <1>7, <1>8, <1>9 DEF AdcInv

\* A step between two calls of the ADC, of the setup or of another chip.
NoGainYet(s, op) == s \in {"spi", "dac"} \/ (s = "adc" /\ op \in {"dac", "none"})

LEMMA OutsideAdc ==
    ASSUME AdcInv, call.op \notin AdcOps, call'.op \notin AdcOps,
           UNCHANGED <<adc, clean, verified, wanted>>,
           stage' \in {"temp", "loop"} \/ call'.op = "next" =>
              stage \in {"temp", "loop"} \/ call.op = "next",
           stage' # "loop" => stage # "loop",
           stage' \in {"spi", "dac", "adc"} => stage \in {"spi", "dac", "adc"},
           NoGainYet(stage', call'.op) => NoGainYet(stage, call.op)
    PROVE  AdcInv'
<1>1. /\ call.op \notin {"init", "poll", "data", "gain", "gain_set", "step"}
      /\ call'.op \notin {"init", "poll", "data", "gain", "gain_set", "step"}
  BY DEF AdcOps
<1>2. Converter(adc') /\ AdcScriptOfCall'
  BY DEF AdcInv, AdcScriptOfCall
<1>3. Synchronous'
  BY <1>1 DEF AdcInv, Synchronous
<1>4. ASSUME clean, NEW ch \in verified PROVE IsSet(ch)'
  <2>1. IsSet(ch)
    BY <1>4 DEF AdcInv, Verified
  <2>2. PICK g \in 0 .. PGA_MASK : HasGain(ch, g)
    BY <2>1 DEF IsSet
  <2>3. HasGain(ch, g)'
    BY <1>1, <2>2 DEF HasGain
  <2>4. QED
    BY <2>1, <2>3 DEF IsSet
<1>5. Verified'
  BY <1>1, <1>4 DEF AdcInv, Verified, NoGainYet
<1>6. QED
  BY <1>1, <1>2, <1>3, <1>5 DEF AdcInv

LEMMA OtherCallsAdc ==
    ASSUME Inv, AdcInv,
           \/ SetupSpi \/ DacInit \/ DacCallReturns \/ TempSenseInit \/ TempSenseUpdate
           \/ TempSenseRead \/ \E output \in Levels, ch \in DacChannels : DacSetOutput(output, ch)
    PROVE  AdcInv'
<1>1. CASE SetupSpi
  <2>1. /\ stage = "spi" /\ call = Idle /\ stage' = "dac" /\ call' = call
        /\ UNCHANGED <<adc, clean, verified, wanted>>
    BY <1>1 DEF SetupSpi, Ready, mx7705, fault
  <2>2. QED
    BY <2>1, OutsideAdc DEF Idle, AdcOps, NoGainYet
<1>2. CASE DacInit
  <2>1. /\ stage = "dac" /\ call = Idle /\ stage' = "adc"
        /\ call' = [op |-> "dac", ch |-> 0, arg |-> 0]
        /\ UNCHANGED <<adc, clean, verified, wanted>>
    BY <1>2 DEF DacInit, Ready, Call, mx7705, fault
  <2>2. QED
    BY <2>1, OutsideAdc DEF Idle, AdcOps, NoGainYet
<1>3. CASE DacCallReturns
  <2>1. /\ call.op \in {"dac", "output"} /\ stage' = stage /\ call' = Idle
        /\ UNCHANGED <<adc, clean, verified, wanted>>
    BY <1>3 DEF DacCallReturns, Returns, mx7705, fault
  <2>2. call.op = "dac" => stage = "adc"
    BY DEF Inv, SetupOrder
  <2>3. call.op = "output" => stage = "loop"
    BY DEF Inv, SetupOrder
  <2>4. QED
    BY <2>1, <2>2, <2>3, OutsideAdc DEF Idle, AdcOps, NoGainYet
<1>4. CASE TempSenseInit
  <2>1. /\ stage = "temp" /\ call = Idle /\ stage' = "loop" /\ call' = call
        /\ UNCHANGED <<adc, clean, verified, wanted>>
    BY <1>4 DEF TempSenseInit, Ready, mx7705, fault
  <2>2. QED
    BY <2>1, OutsideAdc DEF Idle, AdcOps, NoGainYet
<1>5. CASE TempSenseUpdate
  <2>1. /\ stage = "loop" /\ call = Idle /\ stage' = stage
        /\ call' = [op |-> "temp", ch |-> 0, arg |-> 0]
        /\ UNCHANGED <<adc, clean, verified, wanted>>
    BY <1>5 DEF TempSenseUpdate, Uses, Ready, Call, mx7705, wrapper, fault
  <2>2. QED
    BY <2>1, OutsideAdc DEF Idle, AdcOps, NoGainYet
<1>6. CASE TempSenseRead
  <2>1. /\ call.op = "temp" /\ stage' = stage /\ call' = Idle
        /\ UNCHANGED <<adc, clean, verified, wanted>>
    BY <1>6 DEF TempSenseRead, Returns, mx7705, wrapper, fault
  <2>2. stage = "loop"
    BY <2>1 DEF Inv, SetupOrder
  <2>3. QED
    BY <2>1, <2>2, OutsideAdc DEF Idle, AdcOps, NoGainYet
<1>7. ASSUME NEW output \in Levels, NEW ch \in DacChannels, DacSetOutput(output, ch) PROVE AdcInv'
  <2>1. /\ stage = "loop" /\ call = Idle /\ stage' = stage
        /\ call' = [op |-> "output", ch |-> ch, arg |-> output]
        /\ UNCHANGED <<adc, clean, verified, wanted>>
    BY <1>7 DEF DacSetOutput, Uses, Ready, Call, mx7705, wrapper, fault
  <2>2. QED
    BY <2>1, OutsideAdc DEF Idle, AdcOps, NoGainYet
<1>8. QED
  BY <1>1, <1>2, <1>3, <1>4, <1>5, <1>6, <1>7

LEMMA SameAdcSteps ==
    ASSUME Inv, AdcInv,
           Open \/ TimePasses \/ UNCHANGED vars \/ \E g \in Gains : DacSetGain(g)
    PROVE  AdcInv'
<1>1. CASE Open
  <2>1. UNCHANGED <<adc, script, sent, inbox, call, stage, clean, verified, wanted>>
    BY <1>1 DEF Open, OpenSpiConnection, mx7705, wrapper, fault
  <2>2. QED
    BY <2>1, SameAdc
<1>2. CASE TimePasses \/ UNCHANGED vars \/ \E g \in Gains : DacSetGain(g)
  <2>1. UNCHANGED <<adc, script, sent, inbox, call, stage, clean, verified, wanted>>
    BY <1>2 DEF TimePasses, vars, DacSetGain, bus, mx7705, wrapper, fault
  <2>2. QED
    BY <2>1, SameAdc
<1>3. QED
  BY <1>1, <1>2

-----------------------------------------------------------------------------
(* Calls of the ADC begin, go on and return *)

LEMMA PairSent ==
    ASSUME NEW a, NEW b, NEW R, Start(<<a, b>>),
           a.reads <=> 1 \in R, b.reads <=> 2 \in R
    PROVE  /\ Sends(<<a.out, b.out>>, R)' /\ Place(2)' = 0 /\ DataPlace' = 0
           /\ script' # <<>> /\ sent' = 0 /\ inbox' = <<>>
           /\ script'[Len(script')] = b
<1>1. script' = <<a, b>> /\ sent' = 0 /\ inbox' = <<>>
  BY DEF Start
<1>2. Len(script') = 2 /\ script'[1] = a /\ script'[2] = b /\ script' # <<>>
  BY <1>1
<1> DEFINE o == <<a.out, b.out>>
<1>3. Len(o) = 2 /\ o[1] = a.out /\ o[2] = b.out
  OBVIOUS
<1> HIDE DEF o
<1>4. Sends(o, R)'
  <2>1. PICK n \in Nat : n = 2
    OBVIOUS
  <2>2. n = Len(o) /\ Len(script') = n
    BY <1>2, <1>3, <2>1
  <2>3. \A i \in 1 .. n : script'[i].out = o[i] /\ (script'[i].reads <=> i \in R)
    <3>1. \A i \in 1 .. n : i = 1 \/ i = 2
      BY <2>1
    <3>2. QED
      BY <1>2, <1>3, <3>1
  <2>4. QED
    BY <2>2, <2>3, SendsAll
<1>5. Place(2)' = 0
  BY <1>1, <1>2 DEF Place
<1>6. DataPlace' = Place(2)'
  BY <1>2 DEF DataPlace
<1>7. QED
  BY <1>1, <1>2, <1>4, <1>5, <1>6 DEF o

LEMMA ReadStarts ==
    ASSUME NEW reg, NEW ch, Start(ReadRegister(reg, ch))
    PROVE  /\ Sends(ReadOuts(reg, ch), {2})' /\ Place(2)' = 0
           /\ script' # <<>> /\ sent' = 0 /\ inbox' = <<>>
<1> DEFINE a == MX7705_Write(RequestRegRead(reg, ch))
           b == ReadByte("adc")
<1>1. /\ ReadRegister(reg, ch) = <<a, b>> /\ ReadOuts(reg, ch) = <<a.out, b.out>>
      /\ ~a.reads /\ b.reads
  BY DEF ReadRegister, ReadOuts, MX7705_Write, Write, ReadByte
<1> HIDE DEF a, b
<1>2. PICK R : R = {2}
  OBVIOUS
<1>3. a.reads <=> 1 \in R
  BY <1>1, <1>2
<1>4. b.reads <=> 2 \in R
  BY <1>1, <1>2
<1>5. Start(<<a, b>>)
  BY <1>1
<1>6. /\ Sends(<<a.out, b.out>>, R)' /\ Place(2)' = 0
      /\ script' # <<>> /\ sent' = 0 /\ inbox' = <<>>
  BY <1>3, <1>4, <1>5, PairSent
<1>7. QED
  BY <1>1, <1>2, <1>6

LEMMA WriteStarts ==
    ASSUME NEW ch, NEW byte, Start(WriteRegister(SetupReg, ch, byte))
    PROVE  /\ Sends(GainOuts(ch, byte), {})' /\ Place(2)' = 0
           /\ script' # <<>> /\ sent' = 0 /\ inbox' = <<>>
           /\ script'[Len(script')].out = <<byte>>
<1> DEFINE a == MX7705_Write(RequestRegWrite(SetupReg, ch))
           b == MX7705_Write(byte)
<1>1. /\ WriteRegister(SetupReg, ch, byte) = <<a, b>> /\ GainOuts(ch, byte) = <<a.out, b.out>>
      /\ ~a.reads /\ ~b.reads /\ b.out = <<byte>>
  BY DEF WriteRegister, GainOuts, MX7705_Write, Write
<1> HIDE DEF a, b
<1>2. PICK R : R = {}
  OBVIOUS
<1>3. a.reads <=> 1 \in R
  BY <1>1, <1>2
<1>4. b.reads <=> 2 \in R
  BY <1>1, <1>2
<1>5. Start(<<a, b>>)
  BY <1>1
<1>6. /\ Sends(<<a.out, b.out>>, R)' /\ Place(2)' = 0
      /\ script' # <<>> /\ sent' = 0 /\ inbox' = <<>> /\ script'[Len(script')] = b
  BY <1>3, <1>4, <1>5, PairSent
<1>7. QED
  BY <1>1, <1>2, <1>6

LEMMA DataStarts ==
    ASSUME NEW ch, Start(DataScript(ch))
    PROVE  /\ Sends(DataOuts(ch), {2})' /\ DataPlace' = 0
           /\ script' # <<>> /\ sent' = 0 /\ inbox' = <<>>
<1> DEFINE a == MX7705_Write(RequestRegRead(DataReg, ch))
           b == Read16Bit("adc")
<1>1. /\ DataScript(ch) = <<a, b>> /\ DataOuts(ch) = <<a.out, b.out>>
      /\ ~a.reads /\ b.reads
  BY DEF DataScript, DataOuts, MX7705_Write, Write, Read16Bit
<1> HIDE DEF a, b
<1>2. PICK R : R = {2}
  OBVIOUS
<1>3. a.reads <=> 1 \in R
  BY <1>1, <1>2
<1>4. b.reads <=> 2 \in R
  BY <1>1, <1>2
<1>5. Start(<<a, b>>)
  BY <1>1
<1>6. /\ Sends(<<a.out, b.out>>, R)' /\ DataPlace' = 0
      /\ script' # <<>> /\ sent' = 0 /\ inbox' = <<>>
  BY <1>3, <1>4, <1>5, PairSent
<1>7. QED
  BY <1>1, <1>2, <1>6

LEMMA FourPairs ==
    \A a, b, c, d, e, f, g, h :
        LET s == <<a, b>> \o <<c, d>> \o <<e, f>> \o <<g, h>> IN
        /\ Len(s) = 8 /\ s[1] = a /\ s[2] = b /\ s[3] = c /\ s[4] = d
        /\ s[5] = e /\ s[6] = f /\ s[7] = g /\ s[8] = h
OBVIOUS

LEMMA InitStarts ==
    ASSUME NEW ch \in Channels, Start(InitScript(ch))
    PROVE  /\ Sends(InitOuts(ch), {6, 8})' /\ Place(8)' = 0
           /\ script' # <<>> /\ sent' = 0 /\ inbox' = <<>>
<1> DEFINE w(b) == MX7705_Write(b)
           a1 == w(RequestRegWrite(ClockReg, ch))
           a2 == w(ClockSettings)
           a3 == w(RequestRegWrite(SetupReg, ch))
           a4 == w(SetupSettings)
           a5 == w(RequestRegRead(ClockReg, ch))
           a6 == ReadByte("adc")
           a7 == w(RequestRegRead(SetupReg, ch))
<1>1. /\ script' = <<a1, a2>> \o <<a3, a4>> \o <<a5, a6>> \o <<a7, a6>>
      /\ sent' = 0 /\ inbox' = <<>>
  BY DEF Start, InitScript, WriteRegister, ReadRegister
<1>2. \A b : w(b).out = <<b>> /\ ~w(b).reads
  BY DEF MX7705_Write, Write
<1>3. a6.out = <<0>> /\ a6.reads
  BY DEF ReadByte
<1>4. /\ a1.out = <<RequestRegWrite(ClockReg, ch)>> /\ a2.out = <<ClockSettings>>
      /\ a3.out = <<RequestRegWrite(SetupReg, ch)>> /\ a4.out = <<SetupSettings>>
      /\ a5.out = <<RequestRegRead(ClockReg, ch)>> /\ a7.out = <<RequestRegRead(SetupReg, ch)>>
      /\ ~a1.reads /\ ~a2.reads /\ ~a3.reads /\ ~a4.reads /\ ~a5.reads /\ ~a7.reads
  BY <1>2
<1> HIDE DEF a1, a2, a3, a4, a5, a6, a7, w
<1>5. PICK s : s = <<a1, a2>> \o <<a3, a4>> \o <<a5, a6>> \o <<a7, a6>>
  OBVIOUS
<1>6. script' = s
  BY <1>1, <1>5
<1>7. /\ Len(s) = 8 /\ s[1] = a1 /\ s[2] = a2 /\ s[3] = a3 /\ s[4] = a4 /\ s[5] = a5
      /\ s[6] = a6 /\ s[7] = a7 /\ s[8] = a6
  BY <1>5, FourPairs
<1>8. PICK o : o = InitOuts(ch)
  OBVIOUS
<1>9. /\ Len(o) = 8
      /\ o[1] = <<RequestRegWrite(ClockReg, ch)>> /\ o[2] = <<ClockSettings>>
      /\ o[3] = <<RequestRegWrite(SetupReg, ch)>> /\ o[4] = <<SetupSettings>>
      /\ o[5] = <<RequestRegRead(ClockReg, ch)>> /\ o[6] = <<0>>
      /\ o[7] = <<RequestRegRead(SetupReg, ch)>> /\ o[8] = <<0>>
  BY <1>8, InitOutsAre
<1>10. PICK n \in Nat : n = 8
  OBVIOUS
<1>11. PICK R : R = {6, 8}
  OBVIOUS
<1>12. ASSUME NEW i \in 1 .. n
       PROVE  s[i].out = o[i] /\ (s[i].reads <=> i \in R)
  <2>1. i \in {1, 2, 3, 4, 5, 6, 7, 8}
    BY <1>10
  <2>2. s[i].out = o[i]
    BY <1>3, <1>4, <1>7, <1>9, <2>1
  <2>3. s[i].reads <=> i \in R
    <3>1. CASE i \in {6, 8}
      BY <1>3, <1>7, <1>11, <3>1
    <3>2. CASE i \in {1, 2, 3, 4, 5, 7}
      BY <1>4, <1>7, <1>11, <3>2
    <3>3. QED
      BY <2>1, <3>1, <3>2
  <2>4. QED
    BY <2>2, <2>3
<1>13. Sends(o, R)'
  <2>1. \A i \in 1 .. n : script'[i].out = o[i] /\ (script'[i].reads <=> i \in R)
    BY <1>6, <1>12
  <2>2. n = Len(o) /\ Len(script') = n
    BY <1>6, <1>7, <1>9, <1>10
  <2>3. QED
    BY <2>1, <2>2, SendsAll
<1>14. s # <<>>
  BY <1>7
<1>15. Place(8)' = 0
  BY <1>1, <1>6, <1>7 DEF Place
<1>16. QED
  BY <1>1, <1>6, <1>14, <1>8, <1>11, <1>13, <1>15

LEMMA QuietPlace ==
    ASSUME Inv, script = <<>>
    PROVE  Place(8) = 8 /\ Place(2) = 2 /\ DataPlace = 3
<1>1. sent = 0 /\ Len(script) = 0
  BY NoneSelected, EmptySeq DEF Inv
<1>2. QED
  BY <1>1 DEF Place, DataPlace

LEMMA InitAdcAdc ==
    ASSUME Inv, AdcInv, stage = "adc", NEW ch \in Channels, InitAdc(ch),
           ch = 0 => call.op = "none", ch = 1 => call.op = "next"
    PROVE  AdcInv'
<1>1. /\ Start(InitScript(ch)) /\ call' = [op |-> "init", ch |-> ch, arg |-> 0]
      /\ UNCHANGED <<adc, stage, clean, verified, wanted>>
  BY DEF InitAdc, MX7705_Init, Call, wrapper, fault
<1>2. call'.op = "init" /\ call'.ch = ch
  BY <1>1
<1>3. /\ Sends(InitOuts(ch), {6, 8})' /\ Place(8)' = 0
      /\ script' # <<>> /\ sent' = 0 /\ inbox' = <<>>
  BY <1>1, InitStarts
<1>4. Converter(adc')
  BY <1>1 DEF AdcInv
<1>5. AdcScriptOfCall'
  <2>1. Sends(InitOuts(call.ch), {6, 8})'
    <3>1. PICK o, R : o = InitOuts(ch) /\ R = {6, 8}
      OBVIOUS
    <3>2. InitOuts(call.ch)' = o
      BY <1>2, <3>1 DEF InitOuts
    <3>3. QED
      BY <1>3, <3>1, <3>2 DEF Sends
  <2>2. inbox' \in Seq(Int) /\ Len(inbox') = 0
    BY <1>3
  <2>3. QED
    BY <1>2, <1>3, <2>1, <2>2 DEF AdcScriptOfCall
<1>6. ReadBackAt(Place(8))'
  BY <1>3 DEF ReadBackAt
<1>7. Synchronous'
  <2>1. ch = 0 => OutOfStep(0)'
    BY DEF OutOfStep
  <2>2. ch = 1 /\ clean => InStep(0)'
    BY <1>1 DEF AdcInv, Synchronous, InStep, AdcOps
  <2>3. ch = 0 \/ ch = 1
    BY DEF Channels
  <2>4. clean => InitAt(0)'
    BY <1>2, <2>1, <2>2, <2>3 DEF InitAt
  <2>5. clean' => InitAt(Place(8))'
    BY <1>1, <1>3, <2>4 DEF InitAt, InStep, OutOfStep
  <2>6. QED
    BY <1>2, <2>5 DEF Synchronous, AdcOps
<1>8. Verified'
  <2>1. ch = 0 => verified = {}
    BY DEF AdcInv, Verified
  <2>2. ch = 1 => call.op = "next"
    OBVIOUS
  <2>3. ASSUME clean, NEW c \in verified PROVE IsSet(c)'
    <3>1. IsSet(c) /\ call.op = "next"
      BY <2>1, <2>2, <2>3 DEF AdcInv, Verified, Channels
    <3>2. PICK g \in 0 .. PGA_MASK : HasGain(c, g)
      BY <3>1 DEF IsSet
    <3>3. HasGain(c, g)'
      BY <1>1, <1>2, <3>1, <3>2 DEF HasGain
    <3>4. QED
      BY <1>1, <3>1, <3>3 DEF IsSet
  <2>4. QED
    BY <1>1, <1>2, <2>1, <2>3 DEF AdcInv, Verified
<1>9. QED
  BY <1>4, <1>5, <1>6, <1>7, <1>8 DEF AdcInv

\* What an initialisation that finds no error has written is there, and the
\* gain of that channel is 0.
LEMMA AdcInitReturnsAdc ==
    ASSUME Inv, AdcInv, AdcInitReturns
    PROVE  /\ AdcInv'
           /\ ~MX7705_errorCondition' =>
                 adc.clock[call.ch] = ClockSettings /\ adc.setup[call.ch] = SetupSettings
<1>1. /\ call.op = "init" /\ script = <<>>
      /\ MX7705_errorCondition' = (MX7705_errorCondition \/ ~IsVerified)
      /\ call' = [op |-> IF call.ch = 0 THEN "next" ELSE "none", ch |-> 0, arg |-> 0]
      /\ stage' = IF call.ch = 0 THEN stage ELSE "temp"
      /\ verified' = IF MX7705_errorCondition' THEN verified ELSE verified \cup {call.ch}
      /\ UNCHANGED <<adc, clean, wanted>>
  BY DEF AdcInitReturns, Quiet, InitReturns, Call
<1>2. stage = "adc"
  BY <1>1 DEF Inv, SetupOrder
<1>3. PICK ch \in Channels : ch = call.ch
  BY <1>1, AdcCallFacts DEF AdcOps
<1>4. /\ ch = 0 => call'.op = "next" /\ stage' = "adc"
      /\ ch = 1 => call'.op = "none" /\ stage' = "temp"
      /\ ch \in {0, 1}
  <2>1. ch \in {0, 1}
    BY DEF Channels
  <2>2. call.ch = 0 => call'.op = "next" /\ stage' = "adc"
    <3> SUFFICES ASSUME call.ch = 0 PROVE call'.op = "next" /\ stage' = "adc"
      OBVIOUS
    <3>1. call' = [op |-> "next", ch |-> 0, arg |-> 0]
      BY <1>1
    <3>2. QED
      BY <1>1, <1>2, <3>1
  <2>3. call.ch # 0 => call'.op = "none" /\ stage' = "temp"
    <3> SUFFICES ASSUME call.ch # 0 PROVE call'.op = "none" /\ stage' = "temp"
      OBVIOUS
    <3>1. call' = [op |-> "none", ch |-> 0, arg |-> 0]
      BY <1>1
    <3>2. QED
      BY <1>1, <3>1
  <2>4. QED
    BY <1>3, <2>1, <2>2, <2>3
<1>5. call'.op \notin {"init", "poll", "data", "gain", "gain_set", "step"} /\ call'.op \notin AdcOps
  BY <1>4 DEF AdcOps
<1>6. Place(8) = 8
  BY <1>1, QuietPlace
<1>7. IsVerified => adc.clock[ch] = ClockSettings /\ adc.setup[ch] = SetupSettings
  BY <1>1, <1>3, <1>6 DEF AdcInv, ReadBackAt
<1>8. ~MX7705_errorCondition' => IsVerified
  BY <1>1
<1>9. Synchronous'
  <2>1. clean => InitAt(8)
    BY <1>1, <1>6 DEF AdcInv, Synchronous
  <2>2. clean => Awaits(adc)
    BY <2>1 DEF InitAt, InStep, OutOfStep
  <2>3. QED
    BY <1>1, <1>5, <2>2 DEF Synchronous
<1>10. Verified'
  <2>1. verified' \subseteq verified \cup {ch}
    BY <1>1, <1>3
  <2>2. /\ verified \subseteq {0} /\ (ch = 0 => verified = {})
        /\ wanted = [c \in Channels |-> 0]
    BY <1>1, <1>2, <1>3 DEF AdcInv, Verified
  <2>3. WithGain(SetupSettings, 0) = SetupSettings /\ 0 \in 0 .. PGA_MASK
    BY DEF WithGain, GainOf, SetupSettings, PGA_MASK
  <2>4. ASSUME clean, NEW c \in verified' PROVE IsSet(c)'
    <3>1. CASE c \in verified
      <4>1. IsSet(c)
        BY <2>4, <3>1 DEF AdcInv, Verified
      <4>2. PICK g \in 0 .. PGA_MASK : HasGain(c, g)
        BY <4>1 DEF IsSet
      <4>3. HasGain(c, g)'
        BY <1>1, <1>5, <4>2 DEF HasGain
      <4>4. QED
        BY <1>1, <4>1, <4>3 DEF IsSet
    <3>2. CASE c \notin verified
      <4>1. c = ch /\ ~MX7705_errorCondition'
        BY <1>1, <1>3, <2>4, <3>2
      <4>2. adc.clock[c] = ClockSettings /\ adc.setup[c] = SetupSettings
        BY <1>7, <1>8, <4>1
      <4>3. HasGain(c, 0)'
        BY <1>1, <1>5, <2>2, <2>3, <4>1, <4>2 DEF HasGain
      <4>4. QED
        BY <1>1, <2>3, <4>2, <4>3 DEF IsSet
    <3>3. QED
      BY <3>1, <3>2
  <2>5. /\ verified' \subseteq Channels
        /\ stage' \in {"spi", "dac", "adc"} => verified' \subseteq {0}
    BY <1>4, <2>1, <2>2 DEF Channels
  <2>6. ~(stage' \in {"spi", "dac"} \/ (stage' = "adc" /\ call'.op \in {"dac", "none"}))
    BY <1>4
  <2>7. wanted' \in [Channels -> 0 .. PGA_MASK] /\ wanted' = [c \in Channels |-> 0]
    BY <1>1, <2>2 DEF AdcInv, Verified
  <2>8. clean' => \A c \in verified' : IsSet(c)'
    BY <1>1, <2>4
  <2>9. QED
    BY <1>5, <2>5, <2>6, <2>7, <2>8 DEF Verified
<1>11. Converter(adc') /\ AdcScriptOfCall'
  BY <1>1, <1>5 DEF AdcInv, AdcScriptOfCall
<1>12. QED
  BY <1>3, <1>5, <1>7, <1>8, <1>9, <1>10, <1>11 DEF AdcInv

\* The call of the loop returns, with the converter waiting for a request.
LEMMA ReturnsAdc ==
    ASSUME Inv, AdcInv, call' = Idle, stage = "loop",
           UNCHANGED <<adc, stage, clean, verified, wanted>>,
           clean => Awaits(adc),
           clean => \A ch \in verified :
              /\ adc.clock[ch] = ClockSettings
              /\ adc.setup[ch] = WithGain(SetupSettings, wanted[ch])
    PROVE  AdcInv'
<1>1. call'.op \notin {"init", "poll", "data", "gain", "gain_set", "step"} /\ call'.op \notin AdcOps
  BY DEF AdcOps, Idle
<1>2. Converter(adc') /\ AdcScriptOfCall'
  BY <1>1 DEF AdcInv, AdcScriptOfCall
<1>3. Synchronous'
  BY <1>1 DEF Synchronous
<1>4. ASSUME clean, NEW ch \in verified PROVE IsSet(ch)'
  <2>1. PICK g \in 0 .. PGA_MASK : g = wanted[ch]
    BY <1>4 DEF AdcInv, Verified
  <2>2. HasGain(ch, g)'
    BY <1>1, <1>4, <2>1 DEF HasGain
  <2>3. QED
    BY <1>4, <2>2 DEF IsSet
<1>5. Verified'
  BY <1>1, <1>4 DEF AdcInv, Verified
<1>6. QED
  BY <1>1, <1>2, <1>3, <1>5 DEF AdcInv

\* What a channel is set to, when no call that sets it is in progress.
LEMMA SetAsWanted ==
    ASSUME AdcInv, clean, NEW ch \in verified,
           call.op \notin {"gain", "step"},
           call.op = "gain_set" => ~(Place(2) < 2)
    PROVE  /\ adc.clock[ch] = ClockSettings
           /\ adc.setup[ch] = WithGain(SetupSettings, wanted[ch])
<1>1. IsSet(ch)
  BY DEF AdcInv, Verified
<1>2. PICK g \in 0 .. PGA_MASK : HasGain(ch, g)
  BY <1>1 DEF IsSet
<1>3. g = wanted[ch]
  BY <1>2 DEF HasGain
<1>4. QED
  BY <1>1, <1>2, <1>3 DEF IsSet, HasGain

\* A register is asked for, as soon as the converter waits for a request.
LEMMA ReadBegins ==
    ASSUME AdcInv, UNCHANGED <<adc, clean>>, NEW reg, NEW ch \in Channels,
           Start(ReadRegister(reg, ch)), call'.ch = ch,
           call'.op \in {"poll", "gain", "step"},
           reg = IF call'.op = "poll" THEN CommsReg ELSE SetupReg,
           clean => Awaits(adc), Verified'
    PROVE  AdcInv'
<1>1. call'.op \in AdcOps /\ call'.op \notin {"init", "data", "gain_set", "next"}
  BY DEF AdcOps
<1>2. /\ Sends(ReadOuts(reg, ch), {2})' /\ Place(2)' = 0
      /\ script' # <<>> /\ sent' = 0 /\ inbox' = <<>>
  BY ReadStarts
<1>3. inbox' \in Seq(Int) /\ Len(inbox') = 0
  BY <1>2
<1>4. Sends(ReadOuts(reg, call.ch), {2})'
  <2>1. PICK o, R : o = ReadOuts(reg, ch) /\ R = {2}
    OBVIOUS
  <2>2. ReadOuts(reg, call.ch)' = o
    BY <2>1 DEF ReadOuts
  <2>3. QED
    BY <1>2, <2>1, <2>2 DEF Sends
<1>5. AdcScriptOfCall'
  <2>1. CASE call'.op = "poll"
    <3>1. Sends(ReadOuts(CommsReg, call.ch), {2})'
      BY <1>4, <2>1
    <3>2. QED
      BY <1>1, <1>2, <1>3, <2>1, <3>1 DEF AdcScriptOfCall
  <2>2. CASE call'.op # "poll"
    <3>1. Sends(ReadOuts(SetupReg, call.ch), {2})'
      BY <1>4, <2>2
    <3>2. QED
      BY <1>1, <1>2, <1>3, <2>2, <3>1 DEF AdcScriptOfCall
  <2>3. QED
    BY <2>1, <2>2
<1>6. Synchronous'
  BY <1>1, <1>2 DEF Synchronous, PollAt, GainAt
<1>7. Converter(adc')
  BY DEF AdcInv
<1>8. QED
  BY <1>1, <1>5, <1>6, <1>7 DEF AdcInv

\* Between two calls of the loop the converter waits for a request.
LEMMA LoopAwaits ==
    ASSUME Inv, AdcInv, stage = "loop", call = Idle
    PROVE  /\ clean => Awaits(adc)
           /\ clean => \A ch \in verified :
                 /\ adc.clock[ch] = ClockSettings
                 /\ adc.setup[ch] = WithGain(SetupSettings, wanted[ch])
<1>1. call.op = "none" /\ call.op \notin AdcOps
  BY DEF Idle, AdcOps
<1>2. clean => Awaits(adc)
  BY <1>1 DEF AdcInv, Synchronous
<1>3. QED
  BY <1>1, <1>2, SetAsWanted

LEMMA AdcReadDataAdc ==
    ASSUME Inv, AdcInv, NEW ch \in Channels, AdcReadData(ch)
    PROVE  AdcInv'
<1>1. /\ stage = "loop" /\ call = Idle /\ Start(ReadRegister(CommsReg, ch))
      /\ call' = [op |-> "poll", ch |-> ch, arg |-> 0]
      /\ UNCHANGED <<adc, stage, clean, verified, wanted>>
  BY DEF AdcReadData, Uses, Ready, Poll, IsCommsRegBusy, Call, wrapper, fault
<1>2. call'.op = "poll" /\ call'.ch = ch
  BY <1>1
<1>3. ASSUME clean, NEW c \in verified PROVE IsSet(c)'
  <2>1. adc.clock[c] = ClockSettings /\ adc.setup[c] = WithGain(SetupSettings, wanted[c])
    BY <1>1, <1>3, LoopAwaits
  <2>2. PICK g \in 0 .. PGA_MASK : g = wanted[c]
    BY <1>3 DEF AdcInv, Verified
  <2>3. HasGain(c, g)'
    BY <1>1, <1>2, <2>1, <2>2 DEF HasGain
  <2>4. QED
    BY <1>1, <2>1, <2>3 DEF IsSet
<1>4. Verified'
  BY <1>1, <1>2, <1>3 DEF AdcInv, Verified
<1>5. PICK reg : reg = CommsReg
  OBVIOUS
<1>6. QED
  BY <1>1, <1>2, <1>4, <1>5, LoopAwaits, ReadBegins

LEMMA AdcSetGainAdc ==
    ASSUME Inv, AdcInv, NEW newGain \in GainsSet, NEW ch \in Channels, AdcSetGain(newGain, ch)
    PROVE  AdcInv'
<1>1. /\ stage = "loop" /\ call = Idle /\ Start(ReadRegister(SetupReg, 0))
      /\ call' = [op |-> "gain", ch |-> 0, arg |-> newGain] /\ newGain <= PGA_MASK
      /\ wanted' = [wanted EXCEPT ![0] = newGain]
      /\ UNCHANGED <<adc, stage, clean, verified>>
  BY DEF AdcSetGain, Uses, Ready, MX7705_GetGain, Call, wrapper
<1>2. call'.op = "gain" /\ call'.ch = 0 /\ call'.arg = newGain
  BY <1>1
<1>3. newGain \in 0 .. PGA_MASK /\ 0 \in Channels
  BY <1>1, IoAssumption DEF PGA_MASK, Channels
<1>4. wanted \in [Channels -> 0 .. PGA_MASK]
  BY DEF AdcInv, Verified
<1>5. ASSUME clean, NEW c \in verified PROVE IsSet(c)'
  <2>1. adc.clock[c] = ClockSettings /\ adc.setup[c] = WithGain(SetupSettings, wanted[c])
    BY <1>1, <1>5, LoopAwaits
  <2>2. c \in Channels
    BY <1>5 DEF AdcInv, Verified
  <2>3. PICK g \in 0 .. PGA_MASK : g = wanted[c]
    BY <1>4, <2>2
  <2>4. wanted'[c] = IF c = 0 THEN newGain ELSE g
    BY <1>1, <1>4, <2>2, <2>3
  <2>5. HasGain(c, g)'
    BY <1>1, <1>2, <2>1, <2>3, <2>4 DEF HasGain
  <2>6. QED
    BY <1>1, <2>1, <2>5 DEF IsSet
<1>6. Verified'
  <2>1. wanted' \in [Channels -> 0 .. PGA_MASK]
    BY <1>1, <1>3, <1>4
  <2>2. QED
    BY <1>1, <1>2, <1>3, <1>5, <2>1 DEF AdcInv, Verified
<1>7. PICK reg : reg = SetupReg
  OBVIOUS
<1>8. PICK c \in Channels : c = 0
  BY <1>3
<1>9. QED
  BY <1>1, <1>2, <1>6, <1>7, <1>8, LoopAwaits, ReadBegins

LEMMA StepGainAdc ==
    ASSUME Inv, AdcInv, NEW ch \in Channels, NEW step \in {1, 255}, StepGain(ch, step)
    PROVE  AdcInv'
<1> DEFINE next == wanted[ch] + IF step = 1 THEN 1 ELSE -1
           gainThen == IF next \in 0 .. PGA_MASK THEN next ELSE wanted[ch]
<1>1. /\ stage = "loop" /\ call = Idle /\ Start(ReadRegister(SetupReg, ch))
      /\ call' = [op |-> "step", ch |-> ch, arg |-> step]
      /\ wanted' = [wanted EXCEPT ![ch] = gainThen]
      /\ UNCHANGED <<adc, stage, clean, verified>>
  BY DEF StepGain, Uses, Ready, MX7705_GetGain, Call, wrapper
<1>2. call'.op = "step" /\ call'.ch = ch /\ call'.arg = step
  BY <1>1
<1>3. wanted \in [Channels -> 0 .. PGA_MASK]
  BY DEF AdcInv, Verified
<1>4. gainThen \in 0 .. PGA_MASK
  <2>1. wanted[ch] \in 0 .. PGA_MASK
    BY <1>3
  <2>3. PICK w \in 0 .. PGA_MASK : w = wanted[ch]
    BY <2>1
  <2>2. next = w + IF step = 1 THEN 1 ELSE -1
    BY <2>3
  <2> HIDE DEF next
  <2>4. QED
    BY <2>2, <2>3
<1>5. ASSUME clean, NEW c \in verified PROVE IsSet(c)'
  <2>1. adc.clock[c] = ClockSettings /\ adc.setup[c] = WithGain(SetupSettings, wanted[c])
    BY <1>1, <1>5, LoopAwaits
  <2>2. c \in Channels
    BY <1>5 DEF AdcInv, Verified
  <2>3. PICK g \in 0 .. PGA_MASK : g = wanted[c]
    BY <1>3, <2>2
  <2>4. c = ch => gainThen = Stepped(g)'
    BY <1>2, <2>3 DEF Stepped
  <2> HIDE DEF gainThen
  <2>5. wanted'[c] = IF c = ch THEN gainThen ELSE g
    BY <1>1, <1>3, <2>2, <2>3
  <2>6. adc'.setup[c] = WithGain(SetupSettings, g)
    BY <1>1, <2>1, <2>3
  <2>7. HasGain(c, g)'
    BY <1>2, <2>4, <2>5, <2>6 DEF HasGain
  <2>8. QED
    BY <1>1, <2>1, <2>7 DEF IsSet
<1> HIDE DEF gainThen
<1>6. Verified'
  <2>1. wanted' \in [Channels -> 0 .. PGA_MASK]
    BY <1>1, <1>3, <1>4
  <2>2. QED
    BY <1>1, <1>2, <1>5, <2>1 DEF AdcInv, Verified
<1>7. PICK reg : reg = SetupReg
  OBVIOUS
<1>8. QED
  BY <1>1, <1>2, <1>6, <1>7, LoopAwaits, ReadBegins

\* An answer of one byte is a byte.
LEMMA OneByte ==
    ASSUME Inv, AdcInv, call.op \in {"poll", "gain", "step"}, script = <<>>
    PROVE  inbox[1] \in Int /\ call.ch \in Channels
<1>1. call.op \in AdcOps
  BY DEF AdcOps
<1>2. Place(2) = 2
  BY QuietPlace
<1>3. inbox \in Seq(Int) /\ Len(inbox) = 1 /\ call.ch \in Channels
  BY <1>1, <1>2 DEF AdcInv, AdcScriptOfCall
<1>4. inbox \in [1 .. Len(inbox) -> Int]
  BY <1>3, LenProperties
<1>5. QED
  BY <1>3, <1>4

LEMMA AdcPolledAdc ==
    ASSUME Inv, AdcInv, AdcPolled
    PROVE  AdcInv'
<1>1. /\ call.op = "poll" /\ script = <<>> /\ UNCHANGED <<adc, stage, clean, verified, wanted>>
      /\ \/ Start(ReadRegister(CommsReg, call.ch)) /\ call' = call
         \/ call' = Idle
         \/ /\ ~DRDY(inbox[1]) /\ Start(DataScript(call.ch))
            /\ call' = [op |-> "data", ch |-> call.ch, arg |-> 0]
  BY DEF AdcPolled, Quiet, Poll, IsCommsRegBusy, Returns, PollsAgain, RequestData, Call, fault
<1>2. stage = "loop"
  BY <1>1 DEF Inv, SetupOrder, AdcOps
<1>3. PICK ch \in Channels : ch = call.ch
  BY <1>1, OneByte
<1>4. Place(2) = 2
  BY <1>1, QuietPlace
<1>5. clean => Awaits(adc) /\ adc.ch = ch /\ (inbox[1] < 128 => adc.ready)
  <2>1. clean => PollAt(2)
    BY <1>1, <1>4 DEF AdcInv, Synchronous
  <2>2. QED
    BY <1>3, <2>1 DEF PollAt
<1>6. clean => \A c \in verified :
                  /\ adc.clock[c] = ClockSettings
                  /\ adc.setup[c] = WithGain(SetupSettings, wanted[c])
  BY <1>1, SetAsWanted
<1>7. ASSUME call'.op \in {"poll", "data"}
      PROVE  Verified'
  <2>1. ASSUME clean, NEW c \in verified PROVE IsSet(c)'
    <3>1. adc.clock[c] = ClockSettings /\ adc.setup[c] = WithGain(SetupSettings, wanted[c])
      BY <1>6, <2>1
    <3>2. PICK g \in 0 .. PGA_MASK : g = wanted[c]
      BY <2>1 DEF AdcInv, Verified
    <3>3. HasGain(c, g)'
      BY <1>1, <1>7, <3>1, <3>2 DEF HasGain
    <3>4. QED
      BY <1>1, <3>1, <3>3 DEF IsSet
  <2>2. QED
    BY <1>1, <1>2, <1>7, <2>1 DEF AdcInv, Verified
<1>8. CASE Start(ReadRegister(CommsReg, call.ch)) /\ call' = call
  <2>1. call'.op = "poll" /\ call'.ch = ch
    BY <1>1, <1>3, <1>8
  <2>2. PICK reg : reg = CommsReg
    OBVIOUS
  <2>3. Start(ReadRegister(reg, ch))
    BY <1>3, <1>8, <2>2
  <2>4. QED
    BY <1>1, <1>5, <1>7, <2>1, <2>2, <2>3, ReadBegins
<1>9. CASE call' = Idle
  BY <1>1, <1>2, <1>5, <1>6, <1>9, ReturnsAdc
<1>10. CASE /\ ~DRDY(inbox[1]) /\ Start(DataScript(call.ch))
            /\ call' = [op |-> "data", ch |-> call.ch, arg |-> 0]
  <2>1. call'.op = "data" /\ call'.ch = ch
    BY <1>3, <1>10
  <2>2. call'.op \in AdcOps /\ call'.op \notin {"init", "poll", "gain", "gain_set", "step", "next"}
    BY <2>1 DEF AdcOps
  <2>3. /\ Sends(DataOuts(ch), {2})' /\ DataPlace' = 0
        /\ script' # <<>> /\ sent' = 0 /\ inbox' = <<>>
    BY <1>3, <1>10, DataStarts
  <2>4. Sends(DataOuts(call.ch), {2})'
    <3>1. PICK o, R : o = DataOuts(ch) /\ R = {2}
      OBVIOUS
    <3>2. DataOuts(call.ch)' = o
      BY <2>1, <3>1 DEF DataOuts
    <3>3. QED
      BY <2>3, <3>1, <3>2 DEF Sends
  <2>5. inbox' \in Seq(Int) /\ Len(inbox') = 0
    BY <2>3
  <2>6. AdcScriptOfCall'
    BY <2>1, <2>2, <2>3, <2>4, <2>5 DEF AdcScriptOfCall
  <2>7. inbox[1] < 128
    <3>1. inbox[1] \in Int
      BY <1>1, OneByte
    <3>2. QED
      BY <1>10, <3>1 DEF DRDY
  <2>8. clean' => DataAt(DataPlace)'
    BY <1>1, <1>5, <2>1, <2>3, <2>7 DEF DataAt
  <2>9. Synchronous'
    BY <2>2, <2>8 DEF Synchronous
  <2>10. Converter(adc')
    BY <1>1 DEF AdcInv
  <2>11. QED
    BY <1>7, <2>1, <2>2, <2>6, <2>9, <2>10 DEF AdcInv
<1>11. QED
  BY <1>1, <1>8, <1>9, <1>10

\* What is given as data on a clean bus is a conversion of the channel.
LEMMA DataIsSample ==
    ASSUME Inv, AdcInv, call.op = "data", script = <<>>, clean
    PROVE  Awaits(adc) /\ inbox = Sample(call.ch)
<1>1. DataPlace = 3
  BY QuietPlace
<1>2. DataAt(3)
  BY <1>1 DEF AdcInv, Synchronous
<1>3. QED
  BY <1>2 DEF DataAt

LEMMA AdcDoneAdc ==
    ASSUME Inv, AdcInv, AdcDataRead \/ AdcGainSet
    PROVE  AdcInv'
<1>1. /\ call.op \in {"data", "gain_set"} /\ script = <<>> /\ call' = Idle
      /\ UNCHANGED <<adc, stage, clean, verified, wanted>>
  BY DEF AdcDataRead, AdcGainSet, Quiet, Returns, mx7705, wrapper, fault
<1>2. stage = "loop"
  BY <1>1 DEF Inv, SetupOrder, AdcOps
<1>3. Place(2) = 2
  BY <1>1, QuietPlace
<1>4. clean => Awaits(adc)
  <2>1. call.op = "gain_set" /\ clean => GainSetAt(2)
    BY <1>3 DEF AdcInv, Synchronous
  <2>2. QED
    BY <1>1, <2>1, DataIsSample DEF GainSetAt
<1>5. clean => \A ch \in verified :
                  /\ adc.clock[ch] = ClockSettings
                  /\ adc.setup[ch] = WithGain(SetupSettings, wanted[ch])
  <2>1. ~(Place(2) < 2) /\ call.op \notin {"gain", "step"}
    BY <1>1, <1>3
  <2>2. QED
    BY <2>1, SetAsWanted
<1>6. QED
  BY <1>1, <1>2, <1>4, <1>5, ReturnsAdc

\* A gain that is set replaces the gain that was set before.
LEMMA GainReplaced ==
    ASSUME NEW g \in 0 .. PGA_MASK, NEW a \in 0 .. PGA_MASK
    PROVE  /\ GainOf(WithGain(SetupSettings, g)) = g
           /\ WithGain(WithGain(SetupSettings, g), a) = WithGain(SetupSettings, a)
<1>1. g \in 0 .. 7 /\ a \in 0 .. 7
  BY DEF PGA_MASK
<1>2. WithGain(SetupSettings, g) = 68 + g * 8 - 0 /\ WithGain(SetupSettings, a) = 68 + a * 8 - 0
  BY <1>1 DEF WithGain, GainOf, SetupSettings
<1>3. (68 + g * 8) \div 8 = 8 + g /\ (8 + g) % 8 = g
  BY <1>1
<1>4. QED
  BY <1>1, <1>2, <1>3 DEF WithGain, GainOf

\* The gain read is the one in the register, on a clean bus.
LEMMA GainRead ==
    ASSUME Inv, AdcInv, call.op \in {"gain", "step"}, script = <<>>, clean
    PROVE  Awaits(adc) /\ inbox[1] = adc.setup[call.ch]
<1>1. Place(2) = 2
  BY QuietPlace
<1>2. GainAt(2)
  BY <1>1 DEF AdcInv, Synchronous
<1>3. QED
  BY <1>2 DEF GainAt

LEMMA AdcGainReadAdc ==
    ASSUME Inv, AdcInv, AdcGainRead
    PROVE  AdcInv'
<1>1. /\ call.op = "gain" /\ script = <<>>
      /\ Start(WriteRegister(SetupReg, call.ch, WithGain(inbox[1], call.arg)))
      /\ call' = [op |-> "gain_set", ch |-> call.ch, arg |-> 0]
      /\ UNCHANGED <<adc, stage, clean, verified, wanted>>
  BY DEF AdcGainRead, Quiet, WriteGain, Call, wrapper, fault
<1>2. inbox[1] \in Int /\ call.ch \in Channels /\ call.arg \in 0 .. PGA_MASK
  BY <1>1, OneByte DEF AdcInv, Verified
<1>3. PICK ch \in Channels : ch = call.ch
  BY <1>2
<1>4. PICK byte \in Int : byte = WithGain(inbox[1], call.arg)
  BY <1>2 DEF WithGain, GainOf, PGA_MASK
<1>5. /\ Sends(GainOuts(ch, byte), {})' /\ Place(2)' = 0
      /\ script' # <<>> /\ sent' = 0 /\ inbox' = <<>>
      /\ script'[Len(script')].out = <<byte>>
  BY <1>1, <1>3, <1>4, WriteStarts
<1>6. call'.op = "gain_set" /\ call'.ch = ch
  BY <1>1, <1>3
<1>7. call'.op \in AdcOps /\ call'.op \notin {"init", "poll", "gain", "data", "step", "next"}
  BY <1>6 DEF AdcOps
<1>8. AdcScriptOfCall'
  <2>1. Sends(GainOuts(call.ch, byte), {})'
    <3>1. PICK o, R : o = GainOuts(ch, byte) /\ R = {}
      OBVIOUS
    <3>2. GainOuts(call.ch, byte)' = o
      BY <1>6, <3>1 DEF GainOuts
    <3>3. QED
      BY <1>5, <3>1, <3>2 DEF Sends
  <2>2. inbox' \in Seq(Int)
    BY <1>5
  <2>3. QED
    BY <1>5, <1>6, <1>7, <2>1, <2>2 DEF AdcScriptOfCall
<1>9. Synchronous'
  <2>1. clean => Awaits(adc)
    BY <1>1, GainRead
  <2>2. QED
    BY <1>1, <1>5, <1>7, <2>1 DEF Synchronous, GainSetAt
<1>10. ASSUME clean, NEW c \in verified PROVE IsSet(c)'
  <2>1. IsSet(c)
    BY <1>10 DEF AdcInv, Verified
  <2>2. PICK g \in 0 .. PGA_MASK : HasGain(c, g)
    BY <2>1 DEF IsSet
  <2>3. PICK w \in 0 .. PGA_MASK : w = wanted[c]
    BY <1>10 DEF AdcInv, Verified
  <2>4. CASE c = ch
    <3>1. w = call.arg
      BY <1>1, <1>3, <2>2, <2>3, <2>4 DEF HasGain
    <3>2. inbox[1] = WithGain(SetupSettings, g)
      BY <1>1, <1>3, <1>10, <2>2, <2>4, GainRead DEF HasGain
    <3>3. byte = WithGain(SetupSettings, w)
      BY <1>4, <3>1, <3>2, GainReplaced
    <3>4. script'[Len(script')].out = <<WithGain(SetupSettings, wanted'[c])>> /\ Place(2)' < 2
      BY <1>1, <1>5, <2>3, <3>3
    <3>5. HasGain(c, g)'
      BY <1>1, <1>6, <2>2, <2>4, <3>4 DEF HasGain
    <3>6. QED
      BY <1>1, <2>1, <3>5 DEF IsSet
  <2>5. CASE c # ch
    <3>1. HasGain(c, g)'
      BY <1>1, <1>3, <1>6, <2>2, <2>5 DEF HasGain
    <3>2. QED
      BY <1>1, <2>1, <3>1 DEF IsSet
  <2>6. QED
    BY <2>4, <2>5
<1>11. Verified'
  <2>1. stage = "loop"
    BY <1>1 DEF Inv, SetupOrder, AdcOps
  <2>2. QED
    BY <1>1, <1>7, <1>10, <2>1 DEF AdcInv, Verified
<1>12. Converter(adc')
  BY <1>1 DEF AdcInv
<1>13. QED
  BY <1>7, <1>8, <1>9, <1>11, <1>12 DEF AdcInv

\* The gain that a step asks for is what the byte arithmetic of the driver gives.
LEMMA StepIs ==
    ASSUME NEW g \in 0 .. PGA_MASK, NEW step \in {1, 255}
    PROVE  LET next == (g + step) % 256
               wide == g + IF step = 1 THEN 1 ELSE -1 IN
           /\ next <= PGA_MASK => next \in 0 .. PGA_MASK /\ wide \in 0 .. PGA_MASK /\ next = wide
           /\ ~(next <= PGA_MASK) => wide \notin 0 .. PGA_MASK
<1>1. g \in {0, 1, 2, 3, 4, 5, 6, 7} /\ PGA_MASK = 7
  BY DEF PGA_MASK
<1>2. CASE step = 1
  BY <1>1, <1>2
<1>3. CASE step = 255
  BY <1>1, <1>3
<1>4. QED
  BY <1>2, <1>3

LEMMA GainStepReadAdc ==
    ASSUME Inv, AdcInv, GainStepRead
    PROVE  AdcInv'
<1> DEFINE next == (GainOf(inbox[1]) + call.arg) % 256
<1>1. /\ call.op = "step" /\ script = <<>>
      /\ UNCHANGED <<adc, stage, clean, verified, wanted>>
      /\ \/ /\ next <= PGA_MASK /\ Start(ReadRegister(SetupReg, call.ch))
            /\ call' = [op |-> "gain", ch |-> call.ch, arg |-> next]
         \/ ~(next <= PGA_MASK) /\ call' = Idle
  BY DEF GainStepRead, Quiet, MX7705_GetGain, Call, Returns, wrapper, fault
<1>2. inbox[1] \in Int /\ call.ch \in Channels /\ call.arg \in {1, 255}
  BY <1>1, OneByte DEF AdcInv, Verified
<1>3. PICK ch \in Channels : ch = call.ch
  BY <1>2
<1>4. PICK n \in Nat : n = next
  BY <1>2 DEF GainOf
<1>5. stage = "loop"
  BY <1>1 DEF Inv, SetupOrder, AdcOps
<1>6. clean => Awaits(adc)
  BY <1>1, GainRead
<1>7. ASSUME clean, NEW c \in verified
      PROVE  /\ adc.clock[c] = ClockSettings
             /\ \E g \in 0 .. PGA_MASK :
                   /\ adc.setup[c] = WithGain(SetupSettings, g)
                   /\ c # ch => wanted[c] = g
                   /\ c = ch /\ n <= PGA_MASK => wanted[c] = n
                   /\ c = ch /\ ~(n <= PGA_MASK) => wanted[c] = g
  <2>1. IsSet(c)
    BY <1>7 DEF AdcInv, Verified
  <2>2. PICK g \in 0 .. PGA_MASK : HasGain(c, g)
    BY <2>1 DEF IsSet
  <2>3. c # ch => wanted[c] = g
    BY <1>1, <1>3, <2>2 DEF HasGain
  <2>4. CASE c = ch
    <3>1. wanted[c] = Stepped(g)
      BY <1>1, <1>3, <2>2, <2>4 DEF HasGain
    <3>2. inbox[1] = WithGain(SetupSettings, g)
      BY <1>1, <1>3, <1>7, <2>2, <2>4, GainRead DEF HasGain
    <3>3. GainOf(inbox[1]) = g
      BY <3>2, GainReplaced
    <3>4. PICK step \in {1, 255} : step = call.arg
      BY <1>2
    <3>5. n = (g + step) % 256
      BY <1>4, <3>3, <3>4
    <3>6. PICK wide : wide = g + IF step = 1 THEN 1 ELSE -1
      OBVIOUS
    <3>7. /\ n <= PGA_MASK => wide \in 0 .. PGA_MASK /\ n = wide
          /\ ~(n <= PGA_MASK) => wide \notin 0 .. PGA_MASK
      BY <3>5, <3>6, StepIs
    <3>8. Stepped(g) = IF wide \in 0 .. PGA_MASK THEN wide ELSE g
      BY <3>4, <3>6 DEF Stepped
    <3>9. QED
      BY <2>1, <2>2, <2>4, <3>1, <3>7, <3>8 DEF HasGain, IsSet
  <2>5. QED
    BY <2>1, <2>2, <2>3, <2>4 DEF HasGain, IsSet
<1> HIDE DEF next
<1>8. CASE /\ next <= PGA_MASK /\ Start(ReadRegister(SetupReg, call.ch))
           /\ call' = [op |-> "gain", ch |-> call.ch, arg |-> next]
  <2>1. call'.op = "gain" /\ call'.ch = ch /\ call'.arg = n
    BY <1>3, <1>4, <1>8
  <2>2. n \in 0 .. PGA_MASK
    BY <1>4, <1>8 DEF PGA_MASK
  <2>3. ASSUME clean, NEW c \in verified PROVE IsSet(c)'
    <3>1. adc.clock[c] = ClockSettings
      BY <1>7, <2>3
    <3>2. PICK g \in 0 .. PGA_MASK :
                   /\ adc.setup[c] = WithGain(SetupSettings, g)
                   /\ c # ch => wanted[c] = g
                   /\ c = ch => wanted[c] = n
      BY <1>4, <1>7, <1>8, <2>3
    <3>3. HasGain(c, g)'
      BY <1>1, <2>1, <3>2 DEF HasGain
    <3>4. QED
      BY <1>1, <3>1, <3>3 DEF IsSet
  <2>4. Verified'
    BY <1>1, <1>5, <2>1, <2>2, <2>3 DEF AdcInv, Verified
  <2>5. PICK reg : reg = SetupReg
    OBVIOUS
  <2>6. Start(ReadRegister(reg, ch))
    BY <1>3, <1>8, <2>5
  <2>7. QED
    BY <1>1, <1>6, <2>1, <2>4, <2>5, <2>6, ReadBegins
<1>9. CASE ~(next <= PGA_MASK) /\ call' = Idle
  <2>1. clean => \A c \in verified :
                  /\ adc.clock[c] = ClockSettings
                  /\ adc.setup[c] = WithGain(SetupSettings, wanted[c])
    BY <1>4, <1>7, <1>9
  <2>2. QED
    BY <1>1, <1>5, <1>6, <1>9, <2>1, ReturnsAdc
<1>10. QED
  BY <1>1, <1>8, <1>9

-----------------------------------------------------------------------------
(* The invariant of the ADC holds *)

LEMMA AdcInvInit ==
    ASSUME Init
    PROVE  AdcInv
<1>1. /\ adc = AdcInitial /\ stage = "spi" /\ call = Idle /\ script = <<>>
      /\ verified = {} /\ wanted = [ch \in Channels |-> 0]
  BY DEF Init, BusInit
<1>2. /\ call.op \notin AdcOps
      /\ call.op \notin {"init", "poll", "data", "gain", "gain_set", "step", "next"}
  BY <1>1 DEF Idle, AdcOps
<1>3. Converter(adc)
  <2> DEFINE s == [ch \in Channels |-> 1]
             k == [ch \in Channels |-> 5]
  <2>1. s \in [Channels -> Int] /\ k \in [Channels -> Int]
    OBVIOUS
  <2>2. AdcInitial = [reg |-> 0, reads |-> FALSE, ch |-> 0, low |-> FALSE, setup |-> s,
                      clock |-> k, converted |-> 0, ready |-> FALSE]
    BY DEF AdcInitial, CommsReg
  <2> HIDE DEF s, k
  <2>3. QED
    BY <1>1, <2>1, <2>2 DEF Converter, Fields, Channels
<1>4. AdcScriptOfCall
  BY <1>2 DEF AdcScriptOfCall
<1>5. Synchronous
  BY <1>1, <1>2 DEF Synchronous
<1>6. Verified
  <2>1. wanted \in [Channels -> 0 .. PGA_MASK]
    BY <1>1 DEF PGA_MASK
  <2>2. QED
    BY <1>1, <1>2, <2>1 DEF Verified
<1>7. QED
  BY <1>2, <1>3, <1>4, <1>5, <1>6 DEF AdcInv

LEMMA RestartAdc ==
    ASSUME AdcInv, Restart
    PROVE  AdcInv'
<1>1. /\ adc' = adc /\ stage' = "spi" /\ call' = Idle
      /\ verified' = {} /\ wanted' = [ch \in Channels |-> 0]
  BY DEF Restart
<1>2. /\ call'.op \notin AdcOps
      /\ call'.op \notin {"init", "poll", "data", "gain", "gain_set", "step", "next"}
  BY <1>1 DEF Idle, AdcOps
<1>3. Converter(adc') /\ AdcScriptOfCall'
  BY <1>1, <1>2 DEF AdcInv, AdcScriptOfCall
<1>4. Synchronous'
  BY <1>1, <1>2 DEF Synchronous
<1>5. Verified'
  <2>1. wanted' \in [Channels -> 0 .. PGA_MASK]
    BY <1>1 DEF PGA_MASK
  <2>2. QED
    BY <1>1, <1>2, <2>1 DEF Verified
<1>6. QED
  BY <1>2, <1>3, <1>4, <1>5 DEF AdcInv

LEMMA AdcNext ==
    ASSUME Inv, AdcInv, [Next]_vars
    PROVE  AdcInv'
<1>1. CASE Bus
  BY <1>1, SameAdcSteps, TransferAdc, CloseAdc DEF Bus
<1>2. CASE Garble
  BY <1>2, TransferAdc
<1>3. CASE Program
  <2>1. CASE AdcInit
    <3>1. stage = "adc" /\ call.op = "none" /\ InitAdc(0)
      BY <2>1 DEF AdcInit, Ready, Idle
    <3>2. PICK ch \in Channels : ch = 0
      BY DEF Channels
    <3>3. QED
      BY <3>1, <3>2, InitAdcAdc
  <2>2. CASE AdcInitNext
    <3>1. call.op = "next" /\ InitAdc(1)
      BY <2>2 DEF AdcInitNext
    <3>2. stage = "adc"
      BY <3>1 DEF Inv, SetupOrder
    <3>3. PICK ch \in Channels : ch = 1
      BY DEF Channels
    <3>4. QED
      BY <3>1, <3>2, <3>3, InitAdcAdc
  <2>3. CASE \E ch \in Channels : AdcReadData(ch)
    BY <2>3, AdcReadDataAdc
  <2>4. CASE \E g \in GainsSet, ch \in Channels : AdcSetGain(g, ch)
    BY <2>4, AdcSetGainAdc
  <2>5. CASE \E ch \in Channels, step \in {1, 255} : StepGain(ch, step)
    BY <2>5, StepGainAdc
  <2>6. QED
    BY <1>3, <2>1, <2>2, <2>3, <2>4, <2>5, OtherCallsAdc, SameAdcSteps DEF Program
<1>4. CASE Continue
  BY <1>4, AdcInitReturnsAdc, OtherCallsAdc, AdcPolledAdc, AdcDoneAdc, AdcGainReadAdc,
     GainStepReadAdc DEF Continue
<1>5. CASE Restart
  BY <1>5, RestartAdc
<1>6. CASE AdcConverts
  BY <1>6, ConvertAdc
<1>7. CASE TimePasses \/ UNCHANGED vars
  BY <1>7, SameAdcSteps
<1>8. QED
  BY <1>1, <1>2, <1>3, <1>4, <1>5, <1>6, <1>7 DEF Next

\* The invariant of the ADC holds in every state: the transactions that are left
\* of a call are the end of those the driver made, a converter that was left
\* amid a transfer is back in step before the setup has read its registers, and
\* the registers of a channel that was verified are those the program has set.
THEOREM AdcInvariance == Spec => [](Inv /\ AdcInv)
<1>1. Init => Inv /\ AdcInv
  BY InitInv, AdcInvInit
<1>2. Inv /\ AdcInv /\ [Next]_vars => Inv' /\ AdcInv'
  BY NextInv, AdcNext
<1>3. QED
  BY <1>1, <1>2, PTL DEF Spec

\* A call ends with one action; a restart only cuts it off.
LEMMA CallEnds ==
    ASSUME Inv, [Next]_vars, call.op \in AdcOps, call'.op # call.op, stage' # "spi"
    PROVE  /\ call.op = "init" => AdcInitReturns
           /\ call.op = "poll" => AdcPolled
           /\ call.op = "data" => AdcDataRead
<1>1. call' # call /\ call # Idle /\ call.op \notin {"none", "next", "dac", "output", "temp"}
  BY DEF Idle, AdcOps
<1>2. CASE Bus \/ Garble
  <2>1. call' = call
    BY <1>2 DEF Bus, Open, Transfer, Close, Garble, Exchange
  <2>2. QED
    BY <1>1, <2>1
<1>3. CASE Program
  BY <1>1, <1>3 DEF Program, SetupSpi, DacInit, AdcInit, AdcInitNext, TempSenseInit, DacSetOutput,
     DacSetGain, AdcReadData, AdcSetGain, StepGain, TempSenseUpdate, Uses, Ready
<1>4. CASE Continue
  BY <1>1, <1>4 DEF Continue, AdcInitReturns, DacCallReturns, AdcPolled, AdcDataRead, AdcGainRead,
     AdcGainSet, GainStepRead, TempSenseRead
<1>5. CASE Restart
  BY <1>5 DEF Restart
<1>6. CASE AdcConverts \/ TimePasses \/ UNCHANGED vars
  BY <1>1, <1>6 DEF AdcConverts, TimePasses, vars
<1>7. QED
  BY <1>2, <1>3, <1>4, <1>5, <1>6 DEF Next

\* A channel whose initialisation finds no error has its settings, whatever was
\* garbled and wherever a restart left the converter; and a clean bus keeps the
\* channel as the program sets it: for any gains, steps and program.
THEOREM AdcSet == Spec => AdcIsAsSet
<1>1. ASSUME Inv, AdcInv, [Next]_vars
      PROVE  /\ (call.op = "init" /\ call'.op # "init" /\ stage' # "spi"
                    /\ ~MX7705_errorCondition') =>
                   adc.clock[call.ch] = ClockSettings /\ adc.setup[call.ch] = SetupSettings
             /\ (ToLoop /\ clean) =>
                   \A ch \in verified : adc.clock[ch] = ClockSettings
                                       /\ adc.setup[ch] = WithGain(SetupSettings, wanted[ch])
  <2>1. ASSUME call.op = "init", call'.op # "init", stage' # "spi", ~MX7705_errorCondition'
        PROVE  adc.clock[call.ch] = ClockSettings /\ adc.setup[call.ch] = SetupSettings
    <3>1. AdcInitReturns
      BY <1>1, <2>1, CallEnds DEF AdcOps
    <3>2. QED
      BY <1>1, <2>1, <3>1, AdcInitReturnsAdc
  <2>2. ASSUME ToLoop, clean, NEW ch \in verified
        PROVE  /\ adc.clock[ch] = ClockSettings
               /\ adc.setup[ch] = WithGain(SetupSettings, wanted[ch])
    BY <1>1, <2>2, LoopAwaits DEF ToLoop
  <2>3. QED
    BY <2>1, <2>2
<1>2. QED
  BY <1>1, AdcInvariance, PTL DEF Spec, AdcIsAsSet

\* What ReadIsAnswered says of the step that returns.
Answered ==
    (clean /\ call.op \in {"poll", "data"} /\ call' = Idle /\ stage' = "loop") =>
        \/ result' = Sample(call.ch)
        \/ result' = <<0, 0>> /\ MX7705_errorCondition'

\* What AdcReadData returns on a clean bus is a conversion of the channel that
\* was asked for, or 0 with an error: after any number of polls, and whatever
\* the converter does meanwhile.
THEOREM ReadAnswered == Spec => [][Answered]_vars
<1>1. ASSUME Inv, AdcInv, [Next]_vars PROVE Answered
  <2> SUFFICES ASSUME clean, call.op \in {"poll", "data"}, call' = Idle, stage' = "loop"
               PROVE  \/ result' = Sample(call.ch)
                      \/ result' = <<0, 0>> /\ MX7705_errorCondition'
    BY DEF Answered
  <2>1. call'.op = "none"
    BY DEF Idle
  <2>2. (call.op = "poll" => AdcPolled) /\ (call.op = "data" => AdcDataRead)
    BY <1>1, <2>1, CallEnds DEF AdcOps
  <2>3. CASE call.op = "poll"
    <3>1. ReadTimesOut /\ result' = <<0, 0>>
      <4>1. call' # call /\ call' # [op |-> "data", ch |-> call.ch, arg |-> 0]
        BY <2>1, <2>3
      <4>2. QED
        BY <2>2, <2>3, <4>1 DEF AdcPolled, Call
    <3>2. QED
      BY <3>1 DEF ReadTimesOut
  <2>4. CASE call.op = "data"
    <3>1. script = <<>> /\ result' = inbox
      BY <2>2, <2>4 DEF AdcDataRead, Quiet
    <3>2. QED
      BY <1>1, <2>4, <3>1, DataIsSample
  <2>5. QED
    BY <2>3, <2>4
<1>2. QED
  BY <1>1, AdcInvariance, PTL DEF Spec
=============================================================================
