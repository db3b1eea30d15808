# A verification project for LifeTester

LifeTester is the firmware of an ATmega328P board that ages two photovoltaic
devices at their maximum power point (MPP).  Each of the two *channels* checks
that a device is there, scans its current-voltage curve, picks the voltage of
maximum power and then tracks it for ever with a perturb-and-observe loop.  A
*master* (another board) reads the measurements, sets the measurement parameters
and resets channels over I2C.

This directory holds TLA+ models of that firmware, of its drivers and of the
parts of the Arduino core that it runs on, the TLC configurations that check
them on small instances, and TLAPS proofs that hold for all values of the
constants.  Paths below are relative to the repository, `src/` being its root;
`PROJECT.json` names the lines that every definition models, the hazards that
the properties are about, and for each property a mutant of the code that
violates it.

How to run, from this directory, for example:

    tlc -workers 2 -config MCChannel.cfg MCChannel
    tlapm StateMachine_proofs.tla

## 1. The system

### Components

| Component | Source | State | Operations |
|---|---|---|---|
| Channel state machine | `LifeTester/StateMachine.cpp` | one `LifeTester_t` per channel: state, timer, error, point pointers, sums, powers, done flags | `StateMachine_UpdateStep`, `StateMachine_Reset`, and the entry, step, exit and transition functions behind them |
| Controller | `LifeTester/Controller.cpp` | `cmdReg`, `cmdRegReadRequested`, `transmitBuffer` | `Controller_ReceiveHandler`, `Controller_RequestHandler` (interrupt), `Controller_ConsumeCommand` (main loop), `Controller_Init` |
| Measurement parameters | `Common/Config.cpp` | four 16-bit variables | getters, setters, `Config_InitParams` |
| Main program | `LifeTester/LifeTester.cpp` | the two channels | `setup`, `loop` |
| I/O wrapper | `LifeTester/IoWrapper.cpp` | copy of each DAC output | `DacSetOutput`, `DacGetOutput`, `AdcReadData`, `AdcSetGain`, `TempSenseUpdate`, ... |
| ADC driver | `Hardware/MX7705.cpp` | error flag | set-up and verification, gain, conversions with a time-out, over SPI |
| DAC driver | `Hardware/MCP4802.cpp` | gain | one SPI command of 16 bits |
| Temperature sensor | `Hardware/TC77.cpp` | last reading, timer, error | `TC77_Update` once per conversion time |
| LED flasher | `Hardware/LedFlash.cpp` | on and off times, counters | `update`, `t`, `stopAfter`, `keepFlashing`, `on`, `off` |
| SPI helpers, SPI library | `Common/SpiCommon.cpp`, `Arduino/SPI.*` | SPI settings; transaction mode and masks | open and close a connection; `begin`, transactions |
| Two-wire interface | `Arduino/twi.c`, `Arduino/Wire.cpp` | state, buffers and indices of master and slave | transfers, interrupt handler, handler callbacks |
| Serial port | `Arduino/HardwareSerial*` | two ring buffers | `write`, `flush`, `read`, `begin`, `end`, two interrupts |
| Clock | `Arduino/wiring.c` | overflow count, milliseconds, fraction | `millis`, `micros`, `delay`, timer 0 interrupt |
| Pins | `Arduino/wiring_digital.c`, `wiring_analog.c`, `pins_arduino.h` | port, timer and ADC registers | `pinMode`, `digitalWrite`, `digitalRead`, `analogWrite`, `analogRead`, ... |
| Tone | `Arduino/Tone.cpp` | pin, toggle count, timer 2 | `tone`, `noTone`, timer 2 interrupt |
| External interrupts | `Arduino/WInterrupts.c` | function pointers, mask | `attachInterrupt`, `detachInterrupt`, two interrupts |

The makefile of the firmware compiles the whole of `Arduino/`, so that these
parts are in the image although the firmware calls only some of them.

### How they interact

`loop()` calls `StateMachine_UpdateStep` for channel A, then for channel B, then
`TempSenseUpdate`, then `Controller_ConsumeCommand`.  These run one after the
other, so channels and main-loop code never interleave.  Interrupts do: after a
write of the master, the two-wire interrupt calls `Controller_ReceiveHandler`,
and when the master reads, `Controller_RequestHandler`, between any two
instructions of the main loop.  The handlers share `cmdReg` and
`transmitBuffer` with `ConsumeCommand` and the parameters with the channels;
nothing is `volatile` and no section of the main loop disables interrupts.  The
handlers also write the communications LED, on the port of the channels' LEDs.
A channel reaches its device through the DAC and ADC only, which share one SPI
bus with the temperature sensor, and every wait is a comparison with
`millis()`, a wrapping 32-bit counter kept by the timer 0 interrupt.

Two time scales matter.  A single ADC reading takes at least 160 ms (each poll
has four delays of 20 ms) and time-outs are at 1000 ms, so one turn of the main
loop can be as long as the 200 ms sampling window.  The I2C bus runs at 31 kHz
(`LifeTester.cpp:39`), so two handler calls are at least a byte, 0.3 ms, apart,
while `ConsumeCommand` is RAM-only work, except in `StateMachine_Reset`, where
SPI delays wait for milliseconds.

### What is hard about it

- *Hierarchical transitions.*  Parent and child step functions run in the same
  call; a transition runs exit and entry functions by a rule about parents; an
  entry function may itself raise an event; a reset skips exit functions.
- *Flags that outlive what they describe.*  `thisDone`, `nextDone`, `delayDone`,
  the active-point pointers, `nErrorReads`, the powers of the last cycle, a poll
  that was written but not read.
- *Narrow arithmetic.*  `uint8_t` codes step without limits, powers are computed
  in a 16-bit `int`, windows are 16-bit sums, clocks and ring buffers wrap.
- *Interrupts.*  Registers and variables are loaded, modified and stored on one
  side and changed by handlers on the other; buffers are filled while they may
  be read; loops spin on what a handler must do.
- *The outside.*  Transfers fail half way, messages are longer than buffers, the
  master or the board restarts and the other does not, a byte on the SPI bus is
  garbled, the converter answers late or never.
- *The missed window.*  A loop slower than the sampling window starts the
  measurement again.

`PROJECT.json` lists these as hazards, each at its line.

### What makes each component correct

- Channel: zero volts whenever not running; results filed under the voltage that
  was really driven, after it settled; the scan finds the true maximum and
  refuses a curve that is no hill; tracking compares results of this cycle; a run
  of bad readings, and nothing else, stops it; left alone it tracks for ever or
  fails for good.
- Controller: ready means done; what is read when ready is the whole record asked
  for; a busy command is not replaced; each command is carried out once; busy
  ends; parameters change only on command.
- The protocol as a whole: a master that believes to be done is right, and one that
  goes on is served, whatever fails on the way.
- Two-wire interface: no message is lost, mixed or overwritten once it was
  reported as sent, the slave stays responsive, and no call hangs.
- Serial port: two queues.  Clock: the time, to the tick, through every wrap.
- Drivers: what the wrapper believes is what the chips do, also after a restart
  that the chips did not take part in.
- Pins and their users: what is asked for is what the registers say, whatever
  interrupts a call.

## 2. Modules

    ChannelModes <-- ChannelRefinement --> StateMachine <-- ChannelHistory
                     (INSTANCE)               ^
                                              +-- StateMachine_proofs <-- Channel_proofs
    Controller <-- LifeTester            SpiBus <-- MX7705, MCP4802, TC77 <-- IoWrapper
                     ^-- LifeTester_proofs
    ByteQueue <-- HardwareSerial         TwoWire         Timer0
    Pins <-- Tone, LedFlash <-- Board
      ^-- ExternalInterrupts <-- SpiTransactions <-- Board <-- Board_proofs

Each `MC...` module gives one of them its small instance, and each `..._proofs` module
proves about the module of its name (`Channel_proofs` about `ChannelHistory` and
`ChannelRefinement`, `LifeTester_proofs` about `Controller` as well).

### StateMachine

One channel.  The C functions update a `LifeTester_t` in place; each is an
operator here, with the same name, from the record before to the record after.
`StateMachine_UpdateStep` is one action, `UpdateStep`: it runs the parent's step,
follows the transition it asks for, reads the ADC at the output that is then in
force, runs the child's step and follows that transition.  Nothing of the main
loop can run in between, and the handlers touch only the parameters, so one call
is one step.  `Reset` is the master's command, `SetParams` the receive handler.

- Time passes before each call of `UpdateStep` (`LoopTimes`) and in a reset.
  `InitialiseEntry` reads its timer, then writes the DAC, whose bus waits twice for
  a chip select delay of 1 ms before the output changes (`SpiCommon.cpp:27`, `39`).  So
  `Reset`, and `Init` for the reset in `setup()`, end a `DacWriteTimes` later than the
  timer they leave.  `MeasureDataPointEntry` writes first and reads its timer then.
- `TransitionToState` follows `StateMachineTransitionToState`: `Leave` (exit
  functions, by the parent rules), `Arrive` (entry functions), then the state.  A
  transition to the state already held does nothing in the code, which is how "no
  transition" is written.
- `RaiseErrorInEntry` is the nested `ErrorEvent` of `MeasureDataPointEntry`: its
  transition finishes, then the outer entry goes on and the outer transition
  overwrites the state.  `WithinErrorBudget` shows that this never happens.
- `vActive`, `iActive` and `pActive` are always assigned together and are one
  field, `active`.
- Powers are `% WordMod`: `uint8_t * uint16_t` is a 16-bit product on this
  target.  Codes are `% CodeMod`, time `% TimeMod`.
- The device and ADC are `Curve[code]`, a set of readings per code.

### ChannelModes and ChannelRefinement

`ChannelModes` is what a channel promises, without time, currents or the
hierarchy: check, scan each code of the range once in order, start tracking
strictly inside the range, repeat delay, this, next, move; give up only between
measurements; then drive zero until reset.  `ChannelRefinement` maps a
`LifeTester_t` to it.  The map is not a renaming: the task count of a cycle is
recovered from three flags, the mode from the state and its parent.

### ChannelHistory

`StateMachine` with variables that record what happened to the device,
independently of the fields of the code: how long the output has been constant,
which points were really measured, how many readings in a row were bad.
Properties can then compare the code's conclusions with the facts.

### Controller

The command register, buffer and parameters.  A handler cannot be interrupted
and is one action.  `ConsumeCommand` can, and `pc` says where it is: it reads
`cmdReg` (`Fetch`; the compiler has no reason to read it again between the
tests), works (`ResetChannel`, `FlushReadBuffer`, `ResetBuffer`, one `WriteField`
per field), loads `cmdReg` again (`LoadCmdReg`) and stores it with the ready bit
set (`StoreCmdReg`).  Between any two of these the master may read or write.
`owed` and `armed` are auxiliary: the commands accepted and not yet carried out,
and whether the last command was to write parameters.  A buffer element is a
field with the channel or the parameter value it was taken from, so that a mixed
or stale record can be told from a good one.

Abstracted: bytes within a field, the value of the checksum, and the LED.  The
ready and error bits in a byte written by the master are left out, because no
code looks at them.

### LifeTester

`Controller` under the real `setup()` and a master that follows the protocol.
`Setup` has a step for each thing that the handlers can race with: `Wire.onReceive`,
`Controller_Init`, `Config_InitParams`; `Loop` is `ConsumeCommand`, since the rest
of the loop leaves the controller alone.  The master announces a command, polls
for the grant, writes the command, polls until it is done and reads; `mpc` is its
next transfer.  Troubles, at most `MaxTroubles` of them: a write that arrives
whole, as an empty message or not at all and is reported as failed; a read whose
handler ran or did not; a restart of the master or of the board at any moment.
A reply that is not the register but a byte of data may look like any register
(`misled`); parameters that nobody waits for are taken for a command by their
first byte.

### TwoWire

`twi.c` under `Wire.cpp` at both ends of the bus.  Each case of the interrupt
handler is an action (`HandleAddressed`, `HandleData`, `HandleFull`, ...) guarded by
the status that the hardware reports; what `TWCR` is set to is the node's
acknowledge (`twcr`) and the next job on the bus (`job`).  The hardware is modelled
from what the handler expects of it: one START, byte or STOP at a time, held up by
a node whose interrupt is pending.  The receive handler runs after
`twi_releaseBus`, so the next message may arrive while it does.  Trouble is noise
seen at one or both ends as a bus error, or a restart of the slave.

### ByteQueue and HardwareSerial

`HardwareSerial` has a step per access of a call between which an interrupt may
fall, and the two interrupt handlers.  With interrupts off, `write` and `flush`
serve the transmitter themselves (`Poll`).  The UART is two registers: data and
shift.  `ByteQueue` is the abstract port; `TransmitterIsQueue` and
`ReceiverIsQueue` are refinements, in which a byte leaves the transmit queue when
it is put on the wire.

Timing is assumed once: between the store to `UDR` and the clearing of `TXC`, and
between the new head and `UDRIE`, less than a frame passes (`fresh`, `InWindow`), as
interrupts take much less than the millisecond of a frame at 9600 Bd.  Without it
`UDRIE` is left set over an empty buffer and `flush` hangs
(`HardwareSerial.cpp:221-222`, `243-245`).

### Timer0

The counter, its overflow flag and interrupt, and `millis`, `micros`, `delay` in
steps of one access, against `now`, the true number of ticks.  A 32-bit word is read
in two parts.  No handler and no section with interrupts off lasts a timer
period, so that no overflow is lost.

### SpiBus, MX7705, MCP4802, TC77 and IoWrapper

`SpiBus` has the settings, the chip selects and the transactions of a call as a
script: open, transfer each byte, close.  A chip takes a byte when it is selected and
the bus is initialised and has its settings (`Takes`); a byte that two chips take is heard by
both.  Each driver module has its driver and its chip: the ADC
takes a request byte that names a register, then that register's bytes, whatever
the driver takes them for; the DAC takes over the word shifted into it when its chip select
rises; the sensor gives the word it had when it was selected.  `IoWrapper`
composes them in the order of `setup()`, with the calls of the main loop, and with
two troubles: a garbled byte, and a restart of the processor between any two
steps, which leaves the chips, and the selects that float, as they were.

### Pins, Tone, LedFlash, ExternalInterrupts, SpiTransactions and Board

In `Pins` a call of the program is a script of register accesses; a
read-modify-write is a load into `copy` and a store, and an interrupt handler runs
whole between any two accesses while interrupts are on.  Sections between `cli()` and
the restored `SREG` are protected; `turnOffPWM` and the connections of timers
are not (`wiring_digital.c:101-104`).  `asked` is what the program asked of each pin.
`Tone` adds timer 2 and its interrupt, `ExternalInterrupts` the pointers (two
bytes, stored one at a time), masks and remembered edges, `SpiTransactions` the
modes in which `beginTransaction` keeps interrupts away, and `LedFlash` the flasher
over the same pins.  `Board` puts them together; a run takes the parts that share
something (`Programs`), since parts that share nothing only multiply states.

## 3. Runs

| Run | Specification | Question | Result |
|---|---|---|---|
| `channel` | `MCChannel`, `HSpec` | one channel: safety, facts against conclusions, refinement of `ChannelModes` | holds, 495 108 states |
| `channel_liveness` | `MCStateMachineLive` | does it track or fail for good? | yes, 81 680 states |
| `controller` | `MCController` | the register against any master | holds, 18 444 states |
| `lifetester` | `MCLifeTester`, `LSpec` | the protocol with failed transfers and restarts | holds, 167 650 states |
| `twowire` | `MCTwoWire` | library master against library slave | holds, 161 415 states |
| `serial` | `MCHardwareSerial` | are the two directions queues? | yes, 74 032 states |
| `clock` | `MCTimer0` | is the time right through every wrap? | yes, 236 928 states |
| `io` | `MCIoWrapper` | do chips and copies agree? | yes, 357 138 states |
| `pins` | `MCBoard` | pins, tone, LED, interrupts, SPI transactions | holds, 483 934 states |
| `scan_width` | `MCRealScan` | does a device without a peak fail the scan? | refuted |
| `budget_carried_over` | `MCChannel`, `MCSuccession.cfg` | does only a run of bad readings fail it? | refuted |
| `lost_read_mode` | `MCController`, `MCLostReadMode.cfg` | are parameters changed only on command? | refuted |

### What the passing runs say

Channel:

- `SafeWhenNotRunning`: 0 V while initialising and after a failure, and a failure has an error code.
- `DrivesMeasuredPoint`: the DAC drives the voltage the result will be filed under.
- `WithinErrorBudget`: no measurement starts over budget, hence no nested error transition.
- `ComparedPowersAreCurrent`: powers compared belong to the present voltages and to this cycle.
- `ImplementsModes`: each step of the code is a step of `ChannelModes` or none.
- `ReadingsAreSettled`: no sample of a scan or of the tracking before the output was constant for the settling time in
  force; a short-circuit reading early by no more than one write of the DAC (see below).
- `ScanFindsPeak`: at its end each code was measured once; hill: track from the first maximum; else `invalidScan`.
- `ErrorReadsAreInSuccession`: after a good tracking reading the count is the run of bad ones.
- `TracksOrFails`: liveness, see section 5.

Controller and protocol:

- `ReadyMeansDone`, `ReadyDataIsComplete`, `BusyCommandIsKept`, `CarriedOutOnce`, `BusyEnds`: against a master that may write and read anything at any time.
- `TaskIsDone`: a master that believes to be done is right: the task was carried out after
  it was asked for, and measurements are whole and of the right channel.  Two exceptions
  show what the protocol does not give.  A record of *parameters* may be read half-filled,
  because it is filled again in every loop.  And *writing* parameters twice (a repeated transfer, a restart)
  lets their first byte be taken for a command, which may leave the register as the
  master expects it.
- `NoPollLeftOver`: no request for the status is left when data is read.
- `MisledOnlyWhenStranded`: data is taken for a status only while the controller awaits parameters that nobody will send.
- `MasterIsServed`: liveness, unless the master is `Stranded` in that way: the controller then throws away everything
  shorter than the parameters, polls included, and only parameters or a restart free it.

Two-wire interface:

- `SentMessageIsKept`: what `endTransmission` reports as sent is with the handler or still to be handed over.  A
  message of one byte more than the buffer is acknowledged all the same and loses that byte.
- `HandlerGetsPrefix`: the handler gets the beginning of one message, never bytes of two.
- `ReadIsAnswer`: `requestFrom` gives the answer filled up with 0xFF, or nothing.
- `SlaveListens`: no way out of a transfer leaves the slave deaf, but for a message
  of two bytes more than its buffer, whose STOP it does not see.
- `CallsReturn`: all three spinning loops of `twi.c` end.

Serial port and clock:

- `EnabledMeansData`: the transmit interrupt, which does not look, finds a byte.
- `FlushedIsSent`: what was written before a flush has left the wire when it returns.
- `TransmitterIsQueue`, `ReceiverIsQueue`: refinements of `ByteQueue`, the first also live.
- `CallsReturn`: no call hangs, with interrupts on or off.
- `MillisIsTime`: increments and fractions add up to the time, without drift.
- `ReadingsAreExact`: `micros` and `millis` give the time of their call wherever the overflow falls.
- `DelayIsKept`: `delay` is never short, and ends.

Drivers:

- `AdcIsAsSet`: an initialisation without error means that the registers are as set, garbled byte or not,
  and a clean bus keeps the gain as the program sets it.
- `ReadIsAnswered`: `AdcReadData` returns; on a clean bus with a fresh conversion of its own channel or with 0 and an error.
- `DacMatchesCopy`: what `DacGetOutput` says is what the chip drives, also after a restart of the board alone.
- `TemperatureIsValid`: the stored word is a valid reading, or the error tells that it is none.

Pins and their users:

- `PinsAreDriven`: each pin not in a call is connected and driven as last asked for, whatever handlers did in between.
- `ToneIsAsAsked`: timer 2 belongs to the tone while it sounds and is handed back afterwards.
- `EventsAreHandled`: an edge calls the attached function and no half of a pointer, and detached lines call nothing.
- `TransactionsAreExclusive`: no named handler runs in a transaction, and none stays disabled after it.
- `FlashesAsAsked`: `stopAfter(n)` shows n flashes, ends dark, and stops.

The history variable `overtaken` takes one case out of `PinsAreDriven` and `ToneIsAsAsked`: a
tone that ends by itself amid a call that uses timer 2, or the timer that the pin of the tone is
on, or that pin.  The library does not protect itself there:
`noTone` has set `tone_pins` to 255 when the interrupt calls `noTone(255)`
(`Tone.cpp:487`, `554`), or `tone` is called for the pin that sounds while its tone ends and the timer is left in PWM mode.

### Findings

Each refuted property is a sentence of the repository that the code does not keep.

1. *Scan powers wrap* (`scan_width`).  `iScan * vScan` is computed in 16 bits
   before it is stored in a `uint32_t`.  The constant-current device of the unit
   test `RunIvScanBadDiodeNoMppReturned` passes the scan on the target; the test
   passes because it runs with 32-bit `int`s.
2. *The error budget is carried over* (`budget_carried_over`).  Bad short-circuit
   readings count towards a failure in tracking, since a good short-circuit
   reading and the scan do not clear them.
3. *Lost read mode* (`lost_read_mode`).  `SET_RDY_STATUS` in the main loop is a
   load, a modification and a store; the handler's `SET_READ_MODE` in between is
   lost and parameters may then be written a second time without a command.

Met while modelling, and visible in the definitions named:

- The short-circuit current of a channel reset while running may be read a write of the DAC, some 2 ms, earlier than a
  settling time after the output was set (`Config.h:32`: "settle time after setting DAC to ADC measurement"), since
  `InitialiseEntry` starts its timer first (`StateMachine.cpp:285`, `288`).
- After the scan the output stays at `V_SCAN_MAX` for the first tracking delay
  (`StateMachine.cpp:388`; `README.md` speaks of the guess).
- Tracking steps a code down from 0 to full scale and up from full scale to 0 (`StateMachine.cpp:663`).
- A read before a new record is loaded gives the old one, without an error (`Controller.cpp:205`).
- A parameters read is served in every loop while ready is set (`Controller.cpp:299`).
- An over-temperature word replaces the last reading (`TC77.cpp:116`), although the comment above says that it does
  not; temperatures below zero count as over-temperature, and the conversion loses the sign.
- The error of ADC channel 0's initialisation is cleared by that of channel 1 (`MX7705.cpp:167`), and no code reads
  the errors of the ADC or the sensor.
- `AdcGetGain` and `AdcSetGain` test `channel == 0U` twice, so that channel 1 is out of their reach (`IoWrapper.cpp:155`, `177`).
- `off()` leaves `ledState` as it was, so that the flashes after it are one fewer (`LedFlash.cpp:55`).

## 4. Bounds

Every constant that is smaller than in the build, by instance.

| Constant | Build | Checked | Why it is enough |
|---|---|---|---|
| `CodeMod` | 256 | 5, 4 | codes above the scan range exist and both wraps (0 down, top up) are reached |
| `V_SCAN_MAX` | 100 | 3, 2 | with 3 a peak may be at either of two inner points; end points are checked |
| `WordMod` (channel) | 65536 | 32 | powers of the readings fit, as with the real limits for realistic curves; `MCRealScan` uses 65536 to show when they do not |
| `TimeMod` | 2^32 | 6, 8 | larger than a settling plus a sampling time, so each wait sees the wrap at each of its moments |
| `MAX_ERROR_READS` | 20 | 1 | within, at and over the budget all occur |
| `DacWriteTimes` | about 2 or 3 ms | {1}, {2} | shorter than one settling time, so that a wait follows it, and as long as the other |
| `LoopTimes` | about 1 to 400 ms | {1, 2} | shorter than a settling time, equal to it, and long enough to jump over the window of 2 |
| `Params` | all 16-bit values | 2 records | changes in the middle of each wait occur; settling times as long as a write of the DAC and longer |
| `QuietCap` | - | 3 | the longest settling time of that instance |
| `MaxHandlers` | see below | 1 | handler calls within the RAM-only work of `ConsumeCommand` |
| `MaxTroubles` (lifetester) | - | 2 | a second trouble can hit the recovery from the first |
| `Tasks` | all commands | 5 | one of each kind, data of both channels |
| `BUFFER_LENGTH`, `MASTER_LENGTH` | 32, 32 | 2, 4 | messages empty, short, one and two too long for the slave; requests shorter and longer than answers and buffers |
| `MaxTroubles` (twowire, io) | - | 1 | at any moment of any transfer, with whole transfers after it |
| serial buffers, `RX_DEPTH` | 64, 2 | 3, 2 | empty, full, wrapped, with the UART's registers full behind it |
| `TimerMod`, `UsPerTick`, `UsPerMs`, `FractUnit` | 256, 4, 1000, 8 | 4, 2, 6, 2 | an overflow is 8 us, that is one millisecond and a third, so that the fraction carries |
| `WordMod`, `LowMod` (clock) | 2^32, 2^8 or 2^16 | 32, 4 | milliseconds, overflows and microseconds wrap, at different times; words are torn |
| `MaxDelay`, `MaxLag` | -, - | 2 ms, 2 ticks | two turns of the outer loop; an overflow between any two steps |
| `TIMEOUT_POLLS` | about 13 | 1 | in time, at the limit and late |
| `Levels`, `GainsSet`, `StepFrom` | all | {0, 100}, {0, 7, 8}, {0, 7} | both ends of the gain's range and one refused value |
| `Pins` | 0 to 19 | {3, 4, 5, 7} | all on one port: timer 2, no timer, timer 0 (the LED), the handlers' LED |
| `Duties` | 0 to 255 | {0, 100, 255} | both special cases of `analogWrite` and a PWM |
| `Tones` | all | 1000 Hz for 1 ms, 30 Hz without end | a tone that ends by itself; a frequency whose top does not fit |
| `MillisMod`, `FlashMod` | 2^32, 2^16 | 6, 4 | wraps in the middle of flashes; negative counts become large |
| `MaxUpdateGap`, `MaxLedCalls` | -, - | 1, 3 | calls between any two updates, in any order |
| `Lines`, `UserFuncs` | 2, any | 2, 2 | a pointer can mix two functions |
| `MaxBegins` | 255 | 1 | begun or not; a transaction needs no more |

`MaxHandlers` is an assumption about timing, not only a bound: at 31 kHz two
handler calls are further apart than the RAM-only part of `ConsumeCommand` is
long.  In a reset, and outside `ConsumeCommand`, any number of calls may come.  With
two calls inside the same few microseconds `ReadyMeansDone` would fail: during a
parameters reload, which runs in ready state, one call could announce and the
other issue a new command between load and store, and the ready bit would be set
for a command nobody carried out.  A faster bus must revisit this.

The proofs of section 6 need none of these bounds but that on `MaxHandlers`.  Where a proof has a hypothesis, section 6 names it.

Deadlock is checked in every run: none of the systems may stop for good.

## 5. Fairness

Nowhere is anything assumed of the device, the converter's answers or the master's
choice of calls.

- `StateMachine`: the main loop goes on, which `main()` of the Arduino core
  guarantees.  It is written `WF_now(ClockAdvances)`, in a form that TLC evaluates
  quickly: `UpdateStep` and `Reset` are the actions that change `now`, and the first
  always can, so this says that the loop goes on, and calls `UpdateStep` again and
  again unless the master has it reset the channel in each turn.
- `Controller`: the same, as `WF_vars(Controller_ConsumeCommand)`.  `BusyEnds` holds for any master.
- `LifeTester`: weak fairness of the main program; strong fairness of the master's
  transfers, since the bus does not wait for the program and a transfer that cannot interrupt `ConsumeCommand`
  twice is only delayed; and strong fairness of an announcement, and of a read of data, that
  meets the program outside of `ConsumeCommand`.  The last two are needed, because an announcement between load and store of
  the register is lost and a record of parameters is empty for an instant in every loop; they are justified because
  `ConsumeCommand` takes microseconds of a loop of 100 ms and more, and the master is not in step with it.
- `TwoWire`: handlers run, and the hardware clocks on.
- `HardwareSerial`: the UART sends, calls go on when no interrupt is pending, the interrupt is served, and (strongly) a program that
  disables interrupts enables them again.
- `Timer0`: the timer counts, its interrupt is served, a call goes on.
- `IoWrapper`: a call that has begun goes on, step by step.
- `Board`: the program makes calls and goes on with them, and milliseconds pass.

`TracksOrFails` is conditional on the master leaving the channel alone from some
point on (`MasterLeavesAlone`): one that keeps resetting or keeps shortening the
settling time in the middle of measurements does starve a channel.  It is checked
for loops no slower than the sampling time; for slower ones the code makes no
such promise, because every window may be missed.

## 6. Proofs

### The channel

`StateMachine_proofs` proves, for all widths, limits, parameters, loop times and
devices that satisfy the assumptions of `StateMachine`, that `Spec` implies always
`TypeOK`, `SafeWhenNotRunning`, `DrivesMeasuredPoint`, `WithinErrorBudget` and
`ComparedPowersAreCurrent`.

None of these is inductive.  The invariant is `Good(lt)` with `now` and `config` in
their types, where `Good` is a conjunction of named parts:

- `SumBounded`: the sum of samples is at most `nSamples * (WordMod - 1)`, so that
  the mean fits the `uint16_t` (needed for the type of currents and powers);
- `Rested`, `Driven`, `Compared`: the properties;
- `Scanned`: a scan point is measured only within the range, so `vScan` needs no wrap there;
- `Budgeted`: the count never exceeds the limit by more than one, is within it in
  every state that can start a measurement, and over it comes with an error code.
  The last part is what makes `Rested` inductive: `ErrorEntry` itself sets no error code;
- `FlagsInOrder`: which flags are set in which state.  Without it the comparison
  could be of two different cycles.

The argument: `From...` lemmas compute what `TransitionToState` amounts to for
each pair of states that occurs; `ParentStepIdle` shows that the parent's step
never changes anything when a child is active, so that the two step functions of
one call never both act; one lemma per handler shows that it preserves `Good`;
`InvNext` puts them together.

The assumptions are those of the module: widths of at least two values, a scan
range that ends below the last code but one, an error limit below the width of its
counter, a device that gives some reading at each code.

### The channel against its promises and its history

`Channel_proofs` proves that `Spec` implements `ChannelModes` (`ImplementsModes`), that
`HSpec` has no behaviour that `Spec` has not (`HistoryRecords`), and of `HSpec` the three
properties that compare conclusions with facts.  It starts from `Outcome`: a
call of `UpdateStep` does nothing or has one of thirteen outcomes (a bad reading is counted, a scan starts, a
sample is taken, a point of the scan or of the cycle is completed, ...), each an
operator from the record before to the record after.  Each outcome is then a step of
`ChannelModes`, and keeps what the history needs.

- `Sound` adds to `Good` what the abstract channel can tell apart: no maximum before
  the first scan, a maximum only at a code already measured, which beats an end of the
  range only from elsewhere, an overspent budget only with a result of this cycle.
- `HInv` ties the history to the record: while measuring, the timer shows no more than the
  time the output has been constant, and before the scan no more than one write of the DAC
  above it; in tracking the counter is the streak.  It needs that
  `QuietCap`, up to which the history counts, is no less than any settling time
  (`QuietAssumption`).
- `ScanFindsPeak` holds where no product of a code of the range and a reading wraps
  around (`PowersFit`), which is the hypothesis of `ScanCorrect`; finding 1 is what
  happens otherwise.  `MeanFits` carries it over to the mean of several samples, and
  `ScanOf` says that the record holds the first maximum and both ends of the points measured so far.

### The controller

`LifeTester_proofs` proves, in its first part, that `Spec` of `Controller` implies always `TypeOK`,
`ReadyMeansDone` and `ReadyDataIsComplete`, and the action properties
`BusyCommandIsKept` and `CarriedOutOnce`, for any set of parameter values, from
`HandlerAssumption` (at most one handler call within RAM-only work) alone.

The invariant adds to the properties where `ConsumeCommand` and the register can be
relative to each other:

- `CallsCounted`, `NotOvertaken`: the register holds the command being served, or
  one handler call has announced another.  The call after that, which would put the
  new command in, cannot come before the work is over.  This is where the bus timing enters;
- `FetchedServed`, `BusyServed`: only commands with work are served or keep the register busy;
- `BusyMeanwhile`: a reset and a data load, unlike a parameters reload, keep the
  register busy throughout, which is why they are safe even for long work;
- `OwedServed`: what is owed is what is being served, and nothing is owed when the
  ready bit is about to be set;
- `LoadedCurrent`: what `SET_RDY_STATUS` loaded is out of date only where that does
  no harm to a busy register (finding 3 is the harm it does to a ready one);
- `BufferFilled`, `RecordComplete`: the buffer is a prefix of the record.

One lemma per kind of handler call and per step of `ConsumeCommand` shows that it is kept.

### The master and its controller

The second part of `LifeTester_proofs` proves `NoPollLeftOver`, `MisledOnlyWhenStranded` and `TaskIsDone` for any
set of tasks and any number of failed transfers and restarts.  The invariant of the
controller is not one of the whole program: after a restart, until
`Controller_Init` has run, the register is what the start-up code leaves.  `LInv`
therefore has `Booting` for that time and `Started` (the controller's own `Inv`) from then on;
`PromisesAfterInit` says what of the controller's promises holds of the program.  Each
step of the program or of the master is, to the controller, one of seven
(`StepOfController`), and so keeps its invariant.  On top of it:

- `PollAnswered`: a poll on its way is answered with the register unless the controller waits for parameters;
- `TaskTracked`: after a grant the register holds nothing taken, or the task, served or owed.
  With it, a register that shows the task as done proves that it was done after it was asked for;
- `DataShown`: when data is read the record is that of the task, or was lost in a restart;
- `BusyUntilStored`, `WaitIsStored`: what the late store of the ready bit cannot undo.

### The two-wire interface

`TwoWire_proofs` proves `SentMessageIsKept`, `HandlerGetsPrefix`, `ReadIsAnswer` and
`SlaveListens` for buffers of every length, any messages and replies, and any number of
bus errors and restarts.  What makes it inductive is that both ends agree on the bytes
that have gone over the bus: `BytesCounted` (a message) and `ReplyCounted`, `BytesRead` (an
answer) relate the indices of master and slave to the status each has still to
handle, and to the byte in flight.  `MasterPhase`, `SlavePhase`, `WriteCounted` and `ReadCounted` say
where each end is; `StillHeard` that, without trouble, only an error ends a transfer
early; `OwedFirst` that a message is handed over before the next is transferred;
`OverrunOnly` that the slave is deaf for the one reason that `SlaveListens` names.

### The serial port

`HardwareSerial_proofs` proves `EnabledMeansData`, `FlushedIsSent`, `ReceiverIsQueue` and the safety
part of `TransmitterIsQueue` (initial states and steps; its liveness is model-checked)
for buffers of every size.  The invariant: what the tests of `write` and `read` found
is still so when they act on it (`TestsHold`); the interrupt is enabled while there is data but
for the step before `UDRIE` is set (`DataMeansEnabled`), and in that step it can take no
more than the byte before (`WindowIsShort`, where the timing of section 2 enters);
`TXC` means an idle line but for the step before it is cleared (`CompleteMeansIdle`).
The refinement maps a ring to its contents: `PutEffect` and `DropEffect` show that the wrapped
indices append to it and take from it.

### The clock

`Timer0_proofs` proves `MillisIsTime`, `ReadingsAreExact` and the safety part of `DelayIsKept`
(`DelayIsNotShort`) for every timer period, every length of a tick, of the fraction and
of both words.  Times wrap, so that the proof is one of congruences; its first part is
a set of lemmas about remainders (`ModAdd`, `ModTimes`, `ModMultiple`, ...).  `CounterIsTime` and
`CountIsServed` tie counter and overflow count to the true time, one overflow
apart while the interrupt is pending; `CountRead` and `CounterRead` say why the test in `micros`
(flag set and counter not at its end) tells an overflow that was missed from one that came
later.  For `delay` each reading is exact, a difference of two
readings is the time between them as long as it fits the word, and each
turn of the inner loop takes away no more than a millisecond that has really passed.

### The converters and the sensor

`IoWrapper_proofs` proves `DacMatchesCopy` and `TemperatureIsValid` for all clocks of the
chips, outputs, temperatures in the sensor's range and programs, and any number of
garbled bytes and restarts.  The invariant: the call in progress tells which
transactions are left (`ScriptOfCall`); one chip at most is selected, that of the
transaction in progress, with its settings in effect (`Selection`), so that no chip
takes a byte meant for another; what was shifted into the DAC, or came from the
sensor, is a prefix of the word that was meant (`DacShifts`, `SensorShifts`) unless a byte was
garbled; and `DacGives` follows the outputs through the calls, the copies being
behind the chip by the call in progress.  `LatchTakes` is the arithmetic of the DAC's
command, `WordSays` that of the sensor's word: one below zero is always taken for over temperature.

### The ADC

The same module proves, on top of that invariant, all of `AdcIsAsSet` and what `ReadIsAnswered` says of the
step that returns (theorem `ReadAnswered`, formula `Answered`), for any program, gains and steps.
The ADC is harder than the DAC, because its chip select does not reset it: a converter that the
board's restart left amid a transfer takes the next byte for something else than it is.  `AdcInv` says:

- `AdcScriptOfCall`: the transactions that are left of a call are the end of those the driver
  made (`Sends`), and `Place` counts the bytes of the call that have gone through;
- `ReadBackAt`: whatever state the converter is in and whatever is garbled, from the byte that asks for the
  clock register on an initialisation can only end verified if both registers are what they should be.
  This is the part that makes an initialisation worth something on a bad bus;
- `InStep` and `OutOfStep`: on a clean bus each byte is taken for what it is, or the converter was left amid a
  transfer by a restart.  The latter happens to the first initialisation only, that of channel 0, and is over
  with its sixth byte at the latest; whether the registers are right all the same is for `ReadBackAt`;
- `PollAt`, `DataAt`, `GainAt`, `GainSetAt`: what the converter awaits and what the driver has got at each byte of the
  other calls.  A poll that saw DRDY low means a finished conversion, and stays true until the data are read;
- `Converter`: what is ready was converted from the channel that is selected;
- `Verified`: a verified channel has the gain that the program wants, or the one that the call in progress is about
  to replace (`HasGain`; `Stepped` for the steps, which stop at either end of the three bits).

`ShiftIs` says what a byte makes of the converter, `GainReplaced` and `StepIs` are the arithmetic of the gain's
bits; a lemma for each action shows that `AdcInv` is kept.

### External interrupts and transactions

`Board_proofs` proves `EventsAreHandled` and `TransactionsAreExclusive` for all lines, functions
and programs of `Board`, with pins, PWM, tone, the flasher and their interrupts running alongside.
The masks, the pointers and the interrupt bit are in one of nine phases (`Phase`), told by what
is left of the call in progress (its script):

- `Wiring`: a call that leaves the masks alone.  Of its script only one thing matters,
  that it may be run from here to its end with `cli` and `sei` in turns (`Runs`): the interrupt
  bit is then that of a protected section or the one outside.  `RunsJoin`, `RunsOne` and
  `RunsNone` compose the scripts of every call of `Pins`, `Tone` and `LedFlash` from such pieces;
- `Deciding`: `tone` and `noTone`, whose script is made after they have looked at `tone_pins`;
- `Attaching`, `Detaching`: which bytes of the pointer are written, and that the line is not
  enabled meanwhile.  With it, the pointers of all enabled lines are whole (`EnabledAreWhole`);
- `Configuring`, `Masking`, `Unmasking`, `TurningOff`, `TurningOn`: the calls of the library, whose masks
  between calls are those of `Steady`: the lines with a function, less the masked ones within a transaction.

`NamedMasked` says that what was named to `usingInterrupt` is in the mask or has turned the library to
the global mode; from it and `Steady` follows `TransactionsAreExclusive`.  A protected
section ends by restoring `SREG` (the access named `sei`), not by turning interrupts on, which would break
an open transaction of the global mode; hence `InterruptsAre` keeps track of `sreg`.

### Pins and tone

`Board_proofs` also proves `PinsAreDriven` and `ToneIsAsAsked`, for all pins, programs, tones and handlers'
pins of `Board`.  Neither is inductive: amid a call the registers are between what they were and what was asked for.
`PinInv` says how far, from the accesses that are left:

- `PinsSettle`: each pin's mode, level, connection and duty are as asked for, or a store to just that bit is left.
  `AllFit` is the other half: every access left does what the call was asked for, and is about
  its pin only, so that no call reaches another pin;
- `Loaded`: what was loaded is still in the register when it is stored back.  That is what the
  protected sections are for, and the proof takes it from `Inv`: outside of them (`StoreIsHeld`) only a timer's
  register is stored to, which no handler writes but the end of a tone; and a conversion
  is of the channel that was selected;
- `TimerSettles`: timer 2 is that of the tone (`Sounds`) or handed back (`IsSilent`), in its mode, top,
  divisor, pin and interrupt, each but for what is left to be set.  `TogglesItsPin` covers the time in which
  `noTone` has emptied `tone_pins` and the interrupt still toggles: it toggles a pin that the same call is about to drive low;
- `InOrder`: a store follows its load, what looks at the board comes last, the interrupt goes off before
  anything else of the timer is handed back, and nothing is connected to timer 2 before its mode is written.

The lemmas on scripts (`JoinInOrder`, `PlainJoin`, `TailInOrder`) show each call to begin with such a script, and an access to leave
one; one lemma for each call, access and handler (`...Settles`) shows that `PinInv` is kept.

Two things are taken out.  A call overtaken by the end of a tone (`overtaken`) is, as in the
properties, and the lemma `OvertakenStays` says that it is out for good.  And `TopIsFree` is a hypothesis of both theorems: no program calls `analogWrite` for
pin 11 and uses `tone`.  The duty of pin 11 and the top of a tone are one register, `OCR2A`, and the
library does not keep them apart: with `ProgramPins = {11}` TLC finds both properties violated.

### Not proved

Model-checked only:

- liveness under fairness (`TracksOrFails`, `BusyEnds`, `MasterIsServed`, `CallsReturn`, `FlashesAsAsked`, and the `~>`
  parts of `DelayIsKept`, `ReadIsAnswered`, `TransmitterIsQueue`), which is outside what the prover handles;
- that the powers of a realistic device fit, which is a fact about devices (`MCRealScan` shows one whose do not).

## 7. Not modelled

- Transmit buffer bytes and the checksum: `CheckSum` runs one byte beyond the data and
  adds what is there (0xFF in a buffer just reset, `Controller.cpp:84`).  The buffer is modelled field by field.
- Data read through the `NULL` pointers before the first measurement (`Controller.cpp:108`): address 0 reads as
  processor registers here, without an effect on the state.
- Torn 16-bit parameters (`Config.cpp:38`): to a channel a torn value is one more value; that it occurs is not derived.
- Windows whose 16-bit end wraps (`StateMachine.cpp:485`): certain from the arithmetic.  Two
  channels that make each other slow are the larger `LoopTimes` of one.
- ADC driver: `InitClockOuput`, which programs a timer once.  DAC driver: `MCP4802_Shutdown`, which has no caller.
- Two-wire interface: arbitration between masters, general calls, `end`, `setClock`, `peek`, internal addresses.  A bus error that
  only the master sees while the slave drives the line may stop the bus for good and is left out.
- Serial port: `available`, `peek` and `availableForWrite`, which change nothing; a second `begin`.
- SPI: `transfer16`, block transfers, deprecated setters.
- Pins: numbers outside the tables, the edge mode of interrupts, tearing of the 32-bit toggle count (harmless below 256),
  attaching over an attached function (it may call a half-written pointer, `WInterrupts.c:72`).
- The rest of the Arduino core: strings, printing, arithmetic, headers, of which the firmware uses `println` of constants in `setup()`; the USB
  files are empty in this build.
- Unit and system tests, which are read as statements about the program.
