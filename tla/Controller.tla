----------------------------- MODULE Controller -----------------------------
(***************************************************************************)
(* The I2C controller of LifeTester/Controller.cpp: the command register,  *)
(* the transmit buffer, the two handlers that run inside the TWI interrupt *)
(* and Controller_ConsumeCommand, which the main loop calls.               *)
(*                                                                         *)
(* A handler cannot be interrupted and is one step.  ConsumeCommand can:   *)
(* it reads cmdReg once (nothing between its tests makes the compiler read *)
(* it again), works, and sets the ready bit by reading cmdReg again,       *)
(* setting a bit and storing the byte.  Each of these, and each write to   *)
(* the transmit buffer, is a step of its own.                              *)
(*                                                                         *)
(* An element of the buffer is a field of a record with its source: the    *)
(* channel of a measurement, the value of the parameters for a parameter.  *)
(***************************************************************************)
EXTENDS Integers, Sequences

CONSTANTS
    Params,        \* values the measurement parameters may take together
    MaxHandlers    \* handler calls that fit into the work of ConsumeCommand

\* Between two handler calls a byte at least goes over the bus: 0.3 ms at the
\* 31 kHz of setup().  The work of ConsumeCommand is shorter, but for a reset,
\* which waits for the DAC.
ASSUME HandlerAssumption == MaxHandlers \in 0 .. 1

Channels == {"A", "B"}

ControllerCommands == {"CmdReg", "ParamsReg", "DataReg", "Reset", "Unknown"}

ControllerErrors == {"Ok", "BusyError", "UnkownCmdError", "BadParamsError"}

\* A byte written by the master; its ready and error bits are never looked at.
Commands == [cmd : ControllerCommands, rw : {"R", "W"}, ch : Channels]

CmdRegs == [cmd : ControllerCommands, rw : {"R", "W"}, ch : Channels,
            rdy : BOOLEAN, err : ControllerErrors]

DataFields ==
    <<"timer", "vActive", "iActive", "temp", "light", "error", "checkSum">>

ParamFields == <<"settleTime", "trackDelay", "sampleTime", "thresholdCurrent">>

Fields == {"timer", "vActive", "iActive", "temp", "light", "error", "checkSum",
           "settleTime", "trackDelay", "sampleTime", "thresholdCurrent", "EMPTY"}

VARIABLES
    cmdReg,                \* the command register
    cmdRegReadRequested,   \* the next read is a poll of the command register
    transmitBuffer,
    config,                \* the parameters of Common/Config.cpp
    pc,                    \* where ConsumeCommand is; "idle" outside of it
    fetched,               \* cmdReg as ConsumeCommand read it first
    loaded,                \* cmdReg as read by SET_RDY_STATUS
    handlers,              \* handler calls during this work of ConsumeCommand
    reply,                 \* what the last read of the master was answered with
    owed,                  \* auxiliary: commands accepted and not carried out
    armed                  \* auxiliary: a write of the parameters is awaited

vars == <<cmdReg, cmdRegReadRequested, transmitBuffer, config, pc, fetched,
          loaded, handlers, reply, owed, armed>>

regVars == <<cmdReg, cmdRegReadRequested, config, reply, owed, armed>>

mainVars == <<transmitBuffer, pc, fetched, loaded>>

\* GET_COMMAND, IS_WRITE and GET_CHANNEL of the register.
CommandOf(reg) == [cmd |-> reg.cmd, rw |-> reg.rw, ch |-> reg.ch]

\* The register as Controller_Init leaves it, and what a local variable holds
\* outside of its scope.
InitReg == [cmd |-> "CmdReg", rw |-> "R", ch |-> "A", rdy |-> TRUE, err |-> "Ok"]

-----------------------------------------------------------------------------
(* The command register *)

\* Mutant: the error of an earlier command stays.
Mut_ErrorKept(reg, new) == [reg EXCEPT !.cmd = new.cmd, !.rw = new.rw, !.ch = new.ch]

\* Everything except the ready bit; the error is cleared.
LoadNewCmdToReg(reg, new) ==
    [reg EXCEPT !.cmd = new.cmd, !.rw = new.rw, !.ch = new.ch, !.err = "Ok"]

\* The commands that ConsumeCommand has work for.
Served ==
    {c \in Commands : c.cmd \in {"Reset", "ParamsReg"} \/ (c.cmd = "DataReg" /\ c.rw = "R")}

\* Mutant: a reset asked for in read mode leaves the controller ready.
Mut_ResetReadStaysReady(reg, new) ==
    CASE new.rw = "W" /\ new.cmd \in {"Reset", "ParamsReg", "CmdReg"} ->
            [reg EXCEPT !.rdy = FALSE]
      [] new.rw = "R" /\ new.cmd \in {"ParamsReg", "DataReg"} ->
            [reg EXCEPT !.rdy = FALSE]
      [] new.rw = "R" /\ new.cmd \in {"CmdReg", "Reset"} -> reg
      [] OTHER -> [reg EXCEPT !.err = "UnkownCmdError"]

\* Mutant: a write to the data register makes the controller busy, too.
Mut_BadWriteMakesBusy(reg, new) ==
    CASE new.cmd \in {"Reset", "ParamsReg", "DataReg"} -> [reg EXCEPT !.rdy = FALSE]
      [] new.cmd = "CmdReg" -> reg
      [] OTHER -> [reg EXCEPT !.err = "UnkownCmdError"]

UpdateStatusBits(reg, new) ==
    CASE new.rw = "W" /\ new.cmd \in {"Reset", "ParamsReg", "CmdReg"} ->
            [reg EXCEPT !.rdy = FALSE]
      [] new.rw = "R" /\ new.cmd \in {"Reset", "ParamsReg", "DataReg"} ->
            [reg EXCEPT !.rdy = FALSE]
      [] new.rw = "R" /\ new.cmd = "CmdReg" -> reg
      [] OTHER -> [reg EXCEPT !.err = "UnkownCmdError"]

-----------------------------------------------------------------------------
(* The interrupt handlers *)

\* A handler runs between two steps of the main loop: any number of times
\* outside of ConsumeCommand and during a reset.
Interrupts ==
    IF pc \in {"idle", "reset"}
    THEN UNCHANGED handlers
    ELSE handlers < MaxHandlers /\ handlers' = handlers + 1

AwaitsParams == cmdReg.cmd = "ParamsReg" /\ cmdReg.rw = "W"

\* New measurement parameters, all in one transaction.  SET_READ_MODE protects
\* them from another write without a command.
ReadNewParamsFromMaster ==
    /\ AwaitsParams
    /\ config' \in Params
    /\ cmdReg' = [cmdReg EXCEPT !.rw = "R"]
    /\ armed' = FALSE /\ owed' = {}
    /\ UNCHANGED <<cmdRegReadRequested, reply>>

\* Bytes of the wrong number are thrown away, whatever they say.
RejectParams ==
    /\ AwaitsParams
    /\ cmdReg' = [cmdReg EXCEPT !.err = "BadParamsError"]
    /\ UNCHANGED <<cmdRegReadRequested, config, reply, owed, armed>>

\* Mutant: a write to the command register is granted while it is busy.
Mut_WriteGrantedBusy(new) ==
    /\ ~AwaitsParams /\ new.cmd = "CmdReg" /\ new.rw = "W"
    /\ cmdReg' = LoadNewCmdToReg(cmdReg, new)
    /\ UNCHANGED <<cmdRegReadRequested, config, reply, owed, armed>>

\* The master asks to write the command register.
RequestWrite(new) ==
    /\ ~AwaitsParams /\ new.cmd = "CmdReg" /\ new.rw = "W"
    /\ cmdReg' = IF cmdReg.rdy THEN LoadNewCmdToReg(cmdReg, new)
                               ELSE [cmdReg EXCEPT !.err = "BusyError"]
    /\ UNCHANGED <<cmdRegReadRequested, config, reply, owed, armed>>

\* Mutant: a busy controller refuses to be polled.
Mut_BusyNotPolled(new) ==
    /\ ~AwaitsParams /\ new.cmd = "CmdReg" /\ new.rw = "R"
    /\ cmdRegReadRequested' = cmdReg.rdy
    /\ UNCHANGED <<cmdReg, config, reply, owed, armed>>

\* The master asks to read the command register.
RequestPoll(new) ==
    /\ ~AwaitsParams /\ new.cmd = "CmdReg" /\ new.rw = "R"
    /\ cmdRegReadRequested' = TRUE
    /\ UNCHANGED <<cmdReg, config, reply, owed, armed>>

\* The command announced by RequestWrite.
AcceptCommand(new) ==
    /\ ~AwaitsParams /\ new.cmd # "CmdReg"
    /\ cmdReg.cmd = "CmdReg"
    /\ cmdReg' = UpdateStatusBits(LoadNewCmdToReg(cmdReg, new), new)
    /\ owed' = {new} \cap Served
    /\ armed' = (new.cmd = "ParamsReg" /\ new.rw = "W")
    /\ UNCHANGED <<cmdRegReadRequested, config, reply>>

\* A command that was not announced is ignored without an error.
IgnoreCommand(new) ==
    /\ ~AwaitsParams /\ new.cmd # "CmdReg"
    /\ cmdReg.cmd # "CmdReg"
    /\ UNCHANGED regVars

\* The master writes: parameters, a wrong number of bytes, or a command.  An
\* empty write reads as 0xFF, an unknown command.
Controller_ReceiveHandler ==
    /\ Interrupts
    /\ \/ ReadNewParamsFromMaster
       \/ RejectParams
       \/ \E new \in Commands :
             \/ RequestWrite(new)
             \/ RequestPoll(new)
             \/ AcceptCommand(new)
             \/ IgnoreCommand(new)
    /\ UNCHANGED mainVars

\* Mutant: the register is transmitted until a command comes.
Mut_PollFlagKept ==
    /\ cmdRegReadRequested
    /\ reply' = "status"
    /\ UNCHANGED <<cmdReg, cmdRegReadRequested, config, owed, armed>>

\* The command register is transmitted.
AnswerPoll ==
    /\ cmdRegReadRequested
    /\ cmdRegReadRequested' = FALSE
    /\ reply' = "status"
    /\ UNCHANGED <<cmdReg, config, owed, armed>>

\* The buffer is transmitted as it is, and stays.
TransmitData ==
    /\ ~cmdRegReadRequested
    /\ transmitBuffer # <<>>
    /\ reply' = "data"
    /\ UNCHANGED <<cmdReg, cmdRegReadRequested, config, owed, armed>>

AnswerBusy ==
    /\ ~cmdRegReadRequested
    /\ transmitBuffer = <<>>
    /\ cmdReg' = [cmdReg EXCEPT !.err = "BusyError"]
    /\ reply' = "nothing"
    /\ UNCHANGED <<cmdRegReadRequested, config, owed, armed>>

\* The master reads.
Controller_RequestHandler ==
    /\ Interrupts
    /\ AnswerPoll \/ TransmitData \/ AnswerBusy
    /\ UNCHANGED mainVars

-----------------------------------------------------------------------------
(* Controller_ConsumeCommand *)

\* Mutant: a reset is carried out whether the register is ready or not.
Mut_ResetRepeated(reg) ==
    CASE reg.cmd = "Reset" -> "reset"
      [] reg.cmd = "ParamsReg" /\ reg.rw = "R" -> "memset"
      [] reg.cmd = "ParamsReg" /\ reg.rw = "W" -> "flush"
      [] reg.cmd = "DataReg" /\ reg.rw = "R" /\ ~reg.rdy -> "memset"
      [] OTHER -> "idle"

\* Mutant: the buffer of a data read is not filled again.
Mut_DataNotLoaded(reg) ==
    CASE reg.cmd = "Reset" /\ ~reg.rdy -> "reset"
      [] reg.cmd = "ParamsReg" /\ reg.rw = "R" -> "memset"
      [] reg.cmd = "ParamsReg" /\ reg.rw = "W" -> "flush"
      [] reg.cmd = "DataReg" /\ reg.rw = "R" /\ ~reg.rdy -> "ready"
      [] OTHER -> "idle"

\* Where the switch leads.  The parameters are served in every call.
Dispatch(reg) ==
    CASE reg.cmd = "Reset" /\ ~reg.rdy -> "reset"
      [] reg.cmd = "ParamsReg" /\ reg.rw = "R" -> "memset"
      [] reg.cmd = "ParamsReg" /\ reg.rw = "W" -> "flush"
      [] reg.cmd = "DataReg" /\ reg.rw = "R" /\ ~reg.rdy -> "memset"
      [] OTHER -> "idle"

Fetch ==
    /\ pc = "idle" /\ Dispatch(cmdReg) # "idle"
    /\ pc' = Dispatch(cmdReg)
    /\ fetched' = CommandOf(cmdReg)
    /\ UNCHANGED regVars /\ UNCHANGED <<transmitBuffer, loaded, handlers>>

\* StateMachine_Reset of the channel selected.
ResetChannel ==
    /\ pc = "reset"
    /\ pc' = "ready"
    /\ owed' = owed \ {fetched}
    /\ UNCHANGED <<cmdReg, cmdRegReadRequested, transmitBuffer, config, fetched,
                   loaded, handlers, reply, armed>>

\* FlushReadBuffer finds nothing: the receive handler empties the buffer.
FlushReadBuffer ==
    /\ pc = "flush"
    /\ pc' = "ready"
    /\ owed' = owed \ {fetched}
    /\ UNCHANGED <<cmdReg, cmdRegReadRequested, transmitBuffer, config, fetched,
                   loaded, handlers, reply, armed>>

\* ResetBuffer: first the bytes, then the tail.
ResetBuffer ==
    /\ \/ /\ pc = "memset"
          /\ transmitBuffer' =
                [k \in DOMAIN transmitBuffer |-> <<"EMPTY", fetched.ch>>]
          /\ pc' = "tail"
       \/ /\ pc = "tail"
          /\ transmitBuffer' = <<>>
          /\ pc' = "write"
    /\ UNCHANGED regVars /\ UNCHANGED <<fetched, loaded, handlers>>

\* The fields that a read of cmd puts into the buffer.
FieldsOf(cmd) == IF cmd = "DataReg" THEN DataFields ELSE ParamFields

\* Where their values come from: the measurements of a channel or the parameters.
SourceOf(c) == IF c.cmd = "DataReg" THEN c.ch ELSE config

WriteField ==
    /\ pc = "write"
    /\ LET fields == FieldsOf(fetched.cmd)
           next   == Len(transmitBuffer) + 1
       IN  /\ transmitBuffer' =
                 Append(transmitBuffer, <<fields[next], SourceOf(fetched)>>)
           /\ pc' = IF next = Len(fields) THEN "ready" ELSE "write"
           /\ owed' = IF next = Len(fields) THEN owed \ {fetched} ELSE owed
    /\ UNCHANGED <<cmdReg, cmdRegReadRequested, config, fetched, loaded, handlers,
                   reply, armed>>

\* SET_RDY_STATUS(cmdReg) reads the register ...
LoadCmdReg ==
    /\ pc = "ready"
    /\ pc' = "store"
    /\ loaded' = cmdReg
    /\ UNCHANGED regVars /\ UNCHANGED <<transmitBuffer, fetched, handlers>>

\* ... and stores it with the ready bit set.
StoreCmdReg ==
    /\ pc = "store"
    /\ pc' = "idle"
    /\ cmdReg' = [loaded EXCEPT !.rdy = TRUE]
    /\ handlers' = 0
    /\ fetched' = CommandOf(InitReg) /\ loaded' = InitReg
    /\ UNCHANGED <<cmdRegReadRequested, transmitBuffer, config, reply, owed, armed>>

Controller_ConsumeCommand ==
    \/ Fetch
    \/ ResetChannel
    \/ FlushReadBuffer
    \/ ResetBuffer
    \/ WriteField
    \/ LoadCmdReg
    \/ StoreCmdReg

-----------------------------------------------------------------------------

\* Controller_Init; the parameters have one of their values.
Init ==
    /\ cmdReg = InitReg
    /\ cmdRegReadRequested = FALSE
    /\ transmitBuffer = <<>>
    /\ config \in Params
    /\ pc = "idle"
    /\ fetched = CommandOf(InitReg) /\ loaded = InitReg
    /\ handlers = 0
    /\ reply = "nothing"
    /\ owed = {} /\ armed = FALSE

Next ==
    \/ Controller_ReceiveHandler
    \/ Controller_RequestHandler
    \/ Controller_ConsumeCommand

Spec == Init /\ [][Next]_vars

\* The main loop goes on; the master is free to do nothing.
FairSpec == Spec /\ WF_vars(Controller_ConsumeCommand)

-----------------------------------------------------------------------------
(* Properties *)

TypeOK ==
    /\ cmdReg \in CmdRegs
    /\ cmdRegReadRequested \in BOOLEAN
    /\ transmitBuffer \in Seq(Fields \X (Channels \cup Params))
    /\ config \in Params
    /\ pc \in {"idle", "reset", "flush", "memset", "tail", "write", "ready", "store"}
    /\ fetched \in Commands
    /\ loaded \in CmdRegs
    /\ handlers \in 0 .. MaxHandlers
    /\ reply \in {"nothing", "status", "data"}
    /\ owed \in SUBSET Commands
    /\ armed \in BOOLEAN

\* The ready bit tells the truth: it is set only when the command accepted last
\* has been carried out, on the channel and in the direction it named, and a
\* busy register names the command that keeps it busy.
ReadyMeansDone ==
    /\ cmdReg.rdy => owed = {}
    /\ ~cmdReg.rdy => \/ owed = {CommandOf(cmdReg)}
                      \/ owed = {} /\ (pc \in {"ready", "store"} \/ cmdReg.cmd = "ParamsReg")

WholeRecord(c) ==
    [k \in 1 .. Len(FieldsOf(c.cmd)) |-> <<FieldsOf(c.cmd)[k], SourceOf(c)>>]

\* A master that finds the register ready after asking for data reads the whole
\* record of the channel it selected, until it writes a new command: nothing is
\* mixed in from the other channel, from the parameters or from an older read.
ReadyDataIsComplete ==
    cmdReg.cmd = "DataReg" /\ cmdReg.rw = "R" /\ cmdReg.rdy
        => transmitBuffer = WholeRecord(CommandOf(cmdReg))

\* While the register is busy nothing replaces the command it works on, whatever
\* the master writes and wherever the main loop is interrupted.
BusyCommandIsKept ==
    [][~cmdReg.rdy => cmdReg'.cmd = cmdReg.cmd /\ cmdReg'.ch = cmdReg.ch]_vars

\* A reset and a read of the data are carried out once for each time they were
\* accepted, although ConsumeCommand finds them in the register in every loop.
CarriedOutOnce ==
    [][ResetChannel \/ (WriteField /\ fetched.cmd = "DataReg")
          => fetched \in owed]_vars

\* A busy controller becomes ready again, so that a master that polls it is
\* never left waiting.
BusyEnds == ~cmdReg.rdy ~> cmdReg.rdy

\* Controller_ReceiveHandler: "protect from another write without command": the
\* parameters change only when a command to write them awaits its data.
WritesAreCommanded == [][config' # config => armed]_vars
=============================================================================
