----------------------------- MODULE LifeTester -----------------------------
(***************************************************************************)
(* The main program and its master: setup(), which registers the handlers  *)
(* before it initialises what they use, loop() as far as the controller is *)
(* concerned, and a master that asks for one thing after another.          *)
(*                                                                         *)
(* The master follows the protocol of Controller.cpp and its tests: it     *)
(* announces a command, polls until the announcement is granted, writes    *)
(* the command, polls until it is carried out and then reads.  A transfer  *)
(* may fail: the master notices and repeats it, without knowing how much   *)
(* of it arrived.  Master and LifeTester may both be restarted.            *)
(***************************************************************************)
EXTENDS Controller

CONSTANTS
    Tasks,           \* commands that the master issues
    NewParams,       \* the parameters that it writes,
    DefaultParams,   \* those of Config_InitParams,
    ZeroParams,      \* and those of a cleared memory
    MaxTroubles      \* failed transfers and restarts, in all

ASSUME TaskAssumption == Tasks \subseteq Served
ASSUME ParamsAssumption == {NewParams, DefaultParams, ZeroParams} \subseteq Params
ASSUME TroublesAssumption == MaxTroubles \in Nat

VARIABLES
    at,         \* where the main program is
    task,       \* what the master asks for
    mpc,        \* the next transfer of the master; "idle" when it has none
    troubles,   \* failed transfers and restarts so far
    served,     \* auxiliary: the task was carried out after the master began it
    misled      \* auxiliary: the master took something else for a status byte

masterVars == <<task, mpc, troubles, served, misled>>

lvars == <<vars, at, masterVars>>

-----------------------------------------------------------------------------
(* setup() and loop() *)

\* Memory after power-up, with Wire.onRequest() called and Wire.onReceive() next.
PowerUp ==
    /\ cmdReg = [InitReg EXCEPT !.rdy = FALSE]
    /\ cmdRegReadRequested = FALSE
    /\ transmitBuffer = <<>>
    /\ config = ZeroParams
    /\ pc = "idle"
    /\ fetched = CommandOf(InitReg) /\ loaded = InitReg
    /\ handlers = 0 /\ reply = "nothing"
    /\ owed = {} /\ armed = FALSE
    /\ at = "onReceive"

\* Mutant: Controller_Init keeps what is in the register.
Mut_RegisterKept ==
    \/ /\ at = "onReceive" /\ at' = "controller"
       /\ UNCHANGED vars
    \/ /\ at = "controller" /\ at' = "params"
       /\ transmitBuffer' = <<>> /\ cmdReg' = [cmdReg EXCEPT !.rdy = TRUE] /\ cmdRegReadRequested' = FALSE
       /\ owed' = {} /\ armed' = FALSE
       /\ UNCHANGED <<config, pc, fetched, loaded, handlers, reply>>
    \/ /\ at = "params" /\ at' = "loop"
       /\ config' = DefaultParams
       /\ UNCHANGED <<cmdReg, cmdRegReadRequested, transmitBuffer, pc, fetched,
                      loaded, handlers, reply, owed, armed>>

\* Wire.onReceive(); then Controller_Init, which forgets a command that came
\* before and is too short for a byte to go over the bus; then, after the slow
\* work on the peripherals, Config_InitParams.
Setup ==
    \/ /\ at = "onReceive" /\ at' = "controller"
       /\ UNCHANGED vars
    \/ /\ at = "controller" /\ at' = "params"
       /\ transmitBuffer' = <<>> /\ cmdReg' = InitReg /\ cmdRegReadRequested' = FALSE
       /\ owed' = {} /\ armed' = FALSE
       /\ UNCHANGED <<config, pc, fetched, loaded, handlers, reply>>
    \/ /\ at = "params" /\ at' = "loop"
       /\ config' = DefaultParams
       /\ UNCHANGED <<cmdReg, cmdRegReadRequested, transmitBuffer, pc, fetched,
                      loaded, handlers, reply, owed, armed>>

\* The rest of loop() leaves the controller alone.
Loop ==
    /\ at = "loop" /\ UNCHANGED at
    /\ Controller_ConsumeCommand

MainProgram ==
    /\ Setup \/ Loop
    /\ served' = (served \/ (at = "loop" /\ task \in owed /\ task \notin owed'))
    /\ UNCHANGED <<task, mpc, troubles, misled>>

-----------------------------------------------------------------------------
(* What the handlers make of a transfer *)

Announcement == [cmd |-> "CmdReg", rw |-> "W", ch |-> "A"]

Poll == [cmd |-> "CmdReg", rw |-> "R", ch |-> "A"]

\* What read() gives for an empty message: 0xFF.
EmptyWrite == [cmd |-> "Unknown", rw |-> "W", ch |-> "B"]

ReceiveCommand(new) ==
    IF AwaitsParams
    THEN RejectParams
    ELSE RequestWrite(new) \/ RequestPoll(new) \/ AcceptCommand(new) \/ IgnoreCommand(new)

\* Parameters that nobody waits for are taken for a command: their first byte.
ReceiveParams ==
    IF AwaitsParams
    THEN ReadNewParamsFromMaster /\ config' = NewParams
    ELSE \E junk \in Commands : ReceiveCommand(junk)

\* A message is dropped as long as no handler is registered.
Receive(handler) ==
    IF at = "onReceive"
    THEN UNCHANGED vars
    ELSE Interrupts /\ handler /\ UNCHANGED mainVars

-----------------------------------------------------------------------------
(* The master *)

IsParamsWrite(c) == c.cmd = "ParamsReg" /\ c.rw = "W"

IsDataRead(c) == c.cmd \in {"DataReg", "ParamsReg"} /\ c.rw = "R"

Writes == {"announce", "askGrant", "command", "params", "askStatus"}

Reads == {"grant", "status", "read"}

\* The byte that is written next.
Message ==
    CASE mpc = "announce" -> Announcement
      [] mpc \in {"askGrant", "askStatus"} -> Poll
      [] OTHER -> task

AfterWrite ==
    CASE mpc = "announce" -> "askGrant"
      [] mpc = "askGrant" -> "grant"
      [] mpc = "command" /\ IsParamsWrite(task) -> "params"
      [] mpc = "askStatus" -> "status"
      [] OTHER -> "askStatus"

\* An announcement is granted when the register shows it, ready and without error.
AfterGrant(reg) ==
    IF CommandOf(reg) = Announcement /\ reg.rdy /\ reg.err = "Ok"
    THEN "command" ELSE "announce"

\* Writing the parameters turns the register to reading them.
Shown(c) == IF IsParamsWrite(c) THEN [c EXCEPT !.rw = "R"] ELSE c

AfterStatus(reg) ==
    CASE CommandOf(reg) = Shown(task) /\ reg.rdy /\ reg.err = "Ok" ->
            IF IsDataRead(task) THEN "read" ELSE "idle"
      [] CommandOf(reg) = Shown(task) /\ ~reg.rdy -> "askStatus"
      [] OTHER -> "announce"

Begin(c) ==
    /\ mpc = "idle"
    /\ task' = c /\ mpc' = "announce"
    /\ served' = FALSE /\ misled' = FALSE
    /\ UNCHANGED <<vars, at, troubles>>

Write ==
    /\ mpc \in Writes
    /\ Receive(IF mpc = "params" THEN ReceiveParams ELSE ReceiveCommand(Message))
    /\ mpc' = AfterWrite
    /\ served' = (served \/ (mpc = "params" /\ config' = NewParams))
    /\ UNCHANGED <<at, task, troubles, misled>>

\* A poll is answered with the register.  Without a request for it, which the
\* master believes to have made, the answer is a byte of data, which may look
\* like anything, or nothing, which looks like a register that is not ready.
ReadStatus ==
    /\ mpc \in {"grant", "status"}
    /\ Controller_RequestHandler
    /\ LET After(reg) == IF mpc = "grant" THEN AfterGrant(reg) ELSE AfterStatus(reg)
       IN  CASE reply' = "status" -> mpc' = After(cmdReg) /\ UNCHANGED misled
             [] reply' = "data" -> /\ mpc' \in {After(reg) : reg \in CmdRegs}
                                   /\ misled' = TRUE
             [] OTHER -> mpc' = "announce" /\ UNCHANGED misled
    /\ UNCHANGED <<at, task, troubles, served>>

\* What is not data shows in the checksum.
ReadData ==
    /\ mpc = "read"
    /\ Controller_RequestHandler
    /\ mpc' = IF reply' = "data" THEN "idle" ELSE "announce"
    /\ UNCHANGED <<at, task, troubles, served, misled>>

Transfer == Write \/ ReadStatus \/ ReadData

-----------------------------------------------------------------------------
(* Troubles *)

Trouble == troubles < MaxTroubles /\ troubles' = troubles + 1

\* The message arrived completely, as an empty one, or not at all.
WriteFails ==
    /\ Trouble
    /\ mpc \in Writes
    /\ \/ Receive(IF mpc = "params" THEN ReceiveParams ELSE ReceiveCommand(Message))
       \/ Receive(ReceiveCommand(EmptyWrite))
       \/ UNCHANGED vars
    /\ served' = (served \/ (mpc = "params" /\ config' = NewParams))
    /\ UNCHANGED <<at, task, mpc, misled>>

\* The handler was called or not; the master polls again or reads again.
ReadFails ==
    /\ Trouble
    /\ mpc \in Reads
    /\ Controller_RequestHandler \/ UNCHANGED vars
    /\ mpc' = CASE mpc = "grant" -> "askGrant"
                [] mpc = "status" -> "askStatus"
                [] OTHER -> "read"
    /\ UNCHANGED <<at, task, served, misled>>

MasterRestarts ==
    /\ Trouble
    /\ mpc # "idle" /\ mpc' = "idle"
    /\ UNCHANGED <<vars, at, task, served, misled>>

LifeTesterRestarts ==
    /\ Trouble
    /\ cmdReg' = [InitReg EXCEPT !.rdy = FALSE] /\ cmdRegReadRequested' = FALSE
    /\ transmitBuffer' = <<>> /\ config' = ZeroParams
    /\ pc' = "idle" /\ fetched' = CommandOf(InitReg) /\ loaded' = InitReg
    /\ handlers' = 0 /\ reply' = "nothing"
    /\ owed' = {} /\ armed' = FALSE
    /\ at' = "onReceive"
    /\ UNCHANGED <<task, mpc, served, misled>>

-----------------------------------------------------------------------------

LInit ==
    /\ PowerUp
    /\ task \in Tasks /\ mpc = "idle"
    /\ troubles = 0 /\ served = FALSE /\ misled = FALSE

LNext ==
    \/ MainProgram
    \/ \E c \in Tasks : Begin(c)
    \/ Transfer
    \/ WriteFails
    \/ ReadFails
    \/ MasterRestarts
    \/ LifeTesterRestarts

\* The main program goes on.  The bus does not wait for it, and a transfer that
\* cannot interrupt ConsumeCommand again is only delayed.  An announcement that
\* comes between the load and the store of SET_RDY_STATUS is lost, and a read of
\* the parameters may meet an empty buffer: ConsumeCommand is a small part of the
\* loop, so that this does not happen every time.
LSpec ==
    /\ LInit /\ [][LNext]_lvars
    /\ WF_lvars(MainProgram)
    /\ SF_lvars(Transfer)
    /\ SF_lvars(pc = "idle" /\ mpc = "announce" /\ Transfer)
    /\ SF_lvars(pc = "idle" /\ mpc = "read" /\ Transfer)

-----------------------------------------------------------------------------
(* Properties *)

\* The controller waits for parameters, and the master is not about to write
\* them: it was restarted, or the main loop undid SET_READ_MODE.  Everything
\* shorter than the parameters is thrown away, polls included.
Stranded ==
    AwaitsParams /\ ~(IsParamsWrite(task) /\ mpc \in {"command", "params"})

\* When the master believes that its task is done, it is: carried out after it
\* was asked for, and a record of measurements is whole and of the channel asked
\* for, whatever transfers failed, arrived twice or arrived as something else,
\* and wherever the LifeTester was restarted.  Not so the parameters: a record of
\* them may be read half-filled, because ConsumeCommand fills it again in every
\* loop, ready or not; and parameters that arrive twice or after a restart are a
\* command, which may leave the register as the master expects it.
TaskIsDone ==
    [][(mpc # "idle" /\ mpc' = "idle" /\ troubles' = troubles /\ ~misled') =>
          /\ IsParamsWrite(task) \/ served
          /\ task.cmd = "DataReg" => reply' = "data" /\ transmitBuffer = WholeRecord(task)]_lvars

\* A byte of data is taken for the status only while the controller throws
\* away polls because it waits for parameters.
MisledOnlyWhenStranded == [][misled' /\ ~misled => Stranded]_lvars

\* No request for a poll is left over when data is read: no poll that failed
\* half way makes the register come in place of the record.
NoPollLeftOver == mpc = "read" /\ ~misled => ~cmdRegReadRequested

\* A master that goes on gets what it asked for, in spite of failed transfers
\* and restarts, unless it is stranded.
MasterIsServed == mpc # "idle" ~> (mpc = "idle" \/ Stranded)
=============================================================================
