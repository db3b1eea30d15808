------------------------- MODULE LifeTester_proofs --------------------------
(***************************************************************************)
(* Proofs about the controller: the register and the buffer keep their     *)
(* promises whatever the master sends and wherever ConsumeCommand is       *)
(* interrupted (Inv).  And about the main program and its master: what the *)
(* master may conclude from what it reads, however often transfers fail or *)
(* either side restarts (LInv).  They build on the invariant of the        *)
(* controller, which holds from the end of Controller_Init on.             *)
(***************************************************************************)
EXTENDS LifeTester, TLAPS

-----------------------------------------------------------------------------
(* The controller: its inductive invariant *)

Working == {"reset", "flush", "memset", "tail", "write"}

Filling == {"memset", "tail", "write"}

\* The first n fields of a data record of a channel.
DataPrefix(n, ch) == [k \in 1 .. n |-> <<DataFields[k], ch>>]

\* Calls are counted from the start of the work that can be short of time.
CallsCounted == pc \in {"idle", "reset"} => handlers = 0

\* ConsumeCommand works on a command that it has work for.
FetchedServed ==
    /\ pc # "idle" => fetched \in Served
    /\ pc = "reset" => fetched.cmd = "Reset"
    /\ pc = "flush" => fetched.cmd = "ParamsReg"
    /\ pc \in Filling => fetched.cmd \in {"ParamsReg", "DataReg"}

\* What keeps the register busy is a command that ConsumeCommand has work for.
BusyServed == ~cmdReg.rdy => CommandOf(cmdReg) \in Served

\* The register holds the command being served, or one handler call has begun to
\* replace it; the next command cannot be in it before the work is over.
NotOvertaken ==
    pc # "idle" =>
        \/ cmdReg.cmd = fetched.cmd /\ cmdReg.ch = fetched.ch
        \/ handlers > 0 /\ cmdReg.cmd = "CmdReg"

\* A reset and a data load keep the register busy.
BusyMeanwhile ==
    pc = "reset" \/ (pc \in Filling /\ fetched.cmd = "DataReg") =>
        ~cmdReg.rdy /\ CommandOf(cmdReg) = fetched

\* Only the command being served is owed, and none when the work is done.
OwedServed ==
    /\ pc \in Working => owed \subseteq {fetched}
    /\ pc \in {"ready", "store"} => owed = {}

\* The register about to be stored differs from the present one only if that is
\* ready for another command.
LoadedCurrent ==
    pc = "store" =>
        /\ \/ loaded.cmd = fetched.cmd /\ loaded.ch = fetched.ch
           \/ loaded.cmd = "CmdReg"
        /\ ~cmdReg.rdy => loaded.cmd = cmdReg.cmd /\ loaded.ch = cmdReg.ch

\* The buffer holds the fields written so far.
BufferFilled ==
    /\ pc = "write" => Len(transmitBuffer) < Len(FieldsOf(fetched.cmd))
    /\ pc = "write" /\ fetched.cmd = "DataReg" =>
          transmitBuffer = DataPrefix(Len(transmitBuffer), fetched.ch)
    /\ pc \in {"ready", "store"} /\ fetched.cmd = "DataReg" =>
          transmitBuffer = DataPrefix(7, fetched.ch)

\* ReadyDataIsComplete without the parameters.
RecordComplete ==
    cmdReg.cmd = "DataReg" /\ cmdReg.rw = "R" /\ cmdReg.rdy
        => transmitBuffer = DataPrefix(7, cmdReg.ch)

Inv ==
    /\ TypeOK
    /\ ReadyMeansDone
    /\ CallsCounted
    /\ FetchedServed
    /\ BusyServed
    /\ NotOvertaken
    /\ BusyMeanwhile
    /\ OwedServed
    /\ LoadedCurrent
    /\ BufferFilled
    /\ RecordComplete

-----------------------------------------------------------------------------
(* The data *)

\* The two records and the types of their fields.
LEMMA FieldLists ==
    /\ DataFields \in Seq(Fields) /\ Len(DataFields) = 7
    /\ ParamFields \in Seq(Fields) /\ Len(ParamFields) = 4
BY DEF DataFields, ParamFields, Fields

\* FieldsOf yields one of the two lists.
LEMMA FieldsOfType ==
    ASSUME NEW cmd
    PROVE  /\ FieldsOf(cmd) \in Seq(Fields)
           /\ Len(FieldsOf(cmd)) = IF cmd = "DataReg" THEN 7 ELSE 4
<1>1. CASE cmd = "DataReg"
  BY <1>1, FieldLists DEF FieldsOf
<1>2. CASE cmd # "DataReg"
  BY <1>2, FieldLists DEF FieldsOf
<1>3. QED
  BY <1>1, <1>2

\* Appending the next field extends a prefix of the data record.
LEMMA PrefixAppend ==
    ASSUME NEW n \in Nat, NEW ch
    PROVE  Append(DataPrefix(n, ch), <<DataFields[n + 1], ch>>) = DataPrefix(n + 1, ch)
BY DEF DataPrefix

-----------------------------------------------------------------------------
(* The handlers *)

\* At most one handler call falls into a piece of work that it could overtake,
\* and the register it finds there still holds the command being served.
LEMMA FirstCall ==
    ASSUME Inv, Interrupts
    PROVE  /\ handlers = 0
           /\ handlers' \in 0 .. MaxHandlers
           /\ pc \in {"idle", "reset"} => handlers' = 0
           /\ pc \notin {"idle", "reset"} => handlers' = 1
           /\ pc # "idle" => /\ cmdReg.cmd = fetched.cmd /\ cmdReg.ch = fetched.ch
                             /\ cmdReg.cmd # "CmdReg"
<1>1. handlers \in 0 .. MaxHandlers
  BY DEF Inv, TypeOK
<1>2. handlers = 0
  BY <1>1, HandlerAssumption DEF Inv, CallsCounted, Interrupts
<1>3. handlers' \in 0 .. MaxHandlers
  BY <1>1, HandlerAssumption DEF Interrupts
<1>4. /\ pc \in {"idle", "reset"} => handlers' = 0
      /\ pc \notin {"idle", "reset"} => handlers' = 1
  BY <1>2 DEF Interrupts
<1>5. pc # "idle" => cmdReg.cmd = fetched.cmd /\ cmdReg.ch = fetched.ch
  BY <1>2 DEF Inv, NotOvertaken
<1>6. pc # "idle" => fetched.cmd # "CmdReg"
  BY DEF Inv, FetchedServed, Served
<1>7. QED
  BY <1>2, <1>3, <1>4, <1>5, <1>6

\* A call that changes nothing of the register but its error bits.
LEMMA StatusOnlyGood ==
    ASSUME Inv, Interrupts, UNCHANGED mainVars, UNCHANGED <<config, owed, armed>>,
           cmdRegReadRequested' \in BOOLEAN, reply' \in {"nothing", "status", "data"},
           cmdReg' \in CmdRegs, CommandOf(cmdReg') = CommandOf(cmdReg),
           cmdReg'.rdy = cmdReg.rdy
    PROVE  Inv'
<1>1. /\ cmdReg'.cmd = cmdReg.cmd /\ cmdReg'.rw = cmdReg.rw /\ cmdReg'.ch = cmdReg.ch
      /\ UNCHANGED <<pc, fetched, loaded, transmitBuffer>>
  BY DEF CommandOf, mainVars
<1>2. TypeOK'
  BY <1>1, FirstCall DEF Inv, TypeOK
<1>3. ReadyMeansDone' /\ BusyServed' /\ RecordComplete'
  BY <1>1 DEF Inv, ReadyMeansDone, BusyServed, RecordComplete, DataPrefix
<1>4. CallsCounted' /\ NotOvertaken'
  BY <1>1, FirstCall DEF Inv, CallsCounted, NotOvertaken
<1>5. FetchedServed' /\ BusyMeanwhile' /\ OwedServed' /\ LoadedCurrent' /\ BufferFilled'
  BY <1>1 DEF Inv, FetchedServed, BusyMeanwhile, OwedServed, LoadedCurrent,
              BufferFilled, DataPrefix, FieldsOf
<1>6. QED
  BY <1>2, <1>3, <1>4, <1>5 DEF Inv
\* The master announces a command to a register that is ready.
LEMMA AnnouncedGood ==
    ASSUME Inv, Interrupts, UNCHANGED mainVars,
           UNCHANGED <<config, cmdRegReadRequested, reply, owed, armed>>,
           NEW new \in Commands, new.cmd = "CmdReg",
           cmdReg.rdy, cmdReg' = LoadNewCmdToReg(cmdReg, new)
    PROVE  Inv'
<1>1. UNCHANGED <<pc, fetched, loaded, transmitBuffer>>
  BY DEF mainVars
<1>2. /\ cmdReg' \in CmdRegs
      /\ cmdReg'.cmd = "CmdReg" /\ cmdReg'.rdy
  BY DEF Inv, TypeOK, LoadNewCmdToReg, CmdRegs, Commands, ControllerErrors
<1>3. TypeOK'
  BY <1>1, <1>2, FirstCall DEF Inv, TypeOK
<1>4. ReadyMeansDone' /\ BusyServed' /\ RecordComplete'
  BY <1>2 DEF Inv, ReadyMeansDone, BusyServed, RecordComplete
<1>5. ~(pc = "reset" \/ (pc \in Filling /\ fetched.cmd = "DataReg"))
  BY DEF Inv, BusyMeanwhile
<1>6. CallsCounted' /\ NotOvertaken' /\ BusyMeanwhile'
  BY <1>1, <1>2, <1>5, FirstCall DEF CallsCounted, NotOvertaken, BusyMeanwhile, Filling
<1>7. FetchedServed' /\ OwedServed' /\ LoadedCurrent' /\ BufferFilled'
  BY <1>1, <1>2 DEF Inv, FetchedServed, OwedServed, LoadedCurrent, BufferFilled,
                    DataPrefix, FieldsOf
<1>8. QED
  BY <1>3, <1>4, <1>6, <1>7 DEF Inv

\* UpdateStatusBits makes the register busy for the commands that have work.
LEMMA StatusBits ==
    ASSUME NEW reg \in CmdRegs, NEW new \in Commands, new.cmd # "CmdReg", reg.rdy
    PROVE  LET r == UpdateStatusBits(LoadNewCmdToReg(reg, new), new)
           IN  /\ r \in CmdRegs
               /\ CommandOf(r) = new
               /\ r.rdy <=> new \notin Served
<1> DEFINE l == LoadNewCmdToReg(reg, new)
           r == UpdateStatusBits(l, new)
<1>1. /\ l \in CmdRegs /\ l.rdy
      /\ l.cmd = new.cmd /\ l.rw = new.rw /\ l.ch = new.ch
  BY DEF LoadNewCmdToReg, CmdRegs, Commands, ControllerErrors
<1> HIDE DEF l
<1>2. new \in Served <=>
          \/ new.rw = "W" /\ new.cmd \in {"Reset", "ParamsReg", "CmdReg"}
          \/ new.rw = "R" /\ new.cmd \in {"Reset", "ParamsReg", "DataReg"}
  BY DEF Served, Commands
<1>3. CASE new \in Served
  <2>1. r = [l EXCEPT !.rdy = FALSE]
    BY <1>2, <1>3 DEF UpdateStatusBits
  <2>2. r \in CmdRegs /\ ~r.rdy
    BY <1>1, <2>1 DEF CmdRegs
  <2>3. r.cmd = new.cmd /\ r.rw = new.rw /\ r.ch = new.ch
    BY <1>1, <2>1 DEF CmdRegs
  <2>4. CommandOf(r) = new
    BY <2>3 DEF CommandOf, Commands
  <2>5. QED
    BY <1>3, <2>2, <2>4 DEF l
<1>4. CASE new \notin Served
  <2>1. r = [l EXCEPT !.err = "UnkownCmdError"]
    BY <1>2, <1>4 DEF UpdateStatusBits
  <2>2. r \in CmdRegs /\ r.rdy
    BY <1>1, <2>1 DEF CmdRegs, ControllerErrors
  <2>3. r.cmd = new.cmd /\ r.rw = new.rw /\ r.ch = new.ch
    BY <1>1, <2>1 DEF CmdRegs
  <2>4. CommandOf(r) = new
    BY <2>3 DEF CommandOf, Commands
  <2>5. QED
    BY <1>4, <2>2, <2>4 DEF l
<1>5. QED
  BY <1>3, <1>4

\* The master sends the command announced.  This happens outside of
\* ConsumeCommand only, and the register was ready.
LEMMA AcceptedGood ==
    ASSUME Inv, Interrupts, UNCHANGED mainVars,
           NEW new \in Commands, AcceptCommand(new)
    PROVE  Inv'
<1>1. /\ UNCHANGED <<pc, fetched, loaded, transmitBuffer>>
      /\ UNCHANGED <<config, cmdRegReadRequested, reply>>
  BY DEF mainVars, AcceptCommand
<1>2. pc = "idle" /\ cmdReg.rdy
  <2>1. pc = "idle"
    BY FirstCall DEF AcceptCommand
  <2>2. CommandOf(cmdReg) \notin Served
    BY DEF AcceptCommand, CommandOf, Served
  <2>3. QED
    BY <2>1, <2>2 DEF Inv, BusyServed
<1>3. /\ cmdReg' \in CmdRegs
      /\ CommandOf(cmdReg') = new
      /\ cmdReg'.rdy <=> new \notin Served
  <2>1. cmdReg' = UpdateStatusBits(LoadNewCmdToReg(cmdReg, new), new) /\ new.cmd # "CmdReg"
    BY DEF AcceptCommand
  <2>2. cmdReg \in CmdRegs
    BY DEF Inv, TypeOK
  <2>3. QED
    BY <1>2, <2>1, <2>2, StatusBits
<1>4. owed' = IF new \in Served THEN {new} ELSE {}
  BY DEF AcceptCommand
<1>5. owed' \in SUBSET Commands /\ armed' \in BOOLEAN
  BY <1>4 DEF AcceptCommand
<1>6. TypeOK'
  BY <1>1, <1>3, <1>5, FirstCall DEF Inv, TypeOK
<1>7. ReadyMeansDone' /\ BusyServed'
  BY <1>3, <1>4 DEF ReadyMeansDone, BusyServed
<1>8. RecordComplete'
  <2>1. cmdReg'.cmd = new.cmd /\ cmdReg'.rw = new.rw
    BY <1>3 DEF CommandOf
  <2>2. new.cmd = "DataReg" /\ new.rw = "R" => new \in Served
    BY DEF Served
  <2>3. QED
    BY <1>3, <2>1, <2>2 DEF RecordComplete
<1>9. /\ CallsCounted' /\ FetchedServed' /\ NotOvertaken' /\ BusyMeanwhile'
      /\ OwedServed' /\ LoadedCurrent' /\ BufferFilled'
  BY <1>1, <1>2, FirstCall DEF CallsCounted, FetchedServed, NotOvertaken, BusyMeanwhile,
     OwedServed, LoadedCurrent, BufferFilled, Filling, Working
<1>10. QED
  BY <1>6, <1>7, <1>8, <1>9 DEF Inv

\* The master sends the parameters it announced.
LEMMA ParamsReadGood ==
    ASSUME Inv, Interrupts, UNCHANGED mainVars, ReadNewParamsFromMaster
    PROVE  Inv'
<1>1. /\ UNCHANGED <<pc, fetched, loaded, transmitBuffer>>
      /\ UNCHANGED <<cmdRegReadRequested, reply>>
      /\ owed' = {} /\ armed' = FALSE /\ config' \in Params
      /\ cmdReg.cmd = "ParamsReg"
  BY DEF mainVars, ReadNewParamsFromMaster, AwaitsParams
<1>2. /\ cmdReg' \in CmdRegs /\ cmdReg'.rdy = cmdReg.rdy
      /\ cmdReg'.cmd = "ParamsReg" /\ cmdReg'.ch = cmdReg.ch /\ cmdReg'.rw = "R"
  BY <1>1 DEF Inv, TypeOK, ReadNewParamsFromMaster, CmdRegs
<1>3. TypeOK'
  BY <1>1, <1>2, FirstCall DEF Inv, TypeOK
<1>4. ReadyMeansDone' /\ RecordComplete'
  BY <1>1, <1>2 DEF ReadyMeansDone, RecordComplete
<1>5. BusyServed'
  BY <1>2 DEF BusyServed, CommandOf, Served, Commands, CmdRegs
<1>6. CallsCounted' /\ NotOvertaken'
  BY <1>1, <1>2, FirstCall DEF CallsCounted, NotOvertaken
<1>7. ~(pc = "reset" \/ (pc \in Filling /\ fetched.cmd = "DataReg"))
  BY <1>1, FirstCall DEF Inv, FetchedServed, Filling
<1>8. FetchedServed' /\ BusyMeanwhile' /\ OwedServed' /\ LoadedCurrent' /\ BufferFilled'
  BY <1>1, <1>2, <1>7 DEF Inv, FetchedServed, BusyMeanwhile, OwedServed, LoadedCurrent,
     BufferFilled, DataPrefix, FieldsOf, Filling
<1>9. QED
  BY <1>3, <1>4, <1>5, <1>6, <1>8 DEF Inv

\* Every write of the master is one of the cases above.
LEMMA ReceiveGood ==
    ASSUME Inv, Controller_ReceiveHandler
    PROVE  Inv'
<1>1. Interrupts /\ UNCHANGED mainVars
  BY DEF Controller_ReceiveHandler
<1>2. CASE ReadNewParamsFromMaster
  BY <1>1, <1>2, ParamsReadGood
<1>3. CASE RejectParams
  <2>1. cmdReg' \in CmdRegs /\ CommandOf(cmdReg') = CommandOf(cmdReg)
           /\ cmdReg'.rdy = cmdReg.rdy
    BY <1>3 DEF RejectParams, Inv, TypeOK, CmdRegs, CommandOf, ControllerErrors
  <2>2. cmdRegReadRequested' \in BOOLEAN /\ reply' \in {"nothing", "status", "data"}
           /\ UNCHANGED <<config, owed, armed>>
    BY <1>3 DEF RejectParams, Inv, TypeOK
  <2>3. QED
    BY <1>1, <2>1, <2>2, StatusOnlyGood
<1>4. ASSUME NEW new \in Commands, RequestWrite(new)
      PROVE  Inv'
  <2>1. CASE cmdReg.rdy
    BY <1>1, <1>4, <2>1, AnnouncedGood DEF RequestWrite
  <2>2. CASE ~cmdReg.rdy
    <3>1. cmdReg' = [cmdReg EXCEPT !.err = "BusyError"]
      BY <1>4, <2>2 DEF RequestWrite
    <3>2. cmdReg' \in CmdRegs /\ CommandOf(cmdReg') = CommandOf(cmdReg)
             /\ cmdReg'.rdy = cmdReg.rdy
      BY <3>1 DEF Inv, TypeOK, CmdRegs, CommandOf, ControllerErrors
    <3>3. cmdRegReadRequested' \in BOOLEAN /\ reply' \in {"nothing", "status", "data"}
             /\ UNCHANGED <<config, owed, armed>>
      BY <1>4 DEF RequestWrite, Inv, TypeOK
    <3>4. QED
      BY <1>1, <3>2, <3>3, StatusOnlyGood
  <2>3. QED
    BY <2>1, <2>2
<1>5. ASSUME NEW new \in Commands, RequestPoll(new) \/ IgnoreCommand(new)
      PROVE  Inv'
  <2>1. UNCHANGED <<cmdReg, config, reply, owed, armed>>
    BY <1>5 DEF RequestPoll, IgnoreCommand, regVars
  <2>2. cmdRegReadRequested' \in BOOLEAN
    BY <1>5 DEF RequestPoll, IgnoreCommand, regVars, Inv, TypeOK
  <2>3. cmdReg' \in CmdRegs /\ reply' \in {"nothing", "status", "data"}
    BY <2>1 DEF Inv, TypeOK
  <2>4. QED
    BY <1>1, <2>1, <2>2, <2>3, StatusOnlyGood
<1>6. ASSUME NEW new \in Commands, AcceptCommand(new)
      PROVE  Inv'
  BY <1>1, <1>6, AcceptedGood
<1>7. QED
  BY <1>2, <1>3, <1>4, <1>5, <1>6 DEF Controller_ReceiveHandler

\* A read of the master changes nothing but the error bits.
LEMMA RequestGood ==
    ASSUME Inv, Controller_RequestHandler
    PROVE  Inv'
<1>1. Interrupts /\ UNCHANGED mainVars /\ UNCHANGED <<config, owed, armed>>
  BY DEF Controller_RequestHandler, AnswerPoll, TransmitData, AnswerBusy
<1>2. cmdReg' \in CmdRegs /\ CommandOf(cmdReg') = CommandOf(cmdReg)
         /\ cmdReg'.rdy = cmdReg.rdy
  BY DEF Controller_RequestHandler, AnswerPoll, TransmitData, AnswerBusy,
         Inv, TypeOK, CmdRegs, CommandOf, ControllerErrors
<1>3. cmdRegReadRequested' \in BOOLEAN /\ reply' \in {"nothing", "status", "data"}
  BY DEF Controller_RequestHandler, AnswerPoll, TransmitData, AnswerBusy, Inv, TypeOK
<1>4. QED
  BY <1>1, <1>2, <1>3, StatusOnlyGood

-----------------------------------------------------------------------------
(* ConsumeCommand *)

\* ConsumeCommand starts on a command that it has work for.
LEMMA FetchGood ==
    ASSUME Inv, Fetch
    PROVE  Inv'
<1> DEFINE c == CommandOf(cmdReg)
<1>1. /\ pc = "idle" /\ fetched' = c /\ handlers = 0
      /\ UNCHANGED <<cmdReg, cmdRegReadRequested, config, reply, owed, armed>>
      /\ UNCHANGED <<transmitBuffer, loaded, handlers>>
  BY DEF Fetch, regVars, Inv, CallsCounted
<1>2. c \in Commands /\ c.cmd = cmdReg.cmd /\ c.rw = cmdReg.rw /\ c.ch = cmdReg.ch
  BY DEF CommandOf, Commands, CmdRegs, Inv, TypeOK
<1>3. \/ pc' = "reset" /\ c.cmd = "Reset" /\ ~cmdReg.rdy
      \/ pc' = "memset" /\ c.cmd = "ParamsReg" /\ c.rw = "R"
      \/ pc' = "flush" /\ c.cmd = "ParamsReg" /\ c.rw = "W"
      \/ pc' = "memset" /\ c.cmd = "DataReg" /\ c.rw = "R" /\ ~cmdReg.rdy
  BY <1>2 DEF Fetch, Dispatch
<1> HIDE DEF c
<1>4. c \in Served
  BY <1>2, <1>3 DEF Served
<1>5. owed \subseteq {c}
  BY DEF Inv, ReadyMeansDone, c
<1>6. TypeOK'
  BY <1>1, <1>2, <1>3 DEF Inv, TypeOK
<1>7. ReadyMeansDone' /\ BusyServed' /\ RecordComplete'
  BY <1>1 DEF Inv, ReadyMeansDone, BusyServed, RecordComplete, DataPrefix
<1>8. CallsCounted' /\ FetchedServed'
  BY <1>1, <1>3, <1>4 DEF CallsCounted, FetchedServed, Filling
<1>9. NotOvertaken' /\ BusyMeanwhile'
  BY <1>1, <1>2, <1>3 DEF NotOvertaken, BusyMeanwhile, Filling, c
<1>10. OwedServed' /\ LoadedCurrent' /\ BufferFilled'
  BY <1>1, <1>3, <1>5 DEF OwedServed, LoadedCurrent, BufferFilled, Working
<1>11. QED
  BY <1>6, <1>7, <1>8, <1>9, <1>10 DEF Inv

\* A reset or a flush is work done in one step.
LEMMA WorkDoneGood ==
    ASSUME Inv, ResetChannel \/ FlushReadBuffer
    PROVE  Inv'
<1>1. /\ pc \in {"reset", "flush"} /\ pc' = "ready" /\ owed' = owed \ {fetched}
      /\ UNCHANGED <<cmdReg, cmdRegReadRequested, config, reply, armed>>
      /\ UNCHANGED <<transmitBuffer, fetched, loaded, handlers>>
  BY DEF ResetChannel, FlushReadBuffer
<1>2. owed' = {}
  BY <1>1 DEF Inv, OwedServed, Working
<1>3. TypeOK'
  BY <1>1, <1>2 DEF Inv, TypeOK
<1>4. ReadyMeansDone' /\ BusyServed' /\ RecordComplete'
  BY <1>1, <1>2 DEF Inv, ReadyMeansDone, BusyServed, RecordComplete, DataPrefix
<1>5. /\ CallsCounted' /\ FetchedServed' /\ NotOvertaken' /\ BusyMeanwhile'
      /\ OwedServed' /\ LoadedCurrent'
  BY <1>1, <1>2 DEF Inv, CallsCounted, FetchedServed, NotOvertaken, BusyMeanwhile,
     OwedServed, LoadedCurrent, Filling, Working
<1>6. BufferFilled'
  BY <1>1 DEF Inv, FetchedServed, BufferFilled
<1>7. QED
  BY <1>3, <1>4, <1>5, <1>6 DEF Inv

\* Clearing the buffer is harmless: the register is busy or asks for parameters.
LEMMA ResetBufferGood ==
    ASSUME Inv, ResetBuffer
    PROVE  Inv'
<1>1. /\ pc \in {"memset", "tail"} /\ pc' \in {"tail", "write"}
      /\ pc' = "write" => transmitBuffer' = <<>>
      /\ UNCHANGED <<cmdReg, cmdRegReadRequested, config, reply, owed, armed>>
      /\ UNCHANGED <<fetched, loaded, handlers>>
  BY DEF ResetBuffer, regVars
<1>2. fetched.cmd \in {"ParamsReg", "DataReg"}
  BY <1>1 DEF Inv, FetchedServed, Filling
<1>3. transmitBuffer' \in Seq(Fields \X (Channels \cup Params))
  <2>1. fetched.ch \in Channels /\ transmitBuffer \in Seq(Fields \X (Channels \cup Params))
    BY DEF Inv, TypeOK, Commands
  <2>2. <<"EMPTY", fetched.ch>> \in Fields \X (Channels \cup Params)
    BY <2>1 DEF Fields
  <2>3. [k \in DOMAIN transmitBuffer |-> <<"EMPTY", fetched.ch>>]
            \in Seq(Fields \X (Channels \cup Params))
    <3> DEFINE S == Fields \X (Channels \cup Params)
               e == <<"EMPTY", fetched.ch>>
    <3>1. transmitBuffer \in Seq(S) /\ e \in S
      BY <2>1, <2>2
    <3> HIDE DEF S, e
    <3>2. [k \in DOMAIN transmitBuffer |-> e] \in Seq(S)
      BY <3>1
    <3>3. QED
      BY <3>2 DEF S, e
  <2>4. <<>> \in Seq(Fields \X (Channels \cup Params))
    OBVIOUS
  <2>5. QED
    BY <2>3, <2>4 DEF ResetBuffer
<1>4. TypeOK'
  BY <1>1, <1>3 DEF Inv, TypeOK
<1>5. ReadyMeansDone' /\ BusyServed'
  BY <1>1 DEF Inv, ReadyMeansDone, BusyServed
<1>6. RecordComplete'
  BY <1>1, <1>2 DEF Inv, NotOvertaken, BusyMeanwhile, RecordComplete, Filling
<1>7. /\ CallsCounted' /\ FetchedServed' /\ NotOvertaken' /\ BusyMeanwhile'
      /\ OwedServed' /\ LoadedCurrent'
  BY <1>1 DEF Inv, CallsCounted, FetchedServed, NotOvertaken, BusyMeanwhile,
     OwedServed, LoadedCurrent, Filling, Working
<1>8. BufferFilled'
  <2>1. CASE pc' = "write"
    <3>1. transmitBuffer' = <<>> /\ Len(transmitBuffer') = 0
      BY <1>1, <2>1
    <3>2. Len(FieldsOf(fetched.cmd)) > 0
      BY FieldsOfType
    <3>3. transmitBuffer' = DataPrefix(0, fetched.ch)
      BY <3>1 DEF DataPrefix
    <3>4. QED
      BY <1>1, <2>1, <3>1, <3>2, <3>3 DEF BufferFilled, FieldsOf, DataPrefix
  <2>2. CASE pc' # "write"
    BY <1>1, <2>2 DEF BufferFilled
  <2>3. QED
    BY <2>1, <2>2
<1>9. QED
  BY <1>4, <1>5, <1>6, <1>7, <1>8 DEF Inv

\* The next field of the record goes into the buffer.
LEMMA WriteFieldGood ==
    ASSUME Inv, WriteField
    PROVE  Inv'
<1> DEFINE n == Len(transmitBuffer)
           fields == FieldsOf(fetched.cmd)
           S == Fields \X (Channels \cup Params)
<1>1. /\ pc = "write" /\ pc' = IF n + 1 = Len(fields) THEN "ready" ELSE "write"
      /\ transmitBuffer' =
            Append(transmitBuffer, <<fields[n + 1], SourceOf(fetched)>>)
      /\ owed' = IF n + 1 = Len(fields) THEN owed \ {fetched} ELSE owed
      /\ UNCHANGED <<cmdReg, cmdRegReadRequested, config, reply, armed>>
      /\ UNCHANGED <<fetched, loaded, handlers>>
  BY DEF WriteField
<1>2. /\ transmitBuffer \in Seq(S) /\ n \in Nat
      /\ n < Len(fields) /\ Len(fields) \in {4, 7}
      /\ fetched.cmd = "DataReg" => Len(fields) = 7 /\ fields = DataFields
  <2>1. transmitBuffer \in Seq(S) /\ n \in Nat
    <3>1. transmitBuffer \in Seq(S)
      BY DEF Inv, TypeOK
    <3> HIDE DEF S
    <3>2. QED
      BY <3>1
  <2>2. n < Len(fields)
    BY <1>1 DEF Inv, BufferFilled
  <2>3. Len(fields) = IF fetched.cmd = "DataReg" THEN 7 ELSE 4
    BY FieldsOfType
  <2>4. fetched.cmd = "DataReg" => fields = DataFields
    BY DEF FieldsOf
  <2> HIDE DEF n, fields
  <2>5. QED
    BY <2>1, <2>2, <2>3, <2>4
<1>3. <<fields[n + 1], SourceOf(fetched)>> \in S
  <2>1. fields \in Seq(Fields)
    BY FieldsOfType
  <2>2. fields[n + 1] \in Fields
    BY <1>2, <2>1
  <2>3. SourceOf(fetched) \in Channels \cup Params
    BY DEF SourceOf, Inv, TypeOK, Commands
  <2>4. QED
    BY <2>2, <2>3
<1>4. transmitBuffer' \in Seq(S) /\ Len(transmitBuffer') = n + 1
  <2> DEFINE e == <<fields[n + 1], SourceOf(fetched)>>
  <2>1. e \in S /\ transmitBuffer' = Append(transmitBuffer, e)
    BY <1>1, <1>3
  <2> HIDE DEF S, e
  <2>2. QED
    BY <1>2, <2>1
<1>5. fetched.cmd = "DataReg" =>
         /\ transmitBuffer = DataPrefix(n, fetched.ch)
         /\ transmitBuffer' = DataPrefix(n + 1, fetched.ch)
  <2> SUFFICES ASSUME fetched.cmd = "DataReg"
               PROVE  /\ transmitBuffer = DataPrefix(n, fetched.ch)
                      /\ transmitBuffer' = DataPrefix(n + 1, fetched.ch)
    OBVIOUS
  <2>1. transmitBuffer = DataPrefix(n, fetched.ch)
    BY <1>1 DEF Inv, BufferFilled
  <2>2. transmitBuffer' =
           Append(transmitBuffer, <<DataFields[n + 1], fetched.ch>>)
    BY <1>1, <1>2 DEF SourceOf
  <2> HIDE DEF n
  <2>3. QED
    BY <1>2, <2>1, <2>2, PrefixAppend
<1>6. owed' \subseteq owed /\ (pc' = "ready" => owed' = {})
  BY <1>1 DEF Inv, OwedServed, Working
<1>7. TypeOK'
  BY <1>1, <1>4, <1>6 DEF Inv, TypeOK
<1>8. ReadyMeansDone' /\ BusyServed'
  BY <1>1, <1>6 DEF Inv, ReadyMeansDone, BusyServed
<1>9. fetched.cmd \in {"ParamsReg", "DataReg"}
  BY <1>1 DEF Inv, FetchedServed, Filling
<1>10. RecordComplete'
  BY <1>1, <1>9 DEF Inv, NotOvertaken, BusyMeanwhile, RecordComplete, Filling
<1>11. /\ CallsCounted' /\ FetchedServed' /\ NotOvertaken' /\ BusyMeanwhile'
       /\ OwedServed' /\ LoadedCurrent'
  BY <1>1, <1>6 DEF Inv, CallsCounted, FetchedServed, NotOvertaken, BusyMeanwhile,
     OwedServed, LoadedCurrent, Filling, Working
<1>12. BufferFilled'
  <2>1. FieldsOf(fetched'.cmd) = fields
    BY <1>1
  <2>2. pc' = "write" => n + 1 < Len(fields)
    BY <1>1, <1>2
  <2>3. pc' = "ready" => n + 1 = Len(fields)
    BY <1>1
  <2>4. pc' = "write" /\ fetched'.cmd = "DataReg" =>
           transmitBuffer' = DataPrefix(Len(transmitBuffer'), fetched'.ch)
    BY <1>1, <1>4, <1>5
  <2>5. pc' = "ready" /\ fetched'.cmd = "DataReg" =>
           transmitBuffer' = DataPrefix(7, fetched'.ch)
    BY <1>1, <1>2, <1>5, <2>3
  <2>6. pc' # "store"
    BY <1>1
  <2>7. pc' = "write" => Len(transmitBuffer') < Len(FieldsOf(fetched'.cmd))
    BY <1>4, <2>1, <2>2
  <2> HIDE DEF n, fields
  <2>8. QED
    BY <2>4, <2>5, <2>6, <2>7 DEF BufferFilled, DataPrefix, FieldsOf
<1>13. QED
  BY <1>7, <1>8, <1>10, <1>11, <1>12 DEF Inv

\* SET_RDY_STATUS reads the register: the work is done.
LEMMA LoadCmdRegGood ==
    ASSUME Inv, LoadCmdReg
    PROVE  Inv'
<1>1. /\ pc = "ready" /\ pc' = "store" /\ loaded' = cmdReg
      /\ UNCHANGED <<cmdReg, cmdRegReadRequested, config, reply, owed, armed>>
      /\ UNCHANGED <<transmitBuffer, fetched, handlers>>
  BY DEF LoadCmdReg, regVars
<1>2. TypeOK'
  BY <1>1 DEF Inv, TypeOK
<1>3. ReadyMeansDone' /\ BusyServed' /\ RecordComplete'
  BY <1>1 DEF Inv, ReadyMeansDone, BusyServed, RecordComplete, DataPrefix
<1>4. /\ CallsCounted' /\ FetchedServed' /\ NotOvertaken' /\ BusyMeanwhile'
      /\ OwedServed' /\ LoadedCurrent'
  BY <1>1 DEF Inv, CallsCounted, FetchedServed, NotOvertaken, BusyMeanwhile,
     OwedServed, LoadedCurrent, Filling, Working
<1>5. BufferFilled'
  BY <1>1 DEF Inv, BufferFilled, DataPrefix
<1>6. QED
  BY <1>2, <1>3, <1>4, <1>5 DEF Inv

\* SET_RDY_STATUS stores the register: nothing is owed, and if it names a data
\* read the record is in the buffer.
LEMMA StoreCmdRegGood ==
    ASSUME Inv, StoreCmdReg
    PROVE  Inv'
<1>1. /\ pc = "store" /\ pc' = "idle" /\ handlers' = 0
      /\ cmdReg' = [loaded EXCEPT !.rdy = TRUE]
      /\ fetched' = CommandOf(InitReg) /\ loaded' = InitReg
      /\ UNCHANGED <<cmdRegReadRequested, transmitBuffer, config, reply, owed, armed>>
  BY DEF StoreCmdReg
<1>2. /\ cmdReg' \in CmdRegs /\ cmdReg'.rdy
      /\ cmdReg'.cmd = loaded.cmd /\ cmdReg'.rw = loaded.rw /\ cmdReg'.ch = loaded.ch
  BY <1>1 DEF Inv, TypeOK, CmdRegs
<1>3. fetched' \in Commands /\ loaded' \in CmdRegs
  BY <1>1 DEF CommandOf, InitReg, Commands, CmdRegs, ControllerCommands,
              ControllerErrors, Channels
<1>4. 0 \in 0 .. MaxHandlers
  BY HandlerAssumption
<1>5. TypeOK'
  BY <1>1, <1>2, <1>3, <1>4 DEF Inv, TypeOK
<1>6. owed' = {}
  BY <1>1 DEF Inv, OwedServed
<1>7. ReadyMeansDone' /\ BusyServed'
  BY <1>2, <1>6 DEF ReadyMeansDone, BusyServed
<1>8. RecordComplete'
  <2>1. SUFFICES ASSUME cmdReg'.cmd = "DataReg"
                 PROVE  transmitBuffer' = DataPrefix(7, cmdReg'.ch)
    BY DEF RecordComplete, DataPrefix
  <2>2. fetched.cmd = "DataReg" /\ fetched.ch = cmdReg'.ch
    BY <1>1, <1>2, <2>1 DEF Inv, LoadedCurrent
  <2>3. QED
    BY <1>1, <2>2 DEF Inv, BufferFilled
<1>9. /\ CallsCounted' /\ FetchedServed' /\ NotOvertaken' /\ BusyMeanwhile'
      /\ OwedServed' /\ LoadedCurrent' /\ BufferFilled'
  BY <1>1 DEF CallsCounted, FetchedServed, NotOvertaken, BusyMeanwhile,
     OwedServed, LoadedCurrent, BufferFilled, Filling, Working
<1>10. QED
  BY <1>5, <1>7, <1>8, <1>9 DEF Inv

-----------------------------------------------------------------------------
(* The theorems *)

\* Controller_Init establishes the invariant.
LEMMA InvInit == Init => Inv
<1> SUFFICES ASSUME Init PROVE Inv
  OBVIOUS
<1>1. TypeOK
  <2>1. cmdReg \in CmdRegs /\ fetched \in Commands /\ loaded \in CmdRegs
    BY DEF Init, InitReg, CommandOf, CmdRegs, Commands, ControllerCommands,
           ControllerErrors, Channels
  <2>2. transmitBuffer \in Seq(Fields \X (Channels \cup Params))
    <3> DEFINE S == Fields \X (Channels \cup Params)
    <3> HIDE DEF S
    <3>1. transmitBuffer \in Seq(S)
      BY DEF Init
    <3>2. QED
      BY <3>1 DEF S
  <2>3. handlers \in 0 .. MaxHandlers
    BY HandlerAssumption DEF Init
  <2>4. QED
    BY <2>1, <2>2, <2>3 DEF Init, TypeOK
<1>2. ReadyMeansDone /\ BusyServed /\ RecordComplete
  BY DEF Init, InitReg, ReadyMeansDone, BusyServed, RecordComplete
<1>3. /\ CallsCounted /\ FetchedServed /\ NotOvertaken /\ BusyMeanwhile
      /\ OwedServed /\ LoadedCurrent /\ BufferFilled
  BY DEF Init, CallsCounted, FetchedServed, NotOvertaken, BusyMeanwhile,
     OwedServed, LoadedCurrent, BufferFilled, Filling, Working
<1>4. QED
  BY <1>1, <1>2, <1>3 DEF Inv

\* Every handler call and every step of ConsumeCommand keeps it.
LEMMA InvNext == Inv /\ [Next]_vars => Inv'
<1> SUFFICES ASSUME Inv, [Next]_vars PROVE Inv'
  OBVIOUS
<1>1. CASE Controller_ReceiveHandler
  BY <1>1, ReceiveGood
<1>2. CASE Controller_RequestHandler
  BY <1>2, RequestGood
<1>3. CASE Controller_ConsumeCommand
  BY <1>3, FetchGood, WorkDoneGood, ResetBufferGood, WriteFieldGood,
     LoadCmdRegGood, StoreCmdRegGood DEF Controller_ConsumeCommand
<1>4. CASE UNCHANGED vars
  BY <1>4 DEF vars, Inv, TypeOK, ReadyMeansDone, CallsCounted, FetchedServed,
     BusyServed, NotOvertaken, BusyMeanwhile, OwedServed, LoadedCurrent,
     BufferFilled, RecordComplete, DataPrefix, FieldsOf
<1>5. QED
  BY <1>1, <1>2, <1>3, <1>4 DEF Next

\* The inductive invariant holds in every reachable state.
THEOREM Invariance == Spec => []Inv
BY InvInit, InvNext, PTL DEF Spec

\* Every variable keeps to its type: the buffer holds known fields only.
THEOREM TypeCorrect == Spec => []TypeOK
<1>1. Inv => TypeOK
  BY DEF Inv
<1>2. QED
  BY <1>1, Invariance, PTL

\* The ready bit of the register is set only when the command accepted last has
\* been carried out, and a busy register names what keeps it busy.
THEOREM ReadyTruthful == Spec => []ReadyMeansDone
<1>1. Inv => ReadyMeansDone
  BY DEF Inv
<1>2. QED
  BY <1>1, Invariance, PTL

\* Seven fields are the whole record.
LEMMA CompleteWhenReady == Inv => ReadyDataIsComplete
<1>1. SUFFICES ASSUME Inv, cmdReg.cmd = "DataReg", cmdReg.rw = "R", cmdReg.rdy
               PROVE  transmitBuffer = WholeRecord(CommandOf(cmdReg))
  BY DEF ReadyDataIsComplete
<1>2. transmitBuffer = DataPrefix(7, cmdReg.ch)
  BY <1>1 DEF Inv, RecordComplete
<1>3. WholeRecord(CommandOf(cmdReg)) = DataPrefix(7, cmdReg.ch)
  BY <1>1, FieldLists DEF WholeRecord, SourceOf, FieldsOf, CommandOf, DataPrefix
<1>4. QED
  BY <1>2, <1>3

\* A master that finds the register ready after asking for data reads the whole
\* record of the channel it asked for.
THEOREM DataComplete == Spec => []ReadyDataIsComplete
BY CompleteWhenReady, Invariance, PTL

\* No handler call and no step of ConsumeCommand replaces the command that keeps
\* the register busy.
THEOREM BusyKept == Spec => BusyCommandIsKept
<1> DEFINE Kept == ~cmdReg.rdy => cmdReg'.cmd = cmdReg.cmd /\ cmdReg'.ch = cmdReg.ch
<1>1. Inv /\ [Next]_vars => [Kept]_vars
  <2>1. SUFFICES ASSUME Inv, Next, ~cmdReg.rdy
                 PROVE  cmdReg'.cmd = cmdReg.cmd /\ cmdReg'.ch = cmdReg.ch
    OBVIOUS
  <2>2. cmdReg \in CmdRegs /\ cmdReg.cmd # "CmdReg"
    BY <2>1 DEF Inv, TypeOK, BusyServed, CommandOf, Served
  <2>3. CASE Controller_ReceiveHandler
    BY <2>1, <2>2, <2>3 DEF Controller_ReceiveHandler, ReadNewParamsFromMaster,
       RejectParams, RequestWrite, RequestPoll, AcceptCommand, IgnoreCommand,
       regVars, CmdRegs
  <2>4. CASE Controller_RequestHandler
    BY <2>2, <2>4 DEF Controller_RequestHandler, AnswerPoll, TransmitData,
       AnswerBusy, CmdRegs
  <2>5. CASE StoreCmdReg
    <3>1. loaded.cmd = cmdReg.cmd /\ loaded.ch = cmdReg.ch
      BY <2>1, <2>5 DEF Inv, LoadedCurrent, StoreCmdReg
    <3>2. loaded \in CmdRegs
      BY <2>1 DEF Inv, TypeOK
    <3>3. QED
      BY <2>5, <3>1, <3>2 DEF StoreCmdReg, CmdRegs
  <2>6. CASE Fetch \/ ResetChannel \/ FlushReadBuffer \/ ResetBuffer
                \/ WriteField \/ LoadCmdReg
    BY <2>6 DEF Fetch, ResetChannel, FlushReadBuffer, ResetBuffer, WriteField,
       LoadCmdReg, regVars
  <2>7. QED
    BY <2>1, <2>3, <2>4, <2>5, <2>6 DEF Next, Controller_ConsumeCommand
<1>2. QED
  BY <1>1, Invariance, PTL DEF Spec, BusyCommandIsKept

\* A reset or a data load that is under way is owed, so neither is carried out a
\* second time.
THEOREM OnceOnly == Spec => CarriedOutOnce
<1> DEFINE Once == ResetChannel \/ (WriteField /\ fetched.cmd = "DataReg")
                      => fetched \in owed
<1>1. Inv => Once
  <2>1. SUFFICES ASSUME Inv, ResetChannel \/ (WriteField /\ fetched.cmd = "DataReg")
                 PROVE  fetched \in owed
    OBVIOUS
  <2>2. pc = "reset" \/ (pc = "write" /\ fetched.cmd = "DataReg")
    BY <2>1 DEF ResetChannel, WriteField
  <2>3. ~cmdReg.rdy /\ CommandOf(cmdReg) = fetched
    BY <2>1, <2>2 DEF Inv, BusyMeanwhile, Filling
  <2>4. fetched.cmd \in {"Reset", "DataReg"}
    BY <2>1, <2>2 DEF Inv, FetchedServed
  <2>5. cmdReg.cmd = fetched.cmd
    BY <2>3 DEF CommandOf
  <2>6. QED
    BY <2>1, <2>2, <2>3, <2>4, <2>5 DEF Inv, ReadyMeansDone
<1>2. QED
  BY <1>1, Invariance, PTL DEF CarriedOutOnce


-----------------------------------------------------------------------------
(* The main program and its master: the inductive invariant *)

MasterTypeOK ==
    /\ at \in {"onReceive", "controller", "params", "loop"}
    /\ task \in Tasks
    /\ mpc \in Reads \cup Writes \cup {"idle"}
    /\ troubles \in Nat
    /\ served \in BOOLEAN /\ misled \in BOOLEAN

\* Before Controller_Init has run the register is busy, and before the receive
\* handler is registered it is as it was after power-up.
Booting ==
    /\ at # "loop" => pc = "idle"
    /\ at \in {"onReceive", "controller"} =>
          /\ ~cmdReg.rdy /\ transmitBuffer = <<>> /\ handlers = 0
          /\ fetched = CommandOf(InitReg) /\ loaded = InitReg
    /\ at = "onReceive" => cmdReg.cmd = "CmdReg" /\ ~cmdRegReadRequested

\* From then on the controller keeps its own invariant.
Started == at \in {"params", "loop"} => Inv

\* A reset and a data load keep the register busy until they are stored as done.
BusyUntilStored ==
    pc \in {"ready", "store"} /\ fetched.cmd \in {"Reset", "DataReg"} =>
        ~cmdReg.rdy /\ CommandOf(cmdReg) = fetched

\* SET_RDY_STATUS may undo SET_READ_MODE, but nothing undoes a wait for parameters.
WaitIsStored ==
    pc = "store" /\ AwaitsParams => loaded.cmd = "ParamsReg" /\ loaded.rw = "W"

\* No command has come since the start: there is nothing to read.
Blank == transmitBuffer = <<>> /\ pc = "idle" /\ cmdReg.cmd = "CmdReg"

\* A poll gets the register, or nothing, unless the controller waits for parameters.
PollAnswered ==
    mpc \in {"grant", "status"} /\ ~misled =>
        cmdRegReadRequested \/ AwaitsParams \/ Blank

\* The register waits for a command, or holds one that is none.
NotTaken == cmdReg.cmd \in {"CmdReg", "Unknown"} /\ pc = "idle"

\* It holds the task, which is served or owed, and ConsumeCommand works on it.
Taken ==
    /\ CommandOf(cmdReg) = task
    /\ served \/ task \in owed
    /\ pc # "idle" => fetched = task
    /\ pc = "store" => CommandOf(loaded) = task

\* After a grant the register shows the task only if it was accepted since then.
TaskTracked ==
    /\ mpc = "params" => IsParamsWrite(task)
    /\ mpc \in {"command", "askStatus", "status"} /\ ~misled /\ ~IsParamsWrite(task) =>
           NotTaken \/ Taken

\* The register shows the data to be read, unless it was lost in a restart.
DataShown ==
    mpc = "read" /\ ~misled =>
        /\ IsDataRead(task) /\ served /\ ~cmdRegReadRequested
        /\ task.cmd = "DataReg" => Blank \/ (CommandOf(cmdReg) = task /\ cmdReg.rdy)

LInv ==
    /\ TypeOK
    /\ MasterTypeOK
    /\ Booting
    /\ Started
    /\ BusyUntilStored
    /\ WaitIsStored
    /\ PollAnswered
    /\ TaskTracked
    /\ DataShown

-----------------------------------------------------------------------------
(* What a step is to the controller *)

\* The receive handler with a command, and with the parameters it waits for.
Hears(new) == at # "onReceive" /\ Interrupts /\ UNCHANGED mainVars /\ ReceiveCommand(new)

HearsParams ==
    /\ at # "onReceive" /\ Interrupts /\ UNCHANGED mainVars
    /\ ReadNewParamsFromMaster /\ config' = NewParams

Forgets ==
    /\ cmdReg' = [InitReg EXCEPT !.rdy = FALSE] /\ cmdRegReadRequested' = FALSE
    /\ transmitBuffer' = <<>> /\ config' = ZeroParams
    /\ pc' = "idle" /\ fetched' = CommandOf(InitReg) /\ loaded' = InitReg
    /\ handlers' = 0 /\ reply' = "nothing"
    /\ owed' = {} /\ armed' = FALSE
    /\ at' = "onReceive"

ControllerStep ==
    \/ Setup
    \/ Loop
    \/ UNCHANGED at /\ \E new \in Commands : Hears(new)
    \/ UNCHANGED at /\ HearsParams
    \/ UNCHANGED at /\ Controller_RequestHandler
    \/ Forgets
    \/ UNCHANGED <<at, vars>>

\* What the master writes are commands.
LEMMA MessagesAreCommands ==
    ASSUME task \in Tasks
    PROVE  task \in Served /\ Message \in Commands /\ EmptyWrite \in Commands
<1>1. task \in Served /\ task \in Commands
  BY TaskAssumption DEF Served
<1>2. Announcement \in Commands /\ Poll \in Commands /\ EmptyWrite \in Commands
  BY DEF Announcement, Poll, EmptyWrite, Commands, ControllerCommands, Channels
<1>3. QED
  BY <1>1, <1>2 DEF Message

\* A message is heard as a command or as the parameters, or not at all.
LEMMA ReceptionOutcome ==
    ASSUME MasterTypeOK,
           \/ Receive(IF mpc = "params" THEN ReceiveParams ELSE ReceiveCommand(Message))
           \/ Receive(ReceiveCommand(EmptyWrite))
    PROVE  \/ at = "onReceive" /\ UNCHANGED vars
           \/ mpc # "params" /\ Hears(Message)
           \/ mpc = "params" /\ (\E new \in Commands : Hears(new))
           \/ mpc = "params" /\ HearsParams
           \/ Hears(EmptyWrite)
<1>1. CASE Receive(IF mpc = "params" THEN ReceiveParams ELSE ReceiveCommand(Message))
  <2>1. CASE mpc = "params"
    BY <1>1, <2>1 DEF Receive, ReceiveParams, Hears, HearsParams
  <2>2. CASE mpc # "params"
    BY <1>1, <2>2 DEF Receive, Hears
  <2>3. QED
    BY <2>1, <2>2
<1>2. CASE Receive(ReceiveCommand(EmptyWrite))
  BY <1>2 DEF Receive, Hears
<1>3. QED
  BY <1>1, <1>2

LEMMA StepOfController == MasterTypeOK /\ [LNext]_lvars => ControllerStep
<1> SUFFICES ASSUME MasterTypeOK, [LNext]_lvars PROVE ControllerStep
  OBVIOUS
<1>1. task \in Tasks
  BY DEF MasterTypeOK
<1>2. CASE MainProgram
  BY <1>2 DEF MainProgram, ControllerStep
<1>3. CASE (\E c \in Tasks : Begin(c)) \/ MasterRestarts \/ UNCHANGED lvars
  BY <1>3 DEF Begin, MasterRestarts, lvars, ControllerStep
<1>4. CASE Write \/ WriteFails
  <2>1. UNCHANGED at
    BY <1>4 DEF Write, WriteFails
  <2>2. \/ Receive(IF mpc = "params" THEN ReceiveParams ELSE ReceiveCommand(Message))
        \/ Receive(ReceiveCommand(EmptyWrite))
        \/ UNCHANGED vars
    BY <1>4 DEF Write, WriteFails
  <2>3. \/ UNCHANGED vars
        \/ \E new \in Commands : Hears(new)
        \/ HearsParams
    BY <1>1, <2>2, MessagesAreCommands, ReceptionOutcome
  <2>4. QED
    BY <2>1, <2>3 DEF ControllerStep
<1>5. CASE ReadStatus \/ ReadData \/ ReadFails
  BY <1>5 DEF ReadStatus, ReadData, ReadFails, ControllerStep
<1>6. CASE LifeTesterRestarts
  BY <1>6 DEF LifeTesterRestarts, ControllerStep, Forgets
<1>7. QED
  BY <1>2, <1>3, <1>4, <1>5, <1>6 DEF LNext, Transfer

\* For the controller these are calls of its handlers.
LEMMA HeardIsReceived ==
    ASSUME HearsParams \/ \E new \in Commands : Hears(new)
    PROVE  Controller_ReceiveHandler
BY DEF Hears, HearsParams, ReceiveCommand, Controller_ReceiveHandler

-----------------------------------------------------------------------------
(* The controller, from power-up on *)

ControllerInv ==
    /\ TypeOK
    /\ at \in {"onReceive", "controller", "params", "loop"}
    /\ Booting
    /\ Started
    /\ BusyUntilStored
    /\ WaitIsStored

\* A controller that has just been initialised, whatever was read from it before.
Initialised ==
    /\ cmdReg = InitReg /\ cmdRegReadRequested = FALSE /\ transmitBuffer = <<>>
    /\ config \in Params /\ pc = "idle"
    /\ fetched = CommandOf(InitReg) /\ loaded = InitReg /\ handlers = 0
    /\ reply \in {"nothing", "status", "data"}
    /\ owed = {} /\ armed = FALSE

LEMMA InitialisedGood == Initialised => Inv
<1> SUFFICES ASSUME Initialised PROVE Inv
  OBVIOUS
<1> USE DEF Initialised
<1>1. TypeOK
  <2>1. cmdReg \in CmdRegs /\ fetched \in Commands /\ loaded \in CmdRegs
    BY DEF InitReg, CommandOf, CmdRegs, Commands, ControllerCommands,
           ControllerErrors, Channels
  <2>2. transmitBuffer \in Seq(Fields \X (Channels \cup Params))
    <3> DEFINE S == Fields \X (Channels \cup Params)
    <3> HIDE DEF S
    <3>1. transmitBuffer \in Seq(S)
      OBVIOUS
    <3>2. QED
      BY <3>1 DEF S
  <2>3. handlers \in 0 .. MaxHandlers
    BY HandlerAssumption
  <2>4. QED
    BY <2>1, <2>2, <2>3 DEF TypeOK
<1>2. ReadyMeansDone /\ BusyServed /\ RecordComplete
  BY DEF InitReg, ReadyMeansDone, BusyServed, RecordComplete
<1>3. /\ CallsCounted /\ FetchedServed /\ NotOvertaken /\ BusyMeanwhile
      /\ OwedServed /\ LoadedCurrent /\ BufferFilled
  BY DEF CallsCounted, FetchedServed, NotOvertaken, BusyMeanwhile,
     OwedServed, LoadedCurrent, BufferFilled, Filling, Working
<1>4. QED
  BY <1>1, <1>2, <1>3 DEF Inv

LEMMA InitialisedGoodNext == Initialised' => Inv'
BY InitialisedGood, PTL

\* Config_InitParams changes the parameters outside of ConsumeCommand.
LEMMA ConfigGood ==
    ASSUME Inv, pc = "idle", config' \in Params,
           UNCHANGED <<cmdReg, cmdRegReadRequested, transmitBuffer, pc, fetched,
                       loaded, handlers, reply, owed, armed>>
    PROVE  Inv'
<1>1. TypeOK'
  BY DEF Inv, TypeOK
<1>2. ReadyMeansDone' /\ BusyServed' /\ RecordComplete'
  BY DEF Inv, ReadyMeansDone, BusyServed, RecordComplete, DataPrefix
<1>3. /\ CallsCounted' /\ FetchedServed' /\ NotOvertaken' /\ BusyMeanwhile'
      /\ OwedServed' /\ LoadedCurrent' /\ BufferFilled'
  BY DEF Inv, CallsCounted, FetchedServed, NotOvertaken, BusyMeanwhile,
     OwedServed, LoadedCurrent, BufferFilled, Filling, Working
<1>4. QED
  BY <1>1, <1>2, <1>3 DEF Inv

\* A command accepted is in the register, busy or not.
LEMMA AcceptedShown ==
    ASSUME NEW reg \in CmdRegs, NEW new \in Commands
    PROVE  /\ UpdateStatusBits(LoadNewCmdToReg(reg, new), new) \in CmdRegs
           /\ CommandOf(UpdateStatusBits(LoadNewCmdToReg(reg, new), new)) = new
           /\ ~reg.rdy => ~UpdateStatusBits(LoadNewCmdToReg(reg, new), new).rdy
<1> DEFINE l == LoadNewCmdToReg(reg, new)
           r == UpdateStatusBits(l, new)
<1>1. /\ l \in CmdRegs /\ l.rdy = reg.rdy
      /\ l.cmd = new.cmd /\ l.rw = new.rw /\ l.ch = new.ch
  BY DEF LoadNewCmdToReg, CmdRegs, Commands, ControllerErrors
<1> HIDE DEF l
<1>2. \/ r = l \/ r = [l EXCEPT !.rdy = FALSE] \/ r = [l EXCEPT !.err = "UnkownCmdError"]
  BY DEF UpdateStatusBits
<1> HIDE DEF r
<1>3. r \in CmdRegs /\ r.cmd = l.cmd /\ r.rw = l.rw /\ r.ch = l.ch
  BY <1>1, <1>2 DEF CmdRegs, ControllerErrors
<1>4. ~reg.rdy => ~r.rdy
  <2>1. reg.rdy = FALSE => r.rdy = FALSE
    BY <1>1, <1>2 DEF CmdRegs
  <2>2. reg.rdy \in BOOLEAN /\ r.rdy \in BOOLEAN
    BY <1>3 DEF CmdRegs
  <2>3. QED
    BY <2>1, <2>2
<1>5. CommandOf(r) = new
  BY <1>1, <1>3 DEF CommandOf, Commands
<1>6. QED
  BY <1>3, <1>4, <1>5 DEF r, l

\* While the LifeTester boots, a handler leaves everything but the register and
\* the request for a poll as it is, and the register busy.
LEMMA HandlerWhileBooting ==
    ASSUME ControllerInv, at \in {"onReceive", "controller"},
           Controller_ReceiveHandler \/ Controller_RequestHandler
    PROVE  /\ TypeOK' /\ ~cmdReg'.rdy
           /\ pc' = "idle" /\ transmitBuffer' = <<>> /\ handlers' = 0
           /\ fetched' = CommandOf(InitReg) /\ loaded' = InitReg
<1>1. /\ pc = "idle" /\ ~cmdReg.rdy /\ transmitBuffer = <<>> /\ handlers = 0
      /\ fetched = CommandOf(InitReg) /\ loaded = InitReg /\ TypeOK
  BY DEF ControllerInv, Booting
<1>2. handlers' = handlers /\ UNCHANGED mainVars
  BY <1>1 DEF Controller_ReceiveHandler, Controller_RequestHandler, Interrupts
<1>3. /\ cmdReg' \in CmdRegs /\ ~cmdReg'.rdy /\ config' \in Params
      /\ owed' \in SUBSET Commands /\ armed' \in BOOLEAN
      /\ cmdRegReadRequested' \in BOOLEAN /\ reply' \in {"nothing", "status", "data"}
  <2>1. CASE ReadNewParamsFromMaster \/ RejectParams
    BY <1>1, <2>1 DEF ReadNewParamsFromMaster, RejectParams, TypeOK, CmdRegs,
                      ControllerErrors
  <2>2. ASSUME NEW new \in Commands, RequestWrite(new) \/ RequestPoll(new) \/ IgnoreCommand(new)
        PROVE  <1>3!:
    BY <1>1, <2>2 DEF RequestWrite, RequestPoll, IgnoreCommand, regVars, TypeOK, CmdRegs,
                      ControllerErrors
  <2>3. ASSUME NEW new \in Commands, AcceptCommand(new)
        PROVE  <1>3!:
    <3>1. cmdReg' \in CmdRegs /\ ~cmdReg'.rdy
      BY <1>1, <2>3, AcceptedShown DEF AcceptCommand, TypeOK
    <3>2. QED
      BY <1>1, <2>3, <3>1 DEF AcceptCommand, TypeOK
  <2>4. CASE Controller_RequestHandler
    BY <1>1, <2>4 DEF Controller_RequestHandler, AnswerPoll, TransmitData, AnswerBusy,
                      TypeOK, CmdRegs, ControllerErrors
  <2>5. QED
    BY <2>1, <2>2, <2>3, <2>4 DEF Controller_ReceiveHandler
<1>4. QED
  BY <1>1, <1>2, <1>3 DEF TypeOK, mainVars

\* What a handler leaves alone while ConsumeCommand works.
LEMMA HandlerKeepsWork ==
    ASSUME Inv, BusyUntilStored, WaitIsStored,
           Controller_ReceiveHandler \/ Controller_RequestHandler
    PROVE  BusyUntilStored' /\ WaitIsStored'
<1>1. UNCHANGED <<transmitBuffer, pc, fetched, loaded>> /\ Interrupts /\ cmdReg \in CmdRegs
  BY DEF Controller_ReceiveHandler, Controller_RequestHandler, mainVars, Inv, TypeOK
<1>2. pc # "idle" => cmdReg.cmd = fetched.cmd /\ cmdReg.ch = fetched.ch /\ cmdReg.cmd # "CmdReg"
  BY <1>1, FirstCall
<1> DEFINE Same == /\ cmdReg'.cmd = cmdReg.cmd /\ cmdReg'.ch = cmdReg.ch
                   /\ cmdReg'.rdy = cmdReg.rdy
                   /\ cmdReg'.rw = cmdReg.rw \/ (AwaitsParams /\ cmdReg'.rw = "R")
           Announced == cmdReg.rdy /\ cmdReg'.cmd = "CmdReg"
<1>3. ASSUME pc \in {"ready", "store"}
      PROVE  Same \/ Announced
  <2>1. CASE ReadNewParamsFromMaster \/ RejectParams
    BY <1>1, <2>1 DEF ReadNewParamsFromMaster, RejectParams, CmdRegs
  <2>2. ASSUME NEW new \in Commands, RequestWrite(new)
        PROVE  Same \/ Announced
    <3>1. CASE cmdReg.rdy
      BY <1>1, <2>2, <3>1 DEF RequestWrite, LoadNewCmdToReg, CmdRegs
    <3>2. CASE ~cmdReg.rdy
      BY <1>1, <2>2, <3>2 DEF RequestWrite, CmdRegs
    <3>3. QED
      BY <3>1, <3>2
  <2>3. ASSUME NEW new \in Commands, RequestPoll(new) \/ IgnoreCommand(new)
        PROVE  Same
    BY <2>3 DEF RequestPoll, IgnoreCommand, regVars
  <2>4. ASSUME NEW new \in Commands, AcceptCommand(new)
        PROVE  FALSE
    BY <1>2, <1>3, <2>4 DEF AcceptCommand
  <2>5. CASE Controller_RequestHandler
    BY <1>1, <2>5 DEF Controller_RequestHandler, AnswerPoll, TransmitData, AnswerBusy,
                      CmdRegs
  <2> HIDE DEF Same, Announced
  <2>6. QED
    BY <2>1, <2>2, <2>3, <2>4, <2>5 DEF Controller_ReceiveHandler
<1>4. BusyUntilStored'
  <2>1. SUFFICES ASSUME pc \in {"ready", "store"}, fetched.cmd \in {"Reset", "DataReg"}
                 PROVE  ~cmdReg'.rdy /\ CommandOf(cmdReg') = fetched
    BY <1>1 DEF BusyUntilStored
  <2>2. ~cmdReg.rdy /\ CommandOf(cmdReg) = fetched
    BY <2>1 DEF BusyUntilStored
  <2>3. cmdReg'.cmd = cmdReg.cmd /\ cmdReg'.ch = cmdReg.ch /\ cmdReg'.rdy = cmdReg.rdy
    BY <1>3, <2>1, <2>2
  <2>4. ~AwaitsParams
    BY <2>1, <2>2 DEF AwaitsParams, CommandOf
  <2>5. cmdReg'.rw = cmdReg.rw
    BY <1>3, <2>1, <2>2, <2>4
  <2>6. QED
    BY <2>2, <2>3, <2>5 DEF CommandOf
<1>5. WaitIsStored'
  BY <1>1, <1>3 DEF WaitIsStored, AwaitsParams
<1>6. QED
  BY <1>4, <1>5

\* ConsumeCommand itself.
LEMMA WorkKeepsWork ==
    ASSUME Inv, BusyUntilStored, WaitIsStored, Controller_ConsumeCommand
    PROVE  BusyUntilStored' /\ WaitIsStored'
<1>1. CASE Fetch
  BY <1>1 DEF Fetch, BusyUntilStored, WaitIsStored, Dispatch
<1>2. CASE ResetChannel \/ FlushReadBuffer \/ ResetBuffer \/ WriteField
  <2>1. UNCHANGED <<cmdReg, fetched, loaded>> /\ pc' # "store"
    BY <1>2 DEF ResetChannel, FlushReadBuffer, ResetBuffer, WriteField, regVars
  <2>2. pc' = "ready" /\ fetched.cmd \in {"Reset", "DataReg"} =>
           pc = "reset" \/ (pc = "write" /\ fetched.cmd = "DataReg")
    BY <1>2 DEF ResetChannel, FlushReadBuffer, ResetBuffer, WriteField, Inv, FetchedServed,
                Filling
  <2>3. pc' = "ready" /\ fetched.cmd \in {"Reset", "DataReg"} =>
           ~cmdReg.rdy /\ CommandOf(cmdReg) = fetched
    BY <2>2 DEF Inv, BusyMeanwhile, Filling
  <2>4. QED
    BY <2>1, <2>3 DEF BusyUntilStored, WaitIsStored
<1>3. CASE LoadCmdReg
  BY <1>3 DEF LoadCmdReg, BusyUntilStored, WaitIsStored, AwaitsParams, regVars
<1>4. CASE StoreCmdReg
  BY <1>4 DEF StoreCmdReg, BusyUntilStored, WaitIsStored
<1>5. QED
  BY <1>1, <1>2, <1>3, <1>4 DEF Controller_ConsumeCommand

LEMMA HandlerKeeps ==
    ASSUME ControllerInv, UNCHANGED at,
           \/ Controller_RequestHandler
           \/ at # "onReceive" /\ Controller_ReceiveHandler
    PROVE  ControllerInv'
<1>1. CASE at \in {"onReceive", "controller"}
  <2>1. /\ TypeOK' /\ ~cmdReg'.rdy
        /\ pc' = "idle" /\ transmitBuffer' = <<>> /\ handlers' = 0
        /\ fetched' = CommandOf(InitReg) /\ loaded' = InitReg
    BY <1>1, HandlerWhileBooting
  <2>2. at = "onReceive" => cmdReg'.cmd = "CmdReg" /\ ~cmdRegReadRequested'
    <3>1. SUFFICES ASSUME at = "onReceive"
                   PROVE  cmdReg'.cmd = "CmdReg" /\ ~cmdRegReadRequested'
      OBVIOUS
    <3>2. cmdReg.cmd = "CmdReg" /\ ~cmdRegReadRequested /\ cmdReg \in CmdRegs
      BY <3>1 DEF ControllerInv, Booting, TypeOK
    <3>3. QED
      BY <3>1, <3>2 DEF Controller_RequestHandler, AnswerPoll, TransmitData, AnswerBusy,
                        CmdRegs
  <2>3. QED
    BY <1>1, <2>1, <2>2
       DEF ControllerInv, Booting, Started, BusyUntilStored, WaitIsStored
<1>2. CASE at \in {"params", "loop"}
  <2>1. Inv
    BY <1>2 DEF ControllerInv, Started
  <2>2. Inv'
    BY <2>1, ReceiveGood, RequestGood
  <2>3. BusyUntilStored' /\ WaitIsStored'
    BY <2>1, HandlerKeepsWork DEF ControllerInv
  <2>4. pc' = pc
    BY DEF Controller_RequestHandler, Controller_ReceiveHandler, mainVars
  <2>5. QED
    BY <1>2, <2>2, <2>3, <2>4 DEF ControllerInv, Booting, Started, Inv
<1>3. QED
  BY <1>1, <1>2 DEF ControllerInv

LEMMA SetupKeeps == ASSUME ControllerInv, Setup PROVE ControllerInv'
<1>1. at # "loop" /\ pc = "idle"
  BY DEF Setup, ControllerInv, Booting
<1>2. CASE at = "onReceive"
  BY <1>1, <1>2 DEF Setup, vars, ControllerInv, Booting, Started, BusyUntilStored,
                    WaitIsStored, TypeOK
<1>3. CASE at = "controller"
  <2>1. Initialised' /\ at' = "params"
    BY <1>3 DEF Setup, Initialised, ControllerInv, Booting, TypeOK
  <2>2. Inv'
    BY <2>1, InitialisedGoodNext
  <2>3. pc' = "idle"
    BY <2>1 DEF Initialised
  <2>4. QED
    BY <2>1, <2>2, <2>3
       DEF ControllerInv, Booting, Started, BusyUntilStored, WaitIsStored, Inv
<1>4. CASE at = "params"
  <2>1. /\ UNCHANGED <<cmdReg, cmdRegReadRequested, transmitBuffer, pc, fetched,
                       loaded, handlers, reply, owed, armed>>
        /\ config' \in Params /\ at' = "loop"
    BY <1>4, ParamsAssumption DEF Setup
  <2>2. Inv'
    BY <1>1, <1>4, <2>1, ConfigGood DEF ControllerInv, Started
  <2>3. QED
    BY <1>1, <2>1, <2>2
       DEF ControllerInv, Booting, Started, BusyUntilStored, WaitIsStored, Inv
<1>5. QED
  BY <1>1, <1>2, <1>3, <1>4 DEF Setup

LEMMA LoopKeeps == ASSUME ControllerInv, Loop PROVE ControllerInv'
<1>1. at = "loop" /\ at' = "loop" /\ Controller_ConsumeCommand /\ Inv
  BY DEF Loop, ControllerInv, Started
<1>2. Inv'
  BY <1>1, InvNext DEF Next
<1>3. BusyUntilStored' /\ WaitIsStored'
  BY <1>1, WorkKeepsWork DEF ControllerInv
<1>4. QED
  BY <1>1, <1>2, <1>3 DEF ControllerInv, Booting, Started, Inv

LEMMA ForgetsKeeps == ASSUME Forgets PROVE ControllerInv'
<1>1. TypeOK'
  <2>1. cmdReg' \in CmdRegs /\ fetched' \in Commands /\ loaded' \in CmdRegs
    BY DEF Forgets, InitReg, CommandOf, CmdRegs, Commands, ControllerCommands,
           ControllerErrors, Channels
  <2>2. transmitBuffer' \in Seq(Fields \X (Channels \cup Params))
    <3> DEFINE S == Fields \X (Channels \cup Params)
    <3> HIDE DEF S
    <3>1. transmitBuffer' \in Seq(S)
      BY DEF Forgets
    <3>2. QED
      BY <3>1 DEF S
  <2>3. handlers' \in 0 .. MaxHandlers
    BY HandlerAssumption DEF Forgets
  <2>4. QED
    BY <2>1, <2>2, <2>3, ParamsAssumption DEF Forgets, TypeOK
<1>2. QED
  BY <1>1 DEF Forgets, ControllerInv, Booting, Started, BusyUntilStored, WaitIsStored,
              InitReg

LEMMA ControllerKeeps == ControllerInv /\ ControllerStep => ControllerInv'
<1> SUFFICES ASSUME ControllerInv, ControllerStep PROVE ControllerInv'
  OBVIOUS
<1>1. CASE UNCHANGED <<at, vars>>
  <2>1. Inv => Inv'
    BY <1>1, InvNext DEF vars
  <2>2. QED
    BY <1>1, <2>1 DEF vars, ControllerInv, Booting, Started, BusyUntilStored,
                      WaitIsStored, AwaitsParams, TypeOK
<1>2. ASSUME UNCHANGED at, HearsParams \/ \E new \in Commands : Hears(new)
      PROVE  ControllerInv'
  BY <1>2, HeardIsReceived, HandlerKeeps DEF Hears, HearsParams
<1>3. ASSUME UNCHANGED at, Controller_RequestHandler PROVE ControllerInv'
  BY <1>3, HandlerKeeps
<1>4. QED
  BY <1>1, <1>2, <1>3, SetupKeeps, LoopKeeps, ForgetsKeeps DEF ControllerStep

LEMMA ControllerInvInit == LInit => ControllerInv
<1> SUFFICES ASSUME LInit PROVE ControllerInv
  OBVIOUS
<1> USE DEF LInit, PowerUp
<1>1. TypeOK
  <2>1. cmdReg \in CmdRegs /\ fetched \in Commands /\ loaded \in CmdRegs
    BY DEF InitReg, CommandOf, CmdRegs, Commands, ControllerCommands,
           ControllerErrors, Channels
  <2>2. transmitBuffer \in Seq(Fields \X (Channels \cup Params))
    <3> DEFINE S == Fields \X (Channels \cup Params)
    <3> HIDE DEF S
    <3>1. transmitBuffer \in Seq(S)
      OBVIOUS
    <3>2. QED
      BY <3>1 DEF S
  <2>3. handlers \in 0 .. MaxHandlers
    BY HandlerAssumption
  <2>4. QED
    BY <2>1, <2>2, <2>3, ParamsAssumption DEF TypeOK
<1>2. QED
  BY <1>1 DEF ControllerInv, Booting, Started, BusyUntilStored, WaitIsStored, InitReg

-----------------------------------------------------------------------------
(* What the master knows *)

\* What a step of ConsumeCommand leaves alone.
LEMMA WorkLeaves ==
    ASSUME Controller_ConsumeCommand, TypeOK, WaitIsStored
    PROVE  /\ cmdRegReadRequested' = cmdRegReadRequested
           /\ AwaitsParams => AwaitsParams'
           /\ ~Blank /\ ~NotTaken
           /\ pc = "idle" => Dispatch(cmdReg) # "idle"
<1>1. CASE StoreCmdReg
  <2>1. cmdReg' = [loaded EXCEPT !.rdy = TRUE] /\ loaded \in CmdRegs /\ pc = "store"
    BY <1>1 DEF StoreCmdReg, TypeOK
  <2>2. cmdReg'.cmd = loaded.cmd /\ cmdReg'.rw = loaded.rw
    BY <2>1 DEF CmdRegs
  <2>3. AwaitsParams => AwaitsParams'
    BY <2>1, <2>2 DEF WaitIsStored, AwaitsParams
  <2>4. cmdRegReadRequested' = cmdRegReadRequested
    BY <1>1 DEF StoreCmdReg
  <2>5. QED
    BY <2>1, <2>3, <2>4 DEF Blank, NotTaken
<1>2. CASE Fetch
  BY <1>2 DEF Fetch, Dispatch, regVars, AwaitsParams, Blank, NotTaken
<1>3. CASE ResetChannel \/ FlushReadBuffer \/ ResetBuffer \/ WriteField \/ LoadCmdReg
  BY <1>3 DEF ResetChannel, FlushReadBuffer, ResetBuffer, WriteField, LoadCmdReg,
              regVars, AwaitsParams, Blank, NotTaken
<1>4. QED
  BY <1>1, <1>2, <1>3 DEF Controller_ConsumeCommand

\* What is taken is worked on until it is served.
LEMMA WorkTracks ==
    ASSUME TypeOK, Controller_ConsumeCommand, Taken, task' = task, served => served',
           task \in owed /\ task \notin owed' => served'
    PROVE  Taken'
<1>1. served' \/ task' \in owed'
  BY DEF Taken
<1>2. CASE Fetch
  BY <1>1, <1>2 DEF Fetch, Taken, Dispatch, regVars
<1>3. CASE ResetChannel \/ FlushReadBuffer \/ ResetBuffer \/ WriteField
  BY <1>1, <1>3 DEF ResetChannel, FlushReadBuffer, ResetBuffer, WriteField, Taken, regVars
<1>4. CASE LoadCmdReg
  BY <1>1, <1>4 DEF LoadCmdReg, Taken, regVars
<1>5. CASE StoreCmdReg
  <2>1. cmdReg' = [loaded EXCEPT !.rdy = TRUE] /\ loaded \in CmdRegs /\ pc = "store"
        /\ pc' = "idle"
    BY <1>5 DEF StoreCmdReg, TypeOK
  <2>2. CommandOf(cmdReg') = CommandOf(loaded)
    BY <2>1 DEF CommandOf, CmdRegs
  <2>3. QED
    BY <1>1, <2>1, <2>2 DEF Taken
<1>6. QED
  BY <1>2, <1>3, <1>4, <1>5 DEF Controller_ConsumeCommand

\* Nothing but the task is taken.
LEMMA HearingTracks ==
    ASSUME TypeOK, NotTaken \/ Taken, task \in Served, ~IsParamsWrite(task),
           NEW new \in {task, Poll, EmptyWrite}, Hears(new),
           task' = task, served => served'
    PROVE  NotTaken' \/ Taken'
<1>1. /\ cmdReg \in CmdRegs /\ task \in Commands /\ new \in Commands
      /\ task.cmd \in {"Reset", "ParamsReg", "DataReg"}
      /\ UNCHANGED <<pc, fetched, loaded>>
  <2>1. Poll \in Commands /\ EmptyWrite \in Commands
    BY DEF Poll, EmptyWrite, Commands, ControllerCommands, Channels
  <2>2. QED
    BY <2>1 DEF TypeOK, Served, Hears, mainVars
<1>2. ~AwaitsParams
  BY DEF NotTaken, Taken, AwaitsParams, IsParamsWrite, CommandOf
<1>3. ~RequestWrite(new)
  BY <1>1 DEF RequestWrite, Poll, EmptyWrite
<1>4. CASE RequestPoll(new) \/ IgnoreCommand(new)
  BY <1>1, <1>4 DEF RequestPoll, IgnoreCommand, regVars, NotTaken, Taken
<1>5. CASE AcceptCommand(new)
  <2>1. cmdReg.cmd = "CmdReg" /\ new.cmd # "CmdReg" /\ owed' = {new} \cap Served
        /\ CommandOf(cmdReg') = new
    BY <1>1, <1>5, AcceptedShown DEF AcceptCommand
  <2>2. pc = "idle"
    BY <1>1, <2>1 DEF NotTaken, Taken, CommandOf
  <2>3. CASE new = task
    BY <1>1, <2>1, <2>2, <2>3 DEF Taken
  <2>4. CASE new = EmptyWrite
    BY <1>1, <2>1, <2>2, <2>4 DEF NotTaken, CommandOf, EmptyWrite
  <2>5. QED
    BY <2>1, <2>3, <2>4 DEF Poll
<1>6. QED
  BY <1>2, <1>3, <1>4, <1>5 DEF Hears, ReceiveCommand

\* A read changes the error of the register at most.
LEMMA ReadingLeaves ==
    ASSUME TypeOK, Controller_RequestHandler
    PROVE  /\ CommandOf(cmdReg') = CommandOf(cmdReg) /\ cmdReg'.rdy = cmdReg.rdy
           /\ UNCHANGED <<transmitBuffer, pc, fetched, loaded, owed, config>>
           /\ cmdRegReadRequested => reply' = "status"
           /\ ~cmdRegReadRequested' 
           /\ reply' = "data" => ~cmdRegReadRequested /\ transmitBuffer # <<>>
           /\ reply' = "status" => cmdReg' = cmdReg
<1>1. cmdReg \in CmdRegs /\ cmdRegReadRequested \in BOOLEAN
      /\ UNCHANGED <<transmitBuffer, pc, fetched, loaded>>
  BY DEF TypeOK, Controller_RequestHandler, mainVars
<1>2. CASE AnswerPoll
  BY <1>1, <1>2 DEF AnswerPoll
<1>3. CASE TransmitData
  BY <1>1, <1>3 DEF TransmitData
<1>4. CASE AnswerBusy
  <2>1. CommandOf(cmdReg') = CommandOf(cmdReg) /\ cmdReg'.rdy = cmdReg.rdy
    BY <1>1, <1>4 DEF AnswerBusy, CommandOf, CmdRegs
  <2>2. QED
    BY <1>1, <1>4, <2>1 DEF AnswerBusy
<1>5. QED
  BY <1>2, <1>3, <1>4 DEF Controller_RequestHandler

LEMMA LInvParts == LInv => ControllerInv
BY DEF LInv, ControllerInv, MasterTypeOK

LEMMA MasterTypeNext == MasterTypeOK /\ [LNext]_lvars => MasterTypeOK'
<1> SUFFICES ASSUME MasterTypeOK, [LNext]_lvars PROVE MasterTypeOK'
  OBVIOUS
<1> USE DEF MasterTypeOK, Reads, Writes, Trouble
<1>1. CASE MainProgram
  <2>1. at' \in {"onReceive", "controller", "params", "loop"}
    BY <1>1 DEF MainProgram, Setup, Loop
  <2>2. served' \in BOOLEAN
    BY <1>1 DEF MainProgram
  <2>3. QED
    BY <1>1, <2>1, <2>2 DEF MainProgram
<1>2. ASSUME NEW d \in Tasks, Begin(d) PROVE MasterTypeOK'
  BY <1>2 DEF Begin
<1>3. CASE Write
  <2>1. mpc' \in Reads \cup Writes
    BY <1>3 DEF Write, AfterWrite
  <2>2. served' \in BOOLEAN
    BY <1>3 DEF Write
  <2>3. QED
    BY <1>3, <2>1, <2>2 DEF Write
<1>4. CASE ReadStatus
  <2>1. \A reg : /\ AfterGrant(reg) \in {"command", "announce"}
                 /\ AfterStatus(reg) \in {"read", "idle", "askStatus", "announce"}
    BY DEF AfterGrant, AfterStatus
  <2>2. mpc' \in Reads \cup Writes \cup {"idle"}
    <3>1. CASE reply' = "status"
      BY <1>4, <2>1, <3>1 DEF ReadStatus
    <3>2. CASE reply' = "data"
      BY <1>4, <2>1, <3>2 DEF ReadStatus
    <3>3. CASE reply' \notin {"status", "data"}
      BY <1>4, <3>3 DEF ReadStatus
    <3>4. QED
      BY <3>1, <3>2, <3>3
  <2>3. misled' \in BOOLEAN
    BY <1>4 DEF ReadStatus
  <2>4. QED
    BY <1>4, <2>2, <2>3 DEF ReadStatus
<1>5. CASE ReadData
  BY <1>5 DEF ReadData
<1>6. CASE WriteFails
  <2>1. served' \in BOOLEAN
    BY <1>6 DEF WriteFails
  <2>2. QED
    BY <1>6, <2>1 DEF WriteFails
<1>7. CASE ReadFails
  BY <1>7 DEF ReadFails
<1>8. CASE MasterRestarts
  BY <1>8 DEF MasterRestarts
<1>9. CASE LifeTesterRestarts
  BY <1>9 DEF LifeTesterRestarts
<1>10. CASE UNCHANGED lvars
  BY <1>10 DEF lvars, masterVars
<1>11. QED
  BY <1>1, <1>2, <1>3, <1>4, <1>5, <1>6, <1>7, <1>8, <1>9, <1>10 DEF LNext, Transfer

\* Where a read of the status leads.
LEMMA StatusRead ==
    ASSUME ReadStatus
    PROVE  /\ reply' = "status" => misled' = misled
           /\ reply' = "status" /\ mpc = "grant" => mpc' = AfterGrant(cmdReg)
           /\ reply' = "status" /\ mpc = "status" => mpc' = AfterStatus(cmdReg)
           /\ reply' = "data" => misled'
           /\ reply' \notin {"status", "data"} => mpc' = "announce" /\ misled' = misled
           /\ mpc' \in {"command", "announce", "read", "idle", "askStatus"}
<1>1. \A reg : /\ AfterGrant(reg) \in {"command", "announce"}
               /\ AfterStatus(reg) \in {"read", "idle", "askStatus", "announce"}
  BY DEF AfterGrant, AfterStatus
<1>2. mpc \in {"grant", "status"}
  BY DEF ReadStatus
<1>3. CASE reply' = "status"
  BY <1>1, <1>2, <1>3 DEF ReadStatus
<1>4. CASE reply' = "data"
  BY <1>1, <1>2, <1>4 DEF ReadStatus
<1>5. CASE reply' \notin {"status", "data"}
  BY <1>5 DEF ReadStatus
<1>6. QED
  BY <1>3, <1>4, <1>5

\* After a poll the register will be answered, or there is nothing to answer with.
LEMMA PollNext == LInv /\ [LNext]_lvars => PollAnswered'
<1> SUFFICES ASSUME LInv, [LNext]_lvars, mpc' \in {"grant", "status"}, ~misled'
             PROVE  cmdRegReadRequested' \/ AwaitsParams' \/ Blank'
  BY DEF PollAnswered
<1> USE DEF LInv
<1>1. CASE MainProgram
  <2>1. mpc' = mpc /\ misled' = misled
    BY <1>1 DEF MainProgram
  <2>2. cmdRegReadRequested \/ AwaitsParams \/ Blank
    BY <2>1 DEF PollAnswered
  <2>3. CASE Loop
    BY <2>2, <2>3, WorkLeaves DEF Loop
  <2>4. CASE Setup
    <3>1. pc = "idle"
      BY <2>4 DEF Setup, Booting
    <3>2. CASE at = "controller"
      BY <2>4, <3>1, <3>2 DEF Setup, Blank, InitReg
    <3>3. CASE at # "controller"
      <4>1. UNCHANGED <<cmdReg, cmdRegReadRequested, transmitBuffer, pc>>
        BY <2>4, <3>3 DEF Setup, vars
      <4>2. QED
        BY <2>2, <4>1 DEF AwaitsParams, Blank
    <3>4. QED
      BY <3>2, <3>3
  <2>5. QED
    BY <1>1, <2>3, <2>4 DEF MainProgram
<1>2. CASE Write
  <2>1. mpc \in {"askGrant", "askStatus"} /\ Message = Poll
    BY <1>2 DEF Write, AfterWrite, Message, Writes
  <2>2. Receive(IF mpc = "params" THEN ReceiveParams ELSE ReceiveCommand(Message))
    BY <1>2 DEF Write
  <2>3. CASE at = "onReceive"
    <3>1. UNCHANGED vars
      BY <2>2, <2>3 DEF Receive
    <3>2. Blank
      BY <2>3 DEF Booting, Blank
    <3>3. QED
      BY <3>1, <3>2 DEF vars, Blank
  <2>4. CASE at # "onReceive"
    <3>1. Hears(Poll)
      BY <2>1, <2>2, <2>4 DEF Receive, Hears
    <3>2. CASE AwaitsParams
      <4>1. RejectParams /\ cmdReg \in CmdRegs
        BY <3>1, <3>2 DEF Hears, ReceiveCommand, TypeOK
      <4>2. QED
        BY <4>1 DEF RejectParams, AwaitsParams, CmdRegs
    <3>3. CASE ~AwaitsParams
      BY <3>1, <3>3 DEF Hears, ReceiveCommand, RequestWrite, RequestPoll, AcceptCommand,
                        IgnoreCommand, Poll
    <3>4. QED
      BY <3>2, <3>3
  <2>5. QED
    BY <2>3, <2>4
<1>3. CASE ReadStatus
  BY <1>3, StatusRead
<1>4. CASE LifeTesterRestarts
  BY <1>4 DEF LifeTesterRestarts, Blank, InitReg
<1>5. CASE WriteFails \/ ReadData \/ ReadFails \/ MasterRestarts
  BY <1>5 DEF WriteFails, ReadData, ReadFails, MasterRestarts, Reads, Writes
<1>6. ASSUME NEW d \in Tasks, Begin(d) PROVE FALSE
  BY <1>6 DEF Begin
<1>7. CASE UNCHANGED lvars
  BY <1>7 DEF lvars, vars, masterVars, PollAnswered, AwaitsParams, Blank
<1>8. QED
  BY <1>1, <1>2, <1>3, <1>4, <1>5, <1>6, <1>7 DEF LNext, Transfer

\* A grant is read outside of ConsumeCommand, and ready for the task.
LEMMA GrantRead ==
    ASSUME ControllerInv, Controller_RequestHandler, cmdReg.cmd = "CmdReg"
    PROVE  NotTaken'
<1>1. pc = "idle"
  <2>1. CASE at \in {"params", "loop"}
    <3>1. Inv /\ Interrupts
      BY <2>1 DEF ControllerInv, Started, Controller_RequestHandler
    <3>2. QED
      BY <3>1, FirstCall
  <2>2. CASE at \notin {"params", "loop"}
    BY <2>2 DEF ControllerInv, Booting
  <2>3. QED
    BY <2>1, <2>2
<1>2. CommandOf(cmdReg') = CommandOf(cmdReg) /\ pc' = pc
  BY ReadingLeaves DEF ControllerInv
<1>3. QED
  BY <1>1, <1>2 DEF NotTaken, CommandOf

\* A read of the register, or its failure, leaves the task where it is.
LEMMA ReadingTracks ==
    ASSUME TypeOK, NotTaken \/ Taken, Controller_RequestHandler,
           task' = task, served' = served
    PROVE  NotTaken' \/ Taken'
<1>1. /\ CommandOf(cmdReg') = CommandOf(cmdReg)
      /\ UNCHANGED <<pc, fetched, loaded, owed>>
  BY ReadingLeaves
<1>2. CASE NotTaken
  BY <1>1, <1>2 DEF NotTaken, CommandOf
<1>3. CASE Taken
  BY <1>1, <1>3 DEF Taken
<1>4. QED
  BY <1>2, <1>3

LEMMA StillTracks ==
    ASSUME NotTaken \/ Taken, UNCHANGED vars, task' = task, served => served'
    PROVE  NotTaken' \/ Taken'
<1>1. CASE NotTaken
  BY <1>1 DEF NotTaken, vars
<1>2. CASE Taken
  <2>1. served' \/ task' \in owed'
    BY <1>2 DEF Taken, vars
  <2>2. QED
    BY <1>2, <2>1 DEF Taken, vars
<1>3. QED
  BY <1>1, <1>2

\* From the grant to the status the register holds the task or none.
LEMMA TrackNext == LInv /\ [LNext]_lvars => TaskTracked'
<1> SUFFICES ASSUME LInv, [LNext]_lvars PROVE TaskTracked'
  OBVIOUS
<1>1. TypeOK /\ ControllerInv /\ MasterTypeOK /\ TaskTracked /\ task \in Served
  BY LInvParts, MessagesAreCommands DEF LInv, MasterTypeOK
<1>2. mpc' = "params" => IsParamsWrite(task')
  <2>1. CASE Write
    BY <2>1 DEF Write, AfterWrite
  <2>2. CASE ReadStatus
    BY <2>2, StatusRead
  <2>3. CASE MainProgram \/ WriteFails \/ LifeTesterRestarts \/ UNCHANGED lvars
    BY <1>1, <2>3 DEF MainProgram, WriteFails, LifeTesterRestarts, lvars, masterVars,
                      TaskTracked
  <2>4. CASE (\E d \in Tasks : Begin(d)) \/ ReadData \/ ReadFails \/ MasterRestarts
    BY <2>4 DEF Begin, ReadData, ReadFails, MasterRestarts
  <2>5. QED
    BY <2>1, <2>2, <2>3, <2>4 DEF LNext, Transfer
<1>3. SUFFICES ASSUME mpc' \in {"command", "askStatus", "status"}, ~misled',
                      ~IsParamsWrite(task')
               PROVE  NotTaken' \/ Taken'
  BY <1>2 DEF TaskTracked
<1>4. ~(\E d \in Tasks : Begin(d)) /\ ~MasterRestarts
  BY <1>3 DEF Begin, MasterRestarts
<1>5. task' = task /\ ~IsParamsWrite(task) /\ ~misled
  <2>1. task' = task /\ (misled' = misled \/ ReadStatus)
    BY <1>4 DEF LNext, MainProgram, Transfer, Write, ReadStatus, ReadData, WriteFails,
                ReadFails, LifeTesterRestarts, lvars, masterVars
  <2>2. CASE ReadStatus
    BY <1>3, <2>1, <2>2, StatusRead
  <2>3. CASE misled' = misled
    BY <1>3, <2>1, <2>3
  <2>4. QED
    BY <2>1, <2>2, <2>3
<1>6. mpc \in {"command", "askStatus", "status"} => NotTaken \/ Taken
  BY <1>1, <1>5 DEF TaskTracked
<1>7. served => served'
  BY <1>4 DEF LNext, MainProgram, Transfer, Write, ReadStatus, ReadData, WriteFails,
              ReadFails, LifeTesterRestarts, lvars, masterVars
<1>8. CASE MainProgram
  <2>1. NotTaken \/ Taken
    BY <1>3, <1>6, <1>8 DEF MainProgram
  <2>2. CASE Loop
    <3>1. Controller_ConsumeCommand /\ at = "loop"
      BY <2>2 DEF Loop
    <3>2. Taken
      BY <1>1, <2>1, <3>1, WorkLeaves DEF ControllerInv
    <3>3. task \in owed /\ task \notin owed' => served'
      BY <1>8, <3>1 DEF MainProgram
    <3>4. QED
      BY <1>1, <1>5, <1>7, <3>1, <3>2, <3>3, WorkTracks
  <2>3. CASE Setup
    <3>1. CASE at = "onReceive"
      BY <1>5, <1>7, <2>1, <2>3, <3>1, StillTracks DEF Setup
    <3>2. CASE at = "controller"
      <4>1. pc = "idle"
        BY <1>1, <3>2 DEF ControllerInv, Booting
      <4>2. QED
        BY <2>3, <3>2, <4>1 DEF Setup, NotTaken, InitReg
    <3>3. CASE at = "params"
      <4>1. UNCHANGED <<cmdReg, pc, fetched, loaded, owed>>
        BY <2>3, <3>3 DEF Setup
      <4>2. CASE NotTaken
        BY <4>1, <4>2 DEF NotTaken
      <4>3. CASE Taken
        <5>1. served' \/ task' \in owed'
          BY <1>5, <1>7, <4>1, <4>3 DEF Taken
        <5>2. QED
          BY <1>5, <4>1, <4>3, <5>1 DEF Taken
      <4>4. QED
        BY <2>1, <4>2, <4>3
    <3>4. QED
      BY <2>3, <3>1, <3>2, <3>3 DEF Setup
  <2>4. QED
    BY <1>8, <2>2, <2>3 DEF MainProgram
<1>9. CASE Write \/ WriteFails
  <2>1. mpc \in {"command", "askStatus"}
    <3>1. mpc \in Writes
      BY <1>9 DEF Write, WriteFails
    <3>2. mpc # "params"
      BY <1>1, <1>5 DEF TaskTracked
    <3>3. mpc \notin {"announce", "askGrant"}
      BY <1>3, <1>9 DEF Write, WriteFails, AfterWrite
    <3>4. QED
      BY <3>1, <3>2, <3>3 DEF Writes
  <2>2. NotTaken \/ Taken
    BY <1>6, <2>1
  <2>3. Message \in {task, Poll}
    BY <2>1 DEF Message
  <2>4. \/ Receive(IF mpc = "params" THEN ReceiveParams ELSE ReceiveCommand(Message))
        \/ Receive(ReceiveCommand(EmptyWrite))
        \/ UNCHANGED vars
    BY <1>9 DEF Write, WriteFails
  <2>5. UNCHANGED vars \/ Hears(Message) \/ Hears(EmptyWrite)
    BY <1>1, <2>1, <2>4, ReceptionOutcome
  <2>6. CASE UNCHANGED vars
    BY <1>5, <1>7, <2>2, <2>6, StillTracks
  <2>7. CASE Hears(Message) \/ Hears(EmptyWrite)
    BY <1>1, <1>5, <1>7, <2>2, <2>3, <2>7, HearingTracks
  <2>8. QED
    BY <2>5, <2>6, <2>7
<1>10. CASE ReadStatus
  <2>1. Controller_RequestHandler /\ served' = served /\ mpc \in {"grant", "status"}
    BY <1>10 DEF ReadStatus
  <2>2. CASE mpc = "status"
    BY <1>1, <1>5, <1>6, <2>1, <2>2, ReadingTracks
  <2>3. CASE mpc = "grant"
    <3>1. reply' = "status" /\ mpc' = AfterGrant(cmdReg)
      BY <1>3, <1>10, <2>3, StatusRead
    <3>2. CommandOf(cmdReg) = Announcement
      BY <1>3, <3>1 DEF AfterGrant
    <3>3. cmdReg.cmd = "CmdReg"
      BY <3>2 DEF CommandOf, Announcement
    <3>4. QED
      BY <1>1, <2>1, <3>3, GrantRead
  <2>4. QED
    BY <2>1, <2>2, <2>3
<1>11. CASE ReadFails
  <2>1. mpc = "status" /\ served' = served
    BY <1>3, <1>11 DEF ReadFails, Reads
  <2>2. CASE Controller_RequestHandler
    BY <1>1, <1>5, <1>6, <2>1, <2>2, ReadingTracks
  <2>3. CASE UNCHANGED vars
    BY <1>5, <1>6, <1>7, <2>1, <2>3, StillTracks
  <2>4. QED
    BY <1>11, <2>2, <2>3 DEF ReadFails
<1>12. CASE ReadData
  BY <1>3, <1>12 DEF ReadData
<1>13. CASE LifeTesterRestarts
  BY <1>13 DEF LifeTesterRestarts, NotTaken, InitReg
<1>14. CASE UNCHANGED lvars
  <2>1. mpc' = mpc /\ UNCHANGED vars
    BY <1>14 DEF lvars, masterVars
  <2>2. QED
    BY <1>3, <1>5, <1>6, <1>7, <2>1, StillTracks
<1>15. QED
  BY <1>4, <1>8, <1>9, <1>10, <1>11, <1>12, <1>13, <1>14 DEF LNext, Transfer

\* Once a read of the data is ready, ConsumeCommand has nothing to do.
LEMMA ReadyIsIdle ==
    ASSUME Inv, BusyUntilStored, cmdReg.cmd = "DataReg", cmdReg.rdy
    PROVE  ~Controller_ConsumeCommand
<1>1. pc = "idle"
  <2>1. SUFFICES ASSUME pc # "idle" PROVE FALSE
    OBVIOUS
  <2>2. fetched.cmd = "DataReg"
    BY <2>1 DEF Inv, NotOvertaken
  <2>3. pc \notin {"reset", "flush"}
    BY <2>2 DEF Inv, FetchedServed
  <2>4. pc \notin Filling
    BY <2>2 DEF Inv, BusyMeanwhile
  <2>5. pc \notin {"ready", "store"}
    BY <2>2 DEF BusyUntilStored
  <2>6. QED
    BY <2>1, <2>3, <2>4, <2>5 DEF Inv, TypeOK, Filling
<1>2. Dispatch(cmdReg) = "idle"
  BY DEF Dispatch
<1>3. QED
  BY <1>1, <1>2 DEF Controller_ConsumeCommand, Fetch, ResetChannel, FlushReadBuffer,
                    ResetBuffer, WriteField, LoadCmdReg, StoreCmdReg

\* What the register shows as done is done.
LEMMA DoneIsServed ==
    ASSUME ControllerInv, NotTaken \/ Taken, task \in Served, CommandOf(cmdReg) = task,
           cmdReg.rdy
    PROVE  served
<1>1. at \in {"params", "loop"}
  BY DEF ControllerInv, Booting
<1>2. owed = {}
  BY <1>1 DEF ControllerInv, Started, Inv, ReadyMeansDone
<1>3. Taken
  BY DEF NotTaken, CommandOf, Served
<1>4. QED
  BY <1>2, <1>3 DEF Taken

\* The read of the data begins when the register shows it ready.
LEMMA DataBegins ==
    ASSUME LInv, ReadStatus, mpc' = "read", ~misled'
    PROVE  DataShown'
<1>1. /\ TypeOK /\ ControllerInv /\ task \in Served /\ Controller_RequestHandler
      /\ task' = task /\ served' = served
  BY LInvParts, MessagesAreCommands DEF LInv, MasterTypeOK, ReadStatus
<1>2. mpc = "status" /\ reply' = "status" /\ ~misled /\ mpc' = AfterStatus(cmdReg)
  <2>1. reply' = "status" /\ misled' = misled
    BY StatusRead
  <2>2. mpc \in {"grant", "status"}
    BY DEF ReadStatus
  <2>3. mpc # "grant"
    BY <2>1, StatusRead DEF AfterGrant
  <2>4. QED
    BY <2>1, <2>2, <2>3, StatusRead
<1>3. CommandOf(cmdReg) = Shown(task) /\ cmdReg.rdy /\ IsDataRead(task)
  BY <1>2 DEF AfterStatus
<1>4. ~IsParamsWrite(task) /\ CommandOf(cmdReg) = task
  BY <1>3 DEF IsDataRead, IsParamsWrite, Shown
<1>5. NotTaken \/ Taken
  BY <1>2, <1>4 DEF LInv, TaskTracked
<1>6. served = TRUE
  BY <1>1, <1>3, <1>4, <1>5, DoneIsServed DEF LInv, MasterTypeOK
<1>7. /\ CommandOf(cmdReg') = CommandOf(cmdReg) /\ cmdReg'.rdy = cmdReg.rdy
      /\ ~cmdRegReadRequested'
  BY <1>1, ReadingLeaves
<1>8. QED
  BY <1>1, <1>3, <1>4, <1>6, <1>7 DEF DataShown

LEMMA DataNext == LInv /\ [LNext]_lvars => DataShown'
<1> SUFFICES ASSUME LInv, [LNext]_lvars, mpc' = "read", ~misled' PROVE DataShown'
  BY DEF DataShown
<1>1. TypeOK /\ ControllerInv
  BY LInvParts DEF LInv
<1>2. CASE ReadStatus
  BY <1>2, DataBegins
<1>3. CASE ~ReadStatus
  <2>1. mpc = "read" /\ ~misled /\ task' = task /\ (served => served')
    <3>1. ~Write /\ ~ReadData /\ ~WriteFails /\ ~MasterRestarts
          /\ ~(\E d \in Tasks : Begin(d))
      BY DEF Write, AfterWrite, ReadData, WriteFails, Writes, MasterRestarts, Begin
    <3>2. CASE MainProgram
      BY <3>2 DEF MainProgram
    <3>3. CASE ReadFails
      BY <3>3 DEF ReadFails, Reads
    <3>4. CASE LifeTesterRestarts \/ UNCHANGED lvars
      BY <3>4 DEF LifeTesterRestarts, lvars, masterVars
    <3>5. QED
      BY <1>3, <3>1, <3>2, <3>3, <3>4 DEF LNext, Transfer
  <2>2. /\ IsDataRead(task) /\ served /\ ~cmdRegReadRequested
        /\ task.cmd = "DataReg" => Blank \/ (CommandOf(cmdReg) = task /\ cmdReg.rdy)
    BY <2>1 DEF LInv, DataShown
  <2> DEFINE Lasts == /\ ~cmdRegReadRequested'
                      /\ task.cmd = "DataReg" =>
                            Blank' \/ (CommandOf(cmdReg') = task /\ cmdReg'.rdy)
  <2>3. SUFFICES Lasts
    BY <2>1, <2>2 DEF DataShown
  <2>4. CASE Loop
    <3>1. Controller_ConsumeCommand /\ Inv
      BY <1>1, <2>4 DEF Loop, ControllerInv, Started
    <3>2. cmdRegReadRequested' = cmdRegReadRequested /\ ~Blank
      BY <1>1, <3>1, WorkLeaves DEF ControllerInv
    <3>3. task.cmd # "DataReg"
      BY <1>1, <2>2, <3>1, <3>2, ReadyIsIdle DEF ControllerInv, CommandOf
    <3>4. QED
      BY <2>2, <3>2, <3>3
  <2>5. CASE Setup
    <3>1. pc = "idle"
      BY <1>1, <2>5 DEF Setup, ControllerInv, Booting
    <3>2. CASE at = "controller"
      BY <2>5, <3>1, <3>2 DEF Setup, Blank, InitReg
    <3>3. CASE at # "controller"
      <4>1. UNCHANGED <<cmdReg, cmdRegReadRequested, transmitBuffer, pc>>
        BY <2>5, <3>3 DEF Setup, vars
      <4>2. QED
        BY <2>2, <4>1 DEF Blank
    <3>4. QED
      BY <3>2, <3>3
  <2>6. CASE Controller_RequestHandler
    <3>1. /\ CommandOf(cmdReg') = CommandOf(cmdReg) /\ cmdReg'.rdy = cmdReg.rdy
          /\ UNCHANGED <<transmitBuffer, pc>> /\ ~cmdRegReadRequested'
      BY <1>1, <2>6, ReadingLeaves
    <3>2. QED
      BY <2>2, <3>1 DEF Blank, CommandOf
  <2>7. CASE LifeTesterRestarts
    BY <2>7 DEF LifeTesterRestarts, Blank, InitReg
  <2>8. CASE UNCHANGED vars
    BY <2>2, <2>8 DEF vars, Blank
  <2>9. QED
    <3>1. ~Write /\ ~ReadData /\ ~WriteFails /\ ~MasterRestarts
          /\ ~(\E d \in Tasks : Begin(d))
      BY <2>1 DEF Write, Writes, AfterWrite, ReadData, WriteFails, MasterRestarts, Begin
    <3>2. Setup \/ Loop \/ Controller_RequestHandler \/ LifeTesterRestarts \/ UNCHANGED vars
      BY <1>3, <3>1 DEF LNext, Transfer, MainProgram, ReadFails, lvars
    <3> HIDE DEF Lasts
    <3>3. QED
      BY <2>4, <2>5, <2>6, <2>7, <2>8, <3>2
<1>4. QED
  BY <1>2, <1>3

LEMMA LInvInit == LInit => LInv
<1> SUFFICES ASSUME LInit PROVE LInv
  OBVIOUS
<1>1. ControllerInv
  BY ControllerInvInit
<1>2. MasterTypeOK /\ PollAnswered /\ TaskTracked /\ DataShown
  BY DEF LInit, PowerUp, MasterTypeOK, PollAnswered, TaskTracked, DataShown
<1>3. QED
  BY <1>1, <1>2 DEF LInv, ControllerInv

LEMMA LInvNext == LInv /\ [LNext]_lvars => LInv'
<1> SUFFICES ASSUME LInv, [LNext]_lvars PROVE LInv'
  OBVIOUS
<1>1. ControllerInv'
  BY LInvParts, StepOfController, ControllerKeeps DEF LInv
<1>2. MasterTypeOK'
  BY MasterTypeNext DEF LInv
<1>3. PollAnswered' /\ TaskTracked' /\ DataShown'
  BY PollNext, TrackNext, DataNext
<1>4. QED
  BY <1>1, <1>2, <1>3 DEF LInv, ControllerInv

-----------------------------------------------------------------------------
(* The theorems *)

\* The invariant of the program with its master, through all troubles.
THEOREM MasterInvariance == LSpec => []LInv
BY LInvInit, LInvNext, PTL DEF LSpec

\* No request for a poll is left over when the data is read, so that the register
\* is never transmitted in place of the record.
THEOREM NoPollLeft == LSpec => []NoPollLeftOver
<1>1. LInv => NoPollLeftOver
  BY DEF LInv, DataShown, NoPollLeftOver
<1>2. QED
  BY <1>1, MasterInvariance, PTL

\* The master takes data for a status only while the controller waits for
\* parameters that the master is not about to write.
THEOREM MisledStranded == LSpec => MisledOnlyWhenStranded
<1>1. LInv /\ [LNext]_lvars => [misled' /\ ~misled => Stranded]_lvars
  <2>1. SUFFICES ASSUME LInv, LNext, misled', ~misled PROVE Stranded
    OBVIOUS
  <2>2. ReadStatus
    BY <2>1 DEF LNext, MainProgram, Begin, Transfer, Write, ReadData, WriteFails,
                ReadFails, MasterRestarts, LifeTesterRestarts
  <2>3. mpc \in {"grant", "status"} /\ Controller_RequestHandler /\ TypeOK
    BY <2>1, <2>2 DEF ReadStatus, LInv
  <2>4. reply' = "data"
    BY <2>1, <2>2, StatusRead
  <2>5. ~cmdRegReadRequested /\ transmitBuffer # <<>>
    BY <2>3, <2>4, ReadingLeaves
  <2>6. AwaitsParams
    BY <2>1, <2>3, <2>5 DEF LInv, PollAnswered, Blank
  <2>7. QED
    BY <2>3, <2>6 DEF Stranded
<1>2. QED
  BY <1>1, MasterInvariance, PTL DEF LSpec, MisledOnlyWhenStranded

\* When the master believes that its task is done, it was carried out after it
\* was asked for, and the record it has read is whole and of its channel.
THEOREM TaskDone == LSpec => TaskIsDone
<1> DEFINE Done == mpc # "idle" /\ mpc' = "idle" /\ troubles' = troubles /\ ~misled' =>
                      /\ IsParamsWrite(task) \/ served
                      /\ task.cmd = "DataReg" =>
                            reply' = "data" /\ transmitBuffer = WholeRecord(task)
<1>1. LInv /\ [LNext]_lvars => [Done]_lvars
  <2>1. SUFFICES ASSUME LInv, LNext, mpc # "idle", mpc' = "idle", troubles' = troubles,
                        ~misled'
                 PROVE  /\ IsParamsWrite(task) \/ served
                        /\ task.cmd = "DataReg" =>
                              reply' = "data" /\ transmitBuffer = WholeRecord(task)
    OBVIOUS
  <2>2. TypeOK /\ ControllerInv /\ task \in Served
    BY <2>1, LInvParts, MessagesAreCommands DEF LInv, MasterTypeOK
  <2>3. CASE ReadStatus
    <3>1. mpc \in {"grant", "status"} /\ reply' = "status" /\ ~misled
      BY <2>1, <2>3, StatusRead DEF ReadStatus
    <3>2. mpc = "status" /\ mpc' = AfterStatus(cmdReg)
      BY <2>1, <2>3, <3>1, StatusRead DEF AfterGrant
    <3>3. CommandOf(cmdReg) = Shown(task) /\ cmdReg.rdy /\ ~IsDataRead(task)
      BY <2>1, <3>2 DEF AfterStatus
    <3>4. task.cmd # "DataReg"
      BY <2>2, <3>3 DEF IsDataRead, Served
    <3>5. ASSUME ~IsParamsWrite(task) PROVE served
      <4>1. CommandOf(cmdReg) = task
        BY <3>3, <3>5 DEF Shown
      <4>2. NotTaken \/ Taken
        BY <2>1, <3>1, <3>2, <3>5 DEF LInv, TaskTracked
      <4>3. QED
        BY <2>2, <3>3, <4>1, <4>2, DoneIsServed
    <3>6. QED
      BY <3>4, <3>5
  <2>4. CASE ReadData
    <3>1. mpc = "read" /\ Controller_RequestHandler /\ reply' = "data" /\ ~misled
      BY <2>1, <2>4 DEF ReadData
    <3>2. transmitBuffer # <<>>
      BY <2>2, <3>1, ReadingLeaves
    <3>3. /\ served
          /\ task.cmd = "DataReg" => CommandOf(cmdReg) = task /\ cmdReg.rdy
      BY <2>1, <3>1, <3>2 DEF LInv, DataShown, Blank
    <3>4. ASSUME task.cmd = "DataReg" PROVE transmitBuffer = WholeRecord(task)
      <4>1. CommandOf(cmdReg) = task /\ cmdReg.rdy /\ at \in {"params", "loop"}
        BY <2>2, <3>3, <3>4 DEF ControllerInv, Booting
      <4>2. Inv
        BY <2>2, <4>1 DEF ControllerInv, Started
      <4>3. cmdReg.cmd = "DataReg" /\ cmdReg.rw = "R"
        BY <2>2, <3>4, <4>1 DEF CommandOf, Served
      <4>4. QED
        BY <4>1, <4>2, <4>3, CompleteWhenReady DEF ReadyDataIsComplete
    <3>5. QED
      BY <3>1, <3>3, <3>4
  <2>5. ~MasterRestarts
    BY <2>1 DEF MasterRestarts, Trouble, LInv, MasterTypeOK
  <2>6. ~Write /\ ~WriteFails /\ ~ReadFails
    BY <2>1 DEF Write, AfterWrite, WriteFails, ReadFails, Writes
  <2>7. QED
    BY <2>1, <2>3, <2>4, <2>5, <2>6
       DEF LNext, MainProgram, Begin, Transfer, LifeTesterRestarts
<1>2. QED
  BY <1>1, MasterInvariance, PTL DEF LSpec, TaskIsDone, Done

\* From the end of Controller_Init on, restart or not, the ready bit tells the
\* truth, and what it announces is a whole record.
THEOREM PromisesAfterInit ==
    LSpec => [](at \in {"params", "loop"} => ReadyMeansDone /\ ReadyDataIsComplete)
<1>1. LInv => (at \in {"params", "loop"} => ReadyMeansDone /\ ReadyDataIsComplete)
  BY CompleteWhenReady DEF LInv, Started, Inv
<1>2. QED
  BY <1>1, MasterInvariance, PTL
=============================================================================
