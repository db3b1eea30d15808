------------------------------ MODULE TwoWire ------------------------------
(* The two-wire (I2C) library, twi.c under Wire.cpp, at both ends of the bus: *)
(* a master Arduino that writes and requests, and the LifeTester, which only  *)
(* answers.  The TWI hardware of both is modelled from what the interrupt     *)
(* handler expects of it: it clocks one START, byte or STOP at a time, sets   *)
(* TWINT with a status at the nodes concerned, and is held up by a node whose *)
(* TWINT is still set.                                                        *)
EXTENDS Naturals, Sequences, SequencesExt

CONSTANTS
    BUFFER_LENGTH,   \* of Wire.h; TWI_BUFFER_LENGTH of twi.h is the same
    MASTER_LENGTH,   \* the same for the master, which may be built otherwise
    Messages,        \* what the master's program writes between begin and end
    Quantities,      \* how many bytes it requests
    Replies,         \* what the request handler writes
    MaxTroubles      \* noise on the bus and restarts of the LifeTester

Nodes == {"master", "slave"}
Bytes == 0 .. 255

ASSUME TwoWireAssumption ==
    /\ BUFFER_LENGTH \in Nat \ {0} /\ MASTER_LENGTH \in Nat \ {0}
    /\ \A x \in Messages \cup Replies : x \in Seq(Bytes)
    /\ Quantities \subseteq Nat \ {0}
    /\ MaxTroubles \in Nat

VARIABLES
    call,     \* what the master's program is waiting for, if anything
    result,   \* what its last call returned
    m,        \* twi.c's variables at the master
    s,        \* twi.c's and Wire's variables at the slave
    twcr,     \* TWEA at each node
    twdr,     \* TWDR at each node
    status,   \* TW_STATUS at each node whose TWINT is set, else "none"
    job,      \* what the master's hardware does on the bus next
    role,     \* how the slave's hardware is addressed
    \* history
    incoming, \* the message that the slave was last addressed for
    handed,   \* what the receive handler got of it, if called since
    owed,     \* a message reported as sent, which the handler has yet to get
    answer,   \* what the request handler last wrote
    overrun,  \* the slave has met a message of two bytes more than its buffer
    spoilt,   \* the call has met trouble
    troubles

driver  == <<m, s>>
wires   == <<twcr, twdr, status, job, role>>
history == <<incoming, handed, owed, answer, overrun, spoilt, troubles>>
vars    == <<call, result, driver, wires, history>>

NoCall == [kind |-> "none"]
NoMessage == [none |-> TRUE]

\* 0x00, which twi.c sends for a reply that is not there, and an idle line
Zero == 0
IdleLine == 255

MinOf(a, b) == IF a < b THEN a ELSE b

UpTo(message, length) == SubSeq(message, 1, MinOf(Len(message), length))

\* TwoWire::write ignores what comes after a full buffer.
Written(message) == UpTo(message, MASTER_LENGTH)

-----------------------------------------------------------------------------
(* twi_init, by TwoWire::begin *)

SlaveStart ==
    [twi_state |-> "READY", rxBuffer |-> <<>>, txBuffer |-> <<>>, txBufferIndex |-> 0,
     unread |-> 0, inHandler |-> FALSE]

Init ==
    /\ call = NoCall /\ result = NoMessage
    /\ m = [twi_state |-> "READY", sendStop |-> TRUE, inRepStart |-> FALSE,
            slarw |-> [to |-> "slave", rw |-> "write"],
            buffer |-> <<>>, index |-> 0, length |-> 0, error |-> "none"]
    /\ s = SlaveStart
    /\ twcr = [n \in Nodes |-> TRUE]
    /\ twdr = [n \in Nodes |-> Zero]
    /\ status = [n \in Nodes |-> "none"]
    /\ job = "none" /\ role = "none"
    /\ incoming = <<>> /\ handed = NoMessage /\ owed = NoMessage
    /\ answer = <<>> /\ overrun = FALSE /\ spoilt = FALSE /\ troubles = 0

-----------------------------------------------------------------------------
(* The master's program: endTransmission and requestFrom *)

\* After a repeated START, which is out already or spun for, only the address
\* is left to send.  TWDR holds twi_slarw whenever job is "address".
Open ==
    /\ call = NoCall /\ m.twi_state = "READY" /\ job = "none"
    /\ m.inRepStart => status["master"] = "REP_START"
    /\ job' = IF m.inRepStart THEN "address" ELSE "start"
    /\ status' = [status EXCEPT !["master"] = "none"]
    /\ twcr' = [twcr EXCEPT !["master"] = TRUE]
    /\ spoilt' = FALSE /\ result' = NoMessage
    /\ UNCHANGED <<s, twdr, role, incoming, handed, owed, answer, overrun, troubles>>

\* endTransmission: twi_writeTo, with a message that fits its buffer.
BeginWrite ==
    \E to \in {"slave", "absent"}, message \in Messages, sendStop \in BOOLEAN :
        /\ Open
        /\ call' = [kind |-> "write", to |-> to, message |-> Written(message)]
        /\ m' = [twi_state |-> "MTX", sendStop |-> sendStop, inRepStart |-> FALSE,
                 slarw |-> [to |-> to, rw |-> "write"],
                 buffer |-> Written(message), index |-> 0,
                 length |-> Len(Written(message)), error |-> "none"]

\* requestFrom: twi_readFrom, with a quantity clamped to the buffer.
BeginRead ==
    \E to \in {"slave", "absent"}, quantity \in Quantities, sendStop \in BOOLEAN :
        LET wanted == MinOf(quantity, MASTER_LENGTH)
        IN  /\ Open
            /\ call' = [kind |-> "read", to |-> to, quantity |-> wanted]
            /\ m' = [twi_state |-> "MRX", sendStop |-> sendStop, inRepStart |-> FALSE,
                     slarw |-> [to |-> to, rw |-> "read"],
                     buffer |-> <<>>, index |-> 0,
                     length |-> wanted - 1, error |-> "none"]

WriteResult ==
    CASE m.error = "none" -> 0
      [] m.error = "MT_SLA_NACK" -> 2
      [] m.error = "MT_DATA_NACK" -> 3
      [] OTHER -> 4

\* The interrupt handler has left MTX or MRX: the call returns.
Return ==
    /\ call # NoCall /\ m.twi_state \notin {"MTX", "MRX"}
    /\ call' = NoCall
    /\ IF call.kind = "write"
       THEN /\ result' = [kind |-> "written", to |-> call.to, code |-> WriteResult]
            /\ owed' = LET kept == [got |-> UpTo(call.message, BUFFER_LENGTH)]
                       IN  IF WriteResult = 0 /\ ~spoilt /\ handed # kept
                           THEN kept ELSE owed
       ELSE /\ result' = [kind |-> "received", to |-> call.to, quantity |-> call.quantity,
                          bytes |-> UpTo(m.buffer, call.quantity)]
            /\ UNCHANGED owed
    /\ UNCHANGED <<driver, wires, incoming, handed, answer, overrun, spoilt, troubles>>

-----------------------------------------------------------------------------
(* The interrupt handler, ISR(TWI_vect).  Writing TWCR clears TWINT and tells *)
(* the hardware whether to acknowledge and what to do next.                   *)

twi_reply(n, ack) ==
    /\ twcr' = [twcr EXCEPT ![n] = ack]
    /\ status' = [status EXCEPT ![n] = "none"]

\* The handler spins until the STOP is out (Stop), then sets TWI_READY.
twi_stop == twi_reply("master", TRUE) /\ job' = "stop"

\* The START that follows raises no interrupt: TWIE is off.
RepeatStart ==
    /\ twi_reply("master", FALSE)
    /\ job' = "restart"

EndTransfer(driven) ==
    IF m.sendStop
    THEN m' = driven /\ twi_stop
    ELSE m' = [driven EXCEPT !.inRepStart = TRUE, !.twi_state = "READY"] /\ RepeatStart

ByMaster == UNCHANGED <<call, result, s, role, history>>

HandleStart ==
    /\ status["master"] = "START"
    /\ twi_reply("master", TRUE) /\ job' = "address"
    /\ UNCHANGED <<m, twdr>>

HandleWriteAck ==
    /\ status["master"] \in {"MT_SLA_ACK", "MT_DATA_ACK"}
    /\ IF m.index < m.length
       THEN /\ twdr' = [twdr EXCEPT !["master"] = m.buffer[m.index + 1]]
            /\ m' = [m EXCEPT !.index = @ + 1]
            /\ twi_reply("master", TRUE) /\ job' = "send"
       ELSE EndTransfer(m) /\ UNCHANGED twdr

\* Mutant: the transfer is left without a STOP.
Mut_NoStopAfterNack ==
    /\ status["master"] \in {"MT_SLA_NACK", "MT_DATA_NACK"}
    /\ m' = [m EXCEPT !.error = status["master"]]
    /\ twi_reply("master", TRUE) /\ job' = "none"
    /\ UNCHANGED twdr

HandleWriteNack ==
    /\ status["master"] \in {"MT_SLA_NACK", "MT_DATA_NACK"}
    /\ m' = [m EXCEPT !.error = status["master"]]
    /\ twi_stop
    /\ UNCHANGED twdr

\* The last byte wanted is not acknowledged, so that length is one less.
HandleReadAck ==
    /\ status["master"] \in {"MR_SLA_ACK", "MR_DATA_ACK"}
    /\ m' = IF status["master"] = "MR_DATA_ACK"
            THEN [m EXCEPT !.buffer = Append(@, twdr["master"]), !.index = @ + 1] ELSE m
    /\ twi_reply("master", m'.index < m.length) /\ job' = "receive"
    /\ UNCHANGED twdr

\* Mutant: the byte that is not acknowledged is dropped.
Mut_LastByteLost ==
    /\ status["master"] = "MR_DATA_NACK"
    /\ EndTransfer(m)
    /\ UNCHANGED twdr

HandleLastByte ==
    /\ status["master"] = "MR_DATA_NACK"
    /\ EndTransfer([m EXCEPT !.buffer = Append(@, twdr["master"]), !.index = @ + 1])
    /\ UNCHANGED twdr

HandleReadNack ==
    /\ status["master"] = "MR_SLA_NACK"
    /\ twi_stop
    /\ UNCHANGED <<m, twdr>>

\* TWSTO only resets the hardware: there is no STOP to wait for.
HandleBusError ==
    /\ status["master"] = "BUS_ERROR"
    /\ m' = [m EXCEPT !.error = "BUS_ERROR", !.twi_state = "READY"]
    /\ twi_reply("master", TRUE) /\ job' = "none"
    /\ UNCHANGED twdr

MasterHandler ==
    /\ ByMaster
    /\ \/ HandleStart \/ HandleWriteAck \/ HandleWriteNack
       \/ HandleReadAck \/ HandleLastByte \/ HandleReadNack \/ HandleBusError

-----------------------------------------------------------------------------
(* The same handler at the slave.  It does not run while it runs already: the *)
(* receive handler is called from within it.                                  *)

BySlave == UNCHANGED <<call, result, m, job, role, overrun, spoilt, troubles>>

\* Mutant: the buffer keeps what an earlier transfer has left in it.
Mut_IndexNotCleared ==
    /\ status["slave"] = "SR_SLA_ACK"
    /\ s' = [s EXCEPT !.twi_state = "SRX"]
    /\ twi_reply("slave", TRUE)
    /\ UNCHANGED <<twdr, incoming, handed, owed, answer>>

HandleAddressed ==
    /\ status["slave"] = "SR_SLA_ACK"
    /\ s' = [s EXCEPT !.twi_state = "SRX", !.rxBuffer = <<>>]
    /\ twi_reply("slave", TRUE)
    /\ UNCHANGED <<twdr, incoming, handed, owed, answer>>

HandleData ==
    /\ status["slave"] = "SR_DATA_ACK"
    /\ IF Len(s.rxBuffer) < BUFFER_LENGTH
       THEN /\ s' = [s EXCEPT !.rxBuffer = Append(@, twdr["slave"])]
            /\ twi_reply("slave", TRUE)
       ELSE twi_reply("slave", FALSE) /\ UNCHANGED s
    /\ UNCHANGED <<twdr, incoming, handed, owed, answer>>

\* Mutant: a byte of the message is left unread.
Mut_UnreadLeft(message) == 1

\* The user's receive handler, Controller_ReceiveHandler, reads all there is.
UnreadAfter(message) == 0

\* twi_releaseBus, then onReceiveService, which calls the receive handler
\* unless bytes of the message before are unread.
HandleStop ==
    /\ status["slave"] = "SR_STOP"
    /\ twi_reply("slave", TRUE)
    /\ IF s.unread = 0
       THEN /\ s' = [s EXCEPT !.twi_state = "READY", !.inHandler = TRUE,
                              !.unread = UnreadAfter(s.rxBuffer)]
            /\ handed' = [got |-> s.rxBuffer]
            /\ owed' = IF owed = [got |-> s.rxBuffer] THEN NoMessage ELSE owed
       ELSE /\ s' = [s EXCEPT !.twi_state = "READY", !.inHandler = TRUE]
            /\ UNCHANGED <<handed, owed>>
    /\ UNCHANGED <<twdr, incoming, answer>>

\* The receive handler returns, and the interrupt handler with it.
HandlerReturns ==
    /\ s.inHandler
    /\ s' = [s EXCEPT !.inHandler = FALSE, !.rxBuffer = <<>>]
    /\ UNCHANGED <<twcr, twdr, status, incoming, handed, owed, answer>>

HandleFull ==
    /\ status["slave"] = "SR_DATA_NACK"
    /\ twi_reply("slave", FALSE)
    /\ UNCHANGED <<s, twdr, incoming, handed, owed, answer>>

\* twi_transmit refuses what does not fit; a reply that is empty is one zero.
TxBuffer(reply) ==
    IF Len(reply) \in 1 .. BUFFER_LENGTH THEN reply ELSE <<Zero>>

\* The next byte of the reply goes out, with an acknowledge for the hardware
\* as long as there are more.
SendFrom(slave) ==
    /\ s' = [slave EXCEPT !.txBufferIndex = @ + 1]
    /\ twdr' = [twdr EXCEPT !["slave"] = slave.txBuffer[slave.txBufferIndex + 1]]
    /\ twi_reply("slave", slave.txBufferIndex + 1 < Len(slave.txBuffer))

\* onRequestService calls the request handler before the first byte.
HandleRequest ==
    /\ status["slave"] = "ST_SLA_ACK"
    /\ \E reply \in Replies :
          /\ answer' = reply
          /\ SendFrom([s EXCEPT !.twi_state = "STX", !.txBuffer = TxBuffer(reply),
                                !.txBufferIndex = 0])
    /\ UNCHANGED <<incoming, handed, owed>>

HandleSent ==
    /\ status["slave"] = "ST_DATA_ACK"
    /\ SendFrom(s)
    /\ UNCHANGED <<incoming, handed, owed, answer>>

\* Mutant: the acknowledge, off for the last byte, is not switched on again.
Mut_StaysUnacknowledged ==
    /\ status["slave"] \in {"ST_DATA_NACK", "ST_LAST_DATA"}
    /\ s' = [s EXCEPT !.twi_state = "READY"]
    /\ twi_reply("slave", FALSE)
    /\ UNCHANGED <<twdr, incoming, handed, owed, answer>>

HandleReplyDone ==
    /\ status["slave"] \in {"ST_DATA_NACK", "ST_LAST_DATA"}
    /\ s' = [s EXCEPT !.twi_state = "READY"]
    /\ twi_reply("slave", TRUE)
    /\ UNCHANGED <<twdr, incoming, handed, owed, answer>>

HandleSlaveBusError ==
    /\ status["slave"] = "BUS_ERROR"
    /\ s' = [s EXCEPT !.twi_state = "READY"]
    /\ twi_reply("slave", TRUE)
    /\ UNCHANGED <<twdr, incoming, handed, owed, answer>>

SlaveHandler ==
    /\ BySlave
    /\ \/ HandlerReturns
       \/ /\ ~s.inHandler
          /\ \/ HandleAddressed \/ HandleData \/ HandleStop \/ HandleFull
             \/ HandleRequest \/ HandleSent \/ HandleReplyDone \/ HandleSlaveBusError

-----------------------------------------------------------------------------
(* The hardware.  Nothing moves on while a node's TWINT is set, except a START *)
(* on a bus that the slave has let go.                                         *)

Signal(atMaster, atSlave) ==
    status' = [status EXCEPT !["master"] = atMaster,
                             !["slave"] = IF atSlave = "none" THEN @ ELSE atSlave]

ByHardware == UNCHANGED <<call, result, s, owed, answer, spoilt, troubles>>

\* A START ends a reception, as a STOP does.
Start ==
    /\ job \in {"start", "restart"}
    /\ role # "none" => status["slave"] = "none"
    /\ Signal(IF job = "start" THEN "START" ELSE "REP_START",
              IF role = "rx" THEN "SR_STOP" ELSE "none")
    /\ job' = "none" /\ role' = "none"
    /\ UNCHANGED <<m, twcr, twdr, incoming, handed, overrun>>

Address ==
    /\ job = "address" /\ status["slave"] = "none"
    /\ job' = "none"
    /\ LET heard == m.slarw.to = "slave" /\ twcr["slave"]
           write == m.slarw.rw = "write"
       IN  IF heard
           THEN /\ Signal(IF write THEN "MT_SLA_ACK" ELSE "MR_SLA_ACK",
                          IF write THEN "SR_SLA_ACK" ELSE "ST_SLA_ACK")
                /\ role' = IF write THEN "rx" ELSE "tx"
                /\ incoming' = IF write THEN call.message ELSE incoming
                /\ handed' = NoMessage
                /\ overrun' = (overrun \/ (write /\ Len(call.message) > BUFFER_LENGTH + 1))
           ELSE /\ Signal(IF write THEN "MT_SLA_NACK" ELSE "MR_SLA_NACK", "none")
                /\ UNCHANGED <<role, incoming, handed, overrun>>
    /\ UNCHANGED <<m, twcr, twdr>>

Send ==
    /\ job = "send" /\ status["slave"] = "none"
    /\ job' = "none"
    /\ CASE role = "rx" /\ twcr["slave"] ->
              /\ Signal("MT_DATA_ACK", "SR_DATA_ACK")
              /\ twdr' = [twdr EXCEPT !["slave"] = twdr["master"]]
              /\ UNCHANGED role
         [] role = "rx" /\ ~twcr["slave"] ->
              /\ Signal("MT_DATA_NACK", "SR_DATA_NACK")
              /\ role' = "none" /\ UNCHANGED twdr
         [] OTHER -> Signal("MT_DATA_NACK", "none") /\ UNCHANGED <<role, twdr>>
    /\ UNCHANGED <<m, twcr, incoming, handed, overrun>>

Receive ==
    /\ job = "receive" /\ status["slave"] = "none"
    /\ job' = "none"
    /\ twdr' = [twdr EXCEPT !["master"] = IF role = "tx" THEN twdr["slave"] ELSE IdleLine]
    /\ Signal(IF twcr["master"] THEN "MR_DATA_ACK" ELSE "MR_DATA_NACK",
              CASE role # "tx" -> "none"
                [] role = "tx" /\ ~twcr["master"] -> "ST_DATA_NACK"
                [] role = "tx" /\ twcr["master"] /\ twcr["slave"] -> "ST_DATA_ACK"
                [] OTHER -> "ST_LAST_DATA")
    /\ role' = IF role = "tx" /\ twcr["master"] /\ twcr["slave"] THEN "tx" ELSE "none"
    /\ UNCHANGED <<m, twcr, incoming, handed, overrun>>

\* The STOP, which twi_stop spins for.
Stop ==
    /\ job = "stop" /\ status["slave"] = "none"
    /\ Signal("none", IF role = "rx" THEN "SR_STOP" ELSE "none")
    /\ job' = "none" /\ role' = "none"
    /\ m' = [m EXCEPT !.twi_state = "READY"]
    /\ UNCHANGED <<twcr, twdr, incoming, handed, overrun>>

Hardware == ByHardware /\ (Start \/ Address \/ Send \/ Receive \/ Stop)

-----------------------------------------------------------------------------
(* Trouble *)

\* An illegal START or STOP, by noise, seen at one end or at both.  A master
\* that sees it alone while the slave drives the data line may never get the
\* bus again: that case is left out.
Noise ==
    /\ troubles < MaxTroubles /\ troubles' = troubles + 1
    /\ job \in {"address", "send", "receive"} /\ status["slave"] = "none"
    /\ \E seen \in (SUBSET Nodes) \ {{}} :
          /\ role = "tx" => seen # {"master"}
          /\ status' = [n \in Nodes |-> IF n \in seen THEN "BUS_ERROR" ELSE status[n]]
          /\ job' = IF "master" \in seen THEN "none" ELSE job
          /\ role' = IF "slave" \in seen THEN "none" ELSE role
    /\ spoilt' = TRUE
    /\ UNCHANGED <<call, result, driver, twcr, twdr, incoming, handed, owed, answer, overrun>>

\* The LifeTester restarts: begin() finds the hardware disabled.
SlaveBegin ==
    /\ troubles < MaxTroubles /\ troubles' = troubles + 1
    /\ s' = SlaveStart
    /\ status' = [status EXCEPT !["slave"] = "none"]
    /\ twcr' = [twcr EXCEPT !["slave"] = TRUE]
    /\ role' = "none" /\ owed' = NoMessage /\ overrun' = FALSE /\ spoilt' = TRUE
    /\ UNCHANGED <<call, result, m, twdr, job, incoming, handed, answer>>

Next ==
    \/ BeginWrite \/ BeginRead \/ Return
    \/ MasterHandler \/ SlaveHandler
    \/ Hardware \/ Noise \/ SlaveBegin

Spec == Init /\ [][Next]_vars

\* The bus has no deadline, but interrupts are served and clocks run; the
\* program that spins for a transfer does nothing else.
FairSpec ==
    /\ Spec
    /\ WF_vars(Return) /\ WF_vars(MasterHandler)
    /\ WF_vars(SlaveHandler) /\ WF_vars(Hardware)

-----------------------------------------------------------------------------
(* Properties *)

\* What the slave has of a message, a byte that it is yet to fetch included.
Received ==
    CASE status["slave"] = "SR_SLA_ACK" -> <<>>
      [] status["slave"] = "SR_DATA_ACK" ->
            UpTo(Append(s.rxBuffer, twdr["slave"]), BUFFER_LENGTH)
      [] OTHER -> s.rxBuffer

\* A message reported as sent (endTransmission returned 0) is either with the
\* receive handler or still in the slave's buffer, complete but for a byte that
\* did not fit (the first such byte is acknowledged), with the STOP or
\* repeated START that hands it over raised or to come: no later transfer
\* overwrites it, and the request handler never runs before it is handed over.
SentMessageIsKept ==
    owed # NoMessage =>
        /\ Received = owed.got
        /\ role = "rx" \/ status["slave"] = "SR_STOP"

\* However a transfer breaks off, what the receive handler is given is the
\* beginning of one message of the master, never bytes of two.
HandlerGetsPrefix ==
    s.inHandler /\ handed # NoMessage => IsPrefix(handed.got, incoming)

\* What requestFrom returns is the reply of the request handler, filled up
\* with idle lines: a master that asks for more than it is sent still ends its
\* read, and cannot tell from the number of bytes.
ReadIsAnswer ==
    call = NoCall /\ result # NoMessage /\ result.kind = "received" =>
        \/ spoilt
        \/ (result.to = "absent" \/ overrun) /\ result.bytes = <<>>
        \/ /\ Len(result.bytes) = result.quantity
           /\ \A i \in 1 .. result.quantity :
                 result.bytes[i] = IF i <= Len(TxBuffer(answer))
                                   THEN TxBuffer(answer)[i] ELSE IdleLine

\* The slave answers to its address whenever it is not in a transfer: no way
\* out of one leaves the acknowledge switched off, but for a message of two
\* bytes more than the buffer, after which it is deaf until it restarts.
SlaveListens ==
    role = "none" /\ status["slave"] = "none" /\ ~overrun => twcr["slave"]

\* Every call of the master comes back, whatever it is answered: the three
\* loops of twi.c that spin without a limit all end.
CallsReturn == (call # NoCall) ~> (call = NoCall)
=============================================================================
