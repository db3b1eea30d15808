--------------------------- MODULE TwoWire_proofs ---------------------------
(***************************************************************************)
(* Proofs about the two-wire library at both ends of the bus: what one end *)
(* reports to its program is what the other end has, for every message,    *)
(* every reply and every length of the buffers.  They rest on one          *)
(* inductive invariant, which says where master and slave are in a         *)
(* transfer and how many bytes each of them has counted.                   *)
(***************************************************************************)
EXTENDS TwoWire, SequenceTheorems, TLAPS

-----------------------------------------------------------------------------
(* The states of the two ends *)

Targets == {"slave", "absent"}

NoBytes == {NoMessage} \cup [got : Seq(Bytes)]

WriteCodes == {"MT_SLA_ACK", "MT_SLA_NACK", "MT_DATA_ACK", "MT_DATA_NACK"}
ReadCodes  == {"MR_SLA_ACK", "MR_SLA_NACK", "MR_DATA_ACK", "MR_DATA_NACK"}

Statuses ==
    {"none", "START", "REP_START", "BUS_ERROR"} \cup WriteCodes \cup ReadCodes \cup
        {"SR_SLA_ACK", "SR_DATA_ACK", "SR_STOP", "SR_DATA_NACK",
         "ST_SLA_ACK", "ST_DATA_ACK", "ST_DATA_NACK", "ST_LAST_DATA"}

CallType ==
    {NoCall} \cup [kind : {"write"}, to : Targets, message : Seq(Bytes)]
             \cup [kind : {"read"}, to : Targets, quantity : Nat \ {0}]

MasterType ==
    [twi_state : {"READY", "MTX", "MRX"}, sendStop : BOOLEAN, inRepStart : BOOLEAN,
     slarw : [to : Targets, rw : {"read", "write"}],
     buffer : Seq(Bytes), index : Nat, length : Nat,
     error : {"none", "MT_SLA_NACK", "MT_DATA_NACK", "BUS_ERROR"}]

SlaveType ==
    [twi_state : {"READY", "SRX", "STX"}, rxBuffer : Seq(Bytes), txBuffer : Seq(Bytes),
     txBufferIndex : Nat, unread : {0}, inHandler : BOOLEAN]

TypeOK ==
    /\ call \in CallType /\ m \in MasterType /\ s \in SlaveType
    /\ twcr \in [Nodes -> BOOLEAN] /\ twdr \in [Nodes -> Bytes]
    /\ status \in [Nodes -> Statuses]
    /\ incoming \in Seq(Bytes) /\ handed \in NoBytes /\ owed \in NoBytes
    /\ answer \in Seq(Bytes) /\ overrun \in BOOLEAN /\ spoilt \in BOOLEAN
    /\ Len(s.rxBuffer) <= BUFFER_LENGTH

\* The master has its hardware do something or has a status to handle; between
\* calls, and until a call that is over has returned, it may keep the bus.
MasterPhase ==
    /\ m.twi_state = "READY" =>
          IF m.inRepStart
          THEN \/ job = "restart" /\ status["master"] = "none"
               \/ job = "none" /\ status["master"] = "REP_START"
          ELSE job = "none" /\ status["master"] = "none"
    /\ m.twi_state # "READY" => ~m.inRepStart /\ (job = "none" <=> status["master"] # "none")
    /\ m.twi_state = "MTX" =>
          /\ call.kind = "write"
          /\ job \in {"none", "start", "address", "send", "stop"}
          /\ status["master"] \in {"none", "START", "BUS_ERROR"} \cup WriteCodes
    /\ m.twi_state = "MRX" =>
          /\ call.kind = "read"
          /\ job \in {"none", "start", "address", "receive", "stop"}
          /\ status["master"] \in {"none", "START", "BUS_ERROR"} \cup ReadCodes
    /\ call = NoCall => m.twi_state = "READY"

\* The address is on its way, or yet to go out.
Before == job \in {"start", "address"} \/ status["master"] = "START"

\* It has been answered, and the transfer is not over.
Transferring ==
    \/ job \in {"send", "receive", "stop"}
    \/ status["master"] \in WriteCodes \cup ReadCodes

WriteCounted ==
    m.twi_state = "MTX" =>
        /\ m.buffer = call.message /\ m.length = Len(call.message)
        /\ m.slarw = [to |-> call.to, rw |-> "write"]
        /\ m.index <= m.length
        /\ Before \/ status["master"] \in {"MT_SLA_ACK", "MT_SLA_NACK"} => m.index = 0
        /\ job # "stop" => m.error = "none"
        /\ job = "stop" /\ m.error = "none" => m.index = m.length
        /\ job = "send" => m.index > 0 /\ twdr["master"] = m.buffer[m.index]

ReadCounted ==
    m.twi_state = "MRX" =>
        /\ m.slarw = [to |-> call.to, rw |-> "read"]
        /\ m.length = call.quantity - 1
        /\ m.index = Len(m.buffer)
        /\ Before \/ status["master"] \in {"MR_SLA_ACK", "MR_SLA_NACK"} => m.buffer = <<>>
        /\ job = "receive" =>
              m.index <= m.length /\ (twcr["master"] <=> m.index < m.length)
        /\ status["master"] = "MR_DATA_ACK" => m.index < m.length
        /\ status["master"] = "MR_DATA_NACK" => m.index = m.length

\* How the slave is addressed, and what its handler has to handle.
SlavePhase ==
    /\ role \in {"none", "rx", "tx"}
    /\ status["slave"] \in {"SR_SLA_ACK", "SR_DATA_ACK"} => role = "rx"
    /\ status["slave"] \in {"ST_SLA_ACK", "ST_DATA_ACK"} => role = "tx"
    /\ status["slave"] \in {"SR_STOP", "SR_DATA_NACK", "ST_DATA_NACK", "ST_LAST_DATA",
                            "BUS_ERROR"} => role = "none"
    /\ status["slave"] \in {"none", "SR_SLA_ACK", "SR_DATA_ACK", "SR_STOP", "SR_DATA_NACK",
                            "ST_SLA_ACK", "ST_DATA_ACK", "ST_DATA_NACK", "ST_LAST_DATA",
                            "BUS_ERROR"}
    /\ s.inHandler => status["slave"] \in {"none", "SR_SLA_ACK", "ST_SLA_ACK", "BUS_ERROR"}
    /\ s.inHandler /\ role = "rx" => status["slave"] = "SR_SLA_ACK"
    /\ s.inHandler /\ role = "tx" => status["slave"] = "ST_SLA_ACK"
    /\ Before \/ status["master"] = "REP_START" => (role # "none" => job = "start")
    /\ role # "none" \/ status["slave"] = "SR_STOP" => handed = NoMessage
    /\ role = "tx" =>
          m.twi_state = "MRX" /\ (job = "receive" \/ status["master"] \in {"MR_SLA_ACK", "MR_DATA_ACK"})

-----------------------------------------------------------------------------
(* A message on its way to the slave *)

\* The bytes that the master has put on the bus and the slave has answered.
Sent == IF job = "send" THEN m.index - 1 ELSE m.index

Begins(buffer, message) ==
    Len(buffer) <= Len(message) /\ \A i \in 1 .. Len(buffer) : buffer[i] = message[i]

\* What the slave has is the beginning of the message, whatever breaks off.
BeginningHeld ==
    role = "rx" \/ status["slave"] = "SR_STOP" => Begins(Received, incoming)

\* Both ends agree on the bytes that have gone over the bus; the acknowledge goes
\* off with the first byte that does not fit.
BytesCounted ==
    role = "rx" /\ Transferring =>
        /\ m.twi_state = "MTX" /\ incoming = call.message
        /\ Len(incoming) > BUFFER_LENGTH + 1 => overrun
        /\ status["slave"] = "SR_SLA_ACK" => Sent = 0
        /\ status["slave"] = "SR_DATA_ACK" => Sent = Len(s.rxBuffer) + 1
        /\ status["slave"] = "none" =>
              IF twcr["slave"] THEN Sent = Len(s.rxBuffer)
              ELSE Sent = Len(s.rxBuffer) + 1 /\ Len(s.rxBuffer) = BUFFER_LENGTH

\* Without trouble an error of the master is all that ends a transfer early.
StillHeard ==
    m.twi_state = "MTX" /\ Transferring /\ ~spoilt
        /\ status["master"] \notin {"MT_SLA_NACK", "MT_DATA_NACK"} /\ m.error = "none"
            => role = "rx"

Kept(message) == [got |-> UpTo(message, BUFFER_LENGTH)]

\* What is about to be reported as sent is with the slave or its handler.
SentIsThere ==
    call.kind = "write" /\ m.twi_state = "READY" /\ m.error = "none" /\ ~spoilt =>
        \/ handed = Kept(call.message)
        \/ /\ Received = UpTo(call.message, BUFFER_LENGTH)
           /\ role = "rx" \/ status["slave"] = "SR_STOP"

\* Nothing is transferred before the handler has got what was sent.
OwedFirst == owed # NoMessage => ~Transferring

\* The acknowledge is off only where it is switched on again.
OverrunOnly == status["slave"] = "SR_DATA_NACK" => overrun

-----------------------------------------------------------------------------
(* A reply on its way to the master *)

\* The bytes that the slave has sent and the master has fetched or is to fetch.
Got == Len(m.buffer) + IF status["master"] \in {"MR_DATA_ACK", "MR_DATA_NACK"} THEN 1 ELSE 0

\* The i-th byte that a master reads.
Expected(i) == IF i <= Len(TxBuffer(answer)) THEN TxBuffer(answer)[i] ELSE IdleLine

ReplyCounted ==
    role = "tx" =>
        /\ status["slave"] = "ST_SLA_ACK" => status["master"] # "MR_DATA_ACK" /\ m.buffer = <<>>
        /\ status["slave"] \in {"none", "ST_DATA_ACK"} => s.txBuffer = TxBuffer(answer)
        /\ status["slave"] = "none" =>
              /\ s.txBufferIndex = Got + 1 /\ Got < Len(s.txBuffer)
              /\ twdr["slave"] = s.txBuffer[Got + 1]
              /\ twcr["slave"] <=> Got + 1 < Len(s.txBuffer)
        /\ status["slave"] = "ST_DATA_ACK" =>
              s.txBufferIndex = Got /\ Got < Len(s.txBuffer)

AllExpected == \A i \in 1 .. Len(m.buffer) : m.buffer[i] = Expected(i)

\* What the master has read so far, and where the slave has stopped.
BytesRead ==
    m.twi_state = "MRX" /\ ~spoilt =>
        /\ AllExpected
        /\ status["master"] \in {"MR_DATA_ACK", "MR_DATA_NACK"} =>
              twdr["master"] = Expected(Len(m.buffer) + 1)
        /\ role # "tx" /\ (job = "receive" \/ status["master"] = "MR_DATA_ACK") =>
              Got >= Len(TxBuffer(answer))
        /\ status["master"] = "MR_SLA_NACK" => call.to = "absent" \/ overrun
        /\ status["master"] = "MR_SLA_ACK" => role = "tx"
        /\ status["master"] # "BUS_ERROR"

ReadIsOver ==
    call.kind = "read" /\ ~spoilt /\ (m.twi_state = "READY" \/ job = "stop") =>
        \/ (call.to = "absent" \/ overrun) /\ m.buffer = <<>>
        \/ Len(m.buffer) = call.quantity /\ AllExpected

Inv ==
    /\ TypeOK /\ MasterPhase /\ WriteCounted /\ ReadCounted /\ SlavePhase
    /\ BeginningHeld /\ BytesCounted /\ StillHeard /\ SentIsThere
    /\ OwedFirst /\ SentMessageIsKept /\ HandlerGetsPrefix
    /\ OverrunOnly /\ SlaveListens
    /\ ReplyCounted /\ BytesRead /\ ReadIsOver /\ ReadIsAnswer

-----------------------------------------------------------------------------
(* The operators *)

LEMMA UpToProperties ==
    ASSUME NEW x \in Seq(Bytes), NEW n \in Nat
    PROVE  /\ UpTo(x, n) \in Seq(Bytes)
           /\ Len(UpTo(x, n)) = IF Len(x) < n THEN Len(x) ELSE n
           /\ \A i \in 1 .. Len(UpTo(x, n)) : UpTo(x, n)[i] = x[i]
           /\ Len(x) <= n => UpTo(x, n) = x
<1> DEFINE k == IF Len(x) < n THEN Len(x) ELSE n
<1>1. k \in 0 .. Len(x) /\ UpTo(x, n) = SubSeq(x, 1, k)
  BY DEF UpTo, MinOf
<1> HIDE DEF k
<1>2. \A i \in 1 .. k : x[i] \in Bytes
  BY <1>1, ElementOfSeq
<1>3. /\ UpTo(x, n) \in Seq(Bytes)
      /\ Len(UpTo(x, n)) = k
      /\ \A i \in 1 .. k : UpTo(x, n)[i] = x[i]
  BY <1>1, <1>2, SubSeqProperties
<1>4. Len(x) <= n => k = Len(x)
  BY DEF k
<1>5. Len(x) <= n => UpTo(x, n) = x
  BY <1>3, <1>4, SeqEqual
<1>6. QED
  BY <1>3, <1>5 DEF k

\* What write() and twi_transmit make of a message and a reply.
LEMMA WrittenType ==
    ASSUME NEW x \in Messages
    PROVE  Written(x) \in Seq(Bytes)
BY UpToProperties, TwoWireAssumption DEF Written

LEMMA TxBufferType ==
    ASSUME NEW x \in Seq(Bytes)
    PROVE  TxBuffer(x) \in Seq(Bytes) /\ Len(TxBuffer(x)) > 0
<1>1. Zero \in Bytes
  BY DEF Zero, Bytes
<1>2. <<Zero>> \in Seq(Bytes) /\ Len(<<Zero>>) = 1
  BY <1>1
<1>3. CASE Len(x) \in 1 .. BUFFER_LENGTH
  BY <1>3, TwoWireAssumption DEF TxBuffer
<1>4. CASE Len(x) \notin 1 .. BUFFER_LENGTH
  BY <1>2, <1>4 DEF TxBuffer
<1>5. QED
  BY <1>3, <1>4

\* What the slave has, status by status.
LEMMA ReceivedCases ==
    ASSUME TypeOK
    PROVE  /\ Received \in Seq(Bytes) /\ Len(Received) <= BUFFER_LENGTH
           /\ status["slave"] = "SR_SLA_ACK" => Received = <<>>
           /\ status["slave"] = "SR_DATA_ACK" /\ Len(s.rxBuffer) < BUFFER_LENGTH =>
                 Received = Append(s.rxBuffer, twdr["slave"])
           /\ status["slave"] = "SR_DATA_ACK" /\ Len(s.rxBuffer) = BUFFER_LENGTH =>
                 Received = s.rxBuffer
           /\ status["slave"] \notin {"SR_SLA_ACK", "SR_DATA_ACK"} => Received = s.rxBuffer
<1> DEFINE b == s.rxBuffer
           a == Append(b, twdr["slave"])
           r == UpTo(a, BUFFER_LENGTH)
<1>1. b \in Seq(Bytes) /\ Len(b) <= BUFFER_LENGTH /\ twdr["slave"] \in Bytes
  BY DEF TypeOK, SlaveType, Nodes
<1> HIDE DEF b
<1>2. /\ a \in Seq(Bytes) /\ Len(a) = Len(b) + 1
      /\ \A i \in 1 .. Len(b) : a[i] = b[i]
  BY <1>1, AppendProperties
<1> HIDE DEF a
<1>3. BUFFER_LENGTH \in Nat
  BY TwoWireAssumption
<1>4. /\ r \in Seq(Bytes) /\ Len(r) <= BUFFER_LENGTH
      /\ Len(b) < BUFFER_LENGTH => r = a
      /\ Len(b) = BUFFER_LENGTH => r = b
  <2>1. /\ r \in Seq(Bytes)
        /\ Len(r) = IF Len(a) < BUFFER_LENGTH THEN Len(a) ELSE BUFFER_LENGTH
        /\ \A i \in 1 .. Len(r) : r[i] = a[i]
        /\ Len(a) <= BUFFER_LENGTH => r = a
    BY <1>2, <1>3, UpToProperties
  <2> HIDE DEF r
  <2>2. ASSUME Len(b) = BUFFER_LENGTH PROVE r = b
    <3>1. Len(r) = Len(b)
      BY <1>2, <1>3, <2>1, <2>2
    <3>2. \A i \in 1 .. Len(r) : r[i] = b[i]
      BY <1>2, <2>1, <3>1
    <3>3. QED
      BY <1>1, <2>1, <3>1, <3>2, SeqEqual
  <2>3. QED
    BY <1>1, <1>2, <1>3, <2>1, <2>2
<1> HIDE DEF r
<1>5. <<>> \in Seq(Bytes) /\ Len(<<>>) = 0
  OBVIOUS
<1>6. CASE status["slave"] = "SR_SLA_ACK"
  BY <1>3, <1>5, <1>6 DEF Received
<1>7. CASE status["slave"] = "SR_DATA_ACK"
  <2>1. Received = r
    BY <1>7 DEF Received, r, a, b
  <2>2. QED
    BY <1>4, <1>7, <2>1 DEF a, b
<1>8. CASE status["slave"] \notin {"SR_SLA_ACK", "SR_DATA_ACK"}
  BY <1>1, <1>8 DEF Received, b
<1>9. QED
  BY <1>6, <1>7, <1>8

LEMMA ReceivedCasesNext ==
    TypeOK' => /\ (Received \in Seq(Bytes))' /\ (Len(Received) <= BUFFER_LENGTH)'
               /\ status'["slave"] = "SR_SLA_ACK" => Received' = <<>>
               /\ status'["slave"] = "SR_DATA_ACK" /\ Len(s'.rxBuffer) < BUFFER_LENGTH =>
                     Received' = Append(s'.rxBuffer, twdr'["slave"])
               /\ status'["slave"] = "SR_DATA_ACK" /\ Len(s'.rxBuffer) = BUFFER_LENGTH =>
                     Received' = s'.rxBuffer
               /\ status'["slave"] \notin {"SR_SLA_ACK", "SR_DATA_ACK"} =>
                     Received' = s'.rxBuffer
<1> DEFINE Cases ==
             /\ Received \in Seq(Bytes) /\ Len(Received) <= BUFFER_LENGTH
             /\ status["slave"] = "SR_SLA_ACK" => Received = <<>>
             /\ status["slave"] = "SR_DATA_ACK" /\ Len(s.rxBuffer) < BUFFER_LENGTH =>
                   Received = Append(s.rxBuffer, twdr["slave"])
             /\ status["slave"] = "SR_DATA_ACK" /\ Len(s.rxBuffer) = BUFFER_LENGTH =>
                   Received = s.rxBuffer
             /\ status["slave"] \notin {"SR_SLA_ACK", "SR_DATA_ACK"} => Received = s.rxBuffer
<1>1. TypeOK => Cases
  BY ReceivedCases
<1>2. TypeOK' => Cases'
  BY <1>1, PTL
<1>3. QED
  BY <1>2

\* The beginning of a message stays one with its next byte.
LEMMA BeginsAppend ==
    ASSUME NEW b \in Seq(Bytes), NEW message \in Seq(Bytes), Begins(b, message),
           Len(b) < Len(message)
    PROVE  Begins(Append(b, message[Len(b) + 1]), message)
<1>1. message[Len(b) + 1] \in Bytes
  BY ElementOfSeq
<1>2. QED
  BY <1>1, AppendProperties DEF Begins

\* A beginning as long as the buffer allows is all that is kept of a message.
LEMMA BeginsAll ==
    ASSUME NEW b \in Seq(Bytes), NEW message \in Seq(Bytes), Begins(b, message),
           Len(b) = IF Len(message) < BUFFER_LENGTH THEN Len(message) ELSE BUFFER_LENGTH
    PROVE  b = UpTo(message, BUFFER_LENGTH)
<1>1. BUFFER_LENGTH \in Nat
  BY TwoWireAssumption
<1>2. /\ UpTo(message, BUFFER_LENGTH) \in Seq(Bytes)
      /\ Len(UpTo(message, BUFFER_LENGTH)) = Len(b)
      /\ \A i \in 1 .. Len(UpTo(message, BUFFER_LENGTH)) :
            UpTo(message, BUFFER_LENGTH)[i] = message[i]
  BY <1>1, UpToProperties
<1>3. \A i \in 1 .. Len(b) : b[i] = UpTo(message, BUFFER_LENGTH)[i]
  BY <1>2 DEF Begins
<1>4. QED
  BY <1>2, <1>3, SeqEqual

LEMMA BeginsPrefix ==
    ASSUME NEW b \in Seq(Bytes), NEW message \in Seq(Bytes), Begins(b, message)
    PROVE  IsPrefix(b, message)
<1>1. \A i \in 1 .. Len(b) : b[i] \in Bytes /\ message[i] \in Bytes
  BY ElementOfSeq DEF Begins
<1>2. /\ SubSeq(b, 1, Len(b)) \in Seq(Bytes) /\ SubSeq(message, 1, Len(b)) \in Seq(Bytes)
      /\ Len(SubSeq(b, 1, Len(b))) = Len(b) /\ Len(SubSeq(message, 1, Len(b))) = Len(b)
      /\ \A i \in 1 .. Len(b) : SubSeq(b, 1, Len(b))[i] = b[i]
      /\ \A i \in 1 .. Len(b) : SubSeq(message, 1, Len(b))[i] = message[i]
  BY <1>1, SubSeqProperties
<1>3. SubSeq(b, 1, Len(b)) = SubSeq(message, 1, Len(b))
  BY <1>2, SeqEqual DEF Begins
<1>4. QED
  BY <1>3 DEF IsPrefix, Begins

-----------------------------------------------------------------------------
(* The master *)

\* What depends on the slave only stays as the slave does.
LEMMA SlaveUntouched ==
    ASSUME Inv, UNCHANGED <<s, role, incoming, handed, owed, answer, overrun>>,
           status'["slave"] = status["slave"], twcr'["slave"] = twcr["slave"],
           twdr'["slave"] = twdr["slave"]
    PROVE  /\ Received' = Received
           /\ BeginningHeld' /\ SentMessageIsKept' /\ HandlerGetsPrefix'
           /\ SlaveListens' /\ OverrunOnly'
<1>1. Received' = Received
  BY DEF Received
<1>2. BeginningHeld' /\ SentMessageIsKept'
  BY <1>1 DEF Inv, BeginningHeld, SentMessageIsKept
<1>3. HandlerGetsPrefix' /\ SlaveListens' /\ OverrunOnly'
  BY DEF Inv, HandlerGetsPrefix, SlaveListens, OverrunOnly
<1>4. QED
  BY <1>1, <1>2, <1>3

\* twi_reply clears the status of its node and sets its acknowledge.
LEMMA ReplyEffect ==
    ASSUME TypeOK, NEW n \in Nodes, NEW ack \in BOOLEAN, twi_reply(n, ack)
    PROVE  /\ twcr' \in [Nodes -> BOOLEAN] /\ status' \in [Nodes -> Statuses]
           /\ twcr'[n] = ack /\ status'[n] = "none"
           /\ \A o \in Nodes \ {n} : twcr'[o] = twcr[o] /\ status'[o] = status[o]
<1>1. twcr' = [twcr EXCEPT ![n] = ack] /\ status' = [status EXCEPT ![n] = "none"]
  BY DEF twi_reply
<1>2. twcr \in [Nodes -> BOOLEAN] /\ status \in [Nodes -> Statuses]
  BY DEF TypeOK
<1>3. "none" \in Statuses
  BY DEF Statuses
<1>4. twcr' \in [Nodes -> BOOLEAN] /\ status' \in [Nodes -> Statuses]
  BY <1>1, <1>2, <1>3
<1>5. twcr'[n] = ack /\ status'[n] = "none"
  BY <1>1, <1>2
<1>6. \A o \in Nodes \ {n} : twcr'[o] = twcr[o] /\ status'[o] = status[o]
  BY <1>1, <1>2
<1>7. QED
  BY <1>4, <1>5, <1>6

LEMMA ReplyOfMaster ==
    ASSUME TypeOK, NEW ack \in BOOLEAN, twi_reply("master", ack)
    PROVE  /\ twcr' \in [Nodes -> BOOLEAN] /\ status' \in [Nodes -> Statuses]
           /\ twcr'["master"] = ack /\ status'["master"] = "none"
           /\ twcr'["slave"] = twcr["slave"] /\ status'["slave"] = status["slave"]
BY ReplyEffect DEF Nodes

LEMMA ReplyOfSlave ==
    ASSUME TypeOK, NEW ack \in BOOLEAN, twi_reply("slave", ack)
    PROVE  /\ twcr' \in [Nodes -> BOOLEAN] /\ status' \in [Nodes -> Statuses]
           /\ twcr'["slave"] = ack /\ status'["slave"] = "none"
           /\ twcr'["master"] = twcr["master"] /\ status'["master"] = status["master"]
BY ReplyEffect DEF Nodes

\* The address follows the START.
LEMMA HandleStartGood ==
    ASSUME Inv, ByMaster, HandleStart
    PROVE  Inv'
<1>1. /\ status["master"] = "START" /\ status'["master"] = "none"
      /\ job' = "address" /\ UNCHANGED <<m, twdr, call, result, s, role, history>>
      /\ status'["slave"] = status["slave"] /\ twcr'["slave"] = twcr["slave"]
  BY ReplyOfMaster DEF Inv, HandleStart, ByMaster
<1>2. TypeOK'
  BY <1>1, ReplyOfMaster DEF Inv, TypeOK, HandleStart, history
<1>3. m.twi_state \in {"MTX", "MRX"} /\ job = "none" /\ ~m.inRepStart
  BY <1>1 DEF Inv, MasterPhase, TypeOK, MasterType
<1>4. role = "none"
  BY <1>1, <1>3 DEF Inv, SlavePhase, Before
<1>5. MasterPhase'
  BY <1>1, <1>3 DEF Inv, MasterPhase
<1>6. WriteCounted' /\ ReadCounted'
  BY <1>1, <1>3 DEF Inv, WriteCounted, ReadCounted, Before, WriteCodes, ReadCodes
<1>7. SlavePhase'
  BY <1>1, <1>4 DEF Inv, SlavePhase, Before, history
<1>8. ~Transferring'
  BY <1>1 DEF Transferring, WriteCodes, ReadCodes
<1>9. BytesCounted' /\ StillHeard' /\ SentIsThere' /\ OwedFirst'
  BY <1>1, <1>3, <1>8 DEF BytesCounted, StillHeard, SentIsThere, OwedFirst
<1>10. ReplyCounted'
  BY <1>1, <1>4 DEF ReplyCounted
<1>11. BytesRead' /\ ReadIsOver' /\ ReadIsAnswer'
  <2>1. AllExpected' <=> AllExpected
    BY <1>1 DEF AllExpected, Expected, history
  <2>2. BytesRead'
    BY <1>1, <2>1 DEF Inv, BytesRead, history
  <2>3. ReadIsOver'
    BY <1>1, <1>3 DEF ReadIsOver
  <2>4. ReadIsAnswer'
    BY <1>1 DEF Inv, ReadIsAnswer, history
  <2>5. QED
    BY <2>2, <2>3, <2>4
<1>12. QED
  BY <1>1, <1>2, <1>5, <1>6, <1>7, <1>9, <1>10, <1>11, SlaveUntouched DEF Inv, history

\* As many bytes are with the slave as it could take.
LEMMA ReceivedLength ==
    ASSUME Inv, role = "rx", Transferring
    PROVE  /\ incoming = call.message /\ m.twi_state = "MTX" /\ Begins(Received, incoming)
           /\ Len(Received) = IF Sent < BUFFER_LENGTH THEN Sent ELSE BUFFER_LENGTH
<1> DEFINE b == Len(s.rxBuffer)
<1>1. /\ b \in Nat /\ b <= BUFFER_LENGTH /\ BUFFER_LENGTH \in Nat
      /\ s.rxBuffer \in Seq(Bytes) /\ twdr["slave"] \in Bytes
  BY TwoWireAssumption DEF Inv, TypeOK, SlaveType, Nodes
<1>2. status["slave"] \in {"none", "SR_SLA_ACK", "SR_DATA_ACK"}
  BY DEF Inv, SlavePhase
<1>3. CASE status["slave"] = "SR_SLA_ACK"
  BY <1>1, <1>3, ReceivedCases DEF Inv, BytesCounted, BeginningHeld
<1>4. CASE status["slave"] = "SR_DATA_ACK"
  <2>1. Sent = b + 1
    BY <1>4 DEF Inv, BytesCounted
  <2>2. b < BUFFER_LENGTH => Len(Received) = b + 1
    BY <1>1, <1>4, ReceivedCases, AppendProperties DEF Inv
  <2>3. b = BUFFER_LENGTH => Len(Received) = b
    BY <1>4, ReceivedCases DEF Inv
  <2>4. Len(Received) = IF Sent < BUFFER_LENGTH THEN Sent ELSE BUFFER_LENGTH
    <3> HIDE DEF b
    <3>1. QED
      BY <1>1, <2>1, <2>2, <2>3
  <2>5. QED
    BY <2>4 DEF Inv, BytesCounted, BeginningHeld
<1>5. CASE status["slave"] = "none"
  <2>1. Received = s.rxBuffer
    BY <1>5, ReceivedCases DEF Inv
  <2>2. Sent = b \/ (Sent = b + 1 /\ b = BUFFER_LENGTH)
    BY <1>5 DEF Inv, BytesCounted
  <2>3. Len(Received) = IF Sent < BUFFER_LENGTH THEN Sent ELSE BUFFER_LENGTH
    BY <1>1, <2>1, <2>2
  <2>4. QED
    BY <2>3 DEF Inv, BytesCounted, BeginningHeld
<1>6. QED
  BY <1>2, <1>3, <1>4, <1>5

LEMMA AllReceived ==
    ASSUME Inv, role = "rx", Transferring, Sent = Len(call.message)
    PROVE  Received = UpTo(call.message, BUFFER_LENGTH)
<1>1. incoming \in Seq(Bytes) /\ Received \in Seq(Bytes)
  BY ReceivedCases DEF Inv, TypeOK
<1>2. QED
  BY <1>1, ReceivedLength, BeginsAll

\* The master in the middle of a write.
LEMMA InWrite ==
    ASSUME Inv, status["master"] \in WriteCodes
    PROVE  /\ m.twi_state = "MTX" /\ job = "none" /\ ~m.inRepStart /\ Transferring
           /\ call.kind = "write" /\ call # NoCall /\ m.error = "none" /\ role # "tx"
           /\ m.buffer = call.message /\ m.length = Len(call.message)
           /\ m.buffer \in Seq(Bytes) /\ m.index \in 0 .. m.length /\ Sent = m.index
           /\ owed = NoMessage
<1>1. m.twi_state = "MTX"
  BY DEF Inv, MasterPhase, TypeOK, MasterType, WriteCodes, ReadCodes
<1>2. job = "none" /\ ~m.inRepStart /\ call.kind = "write" /\ call # NoCall
  BY <1>1 DEF Inv, MasterPhase, WriteCodes, NoCall
<1>3. Transferring
  BY DEF Transferring
<1>4. /\ m.buffer = call.message /\ m.length = Len(call.message) /\ m.error = "none"
      /\ m.buffer \in Seq(Bytes) /\ m.index \in 0 .. m.length
  BY <1>1, <1>2 DEF Inv, WriteCounted, TypeOK, MasterType
<1>5. Sent = m.index /\ role # "tx" /\ owed = NoMessage
  BY <1>1, <1>2, <1>3 DEF Sent, Inv, SlavePhase, OwedFirst
<1>6. QED
  BY <1>1, <1>2, <1>3, <1>4, <1>5

\* What is about reads only does not matter to a write.
LEMMA WriteIsNoRead ==
    ASSUME Inv, call'.kind = "write", m'.twi_state # "MRX", role' # "tx", call' # NoCall
    PROVE  ReadCounted' /\ ReplyCounted' /\ BytesRead' /\ ReadIsOver' /\ ReadIsAnswer'
BY DEF ReadCounted, ReplyCounted, BytesRead, ReadIsOver, ReadIsAnswer

\* The next byte goes out.
LEMMA SendNextGood ==
    ASSUME Inv, ByMaster, HandleWriteAck, m.index < m.length
    PROVE  Inv'
<1>1. /\ status["master"] \in {"MT_SLA_ACK", "MT_DATA_ACK"}
      /\ twdr' = [twdr EXCEPT !["master"] = m.buffer[m.index + 1]]
      /\ m' = [m EXCEPT !.index = @ + 1]
      /\ twi_reply("master", TRUE) /\ job' = "send"
      /\ UNCHANGED <<call, result, s, role, history>>
  BY DEF HandleWriteAck, ByMaster
<1>2. TypeOK /\ m \in MasterType /\ twdr \in [Nodes -> Bytes]
  BY DEF Inv, TypeOK
<1>3. /\ m.twi_state = "MTX" /\ job = "none" /\ ~m.inRepStart /\ Transferring
      /\ call.kind = "write" /\ call # NoCall /\ m.error = "none" /\ role # "tx"
      /\ m.buffer = call.message /\ m.length = Len(call.message)
      /\ m.buffer \in Seq(Bytes) /\ m.index \in 0 .. m.length /\ Sent = m.index
      /\ owed = NoMessage
  BY <1>1, InWrite DEF WriteCodes
<1>4. /\ status'["master"] = "none" /\ status'["slave"] = status["slave"]
      /\ twcr'["slave"] = twcr["slave"]
      /\ twcr' \in [Nodes -> BOOLEAN] /\ status' \in [Nodes -> Statuses]
  BY <1>1, <1>2, ReplyOfMaster
<1>5. m.index + 1 \in 1 .. Len(m.buffer) /\ m.buffer[m.index + 1] \in Bytes
  BY <1>3, ElementOfSeq
<1>6. /\ twdr' \in [Nodes -> Bytes] /\ twdr'["master"] = m.buffer[m.index + 1]
      /\ twdr'["slave"] = twdr["slave"]
  BY <1>1, <1>2, <1>5 DEF Nodes
<1>7. /\ m' \in MasterType /\ m'.index = m.index + 1 /\ m'.length = m.length
      /\ m'.buffer = m.buffer /\ m'.twi_state = m.twi_state /\ m'.inRepStart = m.inRepStart
      /\ m'.slarw = m.slarw /\ m'.error = m.error
  BY <1>1, <1>2, SMTT(20) DEF MasterType
<1>8. TypeOK'
  BY <1>1, <1>2, <1>4, <1>6, <1>7 DEF TypeOK, history
<1>9. MasterPhase'
  BY <1>1, <1>3, <1>4, <1>7 DEF MasterPhase
<1>10. WriteCounted'
  BY <1>1, <1>3, <1>4, <1>5, <1>6, <1>7 DEF Inv, WriteCounted, Before
<1>11. SlavePhase'
  BY <1>1, <1>3, <1>4 DEF Inv, SlavePhase, Before, history
<1>12. Sent' = Sent
  BY <1>1, <1>3, <1>7 DEF Sent
<1>13. BytesCounted'
  BY <1>1, <1>3, <1>4, <1>7, <1>12 DEF Inv, BytesCounted, history
<1>14. StillHeard'
  BY <1>1, <1>3, <1>4, <1>7 DEF Inv, StillHeard, history
<1>15. SentIsThere' /\ OwedFirst'
  BY <1>1, <1>3, <1>7 DEF SentIsThere, OwedFirst, history
<1>16. QED
  BY <1>1, <1>3, <1>4, <1>6, <1>7, <1>8, <1>9, <1>10, <1>11, <1>13, <1>14, <1>15,
     SlaveUntouched, WriteIsNoRead DEF Inv, history

\* The message is out: the bus is released, or kept for the next call.
LEMMA EndWriteGood ==
    ASSUME Inv, ByMaster, HandleWriteAck, ~(m.index < m.length)
    PROVE  Inv'
<1>1. /\ status["master"] \in {"MT_SLA_ACK", "MT_DATA_ACK"}
      /\ EndTransfer(m)
      /\ UNCHANGED <<twdr, call, result, s, role, history>>
  BY DEF HandleWriteAck, ByMaster
<1>2. TypeOK /\ m \in MasterType
  BY DEF Inv, TypeOK
<1>3. /\ m.twi_state = "MTX" /\ job = "none" /\ ~m.inRepStart /\ Transferring
      /\ call.kind = "write" /\ call # NoCall /\ m.error = "none" /\ role # "tx"
      /\ m.buffer = call.message /\ m.length = Len(call.message)
      /\ m.buffer \in Seq(Bytes) /\ m.index \in 0 .. m.length /\ Sent = m.index
      /\ owed = NoMessage
  BY <1>1, InWrite DEF WriteCodes
<1>4. m.index = m.length
  BY <1>3
<1>5. ~spoilt => role = "rx"
  BY <1>1, <1>3 DEF Inv, StillHeard
<1>6. CASE m.sendStop
  <2>1. m' = m /\ twi_reply("master", TRUE) /\ job' = "stop"
    BY <1>1, <1>6 DEF EndTransfer, twi_stop
  <2>2. /\ status'["master"] = "none" /\ status'["slave"] = status["slave"]
        /\ twcr'["slave"] = twcr["slave"]
        /\ twcr' \in [Nodes -> BOOLEAN] /\ status' \in [Nodes -> Statuses]
    BY <1>2, <2>1, ReplyOfMaster
  <2>3. TypeOK'
    BY <1>1, <1>2, <2>1, <2>2 DEF TypeOK, history
  <2>4. MasterPhase' /\ WriteCounted'
    BY <1>1, <1>3, <1>4, <2>1, <2>2 DEF Inv, MasterPhase, WriteCounted, Before
  <2>5. SlavePhase' /\ Sent' = Sent
    BY <1>1, <1>3, <2>1, <2>2 DEF Inv, SlavePhase, Before, history, Sent
  <2>6. BytesCounted' /\ StillHeard'
    BY <1>1, <1>3, <1>5, <2>1, <2>2, <2>5 DEF Inv, BytesCounted, StillHeard, history
  <2>7. SentIsThere' /\ OwedFirst'
    BY <1>1, <1>3, <2>1 DEF SentIsThere, OwedFirst, history
  <2>8. QED
    BY <1>1, <1>3, <2>1, <2>2, <2>3, <2>4, <2>5, <2>6, <2>7, SlaveUntouched, WriteIsNoRead
       DEF Inv, history
<1>7. CASE ~m.sendStop
  <2>1. /\ m' = [m EXCEPT !.inRepStart = TRUE, !.twi_state = "READY"]
        /\ twi_reply("master", FALSE) /\ job' = "restart"
    BY <1>1, <1>7 DEF EndTransfer, RepeatStart
  <2>2. /\ status'["master"] = "none" /\ status'["slave"] = status["slave"]
        /\ twcr'["slave"] = twcr["slave"]
        /\ twcr' \in [Nodes -> BOOLEAN] /\ status' \in [Nodes -> Statuses]
    BY <1>2, <2>1, ReplyOfMaster
  <2>3. m' \in MasterType /\ m'.twi_state = "READY" /\ m'.inRepStart = TRUE /\ m'.error = m.error
    BY <1>2, <2>1 DEF MasterType
  <2>4. TypeOK'
    BY <1>1, <1>2, <2>2, <2>3 DEF TypeOK, history
  <2>5. MasterPhase' /\ WriteCounted'
    BY <1>1, <1>3, <2>1, <2>2, <2>3 DEF MasterPhase, WriteCounted
  <2>6. SlavePhase' /\ ~Transferring'
    BY <1>1, <1>3, <2>1, <2>2, <2>3
       DEF Inv, SlavePhase, Before, history, Transferring, WriteCodes, ReadCodes
  <2>7. BytesCounted' /\ StillHeard' /\ OwedFirst'
    BY <2>6 DEF BytesCounted, StillHeard, OwedFirst
  <2>8. SentIsThere'
    <3>1. Received' = Received
      BY <1>1, <2>2 DEF Received
    <3>2. ~spoilt => Received = UpTo(call.message, BUFFER_LENGTH)
      BY <1>3, <1>4, <1>5, AllReceived
    <3>3. QED
      BY <1>1, <1>5, <3>1, <3>2 DEF SentIsThere, history
  <2>9. QED
    BY <1>1, <1>3, <2>2, <2>3, <2>4, <2>5, <2>6, <2>7, <2>8, SlaveUntouched, WriteIsNoRead
       DEF Inv, history
<1>8. QED
  BY <1>6, <1>7

\* An address or a byte is not acknowledged: the call will return the error.
LEMMA HandleWriteNackGood ==
    ASSUME Inv, ByMaster, HandleWriteNack
    PROVE  Inv'
<1>1. /\ status["master"] \in {"MT_SLA_NACK", "MT_DATA_NACK"}
      /\ m' = [m EXCEPT !.error = status["master"]]
      /\ twi_reply("master", TRUE) /\ job' = "stop"
      /\ UNCHANGED <<twdr, call, result, s, role, history>>
  BY DEF HandleWriteNack, twi_stop, ByMaster
<1>2. TypeOK /\ m \in MasterType
  BY DEF Inv, TypeOK
<1>3. /\ m.twi_state = "MTX" /\ job = "none" /\ ~m.inRepStart /\ Transferring
      /\ call.kind = "write" /\ call # NoCall /\ m.error = "none" /\ role # "tx"
      /\ m.buffer = call.message /\ m.length = Len(call.message)
      /\ m.buffer \in Seq(Bytes) /\ m.index \in 0 .. m.length /\ Sent = m.index
      /\ owed = NoMessage
  BY <1>1, InWrite DEF WriteCodes
<1>4. /\ status'["master"] = "none" /\ status'["slave"] = status["slave"]
      /\ twcr'["slave"] = twcr["slave"]
      /\ twcr' \in [Nodes -> BOOLEAN] /\ status' \in [Nodes -> Statuses]
  BY <1>1, <1>2, ReplyOfMaster
<1>5. /\ m' \in MasterType /\ m'.index = m.index /\ m'.length = m.length
      /\ m'.buffer = m.buffer /\ m'.twi_state = m.twi_state /\ m'.inRepStart = m.inRepStart
      /\ m'.slarw = m.slarw /\ m'.error # "none"
  BY <1>1, <1>2 DEF MasterType
<1>6. TypeOK'
  BY <1>1, <1>2, <1>4, <1>5 DEF TypeOK, history
<1>7. MasterPhase' /\ WriteCounted'
  BY <1>1, <1>3, <1>4, <1>5 DEF Inv, MasterPhase, WriteCounted, Before
<1>8. SlavePhase' /\ Sent' = Sent
  BY <1>1, <1>3, <1>4, <1>5 DEF Inv, SlavePhase, Before, history, Sent
<1>9. BytesCounted'
  BY <1>1, <1>3, <1>4, <1>5, <1>8 DEF Inv, BytesCounted, history
<1>10. StillHeard' /\ SentIsThere' /\ OwedFirst'
  BY <1>1, <1>3, <1>5 DEF StillHeard, SentIsThere, OwedFirst, history
<1>11. QED
  BY <1>1, <1>3, <1>4, <1>5, <1>6, <1>7, <1>8, <1>9, <1>10, SlaveUntouched, WriteIsNoRead
     DEF Inv, history

\* The master in the middle of a read.
LEMMA InRead ==
    ASSUME Inv, status["master"] \in ReadCodes
    PROVE  /\ m.twi_state = "MRX" /\ job = "none" /\ ~m.inRepStart /\ Transferring
           /\ call.kind = "read" /\ call # NoCall /\ role # "rx" /\ owed = NoMessage
           /\ call.quantity \in Nat \ {0}
           /\ m.slarw = [to |-> call.to, rw |-> "read"]
           /\ m.length = call.quantity - 1 /\ m.index = Len(m.buffer)
           /\ m.buffer \in Seq(Bytes) /\ Len(m.buffer) \in Nat
<1>1. m.twi_state = "MRX"
  BY DEF Inv, MasterPhase, TypeOK, MasterType, WriteCodes, ReadCodes
<1>2. job = "none" /\ ~m.inRepStart /\ call.kind = "read" /\ call # NoCall
  BY <1>1 DEF Inv, MasterPhase, ReadCodes, NoCall
<1>3. Transferring
  BY DEF Transferring
<1>4. role # "rx" /\ owed = NoMessage
  BY <1>1, <1>3 DEF Inv, BytesCounted, OwedFirst
<1>5. call.quantity \in Nat \ {0}
  BY <1>2 DEF Inv, TypeOK, CallType
<1>6. m.buffer \in Seq(Bytes) /\ Len(m.buffer) \in Nat
  BY LenProperties DEF Inv, TypeOK, MasterType
<1>7. /\ m.slarw = [to |-> call.to, rw |-> "read"]
      /\ m.length = call.quantity - 1 /\ m.index = Len(m.buffer)
  BY <1>1 DEF Inv, ReadCounted
<1>8. QED
  BY <1>1, <1>2, <1>3, <1>4, <1>5, <1>6, <1>7

\* What is about writes only does not matter to a read.
LEMMA ReadIsNoWrite ==
    ASSUME call'.kind = "read", m'.twi_state # "MTX", role' # "rx", owed' = NoMessage,
           call' # NoCall
    PROVE  /\ WriteCounted' /\ BytesCounted' /\ StillHeard' /\ SentIsThere' /\ OwedFirst'
           /\ ReadIsAnswer'
BY DEF WriteCounted, BytesCounted, StillHeard, SentIsThere, OwedFirst, ReadIsAnswer

\* The acknowledge tells the slave whether more bytes are wanted.
LEMMA MoreIsAcknowledged ==
    ASSUME TypeOK, HandleReadAck
    PROVE  /\ status'["master"] = "none" /\ status'["slave"] = status["slave"]
           /\ twcr'["slave"] = twcr["slave"] /\ (twcr'["master"] <=> m'.index < m.length)
           /\ twcr' \in [Nodes -> BOOLEAN] /\ status' \in [Nodes -> Statuses]
<1> DEFINE More == m'.index < m.length
<1>1. twi_reply("master", More)
  BY DEF HandleReadAck
<1> HIDE DEF More
<1>2. CASE More
  <2>1. More = TRUE
    BY <1>2
  <2>2. twi_reply("master", TRUE)
    BY <1>1, <2>1
  <2>3. QED
    BY <1>2, <2>2, ReplyOfMaster DEF More
<1>3. CASE ~More
  <2>1. More = FALSE
    BY <1>3
  <2>2. twi_reply("master", FALSE)
    BY <1>1, <2>1
  <2>3. QED
    BY <1>3, <2>2, ReplyOfMaster DEF More
<1>4. QED
  BY <1>2, <1>3

\* The address is acknowledged: the first byte is asked for.
LEMMA FirstByteGood ==
    ASSUME Inv, ByMaster, HandleReadAck, status["master"] = "MR_SLA_ACK"
    PROVE  Inv'
<1>1. /\ m' = m /\ twi_reply("master", m.index < m.length) /\ job' = "receive"
      /\ UNCHANGED <<twdr, call, result, s, role, history>>
  BY DEF HandleReadAck, ByMaster
<1>2. TypeOK /\ m \in MasterType
  BY DEF Inv, TypeOK
<1>3. /\ m.twi_state = "MRX" /\ job = "none" /\ ~m.inRepStart /\ Transferring
      /\ call.kind = "read" /\ call # NoCall /\ role # "rx" /\ owed = NoMessage
      /\ call.quantity \in Nat \ {0}
      /\ m.slarw = [to |-> call.to, rw |-> "read"]
      /\ m.length = call.quantity - 1 /\ m.index = Len(m.buffer)
      /\ m.buffer \in Seq(Bytes) /\ Len(m.buffer) \in Nat
  BY InRead DEF ReadCodes
<1>4. m.buffer = <<>> /\ m.index = 0
  BY <1>3 DEF Inv, ReadCounted
<1>5. /\ status'["master"] = "none" /\ status'["slave"] = status["slave"]
      /\ twcr'["slave"] = twcr["slave"] /\ (twcr'["master"] <=> m.index < m.length)
      /\ twcr' \in [Nodes -> BOOLEAN] /\ status' \in [Nodes -> Statuses]
  BY <1>1, <1>2, MoreIsAcknowledged
<1>6. TypeOK'
  BY <1>1, <1>2, <1>5 DEF TypeOK, history
<1>7. MasterPhase'
  BY <1>1, <1>3, <1>5 DEF MasterPhase
<1>8. ReadCounted'
  BY <1>1, <1>3, <1>4, <1>5 DEF ReadCounted
<1>9. SlavePhase'
  BY <1>1, <1>3, <1>5 DEF Inv, SlavePhase, Before, history
<1>10. Got' = Got
  BY <1>1, <1>5 DEF Got
<1>11. ReplyCounted'
  BY <1>1, <1>5, <1>10 DEF Inv, ReplyCounted, history
<1>12. AllExpected' <=> AllExpected
  BY <1>1 DEF AllExpected, Expected, history
<1>13. BytesRead'
  BY <1>1, <1>3, <1>5, <1>12 DEF Inv, BytesRead, history
<1>14. ReadIsOver'
  BY <1>1, <1>3 DEF ReadIsOver
<1>15. QED
  BY <1>1, <1>3, <1>5, <1>6, <1>7, <1>8, <1>9, <1>11, <1>13, <1>14, SlaveUntouched,
     ReadIsNoWrite DEF Inv, history

\* A byte is put into the buffer.
LEMMA ByteIsKept ==
    ASSUME Inv, status["master"] \in {"MR_DATA_ACK", "MR_DATA_NACK"},
           m'.buffer = Append(m.buffer, twdr["master"]), answer' = answer
    PROVE  /\ m'.buffer \in Seq(Bytes) /\ Len(m'.buffer) = Len(m.buffer) + 1
           /\ Len(m'.buffer) = Got
           /\ ~spoilt => AllExpected'
<1>1. /\ m.buffer \in Seq(Bytes) /\ Len(m.buffer) \in Nat /\ twdr["master"] \in Bytes
      /\ m.twi_state = "MRX"
  BY InRead DEF Inv, TypeOK, Nodes, ReadCodes
<1>2. /\ m'.buffer \in Seq(Bytes) /\ Len(m'.buffer) = Len(m.buffer) + 1
      /\ m'.buffer[Len(m.buffer) + 1] = twdr["master"]
      /\ \A i \in 1 .. Len(m.buffer) : m'.buffer[i] = m.buffer[i]
  BY <1>1, AppendProperties
<1>3. ASSUME ~spoilt PROVE AllExpected'
  <2>1. AllExpected /\ twdr["master"] = Expected(Len(m.buffer) + 1)
    BY <1>1, <1>3 DEF Inv, BytesRead
  <2>2. \A i : Expected(i)' = Expected(i)
    BY DEF Expected
  <2>3. \A i \in 1 .. Len(m.buffer) + 1 : m'.buffer[i] = Expected(i)
    BY <1>1, <1>2, <2>1 DEF AllExpected
  <2>4. QED
    BY <1>2, <2>2, <2>3 DEF AllExpected
<1>4. QED
  BY <1>1, <1>2, <1>3 DEF Got

\* A byte has come and another is asked for.
LEMMA NextByteGood ==
    ASSUME Inv, ByMaster, HandleReadAck, status["master"] = "MR_DATA_ACK"
    PROVE  Inv'
<1>1. /\ m' = [m EXCEPT !.buffer = Append(@, twdr["master"]), !.index = @ + 1]
      /\ twi_reply("master", m'.index < m.length) /\ job' = "receive"
      /\ UNCHANGED <<twdr, call, result, s, role, history>>
  BY DEF HandleReadAck, ByMaster
<1>2. TypeOK /\ m \in MasterType
  BY DEF Inv, TypeOK
<1>3. /\ m.twi_state = "MRX" /\ job = "none" /\ ~m.inRepStart /\ Transferring
      /\ call.kind = "read" /\ call # NoCall /\ role # "rx" /\ owed = NoMessage
      /\ call.quantity \in Nat \ {0}
      /\ m.slarw = [to |-> call.to, rw |-> "read"]
      /\ m.length = call.quantity - 1 /\ m.index = Len(m.buffer)
      /\ m.buffer \in Seq(Bytes) /\ Len(m.buffer) \in Nat
  BY InRead DEF ReadCodes
<1>4. m.index < m.length
  BY <1>3 DEF Inv, ReadCounted
<1>5. /\ m'.buffer = Append(m.buffer, twdr["master"]) /\ m'.index = m.index + 1
      /\ m'.length = m.length /\ m'.twi_state = m.twi_state /\ m'.slarw = m.slarw
      /\ m'.inRepStart = m.inRepStart
  BY <1>1, <1>2 DEF MasterType
<1>6. /\ m'.buffer \in Seq(Bytes) /\ Len(m'.buffer) = Len(m.buffer) + 1
      /\ Len(m'.buffer) = Got
      /\ ~spoilt => AllExpected'
  BY <1>1, <1>5, ByteIsKept DEF history
<1>7. m' \in MasterType
  <2>1. Append(m.buffer, twdr["master"]) \in Seq(Bytes) /\ m.index + 1 \in Nat
    BY <1>2, <1>5, <1>6 DEF MasterType
  <2>2. QED
    BY <1>1, <1>2, <2>1 DEF MasterType
<1>8. /\ status'["master"] = "none" /\ status'["slave"] = status["slave"]
      /\ twcr'["slave"] = twcr["slave"] /\ (twcr'["master"] <=> m'.index < m.length)
      /\ twcr' \in [Nodes -> BOOLEAN] /\ status' \in [Nodes -> Statuses]
  BY <1>1, <1>2, MoreIsAcknowledged
<1>9. TypeOK'
  BY <1>1, <1>2, <1>7, <1>8 DEF TypeOK, history
<1>10. MasterPhase'
  BY <1>1, <1>3, <1>5, <1>8 DEF MasterPhase
<1>11. ReadCounted'
  BY <1>1, <1>3, <1>4, <1>5, <1>6, <1>8 DEF ReadCounted, Before
<1>12. SlavePhase'
  BY <1>1, <1>3, <1>5, <1>8 DEF Inv, SlavePhase, Before, history
<1>13. Got' = Got
  BY <1>6, <1>8 DEF Got
<1>14. ReplyCounted'
  BY <1>1, <1>8, <1>13 DEF Inv, ReplyCounted, history
<1>15. BytesRead'
  BY <1>1, <1>3, <1>5, <1>6, <1>8, <1>13 DEF Inv, BytesRead, history
<1>16. ReadIsOver'
  BY <1>1, <1>3, <1>5 DEF ReadIsOver
<1>17. QED
  BY <1>1, <1>3, <1>5, <1>8, <1>9, <1>10, <1>11, <1>12, <1>14, <1>15, <1>16,
     SlaveUntouched, ReadIsNoWrite DEF Inv, history

\* The last byte has come: the read is over.
LEMMA HandleLastByteGood ==
    ASSUME Inv, ByMaster, HandleLastByte
    PROVE  Inv'
<1> DEFINE d == [m EXCEPT !.buffer = Append(@, twdr["master"]), !.index = @ + 1]
<1>1. /\ status["master"] = "MR_DATA_NACK" /\ EndTransfer(d)
      /\ UNCHANGED <<twdr, call, result, s, role, history>>
  BY DEF HandleLastByte, ByMaster
<1>2. TypeOK /\ m \in MasterType
  BY DEF Inv, TypeOK
<1>3. /\ m.twi_state = "MRX" /\ job = "none" /\ ~m.inRepStart /\ Transferring
      /\ call.kind = "read" /\ call # NoCall /\ role # "rx" /\ owed = NoMessage
      /\ call.quantity \in Nat \ {0}
      /\ m.slarw = [to |-> call.to, rw |-> "read"]
      /\ m.length = call.quantity - 1 /\ m.index = Len(m.buffer)
      /\ m.buffer \in Seq(Bytes) /\ Len(m.buffer) \in Nat
  BY <1>1, InRead DEF ReadCodes
<1>4. m.index = m.length /\ role = "none"
  BY <1>1, <1>3 DEF Inv, ReadCounted, SlavePhase
<1>5. /\ d.buffer = Append(m.buffer, twdr["master"]) /\ d.index = m.index + 1
      /\ d.length = m.length /\ d.twi_state = m.twi_state /\ d.slarw = m.slarw
      /\ d.inRepStart = m.inRepStart /\ d \in MasterType
  <2>1. twdr["master"] \in Bytes
    BY <1>2 DEF TypeOK, Nodes
  <2>2. Append(m.buffer, twdr["master"]) \in Seq(Bytes) /\ m.index + 1 \in Nat
    BY <1>2, <1>3, <2>1 DEF MasterType
  <2>3. QED
    BY <1>2, <2>2 DEF MasterType
<1> HIDE DEF d
<1>6. /\ \/ m' = d /\ job' = "stop" /\ twi_reply("master", TRUE)
         \/ /\ m' = [d EXCEPT !.inRepStart = TRUE, !.twi_state = "READY"]
            /\ job' = "restart" /\ twi_reply("master", FALSE)
  BY <1>1 DEF EndTransfer, twi_stop, RepeatStart
<1>7. /\ status'["master"] = "none" /\ status'["slave"] = status["slave"]
      /\ twcr'["slave"] = twcr["slave"]
      /\ twcr' \in [Nodes -> BOOLEAN] /\ status' \in [Nodes -> Statuses]
  BY <1>2, <1>6, ReplyOfMaster
<1>8. /\ m' \in MasterType /\ m'.buffer = d.buffer /\ m'.index = d.index
      /\ m'.length = m.length /\ m'.slarw = m.slarw
      /\ \/ job' = "stop" /\ m'.twi_state = "MRX" /\ ~m'.inRepStart
         \/ job' = "restart" /\ m'.twi_state = "READY" /\ m'.inRepStart
  BY <1>3, <1>5, <1>6 DEF MasterType
<1>9. /\ Len(m'.buffer) = call.quantity
      /\ ~spoilt => AllExpected'
  BY <1>1, <1>3, <1>4, <1>5, <1>8, ByteIsKept DEF history
<1>10. TypeOK'
  BY <1>1, <1>2, <1>7, <1>8 DEF TypeOK, history
<1>11. MasterPhase'
  BY <1>1, <1>3, <1>7, <1>8 DEF MasterPhase
<1>12. ReadCounted'
  BY <1>1, <1>3, <1>5, <1>7, <1>8, <1>9 DEF ReadCounted, Before
<1>13. SlavePhase'
  BY <1>1, <1>4, <1>7, <1>8 DEF Inv, SlavePhase, Before, history
<1>14. ReplyCounted'
  BY <1>1, <1>4 DEF ReplyCounted
<1>15. BytesRead' /\ ReadIsOver'
  BY <1>1, <1>7, <1>8, <1>9 DEF BytesRead, ReadIsOver, history
<1>16. QED
  BY <1>1, <1>3, <1>7, <1>8, <1>10, <1>11, <1>12, <1>13, <1>14, <1>15,
     SlaveUntouched, ReadIsNoWrite DEF Inv, history

\* Nobody answers to the address: there is nothing to read.
LEMMA HandleReadNackGood ==
    ASSUME Inv, ByMaster, HandleReadNack
    PROVE  Inv'
<1>1. /\ status["master"] = "MR_SLA_NACK" /\ twi_reply("master", TRUE) /\ job' = "stop"
      /\ UNCHANGED <<m, twdr, call, result, s, role, history>>
  BY DEF HandleReadNack, ByMaster, twi_stop
<1>2. TypeOK /\ m \in MasterType
  BY DEF Inv, TypeOK
<1>3. /\ m.twi_state = "MRX" /\ job = "none" /\ ~m.inRepStart /\ Transferring
      /\ call.kind = "read" /\ call # NoCall /\ role # "rx" /\ owed = NoMessage
      /\ call.quantity \in Nat \ {0}
      /\ m.slarw = [to |-> call.to, rw |-> "read"]
      /\ m.length = call.quantity - 1 /\ m.index = Len(m.buffer)
      /\ m.buffer \in Seq(Bytes) /\ Len(m.buffer) \in Nat
  BY <1>1, InRead DEF ReadCodes
<1>4. m.buffer = <<>> /\ role = "none"
  BY <1>1, <1>3 DEF Inv, ReadCounted, SlavePhase
<1>5. /\ status'["master"] = "none" /\ status'["slave"] = status["slave"]
      /\ twcr'["slave"] = twcr["slave"]
      /\ twcr' \in [Nodes -> BOOLEAN] /\ status' \in [Nodes -> Statuses]
  BY <1>1, <1>2, ReplyOfMaster
<1>6. TypeOK'
  BY <1>1, <1>2, <1>5 DEF TypeOK, history
<1>7. MasterPhase' /\ ReadCounted'
  BY <1>1, <1>3, <1>5 DEF MasterPhase, ReadCounted, Before
<1>8. SlavePhase' /\ ReplyCounted'
  BY <1>1, <1>3, <1>4, <1>5 DEF Inv, SlavePhase, ReplyCounted, Before, history
<1>9. AllExpected' <=> AllExpected
  BY <1>1 DEF AllExpected, Expected, history
<1>10. BytesRead' /\ ReadIsOver'
  BY <1>1, <1>3, <1>4, <1>5, <1>9 DEF Inv, BytesRead, ReadIsOver, history
<1>11. QED
  BY <1>1, <1>3, <1>5, <1>6, <1>7, <1>8, <1>10, SlaveUntouched, ReadIsNoWrite DEF Inv, history

\* A bus error ends the transfer for the master; the slave may not know.
LEMMA HandleBusErrorGood ==
    ASSUME Inv, ByMaster, HandleBusError
    PROVE  Inv'
<1>1. /\ status["master"] = "BUS_ERROR"
      /\ m' = [m EXCEPT !.error = "BUS_ERROR", !.twi_state = "READY"]
      /\ twi_reply("master", TRUE) /\ job' = "none"
      /\ UNCHANGED <<twdr, call, result, s, role, history>>
  BY DEF HandleBusError, ByMaster
<1>2. TypeOK /\ m \in MasterType
  BY DEF Inv, TypeOK
<1>3. /\ m.twi_state # "READY" /\ job = "none" /\ ~m.inRepStart /\ call # NoCall
      /\ role # "tx"
  BY <1>1, <1>2 DEF Inv, MasterPhase, SlavePhase, MasterType
<1>4. /\ status'["master"] = "none" /\ status'["slave"] = status["slave"]
      /\ twcr'["slave"] = twcr["slave"]
      /\ twcr' \in [Nodes -> BOOLEAN] /\ status' \in [Nodes -> Statuses]
  BY <1>1, <1>2, ReplyOfMaster
<1>5. /\ m' \in MasterType /\ m'.twi_state = "READY" /\ m'.inRepStart = m.inRepStart
      /\ m'.error = "BUS_ERROR"
  BY <1>1, <1>2 DEF MasterType
<1>6. TypeOK'
  BY <1>1, <1>2, <1>4, <1>5 DEF TypeOK, history
<1>7. MasterPhase' /\ WriteCounted' /\ ReadCounted'
  BY <1>1, <1>3, <1>4, <1>5 DEF MasterPhase, WriteCounted, ReadCounted
<1>8. SlavePhase' /\ ~Transferring'
  BY <1>1, <1>3, <1>4, <1>5
     DEF Inv, SlavePhase, Before, history, Transferring, WriteCodes, ReadCodes
<1>9. BytesCounted' /\ StillHeard' /\ SentIsThere' /\ OwedFirst'
  BY <1>5, <1>8 DEF BytesCounted, StillHeard, SentIsThere, OwedFirst
<1>10. ReplyCounted' /\ BytesRead' /\ ReadIsAnswer'
  BY <1>1, <1>3, <1>5 DEF ReplyCounted, BytesRead, ReadIsAnswer
<1>11. ReadIsOver'
  <2>1. call.kind = "read" => m.twi_state = "MRX"
    BY <1>2, <1>3 DEF Inv, MasterPhase, MasterType
  <2>2. call.kind = "read" => spoilt
    BY <1>1, <2>1 DEF Inv, BytesRead
  <2>3. QED
    BY <1>1, <2>2 DEF ReadIsOver, history
<1>12. QED
  BY <1>1, <1>4, <1>6, <1>7, <1>8, <1>9, <1>10, <1>11, SlaveUntouched DEF Inv, history

LEMMA MasterGood ==
    ASSUME Inv, MasterHandler
    PROVE  Inv'
<1>1. CASE HandleWriteAck
  BY <1>1, SendNextGood, EndWriteGood DEF MasterHandler
<1>2. CASE HandleReadAck
  <2>1. status["master"] \in {"MR_SLA_ACK", "MR_DATA_ACK"}
    BY <1>2 DEF HandleReadAck
  <2>2. QED
    BY <1>2, <2>1, FirstByteGood, NextByteGood DEF MasterHandler
<1>3. QED
  BY <1>1, <1>2, HandleStartGood, HandleWriteNackGood, HandleLastByteGood,
     HandleReadNackGood, HandleBusErrorGood DEF MasterHandler

-----------------------------------------------------------------------------
(* The slave *)

\* What depends on the master only stays as the master does.
LEMMA MasterUntouched ==
    ASSUME Inv, BySlave, status'["master"] = status["master"],
           twcr'["master"] = twcr["master"], twdr'["master"] = twdr["master"],
           owed' \in {owed, NoMessage}
    PROVE  /\ MasterPhase' /\ WriteCounted' /\ ReadCounted' /\ StillHeard' /\ OwedFirst'
           /\ (Transferring' <=> Transferring) /\ (Before' <=> Before)
           /\ Sent' = Sent /\ Got' = Got
<1>1. UNCHANGED <<call, result, m, job, role, overrun, spoilt, troubles>>
  BY DEF BySlave
<1>2. (Transferring' <=> Transferring) /\ (Before' <=> Before)
  BY <1>1 DEF Transferring, Before
<1>3. Sent' = Sent /\ Got' = Got
  BY <1>1 DEF Sent, Got
<1>4. MasterPhase' /\ WriteCounted' /\ ReadCounted'
  BY <1>1, <1>2 DEF Inv, MasterPhase, WriteCounted, ReadCounted
<1>5. StillHeard' /\ OwedFirst'
  BY <1>1, <1>2 DEF Inv, StillHeard, OwedFirst
<1>6. QED
  BY <1>2, <1>3, <1>4, <1>5

LEMMA ReadUntouched ==
    ASSUME Inv, BySlave, status'["master"] = status["master"],
           twdr'["master"] = twdr["master"], answer' = answer
    PROVE  BytesRead' /\ ReadIsOver' /\ ReadIsAnswer'
<1>1. UNCHANGED <<call, result, m, job, role, overrun, spoilt>>
  BY DEF BySlave
<1>2. Got' = Got /\ (AllExpected' <=> AllExpected)
  BY <1>1 DEF Got, AllExpected, Expected
<1>3. BytesRead'
  <2>1. Expected(Len(m.buffer) + 1)' = Expected(Len(m.buffer) + 1)
    BY <1>1 DEF Expected
  <2>2. QED
    BY <1>1, <1>2, <2>1 DEF Inv, BytesRead
<1>4. ReadIsOver' /\ ReadIsAnswer'
  BY <1>1, <1>2 DEF Inv, ReadIsOver, ReadIsAnswer
<1>5. QED
  BY <1>3, <1>4

\* The slave is addressed for a write: its buffer is empty.
LEMMA HandleAddressedGood ==
    ASSUME Inv, BySlave, ~s.inHandler, HandleAddressed
    PROVE  Inv'
<1>1. /\ status["slave"] = "SR_SLA_ACK" /\ twi_reply("slave", TRUE)
      /\ s' = [s EXCEPT !.twi_state = "SRX", !.rxBuffer = <<>>]
      /\ UNCHANGED <<call, result, m, job, role, overrun, spoilt, troubles,
                     twdr, incoming, handed, owed, answer>>
  BY DEF HandleAddressed, BySlave
<1>2. TypeOK /\ s \in SlaveType /\ role = "rx"
  BY <1>1 DEF Inv, TypeOK, SlavePhase
<1>3. /\ status'["slave"] = "none" /\ status'["master"] = status["master"]
      /\ twcr'["master"] = twcr["master"] /\ twcr'["slave"] = TRUE
      /\ twcr' \in [Nodes -> BOOLEAN] /\ status' \in [Nodes -> Statuses]
  BY <1>1, <1>2, ReplyOfSlave
<1>4. <<>> \in Seq(Bytes) /\ Len(<<>>) = 0
  OBVIOUS
<1>5. s' \in SlaveType /\ s'.rxBuffer = <<>> /\ s'.inHandler = s.inHandler
  BY <1>1, <1>2, <1>4 DEF SlaveType
<1>6. TypeOK'
  BY <1>1, <1>2, <1>3, <1>4, <1>5, TwoWireAssumption DEF TypeOK
<1>7. Received = <<>> /\ Received' = <<>>
  BY <1>1, <1>2, <1>3, <1>5, <1>6, ReceivedCases, ReceivedCasesNext
<1>8. SlavePhase'
  BY <1>1, <1>2, <1>3, <1>5, MasterUntouched DEF Inv, SlavePhase
<1>9. BytesCounted'
  BY <1>1, <1>2, <1>3, <1>4, <1>5, MasterUntouched DEF Inv, BytesCounted
<1>10. BeginningHeld' /\ SentIsThere' /\ SentMessageIsKept'
  BY <1>1, <1>2, <1>7 DEF Inv, BeginningHeld, SentIsThere, SentMessageIsKept
<1>11. HandlerGetsPrefix' /\ OverrunOnly' /\ SlaveListens' /\ ReplyCounted'
  BY <1>1, <1>2, <1>3, <1>5 DEF HandlerGetsPrefix, OverrunOnly, SlaveListens, ReplyCounted
<1>12. QED
  BY <1>1, <1>3, <1>6, <1>8, <1>9, <1>10, <1>11, MasterUntouched, ReadUntouched DEF Inv

\* A byte is stored, or does not fit and the next will not be acknowledged.
LEMMA HandleDataGood ==
    ASSUME Inv, BySlave, ~s.inHandler, HandleData
    PROVE  Inv'
<1> DEFINE b == s.rxBuffer
<1>1. /\ status["slave"] = "SR_DATA_ACK"
      /\ UNCHANGED <<call, result, m, job, role, overrun, spoilt, troubles,
                     twdr, incoming, handed, owed, answer>>
  BY DEF HandleData, BySlave
<1>2. /\ TypeOK /\ s \in SlaveType /\ role = "rx" /\ b \in Seq(Bytes) /\ Len(b) \in Nat
      /\ Len(b) <= BUFFER_LENGTH /\ twdr["slave"] \in Bytes /\ BUFFER_LENGTH \in Nat
  BY <1>1, LenProperties, TwoWireAssumption DEF Inv, TypeOK, SlavePhase, SlaveType, Nodes
<1>3. \/ /\ Len(b) < BUFFER_LENGTH /\ twi_reply("slave", TRUE)
         /\ s' = [s EXCEPT !.rxBuffer = Append(@, twdr["slave"])]
      \/ Len(b) = BUFFER_LENGTH /\ twi_reply("slave", FALSE) /\ s' = s
  <2>1. CASE Len(b) < BUFFER_LENGTH
    BY <2>1 DEF HandleData
  <2>2. CASE ~(Len(b) < BUFFER_LENGTH)
    <3>1. Len(b) = BUFFER_LENGTH
      BY <1>2, <2>2
    <3>2. twi_reply("slave", FALSE) /\ s' = s
      BY <2>2 DEF HandleData
    <3>3. QED
      BY <3>1, <3>2
  <2>3. QED
    BY <2>1, <2>2
<1>4. /\ status'["slave"] = "none" /\ status'["master"] = status["master"]
      /\ twcr'["master"] = twcr["master"]
      /\ twcr' \in [Nodes -> BOOLEAN] /\ status' \in [Nodes -> Statuses]
  BY <1>2, <1>3, ReplyOfSlave
<1>5. Append(b, twdr["slave"]) \in Seq(Bytes) /\ Len(Append(b, twdr["slave"])) = Len(b) + 1
  BY <1>2, AppendProperties
<1>6. /\ s' \in SlaveType /\ s'.inHandler = s.inHandler /\ s'.txBuffer = s.txBuffer
      /\ \/ /\ s'.rxBuffer = Append(b, twdr["slave"]) /\ Len(b) < BUFFER_LENGTH
            /\ twcr'["slave"] = TRUE
         \/ s'.rxBuffer = b /\ Len(b) = BUFFER_LENGTH /\ twcr'["slave"] = FALSE
  BY <1>2, <1>3, <1>5, ReplyOfSlave DEF SlaveType
<1>7. TypeOK'
  BY <1>1, <1>2, <1>4, <1>5, <1>6 DEF TypeOK
<1>8. Received' = Received
  <2>1. Received' = s'.rxBuffer
    BY <1>4, <1>7, ReceivedCasesNext
  <2>2. CASE Len(b) < BUFFER_LENGTH
    <3>1. Received = Append(b, twdr["slave"])
      BY <1>1, <1>2, <2>2, ReceivedCases
    <3>2. s'.rxBuffer = Append(b, twdr["slave"])
      <4> HIDE DEF b
      <4>1. QED
        BY <1>2, <1>6, <2>2
    <3>3. QED
      BY <2>1, <3>1, <3>2
  <2>3. CASE Len(b) = BUFFER_LENGTH
    <3>1. Received = b
      BY <1>1, <1>2, <2>3, ReceivedCases
    <3>2. s'.rxBuffer = b
      <4> HIDE DEF b
      <4>1. QED
        BY <1>2, <1>6, <2>3
    <3>3. QED
      BY <2>1, <3>1, <3>2
  <2>4. QED
    BY <1>6, <2>2, <2>3
<1>9. SlavePhase'
  BY <1>1, <1>2, <1>4, <1>6, MasterUntouched DEF Inv, SlavePhase
<1>10. BytesCounted'
  BY <1>1, <1>2, <1>4, <1>5, <1>6, MasterUntouched DEF Inv, BytesCounted
<1>11. BeginningHeld' /\ SentIsThere' /\ SentMessageIsKept'
  BY <1>1, <1>2, <1>8 DEF Inv, BeginningHeld, SentIsThere, SentMessageIsKept
<1>12. HandlerGetsPrefix' /\ OverrunOnly' /\ SlaveListens' /\ ReplyCounted'
  BY <1>1, <1>2, <1>4, <1>6 DEF HandlerGetsPrefix, OverrunOnly, SlaveListens, ReplyCounted
<1>13. QED
  BY <1>1, <1>4, <1>7, <1>9, <1>10, <1>11, <1>12, MasterUntouched, ReadUntouched DEF Inv

\* The receive handler gets what was received.
LEMMA HandleStopGood ==
    ASSUME Inv, BySlave, ~s.inHandler, HandleStop
    PROVE  Inv'
<1>1. /\ status["slave"] = "SR_STOP" /\ twi_reply("slave", TRUE)
      /\ UNCHANGED <<call, result, m, job, role, overrun, spoilt, troubles,
                     twdr, incoming, answer>>
  BY DEF HandleStop, BySlave
<1>2. TypeOK /\ s \in SlaveType /\ role = "none" /\ handed = NoMessage /\ s.unread = 0
      /\ s.rxBuffer \in Seq(Bytes)
  BY <1>1 DEF Inv, TypeOK, SlavePhase, SlaveType
<1>3. /\ s' = [s EXCEPT !.twi_state = "READY", !.inHandler = TRUE, !.unread = 0]
      /\ handed' = [got |-> s.rxBuffer]
      /\ owed' = IF owed = [got |-> s.rxBuffer] THEN NoMessage ELSE owed
  BY <1>2 DEF HandleStop, UnreadAfter
<1>4. /\ status'["slave"] = "none" /\ status'["master"] = status["master"]
      /\ twcr'["master"] = twcr["master"] /\ twcr'["slave"] = TRUE
      /\ twcr' \in [Nodes -> BOOLEAN] /\ status' \in [Nodes -> Statuses]
  BY <1>1, <1>2, ReplyOfSlave
<1>5. s' \in SlaveType /\ s'.rxBuffer = s.rxBuffer /\ s'.inHandler
  BY <1>2, <1>3 DEF SlaveType
<1>6. Received = s.rxBuffer /\ Begins(s.rxBuffer, incoming)
  BY <1>1, <1>2, ReceivedCases DEF Inv, BeginningHeld
<1>7. owed' = NoMessage
  <2>1. CASE owed = NoMessage
    BY <1>3, <2>1
  <2>2. CASE owed # NoMessage
    <3>1. owed \in [got : Seq(Bytes)] /\ owed.got = s.rxBuffer
      BY <1>2, <1>6, <2>2 DEF Inv, TypeOK, NoBytes, SentMessageIsKept
    <3>2. owed = [got |-> s.rxBuffer]
      BY <3>1
    <3>3. QED
      BY <1>3, <3>2
  <2>3. QED
    BY <2>1, <2>2
<1>8. TypeOK'
  BY <1>1, <1>2, <1>3, <1>4, <1>5, <1>7 DEF TypeOK, NoBytes
<1>9. SlavePhase'
  BY <1>1, <1>2, <1>3, <1>4, <1>5, <1>7, MasterUntouched DEF Inv, SlavePhase
<1>10. BytesCounted' /\ BeginningHeld' /\ SentMessageIsKept'
  BY <1>1, <1>2, <1>4, <1>7 DEF BytesCounted, BeginningHeld, SentMessageIsKept
<1>11. SentIsThere'
  <2>1. SUFFICES ASSUME call.kind = "write", m.twi_state = "READY", m.error = "none", ~spoilt
                 PROVE  handed' = Kept(call.message)
    BY <1>1 DEF SentIsThere, Kept
  <2>2. handed # Kept(call.message)
    BY <1>2 DEF Kept, NoMessage
  <2>3. Received = UpTo(call.message, BUFFER_LENGTH)
    BY <2>1, <2>2 DEF Inv, SentIsThere
  <2>4. QED
    BY <1>3, <1>6, <2>3 DEF Kept
<1>12. HandlerGetsPrefix'
  <2>1. IsPrefix(s.rxBuffer, incoming)
    BY <1>2, <1>6, BeginsPrefix DEF TypeOK
  <2>2. QED
    BY <1>1, <1>3, <2>1 DEF HandlerGetsPrefix
<1>13. OverrunOnly' /\ SlaveListens' /\ ReplyCounted'
  BY <1>1, <1>2, <1>4 DEF OverrunOnly, SlaveListens, ReplyCounted
<1>14. QED
  BY <1>1, <1>4, <1>7, <1>8, <1>9, <1>10, <1>11, <1>12, <1>13, MasterUntouched, ReadUntouched
     DEF Inv

\* The handler returns: the buffer is empty again, and was not in use.
LEMMA HandlerReturnsGood ==
    ASSUME Inv, BySlave, HandlerReturns
    PROVE  Inv'
<1>1. /\ s.inHandler /\ s' = [s EXCEPT !.inHandler = FALSE, !.rxBuffer = <<>>]
      /\ UNCHANGED <<call, result, m, job, role, overrun, spoilt, troubles,
                     twcr, twdr, status, incoming, handed, owed, answer>>
  BY DEF HandlerReturns, BySlave
<1>2. TypeOK /\ s \in SlaveType
  BY DEF Inv, TypeOK
<1>3. <<>> \in Seq(Bytes) /\ Len(<<>>) = 0 /\ BUFFER_LENGTH \in Nat
  BY TwoWireAssumption
<1>4. /\ s' \in SlaveType /\ s'.rxBuffer = <<>> /\ s'.inHandler = FALSE
      /\ s'.txBuffer = s.txBuffer /\ s'.txBufferIndex = s.txBufferIndex
  BY <1>1, <1>2, <1>3 DEF SlaveType
<1>5. TypeOK'
  BY <1>1, <1>2, <1>3, <1>4 DEF TypeOK
<1>6. /\ status["slave"] # "SR_STOP"
      /\ role = "rx" => status["slave"] = "SR_SLA_ACK"
  BY <1>1 DEF Inv, SlavePhase
<1>7. role = "rx" => Received = <<>> /\ Received' = <<>>
  BY <1>1, <1>2, <1>5, <1>6, ReceivedCases, ReceivedCasesNext
<1>8. SlavePhase'
  BY <1>1, <1>4, MasterUntouched DEF Inv, SlavePhase
<1>9. BytesCounted'
  BY <1>1, <1>6, MasterUntouched DEF Inv, BytesCounted
<1>10. BeginningHeld' /\ SentIsThere' /\ SentMessageIsKept'
  BY <1>1, <1>6, <1>7 DEF Inv, BeginningHeld, SentIsThere, SentMessageIsKept
<1>11. HandlerGetsPrefix' /\ OverrunOnly' /\ SlaveListens'
  BY <1>1, <1>4 DEF Inv, HandlerGetsPrefix, OverrunOnly, SlaveListens
<1>12. ReplyCounted'
  BY <1>1, <1>4, MasterUntouched DEF Inv, ReplyCounted
<1>13. QED
  BY <1>1, <1>5, <1>8, <1>9, <1>10, <1>11, <1>12, MasterUntouched, ReadUntouched DEF Inv

\* The transfer is over: the acknowledge is on again, unless the buffer was full.
LEMMA HandleOverGood ==
    ASSUME Inv, BySlave, ~s.inHandler, HandleFull \/ HandleReplyDone \/ HandleSlaveBusError
    PROVE  Inv'
<1>1. /\ status["slave"] \in {"SR_DATA_NACK", "ST_DATA_NACK", "ST_LAST_DATA", "BUS_ERROR"}
      /\ \/ status["slave"] = "SR_DATA_NACK" /\ twi_reply("slave", FALSE) /\ s' = s
         \/ twi_reply("slave", TRUE) /\ s' = [s EXCEPT !.twi_state = "READY"]
      /\ UNCHANGED <<call, result, m, job, role, overrun, spoilt, troubles,
                     twdr, incoming, handed, owed, answer>>
  BY DEF HandleFull, HandleReplyDone, HandleSlaveBusError, BySlave
<1>2. TypeOK /\ s \in SlaveType /\ role = "none"
  BY <1>1 DEF Inv, TypeOK, SlavePhase
<1>3. /\ status'["slave"] = "none" /\ status'["master"] = status["master"]
      /\ twcr'["master"] = twcr["master"]
      /\ twcr' \in [Nodes -> BOOLEAN] /\ status' \in [Nodes -> Statuses]
  BY <1>1, <1>2, ReplyOfSlave
<1>4. twcr'["slave"] = TRUE \/ overrun
  BY <1>1, <1>2, ReplyOfSlave DEF Inv, OverrunOnly
<1>5. s' \in SlaveType /\ s'.rxBuffer = s.rxBuffer /\ s'.inHandler = s.inHandler
  BY <1>1, <1>2 DEF SlaveType
<1>6. TypeOK'
  BY <1>1, <1>2, <1>3, <1>5 DEF TypeOK
<1>7. SlavePhase'
  BY <1>1, <1>2, <1>3, <1>5, MasterUntouched DEF Inv, SlavePhase
<1>8. BytesCounted' /\ BeginningHeld' /\ ReplyCounted'
  BY <1>1, <1>2, <1>3 DEF BytesCounted, BeginningHeld, ReplyCounted
<1>9. SentIsThere' /\ SentMessageIsKept'
  BY <1>1, <1>2 DEF Inv, SentIsThere, SentMessageIsKept
<1>10. HandlerGetsPrefix' /\ OverrunOnly' /\ SlaveListens'
  BY <1>1, <1>3, <1>4, <1>5 DEF HandlerGetsPrefix, OverrunOnly, SlaveListens
<1>11. QED
  BY <1>1, <1>3, <1>6, <1>7, <1>8, <1>9, <1>10, MasterUntouched, ReadUntouched DEF Inv

\* The next byte of a reply is in TWDR, and the acknowledge tells if it is the last.
LEMMA SendFromEffect ==
    ASSUME TypeOK, NEW slave \in SlaveType, SendFrom(slave),
           slave.txBufferIndex < Len(slave.txBuffer)
    PROVE  /\ s' \in SlaveType /\ s'.rxBuffer = slave.rxBuffer
           /\ s'.inHandler = slave.inHandler /\ s'.txBuffer = slave.txBuffer
           /\ s'.txBufferIndex = slave.txBufferIndex + 1
           /\ twdr' \in [Nodes -> Bytes] /\ twdr'["master"] = twdr["master"]
           /\ twdr'["slave"] = slave.txBuffer[slave.txBufferIndex + 1]
           /\ status'["slave"] = "none" /\ status'["master"] = status["master"]
           /\ twcr'["master"] = twcr["master"]
           /\ twcr'["slave"] <=> slave.txBufferIndex + 1 < Len(slave.txBuffer)
           /\ twcr' \in [Nodes -> BOOLEAN] /\ status' \in [Nodes -> Statuses]
<1> DEFINE More == slave.txBufferIndex + 1 < Len(slave.txBuffer)
           byte == slave.txBuffer[slave.txBufferIndex + 1]
<1>1. /\ s' = [slave EXCEPT !.txBufferIndex = @ + 1]
      /\ twdr' = [twdr EXCEPT !["slave"] = byte]
      /\ twi_reply("slave", More)
  BY DEF SendFrom
<1>2. /\ slave.txBuffer \in Seq(Bytes) /\ slave.txBufferIndex \in Nat
      /\ Len(slave.txBuffer) \in Nat
  BY LenProperties DEF SlaveType
<1>3. slave.txBufferIndex + 1 \in 1 .. Len(slave.txBuffer) /\ slave.txBufferIndex + 1 \in Nat
  BY <1>2
<1>4. byte \in Bytes
  BY <1>2, <1>3, ElementOfSeq
<1>5. /\ s' \in SlaveType /\ s'.rxBuffer = slave.rxBuffer
      /\ s'.inHandler = slave.inHandler /\ s'.txBuffer = slave.txBuffer
      /\ s'.txBufferIndex = slave.txBufferIndex + 1
  BY <1>1, <1>3 DEF SlaveType
<1> HIDE DEF byte, More
<1>6. twdr' \in [Nodes -> Bytes] /\ twdr'["slave"] = byte /\ twdr'["master"] = twdr["master"]
  BY <1>1, <1>4 DEF TypeOK, Nodes
<1>7. /\ status'["slave"] = "none" /\ status'["master"] = status["master"]
      /\ twcr'["master"] = twcr["master"] /\ (twcr'["slave"] <=> More)
      /\ twcr' \in [Nodes -> BOOLEAN] /\ status' \in [Nodes -> Statuses]
  <2>1. CASE More
    <3>1. More = TRUE
      BY <2>1
    <3>2. twi_reply("slave", TRUE)
      BY <1>1, <3>1
    <3>3. QED
      BY <2>1, <3>2, ReplyOfSlave
  <2>2. CASE ~More
    <3>1. More = FALSE
      BY <2>2
    <3>2. twi_reply("slave", FALSE)
      BY <1>1, <3>1
    <3>3. QED
      BY <2>2, <3>2, ReplyOfSlave
  <2>3. QED
    BY <2>1, <2>2
<1>8. QED
  BY <1>5, <1>6, <1>7 DEF byte, More

\* While a reply is on its way only the slave's side of it changes.
LEMMA ReplyStep ==
    ASSUME Inv, BySlave, role = "tx", TypeOK', s'.inHandler = s.inHandler, ~s.inHandler,
           status'["master"] = status["master"], status'["slave"] = "none",
           UNCHANGED <<incoming, handed, owed>>
    PROVE  /\ SlavePhase' /\ BeginningHeld' /\ BytesCounted' /\ SentIsThere'
           /\ SentMessageIsKept' /\ HandlerGetsPrefix' /\ OverrunOnly' /\ SlaveListens'
<1>1. UNCHANGED <<call, result, m, job, role, overrun, spoilt, troubles>>
  BY DEF BySlave
<1>2. /\ m.twi_state = "MRX" /\ call.kind = "read" /\ handed = NoMessage
      /\ job = "receive" \/ status["master"] \in ReadCodes
  BY DEF Inv, SlavePhase, MasterPhase, ReadCodes
<1>3. owed = NoMessage
  BY <1>2 DEF Inv, OwedFirst, Transferring
<1>4. ~Before \/ role = "none" \/ job = "start"
  BY DEF Inv, SlavePhase
<1>5. SlavePhase'
  BY <1>1, <1>2, <1>4 DEF Inv, SlavePhase, Before
<1>6. BeginningHeld' /\ BytesCounted' /\ SentIsThere' /\ SentMessageIsKept'
  BY <1>1, <1>2, <1>3 DEF BeginningHeld, BytesCounted, SentIsThere, SentMessageIsKept
<1>7. HandlerGetsPrefix' /\ OverrunOnly' /\ SlaveListens'
  BY <1>1 DEF HandlerGetsPrefix, OverrunOnly, SlaveListens
<1>8. QED
  BY <1>5, <1>6, <1>7

\* The request handler writes a reply, and its first byte is in TWDR.
LEMMA HandleRequestGood ==
    ASSUME Inv, BySlave, ~s.inHandler, HandleRequest
    PROVE  Inv'
<1>1. PICK reply \in Replies :
         /\ answer' = reply
         /\ SendFrom([s EXCEPT !.twi_state = "STX", !.txBuffer = TxBuffer(reply),
                               !.txBufferIndex = 0])
  BY DEF HandleRequest
<1> DEFINE slave == [s EXCEPT !.twi_state = "STX", !.txBuffer = TxBuffer(reply),
                              !.txBufferIndex = 0]
<1>2. /\ status["slave"] = "ST_SLA_ACK" /\ SendFrom(slave) /\ answer' = reply
      /\ UNCHANGED <<call, result, m, job, role, overrun, spoilt, troubles,
                     incoming, handed, owed>>
  BY <1>1 DEF HandleRequest, BySlave
<1>3. TypeOK /\ s \in SlaveType /\ role = "tx" /\ Len(s.rxBuffer) <= BUFFER_LENGTH
  BY <1>2 DEF Inv, TypeOK, SlavePhase
<1>4. /\ reply \in Seq(Bytes) /\ TxBuffer(reply) \in Seq(Bytes)
      /\ Len(TxBuffer(reply)) \in Nat /\ Len(TxBuffer(reply)) > 0
  BY TxBufferType, LenProperties, TwoWireAssumption
<1>5. /\ slave \in SlaveType /\ slave.txBuffer = TxBuffer(reply) /\ slave.txBufferIndex = 0
      /\ slave.rxBuffer = s.rxBuffer /\ slave.inHandler = s.inHandler
  BY <1>3, <1>4 DEF SlaveType
<1> HIDE DEF slave
<1>6. slave.txBufferIndex < Len(slave.txBuffer)
  BY <1>4, <1>5
<1>7. /\ s' \in SlaveType /\ s'.rxBuffer = s.rxBuffer /\ s'.inHandler = s.inHandler
      /\ s'.txBuffer = TxBuffer(reply) /\ s'.txBufferIndex = 1
      /\ twdr' \in [Nodes -> Bytes] /\ twdr'["master"] = twdr["master"]
      /\ twdr'["slave"] = TxBuffer(reply)[1]
      /\ status'["slave"] = "none" /\ status'["master"] = status["master"]
      /\ twcr'["master"] = twcr["master"]
      /\ twcr'["slave"] <=> 1 < Len(TxBuffer(reply))
      /\ twcr' \in [Nodes -> BOOLEAN] /\ status' \in [Nodes -> Statuses]
  BY <1>2, <1>3, <1>5, <1>6, SendFromEffect
<1>8. TypeOK'
  BY <1>2, <1>3, <1>4, <1>7 DEF TypeOK
<1>9. /\ m.twi_state = "MRX" /\ job # "stop" /\ call # NoCall /\ m.buffer = <<>>
      /\ status["master"] \in {"none", "MR_SLA_ACK"}
  BY <1>2, <1>3 DEF Inv, SlavePhase, MasterPhase, ReplyCounted
<1>10. Got' = 0
  BY <1>2, <1>7, <1>9 DEF Got
<1>11. ReplyCounted'
  BY <1>2, <1>4, <1>7, <1>10 DEF ReplyCounted
<1>12. AllExpected'
  BY <1>2, <1>9 DEF AllExpected
<1>13. BytesRead' /\ ReadIsOver' /\ ReadIsAnswer'
  BY <1>2, <1>3, <1>7, <1>9, <1>12 DEF BytesRead, ReadIsOver, ReadIsAnswer
<1>14. QED
  BY <1>2, <1>3, <1>7, <1>8, <1>11, <1>13, ReplyStep, MasterUntouched DEF Inv

\* The next byte of the reply is in TWDR.
LEMMA HandleSentGood ==
    ASSUME Inv, BySlave, ~s.inHandler, HandleSent
    PROVE  Inv'
<1>1. /\ status["slave"] = "ST_DATA_ACK" /\ SendFrom(s)
      /\ UNCHANGED <<call, result, m, job, role, overrun, spoilt, troubles,
                     incoming, handed, owed, answer>>
  BY DEF HandleSent, BySlave
<1>2. TypeOK /\ s \in SlaveType /\ role = "tx" /\ Len(s.rxBuffer) <= BUFFER_LENGTH
  BY <1>1 DEF Inv, TypeOK, SlavePhase
<1>3. s.txBuffer = TxBuffer(answer) /\ s.txBufferIndex = Got /\ Got < Len(s.txBuffer)
  BY <1>1, <1>2 DEF Inv, ReplyCounted
<1>4. /\ s' \in SlaveType /\ s'.rxBuffer = s.rxBuffer /\ s'.inHandler = s.inHandler
      /\ s'.txBuffer = s.txBuffer /\ s'.txBufferIndex = Got + 1
      /\ twdr' \in [Nodes -> Bytes] /\ twdr'["master"] = twdr["master"]
      /\ twdr'["slave"] = s.txBuffer[Got + 1]
      /\ status'["slave"] = "none" /\ status'["master"] = status["master"]
      /\ twcr'["master"] = twcr["master"]
      /\ twcr'["slave"] <=> Got + 1 < Len(s.txBuffer)
      /\ twcr' \in [Nodes -> BOOLEAN] /\ status' \in [Nodes -> Statuses]
  BY <1>1, <1>2, <1>3, SendFromEffect
<1>5. TypeOK'
  BY <1>1, <1>2, <1>4 DEF TypeOK
<1>6. Got' = Got
  BY <1>1, <1>4 DEF Got
<1>7. ReplyCounted'
  BY <1>1, <1>3, <1>4, <1>6 DEF ReplyCounted
<1>8. QED
  BY <1>1, <1>2, <1>4, <1>5, <1>7, ReplyStep, MasterUntouched, ReadUntouched DEF Inv

LEMMA SlaveGood ==
    ASSUME Inv, SlaveHandler
    PROVE  Inv'
<1>1. CASE HandlerReturns
  BY <1>1, HandlerReturnsGood DEF SlaveHandler
<1>2. CASE ~HandlerReturns
  BY <1>2, HandleAddressedGood, HandleDataGood, HandleStopGood, HandleOverGood,
     HandleRequestGood, HandleSentGood DEF SlaveHandler
<1>3. QED
  BY <1>1, <1>2

-----------------------------------------------------------------------------
(* The hardware *)

\* What the hardware raises at the two nodes.
LEMMA SignalEffect ==
    ASSUME TypeOK, NEW a \in Statuses, NEW b \in Statuses, Signal(a, b)
    PROVE  /\ status' \in [Nodes -> Statuses]
           /\ status'["master"] = a
           /\ b = "none" => status'["slave"] = status["slave"]
           /\ b # "none" => status'["slave"] = b
<1>1. status \in [Nodes -> Statuses]
  BY DEF TypeOK
<1>2. CASE b = "none"
  <2>1. status' = [status EXCEPT !["master"] = a, !["slave"] = @]
    BY <1>2 DEF Signal
  <2>2. QED
    BY <1>1, <1>2, <2>1 DEF Nodes
<1>3. CASE b # "none"
  <2>1. status' = [status EXCEPT !["master"] = a, !["slave"] = b]
    BY <1>3 DEF Signal
  <2>2. QED
    BY <1>1, <1>3, <2>1 DEF Nodes
<1>4. QED
  BY <1>2, <1>3

\* A START ends a reception; without one the slave does not notice.
LEMMA StartGood ==
    ASSUME Inv, ByHardware, Start
    PROVE  Inv'
<1>1. /\ job \in {"start", "restart"} /\ job' = "none" /\ role' = "none"
      /\ role # "none" => status["slave"] = "none"
      /\ Signal(IF job = "start" THEN "START" ELSE "REP_START",
                IF role = "rx" THEN "SR_STOP" ELSE "none")
      /\ UNCHANGED <<call, result, s, owed, answer, spoilt, troubles,
                     m, twcr, twdr, incoming, handed, overrun>>
  BY DEF Start, ByHardware
<1>2. TypeOK /\ m \in MasterType
  BY DEF Inv, TypeOK
<1>3. {"START", "REP_START", "SR_STOP", "none"} \subseteq Statuses
  BY DEF Statuses
<1>4. /\ status' \in [Nodes -> Statuses]
      /\ status'["master"] = IF job = "start" THEN "START" ELSE "REP_START"
      /\ status'["slave"] = IF role = "rx" THEN "SR_STOP" ELSE status["slave"]
  BY <1>1, <1>2, <1>3, SignalEffect
<1>5. /\ job = "start" => m.twi_state \in {"MTX", "MRX"} /\ ~m.inRepStart
      /\ job = "restart" => m.twi_state = "READY" /\ m.inRepStart
      /\ status["master"] = "none" /\ role # "tx"
  BY <1>1, <1>2 DEF Inv, MasterPhase, SlavePhase, MasterType
<1>6. TypeOK'
  BY <1>1, <1>2, <1>4 DEF TypeOK
<1>7. MasterPhase'
  BY <1>1, <1>2, <1>4, <1>5 DEF Inv, MasterPhase, MasterType
<1>8. WriteCounted' /\ ReadCounted'
  BY <1>1, <1>4, <1>5 DEF Inv, WriteCounted, ReadCounted, Before
<1>9. SlavePhase'
  BY <1>1, <1>4, <1>5 DEF Inv, SlavePhase
<1>10. ~Transferring'
  BY <1>1, <1>4 DEF Transferring, WriteCodes, ReadCodes
<1>11. Received' = Received
  BY <1>1, <1>2, <1>4, <1>6, ReceivedCases, ReceivedCasesNext DEF Received
<1>12. BeginningHeld' /\ SentMessageIsKept' /\ SentIsThere'
  BY <1>1, <1>4, <1>11 DEF Inv, BeginningHeld, SentMessageIsKept, SentIsThere
<1>13. BytesCounted' /\ StillHeard' /\ OwedFirst'
  BY <1>10 DEF BytesCounted, StillHeard, OwedFirst
<1>14. HandlerGetsPrefix' /\ OverrunOnly' /\ SlaveListens' /\ ReplyCounted'
  BY <1>1, <1>4, <1>5
     DEF Inv, HandlerGetsPrefix, OverrunOnly, SlaveListens, SlavePhase, ReplyCounted
<1>15. BytesRead' /\ ReadIsOver' /\ ReadIsAnswer'
  <2>1. AllExpected' <=> AllExpected
    BY <1>1 DEF AllExpected, Expected
  <2>2. BytesRead'
    BY <1>1, <1>4, <2>1 DEF Inv, BytesRead
  <2>3. ReadIsOver'
    BY <1>1, <2>1 DEF Inv, ReadIsOver
  <2>4. ReadIsAnswer'
    BY <1>1 DEF Inv, ReadIsAnswer
  <2>5. QED
    BY <2>2, <2>3, <2>4
<1>16. QED
  BY <1>6, <1>7, <1>8, <1>9, <1>12, <1>13, <1>14, <1>15 DEF Inv

\* Between a START and the address the slave is in no transfer.
LEMMA AtAddress ==
    ASSUME Inv, job = "address", status["slave"] = "none"
    PROVE  /\ m.twi_state \in {"MTX", "MRX"} /\ ~m.inRepStart /\ call # NoCall
           /\ m.slarw = [to |-> call.to, rw |-> IF m.twi_state = "MTX" THEN "write" ELSE "read"]
           /\ call.kind = IF m.twi_state = "MTX" THEN "write" ELSE "read"
           /\ call.to \in Targets /\ role = "none" /\ owed = NoMessage
           /\ m.twi_state = "MTX" =>
                 /\ call.message \in Seq(Bytes) /\ m.buffer = call.message
                 /\ m.index = 0 /\ m.error = "none"
           /\ m.twi_state = "MRX" => m.buffer = <<>>
<1>1. TypeOK /\ m \in MasterType /\ call \in CallType
  BY DEF Inv, TypeOK
<1>2. m.twi_state \in {"MTX", "MRX"} /\ ~m.inRepStart /\ call # NoCall
  BY <1>1 DEF Inv, MasterPhase, MasterType
<1>3. role = "none"
  BY DEF Inv, SlavePhase, Before
<1>4. owed = NoMessage
  BY <1>3 DEF Inv, SentMessageIsKept
<1>5. CASE m.twi_state = "MTX"
  <2>1. call.kind = "write"
    BY <1>5 DEF Inv, MasterPhase
  <2>2. call.message \in Seq(Bytes) /\ call.to \in Targets
    BY <1>1, <1>2, <2>1 DEF CallType
  <2>3. /\ m.buffer = call.message /\ m.index = 0 /\ m.error = "none"
        /\ m.slarw = [to |-> call.to, rw |-> "write"]
    BY <1>5 DEF Inv, WriteCounted, Before
  <2>4. QED
    BY <1>2, <1>3, <1>4, <1>5, <2>1, <2>2, <2>3
<1>6. CASE m.twi_state = "MRX"
  <2>1. call.kind = "read"
    BY <1>6 DEF Inv, MasterPhase
  <2>2. call.to \in Targets
    BY <1>1, <1>2, <2>1 DEF CallType
  <2>3. m.buffer = <<>> /\ m.slarw = [to |-> call.to, rw |-> "read"]
    BY <1>6 DEF Inv, ReadCounted, Before
  <2>4. QED
    BY <1>2, <1>3, <1>4, <1>6, <2>1, <2>2, <2>3
<1>7. QED
  BY <1>2, <1>5, <1>6

\* The slave is addressed for a write, with its acknowledge on.
LEMMA AddressWriteGood ==
    ASSUME Inv, ByHardware, Address, m.slarw.to = "slave", twcr["slave"], m.twi_state = "MTX"
    PROVE  Inv'
<1>1. /\ job = "address" /\ status["slave"] = "none" /\ job' = "none"
      /\ UNCHANGED <<call, result, s, owed, answer, spoilt, troubles, m, twcr, twdr>>
  BY DEF Address, ByHardware
<1>2. TypeOK /\ m \in MasterType
  BY DEF Inv, TypeOK
<1>3. /\ ~m.inRepStart /\ call # NoCall /\ m.slarw.rw = "write" /\ call.kind = "write"
      /\ role = "none" /\ owed = NoMessage
      /\ call.message \in Seq(Bytes) /\ m.buffer = call.message
      /\ m.index = 0 /\ m.error = "none"
  BY <1>1, AtAddress
<1>4. /\ Signal("MT_SLA_ACK", "SR_SLA_ACK") /\ role' = "rx"
      /\ incoming' = call.message /\ handed' = NoMessage
      /\ overrun' = (overrun \/ Len(call.message) > BUFFER_LENGTH + 1)
  BY <1>3 DEF Address
<1>5. {"MT_SLA_ACK", "SR_SLA_ACK"} \subseteq Statuses
  BY DEF Statuses, WriteCodes
<1>6. /\ status' \in [Nodes -> Statuses]
      /\ status'["master"] = "MT_SLA_ACK" /\ status'["slave"] = "SR_SLA_ACK"
  BY <1>2, <1>4, <1>5, SignalEffect
<1>7. TypeOK'
  BY <1>1, <1>2, <1>3, <1>4, <1>6 DEF TypeOK, NoBytes
<1>8. MasterPhase' /\ WriteCounted'
  BY <1>1, <1>3, <1>6 DEF Inv, MasterPhase, WriteCounted, Before, WriteCodes
<1>9. SlavePhase'
  BY <1>1, <1>4, <1>6 DEF SlavePhase, Before
<1>10. Received' = <<>>
  BY <1>6, <1>7, ReceivedCasesNext
<1>11. BeginningHeld'
  BY <1>3, <1>4, <1>10, LenProperties DEF BeginningHeld, Begins
<1>12. Sent' = 0
  BY <1>1, <1>3 DEF Sent
<1>13. BytesCounted'
  BY <1>1, <1>4, <1>6, <1>12 DEF BytesCounted
<1>14. StillHeard' /\ SentIsThere' /\ OwedFirst' /\ SentMessageIsKept'
  BY <1>1, <1>3, <1>4 DEF StillHeard, SentIsThere, OwedFirst, SentMessageIsKept
<1>15. HandlerGetsPrefix' /\ OverrunOnly' /\ SlaveListens'
  BY <1>4, <1>6 DEF HandlerGetsPrefix, OverrunOnly, SlaveListens
<1>16. QED
  BY <1>1, <1>3, <1>4, <1>7, <1>8, <1>9, <1>11, <1>13, <1>14, <1>15, WriteIsNoRead DEF Inv

\* The slave is addressed for a read.
LEMMA AddressReadGood ==
    ASSUME Inv, ByHardware, Address, m.slarw.to = "slave", twcr["slave"], m.twi_state = "MRX"
    PROVE  Inv'
<1>1. /\ job = "address" /\ status["slave"] = "none" /\ job' = "none"
      /\ UNCHANGED <<call, result, s, owed, answer, spoilt, troubles, m, twcr, twdr>>
  BY DEF Address, ByHardware
<1>2. TypeOK /\ m \in MasterType
  BY DEF Inv, TypeOK
<1>3. /\ ~m.inRepStart /\ call # NoCall /\ m.slarw.rw = "read" /\ call.kind = "read"
      /\ role = "none" /\ owed = NoMessage /\ m.buffer = <<>>
  BY <1>1, AtAddress
<1>4. /\ Signal("MR_SLA_ACK", "ST_SLA_ACK") /\ role' = "tx"
      /\ incoming' = incoming /\ handed' = NoMessage /\ overrun' = overrun
  <2>1. overrun \in BOOLEAN
    BY <1>2 DEF TypeOK
  <2>2. overrun' = (overrun \/ (FALSE /\ Len(call.message) > BUFFER_LENGTH + 1))
    BY <1>3 DEF Address
  <2>3. overrun' = overrun
    BY <2>1, <2>2, Zenon
  <2>4. QED
    BY <1>3, <2>3 DEF Address
<1>5. {"MR_SLA_ACK", "ST_SLA_ACK"} \subseteq Statuses
  BY DEF Statuses, ReadCodes
<1>6. /\ status' \in [Nodes -> Statuses]
      /\ status'["master"] = "MR_SLA_ACK" /\ status'["slave"] = "ST_SLA_ACK"
  BY <1>2, <1>4, <1>5, SignalEffect
<1>7. TypeOK'
  BY <1>1, <1>2, <1>4, <1>6 DEF TypeOK, NoBytes
<1>8. MasterPhase' /\ ReadCounted'
  BY <1>1, <1>3, <1>6 DEF Inv, MasterPhase, ReadCounted, Before, ReadCodes
<1>9. SlavePhase'
  BY <1>1, <1>4, <1>6 DEF SlavePhase, Before
<1>10. BeginningHeld' /\ SentMessageIsKept'
  BY <1>1, <1>3, <1>4, <1>6 DEF BeginningHeld, SentMessageIsKept
<1>11. HandlerGetsPrefix' /\ OverrunOnly' /\ SlaveListens' /\ ReplyCounted'
  BY <1>1, <1>3, <1>4, <1>6 DEF HandlerGetsPrefix, OverrunOnly, SlaveListens, ReplyCounted
<1>12. AllExpected'
  BY <1>1, <1>3 DEF AllExpected
<1>13. BytesRead' /\ ReadIsOver'
  BY <1>1, <1>4, <1>6, <1>12 DEF BytesRead, ReadIsOver
<1>14. QED
  BY <1>1, <1>3, <1>4, <1>7, <1>8, <1>9, <1>10, <1>11, <1>13, ReadIsNoWrite DEF Inv

\* Nobody answers: the address is another's, or the slave is deaf.
LEMMA AddressUnheardGood ==
    ASSUME Inv, ByHardware, Address, ~(m.slarw.to = "slave" /\ twcr["slave"])
    PROVE  Inv'
<1>1. /\ job = "address" /\ status["slave"] = "none" /\ job' = "none"
      /\ Signal(IF m.slarw.rw = "write" THEN "MT_SLA_NACK" ELSE "MR_SLA_NACK", "none")
      /\ UNCHANGED <<call, result, s, owed, answer, spoilt, troubles, m, twcr, twdr,
                     role, incoming, handed, overrun>>
  BY DEF Address, ByHardware
<1>2. TypeOK /\ m \in MasterType
  BY DEF Inv, TypeOK
<1>3. /\ m.twi_state \in {"MTX", "MRX"} /\ ~m.inRepStart /\ call # NoCall
      /\ m.slarw = [to |-> call.to, rw |-> IF m.twi_state = "MTX" THEN "write" ELSE "read"]
      /\ call.kind = IF m.twi_state = "MTX" THEN "write" ELSE "read"
      /\ call.to \in Targets /\ role = "none" /\ owed = NoMessage
      /\ m.twi_state = "MTX" => m.index = 0 /\ m.error = "none"
      /\ m.twi_state = "MRX" => m.buffer = <<>>
  BY <1>1, AtAddress
<1>4. {"MT_SLA_NACK", "MR_SLA_NACK", "none"} \subseteq Statuses
  BY DEF Statuses, WriteCodes, ReadCodes
<1>5. /\ status' \in [Nodes -> Statuses] /\ status'["slave"] = "none"
      /\ status'["master"] = IF m.twi_state = "MTX" THEN "MT_SLA_NACK" ELSE "MR_SLA_NACK"
  BY <1>1, <1>2, <1>3, <1>4, SignalEffect
<1>6. TypeOK'
  BY <1>1, <1>2, <1>5 DEF TypeOK
<1>7. MasterPhase' /\ WriteCounted' /\ ReadCounted'
  BY <1>1, <1>3, <1>5
     DEF Inv, MasterPhase, WriteCounted, ReadCounted, Before, WriteCodes, ReadCodes
<1>8. SlavePhase' /\ ReplyCounted'
  BY <1>1, <1>3, <1>5 DEF Inv, SlavePhase, ReplyCounted
<1>9. BytesCounted' /\ StillHeard' /\ SentIsThere' /\ OwedFirst'
  BY <1>1, <1>3, <1>5 DEF BytesCounted, StillHeard, SentIsThere, OwedFirst
<1>10. m.twi_state = "MRX" => call.to = "absent" \/ overrun
  BY <1>1, <1>3 DEF Inv, SlaveListens, Targets
<1>11. AllExpected' <=> AllExpected
  BY <1>1 DEF AllExpected, Expected
<1>12. BytesRead' /\ ReadIsOver' /\ ReadIsAnswer'
  BY <1>1, <1>3, <1>5, <1>10, <1>11 DEF Inv, BytesRead, ReadIsOver, ReadIsAnswer
<1>13. QED
  BY <1>1, <1>5, <1>6, <1>7, <1>8, <1>9, <1>12, SlaveUntouched DEF Inv

LEMMA AddressGood ==
    ASSUME Inv, ByHardware, Address
    PROVE  Inv'
<1>1. m.twi_state \in {"MTX", "MRX"}
  BY AtAddress DEF Address
<1>2. QED
  BY <1>1, AddressWriteGood, AddressReadGood, AddressUnheardGood

\* A byte of a message is on the bus.
LEMMA AtSend ==
    ASSUME Inv, job = "send"
    PROVE  /\ m.twi_state = "MTX" /\ Transferring /\ status["master"] = "none"
           /\ ~m.inRepStart /\ call.kind = "write" /\ call # NoCall /\ m.error = "none"
           /\ m.buffer = call.message /\ m.length = Len(call.message)
           /\ call.message \in Seq(Bytes) /\ m.index \in 1 .. Len(call.message)
           /\ twdr["master"] = call.message[m.index] /\ Sent = m.index - 1
           /\ owed = NoMessage /\ role # "tx"
<1>1. TypeOK /\ m \in MasterType
  BY DEF Inv, TypeOK
<1>2. m.twi_state = "MTX" /\ status["master"] = "none"
  BY <1>1 DEF Inv, MasterPhase, MasterType
<1>3. Transferring /\ owed = NoMessage /\ Sent = m.index - 1
  BY DEF Inv, Transferring, OwedFirst, Sent
<1>4. call.kind = "write" /\ ~m.inRepStart /\ call # NoCall /\ role # "tx"
  BY <1>2 DEF Inv, MasterPhase, SlavePhase
<1>5. m.index \in Nat /\ m.buffer \in Seq(Bytes) /\ Len(m.buffer) \in Nat
  BY <1>1, LenProperties DEF MasterType
<1>6. /\ m.buffer = call.message /\ m.length = Len(call.message) /\ m.error = "none"
      /\ m.index <= m.length /\ m.index > 0 /\ twdr["master"] = m.buffer[m.index]
  BY <1>2 DEF Inv, WriteCounted
<1>7. QED
  BY <1>2, <1>3, <1>4, <1>5, <1>6

\* The slave acknowledges a byte.
LEMMA SendTakenGood ==
    ASSUME Inv, ByHardware, Send, role = "rx", twcr["slave"]
    PROVE  Inv'
<1> DEFINE b == s.rxBuffer
<1>1. /\ job = "send" /\ status["slave"] = "none" /\ job' = "none" /\ role' = role
      /\ Signal("MT_DATA_ACK", "SR_DATA_ACK")
      /\ twdr' = [twdr EXCEPT !["slave"] = twdr["master"]]
      /\ UNCHANGED <<call, result, s, owed, answer, spoilt, troubles,
                     m, twcr, incoming, handed, overrun>>
  BY DEF Send, ByHardware
<1>2. /\ TypeOK /\ b \in Seq(Bytes) /\ Len(b) \in Nat /\ Len(b) <= BUFFER_LENGTH
      /\ BUFFER_LENGTH \in Nat
  BY LenProperties, TwoWireAssumption DEF Inv, TypeOK, SlaveType
<1>3. /\ m.twi_state = "MTX" /\ Transferring /\ status["master"] = "none"
      /\ ~m.inRepStart /\ call.kind = "write" /\ call # NoCall /\ m.error = "none"
      /\ m.buffer = call.message /\ m.length = Len(call.message)
      /\ call.message \in Seq(Bytes) /\ m.index \in 1 .. Len(call.message)
      /\ twdr["master"] = call.message[m.index] /\ Sent = m.index - 1
      /\ owed = NoMessage
  BY <1>1, AtSend
<1>4. {"MT_DATA_ACK", "SR_DATA_ACK"} \subseteq Statuses
  BY DEF Statuses, WriteCodes
<1>5. /\ status' \in [Nodes -> Statuses]
      /\ status'["master"] = "MT_DATA_ACK" /\ status'["slave"] = "SR_DATA_ACK"
  BY <1>1, <1>2, <1>4, SignalEffect
<1>6. /\ twdr' \in [Nodes -> Bytes] /\ twdr'["slave"] = twdr["master"]
      /\ twdr'["master"] = twdr["master"]
  BY <1>1, <1>2 DEF TypeOK, Nodes
<1>7. TypeOK'
  BY <1>1, <1>2, <1>5, <1>6 DEF TypeOK
<1>8. MasterPhase'
  BY <1>1, <1>3, <1>5 DEF MasterPhase, WriteCodes
<1>9. WriteCounted'
  BY <1>1, <1>3, <1>5, <1>6 DEF Inv, WriteCounted, Before
<1>10. SlavePhase'
  BY <1>1, <1>3, <1>5 DEF Inv, SlavePhase, Before
<1>11. incoming = call.message /\ Sent = Len(b) /\ m.index = Len(b) + 1
  BY <1>1, <1>3 DEF Inv, BytesCounted
<1>12. Received = b /\ Begins(b, incoming)
  BY <1>1, <1>2, ReceivedCases DEF Inv, BeginningHeld
<1>13. BeginningHeld'
  <2>1. CASE Len(b) < BUFFER_LENGTH
    <3>1. Received' = Append(b, incoming[Len(b) + 1])
      BY <1>1, <1>3, <1>5, <1>6, <1>7, <1>11, <2>1, ReceivedCasesNext
    <3>2. Len(b) < Len(incoming)
      <4> HIDE DEF b
      <4>1. QED
        BY <1>2, <1>3, <1>11
    <3>3. QED
      BY <1>1, <1>2, <1>3, <1>11, <1>12, <3>1, <3>2, BeginsAppend DEF BeginningHeld
  <2>2. CASE Len(b) = BUFFER_LENGTH
    <3>1. Received' = b
      BY <1>1, <1>5, <1>7, <2>2, ReceivedCasesNext
    <3>2. QED
      BY <1>1, <1>12, <3>1 DEF BeginningHeld
  <2>3. QED
    BY <1>2, <2>1, <2>2
<1>14. Sent' = Len(b) + 1
  BY <1>1, <1>11 DEF Sent
<1>15. BytesCounted'
  BY <1>1, <1>3, <1>5, <1>14 DEF Inv, BytesCounted
<1>16. StillHeard' /\ SentIsThere' /\ OwedFirst' /\ SentMessageIsKept'
  BY <1>1, <1>3 DEF StillHeard, SentIsThere, OwedFirst, SentMessageIsKept
<1>17. HandlerGetsPrefix' /\ OverrunOnly' /\ SlaveListens'
  BY <1>1, <1>5 DEF Inv, HandlerGetsPrefix, OverrunOnly, SlaveListens
<1>18. QED
  BY <1>1, <1>3, <1>7, <1>8, <1>9, <1>10, <1>13, <1>15, <1>16, <1>17, WriteIsNoRead DEF Inv

\* Nobody acknowledges it: the slave's buffer was full a byte ago, or the slave
\* has left the transfer.
LEMMA SendRefusedGood ==
    ASSUME Inv, ByHardware, Send, ~(role = "rx" /\ twcr["slave"])
    PROVE  Inv'
<1> DEFINE b == s.rxBuffer
<1>1. /\ job = "send" /\ status["slave"] = "none" /\ job' = "none" /\ twdr' = twdr
      /\ Signal("MT_DATA_NACK", IF role = "rx" THEN "SR_DATA_NACK" ELSE "none")
      /\ role' = IF role = "rx" THEN "none" ELSE role
      /\ UNCHANGED <<call, result, s, owed, answer, spoilt, troubles,
                     m, twcr, incoming, handed, overrun>>
  <2>1. CASE role = "rx"
    BY <2>1 DEF Send, ByHardware
  <2>2. CASE role # "rx"
    BY <2>2 DEF Send, ByHardware
  <2>3. QED
    BY <2>1, <2>2
<1>2. /\ TypeOK /\ b \in Seq(Bytes) /\ Len(b) \in Nat /\ Len(b) <= BUFFER_LENGTH
      /\ BUFFER_LENGTH \in Nat
  BY LenProperties, TwoWireAssumption DEF Inv, TypeOK, SlaveType
<1>3. /\ m.twi_state = "MTX" /\ Transferring /\ status["master"] = "none"
      /\ ~m.inRepStart /\ call.kind = "write" /\ call # NoCall /\ m.error = "none"
      /\ m.buffer = call.message /\ m.length = Len(call.message)
      /\ call.message \in Seq(Bytes) /\ m.index \in 1 .. Len(call.message)
      /\ twdr["master"] = call.message[m.index] /\ Sent = m.index - 1
      /\ owed = NoMessage /\ role # "tx"
  BY <1>1, AtSend
<1>4. {"MT_DATA_NACK", "SR_DATA_NACK", "none"} \subseteq Statuses
  BY DEF Statuses, WriteCodes
<1>5. /\ status' \in [Nodes -> Statuses] /\ status'["master"] = "MT_DATA_NACK"
      /\ status'["slave"] = IF role = "rx" THEN "SR_DATA_NACK" ELSE "none"
  BY <1>1, <1>2, <1>4, SignalEffect
<1>6. role' = "none"
  BY <1>1, <1>3 DEF Inv, SlavePhase
<1>7. TypeOK'
  BY <1>1, <1>2, <1>5 DEF TypeOK
<1>8. MasterPhase'
  BY <1>1, <1>3, <1>5 DEF MasterPhase, WriteCodes
<1>9. WriteCounted'
  BY <1>1, <1>3, <1>5 DEF Inv, WriteCounted, Before
<1>10. SlavePhase'
  BY <1>1, <1>3, <1>5, <1>6 DEF Inv, SlavePhase, Before
<1>11. BeginningHeld' /\ BytesCounted'
  BY <1>5, <1>6 DEF BeginningHeld, BytesCounted
<1>12. StillHeard' /\ SentIsThere' /\ OwedFirst' /\ SentMessageIsKept'
  BY <1>1, <1>3, <1>5 DEF StillHeard, SentIsThere, OwedFirst, SentMessageIsKept
<1>13. role = "rx" => overrun
  <2>1. ASSUME role = "rx" PROVE Len(incoming) > BUFFER_LENGTH + 1
    <3>1. incoming = call.message /\ Sent = Len(b) + 1 /\ Len(b) = BUFFER_LENGTH
      BY <1>1, <1>3, <2>1 DEF Inv, BytesCounted
    <3>2. QED
      BY <1>2, <1>3, <3>1, LenProperties
  <2>2. QED
    BY <1>3, <2>1 DEF Inv, BytesCounted
<1>14. HandlerGetsPrefix' /\ OverrunOnly' /\ SlaveListens'
  BY <1>1, <1>5, <1>6, <1>13 DEF Inv, HandlerGetsPrefix, OverrunOnly, SlaveListens, SlavePhase
<1>15. QED
  BY <1>1, <1>3, <1>6, <1>7, <1>8, <1>9, <1>10, <1>11, <1>12, <1>14, WriteIsNoRead DEF Inv

\* A byte of a reply is on the bus.
LEMMA AtReceive ==
    ASSUME Inv, job = "receive", status["slave"] = "none"
    PROVE  /\ m.twi_state = "MRX" /\ status["master"] = "none" /\ ~m.inRepStart
           /\ call.kind = "read" /\ call # NoCall /\ owed = NoMessage
           /\ role \in {"tx", "none"} /\ m.buffer \in Seq(Bytes)
           /\ m.index = Len(m.buffer) /\ Got = Len(m.buffer) /\ Len(m.buffer) \in Nat
           /\ m.length \in Nat /\ m.index <= m.length
           /\ twcr["master"] <=> m.index < m.length
           /\ twcr["master"] \in BOOLEAN /\ twcr["slave"] \in BOOLEAN
<1>1. TypeOK /\ m \in MasterType
  BY DEF Inv, TypeOK
<1>2. m.twi_state = "MRX" /\ status["master"] = "none"
  BY <1>1 DEF Inv, MasterPhase, MasterType
<1>3. owed = NoMessage /\ Got = Len(m.buffer)
  BY <1>2 DEF Inv, Transferring, OwedFirst, Got
<1>4. ~m.inRepStart /\ call.kind = "read" /\ call # NoCall
  BY <1>2 DEF Inv, MasterPhase
<1>5. role \in {"tx", "none"}
  BY <1>2 DEF Inv, SlavePhase, BytesCounted, Transferring
<1>6. m.buffer \in Seq(Bytes) /\ Len(m.buffer) \in Nat /\ m.length \in Nat
  BY <1>1, LenProperties DEF MasterType
<1>7. m.index = Len(m.buffer) /\ m.index <= m.length /\ (twcr["master"] <=> m.index < m.length)
  BY <1>2 DEF Inv, ReadCounted
<1>8. twcr["master"] \in BOOLEAN /\ twcr["slave"] \in BOOLEAN
  BY <1>1 DEF TypeOK, Nodes
<1>9. QED
  BY <1>2, <1>3, <1>4, <1>5, <1>6, <1>7, <1>8

\* The master has another byte, of the slave or of the idle line, and whichever
\* does not want or have more leaves the transfer.
LEMMA ReceiveGood ==
    ASSUME Inv, ByHardware, Receive
    PROVE  Inv'
<1> DEFINE byte == IF role = "tx" THEN twdr["slave"] ELSE IdleLine
           raised == IF role = "tx"
                     THEN IF ~twcr["master"] THEN "ST_DATA_NACK"
                          ELSE IF twcr["slave"] THEN "ST_DATA_ACK" ELSE "ST_LAST_DATA"
                     ELSE "none"
<1>1. /\ job = "receive" /\ status["slave"] = "none" /\ job' = "none"
      /\ twdr' = [twdr EXCEPT !["master"] = byte]
      /\ role' = IF role = "tx" /\ twcr["master"] /\ twcr["slave"] THEN "tx" ELSE "none"
      /\ UNCHANGED <<call, result, s, owed, answer, spoilt, troubles,
                     m, twcr, incoming, handed, overrun>>
  BY DEF Receive, ByHardware
<1>2. TypeOK /\ m \in MasterType
  BY DEF Inv, TypeOK
<1>3. /\ m.twi_state = "MRX" /\ status["master"] = "none" /\ ~m.inRepStart
      /\ call.kind = "read" /\ call # NoCall /\ owed = NoMessage
      /\ role \in {"tx", "none"} /\ m.buffer \in Seq(Bytes)
      /\ m.index = Len(m.buffer) /\ Got = Len(m.buffer) /\ Len(m.buffer) \in Nat
      /\ m.length \in Nat /\ m.index <= m.length
      /\ twcr["master"] <=> m.index < m.length
      /\ twcr["master"] \in BOOLEAN /\ twcr["slave"] \in BOOLEAN
  BY <1>1, AtReceive
<1>4. Signal(IF twcr["master"] THEN "MR_DATA_ACK" ELSE "MR_DATA_NACK", raised)
  <2>1. CASE role # "tx"
    BY <2>1 DEF Receive
  <2>2. CASE role = "tx" /\ ~twcr["master"]
    BY <2>2 DEF Receive
  <2>3. CASE role = "tx" /\ twcr["master"] /\ twcr["slave"]
    BY <2>3 DEF Receive
  <2>4. CASE role = "tx" /\ twcr["master"] /\ ~twcr["slave"]
    BY <2>4 DEF Receive
  <2>5. QED
    BY <2>1, <2>2, <2>3, <2>4
<1>5. {"MR_DATA_ACK", "MR_DATA_NACK", raised} \subseteq Statuses
  BY DEF Statuses, ReadCodes
<1>6. /\ status' \in [Nodes -> Statuses]
      /\ status'["master"] = IF twcr["master"] THEN "MR_DATA_ACK" ELSE "MR_DATA_NACK"
      /\ raised = "none" => status'["slave"] = "none"
      /\ raised # "none" => status'["slave"] = raised
  <2> HIDE DEF raised
  <2>1. CASE twcr["master"]
    BY <1>1, <1>2, <1>4, <1>5, <2>1, SignalEffect
  <2>2. CASE ~twcr["master"]
    BY <1>1, <1>2, <1>4, <1>5, <2>2, SignalEffect
  <2>3. QED
    BY <2>1, <2>2
<1>7. status'["slave"] = raised
  BY <1>6
<1>8. byte \in Bytes
  BY <1>2 DEF TypeOK, Nodes, IdleLine, Bytes
<1>9. /\ twdr' \in [Nodes -> Bytes] /\ twdr'["master"] = byte /\ twdr'["slave"] = twdr["slave"]
  <2> HIDE DEF byte
  <2>1. QED
    BY <1>1, <1>2, <1>8 DEF TypeOK, Nodes
<1>10. TypeOK'
  BY <1>1, <1>2, <1>6, <1>9 DEF TypeOK
<1>11. MasterPhase' /\ ReadCounted'
  BY <1>1, <1>3, <1>6 DEF Inv, MasterPhase, ReadCounted, Before, ReadCodes
<1>12. s.inHandler => role # "tx"
  BY <1>1 DEF Inv, SlavePhase
<1>13. SlavePhase'
  BY <1>1, <1>3, <1>6, <1>7, <1>12 DEF Inv, SlavePhase, Before
<1>14. BeginningHeld' /\ SentMessageIsKept'
  BY <1>1, <1>3, <1>7 DEF BeginningHeld, SentMessageIsKept
<1>15. HandlerGetsPrefix' /\ OverrunOnly' /\ SlaveListens'
  BY <1>1, <1>3, <1>7 DEF Inv, HandlerGetsPrefix, OverrunOnly, SlaveListens
<1>16. Got' = Got + 1
  BY <1>1, <1>3, <1>6 DEF Got
<1>17. role = "tx" =>
          /\ s.txBuffer = TxBuffer(answer) /\ s.txBufferIndex = Got + 1
          /\ Got < Len(TxBuffer(answer)) /\ byte = TxBuffer(answer)[Got + 1]
          /\ twcr["slave"] <=> Got + 1 < Len(TxBuffer(answer))
  BY <1>1 DEF Inv, ReplyCounted
<1>18. answer \in Seq(Bytes) /\ Len(TxBuffer(answer)) \in Nat
  BY <1>2, TxBufferType, LenProperties DEF TypeOK
<1>19. ReplyCounted'
  BY <1>1, <1>3, <1>7, <1>16, <1>17, <1>18 DEF ReplyCounted
<1>20. BytesRead'
  <2>1. SUFFICES ASSUME ~spoilt PROVE BytesRead'
    BY <1>1 DEF BytesRead
  <2>2. AllExpected'
    BY <1>1, <1>3, <2>1 DEF Inv, BytesRead, AllExpected, Expected
  <2>3. role # "tx" => Got >= Len(TxBuffer(answer))
    BY <1>1, <1>3, <2>1 DEF Inv, BytesRead
  <2>4. byte = Expected(Len(m.buffer) + 1)
    <3>1. CASE role = "tx"
      <4>1. Got + 1 <= Len(TxBuffer(answer))
        BY <1>3, <1>17, <1>18, <3>1
      <4>2. QED
        BY <1>3, <1>17, <3>1, <4>1 DEF Expected
    <3>2. CASE role # "tx"
      <4>1. ~(Got + 1 <= Len(TxBuffer(answer)))
        BY <1>3, <1>18, <2>3, <3>2
      <4>2. QED
        BY <1>3, <3>2, <4>1 DEF Expected
    <3>3. QED
      BY <3>1, <3>2
  <2>5. twdr'["master"] = Expected(Len(m.buffer) + 1)' /\ answer' = answer
    BY <1>1, <1>9, <2>4 DEF Expected
  <2>6. role' # "tx" /\ twcr["master"] => Got' >= Len(TxBuffer(answer'))
    <3>1. CASE role = "tx"
      BY <1>1, <1>3, <1>16, <1>17, <1>18, <3>1
    <3>2. CASE role # "tx"
      BY <1>1, <1>3, <1>16, <1>18, <2>3, <3>2
    <3>3. QED
      BY <3>1, <3>2
  <2> HIDE DEF byte, raised
  <2>7. QED
    BY <1>1, <1>6, <2>2, <2>5, <2>6 DEF BytesRead
<1>21. ReadIsOver'
  BY <1>1, <1>3 DEF ReadIsOver
<1>22. QED
  BY <1>1, <1>3, <1>10, <1>11, <1>13, <1>14, <1>15, <1>19, <1>20, <1>21, ReadIsNoWrite DEF Inv

\* The STOP hands over what the slave has received.
LEMMA StopGood ==
    ASSUME Inv, ByHardware, Stop
    PROVE  Inv'
<1>1. /\ job = "stop" /\ status["slave"] = "none" /\ job' = "none" /\ role' = "none"
      /\ Signal("none", IF role = "rx" THEN "SR_STOP" ELSE "none")
      /\ m' = [m EXCEPT !.twi_state = "READY"]
      /\ UNCHANGED <<call, result, s, owed, answer, spoilt, troubles,
                     twcr, twdr, incoming, handed, overrun>>
  BY DEF Stop, ByHardware
<1>2. TypeOK /\ m \in MasterType
  BY DEF Inv, TypeOK
<1>3. /\ m.twi_state \in {"MTX", "MRX"} /\ ~m.inRepStart /\ status["master"] = "none"
      /\ call # NoCall /\ Transferring
  BY <1>1, <1>2 DEF Inv, MasterPhase, MasterType, Transferring
<1>4. /\ m.twi_state = "MTX" => call.kind = "write"
      /\ m.twi_state = "MRX" => call.kind = "read"
  BY DEF Inv, MasterPhase
<1>5. owed = NoMessage /\ role # "tx"
  BY <1>1, <1>3 DEF Inv, OwedFirst, SlavePhase
<1>6. {"SR_STOP", "none"} \subseteq Statuses
  BY DEF Statuses
<1>7. /\ status' \in [Nodes -> Statuses] /\ status'["master"] = "none"
      /\ status'["slave"] = IF role = "rx" THEN "SR_STOP" ELSE "none"
  BY <1>1, <1>2, <1>6, SignalEffect
<1>8. /\ m' \in MasterType /\ m'.twi_state = "READY" /\ m'.inRepStart = m.inRepStart
      /\ m'.buffer = m.buffer /\ m'.error = m.error
  BY <1>1, <1>2 DEF MasterType
<1>9. TypeOK'
  BY <1>1, <1>2, <1>7, <1>8 DEF TypeOK
<1>10. MasterPhase' /\ WriteCounted' /\ ReadCounted'
  BY <1>1, <1>3, <1>7, <1>8 DEF MasterPhase, WriteCounted, ReadCounted
<1>11. SlavePhase'
  BY <1>1, <1>7 DEF Inv, SlavePhase, Before
<1>12. Received' = Received
  BY <1>1, <1>2, <1>7, <1>9, ReceivedCases, ReceivedCasesNext
<1>13. BeginningHeld'
  BY <1>1, <1>7, <1>12 DEF Inv, BeginningHeld
<1>14. SentIsThere'
  <2>1. SUFFICES ASSUME call.kind = "write", m.error = "none", ~spoilt
                 PROVE  role = "rx" /\ Received = UpTo(call.message, BUFFER_LENGTH)
    BY <1>1, <1>7, <1>8, <1>12 DEF SentIsThere
  <2>2. m.twi_state = "MTX"
    BY <1>3, <1>4, <2>1
  <2>3. role = "rx"
    BY <1>3, <2>1, <2>2 DEF Inv, StillHeard
  <2>4. Sent = Len(call.message)
    BY <1>1, <2>1, <2>2 DEF Inv, WriteCounted, Sent
  <2>5. QED
    BY <1>3, <2>3, <2>4, AllReceived
<1>15. BytesCounted' /\ StillHeard' /\ OwedFirst' /\ SentMessageIsKept'
  BY <1>1, <1>5, <1>8 DEF BytesCounted, StillHeard, OwedFirst, SentMessageIsKept
<1>16. HandlerGetsPrefix' /\ OverrunOnly' /\ SlaveListens' /\ ReplyCounted'
  BY <1>1, <1>5, <1>7
     DEF Inv, HandlerGetsPrefix, OverrunOnly, SlaveListens, SlavePhase, ReplyCounted
<1>17. AllExpected' <=> AllExpected
  BY <1>1, <1>8 DEF AllExpected, Expected
<1>18. BytesRead' /\ ReadIsOver' /\ ReadIsAnswer'
  BY <1>1, <1>3, <1>8, <1>17 DEF Inv, BytesRead, ReadIsOver, ReadIsAnswer
<1>19. QED
  BY <1>9, <1>10, <1>11, <1>13, <1>14, <1>15, <1>16, <1>18 DEF Inv

LEMMA HardwareGood ==
    ASSUME Inv, Hardware
    PROVE  Inv'
<1>1. CASE Send
  BY <1>1, SendTakenGood, SendRefusedGood DEF Hardware
<1>2. CASE ~Send
  BY <1>2, StartGood, AddressGood, ReceiveGood, StopGood DEF Hardware
<1>3. QED
  BY <1>1, <1>2

-----------------------------------------------------------------------------
(* Trouble *)

\* Noise breaks the transfer off at one end or at both.
LEMMA NoiseGood ==
    ASSUME Inv, Noise
    PROVE  Inv'
<1>1. PICK seen \in (SUBSET Nodes) \ {{}} :
          /\ role = "tx" => seen # {"master"}
          /\ status' = [n \in Nodes |-> IF n \in seen THEN "BUS_ERROR" ELSE status[n]]
          /\ job' = IF "master" \in seen THEN "none" ELSE job
          /\ role' = IF "slave" \in seen THEN "none" ELSE role
  BY DEF Noise
<1>2. /\ job \in {"address", "send", "receive"} /\ status["slave"] = "none" /\ spoilt' = TRUE
      /\ UNCHANGED <<call, result, m, s, twcr, twdr, incoming, handed, owed, answer, overrun>>
  BY DEF Noise, driver
<1>3. TypeOK /\ m \in MasterType
  BY DEF Inv, TypeOK
<1>4. /\ m.twi_state \in {"MTX", "MRX"} /\ ~m.inRepStart /\ status["master"] = "none"
      /\ call # NoCall
  BY <1>2, <1>3 DEF Inv, MasterPhase, MasterType
<1>5. owed = NoMessage /\ (job = "address" => role = "none")
  BY <1>2, AtAddress DEF Inv, OwedFirst, Transferring
<1>6. "BUS_ERROR" \in Statuses
  BY DEF Statuses
<1>7. /\ status' \in [Nodes -> Statuses]
      /\ status'["master"] = IF "master" \in seen THEN "BUS_ERROR" ELSE "none"
      /\ status'["slave"] = IF "slave" \in seen THEN "BUS_ERROR" ELSE "none"
  BY <1>1, <1>2, <1>3, <1>4, <1>6 DEF TypeOK, Nodes
<1>8. /\ "slave" \in seen \/ "master" \in seen
      /\ role = "tx" => "slave" \in seen
  <2>1. seen \in SUBSET Nodes /\ seen # {} /\ (role = "tx" => seen # {"master"})
    BY <1>1
  <2>2. seen \subseteq {"master", "slave"} /\ seen # {}
    BY <2>1 DEF Nodes
  <2>3. ASSUME "slave" \notin seen PROVE seen = {"master"}
    BY <2>2, <2>3
  <2>4. "slave" \in seen \/ "master" \in seen
    BY <2>2
  <2>5. QED
    BY <2>1, <2>3, <2>4
<1>9. TypeOK'
  BY <1>2, <1>3, <1>7 DEF TypeOK
<1>10. MasterPhase'
  BY <1>1, <1>2, <1>4, <1>7 DEF Inv, MasterPhase
<1>11. WriteCounted' /\ ReadCounted'
  BY <1>1, <1>2, <1>7 DEF Inv, WriteCounted, ReadCounted, Before
<1>12. SlavePhase'
  BY <1>1, <1>2, <1>5, <1>7, <1>8 DEF Inv, SlavePhase, Before
<1>13. Received' = Received
  BY <1>2, <1>3, <1>7, <1>9, ReceivedCases, ReceivedCasesNext
<1>14. BeginningHeld'
  BY <1>1, <1>2, <1>7, <1>13 DEF Inv, BeginningHeld
<1>15. role' # "none" => ~Transferring'
  BY <1>1, <1>7, <1>8 DEF Transferring, WriteCodes, ReadCodes
<1>16. BytesCounted' /\ StillHeard' /\ SentIsThere' /\ OwedFirst' /\ SentMessageIsKept'
  BY <1>2, <1>5, <1>15
     DEF BytesCounted, StillHeard, SentIsThere, OwedFirst, SentMessageIsKept
<1>17. HandlerGetsPrefix' /\ OverrunOnly' /\ SlaveListens'
  BY <1>1, <1>2, <1>7 DEF Inv, HandlerGetsPrefix, OverrunOnly, SlaveListens
<1>18. ReplyCounted'
  BY <1>1, <1>8 DEF ReplyCounted
<1>19. BytesRead' /\ ReadIsOver' /\ ReadIsAnswer'
  BY <1>2 DEF BytesRead, ReadIsOver, ReadIsAnswer
<1>20. QED
  BY <1>9, <1>10, <1>11, <1>12, <1>14, <1>16, <1>17, <1>18, <1>19 DEF Inv

\* A restart of the slave spoils the call and owes the handler nothing.
LEMMA SlaveBeginGood ==
    ASSUME Inv, SlaveBegin
    PROVE  Inv'
<1>1. /\ s' = SlaveStart /\ status' = [status EXCEPT !["slave"] = "none"]
      /\ twcr' = [twcr EXCEPT !["slave"] = TRUE]
      /\ role' = "none" /\ owed' = NoMessage /\ overrun' = FALSE /\ spoilt' = TRUE
      /\ UNCHANGED <<call, result, m, twdr, job, incoming, handed, answer>>
  BY DEF SlaveBegin
<1>2. TypeOK
  BY DEF Inv
<1>3. "none" \in Statuses
  BY DEF Statuses
<1>4. /\ status' \in [Nodes -> Statuses] /\ twcr' \in [Nodes -> BOOLEAN]
      /\ status'["slave"] = "none" /\ status'["master"] = status["master"]
      /\ twcr'["slave"] = TRUE /\ twcr'["master"] = twcr["master"]
  BY <1>1, <1>2, <1>3 DEF TypeOK, Nodes
<1>5. <<>> \in Seq(Bytes) /\ Len(<<>>) = 0 /\ BUFFER_LENGTH \in Nat
  BY TwoWireAssumption
<1>6. /\ s' \in SlaveType /\ s'.rxBuffer = <<>> /\ s'.inHandler = FALSE
  BY <1>1, <1>5 DEF SlaveStart, SlaveType
<1>7. TypeOK'
  <2>1. owed' \in NoBytes /\ Len(s'.rxBuffer) <= BUFFER_LENGTH
    BY <1>1, <1>5, <1>6 DEF NoBytes
  <2>2. overrun' \in BOOLEAN /\ spoilt' \in BOOLEAN
    BY <1>1
  <2>3. QED
    BY <1>1, <1>2, <1>4, <1>6, <2>1, <2>2 DEF TypeOK
<1>8. MasterPhase' /\ WriteCounted' /\ ReadCounted'
  BY <1>1, <1>4 DEF Inv, MasterPhase, WriteCounted, ReadCounted, Before
<1>9. SlavePhase'
  BY <1>1, <1>4, <1>6 DEF SlavePhase
<1>10. BeginningHeld' /\ BytesCounted' /\ SentMessageIsKept' /\ ReplyCounted'
  BY <1>1, <1>4 DEF BeginningHeld, BytesCounted, SentMessageIsKept, ReplyCounted
<1>11. StillHeard' /\ SentIsThere' /\ OwedFirst'
  BY <1>1 DEF StillHeard, SentIsThere, OwedFirst
<1>12. HandlerGetsPrefix' /\ OverrunOnly' /\ SlaveListens'
  BY <1>4, <1>6 DEF HandlerGetsPrefix, OverrunOnly, SlaveListens
<1>13. BytesRead' /\ ReadIsOver' /\ ReadIsAnswer'
  BY <1>1 DEF BytesRead, ReadIsOver, ReadIsAnswer
<1>14. QED
  BY <1>7, <1>8, <1>9, <1>10, <1>11, <1>12, <1>13 DEF Inv

-----------------------------------------------------------------------------
(* The master's program *)

\* A call begins: nothing is transferred yet, whatever the slave still holds.
LEMMA OpenEffect ==
    ASSUME Inv, Open, m'.twi_state \in {"MTX", "MRX"}
    PROVE  /\ job' \in {"start", "address"} /\ role # "tx"
           /\ role # "none" => job' = "start"
           /\ status' \in [Nodes -> Statuses] /\ status'["master"] = "none"
           /\ status'["slave"] = status["slave"]
           /\ twcr' \in [Nodes -> BOOLEAN] /\ twcr'["slave"] = twcr["slave"]
           /\ spoilt' = FALSE /\ ~Transferring'
           /\ UNCHANGED <<s, twdr, role, incoming, handed, owed, answer, overrun>>
<1>1. /\ call = NoCall /\ m.twi_state = "READY" /\ job = "none"
      /\ m.inRepStart => status["master"] = "REP_START"
      /\ job' = IF m.inRepStart THEN "address" ELSE "start"
      /\ status' = [status EXCEPT !["master"] = "none"]
      /\ twcr' = [twcr EXCEPT !["master"] = TRUE]
      /\ spoilt' = FALSE
      /\ UNCHANGED <<s, twdr, role, incoming, handed, owed, answer, overrun>>
  BY DEF Open
<1>2. "none" \in Statuses
  BY DEF Statuses
<1>3. /\ status' \in [Nodes -> Statuses] /\ status'["master"] = "none"
      /\ status'["slave"] = status["slave"]
      /\ twcr' \in [Nodes -> BOOLEAN] /\ twcr'["slave"] = twcr["slave"]
  BY <1>1, <1>2 DEF Inv, TypeOK, Nodes
<1>4. role # "tx" /\ (role # "none" => job' = "start")
  BY <1>1 DEF Inv, SlavePhase
<1>5. ~Transferring'
  BY <1>1, <1>3 DEF Transferring, WriteCodes, ReadCodes
<1>6. QED
  BY <1>1, <1>3, <1>4, <1>5

\* What does not depend on the call that begins.
LEMMA OpenGood ==
    ASSUME Inv, Open, m'.twi_state \in {"MTX", "MRX"}
    PROVE  /\ SlavePhase' /\ BeginningHeld' /\ BytesCounted' /\ StillHeard' /\ SentIsThere'
           /\ OwedFirst' /\ SentMessageIsKept' /\ HandlerGetsPrefix' /\ OverrunOnly'
           /\ SlaveListens' /\ ReplyCounted'
<1>1. /\ job' \in {"start", "address"} /\ role # "tx"
      /\ role # "none" => job' = "start"
      /\ status'["master"] = "none" /\ status'["slave"] = status["slave"]
      /\ twcr'["slave"] = twcr["slave"] /\ ~Transferring'
      /\ UNCHANGED <<s, twdr, role, incoming, handed, owed, answer, overrun>>
  BY OpenEffect
<1>2. SlavePhase'
  BY <1>1 DEF Inv, SlavePhase, Before
<1>3. BytesCounted' /\ StillHeard' /\ SentIsThere' /\ OwedFirst' /\ ReplyCounted'
  BY <1>1 DEF BytesCounted, StillHeard, SentIsThere, OwedFirst, ReplyCounted
<1>4. QED
  BY <1>1, <1>2, <1>3, SlaveUntouched

LEMMA BeginWriteGood ==
    ASSUME Inv, BeginWrite
    PROVE  Inv'
<1>1. PICK to \in {"slave", "absent"}, message \in Messages, sendStop \in BOOLEAN :
          /\ Open
          /\ call' = [kind |-> "write", to |-> to, message |-> Written(message)]
          /\ m' = [twi_state |-> "MTX", sendStop |-> sendStop, inRepStart |-> FALSE,
                   slarw |-> [to |-> to, rw |-> "write"],
                   buffer |-> Written(message), index |-> 0,
                   length |-> Len(Written(message)), error |-> "none"]
  BY DEF BeginWrite
<1> DEFINE w == Written(message)
<1>2. w \in Seq(Bytes) /\ Len(w) \in Nat
  BY WrittenType, LenProperties
<1> HIDE DEF w
<1>3. /\ call' \in CallType /\ call'.kind = "write" /\ call'.to = to /\ call'.message = w
      /\ call' # NoCall
  BY <1>1, <1>2 DEF CallType, Targets, NoCall, w
<1>4. /\ m' \in MasterType /\ m'.twi_state = "MTX" /\ ~m'.inRepStart
      /\ m'.slarw = [to |-> to, rw |-> "write"] /\ m'.buffer = w /\ m'.index = 0
      /\ m'.length = Len(w) /\ m'.error = "none"
  BY <1>1, <1>2 DEF MasterType, Targets, w
<1>5. /\ job' \in {"start", "address"} /\ role' # "tx"
      /\ status' \in [Nodes -> Statuses] /\ status'["master"] = "none"
      /\ twcr' \in [Nodes -> BOOLEAN] /\ spoilt' = FALSE
      /\ UNCHANGED <<s, twdr, role, incoming, handed, owed, answer, overrun>>
  BY <1>1, <1>4, OpenEffect
<1>6. TypeOK'
  BY <1>3, <1>4, <1>5 DEF Inv, TypeOK
<1>7. MasterPhase' /\ WriteCounted'
  BY <1>2, <1>3, <1>4, <1>5 DEF MasterPhase, WriteCounted
<1>8. QED
  BY <1>1, <1>3, <1>4, <1>5, <1>6, <1>7, OpenGood, WriteIsNoRead DEF Inv

LEMMA BeginReadGood ==
    ASSUME Inv, BeginRead
    PROVE  Inv'
<1>1. PICK to \in {"slave", "absent"}, quantity \in Quantities, sendStop \in BOOLEAN :
          /\ Open
          /\ call' = [kind |-> "read", to |-> to, quantity |-> MinOf(quantity, MASTER_LENGTH)]
          /\ m' = [twi_state |-> "MRX", sendStop |-> sendStop, inRepStart |-> FALSE,
                   slarw |-> [to |-> to, rw |-> "read"],
                   buffer |-> <<>>, index |-> 0,
                   length |-> MinOf(quantity, MASTER_LENGTH) - 1, error |-> "none"]
  BY DEF BeginRead
<1> DEFINE wanted == MinOf(quantity, MASTER_LENGTH)
<1>2. wanted \in Nat \ {0} /\ wanted - 1 \in Nat
  BY TwoWireAssumption DEF MinOf
<1> HIDE DEF wanted
<1>3. /\ call' \in CallType /\ call'.kind = "read" /\ call'.to = to
      /\ call'.quantity = wanted /\ call' # NoCall
  BY <1>1, <1>2 DEF CallType, Targets, NoCall, wanted
<1>4. <<>> \in Seq(Bytes) /\ Len(<<>>) = 0
  OBVIOUS
<1>5. /\ m' \in MasterType /\ m'.twi_state = "MRX" /\ ~m'.inRepStart
      /\ m'.slarw = [to |-> to, rw |-> "read"] /\ m'.buffer = <<>> /\ m'.index = 0
      /\ m'.length = wanted - 1
  BY <1>1, <1>2, <1>4 DEF MasterType, Targets, wanted
<1>6. /\ job' \in {"start", "address"} /\ role' # "tx"
      /\ status' \in [Nodes -> Statuses] /\ status'["master"] = "none"
      /\ twcr' \in [Nodes -> BOOLEAN] /\ spoilt' = FALSE
      /\ UNCHANGED <<s, twdr, role, incoming, handed, owed, answer, overrun>>
  BY <1>1, <1>5, OpenEffect
<1>7. TypeOK'
  BY <1>3, <1>5, <1>6 DEF Inv, TypeOK
<1>8. MasterPhase' /\ WriteCounted'
  BY <1>3, <1>5, <1>6 DEF MasterPhase, WriteCounted
<1>9. ReadCounted'
  BY <1>3, <1>4, <1>5, <1>6 DEF ReadCounted
<1>10. AllExpected'
  BY <1>5 DEF AllExpected
<1>11. BytesRead' /\ ReadIsOver' /\ ReadIsAnswer'
  BY <1>3, <1>5, <1>6, <1>10 DEF BytesRead, ReadIsOver, ReadIsAnswer
<1>12. QED
  BY <1>1, <1>5, <1>7, <1>8, <1>9, <1>11, OpenGood DEF Inv

\* Between transfers nothing is transferred and no reply is on its way.
LEMMA WhenReady ==
    ASSUME Inv, call # NoCall, m.twi_state \notin {"MTX", "MRX"}
    PROVE  /\ m.twi_state = "READY" /\ ~Transferring /\ role # "tx"
           /\ call.kind \in {"write", "read"}
           /\ call.kind = "write" => call.message \in Seq(Bytes)
           /\ call.kind = "read" => call.quantity \in Nat \ {0}
<1>1. m.twi_state = "READY"
  BY DEF Inv, TypeOK, MasterType
<1>2. ~Transferring
  BY <1>1 DEF Inv, MasterPhase, Transferring, WriteCodes, ReadCodes
<1>3. role # "tx"
  BY <1>1 DEF Inv, SlavePhase
<1>4. /\ call.kind \in {"write", "read"}
      /\ call.kind = "write" => call.message \in Seq(Bytes)
      /\ call.kind = "read" => call.quantity \in Nat \ {0}
  BY DEF Inv, TypeOK, CallType
<1>5. QED
  BY <1>1, <1>2, <1>3, <1>4

\* What a return does not change.
LEMMA ReturnFrame ==
    ASSUME Inv, Return, owed' \in NoBytes, SentMessageIsKept', ReadIsAnswer'
    PROVE  Inv'
<1>1. /\ call # NoCall /\ m.twi_state \notin {"MTX", "MRX"} /\ call' = NoCall
      /\ UNCHANGED <<m, s, twcr, twdr, status, job, role,
                     incoming, handed, answer, overrun, spoilt, troubles>>
  BY DEF Return, driver, wires
<1>2. m.twi_state = "READY" /\ ~Transferring /\ role # "tx"
  BY <1>1, WhenReady
<1>3. TypeOK'
  BY <1>1 DEF Inv, TypeOK, CallType
<1>4. MasterPhase' /\ WriteCounted' /\ ReadCounted'
  BY <1>1, <1>2 DEF Inv, MasterPhase, WriteCounted, ReadCounted
<1>5. SlavePhase'
  BY <1>1, <1>2 DEF Inv, SlavePhase, Before
<1>6. Received' = Received /\ ~Transferring'
  BY <1>1, <1>2 DEF Received, Transferring
<1>7. BeginningHeld' /\ HandlerGetsPrefix' /\ OverrunOnly' /\ SlaveListens'
  BY <1>1, <1>6 DEF Inv, BeginningHeld, HandlerGetsPrefix, OverrunOnly, SlaveListens
<1>8. BytesCounted' /\ StillHeard' /\ OwedFirst' /\ ReplyCounted'
  BY <1>1, <1>2, <1>6 DEF BytesCounted, StillHeard, OwedFirst, ReplyCounted
<1>9. SentIsThere' /\ ReadIsOver' /\ BytesRead'
  BY <1>1, <1>2 DEF SentIsThere, ReadIsOver, BytesRead, NoCall
<1>10. QED
  BY <1>3, <1>4, <1>5, <1>7, <1>8, <1>9 DEF Inv

\* endTransmission returns.
LEMMA ReturnWriteGood ==
    ASSUME Inv, Return, call.kind = "write"
    PROVE  Inv'
<1> DEFINE kept == [got |-> UpTo(call.message, BUFFER_LENGTH)]
<1>1. /\ call # NoCall /\ m.twi_state \notin {"MTX", "MRX"} /\ call' = NoCall
      /\ result' = [kind |-> "written", to |-> call.to, code |-> WriteResult]
      /\ owed' = IF WriteResult = 0 /\ ~spoilt /\ handed # kept THEN kept ELSE owed
      /\ UNCHANGED <<s, twdr, status, role, handed>>
  BY DEF Return, driver, wires
<1>2. m.twi_state = "READY" /\ call.message \in Seq(Bytes) /\ BUFFER_LENGTH \in Nat
  BY <1>1, WhenReady, TwoWireAssumption
<1>3. kept \in NoBytes /\ kept.got = UpTo(call.message, BUFFER_LENGTH)
  BY <1>2, UpToProperties DEF NoBytes
<1>4. owed' \in NoBytes
  BY <1>1, <1>3 DEF Inv, TypeOK
<1>5. Received' = Received
  BY <1>1 DEF Received
<1>6. SentMessageIsKept'
  <2>1. CASE WriteResult = 0 /\ ~spoilt /\ handed # kept
    <3>1. m.error = "none"
      <4>1. m.error \in {"none", "MT_SLA_NACK", "MT_DATA_NACK", "BUS_ERROR"}
        BY DEF Inv, TypeOK, MasterType
      <4>2. QED
        BY <2>1, <4>1 DEF WriteResult
    <3>2. /\ Received = UpTo(call.message, BUFFER_LENGTH)
          /\ role = "rx" \/ status["slave"] = "SR_STOP"
      BY <1>2, <2>1, <3>1 DEF Inv, SentIsThere, Kept
    <3>3. owed' = kept
      BY <1>1, <2>1
    <3>4. QED
      BY <1>1, <1>3, <1>5, <3>2, <3>3 DEF SentMessageIsKept
  <2>2. CASE ~(WriteResult = 0 /\ ~spoilt /\ handed # kept)
    <3>1. owed' = owed
      BY <1>1, <2>2
    <3>2. QED
      BY <1>1, <1>5, <3>1 DEF Inv, SentMessageIsKept
  <2>3. QED
    BY <2>1, <2>2
<1>7. ReadIsAnswer'
  BY <1>1 DEF ReadIsAnswer
<1>8. QED
  BY <1>4, <1>6, <1>7, ReturnFrame

\* requestFrom returns what the master has read.
LEMMA ReturnReadGood ==
    ASSUME Inv, Return, call.kind # "write"
    PROVE  Inv'
<1>1. /\ call # NoCall /\ m.twi_state \notin {"MTX", "MRX"} /\ call' = NoCall
      /\ result' = [kind |-> "received", to |-> call.to, quantity |-> call.quantity,
                    bytes |-> UpTo(m.buffer, call.quantity)]
      /\ UNCHANGED <<m, s, twdr, status, role, handed, owed, answer, overrun, spoilt>>
  BY DEF Return, driver, wires
<1>2. m.twi_state = "READY" /\ call.kind = "read" /\ call.quantity \in Nat \ {0}
  BY <1>1, WhenReady
<1>3. owed' \in NoBytes
  BY <1>1 DEF Inv, TypeOK
<1>4. Received' = Received
  BY <1>1 DEF Received
<1>5. SentMessageIsKept'
  BY <1>1, <1>4 DEF Inv, SentMessageIsKept
<1>6. m.buffer \in Seq(Bytes)
  BY DEF Inv, TypeOK, MasterType
<1>7. Len(m.buffer) <= call.quantity => UpTo(m.buffer, call.quantity) = m.buffer
  BY <1>2, <1>6, UpToProperties
<1>8. ReadIsAnswer'
  <2>1. SUFFICES ASSUME ~spoilt PROVE ReadIsAnswer'
    BY <1>1 DEF ReadIsAnswer
  <2>2. CASE (call.to = "absent" \/ overrun) /\ m.buffer = <<>>
    <3>1. result'.bytes = <<>>
      BY <1>1, <1>2, <1>7, <2>2, LenProperties
    <3>2. QED
      BY <1>1, <2>2, <3>1 DEF ReadIsAnswer
  <2>3. CASE Len(m.buffer) = call.quantity /\ AllExpected
    <3>1. /\ result'.quantity = call.quantity /\ result'.bytes = m.buffer
      BY <1>1, <1>2, <1>7, <2>3
    <3>2. \A i \in 1 .. call.quantity :
             m.buffer[i] = IF i <= Len(TxBuffer(answer)) THEN TxBuffer(answer)[i] ELSE IdleLine
      BY <2>3 DEF AllExpected, Expected
    <3>3. TxBuffer(answer') = TxBuffer(answer)
      BY <1>1
    <3>4. QED
      BY <2>3, <3>1, <3>2, <3>3 DEF ReadIsAnswer
  <2>4. QED
    BY <1>2, <2>1, <2>2, <2>3 DEF Inv, ReadIsOver
<1>9. QED
  BY <1>3, <1>5, <1>8, ReturnFrame

-----------------------------------------------------------------------------
(* The theorems *)

LEMMA InvInit == Init => Inv
<1> SUFFICES ASSUME Init PROVE Inv
  OBVIOUS
<1>1. /\ call = NoCall /\ result = NoMessage
      /\ m = [twi_state |-> "READY", sendStop |-> TRUE, inRepStart |-> FALSE,
              slarw |-> [to |-> "slave", rw |-> "write"],
              buffer |-> <<>>, index |-> 0, length |-> 0, error |-> "none"]
      /\ s = SlaveStart /\ twcr = [n \in Nodes |-> TRUE] /\ twdr = [n \in Nodes |-> Zero]
      /\ status = [n \in Nodes |-> "none"] /\ job = "none" /\ role = "none"
      /\ incoming = <<>> /\ handed = NoMessage /\ owed = NoMessage
      /\ answer = <<>> /\ overrun = FALSE /\ spoilt = FALSE
  BY DEF Init
<1>2. <<>> \in Seq(Bytes) /\ Len(<<>>) = 0 /\ BUFFER_LENGTH \in Nat /\ Zero \in Bytes
  BY TwoWireAssumption DEF Zero, Bytes
<1>3. "none" \in Statuses
  BY DEF Statuses
<1>4. m \in MasterType /\ m.twi_state = "READY" /\ ~m.inRepStart
  BY <1>1, <1>2 DEF MasterType, Targets
<1>5. s \in SlaveType /\ s.rxBuffer = <<>> /\ s.inHandler = FALSE
  BY <1>1, <1>2 DEF SlaveType, SlaveStart
<1>6. /\ twcr \in [Nodes -> BOOLEAN] /\ twdr \in [Nodes -> Bytes]
      /\ status \in [Nodes -> Statuses] /\ status["master"] = "none"
      /\ status["slave"] = "none" /\ twcr["slave"] = TRUE
  BY <1>1, <1>2, <1>3 DEF Nodes
<1>7. TypeOK
  <2>1. call \in CallType /\ handed \in NoBytes /\ owed \in NoBytes
    BY <1>1 DEF CallType, NoBytes
  <2>2. Len(s.rxBuffer) <= BUFFER_LENGTH
    BY <1>2, <1>5
  <2>3. overrun \in BOOLEAN /\ spoilt \in BOOLEAN
    BY <1>1
  <2>4. QED
    BY <1>1, <1>2, <1>4, <1>5, <1>6, <2>1, <2>2, <2>3 DEF TypeOK
<1>8. MasterPhase /\ WriteCounted /\ ReadCounted
  BY <1>1, <1>4, <1>6 DEF MasterPhase, WriteCounted, ReadCounted
<1>9. SlavePhase /\ BeginningHeld /\ BytesCounted /\ StillHeard
  BY <1>1, <1>4, <1>5, <1>6 DEF SlavePhase, BeginningHeld, BytesCounted, StillHeard
<1>10. SentIsThere /\ OwedFirst /\ SentMessageIsKept /\ HandlerGetsPrefix
  BY <1>1 DEF SentIsThere, OwedFirst, SentMessageIsKept, HandlerGetsPrefix, NoCall
<1>11. OverrunOnly /\ SlaveListens /\ ReplyCounted
  BY <1>1, <1>6 DEF OverrunOnly, SlaveListens, ReplyCounted
<1>12. BytesRead /\ ReadIsOver /\ ReadIsAnswer
  BY <1>1, <1>4 DEF BytesRead, ReadIsOver, ReadIsAnswer, NoCall
<1>13. QED
  BY <1>7, <1>8, <1>9, <1>10, <1>11, <1>12 DEF Inv

\* A step that changes nothing.
LEMMA InvStutter == Inv /\ UNCHANGED vars => Inv'
<1> SUFFICES ASSUME Inv, UNCHANGED vars PROVE Inv'
  OBVIOUS
<1>1. UNCHANGED <<call, result, m, s, twcr, twdr, status, job, role,
                  incoming, handed, owed, answer, overrun, spoilt, troubles>>
  BY DEF vars, driver, wires, history
<1>2. TypeOK'
  BY <1>1 DEF Inv, TypeOK
<1>3. (Transferring' <=> Transferring) /\ (Before' <=> Before)
  BY <1>1 DEF Transferring, Before
<1>4. Sent' = Sent /\ Got' = Got /\ (AllExpected' <=> AllExpected)
  BY <1>1 DEF Sent, Got, AllExpected, Expected
<1>5. MasterPhase' /\ WriteCounted' /\ ReadCounted' /\ SlavePhase'
  BY <1>1, <1>3 DEF Inv, MasterPhase, WriteCounted, ReadCounted, SlavePhase
<1>6. BytesCounted' /\ StillHeard' /\ OwedFirst'
  BY <1>1, <1>3, <1>4 DEF Inv, BytesCounted, StillHeard, OwedFirst
<1>7. Received' = Received
  BY <1>1 DEF Received
<1>8. SentIsThere'
  BY <1>1, <1>7 DEF Inv, SentIsThere, Kept
<1>9. ReplyCounted'
  BY <1>1, <1>4 DEF Inv, ReplyCounted
<1>10. BytesRead' /\ ReadIsOver' /\ ReadIsAnswer'
  BY <1>1, <1>4 DEF Inv, BytesRead, ReadIsOver, ReadIsAnswer, Expected
<1>11. QED
  BY <1>1, <1>2, <1>5, <1>6, <1>8, <1>9, <1>10, SlaveUntouched DEF Inv

LEMMA InvNext == Inv /\ [Next]_vars => Inv'
<1> SUFFICES ASSUME Inv, [Next]_vars PROVE Inv'
  OBVIOUS
<1>1. CASE BeginWrite
  BY <1>1, BeginWriteGood
<1>2. CASE BeginRead
  BY <1>2, BeginReadGood
<1>3. CASE Return
  BY <1>3, ReturnWriteGood, ReturnReadGood
<1>4. CASE MasterHandler
  BY <1>4, MasterGood
<1>5. CASE SlaveHandler
  BY <1>5, SlaveGood
<1>6. CASE Hardware
  BY <1>6, HardwareGood
<1>7. CASE Noise
  BY <1>7, NoiseGood
<1>8. CASE SlaveBegin
  BY <1>8, SlaveBeginGood
<1>9. CASE UNCHANGED vars
  BY <1>9, InvStutter
<1>10. QED
  BY <1>1, <1>2, <1>3, <1>4, <1>5, <1>6, <1>7, <1>8, <1>9 DEF Next

\* Both ends of the bus agree, at every moment of every transfer, on what has gone
\* over it: the invariant that the other theorems are read off.
THEOREM Invariance == Spec => []Inv
BY InvInit, InvNext, PTL DEF Spec

\* A message that endTransmission has reported as sent is not lost or overwritten
\* before the receive handler has got it, as much of it as its buffer holds.
THEOREM SentKept == Spec => []SentMessageIsKept
<1>1. Inv => SentMessageIsKept
  BY DEF Inv
<1>2. QED
  BY <1>1, Invariance, PTL

\* What the receive handler is given is the beginning of one message, however many
\* transfers break off.
THEOREM HandlerPrefix == Spec => []HandlerGetsPrefix
<1>1. Inv => HandlerGetsPrefix
  BY DEF Inv
<1>2. QED
  BY <1>1, Invariance, PTL

\* What requestFrom returns is the reply of the request handler and idle lines.
THEOREM ReadAnswered == Spec => []ReadIsAnswer
<1>1. Inv => ReadIsAnswer
  BY DEF Inv
<1>2. QED
  BY <1>1, Invariance, PTL

\* No way out of a transfer leaves the slave deaf, but a message of two bytes more
\* than its buffer.
THEOREM SlaveAnswers == Spec => []SlaveListens
<1>1. Inv => SlaveListens
  BY DEF Inv
<1>2. QED
  BY <1>1, Invariance, PTL
=============================================================================
