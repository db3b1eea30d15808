----------------------- MODULE HardwareSerial_proofs ------------------------
(***************************************************************************)
(* Proofs about the serial port, for buffers of every size: the transmit   *)
(* interrupt never finds its buffer empty, a flush returns when all is     *)
(* sent, and both directions are the queue of ByteQueue.                   *)
(***************************************************************************)
EXTENDS HardwareSerial, SequenceTheorems, TLAPS

-----------------------------------------------------------------------------
(* The inductive invariant *)

Rings(size) == [buffer : [0 .. size - 1 -> Bytes], head : 0 .. size - 1, tail : 0 .. size - 1]

\* A register of the UART is empty or holds a byte.
Registers == {<<>>} \cup {<<b>> : b \in Bytes}

\* Where write is, and where a call is that needs a port which has begun.
Writing == {"empty?", "ready?", "direct", "clear TXC", "full?", "store", "enable UDRIE"}

Flushing == {"flush", "end"}

TypeOK ==
    /\ pc \in Writing \cup Flushing \cup {"idle", "ended", "advance"}
    /\ c \in Bytes
    /\ tx \in Rings(SERIAL_TX_BUFFER_SIZE) /\ rx \in Rings(SERIAL_RX_BUFFER_SIZE)
    /\ udr \in Registers /\ shift \in Registers
    /\ wire \in Registers /\ got \in Registers
    /\ fifo \in Seq(Frames)
    /\ written \in BOOLEAN /\ UDRIE \in BOOLEAN /\ TXC \in BOOLEAN
    /\ interrupts \in BOOLEAN /\ on \in BOOLEAN /\ fresh \in BOOLEAN

\* Bytes are in the buffer only of a port that has begun and been written to.
OnlyWritten ==
    /\ pc \in Writing \cup Flushing => on /\ written
    /\ pc = "ended" => on /\ IsEmpty(tx)
    /\ ~on \/ ~written => IsEmpty(tx)

\* What the tests of write have found is still so when it acts on them.
TestsHold ==
    /\ pc \in {"ready?", "direct"} => IsEmpty(tx)
    /\ pc = "direct" => udr = <<>>
    /\ pc = "store" => ~IsFull(tx, SERIAL_TX_BUFFER_SIZE)
    /\ pc = "advance" => ~IsEmpty(rx)

\* The interrupt is enabled while there is data, but for the moment between a new
\* head and UDRIE.
DataMeansEnabled == ~UDRIE /\ pc # "enable UDRIE" => IsEmpty(tx)

HasTwo(ring, size) == ~IsEmpty(ring) /\ (ring.tail + 1) % size # ring.head

\* In that moment the interrupt takes no more than the byte before the new one:
\* it would have to wait for another frame.
WindowIsShort ==
    pc = "enable UDRIE" =>
        /\ ~IsEmpty(tx)
        /\ UDRIE /\ interrupts =>
              \/ HasTwo(tx, SERIAL_TX_BUFFER_SIZE) /\ udr # <<>>
              \/ HasTwo(tx, SERIAL_TX_BUFFER_SIZE) /\ shift # <<>> /\ fresh
              \/ udr # <<>> /\ shift # <<>> /\ fresh

\* TXC says that the line is idle, but for the moment before it is cleared.
CompleteMeansIdle == TXC => (udr = <<>> /\ shift = <<>>) \/ pc = "clear TXC"

Inv ==
    /\ TypeOK
    /\ EnabledMeansData
    /\ OnlyWritten
    /\ TestsHold
    /\ DataMeansEnabled
    /\ WindowIsShort
    /\ CompleteMeansIdle

-----------------------------------------------------------------------------
(* What the operators of the ring buffers do *)

\* A place in a ring, and the way from one to another.
Wrapped(x, n) == IF x < n THEN x ELSE x - n

Way(from, to, n) == IF to < from THEN n + to - from ELSE to - from

LEMMA OneTurn ==
    ASSUME NEW n \in Nat \ {0}, NEW x \in Nat, x < n + n
    PROVE  x % n = Wrapped(x, n)
<1>1. CASE x < n
  BY <1>1 DEF Wrapped
<1>2. CASE ~(x < n)
  BY <1>2 DEF Wrapped
<1>3. QED
  BY <1>1, <1>2

LEMMA WayOfOne ==
    ASSUME NEW n \in Nat \ {0, 1}, NEW from \in 0 .. n - 1, NEW to \in 0 .. n - 1
    PROVE  /\ Way(from, to, n) # n - 1 =>
                 Way(from, Wrapped(to + 1, n), n) = Way(from, to, n) + 1
           /\ Wrapped(from + Way(from, to, n), n) = to
           /\ Way(from, to, n) # 0 =>
                 Way(Wrapped(from + 1, n), to, n) = Way(from, to, n) - 1
<1>1. CASE to < from
  BY <1>1 DEF Way, Wrapped
<1>2. CASE ~(to < from)
  BY <1>2 DEF Way, Wrapped
<1>3. QED
  BY <1>1, <1>2

\* A ring is full one byte before it would look empty.
LEMMA CountOfRing ==
    ASSUME NEW size \in Nat \ {0, 1}, NEW r \in Rings(size)
    PROVE  /\ Count(r, size) = Way(r.tail, r.head, size)
           /\ Count(r, size) \in 0 .. size - 1
           /\ IsEmpty(r) <=> Count(r, size) = 0
           /\ IsFull(r, size) <=> Count(r, size) = size - 1
<1>1. r.head \in Nat /\ r.tail \in Nat /\ r.head < size /\ r.tail < size
  BY DEF Rings
<1>2. Count(r, size) = Way(r.tail, r.head, size)
  <2> DEFINE x == size + r.head - r.tail
  <2>1. x \in Nat /\ x < size + size
    BY <1>1
  <2>2. x % size = Wrapped(x, size)
    BY <2>1, OneTurn
  <2>3. Wrapped(x, size) = Way(r.tail, r.head, size)
    BY <1>1 DEF Wrapped, Way
  <2>4. QED
    BY <2>2, <2>3 DEF Count
<1>3. (r.head + 1) % size = Wrapped(r.head + 1, size)
  <2>1. r.head + 1 \in Nat /\ r.head + 1 < size + size
    BY <1>1
  <2>2. QED
    BY <2>1, OneTurn
<1>4. Count(r, size) \in 0 .. size - 1 /\ (r.head = r.tail <=> Count(r, size) = 0)
  BY <1>1, <1>2 DEF Way
<1>5. (r.head + 1) % size = r.tail <=> Count(r, size) = size - 1
  BY <1>1, <1>2, <1>3 DEF Way, Wrapped
<1>6. QED
  BY <1>2, <1>4, <1>5 DEF IsEmpty, IsFull

LEMMA PlaceOfByte ==
    ASSUME NEW size \in Nat \ {0, 1}, NEW r \in Rings(size),
           NEW k \in 1 .. size - 1
    PROVE  /\ (r.tail + k - 1) % size = Wrapped(r.tail + k - 1, size)
           /\ (r.tail + k - 1) % size \in 0 .. size - 1
<1>1. r.tail \in Nat /\ r.tail < size
  BY DEF Rings
<1>2. r.tail + k - 1 \in Nat /\ r.tail + k - 1 < size + size
  BY <1>1
<1>3. (r.tail + k - 1) % size = Wrapped(r.tail + k - 1, size)
  BY <1>2, OneTurn
<1>4. (r.tail + k - 1) % size \in 0 .. size - 1
  BY <1>2, <1>3 DEF Wrapped
<1>5. QED
  BY <1>3, <1>4

LEMMA ContentsType ==
    ASSUME NEW size \in Nat \ {0, 1}, NEW r \in Rings(size)
    PROVE  /\ Contents(r, size) \in Seq(Bytes)
           /\ Len(Contents(r, size)) = Count(r, size)
           /\ IsEmpty(r) <=> Contents(r, size) = <<>>
<1> DEFINE n == Count(r, size)
<1>1. n \in 0 .. size - 1 /\ (IsEmpty(r) <=> n = 0)
  BY CountOfRing
<1> HIDE DEF n
<1>2. \A k \in 1 .. n : r.buffer[(r.tail + k - 1) % size] \in Bytes
  <2>1. TAKE k \in 1 .. n
  <2>2. k \in 1 .. size - 1
    BY <1>1
  <2>3. (r.tail + k - 1) % size \in 0 .. size - 1
    BY <2>2, PlaceOfByte
  <2>4. QED
    BY <2>3 DEF Rings
<1>3. Contents(r, size) = [k \in 1 .. n |-> r.buffer[(r.tail + k - 1) % size]]
  BY DEF Contents, n
<1>4. Contents(r, size) \in [1 .. n -> Bytes]
  BY <1>2, <1>3
<1>5. Contents(r, size) \in Seq(Bytes) /\ Len(Contents(r, size)) = n
  BY <1>1, <1>4
<1>6. QED
  BY <1>1, <1>5, EmptySeq DEF n

\* A byte goes to the end of what the ring holds.
LEMMA PutEffect ==
    ASSUME NEW size \in Nat \ {0, 1}, NEW r \in Rings(size), NEW byte \in Bytes,
           ~IsFull(r, size)
    PROVE  /\ Put(r, size, byte) \in Rings(size)
           /\ Contents(Put(r, size, byte), size) = Append(Contents(r, size), byte)
<1> DEFINE p == Put(r, size, byte)
           n == Count(r, size)
<1>1. /\ r.head \in Nat /\ r.tail \in Nat /\ r.head < size /\ r.tail < size
      /\ r.buffer \in [0 .. size - 1 -> Bytes]
  BY DEF Rings
<1>2. (r.head + 1) % size = Wrapped(r.head + 1, size)
  <2>1. r.head + 1 \in Nat /\ r.head + 1 < size + size
    BY <1>1
  <2>2. QED
    BY <2>1, OneTurn
<1>3. p = [buffer |-> [r.buffer EXCEPT ![r.head] = byte],
           head |-> (r.head + 1) % size, tail |-> r.tail]
  <2>1. r = [buffer |-> r.buffer, head |-> r.head, tail |-> r.tail]
    BY DEF Rings
  <2>2. p = [[r EXCEPT !.buffer = [r.buffer EXCEPT ![r.head] = byte]]
                EXCEPT !.head = (r.head + 1) % size]
    BY <2>1 DEF Put
  <2>3. QED
    BY <2>1, <2>2
<1>4. p.head \in 0 .. size - 1
  BY <1>1, <1>2, <1>3 DEF Wrapped
<1>5. p \in Rings(size)
  BY <1>1, <1>3, <1>4 DEF Rings
<1>6. /\ n = Way(r.tail, r.head, size)
      /\ n \in 0 .. size - 2
  BY <1>1, CountOfRing
<1>7. Count(p, size) = Way(p.tail, p.head, size)
  BY <1>5, CountOfRing
<1> HIDE DEF p, n
<1>8. Count(p, size) = n + 1
  <2>1. n # size - 1 /\ r.head \in 0 .. size - 1 /\ r.tail \in 0 .. size - 1
    BY <1>1, <1>6
  <2>2. Way(r.tail, Wrapped(r.head + 1, size), size) = n + 1
    BY <1>6, <2>1, WayOfOne
  <2>3. QED
    BY <1>2, <1>3, <1>7, <2>2
<1>9. /\ Contents(r, size) \in Seq(Bytes) /\ Len(Contents(r, size)) = n
      /\ Contents(p, size) \in Seq(Bytes) /\ Len(Contents(p, size)) = n + 1
  BY <1>5, <1>8, ContentsType DEF n
<1>10. /\ Append(Contents(r, size), byte) \in Seq(Bytes)
       /\ Len(Append(Contents(r, size), byte)) = n + 1
       /\ \A k \in 1 .. n : Append(Contents(r, size), byte)[k] = Contents(r, size)[k]
       /\ Append(Contents(r, size), byte)[n + 1] = byte
  BY <1>9, AppendProperties
<1>11. ASSUME NEW k \in 1 .. n + 1
       PROVE  Contents(p, size)[k] = Append(Contents(r, size), byte)[k]
  <2>1. Contents(p, size)[k] = p.buffer[(r.tail + k - 1) % size]
    BY <1>3, <1>8 DEF Contents
  <2>2. (r.tail + k - 1) % size = Wrapped(r.tail + k - 1, size)
    BY <1>6, PlaceOfByte
  <2>3. CASE k = n + 1
    <3>1. (r.tail + k - 1) % size = r.head
      <4>1. r.tail + k - 1 = r.tail + n
        BY <1>1, <1>6, <2>3
      <4>2. r.head \in 0 .. size - 1 /\ r.tail \in 0 .. size - 1
        BY <1>1
      <4>3. Wrapped(r.tail + Way(r.tail, r.head, size), size) = r.head
        BY <4>2, WayOfOne
      <4>4. QED
        BY <1>6, <2>2, <4>1, <4>3
    <3>2. QED
      BY <1>1, <1>3, <1>10, <2>1, <2>3, <3>1
  <2>4. CASE k \in 1 .. n
    <3>1. (r.tail + k - 1) % size # r.head
      BY <1>1, <1>6, <2>2, <2>4 DEF Way, Wrapped
    <3>2. Contents(r, size)[k] = r.buffer[(r.tail + k - 1) % size]
      BY <2>4 DEF Contents, n
    <3>3. QED
      BY <1>1, <1>3, <1>10, <2>1, <2>4, <3>1, <3>2
  <2>5. k = n + 1 \/ k \in 1 .. n
    BY <1>6
  <2>6. QED
    BY <2>3, <2>4, <2>5
<1>12. Contents(p, size) = Append(Contents(r, size), byte)
  BY <1>9, <1>10, <1>11, SeqEqual
<1>13. QED
  BY <1>5, <1>12 DEF p

\* The byte at the tail is the first, and dropping it leaves the others.
LEMMA DropEffect ==
    ASSUME NEW size \in Nat \ {0, 1}, NEW r \in Rings(size), ~IsEmpty(r)
    PROVE  /\ Drop(r, size) \in Rings(size)
           /\ First(r) \in Bytes
           /\ Contents(r, size) # <<>>
           /\ Head(Contents(r, size)) = First(r)
           /\ Tail(Contents(r, size)) = Contents(Drop(r, size), size)
           /\ ~IsFull(Drop(r, size), size)
<1> DEFINE d == Drop(r, size)
           n == Count(r, size)
<1>1. /\ r.head \in Nat /\ r.tail \in Nat /\ r.head < size /\ r.tail < size
      /\ r.buffer \in [0 .. size - 1 -> Bytes]
  BY DEF Rings
<1>2. (r.tail + 1) % size = Wrapped(r.tail + 1, size)
  <2>1. r.tail + 1 \in Nat /\ r.tail + 1 < size + size
    BY <1>1
  <2>2. QED
    BY <2>1, OneTurn
<1>3. /\ d.buffer = r.buffer /\ d.head = r.head /\ d.tail = (r.tail + 1) % size
      /\ d = [buffer |-> d.buffer, head |-> d.head, tail |-> d.tail]
  BY DEF Drop, Rings
<1>4. d.tail \in 0 .. size - 1
  BY <1>1, <1>2, <1>3 DEF Wrapped
<1>5. d \in Rings(size)
  BY <1>1, <1>3, <1>4 DEF Rings
<1>6. /\ n = Way(r.tail, r.head, size)
      /\ n \in 1 .. size - 1
  BY <1>1, CountOfRing
<1>7. Count(d, size) = Way(d.tail, d.head, size)
  BY <1>5, CountOfRing
<1> HIDE DEF d, n
<1>8. Count(d, size) = n - 1
  <2>1. n # 0 /\ r.head \in 0 .. size - 1 /\ r.tail \in 0 .. size - 1
    BY <1>1, <1>6
  <2>2. Way(Wrapped(r.tail + 1, size), r.head, size) = n - 1
    BY <1>6, <2>1, WayOfOne
  <2>3. QED
    BY <1>2, <1>3, <1>7, <2>2
<1>9. /\ Contents(r, size) \in Seq(Bytes) /\ Len(Contents(r, size)) = n
      /\ Contents(r, size) # <<>>
      /\ Contents(d, size) \in Seq(Bytes) /\ Len(Contents(d, size)) = n - 1
  BY <1>5, <1>8, ContentsType DEF n
<1>10. /\ Tail(Contents(r, size)) \in Seq(Bytes)
       /\ Len(Tail(Contents(r, size))) = n - 1
       /\ \A k \in 1 .. n - 1 : Tail(Contents(r, size))[k] = Contents(r, size)[k + 1]
  BY <1>9, HeadTailProperties
<1>11. ASSUME NEW k \in 1 .. n - 1
       PROVE  Tail(Contents(r, size))[k] = Contents(d, size)[k]
  <2>1. Contents(d, size)[k] = r.buffer[(d.tail + k - 1) % size]
    BY <1>3, <1>8 DEF Contents
  <2>2. Contents(r, size)[k + 1] = r.buffer[(r.tail + (k + 1) - 1) % size]
    <3>1. k + 1 \in 1 .. n
      BY <1>6
    <3>2. QED
      BY <3>1 DEF Contents, n
  <2>3. (d.tail + k - 1) % size = Wrapped(d.tail + k - 1, size)
    BY <1>5, <1>6, PlaceOfByte
  <2>4. (r.tail + (k + 1) - 1) % size = Wrapped(r.tail + (k + 1) - 1, size)
    <3>1. k + 1 \in 1 .. size - 1
      BY <1>6
    <3>2. QED
      BY <3>1, PlaceOfByte
  <2>5. (d.tail + k - 1) % size = (r.tail + (k + 1) - 1) % size
    BY <1>1, <1>2, <1>3, <1>6, <2>3, <2>4, SMTT(20) DEF Wrapped
  <2>6. QED
    BY <1>10, <2>1, <2>2, <2>5
<1>12. Tail(Contents(r, size)) = Contents(d, size)
  BY <1>9, <1>10, <1>11, SeqEqual
<1>13. Head(Contents(r, size)) = First(r)
  <2>1. Contents(r, size)[1] = r.buffer[(r.tail + 1 - 1) % size]
    BY <1>6 DEF Contents, n
  <2>2. (r.tail + 1 - 1) % size = r.tail
    BY <1>1
  <2>3. QED
    BY <2>1, <2>2 DEF First
<1>14. ~IsFull(d, size)
  BY <1>5, <1>6, <1>8, CountOfRing
<1>15. QED
  BY <1>1, <1>5, <1>9, <1>12, <1>13, <1>14 DEF First, d

-----------------------------------------------------------------------------
(* The invariant is kept *)

LEMMA SizesAreNat ==
    /\ SERIAL_TX_BUFFER_SIZE \in Nat \ {0, 1} /\ SERIAL_RX_BUFFER_SIZE \in Nat \ {0, 1}
BY SerialAssumption

\* The interrupt moves the first byte of the buffer to the register.
LEMMA IrqEffect ==
    ASSUME TypeOK, ~IsEmpty(tx), tx_udr_empty_irq
    PROVE  /\ tx' = Drop(tx, SERIAL_TX_BUFFER_SIZE)
           /\ tx' \in Rings(SERIAL_TX_BUFFER_SIZE)
           /\ udr' = <<First(tx)>> /\ udr' \in Registers /\ udr' # <<>>
           /\ ~IsFull(tx', SERIAL_TX_BUFFER_SIZE)
           /\ HasTwo(tx, SERIAL_TX_BUFFER_SIZE) => ~IsEmpty(tx')
           /\ UDRIE' \in BOOLEAN /\ TXC' = FALSE
           /\ UDRIE' <=> UDRIE /\ ~IsEmpty(tx')
<1>1. tx \in Rings(SERIAL_TX_BUFFER_SIZE)
  BY DEF TypeOK
<1>2. /\ Drop(tx, SERIAL_TX_BUFFER_SIZE) \in Rings(SERIAL_TX_BUFFER_SIZE)
      /\ First(tx) \in Bytes
      /\ ~IsFull(Drop(tx, SERIAL_TX_BUFFER_SIZE), SERIAL_TX_BUFFER_SIZE)
  BY <1>1, SizesAreNat, DropEffect
<1>3. HasTwo(tx, SERIAL_TX_BUFFER_SIZE) => ~IsEmpty(Drop(tx, SERIAL_TX_BUFFER_SIZE))
  BY <1>1 DEF Drop, HasTwo, IsEmpty, Rings
<1>4. QED
  BY <1>2, <1>3 DEF tx_udr_empty_irq, Registers

\* What the interrupt does outside of the window of WriteEnable keeps the
\* invariant, and it happens when there is data only.
LEMMA PollKeeps ==
    ASSUME Inv, ~IsEmpty(tx), pc \notin {"enable UDRIE", "clear TXC"},
           tx_udr_empty_irq, UNCHANGED <<pc, c, interrupts, on, receive>>
    PROVE  Inv'
<1>1. /\ tx' \in Rings(SERIAL_TX_BUFFER_SIZE) /\ ~IsFull(tx', SERIAL_TX_BUFFER_SIZE)
      /\ udr' \in Registers /\ TXC' = FALSE /\ UDRIE' \in BOOLEAN
      /\ UDRIE' <=> UDRIE /\ ~IsEmpty(tx')
  BY IrqEffect DEF Inv
<1>2. /\ pc' = pc /\ c' = c /\ interrupts' = interrupts /\ on' = on
      /\ rx' = rx /\ fifo' = fifo /\ got' = got
      /\ written' = written /\ shift' = shift /\ wire' = wire /\ fresh' = fresh
  BY DEF tx_udr_empty_irq, receive
<1>3. UDRIE /\ on /\ written /\ pc \notin {"ready?", "direct", "ended"}
  BY DEF Inv, TypeOK, DataMeansEnabled, OnlyWritten, TestsHold
<1>4. TypeOK'
  BY <1>1, <1>2 DEF Inv, TypeOK
<1>5. TestsHold'
  BY <1>1, <1>2, <1>3 DEF Inv, TestsHold
<1>6. EnabledMeansData' /\ DataMeansEnabled' /\ OnlyWritten'
  <2>1. EnabledMeansData' /\ DataMeansEnabled'
    BY <1>1, <1>3 DEF EnabledMeansData, DataMeansEnabled
  <2>2. OnlyWritten'
    <3>1. on' /\ written'
      <4>1. on = TRUE /\ written = TRUE
        BY <1>3 DEF Inv, TypeOK
      <4>2. on' = TRUE /\ written' = TRUE
        BY <1>2, <4>1
      <4>3. QED
        BY <4>2
    <3>2. pc' # "ended"
      BY <1>2, <1>3
    <3>3. QED
      BY <3>1, <3>2 DEF OnlyWritten
  <2>3. QED
    BY <2>1, <2>2
<1>7. WindowIsShort' /\ CompleteMeansIdle'
  BY <1>1, <1>2 DEF WindowIsShort, CompleteMeansIdle
<1>8. QED
  BY <1>4, <1>5, <1>6, <1>7 DEF Inv

LEMMA InvInit == Init => Inv
<1> SUFFICES ASSUME Init PROVE Inv
  OBVIOUS
<1>1. TypeOK
  <2>1. tx \in Rings(SERIAL_TX_BUFFER_SIZE) /\ rx \in Rings(SERIAL_RX_BUFFER_SIZE)
    <3>1. ASSUME NEW n \in Nat \ {0, 1}, NEW b \in Bytes
          PROVE  [buffer |-> [k \in 0 .. n - 1 |-> b], head |-> 0, tail |-> 0] \in Rings(n)
      BY DEF Rings
    <3>2. QED
      BY <3>1, SizesAreNat DEF Init
  <2>2. fifo \in Seq(Frames)
    BY EmptySeq DEF Init
  <2>3. QED
    BY <2>1, <2>2 DEF Init, TypeOK, Registers
<1>2. IsEmpty(tx) /\ IsEmpty(rx)
  BY DEF Init, IsEmpty
<1>3. QED
  BY <1>1, <1>2 DEF Init, Inv, EnabledMeansData, OnlyWritten, TestsHold,
                    DataMeansEnabled, WindowIsShort, CompleteMeansIdle, Writing, Flushing

\* The calls that leave the buffers alone.
LEMMA CallKeeps ==
    ASSUME Inv, \/ begin \/ write \/ flush \/ WriteEmpty \/ WriteReady \/ WriteDirect
                \/ WriteClear \/ WriteEnable \/ Disable \/ Enable
    PROVE  Inv'
<1> USE DEF Inv, TypeOK, EnabledMeansData, OnlyWritten, TestsHold, DataMeansEnabled,
            WindowIsShort, CompleteMeansIdle, Writing, Flushing, Registers, GoTo,
            transmit, receive
<1>1. CASE begin
  BY <1>1 DEF begin
<1>2. CASE write
  BY <1>2 DEF write
<1>3. CASE flush
  BY <1>3 DEF flush
<1>4. CASE WriteEmpty
  BY <1>4 DEF WriteEmpty
<1>5. CASE WriteReady
  BY <1>5 DEF WriteReady
<1>6. CASE WriteDirect
  BY <1>6 DEF WriteDirect
<1>7. CASE WriteClear
  BY <1>7 DEF WriteClear
<1>8. CASE WriteEnable
  BY <1>8 DEF WriteEnable
<1>9. CASE Disable
  BY <1>9 DEF Disable
<1>10. CASE Enable
  BY <1>10 DEF Enable
<1>11. QED
  BY <1>1, <1>2, <1>3, <1>4, <1>5, <1>6, <1>7, <1>8, <1>9, <1>10

\* A byte is stored: the one before it keeps the interrupt from getting ahead.
LEMMA StoreKeeps == ASSUME Inv, ~Pending, WriteStore PROVE Inv'
<1>1. /\ tx \in Rings(SERIAL_TX_BUFFER_SIZE) /\ c \in Bytes /\ pc = "store"
      /\ ~IsFull(tx, SERIAL_TX_BUFFER_SIZE) /\ on /\ written
  BY DEF Inv, TypeOK, TestsHold, OnlyWritten, WriteStore, Writing
<1>2. /\ tx' = Put(tx, SERIAL_TX_BUFFER_SIZE, c) /\ pc' = "enable UDRIE"
      /\ c' = c /\ written' = written /\ UDRIE' = UDRIE /\ TXC' = TXC /\ udr' = udr
      /\ shift' = shift /\ wire' = wire /\ fresh' = fresh /\ interrupts' = interrupts
      /\ on' = on /\ rx' = rx /\ fifo' = fifo /\ got' = got
  BY DEF WriteStore, GoTo, receive
<1>3. tx' \in Rings(SERIAL_TX_BUFFER_SIZE)
  BY <1>1, <1>2, SizesAreNat, PutEffect
<1>4. tx'.tail = tx.tail /\ tx'.head = (tx.head + 1) % SERIAL_TX_BUFFER_SIZE
  BY <1>1, <1>2 DEF Put, Rings
<1>5. ~IsEmpty(tx')
  BY <1>1, <1>4 DEF IsEmpty, IsFull
<1>6. ~IsEmpty(tx) => HasTwo(tx', SERIAL_TX_BUFFER_SIZE)
  <2>1. ASSUME NEW n \in Nat \ {0, 1}, NEW h \in 0 .. n - 1, NEW t \in 0 .. n - 1, h # t
        PROVE  (t + 1) % n # (h + 1) % n
    <3>1. (h + 1) % n = Wrapped(h + 1, n)
      BY OneTurn
    <3>2. (t + 1) % n = Wrapped(t + 1, n)
      BY OneTurn
    <3>3. QED
      BY <2>1, <3>1, <3>2 DEF Wrapped
  <2>2. tx.head \in 0 .. SERIAL_TX_BUFFER_SIZE - 1 /\ tx.tail \in 0 .. SERIAL_TX_BUFFER_SIZE - 1
    BY <1>1 DEF Rings
  <2>3. tx.head # tx.tail =>
          (tx.tail + 1) % SERIAL_TX_BUFFER_SIZE # (tx.head + 1) % SERIAL_TX_BUFFER_SIZE
    BY <2>1, <2>2, SizesAreNat
  <2>4. QED
    BY <1>4, <1>5, <2>3 DEF HasTwo, IsEmpty
<1>7. UDRIE /\ interrupts => HasTwo(tx', SERIAL_TX_BUFFER_SIZE) /\ udr' # <<>>
  BY <1>2, <1>6 DEF Pending, Inv, EnabledMeansData
<1>8. TypeOK'
  BY <1>2, <1>3 DEF Inv, TypeOK, Writing
<1>9. WindowIsShort'
  BY <1>2, <1>5, <1>7 DEF WindowIsShort
<1>10. CompleteMeansIdle'
  BY <1>1, <1>2 DEF Inv, CompleteMeansIdle
<1>11. QED
  BY <1>1, <1>2, <1>5, <1>8, <1>9, <1>10
     DEF Inv, EnabledMeansData, OnlyWritten, TestsHold, DataMeansEnabled

\* A call polls the transmitter only while there is data.
LEMMA PollHasData ==
    ASSUME Inv, WriteWait \/ FlushWait, Poll
    PROVE  ~IsEmpty(tx) /\ pc \in {"full?", "flush", "end"}
<1>1. tx \in Rings(SERIAL_TX_BUFFER_SIZE)
  BY DEF Inv, TypeOK
<1>2. CASE WriteWait
  <2>1. CASE IsFull(tx, SERIAL_TX_BUFFER_SIZE)
    BY <1>1, <1>2, <2>1, SizesAreNat, CountOfRing DEF WriteWait
  <2>2. CASE ~IsFull(tx, SERIAL_TX_BUFFER_SIZE)
    BY <1>2, <2>2 DEF WriteWait, Poll, GoTo
  <2>3. QED
    BY <2>1, <2>2
<1>3. CASE FlushWait
  <2>1. CASE UDRIE
    BY <1>3, <2>1 DEF FlushWait, Inv, EnabledMeansData
  <2>2. CASE ~UDRIE
    BY <1>3, <2>2 DEF FlushWait, Poll, GoTo
  <2>3. QED
    BY <2>1, <2>2
<1>4. QED
  BY <1>2, <1>3

\* A call that waits polls the transmitter, or finds what it waits for.
LEMMA WaitKeeps == ASSUME Inv, WriteWait \/ FlushWait PROVE Inv'
<1>1. CASE Poll
  BY <1>1, PollHasData, PollKeeps DEF Poll
<1>2. CASE ~Poll
  <2>1. /\ c' = c /\ tx' = tx /\ written' = written /\ UDRIE' = UDRIE /\ TXC' = TXC
        /\ udr' = udr /\ shift' = shift /\ wire' = wire /\ fresh' = fresh
        /\ interrupts' = interrupts /\ on' = on /\ rx' = rx /\ fifo' = fifo /\ got' = got
    BY <1>2 DEF WriteWait, FlushWait, GoTo, transmit, receive
  <2>2. \/ /\ pc = "full?" /\ pc' = "store" /\ ~IsFull(tx, SERIAL_TX_BUFFER_SIZE)
        \/ pc \in Flushing /\ pc' \in {"idle", "ended"} /\ ~UDRIE
    BY <1>2 DEF WriteWait, FlushWait, GoTo, Flushing
  <2>3. QED
    BY <2>1, <2>2
       DEF Inv, TypeOK, EnabledMeansData, OnlyWritten, TestsHold, DataMeansEnabled,
           WindowIsShort, CompleteMeansIdle, Writing, Flushing
<1>3. QED
  BY <1>1, <1>2

\* The program reads or closes the port.
LEMMA ReceiveKeeps ==
    ASSUME Inv, end \/ read \/ ReadAdvance \/ Arrive \/ RxInterrupt
    PROVE  Inv'
<1>1. rx \in Rings(SERIAL_RX_BUFFER_SIZE)
  BY DEF Inv, TypeOK
<1>2. CASE end
  <2>1. [rx EXCEPT !.head = rx.tail] \in Rings(SERIAL_RX_BUFFER_SIZE)
    BY <1>1 DEF Rings
  <2>2. TypeOK'
    <3>1. fifo' \in Seq(Frames)
      BY <1>2, EmptySeq DEF end
    <3>2. QED
      BY <1>2, <2>1, <3>1 DEF end, Inv, TypeOK
  <2>3. QED
    BY <1>2, <2>2
       DEF end, Inv, TypeOK, EnabledMeansData, OnlyWritten, TestsHold, DataMeansEnabled,
           WindowIsShort, CompleteMeansIdle, Writing, Flushing
<1>3. CASE read
  <2>1. <<First(rx)>> \in Registers
    BY <1>1, <1>3, SizesAreNat, DropEffect DEF read, Registers
  <2>2. QED
    BY <1>3, <2>1
       DEF read, Inv, TypeOK, EnabledMeansData, OnlyWritten, TestsHold, DataMeansEnabled,
           WindowIsShort, CompleteMeansIdle, Writing, Flushing, transmit
<1>4. CASE ReadAdvance
  <2>1. Drop(rx, SERIAL_RX_BUFFER_SIZE) \in Rings(SERIAL_RX_BUFFER_SIZE)
    BY <1>1, <1>4, SizesAreNat, DropEffect DEF ReadAdvance, Inv, TestsHold
  <2>2. QED
    BY <1>4, <2>1
       DEF ReadAdvance, Inv, TypeOK, EnabledMeansData, OnlyWritten, TestsHold,
           DataMeansEnabled, WindowIsShort, CompleteMeansIdle, Writing, Flushing, transmit
<1>5. CASE Arrive
  <2>1. fifo' \in Seq(Frames)
    BY <1>5, AppendProperties DEF Arrive, Inv, TypeOK
  <2>2. QED
    BY <1>5, <2>1 DEF Arrive, Inv, TypeOK, EnabledMeansData, OnlyWritten, TestsHold,
              DataMeansEnabled, WindowIsShort, CompleteMeansIdle, Writing, Flushing, transmit
<1>6. CASE RxInterrupt
  <2>1. /\ fifo' \in Seq(Frames) /\ rx' \in Rings(SERIAL_RX_BUFFER_SIZE)
        /\ ~IsEmpty(rx) => ~IsEmpty(rx')
    <3>1. Head(fifo) \in Frames /\ Tail(fifo) \in Seq(Frames)
      BY <1>6 DEF RxInterrupt, Inv, TypeOK
    <3>2. CASE rx' = rx
      BY <1>1, <1>6, <3>1, <3>2 DEF RxInterrupt
    <3>3. CASE /\ ~IsFull(rx, SERIAL_RX_BUFFER_SIZE)
               /\ rx' = Put(rx, SERIAL_RX_BUFFER_SIZE, Head(fifo).byte)
      <4>1. rx' \in Rings(SERIAL_RX_BUFFER_SIZE)
        BY <1>1, <3>1, <3>3, SizesAreNat, PutEffect DEF Frames
      <4>2. ~IsEmpty(rx')
        BY <1>1, <3>3 DEF Put, Rings, IsEmpty, IsFull
      <4>3. QED
        BY <1>6, <3>1, <4>1, <4>2 DEF RxInterrupt
    <3>4. QED
      BY <1>6, <3>2, <3>3 DEF RxInterrupt
  <2>2. QED
    BY <1>6, <2>1
       DEF RxInterrupt, Inv, TypeOK, EnabledMeansData, OnlyWritten, TestsHold,
           DataMeansEnabled, WindowIsShort, CompleteMeansIdle, Writing, Flushing, transmit
<1>7. QED
  BY <1>2, <1>3, <1>4, <1>5, <1>6

\* The transmitter; the frame of a window is fresh and does not end in it.
LEMMA TransmitterKeeps == ASSUME Inv, UdreInterrupt \/ Load \/ FrameEnds PROVE Inv'
<1>1. CASE Load
  <2>1. TypeOK' /\ (InWindow => fresh')
    <3>1. fresh' \in BOOLEAN
      <4>1. fresh' = InWindow
        BY <1>1 DEF Load
      <4>2. InWindow \in BOOLEAN
        BY DEF InWindow
      <4>3. QED
        BY <4>1, <4>2, Zenon
    <3>2. InWindow => fresh'
      BY <1>1 DEF Load
    <3>3. QED
      BY <1>1, <3>1, <3>2 DEF Load, Inv, TypeOK, Registers, receive
  <2>2. EnabledMeansData' /\ OnlyWritten' /\ TestsHold' /\ DataMeansEnabled'
    BY <1>1 DEF Load, Inv, EnabledMeansData, OnlyWritten, TestsHold, DataMeansEnabled,
                receive
  <2>3. WindowIsShort' /\ CompleteMeansIdle'
    BY <1>1, <2>1 DEF Load, Inv, InWindow, WindowIsShort, CompleteMeansIdle
  <2>4. QED
    BY <2>1, <2>2, <2>3 DEF Inv
<1>2. CASE FrameEnds
  <2>1. /\ shift' = <<>> /\ (TXC' <=> TXC \/ udr = <<>>) /\ TXC' \in BOOLEAN
        /\ ~fresh
        /\ pc' = pc /\ c' = c /\ interrupts' = interrupts /\ on' = on /\ tx' = tx
        /\ written' = written /\ UDRIE' = UDRIE /\ udr' = udr /\ wire' = wire
        /\ fresh' = fresh /\ rx' = rx /\ fifo' = fifo /\ got' = got
    BY <1>2 DEF FrameEnds, Inv, TypeOK, receive
  <2>2. TypeOK'
    BY <2>1 DEF Inv, TypeOK, Registers
  <2>3. EnabledMeansData' /\ OnlyWritten' /\ TestsHold' /\ DataMeansEnabled'
    BY <2>1 DEF Inv, EnabledMeansData, OnlyWritten, TestsHold, DataMeansEnabled
  <2>4. WindowIsShort'
    BY <2>1 DEF Inv, WindowIsShort
  <2>5. CompleteMeansIdle'
    <3>1. TXC => udr = <<>> \/ pc = "clear TXC"
      BY DEF Inv, CompleteMeansIdle
    <3>2. QED
      BY <2>1, <3>1 DEF CompleteMeansIdle
  <2>6. QED
    BY <2>2, <2>3, <2>4, <2>5 DEF Inv
<1>3. CASE UdreInterrupt
  <2>1. /\ ~IsEmpty(tx) /\ UDRIE /\ interrupts /\ udr = <<>>
        /\ tx_udr_empty_irq /\ UNCHANGED <<pc, c, interrupts, on, receive>>
    BY <1>3 DEF UdreInterrupt, Pending, Inv, EnabledMeansData
  <2>2. CASE pc \notin {"enable UDRIE", "clear TXC"}
    BY <2>1, <2>2, PollKeeps
  <2>3. CASE pc \in {"enable UDRIE", "clear TXC"}
    <3>1. /\ tx' \in Rings(SERIAL_TX_BUFFER_SIZE)
          /\ udr' \in Registers /\ udr' # <<>> /\ TXC' = FALSE /\ UDRIE' \in BOOLEAN
          /\ UDRIE' <=> ~IsEmpty(tx')
          /\ HasTwo(tx, SERIAL_TX_BUFFER_SIZE) => ~IsEmpty(tx')
      BY <2>1, IrqEffect DEF Inv
    <3>2. /\ pc' = pc /\ c' = c /\ interrupts' = interrupts /\ on' = on
          /\ rx' = rx /\ fifo' = fifo /\ got' = got
          /\ written' = written /\ shift' = shift /\ wire' = wire /\ fresh' = fresh
      BY <2>1 DEF tx_udr_empty_irq, receive
    <3>3. on /\ written
      BY <2>3 DEF Inv, OnlyWritten, Writing
    <3>4. TypeOK'
      BY <3>1, <3>2 DEF Inv, TypeOK
    <3>5. TestsHold' /\ CompleteMeansIdle' /\ OnlyWritten'
      BY <2>3, <3>1, <3>2, <3>3 DEF TestsHold, CompleteMeansIdle, OnlyWritten
    <3>6. EnabledMeansData' /\ DataMeansEnabled'
      BY <3>1 DEF EnabledMeansData, DataMeansEnabled
    <3>7. WindowIsShort'
      BY <2>1, <3>1, <3>2 DEF Inv, WindowIsShort
    <3>8. QED
      BY <3>4, <3>5, <3>6, <3>7 DEF Inv
  <2>4. QED
    BY <2>2, <2>3
<1>4. QED
  BY <1>1, <1>2, <1>3

LEMMA InvNext == Inv /\ [Next]_vars => Inv'
<1> SUFFICES ASSUME Inv, [Next]_vars PROVE Inv'
  OBVIOUS
<1>1. CASE Next
  BY <1>1, CallKeeps, StoreKeeps, WaitKeeps, ReceiveKeeps, TransmitterKeeps
     DEF Next, Program, Call
<1>2. CASE UNCHANGED vars
  BY <1>2 DEF vars, transmit, receive, Inv, TypeOK, EnabledMeansData, OnlyWritten,
              TestsHold, DataMeansEnabled, WindowIsShort, CompleteMeansIdle
<1>3. QED
  BY <1>1, <1>2

THEOREM Invariance == Spec => []Inv
BY InvInit, InvNext, PTL DEF Spec

\* The transmit interrupt, which takes a byte out of the buffer without a look at
\* the head, runs only when there is one (_tx_udr_empty_irq, write).
THEOREM InterruptHasData == Spec => []EnabledMeansData
BY Invariance, PTL DEF Inv

\* What was written before a flush or an end is out when it returns (flush).
THEOREM FlushSendsAll == Spec => FlushedIsSent
<1>1. Inv /\ [Next]_vars =>
        [FlushWait /\ pc' # pc => IsEmpty(tx) /\ udr = <<>> /\ shift = <<>>]_vars
  <2>1. ASSUME Inv, FlushWait, pc' # pc
        PROVE  IsEmpty(tx) /\ udr = <<>> /\ shift = <<>>
    <3>1. pc \in {"flush", "end"} /\ ~UDRIE /\ TXC
      BY <2>1 DEF FlushWait, Poll
    <3>2. QED
      BY <2>1, <3>1 DEF Inv, DataMeansEnabled, CompleteMeansIdle
  <2>2. QED
    BY <2>1
<1>2. QED
  BY <1>1, Invariance, PTL DEF Spec, FlushedIsSent

-----------------------------------------------------------------------------
(* Both directions are queues *)

Unsent == udr \o Contents(tx, SERIAL_TX_BUFFER_SIZE)

\* The interrupt hands the first byte on from the buffer to the register.
LEMMA HandedOn ==
    ASSUME Inv, ~IsEmpty(tx), udr = <<>>, tx_udr_empty_irq
    PROVE  Unsent' = Unsent
<1> DEFINE s == Contents(tx, SERIAL_TX_BUFFER_SIZE)
<1>1. tx \in Rings(SERIAL_TX_BUFFER_SIZE)
  BY DEF Inv, TypeOK
<1>2. /\ s \in Seq(Bytes) /\ s # <<>> /\ Head(s) = First(tx)
      /\ Tail(s) = Contents(Drop(tx, SERIAL_TX_BUFFER_SIZE), SERIAL_TX_BUFFER_SIZE)
  BY <1>1, SizesAreNat, ContentsType, DropEffect
<1>3. udr' = <<Head(s)>>
      /\ Contents(tx, SERIAL_TX_BUFFER_SIZE)' = Tail(s)
  BY <1>2, IrqEffect DEF Inv
<1> HIDE DEF s
<1>4. <<Head(s)>> \o Tail(s) = s
  <2>1. /\ Head(s) \in Bytes /\ Tail(s) \in Seq(Bytes) /\ Len(Tail(s)) = Len(s) - 1
        /\ \A k \in 1 .. Len(Tail(s)) : Tail(s)[k] = s[k + 1]
    BY <1>2, HeadTailProperties
  <2>2. <<Head(s)>> \in Seq(Bytes) /\ Len(<<Head(s)>>) = 1 /\ <<Head(s)>>[1] = s[1]
    BY <1>2, <2>1
  <2>3. /\ <<Head(s)>> \o Tail(s) \in Seq(Bytes)
        /\ Len(<<Head(s)>> \o Tail(s)) = 1 + Len(Tail(s))
        /\ \A k \in 1 .. 1 + Len(Tail(s)) : (<<Head(s)>> \o Tail(s))[k] =
              IF k <= 1 THEN <<Head(s)>>[k] ELSE Tail(s)[k - 1]
    BY <2>1, <2>2, ConcatProperties
  <2>4. Len(s) \in Nat
    BY <1>2
  <2>5. ASSUME NEW k \in 1 .. Len(s) PROVE (<<Head(s)>> \o Tail(s))[k] = s[k]
    BY <2>1, <2>2, <2>3, <2>4, <2>5
  <2>6. QED
    BY <1>2, <2>1, <2>3, <2>4, <2>5, SeqEqual
<1>5. <<>> \o s = s
  BY <1>2, ConcatEmptySeq
<1>6. QED
  BY <1>3, <1>4, <1>5 DEF Unsent, s

LEMMA UnsentType ==
    ASSUME Inv
    PROVE  /\ Contents(tx, SERIAL_TX_BUFFER_SIZE) \in Seq(Bytes)
           /\ udr \in Seq(Bytes) /\ Unsent \in Seq(Bytes)
           /\ Len(Unsent) = Len(udr) + Count(tx, SERIAL_TX_BUFFER_SIZE)
           /\ Len(udr) <= 1 /\ Len(udr) \in Nat
           /\ Count(tx, SERIAL_TX_BUFFER_SIZE) \in 0 .. SERIAL_TX_BUFFER_SIZE - 1
<1>1. tx \in Rings(SERIAL_TX_BUFFER_SIZE) /\ udr \in Registers
  BY DEF Inv, TypeOK
<1>2. /\ Contents(tx, SERIAL_TX_BUFFER_SIZE) \in Seq(Bytes)
      /\ Len(Contents(tx, SERIAL_TX_BUFFER_SIZE)) = Count(tx, SERIAL_TX_BUFFER_SIZE)
      /\ Count(tx, SERIAL_TX_BUFFER_SIZE) \in 0 .. SERIAL_TX_BUFFER_SIZE - 1
  BY <1>1, SizesAreNat, ContentsType, CountOfRing
<1>3. udr \in Seq(Bytes) /\ Len(udr) <= 1 /\ Len(udr) \in Nat
  <2>1. CASE udr = <<>>
    BY <2>1, EmptySeq
  <2>2. ASSUME NEW b \in Bytes, udr = <<b>>
        PROVE  udr \in Seq(Bytes) /\ Len(udr) <= 1 /\ Len(udr) \in Nat
    BY <2>2
  <2>3. QED
    BY <1>1, <2>1, <2>2 DEF Registers
<1>4. QED
  BY <1>2, <1>3, ConcatProperties DEF Unsent

\* Steps of the transmitter and what they are to the queue.
LEMMA StoreIsPut == ASSUME Inv, WriteStore PROVE Transmitter!Put
<1>1. /\ tx \in Rings(SERIAL_TX_BUFFER_SIZE) /\ c \in Bytes
      /\ ~IsFull(tx, SERIAL_TX_BUFFER_SIZE)
  BY DEF Inv, TypeOK, TestsHold, WriteStore
<1>2. /\ Contents(tx', SERIAL_TX_BUFFER_SIZE) =
            Append(Contents(tx, SERIAL_TX_BUFFER_SIZE), c)
      /\ udr' = udr /\ c' = c /\ wire' = wire
  BY <1>1, SizesAreNat, PutEffect DEF WriteStore
<1>3. Len(Unsent) < SERIAL_TX_BUFFER_SIZE
  BY <1>1, UnsentType, SizesAreNat, CountOfRing
<1>4. Unsent' = Append(Unsent, c)
  <2> DEFINE s == Contents(tx, SERIAL_TX_BUFFER_SIZE)
  <2>1. s \in Seq(Bytes) /\ udr \in Seq(Bytes) /\ Unsent \in Seq(Bytes)
    BY UnsentType
  <2>2. Append(s, c) = s \o <<c>> /\ Append(Unsent, c) = Unsent \o <<c>>
    BY <1>1, <2>1, AppendIsConcat
  <2>3. Unsent' = udr \o (s \o <<c>>)
    BY <1>2, <2>2 DEF Unsent
  <2>4. udr \o (s \o <<c>>) = (udr \o s) \o <<c>>
    <3>1. <<c>> \in Seq(Bytes)
      BY <1>1
    <3>2. QED
      BY <2>1, <3>1, ConcatAssociative
  <2>5. QED
    BY <2>2, <2>3, <2>4 DEF Unsent
<1>5. QED
  BY <1>1, <1>2, <1>3, <1>4 DEF Transmitter!Put, Unsent

LEMMA DirectIsPut == ASSUME Inv, WriteDirect PROVE Transmitter!Put
<1>1. tx' = tx /\ udr' = <<c>> /\ c' = c /\ wire' = wire
  BY DEF WriteDirect
<1>2. /\ IsEmpty(tx) /\ udr = <<>> /\ c \in Bytes
      /\ tx \in Rings(SERIAL_TX_BUFFER_SIZE)
  BY DEF Inv, TypeOK, TestsHold, WriteDirect
<1>3. Contents(tx, SERIAL_TX_BUFFER_SIZE) = <<>>
  BY <1>2, SizesAreNat, ContentsType
<1>4. Unsent = <<>> /\ Unsent' = <<c>>
  <2>1. <<c>> \in Seq(Bytes) /\ <<>> \in Seq(Bytes)
    BY <1>2
  <2>2. <<>> \o <<>> = <<>> /\ <<c>> \o <<>> = <<c>>
    BY <2>1, ConcatEmptySeq
  <2>3. QED
    BY <1>1, <1>2, <1>3, <2>2 DEF Unsent
<1>5. Append(<<>>, c) = <<c>> /\ Len(<<>>) < SERIAL_TX_BUFFER_SIZE
  BY <1>2, SizesAreNat
<1>6. QED
  BY <1>1, <1>2, <1>4, <1>5 DEF Transmitter!Put, Unsent

LEMMA LoadIsTake == ASSUME Inv, Load PROVE Transmitter!Take
<1>1. PICK b \in Bytes : udr = <<b>>
  BY DEF Inv, TypeOK, Registers, Load
<1>2. udr' = <<>> /\ wire' = <<b>> /\ c' = c /\ tx' = tx
  BY <1>1 DEF Load
<1> DEFINE s == Contents(tx, SERIAL_TX_BUFFER_SIZE)
<1>3. s \in Seq(Bytes) /\ <<b>> \in Seq(Bytes)
  BY UnsentType
<1>4. Unsent' = s
  BY <1>2, <1>3, ConcatEmptySeq DEF Unsent
<1>5. Unsent = <<b>> \o s /\ Unsent # <<>> /\ Head(Unsent) = b /\ Tail(Unsent) = s
  <2> HIDE DEF s
  <2> DEFINE q == <<b>> \o s
  <2>1. q \in Seq(Bytes) /\ Len(q) = 1 + Len(s) /\ q[1] = b
        /\ \A k \in 2 .. 1 + Len(s) : q[k] = s[k - 1]
    <3>1. /\ q \in Seq(Bytes) /\ Len(q) = Len(<<b>>) + Len(s)
          /\ \A k \in 1 .. Len(<<b>>) + Len(s) :
                q[k] = IF k <= Len(<<b>>) THEN <<b>>[k] ELSE s[k - Len(<<b>>)]
      BY <1>3, ConcatProperties
    <3>2. Len(<<b>>) = 1 /\ <<b>>[1] = b /\ Len(s) \in Nat
      BY <1>3
    <3> HIDE DEF q
    <3>3. QED
      BY <3>1, <3>2
  <2> HIDE DEF q
  <2>2. q # <<>> /\ Head(q) = b
    BY <1>3, <2>1
  <2>3. /\ Tail(q) \in Seq(Bytes) /\ Len(Tail(q)) = Len(s)
        /\ \A k \in 1 .. Len(Tail(q)) : Tail(q)[k] = q[k + 1]
    BY <1>3, <2>1, <2>2, HeadTailProperties
  <2>4. \A k \in 1 .. Len(Tail(q)) : Tail(q)[k] = s[k]
    BY <1>3, <2>1, <2>3
  <2>5. Tail(q) = s
    BY <1>3, <2>3, <2>4, SeqEqual
  <2>6. QED
    BY <1>1, <2>2, <2>5 DEF Unsent, q, s
<1>6. QED
  BY <1>2, <1>4, <1>5 DEF Transmitter!Take, Unsent

\* Every other step offers another byte at most.
LEMMA TransmitterStep ==
    Inv /\ Inv' /\ [Next]_vars => [Transmitter!KeepNext]_(Transmitter!bqvars)
<1> SUFFICES ASSUME Inv, Inv', [Next]_vars
             PROVE  [Transmitter!KeepNext]_(Transmitter!bqvars)
  OBVIOUS
<1>1. CASE WriteStore
  BY <1>1, StoreIsPut DEF Transmitter!KeepNext
<1>2. CASE WriteDirect
  BY <1>2, DirectIsPut DEF Transmitter!KeepNext
<1>3. CASE Load
  BY <1>3, LoadIsTake DEF Transmitter!KeepNext
<1>4. ASSUME tx_udr_empty_irq, udr = <<>>, ~IsEmpty(tx), c' = c
      PROVE  UNCHANGED Transmitter!bqvars
  <2>1. Unsent' = Unsent /\ wire' = wire
    BY <1>4, HandedOn DEF tx_udr_empty_irq
  <2>2. QED
    BY <1>4, <2>1 DEF Transmitter!bqvars, Unsent
<1>5. CASE UdreInterrupt
  BY <1>4, <1>5 DEF UdreInterrupt, Pending, Inv, EnabledMeansData
<1>6. CASE (WriteWait \/ FlushWait) /\ Poll
  BY <1>4, <1>6, PollHasData DEF Poll
<1>7. ASSUME UNCHANGED <<tx, udr, wire>> PROVE Transmitter!KeepNext
  <2>1. c' \in Bytes
    BY DEF Inv, TypeOK
  <2>2. QED
    BY <1>7, <2>1 DEF Transmitter!KeepNext, Transmitter!Offer
<1>8. CASE (WriteWait \/ FlushWait) /\ ~Poll
  BY <1>7, <1>8 DEF WriteWait, FlushWait, transmit
<1>9. CASE \/ begin \/ write \/ flush \/ read \/ WriteEmpty \/ WriteReady \/ WriteClear
           \/ WriteEnable \/ end \/ ReadAdvance \/ Disable \/ Enable
           \/ RxInterrupt \/ FrameEnds \/ Arrive \/ UNCHANGED vars
  <2>1. UNCHANGED <<tx, udr, wire>>
    BY <1>9 DEF vars, transmit, begin, write, flush, read, WriteEmpty, WriteReady,
                WriteClear, WriteEnable, end, ReadAdvance, Disable, Enable,
                RxInterrupt, FrameEnds, Arrive
  <2>2. QED
    BY <1>7, <2>1
<1>10. QED
  BY <1>1, <1>2, <1>3, <1>5, <1>6, <1>8, <1>9 DEF Next, Program, Call

\* The transmitter loses no byte, repeats none and keeps their order (write,
\* _tx_udr_empty_irq): the safety part of TransmitterIsQueue.
THEOREM TransmitterKeepsOrder ==
    Spec => Transmitter!Init /\ [][Transmitter!KeepNext]_(Transmitter!bqvars)
<1>1. Init => Transmitter!Init
  <2>1. SUFFICES ASSUME Init PROVE Transmitter!Init
    OBVIOUS
  <2>2. Inv /\ IsEmpty(tx) /\ udr = <<>> /\ wire = <<>> /\ c \in Bytes
    <3>1. IsEmpty(tx)
      BY <2>1 DEF Init, IsEmpty
    <3>2. QED
      BY <2>1, <3>1, InvInit DEF Init
  <2>3. Contents(tx, SERIAL_TX_BUFFER_SIZE) = <<>>
    BY <2>2, SizesAreNat, ContentsType DEF Inv, TypeOK
  <2>4. <<>> \in Seq(Bytes) /\ <<>> \o <<>> = <<>>
    BY EmptySeq, ConcatEmptySeq
  <2>5. QED
    BY <2>2, <2>3, <2>4 DEF Transmitter!Init
<1>2. QED
  BY <1>1, TransmitterStep, Invariance, PTL DEF Spec

Unread ==
    IF pc = "advance" THEN Tail(Contents(rx, SERIAL_RX_BUFFER_SIZE))
                      ELSE Contents(rx, SERIAL_RX_BUFFER_SIZE)

OfferedIn(q) == IF q = <<>> THEN CHOOSE b \in Bytes : TRUE ELSE Head(q).byte

LEMMA OfferedByte == ASSUME NEW q \in Seq(Frames) PROVE OfferedIn(q) \in Bytes
<1>1. CASE q = <<>>
  BY <1>1, SerialAssumption DEF OfferedIn
<1>2. CASE q # <<>>
  <2>1. Head(q) \in Frames
    BY <1>2
  <2>2. QED
    BY <1>2, <2>1 DEF OfferedIn, Frames
<1>3. QED
  BY <1>1, <1>2

LEMMA UnreadType ==
    ASSUME Inv
    PROVE  /\ Contents(rx, SERIAL_RX_BUFFER_SIZE) \in Seq(Bytes)
           /\ Unread \in Seq(Bytes)
           /\ Len(Unread) <= Count(rx, SERIAL_RX_BUFFER_SIZE)
           /\ pc = "advance" => Contents(rx, SERIAL_RX_BUFFER_SIZE) # <<>>
<1> DEFINE s == Contents(rx, SERIAL_RX_BUFFER_SIZE)
<1>1. rx \in Rings(SERIAL_RX_BUFFER_SIZE)
  BY DEF Inv, TypeOK
<1>2. /\ s \in Seq(Bytes) /\ Len(s) = Count(rx, SERIAL_RX_BUFFER_SIZE)
      /\ IsEmpty(rx) <=> s = <<>>
  BY <1>1, SizesAreNat, ContentsType
<1>3. pc = "advance" => s # <<>>
  BY <1>2 DEF Inv, TestsHold
<1> HIDE DEF s
<1>4. s # <<>> => Tail(s) \in Seq(Bytes) /\ Len(Tail(s)) = Len(s) - 1
  BY <1>2, HeadTailProperties
<1>5. QED
  BY <1>2, <1>3, <1>4 DEF Unread, s

\* Steps of the receiver and what they are to the queue.
LEMMA ReadIsTake == ASSUME Inv, read PROVE Receiver!Take
<1>1. /\ rx \in Rings(SERIAL_RX_BUFFER_SIZE) /\ ~IsEmpty(rx) /\ pc = "idle"
      /\ pc' = "advance" /\ rx' = rx /\ fifo' = fifo /\ got' = <<First(rx)>>
  BY DEF Inv, TypeOK, read
<1>2. /\ Contents(rx, SERIAL_RX_BUFFER_SIZE) # <<>>
      /\ Head(Contents(rx, SERIAL_RX_BUFFER_SIZE)) = First(rx)
  BY <1>1, SizesAreNat, DropEffect
<1>3. QED
  BY <1>1, <1>2 DEF Receiver!Take

LEMMA AdvanceIsNothing == ASSUME Inv, ReadAdvance PROVE UNCHANGED Receiver!bqvars
<1>1. /\ rx \in Rings(SERIAL_RX_BUFFER_SIZE) /\ ~IsEmpty(rx) /\ pc = "advance"
      /\ pc' = "idle" /\ rx' = Drop(rx, SERIAL_RX_BUFFER_SIZE) /\ fifo' = fifo
      /\ got' = got
  BY DEF Inv, TypeOK, TestsHold, ReadAdvance
<1>2. Tail(Contents(rx, SERIAL_RX_BUFFER_SIZE)) = Contents(rx', SERIAL_RX_BUFFER_SIZE)
  BY <1>1, SizesAreNat, DropEffect
<1>3. QED
  BY <1>1, <1>2 DEF Receiver!bqvars

LEMMA InterruptIsPut ==
    ASSUME Inv, Inv', RxInterrupt, ~Head(fifo).parityError,
           ~IsFull(rx, SERIAL_RX_BUFFER_SIZE)
    PROVE  Receiver!Put
<1> DEFINE s == Contents(rx, SERIAL_RX_BUFFER_SIZE)
<1>1. /\ rx \in Rings(SERIAL_RX_BUFFER_SIZE) /\ fifo # <<>>
      /\ rx' = Put(rx, SERIAL_RX_BUFFER_SIZE, Head(fifo).byte)
      /\ pc' = pc /\ got' = got
  BY DEF Inv, TypeOK, RxInterrupt
<1>2. Head(fifo).byte \in Bytes /\ Head(fifo).byte = OfferedIn(fifo) /\ OfferedIn(fifo') \in Bytes
  <2>1. OfferedIn(fifo') \in Bytes
    BY OfferedByte DEF Inv, TypeOK
  <2>2. QED
    BY <1>1, <2>1, OfferedByte DEF Inv, TypeOK, OfferedIn
<1>3. Contents(rx', SERIAL_RX_BUFFER_SIZE) = Append(s, OfferedIn(fifo))
  BY <1>1, <1>2, SizesAreNat, PutEffect
<1>4. s \in Seq(Bytes) /\ (pc = "advance" => s # <<>>)
  BY UnreadType
<1>5. Len(Unread) < SERIAL_RX_BUFFER_SIZE - 1
  <2>1. /\ Count(rx, SERIAL_RX_BUFFER_SIZE) # SERIAL_RX_BUFFER_SIZE - 1
        /\ Count(rx, SERIAL_RX_BUFFER_SIZE) \in 0 .. SERIAL_RX_BUFFER_SIZE - 1
    BY <1>1, SizesAreNat, CountOfRing
  <2>2. Len(Unread) <= Count(rx, SERIAL_RX_BUFFER_SIZE) /\ Len(Unread) \in Nat
    BY UnreadType
  <2>3. QED
    BY <2>1, <2>2, SizesAreNat
<1>6. Unread' = Append(Unread, OfferedIn(fifo))
  <2>1. CASE pc = "advance"
    <3>1. Tail(Append(s, OfferedIn(fifo))) = Append(Tail(s), OfferedIn(fifo))
      BY <1>4, <2>1, HeadTailAppend
    <3>2. QED
      BY <1>1, <1>3, <2>1, <3>1 DEF Unread
  <2>2. CASE pc # "advance"
    BY <1>1, <1>3, <2>2 DEF Unread
  <2>3. QED
    BY <2>1, <2>2
<1>7. QED
  BY <1>1, <1>2, <1>5, <1>6 DEF Receiver!Put, Unread, OfferedIn

LEMMA EndIsClear == ASSUME Inv', end PROVE Receiver!Clear
<1>1. rx' \in Rings(SERIAL_RX_BUFFER_SIZE) /\ IsEmpty(rx') /\ pc' = "idle" /\ got' = got
  <2>1. rx' \in Rings(SERIAL_RX_BUFFER_SIZE) /\ rx' = [rx EXCEPT !.head = rx.tail]
    BY DEF Inv, TypeOK, end
  <2>2. QED
    BY <2>1 DEF end, Rings, IsEmpty
<1>2. Contents(rx', SERIAL_RX_BUFFER_SIZE) = <<>>
  BY <1>1, SizesAreNat, ContentsType
<1>3. OfferedIn(fifo') \in Bytes
  BY OfferedByte DEF Inv, TypeOK
<1>4. QED
  BY <1>1, <1>2, <1>3 DEF Receiver!Clear, OfferedIn

LEMMA ReceiverStep ==
    Inv /\ Inv' /\ [Next]_vars =>
        [Receiver!KeepNext \/ Receiver!Clear]_(Receiver!bqvars)
<1> SUFFICES ASSUME Inv, Inv', [Next]_vars
             PROVE  [Receiver!KeepNext \/ Receiver!Clear]_(Receiver!bqvars)
  OBVIOUS
<1>1. CASE read
  BY <1>1, ReadIsTake DEF Receiver!KeepNext
<1>2. CASE ReadAdvance
  BY <1>2, AdvanceIsNothing
<1>3. CASE end
  BY <1>3, EndIsClear
<1>4. ASSUME rx' = rx, got' = got, pc' = pc \/ (pc # "advance" /\ pc' # "advance")
      PROVE  Receiver!KeepNext
  <2>1. OfferedIn(fifo') \in Bytes
    BY OfferedByte DEF Inv, TypeOK
  <2>2. Unread' = Unread
    BY <1>4 DEF Unread
  <2>3. QED
    BY <1>4, <2>1, <2>2 DEF Receiver!KeepNext, Receiver!Offer, Unread, OfferedIn
<1>5. CASE RxInterrupt
  <2>1. CASE ~Head(fifo).parityError /\ ~IsFull(rx, SERIAL_RX_BUFFER_SIZE)
    BY <1>5, <2>1, InterruptIsPut DEF Receiver!KeepNext
  <2>2. CASE ~(~Head(fifo).parityError /\ ~IsFull(rx, SERIAL_RX_BUFFER_SIZE))
    BY <1>4, <1>5, <2>2 DEF RxInterrupt
  <2>3. QED
    BY <2>1, <2>2
<1>6. CASE \/ begin \/ write \/ flush \/ WriteEmpty \/ WriteReady \/ WriteDirect
           \/ WriteClear \/ WriteWait \/ WriteStore \/ WriteEnable \/ FlushWait
           \/ Disable \/ Enable \/ UdreInterrupt \/ Load \/ FrameEnds \/ Arrive
           \/ UNCHANGED vars
  <2>1. rx' = rx /\ got' = got /\ (pc' = pc \/ (pc # "advance" /\ pc' # "advance"))
    BY <1>6 DEF vars, transmit, receive, begin, write, flush, WriteEmpty, WriteReady,
                WriteDirect, WriteClear, WriteWait, WriteStore, WriteEnable, FlushWait,
                Disable, Enable, UdreInterrupt, Load, FrameEnds, Arrive, GoTo, Poll
  <2>2. QED
    BY <1>4, <2>1
<1>7. QED
  BY <1>1, <1>2, <1>3, <1>5, <1>6 DEF Next, Program, Call

\* The receiver loses no byte that it has taken in, repeats none and keeps their
\* order, wherever the interrupt falls in a read (read, _rx_complete_irq).
THEOREM ReceiverKeepsOrder == Spec => ReceiverIsQueue
<1>1. Init => Receiver!Init
  <2>1. SUFFICES ASSUME Init PROVE Receiver!Init
    OBVIOUS
  <2>2. Inv /\ IsEmpty(rx) /\ got = <<>> /\ pc = "idle"
    <3>1. IsEmpty(rx)
      BY <2>1 DEF Init, IsEmpty
    <3>2. QED
      BY <2>1, <3>1, InvInit DEF Init
  <2>3. Contents(rx, SERIAL_RX_BUFFER_SIZE) = <<>>
    BY <2>2, SizesAreNat, ContentsType DEF Inv, TypeOK
  <2>4. OfferedIn(fifo) \in Bytes
    BY <2>2, OfferedByte DEF Inv, TypeOK
  <2>5. QED
    BY <2>2, <2>3, <2>4 DEF Receiver!Init, OfferedIn
<1>2. QED
  BY <1>1, ReceiverStep, Invariance, PTL DEF Spec, ReceiverIsQueue, Receiver!DropSpec
=============================================================================
