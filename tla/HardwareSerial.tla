--------------------------- MODULE HardwareSerial ---------------------------
(* HardwareSerial.cpp: the ring buffers between the program and the UART, and *)
(* the two interrupt handlers that share them with it.  A call of the program *)
(* is a step per access that an interrupt may fall between.                   *)
EXTENDS Naturals, Sequences

CONSTANTS
    Bytes,
    SERIAL_TX_BUFFER_SIZE,
    SERIAL_RX_BUFFER_SIZE,
    RX_DEPTH,              \* received bytes that the UART itself can hold
    Programs               \* what a program uses the port for: "write", "read"

ASSUME SerialAssumption ==
    /\ Bytes # {}
    /\ SERIAL_TX_BUFFER_SIZE \in Nat \ {0, 1}
    /\ SERIAL_RX_BUFFER_SIZE \in Nat \ {0, 1}
    /\ RX_DEPTH \in Nat \ {0}
    /\ Programs \subseteq SUBSET {"write", "read"}

VARIABLES
    use,          \* the member of Programs that is run
    pc,           \* where the program is in a call of the library
    c, got,       \* the byte it writes, and the last that it has read
    interrupts,   \* SREG_I
    tx, rx,       \* the ring buffers: buffer, head, tail
    written,      \* _written
    on,           \* begun and not ended: RXEN, TXEN, RXCIE
    UDRIE, TXC,
    udr, shift,   \* the transmitter's data and shift registers, empty or <<byte>>
    wire,         \* the byte last put on the wire, if any
    fresh,        \* the frame in the shift register was started in this window
    fifo          \* frames that the receiver holds

transmit == <<tx, written, UDRIE, TXC, udr, shift, wire, fresh>>
receive  == <<rx, fifo, got>>
vars     == <<use, pc, c, interrupts, on, transmit, receive>>

Frames == [byte : Bytes, parityError : BOOLEAN]
-----------------------------------------------------------------------------
(* Ring buffers: head is where the next byte goes, tail where the next is. *)

Count(ring, size) == (size + ring.head - ring.tail) % size

Contents(ring, size) ==
    [k \in 1 .. Count(ring, size) |-> ring.buffer[(ring.tail + k - 1) % size]]

IsEmpty(ring) == ring.head = ring.tail

\* Mutant: the last place is used as well, and a full buffer looks empty.
Mut_NeverFull(ring, size) == FALSE

IsFull(ring, size) == (ring.head + 1) % size = ring.tail

Put(ring, size, byte) ==
    [ring EXCEPT !.buffer[ring.head] = byte, !.head = (@ + 1) % size]

First(ring) == ring.buffer[ring.tail]

Drop(ring, size) == [ring EXCEPT !.tail = (@ + 1) % size]

Init ==
    /\ use \in Programs /\ pc = "idle" /\ got = <<>> /\ c \in Bytes
    /\ interrupts = TRUE /\ on = FALSE
    /\ \E b \in Bytes :
          /\ tx = [buffer |-> [k \in 0 .. SERIAL_TX_BUFFER_SIZE - 1 |-> b],
                   head |-> 0, tail |-> 0]
          /\ rx = [buffer |-> [k \in 0 .. SERIAL_RX_BUFFER_SIZE - 1 |-> b],
                   head |-> 0, tail |-> 0]
    /\ written = FALSE /\ UDRIE = FALSE /\ TXC = FALSE
    /\ udr = <<>> /\ shift = <<>> /\ wire = <<>> /\ fresh = FALSE /\ fifo = <<>>

-----------------------------------------------------------------------------
(* _tx_udr_empty_irq, by the interrupt or polled with interrupts disabled *)

\* Mutant: the interrupt stays enabled when the buffer is empty.
Mut_StaysEnabled ==
    /\ udr' = <<First(tx)>>
    /\ tx' = Drop(tx, SERIAL_TX_BUFFER_SIZE)
    /\ TXC' = FALSE
    /\ UDRIE' = UDRIE
    /\ UNCHANGED <<written, shift, wire, fresh>>

tx_udr_empty_irq ==
    /\ udr' = <<First(tx)>>
    /\ tx' = Drop(tx, SERIAL_TX_BUFFER_SIZE)
    /\ TXC' = FALSE
    /\ UDRIE' = (UDRIE /\ ~IsEmpty(tx'))
    /\ UNCHANGED <<written, shift, wire, fresh>>

Pending == interrupts /\ UDRIE /\ udr = <<>>

UdreInterrupt ==
    /\ Pending
    /\ tx_udr_empty_irq
    /\ UNCHANGED <<pc, c, interrupts, on, receive>>

\* What a loop does while it waits with interrupts disabled.
Poll ==
    /\ ~interrupts /\ udr = <<>>
    /\ tx_udr_empty_irq
    /\ UNCHANGED <<pc, c, interrupts, on, receive>>

-----------------------------------------------------------------------------
(* Calls of the program *)

begin ==
    /\ pc = "idle" /\ ~on
    /\ on' = TRUE /\ written' = FALSE /\ UDRIE' = FALSE
    /\ UNCHANGED <<pc, c, interrupts, tx, TXC, udr, shift, wire, fresh, receive>>

GoTo(place) == pc' = place /\ UNCHANGED <<interrupts, on, receive>>

write ==
    /\ pc = "idle" /\ on /\ "write" \in use
    /\ c' \in Bytes /\ written' = TRUE
    /\ GoTo("empty?")
    /\ UNCHANGED <<tx, UDRIE, TXC, udr, shift, wire, fresh>>

WriteEmpty ==
    /\ pc = "empty?"
    /\ GoTo(IF IsEmpty(tx) THEN "ready?" ELSE "full?")
    /\ UNCHANGED <<c, transmit>>

WriteReady ==
    /\ pc = "ready?"
    /\ GoTo(IF udr = <<>> THEN "direct" ELSE "full?")
    /\ UNCHANGED <<c, transmit>>

WriteDirect ==
    /\ pc = "direct"
    /\ udr' = <<c>>
    /\ GoTo("clear TXC")
    /\ UNCHANGED <<c, tx, written, UDRIE, TXC, shift, wire, fresh>>

\* Mutant: the end of an earlier byte still shows in TXC.
Mut_TxcKept ==
    /\ pc = "clear TXC"
    /\ fresh' = FALSE
    /\ GoTo("idle")
    /\ UNCHANGED <<c, tx, written, UDRIE, TXC, udr, shift, wire>>

WriteClear ==
    /\ pc = "clear TXC"
    /\ TXC' = FALSE /\ fresh' = FALSE
    /\ GoTo("idle")
    /\ UNCHANGED <<c, tx, written, UDRIE, udr, shift, wire>>

\* Mutant: the loop relies on the interrupt, enabled or not.
Mut_NotPolled ==
    /\ pc = "full?"
    /\ ~IsFull(tx, SERIAL_TX_BUFFER_SIZE)
    /\ GoTo("store") /\ UNCHANGED <<c, transmit>>

WriteWait ==
    /\ pc = "full?"
    /\ \/ /\ IsFull(tx, SERIAL_TX_BUFFER_SIZE)
          /\ Poll
       \/ /\ ~IsFull(tx, SERIAL_TX_BUFFER_SIZE)
          /\ GoTo("store") /\ UNCHANGED <<c, transmit>>

WriteStore ==
    /\ pc = "store"
    /\ tx' = Put(tx, SERIAL_TX_BUFFER_SIZE, c)
    /\ GoTo("enable UDRIE")
    /\ UNCHANGED <<c, written, UDRIE, TXC, udr, shift, wire, fresh>>

WriteEnable ==
    /\ pc = "enable UDRIE"
    /\ UDRIE' = TRUE /\ fresh' = FALSE
    /\ GoTo("idle")
    /\ UNCHANGED <<c, tx, written, TXC, udr, shift, wire>>

\* flush, and end, which flushes first.
flush ==
    /\ pc = "idle" /\ on
    /\ \/ GoTo(IF written THEN "flush" ELSE "idle")
       \/ GoTo(IF written THEN "end" ELSE "ended")
    /\ UNCHANGED <<c, transmit>>

FlushWait ==
    /\ pc \in {"flush", "end"}
    /\ \/ UDRIE /\ Poll
       \/ /\ ~UDRIE /\ TXC
          /\ GoTo(IF pc = "flush" THEN "idle" ELSE "ended")
          /\ UNCHANGED <<c, transmit>>

end ==
    /\ pc = "ended"
    /\ pc' = "idle" /\ on' = FALSE /\ UDRIE' = FALSE
    /\ rx' = [rx EXCEPT !.head = rx.tail] /\ fifo' = <<>>
    /\ UNCHANGED <<c, interrupts, tx, written, TXC, udr, shift, wire, fresh, got>>

\* read: the byte is fetched before the tail moves on.
read ==
    /\ pc = "idle" /\ ~IsEmpty(rx)
    /\ got' = <<First(rx)>> /\ pc' = "advance"
    /\ UNCHANGED <<c, interrupts, on, transmit, rx, fifo>>

ReadAdvance ==
    /\ pc = "advance"
    /\ rx' = Drop(rx, SERIAL_RX_BUFFER_SIZE) /\ pc' = "idle"
    /\ UNCHANGED <<c, interrupts, on, transmit, fifo, got>>

\* noInterrupts and interrupts, or a call from an interrupt handler.
Disable ==
    /\ pc = "idle" /\ interrupts
    /\ interrupts' = FALSE
    /\ UNCHANGED <<pc, c, on, transmit, receive>>

Enable ==
    /\ pc = "idle" /\ ~interrupts
    /\ interrupts' = TRUE
    /\ UNCHANGED <<pc, c, on, transmit, receive>>

Call ==
    \/ WriteEmpty \/ WriteReady \/ WriteDirect \/ WriteClear \/ WriteWait
    \/ WriteStore \/ WriteEnable \/ FlushWait \/ end \/ ReadAdvance

-----------------------------------------------------------------------------
(* The UART *)

\* Between a store to UDR and the clearing of TXC, and between the new head and
\* UDRIE, lie a few cycles, and at most the interrupts of the timer and the bus:
\* less than a frame (1 ms at 9600 Bd), so that none starts and ends in there.
InWindow == pc \in {"clear TXC", "enable UDRIE"}

Load ==
    /\ udr # <<>> /\ shift = <<>>
    /\ shift' = udr /\ wire' = udr /\ udr' = <<>> /\ fresh' = InWindow
    /\ UNCHANGED <<pc, c, interrupts, on, tx, written, UDRIE, TXC, receive>>

FrameEnds ==
    /\ shift # <<>> /\ ~fresh
    /\ shift' = <<>> /\ TXC' = (TXC \/ udr = <<>>)
    /\ UNCHANGED <<pc, c, interrupts, on, tx, written, UDRIE, udr, wire, fresh, receive>>

Arrive ==
    /\ on /\ Len(fifo) < RX_DEPTH /\ "read" \in use
    /\ \E f \in Frames : fifo' = Append(fifo, f)
    /\ UNCHANGED <<pc, c, interrupts, on, transmit, rx, got>>

\* Mutant: a byte that does not fit replaces the oldest.
Mut_Overwrites ==
    /\ interrupts /\ on /\ fifo # <<>>
    /\ fifo' = Tail(fifo)
    /\ rx' = IF ~Head(fifo).parityError
             THEN Put(IF IsFull(rx, SERIAL_RX_BUFFER_SIZE)
                      THEN Drop(rx, SERIAL_RX_BUFFER_SIZE) ELSE rx,
                      SERIAL_RX_BUFFER_SIZE, Head(fifo).byte)
             ELSE rx
    /\ UNCHANGED <<pc, c, interrupts, on, transmit, got>>

\* _rx_complete_irq
RxInterrupt ==
    /\ interrupts /\ on /\ fifo # <<>>
    /\ fifo' = Tail(fifo)
    /\ rx' = IF ~Head(fifo).parityError /\ ~IsFull(rx, SERIAL_RX_BUFFER_SIZE)
             THEN Put(rx, SERIAL_RX_BUFFER_SIZE, Head(fifo).byte)
             ELSE rx
    /\ UNCHANGED <<pc, c, interrupts, on, transmit, got>>

\* An interrupt that is pending is served before the program goes on.
Program == ~Pending /\ (begin \/ write \/ flush \/ read \/ Call \/ Disable \/ Enable)

Next ==
    /\ \/ Program
       \/ UdreInterrupt \/ RxInterrupt
       \/ Load \/ FrameEnds \/ Arrive
    /\ UNCHANGED use

Spec == Init /\ [][Next]_vars

\* The UART clocks bytes out, the program's calls run on, it disables interrupts
\* for a while only, and an interrupt is served when they are enabled.
SameUse(A) == A /\ UNCHANGED use

FairSpec ==
    /\ Spec
    /\ WF_vars(SameUse(Load)) /\ WF_vars(SameUse(FrameEnds))
    /\ WF_vars(SameUse(~Pending /\ Call)) /\ WF_vars(SameUse(UdreInterrupt))
    /\ SF_vars(SameUse(Enable))

-----------------------------------------------------------------------------
(* Properties *)

\* The handler that takes a byte out of the buffer without a look at the head
\* runs only when there is one: UDRIE is never set over an empty buffer, although
\* the program sets it after an interrupt may have taken the byte it has stored.
EnabledMeansData == UDRIE => ~IsEmpty(tx)

\* "If we get here, nothing is queued anymore (DRIE is disabled) and the
\* hardware finished tranmission": what was written before a flush is out.
FlushedIsSent ==
    [][FlushWait /\ pc' # pc => IsEmpty(tx) /\ udr = <<>> /\ shift = <<>>]_vars

\* No call hangs, with interrupts enabled or disabled, on a full buffer or on a
\* flag that was cleared too late.
CallsReturn == (pc # "idle") ~> (pc = "idle")

\* The transmitter is a queue of bytes, each of which comes out in the end.
Transmitter == INSTANCE ByteQueue WITH
    Capacity <- SERIAL_TX_BUFFER_SIZE,
    offered  <- c,
    queue    <- udr \o Contents(tx, SERIAL_TX_BUFFER_SIZE),
    taken    <- wire

TransmitterIsQueue == Transmitter!KeepSpec

\* The receiver is one as well, but for bytes that never enter it: those that
\* come with a parity error or while it is full.
Receiver == INSTANCE ByteQueue WITH
    Capacity <- SERIAL_RX_BUFFER_SIZE - 1,
    offered  <- IF fifo = <<>> THEN CHOOSE b \in Bytes : TRUE ELSE Head(fifo).byte,
    queue    <- IF pc = "advance" THEN Tail(Contents(rx, SERIAL_RX_BUFFER_SIZE))
                                  ELSE Contents(rx, SERIAL_RX_BUFFER_SIZE),
    taken    <- got

ReceiverIsQueue == Receiver!DropSpec
=============================================================================
