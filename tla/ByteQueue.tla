----------------------------- MODULE ByteQueue -----------------------------
(* What a serial port promises in each direction: a queue of bytes, which   *)
(* loses none that it has taken in, repeats none and keeps their order.     *)
EXTENDS Naturals, Sequences

CONSTANTS Bytes, Capacity

VARIABLES
    offered,   \* the byte that its user would put next
    queue,
    taken      \* the byte taken last

bqvars == <<offered, queue, taken>>

Init == queue = <<>> /\ taken = <<>> /\ offered \in Bytes

Offer == offered' \in Bytes /\ UNCHANGED <<queue, taken>>

Put ==
    /\ Len(queue) < Capacity
    /\ queue' = Append(queue, offered)
    /\ offered' \in Bytes
    /\ UNCHANGED taken

Take ==
    /\ queue # <<>>
    /\ taken' = <<Head(queue)>> /\ queue' = Tail(queue)
    /\ UNCHANGED offered

\* The port is closed: what is still to be read is thrown away.
Clear == queue' = <<>> /\ offered' \in Bytes /\ UNCHANGED taken

\* All but Clear, which a transmitter never does.
KeepNext == Offer \/ Put \/ Take

KeepSpec == Init /\ [][KeepNext]_bqvars /\ WF_bqvars(Take)

DropSpec == Init /\ [][KeepNext \/ Clear]_bqvars
=============================================================================
