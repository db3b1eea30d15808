------------------------------ MODULE MCTwoWire ------------------------------
(* A small instance of TwoWire: two bytes in the slave's buffer, four in the *)
(* master's.                                                                 *)
EXTENDS TwoWire

\* Empty, short, and one and two bytes too long for the slave.
MCMessages == {<<>>, <<1>>, <<2, 1, 1>>, <<1, 1, 1, 2, 1>>}

MCReplies == {<<>>, <<2, 1>>, <<1, 2, 1>>}
=============================================================================
