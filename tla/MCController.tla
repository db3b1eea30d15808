---------------------------- MODULE MCController ----------------------------
(* An instance of Controller with two values of the parameters. *)
EXTENDS Controller

CONSTANTS p1, p2

MCParams == {p1, p2}
=============================================================================
