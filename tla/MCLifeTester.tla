---------------------------- MODULE MCLifeTester ----------------------------
(* An instance of LifeTester: one task of each kind, two of them for data. *)
EXTENDS LifeTester

CONSTANTS new, default, zero

MCParams == {new, default, zero}

MCTasks == {[cmd |-> "DataReg", rw |-> "R", ch |-> "A"],
            [cmd |-> "DataReg", rw |-> "R", ch |-> "B"],
            [cmd |-> "Reset", rw |-> "W", ch |-> "B"],
            [cmd |-> "ParamsReg", rw |-> "R", ch |-> "A"],
            [cmd |-> "ParamsReg", rw |-> "W", ch |-> "A"]}
=============================================================================
