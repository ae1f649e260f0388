---------------------------- MODULE MCCapacityTest ----------------------------
(* Model-checking CapacityTest: a sweep of two rates, applied or not, and the *)
(* search for the maximum among three, out of order.  The original setting    *)
(* is one of the combinations.                                              *)
EXTENDS CapacityTest

Sweep(apply) == [command |-> "sweep", transport |-> "tcp", apply |-> apply, rates |-> <<100, 50>>]
FindMax == [command |-> "find_max_rate", transport |-> "tcp", apply |-> TRUE,
            rates |-> <<50, 100, 20>>]

MCSetups == {Sweep(TRUE), Sweep(FALSE), FindMax}
MCOriginal == [mode |-> "serial", rate |-> 50]
=============================================================================
