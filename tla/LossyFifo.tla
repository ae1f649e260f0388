------------------------------ MODULE LossyFifo -------------------------------
(***************************************************************************)
(* What a stage of the path from the radio to the data set promises: the    *)
(* samples it hands on come in the order of their numbers, each at most     *)
(* once, and only numbers that were issued.  It may lose any of them.       *)
(***************************************************************************)
EXTENDS Naturals, Sequences

VARIABLES
  issued,    \* how many numbers have been handed out: 0 .. issued - 1
  pending,   \* the set of numbers that may still come out
  out        \* the sequence of numbers that came out

vars == <<issued, pending, out>>

Init == issued = 0 /\ pending = {} /\ out = <<>>

Issue ==
  /\ pending' = pending \cup {issued}
  /\ issued' = issued + 1
  /\ UNCHANGED out

Deliver(n) ==
  /\ n \in pending
  /\ \A m \in pending : n <= m
  /\ out' = Append(out, n)
  /\ pending' = pending \ {n}
  /\ UNCHANGED issued

Lose(n) ==
  /\ n \in pending
  /\ pending' = pending \ {n}
  /\ UNCHANGED <<issued, out>>

Next == Issue \/ \E n \in pending : Deliver(n) \/ Lose(n)

Spec == Init /\ [][Next]_vars
=============================================================================
