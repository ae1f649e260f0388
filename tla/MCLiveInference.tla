---- MODULE MCLiveInference ----
EXTENDS LiveInference
MCPrograms ==
  {[phases |-> <<1, 1>>, collect |-> FALSE, force |-> FALSE, gated |-> TRUE, outputs |-> {0, 2}],
   [phases |-> <<>>, collect |-> TRUE, force |-> TRUE, gated |-> FALSE, outputs |-> {1}]}
====
