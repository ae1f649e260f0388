------------------------------- MODULE MCBoard --------------------------------
(* Model-checking Board: two descriptors, one more than the code ever needs    *)
(* at a time, so that a leak of one shows and a leak of two stops it; one      *)
(* hotspot that goes and comes back.                                          *)
EXTENDS Board

=============================================================================
