---------------------------- MODULE MCSessionStore ----------------------------
(* Model-checking SessionStore: a session of one receiver, then one of two.  *)
EXTENDS SessionStore, TLC

CONSTANTS a, b

MCBoardsOf == <<{a}, {a, b}>>
Pkt(at, len) == [at |-> at, len |-> len]
(* Resets, a tie between lengths, a gap, a single bin.                       *)
MCRecordings ==
  (<<1, a>> :> {<<Pkt(4, 1), Pkt(5, 2), Pkt(6, 2), Pkt(8, 1), Pkt(2, 1), Pkt(3, 2)>>})
  @@ (<<1, b>> :> {<<Pkt(0, 1)>>})
  @@ (<<2, a>> :> {<<Pkt(0, 2), Pkt(7, 2), Pkt(8, 1)>>})
  @@ (<<2, b>> :> {<<Pkt(5, 1), Pkt(6, 2), Pkt(1, 1), Pkt(2, 1), Pkt(3, 2), Pkt(0, 1)>>})
MCRequests == {[mac |-> a, width |-> 2], [mac |-> b, width |-> 2], [mac |-> NoMac, width |-> 0]}
Symmetry == Permutations(Workers)
===============================================================================
