--------------------------- MODULE MCCollectSession ---------------------------
(* Model-checking CollectSession: up to two boards and three addresses.  The    *)
(* tag of a MAC address is named by its board; k1 and k2 are IP addresses that  *)
(* differ in their dots only.                                                *)
EXTENDS CollectSession, TLC

CONSTANTS b1, b2, k1, k2, k3, dotless

AllTags == {b1, b2, dotless, k3}
Sanitized ==
  [a \in Boards \cup Keys |-> IF a \in {k1, k2} THEN dotless ELSE a]

(* Boards are alike, and so are the two addresses of one tag.                 *)
Alike == Permutations({b1, b2}) \cup Permutations({k1, k2})
=============================================================================
