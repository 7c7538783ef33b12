------------------------- MODULE MCPaymentsLakehouse -------------------------
(***************************************************************************)
(* Small instances of PaymentsLakehouse for TLC: two or one payment ids,   *)
(* a good row in each of two gold groups and a row that fails the          *)
(* data-quality rules.                                                     *)
(***************************************************************************)
EXTENDS PaymentsLakehouse

CONSTANTS r1, r2, bad, g1, g2

MCGroupOf == [r \in Rows |-> IF r = r1 THEN g1 ELSE g2]
=============================================================================
