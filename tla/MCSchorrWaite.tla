--------------------------- MODULE MCSchorrWaite ---------------------------
(* Model-checking instance of SchorrWaite: nil_value and three further     *)
(* addresses, enough for sharing, self loops and cycles through cons and   *)
(* function objects.                                                       *)
EXTENDS SchorrWaite

CONSTANTS n, o1, o2, o3

MCObj == {n, o1, o2, o3}

=============================================================================
