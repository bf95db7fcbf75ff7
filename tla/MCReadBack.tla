----------------------------- MODULE MCReadBack -----------------------------
(***************************************************************************)
(* Two bits. r1 and r2 write one bit each, r3 writes all of the variable.   *)
(***************************************************************************)
EXTENDS ReadBack

MCBits == {0, 1}

MCMask == [r \in Records |-> CASE r = "r1" -> {0} [] r = "r2" -> {1} [] r = "r3" -> {0, 1}]

=============================================================================
