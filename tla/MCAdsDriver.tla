----------------------------- MODULE MCAdsDriver -----------------------------
(***************************************************************************)
(* Instances of AdsDriver.  r is a variable of an I/O Intr input record, w  *)
(* of an output record, b of an output record with asyn:READBACK, which is  *)
(* both written and read.  r and b are in different chunks.                 *)
(***************************************************************************)
EXTENDS AdsDriver

CONSTANTS r, w, b, k1, k2

MCChunkOf == [v \in Vars |-> IF v = b THEN k2 ELSE k1]

=============================================================================
