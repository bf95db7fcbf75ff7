------------------------------ MODULE MCIoIntr ------------------------------
(***************************************************************************)
(* Bytes of two values, and a hash that 0 and -1 share.  With uint32_t of    *)
(* 16 values the 5 elements of a DINT array wrap to 4 bytes in size().       *)
(***************************************************************************)
EXTENDS IoIntr

MCFunctions == {f \in Function : f.form # "array" \/ f.type \in {"USINT", "INT", "DINT"}}

MCArrays == {f \in Function : f.form = "array" /\ f.type = "INT"}

MCWide == {f \in Function : f.form # "array" /\ f.type = "UDINT"}

=============================================================================
