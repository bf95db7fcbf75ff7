------------------------------ MODULE MCSumRead ------------------------------
(***************************************************************************)
(* An instance of SumRead: five variables on two ports.  c alone exceeds    *)
(* the soft limit, e makes the size of a buffer wrap around when it is not  *)
(* the first one in it, a and d have the same size.                         *)
(***************************************************************************)
EXTENDS SumRead, TLC

CONSTANTS a, b, c, d, e

MCVariables == {a, b, c, d, e}
MCPorts     == {851, 852}
MCPort      == a :> 851 @@ b :> 851 @@ c :> 851 @@ d :> 852 @@ e :> 852
MCSize      == a :> 1 @@ b :> 2 @@ c :> 6 @@ d :> 1 @@ e :> 25

=============================================================================
