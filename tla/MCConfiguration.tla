--------------------------- MODULE MCConfiguration ---------------------------
(***************************************************************************)
(* uint16_t has 20 values, uint32_t 100 and long 601, so that numbers of two *)
(* and three digits are in and out of range of each.                        *)
(***************************************************************************)
EXTENDS Configuration, TLC

MCTypes   == {"INT", "STRING"}
MCPortMap == "PLC" :> 8
MCDefault == [sum |-> 5, timeout |-> -1, port |-> 8, period |-> 1]

R == Plain(Word("R"))
W == Plain(Word("W"))
P(n) == Key("P", Number(n))
N(n) == Key("N", Number(n))
PLC  == Key("P", Word("PLC"))
V(w) == Key("V", Word(w))
A == V("a")

Say(type, form, args) == [args |-> args, type |-> type, form |-> form]

\* The first lines follow the manual; the others break its grammar one by one.
MCSpecs ==
  {Say("INT", "value", <<R, PLC, A>>), Say("INT", "value", <<W, P(8), A>>),
   Say("INT", "value", <<R, P(17), A>>), Say("INT", "digi", <<W, PLC, A>>),
   Say("INT", "array", <<N(25), R, PLC, A>>), Say("STRING", "string", <<N(9), W, PLC, V("s")>>),
   Say("TIME", "value", <<R, PLC, A>>), Say("INT", "value", <<R, A>>),
   Say("INT", "value", <<R, P(28), A>>), Say("INT", "value", <<R, P(400), A>>),
   Say("INT", "value", <<R, Key("P", Word("no")), A>>),
   Say("INT", "value", <<R, PLC, Plain(Word("a"))>>),
   Say("INT", "value", <<PLC, R, A>>), Say("INT", "value", <<>>),
   Say("INT", "array", <<Plain(Number(25)), R, PLC, A>>),
   Say("INT", "array", <<N(400), R, PLC, A>>), Say("INT", "array", <<N(150), R, PLC, A>>),
   Say("STRING", "string", <<Plain(Number(9)), R, PLC, A>>)}

\* AdsOpen with a name, an IP address and, mostly, an AMS net id.
Open(rest) == <<Word("plc"), Word("ip")>> \o rest
Id == Word("id")

MCCommands ==
  {Open(<<>>), Open(<<Id>>), <<Word("plc")>>, Open(<<Id, Number(3)>>),
   Open(<<Id, Number(3), Number(40), Number(17), Number(45)>>),
   Open(<<Id, Number(20)>>), Open(<<Id, Number(0)>>), Open(<<Id, Word("x")>>),
   Open(<<Id, Number(400), Number(3)>>), Open(<<Id, Number(3), Number(-4)>>)}

=============================================================================
