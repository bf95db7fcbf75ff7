---------------------------- MODULE Configuration ----------------------------
(***************************************************************************)
(* From the startup script to a configured driver: AdsOpen makes a driver,   *)
(* every record names a function and an address, which are parsed and       *)
(* become a device variable of their own or that of an earlier record, and  *)
(* initHook decides what is read in the sum-reads.                          *)
(*                                                                         *)
(* A text is a number, a word or nothing; a token is a text with or without *)
(* "<key>=" before it.  Widths of integers are constants.                   *)
(***************************************************************************)
EXTENDS Sequences, Functions

CONSTANTS
  Types,          \* the keys of ads_datatypes
  PortMap,        \* ads_port_map
  Short,          \* number of values of uint16_t
  Wide,           \* number of values of int and uint32_t
  LongMax,        \* the largest long
  Default,        \* settings that AdsOpen takes for missing arguments
  UsageTimeout,   \* defaultADSCallTimeout_ms, which its usage message prints
  Commands,       \* argument lists of AdsOpen
  Specs,          \* what the records say: [args, type, form]
  MaxRecords      \* bound: records loaded

ASSUME WidthsAssumption ==
  /\ Short \in Nat \ {0} /\ Wide \in Nat /\ Wide >= 2 * Short /\ Wide % 2 = 0 /\ LongMax \in Nat
  /\ \A p \in DOMAIN PortMap : PortMap[p] \in 1 .. Short - 1
ASSUME DefaultAssumption ==
  /\ Default.sum \in 1 .. Short - 1 /\ Default.port \in 1 .. Short - 1
  /\ Default.timeout \in Int /\ Default.period \in Nat \ {0}
  /\ UsageTimeout \in Nat \ {0}
ASSUME CommandsAssumption ==
  \A command \in Commands : \A i \in 1 .. Len(command) :
    command[i].kind = "number" => command[i].n \in Int
ASSUME RecordsAssumption == MaxRecords \in Nat

VARIABLES
  phase,           \* "shell", "load", "run"; "undefined" after undefined behaviour or
                   \* an exception that nobody handles
  settings,        \* the arguments of the constructor of ADSPortDriver
  variables,       \* the device variables, in the order of their creation
  loaded,          \* the records: what each says, I/O Intr, its variable or 0
  ads_read_vars,   \* ADSPortDriver::ads_read_vars, as indices of variables
  ads_write_vars,  \* ADSPortDriver::ads_write_vars
  write_readback   \* the variables whose ADSVariable::write_readback is set

vars == <<phase, settings, variables, loaded, ads_read_vars, ads_write_vars,
          write_readback>>

-----------------------------------------------------------------------------
(* Texts, tokens and results.                                              *)

Number(n) == [n |-> n, kind |-> "number"]
Word(w)   == [w |-> w, kind |-> "word"]
Nothing   == [kind |-> "nothing"]

Plain(text)    == [key |-> "", text |-> text]
Key(key, text) == [key |-> key, text |-> text]

Return(val) == [ok |-> TRUE, val |-> val]
Throw(err)  == [ok |-> FALSE, err |-> err]
Invalid     == Throw("invalid_argument")

Long == -LongMax - 1 .. LongMax

\* std::stol.  (A number may be followed by anything.)
Stol(text) == IF text.kind # "number" THEN Invalid
              ELSE IF text.n \in Long THEN Return(text.n) ELSE Throw("out_of_range")

\* parse_param_value: whatever the key is.
ParamValue(token) == IF token.key = "" THEN Nothing ELSE token.text

\* A text without its first character.
ButFirst(text) ==
  CASE text.kind = "number" /\ text.n < 0 -> Number(-text.n)
    [] text.kind = "number" /\ text.n \in 0 .. 9 -> Nothing
    [] text.kind = "number" /\ text.n > 9 ->
         Number(text.n % (CHOOSE p \in {10, 100, 1000} : p <= text.n /\ text.n < 10 * p))
    [] text.kind = "word" -> IF text.w \in {"R", "W"} THEN Nothing ELSE Word("tail")
    [] OTHER -> Nothing

-----------------------------------------------------------------------------
(* ADSAddress: the constructor for the autoparam driver.                   *)

\* parse_operation.
ParseOperation(token) ==
  IF token \in {Plain(Word("R")), Plain(Word("W"))} THEN Return(token.text.w) ELSE Invalid

\* parse_nelem_autoparam.  Without "N=", find() + 2 is 1.
ParseNelem(token) ==
  LET text  == CASE token.key = "N" -> token.text
                 [] token.key = ""  -> ButFirst(token.text)
                 [] OTHER           -> Word("tail")
      nelem == Stol(text)
  IN IF text = Nothing THEN Return(0)
     ELSE IF ~nelem.ok THEN nelem
     ELSE IF nelem.val \in 1 .. Wide - 1 THEN nelem ELSE Invalid

\* (wrong) Numbers only.
ParsePortNumber(token) ==
  LET n == Stol(ParamValue(token)) IN IF n.ok THEN Return(n.val % Short) ELSE Invalid

\* parse_ads_port: a name, or a number that is returned as uint16_t.
ParsePort(token) ==
  LET text == ParamValue(token)
  IN IF text.kind = "word" /\ text.w \in DOMAIN PortMap THEN Return(PortMap[text.w])
     ELSE IF Stol(text).ok THEN Return(Stol(text).val % Short) ELSE Invalid

\* (wrong) Without "V=" the name is empty.
ParseAnyName(token) == Return(ParamValue(token))

\* parse_variable_name.
ParseName(token) ==
  IF ParamValue(token) = Nothing THEN Invalid ELSE Return(ParamValue(token))

\* parse_data_type_autoparam.
ParseType(type) == IF type \in Types THEN Return(type) ELSE Invalid

HasNelem(spec) == spec.form \in {"array", "string"}

\* ADSAddress::ADSAddress and parseDeviceAddress, up to the first exception: an
\* argument that is not there is read all the same, with an undefined outcome.
ParseAddress(spec) ==
  LET first == IF HasNelem(spec) THEN 1 ELSE 0
      Arg(i, result) == IF i > Len(spec.args) THEN Throw("undefined") ELSE result
      type  == ParseType(spec.type)
      nelem == IF HasNelem(spec) THEN Arg(1, ParseNelem(spec.args[1])) ELSE Return(0)
      op    == Arg(first + 1, ParseOperation(spec.args[first + 1]))
      port  == Arg(first + 2, ParsePort(spec.args[first + 2]))
      name  == Arg(first + 3, ParseName(spec.args[first + 3]))
  IN IF ~type.ok THEN type
     ELSE IF ~nelem.ok THEN nelem
     ELSE IF ~op.ok THEN op
     ELSE IF ~port.ok THEN port
     ELSE IF ~name.ok THEN name
     ELSE IF spec.form = "string" /\ nelem.val = 0 THEN Invalid
     ELSE Return([type |-> type.val, nelem |-> IF nelem.val = 0 THEN 1 ELSE nelem.val,
                  operation |-> op.val, port |-> port.val, name |-> name.val])

-----------------------------------------------------------------------------
(* AdsOpen.                                                                *)

\* strtol: 0 for what is not a number, the nearest long for one too large.
Strtol(text) ==
  IF text.kind # "number" THEN 0
  ELSE IF text.n > LongMax THEN LongMax
  ELSE IF text.n < -LongMax THEN -LongMax - 1 ELSE text.n

ToInt(n) == ((n + Wide \div 2) % Wide) - (Wide \div 2)

\* (wrong) The last argument is not looked at.
SettingButLast(command, i, default) ==
  IF Len(command) > i THEN ToInt(Strtol(command[i])) ELSE default

\* Argument i, as an int.
Setting(command, i, default) ==
  IF Len(command) >= i THEN ToInt(Strtol(command[i])) ELSE default

\* ads_open: sum_buffer_nelem, ads_timeout, device_read_ads_port, sum_read_period.
\* ams_net_id, the third argument, may be missing: argc counts the command, too.
Accepted(command) ==
  /\ Len(command) \in 2 .. 7
  /\ \A i \in 4 .. Len(command) : Setting(command, i, 1) >= 1

\* The constructor gets them as uint16_t, uint32_t, uint16_t and milliseconds.
Settings(command) ==
  [command |-> command,
   sum     |-> Setting(command, 4, Default.sum) % Short,
   timeout |-> Setting(command, 5, Default.timeout) % Wide,
   port    |-> Setting(command, 6, Default.port) % Short,
   period  |-> Setting(command, 7, Default.period)]

NoDriver == [command |-> <<>>]

\* SumReadRequest refuses to be of size 0, and nobody handles the exception.
AdsOpen(command) ==
  /\ phase = "shell"
  /\ IF Accepted(command)
       THEN /\ settings' = Settings(command)
            /\ phase' = IF settings'.sum = 0 THEN "undefined" ELSE "load"
       ELSE UNCHANGED <<settings, phase>>
  /\ UNCHANGED <<variables, loaded, ads_read_vars, ads_write_vars, write_readback>>

-----------------------------------------------------------------------------
(* Records and their variables.                                            *)

Init ==
  /\ phase = "shell" /\ settings = NoDriver
  /\ variables = <<>> /\ loaded = <<>>
  /\ ads_read_vars = <<>> /\ ads_write_vars = <<>> /\ write_readback = {}

\* (wrong) The operation is not part of an address.
SameButOperation(a, b) ==
  a.name = b.name /\ a.type = b.type /\ a.port = b.port /\ a.nelem = b.nelem

\* (wrong) Addresses are never equal.
NeverSame(a, b) == FALSE

\* ADSDeviceAddress::operator==.
SameAddress(a, b) ==
  /\ a.name = b.name /\ a.type = b.type /\ a.port = b.port
  /\ a.nelem = b.nelem /\ a.operation = b.operation

\* The autoparam driver looks for a variable with the function and the address
\* before it asks for a new one (external).
Find(variable) ==
  {i \in DOMAIN variables : /\ variables[i].function = variable.function
                            /\ SameAddress(variables[i].address, variable.address)}

\* ADSPortDriver::createDeviceVariable.
CreateDeviceVariable(variable) ==
  LET i == Len(variables) + 1
  IN /\ variables' = Append(variables, variable)
     /\ IF variable.address.operation = "R"
          THEN ads_read_vars' = Append(ads_read_vars, i) /\ UNCHANGED ads_write_vars
          ELSE ads_write_vars' = Append(ads_write_vars, i) /\ UNCHANGED ads_read_vars

\* A record is initialised; intr is SCAN=I/O Intr or asyn:READBACK.  parseDeviceAddress
\* catches std::invalid_argument and nothing else.
LoadRecord(spec, intr) ==
  /\ phase = "load" /\ Len(loaded) < MaxRecords
  /\ LET address  == ParseAddress(spec)
         variable == [function |-> <<spec.type, spec.form>>, address |-> address.val]
         Load(var) == loaded' = Append(loaded, [spec |-> spec, intr |-> intr, var |-> var])
         NoneCreated == UNCHANGED <<variables, ads_read_vars, ads_write_vars>>
     IN \/ /\ ~address.ok
           /\ Load(0) /\ NoneCreated
           /\ phase' = IF address = Invalid THEN phase ELSE "undefined"
        \/ /\ address.ok /\ \E i \in Find(variable) : Load(i)
           /\ NoneCreated /\ UNCHANGED phase
        \/ /\ address.ok /\ Find(variable) = {}
           /\ Load(Len(variables) + 1)
           /\ CreateDeviceVariable(variable) /\ UNCHANGED phase
  /\ UNCHANGED <<settings, write_readback>>

\* getInterruptVariables (external).
Interrupt(i) == \E k \in DOMAIN loaded : loaded[k].var = i /\ loaded[k].intr

Operation(i) == variables[i].address.operation

\* (wrong) Every one of them is read back.
ReadBackAll(i) == Interrupt(i)

ReadBack(i) == Interrupt(i) /\ Operation(i) = "W"

\* ADSPortDriver::initHook, at the end of iocInit.  The order of the interrupt
\* variables is that of autoparamDriver.
InitHook ==
  /\ phase = "load"
  /\ write_readback' = {i \in DOMAIN variables : ReadBack(i)}
  /\ \E n \in 0 .. Len(variables) : \E order \in Bijection(1 .. n, write_readback') :
       ads_read_vars' = ads_read_vars \o order
  /\ phase' = "run"
  /\ UNCHANGED <<settings, variables, loaded, ads_write_vars>>

\* Nothing happens any more.
Done == phase \in {"run", "undefined"} /\ UNCHANGED vars

Next ==
  \/ \E command \in Commands : AdsOpen(command)
  \/ \E spec \in Specs, intr \in BOOLEAN : LoadRecord(spec, intr)
  \/ InitHook \/ Done

Spec == Init /\ [][Next]_vars

-----------------------------------------------------------------------------
\* Types of the state: addresses are in range, whatever the records say.
TypeOK ==
  /\ phase \in {"shell", "load", "run", "undefined"}
  /\ settings = NoDriver \/ /\ settings.sum \in 0 .. Short - 1
                            /\ settings.timeout \in 0 .. Wide - 1
                            /\ settings.port \in 0 .. Short - 1
                            /\ settings.period >= 1
  /\ \A i \in DOMAIN variables :
       LET a == variables[i].address
       IN /\ a.type \in Types /\ a.operation \in {"R", "W"}
          /\ a.nelem \in 1 .. Wide - 1 /\ a.port \in 0 .. Short - 1
          /\ a.name # Nothing
  /\ \A k \in DOMAIN loaded : loaded[k].var \in 0 .. Len(variables)
  /\ \A k \in DOMAIN ads_read_vars : ads_read_vars[k] \in DOMAIN variables
  /\ \A k \in DOMAIN ads_write_vars : ads_write_vars[k] \in DOMAIN variables
  /\ write_readback \subseteq DOMAIN variables

\* The address grammar of the manual, with numbers in range.
Conforming(spec) ==
  LET n == IF HasNelem(spec) THEN 1 ELSE 0
  IN /\ spec.type \in Types /\ Len(spec.args) = n + 3
     /\ n = 1 => /\ spec.args[1].key = "N" /\ spec.args[1].text.kind = "number"
                 /\ spec.args[1].text.n \in (1 .. Wide - 1) \cap Long
     /\ spec.args[n + 1] \in {Plain(Word("R")), Plain(Word("W"))}
     /\ LET port == spec.args[n + 2]
        IN /\ port.key = "P"
           /\ \/ /\ port.text.kind = "number"
                 /\ port.text.n \in (1 .. Short - 1) \cap Long
              \/ port.text.kind = "word" /\ port.text.w \in DOMAIN PortMap
     /\ spec.args[n + 3].key = "V" /\ spec.args[n + 3].text.kind = "word"

\* What such a record means.
Meaning(spec) ==
  LET n    == IF HasNelem(spec) THEN 1 ELSE 0
      port == spec.args[n + 2].text
  IN [function |-> <<spec.type, spec.form>>,
      address  |-> [type |-> spec.type,
                    nelem |-> IF n = 1 THEN spec.args[1].text.n ELSE 1,
                    operation |-> spec.args[n + 1].text.w,
                    port |-> IF port.kind = "number" THEN port.n ELSE PortMap[port.w],
                    name |-> spec.args[n + 3].text]]

\* (parseDeviceAddress, operator==) A record whose address follows the manual is bound to
\* a variable with that function and address, whatever records came before it.
RecordsGetWhatTheySay ==
  \A k \in DOMAIN loaded :
    Conforming(loaded[k].spec) =>
      /\ loaded[k].var # 0
      /\ variables[loaded[k].var] = Meaning(loaded[k].spec)

\* (createDeviceVariable, operator==) Records that say the same share one variable: a
\* value written by one is read back by the others, and a variable is read once.
OneVariablePerAddress ==
  \A i, j \in DOMAIN variables : i # j => variables[i] # variables[j]

Once(i, list)  == \E k \in DOMAIN list : \A j \in DOMAIN list : list[j] = i <=> j = k
Never(i, list) == \A k \in DOMAIN list : list[k] # i

\* (createDeviceVariable, initHook) After initHook every variable that a record reads, or
\* that is read back, is in the list of the sum-reads exactly once, one that is only
\* written is not, and those written are in the list that is resolved for writing.
ListsMatchTheRecords ==
  phase = "run" => \A i \in DOMAIN variables :
    LET back == Operation(i) = "W" /\ Interrupt(i)
    IN /\ IF Operation(i) = "R" \/ back THEN Once(i, ads_read_vars)
                                         ELSE Never(i, ads_read_vars)
       /\ IF Operation(i) = "W" THEN Once(i, ads_write_vars)
                                ELSE Never(i, ads_write_vars)
       /\ i \in write_readback <=> back

\* The numbers that argument i can carry to the constructor: uint16_t, or a positive int.
Fitting(i) == (1 .. (IF i \in {4, 6} THEN Short ELSE Wide \div 2) - 1) \cap Long

\* (ads_open) With the arguments that are required, a driver has the settings that were
\* asked for where they fit, the defaults of the code where the size of a sum-read, the
\* port or the period is not given, and never a sum-read of no variables.
SettingsAsAsked ==
  phase \in {"load", "run"} /\ Len(settings.command) >= 3 =>
    LET command == settings.command
        As(i, value) ==
          i <= Len(command) =>
            /\ command[i].kind = "number"
            /\ command[i].n \in Fitting(i) => value = command[i].n
        Without(i, value, default) == i > Len(command) => value = default
    IN /\ As(4, settings.sum) /\ Without(4, settings.sum, Default.sum)
       /\ As(5, settings.timeout)
       /\ As(6, settings.port) /\ Without(6, settings.port, Default.port)
       /\ As(7, settings.period) /\ Without(7, settings.period, Default.period)
       /\ settings.sum >= 1

\* "AdsOpen <port_name> <ip_addr> <ams_net_id> | optional: <sum_buffer_nelem (default: %u)>
\* <ads_timeout (default: %u) [ms]> ...": a driver is made of three arguments or more, and
\* has the default timeout that is printed when the command gives none.
UsageAsPrinted ==
  phase \in {"load", "run"} =>
    /\ Len(settings.command) >= 3
    /\ Len(settings.command) < 5 => settings.timeout = UsageTimeout

=============================================================================
