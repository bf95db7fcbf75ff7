------------------------- MODULE ConfigurationProofs -------------------------
(***************************************************************************)
(* For any records, commands and widths: a record whose address follows the *)
(* manual gets the variable it names, variables are not made twice, and the *)
(* lists of the sum-reads and of the resolved variables match the records.  *)
(***************************************************************************)
EXTENDS Configuration, TLAPS

FunctionNames == {<<spec.type, spec.form>> : spec \in Specs}
Names == {ParamValue(spec.args[i]) : spec \in Specs, i \in 3 .. 4} \ {Nothing}

Address == [type : Types, nelem : 1 .. Wide - 1, operation : {"R", "W"},
            port : 0 .. Short - 1, name : Names]

Variable == [function : FunctionNames, address : Address]

Loaded == [spec : Specs, intr : BOOLEAN, var : Nat]

-----------------------------------------------------------------------------
(* The parser.                                                             *)

\* The results of the parsers, where they return.
LEMMA ParsedParts ==
  ASSUME NEW token
  PROVE  /\ ParseOperation(token).ok => ParseOperation(token).val \in {"R", "W"}
         /\ ParseNelem(token).ok => ParseNelem(token).val \in 0 .. Wide - 1
         /\ ParsePort(token).ok => ParsePort(token).val \in 0 .. Short - 1
         /\ ParseName(token).ok => /\ ParseName(token).val = ParamValue(token)
                                   /\ ParamValue(token) # Nothing
<1> USE WidthsAssumption DEF Return, Throw, Invalid
<1>1. ParseOperation(token).ok => ParseOperation(token).val \in {"R", "W"}
  <2>1. CASE token = Plain(Word("R"))
    BY <2>1 DEF ParseOperation, Plain, Word
  <2>2. CASE token = Plain(Word("W"))
    BY <2>2 DEF ParseOperation, Plain, Word
  <2>3. CASE token \notin {Plain(Word("R")), Plain(Word("W"))}
    BY <2>3 DEF ParseOperation
  <2>4. QED
    BY <2>1, <2>2, <2>3
<1>2. ParseNelem(token).ok => ParseNelem(token).val \in 0 .. Wide - 1
  <2> DEFINE text == CASE token.key = "N" -> token.text
                       [] token.key = ""  -> ButFirst(token.text)
                       [] OTHER           -> Word("tail")
  <2>1. ParseNelem(token)
          = IF text = Nothing THEN Return(0)
            ELSE IF ~Stol(text).ok THEN Stol(text)
            ELSE IF Stol(text).val \in 1 .. Wide - 1 THEN Stol(text) ELSE Invalid
    BY DEF ParseNelem
  <2> HIDE DEF text
  <2>2. Return(0).val = 0 /\ ~Invalid.ok /\ 0 \in 0 .. Wide - 1
    OBVIOUS
  <2>3. QED
    BY <2>1, <2>2
<1>3. ASSUME NEW text PROVE Stol(text).ok => Stol(text).val \in Int
  BY DEF Stol, Long
<1>4. ParsePort(token).ok => ParsePort(token).val \in 0 .. Short - 1
  BY <1>3 DEF ParsePort
<1>5. ParseName(token).ok => /\ ParseName(token).val = ParamValue(token)
                             /\ ParamValue(token) # Nothing
  BY DEF ParseName
<1>6. QED
  BY <1>1, <1>2, <1>4, <1>5

\* An address that is accepted is in range.
LEMMA ParsedAddress ==
  ASSUME NEW spec \in Specs, ParseAddress(spec).ok
  PROVE  ParseAddress(spec).val \in Address
<1> DEFINE first == IF HasNelem(spec) THEN 1 ELSE 0
           Arg(i, result) == IF i > Len(spec.args) THEN Throw("undefined") ELSE result
           type  == ParseType(spec.type)
           nelem == IF HasNelem(spec) THEN Arg(1, ParseNelem(spec.args[1])) ELSE Return(0)
           op    == Arg(first + 1, ParseOperation(spec.args[first + 1]))
           port  == Arg(first + 2, ParsePort(spec.args[first + 2]))
           name  == Arg(first + 3, ParseName(spec.args[first + 3]))
           n     == IF nelem.val = 0 THEN 1 ELSE nelem.val
<1>0. ~Throw("undefined").ok /\ ~Invalid.ok
  BY DEF Throw, Invalid
<1>1. /\ type.ok /\ nelem.ok /\ op.ok /\ port.ok /\ name.ok
      /\ ParseAddress(spec) = Return([type |-> type.val, nelem |-> n,
                 operation |-> op.val, port |-> port.val, name |-> name.val])
  BY <1>0 DEF ParseAddress
<1>2. type.val \in Types
  BY <1>0, <1>1 DEF ParseType, Return
<1>3. n \in 1 .. Wide - 1
  <2>1. nelem.val \in 0 .. Wide - 1
    BY <1>0, <1>1, ParsedParts, WidthsAssumption DEF Return
  <2>2. QED
    BY <2>1, WidthsAssumption
<1>4. op.val \in {"R", "W"} /\ port.val \in 0 .. Short - 1
  BY <1>0, <1>1, ParsedParts
<1>5. name.val \in Names
  <2>1. name = ParseName(spec.args[first + 3]) /\ first + 3 \in 3 .. 4
    BY <1>0, <1>1
  <2>2. QED
    BY <1>1, <2>1, ParsedParts DEF Names
<1>6. QED
  BY <1>1, <1>2, <1>3, <1>4, <1>5 DEF Return, Address

\* A record that follows the manual means what the parser makes of it.
LEMMA ParseConforming ==
  ASSUME NEW spec, Conforming(spec)
  PROVE  /\ ParseAddress(spec).ok
         /\ [function |-> <<spec.type, spec.form>>,
             address |-> ParseAddress(spec).val] = Meaning(spec)
<1> DEFINE k == IF HasNelem(spec) THEN 1 ELSE 0
           nelem == IF HasNelem(spec) THEN ParseNelem(spec.args[1]) ELSE Return(0)
<1>0. k \in {0, 1} /\ Len(spec.args) = k + 3
  BY DEF Conforming
<1>1. ParseType(spec.type) = Return(spec.type)
  BY DEF Conforming, ParseType
<1>2. /\ nelem = Return(IF HasNelem(spec) THEN spec.args[1].text.n ELSE 0)
      /\ HasNelem(spec) => spec.args[1].text.n \in 1 .. Wide - 1
  <2>1. CASE HasNelem(spec)
    <3>1. /\ spec.args[1].key = "N" /\ spec.args[1].text.kind = "number"
          /\ spec.args[1].text.n \in 1 .. Wide - 1 /\ spec.args[1].text.n \in Long
      BY <2>1 DEF Conforming
    <3>2. Stol(spec.args[1].text) = Return(spec.args[1].text.n)
      BY <3>1 DEF Stol
    <3>3. spec.args[1].text # Nothing
      BY <3>1 DEF Nothing
    <3>4. QED
      BY <2>1, <3>1, <3>2, <3>3 DEF ParseNelem, Return
  <2>2. CASE ~HasNelem(spec)
    BY <2>2
  <2>3. QED
    BY <2>1, <2>2
<1>3. ParseOperation(spec.args[k + 1]) = Return(spec.args[k + 1].text.w)
  BY DEF Conforming, ParseOperation
<1>4. ParsePort(spec.args[k + 2])
        = Return(LET port == spec.args[k + 2].text
                 IN IF port.kind = "number" THEN port.n ELSE PortMap[port.w])
  <2> DEFINE port == spec.args[k + 2].text
  <2>1. /\ spec.args[k + 2].key = "P"
        /\ \/ port.kind = "number" /\ port.n \in 1 .. Short - 1 /\ port.n \in Long
           \/ port.kind = "word" /\ port.w \in DOMAIN PortMap
    BY DEF Conforming
  <2>2. ParamValue(spec.args[k + 2]) = port
    BY <2>1 DEF ParamValue
  <2>3. CASE port.kind = "number"
    <3>1. Stol(port) = Return(port.n) /\ port.n % Short = port.n
      BY <2>1, <2>3, WidthsAssumption DEF Stol
    <3>2. Stol(port).ok /\ Stol(port).val = port.n
      BY <3>1 DEF Return
    <3>3. ~(port.kind = "word" /\ port.w \in DOMAIN PortMap)
      BY <2>3
    <3>4. ParsePort(spec.args[k + 2]) = Return(Stol(port).val % Short)
      BY <2>2, <3>2, <3>3 DEF ParsePort
    <3>5. QED
      BY <2>3, <3>1, <3>2, <3>4
  <2>4. CASE port.kind = "word"
    BY <2>1, <2>2, <2>4 DEF ParsePort
  <2>5. QED
    BY <2>1, <2>3, <2>4
<1>5. ParseName(spec.args[k + 3]) = Return(spec.args[k + 3].text)
  BY DEF Conforming, ParseName, ParamValue, Nothing
<1>6. ParseAddress(spec)
        = Return([type |-> spec.type,
                  nelem |-> IF HasNelem(spec) THEN spec.args[1].text.n ELSE 1,
                  operation |-> spec.args[k + 1].text.w,
                  port |-> LET port == spec.args[k + 2].text
                           IN IF port.kind = "number" THEN port.n ELSE PortMap[port.w],
                  name |-> spec.args[k + 3].text])
  <2> DEFINE Arg(i, result) == IF i > Len(spec.args) THEN Throw("undefined") ELSE result
             op   == ParseOperation(spec.args[k + 1])
             port == ParsePort(spec.args[k + 2])
             name == ParseName(spec.args[k + 3])
  <2>1. /\ HasNelem(spec) => Arg(1, ParseNelem(spec.args[1])) = ParseNelem(spec.args[1])
        /\ Arg(k + 1, op) = op /\ Arg(k + 2, port) = port /\ Arg(k + 3, name) = name
    BY <1>0
  <2>2. ParseType(spec.type).ok /\ nelem.ok /\ op.ok /\ port.ok /\ name.ok
    BY <1>1, <1>2, <1>3, <1>4, <1>5 DEF Return
  <2>3. ~(spec.form = "string" /\ nelem.val = 0)
    BY <1>2 DEF HasNelem, Return
  <2>4. ParseAddress(spec)
          = Return([type |-> ParseType(spec.type).val,
                    nelem |-> IF nelem.val = 0 THEN 1 ELSE nelem.val,
                    operation |-> op.val, port |-> port.val, name |-> name.val])
    BY <2>1, <2>2, <2>3 DEF ParseAddress
  <2>5. (IF nelem.val = 0 THEN 1 ELSE nelem.val)
          = IF HasNelem(spec) THEN spec.args[1].text.n ELSE 1
    BY <1>2 DEF Return
  <2>6. /\ ParseType(spec.type).val = spec.type /\ op.val = spec.args[k + 1].text.w
        /\ name.val = spec.args[k + 3].text
        /\ port.val = LET text == spec.args[k + 2].text
                      IN IF text.kind = "number" THEN text.n ELSE PortMap[text.w]
    BY <1>1, <1>3, <1>4, <1>5 DEF Return
  <2>7. QED
    BY <2>4, <2>5, <2>6
<1>7. QED
  BY <1>6 DEF Meaning, Return

-----------------------------------------------------------------------------
(* The inductive invariant.                                                *)

\* The settings are those of a command that was accepted.
SettingsInv ==
  /\ phase \in {"shell", "load", "run", "undefined"}
  /\ \/ settings = NoDriver
     \/ /\ settings.command \in Commands /\ Accepted(settings.command)
        /\ settings = Settings(settings.command)
  /\ phase \in {"load", "run"} => settings # NoDriver /\ settings.sum # 0

\* Variables, records and lists refer to each other.
TablesInv ==
  /\ variables \in Seq(Variable) /\ loaded \in Seq(Loaded)
  /\ ads_read_vars \in Seq(Nat) /\ ads_write_vars \in Seq(Nat)
  /\ \A k \in DOMAIN loaded : loaded[k].var \in 0 .. Len(variables)
  /\ \A k \in DOMAIN ads_read_vars : ads_read_vars[k] \in 1 .. Len(variables)
  /\ \A k \in DOMAIN ads_write_vars : ads_write_vars[k] \in 1 .. Len(variables)
  /\ write_readback \subseteq DOMAIN variables

\* Until initHook, a variable is in the list of its operation, once.
ListsInv ==
  phase # "run" => \A i \in DOMAIN variables :
    IF Operation(i) = "R" THEN Once(i, ads_read_vars) /\ Never(i, ads_write_vars)
                          ELSE Once(i, ads_write_vars) /\ Never(i, ads_read_vars)

IInv == /\ SettingsInv /\ TablesInv /\ ListsInv
        /\ RecordsGetWhatTheySay /\ OneVariablePerAddress /\ ListsMatchTheRecords

LEMMA InitInvariant == Init => IInv
BY DEF Init, IInv, SettingsInv, TablesInv, ListsInv, RecordsGetWhatTheySay,
       OneVariablePerAddress, ListsMatchTheRecords, NoDriver

\* AdsOpen touches the settings only.
LEMMA AdsOpenPreserves ==
  ASSUME IInv, NEW command \in Commands, AdsOpen(command)
  PROVE  IInv'
<1>1. /\ UNCHANGED <<variables, loaded, ads_read_vars, ads_write_vars, write_readback>>
      /\ phase = "shell" /\ phase' \in {"shell", "load", "undefined"}
  BY DEF AdsOpen
<1>2. SettingsInv'
  <2>1. CASE Accepted(command)
    <3>1. /\ settings' = Settings(command)
          /\ phase' = IF settings'.sum = 0 THEN "undefined" ELSE "load"
      BY <2>1 DEF AdsOpen
    <3>2. settings'.command = command
      BY <3>1 DEF Settings
    <3>3. settings' # NoDriver
      BY <2>1, <3>1, <3>2 DEF NoDriver, Accepted
    <3>4. QED
      BY <2>1, <3>1, <3>2, <3>3 DEF SettingsInv
  <2>2. CASE ~Accepted(command)
    BY <2>2 DEF AdsOpen, IInv, SettingsInv
  <2>3. QED
    BY <2>1, <2>2
<1>3. TablesInv' /\ RecordsGetWhatTheySay' /\ OneVariablePerAddress'
  BY <1>1 DEF IInv, TablesInv, RecordsGetWhatTheySay, OneVariablePerAddress
<1>4. ListsInv' /\ ListsMatchTheRecords'
  BY <1>1 DEF IInv, ListsInv, ListsMatchTheRecords, Operation, Once, Never
<1>5. QED
  BY <1>2, <1>3, <1>4 DEF IInv

-----------------------------------------------------------------------------
(* A record is loaded.                                                     *)

\* What one more element does to a list.
LEMMA OnceMore ==
  ASSUME NEW list \in Seq(Nat), NEW n \in Nat,
         \A k \in DOMAIN list : list[k] # n
  PROVE  /\ Append(list, n) \in Seq(Nat) /\ Once(n, Append(list, n))
         /\ \A i \in Nat \ {n} : Once(i, list) => Once(i, Append(list, n))
         /\ \A i \in Nat \ {n} : Never(i, list) => Never(i, Append(list, n))
<1> DEFINE more == Append(list, n)
<1>1. /\ more \in Seq(Nat) /\ Len(more) = Len(list) + 1 /\ Len(list) \in Nat
      /\ more[Len(list) + 1] = n /\ \A k \in 1 .. Len(list) : more[k] = list[k]
      /\ DOMAIN more = 1 .. Len(list) + 1 /\ DOMAIN list = 1 .. Len(list)
  OBVIOUS
<1> HIDE DEF more
<1>2. Once(n, more)
  <2>1. \A j \in DOMAIN more : more[j] = n <=> j = Len(list) + 1
    BY <1>1
  <2>2. QED
    BY <1>1, <2>1 DEF Once
<1>3. ASSUME NEW i \in Nat \ {n}, Once(i, list) PROVE Once(i, more)
  <2>1. PICK k \in DOMAIN list : \A j \in DOMAIN list : list[j] = i <=> j = k
    BY <1>3 DEF Once
  <2>2. k \in DOMAIN more /\ \A j \in DOMAIN more : more[j] = i <=> j = k
    BY <1>1, <1>3, <2>1
  <2>3. QED
    BY <2>2 DEF Once
<1>4. ASSUME NEW i \in Nat \ {n}, Never(i, list) PROVE Never(i, more)
  BY <1>1, <1>4 DEF Never
<1>5. QED
  BY <1>1, <1>2, <1>3, <1>4 DEF more

\* A new record bound to a variable that exists, or to none.
LEMMA LoadKeepsVariables ==
  ASSUME IInv, NEW spec \in Specs, NEW intr \in BOOLEAN, NEW var \in 0 .. Len(variables),
         loaded' = Append(loaded, [spec |-> spec, intr |-> intr, var |-> var]),
         Conforming(spec) => var # 0 /\ variables[var] = Meaning(spec),
         UNCHANGED <<variables, ads_read_vars, ads_write_vars, settings, write_readback>>,
         phase = "load", phase' \in {"load", "undefined"}
  PROVE  IInv'
<1> DEFINE rec == [spec |-> spec, intr |-> intr, var |-> var]
<1>1. /\ loaded' \in Seq(Loaded) /\ DOMAIN loaded' = 1 .. Len(loaded) + 1
      /\ DOMAIN loaded = 1 .. Len(loaded) /\ Len(loaded) \in Nat
      /\ loaded'[Len(loaded) + 1] = rec
      /\ \A k \in 1 .. Len(loaded) : loaded'[k] = loaded[k]
      /\ Len(variables) \in Nat
  <2>1. rec \in Loaded
    BY DEF IInv, TablesInv, Loaded
  <2>2. QED
    BY <2>1 DEF IInv, TablesInv
<1>2. SettingsInv' /\ OneVariablePerAddress'
  BY DEF IInv, SettingsInv, OneVariablePerAddress
<1>3. TablesInv'
  BY <1>1 DEF IInv, TablesInv
<1>4. RecordsGetWhatTheySay'
  BY <1>1 DEF IInv, RecordsGetWhatTheySay
<1>5. ListsInv' /\ ListsMatchTheRecords'
  BY DEF IInv, ListsInv, ListsMatchTheRecords, Operation, Once, Never
<1>6. QED
  BY <1>2, <1>3, <1>4, <1>5 DEF IInv

\* A new record with a variable of its own.
LEMMA LoadWithVariable ==
  ASSUME IInv, NEW spec \in Specs, NEW intr \in BOOLEAN, NEW variable \in Variable,
         loaded' = Append(loaded, [spec |-> spec, intr |-> intr,
                                   var |-> Len(variables) + 1]),
         Conforming(spec) => variable = Meaning(spec),
         Find(variable) = {}, CreateDeviceVariable(variable),
         UNCHANGED <<phase, settings, write_readback>>, phase = "load"
  PROVE  IInv'
<1> DEFINE n == Len(variables) + 1
           rec == [spec |-> spec, intr |-> intr, var |-> n]
<1>1. /\ loaded \in Seq(Loaded) /\ Len(loaded) \in Nat /\ DOMAIN loaded = 1 .. Len(loaded)
      /\ variables \in Seq(Variable) /\ Len(variables) \in Nat
      /\ DOMAIN variables = 1 .. Len(variables) /\ n \in Nat
      /\ ads_read_vars \in Seq(Nat) /\ ads_write_vars \in Seq(Nat)
  BY DEF IInv, TablesInv
<1>2. /\ loaded' \in Seq(Loaded) /\ DOMAIN loaded' = 1 .. Len(loaded) + 1
      /\ loaded'[Len(loaded) + 1] = rec
      /\ \A k \in 1 .. Len(loaded) : loaded'[k] = loaded[k]
  <2>1. rec \in Loaded
    BY <1>1 DEF Loaded
  <2>2. QED
    BY <1>1, <2>1
<1>3. /\ variables' = Append(variables, variable)
      /\ variables' \in Seq(Variable) /\ Len(variables') = n /\ DOMAIN variables' = 1 .. n
      /\ variables'[n] = variable
      /\ \A i \in 1 .. Len(variables) : variables'[i] = variables[i]
  BY <1>1 DEF CreateDeviceVariable
<1>4. /\ \A k \in DOMAIN ads_read_vars : ads_read_vars[k] # n
      /\ \A k \in DOMAIN ads_write_vars : ads_write_vars[k] # n
  BY <1>1 DEF IInv, TablesInv
<1>5. variable.address.operation \in {"R", "W"}
  BY DEF Variable, Address
<1>6. \/ /\ variable.address.operation = "R" /\ ads_write_vars' = ads_write_vars
         /\ ads_read_vars' = Append(ads_read_vars, n)
      \/ /\ variable.address.operation = "W" /\ ads_read_vars' = ads_read_vars
         /\ ads_write_vars' = Append(ads_write_vars, n)
  BY <1>5 DEF CreateDeviceVariable
<1>7. SettingsInv'
  BY DEF IInv, SettingsInv
<1>8. TablesInv'
  <2>1. \A k \in DOMAIN loaded' : loaded'[k].var \in 0 .. Len(variables')
    BY <1>1, <1>2, <1>3 DEF IInv, TablesInv
  <2>2. /\ ads_read_vars' \in Seq(Nat) /\ ads_write_vars' \in Seq(Nat)
        /\ \A k \in DOMAIN ads_read_vars' : ads_read_vars'[k] \in 1 .. Len(variables')
        /\ \A k \in DOMAIN ads_write_vars' : ads_write_vars'[k] \in 1 .. Len(variables')
    <3>1. ASSUME NEW list \in Seq(Nat),
                 \A k \in DOMAIN list : list[k] \in 1 .. Len(variables)
          PROVE  /\ Append(list, n) \in Seq(Nat)
                 /\ \A k \in DOMAIN Append(list, n) : Append(list, n)[k] \in 1 .. n
                 /\ \A k \in DOMAIN list : list[k] \in 1 .. n
      <4> DEFINE more == Append(list, n)
      <4>1. /\ more \in Seq(Nat) /\ DOMAIN more = 1 .. Len(list) + 1 /\ Len(list) \in Nat
            /\ more[Len(list) + 1] = n /\ \A k \in 1 .. Len(list) : more[k] = list[k]
            /\ DOMAIN list = 1 .. Len(list)
        BY <1>1
      <4> HIDE DEF more
      <4>2. \A k \in DOMAIN list : list[k] \in 1 .. n
        BY <1>1, <3>1
      <4>3. ASSUME NEW k \in DOMAIN more PROVE more[k] \in 1 .. n
        <5>1. CASE k = Len(list) + 1
          BY <1>1, <4>1, <5>1
        <5>2. CASE k \in 1 .. Len(list)
          BY <4>1, <4>2, <5>2
        <5>3. QED
          BY <4>1, <5>1, <5>2
      <4>4. QED
        BY <4>1, <4>2, <4>3 DEF more
    <3>2. /\ \A k \in DOMAIN ads_read_vars : ads_read_vars[k] \in 1 .. Len(variables)
          /\ \A k \in DOMAIN ads_write_vars : ads_write_vars[k] \in 1 .. Len(variables)
      BY DEF IInv, TablesInv
    <3>3. QED
      BY <1>1, <1>3, <1>6, <3>1, <3>2
  <2>3. write_readback' \subseteq DOMAIN variables'
    BY <1>1, <1>3 DEF IInv, TablesInv
  <2>4. QED
    BY <1>2, <1>3, <2>1, <2>2, <2>3 DEF TablesInv
<1>9. RecordsGetWhatTheySay'
  <2>1. ASSUME NEW k \in DOMAIN loaded', Conforming(loaded'[k].spec)
        PROVE  /\ loaded'[k].var # 0
               /\ variables'[loaded'[k].var] = Meaning(loaded'[k].spec)
    <3>1. CASE k = Len(loaded) + 1
      BY <1>1, <1>2, <1>3, <2>1, <3>1
    <3>2. CASE k \in 1 .. Len(loaded)
      BY <1>1, <1>2, <1>3, <2>1, <3>2 DEF IInv, TablesInv, RecordsGetWhatTheySay
    <3>3. QED
      BY <1>1, <1>2, <3>1, <3>2
  <2>2. QED
    BY <2>1 DEF RecordsGetWhatTheySay
<1>10. OneVariablePerAddress'
  <2>1. \A i \in 1 .. Len(variables) : variables[i] # variable
    BY <1>1 DEF Find, SameAddress
  <2>2. QED
    BY <1>1, <1>3, <2>1 DEF IInv, OneVariablePerAddress
<1>11. ListsInv'
  <2>1. ASSUME NEW i \in 1 .. n
        PROVE  IF Operation(i)' = "R"
                 THEN Once(i, ads_read_vars)' /\ Never(i, ads_write_vars)'
                 ELSE Once(i, ads_write_vars)' /\ Never(i, ads_read_vars)'
    <3>1. CASE i = n
      <4>1. Operation(i)' = variable.address.operation
        BY <1>3, <3>1 DEF Operation
      <4>2. Never(n, ads_read_vars) /\ Never(n, ads_write_vars)
        BY <1>4 DEF Never
      <4>3. QED
        BY <1>1, <1>4, <1>6, <3>1, <4>1, <4>2, OnceMore
    <3>2. CASE i # n
      <4>1. i \in 1 .. Len(variables) /\ i \in Nat \ {n}
        BY <1>1, <3>2
      <4>2. Operation(i)' = Operation(i)
        BY <1>3, <4>1 DEF Operation
      <4>3. IF Operation(i) = "R" THEN Once(i, ads_read_vars) /\ Never(i, ads_write_vars)
                                  ELSE Once(i, ads_write_vars) /\ Never(i, ads_read_vars)
        BY <1>1, <4>1 DEF IInv, ListsInv
      <4>4. QED
        BY <1>1, <1>4, <1>6, <4>1, <4>2, <4>3, OnceMore
    <3>3. QED
      BY <3>1, <3>2
  <2>2. QED
    BY <1>3, <2>1 DEF ListsInv
<1>12. ListsMatchTheRecords'
  BY DEF ListsMatchTheRecords
<1>13. QED
  BY <1>7, <1>8, <1>9, <1>10, <1>11, <1>12 DEF IInv

LEMMA LoadRecordPreserves ==
  ASSUME IInv, NEW spec \in Specs, NEW intr \in BOOLEAN, LoadRecord(spec, intr)
  PROVE  IInv'
<1> DEFINE address  == ParseAddress(spec)
           variable == [function |-> <<spec.type, spec.form>>, address |-> address.val]
           Load(var) == loaded' = Append(loaded, [spec |-> spec, intr |-> intr, var |-> var])
<1>1. /\ phase = "load" /\ UNCHANGED <<settings, write_readback>>
      /\ \/ /\ ~address.ok /\ Load(0)
            /\ UNCHANGED <<variables, ads_read_vars, ads_write_vars>>
            /\ phase' \in {"load", "undefined"}
         \/ /\ address.ok /\ \E i \in Find(variable) : Load(i)
            /\ UNCHANGED <<variables, ads_read_vars, ads_write_vars, phase>>
         \/ /\ address.ok /\ Find(variable) = {} /\ Load(Len(variables) + 1)
            /\ CreateDeviceVariable(variable) /\ UNCHANGED phase
  BY DEF LoadRecord
<1>2. Conforming(spec) => address.ok /\ variable = Meaning(spec)
  BY ParseConforming
<1>3. address.ok => variable \in Variable
  BY ParsedAddress DEF Variable, FunctionNames
<1>4. variables \in Seq(Variable) /\ Len(variables) \in Nat
      /\ DOMAIN variables = 1 .. Len(variables)
  BY DEF IInv, TablesInv
<1>5. CASE ~address.ok
  <2>1. Load(0) /\ UNCHANGED <<variables, ads_read_vars, ads_write_vars>>
        /\ phase' \in {"load", "undefined"} /\ ~Conforming(spec)
    BY <1>1, <1>2, <1>5
  <2>2. QED
    BY <1>1, <1>4, <2>1, LoadKeepsVariables
<1>6. CASE address.ok /\ \E i \in Find(variable) : Load(i)
                      /\ UNCHANGED <<variables, ads_read_vars, ads_write_vars, phase>>
  <2>1. PICK i \in Find(variable) : Load(i)
    BY <1>6
  <2>2. i \in 1 .. Len(variables) /\ variables[i] = variable
    <3>1. /\ i \in 1 .. Len(variables) /\ variables[i] \in Variable
          /\ variables[i].function = variable.function
          /\ SameAddress(variables[i].address, variable.address)
      BY <1>4 DEF Find
    <3>2. variables[i].address = variable.address
      <4>1. variables[i].address \in Address /\ address.val \in Address
        BY <1>3, <1>6, <3>1 DEF Variable
      <4>2. SameAddress(variables[i].address, address.val)
        BY <3>1
      <4>3. \A a, b \in Address : SameAddress(a, b) => a = b
        BY DEF SameAddress, Address
      <4>4. QED
        BY <4>1, <4>2, <4>3
    <3>3. QED
      BY <1>3, <1>6, <3>1, <3>2 DEF Variable
  <2>3. Conforming(spec) => i # 0 /\ variables[i] = Meaning(spec)
    BY <1>2, <1>4, <2>2
  <2>4. i \in 0 .. Len(variables)
    BY <1>4, <2>2
  <2>5. QED
    BY <1>1, <1>6, <2>1, <2>3, <2>4, LoadKeepsVariables
<1>7. CASE /\ address.ok /\ Find(variable) = {} /\ Load(Len(variables) + 1)
           /\ CreateDeviceVariable(variable) /\ UNCHANGED phase
  <2>1. variable \in Variable /\ (Conforming(spec) => variable = Meaning(spec))
    BY <1>2, <1>3, <1>7
  <2> HIDE DEF variable, address
  <2>2. QED
    BY <1>1, <1>7, <2>1, LoadWithVariable
<1>8. QED
  BY <1>1, <1>5, <1>6, <1>7

-----------------------------------------------------------------------------
(* The end of iocInit.                                                     *)

\* A list, and another one without repetitions that shares nothing with it.
LEMMA OnceInBoth ==
  ASSUME NEW a \in Seq(Nat), NEW b \in Seq(Nat), NEW i \in Nat
  PROVE  /\ a \o b \in Seq(Nat)
         /\ \A k \in DOMAIN (a \o b) :
              \/ \E j \in DOMAIN a : (a \o b)[k] = a[j]
              \/ \E j \in DOMAIN b : (a \o b)[k] = b[j]
         /\ Once(i, a) /\ Never(i, b) => Once(i, a \o b)
         /\ Never(i, a) /\ Once(i, b) => Once(i, a \o b)
         /\ Never(i, a) /\ Never(i, b) => Never(i, a \o b)
<1> DEFINE c == a \o b
<1>1. /\ c \in Seq(Nat) /\ Len(c) = Len(a) + Len(b)
      /\ Len(a) \in Nat /\ Len(b) \in Nat
      /\ DOMAIN a = 1 .. Len(a) /\ DOMAIN b = 1 .. Len(b)
      /\ DOMAIN c = 1 .. Len(a) + Len(b)
  OBVIOUS
<1>2. /\ \A k \in 1 .. Len(a) : c[k] = a[k]
      /\ \A k \in Len(a) + 1 .. Len(a) + Len(b) : c[k] = b[k - Len(a)]
  OBVIOUS
<1> HIDE DEF c
<1>3. \A k \in DOMAIN c : \/ \E j \in DOMAIN a : c[k] = a[j]
                          \/ \E j \in DOMAIN b : c[k] = b[j]
  <2>1. ASSUME NEW k \in DOMAIN c, k > Len(a)
        PROVE  k - Len(a) \in DOMAIN b /\ c[k] = b[k - Len(a)]
    <3>1. k \in Len(a) + 1 .. Len(a) + Len(b)
      BY <1>1, <2>1
    <3>2. k - Len(a) \in 1 .. Len(b)
      BY <1>1, <3>1
    <3>3. QED
      BY <1>1, <1>2, <3>1, <3>2
  <2>2. ASSUME NEW k \in DOMAIN c, ~(k > Len(a))
        PROVE  k \in DOMAIN a /\ c[k] = a[k]
    BY <1>1, <1>2, <2>2
  <2>3. QED
    BY <2>1, <2>2
<1>4. ASSUME Once(i, a), Never(i, b) PROVE Once(i, c)
  <2>1. PICK k \in DOMAIN a : \A j \in DOMAIN a : a[j] = i <=> j = k
    BY <1>4 DEF Once
  <2>2. k \in DOMAIN c /\ k \in 1 .. Len(a)
    BY <1>1, <2>1
  <2>3. ASSUME NEW j \in DOMAIN c PROVE c[j] = i <=> j = k
    <3>1. CASE j \in 1 .. Len(a)
      BY <1>1, <1>2, <2>1, <3>1
    <3>2. CASE j \in Len(a) + 1 .. Len(a) + Len(b)
      <4>1. j - Len(a) \in 1 .. Len(b) /\ j # k
        <5>0. Len(a) \in Nat /\ Len(b) \in Nat
          BY <1>1
        <5>1. j - Len(a) \in 1 .. Len(b)
          BY <3>2, <5>0
        <5>2. Len(a) \in Int /\ j \in Int /\ j >= Len(a) + 1
          BY <3>2, <5>0
        <5>3. k \in Int /\ k <= Len(a)
          BY <1>1, <2>2
        <5>4. QED
          BY <5>1, <5>2, <5>3
      <4>2. c[j] = b[j - Len(a)]
        BY <1>2, <3>2
      <4>3. QED
        BY <1>1, <1>4, <4>1, <4>2 DEF Never
    <3>3. QED
      BY <1>1, <3>1, <3>2
  <2>4. QED
    BY <2>2, <2>3 DEF Once
<1>5. ASSUME Never(i, a), Once(i, b) PROVE Once(i, c)
  <2>1. PICK k \in DOMAIN b : \A j \in DOMAIN b : b[j] = i <=> j = k
    BY <1>5 DEF Once
  <2>2. ASSUME NEW j \in DOMAIN c PROVE c[j] = i <=> j = Len(a) + k
    <3>1. CASE j \in 1 .. Len(a)
      <4>1. c[j] = a[j] /\ j \in DOMAIN a /\ j # Len(a) + k
        BY <1>1, <1>2, <2>1, <3>1
      <4>2. QED
        BY <1>5, <4>1 DEF Never
    <3>2. CASE j \in Len(a) + 1 .. Len(a) + Len(b)
      <4>1. j - Len(a) \in DOMAIN b /\ c[j] = b[j - Len(a)]
        BY <1>1, <1>2, <3>2
      <4>2. j - Len(a) = k <=> j = Len(a) + k
        <5>1. j \in Int /\ k \in Int /\ Len(a) \in Int
          BY <1>1, <2>1, <3>2
        <5>2. QED
          BY <5>1
      <4>3. QED
        BY <2>1, <4>1, <4>2
    <3>3. QED
      BY <1>1, <3>1, <3>2
  <2>3. Len(a) + k \in DOMAIN c
    BY <1>1, <2>1
  <2>4. QED
    BY <2>2, <2>3 DEF Once
<1>6. ASSUME Never(i, a), Never(i, b) PROVE Never(i, c)
  BY <1>1, <1>3, <1>6 DEF Never
<1>7. QED
  BY <1>1, <1>3, <1>4, <1>5, <1>6 DEF c

LEMMA InitHookPreserves == ASSUME IInv, InitHook PROVE IInv'
<1>1. PICK n \in 0 .. Len(variables) :
        \E order \in Bijection(1 .. n, write_readback') :
          ads_read_vars' = ads_read_vars \o order
  BY DEF InitHook
<1>2. PICK order \in Bijection(1 .. n, write_readback') :
        ads_read_vars' = ads_read_vars \o order
  BY <1>1
<1>3. /\ write_readback' = {i \in DOMAIN variables : ReadBack(i)}
      /\ phase = "load" /\ phase' = "run"
      /\ UNCHANGED <<settings, variables, loaded, ads_write_vars>>
  BY DEF InitHook
<1>4. /\ variables \in Seq(Variable) /\ Len(variables) \in Nat
      /\ DOMAIN variables = 1 .. Len(variables) /\ n \in Nat
      /\ ads_read_vars \in Seq(Nat) /\ ads_write_vars \in Seq(Nat)
  BY DEF IInv, TablesInv
<1>5. /\ order \in [1 .. n -> write_readback']
      /\ \A j, k \in 1 .. n : order[j] = order[k] => j = k
      /\ \A i \in write_readback' : \E k \in 1 .. n : order[k] = i
  BY DEF Bijection, Injection, Surjection, IsInjective
<1>6. write_readback' \subseteq 1 .. Len(variables) /\ order \in Seq(Nat) /\ DOMAIN order = 1 .. n
  <2>1. write_readback' \subseteq 1 .. Len(variables)
    BY <1>3, <1>4
  <2>2. write_readback' \subseteq Nat
    BY <1>4, <2>1
  <2>3. order \in [1 .. n -> Nat]
    BY <1>5, <2>2
  <2>4. QED
    BY <1>4, <2>1, <2>3
<1>7. ASSUME NEW i \in 1 .. Len(variables)
      PROVE  IF i \in write_readback' THEN Once(i, order) ELSE Never(i, order)
  <2>1. CASE i \in write_readback'
    <3>1. PICK k \in 1 .. n : order[k] = i
      BY <1>5, <2>1
    <3>2. \A j \in 1 .. n : order[j] = i <=> j = k
      BY <1>5, <3>1
    <3>3. QED
      <4>1. k \in DOMAIN order /\ \A j \in DOMAIN order : order[j] = i <=> j = k
        BY <1>6, <3>1, <3>2
      <4>2. Once(i, order)
        BY <4>1 DEF Once
      <4>3. QED
        BY <2>1, <4>2
  <2>2. CASE i \notin write_readback'
    BY <1>5, <1>6, <2>2 DEF Never
  <2>3. QED
    BY <2>1, <2>2
<1>8. ASSUME NEW i \in 1 .. Len(variables)
      PROVE  LET back == Operation(i) = "W" /\ Interrupt(i)
             IN /\ IF Operation(i) = "R" \/ back THEN Once(i, ads_read_vars')
                                                 ELSE Never(i, ads_read_vars')
                /\ IF Operation(i) = "W" THEN Once(i, ads_write_vars')
                                         ELSE Never(i, ads_write_vars')
                /\ i \in write_readback' <=> back
  <2>1. Operation(i) \in {"R", "W"}
    <3>1. variables[i] \in Variable
      BY <1>4
    <3>2. QED
      BY <3>1 DEF Operation, Variable, Address
  <2>2. i \in write_readback' <=> Operation(i) = "W" /\ Interrupt(i)
    BY <1>3, <1>4 DEF ReadBack
  <2>3. IF Operation(i) = "R" THEN Once(i, ads_read_vars) /\ Never(i, ads_write_vars)
                              ELSE Once(i, ads_write_vars) /\ Never(i, ads_read_vars)
    BY <1>3, <1>4 DEF IInv, ListsInv
  <2>4. /\ Once(i, ads_read_vars) /\ Never(i, order) => Once(i, ads_read_vars')
        /\ Never(i, ads_read_vars) /\ Once(i, order) => Once(i, ads_read_vars')
        /\ Never(i, ads_read_vars) /\ Never(i, order) => Never(i, ads_read_vars')
    BY <1>2, <1>4, <1>6, OnceInBoth
  <2>5. IF i \in write_readback' THEN Once(i, order) ELSE Never(i, order)
    BY <1>7
  <2>6. QED
    BY <1>3, <2>1, <2>2, <2>3, <2>4, <2>5
<1>9. ListsMatchTheRecords'
  BY <1>3, <1>4, <1>8 DEF ListsMatchTheRecords, Operation, Interrupt
<1>10. TablesInv'
  <2>1. /\ ads_read_vars' \in Seq(Nat)
        /\ \A k \in DOMAIN ads_read_vars' :
             \/ \E j \in DOMAIN ads_read_vars : ads_read_vars'[k] = ads_read_vars[j]
             \/ \E j \in DOMAIN order : ads_read_vars'[k] = order[j]
    <3>1. 0 \in Nat /\ ads_read_vars \in Seq(Nat) /\ order \in Seq(Nat)
      BY <1>4, <1>6
    <3>2. QED
      BY <1>2, <3>1, OnceInBoth
  <2>2. \A j \in DOMAIN order : order[j] \in 1 .. Len(variables)
    BY <1>5, <1>6
  <2>3. \A k \in DOMAIN ads_read_vars' : ads_read_vars'[k] \in 1 .. Len(variables)
    BY <2>1, <2>2 DEF IInv, TablesInv
  <2>4. QED
    BY <1>3, <1>4, <1>6, <2>1, <2>3 DEF IInv, TablesInv
<1>11. SettingsInv' /\ RecordsGetWhatTheySay' /\ OneVariablePerAddress' /\ ListsInv'
  BY <1>3 DEF IInv, SettingsInv, RecordsGetWhatTheySay, OneVariablePerAddress, ListsInv
<1>12. QED
  BY <1>9, <1>10, <1>11 DEF IInv

LEMMA Preserved == ASSUME IInv, [Next]_vars PROVE IInv'
<1>1. CASE UNCHANGED vars
  BY <1>1 DEF vars, IInv, SettingsInv, TablesInv, ListsInv, RecordsGetWhatTheySay,
              OneVariablePerAddress, ListsMatchTheRecords, Operation, Interrupt, Once, Never
<1>2. CASE Next
  <2>1. Done => IInv'
    BY <1>1 DEF Done
  <2>2. QED
    BY <1>2, <2>1, AdsOpenPreserves, LoadRecordPreserves, InitHookPreserves DEF Next
<1>3. QED
  BY <1>1, <1>2

\* Settings, tables and lists, as above, in every reachable state.
THEOREM Invariance == Spec => []IInv
BY InitInvariant, Preserved, PTL DEF Spec

-----------------------------------------------------------------------------
\* For any records, in any order: one whose address follows the manual is bound to a
\* variable with the function and the address it says.
THEOREM RecordsAreBound == Spec => []RecordsGetWhatTheySay
<1>1. IInv => RecordsGetWhatTheySay
  BY DEF IInv
<1>2. QED
  BY <1>1, Invariance, PTL

\* No two variables have the same function and address.
THEOREM VariablesAreShared == Spec => []OneVariablePerAddress
<1>1. IInv => OneVariablePerAddress
  BY DEF IInv
<1>2. QED
  BY <1>1, Invariance, PTL

\* After initHook, whatever the order of the interrupt variables, the lists hold each
\* variable as often as they should.
THEOREM ListsAreRight == Spec => []ListsMatchTheRecords
<1>1. IInv => ListsMatchTheRecords
  BY DEF IInv
<1>2. QED
  BY <1>1, Invariance, PTL

-----------------------------------------------------------------------------
(* The settings.                                                           *)

\* Half of an even number.
LEMMA Half == Wide \div 2 \in Nat /\ 2 * (Wide \div 2) = Wide
BY WidthsAssumption

\* The positive numbers that strtol returns and an int holds.
Ints == (1 .. Wide \div 2 - 1) \cap Long

\* An argument is an int, and the number that was given if it is a positive int.
LEMMA SettingIsInt ==
  ASSUME NEW command \in Commands, Accepted(command), NEW i \in 4 .. 7,
         NEW default \in Int
  PROVE  /\ Setting(command, i, default) \in Int
         /\ i > Len(command) => Setting(command, i, default) = default
         /\ i <= Len(command) =>
              /\ command[i].kind = "number" /\ command[i].n \in Ints
                   => Setting(command, i, default) = command[i].n
              /\ command[i].kind = "number" /\ Setting(command, i, default) >= 1
<1>1. Len(command) \in 2 .. 7
  BY DEF Accepted
<1>2. CASE i > Len(command)
  BY <1>1, <1>2 DEF Setting
<1>3. CASE i <= Len(command)
  <2>1. Setting(command, i, default) = ToInt(Strtol(command[i]))
    BY <1>1, <1>3 DEF Setting
  <2>2. Setting(command, i, 1) = ToInt(Strtol(command[i])) /\ Setting(command, i, 1) >= 1
    <3>1. i \in 4 .. Len(command)
      BY <1>1, <1>3
    <3>2. QED
      BY <1>1, <1>3, <3>1 DEF Accepted, Setting
  <2>3. command[i].kind = "number" => command[i].n \in Int
    BY <1>1, <1>3, CommandsAssumption
  <2>4. Strtol(command[i]) \in Int
    BY <2>3, WidthsAssumption DEF Strtol
  <2>5. ASSUME NEW m \in Int PROVE ToInt(m) \in Int
    <3>1. (m + Wide \div 2) % Wide \in Int
      BY Half, WidthsAssumption
    <3>2. QED
      BY <3>1, Half DEF ToInt
  <2>6. ASSUME NEW m \in 1 .. Wide \div 2 - 1 PROVE ToInt(m) = m
    <3>1. m + Wide \div 2 \in 0 .. Wide - 1
      BY Half, WidthsAssumption
    <3>2. (m + Wide \div 2) % Wide = m + Wide \div 2
      BY <3>1, WidthsAssumption
    <3>3. QED
      BY <3>2, Half DEF ToInt
  <2>7. command[i].kind = "number" /\ command[i].n \in Ints
          => Strtol(command[i]) = command[i].n /\ ToInt(command[i].n) = command[i].n
    BY <2>6, WidthsAssumption DEF Strtol, Long, Ints
  <2>8. QED
    <3>1. Setting(command, i, default) \in Int /\ Setting(command, i, default) >= 1
      BY <2>1, <2>2, <2>4, <2>5
    <3>2. command[i].kind = "number" /\ command[i].n \in Ints
            => Setting(command, i, default) = command[i].n
      BY <2>1, <2>7
    <3>3. ~(i > Len(command))
      BY <1>1, <1>3
    <3>4. command[i].kind = "number"
      <4>1. ToInt(0) = 0
        BY Half, WidthsAssumption DEF ToInt
      <4>2. command[i].kind # "number" => Strtol(command[i]) = 0
        BY DEF Strtol
      <4>3. QED
        BY <2>2, <4>1, <4>2
    <3>5. QED
      BY <3>1, <3>2, <3>3, <3>4
<1>4. QED
  BY <1>1, <1>2, <1>3

\* What is stored is in range, and what was asked for where that fits.
LEMMA SettingsOfCommand ==
  ASSUME NEW command \in Commands, Accepted(command)
  PROVE  LET s == Settings(command)
             As(i, value) ==
               i <= Len(command) =>
                 /\ command[i].kind = "number"
                 /\ command[i].n \in Fitting(i) => value = command[i].n
             Without(i, value, default) == i > Len(command) => value = default
         IN /\ s.sum \in 0 .. Short - 1 /\ s.timeout \in 0 .. Wide - 1
            /\ s.port \in 0 .. Short - 1 /\ s.period \in Int /\ s.period >= 1
            /\ As(4, s.sum) /\ Without(4, s.sum, Default.sum)
            /\ As(5, s.timeout)
            /\ As(6, s.port) /\ Without(6, s.port, Default.port)
            /\ As(7, s.period) /\ Without(7, s.period, Default.period)
<1> DEFINE sum     == Setting(command, 4, Default.sum)
           timeout == Setting(command, 5, Default.timeout)
           port    == Setting(command, 6, Default.port)
           period  == Setting(command, 7, Default.period)
           Small(i) == command[i].kind = "number" /\ command[i].n \in Ints
           Fits(i)  == command[i].kind = "number" /\ command[i].n \in Fitting(i)
<1>1. /\ Default.sum \in Int /\ Default.port \in Int /\ Default.timeout \in Int
      /\ Default.period \in Int /\ Default.period >= 1
      /\ Default.sum % Short = Default.sum /\ Default.port % Short = Default.port
  BY DefaultAssumption, WidthsAssumption
<1>2. Len(command) \in 2 .. 7
  BY DEF Accepted
<1>3. /\ Settings(command).sum = sum % Short /\ Settings(command).port = port % Short
      /\ Settings(command).timeout = timeout % Wide /\ Settings(command).period = period
  BY DEF Settings
<1>4. /\ sum \in Int
      /\ 4 > Len(command) => sum = Default.sum
      /\ 4 <= Len(command) => /\ Small(4) => sum = command[4].n
                              /\ command[4].kind = "number" /\ sum >= 1
  <2>1. 4 \in 4 .. 7 /\ Default.sum \in Int
    BY <1>1
  <2>2. QED
    BY <2>1, SettingIsInt
<1>5. /\ timeout \in Int
      /\ 5 > Len(command) => timeout = Default.timeout
      /\ 5 <= Len(command) => /\ Small(5) => timeout = command[5].n
                              /\ command[5].kind = "number" /\ timeout >= 1
  <2>1. 5 \in 4 .. 7 /\ Default.timeout \in Int
    BY <1>1
  <2>2. QED
    BY <2>1, SettingIsInt
<1>6. /\ port \in Int
      /\ 6 > Len(command) => port = Default.port
      /\ 6 <= Len(command) => /\ Small(6) => port = command[6].n
                              /\ command[6].kind = "number" /\ port >= 1
  <2>1. 6 \in 4 .. 7 /\ Default.port \in Int
    BY <1>1
  <2>2. QED
    BY <2>1, SettingIsInt
<1>7. /\ period \in Int
      /\ 7 > Len(command) => period = Default.period
      /\ 7 <= Len(command) => /\ Small(7) => period = command[7].n
                              /\ command[7].kind = "number" /\ period >= 1
  <2>1. 7 \in 4 .. 7 /\ Default.period \in Int
    BY <1>1
  <2>2. QED
    BY <2>1, SettingIsInt
<1> HIDE DEF sum, timeout, port, period
<1>8. /\ sum % Short \in 0 .. Short - 1 /\ port % Short \in 0 .. Short - 1
      /\ timeout % Wide \in 0 .. Wide - 1 /\ period >= 1
  <2>1. ASSUME NEW m \in Int PROVE m % Short \in 0 .. Short - 1 /\ m % Wide \in 0 .. Wide - 1
    BY WidthsAssumption
  <2>2. period >= 1
    <3>1. CASE 7 > Len(command)
      BY <1>1, <1>7, <3>1
    <3>2. CASE 7 <= Len(command)
      BY <1>7, <3>2
    <3>3. QED
      BY <1>2, <3>1, <3>2
  <2>3. QED
    BY <1>4, <1>5, <1>6, <2>1, <2>2
<1>9. /\ \A i \in 4 .. 7 : Fits(i) => Small(i)
      /\ \A i \in {4, 6} : Fits(i) => command[i].n % Short = command[i].n
      /\ Small(5) => command[5].n % Wide = command[5].n
  BY Half, WidthsAssumption DEF Fitting, Ints
<1>10. /\ 4 <= Len(command) /\ Fits(4) => sum % Short = command[4].n
       /\ 5 <= Len(command) /\ Fits(5) => timeout % Wide = command[5].n
       /\ 6 <= Len(command) /\ Fits(6) => port % Short = command[6].n
       /\ 7 <= Len(command) /\ Fits(7) => period = command[7].n
  BY <1>4, <1>5, <1>6, <1>7, <1>9
<1>11. QED
  <2> DEFINE As(i, value) ==
               i <= Len(command) =>
                 /\ command[i].kind = "number"
                 /\ command[i].n \in Fitting(i) => value = command[i].n
             Without(i, value, default) == i > Len(command) => value = default
  <2>1. As(4, sum % Short) /\ Without(4, sum % Short, Default.sum)
    BY <1>1, <1>2, <1>4, <1>10
  <2>2. As(6, port % Short) /\ Without(6, port % Short, Default.port)
    BY <1>1, <1>2, <1>6, <1>10
  <2>3. As(5, timeout % Wide)
    BY <1>2, <1>5, <1>10
  <2>4. As(7, period) /\ Without(7, period, Default.period)
    BY <1>1, <1>2, <1>7, <1>10
  <2>5. QED
    BY <1>3, <1>7, <1>8, <2>1, <2>2, <2>3, <2>4

\* The state has the types of Configuration.
THEOREM TypeCorrect == Spec => []TypeOK
<1>1. IInv => TypeOK
  <2> SUFFICES ASSUME IInv PROVE TypeOK
    OBVIOUS
  <2>1. settings = NoDriver \/ /\ settings.sum \in 0 .. Short - 1
                               /\ settings.timeout \in 0 .. Wide - 1
                               /\ settings.port \in 0 .. Short - 1
                               /\ settings.period >= 1
    BY SettingsOfCommand DEF IInv, SettingsInv
  <2>2. ASSUME NEW i \in DOMAIN variables
        PROVE  LET a == variables[i].address
               IN /\ a.type \in Types /\ a.operation \in {"R", "W"}
                  /\ a.nelem \in 1 .. Wide - 1 /\ a.port \in 0 .. Short - 1
                  /\ a.name # Nothing
    <3>1. variables[i] \in Variable
      BY <2>2 DEF IInv, TablesInv
    <3>2. QED
      BY <3>1 DEF Variable, Address, Names
  <2>3. DOMAIN variables = 1 .. Len(variables)
    BY DEF IInv, TablesInv
  <2>4. QED
    BY <2>1, <2>2, <2>3 DEF TypeOK, IInv, SettingsInv, TablesInv
<1>2. QED
  BY <1>1, Invariance, PTL

\* A driver gets the settings of its command where they fit their types, and the defaults
\* of the code where there is no size of a sum-read, port or period.
THEOREM SettingsAreKept == Spec => []SettingsAsAsked
<1>1. IInv => SettingsAsAsked
  <2> SUFFICES ASSUME IInv, phase \in {"load", "run"} PROVE SettingsAsAsked
    BY DEF SettingsAsAsked
  <2>1. /\ settings.command \in Commands /\ Accepted(settings.command)
        /\ settings = Settings(settings.command) /\ settings.sum # 0
    BY DEF IInv, SettingsInv
  <2> DEFINE command == settings.command
             As(i, value) ==
               i <= Len(command) =>
                 /\ command[i].kind = "number"
                 /\ command[i].n \in Fitting(i) => value = command[i].n
             Without(i, value, default) == i > Len(command) => value = default
  <2>2. /\ settings.sum \in 0 .. Short - 1
        /\ As(4, settings.sum) /\ Without(4, settings.sum, Default.sum)
        /\ As(5, settings.timeout)
        /\ As(6, settings.port) /\ Without(6, settings.port, Default.port)
        /\ As(7, settings.period) /\ Without(7, settings.period, Default.period)
    BY <2>1, SettingsOfCommand
  <2>3. settings.sum >= 1
    BY <2>1, <2>2, WidthsAssumption
  <2>4. QED
    BY <2>2, <2>3 DEF SettingsAsAsked
<1>2. QED
  BY <1>1, Invariance, PTL

=============================================================================
