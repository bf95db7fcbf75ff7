---------------------------- MODULE ValuesProofs ----------------------------
(***************************************************************************)
(* For any number of values of a byte: what the handlers make of the bytes  *)
(* of a variable, and how a record that is polled, one with SCAN=I/O Intr    *)
(* and one that writes relate.  Number and Low are arithmetic modulo powers  *)
(* of Byte, which come first.                                               *)
(***************************************************************************)
EXTENDS Values, TLAPS, WellFoundedInduction

\* A set of natural numbers that has an element has a least one.
LEMMA LeastElement ==
  ASSUME NEW T, T \subseteq Nat, T # {}
  PROVE  \E m \in T : \A k \in T : m <= k
<1> DEFINE R == OpToRel(<, Nat)
<1>1. IsWellFoundedOn(R, Nat)
  BY NatLessThanWellFounded
<1>2. \A x, y \in Nat : x < y => <<x, y>> \in R
  BY DEF OpToRel
<1> HIDE DEF R
<1>3. PICK m \in T : \A k \in T : <<k, m>> \notin R
  BY <1>1, WFMin
<1>4. \A k \in T : ~(k < m)
  BY <1>2, <1>3
<1>5. \A k \in T : m <= k
  BY <1>4
<1>6. QED
  BY <1>5

\* Induction over the elements of a set.
LEMMA SetInduction ==
  ASSUME NEW S, 0 \in S, \A n \in Nat : n \in S => n + 1 \in S
  PROVE  Nat \subseteq S
<1> SUFFICES ASSUME Nat \ S # {} PROVE FALSE
  OBVIOUS
<1>1. PICK m \in Nat \ S : \A k \in Nat \ S : m <= k
  BY LeastElement
<1>2. m # 0 /\ m - 1 \in Nat
  BY <1>1
<1>3. m - 1 \in S
  BY <1>1, <1>2
<1>4. QED
  BY <1>1, <1>2, <1>3

-----------------------------------------------------------------------------
\* f is Power up to n.
IsPart(f, n) == /\ f \in [0 .. n -> Nat] /\ f[0] = 1
                /\ \A i \in 0 .. n : i # 0 => f[i] = Byte * f[i - 1]

\* There is at most one such f,
LEMMA PartsAgree ==
  ASSUME NEW m \in Nat, NEW n \in Nat, NEW f, IsPart(f, m), NEW g, IsPart(g, n)
  PROVE  \A i \in Nat : i <= m /\ i <= n => f[i] = g[i]
<1> DEFINE S == {i \in Nat : i <= m /\ i <= n => f[i] = g[i]}
<1>1. 0 \in S
  BY DEF IsPart
<1>2. ASSUME NEW i \in Nat, i \in S PROVE i + 1 \in S
  <2>1. SUFFICES ASSUME i + 1 <= m, i + 1 <= n PROVE f[i + 1] = g[i + 1]
    OBVIOUS
  <2>2. i + 1 \in 0 .. m /\ i + 1 \in 0 .. n /\ i + 1 # 0 /\ (i + 1) - 1 = i
    BY <2>1
  <2>3. f[i + 1] = Byte * f[i] /\ g[i + 1] = Byte * g[i]
    BY <2>2 DEF IsPart
  <2>4. f[i] = g[i]
    BY <1>2, <2>1
  <2>5. QED
    BY <2>3, <2>4
<1> HIDE DEF S
<1>3. Nat \subseteq S
  BY <1>1, <1>2, SetInduction
<1>4. QED
  BY <1>3 DEF S

\* there is one for every n,
LEMMA PartsExist ==
  \A n \in Nat : \E f : IsPart(f, n)
<1> DEFINE S == {n \in Nat : \E f : IsPart(f, n)}
<1>1. 0 \in S
  <2>1. IsPart([i \in 0 .. 0 |-> 1], 0)
    BY DEF IsPart
  <2>2. QED
    BY <2>1
<1>2. ASSUME NEW n \in Nat, n \in S PROVE n + 1 \in S
  <2>1. PICK f : IsPart(f, n)
    BY <1>2
  <2> DEFINE g == [i \in 0 .. n + 1 |-> IF i = n + 1 THEN Byte * f[n] ELSE f[i]]
  <2>2. \A i \in 0 .. n : g[i] = f[i] /\ i # n + 1
    OBVIOUS
  <2>3. f[n] \in Nat /\ Byte * f[n] \in Nat
    BY <2>1, ByteAssumption DEF IsPart
  <2>4. g \in [0 .. n + 1 -> Nat] /\ g[0] = 1
    BY <2>1, <2>3, ByteAssumption DEF IsPart
  <2>5. \A i \in 0 .. n + 1 : i # 0 => g[i] = Byte * g[i - 1]
    <3> SUFFICES ASSUME NEW i \in 0 .. n + 1, i # 0 PROVE g[i] = Byte * g[i - 1]
      OBVIOUS
    <3>0. i - 1 \in 0 .. n /\ (n + 1) - 1 = n
      OBVIOUS
    <3>1. g[i - 1] = f[i - 1]
      BY <2>2, <3>0
    <3>2. CASE i = n + 1
      BY <3>0, <3>1, <3>2
    <3>3. CASE i \in 0 .. n
      BY <3>1, <3>3, <2>1, <2>2 DEF IsPart
    <3>4. QED
      BY <3>2, <3>3
  <2>6. IsPart(g, n + 1)
    BY <2>4, <2>5 DEF IsPart
  <2>7. QED
    BY <2>6
<1> HIDE DEF S
<1>3. Nat \subseteq S
  BY <1>1, <1>2, SetInduction
<1>4. QED
  BY <1>3 DEF S

\* and together they are a function.
LEMMA PowerExists ==
  \E f : f = [n \in Nat |-> IF n = 0 THEN 1 ELSE Byte * f[n - 1]]
<1> DEFINE part(n) == CHOOSE f : IsPart(f, n)
           F == [n \in Nat |-> part(n)[n]]
<1>1. \A n \in Nat : IsPart(part(n), n)
  BY PartsExist
<1> HIDE DEF part
<1>2. ASSUME NEW n \in Nat
      PROVE  F[n] = IF n = 0 THEN 1 ELSE Byte * F[n - 1]
  <2>1. CASE n = 0
    BY <1>1, <2>1 DEF IsPart
  <2>2. CASE n # 0
    <3>1. n - 1 \in Nat /\ n - 1 <= n
      BY <2>2
    <3>2. part(n)[n] = Byte * part(n)[n - 1]
      BY <1>1, <2>2 DEF IsPart
    <3>3. part(n)[n - 1] = part(n - 1)[n - 1]
      BY <1>1, <3>1, PartsAgree
    <3>4. QED
      BY <2>2, <3>1, <3>2, <3>3
  <2>3. QED
    BY <2>1, <2>2
<1>3. F = [n \in Nat |-> F[n]]
  OBVIOUS
<1> HIDE DEF F
<1>4. F = [n \in Nat |-> IF n = 0 THEN 1 ELSE Byte * F[n - 1]]
  BY <1>2, <1>3
<1>5. QED
  BY <1>4

\* The equation Power is defined by.
LEMMA PowerIs ==
  ASSUME NEW n \in Nat
  PROVE  Power[n] = IF n = 0 THEN 1 ELSE Byte * Power[n - 1]
<1>1. Power = [i \in Nat |-> IF i = 0 THEN 1 ELSE Byte * Power[i - 1]]
  BY PowerExists, ZenonT(30) DEF Power
<1>2. QED
  BY <1>1

\* Power is positive,
LEMMA PowerPositive ==
  \A n \in Nat : Power[n] \in Nat /\ Power[n] > 0
<1> DEFINE S == {n \in Nat : Power[n] \in Nat /\ Power[n] > 0}
<1>1. 0 \in S
  BY PowerIs
<1>2. ASSUME NEW n \in Nat, n \in S PROVE n + 1 \in S
  <2>1. Power[n + 1] = Byte * Power[n]
    BY PowerIs
  <2>2. QED
    BY <1>2, <2>1, ByteAssumption
<1> HIDE DEF S
<1>3. Nat \subseteq S
  BY <1>1, <1>2, SetInduction
<1>4. QED
  BY <1>3 DEF S

\* and the bytes of two parts together have all pairs of values.
LEMMA PowerTimes ==
  ASSUME NEW m \in Nat
  PROVE \A n \in Nat : Power[m + n] = Power[m] * Power[n]
<1> DEFINE S == {n \in Nat : Power[m + n] = Power[m] * Power[n]}
<1>1. 0 \in S
  BY PowerIs, PowerPositive
<1>2. ASSUME NEW n \in Nat, n \in S PROVE n + 1 \in S
  <2>1. Power[n + 1] = Byte * Power[n] /\ Power[m + (n + 1)] = Byte * Power[m + n]
    BY PowerIs
  <2>2. Power[m] \in Nat /\ Power[n] \in Nat /\ Byte \in Nat
    BY PowerPositive, ByteAssumption
  <2>3. \A a, b, c \in Nat : a * (b * c) = b * (a * c)
    OBVIOUS
  <2>4. Power[m + (n + 1)] = Power[m] * Power[n + 1]
    BY <1>2, <2>1, <2>2, <2>3
  <2>5. QED
    BY <2>4
<1> HIDE DEF S
<1>3. Nat \subseteq S
  BY <1>1, <1>2, SetInduction
<1>4. QED
  BY <1>3 DEF S

\* Powers grow with the bytes, and each is at least twice the one before.
LEMMA PowerGrows ==
  ASSUME NEW m \in Nat, NEW n \in Nat, m < n
  PROVE  2 * Power[m] <= Power[n]
<1>1. n - 1 \in Nat /\ (n - 1) - m \in Nat /\ m + ((n - 1) - m) = n - 1
  OBVIOUS
<1>2. Power[n - 1] = Power[m] * Power[(n - 1) - m]
  BY <1>1, PowerTimes
<1>3. Power[n] = Byte * Power[n - 1]
  BY <1>1, PowerIs
<1>4. /\ Power[m] \in Nat /\ Power[n - 1] \in Nat
      /\ Power[(n - 1) - m] \in Nat /\ Power[(n - 1) - m] >= 1
  BY <1>1, PowerPositive
<1>5. \A a, b \in Nat : b >= 1 => a <= a * b
  OBVIOUS
<1>6. Power[m] <= Power[n - 1]
  BY <1>2, <1>4, <1>5
<1>7. \A a, b \in Nat : a >= 2 => 2 * b <= a * b
  OBVIOUS
<1>8. 2 * Power[n - 1] <= Power[n]
  BY <1>3, <1>4, <1>7, ByteAssumption
<1>9. QED
  BY <1>4, <1>6, <1>8, PowerPositive

-----------------------------------------------------------------------------
\* A remainder differs from the number by a multiple of the modulus,
LEMMA ModIs ==
  ASSUME NEW a \in Int, NEW m \in Nat, m > 0
  PROVE  \E q \in Int : a % m = a + m * q
<1>1. PICK p \in Int : a % m = a - p * m
  OBVIOUS
<1>2. -p \in Int /\ a - p * m = a + m * (-p)
  OBVIOUS
<1>3. QED
  BY <1>1, <1>2

\* and does not change with a multiple of the modulus.
LEMMA ModShift ==
  ASSUME NEW a \in Int, NEW m \in Nat, m > 0, NEW q \in Int
  PROVE  (a + m * q) % m = a % m
<1>1. PICK r \in 0 .. m - 1 : r = a % m
  OBVIOUS
<1>2. PICK p \in Int : r = a + m * p
  BY <1>1, ModIs
<1>3. m * (q - p) = m * q - m * p /\ m * q \in Int /\ m * p \in Int
  OBVIOUS
<1>4. a + m * q = m * (q - p) + r
  BY <1>2, <1>3
<1>5. \A k \in Int : (m * k + r) % m = r
  OBVIOUS
<1>6. QED
  BY <1>1, <1>4, <1>5

\* The low bytes of a number are a number of that many bytes,
LEMMA LowBounds ==
  ASSUME NEW x \in Int, NEW n \in Nat
  PROVE  Low(x, n) \in Nat /\ Low(x, n) < Power[n]
<1>1. Power[n] \in Nat /\ Power[n] > 0
  BY PowerPositive
<1>2. \A m \in Nat : m > 0 => x % m \in Nat /\ x % m < m
  OBVIOUS
<1>3. QED
  BY <1>1, <1>2 DEF Low

\* and all of it if it has no more.
LEMMA LowKeeps ==
  ASSUME NEW n \in Nat, NEW x \in Nat, x < Power[n]
  PROVE  Low(x, n) = x
<1>1. Power[n] \in Nat /\ Power[n] > 0
  BY PowerPositive
<1>2. \A m \in Nat : m > 0 /\ x < m => x % m = x
  OBVIOUS
<1>3. QED
  BY <1>1, <1>2 DEF Low

\* A number of no bytes is 0.
LEMMA LowOfNone ==
  ASSUME NEW x \in Int
  PROVE  Low(x, 0) = 0
<1>1. Power[0] = 1
  BY PowerIs
<1>2. Low(x, 0) \in Nat /\ Low(x, 0) < 1
  BY <1>1, LowBounds
<1>3. QED
  BY <1>2

\* What lies beyond the low bytes does not matter to them.
LEMMA LowOfSum ==
  ASSUME NEW x \in Int, NEW n \in Nat, NEW m \in Nat, n <= m, NEW q \in Int
  PROVE  Low(x + Power[m] * q, n) = Low(x, n)
<1>1. m - n \in Nat /\ n + (m - n) = m
  OBVIOUS
<1>2. Power[m] = Power[n] * Power[m - n]
  BY <1>1, PowerTimes
<1>3. Power[n] \in Nat /\ Power[n] > 0 /\ Power[m - n] \in Nat
  BY <1>1, PowerPositive
<1>4. \A a, b \in Nat : (a * b) * q = a * (b * q) /\ b * q \in Int
  OBVIOUS
<1>5. Power[m] * q = Power[n] * (Power[m - n] * q) /\ Power[m - n] * q \in Int
  BY <1>2, <1>3, <1>4
<1>6. (x + Power[n] * (Power[m - n] * q)) % Power[n] = x % Power[n]
  BY <1>3, <1>5, ModShift
<1>7. QED
  BY <1>5, <1>6 DEF Low

\* The low bytes of the low bytes.
LEMMA LowOfLow ==
  ASSUME NEW x \in Int, NEW n \in Nat, NEW m \in Nat, n <= m
  PROVE  Low(Low(x, m), n) = Low(x, n)
<1>1. Power[m] \in Nat /\ Power[m] > 0
  BY PowerPositive
<1>2. PICK q \in Int : Low(x, m) = x + Power[m] * q
  BY <1>1, ModIs DEF Low
<1>3. QED
  BY <1>2, LowOfSum

-----------------------------------------------------------------------------
\* A type of C with at least one byte.
CType == [size : Nat, signed : BOOLEAN]

\* The numbers of a type.
Holds(c, x) == /\ x \in Int
               /\ IF c.signed THEN -Power[c.size] <= 2 * x /\ 2 * x < Power[c.size]
                              ELSE 0 <= x /\ x < Power[c.size]

\* What a type makes of its bytes is a number of the type, with these low bytes.
LEMMA NumberIs ==
  ASSUME NEW c \in CType, NEW x \in Nat, x < Power[c.size]
  PROVE  /\ Holds(c, Number(c, x))
         /\ \A n \in 0 .. c.size : Low(Number(c, x), n) = Low(x, n)
<1>1. c.size \in Nat /\ c.signed \in BOOLEAN
  BY DEF CType
<1>2. Power[c.size] \in Nat
  BY <1>1, PowerPositive
<1>3. CASE c.signed /\ 2 * x >= Power[c.size]
  <2>1. Number(c, x) = x - Power[c.size]
    BY <1>3 DEF Number
  <2>2. x - Power[c.size] = x + Power[c.size] * (-1)
    BY <1>2
  <2>3. \A n \in 0 .. c.size : Low(Number(c, x), n) = Low(x, n)
    BY <1>1, <2>1, <2>2, LowOfSum
  <2>4. Holds(c, Number(c, x))
    BY <1>2, <1>3, <2>1 DEF Holds
  <2>5. QED
    BY <2>3, <2>4
<1>4. CASE ~(c.signed /\ 2 * x >= Power[c.size])
  <2>1. Number(c, x) = x
    BY <1>4 DEF Number
  <2>2. QED
    BY <1>2, <1>4, <2>1 DEF Holds
<1>5. QED
  BY <1>3, <1>4

\* The bytes of a number of a type stand for this number.
LEMMA NumberOfBytes ==
  ASSUME NEW c \in CType, NEW x, Holds(c, x)
  PROVE  Number(c, Low(x, c.size)) = x
<1>1. c.size \in Nat /\ c.signed \in BOOLEAN /\ x \in Int
  BY DEF CType, Holds
<1>2. Power[c.size] \in Nat /\ Power[c.size] > 0
  BY <1>1, PowerPositive
<1>3. CASE x >= 0
  <2>1. x < Power[c.size]
    BY <1>1, <1>2, <1>3 DEF Holds
  <2>2. Low(x, c.size) = x
    BY <1>1, <1>3, <2>1, LowKeeps
  <2>3. QED
    BY <1>1, <1>2, <2>2 DEF Holds, Number
<1>4. CASE x < 0
  <2>1. c.signed /\ -Power[c.size] <= 2 * x
    BY <1>1, <1>4 DEF Holds
  <2>2. x + Power[c.size] \in Nat /\ x + Power[c.size] < Power[c.size]
    BY <1>1, <1>2, <1>4, <2>1
  <2>3. Low(x + Power[c.size] * 1, c.size) = Low(x, c.size)
    BY <1>1, LowOfSum
  <2>4. Low(x, c.size) = x + Power[c.size]
    BY <1>1, <1>2, <2>2, <2>3, LowKeeps
  <2>5. 2 * (x + Power[c.size]) >= Power[c.size]
    BY <1>1, <1>2, <2>1
  <2>6. QED
    BY <1>1, <1>2, <2>1, <2>4, <2>5 DEF Number
<1>5. QED
  BY <1>1, <1>3, <1>4

-----------------------------------------------------------------------------
\* The handlers' types have the size of the variable, and the type of the record
\* has at least its bytes.
LEMMA HandledIs ==
  ASSUME NEW t \in IntegerTypes
  PROVE  /\ Handled(t) \in CType /\ Handled(t).size = Size[t]
         /\ Epics(t) \in CType /\ Epics(t).signed
         /\ \/ Handled(t).size < Epics(t).size
            \/ Handled(t).signed /\ Handled(t).size = Epics(t).size
  BY DEF Handled, Epics, Size, CType, Signed, Unsigned,
         IntegerTypes, OneByte, TwoBytes, FourBytes

LEMMA PublishedIs ==
  ASSUME NEW t \in IntegerTypes
  PROVE  IF t \in {"DWORD", "UDINT"}
           THEN /\ Published(t) \in CType /\ Published(t).size = 8
                /\ Handled(t).size = 4 /\ Epics(t).size = 8 /\ Size[t] = 4
           ELSE Published(t) = Handled(t)
  BY DEF Handled, Published, Epics, Size, CType, Signed, Unsigned,
         IntegerTypes, OneByte, TwoBytes, FourBytes

LEMMA DigitalIs ==
  ASSUME NEW t \in {"BOOL", "BYTE", "USINT", "WORD", "UINT", "DWORD", "UDINT"}
  PROVE  /\ t \in IntegerTypes
         /\ Digital(t) \in CType /\ Digital(t).size = Size[t] /\ ~Digital(t).signed
         /\ Digital(t).size <= (IF t \in {"DWORD", "UDINT"} THEN 4 ELSE 2)
         /\ t \in {"DWORD", "UDINT"} => Digital(t).size = 4
  BY DEF Digital, Size, CType, Unsigned,
         IntegerTypes, OneByte, TwoBytes, FourBytes

-----------------------------------------------------------------------------
\* The local variable of a handler holds a number of its bytes, and in the bytes
\* the variable has, this is the variable.
LEMMA LocalIs ==
  ASSUME NEW c \in CType, NEW content \in Int, NEW bytes \in Nat, NEW junk \in Int
  PROVE  /\ LocalBytes(c, content, bytes, junk) \in Nat
         /\ LocalBytes(c, content, bytes, junk) < Power[c.size]
         /\ \A n \in Nat : n <= bytes /\ n <= c.size =>
              Low(LocalBytes(c, content, bytes, junk), n) = Low(content, n)
<1> DEFINE k == IF bytes < c.size THEN bytes ELSE c.size
           x == Low(content, k)
           y == Low(junk, c.size - k)
<1>1. c.size \in Nat /\ k \in Nat /\ c.size - k \in Nat /\ k + (c.size - k) = c.size
      /\ k <= bytes /\ k <= c.size
  BY DEF CType
<1>2. \A n \in Nat : n <= bytes /\ n <= c.size => n <= k
  BY <1>1
<1>3. LocalBytes(c, content, bytes, junk) = x + Power[k] * y
  BY DEF LocalBytes
<1> HIDE DEF k
<1>4. x \in Nat /\ x < Power[k] /\ y \in Nat /\ y < Power[c.size - k]
  BY <1>1, LowBounds
<1>5. Power[c.size] = Power[k] * Power[c.size - k]
  BY <1>1, PowerTimes
<1>6. Power[k] \in Nat /\ Power[k] > 0 /\ Power[c.size - k] \in Nat
  BY <1>1, PowerPositive
<1>7. \A n \in Nat : n <= k => Low(x + Power[k] * y, n) = Low(content, n)
  BY <1>1, <1>4, LowOfSum, LowOfLow
<1> HIDE DEF x, y
<1>8. \A p, q \in Nat : \A a, b \in Nat : a < p /\ b < q => a + p * b \in Nat /\ a + p * b < p * q
  <2> SUFFICES ASSUME NEW p \in Nat, NEW q \in Nat, NEW a \in Nat, NEW b \in Nat, a < p, b < q
               PROVE  a + p * b \in Nat /\ a + p * b < p * q
    OBVIOUS
  <2>1. p * (b + 1) <= p * q
    OBVIOUS
  <2>2. p * (b + 1) = p * b + p /\ p * b \in Nat /\ p * q \in Nat
    OBVIOUS
  <2>3. QED
    BY <2>1, <2>2
<1>9. x + Power[k] * y \in Nat /\ x + Power[k] * y < Power[c.size]
  BY <1>4, <1>5, <1>6, <1>8
<1>10. QED
  BY <1>2, <1>3, <1>7, <1>9

\* Where the variable has all the bytes of the type, no junk is left.
LEMMA LocalIsExact ==
  ASSUME NEW c \in CType, NEW content \in Int, NEW bytes \in Nat, NEW junk \in Int,
         c.size <= bytes
  PROVE  LocalBytes(c, content, bytes, junk) = Low(content, c.size)
<1>1. c.size \in Nat
  BY DEF CType
<1>2. \A n \in Nat : n <= bytes /\ n <= c.size =>
        Low(LocalBytes(c, content, bytes, junk), n) = Low(content, n)
  BY LocalIs
<1>3. Low(LocalBytes(c, content, bytes, junk), c.size) = Low(content, c.size)
  BY <1>1, <1>2
<1>4. QED
  BY <1>1, <1>3, LocalIs, LowKeeps

\* Whatever types integerRead goes through, the low bytes that variable, local
\* variable and record share arrive as they are.
LEMMA IntegerReadKeeps ==
  ASSUME NEW c \in CType, NEW e \in CType,
         NEW content \in Int, NEW bytes \in Nat, NEW junk \in Int,
         NEW n \in Nat, n <= bytes, n <= c.size, n <= e.size
  PROVE  Low(IntegerRead(c, e, content, bytes, junk), n) = Low(content, n)
<1> DEFINE l == LocalBytes(c, content, bytes, junk)
           y == Low(Number(c, l), e.size)
<1>1. l \in Nat /\ l < Power[c.size] /\ Low(l, n) = Low(content, n)
  <2>1. l \in Nat /\ l < Power[c.size]
    BY LocalIs
  <2>2. \A m \in Nat : m <= bytes /\ m <= c.size => Low(l, m) = Low(content, m)
    BY LocalIs
  <2>3. QED
    BY <2>1, <2>2
<1>2. IntegerRead(c, e, content, bytes, junk) = Number(e, y)
  BY DEF IntegerRead
<1> HIDE DEF l
<1>3. c.size \in Nat /\ e.size \in Nat /\ n \in 0 .. c.size /\ n \in 0 .. e.size
  BY DEF CType
<1>4. Number(c, l) \in Int /\ Low(Number(c, l), n) = Low(l, n)
  BY <1>1, <1>3, NumberIs DEF Holds
<1>5. y \in Nat /\ y < Power[e.size] /\ Low(y, n) = Low(Number(c, l), n)
  BY <1>3, <1>4, LowBounds, LowOfLow
<1> HIDE DEF y
<1>6. Low(Number(e, y), n) = Low(y, n)
  BY <1>3, <1>5, NumberIs
<1>7. QED
  BY <1>1, <1>2, <1>4, <1>5, <1>6

-----------------------------------------------------------------------------
\* A type with more bytes holds every number of one with fewer.
LEMMA WiderHolds ==
  ASSUME NEW c \in CType, NEW e \in CType, e.signed,
         c.size < e.size \/ (c.signed /\ c.size = e.size),
         NEW x, Holds(c, x)
  PROVE  Holds(e, x)
<1>1. c.size \in Nat /\ e.size \in Nat
  BY DEF CType
<1>2. Power[c.size] \in Nat /\ Power[e.size] \in Nat
  BY <1>1, PowerPositive
<1>3. CASE c.size < e.size
  <2>1. 2 * Power[c.size] <= Power[e.size]
    BY <1>1, <1>3, PowerGrows
  <2>2. QED
    BY <1>2, <2>1 DEF Holds
<1>4. CASE c.signed /\ c.size = e.size
  BY <1>4 DEF Holds
<1>5. QED
  BY <1>3, <1>4

\* The numbers a handler does not wrap are those of its type.
LEMMA FitsIs ==
  ASSUME NEW c \in CType, NEW val \in Int
  PROVE  Holds(c, val) <=> Number(c, IntegerWrite(c, val)) = val
<1>1. c.size \in Nat
  BY DEF CType
<1>2. Low(val, c.size) \in Nat /\ Low(val, c.size) < Power[c.size]
  BY <1>1, LowBounds
<1>3. Holds(c, Number(c, Low(val, c.size)))
  BY <1>2, NumberIs
<1>4. Holds(c, val) => Number(c, Low(val, c.size)) = val
  BY NumberOfBytes
<1>5. QED
  BY <1>3, <1>4 DEF IntegerWrite

\* The functions by their form.
LEMMA FunctionIs ==
  ASSUME NEW f \in Function
  PROVE  \/ f.form = "value" /\ f.type \in IntegerTypes
         \/ /\ f.form = "digi"
            /\ f.type \in {"BOOL", "BYTE", "USINT", "WORD", "UINT", "DWORD", "UDINT"}
         \/ f.form = "array" /\ f.type \in IntegerTypes
         \/ f.form = "string" /\ f.type = "STRING"
  BY DEF Function

\* (integerWrite, integerRead, digitalWrite, digitalRead) What one record writes and the
\* type of the handlers holds is what a polled record of the same function shows.
THEOREM WrittenIsRead ==
  ASSUME NEW f \in Function, f.form \in {"value", "digi"}, NEW val \in Int,
         Holds(WrittenAs(f), val)
  PROVE  PolledValue(f, IntegerWrite(WrittenAs(f), val), Size[f.type]) = val
<1> DEFINE t == f.type
           c == WrittenAs(f)
           content == IntegerWrite(c, val)
           l == LocalBytes(c, content, Size[t], 0)
<1>1. /\ t \in IntegerTypes /\ c \in CType /\ c.size = Size[t]
      /\ IF f.form = "digi" THEN c = Digital(t) ELSE c = Handled(t)
  BY FunctionIs, HandledIs, DigitalIs DEF WrittenAs
<1>2. c.size \in Nat
  BY <1>1 DEF CType
<1>3. content = Low(val, c.size) /\ content \in Nat /\ content < Power[c.size]
  BY <1>2, LowBounds DEF IntegerWrite
<1> HIDE DEF content
<1>4. l = Low(content, c.size)
  BY <1>1, <1>2, <1>3, LocalIsExact
<1>5. l = Low(val, c.size)
  BY <1>2, <1>3, <1>4, LowKeeps
<1>6. Number(c, l) = val
  BY <1>1, <1>5, NumberOfBytes
<1>7. CASE f.form = "value"
  <2> DEFINE e == Epics(t)
  <2>1. Holds(e, val) /\ e \in CType
    BY <1>1, <1>7, HandledIs, WiderHolds
  <2>2. Number(e, Low(val, e.size)) = val
    BY <2>1, NumberOfBytes
  <2>3. PolledValue(f, content, Size[t]) = Number(e, Low(Number(c, l), e.size))
    BY <1>1, <1>7 DEF PolledValue, IntegerRead
  <2>4. QED
    BY <1>6, <2>2, <2>3 DEF content
<1>8. CASE f.form = "digi"
  <2>1. ~c.signed /\ c.size <= 4
    BY <1>1, <1>2, <1>8, FunctionIs, DigitalIs
  <2>2. val \in Nat /\ val < Power[c.size]
    BY <2>1 DEF Holds
  <2>3. l = val
    BY <1>2, <1>5, <2>2, LowKeeps
  <2>4. Low(val, 4) = val
    <3>1. Power[c.size] \in Nat /\ Power[4] \in Nat
      BY <1>2, PowerPositive
    <3>2. Power[c.size] <= Power[4]
      BY <1>2, <2>1, <3>1, PowerGrows
    <3>3. QED
      BY <2>2, <3>1, <3>2, LowKeeps
  <2>5. PolledValue(f, content, Size[t]) = Low(l, 4)
    BY <1>1, <1>8 DEF PolledValue, DigitalRead
  <2>6. QED
    BY <2>3, <2>4, <2>5 DEF content
<1>9. QED
  BY <1>7, <1>8

\* (performIOIntr, registerHandlers) A scalar with SCAN=I/O Intr gets the value a polled
\* record gets, whatever is on the stack, but for DWORD and UDINT, where the 4 bytes of
\* the variable arrive and, masked, the lower 2.
THEOREM PublishedIsPolled ==
  ASSUME NEW f \in Function, f.form # "array", NEW content \in Int,
         NEW bytes \in Nat, f.form # "string" => bytes = Size[f.type], NEW junk \in Int
  PROVE  IF f.type \in {"DWORD", "UDINT"}
           THEN LET n == IF f.form = "digi" THEN 2 ELSE 4
                IN Low(PublishedValue(f, content, bytes, junk), n)
                     = Low(PolledValue(f, content, bytes), n)
           ELSE PublishedValue(f, content, bytes, junk) = PolledValue(f, content, bytes)
<1> DEFINE t == f.type
<1>1. CASE f.form = "string"
  BY <1>1, FunctionIs DEF PublishedValue, PolledValue
<1>2. CASE f.form = "value" /\ t \notin {"DWORD", "UDINT"}
  <2>1. /\ t \in IntegerTypes /\ Published(t) = Handled(t)
        /\ Handled(t) \in CType /\ Handled(t).size <= bytes
    <3>1. t \in IntegerTypes
      BY <1>2, FunctionIs
    <3>2. Handled(t) \in CType /\ Handled(t).size = Size[t]
      BY <3>1, HandledIs
    <3>3. Handled(t).size \in Nat
      BY <3>2 DEF CType
    <3>4. QED
      BY <1>2, <3>1, <3>2, <3>3, PublishedIs
  <2>2. LocalBytes(Handled(t), content, bytes, junk) = LocalBytes(Handled(t), content, bytes, 0)
    BY <2>1, LocalIsExact
  <2>3. QED
    BY <1>2, <2>1, <2>2 DEF PublishedValue, PolledValue, IntegerRead
<1>3. CASE f.form = "value" /\ t \in {"DWORD", "UDINT"}
  <2>1. t \in IntegerTypes
    BY <1>3, FunctionIs
  <2>2. /\ Published(t) \in CType /\ Handled(t) \in CType /\ Epics(t) \in CType
        /\ Published(t).size = 8 /\ Handled(t).size = 4 /\ Epics(t).size = 8 /\ bytes = 4
    BY <1>3, <2>1, HandledIs, PublishedIs
  <2>3. /\ Low(IntegerRead(Published(t), Epics(t), content, bytes, junk), 4) = Low(content, 4)
        /\ Low(IntegerRead(Handled(t), Epics(t), content, bytes, 0), 4) = Low(content, 4)
    BY <2>2, IntegerReadKeeps
  <2>4. QED
    BY <1>3, <2>3 DEF PublishedValue, PolledValue
<1>4. CASE f.form = "digi"
  <2> DEFINE c == Digital(t)
             l == Low(content, c.size)
  <2>1. /\ c \in CType /\ c.size = bytes
        /\ c.size <= (IF t \in {"DWORD", "UDINT"} THEN 4 ELSE 2)
    BY <1>4, FunctionIs, DigitalIs
  <2>2. c.size \in Nat
    BY <2>1 DEF CType
  <2>3. LocalBytes(c, content, bytes, junk) = l /\ LocalBytes(c, content, bytes, 0) = l
    BY <2>1, <2>2, LocalIsExact
  <2>4. l \in Nat /\ l < Power[c.size]
    BY <2>2, LowBounds
  <2>5. /\ PublishedValue(f, content, bytes, junk) = Low(l, 2)
        /\ PolledValue(f, content, bytes) = Low(l, 4)
    BY <1>4, <2>3 DEF PublishedValue, PolledValue, DigitalRead
  <2>6. Low(Low(l, 2), 2) = Low(l, 2) /\ Low(Low(l, 4), 2) = Low(l, 2)
    BY <2>4, LowOfLow
  <2>7. CASE t \in {"DWORD", "UDINT"}
    BY <1>4, <2>5, <2>6, <2>7
  <2>8. CASE t \notin {"DWORD", "UDINT"}
    <3>1. Power[c.size] \in Nat /\ Power[2] \in Nat /\ Power[4] \in Nat
      BY <2>2, PowerPositive
    <3>2. Power[c.size] <= Power[2] /\ Power[2] <= Power[4]
      BY <2>1, <2>2, <2>8, <3>1, PowerGrows
    <3>3. Low(l, 2) = l /\ Low(l, 4) = l
      BY <2>4, <3>1, <3>2, LowKeeps
    <3>4. QED
      BY <2>5, <2>8, <3>3
  <2>9. QED
    BY <2>7, <2>8
<1>5. QED
  BY <1>1, <1>2, <1>3, <1>4, FunctionIs

\* What is published is a number.
LEMMA PublishedIsNumber ==
  ASSUME NEW f \in Function, f.form # "array", NEW content \in Int,
         NEW bytes \in Nat, NEW junk \in Int
  PROVE  PublishedValue(f, content, bytes, junk) \in Int
<1>1. CASE f.form = "value"
  <2> DEFINE c == Published(f.type)
             e == Epics(f.type)
             l == LocalBytes(c, content, bytes, junk)
  <2>1. c \in CType /\ e \in CType
    BY <1>1, FunctionIs, HandledIs, PublishedIs
  <2>2. e.size \in Nat
    BY <2>1 DEF CType
  <2>3. l \in Nat /\ l < Power[c.size]
    BY <2>1, LocalIs
  <2>4. Number(c, l) \in Int
    BY <2>1, <2>3, NumberIs DEF Holds
  <2>5. Low(Number(c, l), e.size) \in Nat /\ Low(Number(c, l), e.size) < Power[e.size]
    BY <2>2, <2>4, LowBounds
  <2>6. Number(e, Low(Number(c, l), e.size)) \in Int
    BY <2>1, <2>5, NumberIs DEF Holds
  <2>7. QED
    BY <1>1, <2>6 DEF PublishedValue, IntegerRead
<1>2. CASE f.form = "digi"
  <2>1. Digital(f.type) \in CType
    BY <1>2, FunctionIs, DigitalIs
  <2>2. LocalBytes(Digital(f.type), content, bytes, junk) \in Int
    BY <2>1, LocalIs
  <2>3. QED
    BY <1>2, <2>2, LowBounds DEF PublishedValue, DigitalRead
<1>3. CASE f.form = "string"
  BY <1>3, LowBounds DEF PublishedValue, StringRead
<1>4. QED
  BY <1>1, <1>2, <1>3, FunctionIs

=============================================================================
