-------------------------- MODULE PolicyCodec_proofs --------------------------
(***************************************************************************)
(* Proofs about PolicyCodec, for every document whose strings and lists    *)
(* are short enough for u32 lengths: what canonical_bytes writes, parse    *)
(* reads; a buffer cut short or continued is refused; and two writings of  *)
(* a document that differ in the order of lists, keys or schemas only have *)
(* the same bytes.                                                         *)
(*                                                                         *)
(* A reader's way through a buffer is followed field by field: At says     *)
(* what bytes are ahead of it, Rd what it has found.  Agree compares a     *)
(* reader of a cut buffer with one of the whole.  Sorting is a choice      *)
(* among permutations; InductionLemmas has that there is one in order, and *)
(* that it is the only one.                                                *)
(***************************************************************************)
EXTENDS PolicyCodec, InductionLemmas, TLAPS

-----------------------------------------------------------------------------
(* Integers as bytes. *)

\* The recursion of Values has a solution for every width.
LEMMA ValuesExists ==
  ASSUME NEW width \in Nat
  PROVE  \E f : /\ f \in [0..width -> Nat]
                /\ f = [n \in 0..width |-> IF n = 0 THEN 1 ELSE Base * f[n - 1]]
<1> DEFINE step == [n \in Nat |-> [x \in Nat |-> Base * x]]
<1>1. 1 \in Nat /\ Base \in Nat BY PolicyCodecAssumption
<1>2. step \in [Nat -> [Nat -> Nat]] BY <1>1
<1>3. PICK s : Iterates(s, Nat, 1, step)
  <2> HIDE DEF step
  <2> QED BY <1>1, <1>2, Recursion
<1>4. s \in [Nat -> Nat] /\ s[0] = 1 /\ \A n \in Nat : s[n + 1] = Base * s[n]
  BY <1>3 DEF Iterates
<1> DEFINE f == [n \in 0..width |-> s[n]]
<1>5. f \in [0..width -> Nat] BY <1>4
<1>6. ASSUME NEW n \in 0..width PROVE f[n] = IF n = 0 THEN 1 ELSE Base * f[n - 1]
  <2>1. CASE n = 0 BY <1>4, <2>1
  <2>2. CASE n # 0
    <3>1. n - 1 \in 0..width /\ n - 1 \in Nat /\ (n - 1) + 1 = n BY <2>2
    <3>2. s[n] = Base * s[n - 1] BY <1>4, <3>1
    <3> QED BY <2>2, <3>1, <3>2
  <2> QED BY <2>1, <2>2
<1>7. f = [n \in 0..width |-> IF n = 0 THEN 1 ELSE Base * f[n - 1]] BY <1>6
<1> HIDE DEF f
<1> QED BY <1>5, <1>7

\* The powers of Base.
LEMMA ValuesStep ==
  /\ Values(0) = 1
  /\ \A n \in Nat : Values(n) \in Nat /\ Values(n) > 0 /\ Values(n + 1) = Base * Values(n)
<1> DEFINE Body(f, width) == [n \in 0..width |-> IF n = 0 THEN 1 ELSE Base * f[n - 1]]
           F(width) == CHOOSE f : f = Body(f, width)
<1>1. ASSUME NEW width \in Nat PROVE F(width) = Body(F(width), width)
  <2>1. PICK f : f = Body(f, width) BY ValuesExists
  <2> HIDE DEF Body
  <2> QED BY <2>1
<1>2. \A width : Values(width) = F(width)[width] BY DEF Values
<1> HIDE DEF F
<1>3. ASSUME NEW width \in Nat
      PROVE  /\ F(width)[0] = 1
             /\ \A n \in Nat : n < width => F(width)[n + 1] = Base * F(width)[n]
  <2>1. F(width)[0] = 1 BY <1>1
  <2>2. ASSUME NEW n \in Nat, n < width PROVE F(width)[n + 1] = Base * F(width)[n]
    <3>1. n + 1 \in 0..width /\ n + 1 # 0 /\ (n + 1) - 1 = n BY <2>2
    <3> QED BY <1>1, <3>1
  <2> QED BY <2>1, <2>2
<1> HIDE DEF Body
<1>4. ASSUME NEW width \in Nat
      PROVE  \A n \in Nat : n <= width => F(width)[n] = F(width + 1)[n]
  <2> DEFINE S == {n \in Nat : n <= width => F(width)[n] = F(width + 1)[n]}
  <2>1. 0 \in S BY <1>3
  <2>2. ASSUME NEW n \in Nat, n \in S PROVE n + 1 \in S
    <3> SUFFICES ASSUME n + 1 <= width PROVE F(width)[n + 1] = F(width + 1)[n + 1]
      OBVIOUS
    <3>1. F(width)[n + 1] = Base * F(width)[n] BY <1>3
    <3>2. F(width + 1)[n + 1] = Base * F(width + 1)[n] BY <1>3
    <3> QED BY <2>2, <3>1, <3>2
  <2> HIDE DEF S
  <2>3. Nat \subseteq S BY <2>1, <2>2, SetInduction
  <2> QED BY <2>3 DEF S
<1>5. ASSUME NEW n \in Nat PROVE Values(n + 1) = Base * Values(n)
  <2>1. F(n + 1)[n + 1] = Base * F(n + 1)[n] BY <1>3
  <2>2. F(n + 1)[n] = F(n)[n] BY <1>4
  <2> QED BY <1>2, <2>1, <2>2
<1>6. Values(0) = 1 BY <1>2, <1>3
<1> DEFINE S == {n \in Nat : Values(n) \in Nat /\ Values(n) > 0}
<1>7. 0 \in S BY <1>6
<1>8. ASSUME NEW n \in Nat, n \in S PROVE n + 1 \in S
  <2>1. Values(n) \in Nat /\ Values(n) > 0 /\ Base \in Nat /\ Base > 0
    BY <1>8, PolicyCodecAssumption
  <2>2. Base * Values(n) \in Nat /\ Base * Values(n) > 0 BY <2>1
  <2> QED BY <1>5, <2>2
<1> HIDE DEF S
<1>9. Nat \subseteq S BY <1>7, <1>8, SetInduction
<1> QED BY <1>5, <1>6, <1>9 DEF S

\* Division by a product is division by one factor and then by the other.
LEMMA DivTwice ==
  ASSUME NEW n \in Nat, NEW a \in Nat, a > 0, NEW b \in Nat, b > 0
  PROVE  /\ n \div (b * a) = (n \div a) \div b
         /\ n \div a = ((n \div a) \div b) * b + ((n \div a) % b)
<1> DEFINE q == n \div a  r == n % a  u == q \div b  v == q % b
<1>1. q \in Nat /\ r \in Nat /\ r < a /\ n = a * q + r OBVIOUS
<1> HIDE DEF q, r
<1>2. u \in Nat /\ v \in Nat /\ v < b /\ q = b * u + v BY <1>1
<1> HIDE DEF u, v
<1>3. a * v + r < b * a /\ a * v + r \in Nat
  <2>1. v <= b - 1 BY <1>2
  <2>2. a * v <= a * (b - 1) BY <1>2, <2>1
  <2>3. a * (b - 1) = a * b - a BY <1>1
  <2> QED BY <1>1, <1>2, <2>2, <2>3
<1>4. n = (b * a) * u + (a * v + r) BY <1>1, <1>2
<1>5. n \div (b * a) = u
  <2> DEFINE d == b * a  w == a * v + r
  <2>1. d \in Nat /\ d > 0 /\ w \in Nat /\ w < d /\ n = d * u + w BY <1>3, <1>4
  <2> HIDE DEF d, w
  <2>2. n \div d = u BY <1>2, <2>1
  <2> QED BY <2>2 DEF d
<1> QED BY <1>2, <1>5 DEF q, r, u, v

\* An integer is written in as many bytes as were asked for.
LEMMA IntIsBytes ==
  ASSUME NEW n \in Nat, NEW width \in Nat
  PROVE  /\ LittleEndian(n, width) \in Strings
         /\ Len(LittleEndian(n, width)) = width
         /\ \A i \in 1..width : LittleEndian(n, width)[i] = (n \div Values(i - 1)) % Base
<1>1. ASSUME NEW i \in 1..width PROVE (n \div Values(i - 1)) % Base \in Bytes
  <2>1. i - 1 \in Nat OBVIOUS
  <2>2. Values(i - 1) \in Nat /\ Values(i - 1) > 0 BY <2>1, ValuesStep
  <2>3. n \div Values(i - 1) \in Nat BY <2>2
  <2>4. Base \in Nat /\ Base > 0 BY PolicyCodecAssumption
  <2> QED BY <2>3, <2>4 DEF Bytes
<1>2. LittleEndian(n, width) \in [1..width -> Bytes] BY <1>1 DEF LittleEndian
<1> QED BY <1>2 DEF LittleEndian, Strings

\* Reading adds up the bytes.
LEMMA FromSums ==
  ASSUME NEW bytes \in Strings
  PROVE  \E f : /\ f \in [0..Len(bytes) -> Nat]
                /\ f[0] = 0
                /\ \A n \in Nat : n < Len(bytes) => f[n + 1] = f[n] + bytes[n + 1] * Values(n)
                /\ FromLittleEndian(bytes) = f[Len(bytes)]
<1> DEFINE add == [n \in Nat |-> IF n < Len(bytes) THEN bytes[n + 1] * Values(n) ELSE 0]
           step == [n \in Nat |-> [x \in Nat |-> x + add[n]]]
           Body(f) == [n \in 0..Len(bytes) |->
                         IF n = 0 THEN 0 ELSE f[n - 1] + bytes[n] * Values(n - 1)]
<1>1. Len(bytes) \in Nat /\ \A i \in 1..Len(bytes) : bytes[i] \in Nat
  BY PolicyCodecAssumption DEF Strings, Bytes
<1>2. add \in [Nat -> Nat]
  <2>1. ASSUME NEW n \in Nat, n < Len(bytes) PROVE bytes[n + 1] * Values(n) \in Nat
    <3>1. bytes[n + 1] \in Nat BY <1>1, <2>1
    <3>2. Values(n) \in Nat BY ValuesStep
    <3> QED BY <3>1, <3>2
  <2> QED BY <2>1
<1>3. \A n \in Nat : n < Len(bytes) => add[n] = bytes[n + 1] * Values(n) OBVIOUS
<1> HIDE DEF add
<1>4. step \in [Nat -> [Nat -> Nat]] BY <1>2
<1>5. PICK s : Iterates(s, Nat, 0, step)
  <2>1. 0 \in Nat OBVIOUS
  <2> HIDE DEF step
  <2> QED BY <1>4, <2>1, Recursion
<1>6. s \in [Nat -> Nat] /\ s[0] = 0 /\ \A n \in Nat : s[n + 1] = s[n] + add[n]
  BY <1>5 DEF Iterates
<1> HIDE DEF step
<1> DEFINE f == [n \in 0..Len(bytes) |-> s[n]]
<1>7. f \in [0..Len(bytes) -> Nat] BY <1>6
<1>8. f = Body(f)
  <2>1. ASSUME NEW n \in 0..Len(bytes)
        PROVE  f[n] = IF n = 0 THEN 0 ELSE f[n - 1] + bytes[n] * Values(n - 1)
    <3>1. CASE n = 0 BY <1>6, <3>1
    <3>2. CASE n # 0
      <4>1. /\ n - 1 \in 0..Len(bytes) /\ n - 1 \in Nat /\ (n - 1) + 1 = n
            /\ n - 1 < Len(bytes)
        BY <1>1, <3>2
      <4>2. s[n] = s[n - 1] + add[n - 1] BY <1>6, <4>1
      <4>3. add[n - 1] = bytes[n] * Values(n - 1) BY <1>3, <4>1
      <4> QED BY <3>2, <4>1, <4>2, <4>3
    <3> QED BY <3>1, <3>2
  <2> QED BY <2>1
<1> DEFINE g == CHOOSE g : g = Body(g)
<1>9. g = Body(g)
  <2> HIDE DEF f, Body
  <2> QED BY <1>8
<1>10. FromLittleEndian(bytes) = g[Len(bytes)] BY DEF FromLittleEndian
<1> HIDE DEF g, f
<1>11. g[0] = 0 BY <1>1, <1>9
<1>12. ASSUME NEW n \in Nat, n < Len(bytes)
       PROVE  g[n + 1] = g[n] + bytes[n + 1] * Values(n)
  <2>1. n + 1 \in 0..Len(bytes) /\ n + 1 # 0 /\ (n + 1) - 1 = n BY <1>1, <1>12
  <2> QED BY <1>9, <2>1
<1> DEFINE S == {n \in Nat : n <= Len(bytes) => g[n] \in Nat}
<1>13. 0 \in S BY <1>11
<1>14. ASSUME NEW n \in Nat, n \in S PROVE n + 1 \in S
  <2> SUFFICES ASSUME n + 1 <= Len(bytes) PROVE g[n + 1] \in Nat OBVIOUS
  <2>1. n < Len(bytes) /\ n <= Len(bytes) BY <1>1
  <2>2. g[n] \in Nat /\ bytes[n + 1] * Values(n) \in Nat BY <1>2, <1>3, <1>14, <2>1
  <2> QED BY <1>12, <2>1, <2>2
<1> HIDE DEF S
<1>15. Nat \subseteq S BY <1>13, <1>14, SetInduction
<1>16. \A n \in 0..Len(bytes) : g[n] \in Nat BY <1>1, <1>15 DEF S
<1>17. g \in [0..Len(bytes) -> Nat] BY <1>9, <1>16
<1> QED BY <1>10, <1>11, <1>12, <1>17

\* What is read is what was written, for an integer of that width.
LEMMA IntRoundTrip ==
  ASSUME NEW n \in Nat, NEW width \in Nat, n < Values(width)
  PROVE  FromLittleEndian(LittleEndian(n, width)) = n
<1> DEFINE bytes == LittleEndian(n, width)
<1>1. /\ bytes \in Strings /\ Len(bytes) = width
      /\ \A i \in 1..width : bytes[i] = (n \div Values(i - 1)) % Base
  BY IntIsBytes
<1> HIDE DEF bytes
<1>2. PICK f : /\ f \in [0..width -> Nat]
               /\ f[0] = 0
               /\ \A k \in Nat : k < width => f[k + 1] = f[k] + bytes[k + 1] * Values(k)
               /\ FromLittleEndian(bytes) = f[width]
  BY <1>1, FromSums
<1> DEFINE S == {k \in Nat : k <= width => f[k] + Values(k) * (n \div Values(k)) = n}
<1>3. 0 \in S
  <2>1. n \div 1 = n OBVIOUS
  <2>2. Values(0) = 1 BY ValuesStep
  <2> QED BY <1>2, <2>1, <2>2
<1>4. ASSUME NEW k \in Nat, k \in S PROVE k + 1 \in S
  <2> SUFFICES ASSUME k + 1 <= width
               PROVE  f[k + 1] + Values(k + 1) * (n \div Values(k + 1)) = n
    OBVIOUS
  <2> DEFINE v == Values(k)  q == n \div v
  <2>1. /\ v \in Nat /\ v > 0 /\ Values(k + 1) = Base * v /\ Base \in Nat /\ Base > 0
    BY ValuesStep, PolicyCodecAssumption
  <2>2. q \in Nat /\ n \div (Base * v) = q \div Base /\ q = (q \div Base) * Base + (q % Base)
        /\ q \div Base \in Nat /\ q % Base \in Nat
    BY <2>1, DivTwice
  <2>3. bytes[k + 1] = q % Base
    <3>1. k + 1 \in 1..width /\ (k + 1) - 1 = k OBVIOUS
    <3> QED BY <1>1, <3>1
  <2>4. f[k + 1] = f[k] + bytes[k + 1] * v /\ f[k] \in Nat /\ f[k] + v * q = n
    BY <1>2, <1>4
  <2> HIDE DEF v, q
  <2> DEFINE a == q \div Base  b == q % Base
  <2>5. q = a * Base + b /\ a \in Nat /\ b \in Nat BY <2>2
  <2>6. f[k + 1] = f[k] + b * v BY <2>3, <2>4
  <2> HIDE DEF a, b
  <2>7. v * q = v * (a * Base) + v * b BY <2>1, <2>5
  <2>8. (Base * v) * a = v * (a * Base) BY <2>1, <2>5
  <2>9. f[k + 1] + (Base * v) * a = n
    <3> DEFINE x == v * (a * Base)  y == v * b
    <3>1. y = b * v /\ x \in Nat /\ y \in Nat BY <2>1, <2>5
    <3>2. f[k] + (x + y) = n BY <2>4, <2>7
    <3>3. f[k + 1] = f[k] + y BY <2>6, <3>1
    <3> HIDE DEF x, y
    <3>4. f[k + 1] + x = n BY <2>4, <3>1, <3>2, <3>3
    <3> QED BY <2>8, <3>4 DEF x
  <2>10. n \div Values(k + 1) = a BY <2>1, <2>2 DEF a
  <2> QED BY <2>1, <2>9, <2>10
<1> HIDE DEF S
<1>5. Nat \subseteq S BY <1>3, <1>4, SetInduction
<1>6. f[width] + Values(width) * (n \div Values(width)) = n BY <1>5 DEF S
<1>7. n \div Values(width) = 0
  <2>1. Values(width) \in Nat /\ Values(width) > 0 BY ValuesStep
  <2> QED BY <2>1
<1>8. Values(width) * 0 = 0 BY ValuesStep
<1>9. f[width] \in Nat BY <1>2
<1> QED BY <1>2, <1>6, <1>7, <1>8, <1>9 DEF bytes

\* Wider integers have no fewer values.
LEMMA ValuesGrow ==
  ASSUME NEW m \in Nat, NEW n \in Nat, m <= n
  PROVE  Values(m) <= Values(n)
<1> DEFINE S == {k \in Nat : Values(m) <= Values(m + k)}
<1>1. 0 \in S BY ValuesStep
<1>2. ASSUME NEW k \in Nat, k \in S PROVE k + 1 \in S
  <2>1. /\ Values(m + k) \in Nat /\ Values(m) \in Nat /\ Base \in Nat /\ Base > 2
        /\ Values((m + k) + 1) = Base * Values(m + k)
    BY ValuesStep, PolicyCodecAssumption
  <2>2. Base * Values(m + k) >= Values(m + k) /\ Base * Values(m + k) \in Nat BY <2>1
  <2>3. m + (k + 1) = (m + k) + 1 OBVIOUS
  <2> QED BY <1>2, <2>1, <2>2, <2>3
<1> HIDE DEF S
<1>3. Nat \subseteq S BY <1>1, <1>2, SetInduction
<1>4. n - m \in S /\ m + (n - m) = n BY <1>3
<1> QED BY <1>4 DEF S

-----------------------------------------------------------------------------
(* Reading what was written. *)

\* The bytes s are in the buffer after pos.
At(buf, pos, s) ==
  pos \in Nat /\ pos + Len(s) <= Len(buf) /\ \A i \in 1..Len(s) : buf[pos + i] = s[i]

\* A reader without error.
Rd(buf, pos, last, items, fields) ==
  [buf |-> buf, pos |-> pos, error |-> "none", last |-> last, items |-> items,
   fields |-> fields]

\* Strings after each other are a string.
LEMMA Joined ==
  ASSUME NEW s \in Strings, NEW t \in Strings
  PROVE  /\ s \o t \in Strings /\ Len(s \o t) = Len(s) + Len(t)
         /\ Len(s) \in Nat /\ Len(t) \in Nat
BY DEF Strings

\* Two strings after each other.
LEMMA AtSplit ==
  ASSUME NEW buf \in Strings, NEW pos, NEW s \in Strings, NEW t \in Strings,
         At(buf, pos, s \o t)
  PROVE  At(buf, pos, s) /\ At(buf, pos + Len(s), t)
<1> DEFINE u == s \o t
<1>1. /\ Len(s) \in Nat /\ Len(t) \in Nat /\ Len(buf) \in Nat /\ pos \in Nat
      /\ Len(u) = Len(s) + Len(t)
      /\ \A i \in 1..Len(s) : u[i] = s[i]
      /\ \A i \in 1..Len(t) : u[Len(s) + i] = t[i]
  BY DEF Strings, At
<1>2. pos + Len(u) <= Len(buf) /\ \A i \in 1..Len(u) : buf[pos + i] = u[i]
  BY DEF At
<1> HIDE DEF u
<1>3. At(buf, pos, s) BY <1>1, <1>2 DEF At
<1>4. ASSUME NEW i \in 1..Len(t) PROVE buf[(pos + Len(s)) + i] = t[i]
  <2>1. Len(s) + i \in 1..Len(u) /\ (pos + Len(s)) + i = pos + (Len(s) + i) BY <1>1
  <2> QED BY <1>1, <1>2, <2>1
<1>5. (pos + Len(s)) + Len(t) <= Len(buf) /\ pos + Len(s) \in Nat BY <1>1, <1>2
<1> QED BY <1>3, <1>4, <1>5 DEF At

\* What is at a position can be taken.
LEMMA ReadTake ==
  ASSUME NEW buf \in Strings, NEW pos, NEW s \in Strings, At(buf, pos, s),
         NEW last, NEW items, NEW fields, NEW error
  PROVE  Take(Rd(buf, pos, last, items, fields), Len(s), error)
           = Rd(buf, pos + Len(s), s, items, fields)
<1>1. /\ pos \in Nat /\ Len(s) \in Nat /\ Len(buf) \in Nat /\ pos + Len(s) <= Len(buf)
      /\ \A i \in 1..Len(s) : buf[pos + i] = s[i]
  BY DEF At, Strings
<1> DEFINE u == SubSeq(buf, pos + 1, pos + Len(s))
<1>2. u \in Seq(Bytes) /\ Len(u) = Len(s) /\ \A i \in 1..Len(s) : u[i] = buf[pos + i]
  BY <1>1 DEF Strings
<1> HIDE DEF u
<1>3. u = s BY <1>1, <1>2 DEF Strings
<1>4. ~ (pos + Len(s) > Len(buf)) BY <1>1
<1> QED BY <1>3, <1>4 DEF Take, Rd, u

\* So can an integer.
LEMMA ReadInt ==
  ASSUME NEW buf \in Strings, NEW pos, NEW width \in Nat, NEW n \in Nat, n < Values(width),
         At(buf, pos, LittleEndian(n, width)), NEW last, NEW items, NEW fields
  PROVE  TakeInt(Rd(buf, pos, last, items, fields), width)
           = Rd(buf, pos + width, n, items, fields)
<1> DEFINE s == LittleEndian(n, width)
<1>1. s \in Strings /\ Len(s) = width /\ FromLittleEndian(s) = n
  BY IntIsBytes, IntRoundTrip
<1> HIDE DEF s
<1>2. At(buf, pos, s) BY DEF s
<1>3. Take(Rd(buf, pos, last, items, fields), width, "Truncated")
        = Rd(buf, pos + width, s, items, fields)
  BY <1>1, <1>2, ReadTake
<1>4. AsInt(Rd(buf, pos + width, s, items, fields)) = Rd(buf, pos + width, n, items, fields)
  BY <1>1 DEF AsInt, Rd
<1> QED BY <1>3, <1>4 DEF TakeInt

\* A string whose length is a u32.
Short(s) == s \in Strings /\ Len(s) < Values(LenWidth)

\* The bytes of a string and its length.
LEMMA BlobIsBytes ==
  ASSUME NEW s \in Strings
  PROVE  /\ Blob(s) \in Strings
         /\ Len(Blob(s)) = LenWidth + Len(s)
<1>1. Len(s) \in Nat /\ LenWidth \in Nat BY PolicyCodecAssumption DEF Strings
<1>2. LittleEndian(Len(s), LenWidth) \in Strings /\ Len(LittleEndian(Len(s), LenWidth)) = LenWidth
  BY <1>1, IntIsBytes
<1> QED BY <1>1, <1>2 DEF Blob, Strings

\* A string can be read.
LEMMA ReadBlob ==
  ASSUME NEW buf \in Strings, NEW pos, NEW s, Short(s), At(buf, pos, Blob(s)),
         NEW last, NEW items, NEW fields
  PROVE  TakeBlob(Rd(buf, pos, last, items, fields))
           = Rd(buf, pos + Len(Blob(s)), s, items, fields)
<1> DEFINE l == LittleEndian(Len(s), LenWidth)
<1>1. /\ s \in Strings /\ Len(s) \in Nat /\ Len(s) < Values(LenWidth) /\ LenWidth \in Nat
  BY PolicyCodecAssumption DEF Strings, Short
<1>2. l \in Strings /\ Len(l) = LenWidth BY <1>1, IntIsBytes
<1>3. At(buf, pos, l) /\ At(buf, pos + Len(l), s)
  <2> HIDE DEF l
  <2>1. At(buf, pos, l \o s) BY DEF Blob, l
  <2> QED BY <1>1, <1>2, <2>1, AtSplit
<1>4. TakeInt(Rd(buf, pos, last, items, fields), LenWidth)
        = Rd(buf, pos + LenWidth, Len(s), items, fields)
  BY <1>1, <1>3, ReadInt
<1>5. Take(Rd(buf, pos + LenWidth, Len(s), items, fields), Len(s), "LengthOverrun")
        = Rd(buf, (pos + LenWidth) + Len(s), s, items, fields)
  BY <1>1, <1>2, <1>3, ReadTake
<1>6. AsLength(Rd(buf, pos + LenWidth, Len(s), items, fields))
        = Take(Rd(buf, pos + LenWidth, Len(s), items, fields), Len(s), "LengthOverrun")
  BY DEF AsLength, Rd
<1>7. (pos + LenWidth) + Len(s) = pos + Len(Blob(s))
  <2>1. pos \in Nat BY <1>3 DEF At
  <2> QED BY <1>1, <2>1, BlobIsBytes
<1> QED BY <1>4, <1>5, <1>6, <1>7 DEF TakeBlob

\* So can a text.
LEMMA ReadString ==
  ASSUME NEW buf \in Strings, NEW pos, NEW s \in Texts, Short(s), At(buf, pos, Blob(s)),
         NEW last, NEW items, NEW fields
  PROVE  TakeString(Rd(buf, pos, last, items, fields))
           = Rd(buf, pos + Len(Blob(s)), s, items, fields)
<1>1. NotUtf8 \notin Range(s) BY DEF Texts, Range
<1>2. AsText(Rd(buf, pos + Len(Blob(s)), s, items, fields))
        = Rd(buf, pos + Len(Blob(s)), s, items, fields)
  BY <1>1 DEF AsText, Rd
<1>3. TakeBlob(Rd(buf, pos, last, items, fields)) = Rd(buf, pos + Len(Blob(s)), s, items, fields)
  BY ReadBlob
<1> QED BY <1>2, <1>3 DEF TakeString

\* Each of the flattened strings is added to those before it.
Flattens(f, s) ==
  /\ f \in [0..Len(s) -> Strings]
  /\ f[0] = << >>
  /\ \A n \in Nat : n < Len(s) => f[n + 1] = f[n] \o s[n + 1]
  /\ FlattenSeq(s) = f[Len(s)]

\* FlattenSeq flattens: the recursion it is defined by has a value, whose parts grow
\* by one string at a time.
LEMMA FlattenAdds ==
  ASSUME NEW s \in Seq(Strings)
  PROVE  \E f : Flattens(f, s)
<1> DEFINE Body(f) == [i \in 1..Len(s) |-> IF i = 1 THEN s[i] ELSE f[i - 1] \o s[i]]
           step == [n \in Nat |-> [x \in Strings |-> IF n < Len(s) THEN x \o s[n + 1] ELSE x]]
<1>1. Len(s) \in Nat /\ \A i \in 1..Len(s) : s[i] \in Strings OBVIOUS
<1>2. step \in [Nat -> [Strings -> Strings]]
  <2>1. ASSUME NEW n \in Nat, NEW x \in Strings, n < Len(s) PROVE x \o s[n + 1] \in Strings
    <3>1. n + 1 \in 1..Len(s) BY <1>1, <2>1
    <3>2. s[n + 1] \in Strings BY <1>1, <3>1
    <3> QED BY <3>2 DEF Strings
  <2> QED BY <2>1
<1>3. PICK g : Iterates(g, Strings, << >>, step)
  <2>1. << >> \in Strings BY DEF Strings
  <2> HIDE DEF step
  <2> QED BY <1>2, <2>1, Recursion
<1>4. /\ g \in [Nat -> Strings] /\ g[0] = << >>
      /\ \A n \in Nat : n < Len(s) => g[n + 1] = g[n] \o s[n + 1]
  BY <1>3 DEF Iterates
<1> HIDE DEF step
<1> DEFINE h == [i \in 1..Len(s) |-> g[i]]
<1>5. ASSUME NEW i \in 1..Len(s)
      PROVE  h[i] = IF i = 1 THEN s[i] ELSE h[i - 1] \o s[i]
  <2>1. i - 1 \in Nat /\ i - 1 < Len(s) /\ (i - 1) + 1 = i BY <1>1
  <2>2. g[i] = g[i - 1] \o s[i] BY <1>4, <2>1
  <2>3. CASE i = 1
    <3>1. << >> \o s[1] = s[1] BY <1>1, <2>3 DEF Strings
    <3>2. g[i - 1] = << >>
      <4>1. i - 1 = 0 BY <2>3
      <4> QED BY <1>4, <4>1
    <3>3. g[1] = s[1] BY <2>2, <2>3, <3>1, <3>2
    <3> QED BY <2>3, <3>3
  <2>4. CASE i # 1
    <3>1. i - 1 \in 1..Len(s) BY <1>1, <2>4
    <3> QED BY <2>2, <2>4, <3>1
  <2> QED BY <2>3, <2>4
<1>6. h = Body(h) BY <1>5
<1> DEFINE c == CHOOSE c : c = Body(c)
<1>7. c = Body(c)
  <2> HIDE DEF h, Body
  <2> QED BY <1>6
<1>8. FlattenSeq(s) = IF Len(s) = 0 THEN s ELSE c[Len(s)] BY DEF FlattenSeq
<1> HIDE DEF c, h
<1> DEFINE S == {n \in Nat : n + 1 <= Len(s) => c[n + 1] = g[n + 1]}
<1>9. 0 \in S
  <2> SUFFICES ASSUME 0 + 1 <= Len(s) PROVE c[0 + 1] = g[0 + 1] OBVIOUS
  <2>1. 1 \in 1..Len(s) /\ 0 < Len(s) BY <1>1
  <2>2. c[1] = s[1] BY <1>7, <2>1
  <2>3. g[0 + 1] = << >> \o s[0 + 1] BY <1>4, <2>1
  <2>4. << >> \o s[1] = s[1] BY <1>1, <2>1 DEF Strings
  <2> QED BY <2>2, <2>3, <2>4
<1>10. ASSUME NEW n \in Nat, n \in S PROVE n + 1 \in S
  <2> SUFFICES ASSUME (n + 1) + 1 <= Len(s) PROVE c[(n + 1) + 1] = g[(n + 1) + 1] OBVIOUS
  <2>1. /\ (n + 1) + 1 \in 1..Len(s) /\ (n + 1) + 1 # 1 /\ ((n + 1) + 1) - 1 = n + 1
        /\ n + 1 < Len(s) /\ n + 1 <= Len(s) /\ n + 1 \in Nat
    BY <1>1
  <2>2. c[(n + 1) + 1] = c[n + 1] \o s[(n + 1) + 1] BY <1>7, <2>1
  <2>3. g[(n + 1) + 1] = g[n + 1] \o s[(n + 1) + 1] BY <1>4, <2>1
  <2> QED BY <1>10, <2>1, <2>2, <2>3
<1> HIDE DEF S
<1>11. Nat \subseteq S BY <1>9, <1>10, SetInduction
<1>12. FlattenSeq(s) = g[Len(s)]
  <2>1. CASE Len(s) = 0
    <3>1. s = << >> BY <2>1
    <3> QED BY <1>4, <1>8, <2>1, <3>1
  <2>2. CASE Len(s) # 0
    <3>1. Len(s) - 1 \in Nat /\ (Len(s) - 1) + 1 = Len(s) /\ (Len(s) - 1) + 1 <= Len(s)
      BY <1>1, <2>2
    <3>2. c[(Len(s) - 1) + 1] = g[(Len(s) - 1) + 1] BY <1>11, <3>1 DEF S
    <3> QED BY <1>8, <2>2, <3>1, <3>2
  <2> QED BY <2>1, <2>2
<1> DEFINE f == [n \in 0..Len(s) |-> g[n]]
<1>13. f \in [0..Len(s) -> Strings] BY <1>1, <1>4
<1>14. \A n \in 0..Len(s) : f[n] = g[n] OBVIOUS
<1> HIDE DEF f
<1>15. Flattens(f, s)
  <2>1. 0 \in 0..Len(s) /\ Len(s) \in 0..Len(s) BY <1>1
  <2>2. ASSUME NEW n \in Nat, n < Len(s) PROVE f[n + 1] = f[n] \o s[n + 1]
    <3>1. n \in 0..Len(s) /\ n + 1 \in 0..Len(s) BY <1>1, <2>2
    <3> QED BY <1>4, <1>14, <2>2, <3>1
  <2> QED BY <1>4, <1>12, <1>13, <1>14, <2>1, <2>2 DEF Flattens
<1> QED BY <1>15

\* Where the flattened strings are, each one is after those before it.
LEMMA AtFlattened ==
  ASSUME NEW buf \in Strings, NEW pos, NEW s \in Seq(Strings), NEW f, Flattens(f, s),
         At(buf, pos, FlattenSeq(s))
  PROVE  \A n \in Nat : n < Len(s) => At(buf, pos + Len(f[n]), s[n + 1])
<1> DEFINE S == {k \in Nat : k <= Len(s) => At(buf, pos, f[Len(s) - k])}
<1>1. /\ Len(s) \in Nat /\ \A i \in 1..Len(s) : s[i] \in Strings
      /\ f \in [0..Len(s) -> Strings]
      /\ \A n \in Nat : n < Len(s) => f[n + 1] = f[n] \o s[n + 1]
      /\ FlattenSeq(s) = f[Len(s)]
  BY DEF Flattens
<1>2. ASSUME NEW n \in Nat, n < Len(s), At(buf, pos, f[n + 1])
      PROVE  At(buf, pos, f[n]) /\ At(buf, pos + Len(f[n]), s[n + 1])
  <2>1. f[n] \in Strings /\ s[n + 1] \in Strings BY <1>1, <1>2
  <2>2. At(buf, pos, f[n] \o s[n + 1]) BY <1>1, <1>2
  <2> QED BY <2>1, <2>2, AtSplit
<1>3. 0 \in S BY <1>1
<1>4. ASSUME NEW k \in Nat, k \in S PROVE k + 1 \in S
  <2> SUFFICES ASSUME k + 1 <= Len(s) PROVE At(buf, pos, f[Len(s) - (k + 1)]) OBVIOUS
  <2> DEFINE n == Len(s) - (k + 1)
  <2>1. n \in Nat /\ n < Len(s) /\ n + 1 = Len(s) - k /\ k <= Len(s) BY <1>1
  <2>2. At(buf, pos, f[n + 1]) BY <1>4, <2>1
  <2> HIDE DEF n
  <2>3. At(buf, pos, f[n]) BY <1>2, <2>1, <2>2
  <2> QED BY <2>3 DEF n
<1>5. Nat \subseteq S
  <2> HIDE DEF S
  <2> QED BY <1>3, <1>4, SetInduction
<1> SUFFICES ASSUME NEW n \in Nat, n < Len(s) PROVE At(buf, pos + Len(f[n]), s[n + 1])
  OBVIOUS
<1> DEFINE k == Len(s) - (n + 1)
<1>6. k \in Nat /\ k <= Len(s) /\ Len(s) - k = n + 1 BY <1>1
<1>7. At(buf, pos, f[n + 1]) BY <1>5, <1>6
<1> QED BY <1>2, <1>7

-----------------------------------------------------------------------------
(* Reading lists. *)

\* The loop over the strings of a list has a value.
StringLoop(after, reader, count) ==
  after = [n \in 0..count |-> IF n = 0 THEN [reader EXCEPT !.items = << >>]
                              ELSE AsItem(TakeString(after[n - 1]))]

\* The recursion of that loop has a solution.
LEMMA StringLoopExists ==
  ASSUME NEW reader, NEW count \in Nat
  PROVE  \E after : StringLoop(after, reader, count)
<1> DEFINE S == {k \in Nat : \E after : StringLoop(after, reader, k)}
<1>1. 0 \in S
  <2> DEFINE a == [n \in 0..0 |-> [reader EXCEPT !.items = << >>]]
  <2>1. StringLoop(a, reader, 0) BY DEF StringLoop
  <2> QED BY <2>1
<1>2. ASSUME NEW k \in Nat, k \in S PROVE k + 1 \in S
  <2>1. PICK b : StringLoop(b, reader, k) BY <1>2
  <2> DEFINE a == [n \in 0..k + 1 |-> IF n = k + 1 THEN AsItem(TakeString(b[k])) ELSE b[n]]
  <2>2. ASSUME NEW n \in 0..k + 1
        PROVE  a[n] = IF n = 0 THEN [reader EXCEPT !.items = << >>]
                      ELSE AsItem(TakeString(a[n - 1]))
    <3>1. CASE n = k + 1
      <4>1. k \in 0..k + 1 /\ k # k + 1 /\ n # 0 /\ n - 1 = k BY <3>1
      <4> QED BY <3>1, <4>1
    <3>2. CASE n = 0
      <4>1. n \in 0..k /\ n # k + 1 BY <3>2
      <4> QED BY <2>1, <3>2, <4>1 DEF StringLoop
    <3>3. CASE n # 0 /\ n # k + 1
      <4>1. n \in 0..k /\ n - 1 \in 0..k /\ n - 1 \in 0..k + 1 /\ n - 1 # k + 1 BY <3>3
      <4>2. b[n] = AsItem(TakeString(b[n - 1])) BY <2>1, <3>3, <4>1 DEF StringLoop
      <4> QED BY <3>3, <4>1, <4>2
    <3> QED BY <3>1, <3>2, <3>3
  <2>3. StringLoop(a, reader, k + 1)
    <3>1. a = [n \in 0..k + 1 |-> a[n]] OBVIOUS
    <3> HIDE DEF a
    <3> QED BY <2>2, <3>1 DEF StringLoop
  <2> QED BY <2>3
<1> HIDE DEF S
<1>3. Nat \subseteq S BY <1>1, <1>2, SetInduction
<1> QED BY <1>3 DEF S

\* What the loop makes of a reader.
LEMMA StringLoopValue ==
  ASSUME NEW reader, reader.error = "none", reader.last \in Nat
  PROVE  \E after : /\ StringLoop(after, reader, reader.last)
                    /\ AsCountOfStrings(reader) = AsList(after[reader.last])
<1> DEFINE c == CHOOSE after : StringLoop(after, reader, reader.last)
<1>1. StringLoop(c, reader, reader.last) BY StringLoopExists
<1>2. AsCountOfStrings(reader) = AsList(c[reader.last]) BY DEF AsCountOfStrings, StringLoop
<1> HIDE DEF c
<1> QED BY <1>1, <1>2

\* So has the loop over the pairs.
PairLoop(after, reader, count) ==
  after = [n \in 0..count |-> IF n = 0 THEN reader ELSE TakeBlob(TakeBlob(after[n - 1]))]

\* The recursion of that loop has a solution, too.
LEMMA PairLoopExists ==
  ASSUME NEW reader, NEW count \in Nat
  PROVE  \E after : PairLoop(after, reader, count)
<1> DEFINE S == {k \in Nat : \E after : PairLoop(after, reader, k)}
<1>1. 0 \in S
  <2> DEFINE a == [n \in 0..0 |-> reader]
  <2>1. PairLoop(a, reader, 0) BY DEF PairLoop
  <2> QED BY <2>1
<1>2. ASSUME NEW k \in Nat, k \in S PROVE k + 1 \in S
  <2>1. PICK b : PairLoop(b, reader, k) BY <1>2
  <2> DEFINE a == [n \in 0..k + 1 |-> IF n = k + 1 THEN TakeBlob(TakeBlob(b[k])) ELSE b[n]]
  <2>2. ASSUME NEW n \in 0..k + 1
        PROVE  a[n] = IF n = 0 THEN reader ELSE TakeBlob(TakeBlob(a[n - 1]))
    <3>1. CASE n = k + 1
      <4>1. k \in 0..k + 1 /\ k # k + 1 /\ n # 0 /\ n - 1 = k BY <3>1
      <4> QED BY <3>1, <4>1
    <3>2. CASE n = 0
      <4>1. n \in 0..k /\ n # k + 1 BY <3>2
      <4> QED BY <2>1, <3>2, <4>1 DEF PairLoop
    <3>3. CASE n # 0 /\ n # k + 1
      <4>1. n \in 0..k /\ n - 1 \in 0..k /\ n - 1 \in 0..k + 1 /\ n - 1 # k + 1 BY <3>3
      <4>2. b[n] = TakeBlob(TakeBlob(b[n - 1])) BY <2>1, <3>3, <4>1 DEF PairLoop
      <4> QED BY <3>3, <4>1, <4>2
    <3> QED BY <3>1, <3>2, <3>3
  <2>3. PairLoop(a, reader, k + 1)
    <3>1. a = [n \in 0..k + 1 |-> a[n]] OBVIOUS
    <3> HIDE DEF a
    <3> QED BY <2>2, <3>1 DEF PairLoop
  <2> QED BY <2>3
<1> HIDE DEF S
<1>3. Nat \subseteq S BY <1>1, <1>2, SetInduction
<1> QED BY <1>3 DEF S

\* What the loop over the pairs makes of a reader.
LEMMA PairLoopValue ==
  ASSUME NEW reader, reader.error = "none", reader.last \in Nat
  PROVE  \E after : /\ PairLoop(after, reader, reader.last)
                    /\ AsCountOfPairs(reader) = after[reader.last]
<1> DEFINE c == CHOOSE after : PairLoop(after, reader, reader.last)
<1>1. PairLoop(c, reader, reader.last) BY PairLoopExists
<1>2. AsCountOfPairs(reader) = c[reader.last] BY DEF AsCountOfPairs, PairLoop
<1> HIDE DEF c
<1> QED BY <1>1, <1>2

\* The bytes of a count and the items it counts.
LEMMA CountedIsBytes ==
  ASSUME NEW items \in Seq(Strings)
  PROVE  /\ Counted(items) = LittleEndian(Len(items), LenWidth) \o FlattenSeq(items)
         /\ Counted(items) \in Strings
         /\ LittleEndian(Len(items), LenWidth) \in Strings
         /\ FlattenSeq(items) \in Strings
         /\ Len(LittleEndian(Len(items), LenWidth)) = LenWidth
         /\ Len(Counted(items)) = LenWidth + Len(FlattenSeq(items))
<1>1. LenWidth \in Nat /\ Len(items) \in Nat BY PolicyCodecAssumption
<1>2. PICK f : Flattens(f, items) BY FlattenAdds
<1>3. FlattenSeq(items) \in Strings
  <2>1. Len(items) \in 0..Len(items) BY <1>1
  <2> QED BY <1>2, <2>1 DEF Flattens
<1>4. /\ LittleEndian(Len(items), LenWidth) \in Strings
      /\ Len(LittleEndian(Len(items), LenWidth)) = LenWidth
  BY <1>1, IntIsBytes
<1> DEFINE l == LittleEndian(Len(items), LenWidth)
           t == FlattenSeq(items)
<1>5. Counted(items) = l \o t BY DEF Counted
<1> HIDE DEF l, t
<1>6. l \in Seq(Bytes) /\ t \in Seq(Bytes) BY <1>3, <1>4 DEF l, t, Strings
<1>7. l \o t \in Seq(Bytes) /\ Len(l \o t) = Len(l) + Len(t) BY <1>6
<1> QED BY <1>3, <1>4, <1>5, <1>7 DEF l, t, Strings

\* Texts and lists of texts whose lengths are u32s.
ShortTexts(names) ==
  /\ names \in Seq(Texts) /\ Len(names) < Values(LenWidth)
  /\ \A i \in DOMAIN names : Short(names[i])

\* A list can be read.
LEMMA ReadList ==
  ASSUME NEW buf \in Strings, NEW pos, NEW names, ShortTexts(names),
         NEW bytes, bytes = Counted([i \in DOMAIN names |-> Blob(names[i])]),
         At(buf, pos, bytes), NEW last, NEW items, NEW fields
  PROVE  TakeList(Rd(buf, pos, last, items, fields))
           = Rd(buf, pos + Len(bytes), names, names, fields)
<1> DEFINE N == Len(names)
           blobs == [i \in DOMAIN names |-> Blob(names[i])]
           count == LittleEndian(N, LenWidth)
           start == Rd(buf, pos + LenWidth, N, items, fields)
<1>1. /\ names \in Seq(Texts) /\ N \in Nat /\ N < Values(LenWidth) /\ LenWidth \in Nat
      /\ DOMAIN names = 1..N
      /\ \A i \in 1..N : names[i] \in Texts /\ Short(names[i]) /\ names[i] \in Strings
  BY PolicyCodecAssumption DEF ShortTexts, Short
<1>2. blobs \in Seq(Strings) /\ Len(blobs) = N /\ \A i \in 1..N : blobs[i] = Blob(names[i])
  <2>1. \A i \in 1..N : Blob(names[i]) \in Strings BY <1>1, BlobIsBytes
  <2> QED BY <1>1, <2>1
<1> HIDE DEF blobs, N
<1>3. /\ Counted(blobs) = count \o FlattenSeq(blobs)
      /\ count \in Strings /\ FlattenSeq(blobs) \in Strings /\ Len(count) = LenWidth
      /\ Len(Counted(blobs)) = LenWidth + Len(FlattenSeq(blobs))
  BY <1>2, CountedIsBytes
<1> HIDE DEF count
<1>4. At(buf, pos, count) /\ At(buf, pos + LenWidth, FlattenSeq(blobs))
  <2>1. At(buf, pos, count \o FlattenSeq(blobs)) BY <1>3 DEF blobs
  <2> QED BY <1>3, <2>1, AtSplit
<1>5. TakeInt(Rd(buf, pos, last, items, fields), LenWidth) = start
  BY <1>1, <1>4, ReadInt DEF count
<1>6. PICK f : Flattens(f, blobs) BY <1>2, FlattenAdds
<1>7. \A n \in Nat : n < N => At(buf, (pos + LenWidth) + Len(f[n]), Blob(names[n + 1]))
  <2>1. ASSUME NEW n \in Nat, n < N
        PROVE  At(buf, (pos + LenWidth) + Len(f[n]), Blob(names[n + 1]))
    <3>1. At(buf, (pos + LenWidth) + Len(f[n]), blobs[n + 1])
      BY <1>2, <1>4, <1>6, <2>1, AtFlattened
    <3>2. n + 1 \in 1..N BY <1>1, <2>1
    <3> QED BY <1>2, <3>1, <3>2
  <2> QED BY <2>1
<1>8. PICK after : StringLoop(after, start, N) /\ AsCountOfStrings(start) = AsList(after[N])
  <2>1. start.error = "none" /\ start.last = N BY DEF Rd
  <2> HIDE DEF start
  <2> QED BY <1>1, <2>1, StringLoopValue
<1> DEFINE Found(n) == Rd(buf, (pos + LenWidth) + Len(f[n]),
                          IF n = 0 THEN N ELSE names[n], SubSeq(names, 1, n), fields)
           S == {n \in Nat : n <= N => after[n] = Found(n)}
<1>9. 0 \in S
  <2>1. after[0] = [start EXCEPT !.items = << >>] BY <1>1, <1>8 DEF StringLoop
  <2>2. Len(f[0]) = 0 /\ pos + LenWidth \in Nat BY <1>4, <1>6 DEF Flattens, At
  <2>3. (pos + LenWidth) + Len(f[0]) = pos + LenWidth BY <2>2
  <2>4. SubSeq(names, 1, 0) = << >> BY <1>1
  <2>5. [start EXCEPT !.items = << >>] = Rd(buf, pos + LenWidth, N, << >>, fields)
    BY DEF Rd
  <2>6. Found(0) = Rd(buf, pos + LenWidth, N, << >>, fields) BY <2>3, <2>4
  <2> QED BY <2>1, <2>5, <2>6
<1>10. ASSUME NEW n \in Nat, n \in S PROVE n + 1 \in S
  <2> SUFFICES ASSUME n + 1 <= N PROVE after[n + 1] = Found(n + 1) OBVIOUS
  <2>1. /\ n + 1 \in 0..N /\ n + 1 # 0 /\ (n + 1) - 1 = n /\ n <= N /\ n < N
        /\ n + 1 \in 1..N /\ n \in 0..N
    BY <1>1
  <2> DEFINE p == (pos + LenWidth) + Len(f[n])
             name == names[n + 1]
  <2>2. after[n + 1] = AsItem(TakeString(after[n])) BY <1>8, <2>1 DEF StringLoop
  <2>3. after[n] = Found(n) BY <1>10, <2>1
  <2>4. name \in Texts /\ Short(name) /\ At(buf, p, Blob(name)) BY <1>1, <1>7, <2>1
  <2>5. TakeString(Found(n)) = Rd(buf, p + Len(Blob(name)), name, SubSeq(names, 1, n), fields)
    <3> HIDE DEF p, name
    <3>1. TakeString(Rd(buf, p, IF n = 0 THEN N ELSE names[n], SubSeq(names, 1, n), fields))
            = Rd(buf, p + Len(Blob(name)), name, SubSeq(names, 1, n), fields)
      BY <2>4, ReadString
    <3> QED BY <3>1 DEF p
  <2>6. p + Len(Blob(name)) = (pos + LenWidth) + Len(f[n + 1])
    <3>1. f[n + 1] = f[n] \o Blob(name) /\ f[n] \in Strings
      BY <1>2, <1>6, <2>1 DEF Flattens
    <3>2. Blob(name) \in Strings BY <2>4, BlobIsBytes DEF Short
    <3>3. Len(f[n + 1]) = Len(f[n]) + Len(Blob(name)) /\ Len(f[n]) \in Nat
          /\ Len(Blob(name)) \in Nat
      BY <3>1, <3>2 DEF Strings
    <3>4. pos \in Nat BY <1>4 DEF At
    <3> DEFINE u == Len(f[n])  v == Len(Blob(name))
    <3>5. u \in Nat /\ v \in Nat /\ Len(f[n + 1]) = u + v BY <3>3
    <3> HIDE DEF u, v
    <3>6. ((pos + LenWidth) + u) + v = (pos + LenWidth) + Len(f[n + 1]) BY <1>1, <3>4, <3>5
    <3> QED BY <3>6 DEF u, v
  <2>7. Append(SubSeq(names, 1, n), name) = SubSeq(names, 1, n + 1) BY <1>1, <2>1
  <2> HIDE DEF p, name
  <2>8. AsItem(Rd(buf, p + Len(Blob(name)), name, SubSeq(names, 1, n), fields))
          = Rd(buf, p + Len(Blob(name)), name, SubSeq(names, 1, n + 1), fields)
    <3> DEFINE so_far == SubSeq(names, 1, n)  pp == p + Len(Blob(name))
    <3>1. Append(so_far, name) = SubSeq(names, 1, n + 1) BY <2>7
    <3> HIDE DEF so_far, pp
    <3>2. AsItem(Rd(buf, pp, name, so_far, fields))
            = Rd(buf, pp, name, Append(so_far, name), fields)
      BY DEF AsItem, Rd
    <3> QED BY <3>1, <3>2 DEF so_far, pp
  <2> QED BY <2>1, <2>2, <2>3, <2>5, <2>6, <2>8 DEF name
<1>11. Nat \subseteq S
  <2> HIDE DEF S
  <2> QED BY <1>9, <1>10, SetInduction
<1>12. after[N] = Found(N) BY <1>1, <1>11
<1>13. SubSeq(names, 1, N) = names /\ f[N] = FlattenSeq(blobs)
  BY <1>1, <1>2, <1>6 DEF N, Flattens
<1>14. AsList(Found(N)) = Rd(buf, (pos + LenWidth) + Len(f[N]), names, names, fields)
  <2> DEFINE so_far == SubSeq(names, 1, N)  l == IF N = 0 THEN N ELSE names[N]
             pp == (pos + LenWidth) + Len(f[N])
  <2>1. so_far = names BY <1>13
  <2> HIDE DEF so_far, pp, l
  <2>2. AsList(Rd(buf, pp, l, so_far, fields)) = Rd(buf, pp, so_far, so_far, fields)
    BY DEF AsList, Rd
  <2> QED BY <2>1, <2>2 DEF so_far, pp, l
<1>15. (pos + LenWidth) + Len(f[N]) = pos + Len(Counted(blobs))
  <2>1. pos \in Nat BY <1>4 DEF At
  <2>2. Len(FlattenSeq(blobs)) \in Nat BY <1>3 DEF Strings
  <2> QED BY <1>1, <1>3, <1>13, <2>1, <2>2
<1>16. TakeList(Rd(buf, pos, last, items, fields)) = AsCountOfStrings(start)
  BY <1>5 DEF TakeList
<1> HIDE DEF start, Found
<1>17. TakeList(Rd(buf, pos, last, items, fields))
         = Rd(buf, pos + Len(Counted(blobs)), names, names, fields)
  BY <1>8, <1>12, <1>14, <1>15, <1>16
<1> QED BY <1>17 DEF blobs

\* Pairs of strings, as bytes.
PairBytes(a, b, N) == Counted([i \in 1..N |-> Blob(a[i]) \o Blob(b[i])])

\* Pairs of strings can be skipped.
LEMMA ReadPairs ==
  ASSUME NEW buf \in Strings, NEW pos, NEW N \in Nat, N < Values(LenWidth),
         NEW a \in [1..N -> Strings], NEW b \in [1..N -> Strings],
         \A i \in 1..N : Short(a[i]) /\ Short(b[i]),
         NEW bytes, bytes = PairBytes(a, b, N),
         At(buf, pos, bytes), NEW last, NEW items, NEW fields
  PROVE  \E found : SkipPairs(Rd(buf, pos, last, items, fields))
                       = Rd(buf, pos + Len(bytes), found, items, fields)
<1> DEFINE pairs == [i \in 1..N |-> Blob(a[i]) \o Blob(b[i])]
           count == LittleEndian(N, LenWidth)
           start == Rd(buf, pos + LenWidth, N, items, fields)
<1>1. LenWidth \in Nat BY PolicyCodecAssumption
<1>2. bytes = Counted(pairs) BY DEF PairBytes
<1>3. \A i \in 1..N : /\ Blob(a[i]) \in Strings /\ Blob(b[i]) \in Strings
                      /\ Blob(a[i]) \o Blob(b[i]) \in Strings
  <2> SUFFICES ASSUME NEW i \in 1..N
               PROVE  /\ Blob(a[i]) \in Strings /\ Blob(b[i]) \in Strings
                      /\ Blob(a[i]) \o Blob(b[i]) \in Strings
    OBVIOUS
  <2>1. Blob(a[i]) \in Strings /\ Blob(b[i]) \in Strings BY BlobIsBytes
  <2> QED BY <2>1 DEF Strings
<1>4. pairs \in Seq(Strings) /\ Len(pairs) = N
      /\ \A i \in 1..N : pairs[i] = Blob(a[i]) \o Blob(b[i])
  BY <1>3
<1> HIDE DEF pairs
<1>5. /\ Counted(pairs) = count \o FlattenSeq(pairs)
      /\ count \in Strings /\ FlattenSeq(pairs) \in Strings /\ Len(count) = LenWidth
      /\ Len(Counted(pairs)) = LenWidth + Len(FlattenSeq(pairs))
  BY <1>4, CountedIsBytes
<1> HIDE DEF count
<1>6. At(buf, pos, count) /\ At(buf, pos + LenWidth, FlattenSeq(pairs))
  <2>1. At(buf, pos, count \o FlattenSeq(pairs)) BY <1>5, <1>2
  <2> QED BY <1>5, <2>1, AtSplit
<1>7. TakeInt(Rd(buf, pos, last, items, fields), LenWidth) = start
  BY <1>1, <1>6, ReadInt DEF count
<1>8. PICK f : Flattens(f, pairs) BY <1>4, FlattenAdds
<1>9. ASSUME NEW n \in Nat, n < N
      PROVE  /\ At(buf, (pos + LenWidth) + Len(f[n]), Blob(a[n + 1]))
             /\ At(buf, ((pos + LenWidth) + Len(f[n])) + Len(Blob(a[n + 1])), Blob(b[n + 1]))
  <2>1. n + 1 \in 1..N BY <1>9
  <2>2. At(buf, (pos + LenWidth) + Len(f[n]), pairs[n + 1])
    BY <1>4, <1>6, <1>8, <1>9, AtFlattened
  <2>3. At(buf, (pos + LenWidth) + Len(f[n]), Blob(a[n + 1]) \o Blob(b[n + 1]))
    BY <1>4, <2>1, <2>2
  <2> QED BY <1>3, <2>1, <2>3, AtSplit
<1>10. PICK after : PairLoop(after, start, N) /\ AsCountOfPairs(start) = after[N]
  <2>1. start.error = "none" /\ start.last = N BY DEF Rd
  <2> HIDE DEF start
  <2> QED BY <2>1, PairLoopValue
<1> DEFINE Found(n, l) == Rd(buf, (pos + LenWidth) + Len(f[n]), l, items, fields)
           S == {n \in Nat : n <= N => \E l : after[n] = Found(n, l)}
<1>11. 0 \in S
  <2>1. after[0] = start BY <1>10 DEF PairLoop
  <2>2. Len(f[0]) = 0 /\ pos + LenWidth \in Nat BY <1>6, <1>8 DEF Flattens, At
  <2>3. (pos + LenWidth) + Len(f[0]) = pos + LenWidth BY <2>2
  <2>4. after[0] = Found(0, N) BY <2>1, <2>3
  <2> HIDE DEF Found
  <2> QED BY <2>4
<1>12. ASSUME NEW n \in Nat, n \in S PROVE n + 1 \in S
  <2> SUFFICES ASSUME n + 1 <= N PROVE \E l : after[n + 1] = Found(n + 1, l) OBVIOUS
  <2>1. /\ n + 1 \in 0..N /\ n + 1 # 0 /\ (n + 1) - 1 = n /\ n <= N /\ n < N
        /\ n + 1 \in 1..N /\ n \in 0..N
    OBVIOUS
  <2>2. after[n + 1] = TakeBlob(TakeBlob(after[n])) BY <1>10, <2>1 DEF PairLoop
  <2>3. PICK l : after[n] = Found(n, l) BY <1>12, <2>1
  <2> DEFINE p == (pos + LenWidth) + Len(f[n])
             x == a[n + 1]
             y == b[n + 1]
  <2>4. Short(x) /\ At(buf, p, Blob(x)) /\ Short(y) /\ At(buf, p + Len(Blob(x)), Blob(y))
    BY <1>9, <2>1
  <2>5. after[n] = Rd(buf, p, l, items, fields) BY <2>3
  <2>6. (p + Len(Blob(x))) + Len(Blob(y)) = (pos + LenWidth) + Len(f[n + 1])
    <3>1. f[n + 1] = f[n] \o (Blob(x) \o Blob(y)) /\ f[n] \in Strings
      BY <1>4, <1>8, <2>1 DEF Flattens
    <3>2. Blob(x) \in Strings /\ Blob(y) \in Strings BY <1>3, <2>1
    <3>3. Len(f[n + 1]) = Len(f[n]) + (Len(Blob(x)) + Len(Blob(y))) /\ Len(f[n]) \in Nat
          /\ Len(Blob(x)) \in Nat /\ Len(Blob(y)) \in Nat
      BY <3>1, <3>2 DEF Strings
    <3>4. pos \in Nat BY <1>6 DEF At
    <3> DEFINE u == Len(f[n])  v == Len(Blob(x))  w == Len(Blob(y))
    <3>5. u \in Nat /\ v \in Nat /\ w \in Nat /\ Len(f[n + 1]) = u + (v + w) BY <3>3
    <3> HIDE DEF u, v, w
    <3>6. (((pos + LenWidth) + u) + v) + w = (pos + LenWidth) + Len(f[n + 1])
      BY <1>1, <3>4, <3>5
    <3> QED BY <3>6 DEF u, v, w
  <2> HIDE DEF p, x, y
  <2>7. TakeBlob(after[n]) = Rd(buf, p + Len(Blob(x)), x, items, fields)
    BY <2>4, <2>5, ReadBlob
  <2>8. TakeBlob(Rd(buf, p + Len(Blob(x)), x, items, fields))
          = Rd(buf, (p + Len(Blob(x))) + Len(Blob(y)), y, items, fields)
    BY <2>4, ReadBlob
  <2>9. after[n + 1] = Found(n + 1, y) BY <2>2, <2>6, <2>7, <2>8
  <2> HIDE DEF Found
  <2> QED BY <2>9
<1>13. Nat \subseteq S
  <2> HIDE DEF S
  <2> QED BY <1>11, <1>12, SetInduction
<1>14. PICK l : after[N] = Found(N, l) BY <1>13
<1>15. f[N] = FlattenSeq(pairs) BY <1>4, <1>8 DEF Flattens
<1>16. (pos + LenWidth) + Len(f[N]) = pos + Len(Counted(pairs))
  <2>1. pos \in Nat BY <1>6 DEF At
  <2>2. Len(FlattenSeq(pairs)) \in Nat BY <1>5 DEF Strings
  <2> QED BY <1>1, <1>5, <1>15, <2>1, <2>2
<1>17. SkipPairs(Rd(buf, pos, last, items, fields)) = AsCountOfPairs(start)
  BY <1>7 DEF SkipPairs
<1>18. SkipPairs(Rd(buf, pos, last, items, fields))
         = Rd(buf, pos + Len(Counted(pairs)), l, items, fields)
  <2> HIDE DEF start
  <2> QED BY <1>10, <1>14, <1>16, <1>17
<1> HIDE DEF start, Found
<1> QED BY <1>18, <1>2

-----------------------------------------------------------------------------
(* Sorting. *)

\* A set of numbers has a least one.
LEMMA LeastExists ==
  ASSUME NEW D, D \subseteq Nat, D # {}
  PROVE  \E i \in D : \A j \in D : i <= j
<1> DEFINE S == {n \in Nat : \A i \in D : i >= n}
<1>1. SUFFICES ASSUME ~ \E i \in D : \A j \in D : i <= j PROVE FALSE OBVIOUS
<1>2. 0 \in S OBVIOUS
<1>3. ASSUME NEW n \in Nat, n \in S PROVE n + 1 \in S
  <2>1. n \notin D BY <1>1, <1>3
  <2>2. \A i \in D : i >= n /\ i # n /\ i \in Nat BY <1>3, <2>1
  <2> QED BY <2>2
<1> HIDE DEF S
<1>4. Nat \subseteq S BY <1>2, <1>3, SetInduction
<1>5. PICK i \in D : TRUE OBVIOUS
<1>6. i + 1 \in S /\ i \in Nat BY <1>4
<1>7. i >= i + 1 BY <1>6 DEF S
<1> QED BY <1>6, <1>7

\* The strings differ first at i, where s has ended or has the smaller byte.
FirstLess(s, t, i) ==
  /\ i \in 1..Len(t) /\ i <= Len(s) + 1
  /\ \A j \in 1..i - 1 : s[j] = t[j]
  /\ i <= Len(s) => s[i] < t[i]

\* A string is before another just if there is a first place where they differ.
LEMMA PrecedesMeans ==
  ASSUME NEW s \in Strings, NEW t \in Strings
  PROVE  Precedes(s, t) <=> \E i : FirstLess(s, t, i)
<1>1. /\ Len(s) \in Nat /\ Len(t) \in Nat /\ s \in Seq(Bytes) /\ t \in Seq(Bytes)
  BY DEF Strings
<1>2. ASSUME NEW n \in Nat, n <= Len(s), n <= Len(t)
      PROVE  SubSeq(s, 1, n) = SubSeq(t, 1, n) <=> \A j \in 1..n : s[j] = t[j]
  <2>1. /\ SubSeq(s, 1, n) \in Seq(Bytes) /\ Len(SubSeq(s, 1, n)) = n
        /\ \A j \in 1..n : SubSeq(s, 1, n)[j] = s[j]
    BY <1>1, <1>2
  <2>2. /\ SubSeq(t, 1, n) \in Seq(Bytes) /\ Len(SubSeq(t, 1, n)) = n
        /\ \A j \in 1..n : SubSeq(t, 1, n)[j] = t[j]
    BY <1>1, <1>2
  <2> DEFINE u == SubSeq(s, 1, n)  v == SubSeq(t, 1, n)
  <2> HIDE DEF u, v
  <2>3. u = v <=> \A j \in 1..n : u[j] = v[j] BY <2>1, <2>2 DEF u, v
  <2> QED BY <2>1, <2>2, <2>3 DEF u, v
<1>3. IsStrictPrefix(s, t) => FirstLess(s, t, Len(s) + 1)
  <2> SUFFICES ASSUME IsStrictPrefix(s, t) PROVE FirstLess(s, t, Len(s) + 1) OBVIOUS
  <2>1. Len(s) <= Len(t) /\ SubSeq(s, 1, Len(s)) = SubSeq(t, 1, Len(s)) /\ s # t
    BY DEF IsStrictPrefix, IsPrefix
  <2>2. \A j \in 1..Len(s) : s[j] = t[j] BY <1>1, <1>2, <2>1
  <2>3. Len(s) # Len(t) BY <1>1, <2>1, <2>2
  <2> QED BY <1>1, <2>1, <2>2, <2>3 DEF FirstLess
<1>4. ASSUME NEW i \in 1..Len(s), i <= Len(t), SubSeq(s, 1, i - 1) = SubSeq(t, 1, i - 1),
             s[i] < t[i]
      PROVE  FirstLess(s, t, i)
  <2>1. i - 1 \in Nat /\ i - 1 <= Len(s) /\ i - 1 <= Len(t) BY <1>1, <1>4
  <2> QED BY <1>1, <1>2, <1>4, <2>1 DEF FirstLess
<1>5. ASSUME NEW i, FirstLess(s, t, i), i = Len(s) + 1
      PROVE  IsStrictPrefix(s, t)
  <2>1. Len(s) < Len(t) BY <1>1, <1>5 DEF FirstLess
  <2>2. \A j \in 1..Len(s) : s[j] = t[j] BY <1>1, <1>5 DEF FirstLess
  <2>3. SubSeq(s, 1, Len(s)) = SubSeq(t, 1, Len(s)) BY <1>1, <1>2, <2>1, <2>2
  <2> QED BY <1>1, <2>1, <2>3 DEF IsStrictPrefix, IsPrefix
<1>6. ASSUME NEW i, FirstLess(s, t, i), i # Len(s) + 1
      PROVE  /\ i \in 1..Len(s) /\ i <= Len(t)
             /\ SubSeq(s, 1, i - 1) = SubSeq(t, 1, i - 1) /\ s[i] < t[i]
  <2>1. i \in 1..Len(s) /\ i <= Len(t) /\ i - 1 \in Nat /\ i - 1 <= Len(s) /\ i - 1 <= Len(t)
    BY <1>1, <1>6 DEF FirstLess
  <2> QED BY <1>2, <1>6, <2>1 DEF FirstLess
<1>7. Precedes(s, t) => \E i : FirstLess(s, t, i) BY <1>3, <1>4 DEF Precedes
<1>8. (\E i : FirstLess(s, t, i)) => Precedes(s, t) BY <1>5, <1>6 DEF Precedes
<1> QED BY <1>7, <1>8

\* The order of strings, as a relation.
TextOrder == {p \in Strings \X Strings : Precedes(p[1], p[2])}

\* It is a total order: two strings that differ, differ first somewhere.
LEMMA TextsOrdered == TotalOrder(TextOrder, Strings)
<1>1. \A s, t \in Strings : <<s, t>> \in TextOrder <=> Precedes(s, t) BY DEF TextOrder
<1>2. \A s \in Strings : /\ s \in Seq(Bytes) /\ Len(s) \in Nat
                         /\ \A i \in 1..Len(s) : s[i] \in Nat
  <2> SUFFICES ASSUME NEW s \in Strings
               PROVE  /\ s \in Seq(Bytes) /\ Len(s) \in Nat
                      /\ \A i \in 1..Len(s) : s[i] \in Nat
    OBVIOUS
  <2>1. s \in Seq(Bytes) BY DEF Strings
  <2>2. \A b \in Bytes : b \in Nat BY PolicyCodecAssumption DEF Bytes
  <2> QED BY <2>1, <2>2
<1>3. ASSUME NEW s \in Strings PROVE <<s, s>> \notin TextOrder
  <2> SUFFICES ASSUME NEW i, FirstLess(s, s, i) PROVE FALSE BY <1>1, PrecedesMeans
  <2>1. i \in 1..Len(s) /\ s[i] < s[i] BY <1>2 DEF FirstLess
  <2> QED BY <1>2, <2>1
<1>4. ASSUME NEW s \in Strings, NEW t \in Strings, NEW u \in Strings,
             <<s, t>> \in TextOrder, <<t, u>> \in TextOrder
      PROVE  <<s, u>> \in TextOrder
  <2>1. PICK i : FirstLess(s, t, i) BY <1>1, <1>4, PrecedesMeans
  <2>2. PICK j : FirstLess(t, u, j) BY <1>1, <1>4, PrecedesMeans
  <2>3. /\ i \in Nat /\ j \in Nat /\ Len(s) \in Nat /\ Len(t) \in Nat /\ Len(u) \in Nat
        /\ i >= 1 /\ j >= 1 /\ i <= Len(t) /\ i <= Len(s) + 1 /\ j <= Len(u)
        /\ \A k \in 1..i - 1 : s[k] = t[k]
        /\ \A k \in 1..j - 1 : t[k] = u[k]
        /\ i <= Len(s) => s[i] < t[i]
        /\ j <= Len(t) => t[j] < u[j]
        /\ j <= Len(t) + 1
    BY <1>2, <2>1, <2>2 DEF FirstLess
  <2>4. ASSUME i < j PROVE FirstLess(s, u, i)
    <3>1. i \in 1..Len(u) /\ i \in 1..j - 1 BY <2>3, <2>4
    <3>2. ASSUME NEW k \in 1..i - 1 PROVE s[k] = u[k]
      <4>1. k \in 1..j - 1 BY <2>3, <2>4
      <4> QED BY <2>3, <4>1
    <3> QED BY <2>3, <3>1, <3>2 DEF FirstLess
  <2>5. ASSUME j < i PROVE FirstLess(s, u, j)
    <3>1. j \in 1..Len(u) /\ j \in 1..i - 1 /\ j <= Len(t) /\ j <= Len(s) BY <2>3, <2>5
    <3>2. ASSUME NEW k \in 1..j - 1 PROVE s[k] = u[k]
      <4>1. k \in 1..i - 1 BY <2>3, <2>5
      <4> QED BY <2>3, <4>1
    <3> QED BY <2>3, <3>1, <3>2 DEF FirstLess
  <2>6. ASSUME i = j PROVE FirstLess(s, u, i)
    <3>1. i \in 1..Len(u) BY <2>3, <2>6
    <3>2. ASSUME NEW k \in 1..i - 1 PROVE s[k] = u[k] BY <2>3, <2>6
    <3>3. ASSUME i <= Len(s) PROVE s[i] < u[i]
      <4>1. s[i] \in Nat /\ t[i] \in Nat /\ u[i] \in Nat
        <5>1. i \in 1..Len(s) /\ i \in 1..Len(t) BY <2>3, <3>3
        <5> QED BY <1>2, <3>1, <5>1
      <4> QED BY <2>3, <2>6, <3>3, <4>1
    <3> QED BY <2>3, <3>1, <3>2, <3>3 DEF FirstLess
  <2>7. i < j \/ j < i \/ i = j BY <2>3
  <2> QED BY <1>1, <2>4, <2>5, <2>6, <2>7, PrecedesMeans
<1>5. ASSUME NEW s \in Strings, NEW t \in Strings, s # t
      PROVE  <<s, t>> \in TextOrder \/ <<t, s>> \in TextOrder
  <2> DEFINE D == {i \in Nat : i >= 1 /\ (i > Len(s) \/ i > Len(t) \/ s[i] # t[i])}
  <2>1. Len(s) + 1 \in D /\ D \subseteq Nat BY <1>2
  <2>2. PICK i \in D : \A j \in D : i <= j
    <3> HIDE DEF D
    <3> QED BY <2>1, LeastExists
  <2>3. ASSUME NEW j \in 1..i - 1 PROVE j <= Len(s) /\ j <= Len(t) /\ s[j] = t[j]
    <3>1. j \in Nat /\ j >= 1 /\ j < i BY <2>1
    <3>2. j \notin D BY <2>1, <2>2, <3>1
    <3> QED BY <1>2, <3>1, <3>2
  <2>4. i \in Nat /\ i >= 1 /\ Len(s) \in Nat /\ Len(t) \in Nat BY <1>2
  <2>5. i - 1 <= Len(s) /\ i - 1 <= Len(t)
    <3>1. CASE i = 1 BY <2>4, <3>1
    <3>2. CASE i # 1
      <4>1. i - 1 \in 1..i - 1 BY <2>4, <3>2
      <4> QED BY <2>3, <4>1
    <3> QED BY <3>1, <3>2
  <2>6. ASSUME i > Len(s), i > Len(t) PROVE FALSE
    <3>1. Len(s) = i - 1 /\ Len(t) = i - 1 BY <2>4, <2>5, <2>6
    <3>2. \A j \in 1..Len(s) : s[j] = t[j] BY <2>3, <3>1
    <3> QED BY <1>2, <1>5, <3>1, <3>2
  <2>7. ASSUME i > Len(s), i <= Len(t) PROVE FirstLess(s, t, i)
    BY <2>3, <2>4, <2>5, <2>7 DEF FirstLess
  <2>8. ASSUME i <= Len(s), i > Len(t) PROVE FirstLess(t, s, i)
    BY <2>3, <2>4, <2>5, <2>8 DEF FirstLess
  <2>9. ASSUME i <= Len(s), i <= Len(t) PROVE FirstLess(s, t, i) \/ FirstLess(t, s, i)
    <3>1. i \in 1..Len(s) /\ i \in 1..Len(t) /\ s[i] # t[i] BY <2>4, <2>9
    <3>2. s[i] \in Nat /\ t[i] \in Nat BY <1>2, <3>1
    <3>3. s[i] < t[i] \/ t[i] < s[i] BY <3>1, <3>2
    <3> QED BY <2>3, <2>4, <2>9, <3>1, <3>3 DEF FirstLess
  <2>10. i > Len(s) \/ i <= Len(s) BY <2>4
  <2>11. i > Len(t) \/ i <= Len(t) BY <2>4
  <2> QED BY <1>1, <2>6, <2>7, <2>8, <2>9, <2>10, <2>11, PrecedesMeans
<1> QED BY <1>3, <1>4, <1>5 DEF TotalOrder

\* The permutations of a list are lists of the same elements.
LEMMA PermutedIs ==
  ASSUME NEW S, NEW s \in Seq(S), NEW t \in Permuted(s)
  PROVE  /\ t \in [1..Len(s) -> S] /\ t \in Seq(S) /\ Len(t) = Len(s)
         /\ \E p \in Bijection(1..Len(s), 1..Len(s)) : \A i \in 1..Len(s) : t[i] = s[p[i]]
         /\ Range(t) = Range(s)
<1>1. DOMAIN s = 1..Len(s) /\ Len(s) \in Nat /\ \A i \in 1..Len(s) : s[i] \in S OBVIOUS
<1>2. PICK p \in Bijection(1..Len(s), 1..Len(s)) : t = [i \in 1..Len(s) |-> s[p[i]]]
  BY <1>1 DEF Permuted
<1>3. /\ \A i \in 1..Len(s) : p[i] \in 1..Len(s)
      /\ \A j \in 1..Len(s) : \E i \in 1..Len(s) : p[i] = j
  BY DEF Bijection, Injection, Surjection
<1>4. t \in [1..Len(s) -> S] BY <1>1, <1>2, <1>3
<1>5. t \in Seq(S) /\ Len(t) = Len(s) /\ DOMAIN t = 1..Len(s) BY <1>1, <1>4
<1>6. Range(t) = Range(s) BY <1>1, <1>2, <1>3, <1>5 DEF Range
<1> QED BY <1>2, <1>4, <1>5, <1>6

\* One of them is in order.
LEMMA PermutedInOrder ==
  ASSUME NEW S, NEW R, TotalOrder(R, S), NEW s \in Seq(S)
  PROVE  \E t \in Permuted(s) : InOrder(t, R, Len(s))
<1>1. s \in [1..Len(s) -> S] /\ Len(s) \in Nat /\ DOMAIN s = 1..Len(s) OBVIOUS
<1>2. PICK p \in Bijection(1..Len(s), 1..Len(s)) :
        InOrder([i \in 1..Len(s) |-> s[p[i]]], R, Len(s))
  BY <1>1, SortExists
<1>3. [i \in 1..Len(s) |-> s[p[i]]] \in Permuted(s) BY <1>1 DEF Permuted
<1> QED BY <1>2, <1>3

\* A bijection has an inverse.
LEMMA InverseOf ==
  ASSUME NEW n, NEW f \in Bijection(1..n, 1..n)
  PROVE  \E g \in Bijection(1..n, 1..n) : \A i \in 1..n : f[g[i]] = i /\ g[f[i]] = i
<1>1. /\ f \in [1..n -> 1..n] /\ \A i, j \in 1..n : f[i] = f[j] => i = j
      /\ \A j \in 1..n : \E i \in 1..n : f[i] = j
  BY DEF Bijection, Injection, Surjection, IsInjective
<1> DEFINE g == [j \in 1..n |-> CHOOSE i \in 1..n : f[i] = j]
<1>2. \A j \in 1..n : g[j] \in 1..n /\ f[g[j]] = j BY <1>1
<1>3. g \in [1..n -> 1..n] BY <1>2
<1> HIDE DEF g
<1>4. \A i \in 1..n : g[f[i]] = i BY <1>1, <1>2
<1>5. IsInjective(g) BY <1>2, <1>3 DEF IsInjective
<1>6. g \in Bijection(1..n, 1..n)
  BY <1>1, <1>3, <1>4, <1>5 DEF Bijection, Injection, Surjection
<1> QED BY <1>2, <1>4, <1>6

\* Bijections one after the other are one.
LEMMA Composed ==
  ASSUME NEW n, NEW f \in Bijection(1..n, 1..n), NEW g \in Bijection(1..n, 1..n)
  PROVE  [i \in 1..n |-> f[g[i]]] \in Bijection(1..n, 1..n)
<1>1. /\ f \in [1..n -> 1..n] /\ \A i, j \in 1..n : f[i] = f[j] => i = j
      /\ \A j \in 1..n : \E i \in 1..n : f[i] = j
  BY DEF Bijection, Injection, Surjection, IsInjective
<1>2. /\ g \in [1..n -> 1..n] /\ \A i, j \in 1..n : g[i] = g[j] => i = j
      /\ \A j \in 1..n : \E i \in 1..n : g[i] = j
  BY DEF Bijection, Injection, Surjection, IsInjective
<1> DEFINE h == [i \in 1..n |-> f[g[i]]]
<1>3. h \in [1..n -> 1..n] /\ \A i \in 1..n : h[i] = f[g[i]] BY <1>1, <1>2
<1> HIDE DEF h
<1>4. IsInjective(h)
  <2>1. ASSUME NEW i \in 1..n, NEW j \in 1..n, h[i] = h[j] PROVE i = j
    <3>1. g[i] \in 1..n /\ g[j] \in 1..n /\ f[g[i]] = f[g[j]] BY <1>2, <1>3, <2>1
    <3>2. g[i] = g[j] BY <1>1, <3>1
    <3> QED BY <1>2, <3>2
  <2> QED BY <1>3, <2>1 DEF IsInjective
<1>5. ASSUME NEW j \in 1..n PROVE \E i \in 1..n : h[i] = j
  <2>1. PICK k \in 1..n : f[k] = j BY <1>1
  <2>2. PICK i \in 1..n : g[i] = k BY <1>2
  <2> QED BY <1>3, <2>1, <2>2
<1>6. h \in Bijection(1..n, 1..n) BY <1>3, <1>4, <1>5 DEF Bijection, Injection, Surjection
<1> QED BY <1>6 DEF h

\* One list is the other, rearranged by f.
Rearranges(f, s, t, n) == f \in Bijection(1..n, 1..n) /\ \A i \in 1..n : s[i] = t[f[i]]

\* A list and a permutation of it are the same once they are in order.
LEMMA InOrderUnique ==
  ASSUME NEW S, NEW R, TotalOrder(R, S), NEW n \in Nat,
         NEW s \in [1..n -> S], NEW t \in [1..n -> S], InOrder(s, R, n), InOrder(t, R, n),
         NEW f, Rearranges(f, s, t, n)
  PROVE  s = t
<1>1. f \in Bijection(1..n, 1..n) /\ \A i \in 1..n : s[i] = t[f[i]] BY DEF Rearranges
<1>2. PICK g \in Bijection(1..n, 1..n) : \A i \in 1..n : f[g[i]] = i /\ g[f[i]] = i
  BY <1>1, InverseOf
<1>3. \A i \in 1..n : t[i] = s[g[i]]
  <2>1. \A i \in 1..n : g[i] \in 1..n BY DEF Bijection, Injection
  <2> QED BY <1>1, <1>2, <2>1
<1>4. f \in Injection(1..n, 1..n) /\ g \in Injection(1..n, 1..n) BY <1>1 DEF Bijection
<1> QED BY <1>1, <1>3, <1>4, SortUnique

\* Lists that are permutations of each other are the same list once each is in order.
LEMMA PermutedUnique ==
  ASSUME NEW S, NEW R, TotalOrder(R, S), NEW s \in Seq(S), NEW t \in Seq(S),
         NEW h \in Bijection(DOMAIN s, DOMAIN t), \A i \in DOMAIN s : s[i] = t[h[i]],
         NEW u \in Permuted(s), InOrder(u, R, Len(s)),
         NEW v \in Permuted(t), InOrder(v, R, Len(t))
  PROVE  u = v
<1> DEFINE n == Len(s)
<1>1. n \in Nat /\ DOMAIN s = 1..n /\ Len(t) \in Nat /\ DOMAIN t = 1..Len(t) OBVIOUS
<1> HIDE DEF n
<1>2. Len(t) = n
  <2>1. 1 \in Int /\ n \in Int /\ Len(t) \in Int BY <1>1
  <2>2. ExistsBijection(1..n, 1..Len(t)) BY <1>1 DEF ExistsBijection
  <2>3. IsFiniteSet(1..n) /\ IsFiniteSet(1..Len(t)) BY <2>1, FS_Interval
  <2>4. Cardinality(1..Len(t)) = Cardinality(1..n) BY <2>2, <2>3, FS_Bijection
  <2>5. Cardinality(1..n) = IF 1 > n THEN 0 ELSE n - 1 + 1 BY <2>1, FS_Interval
  <2>6. Cardinality(1..Len(t)) = IF 1 > Len(t) THEN 0 ELSE Len(t) - 1 + 1
    BY <2>1, FS_Interval
  <2>7. Cardinality(1..n) = n BY <1>1, <2>5
  <2>8. Cardinality(1..Len(t)) = Len(t) BY <1>1, <2>6
  <2> QED BY <2>4, <2>7, <2>8
<1>3. PICK p \in Bijection(1..n, 1..n) : \A i \in 1..n : u[i] = s[p[i]]
  BY PermutedIs DEF n
<1>4. PICK q \in Bijection(1..n, 1..n) : \A i \in 1..n : v[i] = t[q[i]]
  BY <1>2, PermutedIs
<1>5. u \in [1..n -> S] BY PermutedIs DEF n
<1>6. v \in [1..n -> S] BY <1>2, PermutedIs
<1>7. PICK r \in Bijection(1..n, 1..n) : \A i \in 1..n : q[r[i]] = i /\ r[q[i]] = i
  BY InverseOf
<1>8. h \in Bijection(1..n, 1..n) /\ \A i \in 1..n : s[i] = t[h[i]] BY <1>1, <1>2
<1> DEFINE hp == [i \in 1..n |-> h[p[i]]]
           f == [i \in 1..n |-> r[hp[i]]]
<1>9. hp \in Bijection(1..n, 1..n) BY <1>8, Composed
<1>10. f \in Bijection(1..n, 1..n)
  <2> HIDE DEF hp
  <2> QED BY <1>9, Composed
<1>11. ASSUME NEW i \in 1..n PROVE u[i] = v[f[i]]
  <2>1. p[i] \in 1..n BY DEF Bijection, Injection
  <2>2. h[p[i]] \in 1..n BY <1>8, <2>1 DEF Bijection, Injection
  <2>3. r[h[p[i]]] \in 1..n BY <2>2 DEF Bijection, Injection
  <2>4. v[r[h[p[i]]]] = t[h[p[i]]] BY <1>4, <1>7, <2>2, <2>3
  <2> QED BY <1>3, <1>8, <2>1, <2>4
<1> HIDE DEF f, hp
<1>12. InOrder(u, R, n) /\ InOrder(v, R, n) BY <1>2 DEF n
<1>13. Rearranges(f, u, v, n) BY <1>10, <1>11 DEF Rearranges
<1> QED BY <1>1, <1>5, <1>6, <1>12, <1>13, InOrderUnique

\* Names in order.
SortedNames(names) == Sorted(names, Precedes)

\* Sorting a list of strings puts it in order and keeps its elements.
LEMMA SortedNamesInOrder ==
  ASSUME NEW names \in Seq(Strings)
  PROVE  /\ SortedNames(names) \in Permuted(names)
         /\ InOrder(SortedNames(names), TextOrder, Len(names))
<1>1. PICK t \in Permuted(names) : InOrder(t, TextOrder, Len(names))
  BY TextsOrdered, PermutedInOrder
<1>2. ASSUME NEW u \in Permuted(names)
      PROVE  /\ u \in [1..Len(names) -> Strings]
             /\ InOrder(u, TextOrder, Len(names)) <=>
                  \A i, j \in DOMAIN u : i < j => Precedes(u[i], u[j]) \/ u[i] = u[j]
  <2>1. u \in [1..Len(names) -> Strings] /\ DOMAIN u = 1..Len(names) BY PermutedIs
  <2>2. \A i, j \in 1..Len(names) : <<u[i], u[j]>> \in TextOrder <=> Precedes(u[i], u[j])
    BY <2>1 DEF TextOrder
  <2> QED BY <2>1, <2>2 DEF InOrder
<1> DEFINE c == CHOOSE u \in Permuted(names) :
             \A i, j \in DOMAIN u : i < j => Precedes(u[i], u[j]) \/ u[i] = u[j]
<1>3. c \in Permuted(names) /\ \A i, j \in DOMAIN c : i < j => Precedes(c[i], c[j]) \/ c[i] = c[j]
  BY <1>1, <1>2
<1>4. SortedNames(names) = c BY DEF SortedNames, Sorted
<1> HIDE DEF c
<1> QED BY <1>2, <1>3, <1>4

\* Keys in order.
SortedKeys(keys) == Sorted(keys, LAMBDA x, y : x < y)

\* The order of keys, as a relation.
KeyOrder == {p \in Bytes \X Bytes : p[1] < p[2]}

\* It is a total order.
LEMMA KeysOrdered == TotalOrder(KeyOrder, Bytes)
<1>1. \A b \in Bytes : b \in Int BY PolicyCodecAssumption DEF Bytes
<1>2. \A x, y \in Bytes : <<x, y>> \in KeyOrder <=> x < y BY DEF KeyOrder
<1> QED BY <1>1, <1>2 DEF TotalOrder

\* Sorting a list of keys puts it in order.
LEMMA SortedKeysInOrder ==
  ASSUME NEW keys \in Seq(Bytes)
  PROVE  /\ SortedKeys(keys) \in Permuted(keys)
         /\ InOrder(SortedKeys(keys), KeyOrder, Len(keys))
<1>1. PICK t \in Permuted(keys) : InOrder(t, KeyOrder, Len(keys))
  BY KeysOrdered, PermutedInOrder
<1>2. ASSUME NEW u \in Permuted(keys)
      PROVE  /\ u \in [1..Len(keys) -> Bytes]
             /\ InOrder(u, KeyOrder, Len(keys)) <=>
                  \A i, j \in DOMAIN u : i < j => u[i] < u[j] \/ u[i] = u[j]
  <2>1. u \in [1..Len(keys) -> Bytes] /\ DOMAIN u = 1..Len(keys) BY PermutedIs
  <2>2. \A i, j \in 1..Len(keys) : <<u[i], u[j]>> \in KeyOrder <=> u[i] < u[j]
    BY <2>1 DEF KeyOrder
  <2> QED BY <2>1, <2>2 DEF InOrder
<1> DEFINE c == CHOOSE u \in Permuted(keys) :
             \A i, j \in DOMAIN u : i < j => u[i] < u[j] \/ u[i] = u[j]
<1>3. c \in Permuted(keys) /\ \A i, j \in DOMAIN c : i < j => c[i] < c[j] \/ c[i] = c[j]
  BY <1>1, <1>2
<1>4. SortedKeys(keys) = c BY DEF SortedKeys, Sorted
<1> HIDE DEF c
<1> QED BY <1>2, <1>3, <1>4

-----------------------------------------------------------------------------
(* Parts of a document, as bytes. *)

\* The versions of a document: each domain once.
IsVersions(versions) ==
  /\ versions \subseteq Texts \X Schemas
  /\ IsFiniteSet(versions)
  /\ \A p, q \in versions : p[1] = q[1] => p = q

\* Versions in order.
SortedPairs(versions) == Sorted(SetToSeq(versions), LAMBDA p, q : Precedes(p[1], q[1]))

\* The order of versions: that of their domains.
PairOrder(versions) == {w \in versions \X versions : Precedes(w[1][1], w[2][1])}

\* It is a total order, because each domain is there once.
LEMMA PairsOrdered ==
  ASSUME NEW versions, IsVersions(versions)
  PROVE  TotalOrder(PairOrder(versions), versions)
<1>1. \A p \in versions : p[1] \in Strings
  <2> SUFFICES ASSUME NEW p \in versions PROVE p[1] \in Strings OBVIOUS
  <2>1. p[1] \in Texts BY DEF IsVersions
  <2> QED BY <2>1 DEF Texts, Strings
<1>2. \A p, q \in versions : p[1] = q[1] => p = q BY DEF IsVersions
<1>3. \A p, q \in versions : <<p, q>> \in PairOrder(versions) <=> <<p[1], q[1]>> \in TextOrder
  BY <1>1 DEF PairOrder, TextOrder
<1>4. /\ \A x \in Strings : <<x, x>> \notin TextOrder
      /\ \A x, y, z \in Strings : <<x, y>> \in TextOrder /\ <<y, z>> \in TextOrder
                                    => <<x, z>> \in TextOrder
      /\ \A x, y \in Strings : x # y => <<x, y>> \in TextOrder \/ <<y, x>> \in TextOrder
  BY TextsOrdered DEF TotalOrder
<1>5. \A p \in versions : <<p, p>> \notin PairOrder(versions) BY <1>1, <1>3, <1>4
<1>6. ASSUME NEW p \in versions, NEW q \in versions, NEW r \in versions,
             <<p, q>> \in PairOrder(versions), <<q, r>> \in PairOrder(versions)
      PROVE  <<p, r>> \in PairOrder(versions)
  BY <1>1, <1>3, <1>4, <1>6
<1>7. ASSUME NEW p \in versions, NEW q \in versions, p # q
      PROVE  <<p, q>> \in PairOrder(versions) \/ <<q, p>> \in PairOrder(versions)
  BY <1>1, <1>2, <1>3, <1>4, <1>7
<1> QED BY <1>5, <1>6, <1>7 DEF TotalOrder

\* The elements of a finite set, in some order.
LEMMA EnumeratedSet ==
  ASSUME NEW S, IsFiniteSet(S)
  PROVE  /\ Cardinality(S) \in Nat
         /\ SetToSeq(S) \in Seq(S) /\ Len(SetToSeq(S)) = Cardinality(S)
         /\ DOMAIN SetToSeq(S) = 1..Cardinality(S)
         /\ SetToSeq(S) \in Bijection(1..Cardinality(S), S)
<1> DEFINE n == Cardinality(S)
           c == CHOOSE f \in [1..n -> S] : IsInjective(f)
<1>1. n \in Nat /\ \E f : f \in Bijection(1..n, S)
  BY FS_CardinalityType DEF ExistsBijection
<1> HIDE DEF n
<1>2. PICK f : f \in Bijection(1..n, S) BY <1>1
<1>3. f \in [1..n -> S] /\ IsInjective(f) BY <1>2 DEF Bijection, Injection
<1>4. c \in [1..n -> S] /\ IsInjective(c) BY <1>3
<1>5. SetToSeq(S) = c BY DEF SetToSeq, n
<1> HIDE DEF c
<1>6. c \in Injection(1..n, S) BY <1>4 DEF Injection
<1>7. IsFiniteSet(1..n) /\ Cardinality(1..n) = n
  <2>1. 1 \in Int /\ n \in Int BY <1>1
  <2>2. IsFiniteSet(1..n) /\ Cardinality(1..n) = IF 1 > n THEN 0 ELSE n - 1 + 1
    BY <2>1, FS_Interval
  <2> QED BY <1>1, <2>2
<1>8. c \in Surjection(1..n, S)
  <2>1. Cardinality(1..n) = Cardinality(S) <=> c \in Surjection(1..n, S)
    BY <1>6, FS_Injection
  <2> QED BY <1>7, <2>1 DEF n
<1>9. c \in Bijection(1..n, S) BY <1>6, <1>8 DEF Bijection
<1>10. c \in Seq(S) /\ Len(c) = n /\ DOMAIN c = 1..n BY <1>1, <1>4
<1> QED BY <1>1, <1>5, <1>9, <1>10 DEF n

\* Sorting the versions of a document puts them in order.
LEMMA SortedPairsInOrder ==
  ASSUME NEW versions, IsVersions(versions)
  PROVE  /\ SortedPairs(versions) \in Permuted(SetToSeq(versions))
         /\ InOrder(SortedPairs(versions), PairOrder(versions), Cardinality(versions))
<1> DEFINE s == SetToSeq(versions)
           n == Cardinality(versions)
           R == PairOrder(versions)
<1>1. s \in Seq(versions) /\ Len(s) = n BY EnumeratedSet DEF IsVersions
<1> HIDE DEF s, n
<1>2. PICK t \in Permuted(s) : InOrder(t, R, n) BY <1>1, PairsOrdered, PermutedInOrder
<1>3. ASSUME NEW u \in Permuted(s)
      PROVE  /\ u \in [1..n -> versions]
             /\ InOrder(u, R, n) <=>
                  \A i, j \in DOMAIN u : i < j => Precedes(u[i][1], u[j][1]) \/ u[i] = u[j]
  <2>1. u \in [1..n -> versions] /\ DOMAIN u = 1..n BY <1>1, PermutedIs
  <2>2. \A i, j \in 1..n : <<u[i], u[j]>> \in R <=> Precedes(u[i][1], u[j][1])
    BY <2>1 DEF PairOrder
  <2> HIDE DEF R
  <2> QED BY <2>1, <2>2 DEF InOrder
<1> DEFINE c == CHOOSE u \in Permuted(s) :
             \A i, j \in DOMAIN u : i < j => Precedes(u[i][1], u[j][1]) \/ u[i] = u[j]
<1> HIDE DEF R
<1>4. /\ c \in Permuted(s)
      /\ \A i, j \in DOMAIN c : i < j => Precedes(c[i][1], c[j][1]) \/ c[i] = c[j]
  BY <1>2, <1>3
<1>5. SortedPairs(versions) = c BY DEF SortedPairs, Sorted, s
<1> HIDE DEF c
<1> QED BY <1>3, <1>4, <1>5 DEF s, n, R

\* A schema as bytes.
LEMMA JsonIsBytes ==
  ASSUME NEW schema \in Schemas
  PROVE  /\ CanonicalJson(schema)
              = IF schema.given THEN <<1>> \o SortedKeys(schema.keys) ELSE << >>
         /\ CanonicalJson(schema) \in Strings
         /\ Len(CanonicalJson(schema)) <= Len(schema.keys) + 1
<1> DEFINE keys == schema.keys
           sorted == SortedKeys(keys)
<1>1. keys \in Seq(Bytes) /\ Len(keys) \in Nat BY DEF Schemas
<1>2. sorted \in Seq(Bytes) /\ Len(sorted) = Len(keys)
  BY <1>1, SortedKeysInOrder, PermutedIs
<1>3. CanonicalJson(schema) = IF schema.given THEN <<1>> \o sorted ELSE << >>
  BY DEF CanonicalJson, SortedKeys
<1> HIDE DEF sorted, keys
<1>4. 1 \in Bytes BY PolicyCodecAssumption DEF Bytes
<1>5. <<1>> \in Seq(Bytes) /\ Len(<<1>>) = 1 BY <1>4
<1>6. <<1>> \o sorted \in Seq(Bytes) /\ Len(<<1>> \o sorted) = 1 + Len(keys)
  BY <1>2, <1>5
<1>7. << >> \in Seq(Bytes) /\ Len(<< >>) = 0 OBVIOUS
<1>8. CanonicalJson(schema) \in Strings /\ Len(CanonicalJson(schema)) <= Len(keys) + 1
  <2>1. CASE schema.given BY <1>1, <1>3, <1>6, <2>1 DEF Strings
  <2>2. CASE ~ schema.given BY <1>1, <1>3, <1>7, <2>2 DEF Strings
  <2> QED BY <2>1, <2>2
<1> QED BY <1>3, <1>8 DEF sorted, keys

\* A well-formed document whose lengths and caps are u32s and u64s.
Encodable(doc) == IsOraclePolicy(doc) /\ FitsWidths(doc)

\* A schema whose keys fit a length, as a string that fits one.
LEMMA SchemaIsShort ==
  ASSUME NEW schema \in Schemas, Len(schema.keys) + 1 < Values(LenWidth)
  PROVE  Short(CanonicalJson(schema))
<1>1. /\ CanonicalJson(schema) \in Strings
      /\ Len(CanonicalJson(schema)) <= Len(schema.keys) + 1
  BY JsonIsBytes
<1>2. Values(LenWidth) \in Nat BY ValuesStep, PolicyCodecAssumption
<1>3. Len(CanonicalJson(schema)) \in Nat BY <1>1 DEF Strings
<1>4. schema.keys \in Seq(Bytes) BY DEF Schemas
<1>5. Len(schema.keys) \in Nat BY <1>4
<1> QED BY <1>1, <1>2, <1>3, <1>5 DEF Short

\* The names of a document, in order.
LEMMA NamesAreShort ==
  ASSUME NEW names \in Seq(Texts), Len(names) < Values(LenWidth),
         \A i \in DOMAIN names : Len(names[i]) < Values(LenWidth)
  PROVE  /\ ShortTexts(SortedNames(names))
         /\ Range(SortedNames(names)) = Range(names)
         /\ StringList(names)
              = Counted([i \in DOMAIN SortedNames(names) |-> Blob(SortedNames(names)[i])])
         /\ StringList(names) \in Strings
<1> DEFINE t == SortedNames(names)
<1>1. Texts \subseteq Strings BY DEF Texts, Strings
<1>2. names \in Seq(Strings) /\ Len(names) \in Nat /\ DOMAIN names = 1..Len(names)
  BY <1>1
<1>3. t \in Permuted(names) BY <1>2, SortedNamesInOrder
<1>4. StringList(names) = Counted([i \in DOMAIN t |-> Blob(t[i])])
  BY DEF StringList, SortedNames
<1> HIDE DEF t
<1>5. t \in Seq(Texts) /\ Len(t) = Len(names) /\ Range(t) = Range(names)
  BY <1>3, PermutedIs
<1>6. PICK p \in Bijection(1..Len(names), 1..Len(names)) :
        \A i \in 1..Len(names) : t[i] = names[p[i]]
  BY <1>3, PermutedIs
<1>7. ASSUME NEW i \in DOMAIN t PROVE Short(t[i]) /\ Blob(t[i]) \in Strings
  <2>1. i \in 1..Len(names) /\ t[i] \in Texts BY <1>5
  <2>2. p[i] \in DOMAIN names BY <1>2, <2>1 DEF Bijection, Injection
  <2>3. Len(t[i]) < Values(LenWidth) BY <1>6, <2>1, <2>2
  <2>4. t[i] \in Strings BY <1>1, <2>1
  <2> QED BY <2>3, <2>4, BlobIsBytes DEF Short
<1>8. ShortTexts(t) BY <1>5, <1>7 DEF ShortTexts
<1>9. Counted([i \in DOMAIN t |-> Blob(t[i])]) \in Strings
  <2> DEFINE blobs == [i \in DOMAIN t |-> Blob(t[i])]
  <2>1. DOMAIN t = 1..Len(t) /\ Len(t) \in Nat BY <1>5
  <2>2. blobs \in Seq(Strings) BY <1>7, <2>1
  <2> HIDE DEF blobs
  <2>3. Counted(blobs) \in Strings BY <2>2, CountedIsBytes
  <2> QED BY <2>3 DEF blobs
<1> QED BY <1>4, <1>5, <1>8, <1>9 DEF t

-----------------------------------------------------------------------------
(* Reading a document. *)

\* The parts of a document, as bytes.
LEMMA PairsAreBytes ==
  ASSUME NEW doc, Encodable(doc)
  PROVE  \E N, a, b :
           /\ N \in Nat /\ N < Values(LenWidth)
           /\ a \in [1..N -> Strings] /\ b \in [1..N -> Strings]
           /\ \A i \in 1..N : Short(a[i]) /\ Short(b[i])
           /\ SchemaPairs(doc.schema_versions) = PairBytes(a, b, N)
           /\ SchemaPairs(doc.schema_versions) \in Strings
<1> DEFINE versions == doc.schema_versions
           N == Cardinality(versions)
           t == SortedPairs(versions)
           a == [i \in 1..N |-> t[i][1]]
           b == [i \in 1..N |-> CanonicalJson(t[i][2])]
<1>1. /\ IsVersions(versions) /\ N < Values(LenWidth)
      /\ \A p \in versions : /\ p[1] \in Texts /\ p[2] \in Schemas
                             /\ Len(p[1]) < Values(LenWidth)
                             /\ Len(p[2].keys) + 1 < Values(LenWidth)
  BY DEF Encodable, IsOraclePolicy, FitsWidths, IsVersions
<1> HIDE DEF versions
<1>2. N \in Nat /\ SetToSeq(versions) \in Seq(versions) /\ Len(SetToSeq(versions)) = N
  BY <1>1, EnumeratedSet DEF IsVersions
<1>3. t \in Permuted(SetToSeq(versions)) BY <1>1, SortedPairsInOrder
<1>4. SchemaPairs(versions)
        = Counted([i \in DOMAIN t |-> Blob(t[i][1]) \o Blob(CanonicalJson(t[i][2]))])
  BY DEF SchemaPairs, SortedPairs
<1> HIDE DEF t, N
<1>5. t \in [1..N -> versions] BY <1>2, <1>3, PermutedIs
<1>6. ASSUME NEW i \in 1..N
      PROVE  /\ Short(a[i]) /\ a[i] = t[i][1]
             /\ Short(b[i]) /\ b[i] = CanonicalJson(t[i][2])
  <2>1. t[i] \in versions BY <1>5
  <2>2. t[i][1] \in Strings /\ Len(t[i][1]) < Values(LenWidth)
    BY <1>1, <2>1 DEF Texts, Strings
  <2>3. Short(CanonicalJson(t[i][2])) BY <1>1, <2>1, SchemaIsShort
  <2> QED BY <2>2, <2>3 DEF Short
<1>7. a \in [1..N -> Strings] /\ b \in [1..N -> Strings] BY <1>6 DEF Short
<1> DEFINE pairs == [i \in 1..N |-> Blob(a[i]) \o Blob(b[i])]
<1>8. [i \in DOMAIN t |-> Blob(t[i][1]) \o Blob(CanonicalJson(t[i][2]))] = pairs
  BY <1>5, <1>6
<1>9. PairBytes(a, b, N) = Counted(pairs) BY DEF PairBytes
<1> HIDE DEF a, b
<1>10. pairs \in Seq(Strings)
  <2>1. ASSUME NEW i \in 1..N PROVE Blob(a[i]) \o Blob(b[i]) \in Strings
    <3>1. Blob(a[i]) \in Strings /\ Blob(b[i]) \in Strings BY <1>7, BlobIsBytes
    <3> QED BY <3>1 DEF Strings
  <2> QED BY <1>2, <2>1
<1> HIDE DEF pairs
<1>11. Counted(pairs) \in Strings BY <1>10, CountedIsBytes
<1>12. SchemaPairs(versions) = Counted(pairs) BY <1>4, <1>8
<1> QED BY <1>1, <1>2, <1>6, <1>7, <1>11, <1>12, <1>9 DEF versions, N

\* What is typed and short in an encodable document.
LEMMA EncodableParts ==
  ASSUME NEW doc, Encodable(doc)
  PROVE  /\ doc.allowed_domains \in Seq(Texts) /\ Len(doc.allowed_domains) < Values(LenWidth)
         /\ \A i \in DOMAIN doc.allowed_domains : Len(doc.allowed_domains[i]) < Values(LenWidth)
         /\ doc.allowed_http_methods \in Seq(Texts)
         /\ Len(doc.allowed_http_methods) < Values(LenWidth)
         /\ \A i \in DOMAIN doc.allowed_http_methods :
              Len(doc.allowed_http_methods[i]) < Values(LenWidth)
         /\ doc.max_tool_calls \in Nat /\ doc.max_tool_calls < Values(CapWidth)
         /\ doc.max_payload_bytes_per_call \in Nat
         /\ doc.max_payload_bytes_per_call < Values(CapWidth)
         /\ doc.tls_requirement \in 0..2
         /\ doc.required_output_schema \in Schemas
         /\ Len(doc.required_output_schema.keys) + 1 < Values(LenWidth)
BY DEF Encodable, IsOraclePolicy, FitsWidths, UnattestedPermitted, RequiredAttested

\* The fields that are enforced.
Fields(doc) ==
  <<SortedNames(doc.allowed_domains), SortedNames(doc.allowed_http_methods),
    doc.max_tool_calls, doc.max_payload_bytes_per_call, doc.tls_requirement>>

\* One byte is itself, as an integer.
LEMMA TlsByte ==
  ASSUME NEW n \in 0..2
  PROVE  LittleEndian(n, 1) = <<n>> /\ n < Values(1) /\ <<n>> \in Strings
<1>1. Values(0) = 1 /\ Values(1) = Base /\ Base \in Nat /\ Base > 2
  <2>1. Values(0 + 1) = Base * Values(0) BY ValuesStep
  <2>2. Base \in Nat BY PolicyCodecAssumption
  <2> QED BY <2>1, <2>2, ValuesStep, PolicyCodecAssumption
<1>2. (n \div 1) % Base = n BY <1>1
<1>3. LittleEndian(n, 1) \in Strings /\ Len(LittleEndian(n, 1)) = 1
      /\ LittleEndian(n, 1)[1] = (n \div Values(1 - 1)) % Base
  <2>1. n \in Nat /\ 1 \in Nat /\ 1 \in 1..1 OBVIOUS
  <2> QED BY <2>1, IntIsBytes
<1>4. LittleEndian(n, 1)[1] = n BY <1>1, <1>2, <1>3
<1> DEFINE s == LittleEndian(n, 1)
<1>5. s = <<n>>
  <2> HIDE DEF s
  <2> QED BY <1>3, <1>4 DEF s, Strings
<1> QED BY <1>1, <1>3, <1>5

\* A field is added to those found so far.
LEMMA FieldAdded ==
  ASSUME NEW buf, NEW pos, NEW last, NEW items, NEW fields
  PROVE  AsField(Rd(buf, pos, last, items, fields))
           = Rd(buf, pos, last, items, Append(fields, last))
BY DEF AsField, Rd

\* A sequence with one element more.
LEMMA AppendIs ==
  ASSUME NEW S, NEW u \in Seq(S), NEW e \in S, NEW v \in Seq(S), Len(v) = Len(u) + 1,
         v[Len(u) + 1] = e, \A i \in 1..Len(u) : u[i] = v[i]
  PROVE  Append(u, e) = v
<1> DEFINE w == Append(u, e)
<1>1. /\ w \in Seq(S) /\ Len(w) = Len(u) + 1 /\ Len(u) \in Nat /\ w[Len(u) + 1] = e
      /\ \A i \in 1..Len(u) : w[i] = u[i]
  OBVIOUS
<1> HIDE DEF w
<1>2. \A i \in 1..Len(v) : w[i] = v[i] BY <1>1
<1> QED BY <1>1, <1>2 DEF w

\* The five fields, found one after the other.
LEMMA FiveFields ==
  ASSUME NEW a, NEW b, NEW c, NEW d, NEW e
  PROVE  Append(Append(Append(Append(Append(<< >>, a), b), c), d), e) = <<a, b, c, d, e>>
<1> DEFINE S == {a, b, c, d, e}
<1>1. /\ <<a>> \in Seq(S) /\ <<a, b>> \in Seq(S) /\ <<a, b, c>> \in Seq(S)
      /\ <<a, b, c, d>> \in Seq(S) /\ <<a, b, c, d, e>> \in Seq(S)
      /\ b \in S /\ c \in S /\ d \in S /\ e \in S
  OBVIOUS
<1> HIDE DEF S
<1>2. Append(<< >>, a) = <<a>> OBVIOUS
<1>3. Append(<<a>>, b) = <<a, b>>
  <2> DEFINE u == <<a>>  v == <<a, b>>
  <2>1. Len(u) = 1 /\ Len(v) = 2 /\ u[1] = a /\ v[1] = a /\ v[2] = b OBVIOUS
  <2>2. u \in Seq(S) /\ v \in Seq(S) BY <1>1
  <2> HIDE DEF u, v
  <2>3. Len(v) = Len(u) + 1 /\ v[Len(u) + 1] = b /\ \A i \in 1..Len(u) : u[i] = v[i]
    BY <2>1
  <2>4. Append(u, b) = v BY <1>1, <2>2, <2>3, AppendIs
  <2> QED BY <2>4 DEF u, v
<1>4. Append(<<a, b>>, c) = <<a, b, c>>
  <2> DEFINE u == <<a, b>>  v == <<a, b, c>>
  <2>1. Len(u) = 2 /\ Len(v) = 3 /\ u[1] = a /\ u[2] = b /\ v[1] = a /\ v[2] = b /\ v[3] = c
    OBVIOUS
  <2>2. u \in Seq(S) /\ v \in Seq(S) BY <1>1
  <2> HIDE DEF u, v
  <2>3. Len(v) = Len(u) + 1 /\ v[Len(u) + 1] = c /\ \A i \in 1..Len(u) : u[i] = v[i]
    BY <2>1
  <2>4. Append(u, c) = v BY <1>1, <2>2, <2>3, AppendIs
  <2> QED BY <2>4 DEF u, v
<1>5. Append(<<a, b, c>>, d) = <<a, b, c, d>>
  <2> DEFINE u == <<a, b, c>>  v == <<a, b, c, d>>
  <2>1. /\ Len(u) = 3 /\ Len(v) = 4 /\ u[1] = a /\ u[2] = b /\ u[3] = c
        /\ v[1] = a /\ v[2] = b /\ v[3] = c /\ v[4] = d
    OBVIOUS
  <2>2. u \in Seq(S) /\ v \in Seq(S) BY <1>1
  <2> HIDE DEF u, v
  <2>3. Len(v) = Len(u) + 1 /\ v[Len(u) + 1] = d /\ \A i \in 1..Len(u) : u[i] = v[i]
    BY <2>1
  <2>4. Append(u, d) = v BY <1>1, <2>2, <2>3, AppendIs
  <2> QED BY <2>4 DEF u, v
<1>6. Append(<<a, b, c, d>>, e) = <<a, b, c, d, e>>
  <2> DEFINE u == <<a, b, c, d>>  v == <<a, b, c, d, e>>
  <2>1. /\ Len(u) = 4 /\ Len(v) = 5 /\ u[1] = a /\ u[2] = b /\ u[3] = c /\ u[4] = d
        /\ v[1] = a /\ v[2] = b /\ v[3] = c /\ v[4] = d /\ v[5] = e
    OBVIOUS
  <2>2. u \in Seq(S) /\ v \in Seq(S) BY <1>1
  <2> HIDE DEF u, v
  <2>3. Len(v) = Len(u) + 1 /\ v[Len(u) + 1] = e /\ \A i \in 1..Len(u) : u[i] = v[i]
    BY <2>1
  <2>4. Append(u, e) = v BY <1>1, <2>2, <2>3, AppendIs
  <2> QED BY <2>4 DEF u, v
<1> QED BY <1>2, <1>3, <1>4, <1>5, <1>6

\* A string with another before it is no shorter.
LEMMA JoinedIsLonger ==
  ASSUME NEW s \in Strings, NEW t \in Strings, Len(s) > 0
  PROVE  s \o t \in Strings /\ Len(s \o t) > 0
<1>1. Len(s \o t) = Len(s) + Len(t) /\ Len(s) \in Nat /\ Len(t) \in Nat BY Joined
<1> QED BY <1>1, Joined

\* The parts of a document are bytes, and so is the document.
LEMMA CanonicalIsBytes ==
  ASSUME NEW doc, Encodable(doc)
  PROVE  CanonicalBytes(doc) \in Strings /\ Len(CanonicalBytes(doc)) > 0
<1> DEFINE A == StringList(doc.allowed_domains)
           B == StringList(doc.allowed_http_methods)
           C == LittleEndian(doc.max_tool_calls, CapWidth)
           D == LittleEndian(doc.max_payload_bytes_per_call, CapWidth)
           E == <<doc.tls_requirement>>
           F == Blob(CanonicalJson(doc.required_output_schema))
           G == SchemaPairs(doc.schema_versions)
<1>1. A \in Strings /\ B \in Strings BY EncodableParts, NamesAreShort
<1>2. C \in Strings /\ D \in Strings BY EncodableParts, IntIsBytes, PolicyCodecAssumption
<1>3. E \in Strings BY EncodableParts, TlsByte
<1>4. F \in Strings BY EncodableParts, JsonIsBytes, BlobIsBytes
<1>5. G \in Strings BY PairsAreBytes
<1>6. CanonicalBytes(doc) = (((((A \o B) \o C) \o D) \o E) \o F) \o G BY DEF CanonicalBytes
<1>7. Len(E) = 1 OBVIOUS
<1> HIDE DEF A, B, C, D, E, F, G
<1> DEFINE H == ((A \o B) \o C) \o D
<1>8. H \in Strings BY <1>1, <1>2, Joined
<1> HIDE DEF H
<1>9. (H \o E) \in Strings /\ Len(H \o E) > 0
  <2>1. (H \o E) \in Strings /\ Len(H \o E) = Len(H) + Len(E) /\ Len(H) \in Nat
    BY <1>3, <1>8, Joined
  <2> QED BY <1>7, <2>1
<1>10. ((H \o E) \o F) \in Strings /\ Len((H \o E) \o F) > 0 BY <1>4, <1>9, JoinedIsLonger
<1>11. (((H \o E) \o F) \o G) \in Strings /\ Len(((H \o E) \o F) \o G) > 0
  BY <1>5, <1>10, JoinedIsLonger
<1> QED BY <1>6, <1>11 DEF H

\* A document can be read, whatever comes after it.
LEMMA ReadDocument ==
  ASSUME NEW doc, Encodable(doc), NEW buf \in Strings, At(buf, 0, CanonicalBytes(doc))
  PROVE  \E last, items :
           ReadAll(buf) = Rd(buf, Len(CanonicalBytes(doc)), last, items, Fields(doc))
<1> DEFINE A == StringList(doc.allowed_domains)
           B == StringList(doc.allowed_http_methods)
           calls == doc.max_tool_calls
           C == LittleEndian(calls, CapWidth)
           bytes == doc.max_payload_bytes_per_call
           D == LittleEndian(bytes, CapWidth)
           tls == doc.tls_requirement
           json == CanonicalJson(doc.required_output_schema)
           F == Blob(json)
           G == SchemaPairs(doc.schema_versions)
           domains == SortedNames(doc.allowed_domains)
           methods == SortedNames(doc.allowed_http_methods)
<1> DEFINE start == 0
<1>1. /\ A \in Strings /\ ShortTexts(domains)
      /\ A = Counted([i \in DOMAIN domains |-> Blob(domains[i])])
  BY EncodableParts, NamesAreShort
<1>2. /\ B \in Strings /\ ShortTexts(methods)
      /\ B = Counted([i \in DOMAIN methods |-> Blob(methods[i])])
  BY EncodableParts, NamesAreShort
<1>3. CapWidth \in Nat /\ LenWidth \in Nat /\ LenWidth > 0 BY PolicyCodecAssumption
<1>4. C \in Strings /\ Len(C) = CapWidth /\ calls \in Nat /\ calls < Values(CapWidth)
  BY <1>3, EncodableParts, IntIsBytes
<1>5. D \in Strings /\ Len(D) = CapWidth /\ bytes \in Nat /\ bytes < Values(CapWidth)
  BY <1>3, EncodableParts, IntIsBytes
<1>6. tls \in 0..2 /\ LittleEndian(tls, 1) = <<tls>> /\ tls < Values(1) /\ <<tls>> \in Strings
  BY EncodableParts, TlsByte
<1>7. Short(json) /\ F \in Strings
  <2>1. Short(json) BY EncodableParts, SchemaIsShort
  <2> QED BY <2>1, BlobIsBytes DEF Short
<1>8. PICK N, a, b :
           /\ N \in Nat /\ N < Values(LenWidth)
           /\ a \in [1..N -> Strings] /\ b \in [1..N -> Strings]
           /\ \A i \in 1..N : Short(a[i]) /\ Short(b[i])
           /\ G = PairBytes(a, b, N)
           /\ G \in Strings
  BY PairsAreBytes
<1>9. CanonicalBytes(doc) = (((((A \o B) \o C) \o D) \o <<tls>>) \o F) \o G
  BY DEF CanonicalBytes
<1>10. Fields(doc) = <<domains, methods, calls, bytes, tls>> BY DEF Fields
<1>11. Reader(buf) = Rd(buf, start, << >>, << >>, << >>) BY DEF Reader, Rd
<1> HIDE DEF A, B, C, D, F, G, calls, bytes, tls, json, domains, methods
<1> DEFINE AB == A \o B
           AC == AB \o C
           AD == AC \o D
           AE == AD \o <<tls>>
           AF == AE \o F
           AG == AF \o G
<1>12. AB \in Strings /\ Len(AB) = Len(A) + Len(B) BY <1>1, <1>2, Joined
<1> HIDE DEF AB
<1>13. AC \in Strings /\ Len(AC) = Len(AB) + CapWidth BY <1>4, <1>12, Joined
<1> HIDE DEF AC
<1>14. AD \in Strings /\ Len(AD) = Len(AC) + CapWidth BY <1>5, <1>13, Joined
<1> HIDE DEF AD
<1>15. AE \in Strings /\ Len(AE) = Len(AD) + 1
  <2>1. <<tls>> \in Seq(Bytes) /\ Len(<<tls>>) = 1 BY <1>6 DEF Strings
  <2> QED BY <1>6, <1>14, <2>1, Joined
<1> HIDE DEF AE
<1>16. AF \in Strings /\ Len(AF) = Len(AE) + Len(F) BY <1>7, <1>15, Joined
<1> HIDE DEF AF
<1>17. AG \in Strings /\ Len(AG) = Len(AF) + Len(G) BY <1>8, <1>16, Joined
<1> HIDE DEF AG
<1>18. CanonicalBytes(doc) = AG BY <1>9 DEF AB, AC, AD, AE, AF, AG
<1>19. At(buf, start, AG) BY <1>18
<1> HIDE DEF start
<1>20. start \in Nat BY <1>19 DEF At
<1>21. At(buf, start, AF) /\ At(buf, start + Len(AF), G) BY <1>8, <1>16, <1>19, AtSplit DEF AG
<1>22. At(buf, start, AE) /\ At(buf, start + Len(AE), F) BY <1>7, <1>15, <1>21, AtSplit DEF AF
<1>23. At(buf, start, AD) /\ At(buf, start + Len(AD), <<tls>>) BY <1>6, <1>14, <1>22, AtSplit DEF AE
<1>24. At(buf, start, AC) /\ At(buf, start + Len(AC), D) BY <1>5, <1>13, <1>23, AtSplit DEF AD
<1>25. At(buf, start, AB) /\ At(buf, start + Len(AB), C) BY <1>4, <1>12, <1>24, AtSplit DEF AC
<1>26. At(buf, start, A) /\ At(buf, start + Len(A), B) BY <1>1, <1>2, <1>25, AtSplit DEF AB
<1>27. StringField(Reader(buf)) = Rd(buf, start + Len(A), domains, domains, Append(<< >>, domains))
  <2>1. TakeList(Rd(buf, start, << >>, << >>, << >>)) = Rd(buf, start + Len(A), domains, domains, << >>)
    BY <1>1, <1>26, ReadList
  <2> QED BY <1>11, <2>1, FieldAdded DEF StringField
<1> DEFINE f1 == Append(<< >>, domains)
           f2 == Append(f1, methods)
           f3 == Append(f2, calls)
           f4 == Append(f3, bytes)
           f5 == Append(f4, tls)
<1>28. f5 = Fields(doc) BY <1>10, FiveFields
<1> HIDE DEF f1, f2, f3, f4, f5
<1>29. StringField(Rd(buf, start + Len(A), domains, domains, f1))
         = Rd(buf, start + Len(AB), methods, methods, f2)
  <2>1. TakeList(Rd(buf, start + Len(A), domains, domains, f1))
          = Rd(buf, (start + Len(A)) + Len(B), methods, methods, f1)
    BY <1>2, <1>26, ReadList
  <2>2. (start + Len(A)) + Len(B) = start + Len(AB) BY <1>1, <1>2, <1>12, <1>20, Joined
  <2> QED BY <2>1, <2>2, FieldAdded DEF StringField, f2
<1>30. CapField(Rd(buf, start + Len(AB), methods, methods, f2))
         = Rd(buf, start + Len(AC), calls, methods, f3)
  <2>1. TakeInt(Rd(buf, start + Len(AB), methods, methods, f2), CapWidth)
          = Rd(buf, (start + Len(AB)) + CapWidth, calls, methods, f2)
    BY <1>3, <1>4, <1>25, ReadInt DEF C
  <2>2. (start + Len(AB)) + CapWidth = start + Len(AC) BY <1>3, <1>12, <1>13, <1>20, Joined
  <2> QED BY <2>1, <2>2, FieldAdded DEF CapField, f3
<1>31. CapField(Rd(buf, start + Len(AC), calls, methods, f3))
         = Rd(buf, start + Len(AD), bytes, methods, f4)
  <2>1. TakeInt(Rd(buf, start + Len(AC), calls, methods, f3), CapWidth)
          = Rd(buf, (start + Len(AC)) + CapWidth, bytes, methods, f3)
    <3>1. At(buf, start + Len(AC), LittleEndian(bytes, CapWidth)) BY <1>24 DEF D
    <3> QED BY <1>3, <1>5, <3>1, ReadInt
  <2>2. (start + Len(AC)) + CapWidth = start + Len(AD) BY <1>3, <1>13, <1>14, <1>20, Joined
  <2> QED BY <2>1, <2>2, FieldAdded DEF CapField, f4
<1>32. TlsField(Rd(buf, start + Len(AD), bytes, methods, f4))
         = Rd(buf, start + Len(AE), tls, methods, f5)
  <2>1. TakeInt(Rd(buf, start + Len(AD), bytes, methods, f4), 1)
          = Rd(buf, (start + Len(AD)) + 1, tls, methods, f4)
    <3>1. At(buf, start + Len(AD), LittleEndian(tls, 1)) /\ tls \in Nat /\ 1 \in Nat
      BY <1>6, <1>23
    <3> QED BY <1>6, <3>1, ReadInt
  <2>2. (start + Len(AD)) + 1 = start + Len(AE) BY <1>14, <1>15, <1>20, Joined
  <2>3. AsTls(Rd(buf, start + Len(AE), tls, methods, f4)) = Rd(buf, start + Len(AE), tls, methods, f4)
    <3>1. ~ (tls > RequiredAttested) BY <1>6 DEF RequiredAttested
    <3> QED BY <3>1 DEF AsTls, Rd
  <2> QED BY <2>1, <2>2, <2>3, FieldAdded DEF TlsField, f5
<1>33. TakeBlob(Rd(buf, start + Len(AE), tls, methods, f5))
         = Rd(buf, start + Len(AF), json, methods, f5)
  <2>1. TakeBlob(Rd(buf, start + Len(AE), tls, methods, f5))
          = Rd(buf, (start + Len(AE)) + Len(F), json, methods, f5)
    BY <1>7, <1>22, ReadBlob DEF F
  <2>2. (start + Len(AE)) + Len(F) = start + Len(AF) BY <1>7, <1>15, <1>16, <1>20, Joined
  <2> QED BY <2>1, <2>2
<1>34. PICK found : SkipPairs(Rd(buf, start + Len(AF), json, methods, f5))
                      = Rd(buf, start + Len(AG), found, methods, f5)
  <2>1. PICK found : SkipPairs(Rd(buf, start + Len(AF), json, methods, f5))
                      = Rd(buf, (start + Len(AF)) + Len(G), found, methods, f5)
    BY <1>8, <1>21, ReadPairs
  <2>2. (start + Len(AF)) + Len(G) = start + Len(AG) BY <1>8, <1>16, <1>17, <1>20, Joined
  <2> QED BY <2>1, <2>2
<1>35. ReadAll(buf) = Rd(buf, start + Len(AG), found, methods, f5)
  BY <1>27, <1>29, <1>30, <1>31, <1>32, <1>33, <1>34 DEF ReadAll, f1
<1>36. start \in Nat /\ start + Len(AG) = Len(AG) /\ Len(AG) > 0
  <2>1. Len(AD) \in Nat /\ Len(F) \in Nat /\ Len(G) \in Nat /\ Len(AG) \in Nat
    BY <1>7, <1>8, <1>14, <1>17 DEF Strings
  <2> QED BY <1>15, <1>16, <1>17, <2>1 DEF start
<1> QED BY <1>17, <1>18, <1>28, <1>35, <1>36

\* The round trip (src/src/policy/canonical.rs:9-11): the canonical bytes of every
\* well-formed document whose lengths fit a u32 parse, and what they parse to has
\* the rules of the document.
THEOREM EncodedPolicyParses ==
  ASSUME NEW doc, Encodable(doc)
  PROVE  /\ CanonicalBytes(doc) \in Strings /\ CanonicalBytes(doc) # << >>
         /\ Len(CanonicalBytes(doc)) > 0
         /\ Parse(CanonicalBytes(doc)).error = "none"
         /\ Rules(Parse(CanonicalBytes(doc)).view) = Rules(doc)
<1> DEFINE buf == CanonicalBytes(doc)
<1>1. buf \in Strings /\ Len(buf) > 0 /\ buf # << >>
  <2>1. buf \in Strings BY CanonicalIsBytes
  <2>2. Len(buf) > 0 BY CanonicalIsBytes
  <2>3. buf # << >>
    <3> HIDE DEF buf
    <3> QED BY <2>2
  <2> QED BY <2>1, <2>2, <2>3
<1>2. At(buf, 0, buf)
  <2>1. Len(buf) \in Nat BY <1>1 DEF Strings
  <2> QED BY <2>1 DEF At
<1>3. PICK last, items : ReadAll(buf) = Rd(buf, Len(buf), last, items, Fields(doc))
  BY <1>1, <1>2, ReadDocument
<1> HIDE DEF buf
<1>4. Parse(buf) = [error |-> "none", view |-> View(Fields(doc))]
  BY <1>3 DEF Parse, Whole, Rd
<1>5. /\ Range(SortedNames(doc.allowed_domains)) = Range(doc.allowed_domains)
      /\ Range(SortedNames(doc.allowed_http_methods)) = Range(doc.allowed_http_methods)
  BY EncodableParts, NamesAreShort
<1>6. /\ View(Fields(doc)).allowed_domains = SortedNames(doc.allowed_domains)
      /\ View(Fields(doc)).allowed_http_methods = SortedNames(doc.allowed_http_methods)
      /\ View(Fields(doc)).max_tool_calls = doc.max_tool_calls
      /\ View(Fields(doc)).max_payload_bytes_per_call = doc.max_payload_bytes_per_call
      /\ View(Fields(doc)).tls_requirement = doc.tls_requirement
  BY DEF View, Fields
<1>7. Rules(View(Fields(doc))) = Rules(doc) BY <1>5, <1>6 DEF Rules
<1> QED BY <1>1, <1>4, <1>7 DEF buf

\* No buffer that goes on after the canonical bytes of a document parses
\* (canonical.rs:187-189): the reader gets to the end of the document, and that is
\* not the end of the buffer.
THEOREM ContinuedIsRefused ==
  ASSUME NEW doc, Encodable(doc), NEW buf \in Strings, IsStrictPrefix(CanonicalBytes(doc), buf)
  PROVE  Parse(buf).error # "none"
<1> DEFINE whole == CanonicalBytes(doc)
<1>1. whole \in Strings BY EncodedPolicyParses
<1>2. Len(whole) <= Len(buf) /\ SubSeq(whole, 1, Len(whole)) = SubSeq(buf, 1, Len(whole))
      /\ whole # buf
  BY DEF IsStrictPrefix, IsPrefix
<1> HIDE DEF whole
<1>3. Len(whole) \in Nat /\ Len(buf) \in Nat BY <1>1 DEF Strings
<1>4. ASSUME NEW i \in 1..Len(whole) PROVE buf[i] = whole[i]
  <2>1. SubSeq(whole, 1, Len(whole))[i] = whole[i] BY <1>1, <1>3 DEF Strings
  <2>2. SubSeq(buf, 1, Len(whole))[i] = buf[i] BY <1>2, <1>3 DEF Strings
  <2> QED BY <1>2, <2>1, <2>2
<1>5. At(buf, 0, whole) BY <1>2, <1>3, <1>4 DEF At
<1>6. PICK last, items : ReadAll(buf) = Rd(buf, Len(whole), last, items, Fields(doc))
  BY <1>5, ReadDocument DEF whole
<1>7. Len(whole) # Len(buf) BY <1>1, <1>2, <1>3, <1>4 DEF Strings
<1> QED BY <1>6, <1>7 DEF Parse, Whole, Rd

-----------------------------------------------------------------------------
(* Reading a buffer that was cut. *)

\* A record of the fields of a reader.
IsReader(r) ==
  r = [buf |-> r.buf, pos |-> r.pos, error |-> r.error, last |-> r.last,
       items |-> r.items, fields |-> r.fields]

\* As long as a reader of the cut buffer has no error, one of the whole buffer is
\* where it is and has found what it found.
Agree(r, q) ==
  /\ IsReader(r)
  /\ r.error = "none" =>
       /\ IsReader(q)
       /\ q.error = "none" /\ q.pos = r.pos /\ q.last = r.last /\ q.items = r.items
       /\ q.fields = r.fields
       /\ r.pos \in Nat /\ r.buf \in Strings /\ q.buf \in Strings
       /\ Len(r.buf) < Len(q.buf) /\ \A i \in 1..Len(r.buf) : r.buf[i] = q.buf[i]

\* The last read found an element of T.
Found(r, T) == r.error = "none" => r.last \in T

\* What is taken from a string.
LEMMA Taken ==
  ASSUME NEW s \in Strings, NEW pos \in Nat, NEW n \in Nat, pos + n <= Len(s)
  PROVE  /\ SubSeq(s, pos + 1, pos + n) \in Strings
         /\ Len(SubSeq(s, pos + 1, pos + n)) = n
         /\ \A i \in 1..n : SubSeq(s, pos + 1, pos + n)[i] = s[pos + i]
<1>1. s \in Seq(Bytes) /\ Len(s) \in Nat BY DEF Strings
<1> QED BY <1>1 DEF Strings

\* What a read makes of a reader.
LEMMA Moved ==
  ASSUME NEW q, IsReader(q), NEW x, NEW v
  PROVE  [q EXCEPT !.pos = x, !.last = v]
           = [buf |-> q.buf, pos |-> x, error |-> q.error, last |-> v,
              items |-> q.items, fields |-> q.fields]
<1>1. DOMAIN q = {"buf", "pos", "error", "last", "items", "fields"} BY DEF IsReader
<1> DEFINE w == [q EXCEPT !.pos = x, !.last = v]
<1>2. /\ DOMAIN w = {"buf", "pos", "error", "last", "items", "fields"}
      /\ w = [i \in {"buf", "pos", "error", "last", "items", "fields"} |-> w[i]]
  BY <1>1
<1>3. /\ w.buf = q.buf /\ w.pos = x /\ w.error = q.error /\ w.last = v
      /\ w.items = q.items /\ w.fields = q.fields
  BY <1>1
<1> HIDE DEF w
<1>4. w = [buf |-> q.buf, pos |-> x, error |-> q.error, last |-> v,
           items |-> q.items, fields |-> q.fields]
  BY <1>2, <1>3
<1> QED BY <1>4 DEF w

\* Taking bytes keeps a reader of the cut buffer and one of the whole in agreement.
LEMMA AgreeTake ==
  ASSUME NEW r, NEW q, Agree(r, q), NEW n \in Nat, NEW error, error # "none"
  PROVE  Agree(Take(r, n, error), Take(q, n, error)) /\ Found(Take(r, n, error), Strings)
<1>1. CASE r.error # "none"
  <2>1. Take(r, n, error) = r BY <1>1 DEF Take
  <2> QED BY <1>1, <2>1 DEF Agree, Found
<1>2. CASE r.error = "none" /\ r.pos + n > Len(r.buf)
  <2>1. Take(r, n, error) = [r EXCEPT !.error = error] BY <1>2 DEF Take
  <2>2. IsReader(Take(r, n, error)) /\ Take(r, n, error).error = error
    BY <2>1 DEF Agree, IsReader
  <2> QED BY <2>2 DEF Agree, Found
<1>3. CASE r.error = "none" /\ ~ (r.pos + n > Len(r.buf))
  <2> DEFINE p == r.pos + n
             u == SubSeq(r.buf, r.pos + 1, p)
             v == SubSeq(q.buf, r.pos + 1, p)
  <2>1. /\ r.pos \in Nat /\ r.buf \in Strings /\ q.buf \in Strings
        /\ Len(r.buf) < Len(q.buf) /\ \A i \in 1..Len(r.buf) : r.buf[i] = q.buf[i]
        /\ q.error = "none" /\ q.pos = r.pos /\ q.items = r.items /\ q.fields = r.fields
    BY <1>3 DEF Agree
  <2>2. Len(r.buf) \in Nat /\ Len(q.buf) \in Nat BY <2>1 DEF Strings
  <2>3. r.pos + n <= Len(r.buf) /\ r.pos + n <= Len(q.buf) /\ ~ (q.pos + n > Len(q.buf))
    BY <1>3, <2>1, <2>2
  <2>4. /\ u \in Strings /\ Len(u) = n /\ \A i \in 1..n : u[i] = r.buf[r.pos + i]
    BY <2>1, <2>2, <2>3, Taken
  <2>5. /\ v \in Strings /\ Len(v) = n /\ \A i \in 1..n : v[i] = q.buf[r.pos + i]
    BY <2>1, <2>2, <2>3, Taken
  <2>6. \A i \in 1..n : r.buf[r.pos + i] = q.buf[r.pos + i]
    <3> SUFFICES ASSUME NEW i \in 1..n PROVE r.buf[r.pos + i] = q.buf[r.pos + i] OBVIOUS
    <3>1. r.pos + i \in 1..Len(r.buf) BY <2>1, <2>2, <2>3
    <3> QED BY <2>1, <3>1
  <2> HIDE DEF u, v
  <2>7. u = v BY <2>4, <2>5, <2>6 DEF Strings
  <2>8. Take(r, n, error) = [r EXCEPT !.pos = r.pos + n, !.last = u] BY <1>3 DEF Take, u
  <2>9. Take(q, n, error) = [q EXCEPT !.pos = r.pos + n, !.last = v]
    <3>1. SubSeq(q.buf, q.pos + 1, q.pos + n) = v BY <2>1 DEF v
    <3> QED BY <2>1, <2>3, <3>1 DEF Take
  <2>10. Take(r, n, error)
           = [buf |-> r.buf, pos |-> r.pos + n, error |-> "none", last |-> u,
              items |-> r.items, fields |-> r.fields]
    BY <1>3, <2>8 DEF Agree, IsReader
  <2>11. Take(q, n, error)
           = [buf |-> q.buf, pos |-> r.pos + n, error |-> "none", last |-> u,
              items |-> r.items, fields |-> r.fields]
    <3> DEFINE x == r.pos + n
    <3> HIDE DEF x
    <3>1. IsReader(q) BY <1>3 DEF Agree
    <3>2. [q EXCEPT !.pos = x, !.last = v]
            = [buf |-> q.buf, pos |-> x, error |-> q.error, last |-> v,
               items |-> q.items, fields |-> q.fields]
      BY <3>1, Moved
    <3> QED BY <2>1, <2>7, <2>9, <3>2 DEF x
  <2>12. r.pos + n \in Nat /\ u \in Strings BY <2>1, <2>4 DEF Strings
  <2> QED BY <2>1, <2>10, <2>11, <2>12 DEF Agree, Found, IsReader
<1> QED BY <1>1, <1>2, <1>3

\* So does reading an integer,
LEMMA AgreeInt ==
  ASSUME NEW r, NEW q, Agree(r, q), NEW width \in Nat
  PROVE  Agree(TakeInt(r, width), TakeInt(q, width)) /\ Found(TakeInt(r, width), Nat)
<1> DEFINE a == Take(r, width, "Truncated")  b == Take(q, width, "Truncated")
<1>1. Agree(a, b) /\ Found(a, Strings) BY AgreeTake
<1>2. TakeInt(r, width) = AsInt(a) /\ TakeInt(q, width) = AsInt(b) BY DEF TakeInt
<1> HIDE DEF a, b
<1>3. CASE a.error # "none"
  <2>1. AsInt(a) = a BY <1>3 DEF AsInt
  <2> QED BY <1>1, <1>2, <1>3, <2>1 DEF Agree, Found
<1>4. CASE a.error = "none"
  <2> DEFINE n == FromLittleEndian(a.last)
  <2>1. a.last \in Strings /\ b.error = "none" /\ b.last = a.last
    BY <1>1, <1>4 DEF Agree, Found
  <2>2. n \in Nat
    <3>1. PICK f : f \in [0..Len(a.last) -> Nat] /\ FromLittleEndian(a.last) = f[Len(a.last)]
      BY <2>1, FromSums
    <3>2. Len(a.last) \in 0..Len(a.last)
      <4>1. Len(a.last) \in Nat BY <2>1 DEF Strings
      <4> QED BY <4>1
    <3> QED BY <3>1, <3>2
  <2>3. AsInt(a) = [a EXCEPT !.last = n] BY <1>4 DEF AsInt
  <2>4. AsInt(b) = [b EXCEPT !.last = n] BY <2>1 DEF AsInt
  <2> HIDE DEF n
  <2> QED BY <1>1, <1>2, <1>4, <2>2, <2>3, <2>4 DEF Agree, Found, IsReader
<1> QED BY <1>3, <1>4

\* So does reading a string by its length,
LEMMA AgreeBlob ==
  ASSUME NEW r, NEW q, Agree(r, q)
  PROVE  Agree(TakeBlob(r), TakeBlob(q)) /\ Found(TakeBlob(r), Strings)
<1> DEFINE a == TakeInt(r, LenWidth)  b == TakeInt(q, LenWidth)
<1>1. Agree(a, b) /\ Found(a, Nat) BY AgreeInt, PolicyCodecAssumption
<1>2. TakeBlob(r) = AsLength(a) /\ TakeBlob(q) = AsLength(b) BY DEF TakeBlob
<1> HIDE DEF a, b
<1>3. CASE a.error # "none"
  <2>1. AsLength(a) = a BY <1>3 DEF AsLength
  <2> QED BY <1>1, <1>2, <1>3, <2>1 DEF Agree, Found
<1>4. CASE a.error = "none"
  <2>1. a.last \in Nat /\ b.error = "none" /\ b.last = a.last
    BY <1>1, <1>4 DEF Agree, Found
  <2>2. AsLength(a) = Take(a, a.last, "LengthOverrun") BY <1>4 DEF AsLength
  <2>3. AsLength(b) = Take(b, a.last, "LengthOverrun") BY <2>1 DEF AsLength
  <2> QED BY <1>1, <1>2, <2>1, <2>2, <2>3, AgreeTake
<1> QED BY <1>3, <1>4

\* reading a text,
LEMMA AgreeString ==
  ASSUME NEW r, NEW q, Agree(r, q)
  PROVE  Agree(TakeString(r), TakeString(q))
<1> DEFINE a == TakeBlob(r)  b == TakeBlob(q)
<1>1. Agree(a, b) BY AgreeBlob
<1>2. TakeString(r) = AsText(a) /\ TakeString(q) = AsText(b) BY DEF TakeString
<1> HIDE DEF a, b
<1>3. IsReader(AsText(a)) BY <1>1 DEF Agree, IsReader, AsText
<1>4. CASE AsText(a).error # "none" BY <1>2, <1>3, <1>4 DEF Agree
<1>5. CASE AsText(a).error = "none"
  <2>1. a.error = "none" /\ NotUtf8 \notin Range(a.last) /\ AsText(a) = a
    BY <1>1, <1>5 DEF AsText, Agree, IsReader
  <2>2. AsText(b) = b BY <1>1, <2>1 DEF Agree, AsText
  <2> QED BY <1>1, <1>2, <2>1, <2>2
<1> QED BY <1>4, <1>5

\* reading a TlsRequirement,
LEMMA AgreeTls ==
  ASSUME NEW r, NEW q, Agree(r, q)
  PROVE  Agree(AsTls(r), AsTls(q))
<1>1. IsReader(AsTls(r)) BY DEF Agree, IsReader, AsTls
<1>2. CASE AsTls(r).error # "none" BY <1>1, <1>2 DEF Agree
<1>3. CASE AsTls(r).error = "none"
  <2>1. r.error = "none" /\ ~ (r.last > RequiredAttested) /\ AsTls(r) = r
    BY <1>3 DEF AsTls, Agree, IsReader
  <2>2. AsTls(q) = q BY <2>1 DEF Agree, AsTls
  <2> QED BY <2>1, <2>2
<1> QED BY <1>2, <1>3

\* and keeping what was read among the items or the fields.
LEMMA AgreeUpdated ==
  ASSUME NEW r, NEW q, Agree(r, q)
  PROVE  /\ Agree(AsField(r), AsField(q)) /\ Agree(AsItem(r), AsItem(q))
         /\ Agree(AsList(r), AsList(q))
         /\ Agree([r EXCEPT !.items = << >>], [q EXCEPT !.items = << >>])
<1>1. Agree(AsField(r), AsField(q))
  <2> DEFINE x == Append(r.fields, r.last)  y == Append(q.fields, q.last)
  <2>1. r.error = "none" => x = y BY DEF Agree
  <2>2. AsField(r) = [r EXCEPT !.fields = x] /\ AsField(q) = [q EXCEPT !.fields = y]
    BY DEF AsField
  <2> HIDE DEF x, y
  <2> QED BY <2>1, <2>2 DEF Agree, IsReader
<1>2. Agree(AsItem(r), AsItem(q))
  <2> DEFINE x == Append(r.items, r.last)  y == Append(q.items, q.last)
  <2>1. r.error = "none" => x = y BY DEF Agree
  <2>2. AsItem(r) = [r EXCEPT !.items = x] /\ AsItem(q) = [q EXCEPT !.items = y]
    BY DEF AsItem
  <2> HIDE DEF x, y
  <2> QED BY <2>1, <2>2 DEF Agree, IsReader
<1>3. Agree(AsList(r), AsList(q)) BY DEF Agree, IsReader, AsList
<1>4. Agree([r EXCEPT !.items = << >>], [q EXCEPT !.items = << >>]) BY DEF Agree, IsReader
<1> QED BY <1>1, <1>2, <1>3, <1>4


\* So does reading a list: the cut buffer ends inside it or both readers get to
\* its end.
LEMMA AgreeList ==
  ASSUME NEW r, NEW q, Agree(r, q)
  PROVE  Agree(TakeList(r), TakeList(q))
<1> DEFINE a == TakeInt(r, LenWidth)  b == TakeInt(q, LenWidth)
<1>1. Agree(a, b) /\ Found(a, Nat) BY AgreeInt, PolicyCodecAssumption
<1>2. TakeList(r) = AsCountOfStrings(a) /\ TakeList(q) = AsCountOfStrings(b) BY DEF TakeList
<1> HIDE DEF a, b
<1>3. CASE a.error # "none"
  <2>1. AsCountOfStrings(a) = a BY <1>3 DEF AsCountOfStrings
  <2> QED BY <1>1, <1>2, <1>3, <2>1 DEF Agree
<1>4. CASE a.error = "none"
  <2> DEFINE N == a.last
  <2>1. N \in Nat /\ b.error = "none" /\ b.last = N BY <1>1, <1>4 DEF Agree, Found
  <2>2. PICK f : StringLoop(f, a, N) /\ AsCountOfStrings(a) = AsList(f[N])
    BY <1>4, <2>1, StringLoopValue
  <2>3. PICK g : StringLoop(g, b, N) /\ AsCountOfStrings(b) = AsList(g[N])
    <3>1. PICK g : StringLoop(g, b, b.last) /\ AsCountOfStrings(b) = AsList(g[b.last])
      BY <2>1, StringLoopValue
    <3> QED BY <2>1, <3>1
  <2> DEFINE S == {n \in Nat : n <= N => Agree(f[n], g[n])}
  <2>4. 0 \in S
    <3>1. f[0] = [a EXCEPT !.items = << >>] /\ g[0] = [b EXCEPT !.items = << >>]
      BY <2>1, <2>2, <2>3 DEF StringLoop
    <3> QED BY <1>1, <3>1, AgreeUpdated
  <2>5. ASSUME NEW n \in Nat, n \in S PROVE n + 1 \in S
    <3> SUFFICES ASSUME n + 1 <= N PROVE Agree(f[n + 1], g[n + 1]) OBVIOUS
    <3>1. n + 1 \in 0..N /\ n + 1 # 0 /\ (n + 1) - 1 = n /\ n <= N BY <2>1
    <3>2. f[n + 1] = AsItem(TakeString(f[n])) BY <2>2, <3>1 DEF StringLoop
    <3>3. g[n + 1] = AsItem(TakeString(g[n])) BY <2>3, <3>1 DEF StringLoop
    <3>4. Agree(TakeString(f[n]), TakeString(g[n])) BY <2>5, <3>1, AgreeString
    <3>5. Agree(AsItem(TakeString(f[n])), AsItem(TakeString(g[n]))) BY <3>4, AgreeUpdated
    <3> QED BY <3>2, <3>3, <3>5
  <2>6. Nat \subseteq S
    <3> HIDE DEF S
    <3> QED BY <2>4, <2>5, SetInduction
  <2>7. Agree(f[N], g[N]) BY <2>1, <2>6
  <2> QED BY <1>2, <2>2, <2>3, <2>7, AgreeUpdated
<1> QED BY <1>3, <1>4

\* So does skipping the versions.
LEMMA AgreePairs ==
  ASSUME NEW r, NEW q, Agree(r, q)
  PROVE  Agree(SkipPairs(r), SkipPairs(q))
<1> DEFINE a == TakeInt(r, LenWidth)  b == TakeInt(q, LenWidth)
<1>1. Agree(a, b) /\ Found(a, Nat) BY AgreeInt, PolicyCodecAssumption
<1>2. SkipPairs(r) = AsCountOfPairs(a) /\ SkipPairs(q) = AsCountOfPairs(b) BY DEF SkipPairs
<1> HIDE DEF a, b
<1>3. CASE a.error # "none"
  <2>1. AsCountOfPairs(a) = a BY <1>3 DEF AsCountOfPairs
  <2> QED BY <1>1, <1>2, <1>3, <2>1 DEF Agree
<1>4. CASE a.error = "none"
  <2> DEFINE N == a.last
  <2>1. N \in Nat /\ b.error = "none" /\ b.last = N BY <1>1, <1>4 DEF Agree, Found
  <2>2. PICK f : PairLoop(f, a, N) /\ AsCountOfPairs(a) = f[N]
    BY <1>4, <2>1, PairLoopValue
  <2>3. PICK g : PairLoop(g, b, N) /\ AsCountOfPairs(b) = g[N]
    <3>1. PICK g : PairLoop(g, b, b.last) /\ AsCountOfPairs(b) = g[b.last]
      BY <2>1, PairLoopValue
    <3> QED BY <2>1, <3>1
  <2> DEFINE S == {n \in Nat : n <= N => Agree(f[n], g[n])}
  <2>4. 0 \in S
    <3>1. f[0] = a /\ g[0] = b BY <2>1, <2>2, <2>3 DEF PairLoop
    <3> QED BY <1>1, <3>1
  <2>5. ASSUME NEW n \in Nat, n \in S PROVE n + 1 \in S
    <3> SUFFICES ASSUME n + 1 <= N PROVE Agree(f[n + 1], g[n + 1]) OBVIOUS
    <3>1. n + 1 \in 0..N /\ n + 1 # 0 /\ (n + 1) - 1 = n /\ n <= N BY <2>1
    <3>2. f[n + 1] = TakeBlob(TakeBlob(f[n])) BY <2>2, <3>1 DEF PairLoop
    <3>3. g[n + 1] = TakeBlob(TakeBlob(g[n])) BY <2>3, <3>1 DEF PairLoop
    <3>4. Agree(TakeBlob(f[n]), TakeBlob(g[n])) BY <2>5, <3>1, AgreeBlob
    <3>5. Agree(TakeBlob(TakeBlob(f[n])), TakeBlob(TakeBlob(g[n]))) BY <3>4, AgreeBlob
    <3> QED BY <3>2, <3>3, <3>5
  <2>6. Nat \subseteq S
    <3> HIDE DEF S
    <3> QED BY <2>4, <2>5, SetInduction
  <2>7. Agree(f[N], g[N]) BY <2>1, <2>6
  <2> QED BY <1>2, <2>2, <2>3, <2>7
<1> QED BY <1>3, <1>4

\* The whole document is read alike, for as long as the cut buffer lasts.
LEMMA AgreeAll ==
  ASSUME NEW s \in Strings, NEW t \in Strings, Len(s) < Len(t),
         \A i \in 1..Len(s) : s[i] = t[i]
  PROVE  Agree(ReadAll(s), ReadAll(t))
<1>1. Agree(Reader(s), Reader(t)) BY DEF Agree, IsReader, Reader
<1>2. \A r, q : Agree(r, q) => Agree(StringField(r), StringField(q))
  BY AgreeList, AgreeUpdated DEF StringField
<1>3. CapWidth \in Nat /\ 1 \in Nat BY PolicyCodecAssumption
<1>4. \A r, q : Agree(r, q) => Agree(CapField(r), CapField(q))
  BY <1>3, AgreeInt, AgreeUpdated DEF CapField
<1>5. \A r, q : Agree(r, q) => Agree(TlsField(r), TlsField(q))
  BY <1>3, AgreeInt, AgreeTls, AgreeUpdated DEF TlsField
<1>6. \A r, q : Agree(r, q) => Agree(TakeBlob(r), TakeBlob(q)) BY AgreeBlob
<1>7. \A r, q : Agree(r, q) => Agree(SkipPairs(r), SkipPairs(q)) BY AgreePairs
<1> QED BY <1>1, <1>2, <1>4, <1>5, <1>6, <1>7 DEF ReadAll

\* No buffer that is a cut document parses (canonical.rs:187-189), wherever the
\* cut is: if one did, its reader would agree with one of the whole document, which
\* ends at the end of the document.
THEOREM CutIsRefused ==
  ASSUME NEW doc, Encodable(doc), NEW buf \in Strings, IsStrictPrefix(buf, CanonicalBytes(doc))
  PROVE  Parse(buf).error # "none"
<1> DEFINE whole == CanonicalBytes(doc)
<1>1. whole \in Strings BY EncodedPolicyParses
<1>2. Len(buf) <= Len(whole) /\ SubSeq(buf, 1, Len(buf)) = SubSeq(whole, 1, Len(buf))
      /\ whole # buf
  BY DEF IsStrictPrefix, IsPrefix
<1> HIDE DEF whole
<1>3. Len(whole) \in Nat /\ Len(buf) \in Nat BY <1>1 DEF Strings
<1>4. ASSUME NEW i \in 1..Len(buf) PROVE buf[i] = whole[i]
  <2>1. SubSeq(buf, 1, Len(buf))[i] = buf[i] BY <1>3 DEF Strings
  <2>2. SubSeq(whole, 1, Len(buf))[i] = whole[i] BY <1>1, <1>2, <1>3 DEF Strings
  <2> QED BY <1>2, <2>1, <2>2
<1>5. Len(buf) # Len(whole) BY <1>1, <1>2, <1>3, <1>4 DEF Strings
<1>6. Agree(ReadAll(buf), ReadAll(whole))
  <2>1. Len(buf) < Len(whole) BY <1>2, <1>3, <1>5
  <2> QED BY <1>1, <1>4, <2>1, AgreeAll
<1>7. At(whole, 0, whole) BY <1>1, <1>3 DEF At
<1>8. PICK last, items : ReadAll(whole) = Rd(whole, Len(whole), last, items, Fields(doc))
  BY <1>1, <1>7, ReadDocument DEF whole
<1>9. ASSUME ReadAll(buf).error = "none"
      PROVE  ReadAll(buf).pos # Len(ReadAll(buf).buf)
  <2> DEFINE r == ReadAll(buf)
  <2>1. ReadAll(whole).pos = Len(whole) /\ ReadAll(whole).buf = whole BY <1>8 DEF Rd
  <2>2. r.pos = Len(whole) /\ Len(r.buf) < Len(whole) /\ r.buf \in Strings
    BY <1>6, <1>9, <2>1 DEF Agree
  <2>3. Len(r.buf) \in Nat BY <2>2 DEF Strings
  <2> QED BY <1>3, <2>2, <2>3
<1> QED BY <1>9 DEF Parse, Whole

-----------------------------------------------------------------------------
(* Other writings of a document. *)

\* One list is a permutation of the other.
Permutes(s, t) ==
  \E f \in Bijection(DOMAIN s, DOMAIN t) : \A i \in DOMAIN s : s[i] = t[f[i]]

\* Two schemas that differ only in the order of their keys.
SameSchema(x, y) == x.given = y.given /\ Permutes(x.keys, y.keys)

\* Permuted lists have the same strings in order.
LEMMA PermutedBytes ==
  ASSUME NEW s, NEW t, Permutes(s, t)
  PROVE  /\ s \in Seq(Strings) /\ t \in Seq(Strings) => SortedNames(s) = SortedNames(t)
         /\ s \in Seq(Bytes) /\ t \in Seq(Bytes) => SortedKeys(s) = SortedKeys(t)
<1>1. PICK f \in Bijection(DOMAIN s, DOMAIN t) : \A i \in DOMAIN s : s[i] = t[f[i]]
  BY DEF Permutes
<1>2. ASSUME s \in Seq(Strings), t \in Seq(Strings)
      PROVE  SortedNames(s) = SortedNames(t)
  BY <1>1, <1>2, SortedNamesInOrder, TextsOrdered, PermutedUnique
<1>3. ASSUME s \in Seq(Bytes), t \in Seq(Bytes)
      PROVE  SortedKeys(s) = SortedKeys(t)
  BY <1>1, <1>3, SortedKeysInOrder, KeysOrdered, PermutedUnique
<1> QED BY <1>2, <1>3

\* Two writings of a schema have the same bytes,
LEMMA SameSchemaBytes ==
  ASSUME NEW x \in Schemas, NEW y \in Schemas, SameSchema(x, y)
  PROVE  CanonicalJson(x) = CanonicalJson(y)
<1>1. x.keys \in Seq(Bytes) /\ y.keys \in Seq(Bytes) BY DEF Schemas
<1>2. x.given = y.given /\ Permutes(x.keys, y.keys) BY DEF SameSchema
<1>3. SortedKeys(x.keys) = SortedKeys(y.keys) BY <1>1, <1>2, PermutedBytes
<1>4. CanonicalJson(x) = IF x.given THEN <<1>> \o SortedKeys(x.keys) ELSE << >>
  BY JsonIsBytes
<1>5. CanonicalJson(y) = IF y.given THEN <<1>> \o SortedKeys(y.keys) ELSE << >>
  BY JsonIsBytes
<1> QED BY <1>2, <1>3, <1>4, <1>5

\* two writings of a list of names have,
LEMMA SameNamesBytes ==
  ASSUME NEW s \in Seq(Texts), NEW t \in Seq(Texts), Permutes(s, t)
  PROVE  StringList(s) = StringList(t)
<1>1. Texts \subseteq Strings BY DEF Texts, Strings
<1>2. s \in Seq(Strings) /\ t \in Seq(Strings) BY <1>1
<1>3. SortedNames(s) = SortedNames(t) BY <1>2, PermutedBytes
<1>4. \A names : StringList(names)
        = Counted([i \in DOMAIN SortedNames(names) |-> Blob(SortedNames(names)[i])])
  BY DEF StringList, SortedNames
<1> QED BY <1>3, <1>4

\* Versions in order are all of them, once.
LEMMA SortedPairsAll ==
  ASSUME NEW versions, IsVersions(versions)
  PROVE  /\ Cardinality(versions) \in Nat
         /\ SortedPairs(versions) \in Bijection(1..Cardinality(versions), versions)
         /\ InOrder(SortedPairs(versions), PairOrder(versions), Cardinality(versions))
<1> DEFINE n == Cardinality(versions)
           s == SetToSeq(versions)
           t == SortedPairs(versions)
<1>1. n \in Nat /\ s \in Seq(versions) /\ Len(s) = n /\ s \in Bijection(1..n, versions)
  BY EnumeratedSet DEF IsVersions
<1>2. t \in Permuted(s) /\ InOrder(t, PairOrder(versions), n) BY SortedPairsInOrder
<1> HIDE DEF n, s, t
<1>3. t \in [1..n -> versions] BY <1>1, <1>2, PermutedIs
<1>4. PICK p \in Bijection(1..n, 1..n) : \A i \in 1..n : t[i] = s[p[i]]
  BY <1>1, <1>2, PermutedIs
<1>5. /\ p \in [1..n -> 1..n] /\ \A i, j \in 1..n : p[i] = p[j] => i = j
      /\ \A j \in 1..n : \E i \in 1..n : p[i] = j
  BY DEF Bijection, Injection, Surjection, IsInjective
<1>6. /\ s \in [1..n -> versions] /\ \A i, j \in 1..n : s[i] = s[j] => i = j
      /\ \A v \in versions : \E i \in 1..n : s[i] = v
  BY <1>1 DEF Bijection, Injection, Surjection, IsInjective
<1>7. IsInjective(t)
  <2> SUFFICES ASSUME NEW i \in 1..n, NEW j \in 1..n, t[i] = t[j] PROVE i = j
    BY <1>3 DEF IsInjective
  <2>1. p[i] \in 1..n /\ p[j] \in 1..n /\ s[p[i]] = s[p[j]] BY <1>4, <1>5
  <2>2. p[i] = p[j] BY <1>6, <2>1
  <2> QED BY <1>5, <2>2
<1>8. ASSUME NEW v \in versions PROVE \E i \in 1..n : t[i] = v
  <2>1. PICK k \in 1..n : s[k] = v BY <1>6
  <2>2. PICK i \in 1..n : p[i] = k BY <1>5
  <2> QED BY <1>4, <2>1, <2>2
<1>9. t \in Bijection(1..n, versions)
  BY <1>3, <1>7, <1>8 DEF Bijection, Injection, Surjection
<1> QED BY <1>1, <1>2, <1>9 DEF n, t

\* Each version of one set is one of the other, with the same schema.
Covers(v, w) == \A p \in v : \E q \in w : p[1] = q[1] /\ SameSchema(p[2], q[2])

\* and so have two writings of the versions.
LEMMA SamePairsBytes ==
  ASSUME NEW v, NEW w, IsVersions(v), IsVersions(w), Covers(v, w),
         \A q \in w : \E p \in v : p[1] = q[1]
  PROVE  SchemaPairs(v) = SchemaPairs(w)
<1> DEFINE n == Cardinality(v)
           t == SortedPairs(v)
           u == SortedPairs(w)
           partner == [p \in v |-> CHOOSE q \in w : p[1] = q[1] /\ SameSchema(p[2], q[2])]
<1>1. \A p \in v : /\ partner[p] \in w /\ p[1] = partner[p][1]
                   /\ SameSchema(p[2], partner[p][2])
  BY DEF Covers
<1>2. /\ \A p, q \in v : p[1] = q[1] => p = q
      /\ \A p, q \in w : p[1] = q[1] => p = q
      /\ IsFiniteSet(v) /\ IsFiniteSet(w)
  BY DEF IsVersions
<1>3. partner \in [v -> w] BY <1>1
<1> HIDE DEF partner
<1>4. Cardinality(w) = n
  <2>1. \A p, q \in v : partner[p] = partner[q] => p = q BY <1>1, <1>2
  <2>2. \A q \in w : \E p \in v : partner[p] = q BY <1>1, <1>2
  <2>3. partner \in Bijection(v, w)
    BY <1>3, <2>1, <2>2 DEF Bijection, Injection, Surjection, IsInjective
  <2> QED BY <1>2, <2>3, FS_Bijection DEF ExistsBijection
<1>5. n \in Nat /\ t \in Bijection(1..n, v) /\ InOrder(t, PairOrder(v), n) BY SortedPairsAll
<1>6. u \in Bijection(1..n, w) /\ InOrder(u, PairOrder(w), n) BY <1>4, SortedPairsAll
<1>7. SchemaPairs(v) = Counted([i \in DOMAIN t |-> Blob(t[i][1]) \o Blob(CanonicalJson(t[i][2]))])
  BY DEF SchemaPairs, SortedPairs
<1>8. SchemaPairs(w) = Counted([i \in DOMAIN u |-> Blob(u[i][1]) \o Blob(CanonicalJson(u[i][2]))])
  BY DEF SchemaPairs, SortedPairs
<1> HIDE DEF t, u, n
<1>9. /\ t \in [1..n -> v] /\ \A i, j \in 1..n : t[i] = t[j] => i = j
      /\ \A p \in v : \E i \in 1..n : t[i] = p
  BY <1>5 DEF Bijection, Injection, Surjection, IsInjective
<1>10. /\ u \in [1..n -> w] /\ \A i, j \in 1..n : u[i] = u[j] => i = j
       /\ \A q \in w : \E i \in 1..n : u[i] = q
  BY <1>6 DEF Bijection, Injection, Surjection, IsInjective
<1> DEFINE s == [i \in 1..n |-> partner[t[i]]]
           f == [i \in 1..n |-> CHOOSE j \in 1..n : u[j] = s[i]]
<1>11. s \in [1..n -> w] /\ \A i \in 1..n : s[i] = partner[t[i]] BY <1>3, <1>9
<1> HIDE DEF s
<1>12. \A i \in 1..n : f[i] \in 1..n /\ u[f[i]] = s[i] BY <1>10, <1>11
<1>13. f \in [1..n -> 1..n] BY <1>12
<1> HIDE DEF f
<1>14. ASSUME NEW i \in 1..n, NEW j \in 1..n, f[i] = f[j] PROVE i = j
  <2>1. partner[t[i]] = partner[t[j]] /\ t[i] \in v /\ t[j] \in v BY <1>9, <1>11, <1>12, <1>14
  <2>2. t[i] = t[j] BY <1>1, <1>2, <2>1
  <2> QED BY <1>9, <2>2
<1>15. ASSUME NEW j \in 1..n PROVE \E i \in 1..n : f[i] = j
  <2>1. u[j] \in w BY <1>10
  <2>2. PICK p \in v : p[1] = u[j][1] BY <2>1
  <2>3. PICK i \in 1..n : t[i] = p BY <1>9
  <2>4. partner[p] = u[j] BY <1>1, <1>2, <2>1, <2>2
  <2>5. u[f[i]] = u[j] /\ f[i] \in 1..n BY <1>11, <1>12, <2>3, <2>4
  <2> QED BY <1>10, <2>5
<1>16. Rearranges(f, s, u, n)
  <2>1. f \in Bijection(1..n, 1..n)
    BY <1>13, <1>14, <1>15 DEF Bijection, Injection, Surjection, IsInjective
  <2> QED BY <1>12, <2>1 DEF Rearranges
<1>17. InOrder(s, PairOrder(w), n)
  <2> SUFFICES ASSUME NEW i \in 1..n, NEW j \in 1..n, i < j
               PROVE  <<s[i], s[j]>> \in PairOrder(w) \/ s[i] = s[j]
    BY DEF InOrder
  <2>1. t[i] \in v /\ t[j] \in v /\ s[i] \in w /\ s[j] \in w BY <1>9, <1>11
  <2>2. <<t[i], t[j]>> \in PairOrder(v) \/ t[i] = t[j] BY <1>5 DEF InOrder
  <2>3. s[i][1] = t[i][1] /\ s[j][1] = t[j][1] BY <1>1, <1>11, <2>1
  <2>4. CASE t[i] = t[j] BY <1>11, <2>4
  <2>5. CASE <<t[i], t[j]>> \in PairOrder(v)
    <3>1. Precedes(t[i][1], t[j][1]) BY <2>5 DEF PairOrder
    <3>2. Precedes(s[i][1], s[j][1]) BY <2>3, <3>1
    <3> QED BY <2>1, <3>2 DEF PairOrder
  <2> QED BY <2>2, <2>4, <2>5
<1>18. s = u
  <2> DEFINE R == PairOrder(w)
  <2>1. TotalOrder(R, w) BY PairsOrdered
  <2>2. InOrder(s, R, n) /\ InOrder(u, R, n) BY <1>6, <1>17
  <2>3. n \in Nat /\ s \in [1..n -> w] /\ u \in [1..n -> w] BY <1>5, <1>10, <1>11
  <2> HIDE DEF R
  <2> QED BY <1>16, <2>1, <2>2, <2>3, InOrderUnique
<1>19. ASSUME NEW i \in 1..n
       PROVE  u[i][1] = t[i][1] /\ CanonicalJson(u[i][2]) = CanonicalJson(t[i][2])
  <2>1. t[i] \in v /\ u[i] = partner[t[i]] /\ u[i] \in w BY <1>9, <1>11, <1>18
  <2>2. t[i][1] = u[i][1] /\ SameSchema(t[i][2], u[i][2]) BY <1>1, <2>1
  <2>3. t[i][2] \in Schemas /\ u[i][2] \in Schemas BY <2>1 DEF IsVersions
  <2> QED BY <2>2, <2>3, SameSchemaBytes
<1>20. DOMAIN t = 1..n /\ DOMAIN u = 1..n BY <1>9, <1>10
<1>21. [i \in DOMAIN t |-> Blob(t[i][1]) \o Blob(CanonicalJson(t[i][2]))]
         = [i \in DOMAIN u |-> Blob(u[i][1]) \o Blob(CanonicalJson(u[i][2]))]
  BY <1>19, <1>20
<1> QED BY <1>7, <1>8, <1>21

\* The encoding is stable (src/src/policy/mod.rs:133, 291): two writings of a
\* document, with the lists, keys and versions in other orders, have the same bytes.
THEOREM SameBytes ==
  ASSUME NEW d, NEW e, Encodable(d), Encodable(e), SamePolicy(d, e)
  PROVE  CanonicalBytes(d) = CanonicalBytes(e)
<1>1. /\ Permutes(d.allowed_domains, e.allowed_domains)
      /\ Permutes(d.allowed_http_methods, e.allowed_http_methods)
      /\ d.max_tool_calls = e.max_tool_calls
      /\ d.max_payload_bytes_per_call = e.max_payload_bytes_per_call
      /\ d.tls_requirement = e.tls_requirement
      /\ SameSchema(d.required_output_schema, e.required_output_schema)
      /\ Covers(d.schema_versions, e.schema_versions)
      /\ \A q \in e.schema_versions : \E p \in d.schema_versions : p[1] = q[1]
  BY DEF SamePolicy, Permutes, SameSchema, Covers
<1>2. StringList(d.allowed_domains) = StringList(e.allowed_domains)
  BY <1>1, EncodableParts, SameNamesBytes
<1>3. StringList(d.allowed_http_methods) = StringList(e.allowed_http_methods)
  BY <1>1, EncodableParts, SameNamesBytes
<1>4. CanonicalJson(d.required_output_schema) = CanonicalJson(e.required_output_schema)
  BY <1>1, EncodableParts, SameSchemaBytes
<1>5. IsVersions(d.schema_versions) /\ IsVersions(e.schema_versions)
  BY DEF Encodable, IsOraclePolicy, IsVersions
<1>6. SchemaPairs(d.schema_versions) = SchemaPairs(e.schema_versions)
  BY <1>1, <1>5, SamePairsBytes
<1> QED BY <1>1, <1>2, <1>3, <1>4, <1>6 DEF CanonicalBytes
=============================================================================
