----------------------------- MODULE ClockProofs -----------------------------
(***************************************************************************)
(* The clock for every set of starting times, every setting of status      *)
(* register B and any number of seconds.                                   *)
(***************************************************************************)
EXTENDS Clock, TLAPS

USE DEF Second, Minute, Hour, Day, Month, Year, Fields

-----------------------------------------------------------------------------
(* Times and their order *)

\* The value of each field of a time.
LEMMA TimesFields ==
  ASSUME NEW t \in Times
  PROVE  /\ t \in [Fields -> Nat]
         /\ t[Second] \in 0 .. 59 /\ t[Minute] \in 0 .. 59 /\ t[Hour] \in 0 .. 23
         /\ t[Month] \in 1 .. 12 /\ t[Year] \in 2023 .. 2122
         /\ t[Day] \in 1 .. DaysIn(t[Month], t[Year])
<1>1. t \in [Fields -> Nat] /\ t[Year] \in 2023 .. 2122
  BY DEF Times, Years, CURRENT_YEAR
<1>2. \A f \in 1 .. 5 : t[f] \in First(f) .. Last(t, f)
  BY DEF Times
<1>3. /\ t[1] \in First(1) .. Last(t, 1) /\ t[2] \in First(2) .. Last(t, 2)
      /\ t[3] \in First(3) .. Last(t, 3) /\ t[4] \in First(4) .. Last(t, 4)
      /\ t[5] \in First(5) .. Last(t, 5)
  BY <1>2
<1> QED
  BY <1>1, <1>3 DEF First, Last

\* A month has 28 to 31 days.
LEMMA DaysInRange ==
  ASSUME NEW m \in Nat, NEW y \in Nat
  PROVE  DaysIn(m, y) \in 28 .. 31
BY DEF DaysIn

\* What the last value of each field is.
LEMMA LastValues ==
  ASSUME NEW t
  PROVE  /\ Last(t, Second) = 59 /\ Last(t, Minute) = 59 /\ Last(t, Hour) = 23
         /\ Last(t, Day) = DaysIn(t[Month], t[Year]) /\ Last(t, Month) = 12
         /\ Last(t, Year) = 2123
BY DEF Last, CURRENT_YEAR

\* Every second moves one field up, leaves the fields above it and sets the
\* ones below to their first values.
LEMMA SuccMoves ==
  ASSUME NEW t \in Times
  PROVE  \E k \in Fields :
           /\ Succ(t)[k] = t[k] + 1 /\ t[k] # Last(t, k)
           /\ \A g \in k + 1 .. Year : Succ(t)[g] = t[g]
           /\ \A g \in 1 .. k - 1 : t[g] = Last(t, g) /\ Succ(t)[g] = First(g)
<1>1. PICK k \in Fields : Carried(t, k) /\ t[k] # Last(t, k)
  <2>1. t[6] # Last(t, 6)
    BY TimesFields, LastValues
  <2>2. CASE t[1] # Last(t, 1)
    BY <2>2 DEF Carried
  <2>3. CASE t[1] = Last(t, 1) /\ t[2] # Last(t, 2)
    <3>1. Carried(t, 2)
      BY <2>3 DEF Carried
    <3> QED
      BY <2>3, <3>1
  <2>4. CASE t[1] = Last(t, 1) /\ t[2] = Last(t, 2) /\ t[3] # Last(t, 3)
    <3>1. Carried(t, 3)
      BY <2>4 DEF Carried
    <3> QED
      BY <2>4, <3>1
  <2>5. CASE t[1] = Last(t, 1) /\ t[2] = Last(t, 2) /\ t[3] = Last(t, 3)
             /\ t[4] # Last(t, 4)
    <3>1. Carried(t, 4)
      BY <2>5 DEF Carried
    <3> QED
      BY <2>5, <3>1
  <2>6. CASE t[1] = Last(t, 1) /\ t[2] = Last(t, 2) /\ t[3] = Last(t, 3)
             /\ t[4] = Last(t, 4) /\ t[5] # Last(t, 5)
    <3>1. Carried(t, 5)
      BY <2>6 DEF Carried
    <3> QED
      BY <2>6, <3>1
  <2>7. CASE t[1] = Last(t, 1) /\ t[2] = Last(t, 2) /\ t[3] = Last(t, 3)
             /\ t[4] = Last(t, 4) /\ t[5] = Last(t, 5)
    <3>1. Carried(t, 6)
      BY <2>7 DEF Carried
    <3> QED
      BY <2>1, <3>1
  <2> QED
    BY <2>2, <2>3, <2>4, <2>5, <2>6, <2>7
<1>2. \A g \in 1 .. k - 1 : t[g] = Last(t, g) /\ Carried(t, g) /\ g \in Fields
  BY <1>1 DEF Carried
<1>3. \A g \in k + 1 .. 6 : ~Carried(t, g) /\ g \in Fields
  BY <1>1 DEF Carried
<1>4. Succ(t)[k] = t[k] + 1
  BY <1>1 DEF Succ
<1>5. \A g \in k + 1 .. 6 : Succ(t)[g] = t[g]
  BY <1>3 DEF Succ
<1>6. \A g \in 1 .. k - 1 : Succ(t)[g] = First(g)
  BY <1>2 DEF Succ
<1> QED
  BY <1>1, <1>2, <1>4, <1>5, <1>6

\* AtMost is transitive.
LEMMA AtMostTransitive ==
  ASSUME NEW r \in [Fields -> Nat], NEW s \in [Fields -> Nat], NEW t \in [Fields -> Nat],
         AtMost(r, s), AtMost(s, t)
  PROVE  AtMost(r, t)
<1>1. CASE r = s \/ s = t
  BY <1>1
<1>2. CASE r # s /\ s # t
  <2>1. PICK e \in Fields : r[e] < s[e] /\ \A g \in e + 1 .. 6 : r[g] = s[g]
    BY <1>2 DEF AtMost
  <2>2. PICK f \in Fields : s[f] < t[f] /\ \A g \in f + 1 .. 6 : s[g] = t[g]
    BY <1>2 DEF AtMost
  <2>3. CASE e <= f
    <3>1. r[f] < t[f]
      <4>1. r[f] <= s[f]
        BY <2>1, <2>3
      <4> QED
        BY <2>2, <4>1
    <3>2. \A g \in f + 1 .. 6 : r[g] = t[g]
      BY <2>1, <2>2, <2>3
    <3> QED
      BY <3>1, <3>2 DEF AtMost
  <2>4. CASE f < e
    <3>1. s[e] = t[e] /\ r[e] < t[e]
      BY <2>1, <2>2, <2>4
    <3>2. \A g \in e + 1 .. 6 : r[g] = t[g]
      BY <2>1, <2>2, <2>4
    <3> QED
      BY <3>1, <3>2 DEF AtMost
  <2> QED
    BY <2>3, <2>4
<1> QED
  BY <1>1, <1>2

\* The second after a time is a time, inside the window of years.
LEMMA SuccTime ==
  ASSUME NEW t \in Times, Succ(t)[Year] \in Years
  PROVE  Succ(t) \in Times
<1> DEFINE s == Succ(t)
<1>1. PICK k \in Fields :
        /\ s[k] = t[k] + 1 /\ t[k] # Last(t, k)
        /\ \A g \in k + 1 .. Year : s[g] = t[g]
        /\ \A g \in 1 .. k - 1 : t[g] = Last(t, g) /\ s[g] = First(g)
  BY SuccMoves
<1>2. s = [f \in Fields |-> s[f]]
  BY DEF Succ
<1>3. /\ t[1] \in 0 .. 59 /\ t[2] \in 0 .. 59 /\ t[3] \in 0 .. 23
      /\ t[5] \in 1 .. 12 /\ t[6] \in 2023 .. 2122
      /\ t[4] \in 1 .. DaysIn(t[5], t[6])
  BY TimesFields
<1>4. DaysIn(t[5], t[6]) \in 28 .. 31 /\ \A m, y \in Nat : DaysIn(m, y) \in 28 .. 31
  <2>1. t[5] \in Nat /\ t[6] \in Nat
    BY <1>3
  <2>2. \A m, y \in Nat : DaysIn(m, y) \in 28 .. 31
    BY DaysInRange
  <2> QED
    BY <2>1, <2>2
<1>5. /\ Last(t, 1) = 59 /\ Last(t, 2) = 59 /\ Last(t, 3) = 23
      /\ Last(t, 4) = DaysIn(t[5], t[6]) /\ Last(t, 5) = 12
      /\ Last(s, 1) = 59 /\ Last(s, 2) = 59 /\ Last(s, 3) = 23
      /\ Last(s, 4) = DaysIn(s[5], s[6]) /\ Last(s, 5) = 12
  BY LastValues
<1>6. First(1) = 0 /\ First(2) = 0 /\ First(3) = 0 /\ First(4) = 1 /\ First(5) = 1
  BY DEF First
<1> HIDE DEF s
<1>7. s[1] \in 0 .. 59 /\ s[2] \in 0 .. 59 /\ s[3] \in 0 .. 23 /\ s[5] \in 1 .. 12
  <2>1. \A g \in 1 .. 5 : s[g] = t[g] \/ s[g] = First(g) \/ (s[g] = t[g] + 1 /\ t[g] # Last(t, g))
    BY <1>1
  <2> QED
    BY <2>1, <1>3, <1>5, <1>6
<1>8. s[6] \in Years /\ s[6] \in Nat
  BY DEF s, Years, CURRENT_YEAR
<1>9. s[4] \in 1 .. DaysIn(s[5], s[6])
  <2>1. CASE k <= 4
    <3>1. s[5] = t[5] /\ s[6] = t[6]
      BY <1>1, <2>1
    <3>2. s[4] = t[4] \/ (s[4] = t[4] + 1 /\ t[4] # Last(t, 4))
      BY <1>1, <2>1
    <3> QED
      BY <1>3, <1>4, <1>5, <3>1, <3>2
  <2>2. CASE k > 4
    <3>1. s[4] = 1
      BY <1>1, <1>6, <2>2
    <3> QED
      BY <1>4, <1>7, <1>8, <3>1
  <2> QED
    BY <2>1, <2>2
<1>10. \A f \in Fields : s[f] \in Nat
  BY <1>4, <1>7, <1>8, <1>9
<1>11. s \in [Fields -> Nat]
  BY <1>2, <1>10
<1>12. \A f \in 1 .. 5 : s[f] \in First(f) .. Last(s, f)
  <2>1. /\ s[1] \in First(1) .. Last(s, 1) /\ s[2] \in First(2) .. Last(s, 2)
        /\ s[3] \in First(3) .. Last(s, 3) /\ s[4] \in First(4) .. Last(s, 4)
        /\ s[5] \in First(5) .. Last(s, 5)
    BY <1>5, <1>6, <1>7, <1>9
  <2> QED
    BY <2>1
<1> QED
  BY <1>8, <1>11, <1>12 DEF Times, s

-----------------------------------------------------------------------------
(* What is converted is what the chip held *)

\* The two digits of a byte give back the number.
LEMMA BcdDecodes ==
  ASSUME NEW n \in 0 .. 99
  PROVE  /\ ToBcd(n) % 16 = n % 10 /\ ToBcd(n) \div 16 = n \div 10
         /\ ToBcd(n) \in 0 .. 153 /\ FromBcd(ToBcd(n)) = n
<1>1. n \div 10 \in 0 .. 9 /\ n % 10 \in 0 .. 9 /\ n = (n \div 10) * 10 + (n % 10)
  OBVIOUS
<1>2. ToBcd(n) = (n \div 10) * 16 + (n % 10)
  BY DEF ToBcd
<1>3. \A q, d \in 0 .. 9 : (q * 16 + d) % 16 = d /\ (q * 16 + d) \div 16 = q
  OBVIOUS
<1>4. ToBcd(n) % 16 = n % 10 /\ ToBcd(n) \div 16 = n \div 10
  BY <1>1, <1>2, <1>3
<1> QED
  BY <1>1, <1>2, <1>4 DEF FromBcd

\* The same of an hour beside its afternoon bit.
LEMMA HourDecodes ==
  ASSUME NEW n \in 0 .. 23, NEW b \in {0, 128}
  PROVE  /\ ToBcd(n) + b \in 0 .. 163
         /\ Binary(ToBcd(n) + b, Hour) = n + b /\ (ToBcd(n) + b) % 128 = ToBcd(n)
<1>1. n \div 10 \in 0 .. 2 /\ n % 10 \in 0 .. 9 /\ n = (n \div 10) * 10 + (n % 10)
  OBVIOUS
<1>2. \A q \in 0 .. 2, d \in 0 .. 9 :
        /\ (q * 16 + d + b) % 16 = d /\ ((q * 16 + d + b) \div 16) % 8 = q
        /\ ((q * 16 + d + b) \div 128) * 128 = b /\ (q * 16 + d + b) % 128 = q * 16 + d
        /\ q * 16 + d + b \in 0 .. 169
  OBVIOUS
<1>3. ToBcd(n) = (n \div 10) * 16 + (n % 10)
  BY DEF ToBcd
<1>4. Binary(ToBcd(n) + b, Hour) = (n % 10) + (n \div 10) * 10 + b
  BY <1>1, <1>2, <1>3 DEF Binary
<1>5. (n \div 10) = 2 => n % 10 \in 0 .. 3
  BY <1>1
<1> QED
  BY <1>1, <1>2, <1>3, <1>4, <1>5

Settings == [bcd : BOOLEAN, h24 : BOOLEAN]

\* A field that is converted from the byte the chip held at the time t is
\* the field of t.
LEMMA DecodeRegister ==
  ASSUME NEW t \in Times, NEW f \in Fields, NEW r \in [Fields -> 0 .. 255],
         format \in Settings, r[f] = Register(t, f),
         f = Hour => format.h24 \/ r[Hour] % 128 # Coded(12)
  PROVE  Converted(r)[f] = t[f]
<1> DEFINE b == [g \in Fields |-> IF format.bcd THEN Binary(r[g], g) ELSE r[g]]
<1>1. /\ t[1] \in 0 .. 59 /\ t[2] \in 0 .. 59 /\ t[3] \in 0 .. 23
      /\ t[5] \in 1 .. 12 /\ t[6] \in 2023 .. 2122 /\ t[4] \in 1 .. 31
  BY TimesFields, DaysInRange
<1>2. CASE f \in {1, 2, 4, 5}
  <2>1. t[f] \in 0 .. 99 /\ Register(t, f) = Coded(t[f]) /\ Converted(r)[f] = b[f]
    BY <1>1, <1>2 DEF Register, Converted
  <2>2. CASE format.bcd
    <3>1. b[f] = FromBcd(r[f])
      BY <1>2, <2>2 DEF Binary
    <3>2. r[f] = ToBcd(t[f])
      BY <2>1, <2>2 DEF Coded
    <3> QED
      BY <2>1, <3>1, <3>2, BcdDecodes
  <2>3. CASE ~format.bcd
    BY <2>1, <2>3 DEF Coded
  <2> QED
    BY <2>2, <2>3
<1>3. CASE f = 6
  <2>1. t[6] % 100 \in 0 .. 99 /\ Register(t, 6) = Coded(t[6] % 100)
    BY <1>1 DEF Register
  <2>2. b[6] = t[6] % 100
    <3>1. CASE format.bcd
      <4>1. b[6] = FromBcd(r[6])
        BY <3>1 DEF Binary
      <4>2. r[6] = ToBcd(t[6] % 100)
        BY <1>3, <2>1, <3>1 DEF Coded
      <4> QED
        BY <2>1, <4>1, <4>2, BcdDecodes
    <3>2. CASE ~format.bcd
      BY <1>3, <2>1, <3>2 DEF Coded
    <3> QED
      BY <3>1, <3>2
  <2>3. Converted(r)[6] = FullYear(t[6] % 100)
    BY <2>2 DEF Converted
  <2>4. FullYear(t[6] % 100) = t[6]
    BY <1>1 DEF FullYear, CENTURY, CURRENT_YEAR
  <2> QED
    BY <1>3, <2>3, <2>4
<1>4. CASE f = 3 /\ format.h24
  <2>1. Register(t, 3) = Coded(t[3]) /\ Converted(r)[3] = b[3]
    BY <1>4 DEF Register, Converted
  <2>2. CASE format.bcd
    <3>1. Binary(ToBcd(t[3]) + 0, Hour) = t[3] + 0 /\ ToBcd(t[3]) + 0 = ToBcd(t[3])
      BY <1>1, HourDecodes DEF ToBcd
    <3> QED
      BY <1>1, <1>4, <2>1, <2>2, <3>1 DEF Coded
  <2>3. CASE ~format.bcd
    BY <1>4, <2>1, <2>3 DEF Coded
  <2> QED
    BY <2>2, <2>3
<1>5. CASE f = 3 /\ ~format.h24
  <2> DEFINE n == TwelveHour(t[3])
             a == IF t[3] >= 12 THEN 128 ELSE 0
  <2>1. Register(t, 3) = Coded(n) + a /\ Converted(r)[3] = TwentyFour(b[3])
    BY <1>5 DEF Register, Converted
  <2>2. /\ n \in 1 .. 12 /\ a \in {0, 128}
        /\ n = 12 \/ (n = t[3] /\ a = 0) \/ (n = t[3] - 12 /\ a = 128)
    BY <1>1 DEF TwelveHour
  <2> HIDE DEF n, a
  <2>3. b[3] = n + a /\ r[3] % 128 = Coded(n)
    <3>1. CASE format.bcd
      BY <1>5, <2>1, <2>2, <3>1, HourDecodes DEF Coded
    <3>2. CASE ~format.bcd
      BY <1>5, <2>1, <2>2, <3>2 DEF Coded
    <3> QED
      BY <3>1, <3>2
  <2>4. n # 12
    BY <1>5, <2>3
  <2> QED
    BY <1>1, <1>5, <2>1, <2>2, <2>3, <2>4 DEF TwentyFour
<1> QED
  BY <1>2, <1>3, <1>4, <1>5

\* A register fits its byte.
LEMMA RegisterRange ==
  ASSUME NEW t \in Times, NEW f \in Fields, format \in Settings
  PROVE  Register(t, f) \in 0 .. 255
<1>1. /\ t[1] \in 0 .. 59 /\ t[2] \in 0 .. 59 /\ t[3] \in 0 .. 23
      /\ t[5] \in 1 .. 12 /\ t[6] \in 2023 .. 2122 /\ t[4] \in 1 .. 31
  BY TimesFields, DaysInRange
<1>2. \A n \in 0 .. 99 : Coded(n) \in 0 .. 153
  <2>1. \A n \in 0 .. 99 : ToBcd(n) \in 0 .. 153
    BY BcdDecodes
  <2>2. CASE format.bcd
    BY <2>1, <2>2 DEF Coded
  <2>3. CASE ~format.bcd
    BY <2>3 DEF Coded
  <2> QED
    BY <2>2, <2>3
<1>3. CASE f # 3
  <2>1. t[6] % 100 \in 0 .. 99
    BY <1>1
  <2>2. CASE f = 6
    <3>1. Register(t, f) = Coded(t[6] % 100)
      BY <2>2 DEF Register
    <3> QED
      BY <1>2, <2>1, <3>1
  <2>3. CASE f # 6
    <3>1. Register(t, f) = Coded(t[f]) /\ t[f] \in 0 .. 99
      BY <1>1, <1>3, <2>3 DEF Register
    <3> QED
      BY <1>2, <3>1
  <2> QED
    BY <2>2, <2>3
<1>4. CASE f = 3
  <2>1. TwelveHour(t[3]) \in 1 .. 12
    BY <1>1 DEF TwelveHour
  <2>2. \A n \in 0 .. 23 : Coded(n) \in 0 .. 127
    <3>1. \A n \in 0 .. 23 : ToBcd(n) \in 0 .. 127
      BY DEF ToBcd
    <3> QED
      BY <3>1 DEF Coded
  <2> QED
    BY <1>1, <1>4, <2>1, <2>2 DEF Register
<1> QED
  BY <1>3, <1>4

\* Conversions give numbers, each from its own byte.
LEMMA ConvertedType ==
  ASSUME NEW r \in [Fields -> 0 .. 255], format \in Settings
  PROVE  /\ Converted(r) \in [Fields -> Nat]
         /\ \A q \in [Fields -> 0 .. 255], f \in Fields :
              q[f] = r[f] => Converted(q)[f] = Converted(r)[f]
<1> DEFINE b(q) == [g \in Fields |-> IF format.bcd THEN Binary(q[g], g) ELSE q[g]]
<1>1. b(r) \in [Fields -> Nat]
  <2>1. \A n \in 0 .. 255, f \in Fields : Binary(n, f) \in Nat
    BY DEF Binary, FromBcd
  <2>2. \A f \in Fields : r[f] \in 0 .. 255 /\ r[f] \in Nat
    OBVIOUS
  <2>3. \A f \in Fields : Binary(r[f], f) \in Nat
    BY <2>1, <2>2
  <2> QED
    BY <2>2, <2>3
<1>2. TwentyFour(b(r)[3]) \in Nat /\ FullYear(b(r)[6]) \in Nat
  <2>1. \A n \in Nat : TwentyFour(n) \in Nat /\ FullYear(n) \in Nat
    BY DEF TwentyFour, FullYear, CENTURY, CURRENT_YEAR
  <2> QED
    BY <1>1, <2>1
<1>3. \A q : Converted(q) = [b(q) EXCEPT ![3] = IF format.h24 THEN @ ELSE TwentyFour(@),
                                       ![6] = FullYear(@)]
  BY DEF Converted
<1>4. Converted(r) \in [Fields -> Nat]
  BY <1>1, <1>2, <1>3
<1>5. ASSUME NEW q \in [Fields -> 0 .. 255], NEW f \in Fields, q[f] = r[f]
      PROVE  Converted(q)[f] = Converted(r)[f]
  <2>1. b(q)[f] = b(r)[f]
    BY <1>5
  <2> HIDE DEF b
  <2>2. b(q) = [g \in Fields |-> b(q)[g]] /\ b(r) = [g \in Fields |-> b(r)[g]]
    BY DEF b
  <2>3. /\ Converted(q)[f] = IF f = 6 THEN FullYear(b(q)[6])
                             ELSE IF f = 3 /\ ~format.h24 THEN TwentyFour(b(q)[3])
                             ELSE b(q)[f]
        /\ Converted(r)[f] = IF f = 6 THEN FullYear(b(r)[6])
                             ELSE IF f = 3 /\ ~format.h24 THEN TwentyFour(b(r)[3])
                             ELSE b(r)[f]
    BY <1>3, <2>2
  <2> QED
    BY <2>1, <2>3
<1> QED
  BY <1>4, <1>5

-----------------------------------------------------------------------------
(* The types *)

\* An update that began leads into the window of years and of the seconds.
IInv ==
  /\ TypeOK
  /\ updating => ticks < MaxTicks /\ Succ(now)[Year] \in Years

LEMMA InitIInv == Init => IInv
<1> SUFFICES ASSUME Init PROVE IInv
  OBVIOUS
<1>1. Zero \in [Fields -> 0 .. 255] /\ Zero \in [Fields -> Nat]
  BY DEF Zero
<1>2. now \in Times /\ began \in Times /\ 0 \in 0 .. MaxTicks
  BY ClockAssumption DEF Init
<1>3. updating \in BOOLEAN /\ answer \in BOOLEAN
  BY Zenon DEF Init
<1>4. TypeOK
  BY <1>1, <1>2, <1>3 DEF Init, TypeOK
<1>5. ~updating
  BY DEF Init
<1> QED
  BY <1>4, <1>5 DEF IInv

LEMMA NextIInv == IInv /\ [Next]_vars => IInv'
<1> SUFFICES ASSUME IInv, [Next]_vars PROVE IInv'
  OBVIOUS
<1> USE DEF IInv, TypeOK, chip
<1>0. format \in Settings
  BY ClockAssumption DEF Settings
<1>1. CASE BeginUpdate
  BY <1>1 DEF BeginUpdate
<1>2. CASE Tick
  <2>1. now' \in Times
    BY <1>2, SuccTime DEF Tick
  <2>2. ticks' \in 0 .. MaxTicks
    BY <1>2, ClockAssumption DEF Tick
  <2> QED
    BY <1>2, <2>1, <2>2 DEF Tick
<1>3. CASE get_update_in_progress_flag
  BY <1>3 DEF get_update_in_progress_flag
<1>4. CASE get_RTC_register
  BY <1>0, <1>4, RegisterRange DEF get_RTC_register
<1>5. CASE read_rtc
  BY <1>0, <1>5, ConvertedType DEF read_rtc
<1>6. CASE Show
  BY <1>6 DEF Show
<1>7. CASE Answer
  BY <1>7 DEF Answer
<1>8. CASE UNCHANGED vars
  BY <1>8 DEF vars
<1> HIDE DEF IInv, TypeOK, chip
<1> QED
  BY <1>1, <1>2, <1>3, <1>4, <1>5, <1>6, <1>7, <1>8 DEF Next

\* Every variable keeps its type: the time stays in the window of years, the
\* registers read are bytes.
THEOREM TypeCorrect == Spec => []TypeOK
<1>1. IInv => TypeOK
  BY DEF IInv
<1> QED
  BY InitIInv, NextIInv, <1>1, PTL DEF Spec

-----------------------------------------------------------------------------
(* A reading is never before its beginning *)

\* The time read so far, the rest of it taken from the chip.
Mix == [f \in Fields |-> IF f < next THEN Converted(raw)[f] ELSE now[f]]

ReadingInv ==
  /\ next \in 1 .. 7 /\ (next <= Hour \/ HourUnderstood) => AtMost(began, Mix)
  /\ next = 8 /\ HourUnderstood => AtMost(began, reading)

LEMMA MixType ==
  ASSUME IInv
  PROVE  /\ Mix \in [Fields -> Nat] /\ began \in [Fields -> Nat]
         /\ Converted(raw) \in [Fields -> Nat] /\ now \in [Fields -> Nat]
<1>1. format \in Settings
  BY ClockAssumption DEF IInv, TypeOK, Settings
<1>2. Converted(raw) \in [Fields -> Nat]
  BY <1>1, ConvertedType DEF IInv, TypeOK
<1>3. now \in [Fields -> Nat] /\ began \in [Fields -> Nat]
  BY DEF IInv, TypeOK, Times
<1> QED
  BY <1>2, <1>3 DEF Mix

\* The read of a register turns what was taken from the chip into what was
\* read: the mix of the two stays what it was.
LEMMA RegisterKeepsMix ==
  ASSUME IInv, get_RTC_register, next' <= Hour \/ HourUnderstood'
  PROVE  Mix' = Mix /\ (next <= Hour \/ HourUnderstood)
<1>0. format \in Settings /\ now \in Times /\ next \in 0 .. 8 /\ raw \in [Fields -> 0 .. 255]
      /\ raw' \in [Fields -> 0 .. 255]
  BY NextIInv, ClockAssumption DEF IInv, TypeOK, Settings, Next
<1>1. /\ next \in Fields /\ next' = next + 1 /\ now' = now /\ format' = format
      /\ raw' = [raw EXCEPT ![next] = Register(now, next)]
  BY DEF get_RTC_register, chip
<1>2. next <= Hour \/ HourUnderstood
  <2>1. CASE next <= 3
    BY <2>1
  <2>2. CASE next > 3
    BY <1>0, <1>1, <2>2 DEF HourUnderstood, Coded
  <2> QED
    BY <1>1, <2>1, <2>2
<1>3. raw'[next] = Register(now, next)
  BY <1>0, <1>1
<1>4. Converted(raw') = Converted(raw)'
  BY <1>1 DEF Converted
<1>5. \A f \in Fields : f < next => Converted(raw')[f] = Converted(raw)[f]
  <2>1. \A f \in Fields : f < next => raw'[f] = raw[f]
    BY <1>0, <1>1
  <2>2. \A q \in [Fields -> 0 .. 255], f \in Fields :
          q[f] = raw[f] => Converted(q)[f] = Converted(raw)[f]
    BY <1>0, ConvertedType
  <2> QED
    BY <1>0, <2>1, <2>2
<1>6. Converted(raw')[next] = now[next]
  <2>1. next = 3 => format.h24 \/ raw'[3] % 128 # Coded(12)
    BY <1>1 DEF HourUnderstood, Coded
  <2>2. \A r \in [Fields -> 0 .. 255] :
          /\ r[next] = Register(now, next)
          /\ next = 3 => format.h24 \/ r[3] % 128 # Coded(12)
          => Converted(r)[next] = now[next]
    BY <1>0, <1>1, DecodeRegister
  <2> QED
    BY <1>0, <1>3, <2>1, <2>2
<1>7. Mix' = [f \in Fields |-> IF f < next + 1 THEN Converted(raw')[f] ELSE now[f]]
  BY <1>1, <1>4 DEF Mix
<1>8. \A f \in Fields : (f < next + 1) <=> (f < next \/ f = next)
  BY <1>1
<1>9. \A f \in Fields : Mix'[f] = Mix[f]
  BY <1>1, <1>5, <1>6, <1>7, <1>8 DEF Mix
<1> QED
  BY <1>2, <1>7, <1>9 DEF Mix

LEMMA NextReadingInv == IInv /\ ReadingInv /\ [Next]_vars => ReadingInv'
<1> SUFFICES ASSUME IInv, ReadingInv, [Next]_vars PROVE ReadingInv'
  OBVIOUS
<1>0. IInv' /\ format \in Settings /\ now \in Times /\ next \in 0 .. 8
      /\ raw \in [Fields -> 0 .. 255]
  BY NextIInv, ClockAssumption DEF IInv, TypeOK, Settings
<1>1. CASE BeginUpdate
  BY <1>1 DEF BeginUpdate, ReadingInv, Mix, HourUnderstood, Coded, Converted
<1>2. CASE Tick
  <2>1. /\ next' = next /\ raw' = raw /\ format' = format /\ began' = began
        /\ reading' = reading /\ now' = Succ(now)
    BY <1>2 DEF Tick
  <2>2. Converted(raw)' = Converted(raw) /\ HourUnderstood' = HourUnderstood
    BY <2>1 DEF Converted, HourUnderstood, Coded
  <2>3. ASSUME next \in 1 .. 7, next <= Hour \/ HourUnderstood
        PROVE  AtMost(began, Mix)'
    <3>1. AtMost(began, Mix)
      BY <2>3 DEF ReadingInv
    <3>2. PICK k \in Fields : Succ(now)[k] = now[k] + 1
                              /\ \A g \in k + 1 .. 6 : Succ(now)[g] = now[g]
      BY <1>0, SuccMoves
    <3>4. Mix' = [f \in Fields |-> IF f < next THEN Converted(raw)[f] ELSE Succ(now)[f]]
      BY <2>1, <2>2 DEF Mix
    <3>3. Mix \in [Fields -> Nat] /\ Mix' \in [Fields -> Nat] /\ began \in [Fields -> Nat]
      <4>1. Succ(now) \in [Fields -> Nat]
        BY <1>0, <2>1 DEF IInv, TypeOK, Times
      <4> QED
        BY <3>4, <4>1, MixType
    <3>5. AtMost(Mix, Mix')
      <4>1. CASE k < next
        <5>1. \A f \in Fields : Mix'[f] = Mix[f]
          BY <1>0, <3>2, <3>4, <4>1 DEF Mix
        <5> QED
          BY <3>3, <5>1 DEF AtMost
      <4>2. CASE next <= k
        <5>1. Mix[k] < Mix'[k]
          <6>1. Mix'[k] = now[k] + 1 /\ Mix[k] = now[k]
            BY <1>0, <3>2, <3>4, <4>2 DEF Mix
          <6> QED
            BY <3>3, <6>1
        <5>2. \A g \in k + 1 .. 6 : Mix[g] = Mix'[g]
          BY <1>0, <3>2, <3>4, <4>2 DEF Mix
        <5> QED
          BY <5>1, <5>2 DEF AtMost
      <4> QED
        BY <1>0, <4>1, <4>2
    <3>6. AtMost(began, Mix')
      BY <3>1, <3>3, <3>5, AtMostTransitive
    <3> QED
      BY <2>1, <3>6 DEF AtMost
  <2>4. ASSUME next = 8, HourUnderstood
        PROVE  AtMost(began, reading)'
    BY <2>1, <2>4 DEF ReadingInv, AtMost
  <2> QED
    BY <2>1, <2>2, <2>3, <2>4 DEF ReadingInv
<1>3. CASE get_update_in_progress_flag
  <2>1. next' = 1 /\ began' = now /\ now' = now
    BY <1>3 DEF get_update_in_progress_flag, chip
  <2>2. now \in [Fields -> Nat]
    BY MixType
  <2>3. Mix' = now
    BY <2>1, <2>2 DEF Mix
  <2> QED
    BY <2>1, <2>3 DEF ReadingInv, AtMost
<1>4. CASE get_RTC_register
  <2>1. /\ next \in Fields /\ next' = next + 1 /\ now' = now /\ format' = format
        /\ began' = began /\ raw' = [raw EXCEPT ![next] = Register(now, next)]
    BY <1>4 DEF get_RTC_register, chip
  <2>2. ASSUME next' <= Hour \/ HourUnderstood'
        PROVE  AtMost(began, Mix)'
    <3>1. Mix' = Mix /\ (next <= Hour \/ HourUnderstood)
      BY <1>4, <2>2, RegisterKeepsMix
    <3>2. AtMost(began, Mix)
      BY <2>1, <3>1 DEF ReadingInv
    <3> QED
      BY <2>1, <3>1, <3>2 DEF AtMost
  <2> QED
    BY <2>1, <2>2 DEF ReadingInv
<1>5. CASE read_rtc
  <2>1. /\ next = 7 /\ next' = 8 /\ reading' = Converted(raw) /\ began' = began
        /\ raw' = raw /\ format' = format
    BY <1>5 DEF read_rtc, chip
  <2>2. Mix = Converted(raw)
    <3>1. \A f \in Fields : f < 7
      OBVIOUS
    <3> QED
      BY <2>1, <3>1, MixType DEF Mix
  <2>3. HourUnderstood' = HourUnderstood
    BY <2>1 DEF HourUnderstood, Coded
  <2> QED
    BY <2>1, <2>2, <2>3 DEF ReadingInv, AtMost
<1>6. CASE Show \/ Answer
  BY <1>6 DEF Show, Answer, ReadingInv
<1>7. CASE UNCHANGED vars
  BY <1>7 DEF vars, ReadingInv, Mix, HourUnderstood, Coded, Converted
<1> QED
  BY <1>1, <1>2, <1>3, <1>4, <1>5, <1>6, <1>7 DEF Next

\* Whatever number of seconds pass between two register reads, the time read
\* is not before the moment the reading began.
THEOREM ReadingsNeverBehind == Spec => []NeverBehind
<1>1. Init => ReadingInv
  BY DEF Init, ReadingInv
<1>2. ReadingInv => NeverBehind
  BY DEF ReadingInv, NeverBehind
<1> QED
  BY InitIInv, NextIInv, NextReadingInv, <1>1, <1>2, PTL DEF Spec

-----------------------------------------------------------------------------
(* A reading within a minute is between its beginning and now *)

SameMinute == \A f \in Minute .. Year : now[f] = began[f]

\* The chip only moves on, and while it stays within the minute in which the
\* reading began, no field that was read is ahead of it.
ExactInv ==
  /\ AtMost(began, now)
  /\ SameMinute =>
       /\ next \in 1 .. 7 /\ (next <= Hour \/ HourUnderstood) => AtMost(Mix, now)
       /\ next = 8 /\ HourUnderstood => AtMost(reading, now)

LEMMA SuccLater ==
  ASSUME NEW t \in Times
  PROVE  AtMost(t, Succ(t))
<1>1. t \in [Fields -> Nat]
  BY TimesFields
<1>2. PICK k \in Fields : Succ(t)[k] = t[k] + 1 /\ \A g \in k + 1 .. 6 : Succ(t)[g] = t[g]
  BY SuccMoves
<1> QED
  BY <1>1, <1>2 DEF AtMost

\* A second that ends within the minute of an earlier time b began in it, and
\* moves the seconds only.
LEMMA SameMinuteBefore ==
  ASSUME NEW t \in Times, NEW b \in [Fields -> Nat], AtMost(b, t),
         \A f \in 2 .. 6 : Succ(t)[f] = b[f]
  PROVE  \A f \in 2 .. 6 : t[f] = b[f] /\ Succ(t)[f] = t[f]
<1>0. t \in [Fields -> Nat]
  BY TimesFields
<1>1. PICK k \in Fields : Succ(t)[k] = t[k] + 1 /\ \A g \in k + 1 .. 6 : Succ(t)[g] = t[g]
  BY SuccMoves
<1>2. CASE k = 1
  BY <1>1, <1>2
<1>3. CASE k # 1
  <2>1. k \in 2 .. 6 /\ b[k] = t[k] + 1
    BY <1>1, <1>3
  <2>2. CASE b = t
    BY <1>0, <2>1, <2>2
  <2>3. CASE b # t
    <3>1. PICK e \in Fields : b[e] < t[e] /\ \A g \in e + 1 .. 6 : b[g] = t[g]
      BY <2>3 DEF AtMost
    <3>2. CASE e < k
      <4>1. b[k] = t[k]
        BY <2>1, <3>1, <3>2
      <4> QED
        BY <1>0, <2>1, <4>1
    <3>3. CASE e = k
      BY <1>0, <2>1, <3>1, <3>3
    <3>4. CASE e > k
      <4>1. e \in 2 .. 6 /\ e \in k + 1 .. 6
        BY <2>1, <3>4
      <4>2. Succ(t)[e] = t[e] /\ Succ(t)[e] = b[e]
        BY <1>1, <4>1
      <4> QED
        BY <1>0, <3>1, <4>2
    <3> QED
      BY <3>2, <3>3, <3>4
  <2> QED
    BY <2>2, <2>3
<1> QED
  BY <1>2, <1>3

LEMMA NextExactInv == IInv /\ ExactInv /\ [Next]_vars => ExactInv'
<1> SUFFICES ASSUME IInv, ExactInv, [Next]_vars PROVE ExactInv'
  OBVIOUS
<1>0. /\ now \in Times /\ next \in 0 .. 8 /\ now' \in Times
      /\ now \in [Fields -> Nat] /\ now' \in [Fields -> Nat] /\ began \in [Fields -> Nat]
      /\ Mix \in [Fields -> Nat] /\ reading \in [Fields -> Nat]
  BY NextIInv, MixType, TimesFields DEF IInv, TypeOK
<1>1. CASE BeginUpdate
  BY <1>1 DEF BeginUpdate, ExactInv, SameMinute, Mix, HourUnderstood, Coded, Converted
<1>2. CASE Tick
  <2>1. /\ next' = next /\ raw' = raw /\ format' = format /\ began' = began
        /\ reading' = reading /\ now' = Succ(now)
    BY <1>2 DEF Tick
  <2>2. Converted(raw)' = Converted(raw) /\ HourUnderstood' = HourUnderstood
    BY <2>1 DEF Converted, HourUnderstood, Coded
  <2>3. AtMost(began, now) /\ AtMost(now, now')
    BY <1>0, <2>1, SuccLater DEF ExactInv
  <2>4. AtMost(began, now')
    BY <1>0, <2>3, AtMostTransitive
  <2>5. ASSUME SameMinute'
        PROVE  SameMinute /\ \A f \in 2 .. 6 : now'[f] = now[f]
    <3>1. \A f \in 2 .. 6 : Succ(now)[f] = began[f]
      BY <2>1, <2>5 DEF SameMinute
    <3>2. \A f \in 2 .. 6 : now[f] = began[f] /\ Succ(now)[f] = now[f]
      BY <1>0, <2>3, <3>1, SameMinuteBefore
    <3> QED
      BY <2>1, <3>2 DEF SameMinute
  <2>6. ASSUME SameMinute', next \in 1 .. 7, next <= Hour \/ HourUnderstood
        PROVE  AtMost(Mix', now')
    <3>1. Mix' = [f \in Fields |-> IF f < next THEN Converted(raw)[f] ELSE now'[f]]
      BY <2>1, <2>2 DEF Mix
    <3>2. CASE next = 1
      <4>1. \A f \in Fields : Mix'[f] = now'[f]
        BY <3>1, <3>2
      <4>2. Mix' = now'
        BY <1>0, <3>1, <4>1
      <4> QED
        BY <4>2 DEF AtMost
    <3>3. CASE next # 1
      <4>1. \A f \in Fields : Mix'[f] = Mix[f]
        BY <2>5, <2>6, <3>1, <3>3 DEF Mix
      <4>2. Mix' = Mix
        BY <3>1, <4>1 DEF Mix
      <4>3. AtMost(Mix, now)
        BY <2>5, <2>6 DEF ExactInv
      <4> QED
        BY <1>0, <2>3, <4>2, <4>3, AtMostTransitive
    <3> QED
      BY <3>2, <3>3
  <2>7. ASSUME SameMinute', next = 8, HourUnderstood
        PROVE  AtMost(reading, now')
    <3>1. AtMost(reading, now)
      BY <2>5, <2>7 DEF ExactInv
    <3> QED
      BY <1>0, <2>3, <3>1, AtMostTransitive
  <2>8. AtMost(began, now)' /\ (AtMost(Mix', now') <=> AtMost(Mix, now)')
        /\ (AtMost(reading, now') <=> AtMost(reading, now)')
    BY <2>1, <2>4 DEF AtMost
  <2> QED
    BY <2>1, <2>2, <2>6, <2>7, <2>8 DEF ExactInv
<1>3. CASE get_update_in_progress_flag
  <2>1. next' = 1 /\ began' = now /\ now' = now
    BY <1>3 DEF get_update_in_progress_flag, chip
  <2>2. Mix' = now
    BY <1>0, <2>1 DEF Mix
  <2> QED
    BY <2>1, <2>2 DEF ExactInv, AtMost
<1>4. CASE get_RTC_register
  <2>1. next \in Fields /\ next' = next + 1 /\ now' = now /\ began' = began
    BY <1>4 DEF get_RTC_register, chip
  <2>2. ASSUME next' <= Hour \/ HourUnderstood', SameMinute'
        PROVE  AtMost(Mix, now)'
    <3>1. Mix' = Mix /\ (next <= Hour \/ HourUnderstood)
      BY <1>4, <2>2, RegisterKeepsMix
    <3>2. AtMost(Mix, now)
      BY <2>1, <2>2, <3>1 DEF ExactInv, SameMinute
    <3> QED
      BY <2>1, <3>1, <3>2 DEF AtMost
  <2>3. AtMost(began, now)'
    BY <2>1 DEF ExactInv, AtMost
  <2>4. next' = 8 => FALSE
    BY <2>1
  <2> QED
    BY <2>2, <2>3, <2>4 DEF ExactInv
<1>5. CASE read_rtc
  <2>1. /\ next = 7 /\ next' = 8 /\ reading' = Converted(raw) /\ began' = began
        /\ raw' = raw /\ format' = format /\ now' = now
    BY <1>5 DEF read_rtc, chip
  <2>2. Mix = Converted(raw)
    <3>1. \A f \in Fields : f < 7
      OBVIOUS
    <3> QED
      BY <2>1, <3>1, MixType DEF Mix
  <2>3. HourUnderstood' = HourUnderstood /\ SameMinute' = SameMinute
    BY <2>1 DEF HourUnderstood, Coded, SameMinute
  <2> QED
    BY <2>1, <2>2, <2>3 DEF ExactInv, AtMost
<1>6. CASE Show \/ Answer
  <2>1. next' = 0 /\ now' = now /\ began' = began
    BY <1>6 DEF Show, Answer, chip
  <2> QED
    BY <2>1 DEF ExactInv, AtMost
<1>7. CASE UNCHANGED vars
  BY <1>7 DEF vars, ExactInv, SameMinute, Mix, HourUnderstood, Coded, Converted
<1> QED
  BY <1>1, <1>2, <1>3, <1>4, <1>5, <1>6, <1>7 DEF Next

\* As long as no minute ends while read_rtc reads, and whatever seconds do, what
\* it returns is a time between the moment it began and now.
THEOREM ExactWithin == Spec => []ExactWithinAMinute
<1>1. Init => ReadingInv
  BY DEF Init, ReadingInv
<1>2. Init => ExactInv
  BY DEF Init, ExactInv, AtMost
<1>3. ReadingInv /\ ExactInv => ExactWithinAMinute
  BY DEF ReadingInv, ExactInv, ExactWithinAMinute, SameMinute
<1> QED
  BY InitIInv, NextIInv, NextReadingInv, NextExactInv, <1>1, <1>2, <1>3, PTL DEF Spec

-----------------------------------------------------------------------------
(* The timestamp *)

\* One second more, over every carry of the calendar before 2100.
LEMMA TimestampOfSucc ==
  ASSUME NEW t \in Times, Succ(t) \in Times, Succ(t)[Year] < 2100
  PROVE  get_timestamp(Succ(t)) = Following(get_timestamp(t))
<1> DEFINE s == Succ(t)
           days(u) == (u[Year] - 1970) * 365 + LeapYears(u) + DaysBefore[u[Month]] + u[Day] - 1
           secs(u) == (u[Hour] * 60 + u[Minute]) * 60 + u[Second]
<1>1. PICK k \in Fields :
        /\ s[k] = t[k] + 1 /\ t[k] # Last(t, k)
        /\ \A g \in k + 1 .. Year : s[g] = t[g]
        /\ \A g \in 1 .. k - 1 : t[g] = Last(t, g) /\ s[g] = First(g)
  BY SuccMoves
<1>2. /\ t[1] \in 0 .. 59 /\ t[2] \in 0 .. 59 /\ t[3] \in 0 .. 23
      /\ t[5] \in 1 .. 12 /\ t[6] \in 2023 .. 2122 /\ t[4] \in 1 .. DaysIn(t[5], t[6])
      /\ s[5] \in 1 .. 12 /\ s[6] \in 2023 .. 2099
  BY TimesFields
<1>3. /\ Last(t, 1) = 59 /\ Last(t, 2) = 59 /\ Last(t, 3) = 23
      /\ Last(t, 4) = DaysIn(t[5], t[6]) /\ Last(t, 5) = 12
  BY LastValues
<1>4. First(1) = 0 /\ First(2) = 0 /\ First(3) = 0 /\ First(4) = 1 /\ First(5) = 1
  BY DEF First
<1>5. \A u : get_timestamp(u) = <<days(u), secs(u)>>
  BY DEF get_timestamp
<1> HIDE DEF s
<1>6. DaysBefore[t[5]] \in Nat /\ DaysBefore[s[5]] \in Nat
      /\ LeapYears(t) \in Int /\ LeapYears(s) \in Int
  BY <1>2 DEF DaysBefore, LeapYears
<1>7. DaysIn(t[5], t[6]) \in 28 .. 31 /\ t[4] \in Nat
  <2>1. t[5] \in Nat /\ t[6] \in Nat
    BY <1>2
  <2>2. DaysIn(t[5], t[6]) \in 28 .. 31
    BY <2>1, DaysInRange
  <2> QED
    BY <1>2, <2>2
<1>8. CASE k <= 3
  <2>1. s[4] = t[4] /\ s[5] = t[5] /\ s[6] = t[6]
    BY <1>1, <1>8
  <2>2. days(s) = days(t)
    BY <2>1 DEF LeapYears
  <2>3. secs(s) = secs(t) + 1 /\ secs(s) < 86400
    <3>1. CASE k = 1
      <4>1. s[1] = t[1] + 1 /\ t[1] # 59 /\ s[2] = t[2] /\ s[3] = t[3]
        BY <1>1, <1>3, <3>1
      <4>2. t[1] \in 0 .. 58 /\ s[1] = t[1] + 1
        BY <1>2, <4>1
      <4>3. t[3] * 60 + t[2] \in 0 .. 1439 /\ s[3] * 60 + s[2] = t[3] * 60 + t[2]
        BY <1>2, <4>1
      <4>4. \A a \in 0 .. 1439, b \in 0 .. 58 :
              a * 60 + (b + 1) = (a * 60 + b) + 1 /\ a * 60 + (b + 1) < 86400
        OBVIOUS
      <4> DEFINE a == t[3] * 60 + t[2]
                 b == t[1]
      <4>5. secs(t) = a * 60 + b /\ secs(s) = a * 60 + (b + 1)
        <5>1. secs(s) = (s[3] * 60 + s[2]) * 60 + s[1] /\ secs(t) = (t[3] * 60 + t[2]) * 60 + t[1]
          OBVIOUS
        <5> HIDE DEF secs
        <5> QED
          BY <4>2, <4>3, <5>1
      <4>6. a \in 0 .. 1439 /\ b \in 0 .. 58
        BY <4>2, <4>3
      <4> HIDE DEF a, b, secs
      <4> QED
        BY <4>4, <4>5, <4>6
    <3>2. CASE k = 2
      <4>1. s[2] = t[2] + 1 /\ t[2] # 59 /\ t[1] = 59 /\ s[1] = 0 /\ s[3] = t[3]
        BY <1>1, <1>3, <1>4, <3>2
      <4>2. s[2] <= 59 /\ s[3] <= 23
        BY <1>2, <4>1
      <4> QED
        BY <1>2, <4>1, <4>2
    <3>3. CASE k = 3
      <4>1. s[3] = t[3] + 1 /\ t[3] # 23 /\ t[1] = 59 /\ s[1] = 0 /\ t[2] = 59 /\ s[2] = 0
        BY <1>1, <1>3, <1>4, <3>3
      <4>2. s[3] <= 23
        BY <1>2, <4>1
      <4> QED
        BY <1>2, <4>1, <4>2
    <3> QED
      BY <1>8, <3>1, <3>2, <3>3
  <2>4. secs(t) # 86399
    <3>1. secs(t) \in Nat
      <4>1. t[3] * 60 + t[2] \in Nat
        BY <1>2
      <4>2. t[1] \in Nat
        BY <1>2
      <4>3. \A a, b \in Nat : a * 60 + b \in Nat
        OBVIOUS
      <4> QED
        BY <4>1, <4>2, <4>3
    <3> HIDE DEF secs
    <3> QED
      BY <2>3, <3>1
  <2> HIDE DEF days, secs
  <2>5. Following(<<days(t), secs(t)>>) = <<days(t), secs(t) + 1>>
    BY <2>4 DEF Following
  <2> QED
    BY <1>5, <2>2, <2>3, <2>5 DEF s
<1>9. CASE k > 3
  <2>1. /\ t[1] = 59 /\ t[2] = 59 /\ t[3] = 23 /\ s[1] = 0 /\ s[2] = 0 /\ s[3] = 0
    BY <1>1, <1>3, <1>4, <1>9
  <2>2. secs(t) = 86399 /\ secs(s) = 0
    BY <2>1
  <2>3. days(s) = days(t) + 1
    <3>1. CASE k = 4
      <4>1. s[4] = t[4] + 1 /\ s[5] = t[5] /\ s[6] = t[6]
        BY <1>1, <3>1
      <4>2. LeapYears(s) = LeapYears(t) /\ DaysBefore[s[5]] = DaysBefore[t[5]]
        BY <4>1 DEF LeapYears
      <4> QED
        BY <1>2, <1>6, <1>7, <4>1, <4>2
    <3>2. CASE k = 5
      <4>1. s[5] = t[5] + 1 /\ s[4] = 1 /\ t[4] = DaysIn(t[5], t[6]) /\ s[6] = t[6]
        BY <1>1, <1>3, <1>4, <3>2
      <4>2. t[5] \in 1 .. 11 /\ t[6] \in 2023 .. 2099
        BY <1>2, <4>1
      <4>3. Leap(t[6]) <=> t[6] % 4 = 0
        BY <4>2 DEF Leap
      <4>4. CASE t[5] = 2
        <5>1. LeapYears(s) = LeapYears(t) + (IF t[6] % 4 = 0 THEN 1 ELSE 0)
          BY <4>1, <4>2, <4>4 DEF LeapYears
        <5>2. DaysBefore[s[5]] = 59 /\ DaysBefore[t[5]] = 31
          BY <4>1, <4>4 DEF DaysBefore
        <5> QED
          BY <1>6, <4>1, <4>2, <4>3, <4>4, <5>1, <5>2 DEF DaysIn
      <4>5. CASE t[5] # 2
        <5>1. LeapYears(s) = LeapYears(t)
          BY <4>1, <4>2, <4>5 DEF LeapYears
        <5>2. DaysBefore[s[5]] = DaysBefore[t[5]] + DaysIn(t[5], t[6])
          BY <4>1, <4>2, <4>5 DEF DaysBefore, DaysIn
        <5> QED
          BY <1>6, <1>7, <4>1, <4>2, <5>1, <5>2
      <4> QED
        BY <4>4, <4>5
    <3>3. CASE k = 6
      <4>1. s[6] = t[6] + 1 /\ s[5] = 1 /\ s[4] = 1 /\ t[5] = 12
        BY <1>1, <1>3, <1>4, <3>3
      <4>2. t[4] = 31
        BY <1>1, <1>3, <3>3, <4>1 DEF DaysIn
      <4>3. LeapYears(s) = LeapYears(t)
        BY <1>2, <4>1 DEF LeapYears
      <4>4. DaysBefore[s[5]] = 0 /\ DaysBefore[t[5]] = 334
        BY <4>1 DEF DaysBefore
      <4> QED
        BY <1>2, <1>6, <4>1, <4>2, <4>3, <4>4
    <3> QED
      BY <1>9, <3>1, <3>2, <3>3
  <2> HIDE DEF days, secs
  <2>4. Following(<<days(t), secs(t)>>) = <<days(t) + 1, 0>>
    BY <2>2 DEF Following
  <2> QED
    BY <1>5, <2>2, <2>3, <2>4 DEF s
<1> QED
  BY <1>1, <1>8, <1>9

\* The timestamp counts every second, from any time of the window on.
THEOREM TimestampCounts == Spec => TimestampFollows
<1>1. IInv /\ [Next]_vars
      => [now' # now /\ now'[Year] < 2100
          => get_timestamp(now') = Following(get_timestamp(now))]_vars
  <2> SUFFICES ASSUME IInv, [Next]_vars, now' # now, now'[Year] < 2100
               PROVE  get_timestamp(now') = Following(get_timestamp(now))
    OBVIOUS
  <2>1. now' = Succ(now)
    BY DEF Next, BeginUpdate, Tick, get_update_in_progress_flag, get_RTC_register,
           read_rtc, Show, Answer, chip, vars
  <2>2. now \in Times /\ now' \in Times
    BY NextIInv DEF IInv, TypeOK
  <2> QED
    BY <2>1, <2>2, TimestampOfSucc
<1> QED
  BY InitIInv, NextIInv, <1>1, PTL DEF Spec, TimestampFollows
=============================================================================
