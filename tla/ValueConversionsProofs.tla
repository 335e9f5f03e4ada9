----------------------- MODULE ValueConversionsProofs -----------------------
(***************************************************************************)
(* For every scale of days, ticks and seconds: what is read is what the    *)
(* server has, what is bound comes back up to the rounding of the ticks,   *)
(* and a date that is refused is one of those that MayBeRefused() names.   *)
(***************************************************************************)
EXTENDS ValueConversions, SequenceLemmas

-----------------------------------------------------------------------------
(* Products and quotients, under names that the provers do not compute     *)
(* with: what is needed of them is stated here.                            *)

Times(a, b) == a * b
Div(a, b)   == a \div b
Mod(a, b)   == a % b

\* A product is a number and the same both ways round.
LEMMA TimesIs ==
    ASSUME NEW a \in Int, NEW b \in Int
    PROVE  Times(a, b) \in Int /\ Times(a, b) = Times(b, a)
BY SMTT(30) DEF Times

\* The sign of a factor is that of the product.
LEMMA TimesNegative ==
    ASSUME NEW a \in Int, NEW b \in Int
    PROVE  Times(a, -b) = -Times(a, b)
BY SMTT(30) DEF Times

\* Nothing times anything.
LEMMA TimesZero ==
    ASSUME NEW a \in Int
    PROVE  Times(a, 0) = 0
BY SMTT(30) DEF Times

\* Products of sums and differences.
LEMMA TimesSum ==
    ASSUME NEW a \in Int, NEW b \in Int, NEW c \in Int
    PROVE  /\ Times(a, b + c) = Times(a, b) + Times(a, c)
           /\ Times(a, b - c) = Times(a, b) - Times(a, c)
           /\ Times(b + c, a) = Times(b, a) + Times(c, a)
           /\ Times(b - c, a) = Times(b, a) - Times(c, a)
BY SMTT(30) DEF Times

\* Products of three factors.
LEMMA TimesAssociates ==
    ASSUME NEW a \in Int, NEW b \in Int, NEW c \in Int
    PROVE  Times(a, Times(b, c)) = Times(Times(a, b), c)
BY SMTT(30) DEF Times

\* The larger the factor, the larger the product.
LEMMA TimesGrows ==
    ASSUME NEW b \in Nat \ {0}, NEW q \in Int
    PROVE  /\ q >= 0 => Times(b, q) >= 0
           /\ q < 0 => Times(b, q) <= -b
           /\ q > 0 => Times(b, q) >= b
<1>1. q >= 0 => b * q >= 0
  BY SMTT(30)
<1>2. q < 0 => b * q <= -b
  BY SMTT(30)
<1>3. q > 0 => b * q >= b
  BY SMTT(30)
<1> QED BY <1>1, <1>2, <1>3, Zenon DEF Times

\* The order of two factors is that of their products, a divisor apart.
LEMMA TimesOrder ==
    ASSUME NEW b \in Nat \ {0}, NEW q \in Int, NEW p \in Int
    PROVE  /\ q <= p => Times(b, q) <= Times(b, p)
           /\ q < p => Times(b, q) + b <= Times(b, p)
<1>1. PICK d \in Int : d = p - q
  OBVIOUS
<1>2. Times(b, d) = Times(b, p) - Times(b, q) /\ Times(b, p) \in Int /\ Times(b, q) \in Int
  BY <1>1, TimesSum, TimesIs
<1>3. (d >= 0 => Times(b, d) >= 0) /\ (d > 0 => Times(b, d) >= b)
  BY TimesGrows
<1> QED BY <1>1, <1>2, <1>3

\* Rests are not negative, as in the flooring division of TLA+.
LEMMA Division ==
    ASSUME NEW a \in Int, NEW b \in Nat \ {0}
    PROVE  /\ Div(a, b) \in Int /\ Mod(a, b) \in 0..b - 1
           /\ Times(b, Div(a, b)) \in Int
           /\ a = Times(b, Div(a, b)) + Mod(a, b)
           /\ a >= 0 => Div(a, b) >= 0
<1>1. PICK q, r : q = Div(a, b) /\ r = Mod(a, b)
  OBVIOUS
<1>2. q \in Int /\ r \in 0..b - 1 /\ r = a - b * q
  BY <1>1, SMTT(30) DEF Div, Mod
<1>3. r = a - Times(b, q)
  BY <1>2 DEF Times
<1>4. Times(b, q) \in Int /\ (q < 0 => Times(b, q) <= -b)
  BY <1>2, TimesGrows, TimesIs
<1>5. a = Times(b, q) + r /\ (a >= 0 => q >= 0)
  BY <1>2, <1>3, <1>4
<1> QED BY <1>1, <1>2, <1>4, <1>5

\* There is only one quotient with a rest below the divisor.
LEMMA DivisionIs ==
    ASSUME NEW b \in Nat \ {0}, NEW q \in Int, NEW r \in 0..b - 1,
           NEW a, a = Times(b, q) + r
    PROVE  Div(a, b) = q /\ Mod(a, b) = r
<1>1. Times(b, q) \in Int
  BY TimesIs
<1>2. PICK n \in Int : n = a
  BY <1>1
<1>3. PICK p, s : p = Div(n, b) /\ s = Mod(n, b)
  OBVIOUS
<1>4. p \in Int /\ s \in 0..b - 1 /\ n = Times(b, p) + s /\ Times(b, p) \in Int
  BY <1>3, Division
<1>5. (q < p => Times(b, q) + b <= Times(b, p)) /\ (p < q => Times(b, p) + b <= Times(b, q))
  BY <1>4, TimesOrder
<1>6. q = p
  BY <1>1, <1>2, <1>4, <1>5
<1> QED BY <1>1, <1>2, <1>3, <1>4, <1>6

\* The division of C cuts towards zero.
LEMMA QuotientIs ==
    ASSUME NEW a \in Int, NEW b \in Nat \ {0}, NEW q, q = Quotient(a, b)
    PROVE  /\ q \in Int /\ Times(b, q) \in Int
           /\ a >= 0 => q = Div(a, b) /\ a - Times(b, q) \in 0..b - 1
           /\ a < 0 => Times(b, q) - a \in 0..b - 1
<1>1. CASE a >= 0
  <2>1. q = Div(a, b)
    BY <1>1 DEF Quotient, Div
  <2>2. /\ Div(a, b) \in Int /\ Mod(a, b) \in 0..b - 1
        /\ Times(b, Div(a, b)) \in Int /\ a = Times(b, Div(a, b)) + Mod(a, b)
    BY Division
  <2>3. Times(b, q) = Times(b, Div(a, b))
    BY <2>1
  <2> QED BY <1>1, <2>1, <2>2, <2>3
<1>2. CASE a < 0
  <2>1. PICK n \in Int : n = -a
    OBVIOUS
  <2>2. q = -Div(n, b)
    BY <1>2, <2>1 DEF Quotient, Div
  <2>3. /\ Div(n, b) \in Int /\ Mod(n, b) \in 0..b - 1
        /\ Times(b, Div(n, b)) \in Int /\ n = Times(b, Div(n, b)) + Mod(n, b)
    BY Division
  <2>4. Times(b, q) = -Times(b, Div(n, b))
    BY <2>2, <2>3, TimesNegative
  <2> QED BY <1>2, <2>1, <2>2, <2>3, <2>4
<1> QED BY <1>1, <1>2

\* round() is never off by more than a half.
LEMMA RoundedToIs ==
    ASSUME NEW a \in Nat, NEW b \in Nat \ {0}, NEW q, q = RoundedTo(a, b)
    PROVE  /\ q \in Nat /\ Times(b, q) \in Nat
           /\ 2 * Times(b, q) <= 2 * a + b /\ 2 * a + b < 2 * Times(b, q) + 2 * b
<1>1. PICK c \in Int, e \in Nat \ {0} : c = 2 * a + b /\ e = 2 * b
  OBVIOUS
<1>2. q = Div(c, e)
  BY <1>1 DEF RoundedTo, Div
<1>3. /\ q \in Int /\ Mod(c, e) \in 0..e - 1 /\ c = Times(e, q) + Mod(c, e)
      /\ c >= 0 => q >= 0
  BY <1>2, Division
<1>4. Times(e, q) = 2 * Times(b, q) /\ Times(b, q) \in Int
  <2>1. Times(b + b, q) = Times(b, q) + Times(b, q) /\ Times(b, q) \in Int
    BY <1>3, TimesSum, TimesIs
  <2> QED BY <1>1, <2>1
<1>5. q >= 0 => Times(b, q) >= 0
  BY <1>3, TimesGrows
<1> QED BY <1>1, <1>3, <1>4, <1>5

\* The only rounded value is the one that is off by less than a half.
LEMMA RoundedToNearest ==
    ASSUME NEW a \in Nat, NEW b \in Nat \ {0}, NEW n \in Nat,
           2 * Times(b, n) <= 2 * a + b, 2 * a + b < 2 * Times(b, n) + 2 * b
    PROVE  RoundedTo(a, b) = n
<1>1. PICK q : q = RoundedTo(a, b)
  OBVIOUS
<1>2. /\ q \in Nat /\ Times(b, q) \in Nat
      /\ 2 * Times(b, q) <= 2 * a + b /\ 2 * a + b < 2 * Times(b, q) + 2 * b
  BY <1>1, RoundedToIs
<1>3. (q < n => Times(b, q) + b <= Times(b, n)) /\ (n < q => Times(b, n) + b <= Times(b, q))
  <2>1. q \in Int /\ n \in Int
    BY <1>2
  <2>2. q < n => Times(b, q) + b <= Times(b, n)
    BY <2>1, TimesOrder, Zenon
  <2>3. n < q => Times(b, n) + b <= Times(b, q)
    BY <2>1, TimesOrder, Zenon
  <2> QED BY <2>2, <2>3
<1>4. Times(b, n) \in Int
  BY TimesIs
<1> QED BY <1>1, <1>2, <1>3, <1>4

-----------------------------------------------------------------------------
(* The units, and the 32 bits.                                             *)

Scale == Micros \div Millis    \* microseconds of a millisecond
Half  == Word \div 2

\* What the assumption says of the units, with the products under their names.
LEMMA Units ==
    /\ DaySecs \in Nat \ {0} /\ Ticks \in Nat \ {0} /\ Millis \in Nat \ {0}
    /\ Micros \in Nat \ {0} /\ MinuteSecs \in Nat \ {0} /\ SybDays \in Nat \ {0}
    /\ Word \in Nat \ {0} /\ Scale \in Nat \ {0} /\ Half \in Nat \ {0}
    /\ YearZeroSecs \in Nat /\ MinSecs \in Int /\ MaxSecs \in Int
    /\ Micros = Times(Scale, Millis) /\ Word = 2 * Half /\ Ticks < Millis
    /\ SybSecs = Times(DaySecs, SybDays) /\ SybSecs \in Int
    /\ DayTicks = Times(DaySecs, Ticks) /\ DayTicks \in Nat \ {0} /\ DayTicks < Half
<1>1. /\ DaySecs \in Nat \ {0} /\ Ticks \in Nat \ {0} /\ Millis \in Nat \ {0}
      /\ Micros \in Nat \ {0} /\ MinuteSecs \in Nat \ {0} /\ SybDays \in Nat \ {0}
      /\ Word \in Nat \ {0} /\ YearZeroSecs \in Nat /\ MinSecs \in Int /\ MaxSecs \in Int
      /\ Ticks < Millis
  BY UnitsAssumption
<1>2. Scale \in Nat \ {0} /\ Micros = Times(Scale, Millis)
  <2>1. Mod(Micros, Millis) = 0 /\ Scale = Div(Micros, Millis)
    BY UnitsAssumption DEF Scale, Mod, Div
  <2>2. /\ Scale \in Int /\ Scale >= 0 /\ Micros = Times(Millis, Scale) + 0
        /\ Times(Millis, Scale) \in Int
    BY <1>1, <2>1, Division
  <2>3. Times(Millis, Scale) = Times(Scale, Millis)
    BY <1>1, <2>2, TimesIs
  <2>4. Times(Millis, 0) = 0
    BY <1>1, TimesZero
  <2> QED BY <1>1, <2>2, <2>3, <2>4
<1>3. Half \in Nat \ {0} /\ Word = 2 * Half
  BY <1>1, UnitsAssumption DEF Half
<1>4. SybSecs = Times(DaySecs, SybDays) /\ SybSecs \in Int
  <2>1. SybSecs = Times(SybDays, DaySecs)
    BY DEF SybSecs, Times
  <2> QED BY <1>1, <2>1, TimesIs
<1>5. DayTicks = Times(DaySecs, Ticks) /\ DayTicks \in Nat \ {0} /\ DayTicks < Half
  <2>1. DayTicks = Times(DaySecs, Ticks)
    BY DEF DayTicks, Times
  <2>2. Times(DaySecs, Ticks) \in Int /\ Times(DaySecs, Ticks) >= DaySecs
    BY <1>1, TimesIs, TimesGrows
  <2>3. 2 * Times(DaySecs, Ticks) < Word
    <3>1. 2 * DaySecs * Ticks = 2 * Times(DaySecs, Ticks)
      BY <1>1, SMTT(30) DEF Times
    <3> QED BY <3>1, UnitsAssumption
  <2> QED BY <1>1, <1>3, <2>1, <2>2, <2>3
<1> QED BY <1>1, <1>2, <1>3, <1>4, <1>5

\* The conversion to a signed integer is off by a number of words,
LEMMA SignedShifts ==
    ASSUME NEW a \in Int
    PROVE  \E j \in Int : Signed(a) = a - Times(Word, j)
<1>0. Half \in Nat \ {0} /\ Word \in Nat \ {0}
  BY Units
<1>1. PICK n \in Int : n = a + Half
  BY <1>0
<1>2. Signed(a) = Mod(n, Word) - Half
  BY <1>1 DEF Signed, Mod, Half
<1>3. /\ Div(n, Word) \in Int /\ n = Times(Word, Div(n, Word)) + Mod(n, Word)
      /\ Times(Word, Div(n, Word)) \in Int /\ Mod(n, Word) \in 0..Word - 1
  BY <1>0, Division
<1>4. Signed(a) = a - Times(Word, Div(n, Word))
  BY <1>0, <1>1, <1>2, <1>3
<1> QED BY <1>3, <1>4

\* and is the number itself if that has a place in the word.
LEMMA SignedIs ==
    ASSUME NEW x \in Int, -Half <= x, x < Half, NEW j \in Int,
           NEW a, a = x + Times(Word, j)
    PROVE  Signed(a) = x
<1>0. Half \in Nat \ {0} /\ Word \in Nat \ {0} /\ Word = 2 * Half
  BY Units
<1>1. PICK r \in 0..Word - 1 : r = x + Half
  BY <1>0
<1>3. Times(Word, j) \in Int
  BY <1>0, TimesIs
<1>2. PICK n \in Int : n = a + Half
  BY <1>0, <1>3
<1>4. n = Times(Word, j) + r
  BY <1>0, <1>1, <1>2, <1>3
<1>5. Mod(n, Word) = r
  <2>1. \A b \in Nat \ {0} : \A s \in 0..b - 1 : n = Times(b, j) + s => Mod(n, b) = s
    BY DivisionIs
  <2> QED BY <1>0, <1>4, <2>1
<1>6. Signed(a) = Mod(n, Word) - Half
  BY <1>2 DEF Signed, Mod, Half
<1>7. Signed(a) = r - Half
  BY <1>5, <1>6, Zenon
<1> QED BY <1>0, <1>1, <1>7

\* round() to milliseconds of ticks less than a second, which is off by half a
\* millisecond, and from which the ticks can be told.
LEMMA MillisecondsIs ==
    ASSUME NEW rest \in 0..Ticks - 1
    PROVE  \E us \in 0..Micros - 1 :
             /\ us = Times(Scale, Milliseconds(rest))
             /\ 2 * (Times(Ticks, us) - Times(Micros, rest)) <= Times(Ticks, Scale)
             /\ -Times(Ticks, Scale) <= 2 * (Times(Ticks, us) - Times(Micros, rest))
             /\ us = 0 <=> rest = 0
             /\ RoundedTo(Times(us, Ticks), Micros) = rest
<1>1. /\ Ticks \in Nat \ {0} /\ Millis \in Nat \ {0} /\ Scale \in Nat \ {0}
      /\ Micros \in Nat \ {0} /\ Micros = Times(Scale, Millis) /\ Ticks < Millis
  BY Units
<1>2. PICK a \in Int : a = Times(Millis, rest)
  BY <1>1, TimesIs
<1>3. a \in Nat /\ (rest > 0 => a >= Millis) /\ a <= Times(Millis, Ticks) - Millis
  <2>1. rest \in Int /\ Ticks \in Int
    BY <1>1
  <2>2. a >= 0 /\ (rest > 0 => a >= Millis)
    BY <1>1, <1>2, <2>1, TimesGrows
  <2>3. a + Millis <= Times(Millis, Ticks)
    BY <1>1, <1>2, <2>1, TimesOrder
  <2>4. Times(Millis, Ticks) \in Int
    BY <1>1, TimesIs
  <2> QED BY <1>1, <2>2, <2>3, <2>4
<1>4. PICK m \in Nat, x \in Nat :
        /\ m = Milliseconds(rest) /\ x = Times(Ticks, m)
        /\ 2 * x <= 2 * a + Ticks /\ 2 * a + Ticks < 2 * x + 2 * Ticks
  <2>1. Milliseconds(rest) = RoundedTo(a, Ticks)
    <3>1. Milliseconds(rest) = RoundedTo(Times(rest, Millis), Ticks)
      BY DEF Milliseconds, Times
    <3>2. Times(rest, Millis) = a
      BY <1>1, <1>2, TimesIs
    <3> QED BY <3>1, <3>2
  <2>2. PICK m : m = RoundedTo(a, Ticks)
    OBVIOUS
  <2>3. /\ m \in Nat /\ Times(Ticks, m) \in Nat
        /\ 2 * Times(Ticks, m) <= 2 * a + Ticks /\ 2 * a + Ticks < 2 * Times(Ticks, m) + 2 * Ticks
    BY <1>1, <1>3, <2>2, RoundedToIs
  <2> QED BY <2>1, <2>2, <2>3
<1>5. m < Millis
  <2>1. m >= Millis => x >= Times(Ticks, Millis)
    BY <1>1, <1>4, TimesOrder
  <2>2. Times(Ticks, Millis) = Times(Millis, Ticks) /\ Times(Ticks, Millis) \in Int
    <3>1. Ticks \in Int /\ Millis \in Int
      BY <1>1
    <3> QED BY <3>1, TimesIs, Zenon
  <2> QED BY <1>1, <1>3, <1>4, <2>1, <2>2
<1>6. PICK us \in 0..Micros - 1 :
        us = Times(Scale, m) /\ (m > 0 => us >= Scale) /\ (m = 0 => us = 0)
  <2>0. Times(Scale, m) \in Int
    <3>1. Scale \in Int /\ m \in Int
      BY <1>1
    <3> QED BY <3>1, TimesIs, Zenon
  <2>1. PICK us \in Int : us = Times(Scale, m)
    BY <2>0
  <2>2. us >= 0 /\ (m > 0 => us >= Scale)
    BY <1>1, <2>1, TimesGrows
  <2>3. m = 0 => us = 0
    BY <1>1, <2>1, TimesZero
  <2>4. us + Scale <= Micros
    BY <1>1, <1>5, <2>1, TimesOrder
  <2>5. us \in 0..Micros - 1
    BY <1>1, <2>2, <2>4
  <2> QED BY <2>1, <2>2, <2>3, <2>5
<1>7. us = 0 <=> rest = 0
  <2>1. us = 0 => m = 0
    BY <1>1, <1>6
  <2>2. m = 0 => x = 0
    BY <1>1, <1>4, TimesZero
  <2>3. m > 0 => x >= Ticks
    BY <1>1, <1>4, TimesGrows
  <2>4. rest = 0 => a = 0
    BY <1>1, <1>2, TimesZero
  <2> QED BY <1>1, <1>3, <1>4, <1>6, <2>1, <2>2, <2>3, <2>4
<1>8. PICK e \in Int, sx \in Int, sa \in Int :
        /\ e = Times(Scale, Ticks) /\ sx = Times(Scale, x) /\ sa = Times(Scale, a)
  <2>1. Times(Scale, Ticks) \in Int /\ Times(Scale, x) \in Int /\ Times(Scale, a) \in Int
    <3>1. Scale \in Int /\ Ticks \in Int /\ x \in Int
      BY <1>1
    <3> QED BY <3>1, TimesIs, Zenon
  <2> QED BY <2>1
<1>9. /\ Times(Ticks, us) = sx /\ Times(us, Ticks) = sx
      /\ Times(Micros, rest) = sa /\ Times(Ticks, Scale) = e
  <2>1. Times(Ticks, Times(Scale, m)) = Times(Times(Ticks, Scale), m)
    BY <1>1, TimesAssociates
  <2>2. Times(Scale, Times(Ticks, m)) = Times(Times(Scale, Ticks), m)
    BY <1>1, TimesAssociates
  <2>3. Times(Ticks, Scale) = Times(Scale, Ticks)
    BY <1>1, TimesIs
  <2>4. Times(Ticks, us) = sx
    BY <1>4, <1>6, <1>8, <2>1, <2>2, <2>3, Zenon
  <2>5. Times(us, Ticks) = Times(Ticks, us)
    BY <1>1, TimesIs
  <2>6. Times(Scale, Times(Millis, rest)) = Times(Times(Scale, Millis), rest)
    BY <1>1, TimesAssociates
  <2>7. Times(Micros, rest) = sa
    BY <1>1, <1>2, <1>8, <2>6, Zenon
  <2> QED BY <1>8, <2>3, <2>4, <2>5, <2>7, Zenon
<1>10. 2 * (sx - sa) <= e /\ -e <= 2 * (sx - sa)
  <2>1. PICK u \in Int, v \in Int : u = x - a /\ v = u + u
    BY <1>4
  <2>2. Times(Scale, u) = sx - sa
    BY <1>1, <1>8, <2>1, TimesSum
  <2>7. Times(Scale, v) = Times(Scale, u) + Times(Scale, u)
    BY <1>1, <2>1, TimesSum
  <2>3. v <= Ticks /\ -Ticks <= v /\ Ticks \in Int
    BY <1>1, <1>4, <2>1
  <2>4. Times(Scale, v) <= e
    BY <1>1, <1>8, <2>3, TimesOrder
  <2>5. Times(Scale, -Ticks) <= Times(Scale, v)
    <3>1. PICK t \in Int : t = -Ticks
      BY <1>1
    <3>2. Times(Scale, t) <= Times(Scale, v)
      BY <1>1, <2>3, <3>1, TimesOrder
    <3> QED BY <3>1, <3>2
  <2>6. Times(Scale, -Ticks) = -e
    BY <1>1, <1>8, TimesNegative
  <2> QED BY <1>8, <2>2, <2>7, <2>4, <2>5, <2>6
<1>11. RoundedTo(sx, Micros) = rest
  <2>1. e + Scale <= Micros
    BY <1>1, <1>8, TimesOrder
  <2>2. sx \in Nat
    BY <1>1, <1>8, TimesGrows
  <2>3. rest \in Nat
    BY <1>1
  <2>4. 2 * sa <= 2 * sx + Micros /\ 2 * sx + Micros < 2 * sa + 2 * Micros
    BY <1>1, <1>8, <1>10, <2>1
  <2>5. Times(Micros, rest) = sa
    BY <1>9
  <2> QED BY <1>1, <2>2, <2>3, <2>4, <2>5, RoundedToNearest
<1> QED BY <1>4, <1>6, <1>7, <1>8, <1>9, <1>10, <1>11

-----------------------------------------------------------------------------
(* Dates that are bound.                                                   *)

QoreDates == [secs : Int, us : 0..Micros - 1]

\* Microseconds become ticks, of which a second has no more than Ticks.
LEMMA TicksOfMicros ==
    ASSUME NEW us \in 0..Micros - 1
    PROVE  \E r \in 0..Ticks :
             /\ r = RoundedTo(Times(us, Ticks), Micros)
             /\ Times(us, Ticks) \in Nat /\ Times(Micros, r) \in Nat
             /\ 2 * Times(Micros, r) <= 2 * Times(us, Ticks) + Micros
             /\ 2 * Times(us, Ticks) + Micros < 2 * Times(Micros, r) + 2 * Micros
<1>1. /\ Micros \in Nat \ {0} /\ Ticks \in Nat \ {0} /\ Micros \in Int /\ Ticks \in Int
      /\ us \in Int
  BY Units
<1>2. Times(us, Ticks) = Times(Ticks, us) /\ Times(us, Ticks) \in Int
  BY <1>1, TimesIs, Zenon
<1>3. PICK a \in Nat : a = Times(us, Ticks)
  <2>1. Times(Ticks, us) >= 0
    BY <1>1, TimesGrows
  <2> QED BY <1>2, <2>1
<1>4. a <= Times(Micros, Ticks) - Ticks
  <2>1. us < Micros
    BY <1>1
  <2>2. Times(Ticks, us) + Ticks <= Times(Ticks, Micros)
    BY <1>1, <2>1, TimesOrder, Zenon
  <2>3. Times(Ticks, Micros) = Times(Micros, Ticks) /\ Times(Micros, Ticks) \in Int
    BY <1>1, TimesIs, Zenon
  <2> QED BY <1>1, <1>2, <1>3, <2>2, <2>3
<1>5. PICK r : r = RoundedTo(a, Micros)
  OBVIOUS
<1>6. /\ r \in Nat /\ Times(Micros, r) \in Nat
      /\ 2 * Times(Micros, r) <= 2 * a + Micros /\ 2 * a + Micros < 2 * Times(Micros, r) + 2 * Micros
  BY <1>1, <1>5, RoundedToIs
<1>7. r <= Ticks
  <2>1. Ticks < r => Times(Micros, Ticks) + Micros <= Times(Micros, r)
    <3>1. r \in Int
      BY <1>6
    <3> QED BY <1>1, <3>1, TimesOrder, Zenon
  <2>2. Times(Micros, Ticks) \in Int
    BY <1>1, TimesIs, Zenon
  <2> QED BY <1>1, <1>4, <1>6, <2>1, <2>2
<1> QED BY <1>1, <1>3, <1>5, <1>6, <1>7

\* DateTime_to_DATETIME(): the seconds of the day keep their sign, and nothing is
\* lost in the 32 bits although the days do not fit in them.
LEMMA ToDatetimeIs ==
    ASSUME NEW d, d.secs \in Int, d.us \in 0..Micros - 1
    PROVE  \E days \in Int, tod \in Int, x \in Int, r \in 0..Ticks :
             /\ d.secs = Times(DaySecs, days) + tod
             /\ -DaySecs < tod /\ tod < DaySecs
             /\ d.secs >= 0 => tod = Mod(d.secs, DaySecs)
             /\ d.secs < 0 => tod <= 0
             /\ r = RoundedTo(Times(d.us, Ticks), Micros)
             /\ x = Times(Ticks, tod)
             /\ ToDatetime(d) = [days |-> days + SybDays, time |-> x + r]
<1>1. /\ DaySecs \in Nat \ {0} /\ Ticks \in Nat \ {0} /\ Half \in Nat \ {0}
      /\ DaySecs \in Int /\ Ticks \in Int /\ Word \in Int /\ Micros \in Int
      /\ DayTicks = Times(DaySecs, Ticks) /\ DayTicks \in Nat \ {0} /\ DayTicks < Half
  BY Units
<1>2. PICK secs \in Int, us \in 0..Micros - 1 : secs = d.secs /\ us = d.us
  OBVIOUS
<1>3. PICK r \in 0..Ticks : r = RoundedTo(Times(us, Ticks), Micros)
  BY TicksOfMicros
<1>4. PICK days \in Int, p \in Int :
        /\ days = DaysOf(secs) /\ p = Times(DaySecs, days)
        /\ secs >= 0 => days = Div(secs, DaySecs) /\ secs - p \in 0..DaySecs - 1
        /\ secs < 0 => p - secs \in 0..DaySecs - 1
  <2>1. PICK q : q = Quotient(secs, DaySecs)
    OBVIOUS
  <2>2. /\ q \in Int /\ Times(DaySecs, q) \in Int
        /\ secs >= 0 => q = Div(secs, DaySecs) /\ secs - Times(DaySecs, q) \in 0..DaySecs - 1
        /\ secs < 0 => Times(DaySecs, q) - secs \in 0..DaySecs - 1
    BY <1>1, <2>1, QuotientIs
  <2> QED BY <2>1, <2>2 DEF DaysOf
<1>5. PICK tod \in Int : tod = secs - p
  OBVIOUS
<1>6. -DaySecs < tod /\ tod < DaySecs /\ (secs < 0 => tod <= 0) /\ secs = p + tod
  BY <1>1, <1>4, <1>5
<1>7. secs >= 0 => tod = Mod(secs, DaySecs)
  <2>1. Mod(secs, DaySecs) \in Int /\ secs = Times(DaySecs, Div(secs, DaySecs)) + Mod(secs, DaySecs)
    <3>1. Mod(secs, DaySecs) \in 0..DaySecs - 1
          /\ secs = Times(DaySecs, Div(secs, DaySecs)) + Mod(secs, DaySecs)
      BY <1>1, Division
    <3> QED BY <1>1, <3>1
  <2> QED BY <1>4, <1>5, <2>1
<1>8. PICK x \in Int : x = Times(Ticks, tod)
  <2>1. Times(Ticks, tod) \in Int
    BY <1>1, TimesIs, Zenon
  <2> QED BY <2>1
<1>9. x + Ticks <= DayTicks /\ -DayTicks <= x
  <2>1. Times(Ticks, tod) + Ticks <= Times(Ticks, DaySecs)
    BY <1>1, <1>6, TimesOrder, Zenon
  <2>2. PICK n \in Int : n = -DaySecs
    BY <1>1
  <2>3. n <= tod
    BY <1>1, <1>6, <2>2
  <2>4. Times(Ticks, n) <= Times(Ticks, tod)
    BY <1>1, <2>3, TimesOrder, Zenon
  <2>5. Times(Ticks, -DaySecs) = -Times(Ticks, DaySecs)
    BY <1>1, TimesNegative, Zenon
  <2>6. Times(Ticks, DaySecs) = Times(DaySecs, Ticks)
    BY <1>1, TimesIs, Zenon
  <2> QED BY <1>1, <1>8, <2>1, <2>2, <2>4, <2>5, <2>6
<1>10. PICK j \in Int : Signed(p) = p - Times(Word, j)
  BY SignedShifts
<1>11. PICK w \in Int, k \in Int, wk \in Int :
         w = Times(Word, j) /\ k = Times(Ticks, j) /\ wk = Times(Word, k)
  <2>1. Times(Word, j) \in Int /\ Times(Ticks, j) \in Int
    BY <1>1, TimesIs, Zenon
  <2>2. Times(Word, Times(Ticks, j)) \in Int
    BY <1>1, <2>1, TimesIs, Zenon
  <2> QED BY <2>1, <2>2
<1>12. Times(Ticks, w) = wk
  <2>1. Times(Ticks, Times(Word, j)) = Times(Times(Ticks, Word), j)
    BY <1>1, TimesAssociates
  <2>2. Times(Word, Times(Ticks, j)) = Times(Times(Word, Ticks), j)
    BY <1>1, TimesAssociates
  <2>3. Times(Ticks, Word) = Times(Word, Ticks)
    BY <1>1, TimesIs, Zenon
  <2> QED BY <1>11, <2>1, <2>2, <2>3, Zenon
<1>13. PICK t \in Int : t = secs - Signed(p)
  BY <1>10, <1>11
<1>14. Times(t, Ticks) = x + wk
  <2>1. t = tod + w
    BY <1>5, <1>10, <1>11, <1>13
  <2>2. Times(Ticks, tod + w) = Times(Ticks, tod) + Times(Ticks, w)
    BY <1>1, TimesSum
  <2>3. Times(t, Ticks) = Times(Ticks, t)
    BY <1>1, TimesIs, Zenon
  <2> QED BY <1>8, <1>12, <2>1, <2>2, <2>3, Zenon
<1>15. Signed(Times(t, Ticks) + r) = x + r
  <2>1. PICK z \in Int : z = x + r
    BY <1>1
  <2>2. -Half <= z /\ z < Half
    BY <1>1, <1>9, <2>1
  <2>3. PICK a : a = Times(t, Ticks) + r
    OBVIOUS
  <2>4. a = z + Times(Word, k)
    BY <1>1, <1>11, <1>14, <2>1, <2>3
  <2>5. Signed(a) = z
    BY <2>2, <2>4, SignedIs, Zenon
  <2> QED BY <2>1, <2>3, <2>5, Zenon
<1>16. ToDatetime(d) = [days |-> days + SybDays, time |-> x + r]
  <2>1. Times(days, DaySecs) = p
    BY <1>1, <1>4, TimesIs, Zenon
  <2>2. ToDatetime(d) = [days |-> days + SybDays,
          time |-> Signed(Times(d.secs - Signed(Times(days, DaySecs)), Ticks)
                          + RoundedTo(Times(d.us, Ticks), Micros))]
    BY <1>2, <1>4 DEF ToDatetime, Times
  <2>3. Times(d.secs - Signed(Times(days, DaySecs)), Ticks) = Times(t, Ticks)
    BY <1>2, <1>13, <2>1, Zenon
  <2>4. RoundedTo(Times(d.us, Ticks), Micros) = r
    BY <1>2, <1>3, Zenon
  <2> QED BY <1>15, <2>2, <2>3, <2>4, Zenon
<1>17. /\ d.secs = Times(DaySecs, days) + tod
       /\ d.secs >= 0 => tod = Mod(d.secs, DaySecs)
       /\ d.secs < 0 => tod <= 0
       /\ r = RoundedTo(Times(d.us, Ticks), Micros)
  BY <1>2, <1>3, <1>4, <1>6, <1>7
<1> QED BY <1>6, <1>8, <1>16, <1>17

-----------------------------------------------------------------------------
(* The inductive invariant.                                                *)

ColumnTypes == NumberTypes \cup TextTypes \cup DateTypes

\* What is in the column is of its type: a time of day less than a day.
StoredOK ==
    /\ column = "DECIMAL" => stored \in Numbers
    /\ column \in TextTypes => stored \in Texts
    /\ column = "DATETIME" => stored \in [days : Int, time : 0..DayTicks - 1]
    /\ column = "TIME" => stored \in 0..DayTicks - 1
    /\ column = "SMALLDATETIME" => stored \in [days : Int, minutes : Int]
    /\ column \in {"DATE", "BIGDATETIME", "BIGTIME"} => stored \in Int

\* What is in the column after a date was bound by value is what was made of it.
BoundOK ==
    bound # None =>
        /\ bound.d \in QoreDates /\ bound.full \in BOOLEAN
        /\ column \in {"DATETIME", "BIGDATETIME"}
        /\ ~bound.full =>
             /\ LegalDatetime(ToDatetime(bound.d))
             /\ column = "DATETIME" => stored = ToDatetime(bound.d)
             /\ column = "BIGDATETIME" => stored = AsBig(ToDatetime(bound.d))
        /\ bound.full =>
             /\ column = "DATETIME" =>
                  /\ bound.d.us = 0
                  /\ stored = [days |-> Div(bound.d.secs, DaySecs) + SybDays,
                               time |-> Times(Mod(bound.d.secs, DaySecs), Ticks)]
             /\ column = "BIGDATETIME" =>
                  stored = Times(bound.d.secs + YearZeroSecs, Micros) + bound.d.us

\* A value that is read is that of the column, which has not changed since.
ConversionInv ==
    /\ freetds \in BOOLEAN /\ optimized \in BOOLEAN /\ raised \in BOOLEAN
    /\ numeric \in {"optimal", "string", "numeric"} /\ column \in ColumnTypes
    /\ StoredOK /\ BoundOK
    /\ value # None => value = GetValue

\* The time of a DATETIME is a second of the day and a part of a second.
LEMMA OfTicksIs ==
    ASSUME NEW time \in Nat
    PROVE  \E q \in Nat, x \in Nat, rest \in 0..Ticks - 1, us \in 0..Micros - 1 :
             /\ q = Div(time, Ticks) /\ rest = Mod(time, Ticks)
             /\ x = Times(Ticks, q) /\ time = x + rest
             /\ \A secs : OfTicks(secs, time) = Instant(secs + q, us)
             /\ us = Times(Scale, Milliseconds(rest))
             /\ 2 * (Times(Ticks, us) - Times(Micros, rest)) <= Times(Ticks, Scale)
             /\ -Times(Ticks, Scale) <= 2 * (Times(Ticks, us) - Times(Micros, rest))
             /\ us = 0 <=> rest = 0
             /\ RoundedTo(Times(us, Ticks), Micros) = rest
<1>1. Ticks \in Nat \ {0} /\ Ticks \in Int /\ Scale \in Int
  BY Units
<1>2. PICK q \in Nat, rest \in 0..Ticks - 1 : q = Div(time, Ticks) /\ rest = Mod(time, Ticks)
  <2>1. Div(time, Ticks) \in Int /\ Mod(time, Ticks) \in 0..Ticks - 1 /\ Div(time, Ticks) >= 0
    BY <1>1, Division
  <2> QED BY <2>1
<1>3. PICK x \in Nat : x = Times(Ticks, q) /\ time = x + rest
  <2>1. Times(Ticks, Div(time, Ticks)) \in Int
        /\ time = Times(Ticks, Div(time, Ticks)) + Mod(time, Ticks)
    BY <1>1, Division
  <2>2. Times(Ticks, q) >= 0
    BY <1>1, TimesGrows
  <2> QED BY <1>2, <2>1, <2>2
<1>4. PICK us \in 0..Micros - 1 :
         /\ us = Times(Scale, Milliseconds(rest))
         /\ 2 * (Times(Ticks, us) - Times(Micros, rest)) <= Times(Ticks, Scale)
         /\ -Times(Ticks, Scale) <= 2 * (Times(Ticks, us) - Times(Micros, rest))
         /\ us = 0 <=> rest = 0
         /\ RoundedTo(Times(us, Ticks), Micros) = rest
  BY MillisecondsIs
<1>5. ASSUME NEW secs
      PROVE  OfTicks(secs, time) = Instant(secs + q, us)
  <2>1. Quotient(time, Ticks) = q
    BY <1>2 DEF Quotient, Div
  <2>2. time - Times(q, Ticks) = rest
    <3>1. Times(q, Ticks) = Times(Ticks, q)
      BY <1>1, TimesIs
    <3> QED BY <1>3, <3>1
  <2>3. OfTicks(secs, time) = Instant(secs + Quotient(time, Ticks),
          Times(Milliseconds(time - Times(Quotient(time, Ticks), Ticks)), Scale))
    BY DEF OfTicks, Times, Scale
  <2>4. Times(Milliseconds(rest), Scale) = Times(Scale, Milliseconds(rest))
    <3>1. Milliseconds(rest) \in Int
      <4>1. PICK a \in Nat : a = Times(rest, Millis)
        <5>1. rest \in Int /\ Millis \in Nat \ {0} /\ Millis \in Int
          BY <1>1, Units
        <5>2. Times(rest, Millis) = Times(Millis, rest) /\ Times(Millis, rest) \in Int
          BY <5>1, TimesIs, Zenon
        <5>3. Times(Millis, rest) >= 0
          BY <1>1, <5>1, TimesGrows
        <5> QED BY <5>2, <5>3
      <4>2. Milliseconds(rest) = RoundedTo(a, Ticks)
        BY <4>1 DEF Milliseconds, Times
      <4> QED BY <1>1, <4>2, RoundedToIs
    <3> QED BY <1>1, <3>1, TimesIs
  <2> QED BY <1>4, <2>1, <2>2, <2>3, <2>4
<1> QED BY <1>2, <1>3, <1>4, <1>5

\* A BIGTIME is its seconds and microseconds.
LEMMA BigTimeIs ==
    ASSUME NEW v \in Int
    PROVE  /\ Div(v, Micros) \in Int /\ Mod(v, Micros) \in 0..Micros - 1
           /\ v = Times(Micros, Div(v, Micros)) + Mod(v, Micros)
           /\ BigTimeToDate(v) = Instant(Div(v, Micros), Mod(v, Micros))
           /\ BigToDate(v) = Instant(Div(v, Micros) - YearZeroSecs, Mod(v, Micros))
<1>1. Micros \in Nat \ {0} /\ Micros \in Int
  BY Units
<1>2. /\ Div(v, Micros) \in Int /\ Mod(v, Micros) \in 0..Micros - 1
      /\ Times(Micros, Div(v, Micros)) \in Int
      /\ v = Times(Micros, Div(v, Micros)) + Mod(v, Micros)
  BY <1>1, Division
<1>3. v - Times(Div(v, Micros), Micros) = Mod(v, Micros)
  <2>1. Times(Div(v, Micros), Micros) = Times(Micros, Div(v, Micros))
    BY <1>1, <1>2, TimesIs, Zenon
  <2> QED BY <1>2, <2>1
<1>4. BigTimeToDate(v) = Instant(Div(v, Micros), Mod(v, Micros))
  <2>1. BigTimeToDate(v) = Instant(Div(v, Micros), v - Times(Div(v, Micros), Micros))
    BY DEF BigTimeToDate, Div, Times
  <2> QED BY <1>3, <2>1
<1>5. BigToDate(v) = Instant(Div(v, Micros) - YearZeroSecs, Mod(v, Micros))
  BY <1>4 DEF BigToDate, Instant
<1> QED BY <1>2, <1>4, <1>5

\* Dates of a program that writes back what it has read are like others.
LEMMA DatesAreQore == Dates \subseteq QoreDates
BY ValuesAssumption DEF QoreDates

\* The values read, by the type of the column.
LEMMA ValueTypes ==
    ASSUME ConversionInv
    PROVE  /\ column \in NumberTypes => GetValue.type \in {"int", "number", "string"}
           /\ column \in TextTypes => GetValue.type \in {"string", "float"}
           /\ column \in DateTypes =>
                \E secs \in Int, us \in 0..Micros - 1 : GetValue = Instant(secs, us)
<1>1. ASSUME column \in NumberTypes
      PROVE  GetValue.type \in {"int", "number", "string"}
  <2>1. column = "DECIMAL" /\ column \notin DateTypes
    BY <1>1 DEF NumberTypes, DateTypes
  <2>2. CASE numeric = "string"
    BY <2>1, <2>2 DEF GetValue
  <2>3. CASE numeric # "string"
    <3>1. GetValue = GetNumber(stored)
      BY <2>1, <2>3 DEF GetValue
    <3> QED BY <3>1 DEF GetNumber, StrToLL
  <2> QED BY <2>2, <2>3
<1>2. ASSUME column \in TextTypes
      PROVE  GetValue.type \in {"string", "float"}
  <2>1. column # "DECIMAL" /\ column \notin DateTypes
    BY <1>2 DEF TextTypes, DateTypes
  <2>2. CASE column = "FLOAT26" /\ ~freetds
    BY <2>1, <2>2 DEF GetValue
  <2>3. CASE ~(column = "FLOAT26" /\ ~freetds)
    <3>1. GetValue = GetText(Described(column), stored)
      BY <2>1, <2>3 DEF GetValue
    <3> QED BY <3>1 DEF GetText
  <2> QED BY <2>2, <2>3
<1>3. ASSUME column \in DateTypes
      PROVE  \E secs \in Int, us \in 0..Micros - 1 : GetValue = Instant(secs, us)
  <2>0. GetValue = GetDate
    BY <1>3 DEF GetValue, DateTypes
  <2>1. /\ DaySecs \in Int /\ SybDays \in Int /\ SybSecs \in Int /\ Word \in Nat \ {0}
        /\ MinuteSecs \in Int /\ YearZeroSecs \in Int /\ 0 \in 0..Micros - 1
        /\ DayTicks \in Nat
    BY Units
  <2>2. CASE column = "DATETIME"
    <3>1. stored.days \in Int /\ stored.time \in Nat
      BY <2>1, <2>2 DEF ConversionInv, StoredOK
    <3>2. PICK q \in Nat, us \in 0..Micros - 1 :
            \A secs : OfTicks(secs, stored.time) = Instant(secs + q, us)
      BY <3>1, OfTicksIs
    <3>3. PICK p \in Int : p = Times(stored.days, DaySecs)
      BY <2>1, <3>1, TimesIs
    <3>4. GetValue = OfTicks(p - SybSecs, stored.time)
      BY <2>0, <2>2, <3>3 DEF GetDate, DatetimeToDate, Times
    <3>5. p - SybSecs + q \in Int
      BY <2>1
    <3> QED BY <3>2, <3>4, <3>5
  <2>3. CASE column = "TIME"
    <3>1. stored \in Nat
      BY <2>1, <2>3 DEF ConversionInv, StoredOK
    <3>2. PICK q \in Nat, us \in 0..Micros - 1 :
            \A secs : OfTicks(secs, stored) = Instant(secs + q, us)
      BY <3>1, OfTicksIs
    <3>3. GetValue = OfTicks(0, stored) /\ 0 + q \in Int
      BY <2>0, <2>3 DEF GetDate, TimeToDate
    <3> QED BY <3>2, <3>3
  <2>4. CASE column = "SMALLDATETIME"
    <3>1. stored.days \in Int /\ stored.minutes \in Int
      BY <2>4 DEF ConversionInv, StoredOK
    <3>2. Times(stored.minutes, MinuteSecs) \in Int /\ Times(stored.days, DaySecs) \in Int
      BY <2>1, <3>1, TimesIs
    <3>3. GetValue = Instant(Times(stored.minutes, MinuteSecs) + Times(stored.days, DaySecs) - SybSecs, 0)
      BY <2>0, <2>4 DEF GetDate, SmallToDate, Times
    <3>4. Times(stored.minutes, MinuteSecs) + Times(stored.days, DaySecs) - SybSecs \in Int
      BY <2>1, <3>2
    <3> QED BY <2>1, <3>3, <3>4
  <2>5. CASE column = "DATE"
    <3>1. stored \in Int
      BY <2>5 DEF ConversionInv, StoredOK
    <3>2. PICK n \in Int : n = Times(stored, DaySecs) - SybSecs
      <4>1. Times(stored, DaySecs) \in Int
        BY <2>1, <3>1, TimesIs
      <4> QED BY <2>1, <4>1
    <3>3. GetValue = Instant(Mod(n, Word), 0)
      BY <2>0, <2>5, <3>2 DEF GetDate, DateToDate, Unsigned, Times, Mod
    <3>4. Mod(n, Word) \in Int
      <4>1. Mod(n, Word) \in 0..Word - 1
        BY <2>1, Division
      <4> QED BY <2>1, <4>1
    <3> QED BY <2>1, <3>3, <3>4
  <2>6. CASE column = "BIGDATETIME"
    <3>1. stored \in Int
      BY <2>6 DEF ConversionInv, StoredOK
    <3>2. GetValue = BigToDate(stored)
      BY <2>0, <2>6 DEF GetDate
    <3>3. /\ Div(stored, Micros) - YearZeroSecs \in Int /\ Mod(stored, Micros) \in 0..Micros - 1
          /\ BigToDate(stored) = Instant(Div(stored, Micros) - YearZeroSecs, Mod(stored, Micros))
      BY <2>1, <3>1, BigTimeIs
    <3> QED BY <3>2, <3>3
  <2>7. CASE column = "BIGTIME"
    <3>1. stored \in Int
      BY <2>7 DEF ConversionInv, StoredOK
    <3>2. GetValue = BigTimeToDate(stored)
      BY <2>0, <2>7 DEF GetDate
    <3>3. /\ Div(stored, Micros) \in Int /\ Mod(stored, Micros) \in 0..Micros - 1
          /\ BigTimeToDate(stored) = Instant(Div(stored, Micros), Mod(stored, Micros))
      BY <3>1, BigTimeIs
    <3> QED BY <3>2, <3>3
  <2> QED BY <1>3, <2>2, <2>3, <2>4, <2>5, <2>6, <2>7 DEF DateTypes
<1> QED BY <1>1, <1>2, <1>3

\* The type invariant, for what is read and what was bound.
LEMMA InvImpliesTypeOK == ConversionInv => TypeOK
<1> SUFFICES ASSUME ConversionInv
             PROVE  TypeOK
  OBVIOUS
<1>1. bound = None \/ bound.d \in [secs : Int, us : Nat]
  <2>1. bound # None => bound.d \in QoreDates
    BY DEF ConversionInv, BoundOK
  <2>2. QoreDates \subseteq [secs : Int, us : Nat]
    BY Units DEF QoreDates
  <2> QED BY <2>1, <2>2
<1>2. column \in ColumnTypes
  BY DEF ConversionInv
<1>3. CASE column \in NumberTypes
  <2>1. column \notin TextTypes /\ column \notin DateTypes
    BY <1>3 DEF NumberTypes, TextTypes, DateTypes
  <2>2. IsRead => value.type \in {"int", "number", "string"}
    BY <1>3, ValueTypes DEF ConversionInv, IsRead
  <2> QED BY <1>1, <1>2, <1>3, <2>1, <2>2 DEF TypeOK, ConversionInv, ColumnTypes
<1>4. CASE column \in TextTypes
  <2>1. column \notin NumberTypes /\ column \notin DateTypes
    BY <1>4 DEF NumberTypes, TextTypes, DateTypes
  <2>2. IsRead => value.type \in {"string", "float"}
    BY <1>4, ValueTypes DEF ConversionInv, IsRead
  <2> QED BY <1>1, <1>2, <1>4, <2>1, <2>2 DEF TypeOK, ConversionInv, ColumnTypes
<1>5. CASE column \in DateTypes
  <2>1. column \notin NumberTypes /\ column \notin TextTypes
    BY <1>5 DEF NumberTypes, TextTypes, DateTypes
  <2>2. IsRead => value.type = "date" /\ value.us \in 0..Micros - 1
    BY <1>5, ValueTypes DEF ConversionInv, IsRead, Instant
  <2> QED BY <1>1, <1>2, <1>5, <2>1, <2>2 DEF TypeOK, ConversionInv, ColumnTypes
<1> QED BY <1>2, <1>3, <1>4, <1>5 DEF ColumnTypes

\* The initial states satisfy the invariant.
LEMMA InitConversion == Init => ConversionInv
<1> SUFFICES ASSUME Init
             PROVE  ConversionInv
  OBVIOUS
<1>1. /\ freetds \in BOOLEAN /\ numeric = "optimal" /\ optimized = FALSE /\ raised = FALSE
      /\ column \in ColumnTypes /\ stored \in ServerValues(column)
      /\ bound = None /\ value = None
  BY DEF Init, ColumnTypes
<1>2. /\ DaySecs \in Int /\ DaySecs \in Nat \ {0} /\ SybDays \in Int /\ YearZeroSecs \in Int
      /\ MinSecs \in Int /\ MaxSecs \in Int /\ Micros \in Int
  BY Units
<1>3. StoredOK
  <2>1. CASE column = "DECIMAL"
    BY <1>1, <2>1 DEF ServerValues, StoredOK, TextTypes
  <2>2. CASE column \in TextTypes
    BY <1>1, <2>2 DEF ServerValues, StoredOK, TextTypes
  <2>3. Days \subseteq Int
    BY DEF Days
  <2>4. CASE column = "DATETIME"
    BY <1>1, <2>3, <2>4 DEF ServerValues, StoredOK, TextTypes
  <2>5. CASE column = "TIME"
    BY <1>1, <2>5 DEF ServerValues, StoredOK, TextTypes
  <2>6. CASE column = "SMALLDATETIME"
    BY <1>1, <2>6 DEF ServerValues, StoredOK, TextTypes
  <2>7. CASE column = "DATE"
    BY <1>1, <2>3, <2>7 DEF ServerValues, StoredOK, TextTypes
  <2>8. CASE column = "BIGDATETIME"
    <3>1. stored \in {(d.secs + YearZeroSecs) * Micros + d.us : d \in Dates}
      BY <1>1, <2>8 DEF ServerValues, TextTypes
    <3>2. PICK d \in Dates : stored = Times(d.secs + YearZeroSecs, Micros) + d.us
      BY <3>1 DEF Times
    <3>3. d.secs + YearZeroSecs \in Int /\ d.us \in Int
      BY <1>2, DatesAreQore DEF QoreDates
    <3>4. Times(d.secs + YearZeroSecs, Micros) \in Int
      BY <1>2, <3>3, TimesIs, Zenon
    <3>5. stored \in Int
      BY <3>2, <3>3, <3>4
    <3> QED BY <2>8, <3>5 DEF StoredOK, TextTypes
  <2>9. CASE column = "BIGTIME"
    <3>1. stored \in {(d.secs % DaySecs) * Micros + d.us : d \in Dates}
      BY <1>1, <2>9 DEF ServerValues, TextTypes
    <3>2. PICK d \in Dates : stored = Times(Mod(d.secs, DaySecs), Micros) + d.us
      BY <3>1 DEF Times, Mod
    <3>3. d.secs \in Int /\ d.us \in Int
      BY <1>2, DatesAreQore DEF QoreDates
    <3>4. Mod(d.secs, DaySecs) \in Int
      <4>1. Mod(d.secs, DaySecs) \in 0..DaySecs - 1
        BY <1>2, <3>3, Division
      <4> QED BY <1>2, <4>1
    <3>5. Times(Mod(d.secs, DaySecs), Micros) \in Int
      BY <1>2, <3>4, TimesIs, Zenon
    <3>6. stored \in Int
      BY <3>2, <3>3, <3>5
    <3> QED BY <2>9, <3>6 DEF StoredOK, TextTypes
  <2> QED BY <1>1, <2>1, <2>2, <2>4, <2>5, <2>6, <2>7, <2>8, <2>9
       DEF ColumnTypes, NumberTypes, DateTypes
<1> QED BY <1>1, <1>3 DEF ConversionInv, BoundOK

\* With optimized-date-binds the seconds of a DATETIME are exact.
LEMMA WholeSeconds ==
    ASSUME NEW secs \in Int
    PROVE  /\ Div(secs, DaySecs) \in Int /\ Mod(secs, DaySecs) \in 0..DaySecs - 1
           /\ secs = Times(DaySecs, Div(secs, DaySecs)) + Mod(secs, DaySecs)
           /\ Times(Mod(secs, DaySecs), Ticks) \in 0..DayTicks - 1
<1>1. /\ DaySecs \in Nat \ {0} /\ DaySecs \in Int /\ Ticks \in Nat \ {0} /\ Ticks \in Int
      /\ DayTicks = Times(DaySecs, Ticks) /\ DayTicks \in Nat
  BY Units
<1>2. /\ Div(secs, DaySecs) \in Int /\ Mod(secs, DaySecs) \in 0..DaySecs - 1
      /\ secs = Times(DaySecs, Div(secs, DaySecs)) + Mod(secs, DaySecs)
  BY <1>1, Division
<1>3. PICK s \in 0..DaySecs - 1 : s = Mod(secs, DaySecs)
  BY <1>2
<1>4. s \in Int /\ s < DaySecs /\ s >= 0
  BY <1>1
<1>5. Times(Ticks, s) >= 0
  BY <1>1, <1>4, TimesGrows
<1>6. Times(Ticks, s) + Ticks <= Times(Ticks, DaySecs)
  BY <1>1, <1>4, TimesOrder, Zenon
<1>7. /\ Times(Ticks, DaySecs) = Times(DaySecs, Ticks)
      /\ Times(s, Ticks) = Times(Ticks, s) /\ Times(Ticks, s) \in Int
  BY <1>1, <1>4, TimesIs, Zenon
<1>8. Times(s, Ticks) \in 0..DayTicks - 1
  BY <1>1, <1>5, <1>6, <1>7
<1> QED BY <1>2, <1>3, <1>8

\* A date is bound, or refused.
LEMMA BindKeeps ==
    ASSUME ConversionInv, NEW d, d.secs \in Int, d.us \in 0..Micros - 1, BindDate(d)
    PROVE  ConversionInv'
<1>1. /\ column \in {"DATETIME", "BIGDATETIME"} /\ column' = column /\ value' = None
      /\ freetds' = freetds /\ numeric' = numeric /\ optimized' = optimized
      /\ freetds \in BOOLEAN /\ optimized \in BOOLEAN
      /\ numeric \in {"optimal", "string", "numeric"} /\ column \in ColumnTypes
      /\ StoredOK /\ BoundOK
  BY DEF BindDate, ConversionInv
<1>2. column # "DECIMAL" /\ column \notin TextTypes
  BY <1>1 DEF TextTypes
<1>3. PICK e \in QoreDates : e = [secs |-> d.secs, us |-> d.us]
  BY DEF QoreDates
<1>4. ToDatetime(e) = ToDatetime(d)
  BY <1>3 DEF ToDatetime
<1>5. /\ DaySecs \in Int /\ SybDays \in Int /\ YearZeroSecs \in Int /\ Micros \in Nat \ {0}
      /\ Micros \in Int /\ Ticks \in Nat \ {0} /\ DayTicks \in Nat
  BY Units
<1>6. CASE Refused
  <2>1. raised' = TRUE /\ stored' = stored /\ bound' = bound
    BY <1>6 DEF Refused
  <2>2. StoredOK' /\ BoundOK'
    BY <1>1, <2>1 DEF StoredOK, BoundOK
  <2> QED BY <1>1, <2>1, <2>2 DEF ConversionInv
<1>7. ASSUME optimized, column = "BIGDATETIME",
             Stored((d.secs + YearZeroSecs) * Micros + d.us, d)
      PROVE  ConversionInv'
  <2>1. /\ stored' = Times(d.secs + YearZeroSecs, Micros) + d.us
        /\ bound' = [d |-> e, full |-> optimized] /\ raised' = FALSE
    BY <1>3, <1>7 DEF Stored, Times
  <2>2. d.secs + YearZeroSecs \in Int /\ d.us \in Int
    BY <1>5
  <2>3. Times(d.secs + YearZeroSecs, Micros) \in Int
    BY <1>5, <2>2, TimesIs, Zenon
  <2>4. stored' \in Int
    BY <2>1, <2>2, <2>3
  <2>5. StoredOK'
    BY <1>1, <1>2, <1>7, <2>4 DEF StoredOK
  <2>6. BoundOK'
    <3>1. e.secs = d.secs /\ e.us = d.us
      BY <1>3
    <3> QED BY <1>1, <1>3, <1>7, <2>1, <3>1 DEF BoundOK
  <2> QED BY <1>1, <2>1, <2>5, <2>6 DEF ConversionInv
<1>8. ASSUME optimized, column = "DATETIME", d.us = 0,
             Stored([days |-> d.secs \div DaySecs + SybDays,
                     time |-> (d.secs % DaySecs) * Ticks], d)
      PROVE  ConversionInv'
  <2>1. /\ stored' = [days |-> Div(d.secs, DaySecs) + SybDays,
                      time |-> Times(Mod(d.secs, DaySecs), Ticks)]
        /\ bound' = [d |-> e, full |-> optimized] /\ raised' = FALSE
    BY <1>3, <1>8 DEF Stored, Times, Div, Mod
  <2>2. Div(d.secs, DaySecs) + SybDays \in Int /\ Times(Mod(d.secs, DaySecs), Ticks) \in 0..DayTicks - 1
    BY <1>5, WholeSeconds
  <2>3. stored' \in [days : Int, time : 0..DayTicks - 1]
    BY <2>1, <2>2
  <2>4. DayTicks' = DayTicks
    BY DEF DayTicks
  <2>5. StoredOK'
    BY <1>1, <1>2, <1>8, <2>3, <2>4 DEF StoredOK
  <2>6. BoundOK'
    <3>1. e.secs = d.secs /\ e.us = d.us
      BY <1>3
    <3> QED BY <1>1, <1>3, <1>8, <2>1, <3>1 DEF BoundOK
  <2> QED BY <1>1, <2>1, <2>5, <2>6 DEF ConversionInv
<1>9. ASSUME ~optimized, LegalDatetime(ToDatetime(d)),
             Stored(IF column = "DATETIME" THEN ToDatetime(d) ELSE AsBig(ToDatetime(d)), d)
      PROVE  ConversionInv'
  <2>1. /\ column = "DATETIME" => stored' = ToDatetime(d)
        /\ column = "BIGDATETIME" => stored' = AsBig(ToDatetime(d))
        /\ bound' = [d |-> e, full |-> optimized] /\ raised' = FALSE
    BY <1>1, <1>3, <1>9 DEF Stored
  <2>2. PICK v : v = ToDatetime(d)
    OBVIOUS
  <2>3. v \in [days : Int, time : 0..DayTicks - 1]
    <3>1. PICK days \in Int, x \in Int, r \in 0..Ticks :
            v = [days |-> days + SybDays, time |-> x + r]
      BY <2>2, ToDatetimeIs
    <3>2. days + SybDays \in Int
      BY <1>5
    <3>3. v.time \in 0..DayTicks - 1
      BY <1>9, <2>2 DEF LegalDatetime
    <3> QED BY <3>1, <3>2, <3>3
  <2>4. AsBig(v) \in Int
    <3>1. PICK days \in Int, time \in Nat : days = v.days - SybDays /\ time = v.time
      BY <1>5, <2>3
    <3>2. PICK a \in Nat : a = Times(time, Micros)
      <4>1. Times(Micros, time) = Times(time, Micros) /\ Times(Micros, time) \in Int
        <5>1. Micros \in Int /\ time \in Int
          BY <1>5
        <5> QED BY <5>1, TimesIs, Zenon
      <4>2. Times(Micros, time) >= 0
        BY <1>5, TimesGrows
      <4> QED BY <4>1, <4>2
    <3>3. PICK r : r = RoundedTo(a, Ticks)
      OBVIOUS
    <3>4. r \in Nat
      BY <1>5, <3>3, RoundedToIs
    <3>5. PICK s \in Int : s = Times(days, DaySecs) + YearZeroSecs
      <4>1. Times(days, DaySecs) \in Int
        BY <1>5, TimesIs, Zenon
      <4> QED BY <1>5, <4>1
    <3>6. Times(s, Micros) \in Int
      BY <1>5, TimesIs, Zenon
    <3>7. AsBig(v) = Times(s, Micros) + r
      BY <3>1, <3>2, <3>3, <3>5 DEF AsBig, Times
    <3> QED BY <3>4, <3>6, <3>7
  <2>5. DayTicks' = DayTicks
    BY DEF DayTicks
  <2>6. StoredOK'
    BY <1>1, <1>2, <2>1, <2>2, <2>3, <2>4, <2>5 DEF StoredOK
  <2>7. BoundOK'
    <3>1. /\ bound'.d = e /\ bound'.full = optimized /\ bound'.full \in BOOLEAN
      BY <1>1, <2>1
    <3>2. column' \in {"DATETIME", "BIGDATETIME"} /\ bound'.d \in QoreDates
      BY <1>1, <3>1
    <3>3. LegalDatetime(ToDatetime(bound'.d))
      BY <1>4, <1>9, <3>1
    <3>4. /\ column' = "DATETIME" => stored' = ToDatetime(bound'.d)
          /\ column' = "BIGDATETIME" => stored' = AsBig(ToDatetime(bound'.d))
      BY <1>1, <1>4, <2>1, <3>1
    <3>5. ~bound'.full
      BY <1>9, <3>1
    <3> QED BY <3>1, <3>2, <3>3, <3>4, <3>5 DEF BoundOK
  <2> QED BY <1>1, <2>1, <2>6, <2>7 DEF ConversionInv
<1> QED BY <1>6, <1>7, <1>8, <1>9 DEF BindDate

\* Every step keeps the invariant.
LEMMA ConversionStep == ASSUME ConversionInv, [Next]_vars PROVE ConversionInv'
<1>1. ASSUME NEW o \in {"optimal", "string", "numeric", "optimized-date-binds"}, SetOption(o)
      PROVE  ConversionInv'
  <2>1. StoredOK'
    BY <1>1 DEF SetOption, ConversionInv, StoredOK
  <2>2. BoundOK'
    BY <1>1 DEF SetOption, BoundOK
  <2> QED BY <1>1, <2>1, <2>2 DEF SetOption, ConversionInv
<1>2. ASSUME NEW d \in Dates, BindDate(d)
      PROVE  ConversionInv'
  <2>1. d.secs \in Int /\ d.us \in 0..Micros - 1
    BY DatesAreQore DEF QoreDates
  <2> QED BY <1>2, <2>1, BindKeeps
<1>3. CASE Rebind
  <2>1. value.type = "date" /\ BindDate(Instant(value.secs, value.us))
    BY <1>3 DEF Rebind
  <2>2. value # None /\ value = GetValue
    BY <2>1 DEF None, ConversionInv
  <2>3. column \in DateTypes
    BY <2>1, <2>2, ValueTypes DEF ConversionInv, ColumnTypes
  <2>4. value.secs \in Int /\ value.us \in 0..Micros - 1
    BY <2>2, <2>3, ValueTypes DEF Instant
  <2>5. PICK d : d = Instant(value.secs, value.us)
    OBVIOUS
  <2>6. d.secs \in Int /\ d.us \in 0..Micros - 1 /\ BindDate(d)
    BY <2>1, <2>4, <2>5 DEF Instant
  <2> QED BY <2>6, BindKeeps
<1>4. CASE Read
  <2>1. /\ value' = GetValue /\ raised' = FALSE
        /\ freetds' = freetds /\ numeric' = numeric /\ optimized' = optimized
        /\ column' = column /\ stored' = stored /\ bound' = bound
    BY <1>4 DEF Read
  <2>2. GetValue' = GetValue
    BY <2>1 DEF GetValue, GetDate, GetNumber, GetText, Described, Fetched, NeedTrim
  <2>3. StoredOK' /\ BoundOK'
    BY <2>1 DEF ConversionInv, StoredOK, BoundOK
  <2> QED BY <2>1, <2>2, <2>3 DEF ConversionInv
<1>5. CASE UNCHANGED vars
  <2>1. /\ freetds' = freetds /\ numeric' = numeric /\ optimized' = optimized
        /\ column' = column /\ stored' = stored /\ bound' = bound
        /\ value' = value /\ raised' = raised
    BY <1>5 DEF vars
  <2>2. GetValue' = GetValue
    BY <2>1 DEF GetValue, GetDate, GetNumber, GetText, Described, Fetched, NeedTrim
  <2>3. StoredOK' /\ BoundOK'
    BY <2>1 DEF ConversionInv, StoredOK, BoundOK
  <2> QED BY <2>1, <2>2, <2>3 DEF ConversionInv
<1> QED BY <1>1, <1>2, <1>3, <1>4, <1>5 DEF Next

\* The invariant holds in every state.
LEMMA ConversionAlways == Spec => []ConversionInv
<1>1. Init => ConversionInv
  BY InitConversion
<1>2. ConversionInv /\ [Next]_vars => ConversionInv'
  BY ConversionStep
<1> QED BY <1>1, <1>2, PTL DEF Spec

-----------------------------------------------------------------------------
(* Numbers.                                                                *)

\* A text that FitsInt() lets through is one StrToLL() returns as it is.
LEMMA NumberIsKept ==
    ASSUME ConversionInv, column = "DECIMAL",
           ~(stored.neg /\ Len(stored.int) = Len(IntMaxText) /\ ~InInt64(stored)),
           NEW v, v = GetNumber(stored)
    PROVE  CASE v.type = "string" -> v.text = stored
             [] v.type = "int"    -> /\ v.neg = stored.neg /\ v.digits = stored.int
                                     /\ Whole(stored)
             [] v.type = "number" -> /\ v.neg = stored.neg /\ v.int = stored.int
                                     /\ v.frac = Trimmed(stored.frac)
<1>1. stored \in [neg : BOOLEAN, int : Seq(Nat), frac : Seq(Nat)]
  BY ValuesAssumption DEF ConversionInv, StoredOK
<1>2. PICK long \in Nat, max \in Nat : long = Len(stored.int) /\ max = Len(IntMaxText)
  BY <1>1, ValuesAssumption, LenProperties
<1>3. ASSUME FitsInt(stored.neg, stored.int)
      PROVE  StrToLL(stored.neg, stored.int).digits = stored.int
  <2>1. CASE long < max
    BY <1>2, <2>1 DEF StrToLL
  <2>2. CASE ~(long < max)
    <3>1. long = max /\ ~(long > max)
      BY <1>2, <1>3, <2>2 DEF FitsInt
    <3>2. CASE stored.neg
      <4>1. NotAfter(stored.int, IntMinText)
        BY <1>2, <3>1, <3>2 DEF InInt64
      <4> QED BY <1>2, <3>1, <3>2, <4>1 DEF StrToLL
    <3>3. CASE ~stored.neg
      <4>1. NotAfter(stored.int, IntMaxText)
        BY <1>2, <1>3, <3>1, <3>3 DEF FitsInt
      <4> QED BY <1>2, <3>1, <3>3, <4>1 DEF StrToLL
    <3> QED BY <3>2, <3>3
  <2> QED BY <2>1, <2>2
<1>4. CASE numeric = "optimal" /\ Trimmed(stored.frac) = <<>> /\ FitsInt(stored.neg, stored.int)
  <2>1. v = StrToLL(stored.neg, stored.int)
    BY <1>4 DEF GetNumber
  <2>2. v.type = "int" /\ v.neg = stored.neg
    BY <2>1 DEF StrToLL
  <2>3. v.digits = stored.int
    BY <1>3, <1>4, <2>1
  <2> QED BY <1>4, <2>2, <2>3 DEF Whole
<1>5. CASE ~(numeric = "optimal" /\ Trimmed(stored.frac) = <<>> /\ FitsInt(stored.neg, stored.int))
  <2>1. v = [type |-> "number", neg |-> stored.neg, int |-> stored.int,
             frac |-> Trimmed(stored.frac)]
    BY <1>5 DEF GetNumber
  <2> QED BY <2>1
<1> QED BY <1>4, <1>5

\* Whatever the options, a DECIMAL is read as the number that it is.
LEMMA ExactNumbers == ConversionInv => NumbersExact
<1> SUFFICES ASSUME ConversionInv, column = "DECIMAL", IsRead,
                    ~(stored.neg /\ Len(stored.int) = Len(IntMaxText) /\ ~InInt64(stored))
             PROVE  CASE value.type = "string" -> value.text = stored
                      [] value.type = "int"    -> /\ value.neg = stored.neg
                                                  /\ value.digits = stored.int /\ Whole(stored)
                      [] value.type = "number" -> /\ value.neg = stored.neg
                                                  /\ value.int = stored.int
                                                  /\ value.frac = Trimmed(stored.frac)
  BY DEF NumbersExact
<1>1. value = GetValue /\ column \notin DateTypes
  BY DEF ConversionInv, IsRead, DateTypes
<1>2. CASE numeric = "string"
  <2>1. value = [type |-> "string", text |-> stored]
    BY <1>1, <1>2 DEF GetValue
  <2> QED BY <2>1
<1>3. CASE numeric # "string"
  <2>1. value = GetNumber(stored)
    BY <1>1, <1>3 DEF GetValue
  <2> QED BY <2>1, NumberIsKept
<1> QED BY <1>2, <1>3

-----------------------------------------------------------------------------
(* Strings.                                                                *)

Characters == {"w", " ", "NUL"}
Blank      == " "

\* The last character that is no blank is that of the characters up to it.
LEMMA WithoutBlanksIs ==
    ASSUME NEW s \in Seq(Characters), NEW k \in 0..Len(s),
           k = 0 \/ s[k] # Blank, \A i \in k + 1..Len(s) : s[i] = Blank
    PROVE  WithoutBlanks(s) = SubSeq(s, 1, k)
<1>1. PICK n \in Nat : n = Len(s)
  BY LenProperties
<1>2. DOMAIN s = 1..n /\ k \in 0..n
  BY <1>1, LenProperties
<1>3. PICK S : S = {0} \cup {i \in DOMAIN s : s[i] # Blank}
  OBVIOUS
<1>4. \A i : i \in S <=> (i = 0 \/ (i \in 1..n /\ s[i] # Blank))
  BY <1>2, <1>3
<1>5. k \in S /\ S \subseteq Nat
  BY <1>2, <1>4
<1>6. ASSUME NEW i \in S
      PROVE  i <= k
  <2>1. CASE i = 0
    BY <1>2, <2>1
  <2>2. CASE i # 0
    <3>1. i \in 1..n /\ s[i] # Blank
      BY <1>4, <2>2
    <3>2. ~(i \in k + 1..n)
      BY <1>1, <3>1
    <3> QED BY <1>2, <3>1, <3>2
  <2> QED BY <2>1, <2>2
<1>7. Max(S) = k
  <2>1. Max(S) = CHOOSE x \in S : \A y \in S : x >= y
    BY DEF Max
  <2>2. ASSUME NEW x \in S, \A y \in S : x >= y
        PROVE  x = k
    <3>1. x >= k /\ x <= k /\ x \in Nat /\ k \in Nat
      BY <1>5, <1>6, <2>2
    <3> QED BY <3>1
  <2>3. \A y \in S : k >= y
    <3>1. \A y \in S : y \in Nat /\ k \in Nat /\ y <= k
      BY <1>5, <1>6
    <3> QED BY <3>1
  <2> QED BY <1>5, <2>1, <2>2, <2>3
<1>8. WithoutBlanks(s) = SubSeq(s, 1, Max(S))
  BY <1>3 DEF WithoutBlanks, Blank
<1> QED BY <1>7, <1>8

\* There is such a character, unless all are blanks.
LEMMA LastCharacter ==
    ASSUME NEW s \in Seq(Characters)
    PROVE  \E k \in 0..Len(s) : /\ k = 0 \/ s[k] # Blank
                                /\ \A i \in k + 1..Len(s) : s[i] = Blank
<1>1. PICK n \in Nat : n = Len(s)
  BY LenProperties
<1>2. PICK B : B = {m \in 0..n : \A i \in m + 1..n : s[i] = Blank}
  OBVIOUS
<1>3. \A m : m \in B <=> (m \in 0..n /\ \A i \in m + 1..n : s[i] = Blank)
  BY <1>2
<1>4. B \subseteq Nat
  BY <1>3
<1>5. n \in B
  <2>1. n \in 0..n /\ \A i \in n + 1..n : FALSE
    BY <1>1
  <2> QED BY <1>3, <2>1
<1>6. PICK k \in B : \A m \in B : k <= m
  BY <1>4, <1>5, LeastElement
<1>7. k \in 0..n /\ \A i \in k + 1..n : s[i] = Blank
  BY <1>3, <1>6
<1>8. k = 0 \/ s[k] # Blank
  <2> SUFFICES ASSUME k # 0, s[k] = Blank
               PROVE  FALSE
    OBVIOUS
  <2>1. PICK j \in 0..n : j = k - 1
    BY <1>7
  <2>2. \A i \in j + 1..n : i = k \/ i \in k + 1..n
    BY <1>7, <2>1
  <2>3. j \in B
    BY <1>3, <1>7, <2>2
  <2>4. k <= j
    BY <1>6, <2>3
  <2> QED BY <1>7, <2>1, <2>4
<1> QED BY <1>1, <1>7, <1>8

\* Blanks behind a text make no difference.
LEMMA BlanksBehind ==
    ASSUME NEW s \in Seq(Characters), NEW t \in Seq(Characters), Len(s) <= Len(t),
           \A i \in 1..Len(s) : t[i] = s[i], \A i \in Len(s) + 1..Len(t) : t[i] = Blank
    PROVE  WithoutBlanks(t) = WithoutBlanks(s)
<1>1. Len(s) \in Nat /\ Len(t) \in Nat
  BY LenProperties
<1>2. PICK k \in 0..Len(s) : /\ k = 0 \/ s[k] # Blank
                             /\ \A i \in k + 1..Len(s) : s[i] = Blank
  BY LastCharacter
<1>3. WithoutBlanks(s) = SubSeq(s, 1, k)
  BY <1>2, WithoutBlanksIs
<1>4. WithoutBlanks(t) = SubSeq(t, 1, k)
  <2>1. k \in 0..Len(t) /\ (k = 0 \/ t[k] # Blank)
    BY <1>1, <1>2
  <2>2. ASSUME NEW i \in k + 1..Len(t)
        PROVE  t[i] = Blank
    <3>1. i \in k + 1..Len(s) \/ i \in Len(s) + 1..Len(t)
      BY <1>1
    <3>2. i \in k + 1..Len(s) => i \in 1..Len(s)
      BY <1>1
    <3> QED BY <1>2, <3>1, <3>2
  <2> QED BY <2>1, <2>2, WithoutBlanksIs
<1>5. SubSeq(t, 1, k) = SubSeq(s, 1, k)
  <2>1. \A i \in 1..k : t[i] = s[i]
    BY <1>1
  <2>2. SubSeq(t, 1, k) = [i \in 1..k |-> t[i]] /\ SubSeq(s, 1, k) = [i \in 1..k |-> s[i]]
    BY <1>1
  <2> QED BY <2>1, <2>2
<1> QED BY <1>3, <1>4, <1>5

\* A text that is bound with a terminator loses the terminator, and the blanks
\* at its end where they are trimmed.
LEMMA TextsAreRead == ConversionInv => TextsRead
<1> SUFFICES ASSUME ConversionInv, column \in TextTypes \ {"FLOAT26"}, IsRead
             PROVE  value.text = IF column = "CHAR" \/ (~freetds /\ column # "VARCHAR")
                                 THEN WithoutBlanks(stored) ELSE stored
  BY DEF TextsRead
<1>1. stored \in Seq(Characters) /\ Len(stored) \in Nat
  <2>1. stored \in Seq({"w", " "})
    BY ValuesAssumption DEF ConversionInv, StoredOK
  <2>2. PICK A : A = {"w", " "}
    OBVIOUS
  <2>3. A \subseteq Characters
    BY <2>2 DEF Characters
  <2>4. stored \in Seq(Characters)
    <3>1. stored \in Seq(A)
      BY <2>1, <2>2, Zenon
    <3>2. Len(stored) \in Nat /\ DOMAIN stored = 1..Len(stored)
          /\ \A i \in 1..Len(stored) : stored[i] \in Characters
      BY <2>3, <3>1, LenProperties, ElementOfSeq
    <3>3. stored = [i \in 1..Len(stored) |-> stored[i]]
      BY <3>1, <3>2, SeqDef
    <3> QED BY <3>2, <3>3, IsASeq
  <2> QED BY <2>4, LenProperties
<1>2. value = GetText(Described(column), stored)
  <2>1. column \notin DateTypes /\ column # "DECIMAL" /\ column # "FLOAT26"
    BY DEF TextTypes, DateTypes
  <2> QED BY <2>1 DEF ConversionInv, IsRead, GetValue
<1>3. CASE column = "CHAR"
  <2>1. Described(column) = [datatype |-> "CHAR", format |-> "PADBLANK"]
    BY <1>3 DEF Described
  <2>2. PICK t : t = stored \o <<Blank, Blank>>
    OBVIOUS
  <2>3. /\ t \in Seq(Characters) /\ Len(t) = Len(stored) + 2
        /\ \A i \in 1..Len(stored) : t[i] = stored[i]
        /\ \A i \in Len(stored) + 1..Len(t) : t[i] = Blank
    <3>1. PICK b : b = <<Blank, Blank>>
      OBVIOUS
    <3>2. b \in Seq(Characters) /\ Len(b) = 2 /\ b[1] = Blank /\ b[2] = Blank
      <4>1. Blank \in Characters
        BY DEF Characters, Blank
      <4> QED BY <3>1, <4>1
    <3>3. /\ t \in Seq(Characters) /\ Len(t) = Len(stored) + 2
          /\ \A i \in 1..Len(t) : t[i] = IF i <= Len(stored) THEN stored[i] ELSE b[i - Len(stored)]
      BY <1>1, <2>2, <3>1, <3>2, ConcatProperties
    <3>4. \A i \in Len(stored) + 1..Len(t) : i - Len(stored) = 1 \/ i - Len(stored) = 2
      BY <1>1, <3>3
    <3> QED BY <1>1, <3>2, <3>3, <3>4
  <2>4. SubSeq(t, 1, Len(t)) = t
    BY <2>3
  <2>5. value.text = WithoutBlanks(t)
    <3>0. PICK d : d = Described(column)
      OBVIOUS
    <3>1. Fetched(d, stored) = t
      <4>1. d.format = "PADBLANK"
        BY <2>1, <3>0
      <4>2. Fetched(d, stored) = stored \o <<" ", " ">>
        BY <4>1 DEF Fetched
      <4> QED BY <2>2, <4>2, Zenon DEF Blank
    <3>2. Length(d, t) = Len(t) /\ NeedTrim(d) /\ d.datatype = "CHAR"
      BY <2>1, <3>0 DEF Length, NeedTrim
    <3>3. SubSeq(Fetched(d, stored), 1, Length(d, Fetched(d, stored))) = t
      BY <2>4, <3>1, <3>2, Zenon
    <3>4. GetText(d, stored).text = WithoutBlanks(t)
      BY <3>2, <3>3 DEF GetText
    <3> QED BY <1>2, <3>0, <3>4
  <2>6. WithoutBlanks(t) = WithoutBlanks(stored)
    BY <1>1, <2>3, BlanksBehind
  <2> QED BY <1>3, <2>5, <2>6
<1>4. CASE column \in {"VARCHAR", "LONGCHAR", "TEXT", "UNICHAR"}
  <2>1. /\ Described(column).format = "NULLTERM" /\ Described(column).datatype # "CHAR"
        /\ column = "VARCHAR" => Described(column).datatype = "VARCHAR"
    BY <1>4 DEF Described
  <2>2. SubSeq(stored \o <<"NUL">>, 1, Len(stored)) = stored
    <3>1. <<"NUL">> \in Seq(Characters) /\ <<>> \in Seq(Characters)
      BY DEF Characters
    <3> QED BY <1>1, <3>1, Cuts
  <2>3. Length(Described(column), stored \o <<"NUL">>) = Len(stored)
    <3>1. <<"NUL">> \in Seq(Characters) /\ Len(<<"NUL">>) = 1
      BY DEF Characters
    <3>2. Len(stored \o <<"NUL">>) = Len(stored) + 1
      BY <1>1, <3>1, ConcatProperties
    <3> QED BY <1>1, <2>1, <3>2 DEF Length
  <2>4. Fetched(Described(column), stored) = stored \o <<"NUL">>
    BY <2>1 DEF Fetched
  <2>5. value.text = IF NeedTrim(Described(column)) /\ ~freetds THEN WithoutBlanks(stored) ELSE stored
    BY <1>2, <2>1, <2>2, <2>3, <2>4 DEF GetText
  <2>6. ~freetds => (NeedTrim(Described(column)) <=> column # "VARCHAR")
    <3>1. CASE column = "VARCHAR"
      BY <2>1, <3>1 DEF NeedTrim
    <3>2. CASE column \in {"LONGCHAR", "TEXT", "UNICHAR"}
      <4>1. Described(column).datatype \in {"LONGCHAR", "TEXT"}
        BY <3>2 DEF Described
      <4> QED BY <3>2, <4>1 DEF NeedTrim
    <3> QED BY <1>4, <3>1, <3>2
  <2> QED BY <1>4, <2>5, <2>6
<1> QED BY <1>3, <1>4 DEF TextTypes

-----------------------------------------------------------------------------
(* Dates that are read.                                                    *)

\* Days counted from 1900 are seconds counted from 1970.
LEMMA SecondsOfDays ==
    ASSUME NEW days \in Int
    PROVE  /\ Times(days, DaySecs) \in Int
           /\ (days - SybDays) * DaySecs = Times(days, DaySecs) - SybSecs
           /\ Times(DaySecs, days - SybDays) = Times(days, DaySecs) - SybSecs
<1>1. /\ DaySecs \in Int /\ SybDays \in Int /\ SybSecs \in Int
      /\ SybSecs = Times(DaySecs, SybDays)
  BY Units
<1>2. Times(DaySecs, days - SybDays) = Times(DaySecs, days) - Times(DaySecs, SybDays)
  BY <1>1, TimesSum
<1>3. Times(days, DaySecs) = Times(DaySecs, days) /\ Times(days, DaySecs) \in Int
  BY <1>1, TimesIs, Zenon
<1>4. PICK e \in Int : e = days - SybDays
  BY <1>1
<1>5. Times(e, DaySecs) = Times(DaySecs, e)
  BY <1>1, TimesIs, Zenon
<1>6. (days - SybDays) * DaySecs = Times(e, DaySecs)
  BY <1>4 DEF Times
<1> QED BY <1>1, <1>2, <1>3, <1>4, <1>5, <1>6

\* Half a millisecond, in ticks and microseconds.
LEMMA HalfMillisecond ==
    ASSUME NEW us \in Int, NEW rest \in Int,
           2 * (Times(Ticks, us) - Times(Micros, rest)) <= Times(Ticks, Scale),
           -Times(Ticks, Scale) <= 2 * (Times(Ticks, us) - Times(Micros, rest))
    PROVE  2 * Abs(us * Ticks - rest * Micros) <= Ticks * (Micros \div Millis)
<1>1. Ticks \in Int /\ Micros \in Int /\ Scale \in Int
  BY Units
<1>2. PICK x \in Int, y \in Int, z \in Int :
        x = Times(Ticks, us) /\ y = Times(Micros, rest) /\ z = Times(Ticks, Scale)
  <2>1. Times(Ticks, us) \in Int /\ Times(Micros, rest) \in Int /\ Times(Ticks, Scale) \in Int
    BY <1>1, TimesIs, Zenon
  <2> QED BY <2>1
<1>3. us * Ticks = x /\ rest * Micros = y /\ Ticks * (Micros \div Millis) = z
  <2>1. Times(us, Ticks) = x /\ Times(rest, Micros) = y
    BY <1>1, <1>2, TimesIs, Zenon
  <2> QED BY <1>2, <2>1 DEF Times, Scale
<1>4. 2 * Abs(x - y) <= z
  BY <1>2 DEF Abs
<1> QED BY <1>3, <1>4

\* Every type of date is read as the instant it stands for.
LEMMA DatesAreRead == ConversionInv => ServerDatesRead
<1> SUFFICES ASSUME ConversionInv, column \in DateTypes, IsRead,
                    column = "DATE" => TrueSecs \in 0..Word - 1
             PROVE  /\ value.secs = TrueSecs
                    /\ IF column \in {"DATETIME", "TIME"}
                       THEN 2 * Abs(value.us * Ticks - TrueTicksMicros) <= Ticks * (Micros \div Millis)
                       ELSE value.us * Ticks = TrueTicksMicros
  BY DEF ServerDatesRead
<1>1. value = GetDate
  BY DEF ConversionInv, IsRead, GetValue, DateTypes
<1>2. /\ DaySecs \in Int /\ SybDays \in Int /\ SybSecs \in Int /\ Word \in Nat \ {0}
      /\ MinuteSecs \in Int /\ YearZeroSecs \in Int /\ Ticks \in Int /\ Micros \in Int
      /\ Ticks \in Nat \ {0} /\ DayTicks \in Nat
  BY Units
<1>3. Times(0, Ticks) = 0
  <2>1. Times(Ticks, 0) = 0 /\ 0 \in Int
    BY <1>2, TimesZero
  <2> QED BY <1>2, <2>1, TimesIs, Zenon
<1>4. CASE column = "DATETIME"
  <2>1. stored.days \in Int /\ stored.time \in Nat
    BY <1>2, <1>4 DEF ConversionInv, StoredOK
  <2>2. PICK q \in Nat, rest \in 0..Ticks - 1, us \in 0..Micros - 1 :
          /\ q = Div(stored.time, Ticks) /\ rest = Mod(stored.time, Ticks)
          /\ \A secs : OfTicks(secs, stored.time) = Instant(secs + q, us)
          /\ 2 * (Times(Ticks, us) - Times(Micros, rest)) <= Times(Ticks, Scale)
          /\ -Times(Ticks, Scale) <= 2 * (Times(Ticks, us) - Times(Micros, rest))
    BY <2>1, OfTicksIs
  <2>3. value = Instant(Times(stored.days, DaySecs) - SybSecs + q, us)
    BY <1>1, <1>4, <2>2 DEF GetDate, DatetimeToDate, Times
  <2>4. TrueSecs = Times(stored.days, DaySecs) - SybSecs + q
    <3>1. TrueSecs = (stored.days - SybDays) * DaySecs + q
      BY <1>4, <2>2 DEF TrueSecs, Div
    <3> QED BY <2>1, <3>1, SecondsOfDays
  <2>5. TrueTicksMicros = rest * Micros
    BY <1>4, <2>2 DEF TrueTicksMicros, Mod
  <2>6. 2 * Abs(us * Ticks - rest * Micros) <= Ticks * (Micros \div Millis)
    <3>1. us \in Int /\ rest \in Int
      BY <1>2
    <3> QED BY <2>2, <3>1, HalfMillisecond
  <2>7. value.secs = TrueSecs /\ value.us = us
    BY <2>3, <2>4 DEF Instant
  <2> QED BY <1>4, <2>5, <2>6, <2>7
<1>5. CASE column = "TIME"
  <2>1. stored \in Nat
    BY <1>2, <1>5 DEF ConversionInv, StoredOK
  <2>2. PICK q \in Nat, rest \in 0..Ticks - 1, us \in 0..Micros - 1 :
          /\ q = Div(stored, Ticks) /\ rest = Mod(stored, Ticks)
          /\ \A secs : OfTicks(secs, stored) = Instant(secs + q, us)
          /\ 2 * (Times(Ticks, us) - Times(Micros, rest)) <= Times(Ticks, Scale)
          /\ -Times(Ticks, Scale) <= 2 * (Times(Ticks, us) - Times(Micros, rest))
    BY <2>1, OfTicksIs
  <2>3. value = Instant(0 + q, us)
    BY <1>1, <1>5, <2>2 DEF GetDate, TimeToDate
  <2>4. TrueSecs = q
    BY <1>5, <2>2 DEF TrueSecs, Div
  <2>5. TrueTicksMicros = rest * Micros
    BY <1>5, <2>2 DEF TrueTicksMicros, Mod
  <2>6. 2 * Abs(us * Ticks - rest * Micros) <= Ticks * (Micros \div Millis)
    <3>1. us \in Int /\ rest \in Int
      BY <1>2
    <3> QED BY <2>2, <3>1, HalfMillisecond
  <2>7. value.secs = TrueSecs /\ value.us = us
    BY <2>3, <2>4 DEF Instant
  <2> QED BY <1>5, <2>5, <2>6, <2>7
<1>6. CASE column = "SMALLDATETIME"
  <2>1. stored.days \in Int /\ stored.minutes \in Int
    BY <1>6 DEF ConversionInv, StoredOK
  <2>2. PICK m \in Int, p \in Int :
          m = Times(stored.minutes, MinuteSecs) /\ p = Times(stored.days, DaySecs)
    <3>1. Times(stored.minutes, MinuteSecs) \in Int /\ Times(stored.days, DaySecs) \in Int
      BY <1>2, <2>1, TimesIs
    <3> QED BY <3>1
  <2>3. value = Instant(m + p - SybSecs, 0)
    BY <1>1, <1>6, <2>2 DEF GetDate, SmallToDate, Times
  <2>4. TrueSecs = (stored.days - SybDays) * DaySecs + m
    BY <1>6, <2>2 DEF TrueSecs, Times
  <2>5. (stored.days - SybDays) * DaySecs = p - SybSecs
    BY <2>1, <2>2, SecondsOfDays
  <2>6. value.secs = TrueSecs /\ value.us = 0
    BY <1>2, <2>3, <2>4, <2>5 DEF Instant
  <2>7. TrueTicksMicros = 0 /\ 0 * Ticks = 0
    BY <1>3, <1>6 DEF TrueTicksMicros, Times
  <2> QED BY <1>6, <2>6, <2>7
<1>7. CASE column = "DATE"
  <2>1. stored \in Int
    BY <1>7 DEF ConversionInv, StoredOK
  <2>2. PICK n \in Int : n = Times(stored, DaySecs) - SybSecs
    BY <1>2, <2>1, SecondsOfDays
  <2>3. value = Instant(Mod(n, Word), 0)
    BY <1>1, <1>7, <2>2 DEF GetDate, DateToDate, Unsigned, Times, Mod
  <2>4. TrueSecs = n
    <3>1. TrueSecs = (stored - SybDays) * DaySecs
      BY <1>7 DEF TrueSecs
    <3> QED BY <2>1, <2>2, <3>1, SecondsOfDays
  <2>5. Mod(n, Word) = n
    <3>1. PICK r \in 0..Word - 1 : r = n
      BY <1>7, <2>4
    <3>2. n = Times(Word, 0) + r
      <4>1. Word \in Int
        BY <1>2
      <4>2. Times(Word, 0) = 0
        BY <4>1, TimesZero
      <4>3. n = 0 + r
        BY <3>1
      <4> QED BY <4>2, <4>3
    <3>3. PICK j \in Int : j = 0
      OBVIOUS
    <3>4. \A b \in Nat \ {0} : \A s \in 0..b - 1 : n = Times(b, j) + s => Mod(n, b) = s
      BY DivisionIs
    <3> QED BY <1>2, <3>1, <3>2, <3>3, <3>4
  <2>6. value.secs = TrueSecs /\ value.us = 0
    BY <2>3, <2>4, <2>5 DEF Instant
  <2>7. TrueTicksMicros = 0 /\ 0 * Ticks = 0
    BY <1>3, <1>7 DEF TrueTicksMicros, Times
  <2> QED BY <1>7, <2>6, <2>7
<1>8. CASE column = "BIGDATETIME"
  <2>1. stored \in Int
    BY <1>8 DEF ConversionInv, StoredOK
  <2>2. value = Instant(Div(stored, Micros) - YearZeroSecs, Mod(stored, Micros))
    BY <1>1, <1>8, <2>1, BigTimeIs DEF GetDate
  <2>3. TrueSecs = Div(stored, Micros) - YearZeroSecs
        /\ TrueTicksMicros = Mod(stored, Micros) * Ticks
    BY <1>8 DEF TrueSecs, TrueTicksMicros, Div, Mod
  <2>4. value.secs = Div(stored, Micros) - YearZeroSecs /\ value.us = Mod(stored, Micros)
    BY <2>2 DEF Instant
  <2> QED BY <1>8, <2>3, <2>4
<1>9. CASE column = "BIGTIME"
  <2>1. stored \in Int
    BY <1>9 DEF ConversionInv, StoredOK
  <2>2. value = Instant(Div(stored, Micros), Mod(stored, Micros))
    BY <1>1, <1>9, <2>1, BigTimeIs DEF GetDate
  <2>3. TrueSecs = Div(stored, Micros) /\ TrueTicksMicros = Mod(stored, Micros) * Ticks
    BY <1>9 DEF TrueSecs, TrueTicksMicros, Div, Mod
  <2>4. value.secs = Div(stored, Micros) /\ value.us = Mod(stored, Micros)
    BY <2>2 DEF Instant
  <2> QED BY <1>9, <2>3, <2>4
<1> QED BY <1>4, <1>5, <1>6, <1>7, <1>8, <1>9 DEF DateTypes

-----------------------------------------------------------------------------
(* Dates that are bound and read.                                          *)

\* What is off by half a tick and half a millisecond.
LEMMA OffByLittle ==
    ASSUME NEW o \in Int, NEW t \in Int, t = Times(Ticks, o),
           2 * t <= Micros + Times(Ticks, Scale), -(Micros + Times(Ticks, Scale)) <= 2 * t
    PROVE  2 * Ticks * Abs(o) <= Micros + Ticks * (Micros \div Millis)
<1>1. Ticks \in Int /\ Micros \in Int /\ Scale \in Int
  BY Units
<1>2. PICK a \in Int : a = Abs(o) /\ (a = o \/ a = -o)
  BY DEF Abs
<1>3. PICK s \in Int : s = Times(Ticks, Scale)
  BY <1>1, TimesIs, Zenon
<1>4. Times(Ticks, -o) = -Times(Ticks, o)
  BY <1>1, TimesNegative, Zenon
<1>5. Times(Ticks, a) \in Int /\ 2 * Times(Ticks, a) <= Micros + s
  BY <1>1, <1>2, <1>3, <1>4
<1>6. 2 * Ticks * a = 2 * Times(Ticks, a)
  BY <1>1, SMTT(30) DEF Times
<1>7. Ticks * (Micros \div Millis) = s
  BY <1>3 DEF Times, Scale
<1> QED BY <1>2, <1>5, <1>6, <1>7

\* A DATETIME is read as it was bound, up to the ticks and the milliseconds.
LEMMA DatetimeComesBack ==
    ASSUME NEW d, d.secs \in Int, d.us \in 0..Micros - 1, LegalDatetime(ToDatetime(d)),
           NEW w, w = DatetimeToDate(ToDatetime(d))
    PROVE  /\ w.secs \in Int /\ w.us \in Int
           /\ 2 * Ticks * Abs((w.secs - d.secs) * Micros + w.us - d.us)
                <= Micros + Ticks * (Micros \div Millis)
<1>1. /\ DaySecs \in Int /\ SybDays \in Int /\ SybSecs \in Int /\ Ticks \in Int /\ Micros \in Int
      /\ Scale \in Int /\ DayTicks \in Nat
  BY Units
<1>2. PICK days \in Int, tod \in Int, x \in Int, r \in 0..Ticks :
        /\ d.secs = Times(DaySecs, days) + tod
        /\ r = RoundedTo(Times(d.us, Ticks), Micros)
        /\ x = Times(Ticks, tod)
        /\ ToDatetime(d) = [days |-> days + SybDays, time |-> x + r]
  BY ToDatetimeIs
<1>3. PICK us \in Int : us = d.us
  BY <1>1
<1>4. PICK time \in Nat : time = x + r
  <2>1. (x + r) \in 0..DayTicks - 1
    BY <1>2 DEF LegalDatetime
  <2> QED BY <1>1, <2>1
<1>5. PICK q \in Nat, y \in Nat, rest \in 0..Ticks - 1, wus \in 0..Micros - 1 :
        /\ y = Times(Ticks, q) /\ time = y + rest
        /\ \A secs : OfTicks(secs, time) = Instant(secs + q, wus)
        /\ 2 * (Times(Ticks, wus) - Times(Micros, rest)) <= Times(Ticks, Scale)
        /\ -Times(Ticks, Scale) <= 2 * (Times(Ticks, wus) - Times(Micros, rest))
  BY OfTicksIs
<1>6. PICK p \in Int : p = Times(DaySecs, days)
  BY <1>1, TimesIs, Zenon
<1>7. w.secs = p + q /\ w.us = wus
  <2>1. PICK n \in Int : n = days + SybDays
    BY <1>1
  <2>2. w = OfTicks(Times(n, DaySecs) - SybSecs, time)
    BY <1>2, <1>4, <2>1 DEF DatetimeToDate, Times
  <2>3. Times(DaySecs, n - SybDays) = Times(n, DaySecs) - SybSecs
    BY <2>1, SecondsOfDays
  <2>4. n - SybDays = days
    BY <1>1, <2>1
  <2>5. w = Instant(Times(n, DaySecs) - SybSecs + q, wus)
    BY <1>5, <2>2, Zenon
  <2>6. Times(n, DaySecs) - SybSecs = p
    BY <1>6, <2>3, <2>4, Zenon
  <2> QED BY <2>5, <2>6 DEF Instant
<1>8. PICK o \in Int, k \in Int : k = q - tod /\ o = Times(k, Micros) + wus - us
  <2>1. PICK k \in Int : k = q - tod
    OBVIOUS
  <2>2. Times(k, Micros) \in Int
    BY <1>1, TimesIs, Zenon
  <2> QED BY <1>1, <2>1, <2>2
<1>9. (w.secs - d.secs) * Micros + w.us - d.us = o
  <2>1. w.secs - d.secs = k
    BY <1>2, <1>6, <1>7, <1>8
  <2> QED BY <1>3, <1>7, <1>8, <2>1 DEF Times
<1>10. PICK mr \in Int, mrest \in Int, tw \in Int, tu \in Int, ts \in Int :
         /\ mr = Times(Micros, r) /\ mrest = Times(Micros, rest)
         /\ tw = Times(Ticks, wus) /\ tu = Times(Ticks, us) /\ ts = Times(Ticks, Scale)
  <2>1. r \in Int /\ rest \in Int /\ wus \in Int
    BY <1>1
  <2>2. /\ Times(Micros, r) \in Int /\ Times(Micros, rest) \in Int
        /\ Times(Ticks, wus) \in Int /\ Times(Ticks, us) \in Int /\ Times(Ticks, Scale) \in Int
    BY <1>1, <2>1, TimesIs, Zenon
  <2> QED BY <2>2
<1>11. Times(Ticks, o) = mr - mrest + tw - tu
  <2>0. r \in Int /\ rest \in Int /\ wus \in Int
    BY <1>1
  <2>1. PICK km \in Int, n \in Int : km = Times(k, Micros) /\ n = wus - us
    <3>1. Times(k, Micros) \in Int
      BY <1>1, TimesIs, Zenon
    <3> QED BY <2>0, <3>1
  <2>2. o = km + n
    BY <1>8, <2>0, <2>1
  <2>3. Times(Ticks, km + n) = Times(Ticks, km) + Times(Ticks, n)
    BY <1>1, <2>1, TimesSum
  <2>4. Times(Ticks, n) = tw - tu
    BY <1>1, <1>10, <2>0, <2>1, TimesSum
  <2>5. Times(Ticks, Times(k, Micros)) = Times(Times(Ticks, k), Micros)
    BY <1>1, TimesAssociates
  <2>6. Times(Ticks, k) = r - rest
    <3>1. Times(Ticks, q - tod) = Times(Ticks, q) - Times(Ticks, tod)
      BY <1>1, TimesSum
    <3>2. y - x = r - rest
      BY <1>4, <1>5, <2>0
    <3> QED BY <1>2, <1>5, <1>8, <3>1, <3>2
  <2>7. Times(r - rest, Micros) = Times(r, Micros) - Times(rest, Micros)
    BY <1>1, <2>0, TimesSum
  <2>8. Times(r, Micros) = mr /\ Times(rest, Micros) = mrest
    BY <1>1, <1>10, <2>0, TimesIs, Zenon
  <2>9. Times(Ticks, km) = mr - mrest
    BY <2>1, <2>5, <2>6, <2>7, <2>8
  <2> QED BY <1>10, <2>2, <2>3, <2>4, <2>9
<1>12. 2 * (mr - tu) <= Micros /\ -Micros <= 2 * (mr - tu)
  <2>1. PICK rr \in 0..Ticks :
          /\ rr = RoundedTo(Times(us, Ticks), Micros)
          /\ Times(us, Ticks) \in Nat /\ Times(Micros, rr) \in Nat
          /\ 2 * Times(Micros, rr) <= 2 * Times(us, Ticks) + Micros
          /\ 2 * Times(us, Ticks) + Micros < 2 * Times(Micros, rr) + 2 * Micros
    BY <1>3, TicksOfMicros
  <2>2. rr = r
    BY <1>2, <1>3, <2>1
  <2>3. Times(us, Ticks) = tu
    BY <1>1, <1>10, TimesIs, Zenon
  <2> QED BY <1>1, <1>10, <2>1, <2>2, <2>3
<1>13. 2 * Ticks * Abs(o) <= Micros + Ticks * (Micros \div Millis)
  <2>1. PICK t \in Int : t = mr - mrest + tw - tu
    BY <1>10
  <2>2. 2 * (tw - mrest) <= ts /\ -ts <= 2 * (tw - mrest)
    BY <1>5, <1>10
  <2>3. 2 * t <= Micros + ts /\ -(Micros + ts) <= 2 * t
    BY <1>1, <1>10, <1>12, <2>1, <2>2
  <2> QED BY <1>10, <1>11, <2>1, <2>3, OffByLittle
<1> QED BY <1>1, <1>6, <1>7, <1>9, <1>13

\* So is a BIGDATETIME that was bound as a DATETIME, but for the milliseconds.
LEMMA BigDatetimeComesBack ==
    ASSUME NEW d, d.secs \in Int, d.us \in 0..Micros - 1, LegalDatetime(ToDatetime(d)),
           NEW w, w = BigToDate(AsBig(ToDatetime(d)))
    PROVE  /\ w.secs \in Int /\ w.us \in Int
           /\ 2 * Ticks * Abs((w.secs - d.secs) * Micros + w.us - d.us)
                <= Micros + Ticks * (Micros \div Millis)
<1>1. /\ DaySecs \in Int /\ SybDays \in Int /\ Ticks \in Int /\ Micros \in Int /\ Scale \in Int
      /\ DayTicks \in Nat /\ YearZeroSecs \in Int /\ Ticks \in Nat \ {0} /\ Micros \in Nat \ {0}
      /\ Scale \in Nat \ {0}
  BY Units
<1>2. PICK days \in Int, tod \in Int, x \in Int, r \in 0..Ticks :
        /\ d.secs = Times(DaySecs, days) + tod
        /\ r = RoundedTo(Times(d.us, Ticks), Micros)
        /\ x = Times(Ticks, tod)
        /\ ToDatetime(d) = [days |-> days + SybDays, time |-> x + r]
  BY ToDatetimeIs
<1>3. PICK us \in Int : us = d.us
  BY <1>1
<1>4. PICK time \in Nat : time = x + r
  <2>1. (x + r) \in 0..DayTicks - 1
    BY <1>2 DEF LegalDatetime
  <2> QED BY <1>1, <2>1
<1>5. PICK mt \in Nat : mt = Times(time, Micros) /\ mt = Times(Micros, time)
  <2>0. time \in Int
    OBVIOUS
  <2>1. Times(Micros, time) = Times(time, Micros) /\ Times(Micros, time) \in Int
    BY <1>1, <2>0, TimesIs, Zenon
  <2>2. Times(Micros, time) >= 0
    BY <1>1, TimesGrows
  <2> QED BY <2>1, <2>2
<1>6. PICK n \in Nat, tn \in Nat :
        /\ n = RoundedTo(mt, Ticks) /\ tn = Times(Ticks, n)
        /\ 2 * tn <= 2 * mt + Ticks /\ 2 * mt + Ticks < 2 * tn + 2 * Ticks
  <2>1. PICK n : n = RoundedTo(mt, Ticks)
    OBVIOUS
  <2>2. /\ n \in Nat /\ Times(Ticks, n) \in Nat
        /\ 2 * Times(Ticks, n) <= 2 * mt + Ticks
        /\ 2 * mt + Ticks < 2 * Times(Ticks, n) + 2 * Ticks
    BY <1>1, <2>1, RoundedToIs
  <2> QED BY <2>1, <2>2
<1>7. PICK p \in Int, s \in Int, sm \in Int, v \in Int :
        /\ p = Times(DaySecs, days) /\ s = p + YearZeroSecs /\ sm = Times(s, Micros)
        /\ v = sm + n
  <2>1. PICK p \in Int, s \in Int : p = Times(DaySecs, days) /\ s = p + YearZeroSecs
    <3>1. Times(DaySecs, days) \in Int
      BY <1>1, TimesIs, Zenon
    <3> QED BY <1>1, <3>1
  <2>2. Times(s, Micros) \in Int
    BY <1>1, TimesIs, Zenon
  <2> QED BY <1>6, <2>1, <2>2
<1>8. AsBig(ToDatetime(d)) = v
  <2>1. PICK e \in Int : e = days + SybDays
    BY <1>1
  <2>2. ToDatetime(d).days = e /\ ToDatetime(d).time = time
    BY <1>2, <1>4, <2>1
  <2>3. AsBig(ToDatetime(d)) = Times(Times(e - SybDays, DaySecs) + YearZeroSecs, Micros)
                               + RoundedTo(Times(time, Micros), Ticks)
    BY <2>2 DEF AsBig, Times
  <2>4. e - SybDays = days
    BY <1>1, <2>1
  <2>5. Times(days, DaySecs) = p
    BY <1>1, <1>7, TimesIs, Zenon
  <2> QED BY <1>5, <1>6, <1>7, <2>3, <2>4, <2>5
<1>9. PICK q \in Int, wus \in Int :
        /\ v = Times(Micros, q) + wus /\ Times(Micros, q) \in Int
        /\ w.secs = q - YearZeroSecs /\ w.us = wus
  <2>1. PICK q \in Int, wus \in 0..Micros - 1 : q = Div(v, Micros) /\ wus = Mod(v, Micros)
    BY BigTimeIs
  <2>2. v = Times(Micros, q) + wus /\ BigToDate(v) = Instant(q - YearZeroSecs, wus)
    BY <2>1, BigTimeIs
  <2>3. Times(Micros, q) \in Int
    BY <1>1, TimesIs, Zenon
  <2> QED BY <1>1, <1>8, <2>1, <2>2, <2>3 DEF Instant
<1>10. PICK o \in Int, k \in Int : k = q - s - tod /\ o = Times(k, Micros) + wus - us
  <2>1. PICK k \in Int : k = q - s - tod
    OBVIOUS
  <2>2. Times(k, Micros) \in Int
    BY <1>1, TimesIs, Zenon
  <2> QED BY <1>3, <2>1, <2>2
<1>11. (w.secs - d.secs) * Micros + w.us - d.us = o
  <2>1. w.secs - d.secs = k
    BY <1>1, <1>2, <1>7, <1>9, <1>10
  <2> QED BY <1>3, <1>9, <1>10, <2>1 DEF Times
<1>12. PICK mr \in Int, tm \in Int, tu \in Int, ts \in Int :
         /\ mr = Times(Micros, r) /\ tm = Times(Micros, tod) /\ tu = Times(Ticks, us)
         /\ ts = Times(Ticks, Scale) /\ ts >= Ticks
  <2>1. r \in Int
    BY <1>1
  <2>2. /\ Times(Micros, r) \in Int /\ Times(Micros, tod) \in Int
        /\ Times(Ticks, us) \in Int /\ Times(Ticks, Scale) \in Int
    BY <1>1, <2>1, TimesIs, Zenon
  <2>3. Times(Ticks, Scale) >= Ticks
    BY <1>1, TimesGrows
  <2> QED BY <2>2, <2>3
<1>13. o = n - tm - us
  <2>1. Times(Micros, q - s) = Times(Micros, q) - Times(Micros, s)
    BY <1>1, TimesSum
  <2>2. PICK e \in Int : e = q - s
    OBVIOUS
  <2>3. Times(Micros, e - tod) = Times(Micros, e) - Times(Micros, tod)
    BY <1>1, TimesSum
  <2>4. Times(Micros, s) = sm
    BY <1>1, <1>7, TimesIs, Zenon
  <2>5. Times(k, Micros) = Times(Micros, k)
    BY <1>1, TimesIs, Zenon
  <2>6. Times(Micros, k) = Times(Micros, q) - sm - tm
    BY <1>10, <1>12, <2>1, <2>2, <2>3, <2>4
  <2> QED BY <1>7, <1>9, <1>10, <1>12, <2>5, <2>6
<1>14. Times(Ticks, o) = (tn - mt) + (mr - tu)
  <2>1. PICK e \in Int : e = n - tm
    BY <1>12
  <2>2. Times(Ticks, e - us) = Times(Ticks, e) - Times(Ticks, us)
    BY <1>1, TimesSum
  <2>3. Times(Ticks, n - tm) = Times(Ticks, n) - Times(Ticks, tm)
    BY <1>1, <1>12, TimesSum
  <2>4. PICK mx \in Int : mx = Times(Micros, x)
    <3>1. Times(Micros, x) \in Int
      BY <1>1, TimesIs, Zenon
    <3> QED BY <3>1
  <2>5. Times(Ticks, tm) = mx
    <3>1. Times(Ticks, Times(Micros, tod)) = Times(Times(Ticks, Micros), tod)
      BY <1>1, TimesAssociates
    <3>2. Times(Micros, Times(Ticks, tod)) = Times(Times(Micros, Ticks), tod)
      BY <1>1, TimesAssociates
    <3>3. Times(Ticks, Micros) = Times(Micros, Ticks)
      BY <1>1, TimesIs, Zenon
    <3> QED BY <1>2, <1>12, <2>4, <3>1, <3>2, <3>3, Zenon
  <2>6. mt = mx + mr
    <3>1. r \in Int
      BY <1>1
    <3>2. Times(Micros, x + r) = Times(Micros, x) + Times(Micros, r)
      BY <1>1, <3>1, TimesSum
    <3> QED BY <1>4, <1>5, <1>12, <2>4, <3>2
  <2>7. o = e - us
    BY <1>13, <2>1
  <2> QED BY <1>6, <1>12, <2>1, <2>2, <2>3, <2>4, <2>5, <2>6, <2>7
<1>15. 2 * (mr - tu) <= Micros /\ -Micros <= 2 * (mr - tu)
  <2>1. PICK rr \in 0..Ticks :
          /\ rr = RoundedTo(Times(us, Ticks), Micros)
          /\ Times(us, Ticks) \in Nat /\ Times(Micros, rr) \in Nat
          /\ 2 * Times(Micros, rr) <= 2 * Times(us, Ticks) + Micros
          /\ 2 * Times(us, Ticks) + Micros < 2 * Times(Micros, rr) + 2 * Micros
    BY <1>3, TicksOfMicros
  <2>2. rr = r
    BY <1>2, <1>3, <2>1
  <2>3. Times(us, Ticks) = tu
    BY <1>1, <1>12, TimesIs, Zenon
  <2> QED BY <1>1, <1>12, <2>1, <2>2, <2>3
<1>16. 2 * Ticks * Abs(o) <= Micros + Ticks * (Micros \div Millis)
  <2>1. PICK t \in Int : t = (tn - mt) + (mr - tu)
    BY <1>12
  <2>2. 2 * (tn - mt) <= ts /\ -ts <= 2 * (tn - mt)
    BY <1>1, <1>6, <1>12
  <2>3. 2 * t <= Micros + ts /\ -(Micros + ts) <= 2 * t
    BY <1>1, <1>12, <1>15, <2>1, <2>2
  <2> QED BY <1>12, <1>14, <2>1, <2>3, OffByLittle
<1> QED BY <1>1, <1>9, <1>11, <1>16

\* A date of whole seconds comes back from a DATETIME as it is,
LEMMA SecondsComeBack ==
    ASSUME NEW c \in Int, NEW v,
           v = [days |-> Div(c, DaySecs) + SybDays, time |-> Times(Mod(c, DaySecs), Ticks)]
    PROVE  DatetimeToDate(v) = Instant(c, 0)
<1>1. /\ DaySecs \in Int /\ SybDays \in Int /\ SybSecs \in Int /\ Ticks \in Int
      /\ DaySecs \in Nat \ {0} /\ Ticks \in Nat \ {0} /\ DayTicks \in Nat
  BY Units
<1>2. PICK days \in Int, m \in 0..DaySecs - 1 :
        /\ days = Div(c, DaySecs) /\ m = Mod(c, DaySecs)
        /\ c = Times(DaySecs, days) + m
        /\ Times(m, Ticks) \in 0..DayTicks - 1
  BY WholeSeconds
<1>3. m \in Int
  BY <1>1
<1>4. PICK time \in Nat : time = Times(m, Ticks) /\ time = Times(Ticks, m)
  <2>1. Times(m, Ticks) = Times(Ticks, m)
    BY <1>1, <1>3, TimesIs, Zenon
  <2> QED BY <1>1, <1>2, <2>1
<1>5. PICK q \in Nat, x \in Nat, rest \in 0..Ticks - 1, us \in 0..Micros - 1 :
        /\ q = Div(time, Ticks) /\ rest = Mod(time, Ticks)
        /\ x = Times(Ticks, q) /\ time = x + rest
        /\ \A secs : OfTicks(secs, time) = Instant(secs + q, us)
        /\ us = Times(Scale, Milliseconds(rest))
        /\ us = 0 <=> rest = 0
  BY OfTicksIs
<1>6. q = m /\ us = 0
  <2>1. PICK z \in 0..Ticks - 1 : z = 0
    BY <1>1
  <2>2. time = Times(Ticks, m) + z
    BY <1>4, <2>1
  <2>3. Div(time, Ticks) = m /\ Mod(time, Ticks) = z
    BY <1>1, <1>3, <2>2, DivisionIs
  <2> QED BY <1>5, <2>1, <2>3
<1>7. PICK n \in Int : n = days + SybDays
  BY <1>1
<1>8. DatetimeToDate(v) = OfTicks(Times(n, DaySecs) - SybSecs, time)
  BY <1>2, <1>4, <1>7 DEF DatetimeToDate, Times
<1>9. Times(n, DaySecs) - SybSecs = Times(DaySecs, days)
  <2>1. n - SybDays = days
    BY <1>1, <1>7
  <2>2. Times(DaySecs, n - SybDays) = Times(n, DaySecs) - SybSecs
    BY SecondsOfDays
  <2> QED BY <2>1, <2>2, Zenon
<1>10. DatetimeToDate(v) = Instant(Times(DaySecs, days) + q, us)
  BY <1>5, <1>8, <1>9, Zenon
<1> QED BY <1>2, <1>6, <1>10

\* and any date from a BIGDATETIME.
LEMMA MicrosecondsComeBack ==
    ASSUME NEW secs \in Int, NEW us \in 0..Micros - 1
    PROVE  /\ Times(secs + YearZeroSecs, Micros) + us \in Int
           /\ BigToDate(Times(secs + YearZeroSecs, Micros) + us) = Instant(secs, us)
<1>1. YearZeroSecs \in Int /\ Micros \in Int /\ Micros \in Nat \ {0}
  BY Units
<1>2. PICK s \in Int : s = secs + YearZeroSecs
  BY <1>1
<1>3. Times(s, Micros) = Times(Micros, s) /\ Times(s, Micros) \in Int
  BY <1>1, TimesIs, Zenon
<1>4. PICK v \in Int : v = Times(s, Micros) + us /\ v = Times(Micros, s) + us
  BY <1>1, <1>3
<1>5. Div(v, Micros) = s /\ Mod(v, Micros) = us
  BY <1>1, <1>4, DivisionIs
<1>6. BigToDate(v) = Instant(Div(v, Micros) - YearZeroSecs, Mod(v, Micros))
  BY BigTimeIs
<1>7. s - YearZeroSecs = secs
  BY <1>1, <1>2
<1> QED BY <1>2, <1>4, <1>5, <1>6, <1>7

\* What was bound is read again.
LEMMA DatesComeBackInv == ConversionInv => DatesRoundTrip
<1> SUFFICES ASSUME ConversionInv, bound # None, IsRead
             PROVE  LET d == bound.d
                        off == (value.secs - d.secs) * Micros + value.us - d.us IN
                    /\ 2 * Ticks * Abs(off) <= Micros + Ticks * (Micros \div Millis)
                    /\ bound.full => off = 0
  BY DEF DatesRoundTrip
<1> DEFINE d == bound.d
           off == (value.secs - d.secs) * Micros + value.us - d.us
<1>1. /\ d \in QoreDates /\ bound.full \in BOOLEAN /\ column \in {"DATETIME", "BIGDATETIME"}
      /\ value = GetDate
  <2>1. bound.d \in QoreDates /\ bound.full \in BOOLEAN /\ column \in {"DATETIME", "BIGDATETIME"}
    BY DEF ConversionInv, BoundOK
  <2>2. column \in DateTypes
    BY <2>1 DEF DateTypes
  <2> QED BY <2>1, <2>2 DEF ConversionInv, IsRead, GetValue
<1>2. d.secs \in Int /\ d.us \in 0..Micros - 1
  BY <1>1 DEF QoreDates
<1>3. CASE ~bound.full
  <2>1. LegalDatetime(ToDatetime(d))
    BY <1>3 DEF ConversionInv, BoundOK
  <2>2. CASE column = "DATETIME"
    <3>1. value = DatetimeToDate(ToDatetime(d))
      BY <1>1, <1>3, <2>2 DEF ConversionInv, BoundOK, GetDate
    <3> QED BY <1>2, <1>3, <2>1, <3>1, DatetimeComesBack
  <2>3. CASE column = "BIGDATETIME"
    <3>1. value = BigToDate(AsBig(ToDatetime(d)))
      BY <1>1, <1>3, <2>3 DEF ConversionInv, BoundOK, GetDate
    <3> QED BY <1>2, <1>3, <2>1, <3>1, BigDatetimeComesBack
  <2> QED BY <1>1, <2>2, <2>3
<1>4. CASE bound.full
  <2>1. value = Instant(d.secs, d.us)
    <3>1. CASE column = "DATETIME"
      <4>1. value = DatetimeToDate(stored) /\ d.us = 0
        BY <1>1, <1>4, <3>1 DEF ConversionInv, BoundOK, GetDate
      <4>2. stored = [days |-> Div(d.secs, DaySecs) + SybDays,
                      time |-> Times(Mod(d.secs, DaySecs), Ticks)]
        BY <1>4, <3>1 DEF ConversionInv, BoundOK
      <4> QED BY <1>2, <4>1, <4>2, SecondsComeBack
    <3>2. CASE column = "BIGDATETIME"
      <4>1. value = BigToDate(stored)
        BY <1>1, <3>2 DEF GetDate
      <4>2. stored = Times(d.secs + YearZeroSecs, Micros) + d.us
        BY <1>4, <3>2 DEF ConversionInv, BoundOK
      <4> QED BY <1>2, <4>1, <4>2, MicrosecondsComeBack
    <3> QED BY <1>1, <3>1, <3>2
  <2>2. off = 0
    <3>1. /\ Micros \in Int /\ value.secs = d.secs /\ value.us = d.us
          /\ d.secs \in Int /\ d.us \in Int
      BY <1>2, <2>1, Units DEF Instant
    <3> HIDE DEF d
    <3>2. value.secs - d.secs = 0
      BY <3>1
    <3>3. Times(value.secs - d.secs, Micros) = 0
      <4>1. Times(Micros, 0) = 0 /\ 0 \in Int
        BY <3>1, TimesZero
      <4>2. Times(0, Micros) = Times(Micros, 0)
        BY <3>1, <4>1, TimesIs, Zenon
      <4> QED BY <3>2, <4>1, <4>2, Zenon
    <3> QED BY <3>1, <3>3 DEF Times
  <2>3. 2 * Ticks * Abs(0) <= Micros + Ticks * (Micros \div Millis)
    <3>1. /\ Micros \in Nat \ {0} /\ Ticks \in Nat \ {0} /\ Scale \in Nat \ {0}
          /\ Micros \in Int /\ Ticks \in Int /\ Scale \in Int
      BY Units
    <3>2. Times(Ticks, 0) = 0
      BY <3>1, TimesZero
    <3>3. Times(Ticks, Scale) >= 0 /\ Times(Ticks, Scale) \in Int
      <4>1. Times(Ticks, Scale) >= 0
        BY <3>1, TimesGrows
      <4>2. Times(Ticks, Scale) \in Int
        BY <3>1, TimesIs, Zenon
      <4> QED BY <4>1, <4>2
    <3>4. PICK z \in Int : z = 0
      OBVIOUS
    <3>5. /\ z = Times(Ticks, z) /\ 2 * z <= Micros + Times(Ticks, Scale)
          /\ -(Micros + Times(Ticks, Scale)) <= 2 * z
      BY <3>1, <3>2, <3>3, <3>4
    <3> QED BY <3>4, <3>5, OffByLittle
  <2> QED BY <2>2, <2>3
<1> QED BY <1>1, <1>3, <1>4

-----------------------------------------------------------------------------
(* Dates that are written back, and dates that are refused.                *)

\* What was read of a DATETIME is bound as the same ticks.
LEMMA TicksWrittenBack ==
    ASSUME NEW v \in [days : Int, time : 0..DayTicks - 1],
           NEW w, w = DatetimeToDate(v)
    PROVE  /\ w.secs \in Int /\ w.us \in 0..Micros - 1
           /\ LegalDatetime(ToDatetime(w)) => ToDatetime(w) = v
           /\ w.us = 0 => v = [days |-> Div(w.secs, DaySecs) + SybDays,
                               time |-> Times(Mod(w.secs, DaySecs), Ticks)]
<1>1. /\ DaySecs \in Int /\ SybDays \in Int /\ SybSecs \in Int /\ Ticks \in Int
      /\ DaySecs \in Nat \ {0} /\ Ticks \in Nat \ {0} /\ DayTicks \in Nat
      /\ DayTicks = Times(DaySecs, Ticks)
  BY Units
<1>2. PICK n \in Int, time \in Nat, days \in Int :
        /\ v = [days |-> n, time |-> time] /\ time < DayTicks
        /\ days = n - SybDays /\ n = days + SybDays
  <2>1. PICK n \in Int, time \in 0..DayTicks - 1 : v = [days |-> n, time |-> time]
    OBVIOUS
  <2> QED BY <1>1, <2>1
<1>3. PICK q \in Nat, x \in Nat, rest \in 0..Ticks - 1, us \in 0..Micros - 1 :
        /\ q = Div(time, Ticks) /\ rest = Mod(time, Ticks)
        /\ x = Times(Ticks, q) /\ time = x + rest
        /\ \A secs : OfTicks(secs, time) = Instant(secs + q, us)
        /\ us = Times(Scale, Milliseconds(rest))
        /\ 2 * (Times(Ticks, us) - Times(Micros, rest)) <= Times(Ticks, Scale)
        /\ -Times(Ticks, Scale) <= 2 * (Times(Ticks, us) - Times(Micros, rest))
        /\ us = 0 <=> rest = 0
        /\ RoundedTo(Times(us, Ticks), Micros) = rest
  BY OfTicksIs
<1>4. PICK p \in Int, secs \in Int : p = Times(DaySecs, days) /\ secs = p + q
  <2>1. Times(DaySecs, days) \in Int
    BY <1>1, TimesIs, Zenon
  <2> QED BY <2>1
<1>5. w.secs = secs /\ w.us = us
  <2>1. w = OfTicks(Times(n, DaySecs) - SybSecs, time)
    BY <1>2 DEF DatetimeToDate, Times
  <2>2. w = Instant(Times(n, DaySecs) - SybSecs + q, us)
    BY <1>3, <2>1, Zenon
  <2>3. Times(DaySecs, n - SybDays) = Times(n, DaySecs) - SybSecs
    BY SecondsOfDays
  <2>4. Times(n, DaySecs) - SybSecs = p
    BY <1>2, <1>4, <2>3, Zenon
  <2> QED BY <1>4, <2>2, <2>4 DEF Instant
<1>6. q \in 0..DaySecs - 1
  <2>1. q \in Int
    OBVIOUS
  <2>2. DaySecs <= q => Times(Ticks, DaySecs) <= Times(Ticks, q)
    BY <1>1, <2>1, TimesOrder, Zenon
  <2>3. Times(Ticks, DaySecs) = DayTicks
    BY <1>1, TimesIs, Zenon
  <2> QED BY <1>1, <1>2, <1>3, <2>2, <2>3
<1>7. Div(secs, DaySecs) = days /\ Mod(secs, DaySecs) = q
  BY <1>1, <1>4, <1>6, DivisionIs
<1>8. Times(q, Ticks) = x
  <2>1. q \in Int
    OBVIOUS
  <2> QED BY <1>1, <1>3, <2>1, TimesIs, Zenon
<1>9. ASSUME LegalDatetime(ToDatetime(w))
      PROVE  ToDatetime(w) = v
  <2>1. PICK wdays \in Int, tod \in Int, y \in Int, r \in 0..Ticks :
          /\ w.secs = Times(DaySecs, wdays) + tod
          /\ -DaySecs < tod /\ tod < DaySecs
          /\ w.secs >= 0 => tod = Mod(w.secs, DaySecs)
          /\ w.secs < 0 => tod <= 0
          /\ r = RoundedTo(Times(w.us, Ticks), Micros)
          /\ y = Times(Ticks, tod)
          /\ ToDatetime(w) = [days |-> wdays + SybDays, time |-> y + r]
    <3>1. w.secs \in Int /\ w.us \in 0..Micros - 1
      BY <1>5
    <3> QED BY <3>1, ToDatetimeIs
  <2>2. r = rest
    BY <1>3, <1>5, <2>1
  <2>3. tod \in 0..DaySecs - 1
    <3>1. (y + r) \in 0..DayTicks - 1
      BY <1>9, <2>1 DEF LegalDatetime
    <3>2. tod < 0 => y <= -Ticks
      BY <1>1, <2>1, TimesGrows
    <3> QED BY <1>1, <2>1, <2>2, <3>1, <3>2
  <2>4. secs = Times(DaySecs, wdays) + tod
    BY <1>5, <2>1
  <2>5. Div(secs, DaySecs) = wdays /\ Mod(secs, DaySecs) = tod
    BY <1>1, <2>3, <2>4, DivisionIs
  <2>6. wdays = days /\ y = x
    BY <1>3, <1>7, <2>1, <2>5
  <2> QED BY <1>2, <1>3, <2>1, <2>2, <2>6
<1>10. ASSUME w.us = 0
       PROVE  v = [days |-> Div(w.secs, DaySecs) + SybDays,
                   time |-> Times(Mod(w.secs, DaySecs), Ticks)]
  <2>1. rest = 0 /\ time = x
    BY <1>3, <1>5, <1>10
  <2> QED BY <1>2, <1>5, <1>7, <1>8, <2>1
<1> QED BY <1>5, <1>9, <1>10

\* A date that was read is stored as the value it was read from.
LEMMA WrittenBack ==
    ASSUME ConversionInv, Rebind, ~raised', column = "DATETIME" \/ optimized
    PROVE  stored' = stored
<1>1. /\ column \in {"DATETIME", "BIGDATETIME"} /\ value # None /\ column \in DateTypes
      /\ BindDate(Instant(value.secs, value.us))
  BY DEF Rebind, BindDate, None, DateTypes
<1>2. value = GetDate
  BY <1>1 DEF ConversionInv, GetValue
<1>3. PICK w : w = Instant(value.secs, value.us) /\ w.secs = value.secs /\ w.us = value.us
  <2>1. Instant(value.secs, value.us).secs = value.secs /\ Instant(value.secs, value.us).us = value.us
    BY DEF Instant
  <2> QED BY <2>1
<1>4. BindDate(w) /\ ~Refused
  BY <1>1, <1>3 DEF Refused
<1>5. CASE column = "BIGDATETIME"
  <2>1. stored \in Int
    BY <1>5 DEF ConversionInv, StoredOK
  <2>2. value = BigToDate(stored)
    BY <1>2, <1>5 DEF GetDate
  <2>3. PICK q \in Int, us \in Int :
          /\ stored = Times(Micros, q) + us /\ BigToDate(stored) = Instant(q - YearZeroSecs, us)
    <3>1. PICK q \in Int, us \in 0..Micros - 1 : q = Div(stored, Micros) /\ us = Mod(stored, Micros)
      BY <2>1, BigTimeIs
    <3>2. stored = Times(Micros, q) + us /\ BigToDate(stored) = Instant(q - YearZeroSecs, us)
      BY <2>1, <3>1, BigTimeIs
    <3>3. us \in Int
      BY Units
    <3> QED BY <3>2, <3>3
  <2>4. stored' = Times(w.secs + YearZeroSecs, Micros) + w.us
    BY <1>4, <1>5 DEF BindDate, Stored, Times
  <2>5. w.secs + YearZeroSecs = q /\ w.us = us
    <3>1. YearZeroSecs \in Int
      BY Units
    <3> QED BY <1>3, <2>2, <2>3, <3>1 DEF Instant
  <2>6. Times(q, Micros) = Times(Micros, q)
    <3>1. Micros \in Int
      BY Units
    <3> QED BY <3>1, TimesIs, Zenon
  <2> QED BY <2>3, <2>4, <2>5, <2>6
<1>6. CASE column = "DATETIME"
  <2>1. stored \in [days : Int, time : 0..DayTicks - 1]
    BY <1>6 DEF ConversionInv, StoredOK
  <2>2. value = DatetimeToDate(stored)
    BY <1>2, <1>6 DEF GetDate
  <2>3. /\ w.secs = value.secs /\ w.us = value.us
        /\ LegalDatetime(ToDatetime(value)) => ToDatetime(value) = stored
        /\ value.us = 0 => stored = [days |-> Div(value.secs, DaySecs) + SybDays,
                                     time |-> Times(Mod(value.secs, DaySecs), Ticks)]
    BY <1>3, <2>1, <2>2, TicksWrittenBack
  <2>4. ToDatetime(w) = ToDatetime(value)
    BY <1>3 DEF ToDatetime
  <2>5. CASE optimized
    <3>1. /\ w.us = 0
          /\ stored' = [days |-> Div(w.secs, DaySecs) + SybDays,
                        time |-> Times(Mod(w.secs, DaySecs), Ticks)]
      BY <1>4, <1>6, <2>5 DEF BindDate, Stored, Div, Mod, Times
    <3> QED BY <2>3, <3>1
  <2>6. CASE ~optimized
    <3>1. LegalDatetime(ToDatetime(w)) /\ stored' = ToDatetime(w)
      BY <1>4, <1>6, <2>6 DEF BindDate, Stored
    <3> QED BY <2>3, <2>4, <3>1
  <2> QED BY <2>5, <2>6
<1> QED BY <1>1, <1>5, <1>6

\* Of the dates in range, those come to a time of day that are not before 1970,
\* unless they round up to the next day, and before 1970 the starts of the days.
LEMMA TimesOfDayAreLegal ==
    ASSUME NEW d, d.secs \in Int, d.us \in 0..Micros - 1, ~EndOfDay(d),
           d.secs < 0 => ~HasTimeOfDay(d)
    PROVE  LegalDatetime(ToDatetime(d))
<1>1. /\ DaySecs \in Int /\ Ticks \in Int /\ Micros \in Int
      /\ DaySecs \in Nat \ {0} /\ Ticks \in Nat \ {0} /\ Micros \in Nat \ {0} /\ DayTicks \in Nat
      /\ DayTicks = Times(DaySecs, Ticks)
  BY Units
<1>2. PICK days \in Int, tod \in Int, x \in Int, r \in 0..Ticks :
        /\ d.secs = Times(DaySecs, days) + tod
        /\ -DaySecs < tod /\ tod < DaySecs
        /\ d.secs >= 0 => tod = Mod(d.secs, DaySecs)
        /\ d.secs < 0 => tod <= 0
        /\ r = RoundedTo(Times(d.us, Ticks), Micros)
        /\ x = Times(Ticks, tod)
        /\ ToDatetime(d) = [days |-> days + SybDays, time |-> x + r]
  BY ToDatetimeIs
<1>3. PICK us \in Int, secs \in Int, a \in Nat, mr \in Nat, mt \in Int :
        /\ us = d.us /\ secs = d.secs /\ a = Times(us, Ticks) /\ mr = Times(Micros, r)
        /\ 2 * mr <= 2 * a + Micros /\ mt = Times(Micros, Ticks)
  <2>1. PICK us \in 0..Micros - 1 : us = d.us
    OBVIOUS
  <2>2. PICK rr \in 0..Ticks :
          /\ rr = RoundedTo(Times(us, Ticks), Micros)
          /\ Times(us, Ticks) \in Nat /\ Times(Micros, rr) \in Nat
          /\ 2 * Times(Micros, rr) <= 2 * Times(us, Ticks) + Micros
          /\ 2 * Times(us, Ticks) + Micros < 2 * Times(Micros, rr) + 2 * Micros
    BY TicksOfMicros
  <2>3. rr = r
    BY <1>2, <2>1, <2>2
  <2>4. Times(Micros, Ticks) \in Int
    BY <1>1, TimesIs, Zenon
  <2>5. us \in Int
    BY <1>1
  <2> QED BY <2>1, <2>2, <2>3, <2>4, <2>5
<1>4. CASE d.secs >= 0
  <2>1. tod \in 0..DaySecs - 1 /\ tod = secs % DaySecs
    <3>1. Mod(secs, DaySecs) \in 0..DaySecs - 1
      BY <1>1, Division
    <3> QED BY <1>2, <1>3, <1>4, <3>1 DEF Mod
  <2>2. x >= 0
    BY <1>1, <1>2, <2>1, TimesGrows
  <2>3. tod = DaySecs - 1 => r < Ticks
    <3> SUFFICES ASSUME tod = DaySecs - 1
                 PROVE  r < Ticks
      OBVIOUS
    <3>1. 2 * us * Ticks < (2 * Ticks - 1) * Micros
      <4>1. ~(2 * us * Ticks >= (2 * Ticks - 1) * Micros)
        BY <1>3, <2>1 DEF EndOfDay
      <4>2. 2 * us * Ticks \in Int /\ (2 * Ticks - 1) * Micros \in Int
        BY <1>1
      <4> QED BY <4>1, <4>2
    <3>2. 2 * us * Ticks = 2 * a
      BY <1>1, <1>3, SMTT(30) DEF Times
    <3>3. (2 * Ticks - 1) * Micros = 2 * mt - Micros
      BY <1>1, <1>3, SMTT(30) DEF Times
    <3>4. mr < mt
      BY <1>1, <1>3, <3>1, <3>2, <3>3
    <3>5. Ticks <= r => mt <= mr
      <4>1. r \in Int
        BY <1>1
      <4>2. Ticks <= r => Times(Micros, Ticks) <= Times(Micros, r)
        BY <1>1, <4>1, TimesOrder, Zenon
      <4> QED BY <1>3, <4>2
    <3> QED BY <1>1, <1>3, <3>4, <3>5
  <2>4. tod = DaySecs - 1 => x + Ticks <= DayTicks
    <3>1. Times(Ticks, tod) + Ticks <= Times(Ticks, DaySecs)
      BY <1>1, <1>2, TimesOrder, Zenon
    <3>2. Times(Ticks, DaySecs) = DayTicks
      BY <1>1, TimesIs, Zenon
    <3> QED BY <1>2, <3>1, <3>2
  <2>5. tod < DaySecs - 1 => x + Ticks + Ticks <= DayTicks
    <3>1. PICK n \in Int : n = DaySecs - 1
      BY <1>1
    <3>2. tod < n => Times(Ticks, tod) + Ticks <= Times(Ticks, n)
      BY <1>1, TimesOrder, Zenon
    <3>3. Times(Ticks, n) + Ticks <= Times(Ticks, DaySecs)
      <4>1. n < DaySecs
        BY <1>1, <3>1
      <4> QED BY <1>1, <4>1, TimesOrder, Zenon
    <3>4. Times(Ticks, DaySecs) = DayTicks /\ Times(Ticks, n) \in Int
      BY <1>1, TimesIs, Zenon
    <3> QED BY <1>1, <1>2, <3>1, <3>2, <3>3, <3>4
  <2>6. (x + r) \in 0..DayTicks - 1
    BY <1>1, <2>1, <2>2, <2>3, <2>4, <2>5
  <2> QED BY <1>2, <2>6 DEF LegalDatetime
<1>5. CASE d.secs < 0
  <2>1. Mod(secs, DaySecs) = 0 /\ us = 0
    BY <1>3, <1>5 DEF HasTimeOfDay, Mod
  <2>2. tod = 0
    <3> SUFFICES ASSUME tod # 0
                 PROVE  FALSE
      OBVIOUS
    <3>1. PICK m \in 0..DaySecs - 1, n \in Int : m = tod + DaySecs /\ n = days - 1
      BY <1>1, <1>2, <1>5
    <3>2. Times(DaySecs, n) = Times(DaySecs, days) - DaySecs
      <4>1. Times(DaySecs, days - 1) = Times(DaySecs, days) - Times(DaySecs, 1)
        BY <1>1, TimesSum
      <4>2. Times(DaySecs, 1) = DaySecs
        BY <1>1 DEF Times
      <4> QED BY <3>1, <4>1, <4>2
    <3>3. Times(DaySecs, days) \in Int
      BY <1>1, TimesIs, Zenon
    <3>4. secs = Times(DaySecs, n) + m
      BY <1>1, <1>2, <1>3, <3>1, <3>2, <3>3
    <3>5. Mod(secs, DaySecs) = m
      BY <1>1, <3>4, DivisionIs
    <3> QED BY <1>1, <1>2, <2>1, <3>1, <3>5
  <2>3. x = 0
    BY <1>1, <1>2, <2>2, TimesZero
  <2>4. r = 0
    <3>1. a = 0
      <4>1. Times(Ticks, 0) = 0 /\ 0 \in Int
        BY <1>1, TimesZero
      <4>2. Times(0, Ticks) = Times(Ticks, 0)
        BY <1>1, <4>1, TimesIs, Zenon
      <4> QED BY <1>3, <2>1, <4>1, <4>2
    <3>2. r > 0 => mr >= Micros
      <4>1. r \in Int
        BY <1>1
      <4> QED BY <1>1, <1>3, <4>1, TimesGrows
    <3> QED BY <1>1, <1>3, <3>1, <3>2
  <2>5. x + r = 0 /\ 0 \in 0..DayTicks - 1
    BY <2>3, <2>4, Units
  <2> QED BY <1>2, <2>5 DEF LegalDatetime
<1> QED BY <1>2, <1>4, <1>5

\* A date that is refused is one of those that may be.
LEMMA OnlyTheseAreRefused ==
    ASSUME NEW d \in Dates, raised', BindDate(d)
    PROVE  MayBeRefused(d)
<1>1. d.secs \in Int /\ d.us \in 0..Micros - 1
  BY DatesAreQore DEF QoreDates
<1>2. CASE optimized /\ column = "DATETIME" /\ (d.us # 0 \/ ~InRange(d)) /\ Refused
  BY <1>2 DEF MayBeRefused
<1>3. CASE ~optimized /\ ~(InRange(d) /\ LegalDatetime(ToDatetime(d)))
  <2>1. CASE ~InRange(d)
    BY <2>1 DEF MayBeRefused
  <2>2. CASE ~LegalDatetime(ToDatetime(d))
    <3>1. EndOfDay(d) \/ (d.secs < 0 /\ HasTimeOfDay(d))
      BY <1>1, <2>2, TimesOfDayAreLegal
    <3> QED BY <1>3, <3>1 DEF MayBeRefused
  <2> QED BY <1>3, <2>1, <2>2
<1> QED BY <1>2, <1>3 DEF BindDate, Stored

-----------------------------------------------------------------------------
(* The theorems.                                                           *)

\* The value read is one of those the type of the column and the options allow,
\* with microseconds of less than a second.
THEOREM ConversionTypeOK == Spec => []TypeOK
BY ConversionAlways, InvImpliesTypeOK, PTL

\* getNumber() neither rounds nor saturates, whatever the digits of the largest
\* integer are: an integer is returned only for a number strtoll() reads as it
\* is, or one of those below the smallest integer that NumbersExact names.
THEOREM NumbersAreExact == Spec => []NumbersExact
BY ConversionAlways, ExactNumbers, PTL

\* For every text: exactly the terminator is taken off, and the blanks at the end
\* of a CHAR and, with Sybase, of a LONGCHAR, UNICHAR and TEXT.
THEOREM TextsComeBack == Spec => []TextsRead
BY ConversionAlways, TextsAreRead, PTL

\* For every value of the server in every type of date: the epochs are those of
\* the types, and the ticks come to the nearest millisecond.
THEOREM ServerDatesComeBack == Spec => []ServerDatesRead
BY ConversionAlways, DatesAreRead, PTL

\* DateTime_to_DATETIME() and DATETIME_to_DateTime(), one after the other, are
\* off by no more than half a tick and half a millisecond, before 1970 and after
\* it; the day, in 32 bits, is never lost.
THEOREM DatesComeBack == Spec => []DatesRoundTrip
BY ConversionAlways, DatesComeBackInv, PTL

\* The milliseconds of a tick are bound as that tick again, so that a program
\* may write back what it has read as often as it likes.
THEOREM WritingBackChangesNothing == Spec => WrittenBackUnchanged
<1>1. ConversionInv /\ [Next]_vars =>
        [Rebind /\ ~raised' /\ (column = "DATETIME" \/ optimized) => stored' = stored]_vars
  BY WrittenBack
<1> QED BY <1>1, ConversionAlways, PTL DEF Spec, WrittenBackUnchanged

\* set_params() fails for no date but those MayBeRefused() describes.
THEOREM RefusesOnlyThese == Spec => RefusedDates
<1>1. [Next]_vars => [raised' => \A d \in Dates : MayBeRefused(d) \/ ~BindDate(d)]_vars
  BY OnlyTheseAreRefused
<1> QED BY <1>1, PTL DEF Spec, RefusedDates
=============================================================================
