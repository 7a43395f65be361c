---------------------------- MODULE FetchProofs -----------------------------
(***************************************************************************)
(* uitoa for every number, and fetch for every calendar, CPU and moment at *)
(* which it is started.                                                    *)
(***************************************************************************)
EXTENDS Fetch, ClockProofs, WellFoundedInduction

-----------------------------------------------------------------------------
\* A set of naturals that is not empty has a least element.
LEMMA NatMin ==
  ASSUME NEW T, T \subseteq Nat, T # {}
  PROVE  \E x \in T : \A y \in T : x <= y
<1> DEFINE R == OpToRel(<, Nat)
<1>1. IsWellFoundedOn(R, Nat)
  BY NatLessThanWellFounded
<1>2. \A i, j \in Nat : j < i => <<j, i>> \in R
  BY DEF OpToRel
<1> HIDE DEF R
<1>3. PICK x \in T : \A y \in T : ~ (<<y, x>> \in R)
  BY <1>1, WFMin
<1>4. ASSUME NEW y \in T PROVE x <= y
  <2>1. x \in Nat /\ y \in Nat
    OBVIOUS
  <2>2. ~ (y < x)
    BY <1>2, <1>3, <2>1
  <2> QED
    BY <2>1, <2>2
<1> QED
  BY <1>4

\* Complete induction: a set that holds a number whenever it holds all
\* smaller ones holds them all.
LEMMA StrongInduction ==
  ASSUME NEW S, \A n \in Nat : (\A m \in 0 .. (n - 1) : m \in S) => n \in S
  PROVE  Nat \subseteq S
<1> SUFFICES ASSUME Nat \ S # {} PROVE FALSE
  OBVIOUS
<1>1. PICK x \in Nat \ S : \A y \in Nat \ S : x <= y
  BY NatMin
<1>2. ASSUME NEW m \in 0 .. (x - 1) PROVE m \in S
  BY <1>1
<1> QED
  BY <1>1, <1>2

-----------------------------------------------------------------------------
(***************************************************************************)
(* uitoa                                                                   *)
(***************************************************************************)
LEMMA Division ==
  ASSUME NEW r \in {10, 16}, NEW x \in Nat
  PROVE  /\ x \div r \in Nat /\ x % r \in 0 .. (r - 1) /\ x = r * (x \div r) + (x % r)
         /\ x \div r # 0 => x \div r < x
         /\ x > 0 /\ x \div r = 0 => x % r > 0
<1>1. CASE r = 10
  BY <1>1
<1>2. CASE r = 16
  BY <1>2
<1> QED
  BY <1>1, <1>2

\* The recursion of digits
Numeral(x, r, f) ==
  << digit_char(x % r) >> \o (IF x \div r = 0 THEN << >> ELSE f[x \div r])

Unfolding(f, m, r) == f = [x \in 0 .. m |-> Numeral(x, r, f)]

\* There is such a function for every bound, by induction on it.
LEMMA UnfoldingExists ==
  ASSUME NEW r \in {10, 16}, NEW val \in Nat
  PROVE  \E f : Unfolding(f, val, r)
<1> DEFINE S == { m \in Nat : \E f : Unfolding(f, m, r) }
<1>1. ASSUME NEW m \in Nat, \A k \in 0 .. (m - 1) : k \in S PROVE m \in S
  <2>1. \E f : \A n \in 0 .. (m - 1) : f[n] = Numeral(n, r, f)
    <3>1. CASE m = 0
      BY <3>1
    <3>2. CASE m # 0
      <4>1. m - 1 \in 0 .. (m - 1)
        BY <3>2
      <4>2. PICK f : Unfolding(f, m - 1, r)
        BY <1>1, <4>1
      <4>3. \A n \in 0 .. (m - 1) : f[n] = Numeral(n, r, f)
        BY <4>2 DEF Unfolding
      <4> QED
        BY <4>3
    <3> QED
      BY <3>1, <3>2
  <2>2. PICK f : \A n \in 0 .. (m - 1) : f[n] = Numeral(n, r, f)
    BY <2>1
  <2> DEFINE g == [n \in 0 .. m |-> IF n = m THEN Numeral(m, r, f) ELSE f[n]]
  <2>3. ASSUME NEW n \in 0 .. m PROVE Numeral(n, r, g) = Numeral(n, r, f)
    <3>1. n \div r # 0 => n \div r \in 0 .. (m - 1)
      BY Division
    <3>2. n \div r # 0 => g[n \div r] = f[n \div r]
      BY <3>1
    <3> QED
      BY <3>2 DEF Numeral
  <2>4. \A n \in 0 .. m : g[n] = Numeral(n, r, g)
    <3> SUFFICES ASSUME NEW n \in 0 .. m PROVE g[n] = Numeral(n, r, g)
      OBVIOUS
    <3>1. CASE n = m
      BY <2>3, <3>1
    <3>2. CASE n # m
      <4>1. n \in 0 .. (m - 1)
        BY <3>2
      <4>2. g[n] = f[n]
        BY <3>2
      <4> QED
        BY <2>2, <2>3, <4>1, <4>2
    <3> QED
      BY <3>1, <3>2
  <2>5. Unfolding(g, m, r)
    <3>1. g = [n \in 0 .. m |-> g[n]]
      OBVIOUS
    <3> HIDE DEF g
    <3> QED
      BY <2>4, <3>1 DEF Unfolding
  <2> HIDE DEF g
  <2> QED
    BY <2>5
<1>2. Nat \subseteq S
  <2> HIDE DEF S
  <2> QED
    BY <1>1, StrongInduction
<1> QED
  BY <1>2

\* Two of them agree where both are defined.
LEMMA UnfoldingUnique ==
  ASSUME NEW r \in {10, 16}, NEW m \in Nat, NEW n \in Nat, NEW f, NEW g,
         Unfolding(f, m, r), Unfolding(g, n, r)
  PROVE  \A x \in Nat : x <= m /\ x <= n => f[x] = g[x]
<1> DEFINE S == { x \in Nat : x <= m /\ x <= n => f[x] = g[x] }
<1>1. ASSUME NEW x \in Nat, \A k \in 0 .. (x - 1) : k \in S PROVE x \in S
  <2> SUFFICES ASSUME x <= m, x <= n PROVE f[x] = g[x]
    OBVIOUS
  <2>1. f[x] = Numeral(x, r, f) /\ g[x] = Numeral(x, r, g)
    <3>1. x \in 0 .. m /\ x \in 0 .. n
      OBVIOUS
    <3>2. f[x] = Numeral(x, r, f)
      BY <3>1 DEF Unfolding
    <3>3. g[x] = Numeral(x, r, g)
      BY <3>1 DEF Unfolding
    <3> QED
      BY <3>2, <3>3
  <2>2. x \div r # 0 => f[x \div r] = g[x \div r]
    <3> SUFFICES ASSUME x \div r # 0 PROVE f[x \div r] = g[x \div r]
      OBVIOUS
    <3>1. x \div r \in 0 .. (x - 1) /\ x \div r <= m /\ x \div r <= n
      BY Division
    <3> QED
      BY <1>1, <3>1
  <2> QED
    BY <2>1, <2>2 DEF Numeral
<1>2. Nat \subseteq S
  <2> HIDE DEF S
  <2> QED
    BY <1>1, StrongInduction
<1> QED
  BY <1>2

\* The lowest digit, then those of the rest.
LEMMA DigitsUnfold ==
  ASSUME NEW r \in {10, 16}, NEW val \in Nat
  PROVE  digits(val, r) = << digit_char(val % r) >> \o
                            (IF val \div r = 0 THEN << >> ELSE digits(val \div r, r))
<1> DEFINE from(m) == CHOOSE f : f = [x \in 0 .. m |->
                        << digit_char(x % r) >> \o
                        (IF x \div r = 0 THEN << >> ELSE f[x \div r])]
<1>1. ASSUME NEW m \in Nat PROVE digits(m, r) = from(m)[m] /\ Unfolding(from(m), m, r)
  <2>1. digits(m, r) = from(m)[m]
    BY Zenon DEF digits
  <2>2. \E f : Unfolding(f, m, r)
    BY UnfoldingExists
  <2>3. Unfolding(from(m), m, r)
    BY <2>2, Zenon DEF Unfolding, Numeral
  <2> QED
    BY <2>1, <2>3
<1> HIDE DEF from
<1> DEFINE y == val \div r
<1>2. digits(val, r) = Numeral(val, r, from(val))
  BY <1>1 DEF Unfolding
<1>3. ASSUME y # 0 PROVE from(val)[y] = digits(y, r)
  <2>1. y \in Nat /\ y <= val /\ y <= y
    BY <1>3, Division
  <2> HIDE DEF y
  <2>2. Unfolding(from(val), val, r) /\ Unfolding(from(y), y, r) /\ digits(y, r) = from(y)[y]
    BY <1>1, <2>1
  <2> QED
    BY <2>1, <2>2, UnfoldingUnique
<1> QED
  BY <1>2, <1>3 DEF Numeral

LEMMA DigitChars ==
  ASSUME NEW r \in {10, 16}, NEW x \in Nat
  PROVE  /\ digit_char(x % r) \in Nat
         /\ char_value(digit_char(x % r)) = x % r
         /\ digit_char(x % r) = 48 => x % r = 0
<1>1. x % r \in 0 .. 15
  BY Division
<1> QED
  BY <1>1 DEF digit_char, char_value

LEMMA DigitsSeq ==
  ASSUME NEW r \in {10, 16}, NEW val \in Nat
  PROVE  digits(val, r) \in Seq(Nat) /\ Len(digits(val, r)) >= 1
<1> DEFINE S == { x \in Nat : digits(x, r) \in Seq(Nat) /\ Len(digits(x, r)) >= 1 }
<1>1. ASSUME NEW x \in Nat, \A k \in 0 .. (x - 1) : k \in S PROVE x \in S
  <2> DEFINE d == digit_char(x % r)
             t == IF x \div r = 0 THEN << >> ELSE digits(x \div r, r)
  <2>1. d \in Nat
    BY DigitChars
  <2>2. t \in Seq(Nat)
    <3>1. CASE x \div r = 0
      BY <3>1
    <3>2. CASE x \div r # 0
      <4>1. x \div r \in 0 .. (x - 1)
        BY <3>2, Division
      <4> QED
        BY <1>1, <3>2, <4>1
    <3> QED
      BY <3>1, <3>2
  <2>3. digits(x, r) = << d >> \o t
    BY DigitsUnfold
  <2> HIDE DEF d, t
  <2>4. << d >> \in Seq(Nat) /\ Len(<< d >>) = 1
    BY <2>1
  <2>5. digits(x, r) \in Seq(Nat) /\ Len(digits(x, r)) = 1 + Len(t)
    BY <2>2, <2>3, <2>4, ConcatProperties
  <2> QED
    BY <2>2, <2>5
<1>2. Nat \subseteq S
  <2> HIDE DEF S
  <2> QED
    BY <1>1, StrongInduction
<1> QED
  BY <1>2

\* What is in the buffer behind the prefix
numeral(x, r) == Reverse(digits(x, r))

\* The digits of the rest, then the lowest.
LEMMA NumeralUnfold ==
  ASSUME NEW r \in {10, 16}, NEW x \in Nat
  PROVE  /\ numeral(x, r) \in Seq(Nat) /\ Len(numeral(x, r)) = Len(digits(x, r))
         /\ numeral(x, r) = IF x \div r = 0 THEN << digit_char(x % r) >>
                            ELSE Append(numeral(x \div r, r), digit_char(x % r))
<1> DEFINE d == digit_char(x % r)
           y == x \div r
           s == digits(x, r)
           t == digits(y, r)
<1>1. d \in Nat /\ y \in Nat
  BY DigitChars, Division
<1>2. s \in Seq(Nat) /\ Len(s) >= 1 /\ t \in Seq(Nat) /\ Len(t) >= 1
  BY <1>1, DigitsSeq
<1>3. s = << d >> \o (IF y = 0 THEN << >> ELSE t)
  BY DigitsUnfold
<1>4. numeral(x, r) = [i \in 1 .. Len(s) |-> s[(Len(s) - i) + 1]]
      /\ numeral(y, r) = [i \in 1 .. Len(t) |-> t[(Len(t) - i) + 1]]
  BY DEF numeral, Reverse
<1> DEFINE u == numeral(x, r)
           v == numeral(y, r)
<1> HIDE DEF d, y, s, t, u, v
<1>5. /\ << d >> \in Seq(Nat) /\ Len(<< d >>) = 1 /\ << d >>[1] = d
      /\ << d >> \o << >> = << d >>
  BY <1>1, ConcatEmptySeq
<1>6. u \in Seq(Nat) /\ Len(u) = Len(s)
  <2>1. \A i \in 1 .. Len(s) : s[(Len(s) - i) + 1] \in Nat
    BY <1>2
  <2> QED
    BY <1>2, <1>4, <2>1 DEF u
<1>7. CASE y = 0
  <2>1. s = << d >>
    BY <1>3, <1>5, <1>7
  <2>2. Len(u) = 1 /\ u[1] = d
    BY <1>4, <1>5, <2>1 DEF u
  <2>3. u = << d >>
    BY <1>5, <1>6, <2>2, SeqEqual
  <2> QED
    BY <1>6, <1>7, <2>3 DEF u, d, y, s
<1>8. CASE y # 0
  <2>1. s = << d >> \o t
    BY <1>3, <1>8
  <2>2. /\ Len(s) = 1 + Len(t)
        /\ \A i \in 1 .. 1 + Len(t) : s[i] = IF i <= 1 THEN << d >>[i] ELSE t[i - 1]
    BY <1>2, <1>5, <2>1, ConcatProperties
  <2>3. v \in Seq(Nat) /\ Len(v) = Len(t)
    <3>1. \A i \in 1 .. Len(t) : t[(Len(t) - i) + 1] \in Nat
      BY <1>2
    <3> QED
      BY <1>2, <1>4, <3>1 DEF v
  <2> DEFINE w == Append(v, d)
  <2>4. /\ w \in Seq(Nat) /\ Len(w) = Len(t) + 1 /\ w[Len(t) + 1] = d
        /\ \A i \in 1 .. Len(t) : w[i] = v[i]
    BY <1>1, <2>3, AppendProperties
  <2> HIDE DEF w
  <2>5. ASSUME NEW i \in 1 .. Len(u) PROVE u[i] = w[i]
    <3>1. Len(t) \in Nat /\ Len(u) = Len(t) + 1
      BY <1>2, <1>6, <2>2
    <3>2. u[i] = s[(Len(t) + 1 - i) + 1]
      BY <1>4, <1>6, <2>2, <3>1 DEF u
    <3>3. CASE i = Len(t) + 1
      <4>1. (Len(t) + 1 - i) + 1 = 1 /\ 1 \in 1 .. 1 + Len(t)
        BY <3>1, <3>3
      <4>2. s[1] = d
        BY <1>5, <2>2, <4>1
      <4> QED
        BY <2>4, <3>2, <3>3, <4>1, <4>2
    <3>4. CASE i # Len(t) + 1
      <4> DEFINE j == (Len(t) + 1 - i) + 1
      <4>1. j \in 1 .. 1 + Len(t) /\ ~ (j <= 1) /\ j - 1 = (Len(t) - i) + 1
            /\ i \in 1 .. Len(t)
        BY <3>1, <3>4
      <4> HIDE DEF j
      <4>2. s[j] = t[(Len(t) - i) + 1]
        BY <2>2, <4>1
      <4>3. v[i] = t[(Len(t) - i) + 1]
        BY <1>4, <4>1 DEF v
      <4> QED
        BY <2>4, <3>2, <4>1, <4>2, <4>3 DEF j
    <3> QED
      BY <3>3, <3>4
  <2>6. u = w
    <3>1. Len(u) = Len(w)
      BY <1>2, <1>6, <2>2, <2>4
    <3> QED
      BY <1>6, <2>4, <2>5, <3>1, SeqEqual
  <2> QED
    BY <1>6, <1>8, <2>6 DEF u, w, v, d, y, s
<1> QED
  BY <1>7, <1>8

\* Numbers up to r times as large have one digit more.
LEMMA OneDigitMore ==
  ASSUME NEW r \in {10, 16}, NEW p \in Nat, NEW n \in Nat, n >= 1,
         \A x \in 0 .. (p - 1) : Len(digits(x, r)) <= n
  PROVE  \A x \in 0 .. (r * p - 1) : Len(digits(x, r)) <= n + 1
<1> SUFFICES ASSUME NEW x \in 0 .. (r * p - 1) PROVE Len(digits(x, r)) <= n + 1
  OBVIOUS
<1> DEFINE d == digit_char(x % r)
           y == x \div r
           t == IF y = 0 THEN << >> ELSE digits(y, r)
<1>1. x \in Nat
  BY DEF y
<1>2. d \in Nat /\ y \in Nat /\ y < p
  <2>1. d \in Nat /\ y \in Nat
    BY <1>1, DigitChars, Division
  <2>2. y < p
    <3>1. /\ r = 10 \/ r = 16
          /\ x = r * y + (x % r) /\ x % r \in Nat /\ x < r * p
      BY <1>1, Division
    <3> HIDE DEF y
    <3>2. CASE r = 10
      BY <2>1, <3>1, <3>2
    <3>3. CASE r = 16
      BY <2>1, <3>1, <3>3
    <3> QED
      BY <3>1, <3>2, <3>3
  <2> QED
    BY <2>1, <2>2
<1>3. digits(x, r) = << d >> \o t
  BY <1>1, DigitsUnfold
<1>4. t \in Seq(Nat) /\ Len(t) <= n
  <2>1. CASE y = 0
    BY <2>1
  <2>2. CASE y # 0
    <3> HIDE DEF y
    <3>1. y \in 0 .. (p - 1)
      BY <1>2
    <3>2. digits(y, r) \in Seq(Nat) /\ Len(digits(y, r)) <= n
      BY <1>2, <3>1, DigitsSeq
    <3> QED
      BY <2>2, <3>2
  <2> QED
    BY <2>1, <2>2
<1> HIDE DEF d, t
<1>5. << d >> \in Seq(Nat) /\ Len(<< d >>) = 1
  BY <1>2
<1>6. Len(digits(x, r)) = 1 + Len(t)
  BY <1>3, <1>4, <1>5, ConcatProperties
<1> QED
  BY <1>4, <1>6

\* The lengths that the buffers of printf and timer_dump must hold.
LEMMA DigitsShort ==
  /\ \A x \in Nat : x < 1000 => Len(digits(x, 10)) <= 3
  /\ \A x \in Nat : x < 10000000 => Len(digits(x, 10)) <= 7
  /\ \A x \in Nat : x < 4294967296 => Len(digits(x, 16)) <= 8
<1>1. ASSUME NEW r \in {10, 16}, NEW x \in Nat, x < r PROVE Len(digits(x, r)) <= 1
  <2>1. x \div r = 0
    <3>1. CASE r = 10
      BY <1>1, <3>1
    <3>2. CASE r = 16
      BY <1>1, <3>2
    <3> QED
      BY <3>1, <3>2
  <2> DEFINE d == digit_char(x % r)
  <2>2. d \in Nat
    BY <2>1, DigitChars
  <2>3. digits(x, r) = << d >> \o << >>
    BY <2>1, DigitsUnfold
  <2> HIDE DEF d
  <2>4. digits(x, r) = << d >>
    BY <2>2, <2>3, ConcatEmptySeq
  <2> QED
    BY <2>4
<1> DEFINE Short(r, p, n) == \A x \in Nat : x < p => Len(digits(x, r)) <= n
<1>2. ASSUME NEW r \in {10, 16}, NEW p \in Nat, NEW n \in Nat, n >= 1, Short(r, p, n)
      PROVE  Short(r, r * p, n + 1)
  <2>1. \A x \in 0 .. (p - 1) : Len(digits(x, r)) <= n
    BY <1>2
  <2>2. \A x \in 0 .. (r * p - 1) : Len(digits(x, r)) <= n + 1
    BY <1>2, <2>1, OneDigitMore
  <2>3. r * p \in Nat
    BY <1>2
  <2> QED
    BY <2>2, <2>3
<1>3. Short(10, 10, 1) /\ Short(16, 16, 1)
  BY <1>1
<1> HIDE DEF Short
<1>4. Short(10, 100, 2)
  BY <1>2, <1>3, SMT
<1>5. Short(10, 1000, 3)
  BY <1>2, <1>4, SMT
<1>6. Short(10, 10000, 4)
  BY <1>2, <1>5, SMT
<1>7. Short(10, 100000, 5)
  BY <1>2, <1>6, SMT
<1>8. Short(10, 1000000, 6)
  BY <1>2, <1>7, SMT
<1>9. Short(10, 10000000, 7)
  BY <1>2, <1>8, SMT
<1>10. Short(16, 256, 2)
  BY <1>2, <1>3, SMT
<1>11. Short(16, 4096, 3)
  BY <1>2, <1>10, SMT
<1>12. Short(16, 65536, 4)
  BY <1>2, <1>11, SMT
<1>13. Short(16, 1048576, 5)
  BY <1>2, <1>12, SMT
<1>14. Short(16, 16777216, 6)
  BY <1>2, <1>13, SMT
<1>15. Short(16, 268435456, 7)
  BY <1>2, <1>14, SMT
<1>16. Short(16, 4294967296, 8)
  BY <1>2, <1>15, SMT
<1> QED
  BY <1>5, <1>9, <1>16, SMT DEF Short

-----------------------------------------------------------------------------
(***************************************************************************)
(* What a numeral means                                                    *)
(***************************************************************************)
LEMMA ValueUnfolds ==
  ASSUME NEW text, NEW r, Len(text) \in Nat
  PROVE  \E f : /\ value_of(text, r) = f[Len(text)]
                /\ f[0] = 0
                /\ \A n \in 1 .. Len(text) : f[n] = f[n - 1] * r + char_value(text[n])
<1> DEFINE N == Len(text)
           Def(f, m) == f = [n \in 0 .. m |->
                              IF n = 0 THEN 0 ELSE f[n - 1] * r + char_value(text[n])]
           S == { m \in Nat : \E f : Def(f, m) }
           value == CHOOSE f : Def(f, N)
<1>1. ASSUME NEW m \in Nat, \A k \in 0 .. (m - 1) : k \in S PROVE m \in S
  <2>1. CASE m = 0
    <3> DEFINE g == [n \in 0 .. 0 |-> 0]
    <3>1. g = [n \in 0 .. 0 |-> IF n = 0 THEN 0 ELSE g[n - 1] * r + char_value(text[n])]
      OBVIOUS
    <3> QED
      BY <2>1, <3>1
  <2>2. CASE m # 0
    <3>1. m - 1 \in 0 .. (m - 1)
      BY <2>2
    <3>2. PICK f : Def(f, m - 1)
      BY <1>1, <3>1
    <3> DEFINE g == [n \in 0 .. m |->
                       IF n = m THEN f[m - 1] * r + char_value(text[m]) ELSE f[n]]
    <3>3. \A n \in 0 .. (m - 1) : g[n] = f[n]
      OBVIOUS
    <3>4. ASSUME NEW n \in 0 .. m
          PROVE  g[n] = IF n = 0 THEN 0 ELSE g[n - 1] * r + char_value(text[n])
      <4>1. CASE n = m
        <5>1. g[n - 1] = f[m - 1]
          BY <3>1, <3>3, <4>1
        <5>2. g[n] = f[m - 1] * r + char_value(text[n])
          BY <4>1
        <5> QED
          BY <2>2, <4>1, <5>1, <5>2
      <4>2. CASE n # m
        <5>1. n \in 0 .. (m - 1)
          BY <4>2
        <5>2. f[n] = IF n = 0 THEN 0 ELSE f[n - 1] * r + char_value(text[n])
          BY <3>2, <5>1
        <5>3. n # 0 => g[n - 1] = f[n - 1]
          BY <3>3, <5>1
        <5> QED
          BY <3>3, <5>1, <5>2, <5>3
      <4> QED
        BY <4>1, <4>2
    <3>5. Def(g, m)
      <4>1. g = [n \in 0 .. m |-> g[n]]
        OBVIOUS
      <4> HIDE DEF g
      <4> QED
        BY <3>4, <4>1
    <3> HIDE DEF g, Def
    <3> QED
      BY <3>5
  <2> QED
    BY <2>1, <2>2
<1>2. Nat \subseteq S
  <2> HIDE DEF S
  <2> QED
    BY <1>1, StrongInduction
<1>3. Def(value, N)
  <2>1. \E f : Def(f, N)
    BY <1>2
  <2> QED
    BY <2>1, Zenon
<1>4. value_of(text, r) = value[N]
  BY Zenon DEF value_of
<1> HIDE DEF value
<1>5. value[0] = 0
  BY <1>3
<1>6. \A n \in 1 .. N : value[n] = value[n - 1] * r + char_value(text[n])
  BY <1>3
<1> QED
  BY <1>4, <1>5, <1>6

\* One more digit behind.
LEMMA ValueAppend ==
  ASSUME NEW s \in Seq(Nat), NEW c \in Nat, NEW r
  PROVE  value_of(Append(s, c), r) = value_of(s, r) * r + char_value(c)
<1> DEFINE N == Len(s)
           t == Append(s, c)
<1>1. /\ N \in Nat /\ Len(t) = N + 1 /\ t[N + 1] = c
      /\ \A i \in 1 .. N : t[i] = s[i]
  BY AppendProperties
<1> HIDE DEF t, N
<1>2. PICK f : /\ value_of(s, r) = f[N] /\ f[0] = 0
               /\ \A n \in 1 .. N : f[n] = f[n - 1] * r + char_value(s[n])
  BY <1>1, ValueUnfolds DEF N
<1>3. PICK g : /\ value_of(t, r) = g[N + 1] /\ g[0] = 0
               /\ \A n \in 1 .. N + 1 : g[n] = g[n - 1] * r + char_value(t[n])
  <2>1. Len(t) \in Nat
    BY <1>1
  <2>2. PICK g : /\ value_of(t, r) = g[Len(t)] /\ g[0] = 0
                 /\ \A n \in 1 .. Len(t) : g[n] = g[n - 1] * r + char_value(t[n])
    BY <2>1, ValueUnfolds
  <2> QED
    BY <1>1, <2>2
<1> DEFINE S == { n \in Nat : n <= N => g[n] = f[n] }
<1>4. ASSUME NEW n \in Nat, \A k \in 0 .. (n - 1) : k \in S PROVE n \in S
  <2> SUFFICES ASSUME n <= N PROVE g[n] = f[n]
    OBVIOUS
  <2>1. CASE n = 0
    BY <1>2, <1>3, <2>1
  <2>2. CASE n # 0
    <3>1. n \in 1 .. N /\ n \in 1 .. N + 1 /\ n - 1 \in 0 .. (n - 1) /\ n - 1 <= N
      BY <1>1, <2>2
    <3>2. g[n - 1] = f[n - 1] /\ t[n] = s[n]
      BY <1>1, <1>4, <3>1
    <3>3. f[n] = f[n - 1] * r + char_value(s[n])
      BY <1>2, <3>1
    <3>4. g[n] = g[n - 1] * r + char_value(t[n])
      BY <1>3, <3>1
    <3> QED
      BY <3>2, <3>3, <3>4
  <2> QED
    BY <2>1, <2>2
<1>5. Nat \subseteq S
  <2> HIDE DEF S
  <2> QED
    BY <1>4, StrongInduction
<1>6. g[N] = f[N]
  BY <1>1, <1>5
<1>7. N + 1 \in 1 .. N + 1 /\ (N + 1) - 1 = N
  BY <1>1
<1>8. g[N + 1] = g[N] * r + char_value(c)
  BY <1>1, <1>3, <1>7
<1> QED
  BY <1>2, <1>3, <1>6, <1>8 DEF t

\* A numeral means its number, and only that of 0 starts with the digit 0.
LEMMA NumeralMeans ==
  ASSUME NEW r \in {10, 16}, NEW val \in Nat
  PROVE  /\ value_of(numeral(val, r), r) = val
         /\ numeral(val, r)[1] = 48 => numeral(val, r) = << 48 >>
<1> DEFINE S == { x \in Nat : /\ value_of(numeral(x, r), r) = x
                              /\ numeral(x, r)[1] = 48 => x = 0 }
<1>1. ASSUME NEW x \in Nat, \A k \in 0 .. (x - 1) : k \in S PROVE x \in S
  <2> DEFINE d == digit_char(x % r)
             y == x \div r
             u == numeral(x, r)
             v == numeral(y, r)
  <2>1. /\ y \in Nat /\ x % r \in Nat /\ x = r * y + (x % r) /\ (y # 0 => y < x)
        /\ x > 0 /\ y = 0 => x % r > 0
    BY Division
  <2>2. d \in Nat /\ char_value(d) = x % r /\ (d = 48 => x % r = 0)
    BY DigitChars
  <2>3. /\ u \in Seq(Nat) /\ u = IF y = 0 THEN << d >> ELSE Append(v, d)
        /\ v \in Seq(Nat) /\ Len(v) >= 1
    BY <2>1, NumeralUnfold, DigitsSeq
  <2> HIDE DEF d, y, u, v
  <2>4. CASE y = 0
    <3>1. u = << d >>
      BY <2>3, <2>4
    <3>2. << >> \in Seq(Nat) /\ << d >> = Append(<< >>, d) /\ << d >>[1] = d
      BY <2>2
    <3>3. value_of(<< >>, r) = 0
      <4>1. Len(<< >>) = 0
        OBVIOUS
      <4>2. PICK f : value_of(<< >>, r) = f[Len(<< >>)] /\ f[0] = 0
        BY <4>1, ValueUnfolds
      <4> QED
        BY <4>1, <4>2
    <3>4. value_of(u, r) = 0 * r + char_value(d)
      BY <2>2, <3>1, <3>2, <3>3, ValueAppend
    <3>5. r \in Nat
      OBVIOUS
    <3>6. value_of(u, r) = x
      BY <2>1, <2>2, <2>4, <3>4, <3>5
    <3>7. u[1] = 48 => x = 0
      BY <2>1, <2>2, <2>4, <3>1, <3>2
    <3> QED
      BY <3>6, <3>7 DEF u
  <2>5. CASE y # 0
    <3>1. u = Append(v, d) /\ y \in 0 .. (x - 1)
      BY <2>1, <2>3, <2>5
    <3>2. value_of(v, r) = y /\ (v[1] = 48 => y = 0)
      BY <1>1, <3>1 DEF v
    <3>3. value_of(u, r) = y * r + (x % r)
      BY <2>2, <2>3, <3>1, <3>2, ValueAppend
    <3>4. y * r = r * y
      BY <2>1
    <3>5. u[1] = v[1]
      BY <2>2, <2>3, <3>1, AppendProperties
    <3> QED
      BY <2>1, <2>5, <3>2, <3>3, <3>4, <3>5 DEF u
  <2> QED
    BY <2>4, <2>5
<1>2. Nat \subseteq S
  <2> HIDE DEF S
  <2> QED
    BY <1>1, StrongInduction
<1>3. ASSUME val = 0 PROVE numeral(val, r) = << 48 >>
  <2>1. val \div r = 0 /\ val % r = 0
    BY <1>3, Division
  <2>2. numeral(val, r) = << digit_char(val % r) >>
    BY <2>1, NumeralUnfold
  <2> QED
    BY <2>1, <2>2 DEF digit_char
<1> QED
  BY <1>2, <1>3

-----------------------------------------------------------------------------
(***************************************************************************)
(* The numbers that commands print: ticks, registers of 32 bits, and the   *)
(* fields of a date, which have two BCD digits.                            *)
(***************************************************************************)
Shown ==
  { number(v, 10, TIMER_BUF) : v \in Nat } \cup
  { number(v, 16, PRINTF_BUF) : v \in { x \in Nat : x < 4294967296 } } \cup
  { number(v, 10, PRINTF_BUF) : v \in { x \in Nat : x < 1000 } }

NumbersShown == numbers \in Seq(Shown)

\* The names that cpuid.c has
Names ==
  {"Original OEM", "Overdrive", "Dual-capable", "Reserved", "i386", "i486",
   "Pentium II Model 5/Xeon/Celeron", "Pentium Pro", "Pentium 4"}

NamesPrinted == named(cpu) => pc # "fault" /\ words \in Seq(Names)

\* get_date reads its fields one after the other, each with a call of its own.
Place ==
  /\ cpu \in cpus /\ start \in 1 .. now
  /\ pc \in {"prompt", "date", "type", "family", "time", "fault"}
  /\ date \in Seq(Nat) /\ Len(date) <= 3
  /\ pc = "date" => Len(date) < 3 /\ regs = << date_fields[Len(date) + 1] >>

\* A call that has returned has read everything it was asked for.
Returned == stage = "idle" => Len(got) = Len(regs)

\* The fields d of a date were read between two moments, in order.
ReadBetween(d, lo, hi) ==
  \E k \in [1 .. Len(d) -> lo .. hi] :
    \A i \in 1 .. Len(d) :
      /\ d[i] = BCD_CONVERTER(calendar[k[i]][date_fields[i]])
      /\ \A j \in 1 .. i : k[j] <= k[i]

\* The moment at which the wait of the current field ended came after those
\* of the fields before it.
InOrder ==
  /\ seen <= now /\ ReadBetween(date, start, now)
  /\ pc = "date" /\ stage # "wait" => start <= seen /\ ReadBetween(date, start, seen)

FetchInv ==
  /\ IInv /\ Place /\ Returned /\ InOrder /\ NumbersShown /\ NamesPrinted

LEMMA BehindPrefix ==
  ASSUME NEW a \in Seq(Nat), NEW u \in Seq(Nat), Len(u) >= 1
  PROVE  /\ Len(a \o u) = Len(a) + Len(u)
         /\ SubSeq(a \o u, Len(a) + 1, Len(a \o u)) = u
<1> DEFINE t == a \o u
           w == SubSeq(t, Len(a) + 1, Len(t))
<1>1. /\ t \in Seq(Nat) /\ Len(t) = Len(a) + Len(u)
      /\ \A i \in 1 .. Len(a) + Len(u) : t[i] = IF i <= Len(a) THEN a[i] ELSE u[i - Len(a)]
  BY ConcatProperties
<1>2. Len(a) \in Nat /\ Len(u) \in Nat
  OBVIOUS
<1> HIDE DEF t
<1> DEFINE m == Len(a) + 1
           l == Len(t)
<1>3. m \in Int /\ l \in Int /\ l - m + 1 = Len(u) /\ m <= l
      /\ \A i \in m .. l : t[i] \in Nat
  BY <1>1, <1>2
<1> HIDE DEF m, l
<1>4. /\ w \in Seq(Nat) /\ Len(w) = IF m <= l THEN l - m + 1 ELSE 0
      /\ \A i \in 1 .. l - m + 1 : w[i] = t[m + i - 1]
  <2>1. w = SubSeq(t, m, l)
    BY DEF m, l
  <2> HIDE DEF w
  <2> QED
    BY <1>3, <2>1, SubSeqProperties
<1> HIDE DEF w
<1>5. Len(w) = Len(u)
  BY <1>3, <1>4
<1>6. ASSUME NEW i \in 1 .. Len(w) PROVE w[i] = u[i]
  <2>1. i \in 1 .. l - m + 1 /\ i \in Nat
    BY <1>2, <1>3, <1>5
  <2>2. w[i] = t[m + i - 1]
    BY <1>4, <2>1
  <2> DEFINE j == m + i - 1
  <2>3. j \in 1 .. Len(a) + Len(u) /\ ~ (j <= Len(a)) /\ j - Len(a) = i
    BY <1>2, <1>5, <2>1 DEF m
  <2> HIDE DEF j
  <2>4. t[j] = u[i]
    BY <1>1, <2>3
  <2> QED
    BY <2>2, <2>4 DEF j
<1>7. w = u
  BY <1>4, <1>5, <1>6, SeqEqual
<1> QED
  BY <1>1, <1>7 DEF w, t

\* Behind its prefix, the text of a number is its numeral.
LEMMA TextFacts ==
  ASSUME NEW r \in {10, 16}, NEW v \in Nat, NEW room, NEW n, n = number(v, r, room)
  PROVE  /\ SubSeq(n.text, Len(prefix(r)) + 1, Len(n.text)) = numeral(v, r)
         /\ Len(n.text) = (IF r = 16 THEN 2 ELSE 0) + Len(digits(v, r))
         /\ n.value = v /\ n.radix = r /\ n.room = room
<1> DEFINE a == prefix(r)
           u == numeral(v, r)
           t == n.text
<1>1. n.value = v /\ n.radix = r /\ n.room = room /\ t = a \o u
  BY DEF number, uitoa, numeral
<1>2. a \in Seq(Nat) /\ Len(a) = IF r = 16 THEN 2 ELSE 0
  <2>1. CASE r = 16
    BY <2>1 DEF prefix
  <2>2. CASE r # 16
    BY <2>2 DEF prefix
  <2> QED
    BY <2>1, <2>2
<1>3. u \in Seq(Nat) /\ Len(u) = Len(digits(v, r)) /\ Len(u) >= 1
  BY NumeralUnfold, DigitsSeq
<1> HIDE DEF a, u, t
<1>4. /\ Len(a \o u) = Len(a) + Len(u)
      /\ SubSeq(a \o u, Len(a) + 1, Len(a \o u)) = u
  BY <1>2, <1>3, BehindPrefix
<1>5. Len(t) = Len(a) + Len(u) /\ SubSeq(t, Len(a) + 1, Len(t)) = u
  BY <1>1, <1>4, Zenon
<1> QED
  BY <1>1, <1>2, <1>3, <1>5 DEF a, u, t

LEMMA ShownReadsBack ==
  ASSUME NumbersShown
  PROVE  NumbersReadBack
<1> SUFFICES ASSUME NEW k \in 1 .. Len(numbers)
             PROVE  LET n == numbers[k]
                        s == SubSeq(n.text, Len(prefix(n.radix)) + 1, Len(n.text))
                    IN value_of(s, n.radix) = n.value /\ (s[1] = 48 => s = << 48 >>)
  BY DEF NumbersReadBack
<1>1. numbers[k] \in Shown
  <2> HIDE DEF Shown
  <2> QED
    BY DEF NumbersShown
<1>2. PICK r \in {10, 16}, v \in Nat : \E x : numbers[k] = number(v, r, x)
  BY <1>1, SMT DEF Shown
<1> PICK room : numbers[k] = number(v, r, room)
  BY <1>2
<1> DEFINE n == numbers[k]
<1>3. /\ SubSeq(n.text, Len(prefix(r)) + 1, Len(n.text)) = numeral(v, r)
      /\ n.value = v /\ n.radix = r
  BY TextFacts
<1>4. /\ value_of(numeral(v, r), r) = v
      /\ numeral(v, r)[1] = 48 => numeral(v, r) = << 48 >>
  BY NumeralMeans
<1> QED
  BY <1>3, <1>4, Zenon

LEMMA DigitsLen ==
  ASSUME NEW v \in Nat
  PROVE  Len(digits(v, 10)) \in Nat /\ Len(digits(v, 16)) \in Nat
<1>1. digits(v, 10) \in Seq(Nat) /\ digits(v, 16) \in Seq(Nat)
  BY DigitsSeq
<1> QED
  BY <1>1

LEMMA ShownFits ==
  ASSUME NumbersShown
  PROVE  NumbersFit
<1> SUFFICES ASSUME NEW k \in 1 .. Len(numbers),
                    numbers[k].room = TIMER_BUF => numbers[k].value < 10000000
             PROVE  Len(numbers[k].text) + 1 <= numbers[k].room
  BY SMT DEF NumbersFit
<1>1. numbers[k] \in Shown
  <2> HIDE DEF Shown
  <2> QED
    BY SMT DEF NumbersShown
<1>2. CASE \E v \in Nat : numbers[k] = number(v, 10, TIMER_BUF)
  <2>1. PICK v \in Nat : numbers[k] = number(v, 10, TIMER_BUF)
    BY <1>2, SMT
  <2> DEFINE n == numbers[k]
  <2>2. Len(n.text) = 0 + Len(digits(v, 10)) /\ n.value = v /\ n.room = TIMER_BUF
    BY <2>1, TextFacts, SMT
  <2>3. Len(digits(v, 10)) <= 7
    <3>1. v < 10000000
      <4> HIDE DEF n
      <4> QED
        BY <2>1, <2>2, SMT DEF n
    <3> QED
      BY <3>1, DigitsShort, SMT
  <2> HIDE DEF n
  <2>4. Len(n.text) + 1 <= n.room
    BY <2>2, <2>3, DigitsLen, SMT DEF TIMER_BUF
  <2> QED
    BY <2>4, SMT DEF n
<1>3. CASE \E v \in Nat : v < 4294967296 /\ numbers[k] = number(v, 16, PRINTF_BUF)
  <2>1. PICK v \in Nat : v < 4294967296 /\ numbers[k] = number(v, 16, PRINTF_BUF)
    BY <1>3, SMT
  <2> DEFINE n == numbers[k]
  <2>2. Len(n.text) = 2 + Len(digits(v, 16)) /\ n.room = PRINTF_BUF
    BY <2>1, TextFacts, SMT
  <2>3. Len(digits(v, 16)) <= 8
    <3>1. v < 4294967296
      BY <2>1, SMT
    <3> HIDE DEF n
    <3> QED
      BY <3>1, DigitsShort, SMT
  <2> HIDE DEF n
  <2>4. Len(n.text) + 1 <= n.room
    BY <2>2, <2>3, DigitsLen, SMT DEF PRINTF_BUF
  <2> QED
    BY <2>4, SMT DEF n
<1>4. CASE \E v \in Nat : v < 1000 /\ numbers[k] = number(v, 10, PRINTF_BUF)
  <2>1. PICK v \in Nat : v < 1000 /\ numbers[k] = number(v, 10, PRINTF_BUF)
    BY <1>4, SMT
  <2> DEFINE n == numbers[k]
  <2>2. Len(n.text) = 0 + Len(digits(v, 10)) /\ n.room = PRINTF_BUF
    BY <2>1, TextFacts, SMT
  <2>3. Len(digits(v, 10)) <= 3
    <3>1. v < 1000
      BY <2>1, SMT
    <3> HIDE DEF n
    <3> QED
      BY <3>1, DigitsShort, SMT
  <2> HIDE DEF n
  <2>4. Len(n.text) + 1 <= n.room
    BY <2>2, <2>3, DigitsLen, SMT DEF PRINTF_BUF
  <2> QED
    BY <2>4, SMT DEF n
<1> QED
  BY <1>1, <1>2, <1>3, <1>4, SMT DEF Shown

-----------------------------------------------------------------------------
(***************************************************************************)
(* The commands                                                            *)
(***************************************************************************)
LEMMA DateFields ==
  /\ Len(date_fields) = 3 /\ date_fields[1] = TIME_R_DAY
  /\ \A i \in 1 .. 3 : date_fields[i] \in Registers
BY DEF date_fields, Registers, TIME_R_DAY, TIME_R_MONTH, TIME_R_YEAR

\* What a command does to the clock's reader is what module Clock allows.
LEMMA ClockSteps ==
  ASSUME Place, [Next]_vars
  PROVE  [ClockNext]_clock_vars
<1>1. CASE timer_dump \/ register_dump \/ print_type \/ print_family \/ time_read
  BY <1>1 DEF timer_dump, register_dump, print_type, print_family, time_read,
              print_string
<1>2. CASE system_fetcher
  BY <1>2 DEF system_fetcher, ClockNext, Registers, TIME_R_DAY
<1>3. CASE read_time
  BY <1>3 DEF read_time, ClockNext
<1>4. CASE get_date
  <2> DEFINE m == Len(date') + 1
  <2>1. /\ date' = Append(date, got[1]) /\ date \in Seq(Nat)
        /\ UNCHANGED clock_vars \/ (Len(date') < 3 /\ get_time(date_fields[m]))
    BY <1>4, DateFields DEF get_date, Place
  <2>2. Len(date') \in Nat
    BY <2>1
  <2> HIDE DEF m
  <2>3. Len(date') < 3 => m \in 1 .. 3
    BY <2>2 DEF m
  <2> QED
    BY <2>1, <2>3, DateFields DEF ClockNext
<1>5. CASE ReaderStep \/ TickStep
  BY <1>5 DEF ReaderStep, TickStep, ClockNext
<1>6. CASE UNCHANGED vars
  BY <1>6 DEF vars
<1> QED
  BY <1>1, <1>2, <1>3, <1>4, <1>5, <1>6 DEF Next, Start, Command

\* A field that was read is a byte's two digits.
LEMMA FieldRead ==
  ASSUME IInv, Place, Returned, pc = "date", stage = "idle"
  PROVE  /\ Len(got) = 1 /\ got[1] \in Nat /\ got[1] < 1000
         /\ Len(date) + 1 \in 1 .. 3
         /\ got[1] = BCD_CONVERTER(calendar[seen][date_fields[Len(date) + 1]])
<1>1. /\ got \in Seq(Nat) /\ seen \in 1 .. Len(calendar) /\ CallAtomic
      /\ date \in Seq(Nat) /\ Len(date) < 3 /\ regs = << date_fields[Len(date) + 1] >>
  BY DEF IInv, ClockTypeOK, Place
<1> DEFINE f == date_fields[Len(date) + 1]
<1> DEFINE l == Len(date)
<1>2. l + 1 \in 1 .. 3
  <2>1. l \in Nat /\ l < 3
    BY <1>1
  <2> HIDE DEF l
  <2>2. l = 0 \/ l = 1 \/ l = 2
    BY <2>1
  <2> QED
    BY <2>2
<1>3. f \in Registers
  BY <1>2, DateFields
<1> HIDE DEF f
<1>4. regs = << f >> /\ Len(regs) = 1 /\ regs[1] = f
  BY <1>1 DEF f
<1>5. Len(got) = 1
  BY <1>4 DEF Returned
<1>6. got[1] \in Nat /\ got[1] = BCD_CONVERTER(calendar[seen][f])
  <2>1. 1 \in 1 .. Len(got)
    BY <1>5
  <2>2. got[1] \in Nat
    BY <1>1, <2>1
  <2>3. got[1] = BCD_CONVERTER(calendar[seen][regs[1]])
    BY <1>1, <2>1, Zenon DEF CallAtomic
  <2> QED
    BY <1>4, <2>2, <2>3
<1>7. calendar[seen][f] \in Nat /\ calendar[seen][f] < 256
  <2> DEFINE S == [Registers -> 0 .. 255]
  <2>1. calendar \in Seq(S)
    BY ClockAssumption
  <2> HIDE DEF S
  <2>2. calendar[seen] \in S
    BY <1>1, <2>1
  <2>3. calendar[seen][f] \in 0 .. 255
    BY <1>3, <2>2 DEF S
  <2> QED
    BY <2>3
<1>8. ASSUME NEW n \in Nat, n < 256 PROVE BCD_CONVERTER(n) < 1000
  BY <1>8 DEF BCD_CONVERTER, tens, units
<1>9. got[1] < 1000
  BY <1>6, <1>7, <1>8
<1> QED
  BY <1>2, <1>5, <1>6, <1>9 DEF f

LEMMA NumbersStep == FetchInv /\ [Next]_vars => NumbersShown'
<1> SUFFICES ASSUME FetchInv, [Next]_vars PROVE NumbersShown'
  OBVIOUS
<1> DEFINE N == Shown
<1>1. numbers \in Seq(N)
  BY DEF FetchInv, NumbersShown
<1>2. ASSUME numbers' \in Seq(N) PROVE NumbersShown'
  BY <1>2 DEF NumbersShown, Shown, number, uitoa, digits, prefix, digit_char
<1>3. CASE timer_dump
  <2>1. PICK tick \in ticks : numbers' = << number(tick, 10, TIMER_BUF) >>
    BY <1>3 DEF timer_dump
  <2>2. tick \in Nat
    BY FetchAssumption
  <2>3. number(tick, 10, TIMER_BUF) \in N
    BY <2>2, SMT DEF Shown
  <2> HIDE DEF N
  <2> QED
    BY <1>2, <2>1, <2>3
<1>4. CASE register_dump
  <2>1. PICK r \in register_values :
          numbers' = [k \in 1 .. 8 |-> number(r[k], 16, PRINTF_BUF)]
    BY <1>4 DEF register_dump
  <2>2. ASSUME NEW k \in 1 .. 8 PROVE number(r[k], 16, PRINTF_BUF) \in N
    <3>1. r[k] \in Nat /\ r[k] \div 65536 < 65536
      BY FetchAssumption
    <3>2. r[k] < 4294967296
      BY <3>1, SMT
    <3> QED
      BY <3>1, <3>2, SMT DEF Shown
  <2> HIDE DEF N
  <2>3. numbers' \in [1 .. 8 -> N]
    BY <2>1, <2>2
  <2>4. 8 \in Nat
    OBVIOUS
  <2> DEFINE e == 8
  <2>5. e \in Nat /\ numbers' \in [1 .. e -> N]
    BY <2>3, <2>4
  <2> HIDE DEF e
  <2>6. numbers' \in Seq(N)
    BY <2>5, SeqDef
  <2> QED
    BY <1>2, <2>6
<1>5. CASE get_date
  <2>1. /\ pc = "date" /\ stage = "idle"
        /\ numbers' = Append(numbers, number(got[1], 10, PRINTF_BUF))
    BY <1>5 DEF get_date
  <2>2. got[1] \in Nat /\ got[1] < 1000
    BY <2>1, FieldRead DEF FetchInv
  <2>3. number(got[1], 10, PRINTF_BUF) \in N
    BY <2>2, SMT DEF Shown
  <2> HIDE DEF N
  <2> QED
    BY <1>1, <1>2, <2>1, <2>3
<1>6. CASE system_fetcher
  <2>1. numbers' = << >>
    BY <1>6 DEF system_fetcher
  <2> HIDE DEF N
  <2> QED
    BY <1>2, <2>1
<1>7. ASSUME UNCHANGED numbers PROVE NumbersShown'
  <2> HIDE DEF N
  <2> QED
    BY <1>1, <1>2, <1>7
<1>8. CASE print_type \/ print_family \/ read_time \/ time_read
  BY <1>7, <1>8 DEF print_type, print_family, read_time, time_read, print_string
<1>9. CASE ReaderStep \/ TickStep \/ UNCHANGED vars
  BY <1>7, <1>9 DEF ReaderStep, TickStep, vars, command
<1> QED
  BY <1>3, <1>4, <1>5, <1>6, <1>8, <1>9 DEF Next, Start, Command

\* get_cpuid sets both pointers for the CPUs that it knows.
LEMMA NamedCpu ==
  ASSUME Place, named(cpu)
  PROVE  get_cpu_type \in Names /\ get_cpu_family \in Names /\ UNSET \notin Names
<1> DEFINE f == (cpu.eax \div 256) % 16
           y == (cpu.eax \div 4096) % 16
<1>1. cpu.eax \in Nat /\ cpu.brand = INTEL /\ y < 4 /\ f \in DOMAIN families
  BY FetchAssumption DEF Place, named
<1>2. y \in Nat
  BY <1>1
<1>3. detect_cpu(cpu) = [brand |-> INTEL, family |-> f, type |-> y]
  BY <1>1 DEF detect_cpu, intel_cpu
<1> HIDE DEF f, y
<1>4. get_cpuid(detect_cpu(cpu)) = [type |-> types[y + 1], family |-> families[f]]
  BY <1>1, <1>3 DEF get_cpuid, INTEL, AMD
<1>5. types[y + 1] \in Names
  <2>1. y = 0 \/ y = 1 \/ y = 2 \/ y = 3
    BY <1>1, <1>2
  <2>2. types[0 + 1] \in Names /\ types[1 + 1] \in Names
    BY DEF types, Names
  <2>3. types[2 + 1] \in Names /\ types[3 + 1] \in Names
    BY DEF types, Names
  <2> QED
    BY <2>1, <2>2, <2>3, Zenon
<1>6. families[f] \in Names
  <2>1. f \in {3, 4, 5, 6, 15}
    BY <1>1 DEF families
  <2> QED
    BY <2>1 DEF families, Names
<1>7. UNSET \notin Names
  BY DEF UNSET, Names
<1> QED
  BY <1>4, <1>5, <1>6, <1>7 DEF get_cpu_type, get_cpu_family

LEMMA NamesStep == FetchInv /\ [Next]_vars => NamesPrinted'
<1> SUFFICES ASSUME FetchInv, [Next]_vars PROVE NamesPrinted'
  OBVIOUS
<1>1. cpu' = cpu
  BY DEF Next, Start, Command, timer_dump, register_dump, system_fetcher, read_time,
         get_date, print_type, print_family, time_read, print_string, ReaderStep,
         TickStep, vars
<1> SUFFICES ASSUME named(cpu) PROVE pc' # "fault" /\ words' \in Seq(Names)
  BY <1>1 DEF NamesPrinted, named, families
<1>2. Place /\ pc # "fault" /\ words \in Seq(Names)
  BY DEF FetchInv, NamesPrinted
<1>3. get_cpu_type \in Names /\ get_cpu_family \in Names /\ UNSET \notin Names
  BY <1>2, NamedCpu
<1> HIDE DEF Names
<1>4. CASE timer_dump \/ register_dump \/ system_fetcher
  <2>1. words' = << >> /\ pc' # "fault"
    BY <1>2, <1>4 DEF timer_dump, register_dump, system_fetcher
  <2> QED
    BY <2>1
<1>5. CASE get_date \/ read_time \/ time_read
  BY <1>2, <1>5 DEF get_date, read_time, time_read
<1>6. CASE print_type
  <2>1. pc' = "family" /\ words' = Append(words, get_cpu_type)
    BY <1>3, <1>6 DEF print_type, print_string
  <2> QED
    BY <1>2, <1>3, <2>1
<1>7. CASE print_family
  <2>1. pc' = "prompt" /\ words' = Append(words, get_cpu_family)
    BY <1>3, <1>7 DEF print_family, print_string
  <2> QED
    BY <1>2, <1>3, <2>1
<1>8. CASE ReaderStep \/ TickStep \/ UNCHANGED vars
  BY <1>2, <1>8 DEF ReaderStep, TickStep, vars, command
<1> QED
  BY <1>4, <1>5, <1>6, <1>7, <1>8 DEF Next, Start, Command


-----------------------------------------------------------------------------
(***************************************************************************)
(* Where get_date is, and when its fields were read                        *)
(***************************************************************************)

\* Moments only pass.
LEMMA NowGrows ==
  ASSUME IInv, [ClockNext]_clock_vars
  PROVE  now \in Nat /\ now' \in Nat /\ now <= now'
<1>1. now \in Nat
  BY DEF IInv, ClockTypeOK
<1>2. now' = now \/ now' = now + 1
  BY DEF ClockNext, Tick, UpdateAnnounced, Update, Reader, wait_ends, read_first,
         read_second, cmos_reader, get_time, calling, clock_vars
<1> QED
  BY <1>1, <1>2

LEMMA ReadEarlier ==
  ASSUME NEW d, NEW lo \in Nat, NEW mid \in Nat, NEW hi \in Nat, mid <= hi,
         ReadBetween(d, lo, mid)
  PROVE  ReadBetween(d, lo, hi)
<1>1. PICK k \in [1 .. Len(d) -> lo .. mid] :
        \A i \in 1 .. Len(d) :
          /\ d[i] = BCD_CONVERTER(calendar[k[i]][date_fields[i]])
          /\ \A j \in 1 .. i : k[j] <= k[i]
  BY DEF ReadBetween
<1>2. k \in [1 .. Len(d) -> lo .. hi]
  BY <1>1
<1> QED
  BY <1>1, <1>2, Zenon DEF ReadBetween

LEMMA NothingToRead ==
  ASSUME NEW lo, NEW hi
  PROVE  ReadBetween(<< >>, lo, hi)
<1>1. 1 .. Len(<< >>) = {}
  OBVIOUS
<1>2. [i \in {} |-> lo] \in [{} -> lo .. hi]
  OBVIOUS
<1> QED
  BY <1>1, <1>2, Zenon DEF ReadBetween

\* One field more, read at the last moment.
LEMMA ReadOneMore ==
  ASSUME NEW d \in Seq(Nat), NEW x \in Nat, NEW lo \in Nat, NEW hi \in Nat, lo <= hi,
         ReadBetween(d, lo, hi),
         x = BCD_CONVERTER(calendar[hi][date_fields[Len(d) + 1]])
  PROVE  ReadBetween(Append(d, x), lo, hi)
<1> DEFINE l == Len(d)
           e == Append(d, x)
           m == l + 1
<1>1. PICK k \in [1 .. l -> lo .. hi] :
        \A i \in 1 .. l :
          /\ d[i] = BCD_CONVERTER(calendar[k[i]][date_fields[i]])
          /\ \A j \in 1 .. i : k[j] <= k[i]
  BY DEF ReadBetween
<1> DEFINE K == [i \in 1 .. m |-> IF i = m THEN hi ELSE k[i]]
<1>2. l \in Nat /\ Len(e) = m
  OBVIOUS
<1>3. e[m] = x /\ \A i \in 1 .. l : e[i] = d[i]
  OBVIOUS
<1> HIDE DEF l, e
<1>4. /\ m \in 1 .. m /\ \A i \in 1 .. l : i \in 1 .. m /\ i # m
      /\ \A i \in 1 .. m : i = m \/ i \in 1 .. l
  BY <1>2
<1>5. K[m] = hi /\ \A i \in 1 .. l : K[i] = k[i]
  BY <1>4
<1>6. K \in [1 .. m -> lo .. hi]
  BY <1>1, <1>4
<1>7. \A i \in 1 .. m : e[i] = BCD_CONVERTER(calendar[K[i]][date_fields[i]])
  <2> HIDE DEF K
  <2>1. e[m] = BCD_CONVERTER(calendar[K[m]][date_fields[m]])
    BY <1>3, <1>5, Zenon DEF l
  <2>2. \A i \in 1 .. l : e[i] = BCD_CONVERTER(calendar[K[i]][date_fields[i]])
    BY <1>1, <1>3, <1>5, Zenon
  <2> QED
    BY <1>4, <2>1, <2>2, Zenon
<1>8. ASSUME NEW i \in 1 .. m, NEW j \in 1 .. i PROVE K[j] <= K[i]
  <2>1. CASE i = m
    <3>1. j \in 1 .. m
      BY <1>2, <2>1
    <3> QED
      BY <1>5, <1>6, <2>1, <3>1
  <2>2. CASE i \in 1 .. l
    <3>1. j \in 1 .. l
      BY <1>2, <2>2
    <3> HIDE DEF K
    <3> QED
      BY <1>1, <1>5, <2>2, <3>1, Zenon
  <2> QED
    BY <1>4, <2>1, <2>2
<1> HIDE DEF K
<1>9. ReadBetween(e, lo, hi)
  BY <1>2, <1>6, <1>7, <1>8, Zenon DEF ReadBetween
<1> QED
  BY <1>9 DEF e

LEMMA PlaceStep ==
  ASSUME FetchInv, [Next]_vars
  PROVE  Place'
<1>1. Place /\ IInv /\ Returned
  BY DEF FetchInv
<1>2. now \in Nat /\ now' \in Nat /\ now <= now'
  BY <1>1, ClockSteps, NowGrows
<1>3. /\ cpu \in cpus /\ start \in Nat /\ 1 <= start /\ start <= now /\ 1 <= now
      /\ date \in Seq(Nat) /\ Len(date) <= 3
  BY <1>1, <1>2 DEF Place
<1>4. << >> \in Seq(Nat) /\ Len(<< >>) = 0
  OBVIOUS
<1>5. CASE timer_dump \/ register_dump
  <2>1. /\ pc' = "prompt" /\ date' = << >> /\ UNCHANGED <<cpu, start, now>>
    BY <1>5 DEF timer_dump, register_dump, clock_vars
  <2>2. date' \in Seq(Nat) /\ Len(date') = 0
    BY <2>1
  <2> QED
    BY <1>2, <1>3, <2>1, <2>2 DEF Place
<1>6. CASE system_fetcher
  <2>1. /\ pc' = "date" /\ start' = now /\ date' = << >> /\ cpu' = cpu
        /\ regs' = << TIME_R_DAY >> /\ now' = now
    BY <1>6 DEF system_fetcher, get_time, calling
  <2>2. Len(date') = 0 /\ date' \in Seq(Nat) /\ date_fields[0 + 1] = TIME_R_DAY
    BY <2>1, DateFields
  <2> QED
    BY <1>2, <1>3, <2>1, <2>2 DEF Place
<1>7. CASE get_date
  <2>1. /\ pc = "date" /\ stage = "idle" /\ cpu' = cpu /\ start' = start
        /\ date' = Append(date, got[1])
    BY <1>7 DEF get_date
  <2>2. got[1] \in Nat /\ Len(date) < 3
    BY <1>1, <2>1, FieldRead DEF Place
  <2>3. date' \in Seq(Nat) /\ Len(date') <= 3
    BY <1>3, <2>1, <2>2
  <2>4. \/ pc' = "type"
        \/ /\ pc' = "date" /\ Len(date') < 3
           /\ regs' = << date_fields[Len(date') + 1] >>
    BY <1>7, <2>1, DateFields DEF get_date, get_time, calling
  <2> QED
    BY <1>2, <1>3, <2>1, <2>3, <2>4 DEF Place
<1>8. CASE print_type \/ print_family \/ time_read
  BY <1>1, <1>2, <1>3, <1>8
  DEF print_type, print_family, time_read, print_string, Place, clock_vars
<1>9. CASE read_time
  BY <1>1, <1>2, <1>3, <1>9 DEF read_time, Place, cmos_reader, calling
<1>10. ASSUME UNCHANGED <<cpu, command, regs>> PROVE Place'
  BY <1>1, <1>2, <1>3, <1>10 DEF Place, command
<1>11. CASE ReaderStep
  BY <1>10, <1>11 DEF ReaderStep, Reader, wait_ends, read_first, read_second
<1>12. CASE TickStep
  BY <1>10, <1>12 DEF TickStep, Tick, UpdateAnnounced, Update, reader
<1>13. CASE UNCHANGED vars
  BY <1>10, <1>13 DEF vars, clock_vars, reader
<1> QED
  BY <1>5, <1>6, <1>7, <1>8, <1>9, <1>11, <1>12, <1>13 DEF Next, Start, Command

LEMMA ReturnedStep ==
  ASSUME FetchInv, [Next]_vars
  PROVE  Returned'
<1>1. IInv /\ Returned /\ Place
  BY DEF FetchInv
<1>2. ASSUME UNCHANGED reader PROVE Returned'
  BY <1>1, <1>2 DEF Returned, reader
<1>3. ASSUME stage' # "idle" PROVE Returned'
  BY <1>3 DEF Returned
<1>4. CASE read_second
  <2>1. /\ stage = "second" /\ regs' = regs
        /\ stage' = "idle" => ~(Len(got') < Len(regs))
    BY <1>4 DEF read_second
  <2>2. \E x : got' = Append(got, x)
    BY <1>4 DEF read_second
  <2>3. Len(got) < Len(regs) /\ Len(got) \in Nat /\ Len(regs) \in Nat
    BY <1>1, <2>1 DEF IInv, ClockTypeOK
  <2>4. ClockTypeOK'
    BY <1>1, ClockSteps, StepPreserves DEF IInv
  <2>5. Len(got') <= Len(regs') /\ Len(got') \in Nat
    BY <2>4 DEF ClockTypeOK
  <2> QED
    BY <2>1, <2>3, <2>5 DEF Returned
<1>5. CASE wait_ends \/ read_first
  BY <1>3, <1>5 DEF wait_ends, read_first
<1>6. CASE system_fetcher \/ read_time
  BY <1>3, <1>6 DEF system_fetcher, read_time, get_time, cmos_reader, calling
<1>7. CASE get_date
  BY <1>2, <1>3, <1>7 DEF get_date, get_time, calling, clock_vars
<1>8. CASE timer_dump \/ register_dump \/ print_type \/ print_family \/ time_read
  BY <1>2, <1>8 DEF timer_dump, register_dump, print_type, print_family, time_read,
                    print_string, clock_vars
<1>9. CASE TickStep \/ UNCHANGED vars
  BY <1>2, <1>9 DEF TickStep, Tick, UpdateAnnounced, Update, vars, clock_vars
<1> QED
  BY <1>4, <1>5, <1>6, <1>7, <1>8, <1>9 DEF Next, Start, Command, ReaderStep, Reader

LEMMA InOrderStep ==
  ASSUME FetchInv, [Next]_vars
  PROVE  InOrder'
<1>1. Place /\ IInv /\ Returned /\ InOrder
  BY DEF FetchInv
<1>2. now \in Nat /\ now' \in Nat /\ now <= now'
  BY <1>1, ClockSteps, NowGrows
<1>3. /\ seen \in Nat /\ seen <= now /\ start \in Nat /\ start <= now
      /\ ReadBetween(date, start, now)
      /\ pc = "date" /\ stage # "wait" =>
           start <= seen /\ ReadBetween(date, start, seen)
  BY <1>1, <1>2 DEF Place, InOrder, IInv, ClockTypeOK
<1>4. ReadBetween(date, start, now')
  BY <1>2, <1>3, ReadEarlier
<1>5. ASSUME UNCHANGED <<date, start, seen>>, pc' = "date" /\ stage' # "wait" =>
               pc = "date" /\ stage # "wait"
      PROVE  InOrder'
  BY <1>2, <1>3, <1>4, <1>5 DEF InOrder
<1>6. CASE timer_dump \/ register_dump
  <2>1. pc' = "prompt" /\ date' = << >> /\ UNCHANGED <<start, seen, now>>
    BY <1>6 DEF timer_dump, register_dump, clock_vars, reader
  <2> QED
    BY <1>3, <2>1, NothingToRead DEF InOrder
<1>7. CASE system_fetcher
  <2>1. stage' = "wait" /\ date' = << >> /\ UNCHANGED <<seen, now>>
    BY <1>7 DEF system_fetcher, get_time, calling
  <2> QED
    BY <1>3, <2>1, NothingToRead DEF InOrder
<1>8. CASE get_date
  <2>1. /\ pc = "date" /\ stage = "idle" /\ date' = Append(date, got[1])
        /\ UNCHANGED <<start, seen, now>>
        /\ pc' = "type" \/ stage' = "wait"
    BY <1>8 DEF get_date, get_time, calling, clock_vars, reader
  <2>2. /\ got[1] \in Nat
        /\ got[1] = BCD_CONVERTER(calendar[seen][date_fields[Len(date) + 1]])
    BY <1>1, <2>1, FieldRead
  <2>3. date \in Seq(Nat)
    BY <1>1 DEF Place
  <2>4. start <= seen /\ ReadBetween(date, start, seen)
    BY <1>3, <2>1
  <2>5. ReadBetween(Append(date, got[1]), start, seen)
    BY <1>3, <2>2, <2>3, <2>4, ReadOneMore
  <2>6. ReadBetween(Append(date, got[1]), start, now)
    BY <1>2, <1>3, <2>5, ReadEarlier
  <2> QED
    BY <1>3, <2>1, <2>6 DEF InOrder
<1>9. CASE print_type \/ print_family \/ time_read \/ read_time
  <2>1. pc' # "date" /\ UNCHANGED <<date, start, seen>>
    BY <1>9 DEF print_type, print_family, time_read, read_time, print_string,
                cmos_reader, calling, clock_vars, reader
  <2> QED
    BY <1>5, <2>1
<1>10. CASE ReaderStep
  <2>1. UNCHANGED <<date, start, pc, now>>
    BY <1>10 DEF ReaderStep, Reader, wait_ends, read_first, read_second, command
  <2>2. CASE wait_ends
    <3>1. seen' = now
      BY <2>2 DEF wait_ends
    <3> QED
      BY <1>2, <1>3, <2>1, <3>1 DEF InOrder
  <2>3. CASE read_first \/ read_second
    <3>1. seen' = seen /\ stage # "wait"
      BY <2>3 DEF read_first, read_second
    <3> QED
      BY <1>5, <2>1, <3>1
  <2> QED
    BY <1>10, <2>2, <2>3 DEF ReaderStep, Reader
<1>11. CASE TickStep \/ UNCHANGED vars
  BY <1>5, <1>11 DEF TickStep, Tick, UpdateAnnounced, Update, reader, command, vars,
                     clock_vars
<1> QED
  BY <1>6, <1>7, <1>8, <1>9, <1>10, <1>11 DEF Next, Start, Command

-----------------------------------------------------------------------------
(***************************************************************************)
(* The invariant and what follows from it                                  *)
(***************************************************************************)
LEMMA FetchInit == Init => FetchInv
<1> SUFFICES ASSUME Init PROVE FetchInv
  OBVIOUS
<1>1. /\ ClockInit /\ cpu \in cpus /\ pc = "prompt" /\ start = 1
      /\ date = << >> /\ numbers = << >> /\ words = << >>
  BY DEF Init
<1>2. IInv
  BY <1>1, InitEstablishes
<1>3. now = 1 /\ seen = 1 /\ got = << >> /\ regs = << >>
  BY <1>1 DEF ClockInit
<1>4. Place
  <2>1. Len(date) = 0 /\ date \in Seq(Nat) /\ start \in 1 .. now
    BY <1>1, <1>3
  <2> QED
    BY <1>1, <2>1 DEF Place
<1>5. Returned
  BY <1>3 DEF Returned
<1>6. InOrder
  BY <1>1, <1>3, NothingToRead DEF InOrder
<1>7. NumbersShown
  <2> HIDE DEF Shown
  <2> QED
    BY <1>1 DEF NumbersShown
<1>8. NamesPrinted
  <2> HIDE DEF Names
  <2> QED
    BY <1>1 DEF NamesPrinted
<1> QED
  BY <1>2, <1>4, <1>5, <1>6, <1>7, <1>8 DEF FetchInv

LEMMA FetchStep == FetchInv /\ [Next]_vars => FetchInv'
<1> SUFFICES ASSUME FetchInv, [Next]_vars PROVE FetchInv'
  OBVIOUS
<1>1. IInv'
  BY ClockSteps, StepPreserves DEF FetchInv
<1> QED
  BY <1>1, PlaceStep, ReturnedStep, InOrderStep, NumbersStep, NamesStep, Zenon
  DEF FetchInv

LEMMA FetchInvariance == Spec => []FetchInv
<1> QED
  BY FetchInit, FetchStep, PTL DEF Spec

\* A command of the shell is in one place, the clock's reader keeps to its
\* registers, and get_date (fetch.c) prints at most three fields: for every
\* calendar, CPU, tick and register contents.
THEOREM TypeCorrect == Spec => []TypeOK
<1>1. FetchInv => TypeOK
  <2> SUFFICES ASSUME FetchInv PROVE TypeOK
    OBVIOUS
  <2> QED
    BY DateFields DEF FetchInv, IInv, Place, TypeOK
<1> QED
  BY <1>1, FetchInvariance, PTL

\* Every field of the date that fetch prints was right at a moment between the
\* command's start and now, and the fields were read in the order of time
\* (get_date in fetch.c, get_time in time.c).
THEOREM FieldsInOrder == Spec => []DateFieldsInOrder
<1>1. FetchInv => DateFieldsInOrder
  BY Zenon DEF FetchInv, InOrder, ReadBetween, DateFieldsInOrder
<1> QED
  BY <1>1, FetchInvariance, PTL

\* Whatever fetch, timer and regs print, the characters that uitoa (string.c)
\* left in the buffer mean the number and have no leading zero: for all
\* ticks and registers, of which TLC tries a few.
THEOREM PrintedNumbersReadBack == Spec => []NumbersReadBack
<1>1. FetchInv => NumbersReadBack
  BY ShownReadsBack DEF FetchInv
<1> QED
  BY <1>1, FetchInvariance, PTL

\* The buffers of printf (stdio.c) and timer_dump (shell.c) hold every number
\* that uitoa is asked to put there, timer_dump's up to ten million ticks.
THEOREM PrintedNumbersFit == Spec => []NumbersFit
<1>1. FetchInv => NumbersFit
  BY ShownFits DEF FetchInv
<1> QED
  BY <1>1, FetchInvariance, PTL

\* On the Intel CPUs that cpuid.c has names for, fetch prints strings and
\* never a pointer that nothing set.
THEOREM NamedCpusPrinted == Spec => []NamedCpuPrinted
<1>1. FetchInv => NamedCpuPrinted
  <2> SUFFICES ASSUME FetchInv, named(cpu)
               PROVE  pc # "fault" /\ \A k \in 1 .. Len(words) : words[k] # UNSET
    BY DEF NamedCpuPrinted
  <2>1. pc # "fault" /\ words \in Seq(Names)
    BY DEF FetchInv, NamesPrinted
  <2>2. UNSET \notin Names
    BY NamedCpu DEF FetchInv
  <2> HIDE DEF Names
  <2> QED
    BY <2>1, <2>2
<1> QED
  BY <1>1, FetchInvariance, PTL

\* The calls of get_time that fetch makes return what the clock showed at one
\* moment: the commands use module Clock as its own specification allows.
THEOREM CallsStayAtomic == Spec => []CallAtomic
<1>1. FetchInv => CallAtomic
  BY DEF FetchInv, IInv
<1> QED
  BY <1>1, FetchInvariance, PTL
=============================================================================
