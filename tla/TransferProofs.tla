--------------------------- MODULE TransferProofs ---------------------------
(***************************************************************************)
(* For every file, every way to cut it, every order in which the slices    *)
(* come and every division of the rows into batches: the header that was   *)
(* meant is read exactly when nothing of it wrapped or was cut off, the    *)
(* transfer of what the program promises to copy is a copy, and the result *)
(* of getValidResult is that of --verify.                                  *)
(*                                                                         *)
(* The first half is about the text of the header alone.  It needs         *)
(* induction over numbers (Digits and Value are recursive), which is       *)
(* stated here with a set in the place of a predicate.                     *)
(***************************************************************************)
EXTENDS Validation, FileSliceProofs, FiniteSetTheorems, WellFoundedInduction

(* Every set of numbers that is not empty has a least element. *)
LEMMA LeastNumber ==
  ASSUME NEW T \in SUBSET Nat, T # {}
  PROVE  \E x \in T : \A y \in T : x <= y
  <1> DEFINE R == OpToRel(<, Nat)
  <1>1. IsWellFoundedOn(R, Nat)
    BY NatLessThanWellFounded
  <1>2. \A x, y \in Nat : x < y => <<x, y>> \in R
    BY DEF OpToRel
  <1> HIDE DEF R
  <1>3. PICK x \in T : \A y \in T : ~(<<y, x>> \in R)
    BY <1>1, WFMin
  <1>4. \A y \in T : ~(y < x)
    BY <1>2, <1>3
  <1>5. \A y \in T : x <= y
    BY <1>4
  <1> QED
    BY <1>5

(* Induction, with a set instead of a predicate. *)
LEMMA Induction ==
  ASSUME NEW T, \A n \in Nat : (\A m \in 0 .. n - 1 : m \in T) => n \in T
  PROVE  \A n \in Nat : n \in T
  <1> SUFFICES ASSUME Nat \ T # {}
               PROVE  FALSE
    OBVIOUS
  <1>1. PICK x \in Nat \ T : \A y \in Nat \ T : x <= y
    BY LeastNumber
  <1>2. \A m \in 0 .. x - 1 : m \in T
    BY <1>1
  <1> QED
    BY <1>1, <1>2
-----------------------------------------------------------------------------
(* Digits: what follows from its recursive definition. *)

Quot(n) == n \div Base
Rem(n)  == n % Base

(* A numeral system has at least two digits. *)
LEMMA BaseFacts == Base \in Nat /\ Base > 1
  BY HeaderAssumption

(* Taking the last digit off a number. *)
LEMMA DivFacts ==
  ASSUME NEW n \in Nat
  PROVE  /\ Quot(n) \in Nat /\ Rem(n) \in 0 .. Base - 1
         /\ n = Quot(n) * Base + Rem(n)
         /\ n >= Base => Quot(n) < n /\ Quot(n) > 0
  <1> DEFINE q == Quot(n)
             r == Rem(n)
  <1>1. q \in Nat /\ r \in 0 .. Base - 1 /\ n = q * Base + r
    BY BaseFacts DEF Quot, Rem
  <1> HIDE DEF q, r
  <1>2. ASSUME n >= Base
        PROVE  q < n /\ q > 0
    <2>1. q # 0
      BY <1>1, <1>2, BaseFacts
    <2>2. q * Base >= q + q
      <3>1. PICK c \in Nat : Base = c + 2
        <4>1. Base - 2 \in Nat /\ Base = (Base - 2) + 2
          BY BaseFacts
        <4> QED
          BY <4>1
      <3>2. q * (c + 2) = q * c + q + q /\ q * c \in Nat
        BY <1>1
      <3> QED
        BY <1>1, <3>1, <3>2
    <2>3. q * Base \in Nat
      BY <1>1, BaseFacts
    <2> QED
      BY <1>1, <2>1, <2>2, <2>3, BaseFacts
  <1> QED
    BY <1>1, <1>2 DEF q, r

(* The same without the products, which the provers do not like. *)
LEMMA QuotFacts ==
  ASSUME NEW n \in Nat
  PROVE  /\ Quot(n) \in Nat /\ Rem(n) \in Nat /\ Rem(n) \in 0 .. Base - 1
         /\ n >= Base => Quot(n) < n /\ Quot(n) > 0 /\ Quot(n) \in 0 .. n - 1
  <1>1. /\ Quot(n) \in Nat /\ Rem(n) \in 0 .. Base - 1
        /\ n >= Base => Quot(n) < n /\ Quot(n) > 0
    BY DivFacts
  <1> QED
    BY <1>1, BaseFacts

(* What Digits' definition says of the digits of n, if those of smaller    *)
(* numbers are known.                                                      *)
DigitsStep(g, n) == IF n < Base THEN <<n>> ELSE Append(g[Quot(n)], Rem(n))

Upto(g, m) == \A n \in 0 .. m : g[n] = DigitsStep(g, n)

(* Only the digits of the quotient matter. *)
LEMMA StepFacts ==
  ASSUME NEW n \in Nat, NEW g, NEW h, n >= Base => g[Quot(n)] = h[Quot(n)]
  PROVE  DigitsStep(g, n) = DigitsStep(h, n)
  BY BaseFacts DEF DigitsStep

(* There is a function with the digits of the numbers up to m. *)
LEMMA UptoExists ==
  \A m \in Nat : \E g \in [0 .. m -> Seq(Nat)] : Upto(g, m)
  <1> DEFINE T == {m \in Nat : \E g \in [0 .. m -> Seq(Nat)] : Upto(g, m)}
  <1>1. ASSUME NEW n \in Nat, \A m \in 0 .. n - 1 : m \in T
        PROVE  n \in T
    <2>1. CASE n = 0
      <3> DEFINE g == [i \in 0 .. n |-> <<i>>]
      <3>1. g \in [0 .. n -> Seq(Nat)]
        BY <2>1
      <3>2. \A i \in 0 .. n : g[i] = <<i>> /\ i = 0 /\ i < Base
        BY <2>1, BaseFacts
      <3> HIDE DEF g
      <3>3. Upto(g, n)
        BY <3>2 DEF Upto, DigitsStep
      <3> QED
        BY <3>1, <3>3
    <2>2. CASE n > 0
      <3>1. n - 1 \in Nat /\ n - 1 \in 0 .. n - 1
        BY <2>2
      <3>2. PICK g \in [0 .. n - 1 -> Seq(Nat)] : Upto(g, n - 1)
        BY <1>1, <3>1
      <3> DEFINE h == [i \in 0 .. n |-> IF i < n THEN g[i] ELSE DigitsStep(g, n)]
      <3>3. DigitsStep(g, n) \in Seq(Nat)
        <4>1. CASE n < Base
          BY <4>1 DEF DigitsStep
        <4>2. CASE n >= Base
          <5>1. Quot(n) \in 0 .. n - 1 /\ Rem(n) \in Nat
            BY <4>2, BaseFacts, QuotFacts
          <5>2. g[Quot(n)] \in Seq(Nat)
            BY <3>2, <5>1
          <5> QED
            BY <4>2, <5>1, <5>2, BaseFacts, QuotFacts DEF DigitsStep
        <4> QED
          BY <4>1, <4>2, BaseFacts, QuotFacts
      <3>4. h \in [0 .. n -> Seq(Nat)]
        BY <3>2, <3>3
      <3>5. ASSUME NEW i \in 0 .. n
            PROVE  h[i] = DigitsStep(h, i)
        <4>1. i \in Nat /\ i <= n
          OBVIOUS
        <4>2. i >= Base => Quot(i) \in 0 .. n /\ Quot(i) < n
          <5>1. Quot(i) \in Nat /\ (i >= Base => Quot(i) < i)
            BY <4>1, QuotFacts
          <5> QED
            BY <4>1, <5>1
        <4>3. i >= Base => h[Quot(i)] = g[Quot(i)]
          BY <4>2
        <4>4. DigitsStep(h, i) = DigitsStep(g, i)
          BY <4>1, <4>3, StepFacts
        <4>5. CASE i < n
          BY <3>2, <4>4, <4>5 DEF Upto
        <4>6. CASE i = n
          BY <4>4, <4>6
        <4> QED
          BY <4>1, <4>5, <4>6
      <3> HIDE DEF h
      <3>6. Upto(h, n)
        BY <3>5 DEF Upto
      <3> QED
        BY <3>4, <3>6
    <2> QED
      BY <2>1, <2>2
  <1> HIDE DEF T
  <1>2. \A m \in Nat : m \in T
    BY <1>1, Induction
  <1> QED
    BY <1>2 DEF T

(* Two such functions agree. *)
LEMMA UptoUnique ==
  ASSUME NEW a \in Nat, NEW b \in Nat, NEW g, NEW h, Upto(g, a), Upto(h, b)
  PROVE  \A n \in Nat : n <= a /\ n <= b => g[n] = h[n]
  <1> DEFINE T == {n \in Nat : n <= a /\ n <= b => g[n] = h[n]}
  <1>1. ASSUME NEW n \in Nat, \A m \in 0 .. n - 1 : m \in T
        PROVE  n \in T
    <2> SUFFICES ASSUME n <= a, n <= b
                 PROVE  g[n] = h[n]
      OBVIOUS
    <2>1. g[n] = DigitsStep(g, n) /\ h[n] = DigitsStep(h, n)
      BY DEF Upto
    <2>2. n >= Base => g[Quot(n)] = h[Quot(n)]
      BY <1>1, BaseFacts, QuotFacts
    <2> QED
      BY <2>1, <2>2, StepFacts
  <1> HIDE DEF T
  <1>2. \A n \in Nat : n \in T
    BY <1>1, Induction
  <1> QED
    BY <1>2 DEF T

(* The equation that defines Digits. *)
LEMMA DigitsDef ==
  \A n \in Nat : Digits[n] = IF n < Base THEN <<n>> ELSE Append(Digits[Quot(n)], Rem(n))
  <1> DEFINE G(n) == CHOOSE g \in [0 .. n -> Seq(Nat)] : Upto(g, n)
             f == [n \in Nat |-> G(n)[n]]
  <1>1. \A n \in Nat : Upto(G(n), n)
    BY UptoExists
  <1> HIDE DEF G
  <1>2. ASSUME NEW n \in Nat
        PROVE  f[n] = DigitsStep(f, n)
    <2>1. f[n] = DigitsStep(G(n), n)
      BY <1>1 DEF Upto
    <2>2. ASSUME n >= Base
          PROVE  G(n)[Quot(n)] = f[Quot(n)]
      <3>1. Quot(n) \in Nat /\ Quot(n) <= n
        BY <2>2, BaseFacts, QuotFacts
      <3> QED
        BY <1>1, <3>1, UptoUnique
    <2> QED
      BY <2>1, <2>2, StepFacts
  <1>3. f = [n \in Nat |-> IF n < Base THEN <<n>> ELSE Append(f[Quot(n)], Rem(n))]
    BY <1>2 DEF DigitsStep
  <1> HIDE DEF f
  <1>4. Digits = [n \in Nat |-> IF n < Base THEN <<n>> ELSE Append(Digits[Quot(n)], Rem(n))]
    BY <1>3 DEF Digits, Quot, Rem
  <1> HIDE DEF Digits
  <1> QED
    BY <1>4

(* A number has at least one digit. *)
LEMMA DigitsType ==
  \A n \in Nat : Digits[n] \in Seq(0 .. Base - 1) /\ Len(Digits[n]) \in Nat \ {0}
  <1> DEFINE T == {n \in Nat : Digits[n] \in Seq(0 .. Base - 1) /\ Len(Digits[n]) \in Nat \ {0}}
  <1>1. ASSUME NEW n \in Nat, \A m \in 0 .. n - 1 : m \in T
        PROVE  n \in T
    <2>1. CASE n < Base
      <3>1. Digits[n] = <<n>>
        BY <2>1, DigitsDef
      <3>2. n \in 0 .. Base - 1
        BY <2>1, BaseFacts
      <3>3. <<n>> \in Seq(0 .. Base - 1)
        BY <3>2
      <3>4. Len(<<n>>) = 1 /\ 1 \in Nat \ {0}
        OBVIOUS
      <3>5. Len(<<n>>) \in Nat \ {0}
        BY <3>4
      <3>6. Digits[n] \in Seq(0 .. Base - 1) /\ Len(Digits[n]) \in Nat \ {0}
        BY <3>1, <3>3, <3>5, Zenon
      <3> QED
        BY <3>6
    <2>2. CASE n >= Base
      <3> DEFINE q == Quot(n)
                 r == Rem(n)
                 D == 0 .. Base - 1
      <3>1. q \in 0 .. n - 1 /\ r \in 0 .. Base - 1
        BY <2>2, BaseFacts, QuotFacts
      <3>2. Digits[n] = Append(Digits[q], r)
        <4>1. ~(n < Base)
          BY <2>2, BaseFacts
        <4> QED
          BY <4>1, DigitsDef
      <3>3. Digits[q] \in Seq(D)
        BY <1>1, <3>1
      <3>4. r \in D
        BY <3>1
      <3> HIDE DEF q, r, D
      <3>5. Append(Digits[q], r) \in Seq(D) /\ Len(Append(Digits[q], r)) = Len(Digits[q]) + 1
        BY <3>3, <3>4, AppendProperties
      <3>6. Len(Digits[q]) \in Nat
        BY <3>3, LenProperties
      <3>7. Digits[n] \in Seq(D) /\ Len(Digits[n]) = Len(Digits[q]) + 1
        BY <3>2, <3>5
      <3>8. Len(Digits[n]) \in Nat \ {0}
        BY <3>6, <3>7
      <3> QED
        BY <3>7, <3>8, Zenon DEF D
    <2> QED
      BY <2>1, <2>2, BaseFacts, QuotFacts
  <1> HIDE DEF T
  <1>2. \A n \in Nat : n \in T
    BY <1>1, Induction
  <1> QED
    BY <1>2 DEF T

(* Digits are numbers. *)
LEMMA DigitsNat ==
  ASSUME NEW n \in Nat
  PROVE  Digits[n] \in Seq(Nat) /\ Len(Digits[n]) \in Nat \ {0} /\ Len(Digits[n]) \in Nat
  <1>1. Digits[n] \in Seq(0 .. Base - 1) /\ Len(Digits[n]) \in Nat \ {0}
    BY DigitsType
  <1>2. 0 .. Base - 1 \subseteq Nat
    BY BaseFacts
  <1>3. Seq(0 .. Base - 1) \subseteq Seq(Nat)
    BY <1>2, SeqMonotonic
  <1> QED
    BY <1>1, <1>3
-----------------------------------------------------------------------------
(* Value: what follows from its recursive definition. *)

Shift(x, d) == x * Base + d

(* One more digit gives a number again. *)
LEMMA ShiftFacts ==
  ASSUME NEW x \in Nat, NEW d \in Nat
  PROVE  Shift(x, d) \in Nat
  BY BaseFacts DEF Shift

(* v holds the values of the first 0, 1, .. k digits of s. *)
Values(v, s, k) == \A i \in 0 .. k : v[i] = IF i = 0 THEN 0 ELSE Shift(v[i - 1], s[i])

(* There is such a v. *)
LEMMA ValuesExist ==
  ASSUME NEW s \in Seq(Nat)
  PROVE  \E v \in [0 .. Len(s) -> Nat] : Values(v, s, Len(s))
  <1> DEFINE T == {k \in Nat : k <= Len(s) => \E v \in [0 .. k -> Nat] : Values(v, s, k)}
  <1>0. Len(s) \in Nat
    BY LenProperties
  <1>1. ASSUME NEW k \in Nat, \A m \in 0 .. k - 1 : m \in T
        PROVE  k \in T
    <2> SUFFICES ASSUME k <= Len(s)
                 PROVE  \E v \in [0 .. k -> Nat] : Values(v, s, k)
      OBVIOUS
    <2>1. CASE k = 0
      <3> DEFINE v == [i \in 0 .. k |-> 0]
      <3>1. v \in [0 .. k -> Nat]
        OBVIOUS
      <3>2. \A i \in 0 .. k : v[i] = 0 /\ i = 0
        BY <2>1
      <3> HIDE DEF v
      <3>3. Values(v, s, k)
        BY <3>2 DEF Values
      <3> QED
        BY <3>1, <3>3
    <2>2. CASE k > 0
      <3>1. k - 1 \in Nat /\ k - 1 \in 0 .. k - 1 /\ k - 1 <= Len(s)
        BY <1>0, <2>2
      <3>2. PICK v \in [0 .. k - 1 -> Nat] : Values(v, s, k - 1)
        BY <1>1, <3>1
      <3>3. v[k - 1] \in Nat /\ s[k] \in Nat
        BY <1>0, <2>2, <3>1, <3>2, ElementOfSeq
      <3> DEFINE w == [i \in 0 .. k |-> IF i < k THEN v[i] ELSE Shift(v[k - 1], s[k])]
      <3>4. Shift(v[k - 1], s[k]) \in Nat
        BY <3>3, ShiftFacts
      <3>5. w \in [0 .. k -> Nat]
        BY <3>2, <3>4
      <3>6. ASSUME NEW i \in 0 .. k
            PROVE  w[i] = IF i = 0 THEN 0 ELSE Shift(w[i - 1], s[i])
        <4>1. i # 0 => w[i - 1] = v[i - 1]
          OBVIOUS
        <4>2. CASE i < k
          <5>1. i \in 0 .. k - 1 /\ w[i] = v[i]
            BY <4>2
          <5> QED
            BY <3>2, <4>1, <5>1 DEF Values
        <4>3. CASE i = k
          BY <2>2, <4>1, <4>3
        <4> QED
          BY <4>2, <4>3
      <3> HIDE DEF w
      <3>7. Values(w, s, k)
        BY <3>6 DEF Values
      <3> QED
        BY <3>5, <3>7
    <2> QED
      BY <2>1, <2>2
  <1> HIDE DEF T
  <1>2. \A k \in Nat : k \in T
    BY <1>1, Induction
  <1> QED
    BY <1>0, <1>2 DEF T

(* And only one. *)
LEMMA ValuesUnique ==
  ASSUME NEW s, NEW k \in Nat, NEW v, NEW w, Values(v, s, k), Values(w, s, k)
  PROVE  v[k] = w[k]
  <1> DEFINE T == {i \in Nat : i <= k => v[i] = w[i]}
  <1>1. ASSUME NEW i \in Nat, \A m \in 0 .. i - 1 : m \in T
        PROVE  i \in T
    <2> SUFFICES ASSUME i <= k
                 PROVE  v[i] = w[i]
      OBVIOUS
    <2>1. i > 0 => v[i - 1] = w[i - 1]
      BY <1>1
    <2> QED
      BY <2>1 DEF Values
  <1> HIDE DEF T
  <1>2. \A i \in Nat : i \in T
    BY <1>1, Induction
  <1> QED
    BY <1>2 DEF T

(* It holds Value's result. *)
LEMMA ValueIs ==
  ASSUME NEW s \in Seq(Nat), NEW v, Values(v, s, Len(s))
  PROVE  Value(s) = v[Len(s)]
  <1> DEFINE F(g) == [i \in 0 .. Len(s) |-> IF i = 0 THEN 0 ELSE g[i - 1] * Base + s[i]]
             w == CHOOSE g : g = F(g)
  <1>1. PICK u \in [0 .. Len(s) -> Nat] : Values(u, s, Len(s))
    BY ValuesExist
  <1>2. \A i \in 0 .. Len(s) : u[i] = IF i = 0 THEN 0 ELSE u[i - 1] * Base + s[i]
    BY <1>1 DEF Values, Shift
  <1>3. u = F(u)
    BY <1>2
  <1>4. w = F(w)
    BY <1>3
  <1>5. Value(s) = w[Len(s)]
    BY DEF Value
  <1>6. \A i \in 0 .. Len(s) : F(w)[i] = IF i = 0 THEN 0 ELSE w[i - 1] * Base + s[i]
    OBVIOUS
  <1> HIDE DEF w, F
  <1>7. \A i \in 0 .. Len(s) : w[i] = IF i = 0 THEN 0 ELSE w[i - 1] * Base + s[i]
    BY <1>4, <1>6
  <1>8. Values(w, s, Len(s))
    BY <1>7 DEF Values, Shift
  <1>9. Len(s) \in Nat
    BY LenProperties
  <1> QED
    BY <1>5, <1>8, <1>9, ValuesUnique

(* Digits stand for a number. *)
LEMMA ValueType ==
  ASSUME NEW s \in Seq(Nat)
  PROVE  Value(s) \in Nat
  <1>1. PICK v \in [0 .. Len(s) -> Nat] : Values(v, s, Len(s))
    BY ValuesExist
  <1>2. Len(s) \in Nat
    BY LenProperties
  <1>3. v[Len(s)] \in Nat
    BY <1>2
  <1> QED
    BY <1>1, <1>3, ValueIs

(* One more digit. *)
LEMMA ValueAppend ==
  ASSUME NEW s \in Seq(Nat), NEW d \in Nat
  PROVE  Value(Append(s, d)) = Shift(Value(s), d)
  <1> DEFINE t == Append(s, d)
             n == Len(s)
  <1>1. t \in Seq(Nat) /\ Len(t) = n + 1 /\ n \in Nat
    BY AppendProperties, LenProperties
  <1>2. t[n + 1] = d /\ \A i \in 1 .. n : t[i] = s[i]
    BY AppendProperties
  <1> HIDE DEF t, n
  <1>3. PICK v \in [0 .. Len(t) -> Nat] : Values(v, t, Len(t))
    BY <1>1, ValuesExist
  <1>4. Value(t) = v[n + 1]
    BY <1>1, <1>3, ValueIs
  <1>5. v[n + 1] = Shift(v[n], d)
    BY <1>1, <1>2, <1>3 DEF Values
  <1>6. Values(v, s, n)
    <2>1. \A i \in 1 .. n : i \in 1 .. Len(t) /\ t[i] = s[i]
      BY <1>1, <1>2
    <2> QED
      BY <1>3, <2>1 DEF Values
  <1>7. Value(s) = v[n]
    BY <1>6, ValueIs DEF n
  <1> QED
    BY <1>4, <1>5, <1>7 DEF t

(* One digit stands for itself. *)
LEMMA ValueOne ==
  ASSUME NEW d \in Nat
  PROVE  Value(<<d>>) = d
  <1> DEFINE s == <<d>>
             v == [i \in 0 .. 1 |-> IF i = 0 THEN 0 ELSE d]
  <1>1. s \in Seq(Nat) /\ Len(s) = 1 /\ s[1] = d
    OBVIOUS
  <1>2. v[0] = 0 /\ v[1] = d
    OBVIOUS
  <1>3. Shift(0, d) = d
    BY BaseFacts DEF Shift
  <1> HIDE DEF s, v
  <1>4. \A i \in 0 .. 1 : i = 0 \/ i = 1
    OBVIOUS
  <1>5. Values(v, s, 1)
    <2>1. 1 - 1 = 0
      OBVIOUS
    <2> QED
      BY <1>1, <1>2, <1>3, <1>4, <2>1 DEF Values
  <1> QED
    BY <1>1, <1>2, <1>5, ValueIs DEF s

(* stoul() finds the number that operator<< was given. *)
LEMMA DigitsValue ==
  \A n \in Nat : Value(Digits[n]) = n
  <1> DEFINE T == {n \in Nat : Value(Digits[n]) = n}
  <1>1. ASSUME NEW n \in Nat, \A m \in 0 .. n - 1 : m \in T
        PROVE  n \in T
    <2>1. CASE n < Base
      <3>1. Digits[n] = <<n>>
        BY <2>1, DigitsDef
      <3> QED
        BY <3>1, ValueOne
    <2>2. CASE ~(n < Base)
      <3>1. Digits[n] = Append(Digits[Quot(n)], Rem(n))
        BY <2>2, DigitsDef
      <3>2. n >= Base
        BY <2>2, BaseFacts
      <3>3. Quot(n) \in 0 .. n - 1 /\ Rem(n) \in Nat /\ Quot(n) \in Nat
        BY <3>2, QuotFacts
      <3>4. Value(Digits[Quot(n)]) = Quot(n)
        BY <1>1, <3>3
      <3>5. Digits[Quot(n)] \in Seq(Nat)
        BY <3>3, DigitsNat
      <3>6. Value(Digits[n]) = Shift(Quot(n), Rem(n))
        BY <3>1, <3>3, <3>4, <3>5, ValueAppend
      <3>7. Shift(Quot(n), Rem(n)) = n
        BY DivFacts DEF Shift
      <3> QED
        BY <3>6, <3>7
    <2> QED
      BY <2>1, <2>2
  <1> HIDE DEF T
  <1>2. \A n \in Nat : n \in T
    BY <1>1, Induction
  <1> QED
    BY <1>2 DEF T

(* A number that has lost digits at its end is smaller. *)
LEMMA PrefixLess ==
  \A n \in Nat : \A k \in 1 .. Len(Digits[n]) - 1 : Value(SubSeq(Digits[n], 1, k)) < n
  <1> DEFINE P(n) == \A k \in 1 .. Len(Digits[n]) - 1 : Value(SubSeq(Digits[n], 1, k)) < n
             T == {n \in Nat : P(n)}
  <1>1. ASSUME NEW n \in Nat, \A m \in 0 .. n - 1 : m \in T
        PROVE  n \in T
    <2> SUFFICES ASSUME NEW k \in 1 .. Len(Digits[n]) - 1
                 PROVE  Value(SubSeq(Digits[n], 1, k)) < n
      OBVIOUS
    <2>1. CASE n < Base
      <3>1. Digits[n] = <<n>>
        BY <2>1, DigitsDef
      <3>2. Len(Digits[n]) = 1
        BY <3>1
      <3> QED
        BY <3>2
    <2>2. CASE ~(n < Base)
      <3> DEFINE q == Quot(n)
                 r == Rem(n)
                 D == Digits[q]
      <3>1. Digits[n] = Append(D, r)
        BY <2>2, DigitsDef
      <3>2. n >= Base
        BY <2>2, BaseFacts
      <3>3. q \in 0 .. n - 1 /\ r \in Nat /\ q \in Nat /\ q < n
        BY <3>2, QuotFacts
      <3>4. D \in Seq(Nat) /\ Len(D) \in Nat
        BY <3>3, DigitsNat
      <3>5. P(q)
        BY <1>1, <3>3
      <3>6. Value(D) = q
        BY <3>3, DigitsValue
      <3>7. \A j \in 1 .. Len(D) - 1 : Value(SubSeq(D, 1, j)) < q
        BY <3>5
      <3> HIDE DEF q, r, D, P
      <3>8. Len(Append(D, r)) = Len(D) + 1
        BY <3>3, <3>4, AppendProperties
      <3>9. k \in 1 .. Len(D)
        BY <3>1, <3>4, <3>8
      <3>10. SubSeq(Append(D, r), 1, k) = SubSeq(D, 1, k)
        <4>1. \A i \in 1 .. k : Append(D, r)[i] = D[i]
          BY <3>3, <3>4, <3>9, AppendProperties
        <4>2. SubSeq(Append(D, r), 1, k) = [i \in 1 .. k |-> Append(D, r)[i]]
          BY <3>3, <3>4, <3>8, <3>9
        <4>3. SubSeq(D, 1, k) = [i \in 1 .. k |-> D[i]]
          BY <3>3, <3>4, <3>9
        <4> QED
          BY <4>1, <4>2, <4>3
      <3>11. CASE k = Len(D)
        <4>1. SubSeq(D, 1, k) = D
          BY <3>4, <3>11
        <4> QED
          BY <3>1, <3>3, <3>6, <3>10, <4>1
      <3>12. CASE k < Len(D)
        <4>1. Value(SubSeq(D, 1, k)) < q
          BY <3>4, <3>7, <3>9, <3>12
        <4>2. SubSeq(D, 1, k) \in Seq(Nat)
          BY <3>4, <3>9
        <4>3. Value(SubSeq(D, 1, k)) \in Nat
          BY <4>2, ValueType
        <4>4. Value(SubSeq(D, 1, k)) < n
          BY <3>3, <4>1, <4>3
        <4> QED
          BY <3>1, <3>10, <4>4
      <3> QED
        BY <3>4, <3>9, <3>11, <3>12
    <2> QED
      BY <2>1, <2>2
  <1> HIDE DEF T
  <1>2. \A n \in Nat : n \in T
    BY <1>1, Induction
  <1> QED
    BY <1>2 DEF T
-----------------------------------------------------------------------------
(* The header as a text. *)

Char == 0 .. Other

(* S, Hash and Other are no digits, and different. *)
LEMMA CharFacts ==
  /\ S \in Char /\ Hash \in Char /\ Other \in Char
  /\ S \in Nat /\ Hash \in Nat /\ Other \in Nat
  /\ S = Base /\ Hash > Base /\ Other > Base
  /\ Other # S /\ Other # Hash /\ S # Hash
  /\ Char \subseteq Nat
  /\ \A d \in 0 .. Base - 1 : d \in Char /\ d < Base
  BY BaseFacts DEF Char, S, Hash, Other

(* Min finds the least element. *)
LEMMA LeastIs ==
  ASSUME NEW T \in SUBSET Nat, NEW m \in T, \A y \in T : m <= y
  PROVE  Min(T) = m
  <1> DEFINE x == Min(T)
  <1>1. x \in T /\ \A y \in T : x <= y
    BY DEF Min
  <1> HIDE DEF x
  <1>2. x <= m /\ m <= x /\ x \in Nat /\ m \in Nat
    BY <1>1
  <1>3. x = m
    BY <1>2
  <1> QED
    BY <1>3 DEF x

(* find() stops at the first hash sign. *)
LEMMA FirstHash ==
  ASSUME NEW s \in Seq(Nat), NEW k \in 1 .. Len(s), s[k] = Hash,
         \A i \in 1 .. k - 1 : s[i] # Hash
  PROVE  HashAt(s) = k
  <1> DEFINE T == {i \in 1 .. Len(s) : s[i] = Hash}
  <1>1. T \in SUBSET Nat /\ k \in T
    OBVIOUS
  <1>2. \A y \in T : k <= y
    OBVIOUS
  <1>3. HashAt(s) = IF T # {} THEN Min(T) ELSE 0
    BY DEF HashAt, SelectInSeq
  <1> HIDE DEF T
  <1>4. Min(T) = k
    BY <1>1, <1>2, LeastIs
  <1> QED
    BY <1>1, <1>3, <1>4

(* find() fails if there is none. *)
LEMMA NoHash ==
  ASSUME NEW s \in Seq(Nat), \A i \in 1 .. Len(s) : s[i] # Hash
  PROVE  HashAt(s) = 0
  <1> DEFINE T == {i \in 1 .. Len(s) : s[i] = Hash}
  <1>1. T = {}
    OBVIOUS
  <1>2. HashAt(s) = IF T # {} THEN Min(T) ELSE 0
    BY DEF HashAt, SelectInSeq
  <1> QED
    BY <1>1, <1>2

(* stoul() takes all of a text that consists of digits. *)
LEMMA OnlyDigits ==
  ASSUME NEW s \in Seq(Nat), \A i \in 1 .. Len(s) : s[i] < Base
  PROVE  LeadingDigits(s) = s
  <1> DEFINE T == {i \in 1 .. Len(s) : s[i] >= Base}
  <1>1. \A i \in 1 .. Len(s) : s[i] \in Nat
    BY ElementOfSeq
  <1>2. T = {}
    BY <1>1, BaseFacts
  <1>3. SelectInSeq(s, LAMBDA c : c >= Base) = IF T # {} THEN Min(T) ELSE 0
    BY DEF SelectInSeq
  <1>4. SelectInSeq(s, LAMBDA c : c >= Base) = 0
    BY <1>2, <1>3
  <1> QED
    BY <1>4 DEF LeadingDigits

(* The characters of the header. *)
LEMMA FormatFacts ==
  ASSUME NEW a \in Nat, NEW b \in Nat
  PROVE  LET F == FormatHeader(a, b)
             m == Len(Digits[a])
             n == Len(Digits[b])
         IN  /\ F \in Seq(Char)
             /\ Len(F) = m + n + 2
             /\ m \in Nat \ {0} /\ n \in Nat \ {0}
             /\ F[1] = S
             /\ \A i \in 1 .. m : F[i + 1] = Digits[a][i]
             /\ F[m + 2] = Hash
             /\ \A i \in 1 .. n : F[m + 2 + i] = Digits[b][i]
  <1> DEFINE A == Digits[a]
             B == Digits[b]
             m == Len(A)
             n == Len(B)
             F1 == <<S>> \o A
             F2 == F1 \o <<Hash>>
             F == F2 \o B
  <1>1. A \in Seq(Char) /\ B \in Seq(Char)
    <2>1. A \in Seq(0 .. Base - 1) /\ B \in Seq(0 .. Base - 1)
      BY DigitsType
    <2>2. 0 .. Base - 1 \subseteq Char
      BY CharFacts
    <2> QED
      BY <2>1, <2>2, SeqMonotonic
  <1>2. m \in Nat \ {0} /\ n \in Nat \ {0}
    BY DigitsType
  <1>3. <<S>> \in Seq(Char) /\ Len(<<S>>) = 1 /\ <<S>>[1] = S
    BY CharFacts
  <1>4. <<Hash>> \in Seq(Char) /\ Len(<<Hash>>) = 1 /\ <<Hash>>[1] = Hash
    BY CharFacts
  <1>5. FormatHeader(a, b) = F
    BY DEF FormatHeader
  <1> DEFINE s == <<S>>
             h == <<Hash>>
  <1>6. s \in Seq(Char) /\ Len(s) = 1 /\ s[1] = S /\ h \in Seq(Char) /\ Len(h) = 1 /\ h[1] = Hash
    BY <1>3, <1>4
  <1> HIDE DEF s, h, A, B
  <1>7. /\ s \o A \in Seq(Char)
        /\ Len(s \o A) = Len(s) + Len(A)
        /\ \A i \in 1 .. Len(s) + Len(A) : (s \o A)[i] = IF i <= Len(s) THEN s[i] ELSE A[i - Len(s)]
    BY <1>1, <1>6, ConcatProperties
  <1>8. F1 = s \o A
    BY DEF s
  <1> HIDE DEF F1
  <1>9. F1 \in Seq(Char) /\ Len(F1) = m + 1
    BY <1>2, <1>6, <1>7, <1>8
  <1>10. F1[1] = S
    BY <1>2, <1>6, <1>7, <1>8
  <1>11. \A i \in 1 .. m : F1[i + 1] = A[i]
    BY <1>2, <1>6, <1>7, <1>8
  <1>12. /\ F1 \o h \in Seq(Char)
         /\ Len(F1 \o h) = Len(F1) + Len(h)
         /\ \A i \in 1 .. Len(F1) + Len(h) :
              (F1 \o h)[i] = IF i <= Len(F1) THEN F1[i] ELSE h[i - Len(F1)]
    BY <1>6, <1>9, ConcatProperties
  <1>13. F2 = F1 \o h
    BY DEF h
  <1> HIDE DEF F2
  <1>14. F2 \in Seq(Char) /\ Len(F2) = m + 2
    BY <1>2, <1>6, <1>9, <1>12, <1>13
  <1>15. F2[m + 2] = Hash
    BY <1>2, <1>6, <1>9, <1>12, <1>13
  <1>16. \A i \in 1 .. m + 1 : F2[i] = F1[i]
    BY <1>2, <1>6, <1>9, <1>12, <1>13
  <1>17. /\ F \in Seq(Char)
         /\ Len(F) = Len(F2) + Len(B)
         /\ \A i \in 1 .. Len(F2) + Len(B) : F[i] = IF i <= Len(F2) THEN F2[i] ELSE B[i - Len(F2)]
    BY <1>1, <1>14, ConcatProperties
  <1> HIDE DEF F, m, n
  <1>18. m = Len(A) /\ n = Len(B)
    BY DEF m, n
  <1>19. F \in Seq(Char) /\ Len(F) = m + n + 2
    BY <1>2, <1>14, <1>17, <1>18
  <1>20. \A i \in 1 .. m + 2 : F[i] = F2[i]
    BY <1>2, <1>14, <1>17, <1>18
  <1>21. ASSUME NEW i \in 1 .. n
         PROVE  F[m + 2 + i] = B[i]
    <2> DEFINE x == m + 2 + i
    <2>1. x \in 1 .. Len(F2) + Len(B) /\ ~(x <= Len(F2)) /\ x - Len(F2) = i
      BY <1>2, <1>14, <1>18
    <2> HIDE DEF x
    <2>2. F[x] = B[x - Len(F2)]
      BY <1>17, <2>1
    <2>3. F[x] = B[i]
      BY <2>1, <2>2
    <2> QED
      BY <2>3 DEF x
  <1>22. F[1] = S
    BY <1>2, <1>10, <1>16, <1>20
  <1>23. \A i \in 1 .. m : F[i + 1] = A[i]
    BY <1>2, <1>11, <1>16, <1>20
  <1>24. F[m + 2] = Hash
    BY <1>2, <1>15, <1>20
  <1> QED
    BY <1>2, <1>5, <1>19, <1>21, <1>22, <1>23, <1>24 DEF m, n, A, B

(* What Recv has in read_buf of a text. *)
LEMMA ReadFacts ==
  ASSUME NEW F \in Seq(Char), Len(F) > 0
  PROVE  LET s == header_str(F)
         IN  /\ s \in Seq(Char) /\ s \in Seq(Nat)
             /\ Len(s) \in 1 .. Len(F)
             /\ Len(s) = IF Len(F) <= HeaderMax THEN Len(F) ELSE HeaderMax
             /\ \A i \in 1 .. Len(s) : s[i] = F[i]
             /\ s # <<>> /\ Head(s) = F[1]
  <1> DEFINE e == IF Len(F) < HeaderMax THEN Len(F) ELSE HeaderMax
             s == SubSeq(F, 1, e)
  <1>1. Len(F) \in Nat
    BY LenProperties
  <1>2. HeaderMax \in Nat \ {0}
    BY HeaderAssumption
  <1>3. e \in 1 .. Len(F) /\ e = IF Len(F) <= HeaderMax THEN Len(F) ELSE HeaderMax
    BY <1>1, <1>2
  <1>4. header_str(F) = s
    BY DEF header_str
  <1> HIDE DEF e
  <1>5. \A i \in 1 .. e : F[i] \in Char
    BY <1>1, <1>3, ElementOfSeq
  <1>6. 1 \in Int /\ e \in Int
    BY <1>3
  <1>7. /\ s \in Seq(Char)
        /\ Len(s) = IF 1 <= e THEN e - 1 + 1 ELSE 0
        /\ \A i \in 1 .. e - 1 + 1 : s[i] = F[1 + i - 1]
    BY <1>5, <1>6, SubSeqProperties
  <1> HIDE DEF s
  <1>8. Len(s) = e
    BY <1>3, <1>7
  <1>9. \A i \in 1 .. e : s[i] = F[i]
    BY <1>3, <1>7
  <1>10. Char \subseteq Nat
    BY CharFacts
  <1>11. s \in Seq(Nat)
    BY <1>7, <1>10, SeqMonotonic
  <1>12. s # <<>> /\ Head(s) = s[1]
    <2>1. s # <<>>
      BY <1>3, <1>8, EmptySeq
    <2> QED
      BY <1>11, <2>1
  <1>13. Head(s) = F[1]
    BY <1>3, <1>9, <1>12
  <1> QED
    BY <1>3, <1>4, <1>7, <1>8, <1>9, <1>11, <1>12, <1>13

(* The position of a character is one in the text, or 0. *)
LEMMA SelectType ==
  ASSUME NEW s \in Seq(Nat), NEW T \in SUBSET (1 .. Len(s))
  PROVE  (IF T # {} THEN Min(T) ELSE 0) \in 0 .. Len(s)
  <1>1. Len(s) \in Nat
    BY LenProperties
  <1>2. CASE T = {}
    BY <1>1, <1>2
  <1>3. CASE T # {}
    <2>1. T \in SUBSET Nat
      OBVIOUS
    <2>2. PICK m \in T : \A y \in T : m <= y
      BY <1>3, <2>1, LeastNumber
    <2>3. Min(T) = m
      BY <2>1, <2>2, LeastIs
    <2>4. m \in 0 .. Len(s)
      BY <1>1, <2>2
    <2> QED
      BY <1>3, <2>3, <2>4
  <1> QED
    BY <1>2, <1>3

(* stoul() returns a number, whatever the text. *)
LEMMA StoulType ==
  ASSUME NEW s \in Seq(Nat)
  PROVE  stoul(s) \in Nat
  <1> DEFINE T == {i \in 1 .. Len(s) : s[i] >= Base}
             end == IF T # {} THEN Min(T) ELSE 0
             g == SubSeq(s, 1, end - 1)
  <1>1. SelectInSeq(s, LAMBDA c : c >= Base) = end
    BY DEF SelectInSeq
  <1>2. T \in SUBSET (1 .. Len(s))
    OBVIOUS
  <1>3. Len(s) \in Nat
    BY LenProperties
  <1> HIDE DEF T
  <1>4. end \in 0 .. Len(s)
    BY <1>2, SelectType
  <1> HIDE DEF end
  <1>5. LeadingDigits(s) = IF end = 0 THEN s ELSE g
    BY <1>1 DEF LeadingDigits
  <1>6. g \in Seq(Nat)
    <2>1. 1 \in Int /\ end - 1 \in Int
      BY <1>3, <1>4
    <2>2. \A i \in 1 .. end - 1 : i \in 1 .. Len(s)
      BY <1>3, <1>4
    <2>3. \A i \in 1 .. end - 1 : s[i] \in Nat
      BY <2>2, ElementOfSeq
    <2> QED
      BY <2>1, <2>3, SubSeqProperties
  <1> HIDE DEF g
  <1>7. LeadingDigits(s) \in Seq(Nat)
    BY <1>5, <1>6
  <1> QED
    BY <1>7, ValueType DEF stoul

(* Recv takes any text for two numbers, if for anything. *)
LEMMA FieldTypes ==
  ASSUME NEW F \in Seq(Char), Len(F) > 0
  PROVE  LET s == header_str(F)
         IN  stoul(SizeField(s)) \in Nat /\ stoul(NumField(s)) \in Nat
  <1> DEFINE s == header_str(F)
             T == {i \in 1 .. Len(s) : s[i] = Hash}
             h == HashAt(s)
  <1>1. s \in Seq(Nat)
    BY ReadFacts
  <1>2. Len(s) \in Nat /\ \A i \in 1 .. Len(s) : s[i] \in Nat
    BY <1>1, LenProperties, ElementOfSeq
  <1> HIDE DEF s
  <1>3. h = IF T # {} THEN Min(T) ELSE 0
    BY DEF HashAt, SelectInSeq
  <1>4. T \in SUBSET (1 .. Len(s))
    OBVIOUS
  <1> HIDE DEF T, h
  <1>5. h \in 0 .. Len(s)
    BY <1>1, <1>3, <1>4, SelectType
  <1>6. SizeField(s) \in Seq(Nat)
    <2>1. 2 \in Int /\ h - 1 \in Int
      BY <1>2, <1>5
    <2>2. \A i \in 2 .. h - 1 : i \in 1 .. Len(s)
      BY <1>2, <1>5
    <2>3. \A i \in 2 .. h - 1 : s[i] \in Nat
      BY <1>2, <2>2
    <2>4. SubSeq(s, 2, h - 1) \in Seq(Nat)
      BY <2>1, <2>3, SubSeqProperties
    <2> QED
      BY <2>4 DEF SizeField, h
  <1>7. NumField(s) \in Seq(Nat)
    <2>1. h + 1 \in Int /\ Len(s) \in Int
      BY <1>2, <1>5
    <2>2. \A i \in h + 1 .. Len(s) : i \in 1 .. Len(s)
      BY <1>2, <1>5
    <2>3. \A i \in h + 1 .. Len(s) : s[i] \in Nat
      BY <1>2, <2>2
    <2>4. SubSeq(s, h + 1, Len(s)) \in Seq(Nat)
      BY <2>1, <2>3, SubSeqProperties
    <2> QED
      BY <2>4 DEF NumField, h
  <1> QED
    BY <1>6, <1>7, StoulType DEF s

(* What Recv takes a header for: the file's size is read as it was meant,  *)
(* or not at all; the number of slices is what was meant exactly when      *)
(* nothing is cut off, and less otherwise.                                 *)
LEMMA HeaderParsed ==
  ASSUME NEW a \in Nat, NEW b \in Nat
  PROVE  LET F == FormatHeader(a, b)
             s == header_str(F)
         IN  /\ Len(F) <= HeaderMax =>
                  WellFormed(s) /\ ~Throws(NumField(s)) /\ stoul(NumField(s)) = b
             /\ WellFormed(s) => ~Throws(SizeField(s)) /\ stoul(SizeField(s)) = a
             /\ WellFormed(s) /\ ~Throws(NumField(s)) => stoul(NumField(s)) \in Nat
             /\ WellFormed(s) /\ ~Throws(NumField(s)) /\ ~(Len(F) <= HeaderMax) =>
                  stoul(NumField(s)) < b
  <1> DEFINE A == Digits[a]
             B == Digits[b]
             m == Len(A)
             n == Len(B)
             F == FormatHeader(a, b)
             s == header_str(F)
             l == Len(s)
             cut == ~(Len(F) <= HeaderMax)
             k == l - m - 2
  <1>1. /\ F \in Seq(Char)
        /\ Len(F) = m + n + 2
        /\ m \in Nat \ {0} /\ n \in Nat \ {0}
        /\ F[1] = S
        /\ \A i \in 1 .. m : F[i + 1] = A[i]
        /\ F[m + 2] = Hash
        /\ \A i \in 1 .. n : F[m + 2 + i] = B[i]
    BY FormatFacts
  <1>2. A \in Seq(Nat) /\ B \in Seq(Nat)
    BY DigitsNat
  <1>3. /\ \A i \in 1 .. m : A[i] \in Nat /\ A[i] < Base
        /\ \A i \in 1 .. n : B[i] \in Nat /\ B[i] < Base
    <2>1. A \in Seq(0 .. Base - 1) /\ B \in Seq(0 .. Base - 1)
      BY DigitsType
    <2>2. /\ \A i \in 1 .. m : A[i] \in 0 .. Base - 1
          /\ \A i \in 1 .. n : B[i] \in 0 .. Base - 1
      BY <2>1, ElementOfSeq
    <2> QED
      BY <2>2, BaseFacts
  <1> HIDE DEF A, B, F
  <1>4. /\ s \in Seq(Nat)
        /\ l \in 1 .. Len(F)
        /\ l = IF Len(F) <= HeaderMax THEN Len(F) ELSE HeaderMax
        /\ \A i \in 1 .. l : s[i] = F[i]
        /\ s # <<>> /\ Head(s) = F[1]
    <2>1. Len(F) > 0
      BY <1>1
    <2> QED
      BY <1>1, <2>1, ReadFacts
  <1> HIDE DEF m, n, s, l
  <1>5. l \in Nat
    BY <1>1, <1>4
  <1>6. \A i \in 2 .. m + 1 : i <= l => s[i] = A[i - 1] /\ s[i] < Base /\ s[i] # Hash
    <2> SUFFICES ASSUME NEW i \in 2 .. m + 1, i <= l
                 PROVE  s[i] = A[i - 1] /\ s[i] < Base /\ s[i] # Hash
      OBVIOUS
    <2>1. i - 1 \in 1 .. m /\ i \in 1 .. l /\ (i - 1) + 1 = i
      BY <1>1, <1>5
    <2>2. F[i] = A[i - 1]
      BY <1>1, <2>1
    <2>3. s[i] = A[i - 1]
      BY <1>4, <2>1, <2>2
    <2>4. A[i - 1] \in Nat /\ A[i - 1] < Base
      BY <1>3, <2>1
    <2> QED
      BY <2>3, <2>4, BaseFacts, CharFacts
  <1>7. s[1] = S /\ s[1] # Hash
    BY <1>1, <1>4, <1>5, CharFacts
  <1>8. l < m + 2 => HashAt(s) = 0
    <2> SUFFICES ASSUME l < m + 2
                 PROVE  HashAt(s) = 0
      OBVIOUS
    <2>1. \A i \in 1 .. l : s[i] # Hash
      BY <1>1, <1>5, <1>6, <1>7
    <2> QED
      BY <1>4, <2>1, NoHash DEF l
  <1>9. l >= m + 2 => HashAt(s) = m + 2
    <2> SUFFICES ASSUME l >= m + 2
                 PROVE  HashAt(s) = m + 2
      OBVIOUS
    <2>1. m + 2 \in 1 .. l
      BY <1>1, <1>5
    <2>2. \A i \in 1 .. (m + 2) - 1 : s[i] # Hash
      BY <1>1, <1>5, <1>6, <1>7
    <2>3. s[m + 2] = Hash
      BY <1>1, <1>4, <2>1
    <2> QED
      BY <1>4, <2>1, <2>2, <2>3, FirstHash DEF l
  <1>10. WellFormed(s) <=> l >= m + 2
    <2>1. Head(s) = S /\ s # <<>>
      BY <1>1, <1>4
    <2>2. m + 2 # 0
      BY <1>1
    <2>3. HashAt(s) # 0 <=> l >= m + 2
      BY <1>1, <1>5, <1>8, <1>9, <2>2
    <2> QED
      BY <2>1, <2>3 DEF WellFormed
  <1>11. ASSUME l >= m + 2
         PROVE  SizeField(s) = A
    <2>1. SizeField(s) = SubSeq(s, 2, m + 1)
      <3>1. (m + 2) - 1 = m + 1
        BY <1>1
      <3> QED
        BY <1>9, <1>11, <3>1 DEF SizeField
    <2> DEFINE e == m + 1
               f == SubSeq(s, 2, e)
    <2>2. 2 \in Int /\ e \in Int /\ 2 <= e /\ e - 2 + 1 = m
      BY <1>1
    <2>3. \A i \in 2 .. e : s[i] \in Nat
      <3>1. \A i \in 2 .. e : i \in 1 .. l
        BY <1>1, <1>5, <1>11
      <3> QED
        BY <1>4, <3>1, ElementOfSeq DEF l
    <2>4. \A i \in 1 .. m : s[2 + i - 1] = A[i]
      <3> SUFFICES ASSUME NEW i \in 1 .. m
                   PROVE  s[2 + i - 1] = A[i]
        OBVIOUS
      <3>1. 2 + i - 1 \in 2 .. m + 1 /\ 2 + i - 1 <= l /\ (2 + i - 1) - 1 = i
        BY <1>1, <1>5, <1>11
      <3> QED
        BY <1>6, <3>1
    <2> HIDE DEF e
    <2>5. /\ f \in Seq(Nat)
          /\ Len(f) = IF 2 <= e THEN e - 2 + 1 ELSE 0
          /\ \A i \in 1 .. e - 2 + 1 : f[i] = s[2 + i - 1]
      BY <2>2, <2>3, SubSeqProperties
    <2> HIDE DEF f
    <2>6. Len(f) = m /\ \A i \in 1 .. m : f[i] = A[i]
      BY <2>2, <2>4, <2>5
    <2>7. f = A
      BY <1>2, <2>5, <2>6, SeqEqual DEF m
    <2> QED
      BY <2>1, <2>7 DEF f, e
  <1>12. k \in Int
    BY <1>1, <1>5
  <1>13. ASSUME l >= m + 2
         PROVE  /\ k \in 0 .. n
                /\ k = n <=> ~cut
                /\ NumField(s) = SubSeq(B, 1, k)
    <2>1. k \in 0 .. n
      <3>0. Len(F) = m + n + 2 /\ m \in Nat /\ n \in Nat /\ Len(F) \in Nat
        BY <1>1
      <3>1. l \in 1 .. Len(F)
        BY <1>4
      <3>2. l <= Len(F)
        BY <1>5, <3>0, <3>1
      <3> QED
        BY <1>5, <1>13, <3>0, <3>2
    <2>2. k = n <=> l = Len(F)
      BY <1>1, <1>5
    <2>3. l = Len(F) <=> ~cut
      BY <1>1, <1>4, HeaderAssumption
    <2> DEFINE e == m + 2 + 1
               f == SubSeq(s, e, l)
               g == SubSeq(B, 1, k)
    <2>4. NumField(s) = f
      BY <1>9, <1>13 DEF NumField, l
    <2>5. e \in Int /\ l \in Int /\ (IF e <= l THEN l - e + 1 ELSE 0) = k /\ l - e + 1 = k
      BY <1>1, <1>5, <1>13
    <2>6. \A i \in e .. l : s[i] \in Nat
      <3>1. \A i \in 1 .. l : s[i] \in Nat
        BY <1>4, ElementOfSeq DEF l
      <3>2. \A i \in e .. l : i \in 1 .. l
        BY <1>1, <1>5
      <3> HIDE DEF e
      <3> QED
        BY <3>1, <3>2
    <2>7. \A i \in 1 .. k : s[e + i - 1] = B[i]
      <3> TAKE i \in 1 .. k
      <3>1. e + i - 1 = m + 2 + i /\ m + 2 + i \in 1 .. l /\ i \in 1 .. n
        BY <1>1, <1>5, <2>1
      <3>2. F[m + 2 + i] = B[i]
        BY <1>1, <3>1
      <3> QED
        BY <1>4, <3>1, <3>2
    <2> HIDE DEF e, k
    <2>8. /\ f \in Seq(Nat)
          /\ Len(f) = IF e <= l THEN l - e + 1 ELSE 0
          /\ \A i \in 1 .. l - e + 1 : f[i] = s[e + i - 1]
      BY <2>5, <2>6, SubSeqProperties
    <2>9. 1 \in Int /\ k \in Int /\ \A i \in 1 .. k : B[i] \in Nat
      BY <1>1, <1>3, <2>1
    <2>10. /\ g \in Seq(Nat)
           /\ Len(g) = IF 1 <= k THEN k - 1 + 1 ELSE 0
           /\ \A i \in 1 .. k - 1 + 1 : g[i] = B[1 + i - 1]
      BY <2>9, SubSeqProperties
    <2> HIDE DEF f, g
    <2>11. Len(f) = k /\ \A i \in 1 .. k : f[i] = B[i]
      BY <2>5, <2>7, <2>8
    <2>12. Len(g) = k /\ \A i \in 1 .. k : g[i] = B[i]
      <3>1. k \in Nat /\ (IF 1 <= k THEN k - 1 + 1 ELSE 0) = k /\ k - 1 + 1 = k
        BY <1>1, <2>1
      <3>2. \A i \in 1 .. k : 1 + i - 1 = i
        OBVIOUS
      <3> QED
        BY <2>10, <3>1, <3>2
    <2>13. f = g
      BY <2>8, <2>10, <2>11, <2>12, SeqEqual
    <2> QED
      BY <2>1, <2>2, <2>3, <2>4, <2>13 DEF g
  <1>14. ASSUME l >= m + 2
         PROVE  ~Throws(SizeField(s)) /\ stoul(SizeField(s)) = a
    <2>1. LeadingDigits(A) = A
      BY <1>2, <1>3, OnlyDigits DEF m
    <2>2. Value(A) = a
      BY DigitsValue DEF A
    <2>3. A # <<>>
      BY <1>1, EmptySeq DEF m
    <2> QED
      BY <1>11, <1>14, <2>1, <2>2, <2>3 DEF stoul, Throws
  <1>15. ASSUME l >= m + 2
         PROVE  /\ stoul(NumField(s)) \in Nat
                /\ ~cut => ~Throws(NumField(s)) /\ stoul(NumField(s)) = b
                /\ cut /\ ~Throws(NumField(s)) => stoul(NumField(s)) < b
    <2> DEFINE g == SubSeq(B, 1, k)
    <2>1. k \in 0 .. n /\ (k = n <=> ~cut) /\ NumField(s) = g
      BY <1>13, <1>15
    <2> HIDE DEF k
    <2>2. 1 \in Int /\ k \in Int /\ \A i \in 1 .. k : B[i] \in Nat /\ B[i] < Base
      BY <1>1, <1>3, <2>1
    <2>3. /\ g \in Seq(Nat)
          /\ Len(g) = IF 1 <= k THEN k - 1 + 1 ELSE 0
          /\ \A i \in 1 .. k - 1 + 1 : g[i] = B[1 + i - 1]
      BY <2>2, SubSeqProperties
    <2>4. k = n => g = B
      BY <1>2, SubSeqFull DEF n
    <2> HIDE DEF g
    <2>5. Len(g) = k /\ \A i \in 1 .. k : g[i] < Base
      BY <2>1, <2>2, <2>3
    <2>6. LeadingDigits(g) = g
      BY <2>3, <2>5, OnlyDigits
    <2>7. stoul(NumField(s)) = Value(g) /\ (Throws(NumField(s)) <=> g = <<>>)
      BY <2>1, <2>6 DEF stoul, Throws
    <2>8. Value(g) \in Nat
      BY <2>3, ValueType
    <2>9. g = <<>> <=> k = 0
      BY <2>1, <2>3, <2>5, EmptySeq
    <2>10. k = n => Value(g) = b
      BY <2>4, DigitsValue DEF B
    <2>11. k \in 1 .. n - 1 => Value(g) < b
      BY PrefixLess DEF g, n, B
    <2>12. k # 0 /\ k # n => k \in 1 .. n - 1
      BY <1>1, <2>1
    <2>13. n # 0
      BY <1>1
    <2> QED
      BY <2>1, <2>7, <2>8, <2>9, <2>10, <2>11, <2>12, <2>13
  <1>16. ~cut => l >= m + 2
    BY <1>1, <1>4
  <1> QED
    BY <1>10, <1>14, <1>15, <1>16 DEF F, s
-----------------------------------------------------------------------------
(* The inductive invariant. *)

Num  == Len(res) % UShort
Fits == Len(Formatted) <= HeaderMax

(* Until the header is written, module FileSlice's sender is all there is. *)
SplitInv == stage = "split" => /\ IInv
                               /\ pc # "received" /\ slices_num = 0
                               /\ pc = "sent" => res # <<>>
                               /\ text = <<>> /\ file_size_ = 0 /\ slices_th_num_ = 0
                               /\ arrived = {} /\ written = {} /\ collecting = {}
                               /\ out = <<>>

(* Afterwards the cut is fixed and the header is on its way. *)
CutInv == stage # "split" => /\ Types /\ SegmentInv /\ IndexInv /\ WalkInv /\ HeaderLenFits
                             /\ pc \in {"sent", "received", "sigfpe"}
                             /\ res # <<>>
                             /\ text \in Seq(Char) /\ Len(text) > 0

(* No slice comes before the header has been read. *)
UnreadInv == /\ stage \in {"header", "refused", "threw"} => pc = "sent" /\ slices_num = 0
             /\ stage \in {"header", "refused", "threw", "sigfpe"} =>
                  arrived = {} /\ written = {} /\ collecting = {} /\ out = <<>>
             /\ stage \in {"refused", "threw"} => ~(text = Formatted /\ Fits)

(* What the receiver has read out of a header that it accepts. *)
Parsed == stage \in {"sigfpe", "slices", "collect", "reported", "overrun"}

ParsedInv == /\ Parsed /\ text = Formatted => /\ file_size_ = buf_size
                                              /\ Fits => slices_num = Num
                                              /\ ~Fits => slices_num < Num
             /\ Parsed /\ stage # "sigfpe" => /\ pc = "received"
                                              /\ slices_num # 0
                                              /\ split_len_ = file_size_ \div slices_num
             /\ stage = "sigfpe" => pc = "sigfpe" /\ slices_num = 0

OutInv == /\ file_size_ \in Nat
          /\ Parsed /\ stage # "sigfpe" => out \in [0 .. file_size_ - 1 -> 0 .. buf_size + 1]

CountInv == /\ slices_th_num_ = IF stage = "split" THEN 0 ELSE (Cardinality(arrived) + 1) % UShort
            /\ arrived \subseteq 1 .. Len(res)
            /\ written \subseteq arrived /\ collecting \subseteq arrived
            /\ stage \in {"split", "header", "slices", "collect"} \cup Ended

TInv == SplitInv /\ CutInv /\ UnreadInv /\ ParsedInv /\ OutInv /\ CountInv

(* The bytes of slice i. *)
InSlice(i, b) == Source(res[i]) <= b /\ b < Source(res[i]) + res[i].len

PlacedInv == Promised /\ Receiving =>
               /\ out = [b \in 0 .. buf_size - 1 |->
                           IF \E i \in written : InSlice(i, b) THEN b + 1 ELSE Hole]
               /\ stage # "slices" => collecting = 1 .. Len(res)
               /\ stage = "reported" => written = 1 .. Len(res)

(* What has been read so far. *)
Early == vpc \in {"generate", "transfer"}

RowsInv == /\ vpc \in {"generate", "transfer", "read", "threw", "crashed"} \cup Read
           /\ rows \in RowCounts \cup {0} /\ total \in RowCounts \cup {0}
           /\ buf_size \in Nat /\ rows < buf_size
           /\ Early => total = 0 /\ colValue = <<>> /\ data_offset = 0
           /\ ~Early => /\ stage \in {"reported", "overrun"}
                        /\ colValue \in [0 .. total - 1 -> 0 .. buf_size + 1]
           /\ data_offset \in 0 .. rows
           /\ over \in BOOLEAN /\ (over <=> data_offset > total)
           /\ vpc \in {"read", "crashed"} \cup Read => file_size_ = buf_size
           /\ vpc \in Read => data_offset = rows

(* What has been sampled so far. *)
SamplesInv == /\ vpc \notin Read => at = 0 /\ samples = <<>>
              /\ samples \in Seq(0 .. buf_size + 1)
              /\ at = Len(samples) * Step
              /\ at # 0 => at < total + Step
              /\ vpc = "done" => at >= total
              /\ vpc = "wild" => at > IntMax
              /\ \A k \in 1 .. Len(samples) : /\ (k - 1) * Step < total
                                              /\ samples[k] = colValue[(k - 1) * Step]

(* Of a file that has been copied, the rows read so far are in place. *)
ReadBackInv == Promised => /\ vpc # "threw"
                           /\ vpc = "crashed" => over
                           /\ ~Early => colValue = [r \in 0 .. total - 1 |->
                                                      IF r < data_offset THEN r + 1 ELSE 0]

VInv == TInv /\ PlacedInv /\ RowsInv /\ SamplesInv /\ ReadBackInv

-----------------------------------------------------------------------------
(* The number that goes into the header has 16 bits. *)
LEMMA NumFacts ==
  ASSUME Types
  PROVE  /\ buf_size \in Nat \ {0} /\ Len(res) \in Nat
         /\ Num \in Nat /\ Num \in 0 .. UShort - 1
         /\ Formatted = FormatHeader(buf_size, Num)
  <1>1. buf_size \in Nat \ {0} /\ Len(res) \in Nat
    BY LenProperties DEF Types
  <1>2. Num \in Nat /\ Num < UShort
    BY <1>1, FileSliceAssumption DEF Num
  <1> QED
    BY <1>1, <1>2, FileSliceAssumption DEF Formatted, Num

(* What Recv makes of the text that the sender meant to write. *)
LEMMA HeaderRead ==
  ASSUME Types, text = Formatted
  PROVE  /\ Fits => WellFormed(str) /\ ~Throws(NumField(str))
         /\ WellFormed(str) => ~Throws(SizeField(str)) /\ stoul(SizeField(str)) = buf_size
         /\ WellFormed(str) /\ ~Throws(NumField(str)) =>
              /\ Fits => stoul(NumField(str)) = Num
              /\ ~Fits => stoul(NumField(str)) < Num
  <1>1. buf_size \in Nat /\ Num \in Nat /\ Formatted = FormatHeader(buf_size, Num)
    BY NumFacts
  <1> DEFINE F == FormatHeader(buf_size, Num)
             s == header_str(F)
  <1>2. str = s /\ text = F /\ (Fits <=> Len(F) <= HeaderMax)
    BY <1>1 DEF str, Fits
  <1>3. /\ Len(F) <= HeaderMax =>
             WellFormed(s) /\ ~Throws(NumField(s)) /\ stoul(NumField(s)) = Num
        /\ WellFormed(s) => ~Throws(SizeField(s)) /\ stoul(SizeField(s)) = buf_size
        /\ WellFormed(s) /\ ~Throws(NumField(s)) /\ ~(Len(F) <= HeaderMax) =>
             stoul(NumField(s)) < Num
    BY <1>1, HeaderParsed
  <1> HIDE DEF F, s
  <1> QED
    BY <1>2, <1>3

(* The text is made of characters, and there are some. *)
LEMMA TextType ==
  ASSUME Types, NEW t \in {Formatted} \cup {g \in Garbage : Len(g) = Len(Formatted)}
  PROVE  t \in Seq(Char) /\ Len(t) > 0
  <1>1. PICK a \in Nat, b \in Nat : Formatted = FormatHeader(a, b)
    BY NumFacts
  <1>2. /\ FormatHeader(a, b) \in Seq(Char)
        /\ Len(FormatHeader(a, b)) = Len(Digits[a]) + Len(Digits[b]) + 2
        /\ Len(Digits[a]) \in Nat \ {0} /\ Len(Digits[b]) \in Nat \ {0}
    BY FormatFacts
  <1>3. Formatted \in Seq(Char)
    BY <1>1, <1>2
  <1>4. Len(Formatted) > 0
    <2>1. PICK m \in Nat, n \in Nat : Len(FormatHeader(a, b)) = m + n + 2
      BY <1>2
    <2>2. Len(FormatHeader(a, b)) > 0
      BY <2>1
    <2> QED
      BY <1>1, <2>2
  <1>5. Garbage \subseteq Seq(Char)
    BY TransferAssumption DEF Char
  <1>6. t = Formatted \/ (t \in Garbage /\ Len(t) = Len(Formatted))
    OBVIOUS
  <1> QED
    BY <1>3, <1>4, <1>5, <1>6

(* Nothing changes the cut once the header is written. *)
LEMMA CutFrame ==
  ASSUME CutInv, stage # "split", UNCHANGED vars, UNCHANGED text
  PROVE  CutInv'
  BY DEF CutInv, Types, SegmentInv, IndexInv, WalkInv, HeaderLenFits, Cut, Q, Wanted, Formatted,
         vars, inputs
-----------------------------------------------------------------------------
(* Nothing has happened. *)
LEMMA InitTInv == TransferInit => TInv
  <1> SUFFICES ASSUME TransferInit
               PROVE  TInv
    OBVIOUS
  <1>1. IInv /\ pc = "start" /\ slices_num = 0 /\ stage = "split"
    BY InitIInv DEF TransferInit, Init
  <1>2. SplitInv
    BY <1>1 DEF TransferInit, SplitInv
  <1>3. CutInv /\ UnreadInv /\ ParsedInv
    BY <1>1 DEF CutInv, UnreadInv, ParsedInv, Parsed
  <1>4. OutInv /\ CountInv
    BY <1>1 DEF TransferInit, OutInv, CountInv, Parsed
  <1> QED
    BY <1>2, <1>3, <1>4 DEF TInv

(* SplitFile is done before the header is written. *)
LEMMA SplitTInv ==
  ASSUME TInv, Split
  PROVE  TInv'
  <1>1. stage = "split"
    BY DEF Split, ChooseSegment, PushSlice, TInv, CutInv
  <1>2. IInv
    BY <1>1 DEF TInv, SplitInv
  <1>3. IInv'
    BY <1>2, ChooseIInv, PushIInv DEF Split
  <1>4. pc' # "received" /\ slices_num' = slices_num
    BY DEF Split, ChooseSegment, PushSlice
  <1>5. pc' = "sent" => res' # <<>>
    <2>1. CASE ChooseSegment
      BY <2>1 DEF ChooseSegment
    <2>2. CASE PushSlice
      <3> DEFINE e == [index |-> index, len |-> SliceSize]
      <3>1. res' = Append(res, e)
        BY <2>2 DEF PushSlice
      <3>2. res \in Seq([index : 0 .. UShort - 1, len : Nat])
        BY <1>2 DEF IInv, Types
      <3>3. res' # <<>>
        BY <3>1, <3>2
      <3> QED
        BY <3>3
    <2> QED
      BY <2>1, <2>2 DEF Split
  <1>6. UNCHANGED transferVars
    BY DEF Split
  <1>7. SplitInv'
    BY <1>1, <1>3, <1>4, <1>5, <1>6 DEF TInv, SplitInv, transferVars, sendVars, recvVars
  <1>8. /\ stage' = "split" /\ slices_th_num_' = 0 /\ file_size_' = 0
        /\ arrived' = {} /\ written' = {} /\ collecting' = {}
    BY <1>1, <1>6 DEF TInv, SplitInv, transferVars, sendVars, recvVars
  <1>9. CutInv' /\ UnreadInv' /\ ParsedInv'
    BY <1>8 DEF CutInv, UnreadInv, ParsedInv, Parsed
  <1>10. OutInv' /\ CountInv'
    BY <1>8 DEF OutInv, CountInv, Parsed
  <1> QED
    BY <1>7, <1>9, <1>10 DEF TInv

(* The header is written, whole or not; slices_th_num_ counts its connection. *)
LEMMA WriteTInv ==
  ASSUME TInv, WriteHeader
  PROVE  TInv'
  <1>1. /\ stage = "split" /\ pc = "sent" /\ stage' = "header" /\ slices_th_num_' = 1
        /\ text' \in {Formatted} \cup {g \in Garbage : Len(g) = Len(Formatted)}
        /\ UNCHANGED <<vars, arrived, file_size_, written, out, collecting>>
    BY DEF WriteHeader
  <1>2. /\ IInv /\ slices_num = 0 /\ res # <<>> /\ file_size_ = 0
        /\ arrived = {} /\ written = {} /\ collecting = {} /\ out = <<>>
    BY <1>1 DEF TInv, SplitInv
  <1>3. text' \in Seq(Char) /\ Len(text') > 0
    BY <1>1, <1>2, TextType DEF IInv
  <1>4. IInv'
    BY <1>1, <1>2, NextIInv
  <1>5. CutInv'
    <2>1. (Types /\ SegmentInv /\ IndexInv /\ WalkInv /\ HeaderLenFits)'
      BY <1>4 DEF IInv
    <2>2. pc' = "sent" /\ res' # <<>>
      BY <1>1, <1>2 DEF vars
    <2> QED
      BY <1>1, <1>3, <2>1, <2>2 DEF CutInv
  <1>6. UnreadInv'
    BY <1>1, <1>2 DEF UnreadInv, vars
  <1>7. SplitInv' /\ ParsedInv' /\ OutInv'
    BY <1>1, <1>2 DEF SplitInv, ParsedInv, OutInv, Parsed
  <1>8. CountInv'
    <2>1. Cardinality({}) = 0
      BY FS_EmptySet
    <2>2. (0 + 1) % UShort = 1
      BY FileSliceAssumption
    <2>3. arrived' = {} /\ written' = {} /\ collecting' = {}
      BY <1>1, <1>2
    <2> QED
      BY <1>1, <2>1, <2>2, <2>3 DEF CountInv
  <1> QED
    BY <1>5, <1>6, <1>7, <1>8 DEF TInv

(* A header without its S or its hash sign is refused: it was not written whole. *)
LEMMA RefuseTInv ==
  ASSUME TInv, RefuseHeader
  PROVE  TInv'
  <1>1. /\ stage = "header" /\ stage' = "refused" /\ ~WellFormed(str)
        /\ UNCHANGED <<vars, sendVars, recvVars>>
    BY DEF RefuseHeader
  <1>2. Types
    BY <1>1 DEF TInv, CutInv
  <1>3. ~(text = Formatted /\ Fits)
    BY <1>1, <1>2, HeaderRead
  <1>4. Formatted' = Formatted /\ (Fits <=> Fits')
    BY <1>1 DEF Formatted, Fits, vars, inputs
  <1>5. CutInv'
    BY <1>1, <1>4, CutFrame DEF TInv, sendVars
  <1>6. UnreadInv'
    BY <1>1, <1>3, <1>4 DEF TInv, UnreadInv, vars, sendVars, recvVars
  <1>7. SplitInv' /\ ParsedInv' /\ OutInv'
    BY <1>1 DEF TInv, SplitInv, ParsedInv, OutInv, Parsed, recvVars
  <1>8. CountInv'
    BY <1>1 DEF TInv, CountInv, vars, sendVars, recvVars, Ended
  <1> QED
    BY <1>5, <1>6, <1>7, <1>8 DEF TInv

(* stoul() throws only if the header is not the one that was meant, or was cut. *)
LEMMA ThrowTInv ==
  ASSUME TInv, HeaderThrows
  PROVE  TInv'
  <1>1. /\ stage = "header" /\ stage' = "threw" /\ WellFormed(str)
        /\ Throws(SizeField(str)) \/ Throws(NumField(str))
        /\ file_size_' \in {file_size_, stoul(SizeField(str))}
        /\ UNCHANGED <<vars, sendVars, slices_th_num_, written, out, collecting>>
    BY DEF HeaderThrows
  <1>2. Types /\ text \in Seq(Char) /\ Len(text) > 0
    BY <1>1 DEF TInv, CutInv
  <1>3. ~(text = Formatted /\ Fits)
    BY <1>1, <1>2, HeaderRead
  <1>4. Formatted' = Formatted /\ (Fits <=> Fits')
    BY <1>1 DEF Formatted, Fits, vars, inputs
  <1>5. CutInv'
    BY <1>1, <1>4, CutFrame DEF TInv, sendVars
  <1>6. UnreadInv'
    BY <1>1, <1>3, <1>4 DEF TInv, UnreadInv, vars, sendVars
  <1>7. file_size_' \in Nat
    BY <1>1, <1>2, FieldTypes DEF str, TInv, OutInv
  <1>8. SplitInv' /\ ParsedInv' /\ OutInv'
    BY <1>1, <1>3, <1>7 DEF SplitInv, ParsedInv, OutInv, Parsed
  <1>9. CountInv'
    BY <1>1 DEF TInv, CountInv, vars, sendVars, Ended
  <1> QED
    BY <1>5, <1>6, <1>8, <1>9 DEF TInv

(* The header is read. *)
LEMMA ParseTInv ==
  ASSUME TInv, ParseHeader
  PROVE  TInv'
  <1> DEFINE num == stoul(NumField(str))
             size == stoul(SizeField(str))
  <1>1. /\ stage = "header" /\ WellFormed(str) /\ ~Throws(NumField(str))
        /\ file_size_' = size
        /\ slices_num' = num
        /\ UNCHANGED <<inputs, segment_size, FLAGS_jobs, rest, index, f_index, res, sendVars,
                       slices_th_num_, written, collecting>>
    BY DEF ParseHeader
  <1>2. Types /\ text \in Seq(Char) /\ Len(text) > 0
    BY <1>1 DEF TInv, CutInv
  <1>3. text = Formatted => size = buf_size /\ (Fits => num = Num) /\ (~Fits => num < Num)
    BY <1>1, <1>2, HeaderRead
  <1>4. buf_size \in Nat
    BY <1>2 DEF Types
  <1>5. size \in Nat /\ num \in Nat
    BY <1>2, FieldTypes DEF str
  <1> HIDE DEF num, size
  <1>6. /\ UNCHANGED <<buf_size, jobs, flag, segment_size, rest, index, f_index, res>>
        /\ UNCHANGED <<text, arrived>>
        /\ Formatted' = Formatted /\ (Fits' <=> Fits) /\ Num' = Num /\ Wanted' = Wanted /\ Q' = Q
    BY <1>1 DEF Formatted, Fits, Num, Wanted, Q, inputs, sendVars
  <1>7. /\ arrived = {} /\ written = {} /\ collecting = {} /\ out = <<>> /\ pc = "sent"
    BY <1>1 DEF TInv, UnreadInv
  <1>8. \/ /\ slices_num' = 0 /\ stage' = "sigfpe" /\ pc' = "sigfpe"
           /\ UNCHANGED <<split_len_, out>>
        \/ /\ slices_num' # 0 /\ stage' = "slices" /\ pc' = "received"
           /\ split_len_' = file_size_' \div slices_num'
           /\ out' = [b \in 0 .. file_size_' - 1 |-> Hole]
    BY DEF ParseHeader, MMapOutputArrowFile
  <1>9. split_len_' \in Nat
    <2>1. ASSUME slices_num' # 0
          PROVE  file_size_' \div slices_num' \in Nat
      <3>1. slices_num' \in Nat \ {0} /\ file_size_' \in Nat
        BY <1>1, <1>5, <2>1
      <3> QED
        BY <3>1, DivMod
    <2> QED
      BY <1>2, <1>8, <2>1 DEF Types
  <1>10. CutInv'
    <2>1. Types'
      BY <1>1, <1>2, <1>5, <1>6, <1>8, <1>9 DEF Types
    <2>2. (SegmentInv /\ WalkInv)'
      BY <1>1, <1>6, <1>7, <1>8 DEF TInv, CutInv, SegmentInv, WalkInv, Cut
    <2>3. (IndexInv /\ HeaderLenFits)'
      BY <1>1, <1>6 DEF TInv, CutInv, IndexInv, HeaderLenFits
    <2>4. res' # <<>> /\ text' \in Seq(Char) /\ Len(text') > 0
      BY <1>1, <1>2, <1>6 DEF TInv, CutInv
    <2> QED
      BY <1>8, <2>1, <2>2, <2>3, <2>4 DEF CutInv
  <1>11. UnreadInv'
    BY <1>1, <1>6, <1>7, <1>8 DEF UnreadInv
  <1>12. ParsedInv'
    BY <1>1, <1>3, <1>6, <1>8 DEF ParsedInv, Parsed
  <1>13. SplitInv'
    BY <1>8 DEF SplitInv
  <1>14. OutInv'
    <2>1. Hole \in 0 .. buf_size + 1
      BY <1>4 DEF Hole
    <2>2. stage' # "sigfpe" => out' \in [0 .. file_size_' - 1 -> 0 .. buf_size + 1]
      BY <1>8, <2>1
    <2> QED
      BY <1>1, <1>5, <1>6, <2>2 DEF OutInv
  <1>15. CountInv'
    BY <1>1, <1>6, <1>8 DEF TInv, CountInv, Ended
  <1> QED
    BY <1>10, <1>11, <1>12, <1>13, <1>14, <1>15 DEF TInv

(* From here on only the slices move. *)
LEMMA ReceivingFrame ==
  ASSUME TInv, Receiving, UNCHANGED <<vars, text, file_size_>>,
         stage' \in {"slices", "collect", "reported", "overrun"}
  PROVE  SplitInv' /\ CutInv' /\ UnreadInv' /\ ParsedInv'
  <1>1. stage \in {"slices", "collect", "reported"}
    BY DEF Receiving
  <1>2. CutInv'
    BY <1>1, CutFrame DEF TInv
  <1>3. /\ UNCHANGED <<buf_size, res, text, file_size_, slices_num, split_len_, pc>>
        /\ Formatted' = Formatted /\ (Fits' <=> Fits) /\ Num' = Num
    BY DEF Formatted, Fits, Num, vars, inputs
  <1>4. ParsedInv'
    BY <1>1, <1>3 DEF TInv, ParsedInv, Parsed
  <1>5. SplitInv' /\ UnreadInv'
    BY DEF SplitInv, UnreadInv
  <1> QED
    BY <1>2, <1>4, <1>5

(* One more connection; the count wraps like the number of slices. *)
LEMMA ArriveTInv ==
  ASSUME TInv, NEW i \in 1 .. Len(res), Arrive(i)
  PROVE  TInv'
  <1>1. /\ Receiving /\ i \notin arrived /\ arrived' = arrived \cup {i}
        /\ slices_th_num_' = (slices_th_num_ + 1) % UShort
        /\ stage' = stage \/ stage' = "overrun"
        /\ UNCHANGED <<vars, text, file_size_, written, out, collecting>>
    BY DEF Arrive
  <1>2. stage \in {"slices", "collect", "reported"}
        /\ stage' \in {"slices", "collect", "reported", "overrun"}
    BY <1>1 DEF Receiving
  <1>3. SplitInv' /\ CutInv' /\ UnreadInv' /\ ParsedInv'
    BY <1>1, <1>2, ReceivingFrame
  <1>4. OutInv'
    BY <1>1, <1>2 DEF TInv, OutInv, Parsed, vars, inputs
  <1>5. CountInv'
    <2>1. Len(res) \in Nat
      BY <1>2, NumFacts DEF TInv, CutInv
    <2>2. IsFiniteSet(1 .. Len(res)) /\ arrived \subseteq 1 .. Len(res)
      BY <2>1, FS_Interval DEF TInv, CountInv
    <2>3. IsFiniteSet(arrived)
      BY <2>2, FS_Subset
    <2> DEFINE n == Cardinality(arrived)
    <2>4. n \in Nat /\ Cardinality(arrived') = n + 1
      BY <1>1, <2>3, FS_CardinalityType, FS_AddElement
    <2>5. slices_th_num_ = (n + 1) % UShort
      BY <1>2 DEF TInv, CountInv
    <2> HIDE DEF n
    <2>6. (((n + 1) % UShort) + 1) % UShort = ((n + 1) + 1) % UShort
      <3>1. n + 1 \in Nat
        BY <2>4
      <3> QED
        BY <3>1, ModSucc, FileSliceAssumption
    <2>7. slices_th_num_' = (Cardinality(arrived') + 1) % UShort
      BY <1>1, <2>4, <2>5, <2>6
    <2>8. arrived' \subseteq 1 .. Len(res')
      BY <1>1, <2>2 DEF vars
    <2>9. written' \subseteq arrived' /\ collecting' \subseteq arrived'
      BY <1>1 DEF TInv, CountInv
    <2> QED
      BY <1>2, <2>7, <2>8, <2>9 DEF CountInv, Ended
  <1> QED
    BY <1>3, <1>4, <1>5 DEF TInv

(* The bytes of the file. *)
LEMMA ByteFacts ==
  ASSUME buf_size \in Nat, NEW b \in Nat
  PROVE  Byte(b) \in 0 .. buf_size + 1 /\ (b < buf_size => Byte(b) = b + 1)
  BY DEF Byte

(* Where a slice is read and written. *)
LEMMA SourceFacts ==
  ASSUME Types, NEW i \in 1 .. Len(res)
  PROVE  /\ res[i] \in [index : 0 .. UShort - 1, len : Nat]
         /\ Source(res[i]) \in Nat /\ Target(res[i]) \in Nat /\ res[i].len \in Nat
  <1>1. res[i] \in [index : 0 .. UShort - 1, len : Nat]
    BY ElementOfSeq DEF Types
  <1>2. res[i].index \in Nat /\ res[i].len \in Nat /\ segment_size \in Nat /\ split_len_ \in Nat
    BY <1>1, FileSliceAssumption DEF Types
  <1> QED
    BY <1>1, <1>2 DEF Source, Target

(* A slice is written, inside of the output file only. *)
LEMMA PlaceTInv ==
  ASSUME TInv, NEW i \in 1 .. Len(res), Place(i)
  PROVE  TInv'
  <1>1. /\ Receiving /\ i \in arrived \ written /\ written' = written \cup {i}
        /\ out' = PlaceAt(Target(res[i]), res[i])
        /\ stage' = stage \/ stage' = "overrun"
        /\ UNCHANGED <<vars, sendVars, file_size_, slices_th_num_, collecting>>
    BY DEF Place
  <1>2. stage \in {"slices", "collect", "reported"}
        /\ stage' \in {"slices", "collect", "reported", "overrun"}
    BY <1>1 DEF Receiving
  <1>3. SplitInv' /\ CutInv' /\ UnreadInv' /\ ParsedInv'
    BY <1>1, <1>2, ReceivingFrame DEF sendVars
  <1>4. OutInv'
    <2>1. Types /\ out \in [0 .. file_size_ - 1 -> 0 .. buf_size + 1] /\ file_size_ \in Nat
      BY <1>2 DEF TInv, CutInv, OutInv, Parsed
    <2> DEFINE s == res[i]
               f == Target(s)
    <2>2. f \in Nat /\ Source(s) \in Nat /\ s.len \in Nat /\ buf_size \in Nat
      BY <2>1, SourceFacts DEF Types
    <2>3. out' = [b \in 0 .. file_size_ - 1 |-> IF f <= b /\ b < f + s.len
                                                THEN Byte(Source(s) + (b - f))
                                                ELSE out[b]]
      BY <1>1, <2>1 DEF PlaceAt
    <2> HIDE DEF s, f
    <2>4. ASSUME NEW b \in 0 .. file_size_ - 1
          PROVE  (IF f <= b /\ b < f + s.len THEN Byte(Source(s) + (b - f)) ELSE out[b])
                   \in 0 .. buf_size + 1
      <3>1. f <= b => Source(s) + (b - f) \in Nat
        BY <2>2
      <3>2. f <= b => Byte(Source(s) + (b - f)) \in 0 .. buf_size + 1
        BY <2>2, <3>1, ByteFacts
      <3>3. out[b] \in 0 .. buf_size + 1
        BY <2>1
      <3> QED
        BY <3>2, <3>3
    <2>5. out' \in [0 .. file_size_ - 1 -> 0 .. buf_size + 1]
      BY <2>3, <2>4
    <2> QED
      BY <1>1, <2>1, <2>5 DEF OutInv, vars, inputs
  <1>5. CountInv'
    BY <1>1, <1>2 DEF TInv, CountInv, Ended, vars, sendVars
  <1> QED
    BY <1>3, <1>4, <1>5 DEF TInv

(* The supervisor takes what has arrived. *)
LEMMA SuperviseTInv ==
  ASSUME TInv, WaitEnds \/ Report
  PROVE  TInv'
  <1>1. /\ Receiving /\ stage' \in {"collect", "reported"} /\ collecting' \in {arrived, collecting}
        /\ UNCHANGED <<vars, sendVars, file_size_, slices_th_num_, written, out>>
    BY DEF WaitEnds, Report, Receiving, recvVars
  <1>2. SplitInv' /\ CutInv' /\ UnreadInv' /\ ParsedInv'
    BY <1>1, ReceivingFrame DEF sendVars
  <1>3. OutInv'
    BY <1>1 DEF TInv, OutInv, Parsed, Receiving, vars, inputs
  <1>4. CountInv'
    BY <1>1 DEF TInv, CountInv, Receiving, Ended, vars, sendVars
  <1> QED
    BY <1>2, <1>3, <1>4 DEF TInv

(* Validation leaves the transfer alone. *)
LEMMA StutterTInv ==
  ASSUME TInv, UNCHANGED <<vars, transferVars>>
  PROVE  TInv'
  <1>1. /\ UNCHANGED vars
        /\ UNCHANGED <<stage, text, arrived, file_size_, slices_th_num_, written, out, collecting>>
    BY DEF transferVars, sendVars, recvVars
  <1>2. IInv => IInv'
    BY <1>1, NextIInv
  <1>3. /\ UNCHANGED <<buf_size, res, slices_num, split_len_, pc>>
        /\ Formatted' = Formatted /\ (Fits' <=> Fits) /\ Num' = Num
    BY <1>1 DEF Formatted, Fits, Num, vars, inputs
  <1>4. SplitInv'
    BY <1>1, <1>2, <1>3 DEF TInv, SplitInv
  <1>5. CutInv'
    <2>1. CASE stage = "split"
      BY <1>1, <2>1 DEF CutInv
    <2>2. CASE stage # "split"
      BY <1>1, <2>2, CutFrame DEF TInv
    <2> QED
      BY <2>1, <2>2
  <1>6. UnreadInv' /\ ParsedInv'
    BY <1>1, <1>3 DEF TInv, UnreadInv, ParsedInv, Parsed
  <1>7. OutInv' /\ CountInv'
    BY <1>1, <1>3 DEF TInv, OutInv, CountInv, Parsed
  <1> QED
    BY <1>4, <1>5, <1>6, <1>7 DEF TInv

(* TInv is inductive. *)
LEMMA NextTInv == TInv /\ [ValidationNext]_allVars => TInv'
  <1> SUFFICES ASSUME TInv, [ValidationNext]_allVars
               PROVE  TInv'
    OBVIOUS
  <1>1. CASE TransferNext
    BY <1>1, SplitTInv, WriteTInv, RefuseTInv, ThrowTInv, ParseTInv, ArriveTInv, PlaceTInv,
       SuperviseTInv DEF TransferNext, Progress
  <1>2. CASE UNCHANGED <<vars, transferVars>>
    BY <1>2, StutterTInv
  <1> QED
    BY <1>1, <1>2 DEF ValidationNext, InTransfer, allVars, createDataFile, getValidResult,
       OpenTable, ReadBatch, ReadEnds, Sample, SendResult

(* HeaderReadExactlyWhen: given the header that was meant, the receiver    *)
(* knows what it is to receive exactly when nothing wrapped or was cut off. *)
THEOREM HeaderExact == ValidationSpec => []HeaderReadExactlyWhen
  <1>1. TInv => HeaderReadExactlyWhen
    <2> SUFFICES ASSUME TInv, stage \notin {"split", "header"}, text = Formatted
                 PROVE  file_size_ = buf_size /\ slices_num = Len(res)
                          <=> Len(Formatted) <= HeaderMax /\ Len(res) < UShort
      BY DEF HeaderReadExactlyWhen
    <2>1. Types /\ res # <<>>
      BY DEF TInv, CutInv
    <2>2. Len(res) \in Nat \ {0} /\ Num \in Nat /\ Num < UShort /\ slices_num \in Nat
      BY <2>1, NumFacts, EmptySeq, FileSliceAssumption DEF Types
    <2>3. /\ Len(res) < UShort => Num = Len(res)
          /\ Num <= Len(res)
      <3>1. PICK n \in Nat : n = Len(res)
        BY <2>2
      <3>2. n % UShort <= n /\ (n < UShort => n % UShort = n)
        <4>1. /\ n % UShort \in Nat /\ n \div UShort \in Nat
              /\ n = (n \div UShort) * UShort + (n % UShort)
          BY DivMod, FileSliceAssumption
        <4>2. (n \div UShort) * UShort \in Nat
          BY <4>1, FileSliceAssumption
        <4>3. n % UShort <= n
          BY <4>1, <4>2
        <4> QED
          BY <4>3, SmallMod, FileSliceAssumption
      <3> QED
        BY <3>1, <3>2 DEF Num
    <2>4. CASE stage \in {"refused", "threw"}
      <3>1. slices_num = 0 /\ ~Fits
        BY <2>4 DEF TInv, UnreadInv
      <3> QED
        BY <2>2, <3>1 DEF Fits
    <2>5. CASE Parsed
      <3>1. file_size_ = buf_size /\ (Fits => slices_num = Num) /\ (~Fits => slices_num < Num)
        BY <2>5 DEF TInv, ParsedInv
      <3>2. slices_num = Len(res) <=> Fits /\ Len(res) < UShort
        BY <2>2, <2>3, <3>1, FileSliceAssumption
      <3> QED
        BY <3>1, <3>2 DEF Fits
    <2> QED
      BY <2>4, <2>5 DEF TInv, CountInv, Ended, Parsed
  <1>2. ValidationInit => TInv
    BY InitTInv DEF ValidationInit
  <1> QED
    BY <1>1, <1>2, NextTInv, PTL DEF ValidationSpec
-----------------------------------------------------------------------------
(* If the file is to be copied, the header that is on its way is the one   *)
(* that was meant, and it fits.                                            *)
LEMMA PromisedCut ==
  ASSUME TInv, Promised, stage # "split", pc # "sigfpe"
  PROVE  /\ text = Formatted /\ Fits
         /\ Cut /\ Num = Len(res)
         /\ segment_size <= buf_size /\ Len(res) \in Nat
         /\ Len(res) < UShort /\ Len(res) <= ShortMax /\ ShortMax + 1 < UShort
         /\ rest < Len(res) \/ Len(res) = 1
  <1> USE FileSliceAssumption
  <1> DEFINE w == IF Wanted > IntMax THEN IntMax ELSE Wanted
             n == buf_size \div w
  <1>1. /\ w \in 1 .. buf_size /\ n <= ShortMax /\ (buf_size % w < n \/ n = 1)
        /\ Len(FormatHeader(buf_size, n)) <= HeaderMax
        /\ text \in {<<>>, FormatHeader(buf_size, n)}
    BY DEF Promised
  <1>2. /\ Types /\ SegmentInv /\ IndexInv /\ WalkInv /\ Len(text) > 0
        /\ pc \in {"sent", "received"}
    BY DEF TInv, CutInv
  <1>3. segment_size = w /\ rest = buf_size % segment_size
    BY <1>2 DEF SegmentInv
  <1> HIDE DEF w
  <1>4. buf_size \in Nat /\ segment_size <= buf_size /\ w \in Nat \ {0}
    BY <1>1, <1>2, <1>3 DEF Types
  <1>5. Cut /\ Len(res) = n
    BY <1>2, <1>3, <1>4 DEF WalkInv, Cut, Q
  <1>6. n \in Nat
    BY <1>4, DivMod
  <1>7. ShortMax + 1 < UShort /\ ShortMax \in Int
    BY DEF ShortMax
  <1> HIDE DEF n
  <1>8. n < UShort
    BY <1>1, <1>6, <1>7
  <1>9. Num = n
    BY <1>5, <1>6, <1>8, SmallMod DEF Num
  <1>10. Formatted = FormatHeader(buf_size, n)
    BY <1>2, <1>9, NumFacts
  <1>11. text # <<>>
    BY <1>2, EmptySeq
  <1>12. text = Formatted /\ Fits
    BY <1>1, <1>10, <1>11 DEF Fits
  <1>13. rest < Len(res) \/ Len(res) = 1
    BY <1>1, <1>3, <1>5
  <1> QED
    BY <1>1, <1>4, <1>5, <1>6, <1>7, <1>8, <1>9, <1>12, <1>13

(* What is promised of the slices holds once the receiver waits for them. *)
LEMMA PromisedFacts ==
  ASSUME TInv, Promised, Receiving
  PROVE  /\ IInv /\ Cut /\ pc = "received"
         /\ segment_size <= buf_size /\ Len(res) \in Nat
         /\ Len(res) < UShort /\ Len(res) <= ShortMax /\ ShortMax + 1 < UShort
         /\ slices_num = Len(res) /\ file_size_ = buf_size
         /\ Restored
  <1>1. stage \in {"slices", "collect", "reported"}
    BY DEF Receiving
  <1>2. /\ text = Formatted /\ Fits
        /\ Cut /\ Num = Len(res)
        /\ segment_size <= buf_size /\ Len(res) \in Nat
        /\ Len(res) < UShort /\ Len(res) <= ShortMax /\ ShortMax + 1 < UShort
        /\ rest < Len(res) \/ Len(res) = 1
    BY <1>1, PromisedCut DEF TInv, ParsedInv, Parsed
  <1>3. /\ Types /\ SegmentInv /\ IndexInv /\ WalkInv /\ HeaderLenFits
        /\ pc = "received" /\ slices_num # 0 /\ split_len_ = file_size_ \div slices_num
        /\ file_size_ = buf_size /\ slices_num = Num
    BY <1>1, <1>2 DEF TInv, CutInv, ParsedInv, Parsed
  <1>4. slices_num = Len(res) /\ split_len_ = buf_size \div slices_num
    BY <1>2, <1>3
  <1>5. IInv
    BY <1>2, <1>3, <1>4 DEF IInv, ReceivedInv, FaultInv, Num
  <1>6. Restored
    BY <1>2, <1>3, <1>5, RestoredIff
  <1> QED
    BY <1>2, <1>3, <1>4, <1>5, <1>6

(* Every byte of the file is in one slice, and every slice has one. *)
LEMMA SlicesPartition ==
  ASSUME TInv, Promised, Receiving
  PROVE  /\ \A i \in 1 .. Len(res) : /\ Source(res[i]) \in Nat /\ res[i].len \in Nat \ {0}
                                     /\ Source(res[i]) + res[i].len <= buf_size
                                     /\ Target(res[i]) = Source(res[i])
         /\ \A b \in 0 .. buf_size - 1 : \E i \in 1 .. Len(res) : InSlice(i, b)
         /\ \A b \in 0 .. buf_size - 1 : \A i, j \in 1 .. Len(res) :
              InSlice(i, b) /\ InSlice(j, b) => i = j
  <1>1. /\ IInv /\ Cut /\ segment_size <= buf_size /\ Restored
        /\ Len(res) \in Nat /\ Len(res) < UShort
    BY PromisedFacts
  <1>2. Len(res) <= UShort
    BY <1>1, FileSliceAssumption
  <1>3. /\ segment_size \in Nat \ {0} /\ rest \in Nat /\ Len(res) = Q
        /\ \A i \in 1 .. Q : res[i].len = IF i = Q THEN segment_size + rest ELSE segment_size
    BY <1>1, <1>2, CutFacts
  <1>4. ASSUME NEW i \in 1 .. Len(res)
        PROVE  /\ Source(res[i]) \in Nat /\ res[i].len \in Nat \ {0}
               /\ Target(res[i]) = Source(res[i])
    <2>1. res[i].len \in Nat \ {0}
      BY <1>3
    <2>2. Types
      BY <1>1 DEF IInv
    <2> QED
      BY <1>1, <2>1, <2>2, SourceFacts DEF Restored
  <1>5. /\ \A i \in 1 .. Len(res) : Source(res[i]) + res[i].len <= buf_size
        /\ \A b \in 0 .. buf_size - 1 :
             \E i \in 1 .. Len(res) :
               \A j \in 1 .. Len(res) :
                 Source(res[j]) <= b /\ b < Source(res[j]) + res[j].len <=> i = j
    BY <1>1, <1>2, SlicesTile
  <1>6. \A b \in 0 .. buf_size - 1 : \E i \in 1 .. Len(res) :
          \A j \in 1 .. Len(res) : InSlice(j, b) <=> i = j
    BY <1>5, Zenon DEF InSlice
  <1> QED
    BY <1>4, <1>5, <1>6

(* When the supervisor has counted enough, everything has arrived. *)
LEMMA AllArrived ==
  ASSUME TInv, Promised, stage = "slices", Counted
  PROVE  arrived = 1 .. Len(res)
  <1> USE FileSliceAssumption
  <1> DEFINE n == Len(res)
             a == Cardinality(arrived)
  <1>1. n \in Nat /\ n <= ShortMax /\ ShortMax + 1 < UShort /\ slices_num = n
    BY PromisedFacts DEF Receiving
  <1>2. IsFiniteSet(1 .. n) /\ Cardinality(1 .. n) = n
    <2> HIDE DEF n
    <2>1. IsFiniteSet(1 .. n) /\ Cardinality(1 .. n) = IF 1 > n THEN 0 ELSE n - 1 + 1
      <3>1. 1 \in Int /\ n \in Int
        BY <1>1
      <3> QED
        BY <3>1, FS_Interval
    <2>2. (IF 1 > n THEN 0 ELSE n - 1 + 1) = n
      BY <1>1
    <2> QED
      BY <2>1, <2>2
  <1>3. arrived \in SUBSET (1 .. n) /\ slices_th_num_ = (a + 1) % UShort
    BY DEF TInv, CountInv
  <1>4. /\ IsFiniteSet(arrived) /\ a <= Cardinality(1 .. n)
        /\ Cardinality(1 .. n) = a => 1 .. n = arrived
    BY <1>2, <1>3, FS_Subset
  <1>5. a \in Nat
    BY <1>4, FS_CardinalityType
  <1>6. ShortMax \in Int
    BY DEF ShortMax
  <1> HIDE DEF n, a
  <1>7. a + 1 \in Nat /\ a + 1 < UShort
    BY <1>1, <1>2, <1>4, <1>5, <1>6
  <1>8. slices_th_num_ = a + 1
    BY <1>3, <1>7, SmallMod
  <1>9. a + 1 > ShortMax \/ a + 1 >= n + 1
    BY <1>1, <1>8 DEF Counted
  <1>10. a = n
    BY <1>1, <1>2, <1>4, <1>5, <1>6, <1>9
  <1> QED
    BY <1>2, <1>4, <1>10 DEF n
-----------------------------------------------------------------------------
(* Promised does not change once the header has been written. *)
LEMMA PromisedFrame ==
  ASSUME UNCHANGED <<buf_size, jobs, flag, text>>
  PROVE  Promised' <=> Promised
  BY DEF Promised, Wanted

(* A slice is put where nothing has been put, and where it belongs. *)
LEMMA PlaceOut ==
  ASSUME TInv, PlacedInv, Promised, NEW i \in 1 .. Len(res), Place(i)
  PROVE  /\ stage # "reported"
         /\ out = [b \in 0 .. buf_size - 1 |->
                     IF \E j \in written : InSlice(j, b) THEN b + 1 ELSE Hole]
         /\ out' = [b \in 0 .. buf_size - 1 |-> IF InSlice(i, b) THEN b + 1 ELSE out[b]]
         /\ \A b \in 0 .. buf_size - 1 : InSlice(i, b) => out[b] = Hole
  <1>1. Receiving /\ i \in arrived \ written /\ out' = PlaceAt(Target(res[i]), res[i])
    BY DEF Place
  <1>2. written \subseteq 1 .. Len(res)
    BY DEF TInv, CountInv
  <1>3. out = [b \in 0 .. buf_size - 1 |-> IF \E j \in written : InSlice(j, b) THEN b + 1 ELSE Hole]
    BY <1>1 DEF PlacedInv
  <1>4. stage # "reported"
    BY <1>1 DEF PlacedInv
  <1>5. /\ Source(res[i]) \in Nat /\ res[i].len \in Nat /\ Target(res[i]) = Source(res[i])
        /\ Source(res[i]) + res[i].len <= buf_size
    BY <1>1, SlicesPartition
  <1>6. buf_size \in Nat
    BY <1>1, PromisedFacts DEF IInv, Types
  <1>7. ASSUME NEW b \in 0 .. buf_size - 1, InSlice(i, b)
        PROVE  out[b] = Hole
    <2>1. \A j \in written : ~InSlice(j, b)
      BY <1>1, <1>2, <1>7, SlicesPartition
    <2> QED
      BY <1>3, <2>1
  <1>8. out' = [b \in 0 .. buf_size - 1 |-> IF InSlice(i, b) THEN b + 1 ELSE out[b]]
    <2> DEFINE f == Source(res[i])
               l == res[i].len
    <2>1. DOMAIN out = 0 .. buf_size - 1
      BY <1>3
    <2>2. out' = [b \in 0 .. buf_size - 1 |->
                    IF f <= b /\ b < f + l THEN Byte(f + (b - f)) ELSE out[b]]
      BY <1>1, <1>5, <2>1 DEF PlaceAt
    <2>3. \A b \in 0 .. buf_size - 1 : Byte(f + (b - f)) = b + 1
      <3> SUFFICES ASSUME NEW b \in 0 .. buf_size - 1
                   PROVE  Byte(f + (b - f)) = b + 1
        OBVIOUS
      <3>1. f + (b - f) = b /\ b \in Nat /\ b < buf_size
        BY <1>5, <1>6
      <3> QED
        BY <1>6, <3>1, ByteFacts
    <2>4. \A b : InSlice(i, b) <=> f <= b /\ b < f + l
      BY DEF InSlice
    <2> HIDE DEF f, l
    <2> QED
      BY <2>2, <2>3, <2>4
  <1> QED
    BY <1>3, <1>4, <1>7, <1>8

(* Placing a slice. *)
LEMMA PlacePlaced ==
  ASSUME TInv, PlacedInv, NEW i \in 1 .. Len(res), Place(i)
  PROVE  PlacedInv'
  <1> SUFFICES ASSUME Promised', Receiving'
               PROVE  PlacedInv'
    BY DEF PlacedInv
  <1>1. /\ Receiving /\ written' = written \cup {i}
        /\ stage' = stage \/ stage' = "overrun"
        /\ UNCHANGED <<vars, sendVars, collecting>>
    BY DEF Place
  <1>2. UNCHANGED <<buf_size, jobs, flag, text, res, segment_size>>
    BY <1>1 DEF vars, inputs, sendVars
  <1>3. Promised /\ stage' = stage
    BY <1>1, <1>2, PromisedFrame DEF Receiving
  <1>4. /\ stage # "reported"
        /\ out = [b \in 0 .. buf_size - 1 |->
                    IF \E j \in written : InSlice(j, b) THEN b + 1 ELSE Hole]
        /\ out' = [b \in 0 .. buf_size - 1 |-> IF InSlice(i, b) THEN b + 1 ELSE out[b]]
    BY <1>3, PlaceOut
  <1>5. \A j, b : InSlice(j, b)' <=> InSlice(j, b)
    BY <1>2 DEF InSlice, Source
  <1>6. out' = [b \in 0 .. buf_size - 1 |->
                  IF \E j \in written' : InSlice(j, b) THEN b + 1 ELSE Hole]
    BY <1>1, <1>4
  <1>7. out' = [b \in 0 .. buf_size' - 1 |->
                  IF \E j \in written' : InSlice(j, b)' THEN b + 1 ELSE Hole]
    BY <1>2, <1>5, <1>6
  <1>8. stage # "slices" => collecting = 1 .. Len(res)
    BY <1>1, <1>3 DEF PlacedInv
  <1> QED
    BY <1>1, <1>2, <1>3, <1>4, <1>7, <1>8 DEF PlacedInv

(* Steps that leave out and written alone. *)
LEMMA PlacedFrame ==
  ASSUME PlacedInv, Receiving, UNCHANGED <<vars, text, written, out>>,
         Promised /\ stage' # "slices" => collecting' = 1 .. Len(res),
         Promised /\ stage' = "reported" => written = 1 .. Len(res)
  PROVE  PlacedInv'
  <1> SUFFICES ASSUME Promised', Receiving'
               PROVE  PlacedInv'
    BY DEF PlacedInv
  <1>1. UNCHANGED <<buf_size, jobs, flag, text, res, segment_size>>
    BY DEF vars, inputs
  <1>2. Promised
    BY <1>1, PromisedFrame
  <1>3. \A j, b : InSlice(j, b)' <=> InSlice(j, b)
    BY <1>1 DEF InSlice, Source
  <1>4. out = [b \in 0 .. buf_size - 1 |-> IF \E j \in written : InSlice(j, b) THEN b + 1 ELSE Hole]
    BY <1>2 DEF PlacedInv
  <1>5. out' = [b \in 0 .. buf_size' - 1 |->
                  IF \E j \in written' : InSlice(j, b)' THEN b + 1 ELSE Hole]
    BY <1>1, <1>3, <1>4
  <1> QED
    BY <1>1, <1>2, <1>5 DEF PlacedInv

(* PlacedInv is inductive relative to TInv. *)
LEMMA NextPlaced == TInv /\ PlacedInv /\ [ValidationNext]_allVars => PlacedInv'
  <1> SUFFICES ASSUME TInv, PlacedInv, [ValidationNext]_allVars
               PROVE  PlacedInv'
    OBVIOUS
  <1>1. CASE Split \/ WriteHeader \/ RefuseHeader \/ HeaderThrows
    <2>1. stage' \in {"split", "header", "refused", "threw"}
      BY <1>1 DEF Split, ChooseSegment, PushSlice, WriteHeader, RefuseHeader, HeaderThrows,
         transferVars, TInv, CutInv
    <2> QED
      BY <2>1 DEF PlacedInv, Receiving
  <1>2. CASE ParseHeader
    <2>1. stage' \in {"sigfpe", "slices"} /\ written' = written
          /\ (stage' = "slices" => out' = [b \in 0 .. file_size_' - 1 |-> Hole])
          /\ stage = "header"
      BY <1>2 DEF ParseHeader, MMapOutputArrowFile
    <2>2. written = {}
      BY <2>1 DEF TInv, UnreadInv
    <2> SUFFICES ASSUME stage' = "slices", Promised'
                 PROVE  PlacedInv'
      BY <2>1 DEF PlacedInv, Receiving
    <2>3. file_size_' = buf_size'
      <3>1. /\ TInv' /\ UNCHANGED <<buf_size, jobs, flag, text, res>>
            /\ stage # "split" /\ pc # "sigfpe"
        BY <1>2, <2>1, ParseTInv DEF ParseHeader, inputs, sendVars, TInv, UnreadInv
      <3>2. text = Formatted
        BY <3>1, PromisedFrame, PromisedCut
      <3>3. text' = Formatted'
        BY <3>1, <3>2 DEF Formatted
      <3> QED
        BY <3>1, <3>3 DEF TInv, ParsedInv, Parsed
    <2>4. out' = [b \in 0 .. buf_size' - 1 |->
                    IF \E j \in written' : InSlice(j, b)' THEN b + 1 ELSE Hole]
      BY <2>1, <2>2, <2>3
    <2> QED
      BY <2>4 DEF PlacedInv
  <1>3. CASE \E i \in 1 .. Len(res) : Arrive(i)
    <2>1. /\ Receiving /\ UNCHANGED <<vars, text, written, out, collecting>>
          /\ stage' = stage \/ stage' = "overrun"
      BY <1>3 DEF Arrive
    <2> SUFFICES ASSUME stage' = stage
                 PROVE  PlacedInv'
      BY <2>1 DEF PlacedInv, Receiving
    <2>2. Promised /\ stage' # "slices" => collecting' = 1 .. Len(res)
      BY <2>1 DEF PlacedInv
    <2>3. Promised /\ stage' = "reported" => written = 1 .. Len(res)
      BY <2>1 DEF PlacedInv
    <2> QED
      BY <2>1, <2>2, <2>3, PlacedFrame
  <1>4. CASE \E i \in 1 .. Len(res) : Place(i)
    BY <1>4, PlacePlaced
  <1>5. CASE WaitEnds
    <2>1. /\ Receiving /\ stage = "slices" /\ stage' = "collect" /\ Counted /\ collecting' = arrived
          /\ UNCHANGED <<vars, text, written, out>>
      BY <1>5 DEF WaitEnds, Receiving, sendVars
    <2>2. Promised => collecting' = 1 .. Len(res)
      BY <2>1, AllArrived
    <2> QED
      BY <2>1, <2>2, PlacedFrame
  <1>6. CASE Report
    <2>1. /\ Receiving /\ stage = "collect" /\ stage' = "reported" /\ collecting \subseteq written
          /\ UNCHANGED <<vars, text, written, out, collecting>>
      BY <1>6 DEF Report, Receiving, sendVars, recvVars
    <2>2. Promised => collecting = 1 .. Len(res)
      BY <2>1 DEF PlacedInv
    <2>3. written \subseteq 1 .. Len(res)
      BY DEF TInv, CountInv
    <2>4. Promised => written = 1 .. Len(res)
      BY <2>1, <2>2, <2>3
    <2> QED
      BY <2>1, <2>2, <2>4, PlacedFrame
  <1>7. CASE UNCHANGED <<vars, transferVars>>
    <2>1. UNCHANGED <<vars, text, written, out, collecting, stage>>
      BY <1>7 DEF transferVars, sendVars, recvVars
    <2> SUFFICES ASSUME Receiving
                 PROVE  PlacedInv'
      BY <2>1 DEF PlacedInv, Receiving
    <2>2. Promised /\ stage' # "slices" => collecting' = 1 .. Len(res)
      BY <2>1 DEF PlacedInv
    <2>3. Promised /\ stage' = "reported" => written = 1 .. Len(res)
      BY <2>1 DEF PlacedInv
    <2> QED
      BY <2>1, <2>2, <2>3, PlacedFrame
  <1>8. TransferNext \/ UNCHANGED <<vars, transferVars>>
    BY DEF ValidationNext, InTransfer, allVars, createDataFile, getValidResult, OpenTable,
          ReadBatch,
       ReadEnds, Sample, SendResult
  <1> QED
    BY <1>1, <1>2, <1>3, <1>4, <1>5, <1>6, <1>7, <1>8 DEF TransferNext, Progress

(* What has been reported is complete. *)
LEMMA Copied ==
  ASSUME TInv, PlacedInv, Promised, Receiving, written = 1 .. Len(res)
  PROVE  out = [b \in 0 .. buf_size - 1 |-> b + 1]
  <1>1. out = [b \in 0 .. buf_size - 1 |-> IF \E j \in written : InSlice(j, b) THEN b + 1 ELSE Hole]
    BY DEF PlacedInv
  <1>2. \A b \in 0 .. buf_size - 1 : \E j \in written : InSlice(j, b)
    BY SlicesPartition
  <1> QED
    BY <1>1, <1>2
-----------------------------------------------------------------------------
(* Placing a slice is copying a piece. *)
LEMMA PlaceCopies ==
  ASSUME TInv, PlacedInv, Promised, NEW i \in 1 .. Len(res), Place(i)
  PROVE  C!CopyPiece
  <1>1. Receiving
    BY DEF Place
  <1>2. /\ stage # "reported" /\ stage' # "reported"
    BY PlaceOut DEF Place
  <1>3. /\ out = [b \in 0 .. buf_size - 1 |->
                    IF \E j \in written : InSlice(j, b) THEN b + 1 ELSE Hole]
        /\ out' = [b \in 0 .. buf_size - 1 |-> IF InSlice(i, b) THEN b + 1 ELSE out[b]]
        /\ \A b \in 0 .. buf_size - 1 : InSlice(i, b) => out[b] = Hole
    BY PlaceOut
  <1> DEFINE first == Source(res[i])
             last == first + res[i].len - 1
  <1>4. /\ first \in Nat /\ res[i].len \in Nat \ {0} /\ buf_size \in Nat
        /\ first + res[i].len <= buf_size
    BY <1>1, SlicesPartition, PromisedFacts DEF IInv, Types
  <1>5. first \in 0 .. buf_size - 1 /\ last \in 0 .. buf_size - 1 /\ first <= last
    BY <1>4
  <1>6. \A b \in 0 .. buf_size - 1 : InSlice(i, b) <=> b \in first .. last
    BY <1>4 DEF InSlice
  <1>7. \A b \in first .. last : b \in 0 .. buf_size - 1
    BY <1>4, <1>5
  <1> HIDE DEF first, last
  <1>8. \A b \in first .. last : out[b] = Hole
    BY <1>3, <1>6, <1>7
  <1>9. out' = [b \in 0 .. buf_size - 1 |-> IF b \in first .. last THEN b + 1 ELSE out[b]]
    BY <1>3, <1>6
  <1>10. DOMAIN out = 0 .. buf_size - 1
    BY <1>3
  <1> QED
    BY <1>2, <1>5, <1>8, <1>9, <1>10 DEF C!CopyPiece, C!Offsets

(* Every step is one of CopyFile or changes nothing that it shows. *)
LEMMA NextIsCopy ==
  ASSUME TInv, PlacedInv, [ValidationNext]_allVars
  PROVE  [Promised => C!Create \/ C!CopyPiece \/ C!Announce]_<<out, stage = "reported">>
  <1> SUFFICES ASSUME Promised, ~UNCHANGED <<out, stage = "reported">>
               PROVE  C!Create \/ C!CopyPiece \/ C!Announce
    OBVIOUS
  <1>1. TransferNext \/ UNCHANGED <<vars, transferVars>>
    BY DEF ValidationNext, InTransfer, allVars, createDataFile, getValidResult, OpenTable,
          ReadBatch,
       ReadEnds, Sample, SendResult
  <1>2. CASE UNCHANGED <<vars, transferVars>>
    BY <1>2 DEF transferVars, recvVars
  <1>3. CASE Split \/ WriteHeader \/ RefuseHeader \/ HeaderThrows \/ WaitEnds
    BY <1>3 DEF Split, WriteHeader, RefuseHeader, HeaderThrows, WaitEnds, transferVars, recvVars
  <1>4. CASE ParseHeader
    <2>1. stage = "header" /\ stage' \in {"slices", "sigfpe"}
      BY <1>4 DEF ParseHeader
    <2>2. stage' = "slices"
      BY <1>4, <2>1 DEF ParseHeader
    <2>3. /\ TInv' /\ text' = Formatted' /\ buf_size' = buf_size
      <3>1. text = Formatted /\ UNCHANGED <<buf_size, text, res>>
        BY <1>4, <2>1, PromisedCut DEF ParseHeader, inputs, sendVars, TInv, UnreadInv
      <3>2. text' = Formatted'
        BY <3>1 DEF Formatted
      <3> QED
        BY <1>4, <3>1, <3>2, ParseTInv
    <2>4. file_size_' = buf_size' /\ buf_size' = buf_size
      BY <2>2, <2>3 DEF TInv, ParsedInv, Parsed
    <2>5. out' = [b \in 0 .. buf_size - 1 |-> Hole]
      BY <1>4, <2>2, <2>4 DEF ParseHeader, MMapOutputArrowFile
    <2>6. out = <<>>
      BY <2>1 DEF TInv, UnreadInv
    <2>7. DOMAIN out = {}
      BY <2>6
    <2>8. C!Create
      BY <2>1, <2>2, <2>5, <2>7 DEF C!Create, C!Offsets
    <2> QED
      BY <2>8
  <1>5. CASE \E i \in 1 .. Len(res) : Arrive(i)
    <2>1. PICK i \in 1 .. Len(res) : Arrive(i)
      BY <1>5
    <2>2. Receiving /\ out' = out
      BY <2>1 DEF Arrive
    <2>3. ~(Source(res[i]) + res[i].len > buf_size)
      <3>1. /\ Source(res[i]) \in Nat /\ res[i].len \in Nat /\ buf_size \in Nat
            /\ Source(res[i]) + res[i].len <= buf_size
        BY <2>2, SlicesPartition, PromisedFacts DEF IInv, Types
      <3> QED
        BY <3>1
    <2>4. stage' = stage
      BY <2>1, <2>3 DEF Arrive
    <2> QED
      BY <2>2, <2>4
  <1>6. CASE \E i \in 1 .. Len(res) : Place(i)
    BY <1>6, PlaceCopies
  <1>7. CASE Report
    <2>1. /\ Receiving /\ stage = "collect" /\ stage' = "reported" /\ collecting \subseteq written
          /\ out' = out
      BY <1>7 DEF Report, Receiving, recvVars
    <2>2. collecting = 1 .. Len(res)
      BY <2>1 DEF PlacedInv
    <2>3. written \subseteq 1 .. Len(res)
      BY DEF TInv, CountInv
    <2>4. written = 1 .. Len(res)
      BY <2>1, <2>2, <2>3
    <2>5. out = [b \in 0 .. buf_size - 1 |-> b + 1]
      BY <2>1, <2>4, Copied
    <2>6. C!Announce
      BY <2>1, <2>5 DEF C!Announce, C!Offsets
    <2> QED
      BY <2>6
  <1> QED
    BY <1>1, <1>2, <1>3, <1>4, <1>5, <1>6, <1>7 DEF TransferNext, Progress

(* ImplementsCopyFile: for every input the program promises to copy, the   *)
(* slices are put each to its place and once, in any order, and the report *)
(* comes when the whole file is there.                                     *)
THEOREM CopyRefinement == ValidationSpec => ImplementsCopyFile
  <1>1. ValidationInit => TInv /\ PlacedInv /\ C!Init
    <2> SUFFICES ASSUME ValidationInit
                 PROVE  TInv /\ PlacedInv /\ C!Init
      OBVIOUS
    <2>1. TransferInit /\ out = <<>> /\ stage = "split"
      BY DEF ValidationInit, TransferInit
    <2>2. TInv
      BY <2>1, InitTInv
    <2>3. PlacedInv
      BY <2>1 DEF PlacedInv, Receiving
    <2>4. DOMAIN out = {}
      BY <2>1
    <2>5. C!Init
      BY <2>1, <2>4 DEF C!Init
    <2> QED
      BY <2>2, <2>3, <2>5
  <1> QED
    BY <1>1, NextTInv, NextPlaced, NextIsCopy, PTL DEF ValidationSpec, ImplementsCopyFile, C!Spec
-----------------------------------------------------------------------------
(* Numbers of rows are ints. *)
LEMMA RowCountsNat == RowCounts \cup {0} \subseteq Nat /\ IntMax \in Nat /\ Step \in Nat \ {0}
                      /\ \A n \in RowCounts \cup {0} : n \in Nat /\ n <= IntMax
  BY FileSliceAssumption, ValidationAssumption

(* The counters of readDataFromFile are numbers. *)
LEMMA RowFacts ==
  ASSUME RowsInv
  PROVE  /\ rows \in Nat /\ total \in Nat /\ total <= IntMax /\ rows < buf_size
         /\ data_offset \in Nat /\ data_offset <= rows
  BY RowCountsNat DEF RowsInv

(* Nothing has happened. *)
LEMMA InitVInv == ValidationInit => VInv
  <1> SUFFICES ASSUME ValidationInit
               PROVE  VInv
    OBVIOUS
  <1>1. /\ TransferInit /\ rows = 0 /\ total = 0 /\ data_offset = 0 /\ at = 0
        /\ colValue = <<>> /\ samples = <<>> /\ over = FALSE /\ vpc = "generate"
    BY DEF ValidationInit
  <1>2. stage = "split" /\ buf_size \in FileSizes
    BY <1>1 DEF TransferInit, Init
  <1>3. buf_size \in Nat /\ buf_size > 0
    BY <1>2, FileSliceAssumption
  <1>4. PlacedInv
    BY <1>2 DEF PlacedInv, Receiving
  <1>5. RowsInv
    <2>1. ~(data_offset > total)
      BY <1>1
    <2>2. over \in BOOLEAN /\ (over <=> data_offset > total)
      BY <1>1, <2>1, Zenon
    <2>3. data_offset \in 0 .. rows /\ rows < buf_size
      BY <1>1, <1>3
    <2> QED
      BY <1>1, <1>3, <2>2, <2>3 DEF RowsInv, Early, Read
  <1>6. SamplesInv
    <2>1. samples \in Seq(0 .. buf_size + 1) /\ Len(samples) = 0
      BY <1>1, EmptySeq
    <2>2. 0 * Step = 0
      BY RowCountsNat
    <2> QED
      BY <1>1, <2>1, <2>2 DEF SamplesInv, Read
  <1>7. ReadBackInv
    BY <1>1 DEF ReadBackInv, Early
  <1> QED
    BY <1>1, <1>4, <1>5, <1>6, <1>7, InitTInv DEF VInv

(* The transfer does not touch what is read from its result. *)
LEMMA TransferFrame ==
  ASSUME TInv, RowsInv, SamplesInv, ReadBackInv,
         TransferNext \/ UNCHANGED <<vars, transferVars>>, UNCHANGED validVars
  PROVE  RowsInv' /\ SamplesInv' /\ ReadBackInv'
  <1>1. UNCHANGED <<rows, total, colValue, data_offset, over, at, samples, vpc>>
    BY DEF validVars
  <1>2. UNCHANGED <<buf_size, jobs, flag>>
    BY DEF TransferNext, Progress, Split, ChooseSegment, PushSlice, WriteHeader, RefuseHeader,
       HeaderThrows, ParseHeader, Arrive, Place, WaitEnds, Report, vars, inputs
  <1>3. stage \in {"reported", "overrun"} => /\ stage' \in {"reported", "overrun"}
                                            /\ text' = text /\ file_size_' = file_size_
    BY DEF TransferNext, Progress, Split, WriteHeader, RefuseHeader, HeaderThrows, ParseHeader,
       Arrive, Place, WaitEnds, Report, Receiving, transferVars, sendVars, recvVars
  <1>4. RowsInv'
    BY <1>1, <1>2, <1>3 DEF RowsInv, Early, Read
  <1>5. SamplesInv'
    BY <1>1, <1>2 DEF SamplesInv, Read
  <1>6. ~Early => (Promised' <=> Promised)
    BY <1>2, <1>3, PromisedFrame DEF RowsInv
  <1>7. ReadBackInv'
    <2>1. CASE Early
      BY <1>1, <2>1 DEF ReadBackInv, Early
    <2>2. CASE ~Early
      BY <1>1, <1>6, <2>2 DEF ReadBackInv, Early
    <2> QED
      BY <2>1, <2>2
  <1> QED
    BY <1>4, <1>5, <1>7

(* The table is generated. *)
LEMMA GenerateVInv ==
  ASSUME RowsInv, SamplesInv, ReadBackInv, createDataFile
  PROVE  RowsInv' /\ SamplesInv' /\ ReadBackInv'
  <1>1. PICK n \in RowCounts : n < buf_size /\ rows' = n
    BY DEF createDataFile
  <1>2. /\ vpc = "generate" /\ vpc' = "transfer"
        /\ UNCHANGED <<buf_size, stage, total, colValue, data_offset, over, at, samples>>
    BY DEF createDataFile, vars, inputs, transferVars
  <1>3. n \in Nat /\ data_offset = 0
    BY <1>2, RowCountsNat DEF RowsInv, Early
  <1>4. RowsInv'
    BY <1>1, <1>2, <1>3 DEF RowsInv, Early, Read
  <1>5. SamplesInv'
    BY <1>2 DEF SamplesInv, Read
  <1>6. ReadBackInv'
    BY <1>2 DEF ReadBackInv, Early
  <1> QED
    BY <1>4, <1>5, <1>6

(* A file that the program promises to copy is not damaged. *)
LEMMA Undamaged ==
  ASSUME TInv, PlacedInv, Promised, stage = "reported"
  PROVE  /\ out = [b \in 0 .. buf_size - 1 |-> b + 1]
         /\ Damaged = {} /\ Complete
  <1>1. Receiving /\ written = 1 .. Len(res)
    BY DEF PlacedInv, Receiving
  <1>2. out = [b \in 0 .. buf_size - 1 |-> b + 1]
    BY <1>1, Copied
  <1>3. buf_size \in Nat /\ file_size_ = buf_size
    BY <1>1, PromisedFacts DEF IInv, Types
  <1>4. \A b \in DOMAIN out : out[b] = Byte(b)
    <2> SUFFICES ASSUME NEW b \in 0 .. buf_size - 1
                 PROVE  out[b] = Byte(b)
      BY <1>2
    <2>1. b \in Nat /\ b < buf_size
      BY <1>3
    <2> QED
      BY <1>2, <1>3, <2>1, ByteFacts
  <1>5. Damaged = {}
    BY <1>4 DEF Damaged
  <1> QED
    BY <1>2, <1>3, <1>5 DEF Complete

(* The table is opened: it throws only if the file is damaged. *)
LEMMA OpenVInv ==
  ASSUME TInv, PlacedInv, RowsInv, SamplesInv, ReadBackInv, OpenTable
  PROVE  RowsInv' /\ SamplesInv' /\ ReadBackInv'
  <1>1. /\ vpc = "transfer" /\ stage = "reported" /\ total' \in RowCounts
        /\ colValue' = [r \in 0 .. total' - 1 |-> 0]
        /\ \/ Complete /\ vpc' = "read"
           \/ (~Complete \/ Damaged # {}) /\ vpc' = "threw"
        /\ UNCHANGED <<vars, stage, text, file_size_, rows, data_offset, over, at, samples>>
    BY DEF OpenTable, transferVars, sendVars, recvVars
  <1>2. UNCHANGED <<buf_size, jobs, flag, text>>
    BY <1>1 DEF vars, inputs
  <1>3. total' \in Nat /\ data_offset = 0 /\ buf_size \in Nat /\ over = FALSE
    BY <1>1, RowCountsNat DEF RowsInv, Early
  <1>4. colValue' \in [0 .. total' - 1 -> 0 .. buf_size + 1]
    <2>1. 0 \in 0 .. buf_size + 1
      BY <1>3
    <2> QED
      BY <1>1, <2>1
  <1>5. RowsInv'
    <2>1. ~(data_offset' > total')
      BY <1>1, <1>3
    <2>2. over' \in BOOLEAN /\ (over' <=> data_offset' > total')
      BY <1>1, <1>3, <2>1, Zenon
    <2>3. /\ vpc' \in {"read", "threw"} /\ stage' = "reported"
          /\ rows' = rows /\ data_offset' = data_offset
          /\ vpc' = "read" => file_size_' = buf_size'
      BY <1>1, <1>2 DEF Complete
    <2>4. rows \in RowCounts \cup {0} /\ rows < buf_size /\ data_offset \in 0 .. rows
      BY DEF RowsInv
    <2> QED
      BY <1>1, <1>2, <1>3, <1>4, <2>2, <2>3, <2>4 DEF RowsInv, Early, Read
  <1>6. SamplesInv'
    <2>1. at = 0 /\ samples = <<>>
      BY <1>1 DEF SamplesInv, Read
    <2>2. Len(samples') = 0
      BY <1>1, <2>1, EmptySeq
    <2> QED
      BY <1>1, <1>2, <2>1, <2>2 DEF SamplesInv, Read
  <1>7. ReadBackInv'
    <2> SUFFICES ASSUME Promised
                 PROVE  ReadBackInv'
      BY <1>2, PromisedFrame DEF ReadBackInv
    <2>1. vpc' = "read"
      BY <1>1, Undamaged
    <2>2. \A r \in 0 .. total' - 1 : ~(r < data_offset)
      BY <1>3
    <2>3. colValue' = [r \in 0 .. total' - 1 |-> IF r < data_offset' THEN r + 1 ELSE 0]
      BY <1>1, <2>2
    <2> QED
      BY <2>1, <2>3 DEF ReadBackInv, Early
  <1> QED
    BY <1>5, <1>6, <1>7

(* A record batch is read. *)
LEMMA ReadVInv ==
  ASSUME TInv, PlacedInv, RowsInv, SamplesInv, ReadBackInv, ReadBatch
  PROVE  RowsInv' /\ SamplesInv' /\ ReadBackInv'
  <1>1. PICK count \in 1 .. rows - data_offset :
          LET here == data_offset .. data_offset + count - 1
          IN  /\ colValue' = [r \in DOMAIN colValue |-> IF r \in here THEN out[r] ELSE colValue[r]]
              /\ data_offset' = data_offset + count
              /\ over' = (over \/ data_offset' > total)
              /\ \/ vpc' = vpc
                 \/ (over' \/ here \cap Damaged # {}) /\ vpc' = "crashed"
    BY DEF ReadBatch
  <1> DEFINE here == data_offset .. data_offset + count - 1
  <1>2. /\ vpc = "read" /\ stage = "reported"
        /\ UNCHANGED <<vars, stage, text, file_size_, rows, total, at, samples>>
    BY DEF ReadBatch, transferVars, sendVars, recvVars
  <1>3. UNCHANGED <<buf_size, jobs, flag, text>>
    BY <1>2 DEF vars, inputs
  <1>4. /\ rows \in Nat /\ total \in Nat /\ buf_size \in Nat /\ rows < buf_size
        /\ data_offset \in Nat /\ data_offset <= rows
        /\ over \in BOOLEAN /\ (over <=> data_offset > total)
    BY RowFacts DEF RowsInv
  <1>5. data_offset' \in 0 .. rows /\ data_offset' \in Nat /\ data_offset' = data_offset + count
        /\ data_offset' > data_offset
    BY <1>1, <1>4
  <1>6. colValue \in [0 .. total - 1 -> 0 .. buf_size + 1]
    BY <1>2 DEF RowsInv, Early
  <1>7. out \in [0 .. buf_size - 1 -> 0 .. buf_size + 1]
    BY <1>2 DEF TInv, OutInv, Parsed, RowsInv
  <1>8. \A r \in here : r \in 0 .. buf_size - 1
    BY <1>1, <1>4
  <1>9. colValue' = [r \in 0 .. total - 1 |-> IF r \in here THEN out[r] ELSE colValue[r]]
    BY <1>1, <1>6
  <1> HIDE DEF here
  <1>10. colValue' \in [0 .. total - 1 -> 0 .. buf_size + 1]
    BY <1>6, <1>7, <1>8, <1>9
  <1>11. over' \in BOOLEAN /\ (over' <=> data_offset' > total)
    <2>1. over => data_offset' > total
      BY <1>4, <1>5
    <2> QED
      BY <1>1, <2>1, Zenon
  <1>12. vpc' \in {"read", "crashed"}
    BY <1>1, <1>2
  <1>13. RowsInv'
    BY <1>2, <1>3, <1>5, <1>10, <1>11, <1>12 DEF RowsInv, Early, Read
  <1>14. SamplesInv'
    <2>1. at = 0 /\ samples = <<>>
      BY <1>2 DEF SamplesInv, Read
    <2>2. Len(samples') = 0
      BY <1>2, <2>1, EmptySeq
    <2> QED
      BY <1>2, <1>3, <1>12, <2>1, <2>2 DEF SamplesInv, Read
  <1>15. ReadBackInv'
    <2> SUFFICES ASSUME Promised
                 PROVE  ReadBackInv'
      BY <1>3, PromisedFrame DEF ReadBackInv
    <2>1. out = [b \in 0 .. buf_size - 1 |-> b + 1] /\ Damaged = {}
      BY <1>2, Undamaged
    <2>2. vpc' = "crashed" => over'
      BY <1>1, <1>2, <2>1 DEF here
    <2>3. colValue = [r \in 0 .. total - 1 |-> IF r < data_offset THEN r + 1 ELSE 0]
      BY <1>2 DEF ReadBackInv, Early
    <2>4. ASSUME NEW r \in 0 .. total - 1
          PROVE  (IF r \in here THEN out[r] ELSE colValue[r])
                   = IF r < data_offset' THEN r + 1 ELSE 0
      <3>1. r \in Nat /\ (r \in here <=> data_offset <= r /\ r < data_offset')
        BY <1>4, <1>5 DEF here
      <3>2. r \in here => out[r] = r + 1
        BY <1>8, <2>1
      <3>3. colValue[r] = IF r < data_offset THEN r + 1 ELSE 0
        BY <2>3
      <3> QED
        BY <1>4, <1>5, <3>1, <3>2, <3>3
    <2>5. colValue' = [r \in 0 .. total' - 1 |-> IF r < data_offset' THEN r + 1 ELSE 0]
      BY <1>2, <1>9, <2>4
    <2> QED
      BY <1>12, <2>2, <2>5 DEF ReadBackInv
  <1> QED
    BY <1>13, <1>14, <1>15

(* The loops end. *)
LEMMA EndsVInv ==
  ASSUME RowsInv, SamplesInv, ReadBackInv, ReadEnds \/ SendResult
  PROVE  RowsInv' /\ SamplesInv' /\ ReadBackInv'
  <1>1. /\ \/ vpc = "read" /\ vpc' = "sample" /\ data_offset = rows
           \/ vpc = "sample" /\ vpc' = "done" /\ at >= total
        /\ UNCHANGED <<vars, stage, text, file_size_, rows, total, colValue, data_offset, over,
                       at, samples>>
    BY DEF ReadEnds, SendResult, transferVars, sendVars, recvVars
  <1>2. UNCHANGED <<buf_size, jobs, flag, text>>
    BY <1>1 DEF vars, inputs
  <1>3. RowsInv'
    BY <1>1, <1>2 DEF RowsInv, Early, Read
  <1>4. SamplesInv'
    BY <1>1, <1>2 DEF SamplesInv, Read
  <1>5. Promised' <=> Promised
    BY <1>2, PromisedFrame
  <1>6. ReadBackInv'
    BY <1>1, <1>5 DEF ReadBackInv, Early
  <1> QED
    BY <1>3, <1>4, <1>6

(* A row is sampled. *)
LEMMA SampleVInv ==
  ASSUME RowsInv, SamplesInv, ReadBackInv, Sample
  PROVE  RowsInv' /\ SamplesInv' /\ ReadBackInv'
  <1> DEFINE n == Len(samples)
             e == colValue[at]
             V == 0 .. buf_size + 1
  <1>1. /\ vpc = "sample" /\ at < total /\ samples' = Append(samples, e) /\ at' = at + Step
        /\ vpc' = vpc \/ (at' > IntMax /\ vpc' = "wild")
        /\ UNCHANGED <<vars, stage, text, file_size_, rows, total, colValue, data_offset, over>>
    BY DEF Sample, transferVars, sendVars, recvVars
  <1>2. UNCHANGED <<buf_size, jobs, flag, text>>
    BY <1>1 DEF vars, inputs
  <1>3. RowsInv'
    BY <1>1, <1>2 DEF RowsInv, Early, Read
  <1>4. Promised' <=> Promised
    BY <1>2, PromisedFrame
  <1>5. ReadBackInv'
    BY <1>1, <1>4 DEF ReadBackInv, Early
  <1>6. /\ samples \in Seq(V) /\ at = n * Step /\ Step \in Nat \ {0} /\ total \in Nat
        /\ colValue \in [0 .. total - 1 -> V]
    BY <1>1, RowFacts, RowCountsNat DEF SamplesInv, RowsInv, Early
  <1>7. n \in Nat
    BY <1>6, LenProperties
  <1> HIDE DEF V
  <1>8. at \in Nat
    BY <1>6, <1>7
  <1>9. e \in V
    BY <1>1, <1>6, <1>8
  <1> HIDE DEF e
  <1>10. /\ samples' \in Seq(V) /\ Len(samples') = n + 1 /\ samples'[n + 1] = e
         /\ \A k \in 1 .. n : samples'[k] = samples[k]
    BY <1>1, <1>6, <1>9, AppendProperties
  <1> HIDE DEF n
  <1>11. (n + 1) * Step = n * Step + Step
    BY <1>6, <1>7
  <1>12. at' = Len(samples') * Step /\ at' < total + Step
    BY <1>1, <1>6, <1>8, <1>10, <1>11
  <1>13. ASSUME NEW k \in 1 .. Len(samples')
         PROVE  (k - 1) * Step < total /\ samples'[k] = colValue[(k - 1) * Step]
    <2>1. CASE k \in 1 .. n
      BY <1>10, <2>1 DEF SamplesInv, n
    <2>2. CASE k = n + 1
      <3>1. k - 1 = n
        BY <1>7, <2>2
      <3> QED
        BY <1>1, <1>6, <1>10, <2>2, <3>1 DEF e
    <2> QED
      BY <1>7, <1>10, <2>1, <2>2
  <1>14. vpc' \in Read /\ vpc' # "done" /\ (vpc' = "wild" => at' > IntMax)
    BY <1>1 DEF Read
  <1>15. SamplesInv'
    BY <1>1, <1>2, <1>10, <1>12, <1>13, <1>14 DEF SamplesInv, V
  <1> QED
    BY <1>3, <1>5, <1>15

(* VInv is inductive. *)
LEMMA NextVInv == VInv /\ [ValidationNext]_allVars => VInv'
  <1> SUFFICES ASSUME VInv, [ValidationNext]_allVars
               PROVE  VInv'
    OBVIOUS
  <1>1. TInv /\ PlacedInv /\ RowsInv /\ SamplesInv /\ ReadBackInv
    BY DEF VInv
  <1>2. TInv' /\ PlacedInv'
    BY <1>1, NextTInv, NextPlaced
  <1>3. CASE TransferNext /\ UNCHANGED validVars
    BY <1>1, <1>2, <1>3, TransferFrame DEF VInv
  <1>4. CASE UNCHANGED allVars
    BY <1>1, <1>2, <1>4, TransferFrame DEF VInv, allVars
  <1>5. CASE createDataFile
    BY <1>1, <1>2, <1>5, GenerateVInv DEF VInv
  <1>6. CASE getValidResult
    BY <1>1, <1>2, <1>6, OpenVInv, ReadVInv, EndsVInv, SampleVInv DEF VInv, getValidResult
  <1> QED
    BY <1>3, <1>4, <1>5, <1>6 DEF ValidationNext, InTransfer
-----------------------------------------------------------------------------
(* TypesOK: the receiver's 16-bit count is that of the connections, no     *)
(* row and no byte is taken from outside its array.                        *)
THEOREM AllTypes == ValidationSpec => []TypesOK
  <1>1. TInv => TransferTypes
    <2> SUFFICES ASSUME TInv
                 PROVE  TransferTypes
      OBVIOUS
    <2>1. CASE stage = "split"
      <3>1. IInv /\ text = <<>> /\ out = <<>>
        BY <2>1 DEF TInv, SplitInv
      <3>2. TypeOK
        BY <3>1, IInvTypes
      <3>3. text \in Seq(0 .. Other)
        BY <3>1, EmptySeq
      <3>4. DOMAIN out = {}
        BY <3>1
      <3> QED
        BY <3>2, <3>3, <3>4 DEF TInv, OutInv, CountInv, TransferTypes
    <2>2. CASE stage # "split"
      <3>1. /\ Types /\ pc \in {"sent", "received", "sigfpe"}
            /\ text \in Seq(0 .. Other)
        BY <2>2 DEF TInv, CutInv, Char
      <3>2. TypeOK
        BY <3>1 DEF Types, TypeOK
      <3>3. /\ DOMAIN out \in {{}, 0 .. file_size_ - 1}
            /\ \A b \in DOMAIN out : out[b] \in 0 .. buf_size + 1
        <4>1. CASE Parsed /\ stage # "sigfpe"
          <5>1. out \in [0 .. file_size_ - 1 -> 0 .. buf_size + 1]
            BY <4>1 DEF TInv, OutInv
          <5> QED
            BY <5>1
        <4>2. CASE stage \in {"header", "refused", "threw", "sigfpe"}
          <5>1. out = <<>>
            BY <4>2 DEF TInv, UnreadInv
          <5>2. DOMAIN out = {}
            BY <5>1
          <5> QED
            BY <5>2
        <4> QED
          BY <2>2, <4>1, <4>2 DEF TInv, CountInv, Ended, Parsed
      <3> QED
        BY <3>1, <3>2, <3>3 DEF TInv, OutInv, CountInv, TransferTypes
    <2> QED
      BY <2>1, <2>2
  <1>2. VInv => TypesOK
    <2> SUFFICES ASSUME VInv
                 PROVE  TypesOK
      OBVIOUS
    <2>1. TInv /\ RowsInv /\ SamplesInv
      BY DEF VInv
    <2>2. colValue \in [0 .. total - 1 -> 0 .. buf_size + 1]
      <3>1. CASE Early
        <4>1. colValue = <<>> /\ total = 0
          BY <2>1, <3>1 DEF RowsInv
        <4>2. 0 .. total - 1 = {}
          BY <4>1
        <4>3. colValue = [r \in {} |-> 0]
          BY <4>1
        <4> QED
          BY <4>2, <4>3
      <3>2. CASE ~Early
        BY <2>1, <3>2 DEF RowsInv
      <3> QED
        BY <3>1, <3>2
    <2>3. at \in Nat
      <3>1. Len(samples) \in Nat /\ at = Len(samples) * Step
        BY <2>1, LenProperties DEF SamplesInv
      <3> QED
        BY <3>1, RowCountsNat
    <2> QED
      BY <1>1, <2>1, <2>2, <2>3 DEF TypesOK, RowsInv, SamplesInv
  <1> QED
    BY <1>2, InitVInv, NextVInv, PTL DEF ValidationSpec

(* RowsReadBack: readDataFromFile puts the rows where they belong however  *)
(* they are cut into batches, and only too small a --file_rows spoils it.  *)
THEOREM RowsInPlace == ValidationSpec => []RowsReadBack
  <1>1. VInv => RowsReadBack
    <2> SUFFICES ASSUME VInv
                 PROVE  RowsReadBack
      OBVIOUS
    <2>1. RowsInv /\ ReadBackInv
      BY DEF VInv
    <2>2. vpc \in Read => (over <=> rows > total)
      BY <2>1 DEF RowsInv
    <2>3. vpc = "crashed" /\ Promised => rows > total
      <3> SUFFICES ASSUME vpc = "crashed", Promised
                   PROVE  rows > total
        OBVIOUS
      <3>1. over
        BY <2>1 DEF ReadBackInv
      <3>2. data_offset > total
        BY <2>1, <3>1 DEF RowsInv
      <3> QED
        BY <2>1, <3>2, RowFacts
    <2>4. vpc \in Read /\ Promised =>
            colValue = [r \in 0 .. total - 1 |-> IF r < rows THEN r + 1 ELSE 0]
      BY <2>1 DEF ReadBackInv, RowsInv, Early, Read
    <2> QED
      BY <2>2, <2>3, <2>4 DEF RowsReadBack
  <1> QED
    BY <1>1, InitVInv, NextVInv, PTL DEF ValidationSpec

(* How many samples a finished loop has taken. *)
LEMMA SampleCount ==
  ASSUME NEW l \in Nat, NEW s \in Nat \ {0}, NEW t \in Nat,
         l * s >= t, l * s # 0 => l * s < t + s
  PROVE  (t + s - 1) \div s = l
  <1> DEFINE p == l * s
             u == t + s - 1
             r == u - p
  <1>1. p \in Nat /\ p >= t /\ (p # 0 => p < t + s)
    OBVIOUS
  <1>2. u \in Nat
    OBVIOUS
  <1>3. u = l * s + r
    BY <1>1, <1>2
  <1> HIDE DEF p
  <1>4. r \in Nat /\ r < s
    BY <1>1
  <1> HIDE DEF r
  <1>5. u \div s = l
    BY <1>2, <1>3, <1>4, DivUnique
  <1> QED
    BY <1>5

(* ResultExact: the receiver's result is what --verify computes from the   *)
(* sender's file, for every input the program promises to copy.            *)
THEOREM ResultRight == ValidationSpec => []ResultExact
  <1>1. VInv => ResultExact
    <2> SUFFICES ASSUME VInv, Promised
                 PROVE  /\ vpc # "threw"
                        /\ vpc = "wild" => total > Step * (IntMax \div Step)
                        /\ vpc = "done" /\ rows <= total => samples = Verified
      BY DEF ResultExact
    <2>1. RowsInv /\ SamplesInv /\ ReadBackInv
      BY DEF VInv
    <2> DEFINE n == Len(samples)
    <2>2. /\ n \in Nat /\ at = n * Step /\ (at # 0 => at < total + Step) /\ Step \in Nat \ {0}
          /\ rows \in Nat /\ total \in Nat /\ IntMax \in Nat /\ at \in Nat
      <3>1. n \in Nat /\ at = n * Step /\ (at # 0 => at < total + Step)
        BY <2>1, LenProperties DEF SamplesInv
      <3>2. at \in Nat
        BY <3>1, RowCountsNat
      <3> QED
        BY <2>1, <3>1, <3>2, RowFacts, RowCountsNat
    <2>3. ASSUME vpc = "wild"
          PROVE  total > Step * (IntMax \div Step)
      <3> DEFINE d == IntMax \div Step
      <3>1. at > IntMax
        BY <2>1, <2>3 DEF SamplesInv
      <3>2. d \in Nat /\ d * Step <= IntMax /\ d * Step \in Nat /\ Step * d = d * Step
        <4>1. d \in Nat /\ IntMax % Step \in Nat /\ IntMax = d * Step + (IntMax % Step)
          BY <2>2, DivMod
        <4>2. d * Step \in Nat /\ Step * d = d * Step
          BY <2>2, <4>1
        <4> QED
          BY <4>1, <4>2
      <3> HIDE DEF d
      <3>3. d < n
        <4>1. CASE n <= d
          <5>1. n * Step <= d * Step
            BY <2>2, <3>2, <4>1, MulMono
          <5> QED
            BY <2>2, <3>1, <3>2, <5>1
        <4> QED
          BY <2>2, <3>2, <4>1
      <3>4. d * Step + Step <= n * Step
        BY <2>2, <3>2, <3>3, MulStrict
      <3>5. d * Step < total
        BY <2>2, <3>1, <3>2, <3>4
      <3> QED
        BY <2>2, <3>2, <3>5 DEF d
    <2>4. ASSUME vpc = "done", rows <= total
          PROVE  samples = Verified
      <3>1. at >= total
        BY <2>1, <2>4 DEF SamplesInv
      <3>2. (total + Step - 1) \div Step = n
        <4>1. n * Step >= total /\ (n * Step # 0 => n * Step < total + Step)
          BY <2>2, <3>1
        <4> QED
          BY <2>2, <4>1, SampleCount
      <3>3. colValue = [r \in 0 .. total - 1 |-> IF r < rows THEN r + 1 ELSE 0]
        BY <2>1, <2>4 DEF ReadBackInv, RowsInv, Early, Read
      <3>4. ASSUME NEW k \in 1 .. n
            PROVE  samples[k] = IF (k - 1) * Step < rows THEN (k - 1) * Step + 1 ELSE 0
        <4> DEFINE r == (k - 1) * Step
        <4>1. r < total /\ samples[k] = colValue[r]
          BY <2>1 DEF SamplesInv
        <4>2. r \in Nat
          <5>1. k - 1 \in Nat
            BY <2>2
          <5> QED
            BY <2>2, <5>1
        <4> HIDE DEF r
        <4>3. r \in 0 .. total - 1
          BY <2>2, <4>1, <4>2
        <4>4. samples[k] = IF r < rows THEN r + 1 ELSE 0
          BY <3>3, <4>1, <4>3
        <4> QED
          BY <4>4 DEF r
      <3>5. samples = [k \in 1 .. n |-> samples[k]]
        BY <2>1, LenProperties DEF SamplesInv
      <3>6. Verified = [k \in 1 .. n |-> IF (k - 1) * Step < rows THEN (k - 1) * Step + 1 ELSE 0]
        BY <3>2 DEF Verified
      <3> HIDE DEF n
      <3> QED
        BY <3>4, <3>5, <3>6
    <2> QED
      BY <2>1, <2>3, <2>4 DEF ReadBackInv
  <1> QED
    BY <1>1, InitVInv, NextVInv, PTL DEF ValidationSpec
=============================================================================
