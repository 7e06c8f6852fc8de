----------------------------- MODULE LuhnProofs -----------------------------
(***************************************************************************)
(* That the check of order numbers is Luhn's, and notices the mistypings   *)
(* it is there for, in numbers of every length.  A number is checked by    *)
(* the sum of what its digits count for; the theorems of SumTheorems say   *)
(* what becomes of a sum when one digit changes, and that it does not      *)
(* matter from which end the digits are counted.                           *)
(***************************************************************************)
EXTENDS Luhn, SumTheorems, SequenceTheorems

\* Bytes are numbers.
Typed == number \in Seq(Int)

\* Numbers are made of bytes in every state.
LEMMA NumberTyped == Spec => []Typed
<1>1. Init => Typed
  BY DEF Init, Typed
<1>2. Typed /\ [Next]_number => Typed'
  BY BytesAssumption DEF Typed, Next, Type
<1>3. QED
  BY <1>1, <1>2, PTL DEF Spec

\* The digits of a number.
Numerals == {s \in Seq(Int) : AllDigits(s)}

\* What the digits of s count for, one by one.
Addends(s) == [i \in DOMAIN s |-> Addend(Len(s), i, s[i])]

\* A digit counts for 0 to 9.
LEMMA AddendDigit ==
  ASSUME NEW len \in Nat, NEW i \in Nat, NEW v \in Digits
  PROVE  Addend(len, i, v) \in 0..9
BY DEF Addend, Digits, Zero

\* No two digits count for the same at the same place.
LEMMA AddendInjective ==
  ASSUME NEW len \in Nat, NEW i \in Nat, NEW v \in Digits, NEW w \in Digits,
         Addend(len, i, v) = Addend(len, i, w)
  PROVE  v = w
BY DEF Addend, Digits, Zero

\* Two neighbours change places: one of the places doubles, the other does not.
LEMMA AddendSwapped ==
  ASSUME NEW len \in Nat, NEW i \in Nat, NEW v \in Digits, NEW w \in Digits,
         v # w, {v, w} # {Zero, Zero + 9}
  PROVE  LET moved == (Addend(len, i, w) - Addend(len, i, v))
                        + (Addend(len, i + 1, v) - Addend(len, i + 1, w))
         IN  moved \in (-9..9) \ {0}
<1>1. ((i - 1) % 2 # len % 2) <=> ~ ((i + 1 - 1) % 2 # len % 2)
  OBVIOUS
<1>2. ~ (v = Zero /\ w = Zero + 9) /\ ~ (v = Zero + 9 /\ w = Zero)
  OBVIOUS
<1>3. CASE (i - 1) % 2 # len % 2
  BY <1>1, <1>2, <1>3 DEF Addend, Digits, Zero
<1>4. CASE ~ ((i - 1) % 2 # len % 2)
  BY <1>1, <1>2, <1>4 DEF Addend, Digits, Zero
<1>5. QED
  BY <1>3, <1>4

\* The sum of a number is a sum of naturals, one for each of its places.
LEMMA AddendsType ==
  ASSUME NEW s \in Numerals
  PROVE  /\ IsFiniteSet(1..Len(s))
         /\ Addends(s) \in [1..Len(s) -> Nat]
         /\ LuhnSum(s) = SumFunction(Addends(s))
         /\ LuhnSum(s) \in Nat
<1>1. IsFiniteSet(1..Len(s))
  BY FS_Interval DEF Numerals
<1>2. ASSUME NEW i \in DOMAIN s PROVE Addend(Len(s), i, s[i]) \in Nat
  BY AddendDigit DEF Numerals, AllDigits
<1>3. Addends(s) \in [1..Len(s) -> Nat]
  BY <1>2 DEF Addends, Numerals
<1>4. LuhnSum(s) = SumFunction(Addends(s))
  BY DEF LuhnSum, Addends
<1>5. QED
  BY <1>1, <1>3, <1>4, SumNat

\* One digit is another.
LEMMA DigitReplaced ==
  ASSUME NEW s \in Numerals, NEW i \in DOMAIN s, NEW d \in Digits
  PROVE  LET t == [s EXCEPT ![i] = d]
         IN  /\ t \in Numerals
             /\ Len(t) = Len(s)
             /\ LuhnSum(t) = LuhnSum(s) - Addend(Len(s), i, s[i]) + Addend(Len(s), i, d)
<1> DEFINE t == [s EXCEPT ![i] = d]
<1>1. t \in Numerals /\ Len(t) = Len(s) /\ DOMAIN s = 1..Len(s)
  BY DEF Numerals, AllDigits, Digits, Zero
<1>2. /\ Addends(s)[i] = Addend(Len(s), i, s[i])
      /\ Addends(t)[i] = Addend(Len(s), i, d)
      /\ \A j \in (1..Len(s)) \ {i} : Addends(t)[j] = Addends(s)[j]
  BY <1>1 DEF Addends, Numerals
<1> HIDE DEF t
<1>3. /\ Addends(s) \in [1..Len(s) -> Nat]
      /\ Addends(t) \in [1..Len(s) -> Nat]
      /\ IsFiniteSet(1..Len(s))
      /\ LuhnSum(s) = SumFunction(Addends(s))
      /\ LuhnSum(t) = SumFunction(Addends(t))
  BY <1>1, AddendsType
<1>4. i \in 1..Len(s)
  BY <1>1
<1>5. SumFunction(Addends(t)) = SumFunction(Addends(s)) - Addends(s)[i] + Addends(t)[i]
  BY <1>2, <1>3, <1>4, SumChanged
<1>6. QED
  BY <1>1, <1>2, <1>3, <1>5 DEF t
-----------------------------------------------------------------------------
(* The check is Luhn's.                                                    *)

\* Counted from the left with the parity of the length, a digit counts for
\* what it counts for from the right.
LEMMA CountedFromTheRight ==
  ASSUME NEW s \in Numerals, NEW k \in 1..Len(s)
  PROVE  /\ Len(s) + 1 - k \in 1..Len(s)
         /\ Counts(s, k) = Addend(Len(s), Len(s) + 1 - k, s[Len(s) + 1 - k])
<1> DEFINE i == Len(s) + 1 - k
           d == s[i] - Zero
<1>1. Len(s) \in Nat /\ i \in 1..Len(s) /\ i = Len(s) + 1 - k
  BY DEF Numerals
<1>2. s[i] \in Digits /\ d \in 0..9 /\ d = s[i] - Zero
  BY <1>1 DEF Numerals, AllDigits, Digits, Zero
<1>3. ((i - 1) % 2 # Len(s) % 2) <=> ~ (k % 2 = 0)
  BY <1>1
<1>4. Counts(s, k) = IF k % 2 = 0 THEN Doubled[d + 1] ELSE d
  BY DEF Counts
<1>5. Addend(Len(s), i, s[i]) =
        IF (i - 1) % 2 # Len(s) % 2 THEN d ELSE IF 2 * d > 9 THEN 2 * d - 9 ELSE 2 * d
  BY DEF Addend
<1> HIDE DEF i, d
<1>6. Doubled[d + 1] = IF 2 * d > 9 THEN 2 * d - 9 ELSE 2 * d
  <2>1. \/ d = 0 \/ d = 1 \/ d = 2 \/ d = 3 \/ d = 4
        \/ d = 5 \/ d = 6 \/ d = 7 \/ d = 8 \/ d = 9
    BY <1>2
  <2>2. QED
    BY <2>1 DEF Doubled
<1>7. Counts(s, k) = Addend(Len(s), i, s[i])
  BY <1>3, <1>4, <1>5, <1>6
<1>8. QED
  BY <1>1, <1>7 DEF i

\* The sum does not depend on the end it is counted from.
LEMMA SameFromTheRight ==
  ASSUME NEW s \in Numerals
  PROVE  LuhnSum(s) = SumFunction([k \in DOMAIN s |-> Counts(s, k)])
<1> DEFINE S == 1..Len(s)
           f == [k \in S |-> Counts(s, k)]
           b == [k \in S |-> Len(s) + 1 - k]
<1>1. Len(s) \in Nat /\ DOMAIN s = S
  BY DEF Numerals
<1>2. b \in Bijection(S, S)
  <2>1. b \in [S -> S] /\ \A j, k \in S : b[j] = b[k] => j = k
    BY <1>1
  <2>2. ASSUME NEW i \in S PROVE \E k \in S : b[k] = i
    <3>1. Len(s) + 1 - i \in S /\ b[Len(s) + 1 - i] = i
      BY <1>1
    <3>2. QED
      BY <3>1
  <2> HIDE DEF b
  <2>3. QED
    BY <2>1, <2>2 DEF Bijection, Injection, Surjection, IsInjective
<1>3. \A k \in S : f[k] = Addends(s)[b[k]]
  BY <1>1, CountedFromTheRight DEF Addends
<1>4. \A k \in S : b[k] \in S
  BY <1>1
<1>5. /\ IsFiniteSet(S)
      /\ Addends(s) \in [S -> Nat]
      /\ LuhnSum(s) = SumFunction(Addends(s))
  BY AddendsType
<1>6. f \in [S -> Nat]
  BY <1>3, <1>4, <1>5
<1>7. f = [k \in DOMAIN s |-> Counts(s, k)]
  BY <1>1
<1> HIDE DEF S, f, b
<1>8. SumFunction(f) = SumFunction(Addends(s))
  BY <1>2, <1>3, <1>5, <1>6, SumReindexed
<1>9. QED
  BY <1>5, <1>7, <1>8

\* The sum of a number is that of the rest of it, and its last digit.
LEMMA LastDigit ==
  ASSUME NEW s \in Numerals, Len(s) # 0
  PROVE  LET shifted == Append(SubSeq(s, 1, Len(s) - 1), Zero)
         IN  /\ shifted \in Numerals
             /\ LuhnSum(s) = LuhnSum(shifted) + (s[Len(s)] - Zero)
<1> DEFINE len == Len(s)
           shifted == Append(SubSeq(s, 1, len - 1), Zero)
<1>1. s \in Seq(Int) /\ len \in Nat \ {0} /\ s[len] \in Digits /\ Zero \in Digits
  BY DEF Numerals, AllDigits, Digits, Zero
<1>2. shifted = [s EXCEPT ![len] = Zero]
  <2> DEFINE front == SubSeq(s, 1, len - 1)
             p == Append(front, Zero)
             q == [s EXCEPT ![len] = Zero]
  <2>1. Zero \in Int /\ len \in 1..len
    BY <1>1 DEF Zero
  <2>2. front \in Seq(Int) /\ Len(front) = len - 1 /\ \A i \in 1..(len - 1) : front[i] = s[i]
    <3>1. \A i \in 1..(len - 1) : s[i] \in Int
      BY <1>1
    <3>2. 1 \in Int /\ len - 1 \in Int /\ 1..(len - 1 - 1 + 1) = 1..(len - 1)
      BY <1>1
    <3>3. /\ front \in Seq(Int)
          /\ Len(front) = IF 1 <= len - 1 THEN len - 1 - 1 + 1 ELSE 0
          /\ \A i \in 1..(len - 1 - 1 + 1) : front[i] = s[1 + i - 1]
      BY <3>1, <3>2, SubSeqProperties
    <3> HIDE DEF front, len
    <3>4. /\ (IF 1 <= len - 1 THEN len - 1 - 1 + 1 ELSE 0) = len - 1
          /\ \A i \in 1..(len - 1) : 1 + i - 1 = i
      BY <1>1
    <3>5. QED
      BY <3>2, <3>3, <3>4
  <2> HIDE DEF front
  <2>3. /\ p \in Seq(Int) /\ Len(p) = len
        /\ \A i \in 1..len : p[i] = IF i = len THEN Zero ELSE s[i]
    <3>1. /\ p \in Seq(Int) /\ Len(p) = Len(front) + 1
          /\ \A i \in 1..Len(front) : p[i] = front[i]
          /\ p[Len(front) + 1] = Zero
      BY <2>1, <2>2, AppendProperties
    <3> HIDE DEF p, len
    <3>2. /\ (len - 1) + 1 = len
          /\ \A i \in 1..len : i # len => i \in 1..(len - 1)
      BY <1>1
    <3>3. QED
      BY <2>2, <3>1, <3>2
  <2>4. /\ q \in Seq(Int) /\ Len(q) = len
        /\ \A i \in 1..len : q[i] = IF i = len THEN Zero ELSE s[i]
    BY <1>1, <2>1, ExceptSeq
  <2> HIDE DEF p, q
  <2>5. p = q
    BY <2>3, <2>4, SeqEqual
  <2>6. QED
    BY <2>5 DEF front, p, q
<1> HIDE DEF shifted
<1>3. /\ shifted \in Numerals
      /\ LuhnSum(shifted) = LuhnSum(s) - Addend(len, len, s[len]) + Addend(len, len, Zero)
  <2>1. len \in DOMAIN s
    BY <1>1
  <2>2. LET q == [s EXCEPT ![len] = Zero]
        IN  /\ q \in Numerals
            /\ LuhnSum(q) = LuhnSum(s) - Addend(len, len, s[len]) + Addend(len, len, Zero)
    BY <1>1, <2>1, DigitReplaced
  <2>3. QED
    BY <1>2, <2>2
<1>4. (len - 1) % 2 # len % 2
  BY <1>1
<1>5. Addend(len, len, s[len]) = s[len] - Zero /\ Addend(len, len, Zero) = 0
  BY <1>4 DEF Addend, Zero
<1>6. LuhnSum(s) \in Nat /\ LuhnSum(shifted) \in Nat
  BY <1>3, AddendsType
<1>7. LuhnSum(s) = LuhnSum(shifted) + (s[len] - Zero)
  BY <1>1, <1>3, <1>5, <1>6 DEF Digits, Zero
<1>8. QED
  BY <1>3, <1>7 DEF shifted

\* The digit that fills a sum up to the next ten.
LEMMA FilledUp ==
  ASSUME NEW total \in Nat, NEW v \in Digits
  PROVE  (total + (v - Zero)) % 10 = 0 <=> v = Zero + ((10 - (total % 10)) % 10)
BY DEF Digits, Zero

\* ValidateNumber accepts a number of any length exactly if it is not empty,
\* has digits only, and ends in the check digit of the rest.
THEOREM LuhnAccepted == Spec => []AcceptsLuhn
<1>1. ASSUME Typed PROVE AcceptsLuhn
  <2>1. number \in Seq(Int)
    BY <1>1 DEF Typed
  <2>2. (\A i \in DOMAIN number : number[i] - Zero \in 0..9) <=> AllDigits(number)
    BY <2>1 DEF AllDigits, Digits, Zero
  <2>3. number # <<>> <=> Len(number) # 0
    BY <2>1
  <2>4. ASSUME Len(number) # 0, AllDigits(number)
        PROVE  LuhnSum(number) % 10 = 0
                 <=> number[Len(number)] = CheckDigit(SubSeq(number, 1, Len(number) - 1))
    <3> DEFINE shifted == Append(SubSeq(number, 1, Len(number) - 1), Zero)
               total == SumFunction([k \in DOMAIN shifted |-> Counts(shifted, k)])
    <3>1. number \in Numerals /\ number[Len(number)] \in Digits
      BY <2>1, <2>4 DEF Numerals, AllDigits
    <3>2. /\ shifted \in Numerals
          /\ LuhnSum(number) = LuhnSum(shifted) + (number[Len(number)] - Zero)
      BY <2>4, <3>1, LastDigit
    <3>3. LuhnSum(shifted) = total /\ LuhnSum(shifted) \in Nat
      BY <3>2, SameFromTheRight, AddendsType
    <3>4. CheckDigit(SubSeq(number, 1, Len(number) - 1)) = Zero + ((10 - (total % 10)) % 10)
      BY DEF CheckDigit
    <3> HIDE DEF shifted, total
    <3>5. QED
      BY <3>1, <3>2, <3>3, <3>4, FilledUp
  <2>5. QED
    BY <2>2, <2>3, <2>4 DEF AcceptsLuhn, ValidateNumber, ValidateLuhn
<1>2. QED
  BY <1>1, NumberTyped, PTL
-----------------------------------------------------------------------------
(* What the check notices.                                                 *)

\* Two sums that are both multiples of ten and closer than that are the same.
LEMMA NoNearTens ==
  ASSUME NEW m \in Nat, NEW d \in -9..9, m + d \in Nat,
         m % 10 = 0, (m + d) % 10 = 0
  PROVE  d = 0
OBVIOUS

\* One mistyped digit of an accepted number is noticed (ValidateNumber).
LEMMA ReplacementNoticed ==
  ASSUME NEW s \in Numerals, ValidateNumber(s), NEW i \in DOMAIN s,
         NEW d \in Digits \ {s[i]}
  PROVE  ~ ValidateNumber([s EXCEPT ![i] = d])
<1> DEFINE t == [s EXCEPT ![i] = d]
           v == Addend(Len(s), i, s[i])
           w == Addend(Len(s), i, d)
<1>1. Len(s) \in Nat /\ i \in Nat /\ s[i] \in Digits
  BY DEF Numerals, AllDigits
<1>2. v \in 0..9 /\ w \in 0..9 /\ v # w
  BY <1>1, AddendDigit, AddendInjective
<1>3. t \in Numerals /\ LuhnSum(t) = LuhnSum(s) - v + w
  BY DigitReplaced
<1>4. LuhnSum(s) \in Nat /\ LuhnSum(t) \in Nat
  BY <1>3, AddendsType
<1>5. LuhnSum(s) % 10 = 0
  BY DEF ValidateNumber, ValidateLuhn
<1> HIDE DEF t, v, w
<1>6. w - v \in -9..9 /\ w - v # 0 /\ LuhnSum(t) = LuhnSum(s) + (w - v)
  BY <1>2, <1>3, <1>4
<1>7. LuhnSum(t) % 10 # 0
  BY <1>4, <1>5, <1>6, NoNearTens
<1>8. QED
  BY <1>7 DEF ValidateNumber, ValidateLuhn, t

\* Two neighbours swapped are noticed, unless they are 0 and 9.
LEMMA SwapNoticed ==
  ASSUME NEW s \in Numerals, ValidateNumber(s), NEW i \in 1..(Len(s) - 1),
         s[i] # s[i + 1], {s[i], s[i + 1]} # {Zero, Zero + 9}
  PROVE  ~ ValidateNumber([s EXCEPT ![i] = s[i + 1], ![i + 1] = s[i]])
<1> DEFINE a == s[i]
           b == s[i + 1]
           t == [s EXCEPT ![i] = b]
           u == [t EXCEPT ![i + 1] = a]
           moved == (Addend(Len(s), i, b) - Addend(Len(s), i, a))
                      + (Addend(Len(s), i + 1, a) - Addend(Len(s), i + 1, b))
<1>1. /\ Len(s) \in Nat /\ i \in Nat /\ i + 1 \in Nat
      /\ i \in DOMAIN s /\ i + 1 \in DOMAIN s
      /\ a \in Digits /\ b \in Digits
  BY DEF Numerals, AllDigits
<1>2. /\ t \in Numerals /\ Len(t) = Len(s) /\ t[i + 1] = b
      /\ LuhnSum(t) = LuhnSum(s) - Addend(Len(s), i, a) + Addend(Len(s), i, b)
  <2>1. t[i + 1] = b
    BY <1>1 DEF Numerals
  <2>2. QED
    BY <1>1, <2>1, DigitReplaced
<1>3. /\ u \in Numerals
      /\ LuhnSum(u) = LuhnSum(t) - Addend(Len(s), i + 1, b) + Addend(Len(s), i + 1, a)
  <2>1. i + 1 \in DOMAIN t
    BY <1>1
  <2> HIDE DEF t
  <2>2. QED
    BY <1>1, <1>2, <2>1, DigitReplaced
<1>4. moved \in (-9..9) \ {0}
  BY <1>1, AddendSwapped
<1>5. u = [s EXCEPT ![i] = s[i + 1], ![i + 1] = s[i]]
  BY <1>1
<1>6. /\ Addend(Len(s), i, a) \in 0..9
      /\ Addend(Len(s), i, b) \in 0..9
      /\ Addend(Len(s), i + 1, a) \in 0..9
      /\ Addend(Len(s), i + 1, b) \in 0..9
  BY <1>1, AddendDigit
<1>7. LuhnSum(s) \in Nat /\ LuhnSum(t) \in Nat /\ LuhnSum(u) \in Nat
  BY <1>2, <1>3, AddendsType
<1>8. LuhnSum(s) % 10 = 0
  BY DEF ValidateNumber, ValidateLuhn
<1> HIDE DEF a, b, t, u
<1>9. LuhnSum(u) = LuhnSum(s) + moved
  <2>1. ASSUME NEW l \in Nat, NEW m \in Nat, NEW n \in Nat,
               NEW v \in 0..9, NEW w \in 0..9, NEW x \in 0..9, NEW y \in 0..9,
               m = l - v + w, n = m - x + y
        PROVE  n = l + ((w - v) + (y - x))
    BY <2>1
  <2>2. /\ LuhnSum(t) = LuhnSum(s) - Addend(Len(s), i, a) + Addend(Len(s), i, b)
        /\ LuhnSum(u) = LuhnSum(t) - Addend(Len(s), i + 1, b) + Addend(Len(s), i + 1, a)
    BY <1>2, <1>3
  <2> DEFINE l == LuhnSum(s)
             m == LuhnSum(t)
             n == LuhnSum(u)
             v == Addend(Len(s), i, a)
             w == Addend(Len(s), i, b)
             x == Addend(Len(s), i + 1, b)
             y == Addend(Len(s), i + 1, a)
  <2>3. /\ l \in Nat /\ m \in Nat /\ n \in Nat
        /\ v \in 0..9 /\ w \in 0..9 /\ x \in 0..9 /\ y \in 0..9
        /\ m = l - v + w /\ n = m - x + y
    BY <1>6, <1>7, <2>2
  <2>4. moved = (w - v) + (y - x)
    OBVIOUS
  <2> HIDE DEF l, m, n, v, w, x, y, moved
  <2>5. n = l + moved
    BY <2>1, <2>3, <2>4
  <2>6. QED
    BY <2>5 DEF l, n
<1> HIDE DEF moved
<1>10. LuhnSum(u) % 10 # 0
  BY <1>4, <1>7, <1>8, <1>9, NoNearTens
<1>11. QED
  BY <1>5, <1>10 DEF ValidateNumber, ValidateLuhn

\* In an accepted number of any length the check notices one digit mistyped,
\* and two neighbours swapped unless they are 0 and 9 (ValidateNumber).
THEOREM TyposCaught == Spec => []CatchesTypos
<1>1. ASSUME Typed PROVE CatchesTypos
  <2> SUFFICES ASSUME ValidateNumber(number)
               PROVE  /\ \A i \in DOMAIN number : \A d \in Digits \ {number[i]} :
                            ~ValidateNumber([number EXCEPT ![i] = d])
                      /\ \A i \in 1..(Len(number) - 1) :
                            LET a == number[i]
                                b == number[i + 1]
                            IN  a # b /\ {a, b} # {Zero, Zero + 9} =>
                                    ~ValidateNumber([number EXCEPT ![i] = b, ![i + 1] = a])
    BY DEF CatchesTypos
  <2>1. number \in Numerals
    BY <1>1 DEF Typed, Numerals, ValidateNumber, ValidateLuhn
  <2>2. QED
    BY <2>1, ReplacementNoticed, SwapNoticed
<1>2. QED
  BY <1>1, NumberTyped, PTL
=============================================================================
