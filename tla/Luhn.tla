-------------------------------- MODULE Luhn --------------------------------
(***************************************************************************)
(* The check of order numbers: package internal/infra/services/checksum    *)
(* and its use by OrderValidator.  A number is the sequence of its bytes.  *)
(* The specification types one number, byte by byte.                       *)
(***************************************************************************)
EXTENDS Integers, Sequences, FiniteSetsExt

CONSTANTS
    Bytes,      \* the bytes that are typed
    MaxLength   \* of a number

ASSUME BytesAssumption == Bytes \subseteq 0..255
ASSUME MaxLengthAssumption == MaxLength \in Nat

VARIABLE number

Zero == 48      \* '0'
Digits == Zero..(Zero + 9)

\* What the byte at index i of a number of length len adds to the sum; the
\* code counts the indices from 0 and its parity from the end.
AddendUnreduced(len, i, v) ==
    LET num == v - Zero
    IN  IF (i - 1) % 2 # len % 2 THEN num ELSE 2 * num
Addend(len, i, v) ==
    LET num == v - Zero
    IN  IF (i - 1) % 2 # len % 2 THEN num ELSE IF 2 * num > 9 THEN 2 * num - 9 ELSE 2 * num

LuhnSum(s) == SumFunction([i \in DOMAIN s |-> Addend(Len(s), i, s[i])])

AllDigitsBelowTen(s) == \A i \in DOMAIN s : s[i] <= Zero + 9
AllDigits(s) == \A i \in DOMAIN s : s[i] \in Digits

ValidateLuhn(s) == AllDigits(s) /\ LuhnSum(s) % 10 = 0

\* OrderValidator.ValidateNumber.
ValidateNumber(s) == Len(s) # 0 /\ ValidateLuhn(s)

Init == number = <<>>

Type(v) ==
    /\ Len(number) < MaxLength
    /\ number' = Append(number, v)

Next == \E v \in Bytes : Type(v)

Spec == Init /\ [][Next]_number
-----------------------------------------------------------------------------
(* The reference: the check digit of the rest of a number, by the table of *)
(* what the digits 0..9 count for when doubled, from the right.            *)

Doubled == <<0, 2, 4, 6, 8, 1, 3, 5, 7, 9>>

Counts(s, k) ==     \* the k-th digit from the right counts for
    LET d == s[Len(s) + 1 - k] - Zero
    IN  IF k % 2 = 0 THEN Doubled[d + 1] ELSE d

CheckDigit(s) ==    \* the digit that makes s valid when appended
    LET shifted == Append(s, Zero)
        total == SumFunction([k \in DOMAIN shifted |-> Counts(shifted, k)])
    IN  Zero + ((10 - (total % 10)) % 10)

\* A number is accepted exactly if it is not empty, has digits only, and ends
\* in the check digit of the rest ("the Luhn algorithm", counted from the left
\* by the code, from the right by its definition).
AcceptsLuhn ==
    ValidateNumber(number) <=>
        /\ number # <<>>
        /\ \A i \in DOMAIN number : number[i] - Zero \in 0..9
        /\ number[Len(number)] = CheckDigit(SubSeq(number, 1, Len(number) - 1))

\* What the check is for: one mistyped digit in an accepted number, or two
\* adjacent ones swapped (unless they are 0 and 9), is noticed.
CatchesTypos ==
    ValidateNumber(number) =>
        /\ \A i \in DOMAIN number : \A d \in Digits \ {number[i]} :
                ~ValidateNumber([number EXCEPT ![i] = d])
        /\ \A i \in 1..(Len(number) - 1) :
                LET a == number[i]
                    b == number[i + 1]
                IN  a # b /\ {a, b} # {Zero, Zero + 9} =>
                        ~ValidateNumber([number EXCEPT ![i] = b, ![i + 1] = a])
=============================================================================
