--------------------------------- MODULE Decimals ---------------------------------
(*********************************************************************************)
(* The order JavaScript's < gives two Decimal objects of Prisma.  Both operands   *)
(* are turned into strings, and strings are compared character by character.     *)
(* Integers stand for the decimals; a minus sign sorts before every digit.       *)
(*********************************************************************************)
EXTENDS Integers

\* How many digits n is written with.
Digits[n \in Nat] == IF n < 10 THEN 1 ELSE 1 + Digits[n \div 10]

\* The first k digits of n.
Leading(n, k) == n \div (10 ^ (Digits[n] - k))

\* Variant: the numeric order, as Decimal.lessThan has it.
LessNumeric(a, b) == a < b
\* a < b, where b is not negative.
Less(a, b) ==
  \/ a < 0
  \/ /\ a >= 0
     /\ LET common == IF Digits[a] < Digits[b] THEN Digits[a] ELSE Digits[b]
        IN  \/ Leading(a, common) < Leading(b, common)
            \/ Leading(a, common) = Leading(b, common) /\ Digits[a] < Digits[b]
=================================================================================
