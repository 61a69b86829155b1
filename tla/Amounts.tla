------------------------------ MODULE Amounts ------------------------------
(***************************************************************************)
(* The amounts of an invoice as the program computes with them: float64.   *)
(* An amount arrives as a decimal number, here of mills: thousandths of    *)
(* the currency unit, as nothing asks for whole cents.  The nearest double *)
(* is kept, so sums carry rounding errors.                                 *)
(*                                                                         *)
(* The double x is kept exactly, as [c |-> c, d |-> d] with                *)
(*         x = (c + d * 2^-59) / 1000.                                     *)
(* c is the amount in mills and d the error.  A double of magnitude        *)
(* [2^e, 2^(e+1)) is a multiple of 2^(e-52), which is 125 * 2^(e+10) units *)
(* of d; doubles below one mill only arise as differences of larger ones   *)
(* and are exact.                                                          *)
(***************************************************************************)
EXTENDS Integers, SequencesExt

CONSTANT
    MaxScale      \* bound: amounts and their sums stay below 2^(MaxScale - 9)

ASSUME ScaleAssumption == MaxScale \in 0 .. 34

InRange(mills) == 64 * mills < 125 * 2^MaxScale /\ -64 * mills < 125 * 2^MaxScale

Zero == [c |-> 0, d |-> 0]

IsNegative(x) == x.c < 0 \/ (x.c = 0 /\ x.d < 0)

Negated(x) == [c |-> -x.c, d |-> -x.d]

(* x >= 2^(s-10).                                                          *)
Reaches(x, s) == 128 * x.c > 125 * 2^s \/ (128 * x.c = 125 * 2^s /\ x.d >= 0)

(* The spacing of the doubles around x >= 0 is 125 * 2^Scale(x) units: the *)
(* largest s that x reaches, at least 0.                                   *)
Scale(x) ==
    CHOOSE s \in 0 .. MaxScale : /\ s = 0 \/ Reaches(x, s)
                                 /\ \A t \in (s + 1) .. MaxScale : ~Reaches(x, t)

(* c * 2^59 modulo 250 * 2^s, which is 2^(s+1) times c * 2^(58-s) modulo   *)
(* 125.                                                                    *)
Residue(c, s) ==
    LET half == (58 - s) \div 2
    IN  2^(s + 1) * (((c % 125) * (((2^half % 125) * (2^(58 - s - half) % 125)) % 125)) % 125)

(* Round to nearest, ties to even.                                         *)
RoundPositive(x) ==
    LET s    == Scale(x)
        ulp  == 125 * 2^s
        r    == (Residue(x.c, s) + x.d) % (2 * ulp)
        over == r % ulp
        down == 2 * over < ulp \/ (2 * over = ulp /\ r < ulp)
    IN  [x EXCEPT !.d = IF over = 0 THEN @ ELSE IF down THEN @ - over ELSE @ + ulp - over]

Rounded(x) == IF IsNegative(x) THEN Negated(RoundPositive(Negated(x))) ELSE RoundPositive(x)

(* The double nearest to the decimal number a JSON document gives.         *)
Parsed(mills) == Rounded([c |-> mills, d |-> 0])

Plus(x, y) == Rounded([c |-> x.c + y.c, d |-> x.d + y.d])

(* total := 0.0; for each amount, in the order of their places: += amount  *)
FloatSum(amounts) == FoldLeft(LAMBDA total, mills : Plus(total, Parsed(mills)), Zero, amounts)

Exceeds(x, mills) == x.c > mills \/ (x.c = mills /\ x.d > Parsed(mills).d)

(* fmt.Sprintf("%.2f", x): the cents nearest to x, the even one of two.    *)
(* The error is below half a mill, so that it decides ties only.           *)
Printed(x) ==
    LET cents == x.c \div 10
        rest  == x.c % 10
        up    == \/ rest > 5
                 \/ rest = 5 /\ (x.d > 0 \/ (x.d = 0 /\ cents % 2 = 1))
    IN  IF up THEN cents + 1 ELSE cents

ExactSum(amounts) == FoldLeft(LAMBDA total, n : total + n, 0, amounts)

=============================================================================
