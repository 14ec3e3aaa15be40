------------------------------- MODULE Scores -------------------------------
(***************************************************************************)
(* The scores the assessments compute: sums and differences of a few       *)
(* decimal weights in IEEE double precision, compared with decimal         *)
(* thresholds.  A sum that is 0.90 on paper may be a little less as a      *)
(* double, and the comparison then goes the other way, so the rounding is  *)
(* modelled exactly.                                                       *)
(*                                                                         *)
(* A double near t thousandths is written [t |-> t, r |-> r] and stands    *)
(* for (t * 2^57 + r) / (125 * 2^60): r is small and tells how far the     *)
(* double is from the decimal.  Numbers with three binades above one half, *)
(* and down to 1/32 below it, are enough for every sum of this program.    *)
(***************************************************************************)
EXTENDS Integers, Sequences

Abs(n) == IF n < 0 THEN -n ELSE n

(* The distance of two doubles around t/1000 + r, in units of 1/2^60.      *)
Spacing(t, r) ==
    LET Below(edge) == Abs(t) < edge \/ (Abs(t) = edge /\ t * r < 0)
    IN  CASE Below(63)   -> 8
          [] Below(125)  -> 16
          [] Below(250)  -> 32
          [] Below(500)  -> 64
          [] Below(1000) -> 128
          [] Below(2000) -> 256
          [] OTHER       -> 512

(* Round to the nearest double, to the even one when two are as near.  A   *)
(* double near t has t * 2^57 + r divisible by 125, and 2^57 is -3 modulo  *)
(* 125: its r is k spacings for a k that is 3t over the spacing, modulo    *)
(* 125.                                                                    *)
InverseModulo125(space) ==
    CASE space = 8 -> 47 [] space = 16 -> 86 [] space = 32 -> 43 [] space = 64 -> 84
      [] space = 128 -> 42 [] space = 256 -> 21 [] OTHER -> 73

LargestBelow(r, space, class) == class + 125 * ((r \div space - class) \div 125)

Nearest(r, space, k) ==
    IF 2 * (r - space * k) < 125 * space \/ (2 * (r - space * k) = 125 * space /\ k % 2 = 0)
    THEN space * k ELSE space * (k + 125)

NearestTo(t, r, space) ==
    Nearest(r, space, LargestBelow(r, space, (3 * t * InverseModulo125(space)) % 125))

(* A difference of near doubles is exact. *)
Rounded(t, r) == [t |-> t, r |-> IF Abs(t) < 32 THEN r ELSE NearestTo(t, r, Spacing(t, r))]

(* The double a decimal of the program is read as: Literal(900) is 0.9.    *)
Doubles == [t \in 0..1000 |-> Rounded(t, 0)]
Literal(t) == Doubles[t]
Plus(a, b) == Rounded(a.t + b.t, a.r + b.r)
Minus(a, b) == Rounded(a.t - b.t, a.r - b.r)

AtLeast(a, b) == a.t > b.t \/ (a.t = b.t /\ a.r >= b.r)

(* A weight that counts only if its signal is there, and the sum of some   *)
(* weights, added one after the other.                                     *)
When(signal, weight) == Literal(IF signal THEN weight ELSE 0)

Sum(weights) ==
    LET sum[n \in 0..Len(weights)] ==
            IF n = 0 THEN Literal(0) ELSE Plus(sum[n - 1], weights[n])
    IN  sum[Len(weights)]

Clamp(score) ==
    IF AtLeast(score, Literal(1000)) THEN Literal(1000)
    ELSE IF AtLeast(score, Literal(0)) THEN score ELSE Literal(0)

Highest(scores) == CHOOSE s \in scores : \A other \in scores : AtLeast(s, other)

Band(score) ==
    IF AtLeast(score, Literal(900)) THEN "high"
    ELSE IF AtLeast(score, Literal(600)) THEN "medium" ELSE "low"

(* The support of a class; the strongest of several; and whether another   *)
(* class has materially similar support.                                   *)
Support(class, score) == [class |-> class, score |-> score]

Strongest(supports) ==
    CHOOSE s \in supports : \A other \in supports : AtLeast(s.score, other.score)

Contested(best, supports) ==
    \E other \in supports \ {best} :
        /\ AtLeast(other.score, Literal(600))
        /\ ~AtLeast(Minus(best.score, other.score), Literal(100))
=============================================================================
