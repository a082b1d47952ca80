------------------------------- MODULE Amounts -------------------------------
(* Amounts of money in halalas, divided as Decimal.quantize divides them.    *)
EXTENDS Integers

\* n/d to the nearest, a half to the even neighbour (ROUND_HALF_EVEN).
Quantized(n, d) ==
    LET q == n \div d
        r == 2 * (n % d)
    IN IF r < d \/ (r = d /\ q % 2 = 0) THEN q ELSE q + 1
=============================================================================
