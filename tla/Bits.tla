-------------------------------- MODULE Bits --------------------------------
(* The exclusive-or of two bytes, from the highest bit on.                 *)
EXTENDS Integers

ExclusiveOr(a, b) ==
    LET Bit(n, i) == (n \div 2^i) % 2
        sum[i \in 0 .. 8] ==
            IF i = 0 THEN 0
            ELSE (IF Bit(a, 8 - i) = Bit(b, 8 - i) THEN 0 ELSE 1) + 2 * sum[i - 1]
    IN  sum[8]
=============================================================================
