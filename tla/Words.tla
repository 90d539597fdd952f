-------------------------------- MODULE Words -------------------------------
(* The int and the unsigned int of the code, at a width small enough to    *)
(* check: arithmetic wraps as two's complement does.                       *)
EXTENDS Integers

CONSTANT Half  \* half of the values of an int: 2^31 in the code

ASSUME WordAssumption == Half \in Nat \ {0}

Ints == -Half .. Half - 1

AsUnsigned(n) == n % (2 * Half)
AsInt(n)      == AsUnsigned(n + Half) - Half
=============================================================================
