------------------------------ MODULE Galois256 ------------------------------
(***************************************************************************)
(* Arithmetic of GF(2^8) with the polynomial x^8 + x^4 + x^3 + x^2 + 1, as *)
(* erasureCoding.service.ts and secrets.service.ts build it: tables of the *)
(* powers of 2 and of their logarithms, and products and quotients through *)
(* the tables.                                                             *)
(***************************************************************************)
EXTENDS Naturals, Sequences, SequencesExt

Primitive == 285

\* a xor b, bit by bit from the top; nine bits, since a doubled byte has nine.
gfAdd(a, b) ==
    FoldLeft(LAMBDA s, i : 2 * s + (IF (a \div 2^i) % 2 = (b \div 2^i) % 2 THEN 0 ELSE 1),
             0, <<8, 7, 6, 5, 4, 3, 2, 1, 0>>)

\* x <<= 1, reduced when it leaves the byte.
Doubled(x) == IF 2 * x >= 256 THEN gfAdd(2 * x, Primitive) ELSE 2 * x

\* gfExp: gfExp[i + 1] is the i-th power of 2, for 0 <= i <= 254.
gfExp == FoldLeft(LAMBDA s, i : Append(s, Doubled(Last(s))), <<1>>, [i \in 1..254 |-> i])
\* gfLog[x] is the exponent of x in 1..255.
gfLog == FoldLeft(LAMBDA s, i : [s EXCEPT ![gfExp[i]] = i - 1],
                  [x \in 1..255 |-> 0], [i \in 1..255 |-> i])

gfMul(a, b) == IF a = 0 \/ b = 0 THEN 0 ELSE gfExp[1 + ((gfLog[a] + gfLog[b]) % 255)]
gfDiv(a, b) == IF a = 0 THEN 0 ELSE gfExp[1 + ((gfLog[a] + 255 - gfLog[b]) % 255)]
gfSum(s)    == FoldLeft(gfAdd, 0, s)
=============================================================================
