------------------------------ MODULE MCWord32 ------------------------------
(***************************************************************************)
(* The uint32 and int32 arithmetic of Word32, which the contract's execute *)
(* and handleHiLo compute with, checked against reference definitions that *)
(* take another route: numbers split in 16-bit halves for add, sub and the *)
(* comparisons, shift-and-add for multiplication, and the defining         *)
(* equations of quotient and remainder for division.  The operands range   *)
(* over words at the edges: 0, 1, 7, the 16-bit boundary, INT_MAX,         *)
(* INT_MIN, INT_MIN + 1, -7 and -1.                                        *)
(***************************************************************************)
EXTENDS Word32

VARIABLES a, b

wordVars == <<a, b>>

Samples ==
    { ZeroWord, Num(1), Num(2), Num(7), Num(65535), Num(65536), BNot(Shl(Num(1), 31)),
      Shl(Num(1), 31), BOr(Shl(Num(1), 31), Num(1)), BNot(Num(6)), AllOnes }

Init == a \in Samples /\ b \in Samples

Next == \E x, y \in Samples : a' = x /\ b' = y

Spec == Init /\ [][Next]_wordVars

\* The high and low 16-bit halves of a word, as numbers.
Halves(w) == << BitsToNat(SubSeq(w, 1, 16)), BitsToNat(SubSeq(w, 17, 32)) >>

\* (x + y) mod 2^32 and (x - y) mod 2^32 on halves, with carry and borrow.
AddRef(x, y) ==
    LET lo == Halves(x)[2] + Halves(y)[2]
    IN  << (Halves(x)[1] + Halves(y)[1] + lo \div 65536) % 65536, lo % 65536 >>

SubRef(x, y) ==
    LET lo     == Halves(x)[2] + 65536 - Halves(y)[2]
        borrow == IF lo < 65536 THEN 1 ELSE 0
    IN  << (Halves(x)[1] + 65536 - Halves(y)[1] - borrow) % 65536, lo % 65536 >>

\* x * y mod 2^Len(x) by shift-and-add over the bits of y.  The sets of one
\* element make TLC evaluate x and acc[j - 1] once, as in UDivMod.
MulRef(x, y) ==
    LET n == Len(y)
        w == CHOOSE xv \in {x} : TRUE
        acc[j \in 0..n] ==
            IF j = 0 THEN [pos \in DOMAIN w |-> 0]
            ELSE CHOOSE sum \in { IF y[n + 1 - j] = 1 THEN Add(u, Shl(w, j - 1)) ELSE u :
                                   u \in {acc[j - 1]} } : TRUE
    IN  acc[n]

(***************************************************************************)
(* addu, subu and addiu wrap modulo 2^32: the byte-wise carry chain of     *)
(* AddBits agrees with addition on 16-bit halves, carries and borrows      *)
(* across the halves included.                                             *)
(***************************************************************************)
AddSubMatchReference ==
    /\ Halves(Add(a, b)) = AddRef(a, b)
    /\ Halves(Sub(a, b)) = SubRef(a, b)

(***************************************************************************)
(* sltu compares as unsigned and slt as two's complement: INT_MIN is the   *)
(* least int32 and -1 the greatest negative one.                           *)
(***************************************************************************)
CompareMatchesReference ==
    LET ult == Halves(a)[1] < Halves(b)[1]
               \/ (Halves(a)[1] = Halves(b)[1] /\ Halves(a)[2] < Halves(b)[2])
    IN  /\ ULt(a, b) <=> ult
        /\ SLt(a, b) <=> IF a[1] # b[1] THEN a[1] = 1 ELSE ult

(***************************************************************************)
(* mul, mult and multu keep the low 32 bits of the product: the byte       *)
(* schoolbook of MulMod agrees with shift-and-add.                         *)
(***************************************************************************)
MulMatchesReference == MulMod(a, b) = MulRef(a, b)

(***************************************************************************)
(* divu: for a divisor that is not 0, quotient and remainder satisfy       *)
(* a = q * b + r exactly (q widened to 64 bits, so nothing wraps), r < b. *)
(***************************************************************************)
UDivMatchesReference ==
    ~IsZero(b) =>
        \A qr \in {UDivMod(a, b)} :
            /\ Add(MulRef(ZeroExt64(qr[1]), b), ZeroExt64(qr[2]))
               = ZeroExt64(a)
            /\ ULt(qr[2], b)

(***************************************************************************)
(* div (SDIV, SMOD): the quotient truncates toward zero, so the remainder  *)
(* has the dividend's sign and a smaller magnitude than the divisor, and   *)
(* a = q * b + r modulo 2^32 (INT_MIN / -1 wraps to INT_MIN).              *)
(***************************************************************************)
SDivMatchesReference ==
    ~IsZero(b) =>
        \A qr \in {SDivMod(a, b)} :
            /\ Add(MulRef(qr[1], b), qr[2]) = a
            /\ IsZero(qr[2]) \/ qr[2][1] = a[1]
            /\ ULt(AbsW(qr[2]), AbsW(b))
=============================================================================
