------------------------------- MODULE Word32 -------------------------------
(***************************************************************************)
(* The uint32 arithmetic of the MIPS contract (mips.go:34, solc 0.7.6).    *)
(* Every register, pc and memory word of the VM is a uint32, and the       *)
(* contract computes on them with the EVM's 256-bit operations followed    *)
(* by a mask to 32 bits.  A word here is a bit vector of 32 bits, most     *)
(* significant first: w[1] is bit 31 and w[32] is bit 0.  So every         *)
(* operation, wrap-around included, is exact, and no number exceeds what   *)
(* TLC represents.  Loops of the contract (count leading ones) and the     *)
(* EVM's own multi-step operations (add with carry, mul, div) are          *)
(* recursive functions, never RECURSIVE operators.                         *)
(***************************************************************************)
EXTENDS Naturals, Sequences

Bit == {0, 1}

Word == [1..32 -> Bit]

\* The number n < 2^31 as a word.
Num(n) == [i \in 1..32 |-> IF i = 1 THEN 0 ELSE (n \div 2^(32 - i)) % 2]

\* The value of a bit string of at most 31 bits (or with leading zeros).
BitsToNat(b) ==
    LET v[k \in 0..Len(b)] == IF k = 0 THEN 0 ELSE 2 * v[k - 1] + b[k]
    IN  v[Len(b)]

\* Bits hi..lo of w, as a bit string (MIPS numbering, bit 0 last).
Field(w, hi, lo) == [i \in 1..(hi - lo + 1) |-> w[32 - hi + i - 1]]

FieldNat(w, hi, lo) == BitsToNat(Field(w, hi, lo))

ZeroWord == [i \in 1..32 |-> 0]

AllOnes == [i \in 1..32 |-> 1]

\* (1 << k) - 1: the k low bits set.
LowOnes(k) == [i \in 1..32 |-> IF i > 32 - k THEN 1 ELSE 0]

\* x & 0xFFFF: the low half, zero-extended.
Imm16(w) == [i \in 1..32 |-> IF i > 16 THEN w[i] ELSE 0]

IsZero(w) == \A i \in DOMAIN w : w[i] = 0

BAnd(a, b) == [i \in DOMAIN a |-> a[i] * b[i]]
BOr(a, b)  == [i \in DOMAIN a |-> IF a[i] + b[i] > 0 THEN 1 ELSE 0]
BXor(a, b) == [i \in DOMAIN a |-> (a[i] + b[i]) % 2]
BNot(a)    == [i \in DOMAIN a |-> 1 - a[i]]

\* x << n and x >> n in the width of x (bits shifted out are lost).
Shl(w, n) == [i \in DOMAIN w |-> IF i + n \in DOMAIN w THEN w[i + n] ELSE 0]
Shr(w, n) == [i \in DOMAIN w |-> IF i > n THEN w[i - n] ELSE 0]

\* The bytes of a bit string of 8k bits, most significant first, and back.
ToBytes(w) == [j \in 1..(Len(w) \div 8) |-> BitsToNat(SubSeq(w, 8 * j - 7, 8 * j))]

FromBytes(b) ==
    [i \in 1..(8 * Len(b)) |-> (b[(i - 1) \div 8 + 1] \div 2^(7 - ((i - 1) % 8))) % 2]

(***************************************************************************)
(* a + b + cin modulo 2^Len(a), byte by byte: carry[j] is the carry out of *)
(* the j-th least significant byte, carry[0] = cin.  The sums here and in  *)
(* MulMod end in \o << >>, which is the same sequence: it makes TLC build  *)
(* the result once rather than at each bit a later operation reads.        *)
(***************************************************************************)
\* Mutant: the sum is not masked, the carry out of the top byte is kept.
AddBitsWide(a, b, cin) ==
    LET x == ToBytes(a)
        y == ToBytes(b)
        n == Len(x)
        carry[j \in 0..n] ==
            IF j = 0 THEN cin ELSE (x[n - j + 1] + y[n - j + 1] + carry[j - 1]) \div 256
    IN  <<carry[n]>> \o FromBytes([p \in 1..n |-> (x[p] + y[p] + carry[n - p]) % 256])

AddBits(a, b, cin) ==
    LET x == ToBytes(a)
        y == ToBytes(b)
        n == Len(x)
        carry[j \in 0..n] ==
            IF j = 0 THEN cin ELSE (x[n - j + 1] + y[n - j + 1] + carry[j - 1]) \div 256
    IN  FromBytes([p \in 1..n |-> (x[p] + y[p] + carry[n - p]) % 256]) \o << >>

Add(a, b) == AddBits(a, b, 0)

Sub(a, b) == AddBits(a, BNot(b), 1)

Neg(a) == Sub([i \in DOMAIN a |-> 0], a)

\* a < b as unsigned: at the first bit where they differ, a has 0.
ULt(a, b) ==
    \E j \in DOMAIN a : a[j] < b[j] /\ \A m \in 1..(j - 1) : a[m] = b[m]

\* a < b as two's complement: flip the sign bits, compare unsigned.
FlipSign(w) == [i \in DOMAIN w |-> IF i = 1 THEN 1 - w[i] ELSE w[i]]

\* Mutant: slt compares as unsigned.
SLtUnsigned(a, b) == ULt(a, b)

SLt(a, b) == ULt(FlipSign(a), FlipSign(b))

(***************************************************************************)
(* SE(dat, idx) of MIPS.sol, as it is written: the upper 32 - idx bits    *)
(* are set when dat >> (idx - 1) is not zero, i.e. when any bit at or      *)
(* above idx - 1 is set, not only bit idx - 1.                             *)
(***************************************************************************)
SE(dat, idx) ==
    LET isSigned == \E k \in 1..(33 - idx) : dat[k] = 1
    IN  [i \in 1..32 |-> IF i > 32 - idx THEN dat[i]
                         ELSE IF isSigned THEN 1 ELSE 0]

ZeroExt64(w) == [i \in 1..32 |-> 0] \o w
SignExt64(w) == [i \in 1..32 |-> w[1]] \o w

(***************************************************************************)
(* a * b modulo 2^Len(a), by schoolbook multiplication on bytes.  Column   *)
(* j (j = 1 the least significant) sums x_i * y_k with i + k = j + 1; the  *)
(* carries run from column 1 up.  Every number stays below 2^21.           *)
(***************************************************************************)
\* Mutant: the carries between the byte columns are dropped.
MulModNoCarry(a, b) ==
    LET x == ToBytes(a)
        y == ToBytes(b)
        n == Len(x)
        Col(j) == LET s[i \in 0..j] ==
                          IF i = 0 THEN 0 ELSE s[i - 1] + x[n - i + 1] * y[n - j + i]
                  IN  s[j]
    IN  FromBytes([p \in 1..n |-> Col(n - p + 1) % 256]) \o << >>

MulMod(a, b) ==
    LET x == ToBytes(a)
        y == ToBytes(b)
        n == Len(x)
        Col(j) == LET s[i \in 0..j] ==
                          IF i = 0 THEN 0 ELSE s[i - 1] + x[n - i + 1] * y[n - j + i]
                  IN  s[j]
        carry[j \in 0..n] == IF j = 0 THEN 0 ELSE (Col(j) + carry[j - 1]) \div 256
    IN  FromBytes([p \in 1..n |-> (Col(n - p + 1) + carry[n - p]) % 256]) \o << >>

(***************************************************************************)
(* Unsigned division of words, b # 0: restoring division.  st[k] holds the *)
(* quotient and the remainder after k bits of a.  When the remainder's top *)
(* bit is shifted out, the 33-bit value exceeds b and the 32-bit           *)
(* difference is exact.  A level is bound by a set comprehension,          *)
(* {F(v) : v \in {x}}, which is F(x); so TLC evaluates it once.            *)
(* Returns <<a / b, a % b>>.  Words are built by function constructors,    *)
(* never by EXCEPT on a computed word, which TLC may lose when it copies    *)
(* the word into a tuple.                                                   *)
(***************************************************************************)
\* (r << 1) | bit, in 32 bits.
ShiftIn(r, bit) == [i \in 1..32 |-> IF i = 32 THEN bit ELSE r[i + 1]]

\* One step: bring in bit bitIdx of the dividend, subtract when it fits.
\* Mutant: the divisor is subtracted only when the remainder exceeds it.
DivStepStrict(prev, dividend, divisor, bitIdx) ==
    LET rem == ShiftIn(prev[2], dividend[bitIdx])
        ge  == prev[2][1] = 1 \/ ULt(divisor, rem)
    IN  << ShiftIn(prev[1], IF ge THEN 1 ELSE 0),
           IF ge THEN Sub(rem, divisor) ELSE rem >>

DivStep(prev, dividend, divisor, bitIdx) ==
    LET rem == ShiftIn(prev[2], dividend[bitIdx])
        ge  == prev[2][1] = 1 \/ ~ULt(rem, divisor)
    IN  << ShiftIn(prev[1], IF ge THEN 1 ELSE 0),
           IF ge THEN Sub(rem, divisor) ELSE rem >>

UDivMod(a, b) ==
    LET st[k \in 0..32] ==
            IF k = 0 THEN <<ZeroWord, ZeroWord>>
            ELSE CHOOSE r \in {DivStep(v, a, b, k) : v \in {st[k - 1]}} : TRUE
    IN  st[32]

\* int32 division of the EVM (SDIV, SMOD): truncates toward zero, the
\* remainder takes the dividend's sign.
AbsW(a) == IF a[1] = 1 THEN Neg(a) ELSE a

\* Mutant: the remainder takes the divisor's sign (a floored modulo).
SDivModRemSignOfDivisor(a, b) ==
    LET qr == UDivMod(AbsW(a), AbsW(b))
    IN  << IF a[1] # b[1] THEN Neg(qr[1]) ELSE qr[1],
           IF b[1] = 1 THEN Neg(qr[2]) ELSE qr[2] >>

SDivMod(a, b) ==
    LET qr == UDivMod(AbsW(a), AbsW(b))
    IN  << IF a[1] # b[1] THEN Neg(qr[1]) ELSE qr[1],
           IF a[1] = 1 THEN Neg(qr[2]) ELSE qr[2] >>

\* The loop `while (rs & 0x80000000 != 0) { i++; rs <<= 1; }`.
CountLeadingOnes(w) ==
    CHOOSE k \in 0..32 : (\A j \in 1..k : w[j] = 1) /\ (k = 32 \/ w[k + 1] = 0)

\* The four bytes of a word, most significant first, and back.
WordBytes(w) == ToBytes(w)

BytesWord(b) == FromBytes(b)
=============================================================================
