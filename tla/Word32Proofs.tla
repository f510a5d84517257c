----------------------------- MODULE Word32Proofs -----------------------------
(***************************************************************************)
(* Lemmas about the comparisons of Word32, for every pair of words.  sltu  *)
(* and sltiu compute ULt, slt and slti compute SLt, mmap's heap check and  *)
(* the read and write syscalls' clamps compare with ULt, and divu's        *)
(* restoring division subtracts when ~ULt(rem, divisor).  That these are   *)
(* orders, and that SLt is two's-complement order, is what those uses take *)
(* for granted.  The first differing bit of two words is a least element,  *)
(* which WFMin of WellFoundedInduction provides, with < on Nat.             *)
(***************************************************************************)
EXTENDS Word32, WellFoundedInduction, TLAPS

\* Two different words have a first bit where they differ.
LEMMA FirstDifference ==
    ASSUME NEW a \in Word, NEW b \in Word, a # b
    PROVE  \E j \in 1..32 : a[j] # b[j] /\ \A m \in 1..(j - 1) : a[m] = b[m]
<1> DEFINE T == {j \in 1..32 : a[j] # b[j]}
<1>1. T # {}
  BY DEF Word
<1>2. T \subseteq Nat
  OBVIOUS
<1>3. \E x \in T : \A y \in T : ~(<<y, x>> \in OpToRel(<, Nat))
  BY <1>1, <1>2, NatLessThanWellFounded, WFMin, Zenon
<1>4. PICK x \in T : \A y \in T : ~(<<y, x>> \in OpToRel(<, Nat))
  BY <1>3
<1>5. \A m \in 1..(x - 1) : a[m] = b[m]
  <2> SUFFICES ASSUME NEW m \in 1..(x - 1), a[m] # b[m] PROVE FALSE
    OBVIOUS
  <2>1. m \in T /\ m < x
    OBVIOUS
  <2>2. <<m, x>> \in Nat \X Nat /\ <<m, x>>[1] < <<m, x>>[2]
    BY <2>1
  <2>3. <<m, x>> \in OpToRel(<, Nat)
    BY <2>2, Zenon DEF OpToRel
  <2>4. QED
    BY <1>4, <2>1, <2>3
<1>6. QED
  BY <1>5

\* No word is below itself.
LEMMA ULtIrreflexive ==
    ASSUME NEW a \in Word
    PROVE  ~ULt(a, a)
BY DEF ULt, Word, Bit

\* Two words are never each below the other.
LEMMA ULtAsymmetric ==
    ASSUME NEW a \in Word, NEW b \in Word, ULt(a, b)
    PROVE  ~ULt(b, a)
<1> SUFFICES ASSUME ULt(b, a) PROVE FALSE
  OBVIOUS
<1>1. PICK j \in 1..32 : a[j] < b[j] /\ \A m \in 1..(j - 1) : a[m] = b[m]
  BY DEF ULt, Word
<1>2. PICK k \in 1..32 : b[k] < a[k] /\ \A m \in 1..(k - 1) : b[m] = a[m]
  BY DEF ULt, Word
<1>3. a[j] \in Bit /\ b[j] \in Bit /\ a[k] \in Bit /\ b[k] \in Bit
  BY DEF Word
<1>4. QED
  BY <1>1, <1>2, <1>3 DEF Bit

\* ULt is transitive: the first difference of a and c is at the earlier of
\* the two first differences.
LEMMA ULtTransitive ==
    ASSUME NEW a \in Word, NEW b \in Word, NEW c \in Word,
           ULt(a, b), ULt(b, c)
    PROVE  ULt(a, c)
<1>1. PICK j \in 1..32 : a[j] < b[j] /\ \A m \in 1..(j - 1) : a[m] = b[m]
  BY DEF ULt, Word
<1>2. PICK k \in 1..32 : b[k] < c[k] /\ \A m \in 1..(k - 1) : b[m] = c[m]
  BY DEF ULt, Word
<1>3. CASE j < k
  <2>1. a[j] < c[j] /\ \A m \in 1..(j - 1) : a[m] = c[m]
    BY <1>1, <1>2, <1>3
  <2>2. QED
    BY <2>1 DEF ULt, Word
<1>4. CASE k < j
  <2>1. a[k] < c[k] /\ \A m \in 1..(k - 1) : a[m] = c[m]
    BY <1>1, <1>2, <1>4
  <2>2. QED
    BY <2>1 DEF ULt, Word
<1>5. CASE j = k
  <2>1. a[j] < c[j] /\ \A m \in 1..(j - 1) : a[m] = c[m]
    BY <1>1, <1>2, <1>5 DEF Word, Bit
  <2>2. QED
    BY <2>1 DEF ULt, Word
<1>6. QED
  BY <1>3, <1>4, <1>5

\* Of two different words one is below the other.
LEMMA ULtTotal ==
    ASSUME NEW a \in Word, NEW b \in Word, a # b
    PROVE  ULt(a, b) \/ ULt(b, a)
<1>1. PICK j \in 1..32 : a[j] # b[j] /\ \A m \in 1..(j - 1) : a[m] = b[m]
  BY FirstDifference
<1>2. a[j] < b[j] \/ b[j] < a[j]
  BY <1>1 DEF Word, Bit
<1>3. QED
  BY <1>1, <1>2 DEF ULt, Word

\* FlipSign flips bit 31 and keeps the others.
LEMMA FlipSignFacts ==
    ASSUME NEW a \in Word
    PROVE  /\ FlipSign(a) \in Word
           /\ FlipSign(a)[1] = 1 - a[1]
           /\ \A i \in 2..32 : FlipSign(a)[i] = a[i]
BY DEF FlipSign, Word, Bit

(***************************************************************************)
(* slt and slti compare as two's complement, for every pair of words: a    *)
(* word with bit 31 set (negative) is below one without it, and two words  *)
(* of the same sign compare as unsigned.  The contract compares            *)
(* int32(rs) < int32(rt), which the model computes by flipping the sign    *)
(* bits and comparing unsigned; the run word32_reference checks the same   *)
(* at INT_MIN, INT_MAX, -1 and the other edge words.                       *)
(***************************************************************************)
THEOREM SLtSignRule ==
    ASSUME NEW a \in Word, NEW b \in Word
    PROVE  SLt(a, b) <=> IF a[1] # b[1] THEN a[1] = 1 ELSE ULt(a, b)
<1> DEFINE fa == FlipSign(a)
           fb == FlipSign(b)
<1>1. /\ fa \in Word /\ fa[1] = 1 - a[1] /\ \A i \in 2..32 : fa[i] = a[i]
      /\ fb \in Word /\ fb[1] = 1 - b[1] /\ \A i \in 2..32 : fb[i] = b[i]
  BY FlipSignFacts
<1>2. a[1] \in Bit /\ b[1] \in Bit
  BY DEF Word
<1>3. CASE a[1] # b[1]
  <2>1. ASSUME ULt(fa, fb) PROVE fa[1] < fb[1]
    <3>1. PICK j \in 1..32 : fa[j] < fb[j] /\ \A m \in 1..(j - 1) : fa[m] = fb[m]
      BY <1>1, <2>1 DEF ULt, Word
    <3>2. fa[1] # fb[1]
      BY <1>1, <1>2, <1>3 DEF Bit
    <3>3. j = 1
      BY <3>1, <3>2
    <3>4. QED
      BY <3>1, <3>3
  <2>2. ASSUME fa[1] < fb[1] PROVE ULt(fa, fb)
    BY <1>1, <2>2 DEF ULt, Word
  <2>3. fa[1] < fb[1] <=> a[1] = 1
    BY <1>1, <1>2, <1>3 DEF Bit
  <2>4. QED
    BY <1>3, <2>1, <2>2, <2>3 DEF SLt
<1>4. CASE a[1] = b[1]
  <2>1. ASSUME NEW j \in 1..32
        PROVE  (fa[j] < fb[j] /\ \A m \in 1..(j - 1) : fa[m] = fb[m])
                 <=> (a[j] < b[j] /\ \A m \in 1..(j - 1) : a[m] = b[m])
    <3>1. CASE j = 1
      <4>1. fa[1] = fb[1] /\ fa[1] \in Bit
        BY <1>1, <1>2, <1>4 DEF Bit
      <4>2. ~(fa[1] < fb[1]) /\ ~(a[1] < b[1])
        BY <1>2, <1>4, <4>1 DEF Bit
      <4>3. QED
        BY <3>1, <4>2
    <3>2. CASE j # 1
      <4>1. fa[j] = a[j] /\ fb[j] = b[j]
        BY <1>1, <3>2
      <4>2. \A m \in 1..(j - 1) : fa[m] = fb[m] <=> a[m] = b[m]
        BY <1>1, <1>2, <1>4
      <4>3. QED
        BY <4>1, <4>2
    <3>3. QED
      BY <3>1, <3>2
  <2>2. ULt(fa, fb) <=> ULt(a, b)
    BY <1>1, <2>1 DEF ULt, Word
  <2>3. QED
    BY <1>4, <2>2 DEF SLt
<1>5. QED
  BY <1>3, <1>4


\* What the loop of clo and clz stops at: k leading ones, then a zero or
\* the end of the word.
LeadingOnes(w, k) == (\A j \in 1..k : w[j] = 1) /\ (k = 32 \/ w[k + 1] = 0)

\* The loop stops somewhere: the least k with k = 32 or bit k + 1 clear.
LEMMA LeadingOnesExists ==
    ASSUME NEW w \in Word
    PROVE  \E k \in 0..32 : LeadingOnes(w, k)
<1> DEFINE T == {k \in 0..32 : k = 32 \/ w[k + 1] = 0}
<1>1. T # {} /\ T \subseteq Nat
  OBVIOUS
<1>2. \E x \in T : \A y \in T : ~(<<y, x>> \in OpToRel(<, Nat))
  BY <1>1, NatLessThanWellFounded, WFMin, Zenon
<1>3. PICK x \in T : \A y \in T : ~(<<y, x>> \in OpToRel(<, Nat))
  BY <1>2
<1>4. ASSUME NEW j \in 1..x PROVE w[j] = 1
  <2>1. j - 1 \in 0..32 /\ j - 1 < x /\ j \in 1..32
    OBVIOUS
  <2>2. <<j - 1, x>> \in Nat \X Nat /\ <<j - 1, x>>[1] < <<j - 1, x>>[2]
    BY <2>1
  <2>3. <<j - 1, x>> \in OpToRel(<, Nat)
    BY <2>2, Zenon DEF OpToRel
  <2>4. j - 1 \notin T
    BY <1>3, <2>3
  <2>5. w[j] # 0 /\ w[j] \in Bit
    BY <2>1, <2>4 DEF Word
  <2>6. QED
    BY <2>5 DEF Bit
<1>5. QED
  BY <1>4 DEF LeadingOnes

\* It stops at one place only.
LEMMA LeadingOnesUnique ==
    ASSUME NEW w \in Word, NEW k1 \in 0..32, NEW k2 \in 0..32,
           LeadingOnes(w, k1), LeadingOnes(w, k2)
    PROVE  k1 = k2
<1> SUFFICES ASSUME k1 # k2 PROVE FALSE
  OBVIOUS
<1>1. CASE k1 < k2
  BY <1>1 DEF LeadingOnes
<1>2. CASE k2 < k1
  BY <1>2 DEF LeadingOnes
<1>3. QED
  BY <1>1, <1>2

(***************************************************************************)
(* clo and clz return the number of leading ones of rs (of ~rs for clz):   *)
(* the loop `while (rs & 0x80000000 != 0) { i++; rs <<= 1; }' stops at     *)
(* exactly one count, so CountLeadingOnes, which chooses a count at which  *)
(* it may stop, is that count for every word.                              *)
(***************************************************************************)
THEOREM CountLeadingOnesCorrect ==
    ASSUME NEW w \in Word, NEW k \in 0..32, LeadingOnes(w, k)
    PROVE  CountLeadingOnes(w) = k
<1>1. \E n \in 0..32 : LeadingOnes(w, n)
  BY LeadingOnesExists
<1>2. CountLeadingOnes(w) \in 0..32 /\ LeadingOnes(w, CountLeadingOnes(w))
  BY <1>1 DEF CountLeadingOnes, LeadingOnes
<1>3. QED
  BY <1>2, LeadingOnesUnique

=============================================================================
