------------------------ MODULE PreimageOracleProofs ------------------------
(***************************************************************************)
(* Proofs about the PreimageOracle contract, for every value of the        *)
(* constants: the type invariant, that reads of content-addressed (keccak) *)
(* keys return the slice of the length-prefixed preimage, and that the     *)
(* length prefix served at offset 0 agrees with the stored length.         *)
(***************************************************************************)
EXTENDS PreimageOracle, SequenceTheorems, TLAPS

-----------------------------------------------------------------------------
(* Lemmas about the byte strings the contract builds.                      *)

LEMMA LengthPrefixType ==
    ASSUME NEW n \in Nat
    PROVE  /\ LengthPrefix(n) \in Seq(Bytes)
           /\ Len(LengthPrefix(n)) = 8
<1> DEFINE low == [i \in 1..4 |-> (n \div 256^(4 - i)) % 256]
<1>1. <<0, 0, 0, 0>> \in Seq(Bytes) /\ Len(<<0, 0, 0, 0>>) = 4
  BY DEF Bytes
<1>2. \A i \in 1..4 : (n \div 256^(4 - i)) % 256 \in Bytes
  BY DEF Bytes
<1>3. low \in Seq(Bytes) /\ Len(low) = 4
  BY <1>2, IsASeq
<1>4. QED
  BY <1>1, <1>3, ConcatProperties DEF LengthPrefix

LEMMA StreamType ==
    ASSUME NEW p \in Seq(Bytes)
    PROVE  /\ Stream(p) \in Seq(Bytes)
           /\ Len(Stream(p)) = Len(p) + 8
<1>1. Len(p) \in Nat
  BY LenProperties
<1>2. LengthPrefix(Len(p)) \in Seq(Bytes) /\ Len(LengthPrefix(Len(p))) = 8
  BY <1>1, LengthPrefixType
<1>3. LengthPrefix(Len(p)) \o p \in Seq(Bytes)
      /\ Len(LengthPrefix(Len(p)) \o p) = Len(LengthPrefix(Len(p))) + Len(p)
  BY <1>2, ConcatProperties
<1>4. QED
  BY <1>1, <1>2, <1>3 DEF Stream

LEMMA Slice32Type ==
    ASSUME NEW bs \in Seq(Bytes), NEW o \in Nat
    PROVE  Slice32(bs, o) \in [1..32 -> Bytes]
<1>1. ASSUME NEW i \in 1..32, o + i <= Len(bs)
      PROVE  bs[o + i] \in Bytes
  <2>1. o + i \in 1..Len(bs)
    BY <1>1, LenProperties
  <2>2. QED
    BY <2>1, ElementOfSeq
<1>2. ASSUME NEW i \in 1..32
      PROVE  (IF o + i <= Len(bs) THEN bs[o + i] ELSE 0) \in Bytes
  <2>1. CASE o + i <= Len(bs)
    BY <1>1, <2>1
  <2>2. CASE ~(o + i <= Len(bs))
    BY <2>2 DEF Bytes
  <2>3. QED
    BY <2>1, <2>2
<1>3. QED
  BY <1>2, Zenon DEF Slice32

LEMMA ZerosType ==
    ASSUME NEW n \in Nat
    PROVE  Zeros(n) \in Seq(Bytes) /\ Len(Zeros(n)) = n
<1>1. \A i \in 1..n : 0 \in Bytes
  BY DEF Bytes
<1>2. QED
  BY <1>1, IsASeq DEF Zeros

\* Two byte strings whose lengths add up to 32 make a 32-byte word.
LEMMA ConcatWord ==
    ASSUME NEW u \in Seq(Bytes), NEW v \in Seq(Bytes), Len(u) + Len(v) = 32
    PROVE  u \o v \in [1..32 -> Bytes]
<1>1. u \o v \in Seq(Bytes) /\ Len(u \o v) = 32
  BY ConcatProperties
<1>2. QED
  BY <1>1, LenProperties

\* The two parts loadLocalData builds are 32-byte words.
LEMMA LocalPartsType ==
    ASSUME NEW w \in LocalWords, NEW s \in LocalSizes
    PROVE  /\ LengthPrefix(s) \o SubSeq(w, 1, 24) \in [1..32 -> Bytes]
           /\ SubSeq(w, 25, 32) \o Zeros(24) \in [1..32 -> Bytes]
<1>1. w \in Seq(Bytes) /\ Len(w) = 32
  BY WordsAssumption
<1>2. \A i \in 1..32 : w[i] \in Bytes
  BY <1>1, ElementOfSeq
<1>3. SubSeq(w, 1, 24) \in Seq(Bytes) /\ Len(SubSeq(w, 1, 24)) = 24
  BY <1>2, SubSeqProperties
<1>4. SubSeq(w, 25, 32) \in Seq(Bytes) /\ Len(SubSeq(w, 25, 32)) = 8
  BY <1>2, SubSeqProperties
<1>5. LengthPrefix(s) \in Seq(Bytes) /\ Len(LengthPrefix(s)) = 8
  <2>1. s \in Nat
    BY SizesAssumption
  <2>2. QED
    BY <2>1, LengthPrefixType
<1>6. Zeros(24) \in Seq(Bytes) /\ Len(Zeros(24)) = 24
  BY ZerosType
<1>7. LengthPrefix(s) \o SubSeq(w, 1, 24) \in [1..32 -> Bytes]
  <2>1. Len(LengthPrefix(s)) + Len(SubSeq(w, 1, 24)) = 32
    BY <1>3, <1>5
  <2>2. QED
    BY <1>3, <1>5, <2>1, ConcatWord
<1>8. SubSeq(w, 25, 32) \o Zeros(24) \in [1..32 -> Bytes]
  <2>1. Len(SubSeq(w, 25, 32)) + Len(Zeros(24)) = 32
    BY <1>4 DEF Zeros
  <2>2. QED
    BY <1>4, <1>6, <2>1, ConcatWord
<1>9. QED
  BY <1>7, <1>8

\* Keys: where they live, and that the keccak key names its preimage.
LEMMA KeyFacts ==
    /\ \A p \in Preimages : KeccakKey(p) \in Keys
    /\ \A i \in Idents, c \in Callers : LocalKey(i, c) \in Keys
    /\ \A p \in Preimages, i \in Idents, c \in Callers :
           KeccakKey(p) # LocalKey(i, c)
    /\ \A p, q \in Preimages : KeccakKey(p) = KeccakKey(q) => p = q
<1>1. <<2>> \in Seq(Bytes) /\ <<1>> \in Seq(Bytes)
  BY DEF Bytes
<1>2. ASSUME NEW d \in Seq(Bytes), NEW t \in Bytes
      PROVE  (<<t>> \o d)[1] = t
  <2>1. <<t>> \in Seq(Bytes) /\ Len(<<t>>) = 1
    OBVIOUS
  <2>2. Len(d) \in Nat
    BY LenProperties
  <2>3. QED
    BY <2>1, <2>2, ConcatProperties
<1>3. ASSUME NEW p \in Preimages PROVE KeccakKey(p)[1] = 2
  <2>1. KeccakDigest(p) \in Seq(Bytes) /\ 2 \in Bytes
    BY DigestAssumption DEF Bytes
  <2>2. QED
    BY <2>1, <1>2 DEF KeccakKey
<1>4. ASSUME NEW i \in Idents, NEW c \in Callers PROVE LocalKey(i, c)[1] = 1
  <2>1. LocalDigest(i, c) \in Seq(Bytes) /\ 1 \in Bytes
    BY DigestAssumption DEF Bytes
  <2>2. QED
    BY <2>1, <1>2 DEF LocalKey
<1>5. ASSUME NEW p \in Preimages, NEW q \in Preimages,
             KeccakKey(p) = KeccakKey(q)
      PROVE  p = q
  <2>1. KeccakDigest(p) \in Seq(Bytes) /\ KeccakDigest(q) \in Seq(Bytes)
    BY DigestAssumption
  <2>2. <<2>> \o KeccakDigest(p) = <<2>> \o KeccakDigest(q)
    BY <1>5 DEF KeccakKey
  <2>3. \A s, t, v \in Seq(Bytes) : s \o t = s \o v => t = v
    BY ConcatSimplifications
  <2>4. KeccakDigest(p) = KeccakDigest(q)
    BY <1>1, <2>1, <2>2, <2>3
  <2>5. QED
    BY <2>4, DigestAssumption
<1>6. \A p \in Preimages : KeccakKey(p) \in Keys
  BY DEF Keys, KeccakKeys
<1>7. \A i \in Idents, c \in Callers : LocalKey(i, c) \in Keys
  BY DEF Keys, LocalKeys
<1>8. ASSUME NEW p \in Preimages, NEW i \in Idents, NEW c \in Callers
      PROVE  KeccakKey(p) # LocalKey(i, c)
  <2>1. KeccakKey(p)[1] = 2
    BY <1>3
  <2>2. LocalKey(i, c)[1] = 1
    BY <1>4
  <2>3. QED
    BY <2>1, <2>2
<1>9. QED
  BY <1>5, <1>6, <1>7, <1>8

-----------------------------------------------------------------------------
(* Type correctness.                                                       *)

\* Every writer ends in SetPart; with well-typed arguments it keeps TypeOK.
LEMMA SetPartType ==
    ASSUME TypeOK, NEW key \in Keys, NEW o \in Offsets,
           NEW part \in [1..32 -> Bytes], NEW size \in Nat,
           SetPart(key, o, part, size)
    PROVE  TypeOK'
BY DEF SetPart, TypeOK

LEMMA InitType == OracleInit => TypeOK
<1>1. Zeros(32) \in [1..32 -> Bytes]
  BY DEF Zeros, Bytes
<1>2. QED
  BY <1>1 DEF OracleInit, TypeOK

LEMMA LoadKeccakType ==
    ASSUME TypeOK, NEW o \in Offsets, NEW p \in Preimages,
           LoadKeccak256PreimagePart(o, p)
    PROVE  TypeOK'
<1>1. p \in Seq(Bytes) /\ o \in Nat
  BY PreimagesAssumption, OffsetsAssumption
<1>2. Slice32(Stream(p), o) \in [1..32 -> Bytes]
  BY <1>1, StreamType, Slice32Type
<1>3. KeccakKey(p) \in Keys /\ Len(p) \in Nat
  BY <1>1, KeyFacts, LenProperties
<1>4. QED
  BY <1>2, <1>3, SetPartType DEF LoadKeccak256PreimagePart

LEMMA LoadLocalType ==
    ASSUME TypeOK, NEW c \in Callers, NEW i \in Idents, NEW w \in LocalWords,
           NEW s \in LocalSizes, LoadLocalData(c, i, w, s)
    PROVE  TypeOK'
<1>1. LengthPrefix(s) \o SubSeq(w, 1, 24) \in [1..32 -> Bytes]
      /\ SubSeq(w, 25, 32) \o Zeros(24) \in [1..32 -> Bytes]
  BY LocalPartsType
<1>2. LocalKey(i, c) \in Keys /\ s \in Nat /\ 0 \in Offsets /\ 32 \in Offsets
  BY KeyFacts, SizesAssumption, OffsetsAssumption
<1>3. preimageLengths' \in [Keys -> Nat]
  BY <1>2 DEF LoadLocalData, TypeOK
<1>4. preimagePartOk' \in [Keys -> [Offsets -> BOOLEAN]]
  BY <1>2 DEF LoadLocalData, TypeOK
<1>5. preimageParts' \in [Keys -> [Offsets -> [1..32 -> Bytes]]]
  BY <1>1, <1>2 DEF LoadLocalData, TypeOK
<1>6. QED
  BY <1>3, <1>4, <1>5 DEF TypeOK

LEMMA NextType == TypeOK /\ [OracleNext]_oracleVars => TypeOK'
<1> SUFFICES ASSUME TypeOK, [OracleNext]_oracleVars PROVE TypeOK'
  OBVIOUS
<1>1. CASE \E o \in Offsets, p \in Preimages : LoadKeccak256PreimagePart(o, p)
  BY <1>1, LoadKeccakType
<1>2. CASE \E c \in Callers, i \in Idents, w \in LocalWords, s \in LocalSizes :
             LoadLocalData(c, i, w, s)
  BY <1>2, LoadLocalType
<1>3. CASE UNCHANGED oracleVars
  BY <1>3 DEF TypeOK, oracleVars
<1>4. QED
  BY <1>1, <1>2, <1>3 DEF OracleNext

(***************************************************************************)
(* The oracle's mappings keep their types in every reachable state of the  *)
(* honest loaders (loadKeccak256PreimagePart and loadLocalData).           *)
(***************************************************************************)
THEOREM TypeCorrect == OracleSpec => []TypeOK
BY InitType, NextType, PTL DEF OracleSpec

-----------------------------------------------------------------------------
(* Content-addressed reads.                                                *)

IInv == TypeOK /\ KeccakStored

LEMMA InitKeccakStored == OracleInit => KeccakStored
<1>1. \A p \in Preimages : KeccakKey(p) \in Keys
  BY KeyFacts
<1>2. QED
  BY <1>1, OffsetsAssumption DEF OracleInit, KeccakStored

\* A load for preimage q keeps what is stored for every preimage.
LEMMA LoadKeccakStored ==
    ASSUME TypeOK, KeccakStored, NEW o1 \in Offsets, NEW q \in Preimages,
           LoadKeccak256PreimagePart(o1, q)
    PROVE  KeccakStored'
<1> SUFFICES ASSUME NEW p \in Preimages, NEW o \in Offsets,
                    preimagePartOk'[KeccakKey(p)][o]
             PROVE  /\ preimageParts'[KeccakKey(p)][o] = Slice32(Stream(p), o)
                    /\ preimageLengths'[KeccakKey(p)] = Len(p)
                    /\ o <= Len(p) + 8
  BY DEF KeccakStored
<1>1. KeccakKey(p) \in Keys /\ KeccakKey(q) \in Keys
  BY KeyFacts
<1>2. CASE KeccakKey(p) = KeccakKey(q)
  <2>1. p = q
    BY <1>2, KeyFacts
  <2>2. CASE o = o1
    BY <1>1, <2>1, <2>2 DEF LoadKeccak256PreimagePart, SetPart, TypeOK
  <2>3. CASE o # o1
    <3>1. preimagePartOk[KeccakKey(p)][o]
          /\ preimageParts'[KeccakKey(p)][o] = preimageParts[KeccakKey(p)][o]
      BY <1>1, <2>1, <2>3 DEF LoadKeccak256PreimagePart, SetPart, TypeOK
    <3>2. QED
      BY <1>1, <2>1, <3>1 DEF LoadKeccak256PreimagePart, SetPart, TypeOK,
                              KeccakStored
  <2>4. QED
    BY <2>2, <2>3
<1>3. CASE KeccakKey(p) # KeccakKey(q)
  <2>1. /\ preimagePartOk[KeccakKey(p)][o]
        /\ preimageParts'[KeccakKey(p)][o] = preimageParts[KeccakKey(p)][o]
        /\ preimageLengths'[KeccakKey(p)] = preimageLengths[KeccakKey(p)]
    BY <1>1, <1>3 DEF LoadKeccak256PreimagePart, SetPart, TypeOK
  <2>2. QED
    BY <2>1 DEF KeccakStored
<1>4. QED
  BY <1>2, <1>3

\* loadLocalData writes a local key, never a keccak key.
LEMMA LoadLocalStored ==
    ASSUME TypeOK, KeccakStored, NEW c \in Callers, NEW i \in Idents,
           NEW w \in LocalWords, NEW s \in LocalSizes,
           LoadLocalData(c, i, w, s)
    PROVE  KeccakStored'
<1> SUFFICES ASSUME NEW p \in Preimages, NEW o \in Offsets,
                    preimagePartOk'[KeccakKey(p)][o]
             PROVE  /\ preimageParts'[KeccakKey(p)][o] = Slice32(Stream(p), o)
                    /\ preimageLengths'[KeccakKey(p)] = Len(p)
                    /\ o <= Len(p) + 8
  BY DEF KeccakStored
<1>1. KeccakKey(p) \in Keys /\ LocalKey(i, c) \in Keys
      /\ KeccakKey(p) # LocalKey(i, c)
  BY KeyFacts
<1>2. /\ preimagePartOk'[KeccakKey(p)] = preimagePartOk[KeccakKey(p)]
      /\ preimageParts'[KeccakKey(p)] = preimageParts[KeccakKey(p)]
      /\ preimageLengths'[KeccakKey(p)] = preimageLengths[KeccakKey(p)]
  BY <1>1 DEF LoadLocalData, TypeOK
<1>3. QED
  BY <1>2 DEF KeccakStored

LEMMA NextKeccakStored ==
    TypeOK /\ KeccakStored /\ [OracleNext]_oracleVars => KeccakStored'
<1> SUFFICES ASSUME TypeOK, KeccakStored, [OracleNext]_oracleVars
             PROVE  KeccakStored'
  OBVIOUS
<1>1. CASE \E o \in Offsets, p \in Preimages : LoadKeccak256PreimagePart(o, p)
  BY <1>1, LoadKeccakStored
<1>2. CASE \E c \in Callers, i \in Idents, w \in LocalWords, s \in LocalSizes :
             LoadLocalData(c, i, w, s)
  BY <1>2, LoadLocalStored
<1>3. CASE UNCHANGED oracleVars
  BY <1>3 DEF KeccakStored, oracleVars
<1>4. QED
  BY <1>1, <1>2, <1>3 DEF OracleNext

\* What readPreimage computes from a stored keccak part.
LEMMA StoredReadCorrect == IInv => ContentReadCorrect
<1> SUFFICES ASSUME IInv, NEW p \in Preimages, NEW o \in Offsets,
                    preimagePartOk[KeccakKey(p)][o]
             PROVE  LET r == ReadPreimage(KeccakKey(p), o)
                    IN  /\ r.ok
                        /\ r.dat = Slice32(Stream(p), o)
                        /\ r.datLen = Remaining(p, o)
                        /\ r.datLen \in 0..32
  BY DEF ContentReadCorrect
<1>1. /\ preimageParts[KeccakKey(p)][o] = Slice32(Stream(p), o)
      /\ preimageLengths[KeccakKey(p)] = Len(p)
      /\ o <= Len(p) + 8
  BY DEF IInv, KeccakStored
<1>2. Len(Stream(p)) = Len(p) + 8 /\ Len(p) \in Nat /\ o \in Nat
  BY StreamType, LenProperties, PreimagesAssumption, OffsetsAssumption
<1>3. PICK len \in Nat : len = preimageLengths[KeccakKey(p)]
  BY <1>1, <1>2
<1>4. PICK n \in Nat : n = Len(Stream(p))
  BY <1>2
<1>5. o \in Nat /\ n = len + 8 /\ o <= n
  BY <1>1, <1>2, <1>3, <1>4
<1>6. ReadPreimage(KeccakKey(p), o)
        = [ok |-> TRUE, dat |-> preimageParts[KeccakKey(p)][o],
           datLen |-> IF ~(o + 32 >= len + 8) THEN 32 ELSE len + 8 - o]
  <2>1. ~(o + 32 >= len + 8 /\ o > len + 8)
    BY <1>2, <1>3, <1>5
  <2>2. QED
    BY <1>3, <2>1, Zenon DEF ReadPreimage
<1>7. Remaining(p, o) = IF n - o < 32 THEN n - o ELSE 32
  BY <1>4, Zenon DEF Remaining
<1>8. /\ (IF ~(o + 32 >= len + 8) THEN 32 ELSE len + 8 - o)
           = (IF n - o < 32 THEN n - o ELSE 32)
      /\ (IF ~(o + 32 >= len + 8) THEN 32 ELSE len + 8 - o) \in 0..32
  <2>1. CASE o + 32 >= len + 8
    <3>1. n - o \in 0..32
      BY <1>5, <2>1
    <3>2. QED
      BY <1>5, <2>1, <3>1
  <2>2. CASE ~(o + 32 >= len + 8)
    <3>1. ~(n - o < 32)
      BY <1>5, <2>2
    <3>2. QED
      BY <1>5, <2>2, <3>1
  <2>3. QED
    BY <2>1, <2>2
<1>9. QED
  BY <1>1, <1>6, <1>7, <1>8

(***************************************************************************)
(* readPreimage on the keccak key of a preimage returns, at every offset   *)
(* loadKeccak256PreimagePart made available, the 32 bytes of the length-  *)
(* prefixed preimage there and the count 0..32 of them inside the stream,  *)
(* in both builds and whatever the honest loaders did before.              *)
(***************************************************************************)
THEOREM ContentReadCorrectHolds == OracleSpec => []ContentReadCorrect
<1>1. OracleInit => IInv
  BY InitType, InitKeccakStored DEF IInv
<1>2. IInv /\ [OracleNext]_oracleVars => IInv'
  BY NextType, NextKeccakStored DEF IInv
<1>3. IInv => ContentReadCorrect
  BY StoredReadCorrect
<1>4. QED
  BY <1>1, <1>2, <1>3, PTL DEF OracleSpec

-----------------------------------------------------------------------------
(* The length prefix of part 0.                                            *)

\* The first 8 bytes of an 8-byte prefix followed by anything are the prefix.
LEMMA PrefixOfConcat ==
    ASSUME NEW u \in Seq(Bytes), NEW v \in Seq(Bytes), Len(u) = 8
    PROVE  SubSeq(u \o v, 1, 8) = u
<1>1. 1 \in 1..Len(u) /\ 8 \in 1..Len(u)
  OBVIOUS
<1>2. SubSeq(u \o v, 1, 8) = SubSeq(u, 1, 8)
  BY <1>1, SubSeqOfConcat1
<1>3. QED
  BY <1>2, SubSeqFull

\* The part at offset 0 starts with the first 8 bytes of a stream of >= 8 bytes.
LEMMA Slice32Prefix ==
    ASSUME NEW bs \in Seq(Bytes), Len(bs) >= 8
    PROVE  SubSeq(Slice32(bs, 0), 1, 8) = SubSeq(bs, 1, 8)
<1>1. \A i \in 1..8 : Slice32(bs, 0)[i] \in Bytes
  <2>1. Slice32(bs, 0) \in [1..32 -> Bytes]
    BY Slice32Type
  <2>2. \A i \in 1..8 : i \in 1..32
    OBVIOUS
  <2>3. QED
    BY <2>1, <2>2, Zenon
<1>2. ASSUME NEW i \in 1..8
      PROVE  Slice32(bs, 0)[i] = bs[i]
  <2>1. Len(bs) \in Nat /\ 0 + i <= Len(bs)
    BY LenProperties
  <2>2. QED
    BY <2>1 DEF Slice32
<1>3. ASSUME NEW i \in 1..8
      PROVE  bs[i] \in Bytes
  <2>1. i \in 1..Len(bs)
    BY LenProperties
  <2>2. QED
    BY <2>1, ElementOfSeq
<1>4. /\ SubSeq(Slice32(bs, 0), 1, 8) \in Seq(Bytes)
      /\ Len(SubSeq(Slice32(bs, 0), 1, 8)) = 8
      /\ \A i \in 1..8 : SubSeq(Slice32(bs, 0), 1, 8)[i] = Slice32(bs, 0)[i]
  BY <1>1, SubSeqProperties
<1>5. /\ SubSeq(bs, 1, 8) \in Seq(Bytes)
      /\ Len(SubSeq(bs, 1, 8)) = 8
      /\ \A i \in 1..8 : SubSeq(bs, 1, 8)[i] = bs[i]
  BY <1>3, SubSeqProperties
<1>6. QED
  BY <1>2, <1>4, <1>5, SeqEqual

\* What loadKeccak256PreimagePart stores at offset 0 begins with the prefix.
LEMMA KeccakPartPrefix ==
    ASSUME NEW p \in Preimages
    PROVE  SubSeq(Slice32(Stream(p), 0), 1, 8) = LengthPrefix(Len(p))
<1>1. p \in Seq(Bytes) /\ Len(p) \in Nat
  BY PreimagesAssumption, LenProperties
<1>2. Stream(p) \in Seq(Bytes) /\ Len(Stream(p)) >= 8
  BY <1>1, StreamType
<1>3. LengthPrefix(Len(p)) \in Seq(Bytes) /\ Len(LengthPrefix(Len(p))) = 8
  BY <1>1, LengthPrefixType
<1>4. SubSeq(Stream(p), 1, 8) = LengthPrefix(Len(p))
  BY <1>1, <1>3, PrefixOfConcat DEF Stream
<1>5. QED
  BY <1>2, <1>4, Slice32Prefix

\* What loadLocalData stores at offset 0 begins with the prefix of its size.
LEMMA LocalPartPrefix ==
    ASSUME NEW w \in LocalWords, NEW s \in LocalSizes
    PROVE  SubSeq(LengthPrefix(s) \o SubSeq(w, 1, 24), 1, 8) = LengthPrefix(s)
<1>1. w \in Seq(Bytes) /\ Len(w) = 32 /\ s \in Nat
  BY WordsAssumption, SizesAssumption
<1>2. SubSeq(w, 1, 24) \in Seq(Bytes)
  <2>1. ASSUME NEW i \in 1..24
        PROVE  w[i] \in Bytes
    <3>1. i \in 1..Len(w)
      BY <1>1
    <3>2. QED
      BY <1>1, <3>1, ElementOfSeq
  <2>2. QED
    BY <2>1, SubSeqProperties
<1>3. LengthPrefix(s) \in Seq(Bytes) /\ Len(LengthPrefix(s)) = 8
  BY <1>1, LengthPrefixType
<1>4. QED
  BY <1>2, <1>3, PrefixOfConcat

PInv == TypeOK /\ KeccakStored /\ PrefixMatchesLength

LEMMA LoadKeccakPrefix ==
    ASSUME TypeOK, KeccakStored, PrefixMatchesLength,
           NEW o1 \in Offsets, NEW q \in Preimages,
           LoadKeccak256PreimagePart(o1, q)
    PROVE  PrefixMatchesLength'
<1> SUFFICES ASSUME NEW k \in Keys, preimagePartOk'[k][0]
             PROVE  SubSeq(preimageParts'[k][0], 1, 8)
                      = LengthPrefix(preimageLengths'[k])
  BY DEF PrefixMatchesLength
<1>1. 0 \in Offsets /\ KeccakKey(q) \in Keys
  BY OffsetsAssumption, KeyFacts
<1>2. CASE k = KeccakKey(q)
  <2>1. KeccakStored'
    BY LoadKeccakStored
  <2>2. /\ preimageParts'[k][0] = Slice32(Stream(q), 0)
        /\ preimageLengths'[k] = Len(q)
    BY <1>1, <1>2, <2>1 DEF KeccakStored
  <2>3. QED
    BY <2>2, KeccakPartPrefix
<1>3. CASE k # KeccakKey(q)
  <2>1. /\ preimagePartOk[k][0]
        /\ preimageParts'[k][0] = preimageParts[k][0]
        /\ preimageLengths'[k] = preimageLengths[k]
    BY <1>1, <1>3 DEF LoadKeccak256PreimagePart, SetPart, TypeOK
  <2>2. QED
    BY <1>1, <2>1 DEF PrefixMatchesLength
<1>4. QED
  BY <1>2, <1>3

LEMMA LoadLocalPrefix ==
    ASSUME TypeOK, PrefixMatchesLength, NEW c \in Callers, NEW i \in Idents,
           NEW w \in LocalWords, NEW s \in LocalSizes,
           LoadLocalData(c, i, w, s)
    PROVE  PrefixMatchesLength'
<1> SUFFICES ASSUME NEW k \in Keys, preimagePartOk'[k][0]
             PROVE  SubSeq(preimageParts'[k][0], 1, 8)
                      = LengthPrefix(preimageLengths'[k])
  BY DEF PrefixMatchesLength
<1>1. 0 \in Offsets /\ 32 \in Offsets /\ LocalKey(i, c) \in Keys
  BY OffsetsAssumption, KeyFacts
<1>2. CASE k = LocalKey(i, c)
  <2>1. preimageLengths'[k] = s
    BY <1>1, <1>2 DEF LoadLocalData, TypeOK
  <2>2. preimageParts'[k]
          = [preimageParts[k] EXCEPT ![0] = LengthPrefix(s) \o SubSeq(w, 1, 24),
                                     ![32] = IF s > 24
                                             THEN SubSeq(w, 25, 32) \o Zeros(24)
                                             ELSE @]
    BY <1>1, <1>2 DEF LoadLocalData, TypeOK
  <2>3. preimageParts'[k][0] = LengthPrefix(s) \o SubSeq(w, 1, 24)
    <3>1. 0 # 32 /\ 0 \in DOMAIN preimageParts[k]
      BY <1>1 DEF TypeOK
    <3>2. QED
      BY <2>2, <3>1
  <2>4. QED
    BY <2>1, <2>3, LocalPartPrefix
<1>3. CASE k # LocalKey(i, c)
  <2>1. /\ preimagePartOk[k][0]
        /\ preimageParts'[k][0] = preimageParts[k][0]
        /\ preimageLengths'[k] = preimageLengths[k]
    BY <1>1, <1>3 DEF LoadLocalData, TypeOK
  <2>2. QED
    BY <1>1, <2>1 DEF PrefixMatchesLength
<1>4. QED
  BY <1>2, <1>3

LEMMA NextPrefix ==
    PInv /\ [OracleNext]_oracleVars => PrefixMatchesLength'
<1> SUFFICES ASSUME TypeOK, KeccakStored, PrefixMatchesLength,
                    [OracleNext]_oracleVars
             PROVE  PrefixMatchesLength'
  BY DEF PInv
<1>1. CASE \E o \in Offsets, p \in Preimages : LoadKeccak256PreimagePart(o, p)
  BY <1>1, LoadKeccakPrefix
<1>2. CASE \E c \in Callers, i \in Idents, w \in LocalWords, s \in LocalSizes :
             LoadLocalData(c, i, w, s)
  BY <1>2, LoadLocalPrefix
<1>3. CASE UNCHANGED oracleVars
  BY <1>3 DEF PrefixMatchesLength, oracleVars
<1>4. QED
  BY <1>1, <1>2, <1>3 DEF OracleNext

(***************************************************************************)
(* For every key, once part 0 is available its first 8 bytes are the       *)
(* length prefix of the length readPreimage bounds reads with: the prefix  *)
(* and the length slot loadLocalData and loadKeccak256PreimagePart write   *)
(* in separate statements never disagree.  Part 0 of a keccak key need not *)
(* be the last part loaded, so the proof leans on KeccakStored: a load at  *)
(* another offset rewrites the length slot with the value it already has.  *)
(***************************************************************************)
THEOREM PrefixMatchesLengthHolds == OracleSpec => []PrefixMatchesLength
<1>1. OracleInit => PInv
  <2>1. OracleInit => PrefixMatchesLength
    BY OffsetsAssumption DEF OracleInit, PrefixMatchesLength
  <2>2. QED
    BY <2>1, InitType, InitKeccakStored DEF PInv
<1>2. PInv /\ [OracleNext]_oracleVars => PInv'
  BY NextType, NextKeccakStored, NextPrefix DEF PInv
<1>3. QED
  BY <1>1, <1>2, PTL DEF OracleSpec, PInv

=============================================================================
