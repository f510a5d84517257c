----------------------- MODULE OracleRefinementProofs -----------------------
(***************************************************************************)
(* Proof that the honest loaders implement OracleAbstract under the        *)
(* mapping KeccakReplies (the readPreimage reply on the keccak key of each *)
(* preimage at each offset), for every instance of the constants.          *)
(*                                                                         *)
(* The argument: a reply depends only on the three slots of its key at its *)
(* offset, and on the length slot only when the part is available.  A load *)
(* of preimage q at o1 rewrites the part at o1, which ContentReadCorrect   *)
(* (now a theorem) says is read back as ServedPart(q, o1); it rewrites the *)
(* length of q's key too, but KeccakStored says an available part of that  *)
(* key already had that length.  Keys of other preimages differ            *)
(* (KeyFacts), and loadLocalData writes only local keys.                   *)
(***************************************************************************)
EXTENDS PreimageOracleProofs

\* A reply depends on the part's flag and bytes, and on the length of its
\* key only while the part is available.
LEMMA ReadUnchanged ==
    ASSUME NEW k, NEW o,
           preimagePartOk'[k][o] = preimagePartOk[k][o],
           preimageParts'[k][o] = preimageParts[k][o],
           preimagePartOk[k][o] => preimageLengths'[k] = preimageLengths[k]
    PROVE  ReadPreimage(k, o)' = ReadPreimage(k, o)
<1>1. CASE preimagePartOk[k][o]
  BY <1>1 DEF ReadPreimage
<1>2. CASE ~preimagePartOk[k][o]
  BY <1>2 DEF ReadPreimage
<1>3. QED
  BY <1>1, <1>2

\* An available part's reply, under ContentReadCorrect, is the served part.
LEMMA ReadServed ==
    ASSUME ContentReadCorrect, NEW p \in Preimages, NEW o \in Offsets,
           preimagePartOk[KeccakKey(p)][o]
    PROVE  ReadPreimage(KeccakKey(p), o) = ServedPart(p, o)
<1> DEFINE r == ReadPreimage(KeccakKey(p), o)
<1>1. r.ok /\ r.dat = Slice32(Stream(p), o) /\ r.datLen = Remaining(p, o)
  BY DEF ContentReadCorrect
<1>2. r = [ok |-> TRUE, dat |-> r.dat, datLen |-> r.datLen]
  BY <1>1 DEF ReadPreimage
<1>3. QED
  BY <1>1, <1>2 DEF ServedPart

\* A fresh oracle maps to the abstract initial state: no part is available.
LEMMA OracleAbsInitHolds == OracleInit => AbsOracle!AbsInit
<1> SUFFICES ASSUME OracleInit
             PROVE  KeccakReplies =
                      [p \in Preimages |-> [o \in Offsets |-> [ok |-> FALSE]]]
  BY DEF AbsOracle!AbsInit, AbsOracle!Unavailable
<1>1. ASSUME NEW p \in Preimages, NEW o \in Offsets
      PROVE  ReadPreimage(KeccakKey(p), o) = [ok |-> FALSE]
  <2>1. KeccakKey(p) \in Keys
    BY KeyFacts
  <2>2. ~preimagePartOk[KeccakKey(p)][o]
    BY <2>1 DEF OracleInit
  <2>3. QED
    BY <2>2 DEF ReadPreimage
<1>2. QED
  BY <1>1 DEF KeccakReplies

\* loadKeccak256PreimagePart(o1, q) makes part o1 of q available.
LEMMA LoadKeccakRefines ==
    ASSUME TypeOK, KeccakStored, ContentReadCorrect',
           NEW o1 \in Offsets, NEW q \in Preimages,
           LoadKeccak256PreimagePart(o1, q)
    PROVE  AbsOracle!MakeAvailable(q, o1)
<1>1. o1 <= StreamEndOffset(q)
  BY DEF LoadKeccak256PreimagePart, StreamEndOffset
<1>2. ASSUME NEW p \in Preimages, NEW o \in Offsets
      PROVE  ReadPreimage(KeccakKey(p), o)' =
               IF p = q /\ o = o1 THEN ServedPart(q, o1)
                                  ELSE ReadPreimage(KeccakKey(p), o)
  <2> DEFINE k == KeccakKey(q)
  <2>1. KeccakKey(p) \in Keys /\ k \in Keys
    BY KeyFacts
  <2>2. CASE p = q /\ o = o1
    <3> DEFINE r == ReadPreimage(k, o1)'
    <3>1. preimagePartOk'[k][o1]
      BY <2>1 DEF LoadKeccak256PreimagePart, SetPart, TypeOK
    <3>2. r.ok /\ r.dat = Slice32(Stream(q), o1) /\ r.datLen = Remaining(q, o1)
      BY <3>1 DEF ContentReadCorrect
    <3>3. r = [ok |-> TRUE, dat |-> r.dat, datLen |-> r.datLen]
      BY <3>2 DEF ReadPreimage
    <3>4. QED
      BY <2>2, <3>2, <3>3 DEF ServedPart
  <2>3. CASE p = q /\ o # o1
    <3>1. /\ preimagePartOk'[k][o] = preimagePartOk[k][o]
          /\ preimageParts'[k][o] = preimageParts[k][o]
          /\ preimageLengths'[k] = Len(q)
      BY <2>1, <2>3 DEF LoadKeccak256PreimagePart, SetPart, TypeOK
    <3>2. preimagePartOk[k][o] => preimageLengths[k] = Len(q)
      BY DEF KeccakStored
    <3>3. ReadPreimage(k, o)' = ReadPreimage(k, o)
      BY <3>1, <3>2, ReadUnchanged
    <3>4. QED
      BY <2>3, <3>3
  <2>4. CASE p # q
    <3>1. KeccakKey(p) # k
      BY <2>4, KeyFacts
    <3>2. /\ preimagePartOk'[KeccakKey(p)] = preimagePartOk[KeccakKey(p)]
          /\ preimageParts'[KeccakKey(p)] = preimageParts[KeccakKey(p)]
          /\ preimageLengths'[KeccakKey(p)] = preimageLengths[KeccakKey(p)]
      BY <2>1, <3>1 DEF LoadKeccak256PreimagePart, SetPart, TypeOK
    <3>3. ReadPreimage(KeccakKey(p), o)' = ReadPreimage(KeccakKey(p), o)
      BY <3>2, ReadUnchanged
    <3>4. QED
      BY <2>4, <3>3
  <2>5. QED
    BY <2>2, <2>3, <2>4
<1>3. KeccakReplies' = [KeccakReplies EXCEPT ![q][o1] = ServedPart(q, o1)]
  BY <1>2 DEF KeccakReplies
<1>4. QED
  BY <1>1, <1>3 DEF AbsOracle!MakeAvailable

\* loadLocalData writes a local key: no keccak reply changes.
LEMMA LoadLocalRefines ==
    ASSUME TypeOK, NEW c \in Callers, NEW i \in Idents, NEW w \in LocalWords,
           NEW s \in LocalSizes, LoadLocalData(c, i, w, s)
    PROVE  UNCHANGED KeccakReplies
<1>1. ASSUME NEW p \in Preimages, NEW o \in Offsets
      PROVE  ReadPreimage(KeccakKey(p), o)' = ReadPreimage(KeccakKey(p), o)
  <2>1. KeccakKey(p) \in Keys /\ LocalKey(i, c) \in Keys
        /\ KeccakKey(p) # LocalKey(i, c)
    BY KeyFacts
  <2>2. /\ preimagePartOk'[KeccakKey(p)] = preimagePartOk[KeccakKey(p)]
        /\ preimageParts'[KeccakKey(p)] = preimageParts[KeccakKey(p)]
        /\ preimageLengths'[KeccakKey(p)] = preimageLengths[KeccakKey(p)]
    BY <2>1 DEF LoadLocalData, TypeOK
  <2>3. QED
    BY <2>2, ReadUnchanged
<1>2. QED
  BY <1>1 DEF KeccakReplies

\* Every honest step maps to an abstract step or to a stutter.
LEMMA OracleAbsNextHolds ==
    TypeOK /\ KeccakStored /\ ContentReadCorrect' /\ [OracleNext]_oracleVars
        => [AbsOracle!AbsNext]_KeccakReplies
<1> SUFFICES ASSUME TypeOK, KeccakStored, ContentReadCorrect',
                    [OracleNext]_oracleVars
             PROVE  [AbsOracle!AbsNext]_KeccakReplies
  OBVIOUS
<1>1. CASE \E o \in Offsets, p \in Preimages : LoadKeccak256PreimagePart(o, p)
  BY <1>1, LoadKeccakRefines DEF AbsOracle!AbsNext
<1>2. CASE \E c \in Callers, i \in Idents, w \in LocalWords, s \in LocalSizes :
             LoadLocalData(c, i, w, s)
  BY <1>2, LoadLocalRefines
<1>3. CASE UNCHANGED oracleVars
  BY <1>3 DEF KeccakReplies, ReadPreimage, oracleVars
<1>4. QED
  BY <1>1, <1>2, <1>3 DEF OracleNext

(***************************************************************************)
(* The honest loaders implement the content-addressed oracle               *)
(* (OracleImplementsAbstract): seen through readPreimage on keccak keys,   *)
(* every load makes one part available with the content and datLen of its *)
(* preimage, or changes no reply, and a reply once available never         *)
(* changes.  The run oracle_honest checks the same on two preimages, six   *)
(* offsets and two callers of loadLocalData.                               *)
(***************************************************************************)
THEOREM OracleRefinementHolds == OracleSpec => OracleImplementsAbstract
<1>1. OracleSpec => []IInv
  BY InitType, InitKeccakStored, NextType, NextKeccakStored, PTL
     DEF OracleSpec, IInv
<1>2. OracleSpec => []ContentReadCorrect
  BY ContentReadCorrectHolds
<1>3. []IInv /\ []ContentReadCorrect /\ [][OracleNext]_oracleVars
        => [][AbsOracle!AbsNext]_KeccakReplies
  BY OracleAbsNextHolds, PTL DEF IInv
<1>4. QED
  BY <1>1, <1>2, <1>3, OracleAbsInitHolds, PTL
     DEF OracleSpec, OracleImplementsAbstract, AbsOracle!AbsOracleSpec
=============================================================================
