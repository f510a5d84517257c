--------------------------- MODULE PreimageOracle ---------------------------
(***************************************************************************)
(* The PreimageOracle contract of src/op-bindings/bindings.  Its logic is  *)
(* only present as EVM bytecode: the runtime PreimageOracleDeployedBin     *)
(* (preimageoracle_more.go:16, solc 0.7.6, unchecked arithmetic) and the   *)
(* creation code PreimageOracleMetaData.Bin (preimageoracle.go:34, solc    *)
(* 0.8.15, checked arithmetic).  The two builds differ in one place only,  *)
(* the length computation of readPreimage; CONSTANT Build selects one.     *)
(*                                                                         *)
(* Storage (preimageoracle_more.go:12, the storage layout):                *)
(*   slot 0  preimageLengths : bytes32 => uint256                          *)
(*   slot 1  preimageParts   : bytes32 => uint256 => bytes32               *)
(*   slot 2  preimagePartOk  : bytes32 => uint256 => bool                  *)
(* A bytes32 is a sequence of 32 bytes, most significant first.  Hashes   *)
(* are the injective digests KeccakDigest and LocalDigest: 31-byte        *)
(* sequences that the contract keeps below a one-byte type tag.           *)
(***************************************************************************)
EXTENDS Naturals, Sequences

CONSTANTS
    Preimages,        \* byte sequences a loader may pass to loadKeccak256PreimagePart
    KeccakDigest(_),  \* low 31 bytes of keccak256(preimage)
    Idents,           \* local data identifiers (_ident)
    LocalWords,       \* 32-byte words (_word) of local data
    LocalSizes,       \* declared sizes (_size, a uint8) of local data
    Callers,          \* accounts that call loadLocalData
    LocalDigest(_,_), \* low 31 bytes of keccak256(ident with type byte, caller)
    Offsets,          \* part offsets the model follows (uint256 in the code)
    CheatArgs,        \* argument records of cheat(partOffset, key, part, size)
    Build,            \* "solc-0.7.6" (deployed runtime) or "solc-0.8.15" (Bin)
    Uint256Mod        \* stands for 2^256: above every number of the model

Bytes == 0..255

\* The 8-byte big-endian length prefix written by `mstore(0x80, shl(192, size))'
\* and by `uint256(_size) << 192'.  Sizes stay below 2^32, so the first four
\* bytes are zero.
LengthPrefix(n) ==
    <<0, 0, 0, 0>> \o [i \in 1..4 |-> (n \div 256^(4 - i)) % 256]

Zeros(n) == [i \in 1..n |-> 0]

\* The 32 bytes of `bs' starting at 0-based offset `o', zero padded: what
\* `mload' returns from memory that is clean past the copied data.
Slice32(bs, o) ==
    [i \in 1..32 |-> IF o + i <= Len(bs) THEN bs[o + i] ELSE 0]

\* The byte stream a preimage is served as: length prefix, then the data.
Stream(p) == LengthPrefix(Len(p)) \o p

\* Key derivations: the top byte of the hash is replaced by the key type.
KeccakKey(p) == <<2>> \o KeccakDigest(p)
LocalKey(ident, caller) == <<1>> \o LocalDigest(ident, caller)

KeccakKeys == {KeccakKey(p) : p \in Preimages}
LocalKeys == {LocalKey(i, c) : i \in Idents, c \in Callers}
Keys == KeccakKeys \cup LocalKeys \cup {a.key : a \in CheatArgs}

ASSUME BuildAssumption == Build \in {"solc-0.7.6", "solc-0.8.15"}
ASSUME OffsetsAssumption == Offsets \subseteq Nat /\ {0, 32} \subseteq Offsets
ASSUME SizesAssumption == LocalSizes \subseteq 0..255
ASSUME WordsAssumption ==
    \A w \in LocalWords : w \in Seq(Bytes) /\ Len(w) = 32
ASSUME PreimagesAssumption == Preimages \subseteq Seq(Bytes)
ASSUME DigestAssumption ==
    /\ \A p \in Preimages :
           KeccakDigest(p) \in Seq(Bytes) /\ Len(KeccakDigest(p)) = 31
    /\ \A i \in Idents, c \in Callers :
           LocalDigest(i, c) \in Seq(Bytes) /\ Len(LocalDigest(i, c)) = 31
    /\ \A p, q \in Preimages : KeccakDigest(p) = KeccakDigest(q) => p = q
ASSUME ModAssumption ==
    /\ Uint256Mod \in Nat
    /\ \A o \in Offsets : o + 32 < Uint256Mod
    /\ \A p \in Preimages : Len(p) + 8 < Uint256Mod

VARIABLES preimageLengths, preimageParts, preimagePartOk

oracleVars == <<preimageLengths, preimageParts, preimagePartOk>>

TypeOK ==
    /\ preimageLengths \in [Keys -> Nat]
    /\ preimageParts \in [Keys -> [Offsets -> [1..32 -> Bytes]]]
    /\ preimagePartOk \in [Keys -> [Offsets -> BOOLEAN]]

\* Every mapping of a fresh contract reads as zero / false.
OracleInit ==
    /\ preimageLengths = [k \in Keys |-> 0]
    /\ preimageParts = [k \in Keys |-> [o \in Offsets |-> Zeros(32)]]
    /\ preimagePartOk = [k \in Keys |-> [o \in Offsets |-> FALSE]]

(***************************************************************************)
(* readPreimage(_key, _offset): a view, so an operator.  It reverts with   *)
(* "pre-image must exist" unless the part is available.  datLen_ is 32,   *)
(* cut to `length + 8 - _offset' when `_offset + 32 >= length + 8'.  The   *)
(* 0.7.6 build computes that subtraction modulo 2^256; the 0.8.15 build    *)
(* reverts (Panic 0x11) when it underflows.                                *)
(***************************************************************************)
\* Mutant: the "pre-image must exist" check asks for part 0 of the key
\* instead of the part at the offset.
ReadPartZeroCheck(key, offset) ==
    LET length == preimageLengths[key]
        short  == offset + 32 >= length + 8
        under  == short /\ offset > length + 8
        datLen == IF ~short THEN 32
                  ELSE IF under THEN Uint256Mod + length + 8 - offset
                  ELSE length + 8 - offset
    IN  IF ~preimagePartOk[key][0] \/ (under /\ Build = "solc-0.8.15")
        THEN [ok |-> FALSE]
        ELSE [ok |-> TRUE, dat |-> preimageParts[key][offset], datLen |-> datLen]

ReadPreimage(key, offset) ==
    LET length == preimageLengths[key]
        short  == offset + 32 >= length + 8
        under  == short /\ offset > length + 8
        datLen == IF ~short THEN 32
                  ELSE IF under THEN Uint256Mod + length + 8 - offset
                  ELSE length + 8 - offset
    IN  IF ~preimagePartOk[key][offset] \/ (under /\ Build = "solc-0.8.15")
        THEN [ok |-> FALSE]
        ELSE [ok |-> TRUE, dat |-> preimageParts[key][offset], datLen |-> datLen]

\* Sets the three slots of one part; the common tail of every writer.
SetPart(key, offset, part, size) ==
    /\ preimagePartOk' = [preimagePartOk EXCEPT ![key][offset] = TRUE]
    /\ preimageParts' = [preimageParts EXCEPT ![key][offset] = part]
    /\ preimageLengths' = [preimageLengths EXCEPT ![key] = size]

(***************************************************************************)
(* loadKeccak256PreimagePart(_partOffset, _preimage): reverts when         *)
(* _partOffset > size + 8; otherwise copies the length-prefixed preimage  *)
(* to memory 0x80, takes the 32 bytes at 0x80 + _partOffset as the part    *)
(* and keys it by the type-2 keccak key of the preimage.                   *)
(***************************************************************************)
\* Mutant: the offset check admits one byte past the end of the stream.
LoadKeccakOffByOne(partOffset, preimage) ==
    /\ partOffset <= Len(preimage) + 9
    /\ SetPart(KeccakKey(preimage), partOffset,
               Slice32(Stream(preimage), partOffset), Len(preimage))

LoadKeccak256PreimagePart(partOffset, preimage) ==
    /\ partOffset <= Len(preimage) + 8
    /\ SetPart(KeccakKey(preimage), partOffset,
               Slice32(Stream(preimage), partOffset), Len(preimage))

(***************************************************************************)
(* loadLocalData(_ident, _word, _size), called by `caller': part 0 is the  *)
(* size prefix and the first 24 bytes of the word; when _size > 24, part   *)
(* 32 is the last 8 bytes of the word.  The length becomes _size.  Part 32 *)
(* is never cleared.                                                       *)
(***************************************************************************)
\* Mutant: the word is cut one byte late, so part 0 takes 25 of its bytes.
LoadLocalWideSlice(caller, ident, word, size) ==
    LET key   == LocalKey(ident, caller)
        part0 == LengthPrefix(size) \o SubSeq(word, 1, 25)
        part1 == SubSeq(word, 25, 32) \o Zeros(24)
    IN  /\ preimageLengths' = [preimageLengths EXCEPT ![key] = size]
        /\ preimagePartOk' =
             [preimagePartOk EXCEPT ![key][0] = TRUE,
                                    ![key][32] = IF size > 24 THEN TRUE ELSE @]
        /\ preimageParts' =
             [preimageParts EXCEPT ![key][0] = part0,
                                   ![key][32] = IF size > 24 THEN part1 ELSE @]

\* Mutant: a reload keeps the length of the first load.
LoadLocalKeepLength(caller, ident, word, size) ==
    LET key   == LocalKey(ident, caller)
        part0 == LengthPrefix(size) \o SubSeq(word, 1, 24)
        part1 == SubSeq(word, 25, 32) \o Zeros(24)
    IN  /\ preimageLengths' =
             [preimageLengths EXCEPT ![key] =
                 IF preimagePartOk[key][0] THEN @ ELSE size]
        /\ preimagePartOk' =
             [preimagePartOk EXCEPT ![key][0] = TRUE,
                                    ![key][32] = IF size > 24 THEN TRUE ELSE @]
        /\ preimageParts' =
             [preimageParts EXCEPT ![key][0] = part0,
                                   ![key][32] = IF size > 24 THEN part1 ELSE @]

LoadLocalData(caller, ident, word, size) ==
    LET key   == LocalKey(ident, caller)
        part0 == LengthPrefix(size) \o SubSeq(word, 1, 24)
        part1 == SubSeq(word, 25, 32) \o Zeros(24)
    IN  /\ preimageLengths' = [preimageLengths EXCEPT ![key] = size]
        /\ preimagePartOk' =
             [preimagePartOk EXCEPT ![key][0] = TRUE,
                                    ![key][32] = IF size > 24 THEN TRUE ELSE @]
        /\ preimageParts' =
             [preimageParts EXCEPT ![key][0] = part0,
                                   ![key][32] = IF size > 24 THEN part1 ELSE @]

\* cheat(partOffset, key, part, size): installs a part unconditionally.
\* The deployed runtime exposes it to every account.
Cheat(a) == SetPart(a.key, a.partOffset, a.part, a.size)

\* The honest loaders: the two loading entry points, any caller, any order.
OracleNext ==
    \/ \E o \in Offsets, p \in Preimages : LoadKeccak256PreimagePart(o, p)
    \/ \E c \in Callers, i \in Idents, w \in LocalWords, s \in LocalSizes :
           LoadLocalData(c, i, w, s)

OracleSpec == OracleInit /\ [][OracleNext]_oracleVars

\* The deployed contract: honest loaders and any account calling cheat.
OracleWithCheatNext == OracleNext \/ \E a \in CheatArgs : Cheat(a)

OracleWithCheatSpec == OracleInit /\ [][OracleWithCheatNext]_oracleVars

-----------------------------------------------------------------------------
(***************************************************************************)
(* Properties.                                                             *)
(***************************************************************************)

\* The bytes of the stream a read at `o' of a preimage's stream may report.
Remaining(p, o) == LET n == Len(Stream(p)) IN IF n - o < 32 THEN n - o ELSE 32

(***************************************************************************)
(* Content-addressed reads are correct: readPreimage on the keccak key of  *)
(* a preimage, at any offset whose part is available, succeeds and returns *)
(* the 32 bytes of the length-prefixed preimage at that offset and the     *)
(* number of them inside the stream (0..32).  It rests on the offset check *)
(* and the part slicing of loadKeccak256PreimagePart, on the key           *)
(* derivation, and on the datLen arithmetic of readPreimage.               *)
(***************************************************************************)
ContentReadCorrect ==
    \A p \in Preimages, o \in Offsets :
        preimagePartOk[KeccakKey(p)][o] =>
            LET r == ReadPreimage(KeccakKey(p), o)
            IN  /\ r.ok
                /\ r.dat = Slice32(Stream(p), o)
                /\ r.datLen = Remaining(p, o)
                /\ r.datLen \in 0..32

(***************************************************************************)
(* The strengthening of ContentReadCorrect that is inductive: what         *)
(* loadKeccak256PreimagePart stores for a preimage's key at an available  *)
(* offset is the slice of its stream, its length, and the offset passed    *)
(* the check against size + 8.                                             *)
(***************************************************************************)
KeccakStored ==
    \A p \in Preimages, o \in Offsets :
        preimagePartOk[KeccakKey(p)][o] =>
            /\ preimageParts[KeccakKey(p)][o] = Slice32(Stream(p), o)
            /\ preimageLengths[KeccakKey(p)] = Len(p)
            /\ o <= Len(p) + 8

(***************************************************************************)
(* The length prefix served at offset 0 agrees with the stored length that *)
(* readPreimage cuts datLen with, for every key: a program decodes the     *)
(* length from the prefix while the oracle bounds reads by the slot, and   *)
(* loadLocalData writes the two in separate statements.                    *)
(***************************************************************************)
PrefixMatchesLength ==
    \A k \in Keys :
        preimagePartOk[k][0] =>
            SubSeq(preimageParts[k][0], 1, 8) = LengthPrefix(preimageLengths[k])

(***************************************************************************)
(* Every available part can be read, with a length of at most one part     *)
(* (0..32 bytes): the oracle's contract with its readers, for local keys   *)
(* too.                                                                     *)
(***************************************************************************)
AvailablePartsReadable ==
    \A k \in Keys, o \in Offsets :
        preimagePartOk[k][o] =>
            LET r == ReadPreimage(k, o) IN r.ok /\ r.datLen \in 0..32

(***************************************************************************)
(* Spec section 5: the store is append-only.  A part, once available, is   *)
(* never changed, and neither is the length of its key.                    *)
(***************************************************************************)
PartsAppendOnly ==
    [][\A k \in Keys, o \in Offsets :
          preimagePartOk[k][o] =>
              /\ preimagePartOk'[k][o]
              /\ preimageParts'[k][o] = preimageParts[k][o]
              /\ preimageLengths'[k] = preimageLengths[k]]_oracleVars

-----------------------------------------------------------------------------
(***************************************************************************)
(* Refinement.  What a reader sees of content-addressed data: the reply    *)
(* of readPreimage on the keccak key of each preimage, at each offset.     *)
(***************************************************************************)

\* The reply a read of part o of p must return: the part of the stream and
\* the number of its bytes inside the stream.
ServedPart(p, o) ==
    [ok |-> TRUE, dat |-> Slice32(Stream(p), o), datLen |-> Remaining(p, o)]

\* The end of the stream, as loadKeccak256PreimagePart checks it (size + 8).
StreamEndOffset(p) == Len(p) + 8

KeccakReplies ==
    [p \in Preimages |-> [o \in Offsets |-> ReadPreimage(KeccakKey(p), o)]]

AbsOracle == INSTANCE OracleAbstract
                 WITH StreamEnd <- StreamEndOffset, Content <- ServedPart,
                      replies <- KeccakReplies

(***************************************************************************)
(* The honest loaders implement the content-addressed oracle: seen through *)
(* readPreimage on keccak keys, every step of loadKeccak256PreimagePart    *)
(* makes one part of its preimage available with the right content and    *)
(* datLen, or changes nothing a reader sees, and loadLocalData never       *)
(* changes a keccak reply.  In particular a reply, once available, is      *)
(* never changed, although the length slot of its key is rewritten by      *)
(* every load of the preimage.                                             *)
(***************************************************************************)
OracleImplementsAbstract == AbsOracle!AbsOracleSpec
=============================================================================
