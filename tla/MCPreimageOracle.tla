-------------------------- MODULE MCPreimageOracle --------------------------
(***************************************************************************)
(* A small instance of PreimageOracle for TLC.  Two preimages: the empty   *)
(* one (a stream of just the 8-byte prefix) and one of 30 bytes, whose     *)
(* 38-byte stream spans two parts and ends inside the second.  The offsets *)
(* hit the first part, a word inside it, the end of the empty stream and   *)
(* one past it, the second part, the end of the long stream and one past. *)
(* Local data: one identifier, two callers, two words, a size that fits    *)
(* part 0 and one that needs part 32.                                      *)
(***************************************************************************)
EXTENDS PreimageOracle

MCLongPreimage == [i \in 1..30 |-> i]

MCPreimages == {<<>>, MCLongPreimage}

\* Injective stand-ins for the hashes: distinct lengths, distinct digests.
MCKeccakDigest(p) == Zeros(30) \o <<Len(p) + 1>>

MCLocalDigest(i, c) == Zeros(29) \o <<i, c>>

MCIdents == {1}

MCCallers == {1, 2}

MCLocalWords == {[i \in 1..32 |-> 7], [i \in 1..32 |-> 9]}

MCLocalSizes == {4, 32}

MCOffsets == {0, 8, 9, 32, 38, 39}

\* One forged part for the content-addressed key of the long preimage.
MCCheatArgs == {[key |-> <<2>> \o MCKeccakDigest(MCLongPreimage),
                 partOffset |-> 0, part |-> Zeros(32), size |-> 30]}

MCUint256Mod == 1000
=============================================================================
