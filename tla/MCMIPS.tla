------------------------------- MODULE MCMIPS -------------------------------
(***************************************************************************)
(* A TLC instance of MIPS composed with PreimageOracle.  The memory image  *)
(* holds a small program, assembled here from its instruction fields:      *)
(*   - a loop of write(6, KEY + 4i, 32 - 4i) syscalls that shifts the      *)
(*     32-byte key of the preimage into preimageKey, 4 bytes per call;     *)
(*   - a loop of read(5, BUF + 1 + k, 16) syscalls until one returns 0:    *)
(*     the first read starts one byte into a word, so it gets 3 bytes;     *)
(*   - mmap(0, 5000), which rounds the size up to two pages;               *)
(*   - a write of mmap's result to $0, which discards it;                 *)
(*   - exit_group(0).                                                      *)
(* Both loops advance their pointer by $v0 in the branch delay slot.  The  *)
(* preimage is 3 bytes long: its stream (8-byte length prefix, then the    *)
(* data) is 11 bytes, read at offsets 0, 3, 7 and 11 (end of stream).      *)
(***************************************************************************)
EXTENDS MIPS

\* An unsigned number as a bit string of the given width.
Bits(n, width) == [i \in 1..width |-> (n \div 2^(width - i)) % 2]

\* Instruction encodings: R-type (opcode 0) and I-type.
RType(rs, rt, rd, shamt, funct) ==
    Bits(0, 6) \o Bits(rs, 5) \o Bits(rt, 5) \o Bits(rd, 5) \o Bits(shamt, 5)
    \o Bits(funct, 6)

IType(op, rs, rt, imm) == Bits(op, 6) \o Bits(rs, 5) \o Bits(rt, 5) \o Bits(imm, 16)

\* Register numbers of the MIPS o32 convention.
zero == 0

v0 == 2

a0 == 4

a1 == 5

a2 == 6

t0 == 8

ADDIU(rt, rs, imm) == IType(9, rs, rt, imm)
ADDU(rd, rs, rt)   == RType(rs, rt, rd, 0, 33)
SUBU(rd, rs, rt)   == RType(rs, rt, rd, 0, 35)
\* bne with a branch offset of -back instructions.
BNEBack(rs, rt, back) == IType(5, rs, rt, 65536 - back)
SYSCALL            == RType(0, 0, 0, 0, 12)
LUI(rt, imm)       == IType(15, 0, rt, imm)
DIVU(rs, rt)       == RType(rs, rt, 0, 0, 27)
\* bne with a branch offset of +fwd instructions; j and jal to a byte address.
BNEFwd(rs, rt, fwd) == IType(5, rs, rt, fwd)
J(addr)            == Bits(2, 6) \o Bits(addr \div 4, 26)
JAL(addr)          == Bits(3, 6) \o Bits(addr \div 4, 26)

MCKey == 256        \* byte address of the 32-byte key
MCBuf == 320        \* byte address of the 16-byte read buffer

MCCode == <<
    ADDIU(a1, zero, MCKey),    \*  0: a1 = KEY
    ADDIU(t0, zero, 32),       \*  4: t0 = bytes of key left
    ADDIU(v0, zero, 4004),     \*  8: write(...)
    ADDIU(a0, zero, 6),        \* 12:   fd 6, the key
    ADDU(a2, t0, zero),        \* 16:   count = t0
    SYSCALL,                   \* 20:
    SUBU(t0, t0, v0),          \* 24: t0 -= v0
    BNEBack(t0, zero, 6),        \* 28: while t0 # 0 back to 8
    ADDU(a1, a1, v0),          \* 32:   (delay slot) a1 += v0
    ADDIU(a1, zero, MCBuf + 1),\* 36: a1 = BUF + 1
    ADDIU(v0, zero, 4003),     \* 40: read(...)
    ADDIU(a0, zero, 5),        \* 44:   fd 5, the preimage
    ADDIU(a2, zero, 16),       \* 48:   count = 16
    SYSCALL,                   \* 52:
    BNEBack(v0, zero, 5),        \* 56: while v0 # 0 back to 40
    ADDU(a1, a1, v0),          \* 60:   (delay slot) a1 += v0
    ADDIU(v0, zero, 4090),     \* 64: mmap(0, 5000)
    ADDU(a0, zero, zero),      \* 68:
    ADDIU(a1, zero, 5000),     \* 72:
    SYSCALL,                   \* 76:
    ADDIU(zero, v0, 0),        \* 80: $0 = v0, discarded
    ADDIU(v0, zero, 4246),     \* 84: exit_group(0)
    ADDU(a0, zero, zero),      \* 88:
    SYSCALL                    \* 92:
  >>

MCPreimage == <<5, 6, 7>>

MCPreimages == {MCPreimage}

MCKeccakDigest(p) == Zeros(30) \o <<Len(p) + 1>>

MCLocalDigest(i, c) == Zeros(29) \o <<i, c>>

\* The memory image of a program: its code from address 0, the key at KEY,
\* a buffer at BUF holding stale bytes 9.
MCImage(code) ==
    [i \in (0..(Len(code) - 1)) \cup (64..71) \cup (80..83) |->
        IF i < Len(code) THEN code[i + 1]
        ELSE IF i < 72 THEN BytesWord(SubSeq(KeccakKey(MCPreimage),
                                             4 * (i - 64) + 1, 4 * (i - 64) + 4))
        ELSE BytesWord(<<9, 9, 9, 9>>)]

MCProgram == MCImage(MCCode)

\* mmap(0, 0xFFFF0000): a size that wraps the heap pointer around 2^32.
MCWrapCode == <<
    LUI(a1, 65535),            \*  0: a1 = 0xFFFF0000
    ADDIU(v0, zero, 4090),     \*  4: mmap(0, a1)
    ADDU(a0, zero, zero),      \*  8:
    SYSCALL,                   \* 12:
    ADDIU(v0, zero, 4246),     \* 16: exit_group(0)
    SYSCALL                    \* 20:
  >>

\* 7 / 0 by divu, then exit_group(0).
MCDivCode == <<
    ADDIU(t0, zero, 7),        \*  0: t0 = 7
    DIVU(t0, zero),            \*  4: lo, hi = t0 / 0, t0 % 0
    ADDIU(v0, zero, 4246),     \*  8: exit_group(0)
    ADDU(a0, zero, zero),      \* 12:
    SYSCALL                    \* 16:
  >>

\* read(5, BUF, 4) before any write to fd 6 set a key, then exit_group(0).
MCEarlyReadCode == <<
    ADDIU(v0, zero, 4003),     \*  0: read(...)
    ADDIU(a0, zero, 5),        \*  4:   fd 5, the preimage
    ADDIU(a1, zero, MCBuf),    \*  8:   BUF
    ADDIU(a2, zero, 4),        \* 12:   count = 4
    SYSCALL,                   \* 16:
    ADDIU(v0, zero, 4246),     \* 20: exit_group(0)
    ADDU(a0, zero, zero),      \* 24:
    SYSCALL                    \* 28:
  >>

\* A taken branch whose delay slot runs, then a jal whose delay slot holds
\* a j: the j reverts, so the program can go no further.
MCDelayCode == <<
    ADDIU(t0, zero, 1),        \*  0: t0 = 1
    BNEFwd(t0, zero, 2),       \*  4: bne t0, $0 -> 16
    ADDIU(t0, t0, 1),          \*  8:   (delay slot) t0 = 2
    ADDIU(t0, zero, 0),        \* 12: skipped
    JAL(32),                   \* 16: jal 32
    J(0),                      \* 20:   (delay slot) j 0: reverts
    ADDIU(t0, zero, 0),        \* 24:
    ADDIU(t0, zero, 0),        \* 28:
    ADDIU(v0, zero, 4246),     \* 32: exit_group(0)
    SYSCALL                    \* 36:
  >>

MCWrapProgram == MCImage(MCWrapCode)

MCDelayProgram == MCImage(MCDelayCode)

MCDivProgram == MCImage(MCDivCode)

MCEarlyReadProgram == MCImage(MCEarlyReadCode)

MCEntry == ZeroWord

MCHeapStart == Num(2^29)

MCOffsets == {0, 3, 7, 11, 32}

MCLocalWords == {[i \in 1..32 |-> 9]}

MCUint256Mod == 1000

\* The byte at a byte address of the memory.
ByteAt(addr) == WordBytes(mem[addr \div 4])[(addr % 4) + 1]

(***************************************************************************)
(* The bytes the program has read are the preimage's stream: after the     *)
(* reads the buffer from BUF + 1 on holds the first preimageOffset bytes   *)
(* of the length-prefixed preimage.  It depends on the key shifted in by   *)
(* the write syscalls, on readPreimage's part and datLen, on the byte      *)
(* placement of the read syscall for an unaligned start, and on the       *)
(* offset it advances.                                                     *)
(***************************************************************************)
ReadBufferMatchesStream ==
    \A j \in 1..state.preimageOffset :
        ByteAt(MCBuf + j) = Stream(MCPreimage)[j]
=============================================================================
