-------------------------------- MODULE MIPS --------------------------------
(***************************************************************************)
(* The MIPS contract of src/op-bindings/bindings/mips.go: one transaction  *)
(* step(stateData, proof) executes one instruction of a 32-bit MIPS VM.    *)
(* Its logic is only present as the creation code MIPSMetaData.Bin         *)
(* (mips.go:34, solc 0.7.6, unchecked arithmetic); the definitions below   *)
(* translate its internal functions step, readMem, writeMem, SE,           *)
(* handleJump, handleBranch, handleRd, handleHiLo, handleSyscall and       *)
(* execute.                                                                *)
(*                                                                         *)
(* The packed state (memRoot, preimageKey, preimageOffset, pc, nextPC, lo, *)
(* hi, heap, exitCode, exited, step, registers[32]) is the record `state'. *)
(* The Merkle memory behind memRoot is the function `mem' from word        *)
(* indices (address >> 2) to words: an honest prover supplies valid        *)
(* proofs, and readMem of an address returns mem at its index.             *)
(* A step that reverts changes nothing; only successful steps are steps.   *)
(* A read on file descriptor 5 calls readPreimage of the oracle, whose     *)
(* storage is the state of PreimageOracle.                                 *)
(***************************************************************************)
EXTENDS PreimageOracle, Word32

CONSTANTS
    Program,         \* the initial memory: word index -> word
    Entry,           \* the initial pc (a word)
    HeapStart,       \* the initial heap pointer (a word)
    OracleDeployed,  \* TRUE iff storage slot 0 (oracle) holds the oracle
    MaxSteps         \* bound on the step counter (a uint64 in the code)

ASSUME ProgramAssumption ==
    /\ DOMAIN Program \subseteq 0..(2^30 - 1)
    /\ \A i \in DOMAIN Program : Program[i] \in Word
ASSUME EntryAssumption == Entry \in Word /\ HeapStart \in Word
ASSUME DeployedAssumption == OracleDeployed \in BOOLEAN
ASSUME MaxStepsAssumption == MaxSteps \in Nat

VARIABLES state, mem

vmVars == <<state, mem>>

vars == <<state, mem, preimageLengths, preimageParts, preimagePartOk>>

MemIndices == DOMAIN Program

\* BRK_START() of mips.go, the constant 0x40000000 the brk syscall returns.
BRK_START == Num(2^30)

\* The register file as a function of the register number.
RegFile == [0..31 -> Word]

\* The register file with register r set to v.
SetReg(regs, r, v) == [i \in 0..31 |-> IF i = r THEN v ELSE regs[i]]

\* Outcome of a step that reverts.
Revert == [ok |-> FALSE]

\* Outcome of a step that returns the state s and the memory m.
Done(s, m) == [ok |-> TRUE, s |-> s, m |-> m]

(***************************************************************************)
(* readMem(addr, proofIndex): reverts with "unaligned" unless addr is a    *)
(* multiple of 4, and with "invalid proof" unless the proof matches        *)
(* memRoot.  Only words of MemIndices are modelled; an address outside is  *)
(* a bound of the model and the step is not taken.                         *)
(***************************************************************************)
Index(addr) == BitsToNat(SubSeq(addr, 1, 30))

Readable(addr) == addr[31] = 0 /\ addr[32] = 0 /\ Index(addr) \in MemIndices

\* writeMem(addr, proofIndex, val): the new memRoot holds val at addr.
WriteMem(m, addr, v) == [i \in DOMAIN m |-> IF i = Index(addr) THEN v ELSE m[i]]

\* addr & ~3, the word an access at a byte address falls in.
WordAddr(addr) == [i \in 1..32 |-> IF i > 30 THEN 0 ELSE addr[i]]

\* The fields of an instruction.
Opcode(insn) == FieldNat(insn, 31, 26)
Func(insn)   == FieldNat(insn, 5, 0)
RsReg(insn)  == FieldNat(insn, 25, 21)
RtReg(insn)  == FieldNat(insn, 20, 16)
RdReg(insn)  == FieldNat(insn, 15, 11)
Shamt(insn)  == FieldNat(insn, 10, 6)

\* The value of a word as a boolean result: 1 or 0.
Flag(b) == IF b THEN Num(1) ELSE ZeroWord

\* min(w, k) for a word w and a small number k <= 4, as a number.
MinNum(w, k) == IF ULt(w, Num(k)) THEN FieldNat(w, 2, 0) ELSE k

\* The outcome of execute: a value, or the revert "invalid instruction".
Ok(v) == [ok |-> TRUE, val |-> v]
Invalid == [ok |-> FALSE]

(***************************************************************************)
(* execute(insn, rs, rt, mem), the ALU (mem is memw here).  Opcodes 8..0xE (addi .. xori) are *)
(* the special functions 0x20, 0x21, 0x2a, 0x2b, 0x24, 0x25, 0x26 on the   *)
(* immediate.  For the memory opcodes rs is the effective address and mem  *)
(* the word it falls in.  The EVM computes in 256 bits and step keeps the  *)
(* low 32, which is what the 32-bit operations here compute.               *)
(***************************************************************************)
ImmFunc == [op \in 8..14 |-> <<32, 33, 42, 43, 36, 37, 38>>[op - 7]]

\* srav as the code has it: SE(rt >> rs, 32 - rs), with rs not masked.  A
\* shift of 32 or more gives rt >> rs = 0, and SE of 0 is 0.
Srav(rs, rt) ==
    IF \E i \in 1..27 : rs[i] = 1 THEN ZeroWord
    ELSE SE(Shr(rt, FieldNat(rs, 4, 0)), 32 - FieldNat(rs, 4, 0))

ExecSpecial(fun, shamt, rs, rt) ==
    CASE fun \in 8..31 -> Ok(rs)
      [] fun = 0  -> Ok(Shl(rt, shamt))
      [] fun = 2  -> Ok(Shr(rt, shamt))
      [] fun = 3  -> Ok(SE(Shr(rt, shamt), 32 - shamt))
      [] fun = 4  -> Ok(Shl(rt, FieldNat(rs, 4, 0)))
      [] fun = 6  -> Ok(Shr(rt, FieldNat(rs, 4, 0)))
      [] fun = 7  -> Ok(Srav(rs, rt))
      [] fun \in {32, 33} -> Ok(Add(rs, rt))
      [] fun \in {34, 35} -> Ok(Sub(rs, rt))
      [] fun = 36 -> Ok(BAnd(rs, rt))
      [] fun = 37 -> Ok(BOr(rs, rt))
      [] fun = 38 -> Ok(BXor(rs, rt))
      [] fun = 39 -> Ok(BNot(BOr(rs, rt)))
      [] fun = 42 -> Ok(Flag(SLt(rs, rt)))
      [] fun = 43 -> Ok(Flag(ULt(rs, rt)))
      [] OTHER    -> Invalid

\* Opcode 0x1c: mul, clz (count leading ones of ~rs), clo.
ExecSpecial2(fun, rs, rt) ==
    CASE fun = 2  -> Ok(MulMod(rs, rt))
      [] fun = 32 -> Ok(Num(CountLeadingOnes(BNot(rs))))
      [] fun = 33 -> Ok(Num(CountLeadingOnes(rs)))
      [] OTHER    -> Invalid

\* Loads and stores; al is rs & 3 and al2 is rs & 2, in bytes.
ExecMem(op, rs, rt, memw) ==
    LET al  == FieldNat(rs, 1, 0)
        al2 == 2 * rs[31]
        b8  == 24 - 8 * al
        h16 == 16 - 8 * al2
    IN  CASE op = 32 -> Ok(SE(BAnd(Shr(memw, b8), LowOnes(8)), 8))
          [] op = 33 -> Ok(SE(BAnd(Shr(memw, h16), LowOnes(16)), 16))
          [] op = 34 -> Ok(BOr(Shl(memw, 8 * al),
                               BAnd(rt, BNot(Shl(AllOnes, 8 * al)))))
          [] op = 35 -> Ok(memw)
          [] op = 36 -> Ok(BAnd(Shr(memw, b8), LowOnes(8)))
          [] op = 37 -> Ok(BAnd(Shr(memw, h16), LowOnes(16)))
          [] op = 38 -> Ok(BOr(Shr(memw, b8), BAnd(rt, BNot(Shr(AllOnes, b8)))))
          [] op = 40 -> Ok(BOr(Shl(BAnd(rt, LowOnes(8)), b8),
                               BAnd(memw, BXor(AllOnes, Shl(LowOnes(8), b8)))))
          [] op = 41 -> Ok(BOr(Shl(BAnd(rt, LowOnes(16)), h16),
                               BAnd(memw, BXor(AllOnes, Shl(LowOnes(16), h16)))))
          [] op = 42 -> Ok(BOr(Shr(rt, 8 * al), BAnd(memw, BNot(Shr(AllOnes, 8 * al)))))
          [] op = 43 -> Ok(rt)
          [] op = 46 -> Ok(BOr(Shl(rt, b8), BAnd(memw, BNot(Shl(AllOnes, b8)))))
          [] op \in {48, 56} -> Ok(IF op = 48 THEN memw ELSE rt)
          [] OTHER   -> Invalid

Execute(insn, rs, rt, memw) ==
    LET op == Opcode(insn)
    IN  CASE op = 0         -> ExecSpecial(Func(insn), Shamt(insn), rs, rt)
          [] op \in 8..14   -> ExecSpecial(ImmFunc[op], Shamt(insn), rs, rt)
          [] op = 15        -> Ok(Shl(rt, 16))
          [] op = 28        -> ExecSpecial2(Func(insn), rs, rt)
          [] op >= 32       -> ExecMem(op, rs, rt, memw)
          [] OTHER          -> Invalid

(***************************************************************************)
(* The handlers.  Each returns the outcome of the whole step: the state    *)
(* and memory it commits (outputState), or Revert.  `pc := nextPC;         *)
(* nextPC += 4' is their common tail.                                      *)
(***************************************************************************)
Advance(s) == [s EXCEPT !.pc = s.nextPC, !.nextPC = Add(s.nextPC, Num(4))]

\* Mutant: the delay-slot check is missing.
HandleJumpNoDelayCheck(s, m, linkReg, dest) ==
    Done([s EXCEPT !.pc = s.nextPC, !.nextPC = dest,
                   !.registers = IF linkReg # 0
                                 THEN SetReg(@, linkReg, Add(s.pc, Num(8)))
                                 ELSE @], m)

\* handleJump(linkReg, dest): "jump in delay slot" unless nextPC = pc + 4.
HandleJump(s, m, linkReg, dest) ==
    IF s.nextPC # Add(s.pc, Num(4)) THEN Revert
    ELSE Done([s EXCEPT !.pc = s.nextPC, !.nextPC = dest,
                        !.registers = IF linkReg # 0
                                      THEN SetReg(@, linkReg, Add(s.pc, Num(8)))
                                      ELSE @], m)

\* handleBranch(opcode, insn, rtReg, rs): beq, bne, blez, bgtz, bltz/bgez.
\* A taken branch goes to pc + 4 + (SE(imm) << 2), after the delay slot.
BranchTaken(s, opcode, insn, rtReg, rs) ==
    CASE opcode = 4 -> rs = s.registers[rtReg]
      [] opcode = 5 -> rs # s.registers[rtReg]
      [] opcode = 6 -> rs[1] = 1 \/ IsZero(rs)
      [] opcode = 7 -> rs[1] = 0 /\ ~IsZero(rs)
      [] opcode = 1 -> \/ RtReg(insn) = 0 /\ rs[1] = 1
                       \/ RtReg(insn) = 1 /\ rs[1] = 0

\* Mutant: the branch target is taken from the branch itself plus 8.
HandleBranchOffByOne(s, m, opcode, insn, rtReg, rs) ==
    IF s.nextPC # Add(s.pc, Num(4)) THEN Revert
    ELSE Done([s EXCEPT !.pc = s.nextPC,
                        !.nextPC =
                            IF BranchTaken(s, opcode, insn, rtReg, rs)
                            THEN Add(Add(s.pc, Num(8)), Shl(SE(Imm16(insn), 16), 2))
                            ELSE Add(s.nextPC, Num(4))], m)

HandleBranch(s, m, opcode, insn, rtReg, rs) ==
    IF s.nextPC # Add(s.pc, Num(4)) THEN Revert
    ELSE Done([s EXCEPT !.pc = s.nextPC,
                        !.nextPC =
                            IF BranchTaken(s, opcode, insn, rtReg, rs)
                            THEN Add(Add(s.pc, Num(4)), Shl(SE(Imm16(insn), 16), 2))
                            ELSE Add(s.nextPC, Num(4))], m)

\* Mutant: the write to register 0 is not suppressed.
HandleRdNoZeroGuard(s, m, rdReg, val, cond) ==
    Done(Advance([s EXCEPT !.registers = IF cond THEN SetReg(@, rdReg, val) ELSE @]), m)

\* handleRd(storeReg, val, conditional): register 0 is never written.
HandleRd(s, m, rdReg, val, cond) ==
    Done(Advance([s EXCEPT !.registers = IF cond /\ rdReg # 0
                                         THEN SetReg(@, rdReg, val) ELSE @]), m)

(***************************************************************************)
(* handleHiLo(func, rs, rt, storeReg): mfhi, mthi, mflo, mtlo, mult,       *)
(* multu, div, divu; 0x14..0x17 leave val = 0.  div and divu by zero hit   *)
(* the EVM's INVALID opcode (solc 0.7.6), so the step reverts.             *)
(***************************************************************************)
HiLo(v, h, l) == [ok |-> TRUE, val |-> v, hi |-> h, lo |-> l]

HiLoResult(fun, rs, rt, hi, lo) ==
    LET Wide(p) == HiLo(ZeroWord, SubSeq(p, 1, 32), SubSeq(p, 33, 64))
    IN  CASE fun = 16 -> HiLo(hi, hi, lo)
          [] fun = 17 -> HiLo(ZeroWord, rs, lo)
          [] fun = 18 -> HiLo(lo, hi, lo)
          [] fun = 19 -> HiLo(ZeroWord, hi, rs)
          [] fun \in 20..23 -> HiLo(ZeroWord, hi, lo)
          [] fun = 24 -> Wide(MulMod(SignExt64(rs), SignExt64(rt)))
          [] fun = 25 -> Wide(MulMod(ZeroExt64(rs), ZeroExt64(rt)))
          [] fun \in {26, 27} /\ IsZero(rt) -> [ok |-> FALSE]
          [] fun = 26 /\ ~IsZero(rt) ->
                LET qr == SDivMod(rs, rt) IN HiLo(ZeroWord, qr[2], qr[1])
          [] fun = 27 /\ ~IsZero(rt) ->
                LET qr == UDivMod(rs, rt) IN HiLo(ZeroWord, qr[2], qr[1])

HandleHiLo(s, m, fun, rs, rt, storeReg) ==
    LET r == HiLoResult(fun, rs, rt, s.hi, s.lo)
    IN  IF ~r.ok THEN Revert
        ELSE Done(Advance([s EXCEPT !.hi = r.hi, !.lo = r.lo,
                                    !.registers = IF storeReg # 0
                                                  THEN SetReg(@, storeReg, r.val)
                                                  ELSE @]), m)

(***************************************************************************)
(* handleSyscall.  sys = $v0, a0..a2 = $a0..$a2; v0 and v1 start at 0 and  *)
(* end in $v0 and $a3.  A syscall number the code does not know returns   *)
(* v0 = v1 = 0.  exit_group returns before the tail, so pc stays.         *)
(***************************************************************************)
Sys(s, m, v0, v1) == [ok |-> TRUE, s |-> s, m |-> m, v0 |-> v0, v1 |-> v1]

\* EBADF and EINVAL: v0 = 0xFFFFFFFF, v1 = 9 or 0x16.
SysErr(s, m, errno) == Sys(s, m, AllOnes, Num(errno))

\* The oracle call of a read: `oracle' is storage slot 0; a call to an
\* address without code reverts.  Keys and offsets the model does not
\* follow are never loaded, so readPreimage reverts on them.
ReadOracle(key, offset) ==
    IF OracleDeployed /\ key \in Keys /\ offset \in Offsets
    THEN ReadPreimage(key, offset)
    ELSE [ok |-> FALSE]

\* Bytes al+1 .. al+n of the memory word become the first n bytes of dat.
\* Mutant: the bytes are placed from the start of the word, ignoring the
\* address's alignment.
MergeReadAligned(memw, dat, al, n) ==
    LET old == WordBytes(memw)
    IN  BytesWord([j \in 1..4 |-> IF j <= n THEN dat[j] ELSE old[j]])

MergeRead(memw, dat, al, n) ==
    LET old == WordBytes(memw)
    IN  BytesWord([j \in 1..4 |-> IF al < j /\ j <= al + n THEN dat[j - al]
                                  ELSE old[j]])

\* read(fd = a0, addr = a1, count = a2).  fd 5 reads the preimage part at
\* (preimageKey, preimageOffset): at most what is left of the memory word
\* from a1 on, and at most a2 bytes.
SysRead(s, m, a0, a1, a2) ==
    CASE a0 = ZeroWord -> Sys(s, m, ZeroWord, ZeroWord)
      [] a0 = Num(5) ->
           LET addr == WordAddr(a1)
               r    == ReadOracle(s.preimageKey, s.preimageOffset)
               al   == FieldNat(a1, 1, 0)
               n1   == IF 4 - al < r.datLen THEN 4 - al ELSE r.datLen
               n    == MinNum(a2, n1)
           IN  IF ~Readable(addr) \/ ~r.ok THEN [ok |-> FALSE]
               ELSE Sys([s EXCEPT !.preimageOffset = @ + n],
                        WriteMem(m, addr, MergeRead(m[Index(addr)], r.dat, al, n)),
                        Num(n), ZeroWord)
      [] a0 = Num(3) -> Sys(s, m, a2, ZeroWord)
      [] OTHER -> SysErr(s, m, 9)

\* write(fd = a0, addr = a1, count = a2).  fd 6 shifts the bytes at a1 (at
\* most to the end of the word) into preimageKey and restarts the offset.
SysWrite(s, m, a0, a1, a2) ==
    CASE a0 \in {Num(1), Num(2), Num(4)} -> Sys(s, m, a2, ZeroWord)
      [] a0 = Num(6) ->
           LET addr == WordAddr(a1)
               al   == FieldNat(a1, 1, 0)
               n    == MinNum(a2, 4 - al)
           IN  IF ~Readable(addr) THEN [ok |-> FALSE]
               ELSE Sys([s EXCEPT !.preimageKey =
                                     SubSeq(@, n + 1, 32)
                                     \o SubSeq(WordBytes(m[Index(addr)]), al + 1, al + n),
                                  !.preimageOffset = 0],
                        m, Num(n), ZeroWord)
      [] OTHER -> SysErr(s, m, 9)

\* fcntl(fd = a0, cmd = a1): F_GETFL (3) answers O_RDONLY or O_WRONLY, an
\* unknown fd EBADF; any other cmd is EINVAL.
SysFcntl(s, m, a0, a1) ==
    CASE a1 = Num(3) /\ a0 \in {Num(0), Num(5), Num(3)} -> Sys(s, m, ZeroWord, ZeroWord)
      [] a1 = Num(3) /\ a0 \in {Num(1), Num(2), Num(6), Num(4)} -> Sys(s, m, Num(1), ZeroWord)
      [] a1 = Num(3) /\ a0 \notin {Num(i) : i \in 0..6} -> SysErr(s, m, 9)
      [] OTHER -> SysErr(s, m, 22)

\* mmap(a0, a1): the size is rounded up to a 4 KiB page in uint32; with
\* a0 = 0 the region is taken from the heap, which grows by the size.
SysMmap(s, m, a0, a1) ==
    LET low == BAnd(a1, LowOnes(12))
        sz  == IF IsZero(low) THEN a1 ELSE Add(a1, Sub(Num(4096), low))
    IN  IF IsZero(a0) THEN Sys([s EXCEPT !.heap = Add(s.heap, sz)], m, s.heap, ZeroWord)
        ELSE Sys(s, m, a0, ZeroWord)

SyscallResult(s, m) ==
    LET sys == s.registers[2]
        a0  == s.registers[4]
        a1  == s.registers[5]
        a2  == s.registers[6]
    IN  CASE sys = Num(4090) -> SysMmap(s, m, a0, a1)
          [] sys = Num(4045) -> Sys(s, m, BRK_START, ZeroWord)
          [] sys = Num(4120) -> Sys(s, m, Num(1), ZeroWord)
          [] sys = Num(4003) -> SysRead(s, m, a0, a1, a2)
          [] sys = Num(4004) -> SysWrite(s, m, a0, a1, a2)
          [] sys = Num(4055) -> SysFcntl(s, m, a0, a1)
          [] OTHER -> Sys(s, m, ZeroWord, ZeroWord)

HandleSyscall(s, m) ==
    IF s.registers[2] = Num(4246)
    THEN Done([s EXCEPT !.exited = TRUE,
                        !.exitCode = FieldNat(s.registers[4], 7, 0)], m)
    ELSE LET r == SyscallResult(s, m)
         IN  IF ~r.ok THEN Revert
             ELSE Done(Advance([r.s EXCEPT !.registers =
                                    SetReg(SetReg(@, 2, r.v0), 7, r.v1)]), r.m)

(***************************************************************************)
(* step(stateData, proof).  An exited VM is returned unchanged, without    *)
(* counting the step (StepResult).  Otherwise (RunStep) the step counter   *)
(* grows, the instruction                                                   *)
(* at pc is fetched, and the cases run in the code's order: j/jal, the     *)
(* operand fetch, branches, the memory operand, execute, the special       *)
(* functions that return early (jr/jalr, movz/movn, syscall, hi/lo), then  *)
(* sc's success flag, the store and handleRd of the result.                *)
(***************************************************************************)
\* The operand rt: a register, a (sign- or zero-extended) immediate, or 0.
RtValue(s, insn) ==
    LET op == Opcode(insn)
    IN  CASE op \in {0, 28} -> s.registers[RtReg(insn)]
          [] op < 32 /\ op \in 12..14 -> Imm16(insn)
          [] op < 32 /\ op \notin {0, 28} \cup 12..14 -> SE(Imm16(insn), 16)
          [] op >= 40 \/ op \in {34, 38} -> s.registers[RtReg(insn)]
          [] op >= 32 /\ op < 40 /\ op \notin {34, 38} -> ZeroWord

\* After execute: the special functions that end the step, or the tail.
Finish(s, m, insn, rs, rt, rdReg, store, addr, val) ==
    LET op  == Opcode(insn)
        fun == Func(insn)
        s2  == IF op = 56 /\ RtReg(insn) # 0
               THEN [s EXCEPT !.registers = SetReg(@, RtReg(insn), Num(1))]
               ELSE s
    IN  CASE op = 0 /\ fun \in {8, 9} ->
               HandleJump(s, m, IF fun = 8 THEN 0 ELSE rdReg, rs)
          [] op = 0 /\ fun = 10 -> HandleRd(s, m, rdReg, rs, IsZero(rt))
          [] op = 0 /\ fun = 11 -> HandleRd(s, m, rdReg, rs, ~IsZero(rt))
          [] op = 0 /\ fun = 12 -> HandleSyscall(s, m)
          [] op = 0 /\ fun \in 16..27 -> HandleHiLo(s, m, fun, rs, rt, rdReg)
          [] OTHER ->
               HandleRd(s2, IF store THEN WriteMem(m, addr, val) ELSE m,
                        rdReg, val, TRUE)

\* Mutant: the step counter is not incremented.
CountStepMissing(s) == s

\* state.step += 1, before the instruction is fetched.
CountStep(s) == [s EXCEPT !.step = @ + 1]

RunStep(s, m) ==
    LET s1   == CountStep(s)
        insn == m[Index(s.pc)]
        op   == Opcode(insn)
        rs0  == s.registers[RsReg(insn)]
        memOp == op >= 32
        rs   == IF memOp THEN Add(rs0, SE(Imm16(insn), 16)) ELSE rs0
        addr == WordAddr(rs)
        store == memOp /\ op >= 40 /\ op # 48
        rdReg == CASE store -> 0
                   [] ~store /\ op \in {0, 28} -> RdReg(insn)
                   [] ~store /\ op \notin {0, 28} -> RtReg(insn)
        ex   == Execute(insn, rs, RtValue(s, insn),
                        IF memOp THEN m[Index(addr)] ELSE ZeroWord)
    IN  IF ~Readable(s.pc) THEN Revert
        ELSE IF op \in {2, 3}
             THEN HandleJump(s1, m, IF op = 2 THEN 0 ELSE 31,
                             Shl(SE(BAnd(insn, LowOnes(26)), 26), 2))
        ELSE IF op \in 4..7 \/ op = 1
             THEN HandleBranch(s1, m, op, insn, RtReg(insn), rs0)
        ELSE IF memOp /\ ~Readable(addr) THEN Revert
        ELSE IF ~ex.ok THEN Revert
        ELSE Finish(s1, m, insn, rs, RtValue(s, insn), rdReg, store, addr, ex.val)

\* Mutant: step does not check exited and runs the halted VM on.
StepResultNoHaltCheck(s, m) == RunStep(s, m)

StepResult(s, m) == IF s.exited THEN Done(s, m) ELSE RunStep(s, m)

-----------------------------------------------------------------------------
(***************************************************************************)
(* The system: the VM, stepped by whoever plays the dispute, and the       *)
(* loaders of the oracle.  The initial VM state is the one the off-chain   *)
(* trace producer starts from: the program image in memory, pc at Entry,   *)
(* registers zero.                                                         *)
(***************************************************************************)
InitState ==
    [preimageKey |-> Zeros(32), preimageOffset |-> 0,
     pc |-> Entry, nextPC |-> Add(Entry, Num(4)), lo |-> ZeroWord, hi |-> ZeroWord,
     heap |-> HeapStart, exitCode |-> 0, exited |-> FALSE, step |-> 0,
     registers |-> [r \in 0..31 |-> ZeroWord]]

Init == OracleInit /\ state = InitState /\ mem = Program

\* One successful call of step on the current state, with valid proofs.
VMStep ==
    /\ state.exited \/ state.step < MaxSteps
    /\ LET r == StepResult(state, mem)
       IN  r.ok /\ state' = r.s /\ mem' = r.m
    /\ UNCHANGED oracleVars

\* The preimage server loads the part the VM's next read asks for.
LoadNeeded ==
    /\ state.preimageOffset \in Offsets
    /\ \E p \in Preimages :
           /\ KeccakKey(p) = state.preimageKey
           /\ ~preimagePartOk[KeccakKey(p)][state.preimageOffset]
           /\ LoadKeccak256PreimagePart(state.preimageOffset, p)
    /\ UNCHANGED vmVars

\* Any load of the oracle by anyone, at any time.
OracleStep == OracleNext /\ UNCHANGED vmVars

Next == VMStep \/ OracleStep

\* step can be called with success and changes the state: ENABLED <<VMStep>>_vars,
\* written out because VMStep is deterministic in the VM's variables.
StepEnabled ==
    /\ state.exited \/ state.step < MaxSteps
    /\ LET r == StepResult(state, mem) IN r.ok /\ (r.s # state \/ r.m # mem)

\* Weak fairness of VMStep, WF_vars(VMStep), with its enabledness spelled out.
VMFairness == <>[]StepEnabled => []<><<VMStep>>_vars

\* The prover keeps calling step while it succeeds; the preimage server
\* keeps loading the part the VM needs.
Spec == Init /\ [][Next]_vars /\ VMFairness /\ WF_vars(LoadNeeded)

-----------------------------------------------------------------------------
(***************************************************************************)
(* Properties.                                                             *)
(***************************************************************************)
VMTypeOK ==
    /\ state \in [preimageKey : [1..32 -> Bytes], preimageOffset : Nat,
                  pc : Word, nextPC : Word, lo : Word, hi : Word, heap : Word,
                  exitCode : 0..255, exited : BOOLEAN, step : Nat,
                  registers : RegFile]
    /\ mem \in [MemIndices -> Word]

(***************************************************************************)
(* Register 0 reads as zero in every state: every path that writes a       *)
(* register (handleRd, the link of handleJump, handleHiLo's storeReg, the  *)
(* success flag of sc, the results of a syscall in $v0 and $a3) skips      *)
(* register 0 or never names it.                                           *)
(***************************************************************************)
Reg0Zero == state.registers[0] = ZeroWord

(***************************************************************************)
(* A halted VM stays halted and unchanged: step on an exited state returns *)
(* it as it is, without counting the step, and no other step follows.     *)
(***************************************************************************)
ExitedFrozen == [][state.exited => UNCHANGED vmVars]_vars

(***************************************************************************)
(* The program runs to exit_group: the prover keeps stepping and the       *)
(* preimage server loads every part the VM reads, so no step reverts       *)
(* for good before the VM halts.                                           *)
(***************************************************************************)
Termination == <>state.exited

(***************************************************************************)
(* Spec section 3: the heap pointer never decreases.  mmap adds the       *)
(* rounded size to it in uint32.                                           *)
(***************************************************************************)
HeapMonotone == [][~ULt(state'.heap, state.heap)]_vars

(***************************************************************************)
(* Branch delay slots (spec section 4.3): after a branch or jump sets      *)
(* nextPC, the next instruction runs in the delay slot, and a step taken   *)
(* there that does not halt moves pc to the branch target and leaves the   *)
(* delay slot.  handleJump and handleBranch revert in a delay slot, so a   *)
(* branch there can never chain a second target.                           *)
(***************************************************************************)
InDelaySlot(s) == s.nextPC # Add(s.pc, Num(4))

DelaySlotResolved ==
    [][VMStep /\ InDelaySlot(state) /\ ~state'.exited
         => state'.pc = state.nextPC /\ ~InDelaySlot(state')]_vars

(***************************************************************************)
(* The VM implements VMAbstract: step_count counts the successful calls    *)
(* on a running VM, exited is set once and never cleared, and the exit     *)
(* code changes only in the step that sets exited.  Oracle loads and calls *)
(* on a halted VM are stutters.                                            *)
(***************************************************************************)
Abs == INSTANCE VMAbstract
           WITH steps <- state.step, halted <- state.exited,
                exitCode <- state.exitCode

VMImplementsAbstract == Abs!AbsSpec
=============================================================================
