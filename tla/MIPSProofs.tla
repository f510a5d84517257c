---------------------------- MODULE MIPSProofs -----------------------------
(***************************************************************************)
(* Proofs about MIPS.step, for every program, entry point, heap start and  *)
(* oracle: register 0 reads as zero in every reachable state.  The         *)
(* argument follows the handlers of step: each one either reverts or       *)
(* returns a state whose register 0 is that of the state it was given,     *)
(* because every register write (handleRd, handleHiLo, handleJump's link,  *)
(* sc's flag, the syscall results in $v0 and $a3) is to a register other   *)
(* than 0.  The values computed (Execute, the Word32 arithmetic, the       *)
(* oracle's reply) never need to be opened.                                *)
(***************************************************************************)
EXTENDS MIPS, TLAPS

\* A state as the handlers see it: a record with a register file, a step
\* counter, an exit flag, an exit code, pc and nextPC.
IsVMState(s) ==
    {"registers", "step", "exited", "exitCode", "pc", "nextPC"} \subseteq DOMAIN s

\* The outcome r of a handler given s keeps the record shape, register 0
\* and the step counter, and either keeps exited and exitCode or halts.
Keeps(r, s) ==
    r.ok => /\ DOMAIN r.s = DOMAIN s
            /\ r.s.registers[0] = s.registers[0]
            /\ r.s.step = s.step
            /\ \/ r.s.exited = s.exited /\ r.s.exitCode = s.exitCode
               \/ r.s.exited = TRUE

\* The outcome r of a syscall given s keeps every register, the counter,
\* the exit fields, pc and nextPC.
KeepsAllRegs(r, s) ==
    r.ok => /\ DOMAIN r.s = DOMAIN s
            /\ r.s.registers = s.registers
            /\ r.s.step = s.step
            /\ r.s.exited = s.exited
            /\ r.s.exitCode = s.exitCode
            /\ r.s.pc = s.pc
            /\ r.s.nextPC = s.nextPC

-----------------------------------------------------------------------------
(* Lemmas: the register file and the common tails.                         *)

\* Setting a register other than 0 leaves register 0.
LEMMA SetRegZero ==
    ASSUME NEW regs, NEW r, NEW v, r # 0
    PROVE  SetReg(regs, r, v)[0] = regs[0]
BY DEF SetReg

\* A handler returning the state it was given keeps register 0.
LEMMA DoneKeeps ==
    ASSUME NEW s, NEW m
    PROVE  Keeps(Done(s, m), s)
BY DEF Keeps, Done

\* A revert commits no state.
LEMMA RevertKeeps ==
    ASSUME NEW s
    PROVE  Keeps(Revert, s)
BY DEF Keeps, Revert

\* pc := nextPC; nextPC += 4 leaves the register file.
LEMMA AdvanceKeeps ==
    ASSUME NEW s, IsVMState(s)
    PROVE  /\ DOMAIN Advance(s) = DOMAIN s
           /\ Advance(s).registers = s.registers
           /\ Advance(s).step = s.step
           /\ Advance(s).exited = s.exited
           /\ Advance(s).exitCode = s.exitCode
BY DEF Advance, IsVMState

-----------------------------------------------------------------------------
(* Lemmas: each handler keeps register 0.                                  *)

\* handleJump links only to a register other than 0.
LEMMA HandleJumpKeeps ==
    ASSUME NEW s, NEW m, NEW linkReg, NEW dest, IsVMState(s)
    PROVE  Keeps(HandleJump(s, m, linkReg, dest), s)
<1>1. CASE linkReg # 0
  BY <1>1, SetRegZero DEF HandleJump, Keeps, Done, Revert, IsVMState
<1>2. CASE linkReg = 0
  BY <1>2 DEF HandleJump, Keeps, Done, Revert, IsVMState
<1>3. QED
  BY <1>1, <1>2

\* handleBranch writes no register.
LEMMA HandleBranchKeeps ==
    ASSUME NEW s, NEW m, NEW opcode, NEW insn, NEW rtReg, NEW rs, IsVMState(s)
    PROVE  Keeps(HandleBranch(s, m, opcode, insn, rtReg, rs), s)
BY DEF HandleBranch, Keeps, Done, Revert, IsVMState

\* handleRd drops a write to register 0.
LEMMA HandleRdKeeps ==
    ASSUME NEW s, NEW m, NEW rdReg, NEW val, NEW cond, IsVMState(s)
    PROVE  Keeps(HandleRd(s, m, rdReg, val, cond), s)
<1> DEFINE s1 == [s EXCEPT !.registers = IF cond /\ rdReg # 0
                                         THEN SetReg(@, rdReg, val) ELSE @]
<1>1. IsVMState(s1) /\ DOMAIN s1 = DOMAIN s
  BY DEF IsVMState
<1>2. s1.registers[0] = s.registers[0]
  <2>1. CASE cond /\ rdReg # 0
    BY <2>1, SetRegZero DEF IsVMState
  <2>2. CASE ~(cond /\ rdReg # 0)
    BY <2>2 DEF IsVMState
  <2>3. QED
    BY <2>1, <2>2
<1>3. /\ DOMAIN Advance(s1) = DOMAIN s1
      /\ Advance(s1).registers = s1.registers
      /\ Advance(s1).step = s.step
      /\ Advance(s1).exited = s.exited
      /\ Advance(s1).exitCode = s.exitCode
  BY <1>1, AdvanceKeeps DEF IsVMState
<1>4. QED
  BY <1>1, <1>2, <1>3 DEF HandleRd, Keeps, Done

\* handleHiLo writes its result only to a register other than 0.
LEMMA HandleHiLoKeeps ==
    ASSUME NEW s, NEW m, NEW fun, NEW rs, NEW rt, NEW storeReg, IsVMState(s)
    PROVE  Keeps(HandleHiLo(s, m, fun, rs, rt, storeReg), s)
<1> DEFINE r  == HiLoResult(fun, rs, rt, s.hi, s.lo)
           s1 == [s EXCEPT !.hi = r.hi, !.lo = r.lo,
                           !.registers = IF storeReg # 0
                                         THEN SetReg(@, storeReg, r.val)
                                         ELSE @]
<1>1. IsVMState(s1) /\ DOMAIN s1 = DOMAIN s
  BY DEF IsVMState
<1>2. s1.registers[0] = s.registers[0]
  <2>1. CASE storeReg # 0
    BY <2>1, SetRegZero DEF IsVMState
  <2>2. CASE storeReg = 0
    BY <2>2 DEF IsVMState
  <2>3. QED
    BY <2>1, <2>2
<1>3. /\ DOMAIN Advance(s1) = DOMAIN s1
      /\ Advance(s1).registers = s1.registers
      /\ Advance(s1).step = s.step
      /\ Advance(s1).exited = s.exited
      /\ Advance(s1).exitCode = s.exitCode
  BY <1>1, AdvanceKeeps DEF IsVMState
<1>4. QED
  BY <1>1, <1>2, <1>3 DEF HandleHiLo, Keeps, Done, Revert
-----------------------------------------------------------------------------
(* Lemmas: the syscalls other than exit_group keep every register; their   *)
(* results reach $v0 and $a3 only in handleSyscall's tail.                 *)

\* A syscall result carries the state it was given.
LEMMA SysKeepsAll ==
    ASSUME NEW s, NEW m, NEW v0, NEW v1
    PROVE  KeepsAllRegs(Sys(s, m, v0, v1), s)
BY DEF KeepsAllRegs, Sys

\* An error result carries the state it was given.
LEMMA SysErrKeepsAll ==
    ASSUME NEW s, NEW m, NEW errno
    PROVE  KeepsAllRegs(SysErr(s, m, errno), s)
BY SysKeepsAll DEF SysErr

\* sys_read changes the offset and memory, never a register.
LEMMA SysReadKeepsAll ==
    ASSUME NEW s, NEW m, NEW a0, NEW a1, NEW a2, IsVMState(s)
    PROVE  KeepsAllRegs(SysRead(s, m, a0, a1, a2), s)
<1> DEFINE r  == ReadOracle(s.preimageKey, s.preimageOffset)
           al == FieldNat(a1, 1, 0)
           n1 == IF 4 - al < r.datLen THEN 4 - al ELSE r.datLen
           n  == MinNum(a2, n1)
           addr == WordAddr(a1)
<1>1. KeepsAllRegs(Sys([s EXCEPT !.preimageOffset = @ + n],
                       WriteMem(m, addr, MergeRead(m[Index(addr)], r.dat, al, n)),
                       Num(n), ZeroWord), s)
  BY DEF KeepsAllRegs, Sys, IsVMState
<1>2. KeepsAllRegs([ok |-> FALSE], s)
  BY DEF KeepsAllRegs
<1>3. QED
  BY <1>1, <1>2, SysKeepsAll, SysErrKeepsAll DEF SysRead

\* sys_write changes the key and offset, never a register.
LEMMA SysWriteKeepsAll ==
    ASSUME NEW s, NEW m, NEW a0, NEW a1, NEW a2, IsVMState(s)
    PROVE  KeepsAllRegs(SysWrite(s, m, a0, a1, a2), s)
<1> DEFINE addr == WordAddr(a1)
           al   == FieldNat(a1, 1, 0)
           n    == MinNum(a2, 4 - al)
<1>1. KeepsAllRegs(Sys([s EXCEPT !.preimageKey =
                                   SubSeq(@, n + 1, 32)
                                   \o SubSeq(WordBytes(m[Index(addr)]), al + 1, al + n),
                                 !.preimageOffset = 0],
                       m, Num(n), ZeroWord), s)
  BY DEF KeepsAllRegs, Sys, IsVMState
<1>2. KeepsAllRegs([ok |-> FALSE], s)
  BY DEF KeepsAllRegs
<1>3. QED
  BY <1>1, <1>2, SysKeepsAll, SysErrKeepsAll DEF SysWrite

\* sys_fcntl changes nothing.
LEMMA SysFcntlKeepsAll ==
    ASSUME NEW s, NEW m, NEW a0, NEW a1
    PROVE  KeepsAllRegs(SysFcntl(s, m, a0, a1), s)
BY SysKeepsAll, SysErrKeepsAll DEF SysFcntl

\* sys_mmap changes the heap, never a register.
LEMMA SysMmapKeepsAll ==
    ASSUME NEW s, NEW m, NEW a0, NEW a1, IsVMState(s)
    PROVE  KeepsAllRegs(SysMmap(s, m, a0, a1), s)
<1>1. ASSUME NEW sz
      PROVE  KeepsAllRegs(Sys([s EXCEPT !.heap = Add(s.heap, sz)], m, s.heap, ZeroWord), s)
  BY DEF KeepsAllRegs, Sys, IsVMState
<1>2. QED
  BY <1>1, SysKeepsAll DEF SysMmap

\* The syscall dispatch changes no register.
LEMMA SyscallResultKeepsAll ==
    ASSUME NEW s, NEW m, IsVMState(s)
    PROVE  KeepsAllRegs(SyscallResult(s, m), s)
BY SysKeepsAll, SysReadKeepsAll, SysWriteKeepsAll, SysFcntlKeepsAll,
   SysMmapKeepsAll DEF SyscallResult

\* handleSyscall writes only $v0 and $a3.
LEMMA HandleSyscallKeeps ==
    ASSUME NEW s, NEW m, IsVMState(s)
    PROVE  Keeps(HandleSyscall(s, m), s)
<1> DEFINE r  == SyscallResult(s, m)
           s1 == [r.s EXCEPT !.registers = SetReg(SetReg(@, 2, r.v0), 7, r.v1)]
<1>1. CASE s.registers[2] = Num(4246)
  <2> DEFINE s2 == [s EXCEPT !.exited = TRUE,
                             !.exitCode = FieldNat(s.registers[4], 7, 0)]
  <2>1. HandleSyscall(s, m) = Done(s2, m)
    BY <1>1 DEF HandleSyscall
  <2>2. /\ DOMAIN s2 = DOMAIN s
        /\ s2.registers = s.registers
        /\ s2.step = s.step
        /\ s2.exited = TRUE
    BY DEF IsVMState
  <2>3. Keeps(Done(s2, m), s)
    BY <2>2 DEF Keeps, Done
  <2>4. QED
    BY <2>1, <2>3
<1>2. CASE s.registers[2] # Num(4246) /\ ~r.ok
  BY <1>2 DEF HandleSyscall, Keeps, Revert
<1>3. CASE s.registers[2] # Num(4246) /\ r.ok
  <2>1. /\ DOMAIN r.s = DOMAIN s
        /\ r.s.registers = s.registers
        /\ r.s.step = s.step
        /\ r.s.exited = s.exited
        /\ r.s.exitCode = s.exitCode
    BY <1>3, SyscallResultKeepsAll DEF KeepsAllRegs
  <2>2. IsVMState(s1) /\ DOMAIN s1 = DOMAIN s
    BY <2>1 DEF IsVMState
  <2>3. s1.registers[0] = s.registers[0]
    BY <2>1, SetRegZero DEF IsVMState
  <2>4. /\ DOMAIN Advance(s1) = DOMAIN s1
        /\ Advance(s1).registers = s1.registers
        /\ Advance(s1).step = s.step
        /\ Advance(s1).exited = s.exited
        /\ Advance(s1).exitCode = s.exitCode
    BY <2>1, <2>2, AdvanceKeeps DEF IsVMState
  <2>5. QED
    BY <1>3, <2>2, <2>3, <2>4 DEF HandleSyscall, Keeps, Done
<1>4. QED
  BY <1>1, <1>2, <1>3
-----------------------------------------------------------------------------
(* Lemmas: the whole step.                                                 *)

\* The tail of step after execute keeps register 0 (sc sets rt only when rt is not 0).
LEMMA FinishKeeps ==
    ASSUME NEW s, NEW m, NEW insn, NEW rs, NEW rt, NEW rdReg, NEW store,
           NEW addr, NEW val, IsVMState(s)
    PROVE  Keeps(Finish(s, m, insn, rs, rt, rdReg, store, addr, val), s)
<1> DEFINE op  == Opcode(insn)
           fun == Func(insn)
           s2  == IF op = 56 /\ RtReg(insn) # 0
                  THEN [s EXCEPT !.registers = SetReg(@, RtReg(insn), Num(1))]
                  ELSE s
           m2  == IF store THEN WriteMem(m, addr, val) ELSE m
<1>1. /\ IsVMState(s2)
      /\ DOMAIN s2 = DOMAIN s
      /\ s2.registers[0] = s.registers[0]
      /\ s2.step = s.step
      /\ s2.exited = s.exited
      /\ s2.exitCode = s.exitCode
  <2>1. CASE op = 56 /\ RtReg(insn) # 0
    BY <2>1, SetRegZero DEF IsVMState
  <2>2. CASE ~(op = 56 /\ RtReg(insn) # 0)
    BY <2>2
  <2>3. QED
    BY <2>1, <2>2
<1>2. Keeps(HandleRd(s2, m2, rdReg, val, TRUE), s)
  <2>1. Keeps(HandleRd(s2, m2, rdReg, val, TRUE), s2)
    BY <1>1, HandleRdKeeps
  <2>2. QED
    BY <1>1, <2>1 DEF Keeps
<1>3. Keeps(HandleJump(s, m, IF fun = 8 THEN 0 ELSE rdReg, rs), s)
  BY HandleJumpKeeps
<1>4. Keeps(HandleRd(s, m, rdReg, rs, IsZero(rt)), s)
      /\ Keeps(HandleRd(s, m, rdReg, rs, ~IsZero(rt)), s)
  BY HandleRdKeeps
<1>5. Keeps(HandleSyscall(s, m), s)
  BY HandleSyscallKeeps
<1>6. Keeps(HandleHiLo(s, m, fun, rs, rt, rdReg), s)
  BY HandleHiLoKeeps
<1>7. QED
  BY <1>2, <1>3, <1>4, <1>5, <1>6 DEF Finish
\* Counting the step changes only the counter.
LEMMA CountStepFacts ==
    ASSUME NEW s, IsVMState(s)
    PROVE  /\ IsVMState(CountStep(s))
           /\ DOMAIN CountStep(s) = DOMAIN s
           /\ CountStep(s).registers = s.registers
           /\ CountStep(s).step = s.step + 1
           /\ CountStep(s).exited = s.exited
           /\ CountStep(s).exitCode = s.exitCode
BY DEF CountStep, IsVMState

\* Executing one instruction: every outcome keeps what Keeps says of the
\* state after the counter was incremented.
LEMMA RunStepKeeps ==
    ASSUME NEW s, NEW m, IsVMState(s)
    PROVE  Keeps(RunStep(s, m), CountStep(s))
<1> DEFINE s1 == CountStep(s)
<1>1. IsVMState(s1)
  BY CountStepFacts
<1>2. \A linkReg, dest : Keeps(HandleJump(s1, m, linkReg, dest), s1)
  BY <1>1, HandleJumpKeeps
<1>3. \A opcode, insn, rtReg, rs :
          Keeps(HandleBranch(s1, m, opcode, insn, rtReg, rs), s1)
  BY <1>1, HandleBranchKeeps
<1>4. \A insn, rs, rt, rdReg, store, addr, val :
          Keeps(Finish(s1, m, insn, rs, rt, rdReg, store, addr, val), s1)
  BY <1>1, FinishKeeps
<1>5. Keeps(Revert, s1)
  BY RevertKeeps
<1>6. QED
  BY <1>2, <1>3, <1>4, <1>5 DEF RunStep

\* What one call of step does to the state: on an exited VM nothing; on a
\* running one it keeps register 0, counts one step, and keeps the exit
\* fields or halts.
Tracks(r, s) ==
    r.ok => /\ DOMAIN r.s = DOMAIN s
            /\ r.s.registers[0] = s.registers[0]
            /\ s.exited => r.s = s
            /\ ~s.exited =>
                  /\ r.s.step = s.step + 1
                  /\ \/ r.s.exited = s.exited /\ r.s.exitCode = s.exitCode
                     \/ r.s.exited = TRUE

\* step, exited or not, does what Tracks says.
LEMMA StepResultTracks ==
    ASSUME NEW s, NEW m, IsVMState(s), s.exited \in BOOLEAN
    PROVE  Tracks(StepResult(s, m), s)
<1>1. CASE s.exited
  BY <1>1 DEF StepResult, Tracks, Done
<1>2. CASE ~s.exited
  <2>1. StepResult(s, m) = RunStep(s, m)
    BY <1>2 DEF StepResult
  <2>2. Keeps(RunStep(s, m), CountStep(s))
    BY RunStepKeeps
  <2>3. QED
    BY <1>2, <2>1, <2>2, CountStepFacts DEF Keeps, Tracks
<1>3. QED
  BY <1>1, <1>2

-----------------------------------------------------------------------------
(***************************************************************************)
(* Register 0 is hard-wired to zero (spec section 3): in every reachable   *)
(* state of the composed system, whatever the program, the oracle's loads  *)
(* and their order, state.registers[0] is the zero word.  Reg0Zero alone   *)
(* is not inductive, since a step's outcome is only known to keep the      *)
(* record's fields; RegInv adds that state has a register file and a       *)
(* Boolean exit flag.                                                      *)
(***************************************************************************)
RegInv == IsVMState(state) /\ state.exited \in BOOLEAN /\ Reg0Zero

\* The initial VM state has a register file of zeros.
LEMMA RegInvInit ==
    Init => RegInv
BY DEF Init, InitState, RegInv, IsVMState, Reg0Zero

\* Every step of the VM or of the oracle preserves RegInv.
LEMMA RegInvNext ==
    RegInv /\ [Next]_vars => RegInv'
<1> SUFFICES ASSUME RegInv, [Next]_vars PROVE RegInv'
  OBVIOUS
<1>1. CASE VMStep
  <2> DEFINE r == StepResult(state, mem)
  <2>1. r.ok /\ state' = r.s
    BY <1>1 DEF VMStep
  <2>2. Tracks(r, state)
    BY StepResultTracks DEF RegInv
  <2>3. QED
    BY <2>1, <2>2 DEF Tracks, RegInv, IsVMState, Reg0Zero
<1>2. CASE OracleStep
  BY <1>2 DEF OracleStep, vmVars, RegInv, IsVMState, Reg0Zero
<1>3. CASE UNCHANGED vars
  BY <1>3 DEF vars, RegInv, IsVMState, Reg0Zero
<1>4. QED
  BY <1>1, <1>2, <1>3 DEF Next

\* In every behaviour of Spec register 0 reads as zero: no handler of step
\* (handleRd, handleHiLo, handleJump's link, sc, handleSyscall) writes it.
\* The run mips_program checks Reg0Zero on a program that writes $0.
THEOREM Reg0ZeroHolds == Spec => []Reg0Zero
<1>1. RegInv => Reg0Zero
  BY DEF RegInv
<1>2. QED
  BY RegInvInit, RegInvNext, <1>1, PTL DEF Spec
-----------------------------------------------------------------------------
\* step on an exited state returns it and the memory unchanged.
LEMMA ExitedStep ==
    ASSUME NEW s, NEW m, s.exited
    PROVE  StepResult(s, m) = Done(s, m)
BY DEF StepResult

\* Once exited, no step of the VM or of the oracle changes the VM: step
\* returns an exited state as it is (and counts no step), and the oracle's
\* loads touch only the oracle.  This holds of every step, reachable or not.
THEOREM ExitedFrozenHolds == Spec => ExitedFrozen
<1>1. [Next]_vars => (state.exited => UNCHANGED vmVars)
  <2> SUFFICES ASSUME [Next]_vars, state.exited PROVE UNCHANGED vmVars
    OBVIOUS
  <2>1. CASE VMStep
    <3>1. StepResult(state, mem) = Done(state, mem)
      BY ExitedStep
    <3>2. QED
      BY <2>1, <3>1 DEF VMStep, Done, vmVars
  <2>2. CASE OracleStep
    BY <2>2 DEF OracleStep
  <2>3. CASE UNCHANGED vars
    BY <2>3 DEF vars, vmVars
  <2>4. QED
    BY <2>1, <2>2, <2>3 DEF Next
<1>2. QED
  BY <1>1, PTL DEF Spec, ExitedFrozen
-----------------------------------------------------------------------------
(***************************************************************************)
(* Refinement: the VM implements VMAbstract under the mapping steps <-     *)
(* state.step, halted <- state.exited, exitCode <- state.exitCode.  A     *)
(* step on a running VM is Execute or Exit by StepResultTracks; a step on  *)
(* a halted VM and every oracle load are stutters.                         *)
(***************************************************************************)

\* The initial state maps to the abstract initial state.
LEMMA AbsInitHolds ==
    Init => Abs!AbsInit
BY DEF Init, InitState, Abs!AbsInit

\* Every step maps to an abstract step or a stutter.
LEMMA AbsNextHolds ==
    RegInv /\ [Next]_vars => [Abs!AbsNext]_Abs!absVars
<1> SUFFICES ASSUME RegInv, [Next]_vars PROVE [Abs!AbsNext]_Abs!absVars
  OBVIOUS
<1>1. CASE VMStep
  <2> DEFINE r == StepResult(state, mem)
  <2>1. r.ok /\ state' = r.s
    BY <1>1 DEF VMStep
  <2>2. Tracks(r, state)
    BY StepResultTracks DEF RegInv
  <2>3. CASE state.exited
    BY <2>1, <2>2, <2>3 DEF Tracks, Abs!absVars
  <2>4. CASE ~state.exited /\ state'.exited = TRUE
    BY <2>1, <2>2, <2>4 DEF Tracks, Abs!AbsNext, Abs!Exit
  <2>5. CASE ~state.exited /\ state'.exited # TRUE
    BY <2>1, <2>2, <2>5 DEF Tracks, Abs!AbsNext, Abs!Execute
  <2>6. QED
    BY <2>3, <2>4, <2>5
<1>2. CASE OracleStep
  BY <1>2 DEF OracleStep, vmVars, Abs!absVars
<1>3. CASE UNCHANGED vars
  BY <1>3 DEF vars, Abs!absVars
<1>4. QED
  BY <1>1, <1>2, <1>3 DEF Next

\* The VM implements its abstract specification: step_count counts the
\* successful calls on a running VM, exited is set once and never cleared,
\* and the exit code changes only in the step that halts.
THEOREM RefinementHolds == Spec => VMImplementsAbstract
<1>1. []RegInv /\ [][Next]_vars => [][Abs!AbsNext]_Abs!absVars
  BY AbsNextHolds, PTL
<1>2. QED
  BY AbsInitHolds, RegInvInit, RegInvNext, <1>1, PTL
     DEF Spec, VMImplementsAbstract, Abs!AbsSpec
=============================================================================
