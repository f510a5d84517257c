-------------------------- MODULE MIPSDelayProofs --------------------------
(***************************************************************************)
(* Proof that branch delay slots resolve (DelaySlotResolved), for every    *)
(* program, entry point, heap start and oracle.  In a delay slot           *)
(* (nextPC # pc + 4) handleJump and handleBranch revert, and every other   *)
(* way out of step that does not halt ends in the tail `pc := nextPC;      *)
(* nextPC += 4'; so the step lands on the branch target with nextPC four   *)
(* bytes on, outside any delay slot.  The argument follows the handlers    *)
(* as MIPSProofs does, and reuses its invariant RegInv.                    *)
(***************************************************************************)
EXTENDS MIPSProofs

\* The outcome r of a handler given s, in a delay slot and not halting,
\* moves pc to s's nextPC and nextPC four bytes past it.
Resolves(r, s) ==
    r.ok /\ InDelaySlot(s) /\ r.s.exited # TRUE =>
        /\ r.s.pc = s.nextPC
        /\ r.s.nextPC = Add(s.nextPC, Num(4))

-----------------------------------------------------------------------------
(* Lemmas: each handler resolves the delay slot.                           *)

\* The common tail pc := nextPC; nextPC += 4.
LEMMA AdvanceResolves ==
    ASSUME NEW s, NEW m, IsVMState(s)
    PROVE  /\ Done(Advance(s), m).s.pc = s.nextPC
           /\ Done(Advance(s), m).s.nextPC = Add(s.nextPC, Num(4))
BY DEF Advance, Done, IsVMState

\* handleJump reverts in a delay slot.
LEMMA HandleJumpResolves ==
    ASSUME NEW s, NEW m, NEW linkReg, NEW dest
    PROVE  Resolves(HandleJump(s, m, linkReg, dest), s)
BY DEF Resolves, HandleJump, InDelaySlot, Revert

\* handleBranch reverts in a delay slot.
LEMMA HandleBranchResolves ==
    ASSUME NEW s, NEW m, NEW opcode, NEW insn, NEW rtReg, NEW rs
    PROVE  Resolves(HandleBranch(s, m, opcode, insn, rtReg, rs), s)
BY DEF Resolves, HandleBranch, InDelaySlot, Revert

\* handleRd ends in the tail.
LEMMA HandleRdResolves ==
    ASSUME NEW s, NEW m, NEW rdReg, NEW val, NEW cond, IsVMState(s)
    PROVE  Resolves(HandleRd(s, m, rdReg, val, cond), s)
<1> DEFINE s1 == [s EXCEPT !.registers = IF cond /\ rdReg # 0
                                         THEN SetReg(@, rdReg, val) ELSE @]
<1>1. IsVMState(s1) /\ s1.nextPC = s.nextPC
  BY DEF IsVMState
<1>2. /\ Done(Advance(s1), m).s.pc = s1.nextPC
      /\ Done(Advance(s1), m).s.nextPC = Add(s1.nextPC, Num(4))
  BY <1>1, AdvanceResolves
<1>3. HandleRd(s, m, rdReg, val, cond) = Done(Advance(s1), m)
  BY DEF HandleRd
<1>4. QED
  BY <1>1, <1>2, <1>3 DEF Resolves, Done

\* handleHiLo ends in the tail or reverts.
LEMMA HandleHiLoResolves ==
    ASSUME NEW s, NEW m, NEW fun, NEW rs, NEW rt, NEW storeReg, IsVMState(s)
    PROVE  Resolves(HandleHiLo(s, m, fun, rs, rt, storeReg), s)
<1> DEFINE r  == HiLoResult(fun, rs, rt, s.hi, s.lo)
           s1 == [s EXCEPT !.hi = r.hi, !.lo = r.lo,
                           !.registers = IF storeReg # 0
                                         THEN SetReg(@, storeReg, r.val)
                                         ELSE @]
<1>1. IsVMState(s1) /\ s1.nextPC = s.nextPC
  BY DEF IsVMState
<1>2. QED
  BY <1>1, AdvanceResolves DEF HandleHiLo, Resolves, Revert

\* handleSyscall halts (exit_group), reverts, or ends in the tail; the
\* syscalls themselves leave pc and nextPC alone.
LEMMA HandleSyscallResolves ==
    ASSUME NEW s, NEW m, IsVMState(s)
    PROVE  Resolves(HandleSyscall(s, m), s)
<1> DEFINE r  == SyscallResult(s, m)
           s1 == [r.s EXCEPT !.registers = SetReg(SetReg(@, 2, r.v0), 7, r.v1)]
<1>1. CASE s.registers[2] = Num(4246)
  <2> DEFINE s2 == [s EXCEPT !.exited = TRUE,
                             !.exitCode = FieldNat(s.registers[4], 7, 0)]
  <2>1. HandleSyscall(s, m) = Done(s2, m)
    BY <1>1 DEF HandleSyscall
  <2>2. s2.exited = TRUE
    BY DEF IsVMState
  <2>3. Resolves(Done(s2, m), s)
    BY <2>2 DEF Resolves, Done
  <2>4. QED
    BY <2>1, <2>3
<1>2. CASE s.registers[2] # Num(4246) /\ ~r.ok
  BY <1>2 DEF HandleSyscall, Resolves, Revert
<1>3. CASE s.registers[2] # Num(4246) /\ r.ok
  <2>1. DOMAIN r.s = DOMAIN s /\ r.s.nextPC = s.nextPC
    BY <1>3, SyscallResultKeepsAll DEF KeepsAllRegs
  <2>2. IsVMState(s1) /\ s1.nextPC = s.nextPC
    BY <2>1 DEF IsVMState
  <2>3. HandleSyscall(s, m) = Done(Advance(s1), r.m)
    BY <1>3 DEF HandleSyscall
  <2>4. /\ Done(Advance(s1), r.m).s.pc = s1.nextPC
        /\ Done(Advance(s1), r.m).s.nextPC = Add(s1.nextPC, Num(4))
    BY <2>2, AdvanceResolves
  <2>5. QED
    BY <2>2, <2>3, <2>4 DEF Resolves, Done
<1>4. QED
  BY <1>1, <1>2, <1>3

-----------------------------------------------------------------------------
(* Lemmas: the whole step.                                                 *)

\* The tail of step after execute: sc's flag changes neither pc nor nextPC.
LEMMA FinishResolves ==
    ASSUME NEW s, NEW m, NEW insn, NEW rs, NEW rt, NEW rdReg, NEW store,
           NEW addr, NEW val, IsVMState(s)
    PROVE  Resolves(Finish(s, m, insn, rs, rt, rdReg, store, addr, val), s)
<1> DEFINE op  == Opcode(insn)
           fun == Func(insn)
           s2  == IF op = 56 /\ RtReg(insn) # 0
                  THEN [s EXCEPT !.registers = SetReg(@, RtReg(insn), Num(1))]
                  ELSE s
           m2  == IF store THEN WriteMem(m, addr, val) ELSE m
<1>1. IsVMState(s2) /\ s2.pc = s.pc /\ s2.nextPC = s.nextPC
  BY DEF IsVMState
<1>2. Resolves(HandleRd(s2, m2, rdReg, val, TRUE), s)
  <2>1. Resolves(HandleRd(s2, m2, rdReg, val, TRUE), s2)
    BY <1>1, HandleRdResolves
  <2>2. InDelaySlot(s2) = InDelaySlot(s)
    BY <1>1 DEF InDelaySlot
  <2>3. QED
    BY <1>1, <2>1, <2>2 DEF Resolves
<1>3. Resolves(HandleJump(s, m, IF fun = 8 THEN 0 ELSE rdReg, rs), s)
  BY HandleJumpResolves
<1>4. Resolves(HandleRd(s, m, rdReg, rs, IsZero(rt)), s)
      /\ Resolves(HandleRd(s, m, rdReg, rs, ~IsZero(rt)), s)
  BY HandleRdResolves
<1>5. Resolves(HandleSyscall(s, m), s)
  BY HandleSyscallResolves
<1>6. Resolves(HandleHiLo(s, m, fun, rs, rt, rdReg), s)
  BY HandleHiLoResolves
<1>7. QED
  BY <1>2, <1>3, <1>4, <1>5, <1>6 DEF Finish

\* Executing one instruction resolves the delay slot of the counted state,
\* which has the pc and nextPC of the state step was given.
LEMMA RunStepResolves ==
    ASSUME NEW s, NEW m, IsVMState(s)
    PROVE  Resolves(RunStep(s, m), s)
<1> DEFINE s1 == CountStep(s)
<1>1. IsVMState(s1) /\ s1.pc = s.pc /\ s1.nextPC = s.nextPC
  BY DEF CountStep, IsVMState
<1>2. \A linkReg, dest : Resolves(HandleJump(s1, m, linkReg, dest), s1)
  BY HandleJumpResolves
<1>3. \A opcode, insn, rtReg, rs :
          Resolves(HandleBranch(s1, m, opcode, insn, rtReg, rs), s1)
  BY HandleBranchResolves
<1>4. \A insn, rs, rt, rdReg, store, addr, val :
          Resolves(Finish(s1, m, insn, rs, rt, rdReg, store, addr, val), s1)
  BY <1>1, FinishResolves
<1>5. Resolves(Revert, s1)
  BY DEF Resolves, Revert
<1>6. Resolves(RunStep(s, m), s1)
  BY <1>2, <1>3, <1>4, <1>5 DEF RunStep
<1>7. QED
  BY <1>1, <1>6 DEF Resolves, InDelaySlot

-----------------------------------------------------------------------------
\* One step of the system, from a state satisfying RegInv, is a step of the
\* action DelaySlotResolved constrains, or leaves vars unchanged.
LEMMA DelaySlotStep ==
    RegInv /\ [Next]_vars =>
        [VMStep /\ InDelaySlot(state) /\ ~state'.exited
             => state'.pc = state.nextPC /\ ~InDelaySlot(state')]_vars
<1> SUFFICES ASSUME RegInv, [Next]_vars, VMStep, InDelaySlot(state),
                    ~state'.exited
             PROVE  state'.pc = state.nextPC /\ ~InDelaySlot(state')
  OBVIOUS
<1> DEFINE r == StepResult(state, mem)
<1>1. r.ok /\ state' = r.s
  BY DEF VMStep
<1>2. CASE state.exited
  <2>1. r = Done(state, mem)
    BY <1>2, ExitedStep
  <2>2. QED
    BY <1>1, <1>2, <2>1 DEF Done
<1>3. CASE ~state.exited
  <2>1. r = RunStep(state, mem)
    BY <1>3 DEF StepResult
  <2>2. Resolves(RunStep(state, mem), state)
    BY RunStepResolves DEF RegInv
  <2>3. state'.pc = state.nextPC /\ state'.nextPC = Add(state.nextPC, Num(4))
    BY <1>1, <2>1, <2>2 DEF Resolves
  <2>4. QED
    BY <2>3 DEF InDelaySlot
<1>4. QED
  BY <1>2, <1>3

(***************************************************************************)
(* A step taken in a branch delay slot that does not halt executes the     *)
(* slot's instruction and moves pc to the branch target, with nextPC four  *)
(* bytes on: handleJump and handleBranch revert in a delay slot, so no     *)
(* step chains a second target.  The run mips_delay_slot checks this on a  *)
(* program with a taken bne, a jal, and a jump placed in a delay slot.     *)
(***************************************************************************)
THEOREM DelaySlotResolvedHolds == Spec => DelaySlotResolved
<1>1. []RegInv /\ [][Next]_vars =>
        [][VMStep /\ InDelaySlot(state) /\ ~state'.exited
               => state'.pc = state.nextPC /\ ~InDelaySlot(state')]_vars
  BY DelaySlotStep, PTL
<1>2. QED
  BY RegInvInit, RegInvNext, <1>1, PTL DEF Spec, DelaySlotResolved
=============================================================================
