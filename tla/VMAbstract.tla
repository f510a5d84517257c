----------------------------- MODULE VMAbstract -----------------------------
(***************************************************************************)
(* What a call of MIPS.step promises about the VM's run, whatever the      *)
(* instruction (spec section 3): step_count counts the instructions        *)
(* executed, one per successful call; the VM halts at most once, and from  *)
(* then on it is frozen; the exit code is set only by the step that halts. *)
(* A call that reverts, and anything another contract does, is a stutter.  *)
(***************************************************************************)
EXTENDS Naturals

VARIABLES steps, halted, exitCode

absVars == <<steps, halted, exitCode>>

AbsInit == steps = 0 /\ halted = FALSE /\ exitCode = 0

\* An instruction that does not halt the VM.
Execute ==
    /\ ~halted
    /\ steps' = steps + 1
    /\ UNCHANGED <<halted, exitCode>>

\* exit_group: the last counted instruction, which fixes the exit code.
Exit ==
    /\ ~halted
    /\ steps' = steps + 1
    /\ halted' = TRUE

AbsNext == Execute \/ Exit

AbsSpec == AbsInit /\ [][AbsNext]_absVars
=============================================================================
