-------------------------- MODULE MIPSOracleProofs --------------------------
(***************************************************************************)
(* The composition of the VM with the oracle.  MIPS.step only calls the    *)
(* view readPreimage, so every step of the composed system is a step of    *)
(* the honest loaders or leaves the oracle's storage alone: the oracle's   *)
(* behaviour inside the system is a behaviour of OracleSpec.  Its theorems *)
(* then hold in the system, the refinement of OracleAbstract included:     *)
(* every read the VM makes on fd 5 sees the content-addressed oracle.      *)
(***************************************************************************)
EXTENDS MIPSProofs, OracleRefinementProofs

\* The system starts with a fresh oracle.
LEMMA SystemInitOracle == Init => OracleInit
BY DEF Init

\* A step of the system is a step of the honest loaders or an oracle stutter:
\* VMStep leaves the three mappings unchanged.
LEMMA SystemNextOracle == [Next]_vars => [OracleNext]_oracleVars
<1> SUFFICES ASSUME [Next]_vars PROVE [OracleNext]_oracleVars
  OBVIOUS
<1>1. CASE VMStep
  BY <1>1 DEF VMStep
<1>2. CASE OracleStep
  BY <1>2 DEF OracleStep
<1>3. CASE UNCHANGED vars
  BY <1>3 DEF vars, oracleVars
<1>4. QED
  BY <1>1, <1>2, <1>3 DEF Next

\* The oracle's part of the system is a behaviour of OracleSpec.
LEMMA SystemOracleSpec == Spec => OracleSpec
BY SystemInitOracle, SystemNextOracle, PTL DEF Spec, OracleSpec

(***************************************************************************)
(* In the VM composed with the oracle, with the prover stepping and any    *)
(* loader loading in any interleaving, readPreimage on keccak keys         *)
(* implements OracleAbstract (OracleImplementsAbstract): a part the VM     *)
(* reads is the one its preimage determines, and it never changes between  *)
(* two reads.  It follows from OracleRefinementHolds, which the run       *)
(* oracle_honest checks on the oracle alone.                               *)
(***************************************************************************)
THEOREM SystemOracleRefinement == Spec => OracleImplementsAbstract
BY SystemOracleSpec, OracleRefinementHolds

(***************************************************************************)
(* In the composed system every read of an available keccak part returns  *)
(* the slice of the length-prefixed preimage and its datLen              *)
(* (ContentReadCorrect), whatever the VM did between the loads.            *)
(***************************************************************************)
THEOREM SystemContentReadCorrect == Spec => []ContentReadCorrect
BY SystemOracleSpec, ContentReadCorrectHolds
=============================================================================
