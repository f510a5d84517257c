# TLA+ models of the Cannon fault-proof VM (op-bindings)

This directory is the verification project kept beside
`src/op-bindings/bindings`.  It models the two contracts those bindings
wrap, model-checks them with TLC on small instances, and proves their main
safety properties with TLAPS for every instance.

## 1. The system

The repository's source is three generated Go files:

| file | what it holds |
|------|---------------|
| `mips.go` | the `MIPS` binding: ABI (line 33), creation code `Bin` (line 34, solc 0.7.6), Go wrappers for `DeployMIPS` (45-60), `BRK_START` (204-233), `oracle` (235-264) and `step` (266-286) |
| `preimageoracle.go` | the `PreimageOracle` binding: ABI (33), creation code `Bin` (34, solc 0.8.15), wrappers for the three public mappings (204-293), `readPreimage` (297-340), `cheat` (342-361), `loadKeccak256PreimagePart` (363-382), `loadLocalData` (384-403) |
| `preimageoracle_more.go` | the storage layout of the oracle (12), the deployed runtime `PreimageOracleDeployedBin` (16, solc 0.7.6) and its source map (18) |

The Go code itself only marshals calls.  So the map of `PROJECT.json`
points every definition at the bytecode line that holds its logic (`Bin`
at line 34, the deployed runtime at `preimageoracle_more.go:16`), or at the
ABI line that declares the entry point; the wrappers are not modelled.  The behaviour lives in the
bytecode, which we disassembled and translated block by block.  The two
oracle builds agree everywhere except in one subtraction in
`readPreimage`: 0.7.6 wraps it modulo 2^256 and 0.8.15 reverts on
underflow.  The `CONSTANT Build` selects the build.

### Components

* **PreimageOracle** (long-lived contract storage).  Three mappings:
  `preimageLengths[key]`, `preimageParts[key][offset]` and
  `preimagePartOk[key][offset]`.
  * `loadKeccak256PreimagePart(off, preimage)` reverts when
    `off > len + 8`.  Otherwise it stores the 32 bytes at `off` of
    `uint64be(len) ++ preimage` under the key `keccak(preimage)`, whose top
    byte it replaces with 2, and sets the length.
  * `loadLocalData(ident, word, size)` derives the key
    `keccak(ident', caller)` with top byte 1.  It stores part 0 as
    `uint64be(size) ++ word[0..24)` and, when `size > 24`, part 32 as
    `word[24..32)`.  It sets the length to `size`.
  * `cheat(off, key, part, size)` installs any part with no check.
  * `readPreimage(key, off)` is a view.  It requires the part to be
    available, and returns the part and `datLen = min(32, len + 8 - off)`.
* **MIPS** (a stateless contract).  `step(stateData, proof)` decodes a
  packed VM state, fetches one instruction through a Merkle proof, executes
  it, and returns the keccak of the re-encoded state.  A preimage `read`
  syscall calls `oracle.readPreimage`.  The `oracle` address is storage
  slot 0.  The creation code has no constructor and the ABI has no setter,
  so the slot stays 0.
* **State codec**, **Merkle memory**, **instruction executor**: parts of
  `step` (see section 2 and section 5).

The two contracts interact in one direction only: a MIPS `read` on file
descriptor 5 reads the oracle part at the VM's `(preimageKey,
preimageOffset)`.  Off-chain loaders and the challenge game interleave
oracle loads with steps.

## 2. Modules

| module | models | state / actions |
|--------|--------|-----------------|
| `PreimageOracle` | the oracle contract | the three mappings as functions over the modelled `Keys` and `Offsets`; actions `LoadKeccak256PreimagePart`, `LoadLocalData`, `Cheat`; operator `ReadPreimage` |
| `MCPreimageOracle` | TLC instance of the oracle | two preimages (empty, 30 bytes), offsets {0,8,9,32,38,39}, one identifier, two callers, sizes {4,32} |
| `PreimageOracleProofs` | TLAPS proofs for the oracle | type correctness; correctness of content-addressed reads; the prefix of part 0 matches the stored length |
| `Word32` | the contract's uint32 arithmetic | words are 32-bit vectors; add/sub with carry, shifts, signed and unsigned compare, `SE`, multiply, restoring division, count-leading-ones |
| `MIPS` | `step`, composed with the oracle | variables `state` (the packed VM state as a record) and `mem` (word index -> word); action `VMStep` (one successful call of `step`), `OracleStep` (an oracle load); the handlers `HandleJump`, `HandleBranch`, `HandleRd`, `HandleHiLo`, `HandleSyscall` and `Execute` as operators returning the outcome of the step |
| `MCMIPS` | TLC instance of `MIPS` | four small programs assembled from instruction fields, one 3-byte preimage |
| `VMAbstract` | what `step` promises (spec section 3) | variables `steps`, `halted`, `exitCode`; actions `Execute` (count an instruction) and `Exit` (count it, halt, fix the exit code) |
| `MCWord32` | reference checks of `Word32` | two words `a`, `b` drawn from 11 edge-case words; reference definitions on 16-bit halves and by shift-and-add |
| `MIPSProofs` | TLAPS proofs for `MIPS` | register 0 stays zero; an exited VM is frozen; `MIPS` implements `VMAbstract` |
| `MIPSDelayProofs` | TLAPS proof for `MIPS` | branch delay slots resolve (`DelaySlotResolved`) |
| `OracleAbstract` | what the oracle promises a reader of content-addressed data | variable `replies` (preimage -> offset -> reply of a read); action `MakeAvailable(p, o)` (part `o` of `p` becomes readable with the content `p` determines, for `o` inside the stream) |
| `OracleRefinementProofs` | TLAPS proof for the oracle | the honest loaders implement `OracleAbstract` |
| `MIPSOracleProofs` | TLAPS proofs for the composition | in the VM composed with the oracle, the oracle's theorems hold, its refinement included |
| `Word32Proofs` | TLAPS lemmas on `Word32` | `ULt` is a strict total order; `slt` is two's-complement order; `CountLeadingOnes` is the loop's count |

`MIPS` corresponds to the code as follows.  `StepResult(s, m)` is `step`:
an exited state is returned as it is, otherwise `RunStep` counts the step,
fetches the instruction at `pc` (which must be aligned and in the modelled
memory), handles `j`/`jal` and the branches, fetches the memory operand,
calls `execute`, and ends in the handler that the code's early returns
choose (`jr`/`jalr`, `movz`/`movn`, `syscall`, hi/lo), else in `sc`'s
flag, the store and `handleRd`.  A revert of the contract (unaligned
access, jump in a delay slot, division by zero, a failed oracle call) is an
outcome with `ok = FALSE`, and `VMStep` is then not enabled: the caller's
transaction fails and the state does not change.  The read syscall on fd 5
calls `ReadPreimage` of the oracle module at `(preimageKey,
preimageOffset)`, the write syscall on fd 6 shifts bytes into the key.
`OracleDeployed` says whether the `oracle` slot holds the oracle; the
creation code that `DeployMIPS` deploys never writes it.

Refinement.  `MIPS` defines `Abs == INSTANCE VMAbstract WITH steps <-
state.step, halted <- state.exited, exitCode <- state.exitCode`, and
`VMImplementsAbstract == Abs!AbsSpec`.  A successful `step` on a running
VM maps to `Execute` or, when it is `exit_group`, to `Exit`; a reverted
call, a call on an exited VM and an oracle load map to stutters.
`CountStep` is the `state.step += 1` with which `step` begins.

Refinement of the oracle.  `PreimageOracle` defines `AbsOracle ==
INSTANCE OracleAbstract WITH StreamEnd <- StreamEndOffset, Content <-
ServedPart, replies <- KeccakReplies`.  `KeccakReplies` maps each
preimage and offset to what `readPreimage` returns on the preimage's keccak
key.  `ServedPart(p, o)` is the reply a reader must get: the 32 bytes of
the stream at `o` and their count inside it.  `StreamEndOffset(p)` is the
`size + 8` bound of `loadKeccak256PreimagePart`.  The property is
`OracleImplementsAbstract == AbsOracle!AbsOracleSpec`.  Mapped this way,
a `loadKeccak256PreimagePart` is a `MakeAvailable` step.  A
`loadLocalData`, a `step` of the VM, and a reload of a part that is
already available are all stutters.  So a keccak reply never changes once
it is available, although `PartsAppendOnly` fails for local keys
(`oracle_append_only`).

Data abstraction for `MIPS`: the Merkle proof is assumed honest, so
`readMem`/`writeMem` are function application and update; the state's
encoding and hash are left out; the memory holds only the words a program
uses (`DOMAIN Program`), and a step touching another word is not taken.
Words keep all 32 bits, so wrap-around is exact.

Data abstraction: a byte string is a sequence of bytes, most significant
first, so numbers never exceed what TLC represents.  keccak256 is an
injective constant operator that returns 31 bytes, below the one-byte type
tag.  2^256 is the constant `Uint256Mod`, larger than every number of an
instance.  `readPreimage` is an operator because it is a view and changes
nothing.

## 3. Runs

| run | cfg | expect | what it shows |
|-----|-----|--------|---------------|
| `oracle_honest` | `MCPreimageOracle.cfg` | pass | with the two loading entry points in any order and by any caller, `ContentReadCorrect` and `PrefixMatchesLength` hold, and the loaders implement `OracleAbstract` (`OracleImplementsAbstract`) |
| `oracle_stale_local_part` | `MCPreimageOracleStale.cfg` | violation | two `loadLocalData` calls (size 32, then 4) leave part 32 readable with `datLen = 12 - 32` (wrapped) |
| `oracle_append_only` | `MCPreimageOracleAppend.cfg` | violation | a second `loadLocalData` changes an available part, against spec section 5 |
| `oracle_cheat_forges` | `MCPreimageOracleCheat.cfg` | violation | `cheat` replaces a content-addressed part |
| `mips_program` | `MCMIPS.cfg` | pass | a program that writes the preimage key through `write(6)`, reads the preimage from an unaligned buffer address with `read(5)` until EOF, mmaps and exits, while the oracle's loads interleave in any order: `VMTypeOK`, `Reg0Zero`, `ReadBufferMatchesStream` (the buffer holds the length-prefixed preimage), `ExitedFrozen`, `Termination` and `VMImplementsAbstract` (the refinement of `VMAbstract`) hold |
| `mips_delay_slot` | `MCMIPSDelay.cfg` | pass | a taken `bne`, a `jal`, and a `j` placed in `jal`'s delay slot: `DelaySlotResolved` (a step that starts in a delay slot executes that instruction and moves to the branch target, never into another delay slot) holds, and the `j` in the slot reverts |
| `word32_reference` | `MCWord32.cfg` | pass | for all pairs of 11 edge-case words (0, 1, 2, 7, 0xFFFF, 0x10000, INT_MAX, INT_MIN, INT_MIN+1, -7, -1): add/sub agree with 16-bit halves with carry and borrow, `sltu`/`slt` with an unsigned and a two's-complement compare, `MulMod` with shift-and-add, `divu` with `a = q*b + r, r < b` in 64 bits, `div` with truncation toward zero (INT_MIN / -1 wraps) |
| `mips_oracle_unset` | `MCMIPSOracleUnset.cfg` | violation | with the `oracle` slot as deployment leaves it, the first preimage read reverts and the program never exits |
| `mips_heap_wrap` | `MCMIPSHeapWrap.cfg` | violation | `mmap(0, 0xFFFF0000)` wraps the heap pointer below its old value (`HeapMonotone`, spec section 3) |
| `mips_div_zero` | `MCMIPSDivZero.cfg` | violation | `divu` by zero reverts the step, where spec section 4.3 asks for a sentinel result |
| `mips_early_read` | `MCMIPSEarlyRead.cfg` | violation | a preimage read before a key is set reverts, where spec section 4.3 says it returns EOF |

Bounds.  The 30-byte preimage makes a 38-byte stream that ends inside its
second part.  So the offsets reach a full part (0), a part cut by the end
(32), the last legal offset `len + 8` (38, `datLen = 0`) and the first
rejected one (39).  For the empty preimage, 8 is the last legal offset and
9 the first rejected one.  The local sizes are one that fits part 0 (4)
and one that needs part 32 (32).  Two callers show that local keys are per
caller.  The honest run explores 10,368 states.  No fairness is assumed,
because the oracle makes no liveness promise.

For `MIPS`, the 3-byte preimage makes an 11-byte stream, read at offsets
0, 3, 7 and 11: the first read starts one byte into a word and gets 3
bytes, the next ones get 4, and the last one is at the end (datLen 0, the
loop's exit).  The key is written in 8 calls of 4 bytes, so the offset
reset and the byte shift of every call are exercised.  The buffer starts
with stale bytes (9), so a misplaced byte shows.  One instruction writes
`$0`.  `MaxSteps = 100` bounds the step counter (the program needs 96
steps).  The honest run explores 2,206 states in about 10 seconds.  The
delay-slot program takes a branch, links through `jal`, and then meets a
jump in a delay slot; 160 states.  `MCWord32`'s words sit on each edge
where a carry, a borrow, a sign or the 16-bit halves of the reference
change: its 121 states are all pairs.

Fairness.  `Termination` assumes weak fairness of `VMStep` (the
challenger keeps calling `step` while it succeeds) and of `LoadNeeded`
(the preimage server loads the part the VM is about to read; an
environment action, modelled from the spec because the server's code is
not under `src/`).  Without
them nothing forces the off-chain actors to act.  TLC evaluates `ENABLED`
of `VMStep` slowly, so `VMFairness` writes weak fairness out as `<>[]
StepEnabled => []<><<VMStep>>_vars`, with `StepEnabled` the enabling
condition of `<<VMStep>>_vars` spelled out.

## 4. Proofs

`PreimageOracleProofs` proves, for every value of the constants under the
assumptions named in `PreimageOracle`:

* `TypeCorrect`: `OracleSpec => []TypeOK`.
* `ContentReadCorrectHolds`: `OracleSpec => []ContentReadCorrect`.  The
  invariant is not inductive by itself: a load for another offset could
  change the length that a read at this offset depends on.  The proof
  strengthens it to `TypeOK /\ KeccakStored`.  `KeccakStored` says that at
  every available offset of a keccak key, the stored part is the slice of
  the stream, the length is the preimage's length, and the offset passed
  the `<= len + 8` check.  It rests on two lemmas: `KeyFacts` (keccak keys
  are injective and never equal a local key, because the type bytes 2 and
  1 differ) and the sequence lemmas about the byte strings.  TLC checked
  `KeccakStored` on the instance before the proof was written.
* `PrefixMatchesLengthHolds`: `OracleSpec => []PrefixMatchesLength`.  The
  invariant alone is not inductive either: a keccak load at offset 32
  rewrites the length slot of a key whose part 0 is already there, and
  only `KeccakStored` says the value it writes is the one already stored.
  The inductive invariant is `TypeOK /\ KeccakStored /\
  PrefixMatchesLength`.  For a keccak key the new part 0 and length come
  from `KeccakStored'`; for a local key `loadLocalData` writes both.  The
  byte-string lemmas `PrefixOfConcat`, `Slice32Prefix`,
  `KeccakPartPrefix` and `LocalPartPrefix` show that the first 8 bytes
  of each part 0 are the prefix.

The assumptions are the hash's injectivity and the constants' types; TLC
evaluates them on every run.

`MIPSProofs` proves, for every program, entry point, heap start and oracle:

* `Reg0ZeroHolds`: `Spec => []Reg0Zero`.  The inductive invariant `RegInv`
  adds to `Reg0Zero` that `state` is a record with a register file: a
  step's outcome is only known to keep the record's fields, not their
  types.  The proof goes handler by handler (`HandleJumpKeeps`,
  `HandleRdKeeps`, `HandleHiLoKeeps`, `HandleSyscallKeeps` through the
  syscall lemmas, `FinishKeeps`, `RunStepKeeps`, `StepResultTracks`): each
  handler either reverts or returns a state whose register 0 is that of its
  input, because every write is guarded by `reg # 0` or goes to `$v0`/`$a3`.
  The values computed (`Execute`, the `Word32` arithmetic, the oracle's
  reply) are never opened.
* `ExitedFrozenHolds`: `Spec => ExitedFrozen`, from `step`'s exited check.
* `RefinementHolds`: `Spec => VMImplementsAbstract`.  `AbsInitHolds` maps
  `Init` to `Abs!AbsInit`.  `AbsNextHolds` shows that under `RegInv`,
  every `[Next]_vars` step is an `[Abs!AbsNext]_Abs!absVars` step.  For
  this, `RegInv` also says that `state` has the fields `step`, `exited`
  and `exitCode`, and that `exited` is Boolean.  The handler lemmas
  state `Keeps`: the step counter is the one `CountStep` set, and
  `exited`/`exitCode` are kept or `exited` becomes TRUE.
  `StepResultTracks` then distinguishes the exited case (nothing changes)
  from the running one (counter + 1).  The temporal step is `PTL`.

`MIPSDelayProofs` proves `DelaySlotResolvedHolds`: `Spec =>
DelaySlotResolved`, an action property.  It is proved from `RegInv`, whose
`IsVMState` also names `pc` and `nextPC`; the syscall lemmas of
`MIPSProofs` (`KeepsAllRegs`) now say that the syscalls keep both.  It
goes handler by handler with `Resolves(r, s)`: a successful outcome in a
delay slot that does not halt has `pc = s.nextPC` and `nextPC =
s.nextPC + 4`.  `HandleJumpResolves` and `HandleBranchResolves` hold
because the handlers revert there.  The others end in `Advance`
(`AdvanceResolves`); `sc`'s flag and `CountStep` keep `pc` and `nextPC`.
`DelaySlotStep` lifts this to `[Next]_vars`, and `PTL` to the action
property.

`OracleRefinementProofs` proves `OracleRefinementHolds`: `OracleSpec =>
OracleImplementsAbstract`.  `ReadUnchanged` says that a reply depends
only on two slots at its key and offset, the part's flag and its bytes.
It depends on the key's length slot too, but only while the part is
available.  A load of `q` at `o1` therefore changes no reply of another
preimage (`KeyFacts`: keccak keys are injective) and no other offset of
`q`.  At another offset of `q` the load rewrites the length slot, but
`KeccakStored` says that an available part there already had that length.
The reply at `(q, o1)` itself is `ServedPart(q, o1)` by `ContentReadCorrect`
of the next state, which `ContentReadCorrectHolds` provides.  `loadLocalData`
writes only a local key.  The step lemma `OracleAbsNextHolds` thus has
`TypeOK /\ KeccakStored /\ ContentReadCorrect'` as hypotheses.  `PTL`
combines it with the two invariant theorems.

`MIPSOracleProofs` lifts the oracle's results to the composed system.
`SystemNextOracle` says that every `[Next]_vars` step is an
`[OracleNext]_oracleVars` step: `VMStep` leaves the three mappings
unchanged, since `step` only calls the view `readPreimage`.  Hence `Spec =>
OracleSpec`.  `SystemOracleRefinement` (`Spec => OracleImplementsAbstract`)
and `SystemContentReadCorrect` (`Spec => []ContentReadCorrect`) then follow.
These theorems let the VM's reads on fd 5 rely on the oracle's promise
under any interleaving of step calls and loads.  They add no check of their
own: since `step` never writes the oracle's storage, they are the oracle's
theorems carried over, and no run checks `OracleImplementsAbstract` on the
composed system (it would repeat `oracle_honest`).

`Word32Proofs` proves, for all words:

* `ULtIrreflexive`, `ULtAsymmetric`, `ULtTransitive` and `ULtTotal`:
  `ULt` is a strict total order.  Totality needs the first bit at which
  two different words differ.  `FirstDifference` obtains it as a least
  element with `WFMin` and `NatLessThanWellFounded` of
  `WellFoundedInduction`, which take a relation and a set rather than an
  operator.
* `SLtSignRule`: `SLt(a, b) <=> IF a[1] # b[1] THEN a[1] = 1 ELSE
  ULt(a, b)`, so the model's `slt` (flip the sign bits, compare unsigned)
  is two's-complement order.
* `CountLeadingOnesCorrect`: the loop of `clo`/`clz` stops at exactly one
  count.  `LeadingOnesExists` takes the least stopping point with `WFMin`,
  and `LeadingOnesUnique` shows there is no other, so the `CHOOSE` of
  `CountLeadingOnes` is that count.

These lemmas need no recursive function: `ULt`, `SLt` and
`CountLeadingOnes` are quantifiers over the bits.  The arithmetic ones
(`AddBits`, `MulMod`, `UDivMod`) remain TLC's.

Only model-checked: `Termination` (liveness is beyond TLAPS),
`ReadBufferMatchesStream` (it needs the byte arithmetic of `Word32`, whose
recursive functions the provers cannot unfold for every input), and
`VMTypeOK`.  `VMTypeOK` says that every register, `pc` and `heap` stays a
32-bit word and that `exitCode` is in 0..255.  That needs the results
of `AddBits`, `FromBytes` and `BitsToNat` to be words and numbers.  Those
are defined with recursive functions (`carry[j]`, `st[k]`), and knowing
their values for every input is induction over data.  The same goes for
the `Word32` reference checks of `word32_reference`.

## 5. What is not modelled (yet)

* The Merkle proof check and memory root of `step`, and the hash of the
  encoded state: keccak chains, assumed honest.  An invalid proof only
  reverts a step.
* The state codec's length check: a fixed layout with no control flow.
* Gas, ABI encoding of calls, and the Go wrappers' marshalling: pure I/O.

## 6. Plan

* A program that runs every instruction class of `execute` against a
  reference definition of its result (the arithmetic under it is checked
  by `word32_reference`).
* `mult`/`multu`'s high word (the 64-bit product) against a reference.
* A type-correctness proof for `MIPS`.  It needs the values of the
  recursive functions of `Word32` (`BitsToNat`, the carries), which the
  installed provers cannot reach.  Rewritten as functions over bits with
  closed forms, they would come within reach.
