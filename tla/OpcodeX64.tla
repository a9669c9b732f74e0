------------------------------ MODULE OpcodeX64 ------------------------------
(***************************************************************************)
(* OpcodeGeneratorX64::GetThrowOpcode (src/src/OpcodeGeneratorX64.cpp) and  *)
(* a processor that executes what it returns: a movabs of pError into the   *)
(* argument register, 10 bytes long, and a jmp of 5 bytes whose operand is  *)
(* a signed 32-bit distance from the end of the patch.                      *)
(***************************************************************************)
EXTENDS Integers

CONSTANTS
  Requests, \* calls of GetThrowOpcode: [fnStart, throwFn, pError]
  Half,     \* 2^31: an int32_t lies in -Half .. Half - 1
  Nothing   \* no exception has been thrown

MovabsSize == 10
PatchSize  == 15 \* k_doThrow.size()

\* A pointer by its 16-bit quarters, which movabs copies as they are.
Pointer == [1 .. 4 -> 0 .. 65535]
Null    == [q \in 1 .. 4 |-> 0]

ASSUME HalfAssumption == Half \in Nat \ {0}

\* eforce::Throw is not inside the entry that is replaced.
ASSUME RequestsAssumption ==
  /\ Requests \subseteq [fnStart : Nat, throwFn : Nat, pError : Pointer]
  /\ \A r \in Requests : r.throwFn \notin r.fnStart .. (r.fnStart + PatchSize - 1)

VARIABLES
  request, \* the arguments of the call
  phase,   \* "asked", "refused", "running" in the patch, or "left"
  code,    \* the patch: the operands of its two instructions
  rip, rdi \* the instruction pointer and the argument register

vars == <<request, phase, code, rip, rdi>>

Init ==
  /\ request \in Requests
  /\ phase = "asked"
  /\ code = [movabs |-> Null, jmp |-> 0]
  /\ rip = request.fnStart
  /\ rdi = Null

\* static_cast<int32_t>
Int32(n) == IF n >= Half THEN n - 2 * Half ELSE n

\* Mutant: measured from the start of the patch.
DistanceFromStart(r) == r.throwFn - r.fnStart

Distance(r)    == r.throwFn - (r.fnStart + PatchSize)
AbsDistance(r) == IF Distance(r) > 0 THEN Distance(r) ELSE -Distance(r)

\* Mutant: the limit excludes the last distance backward.
TooFarStrict(r) == AbsDistance(r) >= Half

\* uint32_t(std::abs(INT32_MIN)) comes out as Half.
TooFar(r) == AbsDistance(r) > Half

\* Mutant: the sign of the distance is lost.
ThrowFnOffsetAbs(r) == AbsDistance(r)

\* -static_cast<int32_t>(2^31) overflows, which x86 compilers let wrap around.
ThrowFnOffset(r) ==
  IF Distance(r) > 0 THEN Int32(AbsDistance(r)) ELSE Int32(-Int32(AbsDistance(r)))

Refuse ==
  /\ phase = "asked" /\ TooFar(request)
  /\ phase' = "refused"
  /\ UNCHANGED <<request, code, rip, rdi>>

GetThrowOpcode ==
  /\ phase = "asked" /\ ~TooFar(request)
  /\ phase' = "running"
  /\ code' = [movabs |-> request.pError, jmp |-> ThrowFnOffset(request)]
  /\ UNCHANGED <<request, rip, rdi>>

ExecuteMovabs ==
  /\ phase = "running" /\ rip = request.fnStart
  /\ rdi' = code.movabs
  /\ rip' = rip + MovabsSize
  /\ UNCHANGED <<request, phase, code>>

ExecuteJmp ==
  /\ phase = "running" /\ rip = request.fnStart + MovabsSize
  /\ rip' = rip + (PatchSize - MovabsSize) + code.jmp
  /\ phase' = "left"
  /\ UNCHANGED <<request, code, rdi>>

Next == Refuse \/ GetThrowOpcode \/ ExecuteMovabs \/ ExecuteJmp

Spec == Init /\ [][Next]_vars

\* The call returns and the processor keeps executing.
FairSpec == Spec /\ WF_vars(Next)
-----------------------------------------------------------------------------
TypeOK ==
  /\ request \in Requests
  /\ phase \in {"asked", "refused", "running", "left"}
  /\ code \in [movabs : Pointer, jmp : -Half .. Half - 1]
  /\ rip \in Int /\ rdi \in Pointer

\* "code that can be placed at fnStart to throw pError": a processor that
\* leaves the patch is at throwFn with pError as the argument.
ArrivesAtThrow == phase = "left" => rip = request.throwFn /\ rdi = request.pError

\* The distances a jmp can cover.
InReach == {r \in Requests : Distance(r) \in -Half .. Half - 1}

Outcome ==
  CASE phase = "running" -> "emitted"
    [] phase = "left"    -> IF rip = request.throwFn THEN "thrown" ELSE "lost"
    [] OTHER             -> phase

Thrown == IF phase = "left" THEN rdi ELSE Nothing

\* The generator and the processor implement the contract of IOpcodeGenerator:
\* only what is out of reach is refused, and the patch ends in the throw.
Contract == INSTANCE OpcodeGenerator WITH outcome <- Outcome, thrown <- Thrown
ImplementsContract == Contract!Spec
=============================================================================
