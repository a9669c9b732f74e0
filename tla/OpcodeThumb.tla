----------------------------- MODULE OpcodeThumb -----------------------------
(***************************************************************************)
(* OpcodeGeneratorThumb::GetThrowOpcode (src/src/OpcodeGeneratorThumb.cpp)  *)
(* and a Thumb-2 processor that executes what it returns: MOVW and MOVT of  *)
(* the halves of pError into r0, and a B.W to throwFn.  The immediates are  *)
(* scattered over the bytes of the instructions; a bitwise or into bits     *)
(* that are 0 in the template is written as an addition.  A pointer is      *)
(* modelled by its two 16-bit halves, the low one first.                    *)
(***************************************************************************)
EXTENDS Integers, Sequences

CONSTANTS
  Requests, \* calls of GetThrowOpcode: [fnStart, throwFn, pError]
  Nothing   \* no exception has been thrown

PatchSize == 12 \* k_doThrowThumb.size()
Pointer   == [1 .. 2 -> 0 .. 65535]

\* Functions are halfword aligned; the pointer to a Thumb function has bit 0
\* set.  eforce::Throw is not inside the entry that is replaced.
ValidRequests ==
  \A r \in Requests :
    /\ r.fnStart \in Nat /\ r.fnStart % 2 = 0
    /\ r.throwFn \in Nat /\ r.throwFn % 2 = 1
    /\ r.throwFn \notin r.fnStart .. (r.fnStart + PatchSize - 1)
    /\ r.pError \in Pointer

VARIABLES
  request, \* the arguments of the call
  phase,   \* "asked", "running" in the patch, or "left"
  code,    \* the bytes at fnStart
  pc, r0   \* the program counter and the argument register

vars == <<request, phase, code, pc, r0>>

Init ==
  /\ request \in Requests
  /\ phase = "asked"
  /\ code = <<>>
  /\ pc = request.fnStart
  /\ r0 = <<0, 0>>

\* Bits i and up of n, as many as make a number below m.
Bits(n, i, m) == (n \div 2^i) % m

\* Mutants: imm4 is shifted to the wrong half; imm3 and i are taken from each other's place.
LoadHalfWordHigh(halfWord, t) ==
  << t[1] + 16 * Bits(halfWord, 12, 16), t[2] + 4 * Bits(halfWord, 11, 2),
     t[3] + Bits(halfWord, 0, 256), t[4] + 16 * Bits(halfWord, 8, 8) >>
LoadHalfWordSwapped(halfWord, t) ==
  << t[1] + Bits(halfWord, 12, 16), t[2] + 4 * Bits(halfWord, 8, 2),
     t[3] + Bits(halfWord, 0, 256), t[4] + 16 * Bits(halfWord, 9, 8) >>

\* The template t of a MOVW or MOVT with imm4, i, imm8 and imm3 filled in.
LoadHalfWord(halfWord, t) ==
  << t[1] + Bits(halfWord, 12, 16), t[2] + 4 * Bits(halfWord, 11, 2),
     t[3] + Bits(halfWord, 0, 256), t[4] + 16 * Bits(halfWord, 8, 8) >>

\* !(i ^ s)
Equal(i, s) == IF i = s THEN 1 ELSE 0

LoadBranchTarget(target, t) ==
  LET s     == IF target < 0 THEN 1 ELSE 0
      imm10 == Bits(target, 12, 1024)
      imm11 == Bits(target, 1, 2048)
      j1    == Equal(Bits(target, 23, 2), s)
      j2    == Equal(Bits(target, 22, 2), s)
  IN  << imm10 % 256, t[2] + imm10 \div 256 + 4 * s,
         imm11 % 256, t[4] + imm11 \div 256 + 8 * j2 + 32 * j1 >>

\* Mutant: measured from the branch, not from 4 bytes behind it.
ThrowOffsetFromBranch(r) == r.throwFn - (r.fnStart + PatchSize - 4)

ThrowOffset(r) == r.throwFn - (r.fnStart + PatchSize)

GetThrowOpcode ==
  /\ phase = "asked"
  /\ phase' = "running"
  /\ code' = LoadHalfWord(request.pError[1], <<64, 242, 0, 0>>)
             \o LoadHalfWord(request.pError[2], <<192, 242, 0, 0>>)
             \o LoadBranchTarget(ThrowOffset(request), <<0, 240, 0, 144>>)
  /\ UNCHANGED <<request, pc, r0>>

\* The processor: the instruction at the program counter, and what its bits say.
Insn == SubSeq(code, pc - request.fnStart + 1, pc - request.fnStart + 4)

\* 11110 i 10 0100 imm4 / 0 imm3 0000 imm8, and the same with 1100.
IsMov(insn, op) ==
  /\ Bits(insn[1], 4, 16) = op /\ Bits(insn[2], 3, 32) = 30 /\ insn[2] % 4 = 2
  /\ insn[4] < 128 /\ insn[4] % 16 = 0

Imm16(insn) ==
  4096 * (insn[1] % 16) + 2048 * Bits(insn[2], 2, 2) + 256 * Bits(insn[4], 4, 8) + insn[3]

\* 11110 S imm10 / 10 J1 1 J2 imm11
IsBranch(insn) ==
  /\ Bits(insn[2], 3, 32) = 30
  /\ Bits(insn[4], 6, 4) = 2 /\ Bits(insn[4], 4, 2) = 1

Imm25(insn) ==
  LET s  == Bits(insn[2], 2, 2)
      i1 == Equal(Bits(insn[4], 5, 2), s)
      i2 == Equal(Bits(insn[4], 3, 2), s)
  IN  2^23 * i1 + 2^22 * i2 + 2^12 * (insn[1] + 256 * (insn[2] % 4))
      + 2 * (insn[3] + 256 * (insn[4] % 8)) - 2^24 * s

Running == phase = "running" /\ pc \in request.fnStart .. (request.fnStart + PatchSize - 4)

Movw ==
  /\ Running /\ IsMov(Insn, 4)
  /\ r0' = <<Imm16(Insn), 0>>
  /\ pc' = pc + 4
  /\ UNCHANGED <<request, phase, code>>

Movt ==
  /\ Running /\ IsMov(Insn, 12)
  /\ r0' = <<r0[1], Imm16(Insn)>>
  /\ pc' = pc + 4
  /\ UNCHANGED <<request, phase, code>>

\* The program counter reads as 4 bytes behind the branch.
Branch ==
  /\ Running /\ IsBranch(Insn)
  /\ pc' = pc + 4 + Imm25(Insn)
  /\ phase' = "left"
  /\ UNCHANGED <<request, code, r0>>

Next == GetThrowOpcode \/ Movw \/ Movt \/ Branch

Spec == Init /\ [][Next]_vars

\* The call returns and the processor keeps executing.
FairSpec == Spec /\ WF_vars(Next)
-----------------------------------------------------------------------------
TypeOK ==
  /\ request \in Requests
  /\ phase \in {"asked", "running", "left"}
  /\ IF phase = "asked" THEN code = <<>> ELSE code \in [1 .. PatchSize -> 0 .. 255]
  /\ pc \in Int /\ r0 \in Pointer

\* "code that can be placed at fnStart to throw pError": a processor that
\* leaves the patch is at throwFn, in Thumb state, with pError in r0.
ArrivesAtThrow == phase = "left" => pc = request.throwFn - 1 /\ r0 = request.pError

\* The distances a B.W can cover.
InReach == {r \in Requests : ThrowOffset(r) - 1 \in -2^24 .. 2^24 - 2}

Outcome ==
  CASE phase = "running" -> "emitted"
    [] phase = "left"    -> IF pc = request.throwFn - 1 THEN "thrown" ELSE "lost"
    [] OTHER             -> phase

Thrown == IF phase = "left" THEN r0 ELSE Nothing

\* The generator and the processor implement the contract of IOpcodeGenerator.
Contract == INSTANCE OpcodeGenerator WITH outcome <- Outcome, thrown <- Thrown
ImplementsContract == Contract!Spec
=============================================================================
