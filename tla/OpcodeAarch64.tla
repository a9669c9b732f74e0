---------------------------- MODULE OpcodeAarch64 ----------------------------
(***************************************************************************)
(* OpcodeGeneratorAarch64::GetThrowOpcode                                   *)
(* (src/src/OpcodeGeneratorAarch64.cpp) and an AArch64 processor that       *)
(* executes what it returns: a MOVZ and three MOVK of the 16-bit quarters   *)
(* of pError into x0, and a B to throwFn.  A pointer is modelled by its     *)
(* quarters, lowest first; a bitwise or into bits that are 0 in the         *)
(* template is written as an addition.                                      *)
(***************************************************************************)
EXTENDS Integers, Sequences

CONSTANTS
  Requests, \* calls of GetThrowOpcode: [fnStart, throwFn, pError]
  Nothing   \* no exception has been thrown

PatchSize == 20 \* k_doThrow.size()
Pointer   == [1 .. 4 -> 0 .. 65535]

\* eforce::Throw is not inside the entry that is replaced.
ValidRequests ==
  \A r \in Requests :
    /\ r.fnStart \in Nat /\ r.fnStart % 4 = 0
    /\ r.throwFn \in Nat /\ r.throwFn % 4 = 0
    /\ r.throwFn \notin r.fnStart .. (r.fnStart + PatchSize - 1)
    /\ r.pError \in Pointer

VARIABLES
  request, \* the arguments of the call
  phase,   \* "asked", "refused", "running" in the patch, or "left"
  code,    \* the bytes at fnStart
  pc, x0   \* the program counter and the argument register

vars == <<request, phase, code, pc, x0>>

Zero == [q \in 1 .. 4 |-> 0]

Init ==
  /\ request \in Requests
  /\ phase = "asked"
  /\ code = <<>>
  /\ pc = request.fnStart
  /\ x0 = Zero

\* Bits i and up of n, as many as make a number below m.
Bits(n, i, m) == (n \div 2^i) % m

\* Mutants: the highest bits are shifted too far; the middle ones are taken from
\* one bit too low.
PopulateHigh(quarterWord, t) ==
  << t[1] + 32 * Bits(quarterWord, 0, 8), t[2] + Bits(quarterWord, 3, 256),
     t[3] + 8 * Bits(quarterWord, 11, 32), t[4] >>
PopulateMiddleLow(quarterWord, t) ==
  << t[1] + 32 * Bits(quarterWord, 0, 8), t[2] + Bits(quarterWord, 2, 256),
     t[3] + Bits(quarterWord, 11, 32), t[4] >>

PopulateQuarterWord(quarterWord, t) ==
  << t[1] + 32 * Bits(quarterWord, 0, 8), t[2] + Bits(quarterWord, 3, 256),
     t[3] + Bits(quarterWord, 11, 32), t[4] >>

PopulateJumpAddr(relJumpAddr, t) ==
  << Bits(relJumpAddr, 2, 256), Bits(relJumpAddr, 10, 256),
     Bits(relJumpAddr, 18, 256), t[4] + Bits(relJumpAddr, 26, 4) >>

RelJumpAddr(r) == r.throwFn - (r.fnStart + 16)

\* Mutant: the 26 bits of the immediate are taken for bytes.
TooFarIn26Bits(relJumpAddr) == relJumpAddr \div 2^26 # 0

\* relJumpAddr >> 28, which is -1 for every negative distance.
TooFar(relJumpAddr) == relJumpAddr \div 2^28 # 0

Refuse ==
  /\ phase = "asked" /\ TooFar(RelJumpAddr(request))
  /\ phase' = "refused"
  /\ UNCHANGED <<request, code, pc, x0>>

GetThrowOpcode ==
  /\ phase = "asked" /\ ~TooFar(RelJumpAddr(request))
  /\ phase' = "running"
  /\ code' = PopulateQuarterWord(request.pError[1], <<0, 0, 128, 210>>)
             \o PopulateQuarterWord(request.pError[2], <<0, 0, 160, 242>>)
             \o PopulateQuarterWord(request.pError[3], <<0, 0, 192, 242>>)
             \o PopulateQuarterWord(request.pError[4], <<0, 0, 224, 242>>)
             \o PopulateJumpAddr(RelJumpAddr(request), <<0, 0, 0, 20>>)
  /\ UNCHANGED <<request, pc, x0>>

\* The processor: the instruction at the program counter, and what its bits say.
Insn == SubSeq(code, pc - request.fnStart + 1, pc - request.fnStart + 4)

\* The byte that tells MOVZ from MOVK, hw, imm16 and a register number of 0.
IsMov(insn, op) == insn[4] = op /\ insn[3] >= 128 /\ insn[1] % 32 = 0
Quarter(insn)   == 1 + Bits(insn[3], 5, 4)
Imm16(insn)     == insn[1] \div 32 + 8 * insn[2] + 2048 * (insn[3] % 32)

\* 000101 imm26, a signed number of instructions.
IsBranch(insn) == insn[4] \div 4 = 5

Imm26(insn) ==
  insn[1] + 2^8 * insn[2] + 2^16 * insn[3] + 2^24 * (insn[4] % 4)
  - (IF insn[4] % 4 >= 2 THEN 2^26 ELSE 0)

Running == phase = "running" /\ pc \in request.fnStart .. (request.fnStart + PatchSize - 4)

Movz ==
  /\ Running /\ IsMov(Insn, 210)
  /\ x0' = [Zero EXCEPT ![Quarter(Insn)] = Imm16(Insn)]
  /\ pc' = pc + 4
  /\ UNCHANGED <<request, phase, code>>

Movk ==
  /\ Running /\ IsMov(Insn, 242)
  /\ x0' = [x0 EXCEPT ![Quarter(Insn)] = Imm16(Insn)]
  /\ pc' = pc + 4
  /\ UNCHANGED <<request, phase, code>>

Branch ==
  /\ Running /\ IsBranch(Insn)
  /\ pc' = pc + 4 * Imm26(Insn)
  /\ phase' = "left"
  /\ UNCHANGED <<request, code, x0>>

Next == Refuse \/ GetThrowOpcode \/ Movz \/ Movk \/ Branch

Spec == Init /\ [][Next]_vars

\* The call returns and the processor keeps executing.
FairSpec == Spec /\ WF_vars(Next)
-----------------------------------------------------------------------------
TypeOK ==
  /\ request \in Requests
  /\ phase \in {"asked", "refused", "running", "left"}
  /\ IF phase \in {"asked", "refused"} THEN code = <<>>
                                      ELSE code \in [1 .. PatchSize -> 0 .. 255]
  /\ pc \in Int /\ x0 \in Pointer

\* "code that can be placed at fnStart to throw pError": a processor that
\* leaves the patch is at throwFn with pError in x0.
ArrivesAtThrow == phase = "left" => pc = request.throwFn /\ x0 = request.pError

\* The distances a B can cover.
InReach == {r \in Requests : RelJumpAddr(r) \in -2^27 .. 2^27 - 4}

Outcome ==
  CASE phase = "running" -> "emitted"
    [] phase = "left"    -> IF pc = request.throwFn THEN "thrown" ELSE "lost"
    [] OTHER             -> phase

Thrown == IF phase = "left" THEN x0 ELSE Nothing

\* The generator and the processor implement the contract of IOpcodeGenerator.
Contract == INSTANCE OpcodeGenerator WITH outcome <- Outcome, thrown <- Thrown
ImplementsContract == Contract!Spec
=============================================================================
