---------------------------- MODULE OpcodesProofs ----------------------------
(***************************************************************************)
(* What executing a patch does, for every request and every architecture.   *)
(* A patch is a sequence of instructions; an encoder followed by the decoder*)
(* of the processor gives back the operand, whatever its value, except that *)
(* the operand of a branch has a range.  So the processor leaves the patch  *)
(* with pError in its argument register, and is at throwFn exactly if       *)
(* throwFn is in the reach of the branch.                                   *)
(***************************************************************************)
EXTENDS Opcodes, SequenceTheorems, TLAPS

-----------------------------------------------------------------------------
(* Code as a sequence of instructions of four bytes.                        *)

Byte        == 0 .. 255
Instruction == {insn \in Seq(Byte) : Len(insn) = 4}
HalfWord    == 0 .. 65535

\* c consists of the first m instructions of the sequence insns.
Encodes(c, insns, m) ==
  /\ c \in Seq(Byte) /\ Len(c) = 4 * m
  /\ \A k \in 0 .. m - 1 : SubSeq(c, 4 * k + 1, 4 * k + 4) = insns[k + 1]

\* p, after its first k words have been moved into the argument register.
Loaded(p, k) == [q \in DOMAIN p |-> IF q <= k THEN p[q] ELSE 0]

LEMMA FourBytes ==
  ASSUME NEW a \in Byte, NEW b \in Byte, NEW c \in Byte, NEW d \in Byte
  PROVE  <<a, b, c, d>> \in Instruction
BY SMT DEF Instruction

\* The first instruction of a patch, and each further one that is put behind.
LEMMA FirstInstruction ==
  ASSUME NEW insns, insns[1] \in Instruction
  PROVE  Encodes(insns[1], insns, 1)
<1>1. insns[1] \in Seq(Byte) /\ Len(insns[1]) = 4 /\ SubSeq(insns[1], 1, 4) = insns[1]
  BY SubSeqFull, Zenon DEF Instruction
<1> QED BY <1>1, SMT DEF Encodes

LEMMA NextInstruction ==
  ASSUME NEW insns, NEW m \in Nat \ {0}, insns[m + 1] \in Instruction,
         NEW c, Encodes(c, insns, m)
  PROVE  Encodes(c \o insns[m + 1], insns, m + 1)
<1> DEFINE p == insns[m + 1]
<1>1. p \in Seq(Byte) /\ Len(p) = 4 /\ c \in Seq(Byte) /\ Len(c) = 4 * m
  BY Zenon DEF Instruction, Encodes
<1> HIDE DEF p
<1>2. c \o p \in Seq(Byte) /\ Len(c \o p) = 4 * (m + 1)
  <2>1. c \o p \in Seq(Byte) /\ Len(c \o p) = Len(c) + Len(p)
    BY <1>1, ConcatProperties, Zenon
  <2> QED BY <1>1, <2>1, SMT
<1>3. SubSeq(c \o p, 4 * m + 1, 4 * m + 4) = p
  <2>1. 4 * m + 1 \in Len(c) + 1 .. Len(c) + Len(p) /\ 4 * m + 4 \in Len(c) + 1 .. Len(c) + Len(p)
    BY <1>1, SMT
  <2>2. SubSeq(c \o p, 4 * m + 1, 4 * m + 4) = SubSeq(p, (4 * m + 1) - Len(c), (4 * m + 4) - Len(c))
    BY <1>1, <2>1, SubSeqOfConcat2, Zenon
  <2>3. (4 * m + 1) - Len(c) = 1 /\ (4 * m + 4) - Len(c) = 4
    BY <1>1, SMT
  <2>4. SubSeq(p, 1, 4) = p
    BY <1>1, SubSeqFull, Zenon
  <2> QED BY <2>2, <2>3, <2>4, Zenon
<1>4. ASSUME NEW k \in 0 .. m - 1
      PROVE  SubSeq(c \o p, 4 * k + 1, 4 * k + 4) = insns[k + 1]
  <2>1. 4 * k + 1 \in 1 .. Len(c) /\ 4 * k + 4 \in 1 .. Len(c)
    BY <1>1, SMT
  <2>2. SubSeq(c \o p, 4 * k + 1, 4 * k + 4) = SubSeq(c, 4 * k + 1, 4 * k + 4)
    BY <1>1, <2>1, SubSeqOfConcat1, Zenon
  <2> QED BY <2>2, Zenon DEF Encodes
<1>5. ASSUME NEW k \in 0 .. (m + 1) - 1
      PROVE  SubSeq(c \o p, 4 * k + 1, 4 * k + 4) = insns[k + 1]
  <2>1. CASE k = m
    BY <1>3, <2>1, Zenon DEF p
  <2>2. CASE k # m
    <3>1. k \in 0 .. m - 1
      BY <2>2, SMT
    <3> QED BY <1>4, <3>1, Zenon
  <2> QED BY <2>1, <2>2
<1> QED BY <1>2, <1>5, Zenon DEF Encodes, p

LEMMA HalfWordsAreInt == HalfWord \subseteq Int
BY SMT DEF HalfWord

\* What the contract allows a step to do to the outcome and to what is thrown.
ContractStep(from, to, was, is, reached) ==
  \/ from = "asked" /\ to = "refused" /\ ~reached /\ is = was
  \/ from = "asked" /\ to = "emitted" /\ is = was
  \/ from = "emitted" /\ to = "thrown" /\ is = request.pError
  \/ to = from /\ is = was

-----------------------------------------------------------------------------
(* x86-64.                                                                  *)

\* The one distance that the range check accepts and an int32_t cannot hold.
NoneAtHalf == \A r \in Requests : Distance(r) # Half

LEMMA X64Request ==
  ASSUME NEW r \in Requests
  PROVE  /\ r.fnStart \in Nat /\ r.throwFn \in Nat /\ r.pError \in Pointer
         /\ Distance(r) \in Int /\ Half \in Nat \ {0}
         /\ r.throwFn = r.fnStart + 15 + Distance(r)
<1>1. r \in [fnStart : Nat, throwFn : Nat, pError : Pointer]
  BY RequestsAssumption
<1>2. r.fnStart \in Nat /\ r.throwFn \in Nat /\ r.pError \in Pointer
  BY <1>1
<1> QED BY <1>2, HalfAssumption, SMT DEF Distance, PatchSize

\* The range check lets through the distances from -Half to Half, and no other.
LEMMA X64Check ==
  ASSUME NEW r \in Requests
  PROVE  TooFar(r) <=> Distance(r) \notin -Half .. Half
BY X64Request, SMT DEF TooFar, AbsDistance

\* So it judges every request rightly, if none is at Half.
LEMMA X64Served ==
  ASSUME NoneAtHalf, NEW r \in Requests
  PROVE  TooFar(r) <=> r \notin InReach
BY X64Request, X64Check, SMT DEF NoneAtHalf, InReach

\* What the range check lets through, the conversions to int32_t keep, except for
\* Half, of which they make -Half.
LEMMA OffsetIsDistance ==
  ASSUME NEW r \in Requests, ~TooFar(r)
  PROVE  /\ ThrowFnOffset(r) = IF Distance(r) = Half THEN -Half ELSE Distance(r)
         /\ ThrowFnOffset(r) \in -Half .. Half - 1
<1>1. Half \in Nat \ {0} /\ Distance(r) \in Int
  BY X64Request
<1> QED BY <1>1, SMT DEF ThrowFnOffset, AbsDistance, TooFar, Int32

\* Where the processor is in the patch, and what it has done so far.
X64Inv ==
  /\ TypeOK
  /\ phase = "asked" => rip = request.fnStart
  /\ phase = "refused" => TooFar(request)
  /\ phase \in {"running", "left"} =>
       /\ ~TooFar(request)
       /\ code = [movabs |-> request.pError, jmp |-> ThrowFnOffset(request)]
  /\ phase = "running" =>
       rip = request.fnStart \/ (rip = request.fnStart + MovabsSize /\ rdi = request.pError)
  /\ phase = "left" =>
       rip = request.fnStart + PatchSize + ThrowFnOffset(request) /\ rdi = request.pError

LEMMA X64Initial == ASSUME Init PROVE X64Inv
<1>1. /\ request \in Requests /\ phase = "asked" /\ code = [movabs |-> Null, jmp |-> 0]
      /\ rip = request.fnStart /\ rdi = Null
  BY DEF Init
<1>2. Null \in Pointer /\ 0 \in -Half .. Half - 1 /\ rip \in Int
  <2>1. request.fnStart \in Nat /\ Half \in Nat \ {0}
    BY <1>1, X64Request
  <2> QED BY <1>1, <2>1 DEF Null, Pointer
<1> QED BY <1>1, <1>2 DEF X64Inv, TypeOK

LEMMA X64Step == ASSUME X64Inv, Next PROVE X64Inv'
<1>1. request \in Requests /\ rip \in Int /\ rdi \in Pointer
  BY DEF X64Inv, TypeOK
<1>2. request.fnStart \in Nat /\ request.pError \in Pointer
  BY <1>1, X64Request
<1>3. CASE Refuse
  BY <1>3 DEF Refuse, X64Inv, TypeOK
<1>4. CASE GetThrowOpcode
  <2>1. ThrowFnOffset(request) \in -Half .. Half - 1
    BY <1>1, <1>4, OffsetIsDistance DEF GetThrowOpcode
  <2>2. /\ UNCHANGED <<request, rip, rdi>> /\ phase' = "running" /\ ~TooFar(request)
        /\ code' = [movabs |-> request.pError, jmp |-> ThrowFnOffset(request)]
        /\ rip = request.fnStart
    BY <1>4 DEF GetThrowOpcode, X64Inv
  <2>3. code' \in [movabs : Pointer, jmp : -Half .. Half - 1]
    BY <1>2, <2>1, <2>2
  <2>4. TypeOK'
    BY <1>1, <2>2, <2>3 DEF TypeOK
  <2> QED BY <2>2, <2>4 DEF X64Inv
<1>5. CASE ExecuteMovabs
  <2>1. /\ UNCHANGED <<request, phase, code>> /\ phase = "running"
        /\ rdi' = request.pError /\ rip' = request.fnStart + MovabsSize
    BY <1>5 DEF ExecuteMovabs, X64Inv
  <2>2. TypeOK'
    BY <1>2, <2>1 DEF X64Inv, TypeOK, MovabsSize
  <2> QED BY <2>1, <2>2 DEF X64Inv
<1>6. CASE ExecuteJmp
  <2>1. /\ UNCHANGED <<request, code, rdi>> /\ phase = "running" /\ phase' = "left"
        /\ rip = request.fnStart + MovabsSize /\ rip' = rip + (PatchSize - MovabsSize) + code.jmp
    BY <1>6 DEF ExecuteJmp
  <2>2. ~TooFar(request) /\ code.jmp = ThrowFnOffset(request) /\ ThrowFnOffset(request) \in Int
    BY <1>1, <2>1, OffsetIsDistance DEF X64Inv
  <2>3. rdi = request.pError
    BY <1>2, <2>1 DEF X64Inv, MovabsSize
  <2>4. rip' = request.fnStart + PatchSize + ThrowFnOffset(request) /\ rip' \in Int
    BY <1>2, <2>1, <2>2 DEF MovabsSize, PatchSize
  <2>5. TypeOK'
    BY <1>1, <2>1, <2>4 DEF X64Inv, TypeOK
  <2> QED BY <2>1, <2>2, <2>3, <2>4, <2>5 DEF X64Inv
<1> QED BY <1>3, <1>4, <1>5, <1>6 DEF Next

LEMMA X64Stutter == ASSUME X64Inv, UNCHANGED vars PROVE X64Inv'
BY DEF X64Inv, TypeOK, vars

\* A processor that has left the patch is at throwFn exactly if a jmp reaches it.
LEMMA X64Arrives ==
  ASSUME X64Inv, phase = "left"
  PROVE  ArrivesAtThrow <=> request \in InReach
<1> DEFINE d == Distance(request)
           o == ThrowFnOffset(request)
<1>1. request \in Requests /\ ~TooFar(request) /\ rip = request.fnStart + 15 + o /\ rdi = request.pError
  BY DEF X64Inv, TypeOK, PatchSize
<1>2. /\ request.fnStart \in Nat /\ request.throwFn \in Nat /\ d \in Int /\ Half \in Nat \ {0}
      /\ request.throwFn = request.fnStart + 15 + d /\ d \in -Half .. Half
  BY <1>1, X64Request, X64Check, Zenon
<1>3. o = IF d = Half THEN -Half ELSE d
  BY <1>1, OffsetIsDistance
<1>4. ArrivesAtThrow <=> rip = request.throwFn
  BY <1>1 DEF ArrivesAtThrow
<1>5. request \in InReach <=> d \in -Half .. Half - 1
  BY <1>1 DEF InReach
<1> HIDE DEF d, o
<1>6. rip = request.throwFn <=> o = d
  BY <1>1, <1>2, <1>3
<1> QED BY <1>2, <1>3, <1>4, <1>5, <1>6

\* A step of generator and processor keeps the contract.
LEMMA X64Promise ==
  ASSUME NoneAtHalf, X64Inv, [Next]_vars, ArrivesAtThrow'
  PROVE  /\ request' = request
         /\ ContractStep(Outcome, Outcome', Thrown, Thrown', request \in InReach)
<1>1. request \in Requests
  BY DEF X64Inv, TypeOK
<1>2. CASE Refuse
  <2>1. request \notin InReach
    BY <1>1, <1>2, X64Served DEF Refuse
  <2> QED BY <1>2, <2>1 DEF Refuse, ContractStep, Outcome, Thrown
<1>3. CASE GetThrowOpcode
  BY <1>3 DEF GetThrowOpcode, ContractStep, Outcome, Thrown
<1>4. CASE ExecuteMovabs
  BY <1>4 DEF ExecuteMovabs, ContractStep, Outcome, Thrown
<1>5. CASE ExecuteJmp
  BY <1>5 DEF ExecuteJmp, ArrivesAtThrow, ContractStep, Outcome, Thrown
<1>6. CASE UNCHANGED vars
  BY <1>6 DEF vars, ContractStep, Outcome, Thrown
<1> QED BY <1>2, <1>3, <1>4, <1>5, <1>6 DEF Next

\* The x86-64 generator by itself.
LEMMA X64Invariance == Spec => []X64Inv
<1>1. ASSUME X64Inv, [Next]_vars PROVE X64Inv'
  BY <1>1, X64Step, X64Stutter
<1> QED BY <1>1, X64Initial, PTL DEF Spec

\* Unless the target is exactly Half ahead, the patch that GetThrowOpcode
\* returns leads to throwFn with pError as the argument.
THEOREM PatchThrows == ASSUME NoneAtHalf PROVE Spec => []ArrivesAtThrow
<1>1. ASSUME X64Inv PROVE ArrivesAtThrow
  <2>1. CASE phase = "left"
    <3>1. request \in Requests /\ ~TooFar(request)
      BY <1>1, <2>1 DEF X64Inv, TypeOK
    <3>2. request \in InReach
      BY <3>1, X64Served
    <3> QED BY <1>1, <2>1, <3>2, X64Arrives
  <2>2. CASE phase # "left"
    BY <2>2 DEF ArrivesAtThrow
  <2> QED BY <2>1, <2>2
<1> QED BY <1>1, X64Invariance, PTL

\* Under the same condition every step of generator and processor is a step of
\* the contract or leaves its variables alone: what is refused is out of reach,
\* and what is thrown is the pError of the request.
THEOREM StepsImplementContract ==
  ASSUME NoneAtHalf
  PROVE  Spec => Contract!Init /\ [][Contract!Next]_Contract!vars
<1>1. Init => Contract!Init
  BY DEF Init, Contract!Init, Outcome, Thrown
<1>2. ASSUME X64Inv, ArrivesAtThrow', [Next]_vars PROVE [Contract!Next]_Contract!vars
  BY <1>2, X64Promise DEF ContractStep, Contract!Next, Contract!Refuse, Contract!Emit, Contract!Throw, Contract!vars
<1> QED BY <1>1, <1>2, X64Invariance, PatchThrows, PTL DEF Spec

-----------------------------------------------------------------------------
(* Thumb-2.                                                                 *)

MovwTemplate == <<64, 242, 0, 0>>
MovtTemplate == <<192, 242, 0, 0>>

\* The distances that have 25 bits, and the even ones among them with the limits
\* that an instruction can express.
Signed25 == -2^24 .. 2^24 - 1
Branches == -2^24 .. 2^24 - 2

\* imm4, i, imm3 and imm8 are all of a halfword.
LEMMA ThumbFields ==
  ASSUME NEW n \in Int, n \in HalfWord
  PROVE  /\ (n \div 4096) % 16 \in 0 .. 15 /\ (n \div 2048) % 2 \in 0 .. 1
         /\ (n \div 256) % 8 \in 0 .. 7 /\ n % 256 \in 0 .. 255
         /\ n = 4096 * ((n \div 4096) % 16) + 2048 * ((n \div 2048) % 2)
                 + 256 * ((n \div 256) % 8) + (n % 256)
<1>1. (n \div 4096) % 16 = n \div 4096
  BY SMT DEF HalfWord
<1>2. n \div 2048 = 2 * (n \div 4096) + ((n \div 2048) % 2)
  BY SMT DEF HalfWord
<1>3. n = 256 * ((n \div 256) % 8) + 2048 * (n \div 2048) + (n % 256)
  BY SMT DEF HalfWord
<1>4. (n \div 4096) % 16 \in 0 .. 15 /\ (n \div 2048) % 2 \in 0 .. 1
  BY SMT DEF HalfWord
<1>5. (n \div 256) % 8 \in 0 .. 7 /\ n % 256 \in 0 .. 255
  BY SMT DEF HalfWord
<1>6. n = 4096 * ((n \div 4096) % 16) + 2048 * ((n \div 2048) % 2)
                 + 256 * ((n \div 256) % 8) + (n % 256)
  BY <1>1, <1>2, <1>3, SMT
<1> QED BY <1>4, <1>5, <1>6, SMT

\* A MOVW or MOVT says what LoadHalfWord was given, and is nothing else.
LEMMA ThumbHalfWord ==
  ASSUME NEW n \in Int, n \in HalfWord,
         NEW op, NEW other, NEW template,
         \/ op = 4 /\ other = 12 /\ template = MovwTemplate
         \/ op = 12 /\ other = 4 /\ template = MovtTemplate,
         NEW insn, insn = Thumb!LoadHalfWord(n, template)
  PROVE  /\ insn \in Instruction
         /\ Thumb!IsMov(insn, op) /\ ~Thumb!IsMov(insn, other) /\ ~Thumb!IsBranch(insn)
         /\ Thumb!Imm16(insn) = n
<1> DEFINE imm4 == (n \div 4096) % 16
           i    == (n \div 2048) % 2
           imm3 == (n \div 256) % 8
           imm8 == n % 256
           t    == template[1]
<1>1. /\ t \in Int /\ template = <<t, 242, 0, 0>>
      /\ (op = 4 /\ other = 12 /\ t = 64) \/ (op = 12 /\ other = 4 /\ t = 192)
  BY SMT DEF MovwTemplate, MovtTemplate
<1> HIDE DEF t
<1>2. insn = <<t + imm4, 242 + 4 * i, imm8, 16 * imm3>>
  BY <1>1, SMT DEF Thumb!LoadHalfWord, Thumb!Bits
<1>3. /\ imm4 \in 0 .. 15 /\ i \in 0 .. 1 /\ imm3 \in 0 .. 7 /\ imm8 \in 0 .. 255
      /\ n = 4096 * imm4 + 2048 * i + 256 * imm3 + imm8
  BY ThumbFields
<1> HIDE DEF imm4, i, imm3, imm8
<1>4. /\ insn[1] = t + imm4 /\ insn[2] = 242 + 4 * i
      /\ insn[3] = imm8 /\ insn[4] = 16 * imm3
  BY <1>2, SMT
<1>5. insn \in Instruction
  <2>1. t + imm4 \in Byte /\ 242 + 4 * i \in Byte /\ imm8 \in Byte /\ 16 * imm3 \in Byte
    BY <1>1, <1>3, SMT DEF Byte
  <2> QED BY <1>2, <2>1, FourBytes, SMT
<1>6. Thumb!IsMov(insn, op) /\ ~Thumb!IsMov(insn, other)
  BY <1>1, <1>3, <1>4, SMT DEF Thumb!IsMov, Thumb!Bits
<1>7. ~Thumb!IsBranch(insn)
  BY <1>1, <1>3, <1>4, SMT DEF Thumb!IsBranch, Thumb!Bits
<1>8. Thumb!Imm16(insn) = n
  <2>1. insn[1] % 16 = imm4
    BY <1>1, <1>3, <1>4, SMT
  <2>2. Thumb!Bits(insn[2], 2, 2) = i /\ Thumb!Bits(insn[4], 4, 8) = imm3
    BY <1>1, <1>3, <1>4, SMT DEF Thumb!Bits
  <2>3. Thumb!Imm16(insn) = 4096 * imm4 + 2048 * i + 256 * imm3 + insn[3]
    BY <2>1, <2>2, SMT DEF Thumb!Imm16
  <2> QED BY <2>3, <1>3, <1>4, SMT
<1> QED BY <1>5, <1>6, <1>7, <1>8, Zenon

\* A B.W says the distance that LoadBranchTarget was given, but for its lowest bit,
\* if that has 25 bits, and some even distance of 25 bits in any case.
LEMMA ThumbBranch ==
  ASSUME NEW d \in Int,
         NEW insn, insn = Thumb!LoadBranchTarget(d, <<0, 240, 0, 144>>)
  PROVE  /\ insn \in Instruction
         /\ Thumb!IsBranch(insn) /\ ~Thumb!IsMov(insn, 4) /\ ~Thumb!IsMov(insn, 12)
         /\ Thumb!Imm25(insn) \in Int /\ Thumb!Imm25(insn) \in Branches
         /\ d \in Signed25 => Thumb!Imm25(insn) = d - (d % 2)
<1> DEFINE sign  == IF d < 0 THEN 1 ELSE 0
           i1    == (d \div 2^23) % 2
           i2    == (d \div 2^22) % 2
           imm10 == (d \div 2^12) % 1024
           imm11 == (d \div 2^1) % 2048
           hi10  == imm10 \div 256
           lo10  == imm10 % 256
           hi11  == imm11 \div 256
           lo11  == imm11 % 256
           j1    == Thumb!Equal(i1, sign)
           j2    == Thumb!Equal(i2, sign)
<1>1. insn = <<lo10, 240 + hi10 + 4 * sign, lo11, 144 + hi11 + 8 * j2 + 32 * j1>>
  BY SMT DEF Thumb!LoadBranchTarget, Thumb!Bits
<1>2. /\ sign \in 0 .. 1 /\ i1 \in 0 .. 1 /\ i2 \in 0 .. 1 /\ imm10 \in 0 .. 1023 /\ imm11 \in 0 .. 2047
  BY SMT
<1>3. ASSUME d \in Signed25
      PROVE  d = 2^23 * i1 + 2^22 * i2 + 2^12 * imm10 + 2 * imm11 + (d % 2) - 2^24 * sign
  <2> USE <1>3
  <2>1. d \div 2^24 = -sign
    BY SMT DEF Signed25
  <2>2. d \div 2^23 = 2 * (d \div 2^24) + i1
    BY SMT DEF Signed25
  <2>3. d \div 2^22 = 2 * (d \div 2^23) + i2
    BY SMT DEF Signed25
  <2>4. d \div 2^12 = 1024 * (d \div 2^22) + imm10
    BY SMT DEF Signed25
  <2>5. d \div 2 = 2048 * (d \div 2^12) + imm11
    BY SMT DEF Signed25
  <2>6. d = 2 * (d \div 2) + (d % 2)
    BY SMT DEF Signed25
  <2> QED BY <2>1, <2>2, <2>3, <2>4, <2>5, <2>6, SMT
<1> HIDE DEF sign, i1, i2, imm10, imm11
<1>4. /\ hi10 \in 0 .. 3 /\ lo10 \in 0 .. 255 /\ imm10 = 256 * hi10 + lo10
      /\ hi11 \in 0 .. 7 /\ lo11 \in 0 .. 255 /\ imm11 = 256 * hi11 + lo11
  BY <1>2, SMT
<1>5. j1 \in 0 .. 1 /\ j2 \in 0 .. 1 /\ Thumb!Equal(j1, sign) = i1 /\ Thumb!Equal(j2, sign) = i2
  BY <1>2, SMT DEF Thumb!Equal
<1> HIDE DEF hi10, lo10, hi11, lo11, j1, j2
<1>6. insn \in Instruction
  <2>1. /\ lo10 \in Byte /\ 240 + hi10 + 4 * sign \in Byte
        /\ lo11 \in Byte /\ 144 + hi11 + 8 * j2 + 32 * j1 \in Byte
    BY <1>2, <1>4, <1>5, SMT DEF Byte
  <2> QED BY <1>1, <2>1, FourBytes, SMT
<1>7. Thumb!IsBranch(insn)
  BY <1>1, <1>2, <1>4, <1>5, SMT DEF Thumb!IsBranch, Thumb!Bits
<1>8. ~Thumb!IsMov(insn, 4) /\ ~Thumb!IsMov(insn, 12)
  BY <1>1, <1>2, <1>4, <1>5, SMT DEF Thumb!IsMov, Thumb!Bits
<1>9. /\ Thumb!Imm25(insn) \in Int /\ Thumb!Imm25(insn) \in Branches
      /\ d \in Signed25 => Thumb!Imm25(insn) = d - (d % 2)
  <2>1. Thumb!Bits(insn[2], 2, 2) = sign
    BY <1>1, <1>2, <1>4, SMT DEF Thumb!Bits
  <2>2. Thumb!Bits(insn[4], 5, 2) = j1
    BY <1>1, <1>4, <1>5, SMT DEF Thumb!Bits
  <2>3. Thumb!Bits(insn[4], 3, 2) = j2
    BY <1>1, <1>4, <1>5, SMT DEF Thumb!Bits
  <2>4. insn[1] = lo10 /\ insn[2] % 4 = hi10 /\ insn[3] = lo11 /\ insn[4] % 8 = hi11
    BY <1>1, <1>2, <1>4, <1>5, SMT
  <2>5. Thumb!Imm25(insn) = 2^23 * i1 + 2^22 * i2 + 2^12 * (lo10 + 256 * hi10)
                            + 2 * (lo11 + 256 * hi11) - 2^24 * sign
    BY <2>1, <2>2, <2>3, <2>4, <1>5, SMT DEF Thumb!Imm25
  <2>6. Thumb!Imm25(insn) \in Int /\ Thumb!Imm25(insn) \in Branches
    BY <2>5, <1>2, <1>4, SMT DEF Branches
  <2>7. ASSUME d \in Signed25 PROVE Thumb!Imm25(insn) = d - (d % 2)
    BY <2>5, <2>7, <1>2, <1>3, <1>4, SMT
  <2> QED BY <2>6, <2>7
<1> QED BY <1>6, <1>7, <1>8, <1>9, Zenon

ThumbMovw(r)  == Thumb!LoadHalfWord(r.pError[1], MovwTemplate)
ThumbMovt(r)  == Thumb!LoadHalfWord(r.pError[2], MovtTemplate)
ThumbBw(r)    == Thumb!LoadBranchTarget(Thumb!ThrowOffset(r), <<0, 240, 0, 144>>)
ThumbInsns(r) == <<ThumbMovw(r), ThumbMovt(r), ThumbBw(r)>>
ThumbPatch(r) == ThumbMovw(r) \o ThumbMovt(r) \o ThumbBw(r)

LEMMA ThumbPointer == Thumb!Pointer = [1 .. 2 -> HalfWord]
BY SMT DEF Thumb!Pointer, HalfWord

LEMMA ThumbLoads ==
  ASSUME NEW p, p \in Thumb!Pointer
  PROVE  /\ p[1] \in HalfWord /\ p[2] \in HalfWord
         /\ Loaded(p, 0) = <<0, 0>> /\ <<0, 0>> \in Thumb!Pointer
         /\ Loaded(p, 1) = <<p[1], 0>> /\ <<p[1], 0>> \in Thumb!Pointer
         /\ Loaded(p, 2) = p /\ <<p[1], p[2]>> = p
<1>1. Thumb!Pointer = [1 .. 2 -> HalfWord]
  BY ThumbPointer
<1>2. p \in [1 .. 2 -> HalfWord]
  BY <1>1
<1>3. 0 \in HalfWord
  BY SMT DEF HalfWord
<1> QED BY <1>1, <1>2, <1>3, SMT DEF Loaded

LEMMA ThumbRequest ==
  ASSUME NEW r \in ThumbRequests
  PROVE  /\ r.fnStart \in Nat /\ r.throwFn \in Nat /\ r.pError \in Thumb!Pointer
         /\ r.pError[1] \in Int /\ r.pError[1] \in HalfWord
         /\ r.pError[2] \in Int /\ r.pError[2] \in HalfWord
         /\ Thumb!ThrowOffset(r) \in Int /\ Thumb!ThrowOffset(r) % 2 = 1
         /\ r.throwFn = r.fnStart + 12 + Thumb!ThrowOffset(r)
<1>1. /\ r.fnStart \in Nat /\ r.throwFn \in Nat /\ r.pError \in Thumb!Pointer
      /\ r.fnStart % 2 = 0 /\ r.throwFn % 2 = 1
  BY ArchAssumption, Zenon DEF Thumb!ValidRequests
<1>2. /\ r.pError[1] \in HalfWord /\ r.pError[2] \in HalfWord
      /\ r.pError[1] \in Int /\ r.pError[2] \in Int
  BY <1>1, ThumbLoads, HalfWordsAreInt
<1>3. Thumb!ThrowOffset(r) = r.throwFn - r.fnStart - 12
  BY <1>1, SMT DEF Thumb!ThrowOffset, Thumb!PatchSize
<1> QED BY <1>1, <1>2, <1>3, SMT

\* The processor finds in the patch the three instructions put there.
LEMMA ThumbPatchDecodes ==
  ASSUME NEW r \in ThumbRequests
  PROVE  /\ Encodes(ThumbPatch(r), ThumbInsns(r), 3)
         /\ Thumb!IsMov(ThumbMovw(r), 4) /\ ~Thumb!IsMov(ThumbMovw(r), 12)
         /\ ~Thumb!IsBranch(ThumbMovw(r)) /\ Thumb!Imm16(ThumbMovw(r)) = r.pError[1]
         /\ Thumb!IsMov(ThumbMovt(r), 12) /\ ~Thumb!IsMov(ThumbMovt(r), 4)
         /\ ~Thumb!IsBranch(ThumbMovt(r)) /\ Thumb!Imm16(ThumbMovt(r)) = r.pError[2]
         /\ Thumb!IsBranch(ThumbBw(r)) /\ ~Thumb!IsMov(ThumbBw(r), 4) /\ ~Thumb!IsMov(ThumbBw(r), 12)
<1>1. /\ ThumbMovw(r) \in Instruction /\ Thumb!IsMov(ThumbMovw(r), 4) /\ ~Thumb!IsMov(ThumbMovw(r), 12)
      /\ ~Thumb!IsBranch(ThumbMovw(r)) /\ Thumb!Imm16(ThumbMovw(r)) = r.pError[1]
  <2>1. ThumbMovw(r) = Thumb!LoadHalfWord(r.pError[1], MovwTemplate)
    BY DEF ThumbMovw
  <2>2. r.pError[1] \in Int /\ r.pError[1] \in HalfWord
    BY ThumbRequest
  <2> QED BY <2>1, <2>2, ThumbHalfWord
<1>2. /\ ThumbMovt(r) \in Instruction /\ Thumb!IsMov(ThumbMovt(r), 12) /\ ~Thumb!IsMov(ThumbMovt(r), 4)
      /\ ~Thumb!IsBranch(ThumbMovt(r)) /\ Thumb!Imm16(ThumbMovt(r)) = r.pError[2]
  <2>1. ThumbMovt(r) = Thumb!LoadHalfWord(r.pError[2], MovtTemplate)
    BY DEF ThumbMovt
  <2>2. r.pError[2] \in Int /\ r.pError[2] \in HalfWord
    BY ThumbRequest
  <2> QED BY <2>1, <2>2, ThumbHalfWord
<1>3. /\ ThumbBw(r) \in Instruction /\ Thumb!IsBranch(ThumbBw(r))
      /\ ~Thumb!IsMov(ThumbBw(r), 4) /\ ~Thumb!IsMov(ThumbBw(r), 12)
  BY ThumbRequest, ThumbBranch, SMT DEF ThumbBw
<1> DEFINE I == ThumbInsns(r)
<1>4. I[1] = ThumbMovw(r) /\ I[2] = ThumbMovt(r) /\ I[3] = ThumbBw(r)
  BY SMT DEF ThumbInsns
<1> HIDE DEF I
<1>5. Encodes(I[1], I, 1)
  BY <1>1, <1>4, FirstInstruction, Zenon
<1>6. Encodes(I[1] \o I[1 + 1], I, 1 + 1)
  <2>1. I[1 + 1] \in Instruction
    BY <1>2, <1>4, SMT
  <2> QED BY <1>5, <2>1, NextInstruction
<1>7. Encodes((I[1] \o I[2]) \o I[2 + 1], I, 2 + 1)
  <2>1. I[2 + 1] \in Instruction /\ Encodes(I[1] \o I[2], I, 2)
    BY <1>3, <1>4, <1>6, SMT
  <2> QED BY <2>1, NextInstruction
<1>8. Encodes(ThumbPatch(r), ThumbInsns(r), 3)
  <2>1. Encodes((I[1] \o I[2]) \o I[3], I, 3)
    BY <1>7, SMT
  <2> QED BY <1>4, <2>1, Zenon DEF ThumbPatch, I
<1> QED BY <1>1, <1>2, <1>3, <1>8, Zenon

\* Where a processor is in the patch, and what it has loaded so far.
ThumbInv ==
  /\ Thumb!TypeOK
  /\ phase = "asked" => rip = request.fnStart /\ rdi = <<0, 0>>
  /\ phase # "asked" => code = ThumbPatch(request)
  /\ phase = "running" =>
       \E k \in 0 .. 2 : rip = request.fnStart + 4 * k /\ rdi = Loaded(request.pError, k)
  /\ phase = "left" =>
       /\ rip = request.fnStart + 12 + Thumb!Imm25(ThumbBw(request))
       /\ rdi = request.pError

LEMMA ThumbInitial == ASSUME Thumb!Init PROVE ThumbInv
<1>1. request \in ThumbRequests /\ phase = "asked" /\ code = <<>> /\ rip = request.fnStart /\ rdi = <<0, 0>>
  BY DEF Thumb!Init
<1>2. rip \in Int /\ rdi \in Thumb!Pointer
  <2>1. request.fnStart \in Nat /\ request.pError \in Thumb!Pointer
    BY <1>1, ThumbRequest
  <2>2. <<0, 0>> \in Thumb!Pointer
    BY <2>1, ThumbLoads
  <2> QED BY <1>1, <2>1, <2>2, SMT
<1> QED BY <1>1, <1>2 DEF ThumbInv, Thumb!TypeOK

\* The instruction behind the k that have been executed.
LEMMA ThumbExecutes ==
  ASSUME ThumbInv, phase = "running", Thumb!Movw \/ Thumb!Movt \/ Thumb!Branch,
         NEW k \in 0 .. 2, rip = request.fnStart + 4 * k, rdi = Loaded(request.pError, k)
  PROVE  ThumbInv'
<1> DEFINE r == request
<1>1. /\ r \in ThumbRequests /\ rip \in Int /\ rdi \in Thumb!Pointer /\ code = ThumbPatch(r)
      /\ code \in [1 .. Thumb!PatchSize -> 0 .. 255]
  BY Zenon DEF ThumbInv, Thumb!TypeOK
<1>2. r.fnStart \in Nat /\ r.pError \in Thumb!Pointer
  BY <1>1, ThumbRequest
<1>3. Thumb!Insn = ThumbInsns(r)[k + 1]
  <2>1. rip - r.fnStart + 1 = 4 * k + 1 /\ rip - r.fnStart + 4 = 4 * k + 4 /\ k \in 0 .. 3 - 1
    BY <1>2, SMT
  <2> QED BY <1>1, <2>1, ThumbPatchDecodes, Zenon DEF Thumb!Insn, Encodes
<1>4. UNCHANGED <<request, code>>
  BY DEF Thumb!Movw, Thumb!Movt, Thumb!Branch
<1>5. ASSUME rdi' \in Thumb!Pointer, rip' \in Int, phase' \in {"running", "left"} PROVE Thumb!TypeOK'
  BY <1>1, <1>4, <1>5, Zenon DEF Thumb!TypeOK
<1>6. CASE k = 0
  <2>1. Thumb!Insn = ThumbMovw(r)
    BY <1>3, <1>6, SMT DEF ThumbInsns
  <2>2. rdi' = <<r.pError[1], 0>> /\ rip' = rip + 4 /\ phase' = "running"
    BY <1>1, <2>1, ThumbPatchDecodes DEF Thumb!Movw, Thumb!Movt, Thumb!Branch
  <2>3. rdi' = Loaded(r.pError, 1) /\ rdi' \in Thumb!Pointer
    BY <1>2, <2>2, ThumbLoads, Zenon
  <2>4. rip' = r.fnStart + 4 * 1 /\ rip' \in Int
    BY <1>2, <1>6, <2>2, SMT
  <2> QED BY <1>1, <1>4, <1>5, <2>2, <2>3, <2>4, SMT DEF ThumbInv
<1>7. CASE k = 1
  <2>1. Thumb!Insn = ThumbMovt(r)
    BY <1>3, <1>7, SMT DEF ThumbInsns
  <2>2. rdi' = <<rdi[1], r.pError[2]>> /\ rip' = rip + 4 /\ phase' = "running"
    BY <1>1, <2>1, ThumbPatchDecodes DEF Thumb!Movw, Thumb!Movt, Thumb!Branch
  <2>3. rdi' = Loaded(r.pError, 2) /\ rdi' \in Thumb!Pointer
    <3>1. rdi = <<r.pError[1], 0>>
      BY <1>2, <1>7, ThumbLoads, Zenon
    <3>2. rdi[1] = r.pError[1]
      BY <3>1, SMT
    <3> QED BY <1>2, <2>2, <3>2, ThumbLoads, Zenon
  <2>4. rip' = r.fnStart + 4 * 2 /\ rip' \in Int
    BY <1>2, <1>7, <2>2, SMT
  <2> QED BY <1>1, <1>4, <1>5, <2>2, <2>3, <2>4, SMT DEF ThumbInv
<1>8. CASE k = 2
  <2>1. Thumb!Insn = ThumbBw(r)
    BY <1>3, <1>8, SMT DEF ThumbInsns
  <2>2. rdi' = rdi /\ rip' = rip + 4 + Thumb!Imm25(ThumbBw(r)) /\ phase' = "left"
    BY <1>1, <2>1, ThumbPatchDecodes DEF Thumb!Movw, Thumb!Movt, Thumb!Branch
  <2>3. rdi = r.pError
    BY <1>2, <1>8, ThumbLoads, Zenon
  <2>4. Thumb!Imm25(ThumbBw(r)) \in Int
    BY <1>1, ThumbRequest, ThumbBranch, SMT DEF ThumbBw
  <2>5. rip' = r.fnStart + 12 + Thumb!Imm25(ThumbBw(r)) /\ rip' \in Int
    BY <1>2, <1>8, <2>2, <2>4, SMT
  <2> QED BY <1>1, <1>4, <1>5, <2>2, <2>3, <2>5, SMT DEF ThumbInv
<1> QED BY <1>6, <1>7, <1>8, SMT

LEMMA ThumbStep == ASSUME ThumbInv, Thumb!Next PROVE ThumbInv'
<1> DEFINE r == request
<1>1. r \in ThumbRequests /\ rip \in Int /\ rdi \in Thumb!Pointer
  BY Zenon DEF ThumbInv, Thumb!TypeOK
<1>2. r.fnStart \in Nat /\ r.pError \in Thumb!Pointer
  BY <1>1, ThumbRequest
<1>3. CASE Thumb!GetThrowOpcode
  <2>1. code' = ThumbPatch(r) /\ phase = "asked" /\ phase' = "running" /\ UNCHANGED <<request, rip, rdi>>
    BY <1>3 DEF Thumb!GetThrowOpcode, ThumbPatch, ThumbMovw, ThumbMovt, ThumbBw, MovwTemplate, MovtTemplate
  <2>2. rip = r.fnStart + 4 * 0 /\ rdi = Loaded(r.pError, 0)
    <3>1. rip = r.fnStart /\ rdi = <<0, 0>>
      BY <2>1 DEF ThumbInv
    <3>2. r.fnStart = r.fnStart + 4 * 0
      BY <1>2, SMT
    <3> QED BY <1>2, <3>1, <3>2, ThumbLoads, Zenon
  <2>3. code' \in [1 .. Thumb!PatchSize -> 0 .. 255]
    <3>1. code' \in Seq(Byte) /\ Len(code') = 12
      BY <1>1, <2>1, ThumbPatchDecodes, SMT DEF Encodes
    <3>2. code' \in [1 .. 12 -> Byte]
      BY <3>1, LenProperties, Zenon
    <3> QED BY <3>2, SMT DEF Byte, Thumb!PatchSize
  <2>4. Thumb!TypeOK'
    BY <1>1, <2>1, <2>3, Zenon DEF Thumb!TypeOK
  <2> QED BY <2>1, <2>2, <2>4, SMT DEF ThumbInv
<1>4. CASE Thumb!Movw \/ Thumb!Movt \/ Thumb!Branch
  <2>1. phase = "running"
    BY <1>4 DEF Thumb!Movw, Thumb!Movt, Thumb!Branch, Thumb!Running
  <2>2. PICK k \in 0 .. 2 : rip = r.fnStart + 4 * k /\ rdi = Loaded(r.pError, k)
    BY <2>1 DEF ThumbInv
  <2> QED BY <1>4, <2>1, <2>2, ThumbExecutes
<1> QED BY <1>3, <1>4 DEF Thumb!Next

\* A processor that has left the patch is at throwFn, in Thumb state, exactly if a
\* B.W reaches it.
LEMMA ThumbArrives ==
  ASSUME ThumbInv, phase = "left"
  PROVE  Thumb!ArrivesAtThrow <=> request \in Thumb!InReach
<1> DEFINE r == request
           d == Thumb!ThrowOffset(r)
           i == Thumb!Imm25(ThumbBw(r))
<1>1. r \in ThumbRequests /\ rip = r.fnStart + 12 + i /\ rdi = r.pError
  BY Zenon DEF ThumbInv, Thumb!TypeOK
<1>2. /\ r.fnStart \in Nat /\ r.throwFn \in Nat /\ d \in Int /\ d % 2 = 1
      /\ r.throwFn = r.fnStart + 12 + d
  BY <1>1, ThumbRequest, Zenon
<1>3. i \in Int /\ i \in Branches /\ (d \in Signed25 => i = d - (d % 2))
  BY <1>2, ThumbBranch, SMT DEF ThumbBw
<1>4. Thumb!ArrivesAtThrow <=> rip = r.throwFn - 1
  BY <1>1, Zenon DEF Thumb!ArrivesAtThrow
<1>5. request \in Thumb!InReach <=> d - 1 \in Branches
  BY <1>1, SMT DEF Thumb!InReach, Branches
<1> HIDE DEF r, d, i
<1>6. rip = r.throwFn - 1 <=> i = d - 1
  BY <1>1, <1>2, <1>3, SMT
<1>7. d - 1 \in Branches => d \in Signed25
  BY <1>2, SMT DEF Branches, Signed25
<1> QED BY <1>2, <1>3, <1>4, <1>5, <1>6, <1>7, Zenon

LEMMA ThumbStutter == ASSUME ThumbInv, UNCHANGED vars PROVE ThumbInv'
BY Zenon DEF ThumbInv, Thumb!TypeOK, vars

\* What nothing in the generator checks.
AllInReachOfBw == ThumbRequests \subseteq Thumb!InReach

\* A step of generator and processor keeps the contract.
LEMMA ThumbPromise ==
  ASSUME ThumbInv, Thumb!Next \/ UNCHANGED vars, Thumb!ArrivesAtThrow'
  PROVE  /\ request' = request
         /\ ContractStep(Thumb!Outcome, Thumb!Outcome', Thumb!Thrown, Thumb!Thrown',
                         request \in Thumb!InReach)
<1>1. CASE Thumb!GetThrowOpcode
  BY <1>1 DEF Thumb!GetThrowOpcode, ContractStep, Thumb!Outcome, Thumb!Thrown
<1>2. CASE Thumb!Movw \/ Thumb!Movt
  BY <1>2 DEF Thumb!Movw, Thumb!Movt, Thumb!Running, ContractStep, Thumb!Outcome, Thumb!Thrown
<1>3. CASE Thumb!Branch
  BY <1>3 DEF Thumb!Branch, Thumb!Running, Thumb!ArrivesAtThrow, ContractStep, Thumb!Outcome, Thumb!Thrown
<1>4. CASE UNCHANGED vars
  BY <1>4 DEF vars, ContractStep, Thumb!Outcome, Thumb!Thrown
<1> QED BY <1>1, <1>2, <1>3, <1>4 DEF Thumb!Next

-----------------------------------------------------------------------------
(* AArch64.                                                                 *)

MovTemplate(q) == <<0, 0, 96 + 32 * q, IF q = 1 THEN 210 ELSE 242>>

\* The distances that the check lets through.
Unsigned28 == 0 .. 2^28 - 1

\* The lowest, the middle and the highest bits are all of a quarter.
LEMMA Aarch64Fields ==
  ASSUME NEW n \in Int, n \in HalfWord
  PROVE  /\ n % 8 \in 0 .. 7 /\ (n \div 8) % 256 \in 0 .. 255 /\ (n \div 2048) % 32 \in 0 .. 31
         /\ n = (n % 8) + 8 * ((n \div 8) % 256) + 2048 * ((n \div 2048) % 32)
<1> DEFINE low    == n % 8
           rest   == n \div 8
           middle == rest % 256
           high   == n \div 2048
<1>1. n = 8 * rest + low /\ low \in 0 .. 7 /\ rest \in Int
  BY SMT
<1>2. rest = 256 * high + middle /\ middle \in 0 .. 255 /\ high \in Int
  BY SMT
<1>3. high % 32 = high /\ high \in 0 .. 31 /\ n = low + 8 * middle + 2048 * high
  <2> HIDE DEF low, rest, middle, high
  <2>1. 0 <= n /\ n < 65536
    BY SMT DEF HalfWord
  <2>2. high \in 0 .. 31
    BY <1>1, <1>2, <2>1, SMT
  <2> QED BY <1>1, <1>2, <2>2, SMT
<1> QED BY <1>1, <1>2, <1>3, SMT

\* A MOVZ or MOVK says the quarter PopulateQuarterWord was given, and which of the
\* four it is, and is nothing else.
LEMMA Aarch64Quarter ==
  ASSUME NEW n \in Int, n \in HalfWord, NEW q \in 1 .. 4,
         NEW insn, insn = Aarch64!PopulateQuarterWord(n, MovTemplate(q))
  PROVE  /\ insn \in Instruction
         /\ Aarch64!IsMov(insn, 210) <=> q = 1
         /\ Aarch64!IsMov(insn, 242) <=> q # 1
         /\ ~Aarch64!IsBranch(insn)
         /\ Aarch64!Quarter(insn) = q /\ Aarch64!Imm16(insn) = n
<1> DEFINE low    == n % 8
           middle == (n \div 8) % 256
           high   == (n \div 2048) % 32
           op     == IF q = 1 THEN 210 ELSE 242
<1>1. insn = <<32 * low, middle, 96 + 32 * q + high, op>>
  BY SMT DEF Aarch64!PopulateQuarterWord, Aarch64!Bits, MovTemplate
<1>2. /\ low \in 0 .. 7 /\ middle \in 0 .. 255 /\ high \in 0 .. 31
      /\ n = low + 8 * middle + 2048 * high
  BY Aarch64Fields
<1>3. op \in {210, 242} /\ (op = 210 <=> q = 1)
  BY SMT
<1> HIDE DEF low, middle, high, op
<1>4. /\ insn[1] = 32 * low /\ insn[2] = middle
      /\ insn[3] = 96 + 32 * q + high /\ insn[4] = op
  BY <1>1, SMT
<1>5. insn \in Instruction
  <2>1. 32 * low \in Byte /\ middle \in Byte /\ 96 + 32 * q + high \in Byte /\ op \in Byte
    BY <1>2, <1>3, SMT DEF Byte
  <2> QED BY <1>1, <2>1, FourBytes, SMT
<1>6. insn[1] % 32 = 0 /\ insn[3] >= 128
  BY <1>2, <1>4, SMT
<1>7. (Aarch64!IsMov(insn, 210) <=> q = 1) /\ (Aarch64!IsMov(insn, 242) <=> q # 1)
  BY <1>3, <1>4, <1>6, SMT DEF Aarch64!IsMov
<1>8. ~Aarch64!IsBranch(insn)
  BY <1>3, <1>4, SMT DEF Aarch64!IsBranch
<1>9. Aarch64!Quarter(insn) = q
  BY <1>2, <1>4, SMT DEF Aarch64!Quarter, Aarch64!Bits
<1>10. Aarch64!Imm16(insn) = n
  <2>1. insn[1] \div 32 = low /\ insn[3] % 32 = high
    BY <1>2, <1>4, SMT
  <2> QED BY <2>1, <1>2, <1>4, SMT DEF Aarch64!Imm16
<1> QED BY <1>5, <1>7, <1>8, <1>9, <1>10

\* A B says the distance PopulateJumpAddr was given as a signed number of
\* instructions, so that the upper half of what the check lets through is negative.
LEMMA Aarch64Branch ==
  ASSUME NEW d \in Int,
         NEW insn, insn = Aarch64!PopulateJumpAddr(d, <<0, 0, 0, 20>>)
  PROVE  /\ insn \in Instruction
         /\ Aarch64!IsBranch(insn) /\ ~Aarch64!IsMov(insn, 210) /\ ~Aarch64!IsMov(insn, 242)
         /\ Aarch64!Imm26(insn) \in Int
         /\ d \in Unsigned28 =>
              4 * Aarch64!Imm26(insn) = d - (d % 4) - (IF d >= 2^27 THEN 2^28 ELSE 0)
<1> DEFINE b1 == (d \div 4) % 256
           b2 == (d \div 2^10) % 256
           b3 == (d \div 2^18) % 256
           b4 == (d \div 2^26) % 4
<1>1. insn = <<b1, b2, b3, 20 + b4>>
  BY SMT DEF Aarch64!PopulateJumpAddr, Aarch64!Bits
<1>2. b1 \in 0 .. 255 /\ b2 \in 0 .. 255 /\ b3 \in 0 .. 255 /\ b4 \in 0 .. 3
  BY SMT
<1>3. ASSUME d \in Unsigned28
      PROVE  /\ d = 4 * b1 + 2^10 * b2 + 2^18 * b3 + 2^26 * b4 + (d % 4)
             /\ d >= 2^27 <=> b4 >= 2
  <2>1. b4 = d \div 2^26
    BY <1>3, SMT DEF Unsigned28
  <2>2. d \div 2^18 = 256 * (d \div 2^26) + b3
    BY <1>3, SMT DEF Unsigned28
  <2>3. d \div 2^10 = 256 * (d \div 2^18) + b2
    BY <1>3, SMT DEF Unsigned28
  <2>4. d \div 4 = 256 * (d \div 2^10) + b1
    BY <1>3, SMT DEF Unsigned28
  <2>5. d = 4 * (d \div 4) + (d % 4) /\ d % 4 \in 0 .. 3
    BY SMT
  <2> DEFINE q1 == d \div 4
             q2 == d \div 2^10
             q3 == d \div 2^18
             m  == d % 4
  <2>6. q1 \in Int /\ q2 \in Int /\ q3 \in Int /\ m \in Int
    BY SMT
  <2>7. d = 4 * q1 + m /\ q1 = 256 * q2 + b1 /\ q2 = 256 * q3 + b2 /\ q3 = 256 * b4 + b3
    BY <2>1, <2>2, <2>3, <2>4, <2>5, Zenon
  <2> HIDE DEF b1, b2, b3, b4, q1, q2, q3, m
  <2>8. d = 4 * b1 + 2^10 * b2 + 2^18 * b3 + 2^26 * b4 + m
    BY <1>2, <2>6, <2>7, SMT
  <2>9. m \in 0 .. 3
    BY <2>5, Zenon DEF m
  <2>10. d >= 2^27 <=> b4 >= 2
    BY <1>2, <2>8, <2>9, SMT
  <2> QED BY <2>8, <2>10 DEF m
<1> HIDE DEF b1, b2, b3, b4
<1>4. insn[1] = b1 /\ insn[2] = b2 /\ insn[3] = b3 /\ insn[4] = 20 + b4
  BY <1>1, SMT
<1>5. insn \in Instruction
  <2>1. b1 \in Byte /\ b2 \in Byte /\ b3 \in Byte /\ 20 + b4 \in Byte
    BY <1>2, SMT DEF Byte
  <2> QED BY <1>1, <2>1, FourBytes, SMT
<1>6. Aarch64!IsBranch(insn) /\ ~Aarch64!IsMov(insn, 210) /\ ~Aarch64!IsMov(insn, 242)
  BY <1>2, <1>4, SMT DEF Aarch64!IsBranch, Aarch64!IsMov
<1>7. Aarch64!Imm26(insn) = b1 + 2^8 * b2 + 2^16 * b3 + 2^24 * b4 - (IF b4 >= 2 THEN 2^26 ELSE 0)
  <2>1. insn[4] % 4 = b4
    BY <1>2, <1>4, SMT
  <2> QED BY <1>4, <2>1, Zenon DEF Aarch64!Imm26
<1>8. Aarch64!Imm26(insn) \in Int
  BY <1>2, <1>7, SMT
<1>9. ASSUME d \in Unsigned28
      PROVE  4 * Aarch64!Imm26(insn) = d - (d % 4) - (IF d >= 2^27 THEN 2^28 ELSE 0)
  BY <1>2, <1>3, <1>7, <1>9, SMT
<1> QED BY <1>5, <1>6, <1>8, <1>9, Zenon

Aarch64Mov(r, q) == Aarch64!PopulateQuarterWord(r.pError[q], MovTemplate(q))
Aarch64B(r)      == Aarch64!PopulateJumpAddr(Aarch64!RelJumpAddr(r), <<0, 0, 0, 20>>)
Aarch64Insns(r)  ==
  <<Aarch64Mov(r, 1), Aarch64Mov(r, 2), Aarch64Mov(r, 3), Aarch64Mov(r, 4), Aarch64B(r)>>
Aarch64Patch(r)  ==
  Aarch64Mov(r, 1) \o Aarch64Mov(r, 2) \o Aarch64Mov(r, 3) \o Aarch64Mov(r, 4) \o Aarch64B(r)

LEMMA Aarch64Pointer == Aarch64!Pointer = [1 .. 4 -> HalfWord]
BY SMT DEF Aarch64!Pointer, HalfWord

LEMMA Aarch64Loads ==
  ASSUME NEW p, p \in Aarch64!Pointer
  PROVE  /\ \A q \in 1 .. 4 : p[q] \in HalfWord
         /\ \A k \in 0 .. 4 : Loaded(p, k) \in Aarch64!Pointer
         /\ Loaded(p, 0) = Aarch64!Zero /\ Loaded(p, 4) = p
         /\ [Aarch64!Zero EXCEPT ![1] = p[1]] = Loaded(p, 1)
         /\ \A k \in 0 .. 3 : [Loaded(p, k) EXCEPT ![k + 1] = p[k + 1]] = Loaded(p, k + 1)
<1>1. Aarch64!Pointer = [1 .. 4 -> HalfWord]
  BY Aarch64Pointer
<1>2. p \in [1 .. 4 -> HalfWord]
  BY <1>1
<1>3. 0 \in HalfWord
  BY SMT DEF HalfWord
<1>4. \A k \in 0 .. 4 : Loaded(p, k) \in [1 .. 4 -> HalfWord]
  BY <1>2, <1>3, SMT DEF Loaded
<1>5. Loaded(p, 0) = Aarch64!Zero /\ Loaded(p, 4) = p
  BY <1>2, SMT DEF Loaded, Aarch64!Zero
<1>6. ASSUME NEW k \in 0 .. 3
      PROVE  [Loaded(p, k) EXCEPT ![k + 1] = p[k + 1]] = Loaded(p, k + 1)
  <2> DEFINE f == [Loaded(p, k) EXCEPT ![k + 1] = p[k + 1]]
             g == Loaded(p, k + 1)
  <2>1. DOMAIN p = 1 .. 4
    BY <1>2
  <2>2. f = [q \in 1 .. 4 |-> IF q = k + 1 THEN p[k + 1] ELSE Loaded(p, k)[q]]
    BY <2>1, Zenon DEF Loaded
  <2>3. \A q \in 1 .. 4 : (IF q = k + 1 THEN p[k + 1] ELSE Loaded(p, k)[q]) = (IF q <= k + 1 THEN p[q] ELSE 0)
    BY <2>1, SMT DEF Loaded
  <2> QED BY <2>1, <2>2, <2>3, Zenon DEF Loaded
<1>7. [Aarch64!Zero EXCEPT ![1] = p[1]] = Loaded(p, 1)
  BY <1>2, SMT DEF Loaded, Aarch64!Zero
<1> QED BY <1>1, <1>2, <1>4, <1>5, <1>6, <1>7

LEMMA Aarch64Request ==
  ASSUME NEW r \in Aarch64Requests
  PROVE  /\ r.fnStart \in Nat /\ r.throwFn \in Nat /\ r.pError \in Aarch64!Pointer
         /\ \A q \in 1 .. 4 : r.pError[q] \in Int /\ r.pError[q] \in HalfWord
         /\ Aarch64!RelJumpAddr(r) \in Int /\ Aarch64!RelJumpAddr(r) % 4 = 0
         /\ r.throwFn = r.fnStart + 16 + Aarch64!RelJumpAddr(r)
<1>1. /\ r.fnStart \in Nat /\ r.throwFn \in Nat /\ r.pError \in Aarch64!Pointer
      /\ r.fnStart % 4 = 0 /\ r.throwFn % 4 = 0
  BY ArchAssumption, Zenon DEF Aarch64!ValidRequests
<1>2. \A q \in 1 .. 4 : r.pError[q] \in Int /\ r.pError[q] \in HalfWord
  BY <1>1, Aarch64Loads, HalfWordsAreInt
<1>3. Aarch64!RelJumpAddr(r) = r.throwFn - r.fnStart - 16
  BY <1>1, SMT DEF Aarch64!RelJumpAddr
<1> QED BY <1>1, <1>2, <1>3, SMT

\* The processor finds in the patch the five instructions put there.
LEMMA Aarch64PatchDecodes ==
  ASSUME NEW r \in Aarch64Requests
  PROVE  /\ Encodes(Aarch64Patch(r), Aarch64Insns(r), 5)
         /\ \A q \in 1 .. 4 :
              /\ Aarch64Insns(r)[q] = Aarch64Mov(r, q)
              /\ Aarch64!IsMov(Aarch64Mov(r, q), 210) <=> q = 1
              /\ Aarch64!IsMov(Aarch64Mov(r, q), 242) <=> q # 1
              /\ ~Aarch64!IsBranch(Aarch64Mov(r, q))
              /\ Aarch64!Quarter(Aarch64Mov(r, q)) = q
              /\ Aarch64!Imm16(Aarch64Mov(r, q)) = r.pError[q]
         /\ Aarch64Insns(r)[5] = Aarch64B(r) /\ Aarch64!IsBranch(Aarch64B(r))
         /\ ~Aarch64!IsMov(Aarch64B(r), 210) /\ ~Aarch64!IsMov(Aarch64B(r), 242)
<1>1. ASSUME NEW q \in 1 .. 4
      PROVE  /\ Aarch64Mov(r, q) \in Instruction
             /\ Aarch64!IsMov(Aarch64Mov(r, q), 210) <=> q = 1
             /\ Aarch64!IsMov(Aarch64Mov(r, q), 242) <=> q # 1
             /\ ~Aarch64!IsBranch(Aarch64Mov(r, q))
             /\ Aarch64!Quarter(Aarch64Mov(r, q)) = q
             /\ Aarch64!Imm16(Aarch64Mov(r, q)) = r.pError[q]
  <2>1. Aarch64Mov(r, q) = Aarch64!PopulateQuarterWord(r.pError[q], MovTemplate(q))
    BY DEF Aarch64Mov
  <2>2. r.pError[q] \in Int /\ r.pError[q] \in HalfWord
    BY Aarch64Request
  <2> QED BY <2>1, <2>2, Aarch64Quarter
<1>2. /\ Aarch64B(r) \in Instruction /\ Aarch64!IsBranch(Aarch64B(r))
      /\ ~Aarch64!IsMov(Aarch64B(r), 210) /\ ~Aarch64!IsMov(Aarch64B(r), 242)
  BY Aarch64Request, Aarch64Branch, SMT DEF Aarch64B
<1> DEFINE I == Aarch64Insns(r)
<1>3. (\A q \in 1 .. 4 : I[q] = Aarch64Mov(r, q)) /\ I[5] = Aarch64B(r)
  BY SMT DEF Aarch64Insns
<1> HIDE DEF I
<1>4. \A q \in 1 .. 5 : I[q] \in Instruction
  <2>1. \A q \in 1 .. 4 : I[q] \in Instruction
    <3>1. \A q \in 1 .. 4 : Aarch64Mov(r, q) \in Instruction
      BY <1>1
    <3> QED BY <1>3, <3>1, Zenon
  <2>2. I[5] \in Instruction
    BY <1>2, <1>3, Zenon
  <2> QED BY <2>1, <2>2, SMT
<1>5. ASSUME NEW m \in 1 .. 4, NEW c, Encodes(c, I, m)
      PROVE  Encodes(c \o I[m + 1], I, m + 1)
  <2>1. m \in Nat \ {0} /\ m + 1 \in 1 .. 5
    BY SMT
  <2> QED BY <1>4, <1>5, <2>1, NextInstruction, Zenon
<1>6. Encodes(I[1], I, 1)
  BY <1>4, FirstInstruction, SMT
<1>7. 1 \in 1 .. 4 /\ 2 \in 1 .. 4 /\ 3 \in 1 .. 4 /\ 4 \in 1 .. 4
  BY SMT
<1>8. 1 + 1 = 2 /\ 2 + 1 = 3 /\ 3 + 1 = 4 /\ 4 + 1 = 5
  BY SMT
<1>9. Encodes(I[1] \o I[2], I, 2)
  <2>1. Encodes(I[1] \o I[1 + 1], I, 1 + 1)
    BY <1>5, <1>6, <1>7, Zenon
  <2> QED BY <1>8, <2>1, Zenon
<1>10. Encodes(I[1] \o I[2] \o I[3], I, 3)
  <2>1. Encodes((I[1] \o I[2]) \o I[2 + 1], I, 2 + 1)
    BY <1>5, <1>7, <1>9, Zenon
  <2> QED BY <1>8, <2>1, Zenon
<1>11. Encodes(I[1] \o I[2] \o I[3] \o I[4], I, 4)
  <2>1. Encodes((I[1] \o I[2] \o I[3]) \o I[3 + 1], I, 3 + 1)
    BY <1>5, <1>7, <1>10, Zenon
  <2> QED BY <1>8, <2>1, Zenon
<1>12. Encodes(I[1] \o I[2] \o I[3] \o I[4] \o I[5], I, 5)
  <2>1. Encodes((I[1] \o I[2] \o I[3] \o I[4]) \o I[4 + 1], I, 4 + 1)
    BY <1>5, <1>7, <1>11, Zenon
  <2> QED BY <1>8, <2>1, Zenon
<1>13. Encodes(Aarch64Patch(r), Aarch64Insns(r), 5)
  BY <1>3, <1>7, <1>12, Zenon DEF Aarch64Patch, I
<1>14. (\A q \in 1 .. 4 : Aarch64Insns(r)[q] = Aarch64Mov(r, q)) /\ Aarch64Insns(r)[5] = Aarch64B(r)
  BY <1>3 DEF I
<1> QED BY <1>1, <1>2, <1>13, <1>14

\* Where a processor is in the patch, and what it has loaded so far.
Aarch64Inv ==
  /\ Aarch64!TypeOK
  /\ phase = "asked" => rip = request.fnStart /\ rdi = Aarch64!Zero
  /\ phase = "refused" => Aarch64!TooFar(Aarch64!RelJumpAddr(request))
  /\ phase \in {"running", "left"} =>
       /\ ~Aarch64!TooFar(Aarch64!RelJumpAddr(request))
       /\ code = Aarch64Patch(request)
  /\ phase = "running" =>
       \E k \in 0 .. 4 : rip = request.fnStart + 4 * k /\ rdi = Loaded(request.pError, k)
  /\ phase = "left" =>
       /\ rip = request.fnStart + 16 + 4 * Aarch64!Imm26(Aarch64B(request))
       /\ rdi = request.pError

LEMMA Aarch64Initial == ASSUME Aarch64!Init PROVE Aarch64Inv
<1>1. /\ request \in Aarch64Requests /\ phase = "asked" /\ code = <<>>
      /\ rip = request.fnStart /\ rdi = Aarch64!Zero
  BY DEF Aarch64!Init
<1>2. rip \in Int /\ rdi \in Aarch64!Pointer
  <2>1. request.fnStart \in Nat /\ request.pError \in Aarch64!Pointer
    BY <1>1, Aarch64Request
  <2>2. Aarch64!Zero \in Aarch64!Pointer
    BY <2>1, Aarch64Loads, SMT
  <2> QED BY <1>1, <2>1, <2>2, SMT
<1> QED BY <1>1, <1>2 DEF Aarch64Inv, Aarch64!TypeOK

\* The instruction behind the k that have been executed.
LEMMA Aarch64Executes ==
  ASSUME Aarch64Inv, phase = "running", Aarch64!Movz \/ Aarch64!Movk \/ Aarch64!Branch,
         NEW k \in 0 .. 4, rip = request.fnStart + 4 * k, rdi = Loaded(request.pError, k)
  PROVE  Aarch64Inv'
<1> DEFINE r == request
<1>1. /\ r \in Aarch64Requests /\ rip \in Int /\ rdi \in Aarch64!Pointer /\ code = Aarch64Patch(r)
      /\ ~Aarch64!TooFar(Aarch64!RelJumpAddr(r))
      /\ code \in [1 .. Aarch64!PatchSize -> 0 .. 255]
  BY Zenon DEF Aarch64Inv, Aarch64!TypeOK
<1>2. r.fnStart \in Nat /\ r.pError \in Aarch64!Pointer
  BY <1>1, Aarch64Request
<1>3. Aarch64!Insn = Aarch64Insns(r)[k + 1]
  <2>1. rip - r.fnStart + 1 = 4 * k + 1 /\ rip - r.fnStart + 4 = 4 * k + 4 /\ k \in 0 .. 5 - 1
    BY <1>2, SMT
  <2>2. Encodes(code, Aarch64Insns(r), 5)
    BY <1>1, Aarch64PatchDecodes
  <2> QED BY <2>1, <2>2, Zenon DEF Aarch64!Insn, Encodes
<1>4. UNCHANGED <<request, code>>
  BY DEF Aarch64!Movz, Aarch64!Movk, Aarch64!Branch
<1>5. ASSUME rdi' \in Aarch64!Pointer, rip' \in Int, phase' \in {"running", "left"}
      PROVE  Aarch64!TypeOK'
  BY <1>1, <1>4, <1>5, Zenon DEF Aarch64!TypeOK
<1>6. CASE k \in 0 .. 3
  <2>1. k + 1 \in 1 .. 4 /\ (k = 0 <=> k + 1 = 1)
    BY <1>6, SMT
  <2>2. Aarch64!Insn = Aarch64Mov(r, k + 1)
    <3>1. \A q \in 1 .. 4 : Aarch64Insns(r)[q] = Aarch64Mov(r, q)
      BY <1>1, Aarch64PatchDecodes
    <3> QED BY <1>3, <2>1, <3>1, Zenon
  <2>3. /\ rdi' = [IF k = 0 THEN Aarch64!Zero ELSE rdi EXCEPT ![k + 1] = r.pError[k + 1]]
        /\ rip' = rip + 4 /\ phase' = "running"
    BY <1>1, <2>1, <2>2, Aarch64PatchDecodes DEF Aarch64!Movz, Aarch64!Movk, Aarch64!Branch
  <2>4. rdi' = Loaded(r.pError, k + 1) /\ rdi' \in Aarch64!Pointer
    <3>1. rdi' = [Loaded(r.pError, k) EXCEPT ![k + 1] = r.pError[k + 1]]
      BY <1>2, <2>3, Aarch64Loads, Zenon
    <3>2. rdi' = Loaded(r.pError, k + 1)
      BY <1>2, <1>6, <3>1, Aarch64Loads
    <3>3. \A j \in 0 .. 4 : Loaded(r.pError, j) \in Aarch64!Pointer
      BY <1>2, Aarch64Loads
    <3>4. k + 1 \in 0 .. 4
      BY <2>1, SMT
    <3> QED BY <3>2, <3>3, <3>4, Zenon
  <2>5. rip' = r.fnStart + 4 * (k + 1) /\ rip' \in Int /\ k + 1 \in 0 .. 4
    BY <1>2, <1>6, <2>3, SMT
  <2>6. Aarch64!TypeOK'
    BY <1>5, <2>3, <2>4, <2>5
  <2> QED BY <1>1, <1>4, <2>3, <2>4, <2>5, <2>6 DEF Aarch64Inv
<1>7. CASE k = 4
  <2>1. Aarch64!Insn = Aarch64B(r)
    BY <1>1, <1>3, <1>7, Aarch64PatchDecodes, SMT
  <2>2. rdi' = rdi /\ rip' = rip + 4 * Aarch64!Imm26(Aarch64B(r)) /\ phase' = "left"
    BY <1>1, <2>1, Aarch64PatchDecodes DEF Aarch64!Movz, Aarch64!Movk, Aarch64!Branch
  <2>3. rdi = r.pError
    BY <1>2, <1>7, Aarch64Loads, Zenon
  <2>4. Aarch64!Imm26(Aarch64B(r)) \in Int
    BY <1>1, Aarch64Request, Aarch64Branch, SMT DEF Aarch64B
  <2>5. rip' = r.fnStart + 16 + 4 * Aarch64!Imm26(Aarch64B(r)) /\ rip' \in Int
    BY <1>2, <1>7, <2>2, <2>4, SMT
  <2>6. Aarch64!TypeOK'
    BY <1>1, <1>5, <2>2, <2>5
  <2> QED BY <1>1, <1>4, <2>2, <2>3, <2>5, <2>6, Zenon DEF Aarch64Inv
<1> QED BY <1>6, <1>7, SMT

LEMMA Aarch64Step == ASSUME Aarch64Inv, Aarch64!Next PROVE Aarch64Inv'
<1> DEFINE r == request
<1>1. r \in Aarch64Requests /\ rip \in Int /\ rdi \in Aarch64!Pointer
  BY Zenon DEF Aarch64Inv, Aarch64!TypeOK
<1>2. r.fnStart \in Nat /\ r.pError \in Aarch64!Pointer
  BY <1>1, Aarch64Request
<1>3. CASE Aarch64!Refuse
  BY <1>1, <1>3, Zenon DEF Aarch64!Refuse, Aarch64Inv, Aarch64!TypeOK
<1>4. CASE Aarch64!GetThrowOpcode
  <2>1. /\ code' = Aarch64Patch(r) /\ phase = "asked" /\ phase' = "running"
        /\ ~Aarch64!TooFar(Aarch64!RelJumpAddr(r)) /\ UNCHANGED <<request, rip, rdi>>
    <3>1. /\ MovTemplate(1) = <<0, 0, 128, 210>> /\ MovTemplate(2) = <<0, 0, 160, 242>>
          /\ MovTemplate(3) = <<0, 0, 192, 242>> /\ MovTemplate(4) = <<0, 0, 224, 242>>
      BY SMT DEF MovTemplate
    <3>2. code' = Aarch64Patch(r)
      BY <1>4, <3>1, Zenon DEF Aarch64!GetThrowOpcode, Aarch64Patch, Aarch64Mov, Aarch64B
    <3> QED BY <1>4, <3>2, Zenon DEF Aarch64!GetThrowOpcode
  <2>2. rip = r.fnStart + 4 * 0 /\ rdi = Loaded(r.pError, 0) /\ 0 \in 0 .. 4
    <3>1. rip = r.fnStart /\ rdi = Aarch64!Zero
      BY <2>1 DEF Aarch64Inv
    <3>2. r.fnStart = r.fnStart + 4 * 0 /\ 0 \in 0 .. 4
      BY <1>2, SMT
    <3> QED BY <1>2, <3>1, <3>2, Aarch64Loads, Zenon
  <2>3. code' \in [1 .. Aarch64!PatchSize -> 0 .. 255]
    <3>1. code' \in Seq(Byte) /\ Len(code') = 20
      BY <1>1, <2>1, Aarch64PatchDecodes, SMT DEF Encodes
    <3>2. code' \in [1 .. 20 -> Byte]
      BY <3>1, LenProperties, Zenon
    <3> QED BY <3>2, SMT DEF Byte, Aarch64!PatchSize
  <2>4. Aarch64!TypeOK'
    BY <1>1, <2>1, <2>3, Zenon DEF Aarch64!TypeOK
  <2> QED BY <2>1, <2>2, <2>4, Zenon DEF Aarch64Inv
<1>5. CASE Aarch64!Movz \/ Aarch64!Movk \/ Aarch64!Branch
  <2>1. phase = "running"
    BY <1>5 DEF Aarch64!Movz, Aarch64!Movk, Aarch64!Branch, Aarch64!Running
  <2>2. PICK k \in 0 .. 4 : rip = r.fnStart + 4 * k /\ rdi = Loaded(r.pError, k)
    BY <2>1 DEF Aarch64Inv
  <2> QED BY <1>5, <2>1, <2>2, Aarch64Executes
<1> QED BY <1>3, <1>4, <1>5 DEF Aarch64!Next

\* A processor that has left the patch is at throwFn exactly if a B reaches it.
LEMMA Aarch64Arrives ==
  ASSUME Aarch64Inv, phase = "left"
  PROVE  Aarch64!ArrivesAtThrow <=> request \in Aarch64!InReach
<1> DEFINE r == request
           d == Aarch64!RelJumpAddr(r)
           i == Aarch64!Imm26(Aarch64B(r))
<1>1. /\ r \in Aarch64Requests /\ rip = r.fnStart + 16 + 4 * i /\ rdi = r.pError
      /\ ~Aarch64!TooFar(d)
  BY Zenon DEF Aarch64Inv, Aarch64!TypeOK
<1>2. /\ r.fnStart \in Nat /\ r.throwFn \in Nat /\ d \in Int /\ d % 4 = 0
      /\ r.throwFn = r.fnStart + 16 + d
  BY <1>1, Aarch64Request, Zenon
<1>3. d \in Unsigned28
  <2> HIDE DEF d
  <2>1. d \div 2^28 = 0
    BY <1>1, SMT DEF Aarch64!TooFar
  <2> QED BY <1>2, <2>1, SMT DEF Unsigned28
<1>4. i \in Int /\ 4 * i = d - (d % 4) - (IF d >= 2^27 THEN 2^28 ELSE 0)
  <2>1. Aarch64B(r) = Aarch64!PopulateJumpAddr(d, <<0, 0, 0, 20>>)
    BY DEF Aarch64B
  <2> HIDE DEF d
  <2>2. Aarch64!Imm26(Aarch64B(r)) \in Int
    BY <1>2, <2>1, Aarch64Branch
  <2>3. 4 * Aarch64!Imm26(Aarch64B(r)) = d - (d % 4) - (IF d >= 2^27 THEN 2^28 ELSE 0)
    BY <1>2, <1>3, <2>1, Aarch64Branch
  <2> QED BY <2>2, <2>3
<1>5. Aarch64!ArrivesAtThrow <=> rip = r.throwFn
  BY <1>1, Zenon DEF Aarch64!ArrivesAtThrow
<1>6. request \in Aarch64!InReach <=> d \in -2^27 .. 2^27 - 4
  BY <1>1, SMT DEF Aarch64!InReach
<1> HIDE DEF r, d, i
<1>7. rip = r.throwFn <=> d < 2^27
  BY <1>1, <1>2, <1>4, SMT
<1>8. d \in -2^27 .. 2^27 - 4 <=> d < 2^27
  BY <1>2, <1>3, SMT DEF Unsigned28
<1> QED BY <1>5, <1>6, <1>7, <1>8, SMT

LEMMA Aarch64Stutter == ASSUME Aarch64Inv, UNCHANGED vars PROVE Aarch64Inv'
BY Zenon DEF Aarch64Inv, Aarch64!TypeOK, vars

\* The two gaps of the range check: what it lets through and a B does not reach,
\* and what it refuses although a B reaches it.
NoneWrapped == \A r \in Aarch64Requests : Aarch64!RelJumpAddr(r) \notin 2^27 .. 2^28 - 1
NoneBehind  == \A r \in Aarch64Requests : Aarch64!RelJumpAddr(r) \notin -2^27 .. -1

\* The range check lets through the 2^28 distances ahead, and no other.
LEMMA Aarch64Check ==
  ASSUME NEW r \in Aarch64Requests
  PROVE  Aarch64!TooFar(Aarch64!RelJumpAddr(r)) <=> Aarch64!RelJumpAddr(r) \notin Unsigned28
<1> DEFINE d == Aarch64!RelJumpAddr(r)
<1>1. d \in Int
  BY Aarch64Request
<1> HIDE DEF d
<1>2. d \div 2^28 = 0 <=> d \in Unsigned28
  BY <1>1, SMT DEF Unsigned28
<1> QED BY <1>2 DEF Aarch64!TooFar, d

LEMMA Distances28 ==
  ASSUME NEW d \in Int, d % 4 = 0
  PROVE  /\ d \notin 2^27 .. 2^28 - 1 /\ d \in Unsigned28 => d \in -2^27 .. 2^27 - 4
         /\ d \notin -2^27 .. -1 /\ d \notin Unsigned28 => d \notin -2^27 .. 2^27 - 4
<1>1. d \in 2^27 .. 2^28 - 1 <=> 2^27 <= d /\ d < 2^28
  BY SMT
<1>2. d \in Unsigned28 <=> 0 <= d /\ d < 2^28
  BY SMT DEF Unsigned28
<1>3. d < 2^27 => d <= 2^27 - 4
  BY SMT
<1>4. d \in -2^27 .. -1 <=> -2^27 <= d /\ d < 0
  BY SMT
<1>5. d \in -2^27 .. 2^27 - 4 <=> -2^27 <= d /\ d <= 2^27 - 4
  BY SMT
<1>6. ~(d \in 2^27 .. 2^28 - 1) /\ d \in Unsigned28 => d \in -2^27 .. 2^27 - 4
  BY <1>1, <1>2, <1>3, <1>5, SMT
<1>7. ~(d \in -2^27 .. -1) /\ ~(d \in Unsigned28) => ~(d \in -2^27 .. 2^27 - 4)
  BY <1>2, <1>4, <1>5, SMT
<1> QED BY <1>6, <1>7, Zenon

\* So it judges every request rightly, if none is in a gap.
LEMMA Aarch64Served ==
  ASSUME NEW r \in Aarch64Requests
  PROVE  /\ NoneWrapped /\ ~Aarch64!TooFar(Aarch64!RelJumpAddr(r)) => r \in Aarch64!InReach
         /\ NoneBehind /\ Aarch64!TooFar(Aarch64!RelJumpAddr(r)) => r \notin Aarch64!InReach
<1> DEFINE d == Aarch64!RelJumpAddr(r)
<1>1. d \in Int /\ d % 4 = 0 /\ (Aarch64!TooFar(d) <=> d \notin Unsigned28)
  BY Aarch64Request, Aarch64Check
<1>2. r \in Aarch64!InReach <=> d \in -2^27 .. 2^27 - 4
  BY SMT DEF Aarch64!InReach
<1>3. NoneWrapped => d \notin 2^27 .. 2^28 - 1
  BY Zenon DEF NoneWrapped
<1>4. NoneBehind => d \notin -2^27 .. -1
  BY Zenon DEF NoneBehind
<1> HIDE DEF d
<1>5. d \notin 2^27 .. 2^28 - 1 /\ d \in Unsigned28 => d \in -2^27 .. 2^27 - 4
  BY <1>1, Distances28
<1>6. d \notin -2^27 .. -1 /\ d \notin Unsigned28 => d \notin -2^27 .. 2^27 - 4
  BY <1>1, Distances28
<1>7. /\ NoneWrapped /\ ~Aarch64!TooFar(d) => r \in Aarch64!InReach
      /\ NoneBehind /\ Aarch64!TooFar(d) => r \notin Aarch64!InReach
  BY <1>1, <1>2, <1>3, <1>4, <1>5, <1>6
<1> QED BY <1>7 DEF d

\* A step of generator and processor keeps the contract.
LEMMA Aarch64Promise ==
  ASSUME NoneBehind, Aarch64Inv, Aarch64!Next \/ UNCHANGED vars, Aarch64!ArrivesAtThrow'
  PROVE  /\ request' = request
         /\ ContractStep(Aarch64!Outcome, Aarch64!Outcome', Aarch64!Thrown, Aarch64!Thrown',
                         request \in Aarch64!InReach)
<1>1. request \in Aarch64Requests
  BY DEF Aarch64Inv, Aarch64!TypeOK
<1>2. CASE Aarch64!Refuse
  <2>1. request \notin Aarch64!InReach
    BY <1>1, <1>2, Aarch64Served DEF Aarch64!Refuse
  <2> QED BY <1>2, <2>1 DEF Aarch64!Refuse, ContractStep, Aarch64!Outcome, Aarch64!Thrown
<1>3. CASE Aarch64!GetThrowOpcode
  BY <1>3 DEF Aarch64!GetThrowOpcode, ContractStep, Aarch64!Outcome, Aarch64!Thrown
<1>4. CASE Aarch64!Movz \/ Aarch64!Movk
  BY <1>4 DEF Aarch64!Movz, Aarch64!Movk, Aarch64!Running, ContractStep, Aarch64!Outcome, Aarch64!Thrown
<1>5. CASE Aarch64!Branch
  BY <1>5 DEF Aarch64!Branch, Aarch64!Running, Aarch64!ArrivesAtThrow, ContractStep, Aarch64!Outcome, Aarch64!Thrown
<1>6. CASE UNCHANGED vars
  BY <1>6 DEF vars, ContractStep, Aarch64!Outcome, Aarch64!Thrown
<1> QED BY <1>2, <1>3, <1>4, <1>5, <1>6 DEF Aarch64!Next

-----------------------------------------------------------------------------
(* The library for any architecture.                                        *)

Architectures == {"Amd64", "ArmThumb2", "Aarch64", "Fallback"}

FallbackInv ==
  /\ request \in FallbackRequests /\ code = <<>> /\ rip = request.fnStart
  /\ phase \in {"asked", "aborted", "left"}
  /\ phase = "left" => NDEBUG

ArchInv ==
  /\ arch \in Architectures
  /\ arch = "Amd64"     => X64Inv
  /\ arch = "ArmThumb2" => ThumbInv
  /\ arch = "Aarch64"   => Aarch64Inv
  /\ arch = "Fallback"  => FallbackInv

LEMMA ArchInvariance == ArchSpec => []ArchInv
<1>1. ASSUME ArchInit PROVE ArchInv
  <2>1. CASE arch = "Amd64" /\ Init
    BY <2>1, X64Initial DEF ArchInv, Architectures
  <2>2. CASE arch = "ArmThumb2" /\ Thumb!Init
    BY <2>2, ThumbInitial DEF ArchInv, Architectures
  <2>3. CASE arch = "Aarch64" /\ Aarch64!Init
    BY <2>3, Aarch64Initial DEF ArchInv, Architectures
  <2>4. CASE arch = "Fallback" /\ FallbackInit
    BY <2>4 DEF ArchInv, Architectures, FallbackInit, FallbackInv
  <2> QED BY <1>1, <2>1, <2>2, <2>3, <2>4 DEF ArchInit
<1>2. ASSUME ArchInv, [ArchNext]_archVars PROVE ArchInv'
  <2>1. arch' = arch
    BY <1>2 DEF ArchNext, archVars
  <2>2. CASE arch = "Amd64"
    <3>1. X64Inv /\ (Next \/ UNCHANGED vars)
      BY <1>2, <2>2 DEF ArchInv, ArchNext, archVars
    <3>2. X64Inv'
      BY <3>1, X64Step, X64Stutter
    <3> QED BY <2>1, <2>2, <3>2 DEF ArchInv, Architectures
  <2>3. CASE arch = "ArmThumb2"
    <3>1. ThumbInv /\ (Thumb!Next \/ UNCHANGED vars)
      BY <1>2, <2>3 DEF ArchInv, ArchNext, archVars
    <3>2. ThumbInv'
      BY <3>1, ThumbStep, ThumbStutter
    <3> QED BY <2>1, <2>3, <3>2 DEF ArchInv, Architectures
  <2>4. CASE arch = "Aarch64"
    <3>1. Aarch64Inv /\ (Aarch64!Next \/ UNCHANGED vars)
      BY <1>2, <2>4 DEF ArchInv, ArchNext, archVars
    <3>2. Aarch64Inv'
      BY <3>1, Aarch64Step, Aarch64Stutter
    <3> QED BY <2>1, <2>4, <3>2 DEF ArchInv, Architectures
  <2>5. CASE arch = "Fallback"
    <3>1. FallbackInv /\ (FallbackGetThrowOpcode \/ UNCHANGED vars)
      BY <1>2, <2>5 DEF ArchInv, ArchNext, archVars
    <3>2. FallbackInv'
      BY <3>1 DEF FallbackInv, FallbackGetThrowOpcode, vars
    <3> QED BY <2>1, <2>5, <3>2 DEF ArchInv, Architectures
  <2> QED BY <1>2, <2>2, <2>3, <2>4, <2>5 DEF ArchInv, Architectures
<1> QED BY <1>1, <1>2, PTL DEF ArchSpec

\* Operands fit the fields they are put into and addresses stay addresses, on every
\* architecture and for every request, also one that is out of reach.
THEOREM ArchTypeCorrect == ArchSpec => []ArchTypeOK
<1>1. ASSUME ArchInv PROVE ArchTypeOK
  BY <1>1 DEF ArchInv, Architectures, X64Inv, ThumbInv, Aarch64Inv, FallbackInv, ArchTypeOK, OfArch
<1> QED BY <1>1, ArchInvariance, PTL

\* Whether the target of a request is in the reach of the architecture's branch.
ArchInReach ==
  OfArch(request \in InReach, request \in Thumb!InReach, request \in Aarch64!InReach, FALSE)

\* A processor that leaves the patch has thrown pError exactly if the branch of its
\* architecture reaches throwFn: the truncation of the distance never leads there by
\* chance, and nothing else in the patch goes wrong.
THEOREM ArrivesIffInReach ==
  ArchSpec => [](phase = "left" => (ArchArrivesAtThrow <=> ArchInReach))
<1>1. ASSUME ArchInv, phase = "left" PROVE ArchArrivesAtThrow <=> ArchInReach
  <2>1. CASE arch = "Amd64"
    BY <1>1, <2>1, X64Arrives DEF ArchInv, ArchArrivesAtThrow, ArchInReach, OfArch
  <2>2. CASE arch = "ArmThumb2"
    BY <1>1, <2>2, ThumbArrives DEF ArchInv, ArchArrivesAtThrow, ArchInReach, OfArch
  <2>3. CASE arch = "Aarch64"
    BY <1>1, <2>3, Aarch64Arrives DEF ArchInv, ArchArrivesAtThrow, ArchInReach, OfArch
  <2>4. CASE arch = "Fallback"
    BY <1>1, <2>4, ArchAssumption
    DEF ArchInv, FallbackInv, ArchArrivesAtThrow, ArrivesAtThrow, ArchInReach, OfArch
  <2> QED BY <1>1, <2>1, <2>2, <2>3, <2>4 DEF ArchInv, Architectures
<1> QED BY <1>1, ArchInvariance, PTL

\* A library without assertions is not built for other architectures: its fallback
\* returns an empty patch, as if that were code that throws.
FallbackAsserts == NDEBUG => FallbackRequests = {}

\* What a generator emits code for, its branch reaches: no x86-64 target is Half
\* ahead, no AArch64 target between 2^27 and 2^28, all Thumb-2 targets are near, and
\* the fallback emits nothing.
EmitsInReach == NoneAtHalf /\ AllInReachOfBw /\ NoneWrapped /\ FallbackAsserts

\* If the distances that the range checks misjudge, or that nothing checks, do not
\* occur, and the fallback is built with its assertion, then executing the patch
\* throws pError on every architecture.
THEOREM ArchPatchThrows == ASSUME EmitsInReach PROVE ArchSpec => []ArchArrivesAtThrow
<1>1. ASSUME ArchInv, phase = "left" => (ArchArrivesAtThrow <=> ArchInReach)
      PROVE  ArchArrivesAtThrow
  <2>1. CASE phase # "left"
    BY <1>1, <2>1
    DEF ArchInv, Architectures, ArchArrivesAtThrow, OfArch,
        ArrivesAtThrow, Thumb!ArrivesAtThrow, Aarch64!ArrivesAtThrow
  <2>2. CASE phase = "left"
    <3>1. CASE arch = "Amd64"
      <4>1. request \in Requests /\ ~TooFar(request)
        BY <1>1, <2>2, <3>1 DEF ArchInv, X64Inv, TypeOK
      <4>2. request \in InReach
        BY <4>1, X64Served DEF EmitsInReach
      <4> QED BY <1>1, <2>2, <3>1, <4>2 DEF ArchInReach, OfArch
    <3>2. CASE arch = "ArmThumb2"
      <4>1. request \in Thumb!InReach
        BY <1>1, <3>2, Zenon DEF ArchInv, ThumbInv, Thumb!TypeOK, EmitsInReach, AllInReachOfBw
      <4> QED BY <1>1, <2>2, <3>2, <4>1 DEF ArchInReach, OfArch
    <3>3. CASE arch = "Aarch64"
      <4>1. request \in Aarch64Requests /\ ~Aarch64!TooFar(Aarch64!RelJumpAddr(request))
        BY <1>1, <2>2, <3>3, Zenon DEF ArchInv, Aarch64Inv, Aarch64!TypeOK
      <4>2. request \in Aarch64!InReach
        BY <4>1, Aarch64Served DEF EmitsInReach
      <4> QED BY <1>1, <2>2, <3>3, <4>2 DEF ArchInReach, OfArch
    <3>4. CASE arch = "Fallback"
      BY <1>1, <2>2, <3>4 DEF ArchInv, FallbackInv, EmitsInReach, FallbackAsserts
    <3> QED BY <1>1, <3>1, <3>2, <3>3, <3>4 DEF ArchInv, Architectures
  <2> QED BY <2>1, <2>2
<1> QED BY <1>1, ArchInvariance, ArrivesIffInReach, PTL

\* The requests tell the architectures apart: the contract's constants cannot name
\* the architecture of a build, so a request stands for a call in one of them.
RequestsApart ==
  /\ Requests \cap ThumbRequests = {} /\ Requests \cap Aarch64Requests = {}
  /\ ThumbRequests \cap Aarch64Requests = {}
  /\ FallbackRequests \cap (Requests \cup ThumbRequests \cup Aarch64Requests) = {}

ArchOutcome == OfArch(Outcome, Thumb!Outcome, Aarch64!Outcome, FallbackOutcome)
ArchThrown  == OfArch(Thrown, Thumb!Thrown, Aarch64!Thrown, Thrown)

\* Whatever the architecture, a step keeps the contract.
LEMMA ArchPromise ==
  ASSUME NoneAtHalf, NoneBehind, FallbackAsserts, RequestsApart,
         ArchInv, [ArchNext]_archVars, ArchArrivesAtThrow'
  PROVE  /\ request' = request
         /\ ContractStep(ArchOutcome, ArchOutcome', ArchThrown, ArchThrown',
                         request \in InReach \cup Thumb!InReach \cup Aarch64!InReach)
<1> DEFINE reached == request \in InReach \cup Thumb!InReach \cup Aarch64!InReach
<1>1. /\ InReach \subseteq Requests /\ Thumb!InReach \subseteq ThumbRequests
      /\ Aarch64!InReach \subseteq Aarch64Requests
  BY DEF InReach, Thumb!InReach, Aarch64!InReach
<1>2. arch' = arch
  BY DEF ArchNext, archVars
<1>3. CASE arch = "Amd64"
  <2>1. /\ ArchOutcome = Outcome /\ ArchThrown = Thrown
        /\ ArchOutcome' = Outcome' /\ ArchThrown' = Thrown'
    BY <1>2, <1>3 DEF ArchOutcome, ArchThrown, OfArch
  <2>2. X64Inv /\ [Next]_vars /\ ArrivesAtThrow'
    BY <1>2, <1>3 DEF ArchInv, ArchNext, archVars, ArchArrivesAtThrow, OfArch
  <2>3. reached <=> request \in InReach
    BY <1>1, <2>2 DEF X64Inv, TypeOK, RequestsApart
  <2> QED BY <2>1, <2>2, <2>3, X64Promise
<1>4. CASE arch = "ArmThumb2"
  <2>1. /\ ArchOutcome = Thumb!Outcome /\ ArchThrown = Thumb!Thrown
        /\ ArchOutcome' = Thumb!Outcome' /\ ArchThrown' = Thumb!Thrown'
    BY <1>2, <1>4 DEF ArchOutcome, ArchThrown, OfArch
  <2>2. ThumbInv /\ (Thumb!Next \/ UNCHANGED vars) /\ Thumb!ArrivesAtThrow'
    BY <1>2, <1>4 DEF ArchInv, ArchNext, archVars, ArchArrivesAtThrow, OfArch
  <2>3. reached <=> request \in Thumb!InReach
    <3>1. request \in ThumbRequests
      BY <2>2, Zenon DEF ThumbInv, Thumb!TypeOK
    <3> QED BY <1>1, <3>1 DEF RequestsApart
  <2> QED BY <2>1, <2>2, <2>3, ThumbPromise
<1>5. CASE arch = "Aarch64"
  <2>1. /\ ArchOutcome = Aarch64!Outcome /\ ArchThrown = Aarch64!Thrown
        /\ ArchOutcome' = Aarch64!Outcome' /\ ArchThrown' = Aarch64!Thrown'
    BY <1>2, <1>5 DEF ArchOutcome, ArchThrown, OfArch
  <2>2. Aarch64Inv /\ (Aarch64!Next \/ UNCHANGED vars) /\ Aarch64!ArrivesAtThrow'
    BY <1>2, <1>5 DEF ArchInv, ArchNext, archVars, ArchArrivesAtThrow, OfArch
  <2>3. reached <=> request \in Aarch64!InReach
    <3>1. request \in Aarch64Requests
      BY <2>2, Zenon DEF Aarch64Inv, Aarch64!TypeOK
    <3> QED BY <1>1, <3>1 DEF RequestsApart
  <2> QED BY <2>1, <2>2, <2>3, Aarch64Promise
<1>6. CASE arch = "Fallback"
  <2>1. /\ ArchOutcome = FallbackOutcome /\ ArchThrown = Thrown
        /\ ArchOutcome' = FallbackOutcome' /\ ArchThrown' = Thrown'
    BY <1>2, <1>6 DEF ArchOutcome, ArchThrown, OfArch
  <2>2. FallbackInv /\ (FallbackGetThrowOpcode \/ UNCHANGED vars)
    BY <1>6 DEF ArchInv, ArchNext, archVars
  <2>3. ~reached
    BY <1>1, <2>2 DEF FallbackInv, RequestsApart
  <2>4. phase \in {"asked", "aborted"} /\ ~NDEBUG
    BY <2>2 DEF FallbackInv, FallbackAsserts
  <2>5. /\ request' = request /\ phase' \in {"asked", "aborted"}
        /\ phase = "aborted" => phase' = "aborted"
    BY <2>2, <2>4 DEF FallbackGetThrowOpcode, vars
  <2>6. Thrown = Nothing /\ Thrown' = Nothing
    BY <2>4, <2>5 DEF Thrown
  <2>7. /\ FallbackOutcome = IF phase = "aborted" THEN "refused" ELSE "asked"
        /\ FallbackOutcome' = IF phase' = "aborted" THEN "refused" ELSE "asked"
    BY <2>4, <2>5 DEF FallbackOutcome, Outcome
  <2> QED BY <2>1, <2>3, <2>4, <2>5, <2>6, <2>7 DEF ContractStep
<1> QED BY <1>3, <1>4, <1>5, <1>6 DEF ArchInv, Architectures

\* If the range checks judge every request rightly and the fallback asserts, every
\* step of generator and processor on every architecture is a step of the contract
\* of IOpcodeGenerator or leaves its variables alone: only what is out of reach is
\* refused, and what is thrown is pError, after the code has been emitted.
THEOREM ArchStepsImplementContract ==
  ASSUME EmitsInReach, NoneBehind, RequestsApart
  PROVE  ArchSpec => ArchContract!Init /\ [][ArchContract!Next]_ArchContract!vars
<1>1. ASSUME ArchInit PROVE ArchContract!Init
  <2>1. CASE arch = "Amd64" /\ Init
    BY <2>1 DEF Init, ArchContract!Init, OfArch, Outcome, Thrown
  <2>2. CASE arch = "ArmThumb2" /\ Thumb!Init
    BY <2>2 DEF Thumb!Init, ArchContract!Init, OfArch, Thumb!Outcome, Thumb!Thrown
  <2>3. CASE arch = "Aarch64" /\ Aarch64!Init
    BY <2>3 DEF Aarch64!Init, ArchContract!Init, OfArch, Aarch64!Outcome, Aarch64!Thrown
  <2>4. CASE arch = "Fallback" /\ FallbackInit
    BY <2>4 DEF FallbackInit, ArchContract!Init, OfArch, FallbackOutcome, Outcome, Thrown
  <2> QED BY <1>1, <2>1, <2>2, <2>3, <2>4 DEF ArchInit
<1>2. ASSUME ArchInv, [ArchNext]_archVars, ArchArrivesAtThrow'
      PROVE  [ArchContract!Next]_ArchContract!vars
  <2>1. /\ request' = request
        /\ ContractStep(ArchOutcome, ArchOutcome', ArchThrown, ArchThrown',
                        request \in InReach \cup Thumb!InReach \cup Aarch64!InReach)
    BY <1>2, ArchPromise DEF EmitsInReach
  <2> QED BY <2>1 DEF ContractStep, ArchContract!Next, ArchContract!Refuse, ArchContract!Emit,
                      ArchContract!Throw, ArchContract!vars, ArchOutcome, ArchThrown
<1> QED BY <1>1, <1>2, ArchInvariance, ArchPatchThrows, PTL DEF ArchSpec
=============================================================================
