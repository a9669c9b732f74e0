-------------------------- MODULE ElfSymbolsProofs --------------------------
(***************************************************************************)
(* For every set of symbols and every file whose functions are in one       *)
(* section, GetContainingFunction finds the function that contains an       *)
(* offset.  The argument is that of a binary search: everything in front of *)
(* the part still searched starts before the offset, nothing behind it does.*)
(***************************************************************************)
EXTENDS ElfSymbols, FiniteSetTheorems, TLAPS

\* The part of the table that is ruled out lies on its side of the offset.
SearchInv ==
  query.pc = "search" =>
    \A i \in 1 .. Size :
      /\ i < query.first => Before(table[i], query.offset)
      /\ i >= query.first + query.len => ~Before(table[i], query.offset)

IInv == TypeOK /\ (OneSection => SearchInv /\ FindsContaining)

\* A file's functions are finitely many symbols, and addresses are naturals.
LEMMA FileFacts ==
  ASSUME TypeOK
  PROVE  /\ Size \in Nat
         /\ file.functions \subseteq Symbols
         /\ \A s \in Symbols : /\ file.value[s] \in Nat
                               /\ file.filepos[file.section[s]] \in Nat
                               /\ Address(s) \in Nat
<1>1. file \in FileType
  BY FilesAssumption DEF TypeOK
<1>2. IsFiniteSet(file.functions)
  BY <1>1, FilesAssumption, FS_Subset DEF FileType
<1> QED BY <1>1, <1>2, FS_CardinalityType DEF Size, FileType, Address

\* The table lists the functions, and in one section it is sorted by address.
LEMMA TableFacts ==
  ASSUME TypeOK, table \in Sorted
  PROVE  /\ table \in [1 .. Size -> file.functions]
         /\ \A s \in file.functions : \E i \in 1 .. Size : table[i] = s
         /\ OneSection => \A i, j \in 1 .. Size : i < j => Address(table[i]) <= Address(table[j])
<1>1. /\ table \in [1 .. Size -> file.functions]
      /\ \A s \in file.functions : \E i \in 1 .. Size : table[i] = s
      /\ \A i, j \in 1 .. Size : i < j => file.value[table[i]] <= file.value[table[j]]
  BY DEF Sorted, Bijection, Injection, Surjection
<1>2. ASSUME OneSection, NEW i \in 1 .. Size, NEW j \in 1 .. Size, i < j
      PROVE  Address(table[i]) <= Address(table[j])
  <2>1. table[i] \in file.functions /\ table[j] \in file.functions
    BY <1>1
  <2>2. file.section[table[i]] = file.section[table[j]]
    BY <1>2, <2>1 DEF OneSection
  <2>3. file.value[table[i]] <= file.value[table[j]]
    BY <1>1, <1>2
  <2> QED BY <2>1, <2>2, <2>3, FileFacts DEF Address
<1> QED BY <1>1, <1>2

\* A call starts on a table that holds every function, sorted.
LEMMA TypeCall ==
  ASSUME TypeOK, NEW o \in Offsets, GetContainingFunction(o)
  PROVE  TypeOK' /\ (Size > 0 => table' \in Sorted)
<1>1. table' \in Sorted
  BY DEF GetContainingFunction, Load, TypeOK
<1>2. query' = Query("search", o, 1, Size) /\ UNCHANGED <<file, answers>>
  BY DEF GetContainingFunction
<1>3. Size' = Size /\ Sorted' = Sorted
  BY <1>2 DEF Size, Sorted
<1>4. o \in Nat
  BY FilesAssumption
<1> QED BY <1>1, <1>2, <1>3, <1>4, FileFacts DEF TypeOK, Query, QueryType

\* One round of the search keeps it within the table.
LEMMA TypeProbe ==
  ASSUME TypeOK, Probe
  PROVE  /\ TypeOK'
         /\ query.first + query.len \div 2 \in 1 .. Size
         /\ table \in Sorted
<1>1. /\ query.first \in Nat /\ query.len \in Nat \ {0} /\ query.first >= 1
      /\ query.first + query.len <= Size + 1 /\ Size \in Nat
      /\ query.offset \in Offsets /\ query.offset \in Nat
  BY FileFacts DEF TypeOK, Probe, QueryType
<1>2. table \in Sorted
  BY <1>1 DEF TypeOK, Probe
<1>3. query.len \div 2 \in 0 .. query.len - 1
  BY <1>1
<1>4. \/ query' = Query("search", query.offset, query.first + query.len \div 2 + 1, query.len - query.len \div 2 - 1)
      \/ query' = Query("search", query.offset, query.first, query.len \div 2)
  BY DEF Probe
<1>5. UNCHANGED <<file, table, answers>>
  BY DEF Probe
<1>6. Size' = Size /\ Sorted' = Sorted
  BY <1>5 DEF Size, Sorted
<1>7. /\ query' \in QueryType
      /\ query'.pc = "search" /\ query'.offset = query.offset
      /\ query'.first >= 1 /\ query'.first + query'.len <= Size + 1
  BY <1>1, <1>3, <1>4 DEF Query, QueryType
<1> QED BY <1>1, <1>2, <1>3, <1>5, <1>6, <1>7 DEF TypeOK

\* What is read behind the table is the value of some symbol.
LEMMA EndTypes ==
  ASSUME TypeOK, NEW next \in 1 .. Size + 1, Size > 0 => table \in Sorted, NEW end \in EndValues(next)
  PROVE  end \in Nat
<1>1. CASE next <= Size
  <2>1. Size \in Nat /\ next \in 1 .. Size
    BY <1>1, FileFacts
  <2>2. table[next] \in Symbols
    BY <2>1, TableFacts, FileFacts
  <2> QED BY <1>1, <2>2, FileFacts DEF EndValues
<1>2. CASE ~(next <= Size)
  BY <1>2, FileFacts DEF EndValues
<1> QED BY <1>1, <1>2

\* A result is a function of the file or one of the two failures.
LEMMA ResultTypes ==
  ASSUME TypeOK, NEW next \in 1 .. Size + 1, Size > 0 => table \in Sorted, NEW r \in Results(next)
  PROVE  /\ r \in AnswerType
         /\ \/ r = Failed("crash") /\ (next = 1 \/ EndValues(next) = {})
            \/ r = Failed("logic_error")
            \/ /\ next # 1
               /\ \E end \in EndValues(next) : r = Function_t(table[next - 1], end)
<1>1. CASE next = 1 \/ EndValues(next) = {}
  BY <1>1 DEF Results, Failed, AnswerType
<1>2. CASE ~(next = 1 \/ EndValues(next) = {})
  <2>1. Size \in Nat /\ next - 1 \in 1 .. Size
    BY <1>2, FileFacts
  <2>2. table[next - 1] \in Symbols
    BY <2>1, TableFacts, FileFacts
  <2>3. ASSUME NEW end \in EndValues(next) PROVE Function_t(table[next - 1], end) \in AnswerType
    BY <2>2, EndTypes, FileFacts DEF Function_t, AnswerType
  <2> QED BY <1>2, <2>3 DEF Results, Failed, AnswerType
<1> QED BY <1>1, <1>2

\* A call that returns records its result.
LEMMA TypeReturn ==
  ASSUME TypeOK, Return
  PROVE  /\ TypeOK'
         /\ query.offset \in Offsets /\ query.first \in 1 .. Size + 1
         /\ Size > 0 => table \in Sorted
         /\ \E r \in Results(query.first) :
              \A o \in Offsets : answers'[o] = IF o = query.offset THEN r ELSE answers[o]
<1>1. /\ query.offset \in Offsets /\ query.first \in 1 .. Size + 1
      /\ Size > 0 => table \in Sorted
  BY FileFacts DEF TypeOK, Return, QueryType
<1>2. PICK r \in Results(query.first) : answers' = [answers EXCEPT ![query.offset] = r]
  BY DEF Return
<1>3. r \in AnswerType
  BY <1>1, <1>2, ResultTypes
<1>4. answers \in [Offsets -> AnswerType]
  BY DEF TypeOK
<1>5. answers' \in [Offsets -> AnswerType]
  BY <1>2, <1>3, <1>4
<1>6. UNCHANGED <<file, table>> /\ query' \in QueryType /\ query'.pc # "search"
  BY DEF Return, Query, QueryType
<1>7. Sorted' = Sorted
  BY <1>6 DEF Sorted, Size
<1> QED BY <1>1, <1>2, <1>4, <1>5, <1>6, <1>7 DEF TypeOK

\* Every round rules out elements on the right side: the table is sorted, so
\* what holds of the middle element holds of all in front of or behind it.
LEMMA SearchNarrows ==
  ASSUME TypeOK, OneSection, SearchInv, Probe
  PROVE  SearchInv'
<1> DEFINE middle == query.first + query.len \div 2
<1>1. /\ Size \in Nat /\ middle \in 1 .. Size /\ table \in Sorted
      /\ query.first \in Nat /\ query.len \in Nat \ {0}
      /\ query.offset \in Nat /\ query.pc = "search"
  BY TypeProbe, FileFacts, FilesAssumption DEF TypeOK, QueryType, Probe
<1>2. \A i \in 1 .. Size : table[i] \in file.functions /\ Address(table[i]) \in Nat
  BY <1>1, TableFacts, FileFacts
<1>3. \A i, j \in 1 .. Size : i < j => Address(table[i]) <= Address(table[j])
  BY <1>1, TableFacts
<1>4. Size' = Size /\ table' = table /\ \A i \in 1 .. Size : Address(table[i])' = Address(table[i])
  BY DEF Probe, Size, Address
<1>5. CASE Before(table[middle], query.offset)
  <2>1. query' = Query("search", query.offset, middle + 1, query.len - query.len \div 2 - 1)
    BY <1>5 DEF Probe
  <2>2. \A i \in 1 .. Size : i < middle + 1 => Before(table[i], query.offset)
    BY <1>1, <1>2, <1>3, <1>5 DEF Before
  <2>3. middle + 1 + (query.len - query.len \div 2 - 1) = query.first + query.len
    BY <1>1
  <2>4. \A i \in 1 .. Size : i >= query.first + query.len => ~Before(table[i], query.offset)
    BY <1>1 DEF SearchInv
  <2> QED BY <1>1, <1>4, <2>1, <2>2, <2>3, <2>4 DEF SearchInv, Query, Before
<1>6. CASE ~Before(table[middle], query.offset)
  <2>1. query' = Query("search", query.offset, query.first, query.len \div 2)
    BY <1>6 DEF Probe
  <2>2. \A i \in 1 .. Size : i >= middle => ~Before(table[i], query.offset)
    BY <1>1, <1>2, <1>3, <1>6 DEF Before
  <2>3. \A i \in 1 .. Size : i < query.first => Before(table[i], query.offset)
    BY <1>1 DEF SearchInv
  <2> QED BY <1>1, <1>4, <2>1, <2>2, <2>3 DEF SearchInv, Query, Before
<1> QED BY <1>5, <1>6

\* What a finished search returns for an offset inside a function is right.
LEMMA ResultContains ==
  ASSUME TypeOK, OneSection, SearchInv, Return, Inside(query.offset),
         NEW r \in Results(query.first)
  PROVE  RightAnswer(r, query.offset)
<1> DEFINE o == query.offset
           next == query.first
<1>1. /\ Size \in Nat /\ o \in Nat /\ next \in 1 .. Size + 1
      /\ Size > 0 => table \in Sorted
      /\ query.pc = "search" /\ query.len = 0
  BY TypeReturn, FileFacts, FilesAssumption DEF Return
<1>2. PICK low \in file.functions : Address(low) < o
  BY DEF Inside
<1>3. Size > 0
  BY <1>1, <1>2, FileFacts, FilesAssumption, FS_Subset, FS_EmptySet DEF Size, TypeOK, FileType
<1>4. /\ table \in [1 .. Size -> file.functions]
      /\ \A s \in file.functions : \E i \in 1 .. Size : table[i] = s
      /\ \A i, j \in 1 .. Size : i < j => Address(table[i]) <= Address(table[j])
      /\ \A i \in 1 .. Size : table[i] \in Symbols /\ Address(table[i]) \in Nat
  BY <1>1, <1>3, TableFacts, FileFacts
<1>5. \A i \in 1 .. Size : /\ i < next => Address(table[i]) < o
                           /\ i >= next => Address(table[i]) > o
  <2>1. TAKE i \in 1 .. Size
  <2>2. /\ i < next => Address(table[i]) < o
        /\ i >= next => ~(Address(table[i]) < o)
    BY <1>1 DEF SearchInv, Before
  <2>3. Address(table[i]) # o
    BY <1>4 DEF Inside
  <2> QED BY <1>1, <1>4, <2>2, <2>3
<1>6. next - 1 \in 1 .. Size
  <2>1. PICK i \in 1 .. Size : table[i] = low
    BY <1>4
  <2>2. Address(table[i]) < o /\ Address(table[i]) \in Nat
    BY <1>2, <1>4, <2>1
  <2>3. i >= next => Address(table[i]) > o
    BY <1>5
  <2> QED BY <1>1, <2>2, <2>3
<1>7. Encloses(table[next - 1], o)
  <2>1. table[next - 1] \in file.functions /\ Address(table[next - 1]) < o
    BY <1>1, <1>4, <1>5, <1>6
  <2>2. ASSUME NEW t \in file.functions, Address(t) <= o
        PROVE  Address(t) <= Address(table[next - 1])
    <3>1. PICK i \in 1 .. Size : table[i] = t
      BY <1>4
    <3>2. i < next
      <4>1. i >= next => Address(table[i]) > o
        BY <1>5
      <4>2. Address(table[i]) \in Nat /\ Address(table[i]) <= o
        BY <1>4, <2>2, <3>1
      <4> QED BY <1>1, <4>1, <4>2
    <3>3. i = next - 1 \/ i < next - 1
      BY <1>1, <3>2
    <3>4. i < next - 1 => Address(table[i]) <= Address(table[next - 1])
      BY <1>4, <1>6
    <3>5. Address(t) \in Nat
      BY <1>4, <3>1
    <3> QED BY <3>1, <3>3, <3>4, <3>5
  <2>3. Address(table[next - 1]) <= o
    BY <1>1, <1>4, <1>6, <2>1
  <2> QED BY <2>1, <2>2, <2>3 DEF Encloses
<1>8. r.outcome = "function" => Encloses(r.name, o) /\ r.start = Address(r.name)
  <2>1. \/ r = Failed("crash") \/ r = Failed("logic_error")
        \/ \E end \in EndValues(next) : r = Function_t(table[next - 1], end)
    BY <1>1, ResultTypes
  <2> QED BY <1>7, <2>1 DEF Failed, Function_t
<1>9. ASSUME Followed(o)
      PROVE  /\ r.outcome # "crash"
             /\ r.outcome = "function" =>
                  /\ o < r.end
                  /\ \E t \in file.functions : r.end = Address(t)
                  /\ \A t \in file.functions : Address(t) <= o \/ Address(t) >= r.end
  <2>1. next \in 1 .. Size
    <3>1. PICK high \in file.functions : Address(high) > o
      BY <1>9 DEF Followed
    <3>2. PICK j \in 1 .. Size : table[j] = high
      BY <1>4
    <3>3. Address(table[j]) > o /\ Address(table[j]) \in Nat
      BY <1>4, <3>1, <3>2
    <3>4. j < next => Address(table[j]) < o
      BY <1>5
    <3> QED BY <1>1, <3>3, <3>4
  <2>2. EndValues(next) = {file.value[table[next]]}
    BY <1>1, <2>1 DEF EndValues
  <2>3. \/ r = Failed("logic_error")
        \/ r = Function_t(table[next - 1], file.value[table[next]])
    <3>1. next # 1 /\ EndValues(next) # {}
      BY <1>1, <1>6, <2>2
    <3>2. r = Failed("logic_error") \/ \E end \in EndValues(next) : r = Function_t(table[next - 1], end)
      BY <3>1, ResultTypes, <1>1
    <3> QED BY <3>2, <2>2
  <2>4. CASE r = Failed("logic_error")
    BY <2>4 DEF Failed
  <2>5. CASE r = Function_t(table[next - 1], file.value[table[next]])
    <3>1. r.outcome = "function" /\ r.end = Address(table[next])
      <4>1. table[next] \in file.functions /\ table[next - 1] \in file.functions
        BY <1>4, <1>6, <2>1
      <4>2. file.section[table[next]] = file.section[table[next - 1]]
        BY <4>1 DEF OneSection
      <4> QED BY <2>5, <4>2 DEF Function_t, Address
    <3>2. o < r.end /\ table[next] \in file.functions
      BY <1>1, <1>4, <1>5, <2>1, <3>1
    <3>3. ASSUME NEW t \in file.functions PROVE Address(t) <= o \/ Address(t) >= r.end
      <4>1. PICK i \in 1 .. Size : table[i] = t
        BY <1>4
      <4>2. CASE i < next
        <5>1. Address(table[i]) < o /\ Address(table[i]) \in Nat
          BY <1>4, <1>5, <4>2
        <5> QED BY <1>1, <4>1, <5>1
      <4>3. CASE i = next
        BY <1>4, <3>1, <4>1, <4>3
      <4>4. CASE i > next
        <5>1. Address(table[next]) <= Address(table[i])
          BY <1>4, <2>1, <4>4
        <5>2. Address(table[next]) \in Nat /\ Address(table[i]) \in Nat
          BY <1>4, <2>1
        <5> QED BY <3>1, <4>1, <5>1, <5>2
      <4> QED BY <1>1, <4>2, <4>3, <4>4
    <3> QED BY <3>1, <3>2, <3>3
  <2> QED BY <2>3, <2>4, <2>5
<1> QED BY <1>8, <1>9 DEF RightAnswer

\* What is right depends on the file alone.
LEMMA SameRight ==
  ASSUME UNCHANGED file
  PROVE  \A r, o : Inside(o)' = Inside(o) /\ RightAnswer(r, o)' = RightAnswer(r, o)
<1>1. /\ \A x : Address(x)' = Address(x)
      /\ file' = file
  BY DEF Address
<1>2. \A x, o : Encloses(x, o)' = Encloses(x, o)
  BY <1>1 DEF Encloses
<1>3. \A o : Followed(o)' = Followed(o) /\ Inside(o)' = Inside(o)
  BY <1>1 DEF Followed, Inside
<1>4. ASSUME NEW r, NEW o PROVE RightAnswer(r, o)' = RightAnswer(r, o)
  BY <1>1, <1>2, <1>3 DEF RightAnswer
<1> QED BY <1>3, <1>4

\* The property speaks of the file and the answers alone.
LEMMA SameAnswers ==
  ASSUME UNCHANGED <<file, answers>>, FindsContaining
  PROVE  FindsContaining'
<1>1. ASSUME NEW o \in Offsets, Inside(o)' PROVE RightAnswer(answers[o], o)'
  <2>1. RightAnswer(answers[o], o)
    BY <1>1, SameRight DEF FindsContaining
  <2> QED BY <2>1 DEF RightAnswer, Followed, Encloses, Address
<1> QED BY <1>1 DEF FindsContaining

\* A call changes one answer: the property holds if it holds of that answer.
LEMMA OneAnswer ==
  ASSUME UNCHANGED file, FindsContaining, NEW q \in Offsets,
         \A o \in Offsets : o # q => answers'[o] = answers[o],
         Inside(q) => RightAnswer(answers'[q], q)
  PROVE  FindsContaining'
<1>1. ASSUME NEW o \in Offsets, Inside(o)' PROVE RightAnswer(answers'[o], o)
  <2>1. CASE o = q
    BY <1>1, <2>1, SameRight
  <2>2. CASE o # q
    BY <1>1, <2>2, SameRight DEF FindsContaining
  <2> QED BY <2>1, <2>2
<1>2. ASSUME NEW o \in Offsets, RightAnswer(answers'[o], o) PROVE RightAnswer(answers[o], o)'
  BY <1>2 DEF RightAnswer, Followed, Encloses, Address
<1> QED BY <1>1, <1>2 DEF FindsContaining

\* The invariant holds initially ...
LEMMA InvInit == Init => IInv
<1> SUFFICES ASSUME Init PROVE IInv
  OBVIOUS
<1>1. TypeOK
  BY DEF Init, TypeOK, Query, QueryType, Failed, AnswerType
<1>2. SearchInv
  BY DEF Init, SearchInv, Query
<1>3. FindsContaining
  BY DEF Init, FindsContaining, RightAnswer, Failed
<1> QED BY <1>1, <1>2, <1>3 DEF IInv

\* ... and every step keeps it.
LEMMA InvNext ==
  ASSUME IInv, [Next]_vars
  PROVE  IInv'
<1>1. TypeOK /\ UNCHANGED file
  BY DEF IInv, Next, vars, GetContainingFunction, Probe, Return
<1>2. OneSection' => OneSection
  BY <1>1 DEF OneSection
<1>3. ASSUME NEW o \in Offsets, GetContainingFunction(o) PROVE IInv'
  <2>1. TypeOK'
    BY <1>1, <1>3, TypeCall
  <2>2. SearchInv'
    <3>1. query' = Query("search", o, 1, Size) /\ Size' = Size /\ Size \in Nat
      BY <1>1, <1>3, FileFacts DEF GetContainingFunction, Size
    <3> QED BY <3>1 DEF SearchInv, Query
  <2>3. OneSection => FindsContaining'
    BY <1>3, SameAnswers DEF GetContainingFunction, IInv
  <2> QED BY <1>2, <2>1, <2>2, <2>3 DEF IInv
<1>4. CASE Probe
  <2>1. TypeOK'
    BY <1>1, <1>4, TypeProbe
  <2>2. OneSection => SearchInv'
    BY <1>1, <1>4, SearchNarrows DEF IInv
  <2>3. OneSection => FindsContaining'
    BY <1>4, SameAnswers DEF Probe, IInv
  <2> QED BY <1>2, <2>1, <2>2, <2>3 DEF IInv
<1>5. CASE Return
  <2>1. TypeOK'
    BY <1>1, <1>5, TypeReturn
  <2>2. SearchInv'
    BY <1>5 DEF Return, SearchInv, Query
  <2>3. ASSUME OneSection PROVE FindsContaining'
    <3>1. query.offset \in Offsets
      BY <1>1, <1>5, TypeReturn
    <3>2. PICK r \in Results(query.first) :
            \A o \in Offsets : answers'[o] = IF o = query.offset THEN r ELSE answers[o]
      BY <1>1, <1>5, TypeReturn
    <3>3. answers'[query.offset] = r /\ \A o \in Offsets : o # query.offset => answers'[o] = answers[o]
      BY <3>1, <3>2
    <3>4. SearchInv /\ FindsContaining
      BY <2>3 DEF IInv
    <3> QED BY <1>1, <1>5, <2>3, <3>1, <3>3, <3>4, ResultContains, OneAnswer
  <2> QED BY <1>2, <2>1, <2>2, <2>3 DEF IInv
<1>6. CASE UNCHANGED vars
  <2>1. TypeOK'
    BY <1>1, <1>6 DEF vars, TypeOK, Sorted, Size
  <2>2. OneSection => SearchInv'
    BY <1>6 DEF IInv, vars, SearchInv, Before, Address, Size
  <2>3. OneSection => FindsContaining'
    BY <1>6, SameAnswers DEF vars, IInv
  <2> QED BY <1>2, <2>1, <2>2, <2>3 DEF IInv
<1> QED BY <1>3, <1>4, <1>5, <1>6 DEF Next

LEMMA Invariance == Spec => []IInv
<1> QED BY InvInit, InvNext, PTL DEF Spec

\* The variables keep their types and the search stays within the table.
THEOREM TypeCorrect == Spec => []TypeOK
<1>1. IInv => TypeOK
  BY DEF IInv
<1> QED BY <1>1, Invariance, PTL

\* In a file whose functions are all in one section, GetContainingFunction
\* returns for every offset inside a function the extent of that function.
THEOREM ContainingFunctionFound == Spec => []FindsContainingInOneSection
<1>1. IInv => FindsContainingInOneSection
  BY DEF IInv, FindsContainingInOneSection
<1> QED BY <1>1, Invariance, PTL
-----------------------------------------------------------------------------
(* Asked again, one Elf gives one answer.                                   *)

\* Where std::partition_point stops for an offset.
Splits(k, o) ==
  /\ k \in 1 .. Size + 1
  /\ \A i \in 1 .. Size : (i < k => Before(table[i], o)) /\ (i >= k => ~Before(table[i], o))

\* An answer was taken from the table that is still there.
AnswersFromTable ==
  \A o \in Offsets : Inside(o) /\ Followed(o) /\ answers[o].outcome # "none" =>
    /\ table \in Sorted
    /\ \E k \in 1 .. Size : Splits(k, o) /\ answers[o] \in Results(k)

KeepsAnswers ==
  \A o \in Offsets :
    Inside(o) /\ Followed(o) /\ answers[o].outcome # "none" => answers'[o] = answers[o]

\* The search for an offset with a function behind it can stop in one place
\* only, and has one result there.
LEMMA OneResult ==
  ASSUME TypeOK, NEW o, NEW k \in 1 .. Size, NEW m \in 1 .. Size + 1, Splits(k, o), Splits(m, o),
         NEW r \in Results(k), NEW q \in Results(m)
  PROVE  r = q
<1>1. Size \in Nat
  BY FileFacts
<1>2. k = m
  <2>1. ~(k < m)
    BY <1>1 DEF Splits
  <2>2. ~(m < k)
    BY <1>1 DEF Splits
  <2> QED BY <1>1, <2>1, <2>2
<1>3. EndValues(k) = {file.value[table[k]]}
  BY <1>1 DEF EndValues
<1>4. {Function_t(table[k - 1], end) : end \in EndValues(k)} = {Function_t(table[k - 1], file.value[table[k]])}
  BY <1>3
<1>5. \E x : Results(k) = {x}
  BY <1>4 DEF Results
<1> QED BY <1>2, <1>5

\* A table with functions is not empty, so that it is not loaded again.
LEMMA TableStays ==
  ASSUME TypeOK, table \in Sorted, NEW o, Inside(o), [Next]_vars
  PROVE  table' = table
<1>1. Size \in Nat /\ table \in [1 .. Size -> file.functions] /\ \A s \in file.functions : \E i \in 1 .. Size : table[i] = s
  BY FileFacts, TableFacts
<1>2. PICK i \in 1 .. Size : TRUE
  BY <1>1 DEF Inside
<1>3. table # <<>>
  BY <1>1, <1>2
<1>4. Load = {table}
  BY <1>3 DEF Load
<1>5. \A p \in Offsets : GetContainingFunction(p) => table' = table
  BY <1>4 DEF GetContainingFunction
<1> QED BY <1>5 DEF Next, vars, Probe, Return

LEMMA AnswersNext ==
  ASSUME IInv, AnswersFromTable, OneSection, [Next]_vars
  PROVE  AnswersFromTable' /\ KeepsAnswers
<1>1. TypeOK /\ SearchInv /\ UNCHANGED file
  BY DEF IInv, Next, vars, GetContainingFunction, Probe, Return
<1>2. \A o : Inside(o)' = Inside(o) /\ Followed(o)' = Followed(o)
  BY <1>1, SameRight DEF Followed, Address
<1>3. ASSUME NEW o \in Offsets, Inside(o), Followed(o), table \in Sorted, table' = table
      PROVE  /\ table' \in Sorted'
             /\ \A k : Splits(k, o)' = Splits(k, o) /\ Results(k)' = Results(k)
  <2>1. Size' = Size /\ Sorted' = Sorted /\ \A s : Address(s)' = Address(s)
    BY <1>1 DEF Size, Sorted, Address
  <2>2. \A k : EndValues(k)' = EndValues(k)
    BY <1>1, <1>3, <2>1 DEF EndValues
  <2>3. \A s, e : Function_t(s, e)' = Function_t(s, e)
    BY <1>1, <2>1 DEF Function_t
  <2>4. \A k : Results(k)' = Results(k)
    BY <1>1, <1>3, <2>2, <2>3 DEF Results
  <2> QED BY <1>1, <1>3, <2>1, <2>4 DEF Splits, Before
<1>4. ASSUME NEW o \in Offsets, Inside(o), Followed(o), answers[o].outcome # "none", answers'[o] = answers[o]
      PROVE  /\ table' \in Sorted'
             /\ \E k \in 1 .. Size' : Splits(k, o)' /\ answers'[o] \in Results(k)'
  <2>1. table \in Sorted /\ table' = table
    BY <1>1, <1>4, TableStays DEF AnswersFromTable
  <2>2. Size' = Size
    BY <1>1 DEF Size
  <2> QED BY <1>3, <1>4, <2>1, <2>2 DEF AnswersFromTable
<1>5. CASE UNCHANGED answers
  <2>1. KeepsAnswers
    BY <1>5 DEF KeepsAnswers
  <2>2. AnswersFromTable'
    BY <1>2, <1>4, <1>5 DEF AnswersFromTable
  <2> QED BY <2>1, <2>2
<1>6. CASE Return
  <2>1. PICK r \in Results(query.first) :
          \A o \in Offsets : answers'[o] = IF o = query.offset THEN r ELSE answers[o]
    BY <1>1, <1>6, TypeReturn
  <2>2. /\ query.first \in 1 .. Size + 1 /\ (Size > 0 => table \in Sorted) /\ Size \in Nat
        /\ table' = table /\ query.pc = "search" /\ query.len = 0
    BY <1>1, <1>6, TypeReturn, FileFacts DEF Return
  <2>3. Splits(query.first, query.offset)
    BY <1>1, <2>2 DEF SearchInv, Splits
  <2>4. ASSUME NEW o \in Offsets, Inside(o), Followed(o), answers[o].outcome # "none"
        PROVE  answers'[o] = answers[o]
    <3>1. CASE o = query.offset
      <4>1. PICK k \in 1 .. Size : Splits(k, o) /\ answers[o] \in Results(k)
        BY <2>4 DEF AnswersFromTable
      <4> QED BY <1>1, <2>1, <2>2, <2>3, <3>1, <4>1, OneResult
    <3>2. CASE o # query.offset
      BY <2>1, <3>2
    <3> QED BY <3>1, <3>2
  <2>5. ASSUME NEW o \in Offsets, Inside(o), Followed(o), answers'[o].outcome # "none"
        PROVE  /\ table' \in Sorted'
               /\ \E k \in 1 .. Size' : Splits(k, o)' /\ answers'[o] \in Results(k)'
    <3>1. CASE answers[o].outcome # "none"
      BY <1>4, <2>4, <2>5, <3>1
    <3>2. CASE answers[o].outcome = "none"
      <4>1. o = query.offset /\ answers'[o] = r
        BY <2>1, <2>5, <3>2
      <4>2. PICK high \in file.functions : Address(high) > o
        BY <2>5 DEF Followed
      <4>3. Size > 0 /\ table \in Sorted
        BY <1>1, <2>2, <4>2, FilesAssumption, FS_Subset, FS_EmptySet DEF Size, TypeOK, FileType
      <4>4. PICK j \in 1 .. Size : table[j] = high
        BY <1>1, <4>2, <4>3, TableFacts
      <4>5. ~Before(table[j], o)
        <5>1. Address(high) \in Nat /\ o \in Nat
          BY <1>1, <4>2, FileFacts, FilesAssumption
        <5> QED BY <4>2, <4>4, <5>1 DEF Before
      <4>6. query.first \in 1 .. Size
        BY <2>2, <2>3, <4>1, <4>5 DEF Splits
      <4>7. Size' = Size
        BY <1>1 DEF Size
      <4> QED BY <1>3, <2>1, <2>2, <2>3, <2>5, <4>1, <4>3, <4>6, <4>7
    <3> QED BY <3>1, <3>2
  <2> QED BY <1>2, <2>4, <2>5 DEF AnswersFromTable, KeepsAnswers
<1> QED BY <1>5, <1>6 DEF Next, vars, GetContainingFunction, Probe

\* In a file whose functions are all in one section, an Elf that is asked again
\* for an offset inside a function with another behind it answers the same.
THEOREM AnswersStay == Spec /\ OneSection => SameAnswer
<1>1. Init => AnswersFromTable
  BY DEF Init, AnswersFromTable, Failed
<1>2. OneSection /\ [Next]_vars => OneSection'
  BY DEF OneSection, Next, vars, GetContainingFunction, Probe, Return
<1>3. IInv /\ AnswersFromTable /\ OneSection /\ [Next]_vars =>
        (table' # <<>> =>
           \A o \in Offsets :
             Inside(o) /\ Followed(o) /\ answers[o].outcome # "none" => answers'[o] = answers[o])
  BY AnswersNext DEF KeepsAnswers
<1> QED BY <1>1, <1>2, <1>3, AnswersNext, InvInit, InvNext, PTL DEF Spec, SameAnswer
=============================================================================
