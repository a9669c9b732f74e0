------------------------------ MODULE ElfSymbols ------------------------------
(***************************************************************************)
(* Elf::GetContainingFunction (src/src/Elf.cpp): which function of a file   *)
(* contains an offset.  The first call loads the file's symbol table, keeps *)
(* the functions and sorts them; every call then finds the first function   *)
(* that does not start before the offset, with std::partition_point, and    *)
(* takes the one before it.  One Elf object is used by one thread at a time.*)
(***************************************************************************)
EXTENDS Integers, FiniteSets, Functions

CONSTANTS
  Symbols,  \* the entries a symbol table may have
  Sections, \* the sections of a file
  Files,    \* the files considered, see FileType
  Offsets,  \* the offsets that are asked for
  None      \* the name in a result that is not a function

\* bfd's view of a file: each symbol's value, relative to its section, and
\* each section's position in the file.  Only functions carry BSF_FUNCTION;
\* only the mangled ones have a name that __cxa_demangle accepts.
FileType ==
  [value : [Symbols -> Nat], section : [Symbols -> Sections], filepos : [Sections -> Nat],
   functions : SUBSET Symbols, mangled : SUBSET Symbols]

ASSUME FilesAssumption ==
  /\ IsFiniteSet(Symbols)
  /\ Files \subseteq FileType
  /\ Offsets \subseteq Nat
  /\ None \notin Symbols

VARIABLES
  file,    \* the file of the Elf object
  table,   \* m_sortedSymbols
  query,   \* the call in progress
  answers  \* history: the last result for each offset

vars == <<file, table, query, answers>>

Query(pc, offset, first, len) == [pc |-> pc, offset |-> offset, first |-> first, len |-> len]

Failed(outcome) == [outcome |-> outcome, start |-> 0, end |-> 0, name |-> None]

Init ==
  /\ file \in Files
  /\ table = <<>>
  /\ query = Query("idle", 0, 1, 0)
  /\ answers = [o \in Offsets |-> Failed("none")]

Size       == Cardinality(file.functions)
Address(s) == file.value[s] + file.filepos[file.section[s]]

NotSorted == Bijection(1 .. Size, file.functions) \* mutant

\* std::sort orders by the values alone and leaves ties in any order.
Sorted == {t \in Bijection(1 .. Size, file.functions) :
             \A i, j \in 1 .. Size : i < j => file.value[t[i]] <= file.value[t[j]]}

\* Mutant: the table is loaded by every call.
LoadAgain == Sorted

\* The table is loaded when it is empty, which it stays if no function is found.
Load == IF table = <<>> THEN Sorted ELSE {table}

GetContainingFunction(o) ==
  /\ query.pc = "idle"
  /\ table' \in Load
  /\ query' = Query("search", o, 1, Size)
  /\ UNCHANGED <<file, answers>>

Before(s, o) == Address(s) < o

\* Mutants: the upper half keeps one element too many, or the middle element.
ProbeOffByOne ==
  /\ query.pc = "search" /\ query.len > 0
  /\ LET half   == query.len \div 2
         middle == query.first + half
     IN  query' = IF Before(table[middle], query.offset)
                  THEN Query("search", query.offset, middle + 1, query.len - half)
                  ELSE Query("search", query.offset, query.first, half)
  /\ UNCHANGED <<file, table, answers>>
ProbeKeepsMiddle ==
  /\ query.pc = "search" /\ query.len > 0
  /\ LET half   == query.len \div 2
         middle == query.first + half
     IN  query' = IF Before(table[middle], query.offset)
                  THEN Query("search", query.offset, middle, query.len - half)
                  ELSE Query("search", query.offset, query.first, half)
  /\ UNCHANGED <<file, table, answers>>

\* One round of the loop of std::partition_point, as libstdc++ writes it.
Probe ==
  /\ query.pc = "search" /\ query.len > 0
  /\ LET half   == query.len \div 2
         middle == query.first + half
     IN  query' = IF Before(table[middle], query.offset)
                  THEN Query("search", query.offset, middle + 1, query.len - half - 1)
                  ELSE Query("search", query.offset, query.first, half)
  /\ UNCHANGED <<file, table, answers>>

\* Reading *nextFn when it is end() is undefined: if remove_if removed anything,
\* a stale pointer to some symbol of the file is left there, and otherwise the
\* null pointer that ends bfd's table.
EndValues(next) ==
  IF next <= Size THEN {file.value[table[next]]}
  ELSE {file.value[s] : s \in IF file.functions = Symbols THEN {} ELSE Symbols}

Function_t(this, end) ==
  [outcome |-> "function", start |-> Address(this), end |-> end + file.filepos[file.section[this]], name |-> this]

\* What the call returns, once nextFn is known: it crashes if there is no
\* function before nextFn or nothing behind the last, and std::string(nullptr)
\* throws if the name of the function cannot be demangled.
Results(next) ==
  IF next = 1 \/ EndValues(next) = {} THEN {Failed("crash")}
  ELSE IF table[next - 1] \notin file.mangled THEN {Failed("logic_error")}
  ELSE {Function_t(table[next - 1], end) : end \in EndValues(next)}

Return ==
  /\ query.pc = "search" /\ query.len = 0
  /\ \E result \in Results(query.first) : answers' = [answers EXCEPT ![query.offset] = result]
  /\ query' = Query(IF answers'[query.offset] = Failed("crash") THEN "crashed" ELSE "idle", 0, 1, 0)
  /\ UNCHANGED <<file, table>>

Next == (\E o \in Offsets : GetContainingFunction(o)) \/ Probe \/ Return

Spec == Init /\ [][Next]_vars
-----------------------------------------------------------------------------
\* Where a query is, and the part of the table it still searches.
QueryType ==
  [pc : {"idle", "search", "crashed"}, offset : Nat, first : Nat, len : Nat]

AnswerType ==
  [outcome : {"none", "function", "crash", "logic_error"},
   start : Nat, end : Nat, name : Symbols \cup {None}]

TypeOK ==
  /\ file \in Files
  /\ table = <<>> \/ table \in Sorted
  /\ query \in QueryType
  /\ query.pc = "search" => /\ query.offset \in Offsets
                            /\ Size > 0 => table \in Sorted
                            /\ query.first >= 1 /\ query.first + query.len <= Size + 1
  /\ answers \in [Offsets -> AnswerType]

\* All functions are in one section, as in a program whose only code is .text.
OneSection == \A s, t \in file.functions : file.section[s] = file.section[t]

\* Function s contains offset o: it starts at or before o, and no other
\* function starts between.
Encloses(s, o) ==
  /\ s \in file.functions /\ Address(s) <= o
  /\ \A t \in file.functions : Address(t) <= o => Address(t) <= Address(s)

\* Offsets behind the first instruction of a function, and those of them that
\* have another function behind them.
Inside(o) ==
  /\ \E s \in file.functions : Address(s) < o
  /\ \A s \in file.functions : Address(s) # o
Followed(o) == \E s \in file.functions : Address(s) > o

Found(o) == answers[o].outcome = "function"

\* The result for an offset inside a function names the function and where it
\* starts, even if it is the last one and its end is read from behind the
\* table; in front of another function it gives the end as well.
RightAnswer(result, o) ==
  /\ result.outcome = "function" => /\ Encloses(result.name, o)
                                   /\ result.start = Address(result.name)
  /\ Followed(o) =>
       /\ result.outcome # "crash"
       /\ result.outcome = "function" =>
            /\ o < result.end
            /\ \E t \in file.functions : result.end = Address(t)
            /\ \A t \in file.functions : Address(t) <= o \/ Address(t) >= result.end

\* Elf.h "Gets function containing offset", for offsets inside a function.
FindsContaining == \A o \in Offsets : Inside(o) => RightAnswer(answers[o], o)

FindsContainingInOneSection == OneSection => FindsContaining

\* An offset that is the start of a function belongs to that function.
StartBelongs ==
  \A o \in Offsets : Found(o) /\ (\E s \in file.functions : Address(s) = o) =>
    answers[o].start = o

\* Asking one Elf twice for an offset inside a function gives one answer,
\* though symbols of one address are sorted arbitrarily.
SameAnswer ==
  [][table' # <<>> =>
       \A o \in Offsets :
         Inside(o) /\ Followed(o) /\ answers[o].outcome # "none" => answers'[o] = answers[o]]_vars
=============================================================================
