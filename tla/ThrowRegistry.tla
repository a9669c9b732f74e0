---------------------------- MODULE ThrowRegistry ----------------------------
(***************************************************************************)
(* GetExceptions (src/src/ExceptionForcer.cpp): one ExceptionForcer walks   *)
(* over the section in which the linker has gathered a pointer to each      *)
(* ThrowInfo, and asks m_elf for the function that contains each throw.     *)
(* The steps of the symbol lookup are those of ElfSymbols.                  *)
(***************************************************************************)
EXTENDS ElfSymbols, ThrowSites

CONSTANTS
  Programs,     \* the programs considered: sequences of units, see ThrowSites
  LoadAddresses \* where they may be loaded

ASSUME ProgramsAssumption ==
  \A p \in Programs : p \in Seq(Seq(Site)) /\ \A s \in SitesOf(p) : Compiles(s)

VARIABLES
  program,   \* the program's sites
  section,   \* throw_locations, which the linker made of them
  registry,  \* s_throwInfos: a view of the section
  progStart, \* ProgOffsetResolver::m_progStartAddr
  call,      \* the API call in progress: [op, at, error], at an index or a location
  ret,       \* GetExceptions: the vector under construction
  listed,    \* history: the last vector a client was given
  outcome    \* history: how the last GetExceptions ended

lookup == <<file, table, query, answers>>
api    == <<call, ret, listed, outcome>>
static == <<program, section, registry, progStart>>

\* The null pointer stays null.
ToOffset(addr)     == IF addr = 0 THEN 0 ELSE addr - progStart
FromOffset(offset) == IF offset = 0 THEN 0 ELSE offset + progStart

Call(op, at, error) == [op |-> op, at |-> at, error |-> error]
Idle == Call("idle", 0, Null)

RInit ==
  /\ Init
  /\ program \in Programs /\ section = Link(program)
  /\ registry = <<>>
  /\ ret = <<>> /\ listed = <<>> /\ outcome = "none"

\* s_throwInfos is set when this file's variables are initialised; another
\* file's static constructors may use the library before that.
StaticInit ==
  /\ call.op = "idle" /\ registry = <<>> /\ section # <<>>
  /\ registry' = section
  /\ UNCHANGED <<lookup, program, section, progStart, api>>

ExceptionInfo(addr, fn) ==
  [addr |-> addr, start |-> FromOffset(fn.start), end |-> FromOffset(fn.end), name |-> fn.name]

GetExceptions ==
  /\ call.op = "idle"
  /\ call' = Call("list", 1, Null) /\ ret' = <<>>
  /\ UNCHANGED <<lookup, static, listed, outcome>>

\* The iterator is dereferenced and m_elf asked about the throw.
AskNext ==
  /\ call.op = "list" /\ call.at <= Len(registry)
  /\ GetContainingFunction(ToOffset(registry[call.at].throwAddr))
  /\ UNCHANGED <<static, api>>

\* The function the throw lies in, as the search just found it.
Answer == answers'[query.offset]

\* Mutant: every element is given the address of the first.
PushBackFirst ==
  /\ call.op = "list" /\ Return /\ Answer.outcome = "function"
  /\ ret' = Append(ret, ExceptionInfo(registry[1].throwAddr, Answer))
  /\ call' = Call("list", call.at + 1, Null)
  /\ UNCHANGED <<static, listed, outcome>>

PushBack ==
  /\ call.op = "list" /\ Return /\ Answer.outcome = "function"
  /\ ret' = Append(ret, ExceptionInfo(registry[call.at].throwAddr, Answer))
  /\ call' = Call("list", call.at + 1, Null)
  /\ UNCHANGED <<static, listed, outcome>>

\* Mutant: the element that cannot be described is asked for again.
GetExceptionsRetries ==
  /\ call.op = "list" /\ Return /\ Answer.outcome = "logic_error"
  /\ UNCHANGED <<static, api>>

\* An exception out of GetContainingFunction leaves GetExceptions and takes ret along.
GetExceptionsThrows ==
  /\ call.op = "list" /\ Return /\ Answer.outcome = "logic_error"
  /\ call' = Idle /\ ret' = <<>> /\ outcome' = "threw"
  /\ UNCHANGED <<static, listed>>

\* Mutant: one element too few.
GetExceptionsReturnsEarly ==
  /\ call.op = "list" /\ query.pc = "idle" /\ call.at >= Len(registry)
  /\ call' = Idle /\ ret' = <<>> /\ listed' = ret
  /\ outcome' = IF registry = <<>> THEN "empty" ELSE "returned"
  /\ UNCHANGED <<lookup, static>>

GetExceptionsReturns ==
  /\ call.op = "list" /\ query.pc = "idle" /\ call.at > Len(registry)
  /\ call' = Idle /\ ret' = <<>> /\ listed' = ret
  /\ outcome' = IF registry = <<>> THEN "empty" ELSE "returned"
  /\ UNCHANGED <<lookup, static>>

Search == Probe /\ UNCHANGED <<static, api>>

Crash == Return /\ Answer.outcome = "crash" /\ UNCHANGED <<static, api>>

RNext ==
  \/ StaticInit \/ GetExceptions \/ AskNext \/ Search \/ Crash
  \/ PushBack \/ GetExceptionsThrows \/ GetExceptionsReturns

\* A program that only lists its throws.
RSpec == RInit /\ call = Idle /\ progStart \in LoadAddresses /\ [][RNext]_<<lookup, static, api>>
-----------------------------------------------------------------------------
\* "Gets information about all registered exceptions": a list that is not empty
\* because it was asked for too early has every throw of every unit, in its
\* place, with the function it lies in.
ListsEveryThrow ==
  outcome = "returned" =>
    /\ {listed[i].addr : i \in DOMAIN listed} = {s.throwAddr : s \in SitesOf(program)}
    /\ Len(listed) = Len(section)
    /\ \A i \in DOMAIN listed :
         /\ listed[i].addr = section[i].throwAddr
         /\ OneSection /\ Inside(ToOffset(listed[i].addr)) =>
              /\ Encloses(listed[i].name, ToOffset(listed[i].addr))
              /\ listed[i].start = FromOffset(Address(listed[i].name))
              /\ Followed(ToOffset(listed[i].addr)) => listed[i].addr < listed[i].end
=============================================================================
