-------------------------------- MODULE Eforce --------------------------------
(***************************************************************************)
(* The whole library with one client thread: what the macros registered     *)
(* (ThrowSites) is listed (ThrowRegistry); ForceException looks a location  *)
(* up (ElfSymbols), chooses the error, checks the size of the patch, and    *)
(* saves and overwrites the function's first bytes through the mappings and *)
(* protections of ExecutableArea; UnforceException and ~ExceptionForcer     *)
(* write them back.  A byte of code is an address of ExecutableArea.        *)
(***************************************************************************)
EXTENDS ThrowRegistry

CONSTANTS
  Images,       \* the address spaces, see ExecutableArea
  Locations,    \* the addresses a client may pass, but null, which nothing is registered at
  CustomErrors, \* the errors a client may pass with them
  PatchSize,    \* doThrowOpcode.size() on the architecture
  Unreachable,  \* the offsets of functions for which GetThrowOpcode throws: see Opcodes
  Word          \* 2^w for a size_t of w bits

VARIABLES
  image, prot, area, phase, target, written, unclosed, \* see ExecutableArea
  memory, \* the bytes at each address
  forced, \* m_forcedExceptions
  object  \* the ForcedException that is being constructed or destroyed

Area == INSTANCE ExecutableArea

ASSUME EforceAssumption ==
  /\ Area!ValidImages
  /\ Locations \subseteq Nat \ {0}
  /\ CustomErrors \subseteq Errors /\ Null \notin CustomErrors
  /\ PatchSize \in Nat \ {0} /\ Unreachable \subseteq Nat /\ Word \in Nat /\ Word > PatchSize

First(i) == CHOOSE p \in DOMAIN i : \A q \in DOMAIN i : p <= q

\* The addresses of throws are in the program, and the first bytes of each
\* function are code, as far behind the first mapping as they are in the file.
\* Functions are in sections of the file, and those are behind its ELF header.
ASSUME LayoutAssumption ==
  \A i \in Images :
    /\ \E p \in DOMAIN i : \A q \in DOMAIN i : p <= q
    /\ \A p \in Programs : \A j \in DOMAIN Link(p) : Link(p)[j].throwAddr - First(i) \in Offsets
    /\ \A f \in Files : \A s \in f.functions, b \in 0 .. PatchSize - 1 :
         LET offset == f.value[s] + f.filepos[f.section[s]] + b
         IN  /\ f.filepos[f.section[s]] > 0
             /\ First(i) + offset \in DOMAIN i
             /\ i[First(i) + offset].offset = offset /\ "x" \in i[First(i) + offset].prot

pages  == <<image, prot, area, phase, target, written, unclosed>>
engine == <<memory, forced, object>>
sysVars == <<lookup, static, api, pages, engine>>

Bytes == 0 .. PatchSize - 1

\* A byte as the program was loaded, and one of the patch for an error at a location.
Own(a)            == <<"own", a>>
Piece(loc, e, i)  == <<"patch", loc, e, i>>

Byte == ({"own"} \X Nat) \cup ({"patch"} \X Nat \X (Errors \cup {Garbage}) \X Bytes)
ForcedException ==
  [loc : Locations, start : Nat, error : Errors \cup {Garbage}, data : [Bytes -> Byte]]

ASSUME ObjectAssumption ==
  /\ None \notin ForcedException /\ None \notin Errors \cup {Garbage}
  /\ \A i \in Images : \A pagesOf \in SUBSET DOMAIN i : pagesOf # None

Forced == {l \in Locations : forced[l] # None}
Dead   == query.pc = "crashed" \/ call.op \in {"crashed", "terminated"} \/ phase = "fault"
Gone   == Call("gone", 0, Null)

SysInit ==
  /\ RInit /\ Area!Init
  /\ call = Gone
  /\ memory = [a \in DOMAIN image |-> Own(a)]
  /\ forced = [l \in Locations |-> None]
  /\ object = None

\* ExceptionForcer(): an Elf that has loaded nothing, a new ProgOffsetResolver.
Construct ==
  /\ call.op = "gone" /\ Area!Construct
  /\ call' = Idle
  /\ UNCHANGED <<lookup, program, section, registry, ret, listed, outcome, engine>>

Registered(loc) == \E i \in DOMAIN registry : registry[i].throwAddr = loc

\* Mutant: the last element is taken for the one that was found.
RegistrationLast(loc) == registry[Len(registry)]

\* The element std::find_if stops at.
Registration(loc) ==
  registry[CHOOSE i \in DOMAIN registry :
             /\ registry[i].throwAddr = loc
             /\ \A j \in 1 .. i - 1 : registry[j].throwAddr # loc]

\* An address that is not registered is rejected before anything changes.
ForceException(loc, error) ==
  /\ call.op = "idle" /\ Registered(loc)
  /\ GetContainingFunction(ToOffset(loc))
  /\ call' = Call("force", loc, error)
  /\ UNCHANGED <<static, ret, listed, outcome, pages, engine>>

\* What the client passed, or else what GetException makes, if it is not null.
ErrorsToThrow ==
  IF call.error # Null THEN {call.error}
  ELSE LET fn == Registration(call.at).GetException
       IN  IF fn = Null THEN {} ELSE Generated(fn)

\* Mutant: a patch may be one byte larger than the function.
FnSizeInclusive(fn) == (FromOffset(fn.end) - FromOffset(fn.start) + 1) % Word

\* fnSize, a size_t: an end in front of the start makes it huge.
FnSize(fn) == (FromOffset(fn.end) - FromOffset(fn.start)) % Word

\* The function is found, and there is a patch that fits into it ...
Located   == call.op = "force" /\ Return /\ Answer.outcome = "function"
Patchable == Answer.start \notin Unreachable /\ PatchSize <= FnSize(Answer)

\* ... or it has no name; "Exception input is not constant"; GetThrowOpcode throws;
\* "Generated opcode too large": nothing has been written yet.
ForceExceptionThrows ==
  /\ \/ call.op = "force" /\ Return /\ Answer.outcome = "logic_error"
     \/ Located /\ (ErrorsToThrow = {} \/ ~Patchable)
  /\ call' = Idle
  /\ UNCHANGED <<static, ret, listed, outcome, pages, engine>>

\* GetException reads a variable that is not there.
GetExceptionCrashes ==
  /\ Located /\ "crash" \in ErrorsToThrow
  /\ call' = Call("crashed", 0, Null)
  /\ UNCHANGED <<static, ret, listed, outcome, pages, engine>>

\* "Failed to mprotect": nor has anything been written when that is thrown.
ConstructorThrows ==
  /\ Located /\ Patchable /\ ErrorsToThrow \ {"crash"} # {}
  /\ Area!UnprotectFails
  /\ call' = Idle
  /\ UNCHANGED <<program, section, registry, ret, listed, outcome, engine>>

\* The constructor of ForcedException saves the function's first bytes ...
SaveOriginal ==
  /\ Located /\ Patchable
  /\ \E e \in ErrorsToThrow \ {"crash"} :
       object' = [loc |-> call.at, start |-> FromOffset(Answer.start), error |-> e,
                  data |-> [i \in Bytes |-> memory[FromOffset(Answer.start) + i]]]
  /\ Area!Unprotect({Answer.start + i : i \in Bytes})
  /\ call' = Call("construct", call.at, Null)
  /\ UNCHANGED <<program, section, registry, ret, listed, outcome, memory, forced>>

\* The byte that is written at offset i of the function.
Source(i) == IF call.op = "construct" THEN Piece(object.loc, object.error, i) ELSE object.data[i]

\* ... and writes the patch; the destructor writes what was saved.
Write ==
  /\ Area!Copy
  /\ memory' = [a \in DOMAIN memory |->
                  IF a \in written' THEN Source(a - object.start) ELSE memory[a]]
  /\ UNCHANGED <<lookup, program, section, registry, api, forced, object>>

\* Mutant: the entry of a location that is forced already is replaced.
EmplaceOverwrites ==
  /\ call.op = "construct" /\ Area!Reprotect
  /\ forced' = [forced EXCEPT ![object.loc] = object]
  /\ object' = None /\ call' = Idle
  /\ UNCHANGED <<lookup, program, section, registry, ret, listed, outcome, memory>>

\* emplace moves the object into the map ...
Emplace ==
  /\ call.op = "construct" /\ forced[object.loc] = None
  /\ Area!Reprotect
  /\ forced' = [forced EXCEPT ![object.loc] = object]
  /\ object' = None /\ call' = Idle
  /\ UNCHANGED <<lookup, program, section, registry, ret, listed, outcome, memory>>

\* ... or destroys it, if the location is forced already.
EmplaceDuplicate ==
  /\ call.op = "construct" /\ forced[object.loc] # None
  /\ Area!Reprotect
  /\ call' = Call("discard", 0, Null)
  /\ UNCHANGED <<lookup, program, section, registry, ret, listed, outcome, engine>>

UnforceException(l) ==
  /\ call.op = "idle" /\ l \in Forced
  /\ object' = forced[l] /\ forced' = [forced EXCEPT ![l] = None]
  /\ call' = Call("unforce", 0, Null)
  /\ UNCHANGED <<lookup, static, ret, listed, outcome, pages, memory>>

Destroy ==
  /\ call.op = "idle"
  /\ call' = Call("destroy", 0, Null)
  /\ UNCHANGED <<lookup, static, ret, listed, outcome, pages, engine>>

\* Mutant: from the smallest.
DestroyAscending ==
  /\ call.op = "destroy" /\ object = None
  /\ \E l \in Forced :
       /\ \A m \in Forced : l <= m
       /\ object' = forced[l] /\ forced' = [forced EXCEPT ![l] = None]
  /\ UNCHANGED <<lookup, static, api, pages, memory>>

\* ~map goes from the largest key to the smallest ...
DestroyNext ==
  /\ call.op = "destroy" /\ object = None
  /\ \E l \in Forced :
       /\ \A m \in Forced : m <= l
       /\ object' = forced[l] /\ forced' = [forced EXCEPT ![l] = None]
  /\ UNCHANGED <<lookup, static, api, pages, memory>>

\* ... then ~Elf drops the symbol table.
Destroyed ==
  /\ call.op = "destroy" /\ object = None /\ Forced = {}
  /\ call' = Gone
  /\ table' = <<>> /\ answers' = [o \in Offsets |-> Failed("none")]
  /\ UNCHANGED <<file, query, static, ret, listed, outcome, pages, engine>>

\* The destructor of ForcedException.
Destructing == call.op \in {"discard", "unforce", "destroy"} /\ object # None

Restore ==
  /\ Destructing
  /\ Area!Unprotect({ToOffset(object.start + i) : i \in Bytes})
  /\ UNCHANGED <<lookup, program, section, registry, api, engine>>

\* The destructor is noexcept: "Failed to mprotect" ends the process.
DestructorTerminates ==
  /\ Destructing /\ Area!UnprotectFails
  /\ call' = Call("terminated", 0, Null)
  /\ UNCHANGED <<lookup, program, section, registry, ret, listed, outcome, engine>>

\* Mutant: the object stays as it is.
RestoredKeeps ==
  /\ Destructing /\ Area!Reprotect
  /\ call' = IF call.op = "destroy" THEN call ELSE Idle
  /\ UNCHANGED <<lookup, program, section, registry, ret, listed, outcome, engine>>

Restored ==
  /\ Destructing /\ Area!Reprotect
  /\ object' = None
  /\ call' = IF call.op = "destroy" THEN call ELSE Idle
  /\ UNCHANGED <<lookup, program, section, registry, ret, listed, outcome, memory, forced>>

Aside == UNCHANGED <<pages, engine>>

Working ==
  \/ (AskNext /\ Aside) \/ (Search /\ Aside) \/ (PushBack /\ Aside) \/ (Crash /\ Aside)
  \/ (GetExceptionsThrows /\ Aside) \/ (GetExceptionsReturns /\ Aside)
  \/ ForceExceptionThrows \/ GetExceptionCrashes \/ ConstructorThrows \/ SaveOriginal \/ Write
  \/ Emplace \/ EmplaceDuplicate \/ DestroyNext \/ Destroyed
  \/ Restore \/ DestructorTerminates \/ Restored

\* The patch of l is the one its function starts with; no patch was put over
\* one that is removed later.
OnTop(l) == memory[forced[l].start] = Piece(l, forced[l].error, 0)
InOrder  == \A l, m \in Forced : l < m => forced[l].data[0] # Piece(m, forced[m].error, 0)

\* A client removes the forcings of one function last-forced-first.
Client ==
  \/ (StaticInit /\ Aside) \/ (GetExceptions /\ Aside) \/ Construct
  \/ Destroy /\ InOrder
  \/ \E l \in Locations : UnforceException(l) /\ OnTop(l)
  \/ \E l \in Locations, e \in CustomErrors \cup {Null} : ForceException(l, e)

SysNext == Client \/ Working

\* A call that has begun runs on; clients call when they like.
SysSpec == SysInit /\ [][SysNext]_sysVars /\ WF_sysVars(Working)
-----------------------------------------------------------------------------
(* The promise of the README, through all the parts.                       *)

\* The function that contains a location, by its offset.
ParentOf(l) ==
  LET before == {Address(s) : s \in file.functions} \cap 0 .. (l - Area!Start)
  IN  IF before = {} THEN None
      ELSE CHOOSE a \in before : \A b \in before : b <= a

Contract == INSTANCE ThrowOnDemand WITH
  Forcers  <- {"forcer"}, Threads <- {}, Locs <- Locations,
  Fns      <- Nat,
  Outs     <- Errors \cup {Garbage, "ran", "torn"},
  parent   <- [l \in Locations |-> ParentOf(l)],
  promised <- [x \in {"forcer"} |->
                 [l \in Locations |-> IF forced[l] = None THEN None ELSE forced[l].error]],
  changing <- [x \in {"forcer"} |-> IF object = None THEN None ELSE ParentOf(object.loc)],
  calls    <- <<>>
-----------------------------------------------------------------------------
\* The parts agree on who is working: pages are open only inside a constructor
\* or destructor, which has an object, and a lookup runs only inside a call.
SysTypeOK ==
  /\ call.op \in {"gone", "idle", "list", "force", "construct", "discard", "unforce", "destroy",
                  "crashed", "terminated"}
  /\ object # None => call.op \in {"construct", "discard", "unforce", "destroy", "terminated"}
  /\ phase # "idle" => object # None
  /\ query.pc = "search" => call.op \in {"list", "force"}
  /\ call.op \in {"gone", "crashed"} \/ progStart = Area!Start
  /\ DOMAIN memory = DOMAIN image /\ DOMAIN forced = Locations
  /\ \A l \in Forced : forced[l].loc = l /\ DOMAIN forced[l].data = Bytes

\* What a call of the function at an offset comes to: the processor runs the
\* entry it finds, and a function never runs on into the next one.
Runs(offset) ==
  LET entry == [i \in Bytes |-> memory[Area!Start + offset + i]]
      own   == {i \in Bytes : \A s \in file.functions : Address(s) \notin offset + 1 .. offset + i}
  IN  IF \A i \in own : entry[i] = Own(Area!Start + offset + i) THEN "ran"
      ELSE IF \E l \in Locations, e \in Errors \cup {Garbage} :
                entry = [i \in Bytes |-> Piece(l, e, i)]
      THEN entry[0][3] ELSE "torn"

\* README "Next call to `SomeFunction()` will now throw": between API calls every
\* function does what is promised of it, the functions next to a forced one
\* too, even if several throws are in one function, one registration is listed
\* twice, or a function's end is not known.
KeepsPromises ==
  OneSection /\ ~Dead /\ object = None /\ (\A l \in Forced : Inside(ToOffset(l))) =>
    \A s \in file.functions :
      Runs(Address(s)) \in Contract!Outcomes(Address(s))

\* The steps of the parts add up to promises made and withdrawn one at a time.
SysImplementsContract == Contract!Spec

\* A forcer that is gone leaves all code as it was loaded, if the functions are
\* in one section, so that the end of one is not taken from another section.
NothingLeft == OneSection /\ call.op = "gone" => \A a \in DOMAIN memory : memory[a] = Own(a)

\* The function a client picks in the list ("exception.parentFn.name ==
\* "SomeFunction()"" in README.md) is the one ForceException overwrites.
ForcesWhatIsListed ==
  \A i \in DOMAIN listed :
    listed[i].addr \in Forced => forced[listed[i].addr].start = listed[i].start

\* Without an error from the client, a location is only forced if a throw is
\* there whose arguments are all known before run time; and if no throw there
\* captures a local variable, it is forced with the error one of them makes.
ForcesOwnError ==
  \A l \in Forced :
    LET here == {s \in SitesOf(program) : s.throwAddr = l} IN
    forced[l].error \notin CustomErrors =>
      /\ \E s \in here : \A i \in DOMAIN s.args : s.args[i] # "variable"
      /\ (\A s \in here : ~Captures(s.args)) => \E s \in here : s.error = forced[l].error

\* What Exception.h says of those that do capture one: each argument is "a constant
\* expression stored in a static memory location (safe to access)".
ForcesConstantsSafely ==
  /\ call.op # "crashed"
  /\ \A l \in Forced : forced[l].error # Garbage

\* The bytes reach the function that was found, and no store faults.
AreaWritesTarget == Area!WritesTarget

\* Between API calls every page has the protection it was loaded with, unless the
\* last mprotect failed: then the area, and nothing else, has stayed writable.
AreaProtectionAsLoaded == Area!ProtectionAsLoaded

\* Every API call ends, unless the process dies.
ApiReturns == call.op \notin {"gone", "idle"} ~> call.op \in {"gone", "idle"} \/ Dead
=============================================================================
