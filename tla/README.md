# eforce in TLA+

eforce is a C++ library that makes a chosen function throw: it finds, with the
help of the linker, every `THROW_REGISTERED_EXCEPTION` of a program, and
overwrites the entry of the function that contains one with instructions that
load a pointer to an exception and jump to `eforce::Throw`. These modules model
its run-time behaviour, check it with TLC on small instances, and prove the
central results with TLAPS for every instance.

## The system

| Component | State | Operations | What makes it correct |
|---|---|---|---|
| Forcing engine, `src/src/ExceptionForcer.cpp` | `m_forcedExceptions` of every forcer, the code bytes at each function's entry, the protection of the executable area, one heap cell (`exception_ptr`) per forcing | `ForceException`, `UnforceException`, `~ExceptionForcer`, and under them the constructor and destructor of `ForcedException` and `ScopedMprotect` | a function with a forced location throws, one without runs; cells are neither leaked nor freed while needed; code is writable only while it is written |
| Symbol lookup, `src/src/Elf.cpp` | the sorted symbol table, loaded on first use | `GetContainingFunction` | the function returned contains the offset |
| Patch generators, `src/src/OpcodeGenerator*.cpp` | none | `GetThrowOpcode` for x64, Thumb-2, AArch64 | the processor executing the patch arrives at `Throw` with the pointer in its argument register, or the generator refuses |
| Address mapping, `ProgOffsetResolver.h`, `GetExecutableArea` | first mapping of `/proc/self/maps`, cached | `ToOffset`, `FromOffset` | the executable area contains the code |
| Registration macros, `Exception.h`, `BuiltinConstant.h`, `CompiletimeRegistry.h` | the `ThrowInfo` of each throw and the linker section of pointers to them | `THROW_REGISTERED_EXCEPTION`, `IS_CONSTEXPR`, `COMPILETIME_REGISTER` | each throw of each unit is in the section; an exception is only made from values that are there |
| Registry of throws, `CompiletimeRegistry`, `GetExceptions` | `s_throwInfos`, a view of that section | iteration, `GetExceptions` | the list has every throw, with its function |

`ForceException` looks its address up in the registry, asks the symbol lookup
for the containing function, asks the generator of the current architecture for
a patch, saves the bytes it replaces, and writes the patch between two
`mprotect` calls. Other threads of the program call the very functions that are
rewritten, and several `ExceptionForcer` objects may be alive at once; the only
state they share is the code itself and its protection, and nothing locks it.


The difficult behaviours, component by component:

* *Forcing engine.* Each `ForcedException` saves the bytes it finds at its
  function's entry and writes them back when it dies, so forcings of one
  function must nest. `ForceException` of a location that is already forced
  builds and installs a second patch before `map::emplace` refuses it. `mprotect`
  can fail in a constructor, which throws, and in a destructor, which terminates
  the process. `std::copy` rewrites code other threads are executing. Two
  forcers used from two threads take the write permission from each other.
* *Symbol lookup.* A binary search with a strict comparison over a table sorted
  by one key and searched by another; the neighbours of the element found are
  read without asking whether they exist.
* *Generators.* Immediates scattered over instruction bytes, signed distances in
  narrow fields, range checks at the limit of the field.
* *Registration.* Whether an exception may be made before its throw expression
  runs rests on `__builtin_constant_p`; captures by reference; a function that is
  compiled into several units.
* *Registry.* A throwing call in the middle of a list; a location looked up
  twice, in `GetExceptions` and in `ForceException`; use before static
  initialisation.
* *Address mapping.* What the first line of `/proc/self/maps` describes depends
  on the linker, and `mprotect` changes the lines. The area outlives the forcers
  that use it.
* *Together.* A lookup that misjudges where a function ends makes a patch run
  into the next function; a table, an address space and a map of forcings are
  built and dropped by each forcer over the same code.

## The modules

| Module | Models | Proofs |
|---|---|---|
| `ThrowOnDemand` | abstract: what the public API promises, as promises made and withdrawn one at a time | |
| `ExceptionForcer` | forcers, code, protection, heap and callers, one access to shared state per step | |
| `ExceptionForcerProperties` | its properties, its inductive invariant, its refinement of `ThrowOnDemand` | `ExceptionForcerProofs`, `ExceptionForcerEntryProofs`, `ExceptionForcerContractProofs` |
| `ElfSymbols` | `Elf::GetContainingFunction`, one probe of the binary search per step | `ElfSymbolsProofs` |
| `ThrowSites` | what preprocessor, compiler and linker make of a program's throws | `ThrowSitesProofs` |
| `ThrowRegistry` | `GetExceptions`; EXTENDS `ElfSymbols`, whose steps it takes, and `ThrowSites` | |
| `ExecutableArea` | `GetExecutableArea`, `ProgOffsetResolver`, `ScopedMprotect` over pages | |
| `Eforce` | the whole library with one client thread, down to bytes: EXTENDS `ThrowRegistry`, INSTANCEs `ExecutableArea`, refines `ThrowOnDemand` | `EforceProofs`, `EforceCodeProofs` |
| `OpcodeGenerator` | abstract: what `IOpcodeGenerator::GetThrowOpcode` promises | |
| `OpcodeX64` | the x86-64 generator and a processor that runs the patch | in `OpcodesProofs` |
| `OpcodeThumb`, `OpcodeAarch64` | the same for Thumb-2 and AArch64, down to the bytes | in `OpcodesProofs` |
| `Opcodes` | `GetOpcodeGenerator`: one of the three, refining `OpcodeGenerator`, or the fallback | `OpcodesProofs` |
| `MCForcer`, `MCEforce`, `MCRegistry`, `MCOpcodes`, `MCArea` | the instances TLC checks | |

The engine is modelled twice, because the two views do not fit in one state
space. `ExceptionForcer` has several forcers and threads, failing `mprotect` and
the heap, and takes the rest of the library through its constants: `FnOf` is
what `ElfSymbols` answers, `Patch` what `Opcodes` emits, `Unpatchable` where a
generator refuses or the patch is larger than the function (`Patchable` of
`Eforce`), and its single bit `writable` is the area of `ExecutableArea`. `Eforce` has one thread and one
forcer at a time, and none of these constants: functions, sizes, registrations,
errors and pages come from the modules it is composed of. Both implement
`ThrowOnDemand`.

### Correspondence to the code

*ExceptionForcer.* `text[f]` is the entry of function `f` as instructions, not
bytes: what matters is whose patch is there and how far it has been copied.
`heap` holds the cells behind `m_pException`; `forced[x]` is
`m_forcedExceptions`. A public method is an initial action (`ForceException`,
`ForceRejected`, `UnforceException`, `Destroy`, `Construct`) followed by the
steps of the constructor or destructor it runs, kept in `op[x]`:
`Unprotect`, or `ConstructorThrows` / `DestructorTerminates` when `mprotect`
fails; `Copy` of one instruction, or `CopyFaults`; `Protect`; then
`Emplace` / `EmplaceDuplicate` or `Free`. `DestroyNext` continues
`~ExceptionForcer` with the entry of the largest address, the order in which
libstdc++'s `map` is torn down. A thread enters a function, fetches its entry
one instruction at a time (`Fetch`) and ends by running the function, by
throwing, or lost in a torn entry or a freed cell. `ret`, and the fields `due`
and `calm` of a call, are history for the properties: `due` is what the forced
locations of the function promise, and a call is *calm* if no API call rewrites
its function while it lasts.

*ElfSymbols.* `file` is what libbfd shows of an ELF file: value, section and
kind of each symbol and the position of each section. `Load` filters and sorts
by `symbol->value`, ties in any order, as `std::sort` leaves them; `Probe` is
one iteration of `std::partition_point`; `Return` takes `std::prev` and
`*nextFn`. Reading in front of the vector or behind it yields any of the
outcomes a build can produce: a crash, or an end taken from what
`std::remove_if` left there. A name that `__cxa_demangle` rejects makes
`std::string(nullptr)` throw.

*ThrowOnDemand.* `promised` is the error each forcer has each location throw,
`changing` the function whose forcing is being changed, `calls` what threads see.
`ExceptionForcer` maps a map entry to a promise of the error in its cell, an API
call in progress to a change of the function around its location, and a patch or
the function's own code to nothing: the implementation of a promise is the point.

*ThrowSites.* An argument of a throw is a constant expression, a local variable
whose value the compiler knows, or a run-time value; `IsConstexpr` is what
`IS_CONSTEXPR` makes of them with `FOR_EACH`. The lambda that makes the exception
captures by reference (`Captures`) and is called without its object (`Generated`).
`Link` concatenates the sections of the translation units.

*ThrowRegistry.* `registry` is `s_throwInfos`, empty before `StaticInit`.
`AskNext`, the probes and `PushBack` are the body of the `std::transform`,
`GetExceptionsThrows` leaves it by an exception.

*Eforce.* `memory` is the bytes of the program, each its own or a piece of the
patch for a location and an error; how many bytes a patch has is `PatchSize`, and
what they are is the business of `Opcodes`. `ForceException` finds the
registration and asks for the function; what follows the answer is
`ForceExceptionThrows` (no name, no exception to throw, a generator that refuses,
or a patch too large, by the modular arithmetic of `size_t`), `GetExceptionCrashes`,
`ConstructorThrows` when `mprotect` fails, or `SaveOriginal`. `Unreachable` is the
functions for which `GetThrowOpcode` throws, for the reasons that are in `Opcodes`;
an empty patch, which only the fallback generator with `NDEBUG` returns, is left to
`Opcodes` (`PatchSize` is positive). `Restore` begins the destructor of
`ForcedException`, or `DestructorTerminates` ends the process there; `Write` is the
copy of both, through the pages of `ExecutableArea`; `Emplace`, `EmplaceDuplicate`,
`UnforceException`, `DestroyNext` are the map's doing; `Construct` and
`Destroyed` begin and end the life of the forcer with its `Elf` and
`ProgOffsetResolver`. `Client` says what clients may do: anything, but they remove
the forcings of one function last-forced-first, which `unforced_location` shows
to be necessary. `Runs` is what a call of a function comes to, given the bytes.

*Opcodes.* Thumb-2 and AArch64 patches are sequences of bytes; pointers are
tuples of 16-bit quantities because TLC's integers have 32 bits. The processor
(external to the library) decodes the bytes at its program counter by the
architecture's instruction formats. The x86-64 patch is its two operands, since
they are stored whole, and `int32_t` has the width `2 * Half`. The fallback
generator aborts in a build with assertions, which is a refusal
(`FallbackOutcome`). With `NDEBUG` it returns an empty patch like any other: the
processor is behind it at once without having thrown, which breaks the contract.

*ExecutableArea.* A page carries its offset in the file and its protection.
`FirstLine` is what the kernel prints first: consecutive pages of one protection
that are consecutive in the file. `area` is the function-local static of
`ScopedMprotect`, read once and kept when forcers come and go. `mprotect` may fail
when a scope opens (`UnprotectFails`, an exception) and when it closes (`Reprotect`,
which does not look): `unclosed` records the latter.

## The runs

| Run | Question | Instance |
|---|---|---|
| `exclusive` | Do calls behave as forced if no two forcings share a function, whatever overlaps and fails? | 1 forcer, 1 thread, 3 functions with one location each, one of them unpatchable, an unregistered address, failing `mprotect`, 3 cells |
| `overlap` | Do overlapping API calls of two forcers leak, leave code writable, or fail to end? | 2 forcers, 3 functions, 3 cells, no thread |
| `lifo` | Is last-forced-first all a client has to keep if forcings share a function? | 2 forcers, 2 locations of 1 function, 1 thread, 3 cells |
| `unforced_location` (violation) | ... and without that order? | 1 forcer, 2 locations of 1 function |
| `second_error` (violation) | Is a location forced with the exception of the last call that returned normally? | 1 forcer, 1 location, 2 errors |
| `torn_patch` (violation) | Can a call see half a patch? | 1 forcer, 1 location, 1 thread |
| `system` | Does the library as a whole keep its promises to one client? | see below |
| `captured_constant` (violation) | Is an exception only made from memory that is there? | 1 throw with a captured local constant |
| `start_of_function` (violation) | Is a throw that is its function's first instruction found in it? | 2 symbols, 1 throw |
| `opcodes` | Does every emitted patch lead to `Throw` with its pointer? | see below |
| `thumb_far` (violation) | ... for a distance beyond a Thumb branch? | the first two such distances |
| `area_separate_code` (violation) | Is the area read from the maps the code, if the header has a segment of its own? | 1 to 3 code pages |

The properties, and why these bounds show them:

* `ForcedCallsThrow`, `UnforcedCallsRun` and the part `EntryInv` of `IInv`
  speak of calm calls. One thread suffices: threads only read `text` and `heap`
  and do not affect each other. Three cells allow two forcings and the temporary
  of a third call. A patch has two instructions, the fewest that can be torn,
  and those of x86-64. Errors that differ between a location's own exception
  and a custom one tell a wrong cell from the right one.
* `ForceReturnsForced` compares the map before and after each normal return: a newly
  forced location has the error asked for, and one that was forced keeps the
  earlier error. That is what the code does; `ForceDelivers` is what its header
  says, and `second_error` shows the difference.
* `CellsOwnedOnce`, `WritableOnlyInScope` and `NoFault` are also proved, so their
  bounds are no limit. `WritableOnlyInScope` needs `mprotect` to succeed, so
  `overlap` has no failures; `exclusive` has them. `NoFault` needs calls that
  do not overlap, and `lifo` has that.
* `LeftAsFound` in `exclusive` and `lifo`: a forcer that is gone has left no patch,
  with entries of two functions to go through in the one and entries of the same
  function in the other.
* `CallsGetOn`, `CallsReturn` and `DestructionRestores` in `overlap`: a forcer with two forced
  functions has to go through both entries; the other forcer's calls interleave.
* `ImplementsContract` in `exclusive`: all steps of constructors, destructors and
  the map, with their failures, map to the abstract promises.
* `system` has 31 symbol tables, of 0 to 3 functions at offsets 2, 3, 5 and 7, with
  coinciding addresses, a name that cannot be demangled, and a symbol
  behind the last function whose value serves as its end. A patch has 3 bytes, so that
  a function of 3 bytes just holds it, one of 2 does not, and one of 0 (two
  symbols at one address) makes the size wrap (`Word`). Two programs: two throws
  in two units, one of them in both units since its function is inline, one with
  a run-time argument; and one throw with a captured local constant. The
  locations 103 and 106 lie in one function or in two, or in front of all. Code is
  a segment of 12 pages of one byte at 100, and behind a hole comes data.
  Each call of the API begins at any point between calls, before or after static
  initialisation, each `mprotect` may fail, and `GetThrowOpcode` refuses the
  function at offset 3.
* `KeepsPromises` asks the bytes of memory what a call of each function would do
  and compares with the promises of the map: it is where a wrong function, a wrong
  size, a wrong saved byte or a wrong order would show. It excludes locations at
  the very start of a function, which `start_of_function` is about, and
  sections beyond one. `NothingLeft` is its counterpart for the end of a
  forcer, and `SysImplementsContract` for the steps in between.
* `AreaProtectionAsLoaded` also says what a closing `mprotect` that failed leaves:
  the whole area writable and executable, nothing else, until a scope that closes.
  Like `AreaWritesTarget` it is stated for programs whose header and code are loaded
  together (`CodeFirst`); `area_separate_code` is about the others.
* `ForcesOwnError` requires the throw's own error only where no throw at the
  location captures a local variable; with one that does, anything may be thrown,
  which is the disagreement `captured_constant` shows.
* All safety properties of `system`, and its refinement, are also proved for all
  sizes, `ForcesWhatIsListed` and `SameAnswer` under the conditions named with
  their theorems; `ApiReturns` rests on TLC alone. `SameAnswer` is about the table
  that is kept between calls.
* `ArchArrivesAtThrow` and `ArchImplementsContract` depend on the value of each
  field separately: distances take each power of two at which a field of the
  branch begins, its neighbours and the midpoint, both signs where the generator
  accepts them, and the last distance in reach; each immediate of the pointer
  takes its limits. For x86-64 `Half` is 32 and every distance from -90 to 90 is
  taken but +32, which crosses each limit; the proofs hold for every `Half`, every distance
  and every pointer. The distances that a range check misjudges (x86-64 exactly
  `+2^31`, AArch64 128 to 256 MB ahead and everything behind) are left out of
  the run, as are builds with `NDEBUG`: there the properties are false, see below.

`IInv` is checked in `exclusive` and `overlap`. Symmetry is used over the heap
cells, which nothing orders, and only in runs without liveness.

### Fairness

A thread inside an API call keeps running: `FairSpec` of `ExceptionForcer`
assumes weak fairness of each forcer's steps (`Step(x)`), `SysSpec` of the steps of
a call in progress (`Working`), `ArchFairSpec` of the generator and the
processor. Nothing is assumed of clients, which may never call again, nor of the
threads that call functions. The library takes no lock and waits for nothing, so
weak fairness is what an ordinary scheduler gives.

## What is proved

All proofs are for arbitrary values of the constants under the named `ASSUME`s
of the modules.

*`ExceptionForcerProofs`.* `TypeCorrect`: `TypeOK` is inductive. `CellsCorrect`:
`TypeOK /\ CellsOwnedOnce` is inductive; ownership moves from the object under
construction to the map entry and from there to the object under destruction,
and the lemmas `OwnerAllocates`, `OwnerLinks`, `OwnerUnlinks`, `OwnerFrees`,
`OwnerFreesAndUnlinks` and `OwnersStay` are those moves. `ProtectionRestored`
follows by how program counters move (`PcMoves`). `StoresDoNotFault` needs
`SequentialInv`: if calls do not overlap, whoever copies has unprotected the
code, and for that `OpShape`, the local state at each program counter.
The constants' assumption says that locations are registered addresses, that
marks such as `"own"` and `"freed"` are no pointers or errors, and that a patch
has at least two instructions.

*`ExceptionForcerEntryProofs`.* `InvariantHolds`: `IInv` is inductive. That a calm
call sees what is promised is not inductive by itself; `IInv` adds what the map
entries saved (`EntriesSavedOriginal`), how far a rewriting has come
(`RewriteProgress`), that the entry of a function nobody is rewriting is what the
maps say (`TextMatchesMaps`), and what a thread has fetched (`CallProgress`). All
of this is under `Exclusive`, that no two forcings a client asks for share a
function: then a function has at most one object that writes to it, and steps
about other functions leave its entry alone. `ForcedCallsDoThrow` and
`UnforcedCallsDoRun` follow.

The same module proves them where forcings of a function do nest. Under
`Sequential`, and when the exception forced last is always unforced first
(`LastForcedFirst`), `StackInv` says that there is some order in time in which
each forcing of a function has saved the patch of the one below it, the lowest the
original entry, and that the entry shows the patch of the highest. `StackLinks` and
`StackUnlinks` are the two steps that change the stack; that what is destroyed is its
top (`LastShown`) uses that a memory cell has one owner. Every step of a forcer
is local to its function and marks the calls of it as disturbed (`StepIsLocal`,
`Announced`), which keeps the calls in progress on course (`ForcerKeepsCalls`,
`CallsKept`). With `LifoInv` follow `StackedCallsThrow` and `StackedCallsRun`.

*`ExceptionForcerContractProofs`.* `ForceDoesReturnForced`, an action property, from the
same invariant; `ContractImplemented`: under `Exclusive` the initial states of
`ExceptionForcer` map to those of `ThrowOnDemand`, and each action to a step of it
or a stutter, one lemma per kind of step. What these need of calls is only that they
are on course (`CallsInv`), so that `StackedContractImplemented` states the same of
`LifoSpec`. `MapMoves` says what a step does to the map of its forcer, from which
`MapsAsAsked`: a map is finite, holds what the forcer was asked to force, and is
empty when the forcer is gone. With the invariants above it gives
`FunctionsLeftAsFound` and `StackedLeftAsFound`, the property `LeftAsFound` of
`Spec` under `Exclusive` and of `LifoSpec` under `Sequential`. `CallsDoGetOn`, the
action property `CallsGetOn`, needs the finite map too: the steps left of a call
(`StepsLeft`) are counted by the instructions to copy and the entries to destroy,
and each step makes them fewer (`GetsOn`). That is the safety half of `CallsReturn`
and holds under `Spec`, without fairness.

*`ElfSymbolsProofs`.* `TypeCorrect`, and `ContainingFunctionFound`:
`FindsContainingInOneSection`. The invariant `SearchInv` is that of a binary
search: what is in front of the remaining part starts before the offset, what is
behind does not. `FindsContaining` alone is not inductive, since it says nothing
of a search in progress. Sorting enters by `TableFacts`: in one section the
order of values is the order of addresses. `Symbols` is finite. What is read
behind the table may be anything. `AnswersStay`: `SameAnswer`, for functions in one
section. Each answer was taken from the table that is still there
(`AnswersFromTable`), and the search can stop in one place of it only (`OneResult`).

*`ThrowSitesProofs`.* `SectionHasAllSites`: linking any number of units keeps each
site and adds none. The prover cannot instantiate the induction theorems; the
induction over units is done with the least number of units that would be a
counterexample (`Least`).

*`EforceProofs`.* The invariant `SysInv` is that of the lookup (`IInv`), the types,
what the call in progress asks of the lookup (`Asks`), and that objects are about
functions of the file and write their own bytes (`Objects`); steps are grouped by
what they touch. From it `SystemTypeCorrect`; with `PagesInv`, the protection of
each page inside and outside a scope and after one that did not close, `ProtectionKept`
and `TargetWritten`; with `RightInv`, that each object is about the function around its
location and has the client's error or one that a throw there generates,
`OwnErrorForced`; with `ListInv`, that the
vector under construction describes the first elements of the section,
`EveryThrowListed`; with both, `ListedForced`, for functions in one section and
locations inside functions. `LookupRepeats` carries `AnswersStay` over to the lookups
of all calls of a forcer. `SysContractImplemented`: the initial states of
`Eforce` map to those of `ThrowOnDemand`, each step to a step of it or a stutter.
They assume `EforceAssumption` (addresses are positive naturals, `PatchSize` is
positive and fits a word), `ProgramsAssumption` (units are sequences of sites with at
most 24 arguments, at addresses other than null), `FilesAssumption`,
`ObjectAssumption` (`None` is no object, error or area), and `LayoutAssumption`: throws
are in the program, sections of functions are behind the ELF header, and the bytes
a patch replaces are in executable pages as far behind the first mapping as in the
file. Imported functions, which libbfd shows in no section of the file, do not meet
`LayoutAssumption`; see the limits below. `ProtectionKept` and `TargetWritten` state their own
condition, `CodeFirst`: the first mapping is the code.

*`EforceCodeProofs`.* `PromisesKept`, the property `KeepsPromises`, and
`CodeLeftAsLoaded`, the property `NothingLeft`, both for functions in one section. Neither property
is inductive: it says nothing while a call is writing, nor of what the entries of
the map have saved. `CodeInv` adds that. The entries of two functions never share a
byte (`Clear`), which `ClearSaved` derives from the order of the table and the size
check, also for the last function, whose end is read from behind the table:
behind it there is nothing to hit. Bytes outside all entries are as loaded
(`OnlyEntries`). The forcings of one function are a stack (`Stacked`): some order
in time exists, not stored anywhere in the program, in which each forcing has saved
the patch of the one below or the function's own bytes, and the entry is that of
the topmost. The client keeps the stack by unforcing the topmost (`LastAtEntry`);
`~ExceptionForcer` keeps it if locations were forced in ascending order
(`LargestOnTop`). `RunsPatch` and `RunsOwn` turn bytes into what a call does.

*`OpcodesProofs`.* Every generator, for every value of pointers and addresses. A
patch is a sequence of instructions of four bytes (`Encodes`; `FirstInstruction`
and `NextInstruction` build it), so that what the processor fetches at the `k`-th
place is the `k`-th instruction that was put there. Decoding undoes encoding:
`ThumbHalfWord`, `ThumbBranch`, `Aarch64Quarter` and `Aarch64Branch` are the round
trips through the scattered fields, and `OffsetIsDistance` is that of the x86-64
`int32_t`; the operand of a branch comes back up to a multiple of the branch's range,
and no instruction can be taken for one of another kind. The invariant `ArchInv`
(`X64Inv`, `ThumbInv`, `Aarch64Inv`, one for each build) says which instructions have
been executed and what they have loaded. `ArrivesAtThrow` alone says nothing before
the processor leaves.

* `ArchTypeCorrect`: operands always fit their fields, in reach or not.
* `ArrivesIffInReach`, without any condition on distances: who leaves the patch is
  at `Throw` with `pError` exactly if `throwFn` is in the reach of the branch.
* `ArchPatchThrows`: `ArchArrivesAtThrow`, if what is emitted is in reach
  (`EmitsInReach`): no x86-64 target exactly `+2^31` ahead, no AArch64 target 128 to
  256 MB ahead, no Thumb-2 target beyond 16 MB, and the fallback only in a build with
  assertions (`FallbackAsserts`). By `ArrivesIffInReach` it cannot be
  weaker: these are the range checks' mistakes listed below.
* `ArchStepsImplementContract`: initial states and steps map to those of
  `OpcodeGenerator`, if in addition no AArch64 target that a branch reaches is
  behind (`NoneBehind`; the code refuses those) and the requests of different
  architectures differ (`RequestsApart`, which the contract's constants require).
  The requests and the build of the run `opcodes` meet these conditions.
* `PatchThrows` and `StepsImplementContract`: the same for `OpcodeX64` by itself.

`throwFn` is assumed to lie outside the patch.

*Only model-checked*: all liveness, which with ENABLED is beyond the prover:
`CallsReturn` and `DestructionRestores`, `ApiReturns`, and the liveness part of
`ArchImplementsContract`. Of the first, `CallsDoGetOn` proves what is not liveness.

## Where code and documentation disagree

The violation runs show these. Each ends with what the code does:

* `unforced_location`: two forced locations of one function, unforced in the
  order they were forced. The second destructor writes back the first one's
  patch, whose `exception_ptr` is freed. Likewise, unforcing only the first lets
  the function run although its second location is still forced, and
  `~ExceptionForcer` unforces by address, in whatever order they were forced.
* `second_error`: `ForceException(loc, pError)` for a location that is forced already
  returns normally and drops `pError`; calls keep throwing the earlier exception.
  The header says "Forces an exception that is thrown from location loc with a
  custom exception" (`src/include/eforce/ExceptionForcer.h:60`).
* `torn_patch`: a thread executes part of the old and part of the new entry.
* `start_of_function`: a throw that is the first instruction of a function is
  looked up in the function before it. `g++ -O2` produces this for
  `void I() { THROW_REGISTERED_EXCEPTION(int, 3); }`.
* `thumb_far`: a branch target beyond 16 MB is truncated, not refused.
* `captured_constant`: `IS_CONSTEXPR` holds for a local `const int n = 5` that is
  passed to a constructor by reference; the function that makes the exception then
  reads `n` through an object that does not exist. Compiled with g++ 12 it
  crashes.
* `area_separate_code`: with `-z separate-code`, the default of current linkers
  on x86-64, the first mapping is the read-only header and not the code.

Other limits the models show by what they exclude or describe, with no run:

* Functions in several sections (`.init`, `.text`, `.fini`) are sorted by values
  relative to their sections and searched by file position
  (`src/src/Elf.cpp:50` and `:58`); the lookup is right for one section.
* The end of the last function is read behind the table (`src/src/Elf.cpp:64`).
* x86-64: a distance of exactly `+2^31` passes the check and is encoded as
  `-2^31` (`src/src/OpcodeGeneratorX64.cpp:37`).
* AArch64: targets 128 to 256 MB ahead are accepted and encoded as backward
  branches; every target behind the function is refused
  (`src/src/OpcodeGeneratorAarch64.cpp:45`).
* A throw in `main` or in an `extern "C"` function makes `GetExceptions` throw
  `std::logic_error`, and nothing is listed: `__cxa_demangle` rejects the name
  (`src/src/Elf.cpp:71`; `GetExceptionsThrows`).
* On an architecture without a generator of its own the fallback aborts, or, with
  `NDEBUG`, returns an empty patch: the location is recorded as forced and the
  function still runs (`src/include/priv/IOpcodeGenerator.h:40`), although line 16
  there promises code "to throw". The mutant `FallbackReturns` is that build, and
  breaks both properties of `Opcodes`.
* A closing `mprotect` that fails is not noticed (`src/src/ExceptionForcer.cpp:118`):
  the code stays writable while the program goes on (`unclosed`).
* The throw of an inline function is listed once for each unit that uses it, and
  before static initialisation the list is empty and no location can be forced.
* Undefined symbols of functions have the value 0 and count as functions
  (`src/src/Elf.cpp:44`); `LayoutAssumption` leaves them out, since a patch
  for one would go to the ELF header.

## What is not modelled

* `bad_alloc` in any call; races inside one forcer or one `Elf` object, which
  the library does not claim to support; instruction caches.
* `ForcedException::operator=(ForcedException&&)`, which would call itself
  without end (`src/src/ExceptionForcer.cpp:214`); nothing calls it.
* A function whose loops branch back into its replaced entry; a function over
  two pages; code in shared objects; executables whose addresses and file
  offsets differ in the code segment, as lld lays them out.
* Compilers, linkers and libbfd: `ThrowSites` and `ElfSymbols` take from them what the
  library's code relies on. `ThrowSites` does not expand macros token by token.
* Tests and build files, which have no behaviour of their own, and Catch, the
  vendored test framework, which is third-party code and no part of the library.
  `src/catch/catch.hpp` has 12852 of the repository's 14025 lines of code, so that
  a share of mapped lines counted over all of it stays small; of the library's own
  lines the map names about 60%, the rest being comments, includes,
  declarations and layout.

## Plan

Done: each component, the composition, the abstract specification and its two
refinements, both proved, and proofs of the central properties of engine, lookup,
registry, pages, bytes of code and all patch generators. What is left:

1. Functions in several sections, functions over two pages, and executables in
   which addresses and file offsets differ.
