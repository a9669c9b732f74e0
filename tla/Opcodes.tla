------------------------------- MODULE Opcodes -------------------------------
(***************************************************************************)
(* GetOpcodeGenerator (src/src/ExceptionForcer.cpp): the architecture the   *)
(* library is built for decides which generator is asked for the patch, and *)
(* which processor executes it.  The state is that of OpcodeX64, whose      *)
(* instruction pointer and argument register are those of the other         *)
(* processors too.  The fallback generator, for every other architecture,   *)
(* has no code to offer; only an assertion keeps it from offering none.     *)
(***************************************************************************)
EXTENDS OpcodeX64

CONSTANTS
  ThumbRequests, Aarch64Requests, FallbackRequests, \* calls of the other generators
  NDEBUG \* whether the library is built without assertions

VARIABLE arch \* GetCurrentArch()

Thumb   == INSTANCE OpcodeThumb   WITH Requests <- ThumbRequests, pc <- rip, r0 <- rdi
Aarch64 == INSTANCE OpcodeAarch64 WITH Requests <- Aarch64Requests, pc <- rip, x0 <- rdi

ASSUME ArchAssumption ==
  /\ Thumb!ValidRequests /\ Aarch64!ValidRequests
  /\ \A r \in FallbackRequests : r.throwFn # r.fnStart
  /\ NDEBUG \in BOOLEAN

archVars == <<arch, vars>>

FallbackInit ==
  /\ request \in FallbackRequests
  /\ phase = "asked" /\ code = <<>>
  /\ rip = request.fnStart /\ rdi = Null

\* Mutant: without the assertion.
FallbackReturns ==
  /\ phase = "asked"
  /\ phase' = "left"
  /\ UNCHANGED <<request, code, rip, rdi>>

\* OpcodeGeneratorFallback: the assertion fails and the process aborts.  With
\* NDEBUG an empty patch is returned like any other; a processor that enters
\* fnStart is behind it at once, and has thrown nothing.
FallbackGetThrowOpcode ==
  /\ phase = "asked"
  /\ phase' = IF NDEBUG THEN "left" ELSE "aborted"
  /\ UNCHANGED <<request, code, rip, rdi>>

\* No code is returned if the assertion fails; an empty patch is code that goes astray.
FallbackOutcome == IF phase = "aborted" THEN "refused" ELSE Outcome

ArchInit ==
  \/ arch = "Amd64"     /\ Init
  \/ arch = "ArmThumb2" /\ Thumb!Init
  \/ arch = "Aarch64"   /\ Aarch64!Init
  \/ arch = "Fallback"  /\ FallbackInit

ArchNext ==
  /\ UNCHANGED arch
  /\ \/ arch = "Amd64"     /\ Next
     \/ arch = "ArmThumb2" /\ Thumb!Next
     \/ arch = "Aarch64"   /\ Aarch64!Next
     \/ arch = "Fallback"  /\ FallbackGetThrowOpcode

ArchSpec == ArchInit /\ [][ArchNext]_archVars

\* The call returns and the processor keeps executing.
ArchFairSpec == ArchSpec /\ WF_archVars(ArchNext)

OfArch(x64, thumb, aarch64, fallback) ==
  CASE arch = "Amd64"     -> x64
    [] arch = "ArmThumb2" -> thumb
    [] arch = "Aarch64"   -> aarch64
    [] arch = "Fallback"  -> fallback
-----------------------------------------------------------------------------
\* Operands fit the fields they are put into, and addresses stay addresses.
ArchTypeOK == OfArch(TypeOK, Thumb!TypeOK, Aarch64!TypeOK, code = <<>>)

\* "code that can be placed at fnStart to throw pError": on every architecture
\* a processor that leaves the patch is at throwFn with pError as the argument.
ArchArrivesAtThrow ==
  OfArch(ArrivesAtThrow, Thumb!ArrivesAtThrow, Aarch64!ArrivesAtThrow, ArrivesAtThrow)

\* Generator and processor implement the contract of IOpcodeGenerator: only
\* what is out of reach of the architecture's branch is refused, as is everything
\* by a fallback that asserts, and the patch ends in a throw of pError.
ArchContract == INSTANCE OpcodeGenerator WITH
  Requests <- Requests \cup ThumbRequests \cup Aarch64Requests \cup FallbackRequests,
  InReach  <- InReach \cup Thumb!InReach \cup Aarch64!InReach,
  outcome  <- OfArch(Outcome, Thumb!Outcome, Aarch64!Outcome, FallbackOutcome),
  thrown   <- OfArch(Thrown, Thumb!Thrown, Aarch64!Thrown, Thrown)
ArchImplementsContract == ArchContract!Spec
=============================================================================
