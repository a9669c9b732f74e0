----------------------------- MODULE EforceProofs -----------------------------
(***************************************************************************)
(* Proofs about the whole library, for every program, symbol table, address *)
(* space, patch size and width of size_t that meets the assumptions: the    *)
(* parts agree on who is working, pages get their protection back, each     *)
(* store of a patch is to the function that was found and does not fault,   *)
(* every throw is listed, and a location is forced with its own error in    *)
(* the function that was listed for it.                                     *)
(***************************************************************************)
EXTENDS Eforce, ElfSymbolsProofs, ThrowSitesProofs, TLAPS

Start == Area!Start

\* What the call in progress is about, and what the lookup it waits for is asked.
Asks ==
  /\ call = Call(call.op, call.at, call.error)
  /\ call.at \in Nat /\ call.error \in CustomErrors \cup {Null}
  /\ call.op = "list" => call.at > 0
  /\ call.op = "force" => call.at \in Locations /\ Registered(call.at)
  /\ query.pc = "search" /\ call.op = "list" =>
       /\ call.at <= Len(registry)
       /\ query.offset = registry[call.at].throwAddr - Start
  /\ query.pc = "search" /\ call.op = "force" => query.offset = call.at - Start

\* An object is about a function of the file.
OfFunction(o) == \E s \in file.functions : o.start = Start + Address(s)

SysTypes ==
  /\ image \in Images
  /\ program \in Programs /\ section = Link(program) /\ registry \in {<<>>, section}
  /\ memory \in [Area!Pages -> Byte]
  /\ forced \in [Locations -> ForcedException \cup {None}]
  /\ object \in ForcedException \cup {None}

\* Objects are about functions, and what is written is the object's bytes.
Objects ==
  /\ object # None => OfFunction(object)
  /\ \A l \in Forced : OfFunction(forced[l])
  /\ phase # "idle" => target = {object.start - Start + i : i \in Bytes}
  /\ written = IF phase = "written" THEN {o + Start : o \in target} ELSE {}

SysInv == IInv /\ SysTypeOK /\ SysTypes /\ Asks /\ Objects

-----------------------------------------------------------------------------
(* Facts about one state.                                                   *)

\* The first page, of an image that has one.
LEMMA StartFirst ==
  ASSUME image \in Images
  PROVE  /\ Start = First(image)
         /\ Area!Pages \subseteq Nat
         /\ Start \in Area!Pages /\ \A q \in Area!Pages : Start <= q
<1>1. \E p \in DOMAIN image : \A q \in DOMAIN image : p <= q
  BY LayoutAssumption
<1>2. \A p \in DOMAIN image : p \in Nat
  BY EforceAssumption DEF Area!ValidImages, Area!IsImage
<1> QED
  BY <1>1, <1>2 DEF Start, Area!Start, Area!Pages, First

\* The sites of a program and the elements of its section.
LEMMA ProgramSection ==
  \A p \in Programs :
    /\ Link(p) \in Seq(Info)
    /\ \A j \in DOMAIN Link(p) : \E s \in SitesOf(p) : Link(p)[j] = ThrowInfo(s)
    /\ \A s \in SitesOf(p) : \E j \in DOMAIN Link(p) : Link(p)[j] = ThrowInfo(s)
BY ProgramsAssumption, SectionHasAllSites

LEMMA SeqElement ==
  ASSUME NEW S, NEW q \in Seq(S), NEW i \in DOMAIN q
  PROVE  q[i] \in S
OBVIOUS

\* The registry is a sequence of ThrowInfos whose offsets may be asked for.
LEMMA RegistryFacts ==
  ASSUME SysTypes
  PROVE  /\ Len(registry) \in Nat /\ DOMAIN registry = 1 .. Len(registry)
         /\ registry \in Seq(Info)
         /\ \A i \in DOMAIN registry : /\ registry[i].throwAddr \in Nat \ {0}
                                       /\ registry[i].throwAddr - Start \in Offsets
<1>1. Link(program) \in Seq(Info)
  BY ProgramSection DEF SysTypes
<1>2. \A j \in DOMAIN Link(program) : Link(program)[j].throwAddr - Start \in Offsets
  BY LayoutAssumption, StartFirst DEF SysTypes
<1>3. \A j \in DOMAIN Link(program) : Link(program)[j].throwAddr \in Nat \ {0}
  <2>1. \A j \in DOMAIN Link(program) : Link(program)[j] \in Info
    BY <1>1, SeqElement, Zenon
  <2> QED
    BY <2>1 DEF Info
<1>4. CASE registry = <<>>
  BY <1>4
<1>5. CASE registry = Link(program)
  BY <1>1, <1>2, <1>3, <1>5
<1> QED
  BY <1>4, <1>5 DEF SysTypes

\* The search of a registered location stops at one of its registrations.
LEMMA FirstRegistration ==
  ASSUME SysTypes, NEW l, Registered(l)
  PROVE  \E i \in DOMAIN registry : Registration(l) = registry[i] /\ registry[i].throwAddr = l
<1> DEFINE S == {i \in DOMAIN registry : registry[i].throwAddr = l}
<1>1. DOMAIN registry = 1 .. Len(registry) /\ Len(registry) \in Nat
  BY RegistryFacts
<1>2. S \in SUBSET Nat /\ S # {}
  BY <1>1 DEF Registered
<1>3. \E m \in S : \A k \in S : m <= k
  <2> HIDE DEF S
  <2> QED
    BY <1>2, Least
<1>4. \E i \in DOMAIN registry :
        registry[i].throwAddr = l /\ \A j \in 1 .. i - 1 : registry[j].throwAddr # l
  BY <1>1, <1>3
<1> QED
  BY <1>4 DEF Registration

\* The bytes a patch replaces are code, where they are expected.
LEMMA CodeFacts ==
  ASSUME TypeOK, image \in Images, NEW s \in file.functions, NEW i \in Bytes
  PROVE  /\ Start + Address(s) \in Nat /\ Address(s) \in Nat \ {0}
         /\ Start + Address(s) + i \in Area!Code
         /\ image[Start + Address(s) + i].offset = Address(s) + i
<1>1. file \in Files /\ file \in FileType /\ Address(s) \in Nat /\ s \in Symbols
  BY FilesAssumption, FileFacts DEF TypeOK
<1>2. i \in 0 .. PatchSize - 1 /\ i \in Nat
  BY EforceAssumption DEF Bytes
<1>3. Start = First(image) /\ Start \in Nat
  BY StartFirst
<1> DEFINE offset == Address(s) + i
<1>4. /\ First(image) + offset \in DOMAIN image
      /\ image[First(image) + offset].offset = offset /\ "x" \in image[First(image) + offset].prot
  BY <1>1, <1>2, LayoutAssumption DEF Address
<1>5. First(image) + offset = Start + Address(s) + i
  BY <1>1, <1>2, <1>3
<1>6. Address(s) > 0
  <2>1. file.filepos[file.section[s]] > 0
    BY <1>1, <1>2, LayoutAssumption
  <2>2. file.value[s] \in Nat /\ file.filepos[file.section[s]] \in Nat
    BY <1>1, FileFacts
  <2> QED
    BY <2>1, <2>2 DEF Address
<1> QED
  BY <1>1, <1>3, <1>4, <1>5, <1>6 DEF Area!Code, Area!Pages

\* The offset of an object's byte in the file is not 0.
LEMMA ObjectOffsets ==
  ASSUME TypeOK, image \in Images, NEW o, OfFunction(o), NEW i \in Bytes
  PROVE  /\ o.start \in Nat /\ i \in Nat /\ Start \in Nat
         /\ o.start - Start + i # 0
         /\ o.start + i # 0
<1>1. PICK s \in file.functions : o.start = Start + Address(s)
  BY DEF OfFunction
<1>2. Address(s) \in Nat \ {0} /\ Start \in Nat
  BY CodeFacts, StartFirst
<1>3. i \in Nat
  BY EforceAssumption DEF Bytes
<1> QED
  BY <1>1, <1>2, <1>3

\* What a lookup that returns a function says of it.
LEMMA AnswerFacts ==
  ASSUME IInv, Return, Answer.outcome = "function"
  PROVE  /\ query.pc = "search" /\ query.offset \in Offsets
         /\ \E s \in file.functions : Answer.start = Address(s)
         /\ OneSection /\ Inside(query.offset) => RightAnswer(Answer, query.offset)
<1>1. TypeOK /\ (OneSection => SearchInv)
  BY DEF IInv
<1>2. PICK r \in Results(query.first) :
        \A o \in Offsets : answers'[o] = IF o = query.offset THEN r ELSE answers[o]
  BY <1>1, TypeReturn
<1>3. query.offset \in Offsets /\ query.first \in 1 .. Size + 1 /\ (Size > 0 => table \in Sorted)
  BY <1>1, TypeReturn
<1>4. Answer = r
  BY <1>2, <1>3 DEF Answer
<1>5. r.outcome = "function" => \E s \in file.functions : r.start = Address(s)
  <2>1. CASE r = Failed("crash") \/ r = Failed("logic_error")
    BY <2>1 DEF Failed
  <2>2. CASE /\ query.first # 1
             /\ \E end \in EndValues(query.first) : r = Function_t(table[query.first - 1], end)
    <3>1. Size \in Nat /\ query.first - 1 \in 1 .. Size /\ Size > 0
      BY <1>1, <1>3, <2>2, FileFacts
    <3>2. table[query.first - 1] \in file.functions
      BY <1>1, <1>3, <3>1, TableFacts
    <3> QED
      BY <2>2, <3>2 DEF Function_t
  <2> QED
    BY <1>1, <1>3, <2>1, <2>2, ResultTypes
<1> QED
  BY <1>1, <1>3, <1>4, <1>5, ResultContains DEF Return
-----------------------------------------------------------------------------
(* The lookup.                                                              *)

\* What a step of the library is to the lookup: one of its own steps, or none,
\* or the end of its Elf.
LEMMA LookupMoves ==
  ASSUME SysInv, [SysNext]_sysVars
  PROVE  [Next]_vars \/ Destroyed
<1>1. TypeOK
  BY DEF SysInv, IInv
<1>2. CASE UNCHANGED lookup
  BY <1>2 DEF lookup, vars
<1>3. CASE AskNext
  <2>1. call.op = "list" /\ call.at \in 1 .. Len(registry) /\ progStart = Start
    BY <1>3, RegistryFacts DEF AskNext, SysInv, SysTypeOK, Asks, Start
  <2>2. ToOffset(registry[call.at].throwAddr) \in Offsets
    BY <2>1, RegistryFacts DEF SysInv, ToOffset
  <2> QED
    BY <1>3, <2>2 DEF AskNext, Next
<1>4. ASSUME NEW l \in Locations, NEW e, ForceException(l, e) PROVE Next
  <2>1. PICK i \in DOMAIN registry : registry[i].throwAddr = l
    BY <1>4 DEF ForceException, Registered
  <2>2. progStart = Start
    BY <1>4 DEF ForceException, SysInv, SysTypeOK, Start
  <2>3. ToOffset(l) \in Offsets
    BY <2>1, <2>2, EforceAssumption, RegistryFacts DEF SysInv, ToOffset
  <2> QED
    BY <1>4, <2>3 DEF ForceException, Next
<1>5. CASE Search \/ Crash \/ PushBack \/ GetExceptionsThrows \/ Located
  BY <1>5 DEF Search, Crash, PushBack, GetExceptionsThrows, Located, Next
<1>6. CASE ForceExceptionThrows \/ GetExceptionCrashes \/ ConstructorThrows \/ SaveOriginal
  BY <1>6 DEF ForceExceptionThrows, GetExceptionCrashes, ConstructorThrows, SaveOriginal, Located, Next
<1>7. CASE StaticInit \/ GetExceptions \/ Construct \/ Destroy \/ GetExceptionsReturns
  BY <1>2, <1>7 DEF StaticInit, GetExceptions, Construct, Destroy, GetExceptionsReturns
<1>8. CASE Write \/ Emplace \/ EmplaceDuplicate \/ DestroyNext \/ Restore \/ DestructorTerminates \/ Restored
  BY <1>2, <1>8 DEF Write, Emplace, EmplaceDuplicate, DestroyNext, Restore, DestructorTerminates, Restored
<1>9. CASE \E l \in Locations : UnforceException(l)
  BY <1>2, <1>9 DEF UnforceException
<1>10. CASE UNCHANGED sysVars
  BY <1>2, <1>10 DEF sysVars
<1> QED
  BY <1>3, <1>4, <1>5, <1>6, <1>7, <1>8, <1>9, <1>10 DEF SysNext, Client, Working

\* The lookup's invariant holds in the library, too.
LEMMA LookupKept ==
  ASSUME SysInv, [SysNext]_sysVars
  PROVE  IInv'
<1>1. CASE [Next]_vars
  BY <1>1, InvNext DEF SysInv
<1>2. CASE Destroyed
  <2>1. /\ table' = <<>> /\ answers' = [o \in Offsets |-> Failed("none")]
        /\ UNCHANGED <<file, query>> /\ query.pc # "search"
    BY <1>2 DEF Destroyed, SysInv, SysTypeOK
  <2>2. TypeOK'
    BY <2>1 DEF SysInv, IInv, TypeOK, Failed, AnswerType
  <2>3. SearchInv' /\ FindsContaining'
    BY <2>1 DEF SearchInv, FindsContaining, RightAnswer, Failed
  <2> QED
    BY <2>2, <2>3 DEF IInv
<1> QED
  BY <1>1, <1>2, LookupMoves
-----------------------------------------------------------------------------
(* The calls.                                                               *)

\* The program and its address space stay what they are.
LEMMA Fixed ==
  ASSUME [SysNext]_sysVars
  PROVE  UNCHANGED <<file, image, program, section>>
<1>1. CASE ((StaticInit \/ GetExceptions) /\ Aside) \/ Construct \/ Destroy
  BY <1>1 DEF StaticInit, GetExceptions, Construct, Destroy, Aside, pages, lookup, static, Area!Construct
<1>2. CASE \E l \in Locations : UnforceException(l) \/ \E e : ForceException(l, e)
  BY <1>2 DEF UnforceException, ForceException, GetContainingFunction, pages, lookup, static
<1>3. CASE (AskNext \/ Search \/ PushBack \/ Crash \/ GetExceptionsThrows \/ GetExceptionsReturns) /\ Aside
  BY <1>3 DEF AskNext, Search, PushBack, Crash, GetExceptionsThrows, GetExceptionsReturns,
              GetContainingFunction, Probe, Return, Aside, pages, lookup, static
<1>4. CASE ForceExceptionThrows \/ GetExceptionCrashes \/ ConstructorThrows \/ SaveOriginal
  BY <1>4 DEF ForceExceptionThrows, GetExceptionCrashes, ConstructorThrows, SaveOriginal, Located, Return,
              pages, static, Area!Unprotect, Area!UnprotectFails
<1>5. CASE \/ Write \/ Emplace \/ EmplaceDuplicate \/ DestroyNext \/ Destroyed
           \/ Restore \/ DestructorTerminates \/ Restored
  BY <1>5 DEF Write, Emplace, EmplaceDuplicate, DestroyNext, Destroyed, Restore, DestructorTerminates, Restored,
              pages, lookup, static, Area!Copy, Area!Reprotect, Area!Unprotect, Area!UnprotectFails
<1>6. CASE UNCHANGED sysVars
  BY <1>6 DEF sysVars, lookup, static, pages
<1> QED
  BY <1>1, <1>2, <1>3, <1>4, <1>5, <1>6 DEF SysNext, Client, Working, Aside

LEMMA Unmoved ==
  ASSUME UNCHANGED <<file, image>>
  PROVE  /\ Start' = Start /\ Area!Start' = Start /\ Area!Pages' = Area!Pages /\ Area!Code' = Area!Code
         /\ \A s : Address(s)' = Address(s)
         /\ \A o : OfFunction(o)' = OfFunction(o)
<1>1. /\ Start' = Start /\ Area!Start' = Start /\ Area!Pages' = Area!Pages /\ Area!Code' = Area!Code
  BY DEF Start, Area!Start, Area!Pages, Area!Code
<1>2. \A s : Address(s)' = Address(s)
  BY DEF Address
<1> QED
  BY <1>1, <1>2 DEF OfFunction

\* What the state of a forcing in progress is, but for the area.
progress == <<image, phase, target, written>>

\* A step that leaves code and objects alone.
LEMMA AsideKeeps ==
  ASSUME SysInv, UNCHANGED <<file, program, section, progress, engine>>, registry' \in {<<>>, section}
  PROVE  SysTypes' /\ Objects'
<1>1. UNCHANGED <<image, phase, target, written, memory, forced, object>>
  BY DEF progress, engine
<1>2. Forced' = Forced
  BY <1>1 DEF Forced
<1>3. SysTypes'
  BY <1>1, Unmoved DEF SysInv, SysTypes
<1>4. Objects'
  BY <1>1, <1>2, Unmoved DEF SysInv, Objects
<1> QED
  BY <1>3, <1>4

\* What calls may become.
Coherent ==
  /\ call.op \in {"gone", "idle", "list", "force", "construct", "discard", "unforce", "destroy",
                  "crashed", "terminated"}
  /\ object # None => call.op \in {"construct", "discard", "unforce", "destroy", "terminated"}
  /\ query.pc = "search" => call.op \in {"list", "force"}
  /\ call.op \in {"gone", "crashed"} \/ progStart = Start

LEMMA AsideCoherent ==
  ASSUME SysInv, UNCHANGED <<file, progress, engine>>, Coherent'
  PROVE  SysTypeOK'
<1>1. UNCHANGED <<image, phase, memory, forced, object>>
  BY DEF progress, engine
<1> QED
  BY <1>1, Unmoved DEF Coherent, SysInv, SysTypeOK, Forced, Bytes

\* The steps of GetExceptions and of static initialisation.
LEMMA ListSteps ==
  ASSUME SysInv, Aside,
         \/ StaticInit \/ GetExceptions \/ AskNext \/ Search \/ PushBack \/ Crash
         \/ GetExceptionsThrows \/ GetExceptionsReturns
  PROVE  SysTypeOK' /\ SysTypes' /\ Asks' /\ Objects'
<1>a. /\ SysTypeOK /\ SysTypes /\ Asks /\ TypeOK
      /\ Idle = Call("idle", 0, Null) /\ \A op, at, e : Call(op, at, e) = [op |-> op, at |-> at, error |-> e]
      /\ UNCHANGED <<progress, engine>>
  BY DEF SysInv, IInv, Idle, Call, Aside, pages, progress
<1>b. /\ UNCHANGED <<file, program, section, progStart>> /\ registry' \in {<<>>, section}
      /\ (registry' = registry \/ call.op = "idle")
  BY <1>a DEF StaticInit, GetExceptions, AskNext, Search, PushBack, Crash, GetExceptionsThrows,
              GetExceptionsReturns, GetContainingFunction, Probe, Return, lookup, static, SysTypes
<1>c. SysTypes' /\ Objects' /\ Start' = Start
  BY <1>a, <1>b, AsideKeeps, Unmoved DEF progress
<1>d. UNCHANGED object
  BY <1>a DEF engine
<1>1. CASE StaticInit \/ GetExceptions
  <2>1. UNCHANGED query /\ query.pc # "search" /\ (call' = call \/ call' = Call("list", 1, Null))
    BY <1>a, <1>1 DEF StaticInit, GetExceptions, lookup, api, SysTypeOK
  <2>2. call.op = "idle" /\ object = None
    BY <1>a, <1>1 DEF StaticInit, GetExceptions, SysTypeOK
  <2>3. Asks'
    BY <1>a, <2>1, <2>2 DEF Asks
  <2>4. Coherent'
    BY <1>a, <1>b, <1>c, <1>d, <2>1, <2>2 DEF Coherent, SysTypeOK, Start
  <2> QED
    BY <1>a, <1>b, <1>c, <2>3, <2>4, AsideCoherent
<1>2. CASE AskNext
  <2>1. /\ query' = Query("search", ToOffset(registry[call.at].throwAddr), 1, Size)
        /\ call' = call /\ registry' = registry /\ call.op = "list" /\ call.at <= Len(registry)
    BY <1>2 DEF AskNext, GetContainingFunction, static, api
  <2>2. progStart = Start
    BY <1>a, <2>1 DEF SysTypeOK, Start
  <2>3. ToOffset(registry[call.at].throwAddr) = registry[call.at].throwAddr - Start
    <3>1. call.at \in DOMAIN registry
      BY <1>a, <2>1, RegistryFacts DEF Asks
    <3> QED
      BY <1>a, <2>2, <3>1, RegistryFacts DEF ToOffset
  <2>4. Asks'
    BY <1>a, <1>c, <2>1, <2>3 DEF Asks, Query
  <2>5. Coherent'
    BY <1>a, <1>b, <1>c, <1>d, <2>1, <2>2 DEF Coherent, SysTypeOK
  <2> QED
    BY <1>a, <1>b, <1>c, <2>4, <2>5, AsideCoherent
<1>3. CASE Search \/ Crash
  <2>1. /\ query.pc = "search" /\ call' = call /\ registry' = registry
        /\ query'.pc = "search" => query'.offset = query.offset
    BY <1>a, <1>3 DEF Search, Crash, Probe, Return, Query, static, api
  <2>2. call.op \in {"list", "force"} /\ object = None /\ progStart = Start
    BY <1>a, <2>1 DEF SysTypeOK, Start
  <2>3. Asks'
    BY <1>a, <1>c, <2>1, <2>2 DEF Asks, Registered
  <2>4. Coherent'
    BY <1>a, <1>b, <1>c, <1>d, <2>1, <2>2 DEF Coherent
  <2> QED
    BY <1>a, <1>b, <1>c, <2>3, <2>4, AsideCoherent
<1>4. CASE PushBack \/ GetExceptionsThrows \/ GetExceptionsReturns
  <2>1. /\ call.op = "list" /\ query'.pc # "search" /\ registry' = registry
        /\ \/ call' = Call("list", call.at + 1, Null)
           \/ call' = Call("idle", 0, Null)
    BY <1>a, <1>4 DEF PushBack, GetExceptionsThrows, GetExceptionsReturns, Return, Query, static, lookup
  <2>2. object = None /\ progStart = Start
    BY <1>a, <2>1 DEF SysTypeOK, Start
  <2>3. Asks'
    BY <1>a, <2>1 DEF Asks
  <2>4. Coherent'
    BY <1>a, <1>b, <1>c, <1>d, <2>1, <2>2 DEF Coherent
  <2> QED
    BY <1>a, <1>b, <1>c, <2>3, <2>4, AsideCoherent
<1> QED
  BY <1>1, <1>2, <1>3, <1>4

\* The steps that begin a call, and those that end it before anything is written.
LEMMA CallSteps ==
  ASSUME SysInv,
         \/ Destroy \/ ForceExceptionThrows \/ GetExceptionCrashes \/ ConstructorThrows
         \/ \E l \in Locations, e \in CustomErrors \cup {Null} : ForceException(l, e)
  PROVE  SysTypeOK' /\ SysTypes' /\ Asks' /\ Objects'
<1>a. /\ SysTypeOK /\ SysTypes /\ Asks /\ TypeOK
      /\ Idle = Call("idle", 0, Null) /\ \A op, at, e : Call(op, at, e) = [op |-> op, at |-> at, error |-> e]
  BY DEF SysInv, IInv, Idle, Call
<1>b. UNCHANGED <<file, static, progress, engine>>
  BY DEF Destroy, ForceExceptionThrows, GetExceptionCrashes, ConstructorThrows, ForceException,
         GetContainingFunction, Located, Return, lookup, pages, progress, static, Area!UnprotectFails
<1>c. /\ UNCHANGED <<program, section, registry, progStart, object>> /\ SysTypes' /\ Objects' /\ Start' = Start
  BY <1>a, <1>b, AsideKeeps, Unmoved DEF progress, engine, static, SysTypes
<1>d. object = None /\ (call.op # "gone" /\ call.op # "crashed" => progStart = Start)
  BY <1>a DEF Destroy, ForceExceptionThrows, GetExceptionCrashes, ConstructorThrows, ForceException,
              Located, SysTypeOK, Start
<1>1. CASE Destroy \/ ForceExceptionThrows \/ GetExceptionCrashes \/ ConstructorThrows
  <2>1. /\ query'.pc # "search" /\ call.op \notin {"gone", "crashed"}
        /\ \E op \in {"destroy", "idle", "crashed"} : call' = Call(op, 0, Null)
    BY <1>a, <1>1 DEF Destroy, ForceExceptionThrows, GetExceptionCrashes, ConstructorThrows, Located,
                      Return, Query, lookup, SysTypeOK
  <2>2. Asks'
    BY <1>a, <2>1 DEF Asks
  <2>3. Coherent'
    BY <1>a, <1>c, <1>d, <2>1 DEF Coherent
  <2> QED
    BY <1>b, <1>c, <2>2, <2>3, AsideCoherent
<1>2. ASSUME NEW l \in Locations, NEW e \in CustomErrors \cup {Null}, ForceException(l, e)
      PROVE  Asks' /\ Coherent'
  <2>1. /\ call.op = "idle" /\ Registered(l) /\ call' = Call("force", l, e)
        /\ query' = Query("search", ToOffset(l), 1, Size)
    BY <1>2 DEF ForceException, GetContainingFunction
  <2>2. l \in Nat \ {0}
    BY EforceAssumption
  <2>3. Asks'
    BY <1>a, <1>c, <1>d, <2>1, <2>2 DEF Asks, Query, Registered, ToOffset
  <2>4. Coherent'
    BY <1>a, <1>c, <1>d, <2>1 DEF Coherent
  <2> QED
    BY <2>3, <2>4
<1> QED
  BY <1>1, <1>2, <1>b, <1>c, AsideCoherent
\* What the constructor of ForcedException saves is an object of the function found.
LEMMA ObjectSaved ==
  ASSUME SysInv, SaveOriginal
  PROVE  /\ object' \in ForcedException /\ OfFunction(object') /\ object'.loc = call.at
         /\ object'.start = Start + Answer.start
         /\ object'.error \in ErrorsToThrow
<1>a. /\ SysTypeOK /\ SysTypes /\ Asks /\ TypeOK /\ progStart = Start
      /\ call.op = "force" /\ Return /\ Answer.outcome = "function"
      /\ call.at \in Locations /\ Registered(call.at)
  BY DEF SysInv, IInv, SaveOriginal, Located, SysTypeOK, Asks, Start
<1>b. PICK e \in ErrorsToThrow \ {"crash"} :
        object' = [loc |-> call.at, start |-> FromOffset(Answer.start), error |-> e,
                   data |-> [i \in Bytes |-> memory[FromOffset(Answer.start) + i]]]
  BY DEF SaveOriginal
<1>c. PICK s \in file.functions : Answer.start = Address(s)
  BY <1>a, AnswerFacts DEF SysInv
<1>d. FromOffset(Answer.start) = Start + Address(s) /\ Start + Address(s) \in Nat
  <2>1. TypeOK /\ image \in Images /\ 0 \in Bytes
    BY <1>a, EforceAssumption DEF SysTypes, Bytes
  <2>2. Address(s) \in Nat \ {0} /\ Start \in Nat
    BY <1>a, <2>1, CodeFacts, StartFirst
  <2> QED
    BY <1>a, <1>c, <2>2 DEF FromOffset
<1>1. [i \in Bytes |-> memory[FromOffset(Answer.start) + i]] \in [Bytes -> Byte]
  <2>1. ASSUME NEW i \in Bytes PROVE memory[Start + Address(s) + i] \in Byte
    BY <1>a, CodeFacts DEF SysTypes, Area!Code
  <2> QED
    BY <1>d, <2>1
<1>2. e \in Errors \cup {Garbage}
  <2>1. CASE call.error # Null
    BY <1>a, <1>b, <2>1, EforceAssumption DEF ErrorsToThrow, Asks
  <2>2. CASE call.error = Null
    <3> DEFINE fn == Registration(call.at).GetException
    <3>1. fn \in {Null} \cup [error : Errors \cup {Garbage}, captures : BOOLEAN]
      <4>1. PICK i \in DOMAIN registry : Registration(call.at) = registry[i]
        BY <1>a, FirstRegistration
      <4>2. registry[i] \in Info
        BY <1>a, <4>1, RegistryFacts, SeqElement, Zenon
      <4> QED
        BY <4>1, <4>2 DEF Info
    <3>2. fn # Null /\ e \in Generated(fn)
      BY <1>b, <2>2 DEF ErrorsToThrow
    <3> QED
      BY <1>b, <3>1, <3>2 DEF Generated
  <2> QED
    BY <2>1, <2>2
<1> QED
  BY <1>a, <1>b, <1>c, <1>d, <1>1, <1>2 DEF ForcedException, OfFunction
\* A patch, or what an object saved, is written over the object's function.
LEMMA WriteStep ==
  ASSUME SysInv, Write
  PROVE  SysTypeOK' /\ SysTypes' /\ Asks' /\ Objects'
<1>a. /\ SysTypeOK /\ SysTypes /\ Asks /\ TypeOK /\ Objects
      /\ phase = "open" /\ object \in ForcedException /\ progStart = Start
      /\ object.start \in Nat /\ object.loc \in Nat /\ Start \in Nat
  BY StartFirst, EforceAssumption
  DEF SysInv, IInv, Write, Area!Copy, SysTypeOK, SysTypes, ForcedException, Start
<1>b. /\ UNCHANGED <<lookup, program, section, registry, api, forced, object>>
      /\ UNCHANGED <<image, progStart, target>> /\ phase' \in {"written", "fault"}
      /\ written' = IF phase' = "written" THEN Area!Addressed ELSE written
  BY DEF Write, Area!Copy
<1>c. Area!Addressed = {o + Start : o \in target} /\ written = {}
  <2>1. \A o \in target : o # 0
    BY <1>a, ObjectAssumption, ObjectOffsets DEF Objects, SysTypes
  <2> QED
    BY <1>a, <1>b, <2>1 DEF Area!Addressed, Area!FromOffset, Objects
<1>d. UNCHANGED <<file, query, call>> /\ Forced' = Forced /\ Start' = Start
  BY <1>b, Unmoved DEF lookup, api, Forced
<1>1. ASSUME NEW a \in written' PROVE Source(a - object.start) \in Byte
  <2>1. PICK i \in Bytes : a = (object.start - Start + i) + Start
    BY <1>a, <1>b, <1>c, <1>1 DEF Objects
  <2>2. i \in Nat
    BY EforceAssumption DEF Bytes
  <2>3. a - object.start = i
    BY <1>a, <2>1, <2>2
  <2>4. object.data[i] \in Byte /\ object.error \in Errors \cup {Garbage}
    BY <1>a DEF ForcedException
  <2> QED
    BY <1>a, <2>3, <2>4 DEF Source, Piece, Byte
<1>2. memory' \in [Area!Pages -> Byte]
  BY <1>a, <1>1 DEF Write, SysTypes
<1>3. SysTypes'
  BY <1>a, <1>b, <1>2 DEF SysTypes, Area!Pages
<1>4. Objects'
  BY <1>a, <1>b, <1>c, <1>d, Unmoved DEF Objects
<1>5. SysTypeOK'
  BY <1>a, <1>b, <1>d, <1>2, Unmoved DEF SysTypeOK, Forced, Area!Pages, Bytes
<1>6. Asks'
  BY <1>a, <1>b, <1>d DEF Asks, Registered
<1> QED
  BY <1>3, <1>4, <1>5, <1>6

\* The scope of a constructor begins.
LEMMA SaveStep ==
  ASSUME SysInv, SaveOriginal
  PROVE  SysTypeOK' /\ SysTypes' /\ Asks' /\ Objects'
<1>a. /\ SysTypeOK /\ SysTypes /\ Asks /\ TypeOK /\ Objects
      /\ progStart = Start /\ Start \in Nat
  BY StartFirst DEF SysInv, IInv, SaveOriginal, Located, SysTypeOK, SysTypes, Start
<1>b. /\ UNCHANGED <<file, image, program, section, registry, progStart, memory, forced, written>>
      /\ phase = "idle" /\ phase' = "open" /\ target' = {Answer.start + i : i \in Bytes}
      /\ call' = Call("construct", call.at, Null) /\ query'.pc # "search"
  BY <1>a DEF SaveOriginal, Located, Return, Query, Area!Unprotect, TypeOK
<1>c. Forced' = Forced /\ Start' = Start
  BY <1>b, Unmoved DEF Forced
<1>d. object' \in ForcedException /\ OfFunction(object') /\ object'.start = Start + Answer.start
  BY ObjectSaved
<1>e. \A i \in Bytes : Answer.start + i = object'.start - Start + i
  <2>1. PICK t \in file.functions : Answer.start = Address(t)
    BY AnswerFacts DEF SysInv, SaveOriginal, Located
  <2>2. Answer.start \in Nat
    BY <1>a, <2>1, FileFacts
  <2>3. Bytes \subseteq Nat
    BY EforceAssumption DEF Bytes
  <2> QED
    BY <1>a, <1>d, <2>2, <2>3
<1>1. SysTypes'
  BY <1>a, <1>b, <1>d DEF SysTypes, Area!Pages
<1>2. Objects'
  BY <1>a, <1>b, <1>c, <1>d, <1>e, Unmoved DEF Objects
<1>3. SysTypeOK'
  BY <1>a, <1>b, <1>c, <1>d, ObjectAssumption, Unmoved DEF SysTypeOK, Forced, Bytes, Call, Start
<1>4. Asks'
  BY <1>a, <1>b DEF Asks, Call
<1> QED
  BY <1>1, <1>2, <1>3, <1>4
\* The scope of a constructor or destructor ends.
LEMMA ScopeSteps ==
  ASSUME SysInv, Emplace \/ EmplaceDuplicate \/ Restore \/ Restored
  PROVE  SysTypeOK' /\ SysTypes' /\ Asks' /\ Objects'
<1>a. /\ SysTypeOK /\ SysTypes /\ Asks /\ Objects
      /\ Idle = Call("idle", 0, Null) /\ \A op, at, e : Call(op, at, e) = [op |-> op, at |-> at, error |-> e]
      /\ object \in ForcedException /\ OfFunction(object) /\ progStart = Start
      /\ call.op \in {"construct", "discard", "unforce", "destroy"} /\ query.pc # "search"
  BY DEF SysInv, Emplace, EmplaceDuplicate, Restore, Restored, Destructing, Area!Reprotect,
         SysTypeOK, SysTypes, Objects, Idle, Call, Start
<1>b. /\ UNCHANGED <<lookup, program, section, registry, memory, image, progStart>>
  BY DEF Emplace, EmplaceDuplicate, Restore, Restored, engine, Area!Reprotect, Area!Unprotect
<1>c. UNCHANGED <<file, query>> /\ Start' = Start
  BY <1>b, Unmoved DEF lookup
<1>1. /\ call' = call \/ (call' = Call("discard", 0, Null) /\ object' = object) \/ call' = Call("idle", 0, Null)
      /\ object' = object \/ object' = None
      /\ call' = Call("idle", 0, Null) => object' = None
  BY <1>a DEF Emplace, EmplaceDuplicate, Restore, Restored, engine, api
<1>2. \/ phase' = "idle" /\ written' = {}
      \/ /\ phase = "idle" /\ phase' = "open" /\ UNCHANGED <<written, object>>
         /\ target' = {ToOffset(object.start + i) : i \in Bytes}
  BY DEF Emplace, EmplaceDuplicate, Restore, Restored, engine, Area!Reprotect, Area!Unprotect
<1>3. /\ forced' \in [Locations -> ForcedException \cup {None}]
      /\ \A l \in Forced' : OfFunction(forced'[l]) /\ forced'[l].loc = l
  <2>1. CASE forced' = forced
    BY <1>a, <2>1 DEF Forced, Objects, SysTypes, SysTypeOK
  <2>2. CASE forced' = [forced EXCEPT ![object.loc] = object]
    BY <1>a, <2>2 DEF Forced, Objects, SysTypes, SysTypeOK
  <2> QED
    BY <2>1, <2>2 DEF Emplace, EmplaceDuplicate, Restore, Restored, engine
<1>4. SysTypes'
  BY <1>a, <1>b, <1>1, <1>3 DEF SysTypes, Area!Pages
<1>5. Objects'
  <2>1. \A i \in Bytes : ToOffset(object.start + i) = object.start - Start + i
    <3>1. TypeOK /\ image \in Images
      BY <1>a DEF SysInv, IInv, SysTypes
    <3>2. \A i \in Bytes : /\ object.start \in Nat /\ Start \in Nat /\ i \in Nat
                           /\ object.start + i # 0
      BY <1>a, <3>1, ObjectOffsets
    <3> QED
      BY <1>a, <3>2 DEF ToOffset
  <2>2. /\ object' # None => OfFunction(object')
        /\ \A o : OfFunction(o)' = OfFunction(o)
    BY <1>a, <1>b, <1>c, <1>1, Unmoved
  <2>3. phase' # "idle" => target' = {object'.start - Start' + i : i \in Bytes}
    BY <1>c, <1>2, <2>1
  <2>4. phase' # "written" /\ written' = {}
    BY <1>a, <1>2 DEF Objects
  <2> QED
    BY <1>3, <2>2, <2>3, <2>4 DEF Objects, Bytes
<1>6. SysTypeOK'
  <2>1. DOMAIN memory' = DOMAIN image' /\ DOMAIN forced' = Locations
    BY <1>a, <1>b, <1>3 DEF SysTypeOK
  <2>2. \A l \in Forced' : forced'[l].loc = l /\ DOMAIN forced'[l].data = Bytes'
    BY <1>3 DEF Forced, ForcedException, Bytes
  <2>3. phase' # "idle" => object' # None
    BY <1>2, <1>a, ObjectAssumption
  <2>4. /\ call'.op \in {"idle", "construct", "discard", "unforce", "destroy"}
        /\ object' # None => call'.op \in {"construct", "discard", "unforce", "destroy"}
    BY <1>a, <1>1
  <2>5. query'.pc # "search" /\ progStart' = Start'
    BY <1>a, <1>b, <1>c
  <2> QED
    BY <2>1, <2>2, <2>3, <2>4, <2>5 DEF SysTypeOK, Start
<1>7. Asks'
  BY <1>a, <1>b, <1>c, <1>1, EforceAssumption DEF Asks
<1> QED
  BY <1>4, <1>5, <1>6, <1>7

\* A destructor that cannot open the pages ends the process.
LEMMA TerminateStep ==
  ASSUME SysInv, DestructorTerminates
  PROVE  SysTypeOK' /\ SysTypes' /\ Asks' /\ Objects'
<1>1. /\ SysTypeOK /\ SysTypes /\ Asks
      /\ \A op, at, e : Call(op, at, e) = [op |-> op, at |-> at, error |-> e]
  BY DEF SysInv, Call
<1>2. /\ UNCHANGED <<file, query, program, section, registry, progStart, progress, engine>>
      /\ call' = Call("terminated", 0, Null)
      /\ call.op \in {"discard", "unforce", "destroy"}
  BY DEF DestructorTerminates, Destructing, Area!UnprotectFails, lookup, progress
<1>3. UNCHANGED <<image, object>>
  BY <1>2 DEF progress, engine
<1>4. SysTypes' /\ Objects' /\ Start' = Start
  BY <1>1, <1>2, <1>3, AsideKeeps, Unmoved DEF SysTypes
<1>5. query.pc # "search" /\ progStart = Start
  BY <1>1, <1>2 DEF SysTypeOK, Start
<1>6. Coherent'
  BY <1>1, <1>2, <1>4, <1>5 DEF Coherent
<1>7. Asks'
  BY <1>1, <1>2, <1>5 DEF Asks
<1> QED
  BY <1>2, <1>4, <1>6, <1>7, AsideCoherent

\* A forcing is taken out of the map to be undone.
LEMMA UnlinkSteps ==
  ASSUME SysInv, DestroyNext \/ \E l \in Locations : UnforceException(l)
  PROVE  SysTypeOK' /\ SysTypes' /\ Asks' /\ Objects'
<1>a. /\ SysTypeOK /\ SysTypes /\ Asks /\ Objects
      /\ \A op, at, e : Call(op, at, e) = [op |-> op, at |-> at, error |-> e]
  BY DEF SysInv, Call
<1>b. /\ UNCHANGED <<file, query, static, image, progStart, phase, target, written, memory>>
  BY DEF DestroyNext, UnforceException, lookup, static, pages
<1>c. Start' = Start /\ \A o : OfFunction(o)' = OfFunction(o)
  BY <1>b, Unmoved
<1>d. /\ object = None
      /\ \/ call' = Call("unforce", 0, Null) /\ call.op = "idle"
         \/ call' = call /\ call.op = "destroy"
  BY <1>a DEF DestroyNext, UnforceException, api, SysTypeOK
<1>1. PICK l \in Forced : object' = forced[l] /\ forced' = [forced EXCEPT ![l] = None]
  BY DEF DestroyNext, UnforceException
<1>2. forced[l] \in ForcedException /\ phase = "idle" /\ query.pc # "search" /\ progStart = Start
  BY <1>a, <1>1, <1>d DEF Forced, SysTypes, SysTypeOK, Start
<1>3. /\ forced' \in [Locations -> ForcedException \cup {None}]
      /\ \A m \in Forced' : m \in Forced /\ forced'[m] = forced[m]
  BY <1>a, <1>1 DEF Forced, SysTypes
<1>4. SysTypes'
  BY <1>a, <1>b, <1>1, <1>2, <1>3 DEF SysTypes, Area!Pages, static
<1>5. Objects'
  BY <1>a, <1>b, <1>c, <1>1, <1>2, <1>3 DEF Objects, Bytes
<1>6. SysTypeOK'
  BY <1>a, <1>b, <1>c, <1>d, <1>1, <1>2, <1>3 DEF SysTypeOK, Start, Bytes, static
<1>7. Asks'
  BY <1>a, <1>b, <1>d, <1>2, EforceAssumption DEF Asks
<1> QED
  BY <1>4, <1>5, <1>6, <1>7

\* A forcer comes or is gone.
LEMMA ForcerSteps ==
  ASSUME SysInv, Construct \/ Destroyed
  PROVE  SysTypeOK' /\ SysTypes' /\ Asks' /\ Objects'
<1>a. /\ SysTypeOK /\ SysTypes /\ Asks /\ Objects
      /\ Idle = Call("idle", 0, Null) /\ Gone = Call("gone", 0, Null)
      /\ \A op, at, e : Call(op, at, e) = [op |-> op, at |-> at, error |-> e]
  BY DEF SysInv, Idle, Gone, Call
<1>b. /\ UNCHANGED <<file, query, program, section, registry, image, phase, target, written, engine>>
  BY DEF Construct, Destroyed, lookup, static, pages, Area!Construct
<1>c. /\ Start' = Start /\ (\A o : OfFunction(o)' = OfFunction(o))
      /\ UNCHANGED <<memory, forced, object>> /\ Forced' = Forced
  BY <1>b, Unmoved DEF engine, Forced
<1>d. /\ object = None /\ query.pc # "search"
      /\ \/ call' = Call("idle", 0, Null) /\ progStart' = Start
         \/ call' = Call("gone", 0, Null)
  BY <1>a DEF Construct, Destroyed, Area!Construct, SysTypeOK, Start
<1>1. SysTypes'
  BY <1>a, <1>b, <1>c DEF SysTypes, Area!Pages
<1>2. Objects'
  BY <1>a, <1>b, <1>c DEF Objects, Bytes
<1>3. SysTypeOK'
  BY <1>a, <1>b, <1>c, <1>d DEF SysTypeOK, Start, Bytes
<1>4. Asks'
  BY <1>a, <1>b, <1>d DEF Asks
<1> QED
  BY <1>1, <1>2, <1>3, <1>4

LEMMA SysInvInit == SysInit => SysInv
<1> SUFFICES ASSUME SysInit PROVE SysInv
  OBVIOUS
<1>1. IInv
  BY InvInit DEF SysInit, RInit
<1>2. /\ image \in Images /\ program \in Programs /\ section = Link(program) /\ registry = <<>>
      /\ phase = "idle" /\ written = {} /\ object = None /\ query.pc = "idle"
      /\ call = [op |-> "gone", at |-> 0, error |-> Null]
      /\ memory = [a \in DOMAIN image |-> <<"own", a>>] /\ forced = [l \in Locations |-> None]
  BY DEF SysInit, RInit, Area!Init, Init, Query, Gone, Call, Own
<1>3. Forced = {}
  BY <1>2 DEF Forced
<1>4. memory \in [Area!Pages -> Byte]
  BY <1>2, StartFirst DEF Area!Pages, Byte
<1>5. SysTypes
  BY <1>2, <1>4 DEF SysTypes
<1>6. SysTypeOK /\ Asks /\ Objects
  BY <1>2, <1>3 DEF SysTypeOK, Asks, Objects, Call
<1> QED
  BY <1>1, <1>5, <1>6 DEF SysInv

LEMMA SysInvNext ==
  ASSUME SysInv, [SysNext]_sysVars
  PROVE  SysInv'
<1>1. IInv'
  BY LookupKept
<1>2. CASE UNCHANGED sysVars
  <2>1. UNCHANGED <<lookup, static, api, pages, engine>>
    BY <1>2 DEF sysVars
  <2>2. UNCHANGED <<file, query, program, section, registry, progStart, call, pages, engine>>
    BY <2>1 DEF lookup, static, api
  <2>3. SysTypes' /\ Objects' /\ Start' = Start
    BY <2>2, AsideKeeps, Unmoved DEF SysInv, SysTypes, pages, progress
  <2>4. Coherent'
    BY <2>2, <2>3 DEF SysInv, SysTypeOK, Coherent, engine, Start
  <2>5. Asks'
    BY <2>2, <2>3 DEF SysInv, Asks, Call, Registered
  <2> QED
    BY <1>1, <2>2, <2>3, <2>4, <2>5, AsideCoherent DEF SysInv, pages, progress
<1>3. CASE SysNext
  BY <1>1, <1>3, ListSteps, CallSteps, SaveStep, WriteStep, ScopeSteps, TerminateStep,
     UnlinkSteps, ForcerSteps
  DEF SysNext, Client, Working, SysInv
<1> QED
  BY <1>2, <1>3

\* The parts agree on who is working, in every reachable state.
THEOREM SystemTypeCorrect == SysSpec => []SysTypeOK
<1>1. SysInv => SysTypeOK
  BY DEF SysInv
<1> QED
  BY <1>1, SysInvInit, SysInvNext, PTL DEF SysSpec

\* Whichever calls ask, one forcer gets one answer for an offset inside a
\* function with another behind it, if all functions are in one section.
THEOREM LookupRepeats == SysSpec /\ OneSection => SameAnswer
<1>1. SysInit => SysInv /\ AnswersFromTable
  BY SysInvInit DEF SysInit, RInit, Init, AnswersFromTable, Failed
<1>2. ASSUME SysInv, AnswersFromTable, OneSection, [SysNext]_sysVars
      PROVE  /\ AnswersFromTable' /\ OneSection'
             /\ table' # <<>> =>
                  \A o \in Offsets :
                    Inside(o) /\ Followed(o) /\ answers[o].outcome # "none" => answers'[o] = answers[o]
  <2>1. OneSection'
    BY <1>2, Fixed DEF OneSection
  <2>2. CASE [Next]_vars
    BY <1>2, <2>1, <2>2, AnswersNext DEF SysInv, KeepsAnswers
  <2>3. CASE Destroyed
    <3>1. table' = <<>> /\ answers' = [o \in Offsets |-> Failed("none")]
      BY <2>3 DEF Destroyed
    <3>2. AnswersFromTable'
      BY <3>1 DEF AnswersFromTable, Failed
    <3> QED
      BY <2>1, <3>1, <3>2
  <2> QED
    BY <1>2, <2>2, <2>3, LookupMoves
<1> QED
  BY <1>1, <1>2, SysInvNext, PTL DEF SysSpec, SameAnswer
-----------------------------------------------------------------------------
(* The pages.                                                               *)

Open == {"r", "w", "x"}

\* The area is code, and all of it.
Covers ==
  /\ Area!Code \subseteq area
  /\ \A p \in area : p \in Area!Pages /\ image[p].prot = {"r", "x"}

\* Inside a scope the area's pages are open, and after one that could not be
\* closed; all others are as they were loaded.
Opened(p) == (phase # "idle" \/ unclosed) /\ p \in area

PagesInv ==
  Area!CodeFirst =>
    /\ IF area = None THEN phase = "idle" /\ ~unclosed ELSE Covers
    /\ phase # "fault"
    /\ prot = [p \in Area!Pages |-> IF Opened(p) THEN Open ELSE image[p].prot]

\* With header and code in one segment, offsets count from the first page.
LEMMA CodeFirstFacts ==
  ASSUME image \in Images, Area!CodeFirst
  PROVE  /\ Start \in Area!Pages /\ image[Start].prot = {"r", "x"} /\ image[Start].offset = 0
         /\ \A p \in Area!Code : /\ p \in Nat /\ p >= Start /\ image[p].offset = p - Start
                                 /\ image[p].prot = {"r", "x"}
                                 /\ \A q \in Start .. p :
                                      /\ q \in Area!Pages /\ image[q].prot = {"r", "x"}
                                      /\ image[q].offset = q - Start
<1>1. PICK first \in Area!Pages :
        /\ image[first].offset = 0 /\ image[first].prot = {"r", "x"}
        /\ \A p \in Area!Pages : first <= p
        /\ \A p \in Area!Code : \A q \in first .. p :
             /\ q \in Area!Pages /\ image[q].prot = {"r", "x"}
             /\ image[q].offset = q - first
  BY DEF Area!CodeFirst
<1>2. first = Start
  BY <1>1, StartFirst
<1>3. \A p \in Area!Code : p \in Nat /\ p >= Start /\ p \in Start .. p /\ Start \in Nat
  BY StartFirst DEF Area!Code
<1> QED
  BY <1>1, <1>2, <1>3

\* The first line of the maps, read between calls, is the code.
LEMMA FirstLineCovers ==
  ASSUME image \in Images, Area!CodeFirst, prot = [p \in Area!Pages |-> image[p].prot]
  PROVE  /\ Area!Code \subseteq Area!FirstLine
         /\ \A p \in Area!FirstLine : p \in Area!Pages /\ image[p].prot = {"r", "x"}
<1>1. ASSUME NEW p \in Area!Code PROVE p \in Area!FirstLine
  <2>1. p \in Area!Pages
    BY DEF Area!Code
  <2>2. \A q \in Area!Start .. p :
          /\ q \in Area!Pages /\ prot[q] = prot[Area!Start]
          /\ image[q].offset = image[Area!Start].offset + (q - Area!Start)
    <3>1. /\ Area!Start \in Area!Pages /\ Area!Start \in Nat
          /\ image[Area!Start].prot = {"r", "x"} /\ image[Area!Start].offset = 0
          /\ \A q \in Area!Start .. p : /\ q \in Area!Pages /\ image[q].prot = {"r", "x"}
                                      /\ image[q].offset = q - Area!Start
      BY CodeFirstFacts, StartFirst DEF Start
    <3>2. prot[Area!Start] = {"r", "x"} /\ \A q \in Area!Start .. p : prot[q] = {"r", "x"}
      BY <3>1
    <3>3. \A q \in Area!Start .. p : 0 + (q - Area!Start) = q - Area!Start
      BY <3>1
    <3> QED
      BY <3>1, <3>2, <3>3, Zenon
  <2> QED
    BY <2>1, <2>2 DEF Area!FirstLine
<1>2. ASSUME NEW p \in Area!FirstLine PROVE p \in Area!Pages /\ image[p].prot = {"r", "x"}
  <2>1. p \in Area!Pages /\ p \in Area!Start .. p
    BY StartFirst DEF Area!FirstLine, Start
  <2>2. prot[p] = prot[Area!Start]
    BY <2>1 DEF Area!FirstLine
  <2> QED
    BY <2>1, <2>2, CodeFirstFacts DEF Start
<1> QED
  BY <1>1, <1>2

\* What is taken for the area is the code, whenever it is read.
LEMMA AreaRead ==
  ASSUME SysInv, PagesInv, Area!CodeFirst, phase = "idle", Area!ReadArea
  PROVE  /\ area' # None
         /\ Area!Code \subseteq area'
         /\ \A p \in area' : p \in Area!Pages /\ image[p].prot = {"r", "x"}
         /\ area' = area \/ (area = None /\ ~unclosed)
<1>1. image \in Images /\ Area!Pages \subseteq Nat
  BY StartFirst DEF SysInv, SysTypes
<1>2. CASE area = None
  <2>1. ~unclosed /\ prot = [p \in Area!Pages |-> image[p].prot]
    BY <1>2 DEF PagesInv, Opened
  <2>2. area' = Area!FirstLine
    BY <1>2 DEF Area!ReadArea
  <2>3. area' # None
    BY <1>1, <2>2, ObjectAssumption DEF Area!FirstLine, Area!Pages
  <2> QED
    BY <1>1, <1>2, <2>1, <2>2, <2>3, FirstLineCovers
<1>3. CASE area # None
  BY <1>3 DEF PagesInv, Covers, Area!ReadArea
<1> QED
  BY <1>2, <1>3

\* A scope begins ...
LEMMA PagesOpen ==
  ASSUME SysInv, PagesInv, NEW offsets, Area!Unprotect(offsets)
  PROVE  PagesInv'
<1> SUFFICES ASSUME Area!CodeFirst'
             PROVE  /\ area' # None /\ Covers' /\ phase' # "idle" /\ phase' # "fault"
                    /\ prot' = [p \in Area!Pages' |-> IF p \in area' THEN Open ELSE image'[p].prot]
  BY DEF PagesInv, Opened, Area!Pages
<1>a. UNCHANGED image /\ phase = "idle" /\ phase' = "open" /\ image \in Images
  BY DEF Area!Unprotect, SysInv, SysTypes
<1>b. Area!CodeFirst /\ Area!Pages' = Area!Pages /\ Area!Code' = Area!Code
  BY <1>a DEF Area!CodeFirst, Area!Pages, Area!Code
<1>1. /\ area' # None /\ Area!Code \subseteq area'
      /\ \A p \in area' : p \in Area!Pages /\ image[p].prot = {"r", "x"}
      /\ area' = area \/ (area = None /\ ~unclosed)
  BY <1>a, <1>b, AreaRead DEF Area!Unprotect
<1>2. \A p \in Area!Pages : prot[p] = IF Opened(p) THEN Open ELSE image[p].prot
  BY <1>b DEF PagesInv
<1>3. \A p \in Area!Pages : p \notin area' => prot[p] = image[p].prot
  BY <1>a, <1>1, <1>2 DEF Opened
<1>4. prot' = [p \in Area!Pages |-> IF p \in area' THEN Open ELSE image[p].prot]
  BY <1>3 DEF Area!Unprotect, Open
<1> QED
  BY <1>a, <1>b, <1>1, <1>4 DEF Covers

\* ... or cannot begin ...
LEMMA PagesNotOpened ==
  ASSUME SysInv, PagesInv, Area!UnprotectFails
  PROVE  PagesInv'
<1> SUFFICES ASSUME Area!CodeFirst'
             PROVE  PagesInv'
  BY DEF PagesInv
<1>a. UNCHANGED <<image, prot, phase, unclosed>> /\ phase = "idle"
  BY DEF Area!UnprotectFails
<1>b. Area!CodeFirst /\ Area!Pages' = Area!Pages /\ Area!Code' = Area!Code
  BY <1>a DEF Area!CodeFirst, Area!Pages, Area!Code
<1>1. /\ area' # None /\ Area!Code \subseteq area'
      /\ \A p \in area' : p \in Area!Pages /\ image[p].prot = {"r", "x"}
      /\ area' = area \/ (area = None /\ ~unclosed)
  BY <1>a, <1>b, AreaRead DEF Area!UnprotectFails
<1>2. \A p : Opened(p)' = Opened(p)
  BY <1>a, <1>1 DEF Opened
<1> QED
  BY <1>a, <1>b, <1>1, <1>2 DEF PagesInv, Covers

\* ... a store finds the code writable ...
LEMMA PagesWritten ==
  ASSUME SysInv, PagesInv, Area!Copy
  PROVE  PagesInv'
<1> SUFFICES ASSUME Area!CodeFirst'
             PROVE  PagesInv'
  BY DEF PagesInv
<1>a. /\ UNCHANGED <<image, prot, area, unclosed>> /\ phase = "open" /\ image \in Images /\ TypeOK
      /\ progStart = Start /\ object \in ForcedException /\ OfFunction(object)
      /\ target = {object.start - Start + i : i \in Bytes}
  BY ObjectAssumption DEF Area!Copy, SysInv, IInv, SysTypes, SysTypeOK, Objects, Start
<1>b. Area!CodeFirst /\ area # None /\ Covers /\ Area!Pages' = Area!Pages /\ Area!Code' = Area!Code
  BY <1>a DEF Area!CodeFirst, Area!Pages, Area!Code, PagesInv
<1>1. ASSUME NEW p \in Area!Addressed PROVE p \in Area!Pages /\ "w" \in prot[p]
  <2>1. PICK i \in Bytes : p = (object.start - Start + i) + Start
    BY <1>a, <1>1, ObjectOffsets DEF Area!Addressed, Area!FromOffset
  <2>2. PICK s \in file.functions : object.start = Start + Address(s)
    BY <1>a DEF OfFunction
  <2>3. Start \in Nat /\ Address(s) \in Nat /\ i \in Nat /\ Start + Address(s) + i \in Area!Code
    BY <1>a, CodeFacts, StartFirst, EforceAssumption DEF Bytes
  <2>4. p \in Area!Code
    BY <2>1, <2>2, <2>3
  <2>5. p \in Area!Pages /\ p \in area
    BY <1>b, <2>4 DEF Covers
  <2> QED
    BY <1>a, <1>b, <2>5 DEF PagesInv, Opened, Open
<1>2. phase' = "written"
  BY <1>1 DEF Area!Copy
<1>3. \A p : Opened(p)' = Opened(p)
  BY <1>a, <1>2 DEF Opened
<1> QED
  BY <1>a, <1>b, <1>2, <1>3 DEF PagesInv, Covers

\* ... and the end of the scope puts back what was there, if it can.
LEMMA PagesClosed ==
  ASSUME SysInv, PagesInv, Area!Reprotect
  PROVE  PagesInv'
<1> SUFFICES ASSUME Area!CodeFirst'
             PROVE  PagesInv'
  BY DEF PagesInv
<1>a. UNCHANGED <<image, area>> /\ phase = "written" /\ phase' = "idle"
  BY DEF Area!Reprotect
<1>b. Area!CodeFirst /\ area # None /\ Covers /\ Area!Pages' = Area!Pages /\ Area!Code' = Area!Code
  BY <1>a DEF Area!CodeFirst, Area!Pages, Area!Code, PagesInv
<1>1. prot = [p \in Area!Pages |-> IF p \in area THEN Open ELSE image[p].prot]
  BY <1>a, <1>b DEF PagesInv, Opened
<1>2. CASE unclosed'
  <2>1. prot' = prot
    BY <1>2 DEF Area!Reprotect
  <2>2. \A p : Opened(p)' = (p \in area)
    BY <1>a, <1>2 DEF Opened
  <2> QED
    BY <1>a, <1>b, <1>1, <2>1, <2>2 DEF PagesInv, Covers
<1>3. CASE ~unclosed'
  <2>1. prot' = [p \in Area!Pages |-> image[p].prot]
    BY <1>3, <1>b, <1>1 DEF Area!Reprotect, Covers
  <2>2. \A p : Opened(p)' = FALSE
    BY <1>a, <1>3 DEF Opened
  <2> QED
    BY <1>a, <1>b, <2>1, <2>2 DEF PagesInv, Covers
<1> QED
  BY <1>2, <1>3

LEMMA PagesAside ==
  ASSUME PagesInv, UNCHANGED <<image, prot, area, phase, unclosed>>
  PROVE  PagesInv'
BY DEF PagesInv, Opened, Covers, Area!CodeFirst, Area!Pages, Area!Code

LEMMA PagesNext ==
  ASSUME SysInv, PagesInv, [SysNext]_sysVars
  PROVE  PagesInv'
<1>1. CASE SaveOriginal \/ Restore
  BY <1>1, PagesOpen DEF SaveOriginal, Restore
<1>2. CASE Write
  BY <1>2, PagesWritten DEF Write
<1>3. CASE Emplace \/ EmplaceDuplicate \/ Restored
  BY <1>3, PagesClosed DEF Emplace, EmplaceDuplicate, Restored
<1>4. CASE UNCHANGED pages \/ Area!Construct
  BY <1>4, PagesAside DEF pages, Area!Construct
<1>5. CASE ConstructorThrows \/ DestructorTerminates
  BY <1>5, PagesNotOpened DEF ConstructorThrows, DestructorTerminates
<1>6. SaveOriginal \/ Restore \/ Write \/ Emplace \/ EmplaceDuplicate \/ Restored
        \/ ConstructorThrows \/ DestructorTerminates \/ UNCHANGED pages \/ Area!Construct
  BY DEF SysNext, Client, Working, Aside, Construct, Destroy, UnforceException, ForceException,
         ForceExceptionThrows, GetExceptionCrashes, DestroyNext, Destroyed, sysVars
<1> QED
  BY <1>1, <1>2, <1>3, <1>4, <1>5, <1>6

LEMMA PagesInvariance == SysSpec => [](SysInv /\ PagesInv)
<1>1. SysInit => SysInv /\ PagesInv
  BY SysInvInit DEF SysInit, PagesInv, Opened, Area!Init, Area!Pages
<1> QED
  BY <1>1, SysInvNext, PagesNext, PTL DEF SysSpec

\* If header and code are loaded together, every page has the protection it was
\* loaded with whenever no call is writing; but if the mprotect that should have
\* put back r-x failed, the area is writable, and nothing else, until the next
\* scope that can be closed.
THEOREM ProtectionKept == SysSpec => []AreaProtectionAsLoaded
<1>1. SysInv /\ PagesInv => AreaProtectionAsLoaded
  BY DEF AreaProtectionAsLoaded, Area!ProtectionAsLoaded, PagesInv, Opened, Open
<1> QED
  BY <1>1, PagesInvariance, PTL

\* If header and code are loaded together, what is written is the entry of the
\* function that was found, and no store faults.
THEOREM TargetWritten == SysSpec => []AreaWritesTarget
<1>1. ASSUME SysInv, PagesInv, Area!CodeFirst, phase = "written"
      PROVE  written = {p \in Area!Code : image[p].offset \in target}
  <2>1. /\ written = {o + Start : o \in target} /\ image \in Images /\ TypeOK
        /\ target = {object.start - Start + i : i \in Bytes} /\ OfFunction(object)
    BY <1>1 DEF SysInv, IInv, SysTypes, SysTypeOK, Objects
  <2>2. PICK s \in file.functions : object.start = Start + Address(s)
    BY <2>1 DEF OfFunction
  <2>3. \A i \in Bytes : /\ i \in Nat /\ Start \in Nat /\ Address(s) \in Nat
                         /\ Start + Address(s) + i \in Area!Code
                         /\ image[Start + Address(s) + i].offset = Address(s) + i
    BY <2>1, CodeFacts, StartFirst, EforceAssumption DEF Bytes
  <2>4. \A i \in Bytes : object.start - Start + i = Address(s) + i
    BY <2>2, <2>3
  <2>5. ASSUME NEW p \in written PROVE p \in Area!Code /\ image[p].offset \in target
    <3>1. PICK i \in Bytes : p = Address(s) + i + Start
      BY <2>1, <2>4, <2>5
    <3>2. p = Start + Address(s) + i
      BY <2>3, <3>1
    <3> QED
      BY <2>1, <2>3, <2>4, <3>2
  <2>6. ASSUME NEW p \in Area!Code, image[p].offset \in target PROVE p \in written
    <3>1. p = image[p].offset + Start
      BY <1>1, <2>1, CodeFirstFacts, StartFirst
    <3> QED
      BY <2>1, <2>6, <3>1
  <2> QED
    BY <2>5, <2>6
<1>2. SysInv /\ PagesInv => AreaWritesTarget
  BY <1>1 DEF AreaWritesTarget, Area!WritesTarget, PagesInv
<1> QED
  BY <1>2, PagesInvariance, PTL
-----------------------------------------------------------------------------
(* What is forced.                                                          *)

\* An object is about the function that contains its location ...
RightFunction(o) ==
  OneSection /\ Inside(o.loc - Start) =>
    \E s \in file.functions : Encloses(s, o.loc - Start) /\ o.start = Start + Address(s)

\* ... and its error is the client's or that of a throw at its location.
SitesAt(l) == {s \in SitesOf(program) : s.throwAddr = l}

RightError(o) ==
  o.error \notin CustomErrors =>
    /\ \E s \in SitesAt(o.loc) : \A i \in DOMAIN s.args : s.args[i] # "variable"
    /\ (\A s \in SitesAt(o.loc) : ~Captures(s.args)) => \E s \in SitesAt(o.loc) : s.error = o.error

Right(o) == RightFunction(o) /\ RightError(o)

RightInv == (object # None => Right(object)) /\ \A l \in Forced : Right(forced[l])

\* Objects come from the constructor and move between it, the map and the destructor.
LEMMA ObjectsMove ==
  ASSUME SysInv, [SysNext]_sysVars
  PROVE  /\ \/ SaveOriginal \/ object' = None \/ object' = object
            \/ \E l \in Forced : object' = forced[l]
         /\ \A l \in Forced' : forced'[l] = object \/ (l \in Forced /\ forced'[l] = forced[l])
<1>1. CASE UNCHANGED engine
  BY <1>1 DEF engine, Forced
<1>2. CASE SaveOriginal \/ Write \/ Restored
  BY <1>2 DEF SaveOriginal, Write, Restored, Forced
<1>3. CASE Emplace
  <2>1. object' = None /\ forced' = [forced EXCEPT ![object.loc] = object]
    BY <1>3 DEF Emplace
  <2> QED
    BY <2>1 DEF Forced, SysInv, SysTypes
<1>4. CASE DestroyNext \/ \E l \in Locations : UnforceException(l)
  <2>1. PICK l \in Forced : object' = forced[l] /\ forced' = [forced EXCEPT ![l] = None]
    BY <1>4 DEF DestroyNext, UnforceException
  <2> QED
    BY <2>1 DEF Forced, SysInv, SysTypes
<1>5. \/ UNCHANGED engine \/ SaveOriginal \/ Write \/ Restored \/ Emplace
      \/ DestroyNext \/ \E l \in Locations : UnforceException(l)
  BY DEF SysNext, Client, Working, Aside, Construct, Destroy, ForceException, ForceExceptionThrows,
         GetExceptionCrashes, ConstructorThrows, EmplaceDuplicate, Restore, DestructorTerminates,
         Destroyed, sysVars
<1> QED
  BY <1>1, <1>2, <1>3, <1>4, <1>5

\* What the constructor saves is right.
LEMMA RightSaved ==
  ASSUME SysInv, SaveOriginal
  PROVE  Right(object')
<1>a. /\ SysTypeOK /\ SysTypes /\ Asks /\ TypeOK /\ progStart = Start
      /\ call.op = "force" /\ Return /\ Answer.outcome = "function" /\ query.pc = "search"
      /\ call.at \in Locations /\ Registered(call.at) /\ query.offset = call.at - Start
  BY DEF SysInv, IInv, SaveOriginal, Located, SysTypeOK, Asks, Start, Return
<1>b. object'.loc = call.at /\ object'.start = Start + Answer.start /\ object'.error \in ErrorsToThrow
  BY ObjectSaved
<1>1. RightFunction(object')
  <2> SUFFICES ASSUME OneSection, Inside(call.at - Start)
               PROVE  \E s \in file.functions : Encloses(s, call.at - Start) /\ object'.start = Start + Address(s)
    BY <1>b DEF RightFunction
  <2>1. RightAnswer(Answer, call.at - Start)
    BY <1>a, AnswerFacts DEF SysInv
  <2>2. /\ Encloses(Answer.name, call.at - Start) /\ Answer.start = Address(Answer.name)
        /\ Answer.name \in file.functions
    BY <1>a, <2>1 DEF RightAnswer, Encloses
  <2> QED
    BY <1>b, <2>2
<1>2. RightError(object')
  <2>1. CASE call.error # Null
    BY <1>a, <1>b, <2>1 DEF ErrorsToThrow, Asks, RightError
  <2>2. CASE call.error = Null
    <3>1. PICK i \in DOMAIN registry : Registration(call.at) = registry[i] /\ registry[i].throwAddr = call.at
      BY <1>a, FirstRegistration
    <3>2. PICK s \in SitesOf(program) : registry[i] = ThrowInfo(s)
      <4>1. section[i] = registry[i] /\ i \in DOMAIN section
        BY <1>a, <3>1 DEF SysTypes
      <4> QED
        BY <1>a, <4>1, ProgramSection DEF SysTypes
    <3> DEFINE fn == ThrowInfo(s).GetException
    <3>3. s.throwAddr = call.at /\ fn # Null /\ object'.error \in Generated(fn)
      BY <1>b, <2>2, <3>1, <3>2 DEF ErrorsToThrow, ThrowInfo
    <3>4. IsConstexpr(s.args) /\ fn = GenExceptionFn(s)
      BY <3>3 DEF ThrowInfo
    <3>5. \A j \in DOMAIN s.args : s.args[j] # "variable"
      BY <3>4 DEF IsConstexpr, BuiltinConstant
    <3>6. Captures(s.args) \/ object'.error = s.error
      BY <3>3, <3>4 DEF GenExceptionFn, Generated
    <3>7. s \in SitesAt(call.at)
      BY <3>3 DEF SitesAt
    <3> QED
      BY <1>b, <3>5, <3>6, <3>7 DEF RightError
  <2> QED
    BY <2>1, <2>2
<1> QED
  BY <1>1, <1>2 DEF Right

LEMMA RightNext ==
  ASSUME SysInv, RightInv, [SysNext]_sysVars
  PROVE  RightInv'
<1>1. UNCHANGED <<file, image, program, section>>
  BY Fixed
<1>2. \A o : Right(o)' = Right(o)
  BY <1>1, Unmoved DEF Right, RightFunction, RightError, SitesAt, OneSection, Inside, Encloses
<1>3. object' # None => Right(object')
  BY ObjectsMove, RightSaved DEF RightInv
<1>4. \A l \in Forced' : Right(forced'[l])
  <2>1. \A l \in Forced' : forced'[l] # None
    BY DEF Forced
  <2> QED
    BY <2>1, ObjectsMove DEF RightInv
<1> QED
  BY <1>2, <1>3, <1>4 DEF RightInv

\* A location that is forced without an error from the client has a throw with
\* arguments that are all known before run time; and it gets the error of its
\* throws, unless one of them captures a local variable.
THEOREM OwnErrorForced == SysSpec => []ForcesOwnError
<1>1. SysInit => SysInv /\ RightInv
  BY SysInvInit DEF SysInit, RightInv, Forced
<1>2. SysInv /\ RightInv => ForcesOwnError
  <2> SUFFICES ASSUME SysInv, RightInv, NEW l \in Forced
               PROVE  LET here == {s \in SitesOf(program) : s.throwAddr = l} IN
                      forced[l].error \notin CustomErrors =>
                        /\ \E s \in here : \A i \in DOMAIN s.args : s.args[i] # "variable"
                        /\ (\A s \in here : ~Captures(s.args)) => \E s \in here : s.error = forced[l].error
    BY DEF ForcesOwnError
  <2>1. RightError(forced[l]) /\ forced[l].loc = l
    BY DEF SysInv, SysTypeOK, RightInv, Right
  <2> QED
    BY <2>1 DEF RightError, SitesAt
<1> QED
  BY <1>1, <1>2, SysInvNext, RightNext, PTL DEF SysSpec
-----------------------------------------------------------------------------
(* What is listed.                                                          *)

\* An element of the list that stands for an element of the section.
Described(e, i) ==
  /\ e.addr = section[i].throwAddr
  /\ OneSection /\ Inside(e.addr - Start) =>
       /\ Encloses(e.name, e.addr - Start)
       /\ e.start = Start + Address(e.name)
       /\ Followed(e.addr - Start) => e.addr < e.end

\* A vector of n elements that stand for the first n elements of the section.
Describes(v, n) ==
  /\ n \in Nat /\ v = [i \in 1 .. n |-> v[i]]
  /\ \A i \in 1 .. n : i \in DOMAIN section /\ Described(v[i], i)

ListInv ==
  /\ call.op = "list" => Describes(ret, call.at - 1)
  /\ outcome = "returned" => progStart = Start
  /\ \E n \in Nat : Describes(listed, n) /\ (outcome = "returned" => n = Len(section))

LEMMA Appended ==
  ASSUME NEW n \in Nat, NEW v, v = [i \in 1 .. n |-> v[i]], NEW e
  PROVE  /\ Append(v, e) = [i \in 1 .. n + 1 |-> Append(v, e)[i]]
         /\ \A i \in 1 .. n : Append(v, e)[i] = v[i]
         /\ Append(v, e)[n + 1] = e
<1> DEFINE S == {v[i] : i \in 1 .. n} \cup {e}
<1>1. v \in [1 .. n -> S] /\ e \in S
  OBVIOUS
<1>2. v \in Seq(S) /\ DOMAIN v = 1 .. n
  BY <1>1, SeqDef
<1>3. Len(v) = n
  BY <1>2, LenProperties
<1> HIDE DEF S
<1>4. /\ Append(v, e) \in Seq(S) /\ Len(Append(v, e)) = n + 1
      /\ \A i \in 1 .. n : Append(v, e)[i] = v[i]
      /\ Append(v, e)[n + 1] = e
  BY <1>1, <1>2, <1>3, AppendProperties
<1>5. Append(v, e) \in [1 .. n + 1 -> S]
  BY <1>4, LenProperties
<1> QED
  BY <1>4, <1>5

\* push_back adds a description of the element the iterator is at.
LEMMA ListPushed ==
  ASSUME SysInv, ListInv, PushBack
  PROVE  Describes(ret', call.at)
<1>a. /\ IInv /\ SysTypes /\ TypeOK /\ progStart = Start /\ image \in Images /\ call.op = "list"
      /\ Return /\ Answer.outcome = "function"
      /\ ret' = Append(ret, ExceptionInfo(registry[call.at].throwAddr, Answer))
  BY DEF SysInv, IInv, SysTypes, SysTypeOK, PushBack, Start
<1> DEFINE n == call.at - 1
           e == ExceptionInfo(registry[call.at].throwAddr, Answer)
<1>b. /\ query.offset = registry[call.at].throwAddr - Start
      /\ call.at \in Nat /\ call.at > 0 /\ call.at <= Len(registry)
      /\ n \in Nat /\ n + 1 = call.at
  BY <1>a, AnswerFacts DEF SysInv, Asks
<1>c. Describes(ret, n)
  BY <1>a DEF ListInv
<1>1. /\ call.at \in DOMAIN registry
      /\ call.at \in DOMAIN section /\ registry[call.at] = section[call.at]
  BY <1>a, <1>b, RegistryFacts DEF SysTypes
<1>2. Described(e, call.at)
  <2>1. e.addr = section[call.at].throwAddr /\ e.addr \in Nat /\ Start \in Nat
    <3>1. registry[call.at] \in Info
      BY <1>a, <1>1, RegistryFacts, SeqElement, Zenon
    <3> QED
      BY <1>a, <1>1, <3>1, StartFirst DEF ExceptionInfo, Info
  <2> SUFFICES ASSUME OneSection, Inside(e.addr - Start)
               PROVE  /\ Encloses(e.name, e.addr - Start)
                      /\ e.start = Start + Address(e.name)
                      /\ Followed(e.addr - Start) => e.addr < e.end
    BY <2>1 DEF Described
  <2>2. /\ e.addr - Start = query.offset /\ e.name = Answer.name
        /\ e.start = FromOffset(Answer.start) /\ e.end = FromOffset(Answer.end)
    BY <1>a, <1>b DEF ExceptionInfo
  <2>3. RightAnswer(Answer, query.offset)
    BY <1>a, <2>2, AnswerFacts
  <2>4. /\ Encloses(Answer.name, query.offset) /\ Answer.start = Address(Answer.name)
        /\ Followed(query.offset) =>
             query.offset < Answer.end /\ \E t \in file.functions : Answer.end = Address(t)
    BY <1>a, <2>3 DEF RightAnswer
  <2>5. \A t \in file.functions : FromOffset(Address(t)) = Address(t) + Start /\ Address(t) \in Nat
    <3>1. 0 \in Bytes
      BY EforceAssumption DEF Bytes
    <3>2. \A t \in file.functions : Address(t) \in Nat \ {0}
      BY <1>a, <3>1, CodeFacts
    <3> QED
      BY <1>a, <3>2 DEF FromOffset
  <2>6. e.start = Start + Address(e.name)
    BY <2>1, <2>2, <2>4, <2>5 DEF Encloses
  <2>7. Followed(query.offset) => e.addr < e.end
    BY <2>1, <2>2, <2>4, <2>5
  <2> QED
    BY <2>2, <2>4, <2>6, <2>7
<1>3. /\ ret' = [i \in 1 .. call.at |-> ret'[i]]
      /\ \A i \in 1 .. n : ret'[i] = ret[i]
      /\ ret'[call.at] = e
  BY <1>a, <1>b, <1>c, Appended DEF Describes
<1>4. ASSUME NEW i \in 1 .. call.at PROVE i \in DOMAIN section /\ Described(ret'[i], i)
  <2>1. CASE i = call.at
    BY <1>1, <1>2, <1>3, <2>1
  <2>2. CASE i \in 1 .. n
    BY <1>3, <1>c, <2>2 DEF Describes
  <2> QED
    BY <1>b, <2>1, <2>2
<1> QED
  BY <1>b, <1>3, <1>4 DEF Describes

LEMMA DescriptionsFixed ==
  ASSUME UNCHANGED <<file, image, section>>
  PROVE  /\ \A e, i : Described(e, i)' = Described(e, i)
         /\ \A v, n : Describes(v, n)' = Describes(v, n)
<1>1. /\ Start' = Start /\ OneSection' = OneSection
      /\ \A o : Inside(o)' = Inside(o)
      /\ \A o : Followed(o)' = Followed(o)
      /\ \A s, o : Encloses(s, o)' = Encloses(s, o)
      /\ \A s : Address(s)' = Address(s)
  BY Unmoved DEF OneSection, Inside, Followed, Encloses
<1>2. \A e, i : Described(e, i)' = Described(e, i)
  BY <1>1 DEF Described
<1> QED
  BY <1>2 DEF Describes

\* The list under construction and the last one that a client was given stand
\* for elements of the section.
LEMMA ListNext ==
  ASSUME SysInv, ListInv, [SysNext]_sysVars
  PROVE  ListInv'
<1>a. /\ UNCHANGED <<file, image, section>> /\ Start' = Start
      /\ \A v, n : Describes(v, n)' = Describes(v, n)
      /\ \A op, at, e : Call(op, at, e) = [op |-> op, at |-> at, error |-> e]
      /\ Idle = Call("idle", 0, Null)
  BY Fixed, Unmoved, DescriptionsFixed DEF Call, Idle
<1>b. SysTypes /\ SysTypeOK /\ Asks /\ IInv
  BY DEF SysInv
<1>1. CASE UNCHANGED <<listed, outcome, progStart>> /\ call'.op = "list" /\ call.op = "list" /\ UNCHANGED <<ret, call>>
  BY <1>a, <1>1 DEF ListInv
<1>2. CASE /\ UNCHANGED <<listed, outcome>> /\ call'.op # "list"
           /\ progStart' = progStart \/ progStart' = Start
  BY <1>a, <1>2 DEF ListInv
<1>3. CASE GetExceptions /\ Aside
  <2>1. /\ call' = Call("list", 1, Null) /\ ret' = <<>> /\ UNCHANGED <<listed, outcome, progStart>>
    BY <1>3 DEF GetExceptions, static
  <2>2. Describes(<<>>, 0)
    BY DEF Describes
  <2> QED
    BY <1>a, <2>1, <2>2 DEF ListInv
<1>4. CASE PushBack /\ Aside
  <2>1. call.at \in Nat /\ call' = Call("list", call.at + 1, Null) /\ UNCHANGED <<listed, outcome, progStart>>
    BY <1>b, <1>4 DEF PushBack, static, Asks
  <2>2. Describes(ret', call'.at - 1)
    BY <1>a, <1>4, <2>1, ListPushed
  <2> QED
    BY <1>a, <2>1, <2>2 DEF ListInv
<1>5. CASE GetExceptionsThrows /\ Aside
  BY <1>a, <1>5 DEF ListInv, GetExceptionsThrows, static
<1>6. CASE GetExceptionsReturns /\ Aside
  <2>1. /\ call.op = "list" /\ call.at > Len(registry) /\ call' = Idle /\ listed' = ret
        /\ outcome' = IF registry = <<>> THEN "empty" ELSE "returned"
        /\ progStart' = Start /\ call.at \in Nat /\ call.at > 0
    BY <1>b, <1>6 DEF GetExceptionsReturns, static, SysTypeOK, Asks, Start
  <2>2. Describes(ret, call.at - 1) /\ Len(registry) \in Nat
    BY <1>b, <2>1, RegistryFacts DEF ListInv
  <2>3. ASSUME registry # <<>> PROVE call.at - 1 = Len(section)
    <3>1. registry = section /\ DOMAIN section = 1 .. Len(section) /\ Len(section) \in Nat
      BY <1>b, <2>3, RegistryFacts DEF SysTypes
    <3>2. \A i \in 1 .. call.at - 1 : i \in DOMAIN section
      BY <2>2 DEF Describes
    <3>3. call.at - 1 = 0 \/ call.at - 1 \in 1 .. Len(section)
      BY <2>1, <3>1, <3>2
    <3> QED
      BY <2>1, <3>1, <3>3
  <2> QED
    BY <1>a, <2>1, <2>2, <2>3 DEF ListInv, Describes
<1>7. CASE AskNext /\ Aside
  BY <1>1, <1>7 DEF AskNext, static, api
<1>8. CASE (Search \/ Crash) /\ Aside
  BY <1>1, <1>2, <1>8 DEF Search, Crash, static, api
<1>9. CASE StaticInit /\ Aside
  BY <1>2, <1>9 DEF StaticInit, api
<1>10. CASE UNCHANGED sysVars
  BY <1>1, <1>2, <1>10 DEF sysVars, static, api
<1>11. CASE Construct \/ Destroyed
  BY <1>a, <1>2, <1>11 DEF Construct, Destroyed, Area!Construct, Gone, static, Start
<1>12. CASE \/ Destroy \/ ForceExceptionThrows \/ GetExceptionCrashes
            \/ \E l \in Locations : UnforceException(l) \/ \E e : ForceException(l, e)
            \/ ConstructorThrows \/ DestructorTerminates
  BY <1>a, <1>2, <1>12 DEF Destroy, ForceExceptionThrows, GetExceptionCrashes, UnforceException,
                           ForceException, ConstructorThrows, DestructorTerminates, Area!UnprotectFails, static
<1>13. CASE SaveOriginal \/ Emplace \/ EmplaceDuplicate
  BY <1>a, <1>2, <1>13 DEF SaveOriginal, Emplace, EmplaceDuplicate, Area!Unprotect, Area!Reprotect
<1>14. CASE Write \/ Restore \/ Restored \/ DestroyNext
  BY <1>a, <1>b, <1>2, <1>14 DEF Write, Restore, Restored, DestroyNext, Destructing, Area!Copy,
                                Area!Unprotect, Area!Reprotect, SysTypeOK, api, static
<1> QED
  BY <1>3, <1>4, <1>5, <1>6, <1>7, <1>8, <1>9, <1>10, <1>11, <1>12, <1>13, <1>14
  DEF SysNext, Client, Working

LEMMA ListInvariance == SysSpec => [](SysInv /\ RightInv /\ ListInv)
<1>1. SysInit => SysInv /\ RightInv /\ ListInv
  <2> SUFFICES ASSUME SysInit PROVE SysInv /\ RightInv /\ ListInv
    OBVIOUS
  <2>1. SysInv /\ RightInv
    BY SysInvInit DEF SysInit, RightInv, Forced
  <2>2. listed = <<>> /\ outcome = "none" /\ call.op = "gone"
    BY DEF SysInit, RInit, Gone, Call
  <2>3. Describes(<<>>, 0)
    BY DEF Describes
  <2> QED
    BY <2>1, <2>2, <2>3 DEF ListInv
<1> QED
  BY <1>1, SysInvNext, RightNext, ListNext, PTL DEF SysSpec

\* A list that was not asked for too early has every throw of the program, in
\* its place, with the function it lies in.
THEOREM EveryThrowListed == SysSpec => []ListsEveryThrow
<1>1. ASSUME SysInv, ListInv PROVE ListsEveryThrow
  <2> SUFFICES ASSUME outcome = "returned" PROVE ListsEveryThrow
    BY DEF ListsEveryThrow
  <2>a. SysTypes /\ progStart = Start /\ image \in Images /\ TypeOK /\ Start \in Nat
    BY <1>1, StartFirst DEF SysInv, IInv, SysTypes, ListInv
  <2>b. section = Link(program) /\ program \in Programs
    BY <2>a DEF SysTypes
  <2>1. section \in Seq(Info)
    BY <2>b, ProgramSection
  <2>2. DOMAIN section = 1 .. Len(section) /\ Len(section) \in Nat
    BY <2>1
  <2>3. Describes(listed, Len(section))
    BY <1>1 DEF ListInv
  <2>4. DOMAIN listed = DOMAIN section /\ \A i \in DOMAIN listed : Described(listed[i], i)
    BY <2>2, <2>3 DEF Describes
  <2>5. Len(listed) = Len(section)
    BY <2>2, <2>4
  <2>6. {listed[i].addr : i \in DOMAIN listed} = {s.throwAddr : s \in SitesOf(program)}
    <3>1. \A i \in DOMAIN section : \E s \in SitesOf(program) : section[i].throwAddr = s.throwAddr
      BY <2>b, ProgramSection DEF ThrowInfo
    <3>2. \A s \in SitesOf(program) : \E i \in DOMAIN section : section[i].throwAddr = s.throwAddr
      BY <2>b, ProgramSection DEF ThrowInfo
    <3>3. \A i \in DOMAIN listed : listed[i].addr = section[i].throwAddr
      BY <2>4 DEF Described
    <3> QED
      BY <2>4, <3>1, <3>2, <3>3
  <2>7. ASSUME NEW i \in DOMAIN listed,
               OneSection, Inside(ToOffset(listed[i].addr))
        PROVE  /\ Encloses(listed[i].name, ToOffset(listed[i].addr))
               /\ listed[i].start = FromOffset(Address(listed[i].name))
               /\ Followed(ToOffset(listed[i].addr)) => listed[i].addr < listed[i].end
    <3>1. ToOffset(listed[i].addr) = listed[i].addr - Start
      <4>1. section[i] \in Info /\ listed[i].addr = section[i].throwAddr
        BY <2>1, <2>4, SeqElement, Zenon DEF Described
      <4> QED
        BY <2>a, <4>1 DEF ToOffset, Info
    <3>2. /\ Encloses(listed[i].name, listed[i].addr - Start)
          /\ listed[i].start = Start + Address(listed[i].name)
          /\ Followed(listed[i].addr - Start) => listed[i].addr < listed[i].end
      BY <2>4, <2>7, <3>1 DEF Described
    <3>3. Address(listed[i].name) \in Nat \ {0}
      <4>1. 0 \in Bytes
        BY EforceAssumption DEF Bytes
      <4> QED
        BY <2>a, <3>2, <4>1, CodeFacts DEF Encloses
    <3> QED
      BY <2>a, <3>1, <3>2, <3>3 DEF FromOffset
  <2> QED
    BY <2>4, <2>5, <2>6, <2>7 DEF ListsEveryThrow, Described
<1> QED
  BY <1>1, ListInvariance, PTL

\* If all functions are in one section and every location lies inside one, the
\* function that a client was shown for a location is the one overwritten.
THEOREM ListedForced ==
  SysSpec => []((OneSection /\ \A l \in Locations : Inside(l - Start)) => ForcesWhatIsListed)
<1>1. ASSUME SysInv, RightInv, ListInv, OneSection, \A l \in Locations : Inside(l - Start)
      PROVE  ForcesWhatIsListed
  <2> SUFFICES ASSUME NEW i \in DOMAIN listed, listed[i].addr \in Forced
               PROVE  forced[listed[i].addr].start = listed[i].start
    BY DEF ForcesWhatIsListed
  <2> DEFINE l == listed[i].addr
  <2>a. TypeOK /\ l \in Locations /\ forced[l].loc = l /\ Inside(l - Start)
    BY <1>1 DEF SysInv, IInv, SysTypeOK, Forced
  <2>1. Described(listed[i], i)
    BY <1>1 DEF ListInv, Describes
  <2>2. Encloses(listed[i].name, l - Start) /\ listed[i].start = Start + Address(listed[i].name)
    BY <1>1, <2>a, <2>1 DEF Described
  <2>3. Right(forced[l])
    BY <1>1 DEF RightInv
  <2>4. PICK s \in file.functions : Encloses(s, l - Start) /\ forced[l].start = Start + Address(s)
    BY <1>1, <2>a, <2>3 DEF Right, RightFunction
  <2>5. Address(s) = Address(listed[i].name)
    <3>1. Address(s) \in Nat /\ Address(listed[i].name) \in Nat
      BY <2>a, <2>2, FileFacts DEF Encloses
    <3> QED
      BY <2>2, <2>4, <3>1 DEF Encloses
  <2> QED
    BY <2>2, <2>4, <2>5
<1> QED
  BY <1>1, ListInvariance, PTL
-----------------------------------------------------------------------------
(* The contract.                                                            *)

Promised == [l \in Locations |-> IF forced[l] = None THEN None ELSE forced[l].error]
Parent   == [l \in Locations |-> ParentOf(l)]
Changing == IF object = None THEN None ELSE ParentOf(object.loc)

\* The actions of the contract, for one forcer and no threads.
LEMMA ContractSteps ==
  ASSUME UNCHANGED Parent, NEW l \in Locations
  PROVE  /\ Changing = None /\ Changing' = Parent[l] /\ Promised' = Promised
              => Contract!Next
         /\ Changing = Parent[l] /\ Changing' = None /\ Promised[l] = None
              /\ (\E e \in Errors \cup {Garbage} : Promised' = [Promised EXCEPT ![l] = e])
              => Contract!Next
         /\ Promised[l] # None /\ Changing' = Parent[l] /\ Promised' = [Promised EXCEPT ![l] = None]
              => Contract!Next
         /\ Changing # None /\ Changing' = None /\ Promised' = Promised
              => Contract!Next
<1> DEFINE P == [x \in {"forcer"} |-> Promised]
           C == [x \in {"forcer"} |-> Changing]
<1>a. /\ P["forcer"] = Promised /\ C["forcer"] = Changing
      /\ P' = [x \in {"forcer"} |-> Promised'] /\ C' = [x \in {"forcer"} |-> Changing']
  OBVIOUS
<1>b. /\ \A e : Promised' = [Promised EXCEPT ![l] = e]
                  => P' = [P EXCEPT !["forcer"] = [P["forcer"] EXCEPT ![l] = e]]
      /\ \A f : Changing' = f => C' = [C EXCEPT !["forcer"] = f]
  BY <1>a
<1>c. \A f : Contract!Disturb(f)
  <2>1. \A g : <<>> = [t \in {} |-> g]
    OBVIOUS
  <2> QED
    BY <2>1 DEF Contract!Disturb
<1>1. ASSUME Changing = None, Changing' = Parent[l], Promised' = Promised PROVE Contract!Begin("forcer", l)
  BY <1>1, <1>a, <1>b, <1>c DEF Contract!Begin, Parent, Promised, Changing
<1>2. ASSUME Changing = Parent[l], Changing' = None, Promised[l] = None,
             NEW e \in Errors \cup {Garbage}, Promised' = [Promised EXCEPT ![l] = e]
      PROVE  Contract!Grant("forcer", l, e)
  BY <1>2, <1>a, <1>b DEF Contract!Grant, Contract!Promise, Parent, Promised, Changing
<1>3. ASSUME Promised[l] # None, Changing' = Parent[l], Promised' = [Promised EXCEPT ![l] = None]
      PROVE  Contract!Withdraw("forcer", l)
  BY <1>3, <1>a, <1>b, <1>c DEF Contract!Withdraw, Contract!Promise, Parent, Promised, Changing
<1>4. ASSUME Changing # None, Changing' = None, Promised' = Promised PROVE Contract!End("forcer")
  BY <1>4, <1>a, <1>b DEF Contract!End, Promised, Changing
<1> QED
  BY <1>1, <1>2, <1>3, <1>4 DEF Contract!Next, Parent
LEMMA ContractNext ==
  ASSUME SysInv, [SysNext]_sysVars
  PROVE  [Contract!Next]_Contract!vars
<1>a. SysTypes /\ SysTypeOK /\ Asks
  BY DEF SysInv
<1>b. UNCHANGED Parent /\ \A l : ParentOf(l)' = ParentOf(l)
  <2>1. UNCHANGED <<file, image>>
    BY Fixed
  <2>2. \A l : ParentOf(l)' = ParentOf(l)
    BY <2>1 DEF ParentOf, Address, Area!Start, Area!Pages
  <2> QED
    BY <2>2 DEF Parent
<1>c. \A l \in Locations : Parent[l] = ParentOf(l)
  BY DEF Parent
<1>d. \A l \in Forced : Promised[l] = forced[l].error /\ Promised[l] # None /\ forced[l].loc = l
                        /\ forced[l] # None /\ l \in Locations
  BY <1>a, ObjectAssumption DEF Forced, Promised, SysTypes, SysTypeOK, ForcedException
<1>1. CASE UNCHANGED <<forced, object>>
  <2>1. Promised' = Promised /\ Changing' = Changing
    BY <1>1, <1>b DEF Promised, Changing
  <2> QED
    BY <1>b, <2>1 DEF Contract!vars, Promised, Changing, Parent
<1>2. CASE SaveOriginal
  <2>1. /\ object = None /\ object' \in ForcedException /\ object'.loc = call.at /\ call.at \in Locations
        /\ forced' = forced /\ object' # None
    BY <1>2, <1>a, ObjectSaved, ObjectAssumption DEF SaveOriginal, Located, SysTypeOK, Asks
  <2>2. Changing = None /\ Changing' = Parent[call.at] /\ Promised' = Promised
    BY <2>1, <1>b, <1>c DEF Changing, Promised
  <2> QED
    BY <1>b, <2>1, <2>2, ContractSteps
<1>3. CASE Emplace
  <2>1. /\ object \in ForcedException /\ object.loc \in Locations /\ forced[object.loc] = None
        /\ object' = None /\ forced' = [forced EXCEPT ![object.loc] = object]
        /\ object # None /\ object.error \in Errors \cup {Garbage}
    BY <1>3, <1>a, ObjectAssumption DEF Emplace, SysTypes, SysTypeOK, ForcedException, Area!Reprotect
  <2>2. Changing = Parent[object.loc] /\ Changing' = None /\ Promised[object.loc] = None
    BY <2>1, <1>c DEF Changing, Promised
  <2>3. Promised' = [Promised EXCEPT ![object.loc] = object.error]
    BY <2>1, <1>a DEF Promised, SysTypes
  <2> QED
    BY <1>b, <2>1, <2>2, <2>3, ContractSteps
<1>4. CASE DestroyNext \/ \E l \in Locations : UnforceException(l)
  <2>1. PICK l \in Forced : object' = forced[l] /\ forced' = [forced EXCEPT ![l] = None]
    BY <1>4 DEF DestroyNext, UnforceException
  <2>2. Changing' = Parent[l]
    BY <1>b, <1>c, <1>d, <2>1 DEF Changing
  <2>3. Promised' = [Promised EXCEPT ![l] = None]
    BY <1>a, <1>d, <2>1 DEF Promised, SysTypes
  <2> QED
    BY <1>b, <1>d, <2>1, <2>2, <2>3, ContractSteps
<1>5. CASE Restored
  <2>1. object' = None /\ forced' = forced /\ Promised' = Promised /\ Changing' = None
    BY <1>5 DEF Restored, Promised, Changing
  <2>2. CASE Changing = None
    BY <1>b, <2>1, <2>2 DEF Contract!vars, Promised, Changing, Parent
  <2>3. CASE Changing # None
    <3>1. object \in ForcedException /\ object.loc \in Locations
      BY <1>5, <1>a DEF Restored, Destructing, SysTypes, ForcedException
    <3> QED
      BY <1>b, <2>1, <2>3, <3>1, ContractSteps
  <2> QED
    BY <2>2, <2>3
<1>6. \/ UNCHANGED <<forced, object>> \/ SaveOriginal \/ Emplace \/ Restored
      \/ DestroyNext \/ \E l \in Locations : UnforceException(l)
  BY DEF SysNext, Client, Working, Aside, Construct, Destroy, ForceException, ForceExceptionThrows,
         GetExceptionCrashes, ConstructorThrows, EmplaceDuplicate, Write, Restore, DestructorTerminates,
         Destroyed, sysVars, engine
<1> QED
  BY <1>1, <1>2, <1>3, <1>4, <1>5, <1>6

\* Lookups, patches, pages and map operations add up to promises that are made
\* and withdrawn one at a time, in whichever order the API is called.
THEOREM SysContractImplemented == SysSpec => SysImplementsContract
<1>1. SysInit => Contract!Init
  <2> SUFFICES ASSUME SysInit PROVE Contract!Init
    OBVIOUS
  <2>1. object = None /\ \A l \in Locations : forced[l] = None
    BY DEF SysInit
  <2>2. [l \in Locations |-> IF forced[l] = None THEN None ELSE forced[l].error] = [l \in Locations |-> None]
    BY <2>1
  <2>3. \A g : <<>> = [t \in {} |-> g]
    OBVIOUS
  <2> QED
    BY <2>1, <2>2, <2>3 DEF Contract!Init
<1> QED
  BY <1>1, ContractNext, SysInvInit, SysInvNext, PTL DEF SysSpec, SysImplementsContract, Contract!Spec
=============================================================================
