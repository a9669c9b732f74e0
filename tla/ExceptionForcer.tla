--------------------------- MODULE ExceptionForcer ---------------------------
(***************************************************************************)
(* The forcing engine of eforce (src/src/ExceptionForcer.cpp): the         *)
(* ExceptionForcer objects of one process, the code they rewrite, the heap *)
(* cells that hold the errors the rewritten code throws, and the threads   *)
(* that meanwhile call the functions being rewritten.                      *)
(*                                                                         *)
(* A function is represented by the instructions at its entry that a patch *)
(* replaces: "own" is an instruction the compiler emitted, a pointer p is  *)
(* an instruction that loads p into the argument register, "jump" is the   *)
(* branch to eforce::Throw.  Every step below is one access to state that  *)
(* another thread can observe; what a call computes locally is part of the *)
(* step before it.                                                         *)
(***************************************************************************)
EXTENDS Naturals

CONSTANTS
  Forcers,       \* the ExceptionForcer objects of the program
  Threads,       \* threads that call functions
  Fns,           \* functions that contain registered throws
  Addrs,         \* addresses a client passes as loc, a set of numbers
  Locs,          \* those that are registered (throwInfo.throwAddr)
  FnOf,          \* the function containing a location, as Elf resolves it
  Unpatchable,   \* functions for which no patch is generated, or one too large
  Errors,        \* the errors an exception_ptr can refer to
  NoError,       \* the null exception_ptr, and the null GetException pointer
  GetException,  \* the error a location's own throw expression makes, or NoError
  Ptrs,          \* heap addresses that new exception_ptr can return (bound)
  PatchLen,      \* instructions in a patch: 2 on x64, 3 on Thumb, 5 on AArch64
  Requests,      \* the <<forcer, address>> pairs passed to ForceException
  Sequential,    \* TRUE iff no two API calls of the program overlap
  MprotectFails, \* TRUE iff mprotect may fail
  None           \* an absent map entry, object or function

Words    == 1 .. PatchLen
Code     == [Words -> {"own", "jump"} \cup Ptrs]
Original == [i \in Words |-> "own"]

\* What GetThrowOpcode produces for a cell p: load p, jump to Throw.
Patch(p) == [i \in Words |-> IF i = PatchLen THEN "jump" ELSE p]

\* A ForcedException; its m_fnStart is the function of the location it is for.
ForcedException == [ptr : Ptrs, data : Code]

ASSUME ConstantsAssumption ==
  /\ Addrs \subseteq Nat /\ Locs \subseteq Addrs
  /\ FnOf \in [Locs -> Fns]
  /\ Unpatchable \subseteq Fns
  /\ GetException \in [Locs -> Errors \cup {NoError}]
  /\ NoError \notin Errors
  /\ {"freed", "ran", "torn", "dangling", "none"} \cap Errors = {}
  /\ {"own", "jump"} \cap Ptrs = {}
  /\ PatchLen \in Nat /\ PatchLen >= 2
  /\ Requests \subseteq Forcers \X Addrs
  /\ Sequential \in BOOLEAN /\ MprotectFails \in BOOLEAN
  /\ None \notin Fns /\ None \notin ForcedException
  /\ None # "freed" /\ None \notin Errors

VARIABLES
  text,      \* the entry of each function
  writable,  \* protection of the executable area: TRUE is rwx, FALSE is r-x
  heap,      \* the error in each heap cell, or "freed"
  forced,    \* m_forcedExceptions of each forcer
  op,        \* the API call each forcer is executing
  ret,       \* how the last ForceException of each forcer returned
  call,      \* the call each thread is making
  status     \* of the process: "running", "segv" or "terminated"

vars == <<text, writable, heap, forced, op, ret, call, status>>

\* A forcer between API calls, and one in the middle of a call: at pc, with
\* the instructions in left still to copy.
AtRest(pc)     == [pc |-> pc, phase |-> "none", api |-> "none", loc |-> 0,
                   fe |-> None, left |-> {}]
At(pc, left, o) == [pc |-> pc, phase |-> o.phase, api |-> o.api, loc |-> o.loc,
                   fe |-> o.fe, left |-> left]
Gone == AtRest("gone")
Idle == AtRest("idle")

\* A thread that calls no function.
Outside == [pc |-> "outside", fn |-> None, next |-> 1, code |-> Original,
            due |-> {}, calm |-> TRUE, out |-> "none"]

\* new exception_ptr and the destructor of m_pException.
Allocate(p, error) == heap[p] = "freed" /\ heap' = [heap EXCEPT ![p] = error]
ReleaseToNull(p)   == heap' = [heap EXCEPT ![p] = NoError] \* mutant: not freed
ReleaseNothing(p)  == heap' = heap                         \* mutant: leaked
Release(p)         == heap' = [heap EXCEPT ![p] = "freed"]

Active(x) == op[x].pc \notin {"gone", "idle"}

SourceOriginal(o) == IF o.phase = "construct" THEN Patch(o.fe.ptr) ELSE Original \* mutant
SourcePatch(o)    == Patch(o.fe.ptr)                                             \* mutant

\* The code the std::copy of the current constructor or destructor writes.
Source(o) == IF o.phase = "construct" THEN Patch(o.fe.ptr) ELSE o.fe.data

Init ==
  /\ text = [f \in Fns |-> Original]
  /\ writable = FALSE
  /\ heap = [p \in Ptrs |-> "freed"]
  /\ forced = [x \in Forcers |-> [l \in Locs |-> None]]
  /\ op = [x \in Forcers |-> Gone]
  /\ ret = [x \in Forcers |-> None]
  /\ call = [t \in Threads |-> Outside]
  /\ status = "running"

-----------------------------------------------------------------------------
(* The API calls.                                                          *)

MayBegin(x) ==
  /\ status = "running"
  /\ op[x].pc = "idle"
  /\ Sequential => \A y \in Forcers : ~Active(y)

\* Start ~ForcedException, or the constructor, of fe for location l.
Begin(x, api, phase, l, fe) ==
  op' = [op EXCEPT ![x] = [pc |-> "unprotect", phase |-> phase, api |-> api,
                           loc |-> l, fe |-> fe, left |-> Words]]

\* History for the properties: from here on an API call rewrites function f.
Disturb(f) ==
  call' = [t \in Threads |-> LET c == call[t] IN
             [pc |-> c.pc, fn |-> c.fn, next |-> c.next, code |-> c.code,
              due |-> c.due, calm |-> c.calm /\ c.fn # f, out |-> c.out]]

Construct(x) ==
  /\ status = "running" /\ op[x].pc = "gone"
  /\ op' = [op EXCEPT ![x] = Idle]
  /\ UNCHANGED <<text, writable, heap, forced, ret, call, status>>

ErrorToThrow(a, pError) == IF pError # NoError THEN pError ELSE GetException[a]

Accepted(a, pError) ==
  /\ a \in Locs
  /\ ErrorToThrow(a, pError) # NoError
  /\ FnOf[a] \notin Unpatchable

\* "Could not find addr", "Exception input is not constant", "Generated opcode
\* too large" or the generator's own error: nothing has been written yet.
ForceRejected(x, a, pError) ==
  /\ MayBegin(x) /\ <<x, a>> \in Requests
  /\ ~Accepted(a, pError)
  /\ ret' = [ret EXCEPT ![x] = [loc |-> a, ok |-> FALSE, want |-> NoError]]
  /\ UNCHANGED <<text, writable, heap, forced, op, call, status>>

\* Allocate the cell, generate the patch, save the code it will replace.
ForceException(x, a, pError) ==
  /\ MayBegin(x) /\ <<x, a>> \in Requests
  /\ Accepted(a, pError)
  /\ \E p \in Ptrs :
       /\ Allocate(p, ErrorToThrow(a, pError))
       /\ Begin(x, "force", "construct", a, [ptr |-> p, data |-> text[FnOf[a]]])
  /\ ret' = [ret EXCEPT ![x] = None]
  /\ Disturb(FnOf[a])
  /\ UNCHANGED <<text, writable, forced, status>>

\* map::erase unlinks the entry, then destroys it.
UnforceException(x, l) ==
  /\ MayBegin(x) /\ forced[x][l] # None
  /\ Begin(x, "unforce", "destruct", l, forced[x][l])
  /\ forced' = [forced EXCEPT ![x][l] = None]
  /\ ret' = [ret EXCEPT ![x] = None]
  /\ Disturb(FnOf[l])
  /\ UNCHANGED <<text, writable, heap, status>>

Forced(x) == {l \in Locs : forced[x][l] # None}

\* Mutants: the entry is not unlinked; only the largest entry is destroyed.
DestroyAgain(x) ==
  IF Forced(x) = {}
  THEN op' = [op EXCEPT ![x] = Gone] /\ UNCHANGED <<forced, call>>
  ELSE \E l \in Forced(x) : /\ Begin(x, "destroy", "destruct", l, forced[x][l])
                            /\ UNCHANGED forced /\ Disturb(FnOf[l])
DestroyLargest(x) ==
  IF Forced(x) = {} \/ op[x].pc = "free"
  THEN op' = [op EXCEPT ![x] = Gone] /\ UNCHANGED <<forced, call>>
  ELSE \E l \in Forced(x) : /\ \A m \in Forced(x) : m <= l
                            /\ Begin(x, "destroy", "destruct", l, forced[x][l])
                            /\ forced' = [forced EXCEPT ![x][l] = None] /\ Disturb(FnOf[l])

\* ~map destroys its entries from the largest key to the smallest (libstdc++),
\* then the forcer is gone.
DestroyNext(x) ==
  IF Forced(x) = {}
  THEN /\ op' = [op EXCEPT ![x] = Gone]
       /\ UNCHANGED <<forced, call>>
  ELSE \E l \in Forced(x) :
         /\ \A m \in Forced(x) : m <= l
         /\ Begin(x, "destroy", "destruct", l, forced[x][l])
         /\ forced' = [forced EXCEPT ![x][l] = None]
         /\ Disturb(FnOf[l])

Destroy(x) ==
  /\ MayBegin(x)
  /\ DestroyNext(x)
  /\ ret' = [ret EXCEPT ![x] = None]
  /\ UNCHANGED <<text, writable, heap, status>>

-----------------------------------------------------------------------------
(* The constructor and the destructor of ForcedException.                  *)

Executing(x, pc) == status = "running" /\ op[x].pc = pc

\* Mutant: the destructor writes without a ScopedMprotect of its own.
UnprotectOnce(x) ==
  /\ Executing(x, "unprotect")
  /\ writable' = (writable \/ op[x].phase = "construct")
  /\ op' = [op EXCEPT ![x] = At("copy", Words, @)]
  /\ UNCHANGED <<text, heap, forced, ret, call, status>>

\* ScopedMprotect::ScopedMprotect
Unprotect(x) ==
  /\ Executing(x, "unprotect")
  /\ writable' = TRUE
  /\ op' = [op EXCEPT ![x] = At("copy", Words, @)]
  /\ UNCHANGED <<text, heap, forced, ret, call, status>>

\* "Failed to mprotect" leaves the constructor: its members are destroyed.
ConstructorThrows(x) ==
  /\ Executing(x, "unprotect") /\ MprotectFails
  /\ op[x].phase = "construct"
  /\ Release(op[x].fe.ptr)
  /\ op' = [op EXCEPT ![x] = Idle]
  /\ ret' = [ret EXCEPT ![x] = [loc |-> op[x].loc, ok |-> FALSE, want |-> NoError]]
  /\ UNCHANGED <<text, writable, forced, call, status>>

\* The same exception cannot leave the destructor, which is noexcept.
DestructorTerminates(x) ==
  /\ Executing(x, "unprotect") /\ MprotectFails
  /\ op[x].phase = "destruct"
  /\ status' = "terminated"
  /\ UNCHANGED <<text, writable, heap, forced, op, ret, call>>

\* Mutant: the range passed to std::copy is too short.
CopyStopsEarly(x) ==
  /\ Executing(x, "copy") /\ writable
  /\ \E i \in op[x].left : text' = [text EXCEPT ![FnOf[op[x].loc]][i] = Source(op[x])[i]]
  /\ op' = [op EXCEPT ![x] = At("protect", {}, @)]
  /\ UNCHANGED <<writable, heap, forced, ret, call, status>>

\* One store of std::copy, which may store the instructions in any order.
Copy(x) ==
  /\ Executing(x, "copy") /\ writable
  /\ \E i \in op[x].left :
       /\ text' = [text EXCEPT ![FnOf[op[x].loc]][i] = Source(op[x])[i]]
       /\ op' = [op EXCEPT ![x] = IF @.left = {i} THEN At("protect", {}, @)
                                  ELSE At("copy", @.left \ {i}, @)]
  /\ UNCHANGED <<writable, heap, forced, ret, call, status>>

\* Another forcer has restored the protection in the meantime.
CopyFaults(x) ==
  /\ Executing(x, "copy") /\ ~writable
  /\ status' = "segv"
  /\ UNCHANGED <<text, writable, heap, forced, op, ret, call>>

\* ScopedMprotect::~ScopedMprotect, which ignores the result of mprotect.
ReprotectNothing == writable' = writable \* mutant
Reprotect == writable' \in IF MprotectFails THEN {writable, FALSE} ELSE {FALSE}

Protect(x) ==
  /\ Executing(x, "protect")
  /\ Reprotect
  /\ op' = [op EXCEPT ![x] = At(IF @.phase = "construct" THEN "emplace" ELSE "free", {}, @)]
  /\ UNCHANGED <<text, heap, forced, ret, call, status>>

\* What a ForceException that returns normally was asked to force.
Returns(x) == [loc |-> op[x].loc, ok |-> TRUE, want |-> heap[op[x].fe.ptr]]

\* Mutant: the entry of an already forced location is overwritten.
EmplaceOverwrites(x) ==
  /\ Executing(x, "emplace")
  /\ forced' = [forced EXCEPT ![x][op[x].loc] = op[x].fe]
  /\ op' = [op EXCEPT ![x] = Idle]
  /\ ret' = [ret EXCEPT ![x] = Returns(x)]
  /\ UNCHANGED <<text, writable, heap, call, status>>

\* map::emplace moves the object into the map ...
Emplace(x) ==
  /\ Executing(x, "emplace") /\ forced[x][op[x].loc] = None
  /\ forced' = [forced EXCEPT ![x][op[x].loc] = op[x].fe]
  /\ op' = [op EXCEPT ![x] = Idle]
  /\ ret' = [ret EXCEPT ![x] = Returns(x)]
  /\ UNCHANGED <<text, writable, heap, call, status>>

\* ... or, if the location is already forced, the new object is destroyed.
EmplaceDuplicate(x) ==
  /\ Executing(x, "emplace") /\ forced[x][op[x].loc] # None
  /\ Begin(x, "force", "destruct", op[x].loc, op[x].fe)
  /\ UNCHANGED <<text, writable, heap, forced, ret, call, status>>

\* After the body of ~ForcedException, the destructor of m_pException.
Free(x) ==
  /\ Executing(x, "free")
  /\ Release(op[x].fe.ptr)
  /\ IF op[x].api = "destroy"
     THEN DestroyNext(x)
     ELSE op' = [op EXCEPT ![x] = Idle] /\ UNCHANGED <<forced, call>>
  /\ ret' = [ret EXCEPT ![x] = IF op[x].api = "force" THEN Returns(x) ELSE @]
  /\ UNCHANGED <<text, writable, status>>

-----------------------------------------------------------------------------
(* The threads of the program.  The processor fetches the entry of the     *)
(* function one instruction at a time.                                     *)

\* The errors that forcings in effect promise for a call of f; {} if none.
Promised(f) ==
  {e \in Errors \cup {"freed"} :
     \E x \in Forcers, l \in Locs :
       FnOf[l] = f /\ forced[x][l] # None /\ heap[forced[x][l].ptr] = e}

Enter(t, f) ==
  /\ status = "running" /\ call[t].pc = "outside"
  /\ call' = [call EXCEPT ![t] =
       [pc |-> "head", fn |-> f, next |-> 1, code |-> Original, due |-> Promised(f),
        calm |-> \A x \in Forcers : Active(x) => FnOf[op[x].loc] # f, out |-> "none"]]
  /\ UNCHANGED <<text, writable, heap, forced, op, ret, status>>

\* Call c after it has fetched code, at pc, with instruction next to fetch.
Fetched(c, pc, next, code, out) ==
  [pc |-> pc, fn |-> c.fn, next |-> next, code |-> code,
   due |-> c.due, calm |-> c.calm, out |-> out]

\* Where the instructions a thread fetched lead it.
Reach(c, code) ==
  IF code = Original THEN Fetched(c, "done", c.next, code, "ran")
  ELSE IF \E p \in Ptrs : code = Patch(p) THEN Fetched(c, "throw", c.next, code, "none")
  ELSE Fetched(c, "done", c.next, code, "torn")

Fetch(t) ==
  /\ status = "running" /\ call[t].pc = "head"
  /\ LET i    == call[t].next
         code == [call[t].code EXCEPT ![i] = text[call[t].fn][i]]
     IN  call' = [call EXCEPT ![t] =
           IF i < PatchLen THEN Fetched(@, "head", i + 1, code, "none") ELSE Reach(@, code)]
  /\ UNCHANGED <<text, writable, heap, forced, op, ret, status>>

\* eforce::Throw dereferences the pointer the patch loaded.
Throw(t) ==
  /\ status = "running" /\ call[t].pc = "throw"
  /\ LET error == heap[call[t].code[1]]
     IN  call' = [call EXCEPT ![t] =
           Fetched(@, "done", @.next, @.code, IF error = "freed" THEN "dangling" ELSE error)]
  /\ UNCHANGED <<text, writable, heap, forced, op, ret, status>>

Leave(t) ==
  /\ status = "running" /\ call[t].pc = "done"
  /\ call' = [call EXCEPT ![t] = Outside]
  /\ UNCHANGED <<text, writable, heap, forced, op, ret, status>>

-----------------------------------------------------------------------------
\* The steps a forcer takes by itself once an API call has begun.
Step(x) ==
  \/ Unprotect(x) \/ ConstructorThrows(x) \/ DestructorTerminates(x)
  \/ Copy(x) \/ CopyFaults(x) \/ Protect(x)
  \/ Emplace(x) \/ EmplaceDuplicate(x) \/ Free(x)

Client(x) ==
  \/ Construct(x) \/ Destroy(x)
  \/ \E a \in Addrs, e \in Errors \cup {NoError} :
       ForceRejected(x, a, e) \/ ForceException(x, a, e)
  \/ \E l \in Locs : UnforceException(x, l)

Calls(t) == (\E f \in Fns : Enter(t, f)) \/ Fetch(t) \/ Throw(t) \/ Leave(t)

Next == (\E x \in Forcers : Client(x) \/ Step(x)) \/ (\E t \in Threads : Calls(t))

Spec == Init /\ [][Next]_vars

\* A client that removes only the forcing installed last in each function: the
\* entry an API call unlinks is the one whose patch the function starts with.
LastForcedFirst ==
  \A x \in Forcers, l \in Locs :
    forced[x][l] # None /\ forced'[x][l] = None => text[FnOf[l]] = Patch(forced[x][l].ptr)

LifoSpec == Init /\ [][Next /\ LastForcedFirst]_vars

\* A thread that is inside an API call keeps running; clients and callers need not.
FairSpec == Spec /\ \A x \in Forcers : WF_vars(Step(x))
=============================================================================
