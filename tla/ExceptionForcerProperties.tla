---------------------- MODULE ExceptionForcerProperties ----------------------
(***************************************************************************)
(* What the forcing engine of module ExceptionForcer guarantees, and the   *)
(* inductive invariant from which the safety part follows.                 *)
(***************************************************************************)
EXTENDS ExceptionForcer, FiniteSets

OpType ==
  [pc    : {"gone", "idle", "unprotect", "copy", "protect", "emplace", "free"},
   phase : {"none", "construct", "destruct"},
   api   : {"none", "force", "unforce", "destroy"},
   loc   : Locs \cup {0},
   fe    : ForcedException \cup {None},
   left  : SUBSET Words]

CallType ==
  [pc   : {"outside", "head", "throw", "done"},
   fn   : Fns \cup {None},
   next : Words,
   code : Code,
   due  : SUBSET (Errors \cup {"freed"}),
   calm : BOOLEAN,
   out  : Errors \cup {"none", "ran", "torn", "dangling"}]

RetType == [loc : Addrs, ok : BOOLEAN, want : Errors \cup {NoError, "freed"}]

\* The locals of a call are set while it runs.
OpsTyped ==
  /\ op \in [Forcers -> OpType]
  /\ \A x \in Forcers : Active(x) => op[x].loc \in Locs /\ op[x].fe \in ForcedException
CallsTyped ==
  /\ call \in [Threads -> CallType]
  /\ \A t \in Threads : /\ call[t].pc # "outside" => call[t].fn \in Fns
                        /\ call[t].pc = "throw" => call[t].code[1] \in Ptrs

\* The type of every variable.
TypeOK ==
  /\ text \in [Fns -> Code]
  /\ writable \in BOOLEAN
  /\ heap \in [Ptrs -> Errors \cup {"freed"}]
  /\ forced \in [Forcers -> [Locs -> ForcedException \cup {None}]]
  /\ OpsTyped
  /\ ret \in [Forcers -> RetType \cup {None}]
  /\ CallsTyped
  /\ status \in {"running", "segv", "terminated"}

-----------------------------------------------------------------------------
(* Heap cells.  A cell is owned through m_pException of a map entry or of  *)
(* the object a call is constructing or destroying.                        *)

EntryOwns(x, l, p) == forced[x][l] # None /\ forced[x][l].ptr = p
OpOwns(x, p)       == Active(x) /\ op[x].fe.ptr = p

LiveCellsOwned ==
  \A p \in Ptrs : heap[p] # "freed" <=> \/ \E x \in Forcers : OpOwns(x, p)
                                        \/ \E x \in Forcers, l \in Locs : EntryOwns(x, l, p)

OwnersDistinct ==
  \A p \in Ptrs, x, y \in Forcers :
    /\ OpOwns(x, p) /\ OpOwns(y, p) => x = y
    /\ \A l \in Locs : ~(OpOwns(x, p) /\ EntryOwns(y, l, p))
    /\ \A l, m \in Locs : EntryOwns(x, l, p) /\ EntryOwns(y, m, p) => x = y /\ l = m

\* Every live cell has an owner, so no path through the constructor, emplace
\* or the destructors leaks one; every owner's cell is live, and no cell has
\* two owners, so none is freed twice or while an entry still needs it.
CellsOwnedOnce == LiveCellsOwned /\ OwnersDistinct

-----------------------------------------------------------------------------
(* Protection of the executable area.                                      *)

\* Code is writable only while some forcer is between the two mprotect calls
\* of ScopedMprotect, even if the calls of several forcers interleave.
WritableOnlyInScope ==
  MprotectFails \/ (writable => \E x \in Forcers : op[x].pc \in {"copy", "protect"})

\* No store of a patch faults, if API calls do not overlap.
NoFault == Sequential => status # "segv"

-----------------------------------------------------------------------------
(* Calls of functions.  A call is calm if no API call rewrites its function*)
(* between its entry and its outcome.                                      *)

\* No two forcings a client asks for share a function.
Exclusive ==
  \A r, s \in Requests :
    r[2] \in Locs /\ s[2] \in Locs /\ FnOf[r[2]] = FnOf[s[2]] => r = s

\* README "Next call to SomeFunction() will now throw": a calm call of a
\* function with a forced location throws the error of a forcing in effect.
ForcedCallsThrow ==
  \A t \in Threads :
    call[t].pc = "done" /\ call[t].calm /\ call[t].due # {} => call[t].out \in call[t].due

\* UnforceException "Disable a forced exception at loc": a calm call of a
\* function none of whose locations is forced runs the function.
UnforcedCallsRun ==
  \A t \in Threads :
    call[t].pc = "done" /\ call[t].calm /\ call[t].due = {} => call[t].out = "ran"

\* ~ExceptionForcer undoes every forcing that is left in its map: a function that
\* only forcers that are gone were asked to force has its own entry back, however
\* their forcings, their failures and their removals were mixed.
LeftAsFound ==
  \A f \in Fns :
    (\A r \in Requests : r[2] \in Locs /\ FnOf[r[2]] = f => op[r[1]].pc = "gone")
      => text[f] = Original

\* README "It acts as if the original function was never even called": every
\* call either runs the function or throws, whatever API calls overlap it.
CallsRunOrThrow ==
  \A t \in Threads : call[t].pc = "done" => call[t].out \notin {"torn", "dangling"}

\* ExceptionForcer.h of ForceException(loc, pError): "Forces an exception that is
\* thrown from location loc with a custom exception", "pError exception to throw".
\* Taken at its word: when it returns normally, loc is forced with that error,
\* whatever was forced at loc before.
ForceDelivers ==
  [][\A x \in Forcers :
       LET r == ret'[x] IN
       r # ret[x] /\ r # None /\ r.ok =>
         LET after == forced'[x][r.loc]
         IN  after # None /\ heap'[after.ptr] = r.want]_vars

\* What the code does instead: map::emplace keeps an entry it finds, so loc is
\* forced with that error only if it was not forced before, and still with the
\* earlier one otherwise, in a live cell in either case.
ForceReturnsForced ==
  [][\A x \in Forcers :
       LET r == ret'[x] IN
       r # ret[x] /\ r # None /\ r.ok =>
         LET before == forced[x][r.loc]
             after  == forced'[x][r.loc]
         IN  /\ after # None
             /\ heap'[after.ptr] = IF before = None THEN r.want ELSE heap[before.ptr]]_vars

-----------------------------------------------------------------------------
(* The length of an API call.                                              *)

\* How many steps a call at o takes at most until it has returned, if its forcer
\* still has n entries: rewriting an entry takes two mprotects, PatchLen stores
\* and an end; the object of a ForceException may have to be destroyed again, and
\* ~ExceptionForcer destroys each entry.
RewriteSteps == PatchLen + 3
StepsLeft(o, n) ==
  (CASE o.pc = "unprotect" -> RewriteSteps
     [] o.pc = "copy"      -> Cardinality(o.left) + 2
     [] o.pc = "protect"   -> 2
     [] OTHER              -> 1)
  + (IF o.phase = "construct" THEN RewriteSteps ELSE 0)
  + (IF o.api = "destroy" THEN RewriteSteps * n ELSE 0)
Remaining(x) == StepsLeft(op[x], Cardinality(Forced(x)))

\* No API call goes round in circles: each of its steps brings its return nearer,
\* and nothing that other forcers or threads do puts it off.
CallsGetOn ==
  [][\A x \in Forcers : Active(x) /\ Active(x)' =>
       IF op'[x] = op[x] THEN Remaining(x)' = Remaining(x) ELSE Remaining(x)' < Remaining(x)]_vars

-----------------------------------------------------------------------------
(* The contract of the public API, module ThrowOnDemand.                   *)

\* A map entry promises the error in its cell; an object that is being
\* constructed promises nothing yet, one that is destroyed nothing any more.
PromisedBy(x) ==
  [l \in Locs |-> IF forced[x][l] = None THEN None ELSE heap[forced[x][l].ptr]]
FnChangedBy(x) == IF Active(x) THEN FnOf[op[x].loc] ELSE None
SeenOf(t)      == [fn |-> call[t].fn, calm |-> call[t].calm, out |-> call[t].out]

Contract == INSTANCE ThrowOnDemand WITH
  Outs     <- Errors \cup {"ran", "torn", "dangling"},
  parent   <- FnOf,
  promised <- [x \in Forcers |-> PromisedBy(x)],
  changing <- [x \in Forcers |-> FnChangedBy(x)],
  calls    <- [t \in Threads |-> SeenOf(t)]

\* "Next call to `SomeFunction()` will now throw" (README.md), "Disable a forced
\* exception at loc" (ExceptionForcer.h): the steps of constructors, destructors
\* and map operations, their failures and all that threads see of them in
\* between, add up to promises that are made, kept and withdrawn one at a time.
ImplementsContract == Contract!Spec

-----------------------------------------------------------------------------
(* Liveness, under FairSpec.                                               *)

Halted == status # "running"

\* Every API call returns, unless the process dies: the copy loops end, and
\* the destruction of a forcer works through all of its entries.
CallsReturn == \A x \in Forcers : Active(x) ~> (~Active(x) \/ Halted)

\* Once ~ExceptionForcer starts, the forcer's forcings all come to be undone
\* and the functions it alone was asked to force run their own code again.
DestructionRestores ==
  \A x \in Forcers : op[x].api = "destroy" ~>
    \/ Halted
    \/ /\ op[x].pc = "gone"
       /\ \A f \in Fns : (\E a \in Addrs : <<x, a>> \in Requests /\ a \in Locs /\ FnOf[a] = f)
                           => text[f] = Original

-----------------------------------------------------------------------------
(* The inductive invariant.                                                *)

\* The local state of a call in progress, by program counter.
Shaped(o) ==
  /\ o.pc \notin {"gone", "idle"} => o.phase \in {"construct", "destruct"}
  /\ o.pc = "unprotect" => o.left = Words
  /\ o.pc = "copy" => o.left # {}
  /\ o.pc \in {"protect", "emplace", "free"} => o.left = {}
  /\ o.pc = "emplace" => o.phase = "construct"
  /\ o.pc = "free" => o.phase = "destruct"
OpShape == \A x \in Forcers : Shaped(op[x])

\* The object emplace did not need is destroyed for an entry that is kept.
DuplicateKept ==
  \A x \in Forcers :
    Active(x) /\ op[x].api = "force" /\ op[x].phase = "destruct" => forced[x][op[x].loc] # None

\* The local state of a thread, by program counter.
CallShape ==
  \A t \in Threads : LET c == call[t] IN
    /\ c.pc = "outside" => c.fn = None
    /\ c.out = "none" <=> c.pc # "done"

\* If calls do not overlap, the code is writable whenever one copies.
SequentialInv ==
  Sequential =>
    /\ \A x, y \in Forcers : Active(x) /\ Active(y) => x = y
    /\ \A x \in Forcers : op[x].pc = "copy" => writable
    /\ status # "segv"

Touched(f) == \E x \in Forcers : Active(x) /\ FnOf[op[x].loc] = f

\* The code the current copy replaces.
Replaced(o) == IF o.phase = "construct" THEN o.fe.data ELSE Patch(o.fe.ptr)

\* Only requested locations are forced, and each entry saved the own code.
EntriesSavedOriginal ==
  \A x \in Forcers, l \in Locs :
    forced[x][l] # None => <<x, l>> \in Requests /\ forced[x][l].data = Original

\* While an object is constructed or destroyed, the entry of its function is
\* its source as far as copied, and it saved what the map says was there.
RewriteProgress ==
  \A x \in Forcers : Active(x) =>
    LET o == op[x]
        e == forced[x][o.loc]
    IN  /\ <<x, o.loc>> \in Requests
        /\ o.fe.data = IF e = None THEN Original ELSE Patch(e.ptr)
        /\ \A i \in Words :
             text[FnOf[o.loc]][i] = IF i \in o.left THEN Replaced(o)[i] ELSE Source(o)[i]

\* At rest, the entry of a function is what the maps say it is.
TextMatchesMaps ==
  \A f \in Fns : ~Touched(f) =>
    /\ \A x \in Forcers, l \in Locs :
         FnOf[l] = f /\ forced[x][l] # None => text[f] = Patch(forced[x][l].ptr)
    /\ (\A x \in Forcers, l \in Locs : FnOf[l] = f => forced[x][l] = None)
         => text[f] = Original

\* A calm call has fetched what is at the entry, and is owed what is forced.
CallProgress ==
  \A t \in Threads : LET c == call[t] IN
    c.calm /\ c.pc \in {"head", "throw"} =>
      /\ ~Touched(c.fn)
      /\ c.due = Promised(c.fn)
      /\ c.pc = "head" => \A i \in Words : i < c.next => c.code[i] = text[c.fn][i]
      /\ c.pc = "throw" => c.code = text[c.fn] /\ c.code # Original

EntryInv ==
  /\ EntriesSavedOriginal /\ RewriteProgress /\ TextMatchesMaps /\ CallProgress
  /\ ForcedCallsThrow /\ UnforcedCallsRun

IInv ==
  /\ TypeOK /\ OpShape /\ CallShape /\ CellsOwnedOnce /\ DuplicateKept /\ SequentialInv
  /\ Exclusive => EntryInv
=============================================================================
