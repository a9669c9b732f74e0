--------------------- MODULE ExceptionForcerContractProofs ---------------------
(***************************************************************************)
(* Proofs that the forcing engine delivers what its API promises: what      *)
(* ForceException has done when it returns, the contract of module          *)
(* ThrowOnDemand, that forcers leave functions as they found them, and that *)
(* no call of the API goes round in circles.                                *)
(***************************************************************************)
EXTENDS ExceptionForcerEntryProofs, FiniteSetTheorems

USE ConstantsAssumption

\* What ForceReturnsForced says of one forcer.
Delivers(x) ==
  LET r == ret'[x] IN
  r # ret[x] /\ r # None /\ r.ok =>
    LET before == forced[x][r.loc]
        after  == forced'[x][r.loc]
    IN  /\ after # None
        /\ heap'[after.ptr] = IF before = None THEN r.want ELSE heap[before.ptr]

\* Only the end of emplace and of the destruction of a duplicate return normally.
LEMMA DeliversStep ==
  ASSUME TypeOK, CellsOwnedOnce, DuplicateKept, OpShape, NEW x \in Forcers, Client(x) \/ Step(x)
  PROVE  Delivers(x)
<1>a. ASSUME NEW r, ret' = [ret EXCEPT ![x] = r]
      PROVE  ret'[x] = r
  BY <1>a DEF TypeOK
<1>b. Returns(x).loc = op[x].loc /\ Returns(x).want = heap[op[x].fe.ptr]
  BY DEF Returns
<1>1. CASE Client(x)
  <2>1. ret'[x] = ret[x] \/ ret'[x] = None \/ ~ret'[x].ok
    <3>1. CASE Construct(x)
      BY <3>1 DEF Construct
    <3>2. CASE Destroy(x)
      BY <1>a, <3>2 DEF Destroy
    <3>3. ASSUME NEW a \in Addrs, NEW e \in Errors \cup {NoError}, ForceRejected(x, a, e) \/ ForceException(x, a, e)
          PROVE  ret'[x] = None \/ ~ret'[x].ok
      BY <1>a, <3>3 DEF ForceRejected, ForceException
    <3>4. CASE \E l \in Locs : UnforceException(x, l)
      BY <1>a, <3>4 DEF UnforceException
    <3> QED
      BY <1>1, <3>1, <3>2, <3>3, <3>4 DEF Client
  <2> QED
    BY <2>1 DEF Delivers
<1>2. CASE Unprotect(x) \/ DestructorTerminates(x) \/ Copy(x) \/ CopyFaults(x) \/ Protect(x)
           \/ EmplaceDuplicate(x)
  BY <1>2 DEF Delivers, Unprotect, DestructorTerminates, Copy, CopyFaults, Protect, EmplaceDuplicate
<1>3. CASE ConstructorThrows(x)
  BY <1>a, <1>3 DEF Delivers, ConstructorThrows
<1>4. CASE Emplace(x)
  <2>1. /\ forced[x][op[x].loc] = None /\ forced' = [forced EXCEPT ![x][op[x].loc] = op[x].fe]
        /\ ret'[x] = Returns(x) /\ heap' = heap
    BY <1>a, <1>4 DEF Emplace
  <2>2. op[x].loc \in Locs /\ op[x].fe \in ForcedException
    BY <1>4 DEF Emplace, Executing, Active, TypeOK, OpsTyped
  <2>3. forced'[x][op[x].loc] = op[x].fe /\ op[x].fe # None
    BY <2>1, <2>2 DEF TypeOK
  <2> QED
    BY <1>b, <2>1, <2>3 DEF Delivers
<1>5. CASE Free(x)
  <2>1. Active(x) /\ Release(op[x].fe.ptr) /\ op[x].phase = "destruct"
    BY <1>5 DEF Free, Executing, Active, OpShape, Shaped
  <2>2. CASE op[x].api # "force"
    <3>1. ret' = [ret EXCEPT ![x] = ret[x]]
      BY <1>5, <2>2 DEF Free
    <3> QED
      BY <1>a, <3>1 DEF Delivers
  <2>3. CASE op[x].api = "force"
    <3>1. ret'[x] = Returns(x) /\ UNCHANGED forced
      BY <1>a, <1>5, <2>3 DEF Free
    <3>2. forced[x][op[x].loc] # None
      BY <2>1, <2>3 DEF DuplicateKept
    <3>3. op[x].loc \in Locs
      BY <2>1 DEF TypeOK, OpsTyped
    <3>4. heap'[forced[x][op[x].loc].ptr] = heap[forced[x][op[x].loc].ptr]
      BY <2>1, <3>2, <3>3, OthersKeepCells
    <3> QED
      BY <1>b, <3>1, <3>2, <3>4 DEF Delivers
  <2> QED
    BY <2>2, <2>3
<1> QED
  BY <1>1, <1>2, <1>3, <1>4, <1>5 DEF Step

\* A ForceException that returns normally leaves its location forced, with the
\* exception asked for or, if it was forced already, with the earlier one.
THEOREM ForceDoesReturnForced == Spec => ForceReturnsForced
<1>1. IInv /\ [Next]_vars => [\A x \in Forcers : Delivers(x)]_vars
  <2> SUFFICES ASSUME IInv, Next, NEW x \in Forcers PROVE Delivers(x)
    OBVIOUS
  <2>1. CASE Client(x) \/ Step(x)
    BY <2>1, DeliversStep DEF IInv
  <2>2. ASSUME NEW y \in Forcers \ {x}, Client(y) \/ Step(y) PROVE Delivers(x)
    <3>1. UNCHANGED ret \/ \E r : ret' = [ret EXCEPT ![y] = r]
      BY <2>2 DEF Client, Construct, Destroy, ForceRejected, ForceException, UnforceException, Step,
         Unprotect, ConstructorThrows, DestructorTerminates, Copy, CopyFaults, Protect, Emplace,
         EmplaceDuplicate, Free
    <3>2. ret'[x] = ret[x]
      BY <3>1 DEF IInv, TypeOK
    <3> QED
      BY <3>2 DEF Delivers
  <2>3. ASSUME NEW t \in Threads, Calls(t) PROVE Delivers(x)
    BY <2>3 DEF Calls, Enter, Fetch, Throw, Leave, Delivers
  <2> QED
    BY <2>1, <2>2, <2>3 DEF Next
<1>2. [\A x \in Forcers : Delivers(x)]_vars =>
        [\A x \in Forcers :
           LET r == ret'[x] IN
           r # ret[x] /\ r # None /\ r.ok =>
             LET before == forced[x][r.loc]
                 after  == forced'[x][r.loc]
             IN  /\ after # None
                 /\ heap'[after.ptr] = IF before = None THEN r.want ELSE heap[before.ptr]]_vars
  BY DEF Delivers
<1> QED
  BY <1>1, <1>2, InvariantHolds, PTL DEF Spec, ForceReturnsForced

-----------------------------------------------------------------------------
(* The steps of the contract that the steps of the engine take.             *)

\* The variables of the contract.
Promising == [x \in Forcers |-> PromisedBy(x)]
Changing  == [x \in Forcers |-> FnChangedBy(x)]
Seen      == [t \in Threads |-> SeenOf(t)]

\* The cells of the entries that stay are not written.
CellsKept == \A y \in Forcers, m \in Locs :
               forced[y][m] # None => heap'[forced[y][m].ptr] = heap[forced[y][m].ptr]

\* What is promised for a location that is forced is an error.
LEMMA PromisedFacts ==
  ASSUME TypeOK, NEW x \in Forcers, NEW l \in Locs
  PROVE  /\ Promising[x][l] = IF forced[x][l] = None THEN None ELSE heap[forced[x][l].ptr]
         /\ forced[x][l] # None => /\ forced[x][l].ptr \in Ptrs
                                   /\ Promising[x][l] \in Errors \cup {"freed"} /\ Promising[x][l] # None
<1>1. Promising[x][l] = IF forced[x][l] = None THEN None ELSE heap[forced[x][l].ptr]
  BY DEF Promising, PromisedBy
<1>2. ASSUME forced[x][l] # None PROVE forced[x][l].ptr \in Ptrs
  <2>1. forced[x][l] \in ForcedException
    BY <1>2 DEF TypeOK
  <2> QED
    BY <2>1 DEF ForcedException
<1> QED
  BY <1>1, <1>2 DEF TypeOK

\* What is promised changes only at the entries that change.
LEMMA PromisedSame ==
  ASSUME CellsKept, UNCHANGED forced
  PROVE  Promising' = Promising
<1>1. \A x \in Forcers : PromisedBy(x)' = PromisedBy(x)
  BY DEF PromisedBy, CellsKept
<1> QED
  BY <1>1 DEF Promising

LEMMA PromisedAt ==
  ASSUME TypeOK, CellsKept, NEW x \in Forcers, NEW l \in Locs, NEW e, NEW v,
         forced'[x][l] = e, \A m \in Locs \ {l} : forced'[x][m] = forced[x][m],
         \A y \in Forcers \ {x} : forced'[y] = forced[y],
         e = None => v = None, e # None => v = heap'[e.ptr]
  PROVE  Promising' = [Promising EXCEPT ![x] = [Promising[x] EXCEPT ![l] = v]]
<1>1. \A y \in Forcers \ {x} : PromisedBy(y)' = PromisedBy(y)
  BY DEF PromisedBy, CellsKept
<1>2. PromisedBy(x)' = [PromisedBy(x) EXCEPT ![l] = v]
  <2>1. \A m \in Locs : PromisedBy(x)'[m] = IF m = l THEN v ELSE PromisedBy(x)[m]
    BY DEF PromisedBy, CellsKept
  <2>2. PromisedBy(x)' = [m \in Locs |-> PromisedBy(x)'[m]]
    BY DEF PromisedBy
  <2>3. PromisedBy(x) = [m \in Locs |-> PromisedBy(x)[m]]
    BY DEF PromisedBy
  <2> HIDE DEF PromisedBy
  <2> QED
    BY <2>1, <2>2, <2>3
<1> QED
  BY <1>1, <1>2 DEF Promising

\* What a step of forcer x to o changes.
LEMMA ChangingAt ==
  ASSUME TypeOK, NEW x \in Forcers, NEW o, op' = [op EXCEPT ![x] = o], NEW v,
         v = IF o.pc \in {"gone", "idle"} THEN None ELSE FnOf[o.loc]
  PROVE  Changing' = [Changing EXCEPT ![x] = v]
<1>1. op'[x] = o /\ \A y \in Forcers \ {x} : op'[y] = op[y]
  BY DEF TypeOK, OpsTyped
<1>2. FnChangedBy(x)' = v /\ \A y \in Forcers \ {x} : FnChangedBy(y)' = FnChangedBy(y)
  BY <1>1 DEF FnChangedBy, Active
<1> QED
  BY <1>2 DEF Changing

LEMMA ChangingBegin ==
  ASSUME TypeOK, NEW x \in Forcers, NEW api, NEW phase, NEW l, NEW fe, Begin(x, api, phase, l, fe)
  PROVE  Changing' = [Changing EXCEPT ![x] = FnOf[l]]
<1> DEFINE o == [pc |-> "unprotect", phase |-> phase, api |-> api,
                 loc |-> l, fe |-> fe, left |-> Words]
<1>1. FnOf[l] = IF o.pc \in {"gone", "idle"} THEN None ELSE FnOf[o.loc]
  OBVIOUS
<1>2. op' = [op EXCEPT ![x] = o]
  BY DEF Begin
<1> HIDE DEF o
<1> QED
  BY <1>1, <1>2, ChangingAt

\* Marking calls is the same for both.
LEMMA SeenDisturbed ==
  ASSUME TypeOK, NEW f \in Fns, Disturb(f)
  PROVE  Contract!Disturb(f)
<1> DEFINE calm(t) == call[t].calm /\ call[t].fn # f
<1>1. \A t \in Threads : call[t].calm \in BOOLEAN
  BY DEF TypeOK, CallsTyped, CallType
<1>2. call' = [t \in Threads |->
        [pc |-> call[t].pc, fn |-> call[t].fn, next |-> call[t].next, code |-> call[t].code,
         due |-> call[t].due, calm |-> calm(t), out |-> call[t].out]]
  BY DEF Disturb
<1>3. \A t \in Threads : (SeenOf(t).calm /\ SeenOf(t).fn # f) = calm(t)
  BY <1>1 DEF SeenOf
<1>4. \A t \in Threads : SeenOf(t).fn = call[t].fn /\ SeenOf(t).out = call[t].out
  BY DEF SeenOf
<1> HIDE DEF calm
<1>5. \A t \in Threads : SeenOf(t)' = [fn |-> call[t].fn, calm |-> calm(t), out |-> call[t].out]
  BY <1>2 DEF SeenOf
<1> QED
  BY <1>3, <1>4, <1>5 DEF Contract!Disturb

-----------------------------------------------------------------------------
\* A forcer that unlinks an entry and begins to destroy it withdraws a promise.
LEMMA Withdraws ==
  ASSUME TypeOK, CellsKept, NEW x \in Forcers, NEW l \in Locs, forced[x][l] # None,
         NEW api, NEW phase, NEW fe, Begin(x, api, phase, l, fe),
         forced' = [forced EXCEPT ![x][l] = None], Disturb(FnOf[l])
  PROVE  Contract!Withdraw(x, l)
<1>1. Promising[x][l] # None
  BY PromisedFacts
<1>2. Changing' = [Changing EXCEPT ![x] = FnOf[l]]
  BY ChangingBegin
<1>3. Promising' = [Promising EXCEPT ![x] = [Promising[x] EXCEPT ![l] = None]]
  <2>1. /\ forced'[x][l] = None /\ \A m \in Locs \ {l} : forced'[x][m] = forced[x][m]
        /\ \A y \in Forcers \ {x} : forced'[y] = forced[y]
    BY DEF TypeOK
  <2> QED
    BY <2>1, PromisedAt
<1>4. Contract!Disturb(FnOf[l])
  BY SeenDisturbed
<1> QED
  BY <1>1, <1>2, <1>3, <1>4 DEF Contract!Withdraw, Contract!Promise, Promising, Changing

\* A forcer that begins a construction begins to change what calls do.
LEMMA Begins ==
  ASSUME TypeOK, CellsKept, NEW x \in Forcers, ~Active(x), NEW l \in Locs,
         NEW api, NEW phase, NEW fe, Begin(x, api, phase, l, fe), UNCHANGED forced, Disturb(FnOf[l])
  PROVE  Contract!Begin(x, l)
<1>1. Changing[x] = None
  BY DEF Changing, FnChangedBy
<1>2. Changing' = [Changing EXCEPT ![x] = FnOf[l]]
  BY ChangingBegin
<1>3. Promising' = Promising
  BY PromisedSame
<1>4. Contract!Disturb(FnOf[l])
  BY SeenDisturbed
<1> QED
  BY <1>1, <1>2, <1>3, <1>4 DEF Contract!Begin, Promising, Changing

\* A forcer that comes to rest ends its change.
LEMMA Ends ==
  ASSUME TypeOK, CellsKept, NEW x \in Forcers, Active(x),
         op' = [op EXCEPT ![x] = Idle] \/ op' = [op EXCEPT ![x] = Gone], UNCHANGED <<forced, call>>
  PROVE  Contract!End(x)
<1>1. Changing[x] # None
  BY DEF Changing, FnChangedBy, TypeOK, OpsTyped
<1>2. Changing' = [Changing EXCEPT ![x] = None]
  <2>1. Idle.pc = "idle" /\ Gone.pc = "gone"
    BY DEF Idle, Gone, AtRest
  <2>2. /\ None = IF Idle.pc \in {"gone", "idle"} THEN None ELSE FnOf[Idle.loc]
        /\ None = IF Gone.pc \in {"gone", "idle"} THEN None ELSE FnOf[Gone.loc]
    BY <2>1
  <2> QED
    BY <2>2, ChangingAt
<1>3. Promising' = Promising
  BY PromisedSame
<1>4. Seen' = Seen
  BY DEF Seen, SeenOf
<1> QED
  BY <1>1, <1>2, <1>3, <1>4 DEF Contract!End, Promising, Changing, Seen

\* A forcer that goes on, or is constructed, changes nothing that is promised.
LEMMA Stutters ==
  ASSUME TypeOK, CellsKept, NEW x \in Forcers, NEW o, op' = [op EXCEPT ![x] = o],
         ~Active(x) => o.pc \in {"gone", "idle"},
         Active(x) => o.pc \notin {"gone", "idle"} /\ o.loc = op[x].loc,
         UNCHANGED <<forced, call>>
  PROVE  UNCHANGED Contract!vars
<1>1. Changing' = Changing
  <2>1. op'[x] = o /\ \A y \in Forcers \ {x} : op'[y] = op[y]
    BY DEF TypeOK, OpsTyped
  <2>2. \A y \in Forcers : FnChangedBy(y)' = FnChangedBy(y)
    BY <2>1 DEF FnChangedBy, Active
  <2> QED
    BY <2>2 DEF Changing
<1>2. Promising' = Promising
  BY PromisedSame
<1>3. Seen' = Seen
  BY DEF Seen, SeenOf
<1> QED
  BY <1>1, <1>2, <1>3 DEF Contract!vars, Promising, Changing, Seen

\* A forcer is at rest, or has come to the next entry to destroy.
LEMMA ContractDestroyNext ==
  ASSUME TypeOK, CellsKept, NEW x \in Forcers, Forced(x) # {}, DestroyNext(x)
  PROVE  \E l \in Locs : Contract!Withdraw(x, l)
<1>1. PICK l \in Locs : /\ forced[x][l] # None
                        /\ Begin(x, "destroy", "destruct", l, forced[x][l])
                        /\ forced' = [forced EXCEPT ![x][l] = None]
                        /\ Disturb(FnOf[l])
  BY DEF DestroyNext, Forced
<1> QED
  BY <1>1, Withdraws

\* Every step of a forcer takes a step of the contract, or none.
LEMMA ContractForcer ==
  ASSUME TypeOK, CellsOwnedOnce, NEW x \in Forcers, Client(x) \/ Step(x)
  PROVE  Contract!Next \/ UNCHANGED Contract!vars
<1>a. /\ \A l \in Locs : Contract!Begin(x, l) \/ Contract!Withdraw(x, l) => Contract!Next
      /\ \A l \in Locs, e \in Errors : Contract!Grant(x, l, e) => Contract!Next
      /\ Contract!End(x) => Contract!Next
  BY DEF Contract!Next
<1>b. Idle.pc = "idle" /\ Gone.pc = "gone"
  BY DEF Idle, Gone, AtRest
<1>c. UNCHANGED <<heap, forced, op, call>> => UNCHANGED Contract!vars
  BY DEF Contract!vars, PromisedBy, FnChangedBy, SeenOf, Active
<1>d. UNCHANGED heap => CellsKept
  BY DEF CellsKept
<1>1. CASE Client(x)
  <2>1. CASE Construct(x)
    <3>1. ~Active(x) /\ op' = [op EXCEPT ![x] = Idle] /\ UNCHANGED <<heap, forced, call>>
      BY <2>1 DEF Construct, Active
    <3> QED
      BY <1>b, <1>d, <3>1, Stutters
  <2>2. CASE Destroy(x)
    <3>1. ~Active(x) /\ DestroyNext(x) /\ UNCHANGED heap
      BY <2>2 DEF Destroy, MayBegin, Active
    <3>2. CASE Forced(x) = {}
      <4>1. op' = [op EXCEPT ![x] = Gone] /\ UNCHANGED <<forced, call>>
        BY <3>1, <3>2 DEF DestroyNext
      <4> QED
        BY <1>b, <1>d, <3>1, <4>1, Stutters
    <3>3. CASE Forced(x) # {}
      BY <1>a, <1>d, <3>1, <3>3, ContractDestroyNext
    <3> QED
      BY <3>2, <3>3
  <2>3. ASSUME NEW a \in Addrs, NEW e \in Errors \cup {NoError}, ForceRejected(x, a, e)
        PROVE  UNCHANGED Contract!vars
    BY <1>c, <2>3 DEF ForceRejected
  <2>4. ASSUME NEW a \in Addrs, NEW e \in Errors \cup {NoError}, ForceException(x, a, e)
        PROVE  Contract!Next
    <3>1. PICK p \in Ptrs :
            /\ Allocate(p, ErrorToThrow(a, e))
            /\ Begin(x, "force", "construct", a, [ptr |-> p, data |-> text[FnOf[a]]])
      BY <2>4 DEF ForceException
    <3>2. ~Active(x) /\ a \in Locs /\ Disturb(FnOf[a]) /\ UNCHANGED forced
      BY <2>4 DEF ForceException, MayBegin, Accepted, Active
    <3>3. CellsKept
      BY <3>1, AllocateKeepsCells DEF CellsKept
    <3> QED
      BY <1>a, <3>1, <3>2, <3>3, Begins
  <2>5. ASSUME NEW l \in Locs, UnforceException(x, l)
        PROVE  Contract!Next
    BY <1>a, <1>d, <2>5, Withdraws DEF UnforceException
  <2> QED
    BY <1>1, <2>1, <2>2, <2>3, <2>4, <2>5 DEF Client
<1>2. CASE Step(x)
  <2>a. Active(x) /\ op[x].loc \in Locs /\ op[x].fe.ptr \in Ptrs
    <3>1. Active(x)
      BY <1>2 DEF Step, Unprotect, ConstructorThrows, DestructorTerminates, Copy, CopyFaults, Protect,
         Emplace, EmplaceDuplicate, Free, Executing, Active
    <3> QED
      BY <3>1 DEF TypeOK, OpsTyped, ForcedException
  <2>b. ASSUME NEW pc \in {"copy", "protect", "emplace", "free"}, NEW left,
               op' = [op EXCEPT ![x] = At(pc, left, op[x])], UNCHANGED <<heap, forced, call>>
        PROVE  UNCHANGED Contract!vars
    <3>1. At(pc, left, op[x]).pc = pc /\ At(pc, left, op[x]).loc = op[x].loc
      BY DEF At
    <3> QED
      BY <1>d, <2>a, <2>b, <3>1, Stutters
  <2>1. CASE Unprotect(x)
    BY <2>1, <2>b DEF Unprotect
  <2>2. CASE ConstructorThrows(x)
    <3>1. CellsKept
      BY <2>2, <2>a, OthersKeepCells DEF ConstructorThrows, CellsKept
    <3> QED
      BY <1>a, <2>2, <2>a, <3>1, Ends DEF ConstructorThrows
  <2>3. CASE DestructorTerminates(x) \/ CopyFaults(x)
    BY <1>c, <2>3 DEF DestructorTerminates, CopyFaults
  <2>4. CASE Copy(x)
    <3>1. \E pc \in {"copy", "protect"} : \E left : op' = [op EXCEPT ![x] = At(pc, left, op[x])]
      BY <2>4 DEF Copy
    <3> QED
      BY <2>4, <2>b, <3>1 DEF Copy
  <2>5. CASE Protect(x)
    <3>1. \E pc \in {"emplace", "free"} : op' = [op EXCEPT ![x] = At(pc, {}, op[x])]
      BY <2>5 DEF Protect
    <3> QED
      BY <2>5, <2>b, <3>1 DEF Protect
  <2>6. CASE Emplace(x)
    <3> DEFINE l == op[x].loc
               e == heap[op[x].fe.ptr]
    <3>1. /\ forced[x][l] = None /\ forced' = [forced EXCEPT ![x][l] = op[x].fe]
          /\ op' = [op EXCEPT ![x] = Idle] /\ UNCHANGED <<heap, call>>
      BY <2>6 DEF Emplace
    <3>2. e \in Errors
      BY <2>a DEF CellsOwnedOnce, LiveCellsOwned, OpOwns, TypeOK
    <3>3. Changing[x] = FnOf[l] /\ Promising[x][l] = None
      BY <2>a, <3>1 DEF Changing, FnChangedBy, Promising, PromisedBy
    <3>4. Changing' = [Changing EXCEPT ![x] = None]
      <4>1. None = IF Idle.pc \in {"gone", "idle"} THEN None ELSE FnOf[Idle.loc]
        BY <1>b
      <4> QED
        BY <3>1, <4>1, ChangingAt
    <3>5. Promising' = [Promising EXCEPT ![x] = [Promising[x] EXCEPT ![l] = e]]
      <4>1. /\ forced'[x][l] = op[x].fe /\ \A m \in Locs \ {l} : forced'[x][m] = forced[x][m]
            /\ \A y \in Forcers \ {x} : forced'[y] = forced[y]
        BY <2>a, <3>1 DEF TypeOK
      <4>2. op[x].fe # None /\ e = heap'[op[x].fe.ptr]
        BY <2>a, <3>1 DEF TypeOK, OpsTyped
      <4> HIDE DEF e, l
      <4>3. l \in Locs /\ CellsKept
        BY <2>a, <1>d, <3>1 DEF l
      <4> QED
        BY <4>1, <4>2, <4>3, PromisedAt
    <3>6. Seen' = Seen
      BY <3>1 DEF Seen, SeenOf
    <3>7. Contract!Grant(x, l, e)
      BY <3>3, <3>4, <3>5, <3>6 DEF Contract!Grant, Contract!Promise, Changing, Promising, Seen
    <3> QED
      BY <1>a, <2>a, <3>2, <3>7
  <2>7. CASE EmplaceDuplicate(x)
    <3> DEFINE o == [pc |-> "unprotect", phase |-> "destruct", api |-> "force",
                     loc |-> op[x].loc, fe |-> op[x].fe, left |-> Words]
    <3>1. o.loc = op[x].loc /\ o.pc = "unprotect"
      OBVIOUS
    <3>2. op' = [op EXCEPT ![x] = o] /\ UNCHANGED <<heap, forced, call>>
      BY <2>7 DEF EmplaceDuplicate, Begin
    <3> HIDE DEF o
    <3> QED
      BY <1>d, <2>a, <3>1, <3>2, Stutters
  <2>8. CASE Free(x)
    <3>1. CellsKept
      BY <2>8, <2>a, OthersKeepCells DEF Free, CellsKept
    <3>2. CASE op[x].api = "destroy" /\ Forced(x) # {}
      BY <1>a, <2>8, <3>1, <3>2, ContractDestroyNext DEF Free
    <3>3. CASE ~(op[x].api = "destroy" /\ Forced(x) # {})
      <4>1. /\ op' = [op EXCEPT ![x] = Idle] \/ op' = [op EXCEPT ![x] = Gone]
            /\ UNCHANGED <<forced, call>>
        BY <2>8, <3>3 DEF Free, DestroyNext
      <4> QED
        BY <1>a, <2>a, <3>1, <4>1, Ends
    <3> QED
      BY <3>2, <3>3
  <2> QED
    BY <1>2, <2>1, <2>2, <2>3, <2>4, <2>5, <2>6, <2>7, <2>8 DEF Step
<1> QED
  BY <1>1, <1>2

\* The contract and the engine promise the same.
LEMMA PromisesSame ==
  ASSUME TypeOK, CellsOwnedOnce, NEW f \in Fns
  PROVE  Contract!Promises(f) = Promised(f)
<1>1. ASSUME NEW x \in Forcers, NEW l \in Locs, forced[x][l] # None
      PROVE  /\ Promising[x][l] = heap[forced[x][l].ptr]
             /\ Promising[x][l] \in Errors /\ Promising[x][l] # None
  <2>1. forced[x][l].ptr \in Ptrs
    BY <1>1, PromisedFacts
  <2>2. heap[forced[x][l].ptr] # "freed"
    BY <1>1, <2>1 DEF CellsOwnedOnce, LiveCellsOwned, EntryOwns
  <2> QED
    BY <1>1, <2>2, PromisedFacts
<1>2. \A x \in Forcers, l \in Locs : forced[x][l] = None => Promising[x][l] = None
  BY PromisedFacts
<1>3. Contract!Promises(f) = {e \in Errors \cup {"ran", "torn", "dangling"} :
        \E x \in Forcers, l \in Locs : FnOf[l] = f /\ Promising[x][l] = e /\ e # None}
  BY DEF Contract!Promises, Promising
<1> QED
  BY <1>1, <1>2, <1>3 DEF Promised

\* A thread that learns what becomes of its call.
LEMMA Finishes ==
  ASSUME TypeOK, TypeOK', CallShape, CellsOwnedOnce, CallsInv, CallsInv', NEW t \in Threads,
         call[t].pc \in {"head", "throw"}, NEW c, call' = [call EXCEPT ![t] = c],
         c.pc = "done", c.fn = call[t].fn, c.due = call[t].due, c.calm = call[t].calm,
         CallShape', UNCHANGED <<heap, forced, op>>
  PROVE  \E r \in Errors \cup {"ran", "torn", "dangling"} : Contract!Finish(t, r)
<1>1. call'[t] = c /\ \A u \in Threads \ {t} : call'[u] = call[u]
  BY DEF TypeOK, CallsTyped
<1>2. c.out \in Errors \cup {"ran", "torn", "dangling"}
  <2>1. c.out \in Errors \cup {"none", "ran", "torn", "dangling"}
    BY <1>1 DEF TypeOK, CallsTyped, CallType
  <2>2. c.out # "none"
    BY <1>1 DEF CallShape
  <2> QED
    BY <2>1, <2>2
<1>3. /\ Seen[t].fn = call[t].fn /\ Seen[t].calm = call[t].calm /\ Seen[t].out = "none"
      /\ call[t].fn \in Fns
  BY DEF Seen, SeenOf, CallShape, TypeOK, CallsTyped
<1>4. Seen' = [Seen EXCEPT ![t] = [fn |-> call[t].fn, calm |-> call[t].calm, out |-> c.out]]
  <2>1. /\ SeenOf(t)' = [fn |-> call[t].fn, calm |-> call[t].calm, out |-> c.out]
        /\ \A u \in Threads \ {t} : SeenOf(u)' = SeenOf(u)
    BY <1>1 DEF SeenOf
  <2> QED
    BY <2>1 DEF Seen
<1>5. call[t].calm => c.out \in Contract!Outcomes(call[t].fn)
  <2> SUFFICES ASSUME call[t].calm PROVE c.out \in Contract!Outcomes(call[t].fn)
    OBVIOUS
  <2>1. c.due = Promised(call[t].fn)
    BY DEF CallsInv, CallProgress
  <2>2. (c.due # {} => c.out \in c.due) /\ (c.due = {} => c.out = "ran")
    <3>1. ForcedCallsThrow' /\ UnforcedCallsRun'
      BY DEF CallsInv
    <3>2. call'[t].pc = "done" /\ call'[t].calm
      BY <1>1
    <3> QED
      BY <1>1, <3>1, <3>2 DEF ForcedCallsThrow, UnforcedCallsRun
  <2>3. Contract!Promises(call[t].fn) = Promised(call[t].fn)
    BY <1>3, PromisesSame
  <2> QED
    BY <2>1, <2>2, <2>3 DEF Contract!Outcomes
<1>6. Promising' = Promising /\ Changing' = Changing
  BY DEF Promising, Changing, PromisedBy, FnChangedBy, Active
<1>7. Contract!Finish(t, c.out)
  BY <1>3, <1>4, <1>5, <1>6, Zenon DEF Contract!Finish, Seen, Promising, Changing
<1> QED
  BY <1>2, <1>7

\* Every step of a thread takes a step of the contract, or none.
LEMMA ContractThread ==
  ASSUME TypeOK, TypeOK', CallShape, CallShape', CellsOwnedOnce, CallsInv, CallsInv',
         NEW t \in Threads, Calls(t)
  PROVE  Contract!Next \/ UNCHANGED Contract!vars
<1>a. /\ \A f \in Fns : Contract!Enter(t, f) => Contract!Next
      /\ \A r \in Errors \cup {"ran", "torn", "dangling"} : Contract!Finish(t, r) => Contract!Next
      /\ Contract!Leave(t) => Contract!Next
  BY DEF Contract!Next
<1>b. \A pc, next, code, out :
        LET c == Fetched(call[t], pc, next, code, out)
        IN  /\ c.pc = pc /\ c.out = out
            /\ c.fn = call[t].fn /\ c.due = call[t].due /\ c.calm = call[t].calm
  BY DEF Fetched
<1>c. UNCHANGED <<heap, forced, op>> => Promising' = Promising /\ Changing' = Changing
  BY DEF Promising, Changing, PromisedBy, FnChangedBy, Active
<1>d. ASSUME NEW c, call' = [call EXCEPT ![t] = c]
      PROVE  Seen' = [Seen EXCEPT ![t] = [fn |-> c.fn, calm |-> c.calm, out |-> c.out]]
  <2>1. call'[t] = c /\ \A u \in Threads \ {t} : call'[u] = call[u]
    BY <1>d DEF TypeOK, CallsTyped
  <2>2. /\ SeenOf(t)' = [fn |-> c.fn, calm |-> c.calm, out |-> c.out]
        /\ \A u \in Threads \ {t} : SeenOf(u)' = SeenOf(u)
    BY <2>1 DEF SeenOf
  <2> QED
    BY <2>2 DEF Seen
<1>1. ASSUME NEW f \in Fns, Enter(t, f)
      PROVE  Contract!Enter(t, f)
  <2> DEFINE calm == \A x \in Forcers : Active(x) => FnOf[op[x].loc] # f
             c == [pc |-> "head", fn |-> f, next |-> 1, code |-> Original, due |-> Promised(f),
                   calm |-> calm, out |-> "none"]
  <2>1. call[t].pc = "outside" /\ call' = [call EXCEPT ![t] = c] /\ UNCHANGED <<heap, forced, op>>
    BY <1>1 DEF Enter
  <2>2. calm = (\A x \in Forcers : Changing[x] # f)
    BY DEF Changing, FnChangedBy
  <2> HIDE DEF calm
  <2>3. c.fn = f /\ c.calm = calm /\ c.out = "none"
    OBVIOUS
  <2> HIDE DEF c
  <2>4. Seen[t].fn = None
    BY <2>1 DEF CallShape, Seen, SeenOf
  <2>5. Seen' = [Seen EXCEPT ![t] = [fn |-> f, calm |-> calm, out |-> "none"]]
    BY <1>d, <2>1, <2>3
  <2> QED
    BY <1>c, <2>1, <2>2, <2>4, <2>5 DEF Contract!Enter, Seen, Promising, Changing
<1>2. CASE Fetch(t)
  <2> DEFINE i    == call[t].next
             code == [call[t].code EXCEPT ![i] = text[call[t].fn][i]]
             c    == IF i < PatchLen THEN Fetched(call[t], "head", i + 1, code, "none")
                     ELSE Reach(call[t], code)
  <2>1. call[t].pc = "head" /\ call' = [call EXCEPT ![t] = c] /\ UNCHANGED <<heap, forced, op>>
    BY <1>2 DEF Fetch
  <2> HIDE DEF i, code
  <2>2. /\ c.fn = call[t].fn /\ c.due = call[t].due /\ c.calm = call[t].calm
        /\ c.pc = "done" \/ c.out = "none"
    BY <1>b DEF Reach
  <2> HIDE DEF c
  <2>3. CASE c.pc = "done"
    BY <1>a, <2>1, <2>2, <2>3, Finishes
  <2>4. CASE c.out = "none"
    <3>1. SeenOf(t) = [fn |-> c.fn, calm |-> c.calm, out |-> c.out]
      BY <2>1, <2>2, <2>4 DEF SeenOf, CallShape
    <3>2. Seen' = Seen
      <4>1. Seen' = [Seen EXCEPT ![t] = SeenOf(t)]
        BY <1>d, <2>1, <3>1
      <4> QED
        BY <4>1 DEF Seen
    <3> QED
      BY <1>c, <2>1, <3>2 DEF Contract!vars, Promising, Changing, Seen
  <2> QED
    BY <2>2, <2>3, <2>4
<1>3. CASE Throw(t)
  <2> DEFINE error == heap[call[t].code[1]]
             out   == IF error = "freed" THEN "dangling" ELSE error
             c     == Fetched(call[t], "done", call[t].next, call[t].code, out)
  <2>1. call[t].pc = "throw" /\ call' = [call EXCEPT ![t] = c] /\ UNCHANGED <<heap, forced, op>>
    BY <1>3 DEF Throw
  <2> HIDE DEF error
  <2>2. c.pc = "done" /\ c.fn = call[t].fn /\ c.due = call[t].due /\ c.calm = call[t].calm
    BY <1>b
  <2> HIDE DEF c
  <2> QED
    BY <1>a, <2>1, <2>2, Finishes
<1>4. CASE Leave(t)
  <2>1. call[t].pc = "done" /\ call' = [call EXCEPT ![t] = Outside] /\ UNCHANGED <<heap, forced, op>>
    BY <1>4 DEF Leave
  <2>2. Seen[t].out # "none"
    BY <2>1 DEF Seen, SeenOf, CallShape
  <2>3. Outside.fn = None /\ Outside.calm = TRUE /\ Outside.out = "none"
    BY DEF Outside
  <2>4. Seen' = [Seen EXCEPT ![t] = [fn |-> None, calm |-> TRUE, out |-> "none"]]
    BY <1>d, <2>1, <2>3
  <2>5. Contract!Leave(t)
    BY <1>c, <2>1, <2>2, <2>4 DEF Contract!Leave, Contract!Outside, Seen, Promising, Changing
  <2> QED
    BY <1>a, <2>5
<1> QED
  BY <1>a, <1>1, <1>2, <1>3, <1>4 DEF Calls

LEMMA ContractInit == Init => Contract!Init
<1> SUFFICES ASSUME Init PROVE Contract!Init
  OBVIOUS
<1>1. \A x \in Forcers : FnChangedBy(x) = None
  BY DEF Init, FnChangedBy, Active, Gone, AtRest
<1>2. \A x \in Forcers : PromisedBy(x) = [l \in Locs |-> None]
  BY DEF Init, PromisedBy
<1>3. \A t \in Threads : SeenOf(t) = [fn |-> None, calm |-> TRUE, out |-> "none"]
  BY DEF Init, SeenOf, Outside
<1> QED
  BY <1>1, <1>2, <1>3 DEF Contract!Init, Contract!Outside

\* A step after which calls are still on course is one of the contract, or none.
LEMMA ContractNext ==
  ASSUME TypeOK, TypeOK', CallShape, CallShape', CellsOwnedOnce, CallsInv, CallsInv',
         [Next]_vars
  PROVE  [Contract!Next]_Contract!vars
<1> SUFFICES Contract!Next \/ UNCHANGED Contract!vars
  OBVIOUS
<1>1. ASSUME NEW x \in Forcers, Client(x) \/ Step(x) PROVE Contract!Next \/ UNCHANGED Contract!vars
  BY <1>1, ContractForcer
<1>2. ASSUME NEW t \in Threads, Calls(t) PROVE Contract!Next \/ UNCHANGED Contract!vars
  BY <1>2, ContractThread
<1>3. CASE UNCHANGED vars
  BY <1>3 DEF vars, Contract!vars, PromisedBy, FnChangedBy, SeenOf, Active
<1> QED
  BY <1>1, <1>2, <1>3 DEF Next

\* If no two forcings a program asks for share a function, constructors,
\* destructors, map operations and their failures, however they overlap, add up
\* to promises that are made, kept and withdrawn one at a time.
THEOREM ContractImplemented ==
  ASSUME Exclusive
  PROVE  Spec => ImplementsContract
<1>1. IInv /\ IInv' /\ [Next]_vars => [Contract!Next]_Contract!vars
  BY ContractNext DEF IInv, EntryInv, CallsInv, Exclusive
<1> QED
  BY <1>1, ContractInit, InvariantHolds, PTL DEF Spec, ImplementsContract, Contract!Spec

\* So do they if forcings share functions, but calls of the API do not overlap
\* and each program undoes first what it forced last.
THEOREM StackedContractImplemented ==
  ASSUME Sequential
  PROVE  LifoSpec => ImplementsContract
<1>1. LifoInv /\ LifoInv' /\ [Next /\ LastForcedFirst]_vars => [Contract!Next]_Contract!vars
  <2>1. [Next /\ LastForcedFirst]_vars => [Next]_vars
    OBVIOUS
  <2> QED
    BY <2>1, ContractNext DEF LifoInv
<1> QED
  BY <1>1, ContractInit, LifoHolds, PTL DEF LifoSpec, ImplementsContract, Contract!Spec

-----------------------------------------------------------------------------
(* What the steps of a forcer do to its map.                                *)

\* A step of x moves no other forcer.
Alone(x) == \A y \in Forcers \ {x} : op'[y] = op[y] /\ forced'[y] = forced[y]

\* It keeps the map of x, ...
Keeps(x) ==
  /\ forced'[x] = forced[x]
  /\ op'[x].pc = "gone" => op[x].pc = "gone" \/ Forced(x) = {}
  /\ Active(x)' => <<x, op'[x].loc>> \in Requests \/ (Active(x) /\ op'[x].loc = op[x].loc)

\* ... or links the object its call has constructed, ...
Links(x) ==
  /\ Active(x) /\ op'[x].pc = "idle"
  /\ Forced(x)' = Forced(x) \cup {op[x].loc}

\* ... or unlinks an entry to destroy it.
Unlinks(x) ==
  \E l \in Forced(x) : /\ Active(x)' /\ op'[x].loc = l
                       /\ Forced(x)' = Forced(x) \ {l}

LEMMA MapMoves ==
  ASSUME TypeOK, NEW x \in Forcers, Client(x) \/ Step(x)
  PROVE  Alone(x) /\ (Keeps(x) \/ Links(x) \/ Unlinks(x))
<1>a. ASSUME NEW o, op' = [op EXCEPT ![x] = o]
      PROVE  op'[x] = o /\ \A y \in Forcers \ {x} : op'[y] = op[y]
  BY <1>a DEF TypeOK, OpsTyped
<1>b. Idle.pc = "idle" /\ Gone.pc = "gone"
  BY DEF Idle, Gone, AtRest
<1>c. ASSUME NEW api, NEW phase, NEW l, NEW fe, Begin(x, api, phase, l, fe)
      PROVE  Active(x)' /\ op'[x].loc = l /\ \A y \in Forcers \ {x} : op'[y] = op[y]
  <2> DEFINE o == [pc |-> "unprotect", phase |-> phase, api |-> api,
                   loc |-> l, fe |-> fe, left |-> Words]
  <2>1. o.pc = "unprotect" /\ o.loc = l
    OBVIOUS
  <2>2. op' = [op EXCEPT ![x] = o]
    BY <1>c DEF Begin
  <2> HIDE DEF o
  <2> QED
    BY <1>a, <2>1, <2>2 DEF Active
<1>d. \A pc, left : At(pc, left, op[x]).loc = op[x].loc /\ At(pc, left, op[x]).pc = pc
  BY DEF At
<1>e. ASSUME NEW l \in Locs, forced[x][l] # None, forced' = [forced EXCEPT ![x][l] = None],
             NEW api, NEW phase, NEW fe, Begin(x, api, phase, l, fe)
      PROVE  Alone(x) /\ Unlinks(x)
  <2>1. /\ \A y \in Forcers \ {x} : forced'[y] = forced[y]
        /\ forced'[x] = [forced[x] EXCEPT ![l] = None]
    BY <1>e DEF TypeOK
  <2>2. Forced(x)' = Forced(x) \ {l} /\ l \in Forced(x)
    BY <1>e, <2>1 DEF Forced, TypeOK
  <2> QED
    BY <1>c, <1>e, <2>1, <2>2 DEF Alone, Unlinks
<1>f. ASSUME DestroyNext(x) PROVE Alone(x) /\ (Keeps(x) \/ Unlinks(x))
  <2>1. CASE Forced(x) = {}
    BY <1>a, <1>b, <1>f, <2>1 DEF DestroyNext, Alone, Keeps, Active
  <2>2. CASE Forced(x) # {}
    <3>1. PICK l \in Locs : /\ forced[x][l] # None /\ forced' = [forced EXCEPT ![x][l] = None]
                            /\ Begin(x, "destroy", "destruct", l, forced[x][l])
      BY <1>f, <2>2 DEF DestroyNext, Forced
    <3> QED
      BY <3>1, <1>e
  <2> QED
    BY <2>1, <2>2
<1>g. ASSUME Active(x), NEW pc, pc \notin {"gone", "idle"}, NEW left,
             op' = [op EXCEPT ![x] = At(pc, left, op[x])], UNCHANGED forced
      PROVE  Alone(x) /\ Keeps(x)
  BY <1>a, <1>d, <1>g DEF Alone, Keeps
<1>1. CASE Construct(x) \/ ConstructorThrows(x)
  BY <1>1, <1>a, <1>b DEF Construct, ConstructorThrows, Alone, Keeps, Active
<1>2. CASE Destroy(x)
  BY <1>2, <1>f DEF Destroy
<1>3. ASSUME NEW a \in Addrs, NEW e \in Errors \cup {NoError}, ForceRejected(x, a, e)
      PROVE  Alone(x) /\ Keeps(x)
  BY <1>3 DEF ForceRejected, Alone, Keeps, Active
<1>4. ASSUME NEW a \in Addrs, NEW e \in Errors \cup {NoError}, ForceException(x, a, e)
      PROVE  Alone(x) /\ Keeps(x)
  <2>1. PICK fe : Begin(x, "force", "construct", a, fe)
    BY <1>4 DEF ForceException
  <2>2. <<x, a>> \in Requests /\ UNCHANGED forced /\ op[x].pc = "idle"
    BY <1>4 DEF ForceException, MayBegin
  <2> QED
    BY <2>1, <2>2, <1>c DEF Alone, Keeps, Active
<1>5. ASSUME NEW l \in Locs, UnforceException(x, l)
      PROVE  Alone(x) /\ Unlinks(x)
  BY <1>5, <1>e DEF UnforceException
<1>6. CASE Unprotect(x)
  BY <1>6, <1>g DEF Unprotect, Executing, Active
<1>7. CASE DestructorTerminates(x) \/ CopyFaults(x)
  BY <1>7 DEF DestructorTerminates, CopyFaults, Alone, Keeps, Active
<1>8. CASE Copy(x)
  <2>1. \E left : \E pc \in {"copy", "protect"} : op' = [op EXCEPT ![x] = At(pc, left, op[x])]
    BY <1>8 DEF Copy
  <2> QED
    BY <1>8, <1>g, <2>1 DEF Copy, Executing, Active
<1>9. CASE Protect(x)
  <2>1. \E pc \in {"emplace", "free"} : op' = [op EXCEPT ![x] = At(pc, {}, op[x])]
    BY <1>9 DEF Protect
  <2> QED
    BY <1>9, <1>g, <2>1 DEF Protect, Executing, Active
<1>10. CASE Emplace(x)
  <2>1. /\ forced' = [forced EXCEPT ![x][op[x].loc] = op[x].fe] /\ op' = [op EXCEPT ![x] = Idle]
        /\ Active(x) /\ op[x].loc \in Locs /\ op[x].fe \in ForcedException
    BY <1>10 DEF Emplace, Executing, Active, TypeOK, OpsTyped
  <2>2. /\ \A y \in Forcers \ {x} : forced'[y] = forced[y]
        /\ forced'[x] = [forced[x] EXCEPT ![op[x].loc] = op[x].fe]
    BY <2>1 DEF TypeOK
  <2>3. Forced(x)' = Forced(x) \cup {op[x].loc}
    BY <2>1, <2>2 DEF Forced, TypeOK
  <2> QED
    BY <1>a, <1>b, <2>1, <2>2, <2>3 DEF Alone, Links
<1>11. CASE EmplaceDuplicate(x)
  <2>1. Begin(x, "force", "destruct", op[x].loc, op[x].fe) /\ Active(x) /\ UNCHANGED forced
    BY <1>11 DEF EmplaceDuplicate, Executing, Active
  <2>2. Active(x)' /\ op'[x].loc = op[x].loc /\ \A y \in Forcers \ {x} : op'[y] = op[y]
    BY <2>1, <1>c
  <2> QED
    BY <2>1, <2>2 DEF Alone, Keeps, Active
<1>12. CASE Free(x)
  <2>1. DestroyNext(x) \/ (op' = [op EXCEPT ![x] = Idle] /\ UNCHANGED forced)
    BY <1>12 DEF Free
  <2> QED
    BY <2>1, <1>a, <1>b, <1>f DEF Alone, Keeps, Active
<1> QED
  BY <1>1, <1>2, <1>3, <1>4, <1>5, <1>6, <1>7, <1>8, <1>9, <1>10, <1>11, <1>12 DEF Client, Step

\* The map of a forcer is finite and holds locations the forcer was asked to force;
\* that of one that is gone is empty.
MapsAsAsked ==
  \A x \in Forcers :
    /\ IsFiniteSet(Forced(x))
    /\ \A l \in Forced(x) : <<x, l>> \in Requests
    /\ Active(x) => <<x, op[x].loc>> \in Requests
    /\ op[x].pc = "gone" => Forced(x) = {}

LEMMA MapsInit == Init => MapsAsAsked
<1> SUFFICES ASSUME Init, NEW x \in Forcers PROVE Forced(x) = {} /\ ~Active(x)
  BY FS_EmptySet DEF MapsAsAsked
<1> QED
  BY DEF Init, Forced, Active, Gone, AtRest

LEMMA MapsNext == TypeOK /\ MapsAsAsked /\ [Next]_vars => MapsAsAsked'
<1> SUFFICES ASSUME TypeOK, MapsAsAsked, [Next]_vars PROVE MapsAsAsked'
  OBVIOUS
<1>1. ASSUME NEW x \in Forcers, Client(x) \/ Step(x) PROVE MapsAsAsked'
  <2> DEFINE OfOne(y) == /\ IsFiniteSet(Forced(y))
                         /\ \A l \in Forced(y) : <<y, l>> \in Requests
                         /\ Active(y) => <<y, op[y].loc>> \in Requests
                         /\ op[y].pc = "gone" => Forced(y) = {}
  <2>a. OfOne(x)
    BY DEF MapsAsAsked
  <2>1. ASSUME NEW y \in Forcers \ {x} PROVE OfOne(y)'
    <3>1. op'[y] = op[y] /\ forced'[y] = forced[y]
      BY <1>1, MapMoves DEF Alone
    <3>2. Forced(y)' = Forced(y)
      BY <3>1 DEF Forced
    <3>3. OfOne(y)
      BY DEF MapsAsAsked
    <3> QED
      BY <3>1, <3>2, <3>3 DEF Active
  <2>2. CASE Keeps(x)
    <3>1. Forced(x)' = Forced(x)
      BY <2>2 DEF Keeps, Forced
    <3> QED
      BY <2>1, <2>2, <2>a, <3>1 DEF Keeps, MapsAsAsked
  <2>3. CASE Links(x)
    <3>1. IsFiniteSet(Forced(x)')
      <4>1. IsFiniteSet(Forced(x) \cup {op[x].loc})
        BY <2>a, FS_AddElement
      <4>2. Forced(x)' = Forced(x) \cup {op[x].loc}
        BY <2>3 DEF Links
      <4> QED
        BY <4>1, <4>2
    <3>2. ~Active(x)' /\ op'[x].pc # "gone" /\ \A l \in Forced(x)' : <<x, l>> \in Requests
      BY <2>3, <2>a DEF Links, Active
    <3>3. OfOne(x)'
      BY <3>1, <3>2
    <3> QED
      BY <2>1, <3>3 DEF MapsAsAsked
  <2>4. CASE Unlinks(x)
    <3>1. PICK l \in Forced(x) : Active(x)' /\ op'[x].loc = l /\ Forced(x)' = Forced(x) \ {l}
      BY <2>4 DEF Unlinks
    <3>2. IsFiniteSet(Forced(x)')
      BY <2>a, <3>1, FS_RemoveElement
    <3>3. OfOne(x)'
      BY <2>a, <3>1, <3>2 DEF Active
    <3> QED
      BY <2>1, <3>3 DEF MapsAsAsked
  <2>5. Keeps(x) \/ Links(x) \/ Unlinks(x)
    BY <1>1, MapMoves
  <2> QED
    BY <2>2, <2>3, <2>4, <2>5
<1>2. ASSUME NEW t \in Threads, Calls(t) PROVE MapsAsAsked'
  BY <1>2 DEF Calls, Enter, Fetch, Throw, Leave, MapsAsAsked, Forced, Active
<1>3. CASE UNCHANGED vars
  BY <1>3 DEF vars, MapsAsAsked, Forced, Active
<1> QED
  BY <1>1, <1>2, <1>3 DEF Next

LEMMA MapsHold == Spec => []MapsAsAsked
BY MapsInit, MapsNext, TypeCorrect, PTL DEF Spec

\* A function whose forcers are gone is not being changed and is in no map.
LEMMA NothingLeft ==
  ASSUME TypeOK, MapsAsAsked, NEW f \in Fns,
         \A r \in Requests : r[2] \in Locs /\ FnOf[r[2]] = f => op[r[1]].pc = "gone"
  PROVE  /\ ~Touched(f)
         /\ \A x \in Forcers, l \in Locs : FnOf[l] = f => forced[x][l] = None
<1>1. ASSUME NEW x \in Forcers, NEW l \in Locs, <<x, l>> \in Requests, FnOf[l] = f
      PROVE  op[x].pc = "gone"
  BY <1>1
<1>2. ASSUME NEW x \in Forcers, Active(x), FnOf[op[x].loc] = f PROVE FALSE
  <2>1. op[x].loc \in Locs /\ <<x, op[x].loc>> \in Requests
    BY <1>2 DEF TypeOK, OpsTyped, MapsAsAsked
  <2> QED
    BY <1>1, <1>2, <2>1 DEF Active
<1>3. ASSUME NEW x \in Forcers, NEW l \in Locs, FnOf[l] = f, forced[x][l] # None PROVE FALSE
  <2>1. l \in Forced(x)
    BY <1>3 DEF Forced
  <2>2. <<x, l>> \in Requests
    BY <2>1 DEF MapsAsAsked
  <2> QED
    BY <1>1, <1>3, <2>1, <2>2 DEF MapsAsAsked
<1> QED
  BY <1>2, <1>3 DEF Touched

\* If no two forcings a program asks for share a function, forcers that are gone
\* leave the functions they were asked to force as they found them.
THEOREM FunctionsLeftAsFound ==
  ASSUME Exclusive
  PROVE  Spec => []LeftAsFound
<1>1. IInv /\ MapsAsAsked => LeftAsFound
  BY NothingLeft DEF IInv, EntryInv, TextMatchesMaps, LeftAsFound
<1> QED
  BY <1>1, InvariantHolds, MapsHold, PTL

\* So they do if forcings share functions, but calls of the API do not overlap
\* and each program undoes first what it forced last.
THEOREM StackedLeftAsFound ==
  ASSUME Sequential
  PROVE  LifoSpec => []LeftAsFound
<1>1. LifoInv /\ MapsAsAsked => LeftAsFound
  <2> SUFFICES ASSUME LifoInv, MapsAsAsked, NEW f \in Fns,
                      \A r \in Requests : r[2] \in Locs /\ FnOf[r[2]] = f => op[r[1]].pc = "gone"
               PROVE  text[f] = Original
    BY DEF LeftAsFound
  <2>1. ~Touched(f) /\ \A x \in Forcers, l \in Locs : FnOf[l] = f => forced[x][l] = None
    BY NothingLeft DEF LifoInv
  <2>2. PICK pos : Shows(forced, pos, Of(f), text[f])
    BY <2>1 DEF LifoInv, StackInv, Stacked
  <2>3. Of(f) = {}
    BY <2>1 DEF Of, Entries
  <2> QED
    BY <2>2, <2>3 DEF Shows
<1>2. [Next /\ LastForcedFirst]_vars => [Next]_vars
  OBVIOUS
<1>3. LifoSpec => []MapsAsAsked
  <2>1. LifoInv /\ MapsAsAsked /\ [Next /\ LastForcedFirst]_vars => MapsAsAsked'
    BY <1>2, MapsNext DEF LifoInv
  <2> QED
    BY <2>1, MapsInit, LifoHolds, PTL DEF LifoSpec
<1> QED
  BY <1>1, <1>3, LifoHolds, PTL

-----------------------------------------------------------------------------
(* How long a call takes.                                                   *)

\* A set of instructions is counted.
LEMMA WordsCounted ==
  ASSUME NEW S \in SUBSET Words
  PROVE  /\ IsFiniteSet(S) /\ Cardinality(S) \in Nat
         /\ Cardinality(Words) = PatchLen
         /\ Cardinality(S) = 0 <=> S = {}
<1>1. IsFiniteSet(Words) /\ Cardinality(Words) = PatchLen
  BY FS_Interval DEF Words
<1>2. IsFiniteSet(S)
  BY <1>1, FS_Subset
<1> QED
  BY <1>1, <1>2, FS_CardinalityType, FS_EmptySet

\* The steps before the end of a call at a given program counter.
LEMMA StepsAt ==
  ASSUME NEW o, NEW n \in Nat
  PROVE  LET later == (IF o.phase = "construct" THEN RewriteSteps ELSE 0)
                      + (IF o.api = "destroy" THEN RewriteSteps * n ELSE 0)
         IN  /\ later \in Nat
             /\ o.pc = "unprotect" => StepsLeft(o, n) = RewriteSteps + later
             /\ o.pc = "copy" /\ Cardinality(o.left) \in Nat => StepsLeft(o, n) = Cardinality(o.left) + 2 + later
             /\ o.pc = "protect" => StepsLeft(o, n) = 2 + later
             /\ o.pc \in {"emplace", "free"} => StepsLeft(o, n) = 1 + later
<1>1. RewriteSteps \in Nat /\ RewriteSteps * n \in Nat
  BY DEF RewriteSteps
<1> QED
  BY <1>1 DEF StepsLeft

\* A step of a forcer in the middle of a call either leaves it where it was, when
\* the process dies, or ends the call or brings its end nearer.
LEMMA GetsOn ==
  ASSUME TypeOK, OpShape, MapsAsAsked, NEW x \in Forcers, Client(x) \/ Step(x), Active(x), Active(x)'
  PROVE  \/ op'[x] = op[x] /\ forced'[x] = forced[x]
         \/ op'[x] # op[x] /\ Remaining(x)' < Remaining(x)
<1> DEFINE n == Cardinality(Forced(x))
           o == op[x]
<1>a. o \in OpType /\ Shaped(o) /\ n \in Nat /\ Step(x)
  BY FS_CardinalityType DEF TypeOK, OpsTyped, OpShape, MapsAsAsked, Active, Client, Construct, Destroy,
     ForceRejected, ForceException, UnforceException, MayBegin
<1>b. \A q : op' = [op EXCEPT ![x] = q] => op'[x] = q
  BY DEF TypeOK, OpsTyped
<1>c. \A pc, left : LET q == At(pc, left, o)
                   IN  q.pc = pc /\ q.left = left /\ q.phase = o.phase /\ q.api = o.api
  BY DEF At
<1>d. UNCHANGED forced => Forced(x)' = Forced(x)
  BY DEF Forced
<1>e. RewriteSteps = PatchLen + 3 /\ PatchLen \in Nat
  BY DEF RewriteSteps
<1>f. Remaining(x) = StepsLeft(o, n) /\ Remaining(x)' = StepsLeft(op'[x], Cardinality(Forced(x)'))
  BY DEF Remaining
\* The call goes on with the same map: what it does later stays the same.
<1>g. ASSUME NEW q, op' = [op EXCEPT ![x] = q], q.pc # o.pc \/ q.left # o.left, UNCHANGED forced,
             StepsLeft(q, n) < StepsLeft(o, n)
      PROVE  op'[x] # op[x] /\ Remaining(x)' < Remaining(x)
  BY <1>b, <1>d, <1>f, <1>g
<1>h. ASSUME NEW pc, NEW left, op' = [op EXCEPT ![x] = At(pc, left, o)],
             pc # o.pc \/ left # o.left, UNCHANGED forced,
             StepsLeft(At(pc, left, o), n) < StepsLeft(o, n)
      PROVE  op'[x] # op[x] /\ Remaining(x)' < Remaining(x)
  <2>1. At(pc, left, o).pc # o.pc \/ At(pc, left, o).left # o.left
    BY <1>c, <1>h
  <2> QED
    BY <1>g, <1>h, <2>1
<1> HIDE DEF n
<1>1. CASE Unprotect(x)
  <2>1. op' = [op EXCEPT ![x] = At("copy", Words, o)] /\ o.pc = "unprotect" /\ UNCHANGED forced
    BY <1>1 DEF Unprotect, Executing
  <2>2. Cardinality(Words) = PatchLen
    BY WordsCounted
  <2>3. StepsLeft(At("copy", Words, o), n) < StepsLeft(o, n)
    BY <1>a, <1>c, <1>e, <2>1, <2>2, StepsAt
  <2> QED
    BY <1>h, <2>1, <2>3
<1>2. CASE Copy(x)
  <2>1. PICK i \in o.left : op' = [op EXCEPT ![x] = IF o.left = {i} THEN At("protect", {}, o)
                                                   ELSE At("copy", o.left \ {i}, o)]
    BY <1>2 DEF Copy
  <2>2. o.pc = "copy" /\ UNCHANGED forced
    BY <1>2 DEF Copy, Executing
  <2>3. o.left \in SUBSET Words /\ o.left \ {i} \in SUBSET Words
    BY <1>a DEF OpType
  <2>4. /\ Cardinality(o.left) \in Nat /\ Cardinality(o.left \ {i}) \in Nat
        /\ Cardinality(o.left \ {i}) = Cardinality(o.left) - 1
        /\ Cardinality(o.left) # 0
    BY <2>3, WordsCounted, FS_RemoveElement
  <2>5. CASE o.left = {i}
    <3>1. StepsLeft(At("protect", {}, o), n) < StepsLeft(o, n)
      BY <1>a, <1>c, <2>2, <2>4, StepsAt
    <3> QED
      BY <1>h, <2>1, <2>2, <2>5, <3>1
  <2>6. CASE o.left # {i}
    <3>1. StepsLeft(At("copy", o.left \ {i}, o), n) < StepsLeft(o, n)
      BY <1>a, <1>c, <2>2, <2>4, StepsAt
    <3>2. o.left \ {i} # o.left
      OBVIOUS
    <3> QED
      BY <1>h, <2>1, <2>2, <2>6, <3>1, <3>2
  <2> QED
    BY <2>5, <2>6
<1>3. CASE Protect(x)
  <2>1. PICK pc \in {"emplace", "free"} : op' = [op EXCEPT ![x] = At(pc, {}, o)]
    BY <1>3 DEF Protect
  <2>2. o.pc = "protect" /\ UNCHANGED forced
    BY <1>3 DEF Protect, Executing
  <2>3. StepsLeft(At(pc, {}, o), n) < StepsLeft(o, n)
    BY <1>a, <1>c, <2>2, StepsAt
  <2> QED
    BY <1>h, <2>1, <2>2, <2>3
<1>4. CASE EmplaceDuplicate(x)
  <2> DEFINE q == [pc |-> "unprotect", phase |-> "destruct", api |-> "force",
                   loc |-> o.loc, fe |-> o.fe, left |-> Words]
  <2>1. op' = [op EXCEPT ![x] = q] /\ o.pc = "emplace" /\ UNCHANGED forced
    BY <1>4 DEF EmplaceDuplicate, Begin, Executing
  <2>2. q.pc = "unprotect" /\ q.phase = "destruct" /\ q.api = "force"
    OBVIOUS
  <2> HIDE DEF q
  <2>3. o.phase = "construct"
    BY <1>a, <2>1 DEF Shaped
  <2>4. StepsLeft(q, n) = RewriteSteps
    BY <2>2, <1>e DEF StepsLeft
  <2>5. StepsLeft(o, n) = 1 + RewriteSteps + (IF o.api = "destroy" THEN RewriteSteps * n ELSE 0)
    BY <2>1, <2>3, <1>e DEF StepsLeft
  <2>6. RewriteSteps * n \in Nat /\ RewriteSteps \in Nat
    BY <1>a, <1>e
  <2>7. StepsLeft(q, n) < StepsLeft(o, n)
    BY <2>4, <2>5, <2>6
  <2> QED
    BY <1>g, <2>1, <2>2, <2>7
<1>5. CASE Free(x)
  <2>1. o.pc = "free" /\ o.phase = "destruct"
    BY <1>5, <1>a DEF Free, Executing, Shaped
  <2>2. o.api = "destroy" /\ DestroyNext(x)
    BY <1>5, <1>b DEF Free, Active, Idle, AtRest
  <2>3. PICK l \in Forced(x) : /\ Begin(x, "destroy", "destruct", l, forced[x][l])
                               /\ forced' = [forced EXCEPT ![x][l] = None]
    BY <2>2, <1>b DEF DestroyNext, Active, Gone, AtRest
  <2>4. Forced(x)' = Forced(x) \ {l}
    BY <2>3 DEF Forced, TypeOK
  <2>5. Cardinality(Forced(x)') = n - 1 /\ n # 0
    BY <2>3, <2>4, FS_RemoveElement, FS_EmptySet DEF MapsAsAsked, n
  <2> DEFINE q == [pc |-> "unprotect", phase |-> "destruct", api |-> "destroy",
                   loc |-> l, fe |-> forced[x][l], left |-> Words]
  <2>6. op'[x] = q
    BY <1>b, <2>3 DEF Begin
  <2>7. q.pc = "unprotect" /\ q.phase = "destruct" /\ q.api = "destroy"
    OBVIOUS
  <2> HIDE DEF q
  <2>8. StepsLeft(q, n - 1) = RewriteSteps + RewriteSteps * (n - 1)
    BY <2>7, <1>a, <1>e, <2>5 DEF StepsLeft
  <2>9. StepsLeft(o, n) = 1 + RewriteSteps * n
    BY <2>1, <2>2, <1>a, <1>e DEF StepsLeft
  <2>10. RewriteSteps + RewriteSteps * (n - 1) < 1 + RewriteSteps * n
    BY <1>a, <1>e
  <2> QED
    BY <1>f, <2>1, <2>5, <2>6, <2>7, <2>8, <2>9, <2>10
<1>6. CASE DestructorTerminates(x) \/ CopyFaults(x)
  BY <1>6 DEF DestructorTerminates, CopyFaults
<1>7. CASE ConstructorThrows(x) \/ Emplace(x)
  <2>1. op'[x] = Idle
    BY <1>7, <1>b DEF ConstructorThrows, Emplace
  <2>2. Idle.pc = "idle"
    BY DEF Idle, AtRest
  <2> QED
    BY <2>1, <2>2 DEF Active
<1> QED
  BY <1>a, <1>1, <1>2, <1>3, <1>4, <1>5, <1>6, <1>7 DEF Step

\* No call of the API goes round in circles, for however many forcers, threads,
\* entries and instructions, and no other forcer or thread puts off its return:
\* all that CallsReturn needs beyond that is that a call keeps being scheduled.
THEOREM CallsDoGetOn == Spec => CallsGetOn
<1>1. TypeOK /\ OpShape /\ MapsAsAsked /\ [Next]_vars =>
        [\A x \in Forcers : Active(x) /\ Active(x)' =>
           IF op'[x] = op[x] THEN Remaining(x)' = Remaining(x) ELSE Remaining(x)' < Remaining(x)]_vars
  <2> SUFFICES ASSUME TypeOK, OpShape, MapsAsAsked, [Next]_vars, NEW x \in Forcers, Active(x), Active(x)'
               PROVE  IF op'[x] = op[x] THEN Remaining(x)' = Remaining(x) ELSE Remaining(x)' < Remaining(x)
    OBVIOUS
  <2>a. op'[x] = op[x] /\ forced'[x] = forced[x] => Remaining(x)' = Remaining(x)
    BY DEF Remaining, Forced
  <2>1. ASSUME NEW y \in Forcers, Client(y) \/ Step(y)
        PROVE  IF op'[x] = op[x] THEN Remaining(x)' = Remaining(x) ELSE Remaining(x)' < Remaining(x)
    <3>1. CASE x = y
      BY <2>1, <2>a, <3>1, GetsOn
    <3>2. CASE x # y
      BY <2>1, <2>a, <3>2, MapMoves DEF Alone
    <3> QED
      BY <3>1, <3>2
  <2>2. ASSUME NEW t \in Threads, Calls(t) PROVE op'[x] = op[x] /\ forced'[x] = forced[x]
    BY <2>2 DEF Calls, Enter, Fetch, Throw, Leave
  <2>3. ASSUME UNCHANGED vars PROVE op'[x] = op[x] /\ forced'[x] = forced[x]
    BY <2>3 DEF vars
  <2> QED
    BY <2>a, <2>1, <2>2, <2>3 DEF Next
<1>2. IInv => TypeOK /\ OpShape
  BY DEF IInv
<1> QED
  BY <1>1, <1>2, InvariantHolds, MapsHold, PTL DEF Spec, CallsGetOn
=============================================================================
