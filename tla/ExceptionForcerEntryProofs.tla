---------------------- MODULE ExceptionForcerEntryProofs ----------------------
(***************************************************************************)
(* Proofs that calls of functions behave as forced, in two kinds of program.*)
(* If no function is forced through two locations or by two forcers, its    *)
(* entry is what the maps of the forcers say, as far as the copies in       *)
(* progress have got, whatever API calls overlap or fail.  If forcings share*)
(* functions, but calls do not overlap and what is forced last is undone    *)
(* first, the forcings of a function are a stack and its entry is the top.  *)
(***************************************************************************)
EXTENDS ExceptionForcerProofs

USE ConstantsAssumption

\* The code that a map entry stands for.
Expected(e) == IF e = None THEN Original ELSE Patch(e.ptr)

\* RewriteProgress of one forcer, whose call is at o and whose map holds e there.
Progresses(x, o, e, code) ==
  /\ <<x, o.loc>> \in Requests
  /\ o.fe.data = Expected(e)
  /\ \A i \in Words : code[i] = IF i \in o.left THEN Replaced(o)[i] ELSE Source(o)[i]

\* Forcer x is in the middle of rewriting for location l.
On(x, l) == Active(x) /\ op[x].loc = l

\* Two requests for one function are one request.
LEMMA OneRequest ==
  ASSUME Exclusive, NEW x \in Forcers, NEW y \in Forcers, NEW l \in Locs, NEW m \in Locs,
         <<x, l>> \in Requests, <<y, m>> \in Requests, FnOf[l] = FnOf[m]
  PROVE  x = y /\ l = m
<1>1. <<x, l>>[2] \in Locs /\ <<y, m>>[2] \in Locs /\ FnOf[<<x, l>>[2]] = FnOf[<<y, m>>[2]]
  OBVIOUS
<1>2. <<x, l>> = <<y, m>>
  BY <1>1 DEF Exclusive
<1> QED
  BY <1>2

\* What the parts of the invariant say of one forcer or one location.
LEMMA EntryFacts ==
  ASSUME TypeOK, Exclusive, EntryInv, NEW x \in Forcers
  PROVE  /\ Active(x) => /\ op[x].loc \in Locs /\ op[x].fe \in ForcedException
                         /\ Progresses(x, op[x], forced[x][op[x].loc], text[FnOf[op[x].loc]])
         /\ \A l \in Locs : forced[x][l] # None =>
              /\ <<x, l>> \in Requests
              /\ forced[x][l] \in ForcedException /\ forced[x][l].data = Original
<1>1. forced[x] \in [Locs -> ForcedException \cup {None}]
  BY DEF TypeOK
<1>2. Active(x) => op[x].loc \in Locs /\ op[x].fe \in ForcedException
  BY DEF TypeOK, OpsTyped
<1>3. Active(x) => Progresses(x, op[x], forced[x][op[x].loc], text[FnOf[op[x].loc]])
  BY DEF EntryInv, RewriteProgress, Progresses, Expected
<1>4. ASSUME NEW l \in Locs, forced[x][l] # None
      PROVE  <<x, l>> \in Requests /\ forced[x][l] \in ForcedException /\ forced[x][l].data = Original
  BY <1>1, <1>4 DEF EntryInv, EntriesSavedOriginal
<1> QED
  BY <1>2, <1>3, <1>4

\* A function is touched through the one request there is for it ...
LEMMA OnlyTouchedOn ==
  ASSUME TypeOK, Exclusive, EntryInv, NEW x \in Forcers, NEW l \in Locs, <<x, l>> \in Requests, ~On(x, l)
  PROVE  ~Touched(FnOf[l])
<1>1. ASSUME NEW y \in Forcers, Active(y), FnOf[op[y].loc] = FnOf[l] PROVE FALSE
  <2>1. op[y].loc \in Locs /\ <<y, op[y].loc>> \in Requests
    BY <1>1, EntryFacts DEF Progresses
  <2>2. y = x /\ op[y].loc = l
    BY <1>1, <2>1, OneRequest
  <2> QED
    BY <1>1, <2>2 DEF On
<1> QED
  BY <1>1 DEF Touched

\* ... and while it is not, its entry is what the map says.
LEMMA TextExpected ==
  ASSUME TypeOK, Exclusive, EntryInv, NEW x \in Forcers, NEW l \in Locs, <<x, l>> \in Requests, ~On(x, l)
  PROVE  text[FnOf[l]] = Expected(forced[x][l])
<1>1. ~Touched(FnOf[l]) /\ FnOf[l] \in Fns
  BY OnlyTouchedOn
<1>2. CASE forced[x][l] # None
  BY <1>1, <1>2 DEF EntryInv, TextMatchesMaps, Expected
<1>3. CASE forced[x][l] = None
  <2>1. \A y \in Forcers, m \in Locs : FnOf[m] = FnOf[l] => forced[y][m] = None
    <3> SUFFICES ASSUME NEW y \in Forcers, NEW m \in Locs, FnOf[m] = FnOf[l], forced[y][m] # None
                 PROVE  FALSE
      OBVIOUS
    <3>1. <<y, m>> \in Requests
      BY EntryFacts
    <3> QED
      BY <3>1, <1>3, OneRequest
  <2> QED
    BY <1>1, <1>3, <2>1 DEF EntryInv, TextMatchesMaps, Expected
<1> QED
  BY <1>2, <1>3

-----------------------------------------------------------------------------
(* What a step of forcer x has to do for the invariant to hold after it.    *)

\* Only the function x was on is written, only its entries at x change, and what
\* other entries promise stays.
Local(x) ==
  /\ \A y \in Forcers \ {x} : op'[y] = op[y] /\ forced'[y] = forced[y]
  /\ \A g \in Fns : text'[g] # text[g] => Active(x) /\ g = FnOf[op[x].loc]
  /\ \A l \in Locs : forced'[x][l] # forced[x][l] => On(x, l) \/ On(x, l)'
  /\ \A y \in Forcers, l \in Locs :
       forced'[y][l] # None /\ forced'[y][l] = forced[y][l] =>
         heap'[forced[y][l].ptr] = heap[forced[y][l].ptr]

\* Calls of a function that x has come to are disturbed.
Announced(x) ==
  /\ UNCHANGED call \/ \E f \in Fns : Disturb(f)
  /\ Active(x)' /\ ~On(x, op'[x].loc) => Disturb(FnOf[op'[x].loc])

\* The maps of x hold requested locations; the rewriting x is on has got as far
\* as it says, and one that x has left is complete.
Consistent(x) ==
  /\ \A l \in Locs : forced'[x][l] # None => <<x, l>> \in Requests /\ forced'[x][l].data = Original
  /\ Active(x)' => Progresses(x, op'[x], forced'[x][op'[x].loc], text'[FnOf[op'[x].loc]])
  /\ Active(x) /\ ~(Active(x)' /\ op'[x].loc = op[x].loc) => text'[FnOf[op[x].loc]] = Expected(forced'[x][op[x].loc])
  /\ Announced(x)

\* Marking calls as disturbed changes nothing else of them.
LEMMA Disturbed ==
  ASSUME UNCHANGED call \/ \E f \in Fns : Disturb(f), NEW t \in Threads
  PROVE  /\ call'[t].pc = call[t].pc /\ call'[t].fn = call[t].fn /\ call'[t].next = call[t].next
         /\ call'[t].code = call[t].code /\ call'[t].due = call[t].due /\ call'[t].out = call[t].out
         /\ call'[t].calm => call[t].calm
         /\ \A f \in Fns : Disturb(f) /\ call'[t].calm => call'[t].fn # f
<1>1. ASSUME NEW f \in Fns, Disturb(f)
      PROVE  /\ call'[t].pc = call[t].pc /\ call'[t].fn = call[t].fn /\ call'[t].next = call[t].next
             /\ call'[t].code = call[t].code /\ call'[t].due = call[t].due /\ call'[t].out = call[t].out
             /\ call'[t].calm => call[t].calm /\ call[t].fn # f
  <2> DEFINE calm == call[t].calm /\ call[t].fn # f
  <2>1. call'[t] = [pc |-> call[t].pc, fn |-> call[t].fn, next |-> call[t].next,
                    code |-> call[t].code, due |-> call[t].due, calm |-> calm, out |-> call[t].out]
    BY <1>1 DEF Disturb
  <2>2. calm => call[t].calm /\ call[t].fn # f
    OBVIOUS
  <2> HIDE DEF calm
  <2> QED
    BY <2>1, <2>2
<1>2. CASE UNCHANGED call
  <2>1. call'[t] = call[t]
    BY <1>2
  <2> QED
    BY <1>1, <2>1
<1>3. CASE \E f \in Fns : Disturb(f)
  BY <1>1, <1>3
<1> QED
  BY <1>2, <1>3

\* What the invariant says of calls.
CallsInv == CallProgress /\ ForcedCallsThrow /\ UnforcedCallsRun

\* A forcer does not mislead calls: those it could are no longer calm.
LEMMA ForcerKeepsCalls ==
  ASSUME TypeOK, TypeOK', CallsInv, NEW x \in Forcers, Local(x), Announced(x)
  PROVE  CallsInv'
<1>a. UNCHANGED call \/ \E f \in Fns : Disturb(f)
  BY DEF Announced
<1>b. \A y \in Forcers \ {x} : Active(y)' = Active(y) /\ op'[y] = op[y] /\ forced'[y] = forced[y]
  BY DEF Local, Active
<1>1. CallProgress'
  <2> SUFFICES ASSUME NEW t \in Threads, call'[t].calm, call'[t].pc \in {"head", "throw"},
                      NEW f, f = call'[t].fn
               PROVE  /\ ~Touched(f)'
                      /\ call'[t].due = Promised(f)'
                      /\ call'[t].pc = "head" =>
                           \A i \in Words : i < call'[t].next => call'[t].code[i] = text'[f][i]
                      /\ call'[t].pc = "throw" => call'[t].code = text'[f] /\ call'[t].code # Original
    BY DEF CallProgress, Original, Touched, Promised, Active
  <2>1. call[t].calm /\ call[t].pc \in {"head", "throw"} /\ f \in Fns /\ f = call[t].fn
    BY <1>a, Disturbed DEF TypeOK, CallsTyped
  <2>2. ~Touched(f)
    BY <2>1 DEF CallsInv, CallProgress
  <2>3. ~Touched(f)'
    <3> SUFFICES ASSUME NEW y \in Forcers, Active(y)', FnOf[op'[y].loc] = f PROVE FALSE
      BY DEF Touched
    <3>1. y = x
      BY <2>2, <1>b DEF Touched
    <3>2. ~On(x, op'[x].loc)
      BY <3>1, <2>2 DEF On, Touched
    <3>3. Disturb(f) /\ f \in Fns
      BY <3>1, <3>2, <2>1 DEF Announced
    <3> QED
      BY <3>3, <1>a, Disturbed
  <2>4. text'[f] = text[f]
    BY <2>1, <2>2 DEF Local, Touched
  <2>5. \A y \in Forcers, l \in Locs : FnOf[l] = f => forced'[y][l] = forced[y][l]
    BY <2>2, <2>3, <1>b DEF Local, On, Touched
  <2>6. Promised(f)' = Promised(f)
    BY <2>5 DEF Promised, Local
  <2>7. /\ call[t].due = Promised(f)
        /\ call[t].pc = "head" => \A i \in Words : i < call[t].next => call[t].code[i] = text[f][i]
        /\ call[t].pc = "throw" => call[t].code = text[f] /\ call[t].code # Original
    BY <2>1 DEF CallsInv, CallProgress
  <2>8. /\ call'[t].pc = call[t].pc /\ call'[t].fn = f /\ call'[t].next = call[t].next
        /\ call'[t].code = call[t].code /\ call'[t].due = call[t].due
    BY <1>a, Disturbed
  <2> QED
    BY <2>3, <2>4, <2>6, <2>7, <2>8
<1>2. ForcedCallsThrow' /\ UnforcedCallsRun'
  BY <1>a, Disturbed DEF CallsInv, ForcedCallsThrow, UnforcedCallsRun
<1> QED
  BY <1>1, <1>2 DEF CallsInv

LEMMA EntryMoves ==
  ASSUME TypeOK, TypeOK', Exclusive, EntryInv, NEW x \in Forcers, Local(x), Consistent(x)
  PROVE  EntryInv'
<1>a. \A y \in Forcers : Active(y) => op[y].loc \in Locs /\ <<y, op[y].loc>> \in Requests
  BY EntryFacts DEF Progresses
<1>b. \A y \in Forcers : Active(y)' => op'[y].loc \in Locs
  BY DEF TypeOK, OpsTyped
<1>c. \A y \in Forcers \ {x} : Active(y)' = Active(y) /\ op'[y] = op[y] /\ forced'[y] = forced[y]
  BY DEF Local, Active
<1>1. EntriesSavedOriginal'
  <2> SUFFICES ASSUME NEW y \in Forcers, NEW l \in Locs, forced'[y][l] # None
               PROVE  <<y, l>> \in Requests /\ forced'[y][l].data = Original
    BY DEF EntriesSavedOriginal
  <2>1. CASE y = x
    BY <2>1 DEF Consistent
  <2>2. CASE y # x
    BY <2>2, <1>c, EntryFacts
  <2> QED
    BY <2>1, <2>2
<1>2. RewriteProgress'
  <2>1. ASSUME NEW y \in Forcers, Active(y)'
        PROVE  Progresses(y, op'[y], forced'[y][op'[y].loc], text'[FnOf[op'[y].loc]])
    <3>1. CASE y = x
      BY <2>1, <3>1 DEF Consistent
    <3>2. CASE y # x
      <4>1. Active(y) /\ op'[y] = op[y] /\ forced'[y] = forced[y]
        BY <2>1, <3>2, <1>c
      <4>2. FnOf[op[y].loc] \in Fns /\ ~(Active(x) /\ FnOf[op[y].loc] = FnOf[op[x].loc])
        BY <3>2, <4>1, <1>a, OneRequest
      <4>3. text'[FnOf[op[y].loc]] = text[FnOf[op[y].loc]]
        BY <4>2 DEF Local
      <4> QED
        BY <4>1, <4>3, EntryFacts
    <3> QED
      BY <3>1, <3>2
  <2> QED
    BY <2>1 DEF RewriteProgress, Progresses, Expected, Replaced, Source, Patch, Original
<1>3. TextMatchesMaps'
  <2> SUFFICES ASSUME NEW f \in Fns, ~Touched(f)'
               PROVE  /\ \A y \in Forcers, l \in Locs :
                           FnOf[l] = f /\ forced'[y][l] # None => text'[f] = Patch(forced'[y][l].ptr)
                      /\ (\A y \in Forcers, l \in Locs : FnOf[l] = f => forced'[y][l] = None)
                           => text'[f] = Original
    BY DEF TextMatchesMaps, Patch, Original
  <2>1. CASE Active(x) /\ f = FnOf[op[x].loc]
    <3>1. text'[f] = Expected(forced'[x][op[x].loc])
      BY <2>1 DEF Consistent, Touched, On
    <3>2. \A y \in Forcers, l \in Locs :
            FnOf[l] = f /\ forced'[y][l] # None => y = x /\ l = op[x].loc
      <4> SUFFICES ASSUME NEW y \in Forcers, NEW l \in Locs, FnOf[l] = f, forced'[y][l] # None
                   PROVE  y = x /\ l = op[x].loc
        OBVIOUS
      <4>1. <<y, l>> \in Requests
        BY <1>1 DEF EntriesSavedOriginal
      <4>2. op[x].loc \in Locs /\ <<x, op[x].loc>> \in Requests
        BY <2>1, <1>a
      <4>3. FnOf[l] = FnOf[op[x].loc]
        BY <2>1
      <4> HIDE <2>1
      <4> QED
        BY <4>1, <4>2, <4>3, OneRequest
    <3>3. op[x].loc \in Locs
      BY <2>1, <1>a
    <3> QED
      BY <2>1, <3>1, <3>2, <3>3 DEF Expected
  <2>2. CASE ~(Active(x) /\ f = FnOf[op[x].loc])
    <3>1. ~Touched(f)
      BY <2>2, <1>c DEF Touched
    <3>2. text'[f] = text[f]
      BY <2>2 DEF Local
    <3>3. \A y \in Forcers, l \in Locs : FnOf[l] = f => forced'[y][l] = forced[y][l]
      BY <2>2, <1>c DEF Local, On, Touched
    <3> QED
      BY <3>1, <3>2, <3>3 DEF EntryInv, TextMatchesMaps
  <2> QED
    BY <2>1, <2>2
<1>4. CallsInv'
  BY ForcerKeepsCalls DEF EntryInv, CallsInv, Consistent
<1> QED
  BY <1>1, <1>2, <1>3, <1>4 DEF EntryInv, CallsInv

-----------------------------------------------------------------------------
(* The steps of the forcers.                                                *)

\* A rewriting has got as far as its call says.
InProgress ==
  \A x \in Forcers : Active(x) =>
    \A i \in Words : text[FnOf[op[x].loc]][i] = IF i \in op[x].left THEN Replaced(op[x])[i] ELSE Source(op[x])[i]

\* An entry of which nothing or all is copied is that code.
LEMMA WholeEntry ==
  ASSUME TypeOK, InProgress, NEW x \in Forcers, Active(x)
  PROVE  /\ op[x].left = Words => text[FnOf[op[x].loc]] = Replaced(op[x])
         /\ op[x].left = {} => text[FnOf[op[x].loc]] = Source(op[x])
<1>1. text[FnOf[op[x].loc]] \in Code /\ Replaced(op[x]) \in Code /\ Source(op[x]) \in Code
  BY CodeFacts DEF TypeOK, OpsTyped, Replaced, Source, ForcedException
<1>2. \A i \in Words : text[FnOf[op[x].loc]][i] = IF i \in op[x].left THEN Replaced(op[x])[i] ELSE Source(op[x])[i]
  BY DEF InProgress
<1> HIDE DEF Replaced, Source
<1> QED
  BY <1>1, <1>2 DEF Code

\* A forcer that begins the destruction of an entry it has unlinked.
LEMMA UnlinksEntry ==
  ASSUME TypeOK, Exclusive, EntryInv, NEW x \in Forcers, NEW l \in Locs, forced[x][l] # None,
         NEW api, Begin(x, api, "destruct", l, forced[x][l]),
         forced' = [forced EXCEPT ![x][l] = None], Disturb(FnOf[l]), UNCHANGED text,
         text[FnOf[l]] = Patch(forced[x][l].ptr),
         Active(x) => text[FnOf[op[x].loc]] = Expected(forced[x][op[x].loc]),
         \A y \in Forcers, m \in Locs :
           forced[y][m] # None => heap'[forced[y][m].ptr] = heap[forced[y][m].ptr]
  PROVE  Local(x) /\ Consistent(x)
<1> DEFINE o == [pc |-> "unprotect", phase |-> "destruct", api |-> api,
                 loc |-> l, fe |-> forced[x][l], left |-> Words]
<1>1. o.loc = l /\ o.fe = forced[x][l] /\ o.left = Words /\ o.phase = "destruct" /\ o.pc = "unprotect"
  OBVIOUS
<1>2. op' = [op EXCEPT ![x] = o]
  BY DEF Begin
<1> HIDE DEF o
<1>3. op'[x] = o /\ \A y \in Forcers \ {x} : op'[y] = op[y]
  BY <1>2 DEF TypeOK, OpsTyped
<1>4. Active(x)' /\ op'[x].loc = l
  BY <1>1, <1>3 DEF Active
<1>5. /\ forced'[x][l] = None
      /\ \A m \in Locs \ {l} : forced'[x][m] = forced[x][m]
      /\ \A y \in Forcers \ {x} : forced'[y] = forced[y]
  BY DEF TypeOK
<1>6. Local(x)
  BY <1>3, <1>4, <1>5 DEF Local, On
<1>7. \A m \in Locs : forced'[x][m] # None => <<x, m>> \in Requests /\ forced'[x][m].data = Original
  BY <1>5, EntryFacts
<1>8. Progresses(x, op'[x], forced'[x][l], text'[FnOf[l]])
  <2>1. Replaced(o) = Patch(forced[x][l].ptr)
    BY <1>1 DEF Replaced
  <2>2. <<x, l>> \in Requests /\ forced[x][l].data = Original
    BY EntryFacts
  <2> QED
    BY <1>1, <1>3, <1>5, <2>1, <2>2 DEF Progresses, Expected
<1>9. Active(x) /\ op[x].loc # l => text'[FnOf[op[x].loc]] = Expected(forced'[x][op[x].loc])
  BY <1>5, EntryFacts DEF Expected
<1>10. FnOf[l] \in Fns
  OBVIOUS
<1> QED
  BY <1>4, <1>6, <1>7, <1>8, <1>9, <1>10 DEF Consistent, Announced

\* A forcer that goes on with the call it is in.
LEMMA GoesOn ==
  ASSUME TypeOK, Exclusive, EntryInv, NEW x \in Forcers, Active(x), Active(x)', op'[x].loc = op[x].loc,
         \A y \in Forcers \ {x} : op'[y] = op[y],
         \A g \in Fns : text'[g] # text[g] => g = FnOf[op[x].loc],
         Progresses(x, op'[x], forced[x][op[x].loc], text'[FnOf[op[x].loc]]),
         UNCHANGED <<heap, forced, call>>
  PROVE  Local(x) /\ Consistent(x)
<1>1. Local(x)
  BY DEF Local
<1>2. \A m \in Locs : forced[x][m] # None => <<x, m>> \in Requests /\ forced[x][m].data = Original
  BY EntryFacts
<1> QED
  BY <1>1, <1>2 DEF Consistent, On, Announced

\* A forcer that comes to rest and leaves an entry that is what its map says.
LEMMA ComesToRest ==
  ASSUME TypeOK, Exclusive, EntryInv, NEW x \in Forcers, ~Active(x)',
         \A y \in Forcers \ {x} : op'[y] = op[y],
         \A y \in Forcers \ {x} : forced'[y] = forced[y],
         \A m \in Locs : forced'[x][m] # forced[x][m] => On(x, m),
         \A m \in Locs : forced'[x][m] # None => <<x, m>> \in Requests /\ forced'[x][m].data = Original,
         Active(x) => text[FnOf[op[x].loc]] = Expected(forced'[x][op[x].loc]),
         \A y \in Forcers, m \in Locs :
           forced[y][m] # None => heap'[forced[y][m].ptr] = heap[forced[y][m].ptr],
         UNCHANGED <<text, call>>
  PROVE  Local(x) /\ Consistent(x)
<1>1. Local(x)
  BY DEF Local
<1> QED
  BY <1>1 DEF Consistent, Announced

\* A new cell is none of those that entries own.
LEMMA AllocateKeepsCells ==
  ASSUME TypeOK, CellsOwnedOnce, NEW p \in Ptrs, NEW e, Allocate(p, e)
  PROVE  \A y \in Forcers, m \in Locs :
           forced[y][m] # None => heap'[forced[y][m].ptr] = heap[forced[y][m].ptr]
<1> SUFFICES ASSUME NEW y \in Forcers, NEW m \in Locs, forced[y][m] # None
             PROVE  heap'[forced[y][m].ptr] = heap[forced[y][m].ptr]
  OBVIOUS
<1> DEFINE q == forced[y][m].ptr
<1>1. q \in Ptrs
  <2>1. forced[y] \in [Locs -> ForcedException \cup {None}]
    BY DEF TypeOK
  <2> QED
    BY <2>1 DEF ForcedException
<1>2. heap[q] # "freed"
  BY <1>1 DEF CellsOwnedOnce, LiveCellsOwned, EntryOwns
<1>3. heap[p] = "freed"
  BY DEF Allocate
<1> QED
  BY <1>1, <1>2, <1>3 DEF Allocate, TypeOK

\* The destruction of the next entry of a forcer's map, by ~ExceptionForcer ...
LEMMA EntryDestroyNext ==
  ASSUME TypeOK, Exclusive, EntryInv, NEW x \in Forcers, Forced(x) # {}, DestroyNext(x), UNCHANGED text,
         Active(x) => text[FnOf[op[x].loc]] = Expected(forced[x][op[x].loc]),
         \A y \in Forcers, m \in Locs :
           forced[y][m] # None => heap'[forced[y][m].ptr] = heap[forced[y][m].ptr]
  PROVE  Local(x) /\ Consistent(x)
<1>1. PICK l \in Locs : /\ forced[x][l] # None
                        /\ Begin(x, "destroy", "destruct", l, forced[x][l])
                        /\ forced' = [forced EXCEPT ![x][l] = None]
                        /\ Disturb(FnOf[l])
  BY DEF DestroyNext, Forced
<1>2. text[FnOf[l]] = Expected(forced[x][l])
  <2>1. CASE On(x, l)
    BY <2>1 DEF On
  <2>2. CASE ~On(x, l)
    BY <1>1, <2>2, EntryFacts, TextExpected
  <2> QED
    BY <2>1, <2>2
<1>3. text[FnOf[l]] = Patch(forced[x][l].ptr)
  BY <1>1, <1>2 DEF Expected
<1> QED
  BY <1>1, <1>3, UnlinksEntry

\* ... and the steps that begin an API call keep entries as promised.
LEMMA EntryClient ==
  ASSUME TypeOK, TypeOK', CellsOwnedOnce, Exclusive, EntryInv, NEW x \in Forcers, Client(x)
  PROVE  EntryInv'
<1>a. Idle.pc = "idle" /\ Gone.pc = "gone"
  BY DEF Idle, Gone, AtRest
<1>b. \A m \in Locs : forced[x][m] # None => <<x, m>> \in Requests /\ forced[x][m].data = Original
  BY EntryFacts
<1>c. ASSUME NEW o, op' = [op EXCEPT ![x] = o]
      PROVE  op'[x] = o /\ \A y \in Forcers \ {x} : op'[y] = op[y]
  BY <1>c DEF TypeOK, OpsTyped
<1>1. CASE Construct(x)
  <2>1. ~Active(x) /\ ~Active(x)' /\ \A y \in Forcers \ {x} : op'[y] = op[y]
    BY <1>1, <1>a, <1>c DEF Construct, Active
  <2>2. UNCHANGED <<text, heap, forced, call>>
    BY <1>1 DEF Construct
  <2> QED
    BY <1>b, <2>1, <2>2, ComesToRest, EntryMoves
<1>2. CASE Destroy(x)
  <2>1. ~Active(x) /\ DestroyNext(x) /\ UNCHANGED <<text, heap>>
    BY <1>2 DEF Destroy, MayBegin, Active
  <2>2. CASE Forced(x) = {}
    <3>1. UNCHANGED <<forced, call>> /\ op' = [op EXCEPT ![x] = Gone]
      BY <2>1, <2>2 DEF DestroyNext
    <3>2. ~Active(x)' /\ \A y \in Forcers \ {x} : op'[y] = op[y]
      BY <3>1, <1>a, <1>c DEF Active
    <3> QED
      BY <1>b, <2>1, <3>1, <3>2, ComesToRest, EntryMoves
  <2>3. CASE Forced(x) # {}
    BY <2>1, <2>3, EntryDestroyNext, EntryMoves
  <2> QED
    BY <2>2, <2>3
<1>3. ASSUME NEW a \in Addrs, NEW e \in Errors \cup {NoError}, ForceRejected(x, a, e)
      PROVE  EntryInv'
  <2>1. ~Active(x) /\ UNCHANGED <<text, heap, forced, op, call>>
    BY <1>3 DEF ForceRejected, MayBegin, Active
  <2>2. ~Active(x)'
    BY <2>1 DEF Active
  <2> QED
    BY <1>b, <2>1, <2>2, ComesToRest, EntryMoves
<1>4. ASSUME NEW a \in Addrs, NEW e \in Errors \cup {NoError}, ForceException(x, a, e)
      PROVE  EntryInv'
  <2>1. PICK p \in Ptrs :
          /\ Allocate(p, ErrorToThrow(a, e))
          /\ Begin(x, "force", "construct", a, [ptr |-> p, data |-> text[FnOf[a]]])
    BY <1>4 DEF ForceException
  <2>2. /\ ~Active(x) /\ <<x, a>> \in Requests /\ a \in Locs
        /\ Disturb(FnOf[a]) /\ UNCHANGED <<text, forced>>
    BY <1>4 DEF ForceException, MayBegin, Accepted, Active
  <2> DEFINE o == [pc |-> "unprotect", phase |-> "construct", api |-> "force",
                   loc |-> a, fe |-> [ptr |-> p, data |-> text[FnOf[a]]], left |-> Words]
  <2>3. /\ o.loc = a /\ o.fe.data = text[FnOf[a]] /\ o.left = Words
        /\ o.phase = "construct" /\ o.pc = "unprotect"
    OBVIOUS
  <2>4. op' = [op EXCEPT ![x] = o]
    BY <2>1 DEF Begin
  <2> HIDE DEF o
  <2>5. op'[x] = o /\ \A y \in Forcers \ {x} : op'[y] = op[y]
    BY <2>4, <1>c
  <2>6. Active(x)' /\ op'[x].loc = a
    BY <2>3, <2>5 DEF Active
  <2>7. text[FnOf[a]] = Expected(forced[x][a])
    BY <2>2, TextExpected DEF On
  <2>8. Progresses(x, op'[x], forced'[x][a], text'[FnOf[a]])
    BY <2>2, <2>3, <2>5, <2>7 DEF Progresses, Replaced
  <2>9. \A y \in Forcers, m \in Locs :
          forced[y][m] # None => heap'[forced[y][m].ptr] = heap[forced[y][m].ptr]
    BY <2>1, AllocateKeepsCells
  <2>10. Local(x)
    BY <2>2, <2>5, <2>9 DEF Local
  <2>11. Consistent(x)
    BY <1>b, <2>2, <2>6, <2>8 DEF Consistent, Announced
  <2> QED
    BY <2>10, <2>11, EntryMoves
<1>5. ASSUME NEW l \in Locs, UnforceException(x, l)
      PROVE  EntryInv'
  <2>1. /\ ~Active(x) /\ forced[x][l] # None
        /\ Begin(x, "unforce", "destruct", l, forced[x][l])
        /\ forced' = [forced EXCEPT ![x][l] = None]
        /\ Disturb(FnOf[l]) /\ UNCHANGED <<text, heap>>
    BY <1>5 DEF UnforceException, MayBegin, Active
  <2>2. text[FnOf[l]] = Patch(forced[x][l].ptr)
    BY <2>1, EntryFacts, TextExpected DEF On, Expected
  <2> QED
    BY <2>1, <2>2, UnlinksEntry, EntryMoves
<1> QED
  BY <1>1, <1>2, <1>3, <1>4, <1>5 DEF Client

\* Releasing the cell of the object of a call leaves the cells of entries alone.
LEMMA OthersKeepCells ==
  ASSUME TypeOK, CellsOwnedOnce, NEW x \in Forcers, Active(x), Release(op[x].fe.ptr)
  PROVE  \A y \in Forcers, m \in Locs :
           forced[y][m] # None => heap'[forced[y][m].ptr] = heap[forced[y][m].ptr]
<1> SUFFICES ASSUME NEW y \in Forcers, NEW m \in Locs, forced[y][m] # None
             PROVE  heap'[forced[y][m].ptr] = heap[forced[y][m].ptr]
  OBVIOUS
<1> DEFINE q == forced[y][m].ptr
<1>1. q \in Ptrs
  <2>1. forced[y] \in [Locs -> ForcedException \cup {None}]
    BY DEF TypeOK
  <2> QED
    BY <2>1 DEF ForcedException
<1>2. q # op[x].fe.ptr
  BY <1>1 DEF CellsOwnedOnce, OwnersDistinct, OpOwns, EntryOwns
<1> QED
  BY <1>1, <1>2 DEF Release, TypeOK

\* The steps of a constructor or destructor keep entries as promised.
LEMMA EntryStep ==
  ASSUME TypeOK, TypeOK', OpShape, CellsOwnedOnce, Exclusive, EntryInv, NEW x \in Forcers, Step(x)
  PROVE  EntryInv'
<1>a. Idle.pc = "idle" /\ Gone.pc = "gone"
  BY DEF Idle, Gone, AtRest
<1>b. \A m \in Locs : forced[x][m] # None => <<x, m>> \in Requests /\ forced[x][m].data = Original
  BY EntryFacts
<1>c. ASSUME NEW o, op' = [op EXCEPT ![x] = o]
      PROVE  op'[x] = o /\ \A y \in Forcers \ {x} : op'[y] = op[y]
  BY <1>c DEF TypeOK, OpsTyped
<1>d. Active(x) /\ op[x].loc \in Locs /\ FnOf[op[x].loc] \in Fns
  <2>1. Active(x)
    BY DEF Step, Unprotect, ConstructorThrows, DestructorTerminates, Copy, CopyFaults, Protect,
       Emplace, EmplaceDuplicate, Free, Executing, Active
  <2> QED
    BY <2>1, EntryFacts
<1>e. Progresses(x, op[x], forced[x][op[x].loc], text[FnOf[op[x].loc]])
  BY <1>d, EntryFacts
<1>f. Shaped(op[x])
  BY DEF OpShape
<1>g. \A pc, left : /\ At(pc, left, op[x]).pc = pc /\ At(pc, left, op[x]).left = left
                    /\ At(pc, left, op[x]).loc = op[x].loc /\ At(pc, left, op[x]).fe = op[x].fe
                    /\ At(pc, left, op[x]).phase = op[x].phase
  BY DEF At
\* A step to another program counter that writes no code ...
<1>h. ASSUME NEW pc \in {"copy", "protect", "emplace", "free"},
             op' = [op EXCEPT ![x] = At(pc, op[x].left, @)], UNCHANGED <<text, heap, forced, call>>
      PROVE  EntryInv'
  <2>1. op'[x] = At(pc, op[x].left, op[x]) /\ \A y \in Forcers \ {x} : op'[y] = op[y]
    BY <1>h, <1>c
  <2>2. Active(x)' /\ op'[x].loc = op[x].loc
    BY <2>1, <1>g DEF Active
  <2>3. Progresses(x, op'[x], forced[x][op[x].loc], text[FnOf[op[x].loc]])
    BY <2>1, <1>e, <1>g DEF Progresses, Replaced, Source
  <2> QED
    BY <1>d, <1>h, <2>1, <2>2, <2>3, GoesOn, EntryMoves
\* ... and one that only ends the process.
<1>i. ASSUME UNCHANGED <<text, heap, forced, op, call>>
      PROVE  EntryInv'
  <2>1. Active(x)' /\ op'[x].loc = op[x].loc
    BY <1>d, <1>i DEF Active
  <2> QED
    BY <1>d, <1>e, <1>i, <2>1, GoesOn, EntryMoves
<1>j. InProgress
  BY DEF EntryInv, RewriteProgress, InProgress
<1>1. CASE Unprotect(x)
  <2>1. op[x].left = Words
    BY <1>1, <1>f DEF Unprotect, Executing, Shaped
  <2> QED
    BY <1>1, <1>h, <2>1 DEF Unprotect
<1>2. CASE ConstructorThrows(x)
  <2>1. op' = [op EXCEPT ![x] = Idle] /\ Release(op[x].fe.ptr) /\ UNCHANGED <<text, forced, call>>
    BY <1>2 DEF ConstructorThrows
  <2>2. ~Active(x)' /\ \A y \in Forcers \ {x} : op'[y] = op[y]
    BY <2>1, <1>a, <1>c DEF Active
  <2>3. op[x].left = Words /\ op[x].phase = "construct"
    BY <1>2, <1>f DEF ConstructorThrows, Executing, Shaped
  <2>4. text[FnOf[op[x].loc]] = Expected(forced[x][op[x].loc])
    BY <1>d, <1>e, <2>3, <1>j, WholeEntry DEF Progresses, Replaced
  <2> QED
    BY <1>b, <1>d, <2>1, <2>2, <2>4, OthersKeepCells, ComesToRest, EntryMoves
<1>3. CASE DestructorTerminates(x) \/ CopyFaults(x)
  BY <1>3, <1>i DEF DestructorTerminates, CopyFaults
<1>4. CASE Copy(x)
  <2>1. PICK i \in op[x].left :
          /\ text' = [text EXCEPT ![FnOf[op[x].loc]][i] = Source(op[x])[i]]
          /\ op' = [op EXCEPT ![x] = IF @.left = {i} THEN At("protect", {}, @)
                                     ELSE At("copy", @.left \ {i}, @)]
    BY <1>4 DEF Copy
  <2>2. UNCHANGED <<heap, forced, call>> /\ i \in Words
    <3>1. op[x].left \in SUBSET Words
      BY DEF TypeOK, OpsTyped, OpType
    <3> QED
      BY <1>4, <3>1 DEF Copy
  <2>3. PICK pc \in {"copy", "protect"} : op' = [op EXCEPT ![x] = At(pc, op[x].left \ {i}, op[x])]
    <3>1. CASE op[x].left = {i}
      <4>1. op[x].left \ {i} = {}
        BY <3>1
      <4> QED
        BY <2>1, <3>1, <4>1
    <3>2. CASE op[x].left # {i}
      BY <2>1, <3>2
    <3> QED
      BY <3>1, <3>2
  <2>4. op'[x] = At(pc, op[x].left \ {i}, op[x]) /\ \A y \in Forcers \ {x} : op'[y] = op[y]
    BY <2>3, <1>c
  <2>5. Active(x)' /\ op'[x].loc = op[x].loc
    BY <2>4, <1>g DEF Active
  <2>6. /\ \A g \in Fns \ {FnOf[op[x].loc]} : text'[g] = text[g]
        /\ text'[FnOf[op[x].loc]] = [text[FnOf[op[x].loc]] EXCEPT ![i] = Source(op[x])[i]]
    BY <2>1, <1>d DEF TypeOK
  <2>7. /\ text'[FnOf[op[x].loc]][i] = Source(op[x])[i]
        /\ \A j \in Words \ {i} : text'[FnOf[op[x].loc]][j] = text[FnOf[op[x].loc]][j]
    <3>1. text[FnOf[op[x].loc]] \in Code
      BY <1>d DEF TypeOK
    <3> QED
      BY <2>2, <2>6, <3>1 DEF Code
  <2>8. Replaced(op'[x]) = Replaced(op[x]) /\ Source(op'[x]) = Source(op[x])
    BY <2>4, <1>g DEF Replaced, Source
  <2>9. op'[x].left = op[x].left \ {i} /\ op'[x].fe = op[x].fe
    BY <2>4, <1>g
  <2>10. Progresses(x, op'[x], forced[x][op[x].loc], text'[FnOf[op[x].loc]])
    BY <1>e, <2>1, <2>5, <2>7, <2>8, <2>9 DEF Progresses
  <2> QED
    BY <1>d, <2>2, <2>4, <2>5, <2>6, <2>10, GoesOn, EntryMoves
<1>5. CASE Protect(x)
  <2>1. op[x].left = {}
    BY <1>5, <1>f DEF Protect, Executing, Shaped
  <2>2. CASE op[x].phase = "construct"
    BY <1>5, <1>h, <2>1, <2>2 DEF Protect
  <2>3. CASE op[x].phase # "construct"
    BY <1>5, <1>h, <2>1, <2>3 DEF Protect
  <2> QED
    BY <2>2, <2>3
<1>6. CASE Emplace(x)
  <2>1. /\ forced[x][op[x].loc] = None
        /\ forced' = [forced EXCEPT ![x][op[x].loc] = op[x].fe]
        /\ op' = [op EXCEPT ![x] = Idle]
        /\ UNCHANGED <<text, heap, call>>
    BY <1>6 DEF Emplace
  <2>2. ~Active(x)' /\ \A y \in Forcers \ {x} : op'[y] = op[y]
    BY <2>1, <1>a, <1>c DEF Active
  <2>3. op[x].left = {} /\ op[x].phase = "construct"
    BY <1>6, <1>f DEF Emplace, Executing, Shaped
  <2>4. /\ forced'[x][op[x].loc] = op[x].fe
        /\ \A m \in Locs \ {op[x].loc} : forced'[x][m] = forced[x][m]
        /\ \A y \in Forcers \ {x} : forced'[y] = forced[y]
    BY <2>1, <1>d DEF TypeOK
  <2>5. text[FnOf[op[x].loc]] = Patch(op[x].fe.ptr)
    BY <1>d, <2>3, <1>j, WholeEntry DEF Source
  <2>6. op[x].fe # None /\ op[x].fe.data = Original /\ <<x, op[x].loc>> \in Requests
    BY <1>d, <1>e, <2>1, EntryFacts DEF Progresses, Expected
  <2>7. text[FnOf[op[x].loc]] = Expected(forced'[x][op[x].loc])
    BY <2>4, <2>5, <2>6 DEF Expected
  <2>8. \A m \in Locs : forced'[x][m] # None => <<x, m>> \in Requests /\ forced'[x][m].data = Original
    BY <1>b, <2>4, <2>6
  <2>9. \A m \in Locs : forced'[x][m] # forced[x][m] => On(x, m)
    BY <1>d, <2>4 DEF On
  <2> QED
    BY <1>d, <2>1, <2>2, <2>4, <2>7, <2>8, <2>9, ComesToRest, EntryMoves
<1>7. CASE EmplaceDuplicate(x)
  <2> DEFINE o == [pc |-> "unprotect", phase |-> "destruct", api |-> "force",
                   loc |-> op[x].loc, fe |-> op[x].fe, left |-> Words]
  <2>1. /\ o.loc = op[x].loc /\ o.fe = op[x].fe /\ o.left = Words
        /\ o.phase = "destruct" /\ o.pc = "unprotect"
    OBVIOUS
  <2>2. op' = [op EXCEPT ![x] = o] /\ UNCHANGED <<text, heap, forced, call>>
    BY <1>7 DEF EmplaceDuplicate, Begin
  <2> HIDE DEF o
  <2>3. op'[x] = o /\ \A y \in Forcers \ {x} : op'[y] = op[y]
    BY <2>2, <1>c
  <2>4. Active(x)' /\ op'[x].loc = op[x].loc
    BY <2>1, <2>3 DEF Active
  <2>5. op[x].left = {} /\ op[x].phase = "construct"
    BY <1>7, <1>f DEF EmplaceDuplicate, Executing, Shaped
  <2>6. text[FnOf[op[x].loc]] = Patch(op[x].fe.ptr)
    BY <1>d, <2>5, <1>j, WholeEntry DEF Source
  <2>7. Progresses(x, op'[x], forced[x][op[x].loc], text[FnOf[op[x].loc]])
    <3>1. Replaced(o) = Patch(op[x].fe.ptr)
      BY <2>1 DEF Replaced
    <3> QED
      BY <1>e, <2>1, <2>3, <2>6, <3>1 DEF Progresses
  <2> QED
    BY <1>d, <2>2, <2>3, <2>4, <2>7, GoesOn, EntryMoves
<1>8. CASE Free(x)
  <2>1. Release(op[x].fe.ptr) /\ UNCHANGED text
    BY <1>8 DEF Free
  <2>2. op[x].left = {} /\ op[x].phase = "destruct"
    BY <1>8, <1>f DEF Free, Executing, Shaped
  <2>3. text[FnOf[op[x].loc]] = Expected(forced[x][op[x].loc])
    BY <1>d, <1>e, <2>2, <1>j, WholeEntry DEF Source, Progresses
  <2>4. CASE op[x].api = "destroy" /\ Forced(x) # {}
    <3>1. DestroyNext(x)
      BY <1>8, <2>4 DEF Free
    <3> QED
      BY <1>d, <2>1, <2>3, <2>4, <3>1, OthersKeepCells, EntryDestroyNext, EntryMoves
  <2>5. CASE ~(op[x].api = "destroy" /\ Forced(x) # {})
    <3>1. /\ op' = [op EXCEPT ![x] = Idle] \/ op' = [op EXCEPT ![x] = Gone]
          /\ UNCHANGED <<forced, call>>
      BY <1>8, <2>5 DEF Free, DestroyNext
    <3>2. ~Active(x)' /\ \A y \in Forcers \ {x} : op'[y] = op[y]
      BY <3>1, <1>a, <1>c DEF Active
    <3> QED
      BY <1>b, <1>d, <2>1, <2>3, <3>1, <3>2, OthersKeepCells, ComesToRest, EntryMoves
  <2> QED
    BY <2>4, <2>5
<1> QED
  BY <1>1, <1>2, <1>3, <1>4, <1>5, <1>6, <1>7, <1>8 DEF Step

-----------------------------------------------------------------------------
(* The steps of the threads.                                                *)

\* Where a calm call c that has fetched up to next may be.
OnCourse(c) ==
  /\ c.pc \in {"head", "throw"} => ~Touched(c.fn) /\ c.due = Promised(c.fn)
  /\ c.pc = "head" => \A i \in Words : i < c.next => c.code[i] = text[c.fn][i]
  /\ c.pc = "throw" => c.code = text[c.fn] /\ c.code # Original
  /\ c.pc = "done" => (c.due # {} => c.out \in c.due) /\ (c.due = {} => c.out = "ran")

\* A step of a thread that keeps its call on course keeps those of all.
LEMMA CallMoves ==
  ASSUME TypeOK, CallsInv, NEW t \in Threads, NEW c, call' = [call EXCEPT ![t] = c],
         UNCHANGED <<text, heap, forced, op>>, c.calm => OnCourse(c)
  PROVE  CallsInv'
<1>1. call'[t] = c /\ \A u \in Threads \ {t} : call'[u] = call[u]
  BY DEF TypeOK, CallsTyped
<1>2. \A f : Touched(f)' = Touched(f) /\ Promised(f)' = Promised(f)
  BY DEF Touched, Promised, Active
<1>3. ASSUME NEW u \in Threads, call'[u].calm, call'[u].pc \in {"head", "throw"}, NEW f, f = call'[u].fn
      PROVE  /\ ~Touched(f)
             /\ call'[u].due = Promised(f)
             /\ call'[u].pc = "head" =>
                  \A i \in Words : i < call'[u].next => call'[u].code[i] = text[f][i]
             /\ call'[u].pc = "throw" => call'[u].code = text[f] /\ call'[u].code # Original
  <2>1. CASE u = t
    BY <1>1, <1>3, <2>1 DEF OnCourse
  <2>2. CASE u # t
    BY <1>1, <1>3, <2>2 DEF CallsInv, CallProgress
  <2> QED
    BY <2>1, <2>2
<1>4. CallProgress'
  <2> SUFFICES ASSUME NEW u \in Threads, call'[u].calm, call'[u].pc \in {"head", "throw"},
                      NEW f, f = call'[u].fn
               PROVE  /\ ~Touched(f)'
                      /\ call'[u].due = Promised(f)'
                      /\ call'[u].pc = "head" =>
                           \A i \in Words : i < call'[u].next => call'[u].code[i] = text'[f][i]
                      /\ call'[u].pc = "throw" => call'[u].code = text'[f] /\ call'[u].code # Original
    BY DEF CallProgress, Original, Touched, Promised, Active
  <2> QED
    BY <1>2, <1>3
<1>5. ForcedCallsThrow' /\ UnforcedCallsRun'
  <2> SUFFICES ASSUME NEW u \in Threads, call'[u].pc = "done", call'[u].calm
               PROVE  /\ call'[u].due # {} => call'[u].out \in call'[u].due
                      /\ call'[u].due = {} => call'[u].out = "ran"
    BY DEF ForcedCallsThrow, UnforcedCallsRun
  <2>1. CASE u = t
    BY <1>1, <2>1 DEF OnCourse
  <2>2. CASE u # t
    BY <1>1, <2>2 DEF CallsInv, ForcedCallsThrow, UnforcedCallsRun
  <2> QED
    BY <2>1, <2>2
<1> QED
  BY <1>4, <1>5 DEF CallsInv

\* The entry of a function is patched, for a live cell, iff it is forced.
OwnOrForced(f) ==
  \/ text[f] = Original /\ Promised(f) = {}
  \/ \E p \in Ptrs : text[f] = Patch(p) /\ heap[p] \in Promised(f) /\ heap[p] # "freed"

LEMMA EntryOrPatch ==
  ASSUME TypeOK, CellsOwnedOnce, Exclusive, EntryInv, NEW f \in Fns, ~Touched(f)
  PROVE  OwnOrForced(f)
<1>1. CASE \A x \in Forcers, l \in Locs : FnOf[l] = f => forced[x][l] = None
  BY <1>1 DEF EntryInv, TextMatchesMaps, Promised, OwnOrForced
<1>2. ASSUME NEW x \in Forcers, NEW l \in Locs, FnOf[l] = f, forced[x][l] # None
      PROVE  \E p \in Ptrs : text[f] = Patch(p) /\ heap[p] \in Promised(f) /\ heap[p] # "freed"
  <2> DEFINE p == forced[x][l].ptr
  <2>1. p \in Ptrs
    BY <1>2, EntryFacts DEF ForcedException
  <2>2. text[f] = Patch(p)
    BY <1>2 DEF EntryInv, TextMatchesMaps
  <2>3. heap[p] # "freed"
    BY <1>2, <2>1 DEF CellsOwnedOnce, LiveCellsOwned, EntryOwns
  <2>4. heap[p] \in Promised(f)
    BY <1>2, <2>1 DEF Promised, TypeOK
  <2> QED
    BY <2>1, <2>2, <2>3, <2>4
<1> QED
  BY <1>1, <1>2 DEF OwnOrForced

\* The steps of the threads keep calls on course.
LEMMA CallsKept ==
  ASSUME TypeOK, CallsInv, \A f \in Fns : ~Touched(f) => OwnOrForced(f), NEW t \in Threads, Calls(t)
  PROVE  CallsInv'
<1>a. call[t] \in CallType
  BY DEF TypeOK, CallsTyped
<1>b. \A pc, next, code, out :
        LET c == Fetched(call[t], pc, next, code, out)
        IN  /\ c.pc = pc /\ c.next = next /\ c.code = code /\ c.out = out
            /\ c.fn = call[t].fn /\ c.due = call[t].due /\ c.calm = call[t].calm
  BY DEF Fetched
<1>c. call[t].calm /\ call[t].pc \in {"head", "throw"} =>
        call[t].fn \in Fns /\ ~Touched(call[t].fn) /\ call[t].due = Promised(call[t].fn)
  BY DEF CallsInv, CallProgress, TypeOK, CallsTyped
<1>1. ASSUME NEW f \in Fns, Enter(t, f)
      PROVE  CallsInv'
  <2> DEFINE calm == \A x \in Forcers : Active(x) => FnOf[op[x].loc] # f
             c == [pc |-> "head", fn |-> f, next |-> 1, code |-> Original, due |-> Promised(f),
                   calm |-> calm, out |-> "none"]
  <2>1. call' = [call EXCEPT ![t] = c] /\ UNCHANGED <<text, heap, forced, op>>
    BY <1>1 DEF Enter
  <2>2. calm => ~Touched(f)
    BY DEF Touched
  <2> HIDE DEF calm
  <2>3. c.calm => calm
    OBVIOUS
  <2>4. c.pc = "head" /\ c.fn = f /\ c.next = 1 /\ c.due = Promised(f)
    OBVIOUS
  <2> HIDE DEF c
  <2>5. \A i \in Words : ~(i < 1)
    BY DEF Words
  <2>6. c.calm => OnCourse(c)
    BY <2>2, <2>3, <2>4, <2>5 DEF OnCourse
  <2> QED
    BY <2>1, <2>6, CallMoves
<1>2. CASE Fetch(t)
  <2> DEFINE i    == call[t].next
             code == [call[t].code EXCEPT ![i] = text[call[t].fn][i]]
             c    == IF i < PatchLen THEN Fetched(call[t], "head", i + 1, code, "none")
                     ELSE Reach(call[t], code)
  <2>1. call' = [call EXCEPT ![t] = c] /\ UNCHANGED <<text, heap, forced, op>>
    BY <1>2 DEF Fetch
  <2>2. call[t].pc = "head" /\ i \in Words /\ call[t].code \in Code /\ call[t].fn \in Fns
    BY <1>a, <1>2 DEF Fetch, CallType, TypeOK, CallsTyped
  <2>3. text[call[t].fn] \in Code
    BY <2>2 DEF TypeOK
  <2>4. code \in Code /\ code[i] = text[call[t].fn][i] /\ \A j \in Words \ {i} : code[j] = call[t].code[j]
    BY <2>2, <2>3 DEF Code
  <2>5. ASSUME call[t].calm
        PROVE  \A j \in Words : j < i + 1 => code[j] = text[call[t].fn][j]
    <3>1. \A j \in Words : j < i => call[t].code[j] = text[call[t].fn][j]
      BY <2>2, <2>5 DEF CallsInv, CallProgress
    <3>2. \A j \in Words : j < i + 1 => j < i \/ j = i
      BY <2>2 DEF Words
    <3> HIDE DEF code
    <3> QED
      BY <2>4, <3>1, <3>2
  <2> HIDE DEF i, code
  <2>6. CASE i < PatchLen
    <3>1. c = Fetched(call[t], "head", i + 1, code, "none")
      BY <2>6
    <3>2. c.pc = "head" /\ c.next = i + 1 /\ c.code = code
          /\ c.fn = call[t].fn /\ c.due = call[t].due /\ c.calm = call[t].calm
      BY <3>1, <1>b
    <3> HIDE DEF c
    <3>3. c.calm => OnCourse(c)
      BY <1>c, <2>2, <2>5, <3>2 DEF OnCourse
    <3> QED
      BY <2>1, <3>3, CallMoves
  <2>7. CASE ~(i < PatchLen)
    <3>1. c = Reach(call[t], code)
      BY <2>7
    <3> HIDE DEF c
    <3>2. c.calm = call[t].calm /\ c.fn = call[t].fn /\ c.due = call[t].due
      BY <3>1, <1>b DEF Reach
    <3>3. ASSUME call[t].calm PROVE OnCourse(c)
      <4>1. \A j \in Words : j < i + 1
        BY <2>2, <2>7 DEF Words
      <4>2. code = text[call[t].fn]
        BY <2>3, <2>4, <2>5, <3>3, <4>1 DEF Code
      <4>3. CASE code = Original /\ Promised(call[t].fn) = {}
        <5>1. c = Fetched(call[t], "done", i, code, "ran")
          BY <3>1, <4>3 DEF Reach, i
        <5>2. c.pc = "done" /\ c.out = "ran"
          BY <5>1, <1>b
        <5> QED
          BY <1>c, <2>2, <3>2, <3>3, <4>3, <5>2 DEF OnCourse
      <4>4. CASE \E p \in Ptrs : code = Patch(p)
        <5>1. code # Original
          BY <4>4, CodeFacts
        <5>2. c = Fetched(call[t], "throw", i, code, "none")
          BY <3>1, <4>4, <5>1 DEF Reach, i
        <5>3. c.pc = "throw" /\ c.code = code
          BY <5>2, <1>b
        <5> QED
          BY <1>c, <2>2, <3>2, <3>3, <4>2, <5>1, <5>3 DEF OnCourse
      <4> QED
        BY <1>c, <2>2, <3>3, <4>2, <4>3, <4>4 DEF OwnOrForced
    <3> QED
      BY <2>1, <3>2, <3>3, CallMoves
  <2> QED
    BY <2>6, <2>7
<1>3. CASE Throw(t)
  <2> DEFINE error == heap[call[t].code[1]]
             out   == IF error = "freed" THEN "dangling" ELSE error
             c     == Fetched(call[t], "done", call[t].next, call[t].code, out)
  <2>1. call[t].pc = "throw" /\ call' = [call EXCEPT ![t] = c] /\ UNCHANGED <<text, heap, forced, op>>
    BY <1>3 DEF Throw
  <2>2. ASSUME call[t].calm PROVE error # "freed" /\ error \in Promised(call[t].fn)
    <3>1. call[t].code = text[call[t].fn] /\ call[t].code # Original
      BY <2>1, <2>2 DEF CallsInv, CallProgress
    <3>2. PICK p \in Ptrs : /\ text[call[t].fn] = Patch(p)
                            /\ heap[p] \in Promised(call[t].fn) /\ heap[p] # "freed"
      BY <1>c, <2>1, <2>2, <3>1 DEF OwnOrForced
    <3> QED
      BY <3>1, <3>2, CodeFacts
  <2> HIDE DEF error
  <2>3. c.pc = "done" /\ c.out = out /\ c.fn = call[t].fn /\ c.due = call[t].due /\ c.calm = call[t].calm
    BY <1>b
  <2> HIDE DEF c
  <2>4. c.calm => OnCourse(c)
    BY <1>c, <2>1, <2>2, <2>3 DEF OnCourse
  <2> QED
    BY <2>1, <2>4, CallMoves
<1>4. CASE Leave(t)
  <2>1. call' = [call EXCEPT ![t] = Outside] /\ UNCHANGED <<text, heap, forced, op>>
    BY <1>4 DEF Leave
  <2>2. OnCourse(Outside)
    BY DEF Outside, OnCourse
  <2> QED
    BY <2>1, <2>2, CallMoves
<1> QED
  BY <1>1, <1>2, <1>3, <1>4 DEF Calls

LEMMA EntryCalls ==
  ASSUME TypeOK, CellsOwnedOnce, Exclusive, EntryInv, NEW t \in Threads, Calls(t)
  PROVE  EntryInv'
<1>1. UNCHANGED <<text, heap, forced, op>>
  BY DEF Calls, Enter, Fetch, Throw, Leave
<1>2. EntriesSavedOriginal' /\ RewriteProgress' /\ TextMatchesMaps'
  BY <1>1 DEF EntryInv, EntriesSavedOriginal, RewriteProgress, TextMatchesMaps, Touched, Active,
     Replaced, Source
<1>3. CallsInv'
  BY EntryOrPatch, CallsKept DEF EntryInv, CallsInv
<1> QED
  BY <1>2, <1>3 DEF EntryInv, CallsInv

-----------------------------------------------------------------------------
\* The invariant is inductive.
LEMMA EntryNext == TypeOK /\ TypeOK' /\ OpShape /\ CellsOwnedOnce /\ Exclusive /\ EntryInv /\ [Next]_vars
                     => EntryInv'
<1> SUFFICES ASSUME TypeOK, TypeOK', OpShape, CellsOwnedOnce, Exclusive, EntryInv, [Next]_vars
             PROVE  EntryInv'
  OBVIOUS
<1>1. CASE UNCHANGED vars
  BY <1>1 DEF vars, EntryInv, EntriesSavedOriginal, RewriteProgress, TextMatchesMaps, CallProgress,
     ForcedCallsThrow, UnforcedCallsRun, Touched, Promised, Active, Replaced, Source
<1>2. CASE Next
  BY <1>2, EntryClient, EntryStep, EntryCalls DEF Next
<1> QED
  BY <1>1, <1>2

LEMMA EntryInit == Init => EntryInv
<1> SUFFICES ASSUME Init PROVE EntryInv
  OBVIOUS
<1>1. \A x \in Forcers : ~Active(x)
  BY DEF Init, Active, Gone, AtRest
<1>2. \A t \in Threads : call[t].pc = "outside"
  BY DEF Init, Outside
<1> QED
  BY <1>1, <1>2 DEF Init, EntryInv, EntriesSavedOriginal, RewriteProgress, TextMatchesMaps,
     CallProgress, ForcedCallsThrow, UnforcedCallsRun

\* The local state of threads keeps its shape ...
LEMMA CallShapeNext == CallShape /\ TypeOK /\ [Next]_vars => CallShape'
<1> SUFFICES ASSUME CallShape, TypeOK, [Next]_vars PROVE CallShape'
  OBVIOUS
<1>a. ASSUME NEW t \in Threads, NEW c, call' = [call EXCEPT ![t] = c],
             c.pc = "outside" => c.fn = None, c.out = "none" <=> c.pc # "done"
      PROVE  CallShape'
  <2>1. call'[t] = c /\ \A u \in Threads \ {t} : call'[u] = call[u]
    BY <1>a DEF TypeOK, CallsTyped
  <2> QED
    BY <1>a, <2>1 DEF CallShape
<1>b. \A c, pc, next, code, out :
        /\ Fetched(c, pc, next, code, out).pc = pc
        /\ Fetched(c, pc, next, code, out).out = out
  BY DEF Fetched
<1>1. ASSUME NEW x \in Forcers, Client(x) \/ Step(x) PROVE CallShape'
  <2>1. UNCHANGED call \/ \E f \in Fns : Disturb(f)
    <3>1. DestroyNext(x) => UNCHANGED call \/ \E f \in Fns : Disturb(f)
      BY DEF DestroyNext, Forced
    <3> QED
      BY <1>1, <3>1 DEF Client, Construct, Destroy, ForceRejected, ForceException, Accepted,
         UnforceException, Step, Unprotect, ConstructorThrows, DestructorTerminates, Copy, CopyFaults,
         Protect, Emplace, EmplaceDuplicate, Free
  <2> QED
    BY <2>1, Disturbed DEF CallShape
<1>2. ASSUME NEW t \in Threads, Calls(t) PROVE CallShape'
  <2>1. ASSUME NEW f \in Fns, Enter(t, f) PROVE CallShape'
    <3> DEFINE calm == \A x \in Forcers : Active(x) => FnOf[op[x].loc] # f
               c == [pc |-> "head", fn |-> f, next |-> 1, code |-> Original, due |-> Promised(f),
                     calm |-> calm, out |-> "none"]
    <3>1. call' = [call EXCEPT ![t] = c]
      BY <2>1 DEF Enter
    <3> HIDE DEF calm
    <3>2. c.pc = "head" /\ c.out = "none"
      OBVIOUS
    <3> HIDE DEF c
    <3> QED
      BY <1>a, <3>1, <3>2
  <2>2. CASE Fetch(t)
    <3> DEFINE i    == call[t].next
               code == [call[t].code EXCEPT ![i] = text[call[t].fn][i]]
               c    == IF i < PatchLen THEN Fetched(call[t], "head", i + 1, code, "none")
                       ELSE Reach(call[t], code)
    <3>1. call' = [call EXCEPT ![t] = c]
      BY <2>2 DEF Fetch
    <3> HIDE DEF i, code
    <3>2. c.pc # "outside" /\ (c.out = "none" <=> c.pc # "done")
      BY <1>b DEF Reach
    <3> HIDE DEF c
    <3> QED
      BY <1>a, <3>1, <3>2
  <2>3. CASE Throw(t)
    <3> DEFINE error == heap[call[t].code[1]]
               out   == IF error = "freed" THEN "dangling" ELSE error
               c     == Fetched(call[t], "done", call[t].next, call[t].code, out)
    <3>1. call' = [call EXCEPT ![t] = c]
      BY <2>3 DEF Throw
    <3>2. error # "none"
      BY <2>3 DEF Throw, TypeOK, CallsTyped
    <3> HIDE DEF error
    <3>3. c.pc = "done" /\ c.out # "none"
      BY <1>b, <3>2
    <3> HIDE DEF c
    <3> QED
      BY <1>a, <3>1, <3>3
  <2>4. CASE Leave(t)
    BY <1>a, <2>4 DEF Leave, Outside
  <2> QED
    BY <1>2, <2>1, <2>2, <2>3, <2>4 DEF Calls
<1>3. CASE UNCHANGED vars
  BY <1>3 DEF vars, CallShape
<1> QED
  BY <1>1, <1>2, <1>3 DEF Next

\* ... and the entry that made an emplace fail stays until the call returns.
LEMMA DuplicateNext == DuplicateKept /\ TypeOK /\ [Next]_vars => DuplicateKept'
<1> SUFFICES ASSUME DuplicateKept, TypeOK, [Next]_vars PROVE DuplicateKept'
  OBVIOUS
<1>a. \A pc, left, o : /\ At(pc, left, o).loc = o.loc /\ At(pc, left, o).api = o.api
                       /\ At(pc, left, o).phase = o.phase
  BY DEF At
<1>b. Idle.pc = "idle" /\ Gone.pc = "gone"
  BY DEF Idle, Gone, AtRest
<1>1. ASSUME NEW x \in Forcers, NEW o, op' = [op EXCEPT ![x] = o],
             \A y \in Forcers \ {x} : forced'[y] = forced[y],
             o.pc \notin {"gone", "idle"} /\ o.api = "force" /\ o.phase = "destruct"
               => forced'[x][o.loc] # None
      PROVE  DuplicateKept'
  <2>1. op'[x] = o /\ \A y \in Forcers \ {x} : op'[y] = op[y]
    BY <1>1 DEF TypeOK, OpsTyped
  <2> QED
    BY <1>1, <2>1 DEF DuplicateKept, Active
<1>c. ASSUME NEW x \in Forcers, NEW api, NEW phase, NEW l, NEW fe, Begin(x, api, phase, l, fe),
             \A y \in Forcers \ {x} : forced'[y] = forced[y],
             api = "force" /\ phase = "destruct" => forced'[x][l] # None
      PROVE  DuplicateKept'
  <2> DEFINE o == [pc |-> "unprotect", phase |-> phase, api |-> api,
                   loc |-> l, fe |-> fe, left |-> Words]
  <2>1. o.api = api /\ o.phase = phase /\ o.loc = l
    OBVIOUS
  <2>2. op' = [op EXCEPT ![x] = o]
    BY <1>c DEF Begin
  <2> HIDE DEF o
  <2> QED
    BY <1>1, <1>c, <2>1, <2>2
<1>d. ASSUME NEW x \in Forcers, DestroyNext(x) PROVE DuplicateKept'
  <2>1. CASE Forced(x) = {}
    BY <1>1, <1>b, <1>d, <2>1 DEF DestroyNext
  <2>2. CASE Forced(x) # {}
    <3>1. PICK l \in Locs : /\ Begin(x, "destroy", "destruct", l, forced[x][l])
                            /\ forced' = [forced EXCEPT ![x][l] = None]
      BY <1>d, <2>2 DEF DestroyNext, Forced
    <3>2. \A y \in Forcers \ {x} : forced'[y] = forced[y]
      BY <3>1 DEF TypeOK
    <3> QED
      BY <1>c, <3>1, <3>2
  <2> QED
    BY <2>1, <2>2
<1>e. ASSUME NEW x \in Forcers, Active(x), NEW pc, NEW left,
             op' = [op EXCEPT ![x] = At(pc, left, op[x])], UNCHANGED forced
      PROVE  DuplicateKept'
  <2> DEFINE o == At(pc, left, op[x])
  <2>1. o.loc = op[x].loc /\ o.api = op[x].api /\ o.phase = op[x].phase
    BY <1>a
  <2>2. op' = [op EXCEPT ![x] = o]
    BY <1>e
  <2> HIDE DEF o
  <2>3. o.api = "force" /\ o.phase = "destruct" => forced'[x][o.loc] # None
    BY <1>e, <2>1 DEF DuplicateKept
  <2>4. \A y \in Forcers \ {x} : forced'[y] = forced[y]
    BY <1>e
  <2> QED
    BY <1>1, <2>2, <2>3, <2>4
<1>f. ASSUME NEW x \in Forcers, op' = [op EXCEPT ![x] = Idle], \A y \in Forcers \ {x} : forced'[y] = forced[y]
      PROVE  DuplicateKept'
  BY <1>1, <1>b, <1>f
<1>2. ASSUME NEW x \in Forcers, Client(x) PROVE DuplicateKept'
  <2>1. CASE Construct(x)
    BY <1>f, <2>1 DEF Construct
  <2>2. CASE Destroy(x)
    BY <1>d, <2>2 DEF Destroy
  <2>3. ASSUME NEW a \in Addrs, NEW e \in Errors \cup {NoError}, ForceRejected(x, a, e)
        PROVE  DuplicateKept'
    BY <2>3 DEF ForceRejected, DuplicateKept, Active
  <2>4. ASSUME NEW a \in Addrs, NEW e \in Errors \cup {NoError}, ForceException(x, a, e)
        PROVE  DuplicateKept'
    BY <1>c, <2>4 DEF ForceException
  <2>5. ASSUME NEW l \in Locs, UnforceException(x, l) PROVE DuplicateKept'
    <3>1. \A y \in Forcers \ {x} : forced'[y] = forced[y]
      BY <2>5 DEF UnforceException, TypeOK
    <3> QED
      BY <1>c, <2>5, <3>1 DEF UnforceException
  <2> QED
    BY <1>2, <2>1, <2>2, <2>3, <2>4, <2>5 DEF Client
<1>3. ASSUME NEW x \in Forcers, Step(x) PROVE DuplicateKept'
  <2>1. CASE Unprotect(x) \/ Protect(x)
    BY <1>e, <2>1 DEF Unprotect, Protect, Executing, Active
  <2>2. CASE ConstructorThrows(x)
    BY <1>f, <2>2 DEF ConstructorThrows
  <2>3. CASE DestructorTerminates(x) \/ CopyFaults(x)
    BY <2>3 DEF DestructorTerminates, CopyFaults, DuplicateKept, Active
  <2>4. CASE Copy(x)
    <3>1. \E pc, left : op' = [op EXCEPT ![x] = At(pc, left, op[x])]
      BY <2>4 DEF Copy
    <3> QED
      BY <1>e, <2>4, <3>1 DEF Copy, Executing, Active
  <2>5. CASE Emplace(x)
    <3>1. \A y \in Forcers \ {x} : forced'[y] = forced[y]
      BY <2>5 DEF Emplace, TypeOK
    <3> QED
      BY <1>f, <2>5, <3>1 DEF Emplace
  <2>6. CASE EmplaceDuplicate(x)
    BY <1>c, <2>6 DEF EmplaceDuplicate
  <2>7. CASE Free(x)
    BY <1>d, <1>f, <2>7 DEF Free
  <2> QED
    BY <1>3, <2>1, <2>2, <2>3, <2>4, <2>5, <2>6, <2>7 DEF Step
<1>4. ASSUME NEW t \in Threads, Calls(t) PROVE DuplicateKept'
  BY <1>4 DEF Calls, Enter, Fetch, Throw, Leave, DuplicateKept, Active
<1>5. CASE UNCHANGED vars
  BY <1>5 DEF vars, DuplicateKept, Active
<1> QED
  BY <1>2, <1>3, <1>4, <1>5 DEF Next

-----------------------------------------------------------------------------
(* Forcings that share a function.  If calls do not overlap and clients     *)
(* undo first what they forced last, the forcings of a function are a stack *)
(* in which each has saved the patch of the one below.                      *)

\* The forcings in effect, those of a function, and those made before one of them.
Entries       == {k \in Forcers \X Locs : forced[k[1]][k[2]] # None}
Of(f)         == {k \in Entries : FnOf[k[2]] = f}
Below(pos, k) == {j \in Of(FnOf[k[2]]) : pos[j] < pos[k]}

\* code is the patch of the last of the forcings H, or a function's own code.
Shows(F, pos, H, code) ==
  \/ H = {} /\ code = Original
  \/ \E m \in H : code = Patch(F[m[1]][m[2]].ptr) /\ \A k \in H : pos[k] <= pos[m]

\* Each forcing was made at a time of its own, before n ...
Ordered(pos, n) ==
  /\ n \in Nat /\ pos \in [Forcers \X Locs -> Nat]
  /\ \A k \in Entries : pos[k] < n
  /\ \A j, k \in Entries : pos[j] = pos[k] => j = k

\* ... and has saved what those before it had made of the function.
Saved(pos) == \A k \in Entries : Shows(forced, pos, Below(pos, k), forced[k[1]][k[2]].data)

\* So has the object of a call; and what no call is changing shows its last forcing.
Stacked(pos) ==
  /\ Saved(pos)
  /\ \A x \in Forcers : Active(x) => Shows(forced, pos, Of(FnOf[op[x].loc]), op[x].fe.data)
  /\ \A f \in Fns : ~Touched(f) => Shows(forced, pos, Of(f), text[f])

StackInv == InProgress /\ \E n, pos : Ordered(pos, n) /\ Stacked(pos)

\* All functions show their last forcing, as they do when a rewriting is over.
AllShown(pos) == Saved(pos) /\ \A f \in Fns : Shows(forced, pos, Of(f), text[f])

-----------------------------------------------------------------------------
(* Every step of a forcer, whatever the others do.                          *)

\* A call that begins for l changes at most the entry of l.
LEMMA BeginIsLocal ==
  ASSUME TypeOK, NEW x \in Forcers, NEW l \in Locs, NEW api, NEW phase, NEW fe,
         Begin(x, api, phase, l, fe), UNCHANGED text, Disturb(FnOf[l]),
         forced' = forced \/ forced' = [forced EXCEPT ![x][l] = None],
         \A y \in Forcers, m \in Locs :
           forced[y][m] # None => heap'[forced[y][m].ptr] = heap[forced[y][m].ptr]
  PROVE  Local(x) /\ Announced(x)
<1> DEFINE o == [pc |-> "unprotect", phase |-> phase, api |-> api, loc |-> l, fe |-> fe, left |-> Words]
<1>1. o.pc = "unprotect" /\ o.loc = l
  OBVIOUS
<1>2. op' = [op EXCEPT ![x] = o]
  BY DEF Begin
<1> HIDE DEF o
<1>3. On(x, l)' /\ op'[x].loc = l /\ \A y \in Forcers \ {x} : op'[y] = op[y]
  BY <1>1, <1>2 DEF On, Active, TypeOK, OpsTyped
<1>4. /\ \A y \in Forcers \ {x} : forced'[y] = forced[y]
      /\ \A m \in Locs \ {l} : forced'[x][m] = forced[x][m]
      /\ \A y \in Forcers, m \in Locs : forced'[y][m] # None /\ forced'[y][m] = forced[y][m] => forced[y][m] # None
  BY DEF TypeOK
<1>5. Local(x)
  BY <1>3, <1>4 DEF Local
<1> QED
  BY <1>3, <1>5 DEF Announced

\* The destruction of the next entry writes nothing yet and announces its function.
LEMMA DestroyNextIsLocal ==
  ASSUME TypeOK, NEW x \in Forcers, DestroyNext(x), UNCHANGED text,
         \A y \in Forcers, m \in Locs :
           forced[y][m] # None => heap'[forced[y][m].ptr] = heap[forced[y][m].ptr]
  PROVE  Local(x) /\ Announced(x)
<1>1. CASE Forced(x) = {}
  <2>1. op' = [op EXCEPT ![x] = Gone] /\ UNCHANGED <<forced, call>>
    BY <1>1 DEF DestroyNext
  <2>2. op'[x].pc = "gone" /\ \A y \in Forcers \ {x} : op'[y] = op[y]
    BY <2>1 DEF Gone, AtRest, TypeOK, OpsTyped
  <2> QED
    BY <2>1, <2>2 DEF Local, Announced, Active
<1>2. CASE Forced(x) # {}
  <2>1. PICK l \in Locs : /\ Begin(x, "destroy", "destruct", l, forced[x][l])
                          /\ forced' = [forced EXCEPT ![x][l] = None]
                          /\ Disturb(FnOf[l])
    BY <1>2 DEF DestroyNext, Forced
  <2> QED
    BY <2>1, BeginIsLocal
<1> QED
  BY <1>1, <1>2

LEMMA StepIsLocal ==
  ASSUME TypeOK, CellsOwnedOnce, NEW x \in Forcers, Client(x) \/ Step(x)
  PROVE  Local(x) /\ Announced(x)
<1>a. Idle.pc = "idle" /\ Gone.pc = "gone"
  BY DEF Idle, Gone, AtRest
<1>b. ASSUME NEW o, op' = [op EXCEPT ![x] = o]
      PROVE  op'[x] = o /\ \A y \in Forcers \ {x} : op'[y] = op[y]
  BY <1>b DEF TypeOK, OpsTyped
<1>c. UNCHANGED heap =>
        \A y \in Forcers, m \in Locs :
          forced[y][m] # None => heap'[forced[y][m].ptr] = heap[forced[y][m].ptr]
  OBVIOUS
<1>d. \A pc, left : At(pc, left, op[x]).loc = op[x].loc /\ At(pc, left, op[x]).pc = pc
  BY DEF At
\* The call goes on ...
<1>e. ASSUME Active(x), NEW pc, NEW left, op' = [op EXCEPT ![x] = At(pc, left, op[x])],
             \A g \in Fns : text'[g] # text[g] => g = FnOf[op[x].loc],
             UNCHANGED <<heap, forced, call>>
      PROVE  Local(x) /\ Announced(x)
  BY <1>b, <1>d, <1>e DEF Local, Announced, On
\* ... or it ends, or there is none.
<1>f. ASSUME op' = [op EXCEPT ![x] = Idle] \/ op' = [op EXCEPT ![x] = Gone], UNCHANGED <<text, forced, call>>,
             \A y \in Forcers, m \in Locs :
               forced[y][m] # None => heap'[forced[y][m].ptr] = heap[forced[y][m].ptr]
      PROVE  Local(x) /\ Announced(x)
  BY <1>a, <1>b, <1>f DEF Local, Announced, Active
<1>g. ASSUME UNCHANGED <<text, heap, forced, op, call>>
      PROVE  Local(x) /\ Announced(x)
  BY <1>g DEF Local, Announced, On, Active
<1>1. CASE Construct(x)
  BY <1>1, <1>c, <1>f DEF Construct
<1>2. CASE Destroy(x)
  BY <1>2, <1>c, DestroyNextIsLocal DEF Destroy
<1>3. ASSUME NEW a \in Addrs, NEW e \in Errors \cup {NoError}, ForceRejected(x, a, e)
      PROVE  Local(x) /\ Announced(x)
  BY <1>3, <1>g DEF ForceRejected
<1>4. ASSUME NEW a \in Addrs, NEW e \in Errors \cup {NoError}, ForceException(x, a, e)
      PROVE  Local(x) /\ Announced(x)
  <2>1. PICK p \in Ptrs :
          /\ Allocate(p, ErrorToThrow(a, e))
          /\ Begin(x, "force", "construct", a, [ptr |-> p, data |-> text[FnOf[a]]])
    BY <1>4 DEF ForceException
  <2>2. a \in Locs /\ Disturb(FnOf[a]) /\ UNCHANGED <<text, forced>>
    BY <1>4 DEF ForceException, Accepted
  <2> QED
    BY <2>1, <2>2, AllocateKeepsCells, BeginIsLocal
<1>5. ASSUME NEW l \in Locs, UnforceException(x, l)
      PROVE  Local(x) /\ Announced(x)
  BY <1>5, <1>c, BeginIsLocal DEF UnforceException
<1>6. CASE Unprotect(x) \/ Protect(x)
  BY <1>6, <1>e DEF Unprotect, Protect, Executing, Active
<1>7. CASE ConstructorThrows(x)
  BY <1>7, <1>f, OthersKeepCells DEF ConstructorThrows, Executing, Active
<1>8. CASE DestructorTerminates(x) \/ CopyFaults(x)
  BY <1>8, <1>g DEF DestructorTerminates, CopyFaults
<1>9. CASE Copy(x)
  <2>1. \E pc, left : op' = [op EXCEPT ![x] = At(pc, left, op[x])]
    BY <1>9 DEF Copy
  <2>2. \A g \in Fns : text'[g] # text[g] => g = FnOf[op[x].loc]
    BY <1>9 DEF Copy, TypeOK
  <2> QED
    BY <1>9, <1>e, <2>1, <2>2 DEF Copy, Executing, Active
<1>10. CASE Emplace(x)
  <2>1. /\ forced[x][op[x].loc] = None /\ forced' = [forced EXCEPT ![x][op[x].loc] = op[x].fe]
        /\ op' = [op EXCEPT ![x] = Idle] /\ Active(x) /\ UNCHANGED <<text, heap, call>>
    BY <1>10 DEF Emplace, Executing, Active
  <2>2. ~Active(x)' /\ \A y \in Forcers \ {x} : op'[y] = op[y]
    BY <2>1, <1>a, <1>b DEF Active
  <2>3. /\ \A y \in Forcers \ {x} : forced'[y] = forced[y]
        /\ \A m \in Locs \ {op[x].loc} : forced'[x][m] = forced[x][m]
    BY <2>1 DEF TypeOK
  <2> QED
    BY <2>1, <2>2, <2>3 DEF Local, Announced, On
<1>11. CASE EmplaceDuplicate(x)
  <2> DEFINE o == [pc |-> "unprotect", phase |-> "destruct", api |-> "force",
                   loc |-> op[x].loc, fe |-> op[x].fe, left |-> Words]
  <2>1. op' = [op EXCEPT ![x] = o] /\ Active(x) /\ UNCHANGED <<text, heap, forced, call>>
    BY <1>11 DEF EmplaceDuplicate, Begin, Executing, Active
  <2>2. o.loc = op[x].loc
    OBVIOUS
  <2> HIDE DEF o
  <2> QED
    BY <2>1, <2>2, <1>b DEF Local, Announced, On
<1>12. CASE Free(x)
  <2>1. /\ Release(op[x].fe.ptr) /\ Active(x) /\ UNCHANGED text
        /\ DestroyNext(x) \/ (op' = [op EXCEPT ![x] = Idle] /\ UNCHANGED <<forced, call>>)
    BY <1>12 DEF Free, Executing, Active
  <2> QED
    BY <2>1, <1>f, OthersKeepCells, DestroyNextIsLocal
<1> QED
  BY <1>1, <1>2, <1>3, <1>4, <1>5, <1>6, <1>7, <1>8, <1>9, <1>10, <1>11, <1>12 DEF Client, Step

-----------------------------------------------------------------------------
(* The steps of forcers whose calls do not overlap.                         *)

\* What is shown depends only on the forcings of the function.
LEMMA ShowsSame ==
  ASSUME NEW F, NEW G, NEW pos, NEW q, NEW H, NEW code, Shows(F, pos, H, code),
         \A k \in H : G[k[1]][k[2]] = F[k[1]][k[2]] /\ q[k] = pos[k]
  PROVE  Shows(G, q, H, code)
BY DEF Shows

\* A patch at an entry tells which forcing is the last of the function.
LEMMA LastShown ==
  ASSUME TypeOK, CellsOwnedOnce, NEW pos, NEW f, NEW k \in Of(f),
         Shows(forced, pos, Of(f), Patch(forced[k[1]][k[2]].ptr))
  PROVE  \A j \in Of(f) : pos[j] <= pos[k]
<1>1. ASSUME NEW j \in Of(f)
      PROVE  /\ j[1] \in Forcers /\ j[2] \in Locs /\ j = <<j[1], j[2]>>
             /\ forced[j[1]][j[2]] # None /\ forced[j[1]][j[2]].ptr \in Ptrs
  <2>1. j \in Forcers \X Locs /\ forced[j[1]][j[2]] # None
    BY DEF Of, Entries
  <2>2. j[1] \in Forcers /\ j[2] \in Locs /\ j = <<j[1], j[2]>>
    BY <2>1
  <2>3. forced[j[1]][j[2]] \in ForcedException \cup {None}
    BY <2>2 DEF TypeOK
  <2> QED
    BY <2>1, <2>2, <2>3 DEF ForcedException
<1>2. PICK m \in Of(f) : /\ Patch(forced[k[1]][k[2]].ptr) = Patch(forced[m[1]][m[2]].ptr)
                         /\ \A j \in Of(f) : pos[j] <= pos[m]
  BY DEF Shows
<1>3. forced[m[1]][m[2]].ptr = forced[k[1]][k[2]].ptr
  BY <1>1, <1>2, CodeFacts
<1>4. m[1] = k[1] /\ m[2] = k[2]
  BY <1>1, <1>3 DEF CellsOwnedOnce, OwnersDistinct, EntryOwns
<1> QED
  BY <1>1, <1>2, <1>4

\* Steps that change no entry and no forcing, and leave each call where it was.
LEMMA StackAside ==
  ASSUME StackInv, UNCHANGED <<text, forced>>,
         \A y \in Forcers : /\ Active(y)' = Active(y)
                            /\ Active(y) => /\ op'[y].loc = op[y].loc /\ op'[y].fe = op[y].fe
                                            /\ op'[y].phase = op[y].phase /\ op'[y].left = op[y].left
  PROVE  StackInv'
<1>1. /\ Entries' = Entries
      /\ \A f : Of(f)' = Of(f) /\ Touched(f)' = Touched(f)
      /\ \A pos, k : Below(pos, k)' = Below(pos, k)
  BY DEF Entries, Of, Below, Touched
<1>2. InProgress'
  BY DEF StackInv, InProgress, Replaced, Source
<1>3. PICK n, pos : Ordered(pos, n) /\ Stacked(pos)
  BY DEF StackInv
<1>4. Ordered(pos, n)' /\ Saved(pos)'
  BY <1>1, <1>3 DEF Ordered, Stacked, Saved
<1>5. Stacked(pos)'
  BY <1>1, <1>3, <1>4 DEF Stacked
<1> QED
  BY <1>2, <1>4, <1>5 DEF StackInv

\* After a step that leaves x alone in a call: at most the function that its
\* call has come to change shows another forcing than its last.
LEMMA StackMoves ==
  ASSUME NEW x \in Forcers, \A y \in Forcers \ {x} : ~Active(y)',
         NEW n, NEW pos, Ordered(pos, n)', Saved(pos)',
         Active(x)' => /\ op'[x].left = Words /\ text'[FnOf[op'[x].loc]] = Replaced(op'[x])
                       /\ Shows(forced', pos, Of(FnOf[op[x].loc])', op'[x].fe.data),
         \A g \in Fns : \/ Active(x)' /\ g = FnOf[op'[x].loc]
                        \/ Shows(forced', pos, Of(g)', text'[g])
  PROVE  StackInv'
<1>1. InProgress'
  BY DEF InProgress, Replaced
<1>2. ASSUME NEW y \in Forcers, Active(y)'
      PROVE  Shows(forced', pos, Of(FnOf[op[y].loc])', op'[y].fe.data)
  BY <1>2
<1>3. ASSUME NEW g \in Fns, ~Touched(g)'
      PROVE  Shows(forced', pos, Of(g)', text'[g])
  BY <1>3 DEF Touched
<1>4. Stacked(pos)'
  BY <1>2, <1>3 DEF Stacked
<1> QED
  BY <1>1, <1>4 DEF StackInv

\* Between calls, and when a call has put back what its object had saved.
LEMMA StackShown ==
  ASSUME TypeOK, InProgress, NEW pos, Stacked(pos), NEW x \in Forcers, \A y \in Forcers \ {x} : ~Active(y),
         Active(x) => text[FnOf[op[x].loc]] = op[x].fe.data
  PROVE  AllShown(pos)
BY DEF Stacked, AllShown, Touched

\* The last forcing of a function is unlinked.
LEMMA StackUnlinks ==
  ASSUME TypeOK, CellsOwnedOnce, NEW n, NEW pos, Ordered(pos, n), AllShown(pos),
         NEW x \in Forcers, \A y \in Forcers \ {x} : ~Active(y),
         NEW l \in Locs, forced[x][l] # None, text[FnOf[l]] = Patch(forced[x][l].ptr),
         NEW api, Begin(x, api, "destruct", l, forced[x][l]),
         forced' = [forced EXCEPT ![x][l] = None], UNCHANGED text
  PROVE  StackInv'
<1> DEFINE e == forced[x][l]
           o == [pc |-> "unprotect", phase |-> "destruct", api |-> api, loc |-> l, fe |-> e, left |-> Words]
<1>k. PICK k \in Forcers \X Locs : k = <<x, l>>
  OBVIOUS
<1>a. /\ o.pc = "unprotect" /\ o.phase = "destruct" /\ o.loc = l /\ o.fe = e /\ o.left = Words
      /\ op' = [op EXCEPT ![x] = o]
  BY DEF Begin
<1> HIDE DEF o
<1>b. op'[x] = o /\ \A y \in Forcers \ {x} : ~Active(y)'
  BY <1>a DEF Active, TypeOK, OpsTyped
<1>c. Active(x)' /\ Replaced(op'[x]) = Patch(e.ptr)
  BY <1>a, <1>b DEF Active, Replaced
<1>d. /\ k \in Entries /\ k \in Of(FnOf[l]) /\ k[1] = x /\ k[2] = l /\ FnOf[l] \in Fns
      /\ Entries' = Entries \ {k}
      /\ \A j \in Entries' : forced'[j[1]][j[2]] = forced[j[1]][j[2]]
      /\ \A g : Of(g)' = Of(g) \ {k}
      /\ \A g : g # FnOf[l] => k \notin Of(g)
  <2>1. /\ forced'[x][l] = None
        /\ \A y \in Forcers, m \in Locs : y # x \/ m # l => forced'[y][m] = forced[y][m]
    BY DEF TypeOK
  <2>2. k \in Entries /\ k[1] = x /\ k[2] = l /\ FnOf[l] \in Fns
    BY <1>k DEF Entries
  <2>3. \A j \in Forcers \X Locs : j # k => j[1] # x \/ j[2] # l
    BY <1>k
  <2>4. Entries' = Entries \ {k}
    BY <2>1, <2>2, <2>3 DEF Entries
  <2>5. \A j \in Entries' : forced'[j[1]][j[2]] = forced[j[1]][j[2]]
    BY <2>1, <2>3, <2>4 DEF Entries
  <2> QED
    BY <2>2, <2>4, <2>5 DEF Of
<1>1. \A j \in Of(FnOf[l]) : pos[j] <= pos[k]
  BY <1>d, LastShown DEF AllShown
<1>2. Ordered(pos, n)'
  BY <1>d DEF Ordered
<1>3. \A j \in Entries : pos[j] \in Nat
  BY DEF Ordered, Entries
<1>4. Below(pos, k) = Of(FnOf[l])'
  <2>1. \A j \in Of(FnOf[l]) : j # k => pos[j] < pos[k]
    BY <1>1, <1>3, <1>d DEF Ordered, Of
  <2>2. ~(pos[k] < pos[k])
    BY <1>3, <1>d
  <2> QED
    BY <1>d, <2>1, <2>2 DEF Below
<1>5. \A j \in Entries' : Below(pos, j)' = Below(pos, j)
  <2> SUFFICES ASSUME NEW j \in Entries' PROVE k \notin Of(FnOf[j[2]]) \/ ~(pos[k] < pos[j])
    BY <1>d DEF Below
  <2>1. ASSUME k \in Of(FnOf[j[2]]) PROVE pos[j] <= pos[k]
    <3>1. j \in Of(FnOf[l])
      BY <1>d, <2>1 DEF Of
    <3> QED
      BY <1>1, <3>1
  <2> QED
    BY <1>3, <1>d, <2>1
<1>6. ASSUME NEW H, H \subseteq Entries', NEW code, Shows(forced, pos, H, code)
      PROVE  Shows(forced', pos, H, code)
  BY <1>6, <1>d, ShowsSame
<1>7. Saved(pos)'
  <2> SUFFICES ASSUME NEW j \in Entries'
               PROVE  Shows(forced', pos, Below(pos, j), forced[j[1]][j[2]].data)
    BY <1>5, <1>d DEF Saved
  <2>1. Below(pos, j) \subseteq Entries'
    BY <1>5 DEF Below, Of
  <2> QED
    BY <2>1, <1>6, <1>d DEF AllShown, Saved
<1>8. Shows(forced', pos, Of(FnOf[l])', e.data)
  <2>1. Of(FnOf[l])' \subseteq Entries' /\ Shows(forced, pos, Of(FnOf[l])', e.data)
    BY <1>4, <1>d DEF Of, AllShown, Saved
  <2> QED
    BY <2>1, <1>6
<1>9. ASSUME NEW g \in Fns, g # FnOf[l] PROVE Shows(forced', pos, Of(g)', text'[g])
  <2>1. Of(g)' = Of(g) /\ Of(g)' \subseteq Entries'
    BY <1>9, <1>d DEF Of
  <2> QED
    BY <2>1, <1>6 DEF AllShown
<1>10. op'[x].loc = l /\ op'[x].fe = e /\ op'[x].left = Words /\ text'[FnOf[l]] = Replaced(op'[x])
  BY <1>a, <1>b, <1>c
<1>11. \A g \in Fns : g = FnOf[l] \/ Shows(forced', pos, Of(g)', text'[g])
  BY <1>9
<1>12. Shows(forced', pos, Of(FnOf[op[x].loc])', op'[x].fe.data)
  <2>1. Of(FnOf[op[x].loc])' = Of(FnOf[l])'
    BY <1>10 DEF Of
  <2> QED
    BY <1>8, <1>10, <2>1
<1> HIDE DEF e
<1> QED
  BY <1>b, <1>c, <1>2, <1>7, <1>12, <1>10, <1>11, StackMoves

\* An object that enters the map is the last forcing of its function.
LEMMA StackLinks ==
  ASSUME TypeOK, StackInv, NEW x \in Forcers, Active(x), \A y \in Forcers \ {x} : ~Active(y),
         op[x].left = {}, op[x].phase = "construct", forced[x][op[x].loc] = None,
         forced' = [forced EXCEPT ![x][op[x].loc] = op[x].fe],
         op' = [op EXCEPT ![x] = Idle], UNCHANGED text
  PROVE  StackInv'
<1>l. PICK l \in Locs, e \in ForcedException, k \in Forcers \X Locs :
        l = op[x].loc /\ e = op[x].fe /\ k = <<x, l>>
  BY DEF TypeOK, OpsTyped
<1>1. PICK n, pos : Ordered(pos, n) /\ Stacked(pos)
  BY DEF StackInv
<1>2. text[FnOf[l]] = Patch(e.ptr)
  BY <1>l, WholeEntry DEF StackInv, Source
<1>3. \A y \in Forcers : ~Active(y)'
  <2>1. Idle.pc = "idle"
    BY DEF Idle, AtRest
  <2> QED
    BY <2>1 DEF Active, TypeOK, OpsTyped
<1>4. /\ k \notin Entries /\ k[1] = x /\ k[2] = l /\ FnOf[l] \in Fns
      /\ Entries' = Entries \cup {k}
      /\ forced'[x][l] = e
      /\ \A j \in Entries : forced'[j[1]][j[2]] = forced[j[1]][j[2]]
  <2>1. /\ forced'[x][l] = e /\ e # None
        /\ \A y \in Forcers, m \in Locs : y # x \/ m # l => forced'[y][m] = forced[y][m]
    BY <1>l DEF TypeOK
  <2>2. k \notin Entries /\ k[1] = x /\ k[2] = l /\ FnOf[l] \in Fns
    BY <1>l DEF Entries
  <2>3. \A j \in Forcers \X Locs : j # k => j[1] # x \/ j[2] # l
    BY <1>l
  <2>4. Entries' = Entries \cup {k}
    BY <2>1, <2>2, <2>3 DEF Entries
  <2>5. \A j \in Entries : forced'[j[1]][j[2]] = forced[j[1]][j[2]]
    BY <2>1, <2>2, <2>3 DEF Entries
  <2> QED
    BY <2>1, <2>2, <2>4, <2>5
<1>5. /\ Of(FnOf[l])' = Of(FnOf[l]) \cup {k}
      /\ \A g : g # FnOf[l] => Of(g)' = Of(g)
  BY <1>4 DEF Of
<1> DEFINE q == [pos EXCEPT ![k] = n]
<1>6. /\ q \in [Forcers \X Locs -> Nat] /\ q[k] = n /\ n \in Nat
      /\ \A j \in Entries : q[j] = pos[j] /\ pos[j] < n /\ pos[j] \in Nat
  BY <1>1, <1>4 DEF Ordered, Entries
<1> HIDE DEF q
<1>7. Ordered(q, n + 1)'
  <2>1. \A j \in Entries' : q[j] < n + 1
    BY <1>4, <1>6
  <2>2. \A i, j \in Entries' : q[i] = q[j] => i = j
    BY <1>1, <1>4, <1>6 DEF Ordered
  <2> QED
    BY <1>6, <2>1, <2>2 DEF Ordered
<1>8. Below(q, k)' = Of(FnOf[l]) /\ \A j \in Entries : Below(q, j)' = Below(pos, j)
  <2>1. Below(q, k)' = Of(FnOf[l])
    BY <1>4, <1>5, <1>6 DEF Below, Of
  <2>2. ASSUME NEW j \in Entries PROVE Below(q, j)' = Below(pos, j)
    <3>1. ~(n < pos[j])
      BY <1>6
    <3>2. \A i \in Of(FnOf[j[2]])' : i \in Of(FnOf[j[2]]) \/ i = k
      BY <1>5
    <3>3. Of(FnOf[j[2]]) \subseteq Of(FnOf[j[2]])' /\ Of(FnOf[j[2]]) \subseteq Entries
      BY <1>5 DEF Of
    <3> QED
      BY <1>6, <3>1, <3>2, <3>3 DEF Below
  <2> QED
    BY <2>1, <2>2
<1>9. ASSUME NEW H, H \subseteq Entries, NEW code, Shows(forced, pos, H, code)
      PROVE  Shows(forced', q, H, code)
  <2>1. \A j \in H : forced'[j[1]][j[2]] = forced[j[1]][j[2]] /\ q[j] = pos[j]
    BY <1>4, <1>6, <1>9
  <2> QED
    BY <1>9, <2>1 DEF Shows
<1>10. Saved(q)'
  <2>1. Shows(forced', q, Below(q, k)', e.data)
    <3>1. Shows(forced, pos, Of(FnOf[l]), e.data)
      BY <1>l, <1>1 DEF Stacked
    <3>2. Of(FnOf[l]) \subseteq Entries
      BY DEF Of
    <3> QED
      BY <3>1, <3>2, <1>8, <1>9
  <2>2. ASSUME NEW j \in Entries PROVE Shows(forced', q, Below(q, j)', forced[j[1]][j[2]].data)
    BY <1>1, <1>8, <1>9 DEF Stacked, Saved, Below, Of
  <2> QED
    BY <1>4, <2>1, <2>2 DEF Saved
<1>11. ASSUME NEW g \in Fns PROVE Shows(forced', q, Of(g)', text'[g])
  <2>1. CASE g = FnOf[l]
    <3>1. text'[g] = Patch(forced'[k[1]][k[2]].ptr)
      BY <1>2, <1>4, <2>1
    <3>2. \A j \in Of(g)' : q[j] <= q[k]
      BY <1>5, <1>6, <2>1 DEF Of
    <3> QED
      BY <1>5, <2>1, <3>1, <3>2 DEF Shows
  <2>2. CASE g # FnOf[l]
    <3>1. ~Touched(g)
      BY <1>l, <2>2 DEF Touched
    <3> QED
      BY <1>1, <1>5, <1>9, <2>2, <3>1 DEF Stacked, Of
  <2> QED
    BY <2>1, <2>2
<1> QED
  BY <1>3, <1>7, <1>10, <1>11, StackMoves

\* A forcer comes to rest, or is destroyed further.
LEMMA StackRests ==
  ASSUME TypeOK, StackInv, NEW x \in Forcers, \A y \in Forcers \ {x} : ~Active(y),
         Active(x) => text[FnOf[op[x].loc]] = op[x].fe.data,
         op' = [op EXCEPT ![x] = Idle] \/ op' = [op EXCEPT ![x] = Gone], UNCHANGED <<text, forced>>
  PROVE  StackInv'
<1>1. PICK n, pos : Ordered(pos, n) /\ Stacked(pos)
  BY DEF StackInv
<1>2. AllShown(pos)
  BY <1>1, StackShown DEF StackInv
<1>3. \A y \in Forcers : ~Active(y)'
  <2>1. Idle.pc = "idle" /\ Gone.pc = "gone"
    BY DEF Idle, Gone, AtRest
  <2> QED
    BY <2>1 DEF Active, TypeOK, OpsTyped
<1>4. Entries' = Entries /\ (\A g : Of(g)' = Of(g)) /\ \A j : Below(pos, j)' = Below(pos, j)
  BY DEF Entries, Of, Below
<1>5. Ordered(pos, n)' /\ Saved(pos)'
  BY <1>1, <1>2, <1>4 DEF Ordered, AllShown, Saved
<1>6. \A g \in Fns : Shows(forced', pos, Of(g)', text'[g])
  BY <1>2, <1>4 DEF AllShown
<1> QED
  BY <1>3, <1>5, <1>6, StackMoves

LEMMA StackDestroysNext ==
  ASSUME TypeOK, CellsOwnedOnce, StackInv, LastForcedFirst,
         NEW x \in Forcers, \A y \in Forcers \ {x} : ~Active(y),
         Active(x) => text[FnOf[op[x].loc]] = op[x].fe.data,
         DestroyNext(x), UNCHANGED text
  PROVE  StackInv'
<1>1. CASE Forced(x) = {}
  BY <1>1, StackRests DEF DestroyNext
<1>2. CASE Forced(x) # {}
  <2>1. PICK l \in Locs : /\ forced[x][l] # None
                          /\ Begin(x, "destroy", "destruct", l, forced[x][l])
                          /\ forced' = [forced EXCEPT ![x][l] = None]
    BY <1>2 DEF DestroyNext, Forced
  <2>2. text[FnOf[l]] = Patch(forced[x][l].ptr)
    BY <2>1 DEF LastForcedFirst, TypeOK
  <2>3. PICK n, pos : Ordered(pos, n) /\ Stacked(pos)
    BY DEF StackInv
  <2>4. AllShown(pos)
    BY <2>3, StackShown DEF StackInv
  <2> QED
    BY <2>1, <2>2, <2>3, <2>4, StackUnlinks
<1> QED
  BY <1>1, <1>2

\* The steps that begin an API call keep the forcings of a function stacked ...
LEMMA StackClient ==
  ASSUME TypeOK, CellsOwnedOnce, Sequential, StackInv, LastForcedFirst, NEW x \in Forcers, Client(x)
  PROVE  StackInv'
<1>1. CASE Construct(x)
  <2>1. Idle.pc = "idle"
    BY DEF Idle, AtRest
  <2>2. \A y \in Forcers : Active(y)' = Active(y) /\ (Active(y) => op'[y] = op[y])
    BY <1>1, <2>1 DEF Construct, Active, TypeOK, OpsTyped
  <2> QED
    BY <1>1, <2>2, StackAside DEF Construct
<1>2. CASE Destroy(x)
  BY <1>2, StackDestroysNext DEF Destroy, MayBegin
<1>3. ASSUME NEW a \in Addrs, NEW e \in Errors \cup {NoError}, ForceRejected(x, a, e)
      PROVE  StackInv'
  BY <1>3, StackAside DEF ForceRejected, Active
<1>4. ASSUME NEW a \in Addrs, NEW e \in Errors \cup {NoError}, ForceException(x, a, e)
      PROVE  StackInv'
  <2>1. PICK p \in Ptrs : Begin(x, "force", "construct", a, [ptr |-> p, data |-> text[FnOf[a]]])
    BY <1>4 DEF ForceException
  <2>2. a \in Locs /\ FnOf[a] \in Fns /\ UNCHANGED <<text, forced>> /\ \A y \in Forcers : ~Active(y)
    BY <1>4 DEF ForceException, Accepted, MayBegin
  <2> DEFINE o == [pc |-> "unprotect", phase |-> "construct", api |-> "force",
                   loc |-> a, fe |-> [ptr |-> p, data |-> text[FnOf[a]]], left |-> Words]
  <2>3. /\ o.loc = a /\ o.fe.data = text[FnOf[a]] /\ o.left = Words
        /\ o.phase = "construct" /\ o.pc = "unprotect"
    OBVIOUS
  <2>4. op' = [op EXCEPT ![x] = o]
    BY <2>1 DEF Begin
  <2> HIDE DEF o
  <2>5. op'[x] = o /\ \A y \in Forcers \ {x} : ~Active(y)'
    BY <2>2, <2>4 DEF Active, TypeOK, OpsTyped
  <2>6. Active(x)' /\ Replaced(op'[x]) = text'[FnOf[op'[x].loc]]
    BY <2>2, <2>3, <2>5 DEF Active, Replaced
  <2>7. PICK n, pos : Ordered(pos, n) /\ Stacked(pos)
    BY DEF StackInv
  <2>8. AllShown(pos)
    BY <2>2, <2>7, StackShown DEF StackInv
  <2>9. Entries' = Entries /\ (\A g : Of(g)' = Of(g)) /\ \A j : Below(pos, j)' = Below(pos, j)
    BY <2>2 DEF Entries, Of, Below
  <2>10. Ordered(pos, n)' /\ Saved(pos)'
    BY <2>2, <2>7, <2>8, <2>9 DEF Ordered, AllShown, Saved
  <2>11. \A g \in Fns : Shows(forced', pos, Of(g)', text'[g])
    BY <2>2, <2>8, <2>9 DEF AllShown
  <2>12. Shows(forced', pos, Of(FnOf[op[x].loc])', op'[x].fe.data)
    <3>1. Of(FnOf[op[x].loc])' = Of(FnOf[a])'
      BY <2>3, <2>5 DEF Of
    <3> QED
      BY <2>2, <2>3, <2>5, <2>11, <3>1
  <2> QED
    BY <2>3, <2>5, <2>6, <2>10, <2>11, <2>12, StackMoves
<1>5. ASSUME NEW l \in Locs, UnforceException(x, l)
      PROVE  StackInv'
  <2>1. /\ forced[x][l] # None /\ (\A y \in Forcers : ~Active(y))
        /\ Begin(x, "unforce", "destruct", l, forced[x][l])
        /\ forced' = [forced EXCEPT ![x][l] = None] /\ UNCHANGED text
    BY <1>5 DEF UnforceException, MayBegin
  <2>2. text[FnOf[l]] = Patch(forced[x][l].ptr)
    BY <2>1 DEF LastForcedFirst, TypeOK
  <2>3. PICK n, pos : Ordered(pos, n) /\ Stacked(pos)
    BY DEF StackInv
  <2>4. AllShown(pos)
    BY <2>1, <2>3, StackShown DEF StackInv
  <2> QED
    BY <2>1, <2>2, <2>3, <2>4, StackUnlinks
<1> QED
  BY <1>1, <1>2, <1>3, <1>4, <1>5 DEF Client

\* ... and so do the steps of a constructor or destructor.
LEMMA StackStep ==
  ASSUME TypeOK, OpShape, CellsOwnedOnce, Sequential, SequentialInv, StackInv, LastForcedFirst,
         NEW x \in Forcers, Step(x)
  PROVE  StackInv'
<1>a. Active(x) /\ op[x].loc \in Locs /\ FnOf[op[x].loc] \in Fns
  <2>1. Active(x)
    BY DEF Step, Unprotect, ConstructorThrows, DestructorTerminates, Copy, CopyFaults, Protect,
       Emplace, EmplaceDuplicate, Free, Executing, Active
  <2> QED
    BY <2>1 DEF TypeOK, OpsTyped
<1>b. \A y \in Forcers \ {x} : ~Active(y)
  BY <1>a DEF SequentialInv
<1>c. Shaped(op[x])
  BY DEF OpShape
<1>d. ASSUME NEW o, op' = [op EXCEPT ![x] = o]
      PROVE  op'[x] = o /\ \A y \in Forcers \ {x} : op'[y] = op[y]
  BY <1>d DEF TypeOK, OpsTyped
<1>e. \A pc, left : /\ At(pc, left, op[x]).pc = pc /\ At(pc, left, op[x]).left = left
                    /\ At(pc, left, op[x]).loc = op[x].loc /\ At(pc, left, op[x]).fe = op[x].fe
                    /\ At(pc, left, op[x]).phase = op[x].phase
  BY DEF At
<1>f. InProgress
  BY DEF StackInv
\* A step to another program counter that writes no code.
<1>g. ASSUME NEW pc \in {"copy", "protect", "emplace", "free"},
             op' = [op EXCEPT ![x] = At(pc, op[x].left, @)], UNCHANGED <<text, forced>>
      PROVE  StackInv'
  <2>1. op'[x] = At(pc, op[x].left, op[x]) /\ \A y \in Forcers \ {x} : op'[y] = op[y]
    BY <1>d, <1>g
  <2>2. Active(x)'
    BY <1>e, <2>1 DEF Active
  <2> QED
    BY <1>a, <1>b, <1>e, <1>g, <2>1, <2>2, StackAside DEF Active
<1>1. CASE Unprotect(x)
  BY <1>1, <1>c, <1>g DEF Unprotect, Executing, Shaped
<1>2. CASE ConstructorThrows(x)
  <2>1. op[x].left = Words /\ op[x].phase = "construct"
    BY <1>2, <1>c DEF ConstructorThrows, Executing, Shaped
  <2>2. text[FnOf[op[x].loc]] = op[x].fe.data
    BY <1>a, <1>f, <2>1, WholeEntry DEF Replaced
  <2> QED
    BY <1>2, <1>b, <2>2, StackRests DEF ConstructorThrows
<1>3. CASE DestructorTerminates(x) \/ CopyFaults(x)
  BY <1>3, StackAside DEF DestructorTerminates, CopyFaults, Active
<1>4. CASE Copy(x)
  <2>1. PICK i \in op[x].left :
          /\ text' = [text EXCEPT ![FnOf[op[x].loc]][i] = Source(op[x])[i]]
          /\ op' = [op EXCEPT ![x] = IF @.left = {i} THEN At("protect", {}, @)
                                     ELSE At("copy", @.left \ {i}, @)]
    BY <1>4 DEF Copy
  <2>2. UNCHANGED forced /\ i \in Words
    <3>1. op[x].left \in SUBSET Words
      BY DEF TypeOK, OpsTyped, OpType
    <3> QED
      BY <1>4, <3>1 DEF Copy
  <2>3. PICK pc \in {"copy", "protect"} : op' = [op EXCEPT ![x] = At(pc, op[x].left \ {i}, op[x])]
    <3>1. CASE op[x].left = {i}
      <4>1. op[x].left \ {i} = {}
        BY <3>1
      <4> QED
        BY <2>1, <3>1, <4>1
    <3>2. CASE op[x].left # {i}
      BY <2>1, <3>2
    <3> QED
      BY <3>1, <3>2
  <2>4. op'[x] = At(pc, op[x].left \ {i}, op[x]) /\ \A y \in Forcers \ {x} : op'[y] = op[y]
    BY <2>3, <1>d
  <2>5. Active(x)' /\ op'[x].loc = op[x].loc /\ op'[x].fe = op[x].fe /\ \A y \in Forcers \ {x} : ~Active(y)'
    BY <2>4, <1>b, <1>e DEF Active
  <2>6. /\ \A g \in Fns \ {FnOf[op[x].loc]} : text'[g] = text[g]
        /\ text'[FnOf[op[x].loc]] = [text[FnOf[op[x].loc]] EXCEPT ![i] = Source(op[x])[i]]
    BY <2>1, <1>a DEF TypeOK
  <2>7. /\ text'[FnOf[op[x].loc]][i] = Source(op[x])[i]
        /\ \A j \in Words \ {i} : text'[FnOf[op[x].loc]][j] = text[FnOf[op[x].loc]][j]
    <3>1. text[FnOf[op[x].loc]] \in Code
      BY <1>a DEF TypeOK
    <3> QED
      BY <2>2, <2>6, <3>1 DEF Code
  <2>8. /\ Replaced(op'[x]) = Replaced(op[x]) /\ Source(op'[x]) = Source(op[x])
        /\ op'[x].left = op[x].left \ {i}
    BY <2>4, <1>e DEF Replaced, Source
  <2>9. InProgress'
    <3> SUFFICES ASSUME NEW j \in Words
                 PROVE  text'[FnOf[op[x].loc]][j] = IF j \in op[x].left \ {i} THEN Replaced(op[x])[j] ELSE Source(op[x])[j]
      BY <2>5, <2>8 DEF InProgress, Replaced, Source
    <3> QED
      BY <1>a, <1>f, <2>7 DEF InProgress
  <2>10. PICK n, pos : Ordered(pos, n) /\ Stacked(pos)
    BY DEF StackInv
  <2>11. /\ Entries' = Entries
         /\ \A f : Of(f)' = Of(f) /\ Touched(f)' = Touched(f)
         /\ \A j : Below(pos, j)' = Below(pos, j)
    BY <2>2, <2>5, <1>a, <1>b DEF Entries, Of, Below, Touched
  <2>12. Ordered(pos, n)' /\ Saved(pos)'
    BY <2>2, <2>10, <2>11 DEF Ordered, Stacked, Saved
  <2>13. Stacked(pos)'
    <3>1. \A f \in Fns : ~Touched(f) => text'[f] = text[f]
      BY <1>a, <2>6 DEF Touched
    <3> QED
      BY <1>a, <2>2, <2>5, <2>10, <2>11, <2>12, <3>1 DEF Stacked
  <2> QED
    BY <2>9, <2>12, <2>13 DEF StackInv
<1>5. CASE Protect(x)
  <2>1. op[x].left = {}
    BY <1>5, <1>c DEF Protect, Executing, Shaped
  <2>2. CASE op[x].phase = "construct"
    BY <1>5, <1>g, <2>1, <2>2 DEF Protect
  <2>3. CASE op[x].phase # "construct"
    BY <1>5, <1>g, <2>1, <2>3 DEF Protect
  <2> QED
    BY <2>2, <2>3
<1>6. CASE Emplace(x)
  <2>1. op[x].left = {} /\ op[x].phase = "construct"
    BY <1>6, <1>c DEF Emplace, Executing, Shaped
  <2> QED
    BY <1>6, <1>a, <1>b, <2>1, StackLinks DEF Emplace
<1>7. CASE EmplaceDuplicate(x)
  <2> DEFINE o == [pc |-> "unprotect", phase |-> "destruct", api |-> "force",
                   loc |-> op[x].loc, fe |-> op[x].fe, left |-> Words]
  <2>1. /\ o.loc = op[x].loc /\ o.fe = op[x].fe /\ o.left = Words
        /\ o.phase = "destruct" /\ o.pc = "unprotect"
    OBVIOUS
  <2>2. op' = [op EXCEPT ![x] = o] /\ UNCHANGED <<text, forced>>
    BY <1>7 DEF EmplaceDuplicate, Begin
  <2> HIDE DEF o
  <2>3. op'[x] = o /\ Active(x)' /\ \A y \in Forcers \ {x} : ~Active(y)'
    BY <2>1, <2>2, <1>b, <1>d DEF Active
  <2>4. op[x].left = {} /\ op[x].phase = "construct"
    BY <1>7, <1>c DEF EmplaceDuplicate, Executing, Shaped
  <2>5. text[FnOf[op[x].loc]] = Replaced(o)
    BY <1>a, <1>f, <2>1, <2>4, WholeEntry DEF Source, Replaced
  <2>6. PICK n, pos : Ordered(pos, n) /\ Stacked(pos)
    BY DEF StackInv
  <2>7. Entries' = Entries /\ (\A g : Of(g)' = Of(g)) /\ \A j : Below(pos, j)' = Below(pos, j)
    BY <2>2 DEF Entries, Of, Below
  <2>8. Ordered(pos, n)' /\ Saved(pos)'
    BY <2>2, <2>6, <2>7 DEF Ordered, Stacked, Saved
  <2>9. Shows(forced', pos, Of(FnOf[op[x].loc])', op'[x].fe.data)
    <3>1. Of(FnOf[op[x].loc])' = {k \in Entries' : FnOf[k[2]] = FnOf[op[x].loc]}
      BY <2>1, <2>3 DEF Of
    <3>2. Of(FnOf[op[x].loc])' = Of(FnOf[op[x].loc])
      BY <2>7, <3>1 DEF Of
    <3> QED
      BY <1>a, <2>1, <2>2, <2>3, <2>6, <3>2 DEF Stacked
  <2>10. \A g \in Fns : g = FnOf[op'[x].loc] \/ Shows(forced', pos, Of(g)', text'[g])
    <3> SUFFICES ASSUME NEW g \in Fns, g # FnOf[op[x].loc] PROVE Shows(forced, pos, Of(g), text[g])
      BY <2>1, <2>2, <2>3, <2>7
    <3>1. ~Touched(g)
      BY <1>b DEF Touched
    <3> QED
      BY <2>6, <3>1 DEF Stacked
  <2>11. op'[x].left = Words /\ text'[FnOf[op'[x].loc]] = Replaced(op'[x])
    BY <2>1, <2>2, <2>3, <2>5
  <2> QED
    BY <2>3, <2>8, <2>9, <2>10, <2>11, StackMoves
<1>8. CASE Free(x)
  <2>1. op[x].left = {} /\ op[x].phase = "destruct"
    BY <1>8, <1>c DEF Free, Executing, Shaped
  <2>2. text[FnOf[op[x].loc]] = op[x].fe.data
    BY <1>a, <1>f, <2>1, WholeEntry DEF Source
  <2>3. UNCHANGED text /\ (DestroyNext(x) \/ (op' = [op EXCEPT ![x] = Idle] /\ UNCHANGED forced))
    BY <1>8 DEF Free
  <2> QED
    BY <1>b, <2>2, <2>3, StackRests, StackDestroysNext
<1> QED
  BY <1>1, <1>2, <1>3, <1>4, <1>5, <1>6, <1>7, <1>8 DEF Step

\* A function that is not being changed shows a forcing in effect, or its own code.
LEMMA StackOrOwn ==
  ASSUME TypeOK, CellsOwnedOnce, StackInv, NEW f \in Fns, ~Touched(f)
  PROVE  OwnOrForced(f)
<1>1. PICK pos : Shows(forced, pos, Of(f), text[f])
  BY DEF StackInv, Stacked
<1>2. CASE Of(f) = {} /\ text[f] = Original
  <2>1. ASSUME NEW x \in Forcers, NEW l \in Locs, FnOf[l] = f PROVE forced[x][l] = None
    <3>1. <<x, l>> \notin Of(f) /\ <<x, l>>[1] = x /\ <<x, l>>[2] = l /\ <<x, l>> \in Forcers \X Locs
      BY <1>2
    <3> QED
      BY <2>1, <3>1 DEF Of, Entries
  <2> QED
    BY <1>2, <2>1 DEF Promised, OwnOrForced
<1>3. ASSUME NEW m \in Of(f), text[f] = Patch(forced[m[1]][m[2]].ptr)
      PROVE  OwnOrForced(f)
  <2>1. PICK x \in Forcers, l \in Locs : x = m[1] /\ l = m[2]
    BY DEF Of, Entries
  <2>2. forced[x][l] # None /\ FnOf[l] = f
    BY <2>1 DEF Of, Entries
  <2>3. forced[x][l].ptr \in Ptrs
    BY <2>2 DEF TypeOK, ForcedException
  <2>4. heap[forced[x][l].ptr] # "freed"
    BY <2>2, <2>3 DEF CellsOwnedOnce, LiveCellsOwned, EntryOwns
  <2>5. heap[forced[x][l].ptr] \in Promised(f)
    BY <2>2, <2>3 DEF Promised, TypeOK
  <2> QED
    BY <1>3, <2>1, <2>3, <2>4, <2>5 DEF OwnOrForced
<1> QED
  BY <1>1, <1>2, <1>3 DEF Shows

\* The invariant of programs whose calls do not overlap and undo in order.
LifoInv ==
  /\ TypeOK /\ OpShape /\ CallShape /\ CellsOwnedOnce /\ SequentialInv /\ StackInv /\ CallsInv

LEMMA LifoNext ==
  ASSUME Sequential, LifoInv, TypeOK', [Next /\ LastForcedFirst]_vars
  PROVE  LifoInv'
<1>a. /\ [Next]_vars /\ TypeOK /\ OpShape /\ CallShape /\ CellsOwnedOnce /\ SequentialInv
      /\ StackInv /\ CallsInv
  BY DEF LifoInv
<1>1. OpShape' /\ CallShape' /\ CellsOwnedOnce' /\ SequentialInv'
  BY <1>a, ShapeNext, CallShapeNext, CellsNext, SequentialNext
<1>2. ASSUME NEW x \in Forcers, Client(x) \/ Step(x), LastForcedFirst PROVE StackInv' /\ CallsInv'
  BY <1>a, <1>2, StackClient, StackStep, StepIsLocal, ForcerKeepsCalls
<1>3. ASSUME NEW t \in Threads, Calls(t) PROVE StackInv' /\ CallsInv'
  <2>1. UNCHANGED <<text, forced, op>>
    BY <1>3 DEF Calls, Enter, Fetch, Throw, Leave
  <2>2. StackInv'
    BY <1>a, <2>1, StackAside DEF Active
  <2> QED
    BY <1>a, <1>3, <2>2, StackOrOwn, CallsKept
<1>4. ASSUME UNCHANGED vars PROVE StackInv' /\ CallsInv'
  <2>1. StackInv'
    BY <1>a, <1>4, StackAside DEF vars, Active
  <2>2. CallsInv'
    <3>1. \A f : (Touched(f)' <=> Touched(f)) /\ Promised(f)' = Promised(f)
      BY <1>4 DEF vars, Touched, Promised, Active
    <3>2. CallProgress'
      BY <1>a, <1>4, <3>1 DEF vars, CallsInv, CallProgress
    <3>3. ForcedCallsThrow' /\ UnforcedCallsRun'
      BY <1>a, <1>4 DEF vars, CallsInv, ForcedCallsThrow, UnforcedCallsRun
    <3> QED
      BY <3>2, <3>3 DEF CallsInv
  <2> QED
    BY <2>1, <2>2
<1>5. StackInv' /\ CallsInv'
  BY <1>2, <1>3, <1>4 DEF Next
<1> QED
  BY <1>1, <1>5 DEF LifoInv

LEMMA LifoInit == Init => LifoInv
<1> SUFFICES ASSUME Init PROVE LifoInv
  OBVIOUS
<1>1. \A x \in Forcers : ~Active(x)
  BY DEF Init, Active, Gone, AtRest
<1>2. OpShape /\ CallShape /\ CellsOwnedOnce /\ SequentialInv
  <2>1. OpShape /\ CallShape
    BY <1>1 DEF Init, OpShape, Shaped, CallShape, Gone, AtRest, Outside
  <2>2. CellsOwnedOnce
    BY <1>1 DEF Init, CellsOwnedOnce, LiveCellsOwned, OwnersDistinct, OpOwns, EntryOwns
  <2>3. SequentialInv
    BY <1>1 DEF Init, SequentialInv, Gone, AtRest
  <2> QED
    BY <2>1, <2>2, <2>3
<1>3. Entries = {} /\ \A f : Of(f) = {}
  BY DEF Init, Entries, Of
<1>4. Ordered([k \in Forcers \X Locs |-> 0], 0) /\ Stacked([k \in Forcers \X Locs |-> 0])
  BY <1>1, <1>3 DEF Init, Ordered, Stacked, Saved, Shows
<1>5. StackInv
  BY <1>1, <1>4 DEF StackInv, InProgress
<1>6. CallsInv
  BY EntryInit DEF EntryInv, CallsInv
<1> QED
  BY <1>2, <1>5, <1>6, TypeInit DEF LifoInv

-----------------------------------------------------------------------------
(* The theorems.                                                            *)

\* The invariant that the runs check holds of every instance.
THEOREM InvariantHolds == Spec => []IInv
<1>1. Init => IInv
  <2>1. Init => OpShape /\ CallShape /\ DuplicateKept
    BY DEF Init, OpShape, Shaped, CallShape, DuplicateKept, Active, Gone, AtRest, Outside
  <2>2. Init => CellsOwnedOnce
    BY DEF Init, CellsOwnedOnce, LiveCellsOwned, OwnersDistinct, OpOwns, EntryOwns, Active, Gone, AtRest
  <2>3. Init => SequentialInv
    BY DEF Init, SequentialInv, Active, Gone, AtRest
  <2> QED
    BY <2>1, <2>2, <2>3, TypeInit, EntryInit DEF IInv
<1>2. IInv /\ TypeOK' /\ [Next]_vars => IInv'
  BY ShapeNext, CallShapeNext, CellsNext, DuplicateNext, SequentialNext, EntryNext DEF IInv, Exclusive
<1> QED
  BY <1>1, <1>2, TypeCorrect, PTL DEF Spec

\* If no two forcings a program asks for share a function, a call of a function
\* with a forced location, not overlapped by a change of it, throws the error
\* it was forced with.
THEOREM ForcedCallsDoThrow ==
  ASSUME Exclusive
  PROVE  Spec => []ForcedCallsThrow
<1>1. IInv => ForcedCallsThrow
  BY DEF IInv, EntryInv
<1> QED
  BY <1>1, InvariantHolds, PTL

\* In such a program, a call of a function none of whose locations is forced
\* runs the function, also after it has been forced and unforced.
THEOREM UnforcedCallsDoRun ==
  ASSUME Exclusive
  PROVE  Spec => []UnforcedCallsRun
<1>1. IInv => UnforcedCallsRun
  BY DEF IInv, EntryInv
<1> QED
  BY <1>1, InvariantHolds, PTL

LEMMA LifoHolds ==
  ASSUME Sequential
  PROVE  LifoSpec => []LifoInv
<1>1. LifoInv /\ [Next /\ LastForcedFirst]_vars => TypeOK'
  BY TypeNext DEF LifoInv
<1>2. LifoInv /\ [Next /\ LastForcedFirst]_vars => LifoInv'
  BY <1>1, LifoNext
<1> QED
  BY <1>2, LifoInit, PTL DEF LifoSpec

\* If calls of the API do not overlap and a program undoes first what it forced
\* last, functions may be forced through several locations and by several
\* forcers: a call that no change overlaps throws the error of a forcing in
\* effect ...
THEOREM StackedCallsThrow ==
  ASSUME Sequential
  PROVE  LifoSpec => []ForcedCallsThrow
<1>1. LifoInv => ForcedCallsThrow
  BY DEF LifoInv, CallsInv
<1> QED
  BY <1>1, LifoHolds, PTL

\* ... and a call of a function all of whose forcings are undone runs it.
THEOREM StackedCallsRun ==
  ASSUME Sequential
  PROVE  LifoSpec => []UnforcedCallsRun
<1>1. LifoInv => UnforcedCallsRun
  BY DEF LifoInv, CallsInv
<1> QED
  BY <1>1, LifoHolds, PTL
=============================================================================
