------------------------ MODULE ExceptionForcerProofs ------------------------
(***************************************************************************)
(* Proofs about module ExceptionForcer, for every value of its constants.  *)
(***************************************************************************)
EXTENDS ExceptionForcerProperties, TLAPS

USE ConstantsAssumption

\* The two codes a patch is made from, and that they differ.
LEMMA CodeFacts ==
  /\ Original \in Code
  /\ \A p \in Ptrs : Patch(p) \in Code /\ Patch(p)[1] = p /\ Patch(p) # Original
  /\ \A p, q \in Ptrs : Patch(p) = Patch(q) => p = q
<1>1. Original \in Code
  BY DEF Original, Code
<1>2. ASSUME NEW p \in Ptrs
      PROVE  Patch(p) \in Code /\ Patch(p)[1] = p /\ Patch(p) # Original
  <2>1. 1 \in Words /\ 1 # PatchLen
    BY DEF Words
  <2>2. Patch(p) \in Code
    BY DEF Patch, Code
  <2>3. Patch(p)[1] = p
    BY <2>1 DEF Patch
  <2>4. Original[1] = "own"
    BY <2>1 DEF Original
  <2>5. QED
    BY <2>2, <2>3, <2>4
<1>3. ASSUME NEW p \in Ptrs, NEW q \in Ptrs, Patch(p) = Patch(q)
      PROVE  p = q
  BY <1>2, <1>3
<1>4. QED
  BY <1>1, <1>2, <1>3

-----------------------------------------------------------------------------
(* Type correctness.                                                       *)

\* The records that stand for a forcer or a thread at rest have their types.
LEMMA RestTypes == Gone \in OpType /\ Idle \in OpType /\ Outside \in CallType
<1>1. 1 \in Words
  BY DEF Words
<1>2. QED
  BY <1>1, CodeFacts DEF Gone, Idle, AtRest, Outside, OpType, CallType

LEMMA TypeInit == Init => TypeOK
<1> SUFFICES ASSUME Init PROVE TypeOK
  OBVIOUS
<1> USE DEF Init
<1>1. text \in [Fns -> Code] /\ writable \in BOOLEAN /\ heap \in [Ptrs -> Errors \cup {"freed"}]
  BY CodeFacts
<1>2. forced \in [Forcers -> [Locs -> ForcedException \cup {None}]] /\ ret \in [Forcers -> RetType \cup {None}]
  OBVIOUS
<1>3. OpsTyped
  BY RestTypes DEF Gone, AtRest, Active, OpsTyped
<1>4. CallsTyped
  BY RestTypes DEF Outside, CallsTyped
<1>5. QED
  BY <1>1, <1>2, <1>3, <1>4 DEF TypeOK

\* Beginning a constructor or a destructor keeps the types of op ...
LEMMA TypeBegin ==
  ASSUME OpsTyped, NEW x \in Forcers, NEW l \in Locs, NEW fe \in ForcedException,
         NEW api \in {"force", "unforce", "destroy"}, NEW phase \in {"construct", "destruct"},
         Begin(x, api, phase, l, fe)
  PROVE  OpsTyped'
<1> DEFINE o == [pc |-> "unprotect", phase |-> phase, api |-> api,
                 loc |-> l, fe |-> fe, left |-> Words]
<1>1. o \in OpType /\ o.loc = l /\ o.fe = fe
  BY DEF OpType
<1> HIDE DEF o
<1>2. op' = [op EXCEPT ![x] = o]
  BY DEF Begin, o
<1> QED
  BY <1>1, <1>2 DEF OpsTyped, Active

\* ... and so does the next step of a call that is in progress, or its end.
LEMMA TypeAt ==
  ASSUME OpsTyped, NEW x \in Forcers, Active(x),
         NEW pc \in {"copy", "protect", "emplace", "free"}, NEW left \in SUBSET Words,
         op' = [op EXCEPT ![x] = At(pc, left, @)]
  PROVE  OpsTyped'
<1>1. /\ At(pc, left, op[x]) \in OpType
      /\ At(pc, left, op[x]).loc = op[x].loc /\ At(pc, left, op[x]).fe = op[x].fe
  BY DEF At, OpsTyped, OpType
<1> QED
  BY <1>1 DEF OpsTyped, Active

LEMMA TypeRest ==
  ASSUME OpsTyped, NEW x \in Forcers, op' = [op EXCEPT ![x] = Idle] \/ op' = [op EXCEPT ![x] = Gone]
  PROVE  OpsTyped'
<1>1. Idle.pc = "idle" /\ Gone.pc = "gone"
  BY DEF Idle, Gone, AtRest
<1> QED
  BY <1>1, RestTypes DEF OpsTyped, Active

\* Marking calls as disturbed keeps their types.
LEMMA TypeDisturb ==
  ASSUME CallsTyped, NEW f, Disturb(f)
  PROVE  CallsTyped'
<1> DEFINE d(c) == [pc |-> c.pc, fn |-> c.fn, next |-> c.next, code |-> c.code,
                    due |-> c.due, calm |-> c.calm /\ c.fn # f, out |-> c.out]
<1>1. \A c \in CallType : d(c) \in CallType /\ d(c).pc = c.pc /\ d(c).fn = c.fn /\ d(c).code = c.code
  BY DEF CallType
<1>2. call' = [t \in Threads |-> d(call[t])]
  BY DEF Disturb
<1> HIDE DEF d
<1> QED
  BY <1>1, <1>2 DEF CallsTyped

\* Every step keeps the types: those that begin an API call, ...
LEMMA TypeDestroyNext ==
  ASSUME TypeOK, NEW x \in Forcers, DestroyNext(x)
  PROVE  OpsTyped' /\ forced' \in [Forcers -> [Locs -> ForcedException \cup {None}]] /\ CallsTyped'
<1> USE DEF TypeOK
<1>1. CASE Forced(x) = {}
  BY <1>1, TypeRest DEF DestroyNext, CallsTyped
<1>2. CASE Forced(x) # {}
  <2>1. PICK l \in Forced(x) :
          /\ Begin(x, "destroy", "destruct", l, forced[x][l])
          /\ forced' = [forced EXCEPT ![x][l] = None]
          /\ Disturb(FnOf[l])
    BY <1>2 DEF DestroyNext
  <2>2. l \in Locs /\ forced[x][l] \in ForcedException
    <3>1. l \in Locs /\ forced[x][l] # None
      BY DEF Forced
    <3>2. forced[x] \in [Locs -> ForcedException \cup {None}]
      OBVIOUS
    <3> QED
      BY <3>1, <3>2
  <2>3. OpsTyped'
    BY <2>1, <2>2, TypeBegin
  <2>4. CallsTyped'
    BY <2>1, TypeDisturb
  <2> QED
    BY <2>1, <2>2, <2>3, <2>4
<1> QED
  BY <1>1, <1>2

LEMMA TypeClient ==
  ASSUME TypeOK, NEW x \in Forcers, Client(x)
  PROVE  TypeOK'
<1> USE DEF TypeOK
<1>1. CASE Construct(x)
  <2>1. OpsTyped'
    BY <1>1, TypeRest DEF Construct
  <2> QED
    BY <1>1, <2>1 DEF Construct, CallsTyped
<1>2. CASE Destroy(x)
  BY <1>2, TypeDestroyNext DEF Destroy
<1>3. ASSUME NEW a \in Addrs, NEW e \in Errors \cup {NoError}, ForceRejected(x, a, e)
      PROVE  TypeOK'
  <2>1. [loc |-> a, ok |-> FALSE, want |-> NoError] \in RetType
    BY DEF RetType
  <2> QED
    BY <1>3, <2>1 DEF ForceRejected, OpsTyped, CallsTyped, Active
<1>4. ASSUME NEW a \in Addrs, NEW e \in Errors \cup {NoError}, ForceException(x, a, e)
      PROVE  TypeOK'
  <2>1. PICK p \in Ptrs :
          /\ Allocate(p, ErrorToThrow(a, e))
          /\ Begin(x, "force", "construct", a, [ptr |-> p, data |-> text[FnOf[a]]])
    BY <1>4 DEF ForceException
  <2>2. a \in Locs /\ ErrorToThrow(a, e) \in Errors
    BY <1>4 DEF ForceException, Accepted, ErrorToThrow
  <2>3. [ptr |-> p, data |-> text[FnOf[a]]] \in ForcedException
    BY <2>2 DEF ForcedException
  <2>4. OpsTyped'
    BY <2>1, <2>2, <2>3, TypeBegin
  <2>5. CallsTyped'
    BY <1>4, TypeDisturb DEF ForceException
  <2>6. heap' \in [Ptrs -> Errors \cup {"freed"}]
    BY <2>1, <2>2 DEF Allocate
  <2> QED
    BY <1>4, <2>4, <2>5, <2>6 DEF ForceException
<1>5. ASSUME NEW l \in Locs, UnforceException(x, l)
      PROVE  TypeOK'
  <2>1. forced[x][l] \in ForcedException
    BY <1>5 DEF UnforceException
  <2>2. OpsTyped'
    BY <1>5, <2>1, TypeBegin DEF UnforceException
  <2>3. CallsTyped'
    BY <1>5, TypeDisturb DEF UnforceException
  <2> QED
    BY <1>5, <2>2, <2>3 DEF UnforceException
<1> QED
  BY <1>1, <1>2, <1>3, <1>4, <1>5 DEF Client

\* ... those a call in progress takes, ...
LEMMA TypeStep ==
  ASSUME TypeOK, NEW x \in Forcers, Step(x)
  PROVE  TypeOK'
<1> USE DEF TypeOK
<1>a. UNCHANGED call => CallsTyped'
  BY DEF CallsTyped
<1>b. UNCHANGED op => OpsTyped'
  BY DEF OpsTyped, Active
<1>c. Active(x) => Returns(x) \in RetType
  BY DEF Returns, RetType, OpsTyped, ForcedException
<1>1. CASE Unprotect(x)
  <2>1. OpsTyped'
    BY <1>1, TypeAt DEF Unprotect, Executing, Active
  <2> QED
    BY <1>1, <1>a, <2>1 DEF Unprotect
<1>2. CASE ConstructorThrows(x)
  <2>1. OpsTyped'
    BY <1>2, TypeRest DEF ConstructorThrows
  <2>2. [loc |-> op[x].loc, ok |-> FALSE, want |-> NoError] \in RetType
    BY <1>2 DEF ConstructorThrows, Executing, RetType, OpsTyped, Active
  <2> QED
    BY <1>2, <1>a, <2>1, <2>2 DEF ConstructorThrows, Release
<1>3. CASE DestructorTerminates(x) \/ CopyFaults(x)
  BY <1>3, <1>a, <1>b DEF DestructorTerminates, CopyFaults
<1>4. CASE Copy(x)
  <2>1. PICK i \in op[x].left :
          /\ text' = [text EXCEPT ![FnOf[op[x].loc]][i] = Source(op[x])[i]]
          /\ op' = [op EXCEPT ![x] = IF @.left = {i} THEN At("protect", {}, @)
                                     ELSE At("copy", @.left \ {i}, @)]
    BY <1>4 DEF Copy
  <2>2. Active(x) /\ op[x].left \in SUBSET Words
    BY <1>4 DEF Copy, Executing, Active, OpsTyped, OpType
  <2>3. OpsTyped'
    <3>1. CASE op[x].left = {i}
      BY <2>1, <2>2, <3>1, TypeAt
    <3>2. CASE op[x].left # {i}
      <4>1. op' = [op EXCEPT ![x] = At("copy", @.left \ {i}, @)]
        BY <2>1, <3>2
      <4>2. op[x].left \ {i} \in SUBSET Words
        BY <2>2
      <4> QED
        BY <2>2, <4>1, <4>2, TypeAt
    <3> QED
      BY <3>1, <3>2
  <2>4. op[x].loc \in Locs /\ Source(op[x]) \in Code
    BY <2>2, CodeFacts DEF OpsTyped, Source, ForcedException
  <2>5. text' \in [Fns -> Code]
    BY <2>1, <2>2, <2>4 DEF Code
  <2> QED
    BY <1>4, <1>a, <2>3, <2>5 DEF Copy
<1>5. CASE Protect(x)
  <2>1. OpsTyped'
    BY <1>5, TypeAt DEF Protect, Executing, Active
  <2> QED
    BY <1>5, <1>a, <2>1 DEF Protect, Reprotect
<1>6. CASE Emplace(x)
  <2>1. Active(x)
    BY <1>6 DEF Emplace, Executing, Active
  <2>2. OpsTyped'
    BY <1>6, TypeRest DEF Emplace
  <2> QED
    BY <1>6, <1>a, <1>c, <2>1, <2>2 DEF Emplace, OpsTyped
<1>7. CASE EmplaceDuplicate(x)
  <2>1. op[x].loc \in Locs /\ op[x].fe \in ForcedException
    BY <1>7 DEF EmplaceDuplicate, Executing, Active, OpsTyped
  <2>2. OpsTyped'
    BY <1>7, <2>1, TypeBegin DEF EmplaceDuplicate
  <2> QED
    BY <1>7, <1>a, <2>2 DEF EmplaceDuplicate
<1>8. CASE Free(x)
  <2>1. Active(x)
    BY <1>8 DEF Free, Executing, Active
  <2>2. heap' \in [Ptrs -> Errors \cup {"freed"}]
    BY <1>8 DEF Free, Release
  <2>3. ret' \in [Forcers -> RetType \cup {None}]
    BY <1>8, <1>c, <2>1 DEF Free
  <2>4. CASE op[x].api = "destroy"
    BY <1>8, <2>2, <2>3, <2>4, TypeDestroyNext DEF Free
  <2>5. CASE op[x].api # "destroy"
    <3>1. OpsTyped'
      BY <1>8, <2>5, TypeRest DEF Free
    <3> QED
      BY <1>8, <1>a, <2>2, <2>3, <2>5, <3>1 DEF Free
  <2> QED
    BY <2>4, <2>5
<1> QED
  BY <1>1, <1>2, <1>3, <1>4, <1>5, <1>6, <1>7, <1>8 DEF Step

\* ... and those of the threads.
LEMMA TypeCalls ==
  ASSUME TypeOK, NEW t \in Threads, Calls(t)
  PROVE  TypeOK'
<1> USE DEF TypeOK
<1>a. ASSUME NEW c \in CallType,
             c.pc # "outside" => c.fn \in Fns,
             c.pc = "throw" => c.code[1] \in Ptrs,
             call' = [call EXCEPT ![t] = c],
             UNCHANGED <<text, writable, heap, forced, op, ret, status>>
      PROVE  TypeOK'
  BY <1>a DEF CallsTyped, OpsTyped, Active
<1>b. call[t] \in CallType
  BY DEF CallsTyped
<1>c. \A f \in Fns : Promised(f) \in SUBSET (Errors \cup {"freed"})
  BY DEF Promised
<1>1. ASSUME NEW f \in Fns, Enter(t, f)
      PROVE  TypeOK'
  <2> DEFINE c == [pc |-> "head", fn |-> f, next |-> 1, code |-> Original, due |-> Promised(f),
                   calm |-> \A x \in Forcers : Active(x) => FnOf[op[x].loc] # f, out |-> "none"]
  <2>1. c \in CallType /\ c.pc = "head" /\ c.fn \in Fns
    BY <1>c, CodeFacts DEF CallType, Words
  <2>2. call' = [call EXCEPT ![t] = c] /\ UNCHANGED <<text, writable, heap, forced, op, ret, status>>
    BY <1>1 DEF Enter
  <2> HIDE DEF c
  <2> QED
    BY <2>1, <2>2, <1>a
<1>2. CASE Fetch(t)
  <2> DEFINE i    == call[t].next
             code == [call[t].code EXCEPT ![i] = text[call[t].fn][i]]
  <2>1. call[t].pc = "head" /\ call[t].fn \in Fns
    BY <1>2 DEF Fetch, CallsTyped
  <2>2. i \in Words /\ call[t].code \in Code
    BY <1>b DEF CallType
  <2>3. text[call[t].fn] \in Code
    BY <2>1
  <2>4. code \in Code
    BY <2>2, <2>3 DEF Code
  <2> HIDE DEF i, code
  <2>5. CASE i < PatchLen
    <3>1. i + 1 \in Words
      BY <2>2, <2>5 DEF Words
    <3>2. /\ Fetched(call[t], "head", i + 1, code, "none") \in CallType
          /\ Fetched(call[t], "head", i + 1, code, "none").pc = "head"
          /\ Fetched(call[t], "head", i + 1, code, "none").fn \in Fns
      BY <1>b, <2>1, <2>4, <3>1 DEF Fetched, CallType
    <3>3. call' = [call EXCEPT ![t] = Fetched(call[t], "head", i + 1, code, "none")]
      BY <1>2, <2>5 DEF Fetch, i, code
    <3> QED
      BY <1>2, <1>a, <3>2, <3>3 DEF Fetch
  <2>6. CASE ~(i < PatchLen)
    <3>1. /\ Reach(call[t], code) \in CallType
          /\ Reach(call[t], code).fn \in Fns
          /\ Reach(call[t], code).pc = "throw" => Reach(call[t], code).code[1] \in Ptrs
      <4>1. CASE code = Original
        BY <1>b, <2>1, <2>4, <4>1 DEF Reach, Fetched, CallType
      <4>2. CASE code # Original /\ \E p \in Ptrs : code = Patch(p)
        <5>1. code[1] \in Ptrs
          BY <4>2, CodeFacts
        <5> QED
          BY <1>b, <2>1, <2>4, <4>2, <5>1 DEF Reach, Fetched, CallType
      <4>3. CASE code # Original /\ ~ \E p \in Ptrs : code = Patch(p)
        BY <1>b, <2>1, <2>4, <4>3 DEF Reach, Fetched, CallType
      <4> QED
        BY <4>1, <4>2, <4>3
    <3>2. call' = [call EXCEPT ![t] = Reach(call[t], code)]
      BY <1>2, <2>6 DEF Fetch, i, code
    <3> QED
      BY <1>2, <1>a, <3>1, <3>2 DEF Fetch
  <2> QED
    BY <2>5, <2>6
<1>3. CASE Throw(t)
  <2> DEFINE error == heap[call[t].code[1]]
             c     == Fetched(call[t], "done", call[t].next, call[t].code,
                              IF error = "freed" THEN "dangling" ELSE error)
  <2>1. call[t].fn \in Fns /\ error \in Errors \cup {"freed"}
    BY <1>3 DEF Throw, CallsTyped
  <2>2. c \in CallType /\ c.pc = "done" /\ c.fn \in Fns
    BY <1>b, <2>1 DEF Fetched, CallType
  <2>3. call' = [call EXCEPT ![t] = c] /\ UNCHANGED <<text, writable, heap, forced, op, ret, status>>
    BY <1>3 DEF Throw
  <2> HIDE DEF c
  <2> QED
    BY <1>a, <2>2, <2>3
<1>4. CASE Leave(t)
  BY <1>4, <1>a, RestTypes DEF Leave, Outside
<1> QED
  BY <1>1, <1>2, <1>3, <1>4 DEF Calls

LEMMA TypeNext == TypeOK /\ [Next]_vars => TypeOK'
<1> SUFFICES ASSUME TypeOK, [Next]_vars PROVE TypeOK'
  OBVIOUS
<1>1. CASE UNCHANGED vars
  BY <1>1 DEF vars, TypeOK, OpsTyped, CallsTyped, Active
<1>2. CASE Next
  BY <1>2, TypeClient, TypeStep, TypeCalls DEF Next
<1> QED
  BY <1>1, <1>2

\* TypeOK holds in every state of every program that uses the library.
THEOREM TypeCorrect == Spec => []TypeOK
  BY TypeInit, TypeNext, PTL DEF Spec

-----------------------------------------------------------------------------
(* The steps of one forcer, seen from the ones that do not move: every step *)
(* changes op, if at all, at the forcer that takes it.                      *)

\* What a step does to the op of the forcer that takes it.
LEMMA OpMoves ==
  ASSUME TypeOK, OpShape, NEW x \in Forcers, Client(x) \/ Step(x)
  PROVE  \E o \in OpType : op' = [op EXCEPT ![x] = o] /\ Shaped(o)
<1> USE DEF TypeOK
<1>a. op = [op EXCEPT ![x] = op[x]] /\ op[x] \in OpType /\ Shaped(op[x])
  BY DEF OpsTyped, OpShape
<1>b. Shaped(Idle) /\ Shaped(Gone)
  BY DEF Shaped, Idle, Gone, AtRest
<1>c. ASSUME NEW l \in Locs, NEW fe \in ForcedException,
             NEW api \in {"force", "unforce", "destroy"}, NEW phase \in {"construct", "destruct"},
             Begin(x, api, phase, l, fe)
      PROVE  \E o \in OpType : op' = [op EXCEPT ![x] = o] /\ Shaped(o)
  <2> DEFINE o == [pc |-> "unprotect", phase |-> phase, api |-> api,
                   loc |-> l, fe |-> fe, left |-> Words]
  <2>1. o \in OpType /\ Shaped(o)
    BY DEF OpType, Shaped
  <2>2. op' = [op EXCEPT ![x] = o]
    BY <1>c DEF Begin
  <2> HIDE DEF o
  <2> QED
    BY <2>1, <2>2
<1>d. DestroyNext(x) => \E o \in OpType : op' = [op EXCEPT ![x] = o] /\ Shaped(o)
  <2>1. CASE Forced(x) = {}
    BY <2>1, <1>b, RestTypes DEF DestroyNext
  <2>2. ASSUME Forced(x) # {}, DestroyNext(x)
        PROVE  \E l \in Forced(x) : Begin(x, "destroy", "destruct", l, forced[x][l])
    BY <2>2 DEF DestroyNext
  <2>3. ASSUME NEW l \in Forced(x) PROVE l \in Locs /\ forced[x][l] \in ForcedException
    <3>1. l \in Locs /\ forced[x][l] # None
      BY DEF Forced
    <3>2. forced[x] \in [Locs -> ForcedException \cup {None}]
      OBVIOUS
    <3> QED
      BY <3>1, <3>2
  <2> QED
    BY <2>1, <2>2, <2>3, <1>c
<1>1. CASE Client(x)
  <2>1. CASE Construct(x)
    BY <2>1, <1>b, RestTypes DEF Construct
  <2>2. CASE Destroy(x)
    BY <2>2, <1>d DEF Destroy
  <2>3. CASE \E a \in Addrs, e \in Errors \cup {NoError} : ForceRejected(x, a, e)
    BY <2>3, <1>a DEF ForceRejected
  <2>4. ASSUME NEW a \in Addrs, NEW e \in Errors \cup {NoError}, ForceException(x, a, e)
        PROVE  \E o \in OpType : op' = [op EXCEPT ![x] = o] /\ Shaped(o)
    <3>1. PICK p \in Ptrs : Begin(x, "force", "construct", a, [ptr |-> p, data |-> text[FnOf[a]]])
      BY <2>4 DEF ForceException
    <3>2. a \in Locs /\ [ptr |-> p, data |-> text[FnOf[a]]] \in ForcedException
      BY <2>4 DEF ForceException, Accepted, ForcedException
    <3> QED
      BY <3>1, <3>2, <1>c
  <2>5. ASSUME NEW l \in Locs, UnforceException(x, l)
        PROVE  \E o \in OpType : op' = [op EXCEPT ![x] = o] /\ Shaped(o)
    <3>1. forced[x][l] \in ForcedException /\ Begin(x, "unforce", "destruct", l, forced[x][l])
      BY <2>5 DEF UnforceException
    <3> QED
      BY <3>1, <1>c
  <2> QED
    BY <1>1, <2>1, <2>2, <2>3, <2>4, <2>5 DEF Client
<1>2. CASE Step(x)
  <2>a. ASSUME Active(x), NEW pc \in {"copy", "protect", "emplace", "free"}, NEW left \in SUBSET Words
        PROVE  /\ At(pc, left, op[x]) \in OpType
               /\ \/ pc = "copy" /\ left # {}
                  \/ pc = "protect" /\ left = {}
                  \/ pc = "emplace" /\ left = {} /\ op[x].phase = "construct"
                  \/ pc = "free" /\ left = {} /\ op[x].phase = "destruct"
                  => Shaped(At(pc, left, op[x]))
    BY <2>a, <1>a DEF At, OpType, Shaped, Active
  <2>1. CASE Unprotect(x)
    <3>1. Active(x) /\ op' = [op EXCEPT ![x] = At("copy", Words, op[x])]
      BY <2>1 DEF Unprotect, Executing, Active
    <3>2. 1 \in Words
      BY DEF Words
    <3>3. At("copy", Words, op[x]) \in OpType /\ Shaped(At("copy", Words, op[x]))
      BY <3>1, <3>2, <2>a
    <3> QED
      BY <3>1, <3>3
  <2>2. CASE ConstructorThrows(x) \/ Emplace(x)
    BY <2>2, <1>b, RestTypes DEF ConstructorThrows, Emplace
  <2>3. CASE DestructorTerminates(x) \/ CopyFaults(x)
    BY <2>3, <1>a DEF DestructorTerminates, CopyFaults
  <2>4. CASE Copy(x)
    <3>1. PICK i \in op[x].left : op' = [op EXCEPT ![x] = IF @.left = {i} THEN At("protect", {}, @)
                                                          ELSE At("copy", @.left \ {i}, @)]
      BY <2>4 DEF Copy
    <3>2. Active(x) /\ op[x].left \in SUBSET Words
      BY <2>4, <1>a DEF Copy, Executing, Active, OpType
    <3>3. CASE op[x].left = {i}
      <4>1. op' = [op EXCEPT ![x] = At("protect", {}, op[x])]
        BY <3>1, <3>3
      <4>2. {} \in SUBSET Words
        OBVIOUS
      <4> QED
        BY <4>1, <4>2, <3>2, <2>a
    <3>4. CASE op[x].left # {i}
      <4>1. op' = [op EXCEPT ![x] = At("copy", op[x].left \ {i}, op[x])]
        BY <3>1, <3>4
      <4>2. op[x].left \ {i} \in SUBSET Words /\ op[x].left \ {i} # {}
        BY <3>2, <3>4
      <4> QED
        BY <4>1, <4>2, <3>2, <2>a
    <3> QED
      BY <3>3, <3>4
  <2>5. CASE Protect(x)
    <3>1. Active(x) /\ op[x].phase \in {"construct", "destruct"}
      BY <2>5, <1>a DEF Protect, Executing, Active, Shaped
    <3>2. CASE op[x].phase = "construct"
      BY <2>5, <3>1, <3>2, <2>a DEF Protect
    <3>3. CASE op[x].phase = "destruct"
      BY <2>5, <3>1, <3>3, <2>a DEF Protect
    <3> QED
      BY <3>1, <3>2, <3>3
  <2>6. CASE EmplaceDuplicate(x)
    <3>1. op[x].loc \in Locs /\ op[x].fe \in ForcedException
      BY <2>6 DEF EmplaceDuplicate, Executing, OpsTyped, Active
    <3> QED
      BY <2>6, <3>1, <1>c DEF EmplaceDuplicate
  <2>7. CASE Free(x)
    BY <2>7, <1>d, <1>b, RestTypes DEF Free
  <2> QED
    BY <1>2, <2>1, <2>2, <2>3, <2>4, <2>5, <2>6, <2>7 DEF Step
<1> QED
  BY <1>1, <1>2

\* The local state of every call in progress fits its program counter.
LEMMA ShapeNext == TypeOK /\ OpShape /\ [Next]_vars => OpShape'
<1> SUFFICES ASSUME TypeOK, OpShape, [Next]_vars PROVE OpShape'
  OBVIOUS
<1>1. ASSUME NEW x \in Forcers, Client(x) \/ Step(x) PROVE OpShape'
  BY <1>1, OpMoves DEF OpShape, TypeOK, OpsTyped
<1>2. ASSUME NEW t \in Threads, Calls(t) PROVE OpShape'
  BY <1>2 DEF Calls, Enter, Fetch, Throw, Leave, OpShape
<1>3. CASE UNCHANGED vars
  BY <1>3 DEF vars, OpShape
<1> QED
  BY <1>1, <1>2, <1>3 DEF Next

-----------------------------------------------------------------------------
(* Ownership of heap cells: the ways in which a step can move a cell.       *)

\* A step that changes no cell, no map and no object of a call.
LEMMA OwnersStay ==
  ASSUME CellsOwnedOnce, UNCHANGED <<heap, forced>>,
         \A x \in Forcers : Active(x)' = Active(x) /\ (Active(x) => op'[x].fe = op[x].fe)
  PROVE  CellsOwnedOnce'
<1>1. \A x \in Forcers, p \in Ptrs : OpOwns(x, p)' <=> OpOwns(x, p)
  BY DEF OpOwns
<1>2. \A x \in Forcers, l \in Locs, p \in Ptrs : EntryOwns(x, l, p)' <=> EntryOwns(x, l, p)
  BY DEF EntryOwns
<1>live. LiveCellsOwned'
  <2>1. ASSUME NEW p \in Ptrs
        PROVE  heap[p] # "freed" <=> \/ \E x \in Forcers : OpOwns(x, p)'
                                     \/ \E x \in Forcers, l \in Locs : EntryOwns(x, l, p)'
    BY <1>1, <1>2 DEF CellsOwnedOnce, LiveCellsOwned
  <2> QED
    BY <2>1 DEF LiveCellsOwned
<1>distinct. OwnersDistinct'
  BY <1>1, <1>2 DEF CellsOwnedOnce, OwnersDistinct
<1> QED
  BY <1>live, <1>distinct DEF CellsOwnedOnce

\* A forcer at rest allocates a cell.
LEMMA OwnerAllocates ==
  ASSUME TypeOK, CellsOwnedOnce, NEW x \in Forcers, ~Active(x), NEW p \in Ptrs,
         NEW e \in Errors, Allocate(p, e), UNCHANGED forced,
         Active(x)', op'[x].fe.ptr = p,
         \A y \in Forcers \ {x} : op'[y] = op[y]
  PROVE  CellsOwnedOnce'
<1>1. heap[p] = "freed" /\ \A q \in Ptrs : heap'[q] # "freed" <=> q = p \/ heap[q] # "freed"
  BY DEF Allocate, TypeOK
<1>2. \A y \in Forcers, q \in Ptrs : OpOwns(y, q)' <=> OpOwns(y, q) \/ (y = x /\ q = p)
  BY DEF OpOwns, Active
<1>3. \A y \in Forcers, l \in Locs, q \in Ptrs : EntryOwns(y, l, q)' <=> EntryOwns(y, l, q)
  BY DEF EntryOwns
<1>4. \A y \in Forcers : ~OpOwns(y, p) /\ \A l \in Locs : ~EntryOwns(y, l, p)
  BY <1>1 DEF CellsOwnedOnce, LiveCellsOwned
<1>live. LiveCellsOwned'
  BY <1>1, <1>2, <1>3, <1>4, SMTT(30) DEF CellsOwnedOnce, LiveCellsOwned, OwnersDistinct
<1>distinct. OwnersDistinct'
  BY <1>1, <1>2, <1>3, <1>4 DEF CellsOwnedOnce, OwnersDistinct
<1> QED
  BY <1>live, <1>distinct DEF CellsOwnedOnce

\* A forcer at rest starts to destroy one of its entries.
LEMMA OwnerUnlinks ==
  ASSUME TypeOK, CellsOwnedOnce, NEW x \in Forcers, ~Active(x), NEW l \in Locs,
         forced[x][l] # None, forced' = [forced EXCEPT ![x][l] = None],
         Active(x)', op'[x].fe = forced[x][l],
         \A y \in Forcers \ {x} : op'[y] = op[y], UNCHANGED heap
  PROVE  CellsOwnedOnce'
<1> DEFINE p == forced[x][l].ptr
<1>1. p \in Ptrs
  BY DEF TypeOK, ForcedException
<1>2. \A y \in Forcers, q \in Ptrs : OpOwns(y, q)' <=> OpOwns(y, q) \/ (y = x /\ q = p)
  BY DEF OpOwns, Active
<1>3. \A y \in Forcers, m \in Locs, q \in Ptrs :
        EntryOwns(y, m, q)' <=> EntryOwns(y, m, q) /\ ~(y = x /\ m = l)
  BY DEF EntryOwns, TypeOK
<1>4. EntryOwns(x, l, p) /\ \A q \in Ptrs : EntryOwns(x, l, q) => q = p
  BY DEF EntryOwns
<1> HIDE DEF p
<1>live. LiveCellsOwned'
  BY <1>1, <1>2, <1>3, <1>4, SMTT(30) DEF CellsOwnedOnce, LiveCellsOwned, OwnersDistinct
<1>distinct. OwnersDistinct'
  BY <1>1, <1>2, <1>3, <1>4 DEF CellsOwnedOnce, OwnersDistinct
<1> QED
  BY <1>live, <1>distinct DEF CellsOwnedOnce

\* A call moves its object into the map.
LEMMA OwnerLinks ==
  ASSUME TypeOK, CellsOwnedOnce, NEW x \in Forcers, Active(x), NEW l \in Locs,
         forced[x][l] = None, forced' = [forced EXCEPT ![x][l] = op[x].fe],
         ~Active(x)', \A y \in Forcers \ {x} : op'[y] = op[y], UNCHANGED heap
  PROVE  CellsOwnedOnce'
<1> DEFINE p == op[x].fe.ptr
<1>1. p \in Ptrs /\ op[x].fe # None
  BY DEF TypeOK, OpsTyped, ForcedException
<1>2. \A y \in Forcers, q \in Ptrs : OpOwns(y, q)' <=> OpOwns(y, q) /\ y # x
  BY DEF OpOwns, Active
<1>3. \A y \in Forcers, m \in Locs, q \in Ptrs :
        EntryOwns(y, m, q)' <=> EntryOwns(y, m, q) \/ (y = x /\ m = l /\ q = p)
  BY <1>1 DEF EntryOwns, TypeOK
<1>4. OpOwns(x, p) /\ \A q \in Ptrs : OpOwns(x, q) => q = p
  BY DEF OpOwns
<1> HIDE DEF p
<1>live. LiveCellsOwned'
  BY <1>1, <1>2, <1>3, <1>4, SMTT(30) DEF CellsOwnedOnce, LiveCellsOwned, OwnersDistinct
<1>distinct. OwnersDistinct'
  BY <1>1, <1>2, <1>3, <1>4 DEF CellsOwnedOnce, OwnersDistinct
<1> QED
  BY <1>live, <1>distinct DEF CellsOwnedOnce

\* A call frees the cell of its object and ends.
LEMMA OwnerFrees ==
  ASSUME TypeOK, CellsOwnedOnce, NEW x \in Forcers, Active(x), Release(op[x].fe.ptr),
         UNCHANGED forced, ~Active(x)', \A y \in Forcers \ {x} : op'[y] = op[y]
  PROVE  CellsOwnedOnce'
<1> DEFINE p == op[x].fe.ptr
<1>1. p \in Ptrs
  BY DEF TypeOK, OpsTyped, ForcedException
<1>2. \A y \in Forcers, q \in Ptrs : OpOwns(y, q)' <=> OpOwns(y, q) /\ y # x
  BY DEF OpOwns, Active
<1>3. \A y \in Forcers, m \in Locs, q \in Ptrs : EntryOwns(y, m, q)' <=> EntryOwns(y, m, q)
  BY DEF EntryOwns
<1>4. OpOwns(x, p) /\ \A q \in Ptrs : OpOwns(x, q) => q = p
  BY DEF OpOwns
<1>5. \A q \in Ptrs : heap'[q] # "freed" <=> q # p /\ heap[q] # "freed"
  BY DEF Release, TypeOK
<1> HIDE DEF p
<1>live. LiveCellsOwned'
  BY <1>1, <1>2, <1>3, <1>4, <1>5, SMTT(30) DEF CellsOwnedOnce, LiveCellsOwned, OwnersDistinct
<1>distinct. OwnersDistinct'
  BY <1>1, <1>2, <1>3, <1>4, <1>5 DEF CellsOwnedOnce, OwnersDistinct
<1> QED
  BY <1>live, <1>distinct DEF CellsOwnedOnce

\* A call frees the cell of its object and goes on to destroy an entry.
LEMMA OwnerFreesAndUnlinks ==
  ASSUME TypeOK, CellsOwnedOnce, NEW x \in Forcers, Active(x), Release(op[x].fe.ptr),
         NEW l \in Locs, forced[x][l] # None, forced' = [forced EXCEPT ![x][l] = None],
         Active(x)', op'[x].fe = forced[x][l], \A y \in Forcers \ {x} : op'[y] = op[y]
  PROVE  CellsOwnedOnce'
<1> DEFINE p == op[x].fe.ptr
           r == forced[x][l].ptr
<1>1. p \in Ptrs /\ r \in Ptrs
  BY DEF TypeOK, OpsTyped, ForcedException
<1>2. \A y \in Forcers, q \in Ptrs : OpOwns(y, q)' <=> (OpOwns(y, q) /\ y # x) \/ (y = x /\ q = r)
  BY DEF OpOwns, Active
<1>3. \A y \in Forcers, m \in Locs, q \in Ptrs :
        EntryOwns(y, m, q)' <=> EntryOwns(y, m, q) /\ ~(y = x /\ m = l)
  BY DEF EntryOwns, TypeOK
<1>4. /\ OpOwns(x, p) /\ \A q \in Ptrs : OpOwns(x, q) => q = p
      /\ EntryOwns(x, l, r) /\ \A q \in Ptrs : EntryOwns(x, l, q) => q = r
  BY DEF OpOwns, EntryOwns
<1>5. \A q \in Ptrs : heap'[q] # "freed" <=> q # p /\ heap[q] # "freed"
  BY DEF Release, TypeOK
<1> HIDE DEF p, r
<1>live. LiveCellsOwned'
  BY <1>1, <1>2, <1>3, <1>4, <1>5, SMTT(30) DEF CellsOwnedOnce, LiveCellsOwned, OwnersDistinct
<1>distinct. OwnersDistinct'
  BY <1>1, <1>2, <1>3, <1>4, <1>5 DEF CellsOwnedOnce, OwnersDistinct
<1> QED
  BY <1>live, <1>distinct DEF CellsOwnedOnce

\* Every step moves a cell in one of these ways, or not at all.
LEMMA CellsNext == TypeOK /\ CellsOwnedOnce /\ [Next]_vars => CellsOwnedOnce'
<1> SUFFICES ASSUME TypeOK, CellsOwnedOnce, [Next]_vars PROVE CellsOwnedOnce'
  OBVIOUS
<1>a. UNCHANGED <<heap, forced, op>> => CellsOwnedOnce'
  BY OwnersStay DEF Active
\* What Begin and the end of a call do to the op of the forcer.
<1>b. ASSUME NEW x \in Forcers, NEW l, NEW fe, NEW api, NEW phase, Begin(x, api, phase, l, fe)
      PROVE  Active(x)' /\ op'[x].fe = fe /\ \A y \in Forcers \ {x} : op'[y] = op[y]
  BY <1>b DEF Begin, Active, TypeOK, OpsTyped
<1>c. ASSUME NEW x \in Forcers, op' = [op EXCEPT ![x] = Idle] \/ op' = [op EXCEPT ![x] = Gone]
      PROVE  ~Active(x)' /\ \A y \in Forcers \ {x} : op'[y] = op[y]
  BY <1>c DEF Active, Idle, Gone, AtRest, TypeOK, OpsTyped
<1>d. ASSUME NEW x \in Forcers, Active(x), NEW pc \in {"copy", "protect", "emplace", "free"}, NEW left,
             op' = [op EXCEPT ![x] = At(pc, left, @)], UNCHANGED <<heap, forced>>
      PROVE  CellsOwnedOnce'
  <2>1. At(pc, left, op[x]).pc = pc /\ At(pc, left, op[x]).fe = op[x].fe
    BY DEF At
  <2>2. \A y \in Forcers : Active(y)' = Active(y) /\ (Active(y) => op'[y].fe = op[y].fe)
    BY <1>d, <2>1 DEF Active, TypeOK, OpsTyped
  <2> QED
    BY <1>d, <2>2, OwnersStay
<1>1. ASSUME NEW x \in Forcers, Client(x)
      PROVE  CellsOwnedOnce'
  <2>1. CASE Construct(x)
    <3>1. ~Active(x)
      BY <2>1 DEF Construct, Active
    <3>2. \A y \in Forcers : Active(y)' = Active(y) /\ (Active(y) => op'[y].fe = op[y].fe)
      BY <2>1, <3>1, <1>c DEF Construct, Active
    <3> QED
      BY <2>1, <3>2, OwnersStay DEF Construct
  <2>2. CASE Destroy(x)
    <3>1. ~Active(x) /\ UNCHANGED heap /\ DestroyNext(x)
      BY <2>2 DEF Destroy, MayBegin, Active
    <3>2. CASE Forced(x) = {}
      <4>1. \A y \in Forcers : Active(y)' = Active(y) /\ (Active(y) => op'[y].fe = op[y].fe)
        BY <3>1, <3>2, <1>c DEF DestroyNext, Active
      <4> QED
        BY <3>1, <3>2, <4>1, OwnersStay DEF DestroyNext
    <3>3. CASE Forced(x) # {}
      <4>1. PICK l \in Locs : /\ forced[x][l] # None
                              /\ Begin(x, "destroy", "destruct", l, forced[x][l])
                              /\ forced' = [forced EXCEPT ![x][l] = None]
        BY <3>1, <3>3 DEF DestroyNext, Forced
      <4> QED
        BY <3>1, <4>1, <1>b, OwnerUnlinks
    <3> QED
      BY <3>2, <3>3
  <2>3. CASE \E a \in Addrs, e \in Errors \cup {NoError} : ForceRejected(x, a, e)
    BY <2>3, <1>a DEF ForceRejected
  <2>4. ASSUME NEW a \in Addrs, NEW e \in Errors \cup {NoError}, ForceException(x, a, e)
        PROVE  CellsOwnedOnce'
    <3>1. PICK p \in Ptrs :
            /\ Allocate(p, ErrorToThrow(a, e))
            /\ Begin(x, "force", "construct", a, [ptr |-> p, data |-> text[FnOf[a]]])
      BY <2>4 DEF ForceException
    <3>2. ErrorToThrow(a, e) \in Errors
      BY <2>4 DEF ForceException, Accepted, ErrorToThrow
    <3>3. ~Active(x) /\ UNCHANGED forced
      BY <2>4 DEF ForceException, MayBegin, Active
    <3>4. Active(x)' /\ op'[x].fe.ptr = p /\ \A y \in Forcers \ {x} : op'[y] = op[y]
      BY <3>1, <1>b
    <3> QED
      BY <3>1, <3>2, <3>3, <3>4, OwnerAllocates
  <2>5. ASSUME NEW l \in Locs, UnforceException(x, l)
        PROVE  CellsOwnedOnce'
    <3>1. ~Active(x)
      BY <2>5 DEF UnforceException, MayBegin, Active
    <3> QED
      BY <2>5, <3>1, <1>b, OwnerUnlinks DEF UnforceException
  <2> QED
    BY <1>1, <2>1, <2>2, <2>3, <2>4, <2>5 DEF Client
<1>2. ASSUME NEW x \in Forcers, Step(x)
      PROVE  CellsOwnedOnce'
  <2>1. CASE Unprotect(x)
    BY <2>1, <1>d DEF Unprotect, Executing, Active
  <2>2. CASE ConstructorThrows(x)
    <3>1. Active(x)
      BY <2>2 DEF ConstructorThrows, Executing, Active
    <3> QED
      BY <2>2, <3>1, <1>c, OwnerFrees DEF ConstructorThrows
  <2>3. CASE DestructorTerminates(x) \/ CopyFaults(x)
    BY <2>3, <1>a DEF DestructorTerminates, CopyFaults
  <2>4. CASE Copy(x)
    <3>1. Active(x) /\ UNCHANGED <<heap, forced>>
      BY <2>4 DEF Copy, Executing, Active
    <3>2. \E left : \/ op' = [op EXCEPT ![x] = At("protect", left, @)]
                    \/ op' = [op EXCEPT ![x] = At("copy", left, @)]
      <4>1. PICK i \in op[x].left : op' = [op EXCEPT ![x] = IF @.left = {i} THEN At("protect", {}, @)
                                                            ELSE At("copy", @.left \ {i}, @)]
        BY <2>4 DEF Copy
      <4> QED
        BY <4>1
    <3> QED
      BY <3>1, <3>2, <1>d
  <2>5. CASE Protect(x)
    BY <2>5, <1>d DEF Protect, Executing, Active
  <2>6. CASE Emplace(x)
    <3>1. Active(x) /\ op[x].loc \in Locs
      BY <2>6 DEF Emplace, Executing, Active, TypeOK, OpsTyped
    <3> QED
      BY <2>6, <3>1, <1>c, OwnerLinks DEF Emplace
  <2>7. CASE EmplaceDuplicate(x)
    <3>1. Active(x) /\ UNCHANGED <<heap, forced>>
      BY <2>7 DEF EmplaceDuplicate, Executing, Active
    <3>2. \A y \in Forcers : Active(y)' = Active(y) /\ (Active(y) => op'[y].fe = op[y].fe)
      BY <2>7, <3>1, <1>b DEF EmplaceDuplicate, Active
    <3> QED
      BY <3>1, <3>2, OwnersStay
  <2>8. CASE Free(x)
    <3>1. Active(x) /\ Release(op[x].fe.ptr)
      BY <2>8 DEF Free, Executing, Active
    <3>2. CASE op[x].api = "destroy" /\ Forced(x) # {}
      <4>1. PICK l \in Locs : /\ forced[x][l] # None
                              /\ Begin(x, "destroy", "destruct", l, forced[x][l])
                              /\ forced' = [forced EXCEPT ![x][l] = None]
        BY <2>8, <3>2 DEF Free, DestroyNext, Forced
      <4> QED
        BY <3>1, <4>1, <1>b, OwnerFreesAndUnlinks
    <3>3. CASE ~(op[x].api = "destroy" /\ Forced(x) # {})
      <4>1. UNCHANGED forced /\ (op' = [op EXCEPT ![x] = Idle] \/ op' = [op EXCEPT ![x] = Gone])
        BY <2>8, <3>3 DEF Free, DestroyNext
      <4> QED
        BY <3>1, <4>1, <1>c, OwnerFrees
    <3> QED
      BY <3>2, <3>3
  <2> QED
    BY <1>2, <2>1, <2>2, <2>3, <2>4, <2>5, <2>6, <2>7, <2>8 DEF Step
<1>3. ASSUME NEW t \in Threads, Calls(t)
      PROVE  CellsOwnedOnce'
  BY <1>3, <1>a DEF Calls, Enter, Fetch, Throw, Leave
<1>4. CASE UNCHANGED vars
  BY <1>4, <1>a DEF vars
<1> QED
  BY <1>1, <1>2, <1>3, <1>4 DEF Next

\* No path through ForceException, UnforceException or ~ExceptionForcer leaks
\* a cell, frees one twice, or frees one that an entry still owns.
THEOREM CellsCorrect == Spec => []CellsOwnedOnce
<1>1. Init => CellsOwnedOnce
  BY DEF Init, CellsOwnedOnce, LiveCellsOwned, OwnersDistinct, OpOwns, EntryOwns, Active, Gone, AtRest
<1>2. QED
  BY <1>1, CellsNext, TypeCorrect, PTL DEF Spec

-----------------------------------------------------------------------------
(* Protection of the executable area.                                       *)

\* The program counters a step of forcer x moves between.
LEMMA PcMoves ==
  ASSUME TypeOK, NEW x \in Forcers, Client(x) \/ Step(x)
  PROVE  /\ \A y \in Forcers \ {x} : op'[y] = op[y]
         /\ op[x].pc \in {"copy", "protect"} =>
              \/ Copy(x) /\ op'[x].pc \in {"copy", "protect"}
              \/ CopyFaults(x)
              \/ Protect(x) /\ op'[x].pc \in {"emplace", "free"}
         /\ op[x].pc \notin {"copy", "protect"} =>
              \/ op[x].pc = "unprotect" /\ Unprotect(x) /\ op'[x].pc = "copy"
              \/ UNCHANGED <<writable, status>> /\ op'[x].pc \notin {"copy", "protect"}
              \/ DestructorTerminates(x)
<1>a. \A pc, left : At(pc, left, op[x]).pc = pc
  BY DEF At
<1>b. Idle.pc = "idle" /\ Gone.pc = "gone"
  BY DEF Idle, Gone, AtRest
<1>c. \A l, fe, api, phase : Begin(x, api, phase, l, fe) =>
        op'[x].pc = "unprotect" /\ \A y \in Forcers \ {x} : op'[y] = op[y]
  BY DEF Begin, TypeOK, OpsTyped
<1>d. DestroyNext(x) => op'[x].pc \in {"gone", "unprotect"} /\ \A y \in Forcers \ {x} : op'[y] = op[y]
  BY <1>b, <1>c DEF DestroyNext, TypeOK, OpsTyped
<1> USE DEF TypeOK, OpsTyped
<1>1. CASE Client(x)
  <2>1. op[x].pc \in {"gone", "idle"} /\ UNCHANGED <<writable, status>>
    BY <1>1 DEF Client, Construct, Destroy, ForceRejected, ForceException, UnforceException, MayBegin
  <2>2. op'[x].pc \notin {"copy", "protect"} /\ \A y \in Forcers \ {x} : op'[y] = op[y]
    <3>1. CASE Construct(x)
      BY <3>1, <1>b DEF Construct
    <3>2. CASE Destroy(x)
      BY <3>2, <1>d DEF Destroy
    <3>3. CASE \E a \in Addrs, e \in Errors \cup {NoError} : ForceRejected(x, a, e) \/ ForceException(x, a, e)
      BY <2>1, <3>3, <1>c DEF ForceRejected, ForceException
    <3>4. CASE \E l \in Locs : UnforceException(x, l)
      BY <3>4, <1>c DEF UnforceException
    <3> QED
      BY <1>1, <3>1, <3>2, <3>3, <3>4 DEF Client
  <2> QED
    BY <2>1, <2>2
<1>2. CASE Step(x)
  <2>1. CASE Unprotect(x)
    BY <2>1, <1>a DEF Unprotect, Executing
  <2>2. CASE ConstructorThrows(x) \/ Emplace(x)
    BY <2>2, <1>b DEF ConstructorThrows, Emplace, Executing
  <2>3. CASE DestructorTerminates(x) \/ CopyFaults(x)
    BY <2>3 DEF DestructorTerminates, CopyFaults, Executing
  <2>4. CASE Copy(x)
    <3>1. op' = [op EXCEPT ![x] = op'[x]] /\ op'[x].pc \in {"copy", "protect"}
      BY <2>4, <1>a DEF Copy
    <3> QED
      BY <2>4, <3>1 DEF Copy, Executing
  <2>5. CASE Protect(x)
    BY <2>5, <1>a DEF Protect, Executing
  <2>6. CASE EmplaceDuplicate(x)
    BY <2>6, <1>c DEF EmplaceDuplicate, Executing
  <2>7. CASE Free(x)
    BY <2>7, <1>b, <1>d DEF Free, Executing
  <2> QED
    BY <1>2, <2>1, <2>2, <2>3, <2>4, <2>5, <2>6, <2>7 DEF Step
<1> QED
  BY <1>1, <1>2

\* If mprotect never fails, the program's code is writable only while some
\* ForceException or UnforceException is copying, whatever calls overlap.
THEOREM ProtectionRestored == Spec => []WritableOnlyInScope
<1>1. Init => WritableOnlyInScope
  BY DEF Init, WritableOnlyInScope
<1>2. TypeOK /\ WritableOnlyInScope /\ [Next]_vars => WritableOnlyInScope'
  <2> SUFFICES ASSUME TypeOK, WritableOnlyInScope, [Next]_vars, ~MprotectFails
               PROVE  writable' => \E y \in Forcers : op'[y].pc \in {"copy", "protect"}
    BY DEF WritableOnlyInScope
  <2>1. ASSUME NEW x \in Forcers, Client(x) \/ Step(x)
        PROVE  writable' => \E y \in Forcers : op'[y].pc \in {"copy", "protect"}
    <3>1. CASE op[x].pc \in {"copy", "protect"}
      BY <2>1, <3>1, PcMoves DEF WritableOnlyInScope, Copy, CopyFaults, Protect, Reprotect
    <3>2. CASE op[x].pc \notin {"copy", "protect"}
      BY <2>1, <3>2, PcMoves DEF WritableOnlyInScope, DestructorTerminates
    <3> QED
      BY <3>1, <3>2
  <2>2. ASSUME NEW t \in Threads, Calls(t)
        PROVE  UNCHANGED <<writable, op>>
    BY <2>2 DEF Calls, Enter, Fetch, Throw, Leave
  <2> QED
    BY <2>1, <2>2 DEF WritableOnlyInScope, Next, vars
<1>3. QED
  BY <1>1, <1>2, TypeCorrect, PTL DEF Spec

\* If API calls do not overlap, the one in progress can write what it copies.
LEMMA SequentialNext ==
  TypeOK /\ SequentialInv /\ [Next]_vars => SequentialInv'
<1> SUFFICES ASSUME TypeOK, SequentialInv, [Next]_vars, Sequential PROVE SequentialInv'
  BY DEF SequentialInv
<1>1. ASSUME NEW x \in Forcers, Client(x) \/ Step(x)
      PROVE  SequentialInv'
  <2>1. CASE Construct(x)
    <3>1. op'[x].pc = "idle" /\ UNCHANGED <<writable, status>>
      BY <2>1 DEF Construct, Idle, AtRest, TypeOK, OpsTyped
    <3>2. \A y \in Forcers \ {x} : op'[y] = op[y]
      BY <1>1, PcMoves
    <3> QED
      BY <3>1, <3>2 DEF SequentialInv, Active
  <2>2. CASE ~Construct(x)
    <3>1. \A y \in Forcers \ {x} : ~Active(y)
      <4>1. CASE Client(x)
        BY <2>2, <4>1 DEF Client, Destroy, ForceRejected, ForceException, UnforceException, MayBegin
      <4>2. CASE Step(x)
        BY <4>2 DEF SequentialInv, Step, Active, Executing, Unprotect, ConstructorThrows,
           DestructorTerminates, Copy, CopyFaults, Protect, Emplace, EmplaceDuplicate, Free
      <4> QED
        BY <1>1, <4>1, <4>2
    <3>2. \A y \in Forcers \ {x} : op'[y] = op[y] /\ ~Active(y)'
      BY <1>1, <3>1, PcMoves DEF Active
    <3>3. (op'[x].pc = "copy" => writable') /\ status' # "segv"
      <4>1. CASE op[x].pc \in {"copy", "protect"}
        BY <1>1, <4>1, PcMoves DEF SequentialInv, Copy, CopyFaults, Executing, Protect
      <4>2. CASE op[x].pc \notin {"copy", "protect"}
        BY <1>1, <4>2, PcMoves DEF SequentialInv, Unprotect, DestructorTerminates, Executing
      <4> QED
        BY <4>1, <4>2
    <3> QED
      BY <3>2, <3>3 DEF SequentialInv, Active
  <2> QED
    BY <2>1, <2>2
<1>2. ASSUME NEW t \in Threads, Calls(t)
      PROVE  SequentialInv'
  BY <1>2 DEF Calls, Enter, Fetch, Throw, Leave, SequentialInv, Active
<1>3. CASE UNCHANGED vars
  BY <1>3 DEF vars, SequentialInv, Active
<1> QED
  BY <1>1, <1>2, <1>3 DEF Next

\* If API calls do not overlap, no store of a patch faults.
THEOREM StoresDoNotFault == Spec => []NoFault
<1>1. Init => SequentialInv
  BY DEF Init, SequentialInv, Active, Gone, AtRest
<1>2. SequentialInv => NoFault
  BY DEF SequentialInv, NoFault
<1>3. QED
  BY <1>1, <1>2, SequentialNext, TypeCorrect, PTL DEF Spec
=============================================================================
