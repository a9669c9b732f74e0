--------------------------- MODULE EforceCodeProofs ---------------------------
(***************************************************************************)
(* Proofs about the bytes of code: between calls every function does what   *)
(* is promised of it, and a forcer that is gone leaves all code as it was   *)
(* loaded.  If functions are in one section, patches of different functions *)
(* do not meet, since a patch is no larger than its function; forcings of   *)
(* one function are a stack, in which each has saved the one below.         *)
(***************************************************************************)
EXTENDS EforceProofs

\* The bytes at the entry of a function; what they were, and what a patch makes them.
Entry(f)    == [i \in Bytes |-> memory[f + i]]
OwnEntry(f) == [i \in Bytes |-> Own(f + i)]
PatchOf(o)  == [i \in Bytes |-> Piece(o.loc, o.error, i)]

\* The forcings of a function, the functions that are forced or being changed.
At(f)  == {l \in Forced : forced[l].start = f}
Starts == {forced[l].start : l \in Forced} \cup (IF object = None THEN {} ELSE {object.start})

\* No function starts among the bytes that a patch at f replaces.
Clear(f) == \A s \in file.functions, i \in Bytes : i > 0 => Start + Address(s) # f + i

\* The forcings of a function that were made before that of l.
Below(pos, l) == {k \in At(forced[l].start) : pos[k] < pos[l]}

\* c is the patch of the last of the forcings H of f, or f's own bytes.
Shows(F, pos, H, f, c) ==
  \/ H = {} /\ c = OwnEntry(f)
  \/ \E m \in H : c = PatchOf(F[m]) /\ \A k \in H : pos[k] <= pos[m]

\* Each forcing was made at a time of its own, before n ...
Ordered(pos, n) ==
  /\ n \in Nat /\ pos \in [Locations -> Nat]
  /\ \A l \in Forced : pos[l] < n
  /\ \A l, m \in Forced : pos[l] = pos[m] => l = m

\* ... and has saved what those before it had made of the function.  The entry
\* of a function is that of its last forcing, unless it is being changed.
Stacked(pos) ==
  /\ \A l \in Forced : Shows(forced, pos, Below(pos, l), forced[l].start, forced[l].data)
  /\ object # None => Shows(forced, pos, At(object.start), object.start, object.data)
  /\ \A l \in Forced : object = None \/ object.start # forced[l].start =>
       Shows(forced, pos, At(forced[l].start), forced[l].start, Entry(forced[l].start))

\* The patch of the object is in place.
Installed == IF call.op = "construct" THEN phase = "written" ELSE phase # "written"

ObjectEntry ==
  object # None => Entry(object.start) = IF Installed THEN PatchOf(object) ELSE object.data

OnlyEntries == \A a \in Area!Pages : memory[a] = Own(a) \/ \E f \in Starts, i \in Bytes : a = f + i

\* A client destroys a forcer only if that undoes forcings in order.
CallsInOrder ==
  /\ call.op = "destroy" => InOrder
  /\ call.op = "gone" => Forced = {}

CodeInv ==
  OneSection =>
    /\ \A f \in Starts : Clear(f)
    /\ OnlyEntries
    /\ ObjectEntry
    /\ \E n, pos : Ordered(pos, n) /\ Stacked(pos)
    /\ CallsInOrder

-----------------------------------------------------------------------------
(* Patches.                                                                 *)

LEMMA BytesFacts ==
  /\ Bytes \subseteq Nat /\ 0 \in Bytes
  /\ \A i \in Bytes : i < PatchSize
  /\ PatchSize \in Nat
BY EforceAssumption DEF Bytes

LEMMA PiecesDiffer ==
  /\ \A l, e, i, a : Piece(l, e, i) # Own(a)
  /\ \A l, e, i, m, d, j : Piece(l, e, i) = Piece(m, d, j) => l = m /\ e = d /\ i = j
BY DEF Piece, Own

\* A patch tells whose it is by its first byte.
LEMMA PatchOwner ==
  ASSUME NEW o, NEW l, NEW e, PatchOf(o)[0] = Piece(l, e, 0)
  PROVE  o.loc = l
<1>1. PatchOf(o)[0] = Piece(o.loc, o.error, 0)
  BY BytesFacts DEF PatchOf
<1> QED
  BY <1>1, PiecesDiffer

LEMMA ModSmaller ==
  ASSUME NEW n \in Nat, NEW w \in Nat, w > 0
  PROVE  n % w <= n
OBVIOUS

\* What is shown depends only on the forcings of the function.
LEMMA ShowsSame ==
  ASSUME NEW F, NEW G, NEW pos, NEW q, NEW H, NEW f, NEW c,
         \A l \in H : G[l] = F[l] /\ q[l] = pos[l], Shows(F, pos, H, f, c)
  PROVE  Shows(G, q, H, f, c)
BY DEF Shows

\* Functions whose entries are clear do not share a byte of them.
LEMMA Disjoint ==
  ASSUME SysInv, NEW f, NEW g, OfFunction([start |-> f]), OfFunction([start |-> g]), f # g,
         Clear(f), Clear(g), NEW i \in Bytes, NEW j \in Bytes
  PROVE  f + i # g + j
<1>1. TypeOK /\ image \in Images
  BY DEF SysInv, IInv, SysTypes
<1>2. PICK s \in file.functions : f = Start + Address(s)
  BY DEF OfFunction
<1>3. PICK t \in file.functions : g = Start + Address(t)
  BY DEF OfFunction
<1>4. f \in Nat /\ g \in Nat /\ i \in Nat /\ j \in Nat
  BY <1>1, <1>2, <1>3, CodeFacts, BytesFacts
<1>5. ASSUME f + i = g + j, f < g PROVE FALSE
  <2>1. i - j \in Bytes /\ i - j > 0 /\ g = f + (i - j)
    BY <1>4, <1>5, EforceAssumption DEF Bytes
  <2> QED
    BY <1>3, <2>1 DEF Clear
<1>6. ASSUME f + i = g + j, g < f PROVE FALSE
  <2>1. j - i \in Bytes /\ j - i > 0 /\ f = g + (j - i)
    BY <1>4, <1>6, EforceAssumption DEF Bytes
  <2> QED
    BY <1>2, <2>1 DEF Clear
<1> QED
  BY <1>4, <1>5, <1>6

\* The size check: up to its end, and so for the length of a patch, no other
\* function starts behind the function that was found.
LEMMA ClearSaved ==
  ASSUME SysInv, SaveOriginal, OneSection
  PROVE  Clear(object'.start)
<1>a. /\ TypeOK /\ image \in Images /\ progStart = Start /\ Start \in Nat
      /\ Return /\ Answer.outcome = "function" /\ PatchSize <= FnSize(Answer)
      /\ object'.start = Start + Answer.start
  BY ObjectSaved, StartFirst DEF SysInv, IInv, SysTypes, SysTypeOK, SaveOriginal, Located, Patchable, Start
<1>b. PICK r \in Results(query.first) :
        \A o \in Offsets : answers'[o] = IF o = query.offset THEN r ELSE answers[o]
  BY <1>a, TypeReturn
<1>c. /\ query.offset \in Offsets /\ query.first \in 1 .. Size + 1 /\ (Size > 0 => table \in Sorted)
      /\ Size \in Nat /\ Answer = r
  BY <1>a, <1>b, TypeReturn, FileFacts DEF Answer
<1>1. PICK end \in EndValues(query.first) : r = Function_t(table[query.first - 1], end) /\ query.first # 1
  BY <1>a, <1>b, <1>c, ResultTypes DEF Failed
<1> DEFINE this == table[query.first - 1]
<1>2. /\ query.first - 1 \in 1 .. Size /\ Size > 0 /\ table \in Sorted
      /\ table \in [1 .. Size -> file.functions]
      /\ \A s \in file.functions : \E j \in 1 .. Size : table[j] = s
      /\ \A j, k \in 1 .. Size : j < k => Address(table[j]) <= Address(table[k])
  <2>1. query.first - 1 \in 1 .. Size /\ Size > 0
    BY <1>c, <1>1
  <2>2. table \in Sorted
    BY <1>c, <2>1
  <2> QED
    BY <1>a, <2>1, <2>2, TableFacts
<1>3. /\ this \in file.functions /\ Answer.start = Address(this)
      /\ \A s \in file.functions : Address(s) \in Nat \ {0}
  <2>1. \A s \in file.functions : Address(s) \in Nat \ {0}
    BY <1>a, CodeFacts, BytesFacts
  <2> QED
    BY <1>c, <1>1, <1>2, <2>1 DEF Function_t
<1> SUFFICES ASSUME NEW s \in file.functions, NEW i \in Bytes, i > 0, Start + Address(s) = object'.start + i
             PROVE  FALSE
  BY DEF Clear
<1>4. Address(s) = Address(this) + i /\ i \in Nat /\ i < PatchSize /\ PatchSize \in Nat
  BY <1>a, <1>3, BytesFacts
<1>5. PICK j \in 1 .. Size : table[j] = s
  BY <1>2
<1>6. j >= query.first /\ query.first \in 1 .. Size
  <2>1. query.first \in Nat /\ j \in Nat
    BY <1>c, <1>5
  <2>2. ASSUME j < query.first PROVE Address(s) <= Address(this)
    <3>1. CASE j = query.first - 1
      BY <1>3, <1>5, <3>1
    <3>2. CASE j < query.first - 1
      BY <1>2, <1>5, <3>2
    <3> QED
      BY <2>1, <2>2, <3>1, <3>2
  <2>3. j >= query.first
    BY <1>3, <1>4, <2>1, <2>2
  <2> QED
    BY <1>c, <1>5, <2>1, <2>3
<1> DEFINE next == table[query.first]
<1>7. next \in file.functions /\ Address(this) <= Address(next) /\ Address(next) <= Address(s)
  <2>1. query.first \in Int /\ j \in Int /\ query.first - 1 < query.first
    BY <1>6
  <2>2. next \in file.functions
    BY <1>2, <1>6
  <2>3. Address(this) <= Address(next)
    BY <1>2, <1>6, <2>1
  <2>4. CASE j = query.first
    <3>1. next = s
      BY <1>5, <2>4
    <3> QED
      BY <1>3, <2>2, <2>3, <3>1
  <2>5. CASE query.first < j
    <3>1. Address(next) <= Address(s)
      BY <1>2, <1>5, <1>6, <2>5
    <3> QED
      BY <2>2, <2>3, <3>1
  <2> QED
    BY <1>6, <2>1, <2>4, <2>5
<1>8. Answer.end = Address(next)
  <2>1. end = file.value[next] /\ file.section[this] = file.section[next]
    BY <1>1, <1>3, <1>6, <1>7 DEF EndValues, OneSection
  <2> QED
    BY <1>1, <1>c, <2>1 DEF Function_t, Address
<1>9. FnSize(Answer) = (Address(next) - Address(this)) % Word
  <2>1. FromOffset(Address(next)) - FromOffset(Address(this)) = Address(next) - Address(this)
    BY <1>a, <1>3, <1>7 DEF FromOffset
  <2> QED
    BY <1>3, <1>8, <2>1 DEF FnSize
<1>10. FnSize(Answer) <= Address(next) - Address(this)
  <2>1. Address(next) - Address(this) \in Nat /\ Word \in Nat /\ Word > 0
    BY <1>3, <1>7, EforceAssumption
  <2>2. (Address(next) - Address(this)) % Word <= Address(next) - Address(this)
    BY <2>1, ModSmaller
  <2> QED
    BY <1>9, <2>2
<1>11. FnSize(Answer) \in Nat
  BY <1>3, <1>7, <1>9, EforceAssumption
<1> QED
  BY <1>a, <1>3, <1>4, <1>7, <1>10, <1>11
-----------------------------------------------------------------------------
(* The bytes.                                                               *)

\* Forced functions, and one that is being changed, are functions of the file.
LEMMA StartsFacts ==
  ASSUME SysInv
  PROVE  /\ \A f \in Starts : OfFunction([start |-> f]) /\ f \in Nat
         /\ \A f \in Starts, i \in Bytes : f + i \in Area!Pages
         /\ \A l \in Forced : forced[l].start \in Starts /\ l \in At(forced[l].start)
         /\ object # None => object.start \in Starts
<1>1. TypeOK /\ image \in Images /\ Objects
  BY DEF SysInv, IInv, SysTypes
<1>2. \A f \in Starts : \E s \in file.functions : f = Start + Address(s)
  BY <1>1 DEF Starts, Objects, OfFunction
<1>3. \A s \in file.functions, i \in Bytes : Start + Address(s) \in Nat /\ Start + Address(s) + i \in Area!Pages
  BY <1>1, CodeFacts DEF Area!Code
<1> QED
  BY <1>2, <1>3, BytesFacts DEF OfFunction, Starts, At

\* The entry of a function that is not forced is its own.
LEMMA OwnIfUnforced ==
  ASSUME SysInv, OnlyEntries, \A g \in Starts : Clear(g),
         NEW f, OfFunction([start |-> f]), Clear(f), f \notin Starts
  PROVE  Entry(f) = OwnEntry(f)
<1>1. TypeOK /\ image \in Images
  BY DEF SysInv, IInv, SysTypes
<1>2. ASSUME NEW i \in Bytes PROVE memory[f + i] = Own(f + i)
  <2>1. f + i \in Area!Pages
    BY <1>1, CodeFacts DEF OfFunction, Area!Code
  <2>2. ASSUME NEW g \in Starts, NEW j \in Bytes PROVE f + i # g + j
    BY StartsFacts, Disjoint
  <2> QED
    BY <2>1, <2>2 DEF OnlyEntries
<1> QED
  BY <1>2 DEF Entry, OwnEntry

\* What depends on the file and the map alone stays if they stay.
LEMMA CodeUnmoved ==
  ASSUME UNCHANGED <<file, image, memory, forced, object>>
  PROVE  /\ Forced' = Forced /\ Starts' = Starts /\ InOrder' = InOrder
         /\ OneSection' = OneSection /\ OnlyEntries' = OnlyEntries
         /\ \A f : Entry(f)' = Entry(f) /\ Clear(f)' = Clear(f)
         /\ \A pos : Stacked(pos)' = Stacked(pos)
         /\ \A n, pos : Ordered(pos, n)' = Ordered(pos, n)
<1>1. Forced' = Forced /\ Starts' = Starts /\ InOrder' = InOrder /\ OneSection' = OneSection
  BY DEF Forced, Starts, InOrder, OneSection
<1>2. OnlyEntries' = OnlyEntries
  BY <1>1, Unmoved DEF OnlyEntries
<1>3. \A f : Entry(f)' = Entry(f) /\ Clear(f)' = Clear(f) /\ At(f)' = At(f)
  BY <1>1, Unmoved DEF Entry, Clear, At
<1>4. \A pos : \A l \in Forced : Below(pos, l)' = Below(pos, l)
  BY <1>1, <1>3 DEF Below
<1>5. \A pos : Stacked(pos)' = Stacked(pos)
  BY <1>1, <1>3, <1>4 DEF Stacked
<1>6. \A n, pos : Ordered(pos, n)' = Ordered(pos, n)
  BY <1>1 DEF Ordered
<1> QED
  BY <1>1, <1>2, <1>3, <1>5, <1>6

\* Steps that touch no byte and no forcing.
LEMMA CodeAside ==
  ASSUME CodeInv, UNCHANGED <<file, image, memory, forced, object>>,
         object # None => Installed' = Installed,
         OneSection /\ call'.op = "destroy" => InOrder,
         OneSection /\ call'.op = "gone" => Forced = {}
  PROVE  CodeInv'
<1> SUFFICES ASSUME OneSection'
             PROVE  CodeInv'
  BY DEF CodeInv
<1>1. /\ OneSection /\ (\A f \in Starts : Clear(f)) /\ OnlyEntries /\ ObjectEntry
      /\ \E n, pos : Ordered(pos, n) /\ Stacked(pos)
  BY CodeUnmoved DEF CodeInv
<1>2. ObjectEntry'
  BY <1>1, CodeUnmoved DEF ObjectEntry
<1>3. CallsInOrder'
  BY <1>1, CodeUnmoved DEF CallsInOrder
<1> QED
  BY <1>1, <1>2, <1>3, CodeUnmoved DEF CodeInv
-----------------------------------------------------------------------------
(* The steps that save, write and move.                                     *)

\* The constructor saves what the entry of its function shows.
LEMMA CodeSaved ==
  ASSUME SysInv, CodeInv, SaveOriginal
  PROVE  CodeInv'
<1>a. UNCHANGED <<file, image, memory, forced>>
  BY Fixed DEF SaveOriginal, SysNext, Working
<1>b. OneSection' = OneSection /\ Forced' = Forced /\ Start' = Start
  BY <1>a, Unmoved DEF OneSection, Forced
<1> SUFFICES ASSUME OneSection
             PROVE  CodeInv'
  BY <1>b DEF CodeInv
<1>c. /\ (\A f \in Starts : Clear(f)) /\ OnlyEntries /\ \E n, pos : Ordered(pos, n) /\ Stacked(pos)
  BY DEF CodeInv
<1>d. /\ object = None /\ call'.op = "construct" /\ phase' = "open" /\ progStart = Start
      /\ object'.start = Start + Answer.start
      /\ object'.data = [i \in Bytes |-> memory[FromOffset(Answer.start) + i]]
      /\ object' \in ForcedException /\ OfFunction(object')
  <2>1. object' \in ForcedException /\ OfFunction(object') /\ object'.start = Start + Answer.start
    BY ObjectSaved
  <2>2. object'.data = [i \in Bytes |-> memory[FromOffset(Answer.start) + i]]
    BY DEF SaveOriginal
  <2>3. /\ object = None /\ call'.op = "construct" /\ phase' = "open" /\ progStart = Start
    BY DEF SysInv, SysTypeOK, SaveOriginal, Located, Call, Area!Unprotect, Start
  <2> QED
    BY <2>1, <2>2, <2>3
<1>e. object'.data = Entry(object'.start) /\ object' # None
  <2>1. Start \in Nat
    BY StartFirst DEF SysInv, SysTypes
  <2>2. PICK s \in file.functions : Answer.start = Address(s)
    BY AnswerFacts DEF SysInv, SaveOriginal, Located
  <2>3. Answer.start \in Nat \ {0} /\ FromOffset(Answer.start) = Answer.start + Start
    BY <1>d, <2>2, CodeFacts, BytesFacts DEF SysInv, SysTypes, IInv, FromOffset
  <2> QED
    BY <1>d, <2>1, <2>3, ObjectAssumption DEF Entry
<1>f. Starts' = Starts \cup {object'.start}
  BY <1>a, <1>b, <1>d, <1>e DEF Starts
<1>1. \A f \in Starts' : Clear(f)'
  <2>1. \A f : Clear(f)' = Clear(f)
    BY <1>a, Unmoved DEF Clear
  <2> QED
    BY <1>c, <1>f, <2>1, ClearSaved
<1>2. OnlyEntries'
  BY <1>a, <1>c, <1>f, Unmoved DEF OnlyEntries
<1>3. ObjectEntry'
  BY <1>a, <1>d, <1>e DEF ObjectEntry, Installed, Entry
<1>4. \E n, pos : Ordered(pos, n)' /\ Stacked(pos)'
  <2>1. PICK n, pos : Ordered(pos, n) /\ Stacked(pos)
    BY <1>c
  <2>2. Ordered(pos, n)'
    BY <1>a, <1>b, <2>1 DEF Ordered
  <2>3. /\ \A f : At(f)' = At(f) /\ Entry(f)' = Entry(f)
        /\ \A l \in Forced : Below(pos, l)' = Below(pos, l)
    BY <1>a, <1>b DEF At, Entry, Below
  <2>4. Shows(forced, pos, At(object'.start), object'.start, Entry(object'.start))
    <3>1. CASE \E l \in Forced : forced[l].start = object'.start
      BY <1>d, <2>1, <3>1 DEF Stacked
    <3>2. CASE ~ \E l \in Forced : forced[l].start = object'.start
      <4>1. object'.start \notin Starts /\ At(object'.start) = {}
        BY <1>d, <3>2 DEF Starts, At
      <4>2. Entry(object'.start) = OwnEntry(object'.start)
        <5>1. OfFunction([start |-> object'.start])
          BY <1>d DEF OfFunction
        <5> QED
          BY <1>c, <4>1, <5>1, OwnIfUnforced, ClearSaved
      <4> QED
        BY <4>1, <4>2 DEF Shows
    <3> QED
      BY <3>1, <3>2
  <2>5. Stacked(pos)'
    BY <1>a, <1>b, <1>d, <1>e, <2>1, <2>3, <2>4 DEF Stacked
  <2> QED
    BY <2>2, <2>5
<1>5. CallsInOrder'
  BY <1>d DEF CallsInOrder
<1> QED
  BY <1>1, <1>2, <1>3, <1>4, <1>5 DEF CodeInv

\* What a store that does not fault makes of the entries.
LEMMA CodeWritten ==
  ASSUME SysInv, CodeInv, Write
  PROVE  CodeInv'
<1>a. /\ UNCHANGED <<file, image, forced, object, call>> /\ phase = "open" /\ phase' \in {"written", "fault"}
      /\ written' = IF phase' = "written" THEN Area!Addressed ELSE written
      /\ memory' = [a \in DOMAIN memory |-> IF a \in written' THEN Source(a - object.start) ELSE memory[a]]
  BY DEF Write, Area!Copy, lookup, api
<1>b. /\ object # None /\ object \in ForcedException /\ object.start \in Nat /\ progStart = Start /\ Start \in Nat
      /\ written = {} /\ target = {object.start - Start + i : i \in Bytes} /\ DOMAIN memory = Area!Pages
  BY <1>a, StartFirst DEF SysInv, SysTypeOK, SysTypes, Objects, ForcedException, Write, Start
<1>1. CASE phase' = "fault"
  <2>1. memory' = memory
    BY <1>a, <1>b, <1>1 DEF SysInv, SysTypes
  <2> QED
    BY <1>1, <1>a, <2>1, CodeAside DEF Installed, CodeInv, CallsInOrder
<1>2. CASE phase' = "written"
  <2> SUFFICES ASSUME OneSection
               PROVE  CodeInv'
    BY <1>a DEF CodeInv, OneSection
  <2>a. /\ (\A f \in Starts : Clear(f)) /\ OnlyEntries /\ ObjectEntry
        /\ (\E n, pos : Ordered(pos, n) /\ Stacked(pos)) /\ CallsInOrder
    BY DEF CodeInv
  <2>b. Forced' = Forced /\ Starts' = Starts /\ Start' = Start /\ Area!Pages' = Area!Pages
    BY <1>a, Unmoved DEF Forced, Starts
  <2>1. written' = {object.start + i : i \in Bytes}
    <3>1. \A i \in Bytes : /\ (object.start - Start + i) + Start = object.start + i
                           /\ object.start - Start + i # 0
      BY <1>b, BytesFacts, ObjectOffsets DEF SysInv, IInv, SysTypes, Objects
    <3> QED
      BY <1>a, <1>b, <1>2, <3>1 DEF Area!Addressed, Area!FromOffset
  <2>2. \A i \in Bytes : memory'[object.start + i] = Source(i)
    <3>1. \A i \in Bytes : (object.start + i) - object.start = i /\ object.start + i \in Area!Pages
      BY <1>b, BytesFacts, StartsFacts
    <3> QED
      BY <1>a, <1>b, <2>1, <3>1
  <2>3. \A g \in Starts : g # object.start => Entry(g)' = Entry(g)
    <3> SUFFICES ASSUME NEW g \in Starts, g # object.start, NEW i \in Bytes
                 PROVE  memory'[g + i] = memory[g + i]
      BY DEF Entry
    <3>1. g + i \notin written'
      BY <1>b, <2>a, <2>1, StartsFacts, Disjoint
    <3> QED
      BY <1>a, <1>b, <3>1, StartsFacts
  <2>4. Entry(object.start)' = IF call.op = "construct" THEN PatchOf(object) ELSE object.data
    <3>1. Entry(object.start)' = [i \in Bytes |-> Source(i)]
      BY <1>a, <2>2 DEF Entry
    <3>2. object.data = [i \in Bytes |-> object.data[i]]
      BY <1>b DEF ForcedException
    <3> QED
      BY <3>1, <3>2 DEF Source, PatchOf
  <2>5. ObjectEntry'
    BY <1>a, <1>2, <2>4 DEF ObjectEntry, Installed
  <2>6. OnlyEntries'
    <3> SUFFICES ASSUME NEW a \in Area!Pages, \A f \in Starts, i \in Bytes : a # f + i
                 PROVE  memory'[a] = Own(a)
      BY <2>b DEF OnlyEntries
    <3>1. a \notin written'
      BY <1>b, <2>1, StartsFacts
    <3> QED
      BY <1>a, <1>b, <2>a, <3>1 DEF OnlyEntries
  <2>7. \E n, pos : Ordered(pos, n)' /\ Stacked(pos)'
    <3>1. PICK n, pos : Ordered(pos, n) /\ Stacked(pos)
      BY <2>a
    <3>2. Ordered(pos, n)'
      BY <1>a, <2>b, <3>1 DEF Ordered
    <3>3. /\ \A f : At(f)' = At(f)
          /\ \A l \in Forced : Below(pos, l)' = Below(pos, l)
      BY <1>a, <2>b DEF At, Below
    <3>4. Stacked(pos)'
      BY <1>a, <1>b, <2>b, <2>3, <3>1, <3>3, StartsFacts DEF Stacked
    <3> QED
      BY <3>2, <3>4
  <2>8. (\A f \in Starts' : Clear(f)') /\ CallsInOrder'
    BY <1>a, <2>a, <2>b, Unmoved DEF Clear, CallsInOrder, InOrder
  <2> QED
    BY <2>5, <2>6, <2>7, <2>8 DEF CodeInv
<1> QED
  BY <1>a, <1>1, <1>2

\* A forcing that enters the map is the last of its function.
LEMMA CodeEmplaced ==
  ASSUME SysInv, CodeInv, Emplace
  PROVE  CodeInv'
<1>a. /\ UNCHANGED <<file, image, memory>> /\ phase = "written" /\ call.op = "construct"
      /\ forced[object.loc] = None /\ forced' = [forced EXCEPT ![object.loc] = object]
      /\ object' = None /\ call'.op = "idle"
      /\ object # None /\ object \in ForcedException /\ object.loc \in Locations
      /\ forced \in [Locations -> ForcedException \cup {None}]
  BY DEF Emplace, Area!Reprotect, lookup, Idle, Call, SysInv, SysTypeOK, SysTypes, ForcedException
<1>l. PICK l \in Locations, f \in Nat, o \in ForcedException : l = object.loc /\ f = object.start /\ o = object
  BY <1>a DEF ForcedException
<1>b. /\ forced'[l] = o /\ Forced' = Forced \cup {l} /\ l \notin Forced
      /\ \A k \in Forced : forced'[k] = forced[k]
      /\ Starts' = Starts
  <2>1. forced'[l] = o /\ Forced' = Forced \cup {l} /\ l \notin Forced /\ \A k \in Forced : forced'[k] = forced[k]
    BY <1>a, <1>l DEF Forced
  <2> QED
    BY <1>a, <1>l, <2>1 DEF Starts
<1> SUFFICES ASSUME OneSection
             PROVE  CodeInv'
  BY <1>a DEF CodeInv, OneSection
<1>c. /\ (\A g \in Starts : Clear(g)) /\ OnlyEntries
      /\ (\E n, pos : Ordered(pos, n) /\ Stacked(pos))
      /\ Entry(f) = PatchOf(o)
  BY <1>a, <1>l DEF CodeInv, ObjectEntry, Installed
<1>1. (\A g \in Starts' : Clear(g)') /\ OnlyEntries' /\ ObjectEntry' /\ CallsInOrder'
  BY <1>a, <1>b, <1>c, Unmoved DEF Clear, OnlyEntries, ObjectEntry, CallsInOrder
<1>2. PICK n, pos : Ordered(pos, n) /\ Stacked(pos)
  BY <1>c
<1> DEFINE q == [pos EXCEPT ![l] = n]
<1>3. /\ q \in [Locations -> Nat] /\ q[l] = n /\ n \in Nat
      /\ \A k \in Forced : q[k] = pos[k] /\ pos[k] < n /\ pos[k] \in Nat
  BY <1>a, <1>b, <1>2 DEF Ordered, Forced
<1>4. Ordered(q, n + 1)'
  <2>1. \A k \in Forced' : q[k] < n + 1
    BY <1>b, <1>3
  <2>2. \A k, m \in Forced' : q[k] = q[m] => k = m
    BY <1>b, <1>2, <1>3 DEF Ordered
  <2> QED
    BY <1>3, <2>1, <2>2 DEF Ordered
<1>5. /\ At(f)' = At(f) \cup {l}
      /\ \A g : g # f => At(g)' = At(g)
  BY <1>a, <1>b, <1>l DEF At
<1>6. /\ Below(q, l)' = At(f)
      /\ \A k \in Forced : Below(q, k)' = Below(pos, k)
  <2>1. Below(q, l)' = At(f)
    BY <1>b, <1>3, <1>5 DEF Below, At
  <2>2. ASSUME NEW k \in Forced PROVE Below(q, k)' = Below(pos, k)
    <3>1. ~(n < pos[k])
      BY <1>3
    <3> QED
      BY <1>b, <1>3, <1>5, <3>1 DEF Below, At
  <2> QED
    BY <2>1, <2>2
<1>7. ASSUME NEW g, NEW c, NEW H \in SUBSET Forced, Shows(forced, pos, H, g, c)
      PROVE  Shows(forced', q, H, g, c)
  BY <1>b, <1>3, <1>7, ShowsSame
<1>8. \A k \in Forced' : Shows(forced', q, Below(q, k)', forced'[k].start, forced'[k].data)
  <2>1. Shows(forced', q, Below(q, l)', f, o.data)
    BY <1>a, <1>l, <1>2, <1>6, <1>7 DEF Stacked, At
  <2>2. \A k \in Forced : Shows(forced', q, Below(q, k)', forced[k].start, forced[k].data)
    BY <1>2, <1>6, <1>7 DEF Stacked, Below, At
  <2> QED
    BY <1>b, <1>l, <2>1, <2>2
<1>9. ASSUME NEW k \in Forced', NEW g, g = forced'[k].start
      PROVE  Shows(forced', q, At(g)', g, Entry(g)')
  <2>1. CASE g = f
    <3>1. Entry(f)' = PatchOf(forced'[l])
      BY <1>a, <1>b, <1>c DEF Entry
    <3>2. \A j \in At(f)' : q[j] <= q[l]
      BY <1>3, <1>5 DEF At
    <3> QED
      BY <1>5, <2>1, <3>1, <3>2 DEF Shows
  <2>2. CASE g # f
    <3>1. k \in Forced /\ forced[k].start = g
      BY <1>b, <1>l, <1>9, <2>2
    <3>2. Shows(forced, pos, At(g), g, Entry(g))
      BY <1>l, <1>2, <2>2, <3>1 DEF Stacked
    <3>3. Entry(g)' = Entry(g) /\ At(g)' = At(g) /\ At(g) \subseteq Forced
      BY <1>a, <1>5, <2>2 DEF Entry, At
    <3> QED
      BY <1>7, <3>2, <3>3
  <2> QED
    BY <2>1, <2>2
<1>10. Stacked(q)'
  BY <1>a, <1>8, <1>9 DEF Stacked
<1> QED
  BY <1>1, <1>4, <1>10 DEF CodeInv

\* A forcing whose patch its function shows is the last one of the function.
LEMMA LastAtEntry ==
  ASSUME SysInv, NEW n, NEW pos, Ordered(pos, n), Stacked(pos), object = None,
         NEW l \in Forced, OnTop(l)
  PROVE  /\ Entry(forced[l].start) = PatchOf(forced[l])
         /\ \A k \in At(forced[l].start) : pos[k] <= pos[l]
<1> DEFINE f == forced[l].start
<1>1. Shows(forced, pos, At(f), f, Entry(f)) /\ l \in At(f)
  BY DEF Stacked, At
<1>2. PICK m \in At(f) : Entry(f) = PatchOf(forced[m]) /\ \A k \in At(f) : pos[k] <= pos[m]
  BY <1>1 DEF Shows
<1>3. f \in Nat /\ forced[m].loc = m
  BY <1>2, StartsFacts DEF At, SysInv, SysTypeOK
<1>4. Entry(f)[0] = Piece(l, forced[l].error, 0)
  BY <1>3, BytesFacts DEF Entry, OnTop
<1>5. m = l
  BY <1>2, <1>3, <1>4, PatchOwner
<1> QED
  BY <1>2, <1>5

\* If no forcing was put on top of one that is removed later, the one with the
\* largest location is the last one of its function.
LEMMA LargestOnTop ==
  ASSUME SysInv, NEW n, NEW pos, Ordered(pos, n), Stacked(pos), object = None, InOrder,
         NEW l \in Forced, \A m \in Forced : m <= l
  PROVE  OnTop(l)
<1> DEFINE f == forced[l].start
           Above == {pos[k] : k \in {j \in At(f) : pos[j] > pos[l]}}
<1>a. /\ \A k \in Forced : k \in Locations /\ k \in Nat /\ pos[k] \in Nat /\ forced[k].loc = k
      /\ l \in At(f) /\ At(f) \subseteq Forced /\ f \in Nat
      /\ \A k, m \in Forced : pos[k] = pos[m] => k = m
  BY StartsFacts, EforceAssumption DEF At, Forced, SysInv, SysTypeOK, Ordered
<1>1. Above = {}
  <2> SUFFICES ASSUME Above # {}
               PROVE  FALSE
    OBVIOUS
  <2>1. Above \in SUBSET Nat
    BY <1>a
  <2>2. PICK p \in Above : \A r \in Above : p <= r
    <3> HIDE DEF Above
    <3> QED
      BY <2>1, Least
  <2>3. PICK k \in At(f) : pos[k] = p /\ pos[k] > pos[l]
    BY <2>2
  <2>4. l \in Below(pos, k) /\ forced[k].start = f
    BY <1>a, <2>3 DEF Below, At
  <2>5. Shows(forced, pos, Below(pos, k), f, forced[k].data)
    BY <1>a, <2>3, <2>4 DEF Stacked
  <2>6. PICK m \in Below(pos, k) : forced[k].data = PatchOf(forced[m]) /\ \A j \in Below(pos, k) : pos[j] <= pos[m]
    BY <2>4, <2>5 DEF Shows
  <2>7. m \in At(f) /\ pos[m] < pos[k] /\ pos[l] <= pos[m]
    BY <2>4, <2>6 DEF Below
  <2>8. pos[m] = pos[l]
    <3>1. ASSUME pos[m] > pos[l] PROVE pos[k] <= pos[m]
      <4>1. pos[m] \in Above
        BY <2>7, <3>1
      <4> QED
        BY <2>2, <2>3, <4>1
    <3>2. pos[m] \in Nat /\ pos[k] \in Nat /\ pos[l] \in Nat
      BY <1>a, <2>3, <2>7
    <3> QED
      BY <2>7, <3>1, <3>2
  <2>9. m = l
    BY <1>a, <2>7, <2>8
  <2>10. forced[k].data[0] = Piece(l, forced[l].error, 0)
    BY <1>a, <2>6, <2>9, BytesFacts DEF PatchOf
  <2>11. k < l
    BY <1>a, <2>3
  <2> QED
    BY <1>a, <2>3, <2>10, <2>11 DEF InOrder
<1>2. \A k \in At(f) : ~(pos[k] > pos[l])
  BY <1>1
<1>3. PICK m \in At(f) : Entry(f) = PatchOf(forced[m]) /\ \A k \in At(f) : pos[k] <= pos[m]
  BY <1>a DEF Stacked, Shows
<1>4. m = l
  BY <1>a, <1>2, <1>3
<1>5. Entry(f)[0] = Piece(l, forced[l].error, 0)
  BY <1>a, <1>3, <1>4, BytesFacts DEF PatchOf
<1> QED
  BY <1>a, <1>5, BytesFacts DEF Entry, OnTop

\* The last forcing of a function is taken out of the map.
LEMMA CodeTaken ==
  ASSUME SysInv, CodeInv, UNCHANGED <<file, image, memory, phase>>, object = None,
         NEW l \in Forced, object' = forced[l], forced' = [forced EXCEPT ![l] = None],
         OneSection => OnTop(l),
         \/ call'.op = "unforce"
         \/ call'.op = "destroy" /\ call.op = "destroy"
  PROVE  CodeInv'
<1>l. PICK f \in Nat, o \in ForcedException : o = forced[l] /\ f = o.start
  BY DEF SysInv, SysTypes, Forced, ForcedException
<1>a. /\ phase = "idle" /\ forced \in [Locations -> ForcedException \cup {None}] /\ l \in Locations
      /\ object' = o /\ o # None
  BY <1>l DEF SysInv, SysTypeOK, SysTypes, Forced
<1>b. /\ Forced' = Forced \ {l} /\ (\A k \in Forced' : forced'[k] = forced[k])
      /\ Starts' = Starts
  <2>1. Forced' = Forced \ {l} /\ \A k \in Forced' : forced'[k] = forced[k]
    BY <1>a DEF Forced
  <2> QED
    BY <1>a, <1>l, <2>1 DEF Starts
<1> SUFFICES ASSUME OneSection
             PROVE  CodeInv'
  BY DEF CodeInv, OneSection
<1>c. /\ (\A g \in Starts : Clear(g)) /\ OnlyEntries /\ CallsInOrder
      /\ (\E n, pos : Ordered(pos, n) /\ Stacked(pos))
  BY DEF CodeInv
<1>1. PICK n, pos : Ordered(pos, n) /\ Stacked(pos)
  BY <1>c
<1>2. /\ Entry(f) = PatchOf(o)
      /\ \A k \in At(f) : pos[k] <= pos[l]
  BY <1>l, <1>1, LastAtEntry
<1>3. (\A g \in Starts' : Clear(g)') /\ OnlyEntries'
  BY <1>b, <1>c, Unmoved DEF Clear, OnlyEntries
<1>4. ObjectEntry'
  BY <1>a, <1>l, <1>2 DEF ObjectEntry, Installed, Entry
<1>5. CallsInOrder'
  BY <1>b, <1>c DEF CallsInOrder, InOrder
<1>6. Ordered(pos, n)'
  BY <1>b, <1>1 DEF Ordered
<1>7. /\ At(f)' = At(f) \ {l}
      /\ \A g : g # f => At(g)' = At(g)
      /\ \A g : At(g)' \subseteq Forced'
  BY <1>b, <1>l DEF At
<1>8. /\ Below(pos, l) = At(f)'
      /\ \A k \in Forced' : Below(pos, k)' = Below(pos, k)
  <2>1. \A k \in At(f) : k # l => pos[k] < pos[l]
    BY <1>1, <1>2 DEF Ordered, At, Forced
  <2>2. ~(pos[l] < pos[l])
    BY <1>1, <1>a DEF Ordered
  <2>3. Below(pos, l) = At(f)'
    BY <1>7, <1>l, <2>1, <2>2 DEF Below
  <2>4. ASSUME NEW k \in Forced', NEW g, g = forced[k].start PROVE l \notin At(g) \/ ~(pos[l] < pos[k])
    <3>1. CASE g = f
      <4>1. k \in At(f) /\ pos[k] <= pos[l] /\ pos[k] \in Nat /\ pos[l] \in Nat
        BY <1>1, <1>2, <1>a, <1>b, <2>4, <3>1 DEF At, Ordered, Forced
      <4> QED
        BY <4>1
    <3>2. CASE g # f
      BY <1>l, <3>2 DEF At
    <3> QED
      BY <3>1, <3>2
  <2>5. ASSUME NEW k \in Forced' PROVE Below(pos, k)' = Below(pos, k)
    <3>1. \A g : At(g)' = At(g) \ {l}
      BY <1>7, <1>l DEF At
    <3>2. forced'[k].start = forced[k].start
      BY <1>b
    <3> QED
      BY <2>4, <3>1, <3>2 DEF Below
  <2> QED
    BY <2>3, <2>5
<1>9. ASSUME NEW g, NEW c, NEW H, H \subseteq Forced', Shows(forced, pos, H, g, c)
      PROVE  Shows(forced', pos, H, g, c)
  BY <1>b, <1>9, ShowsSame
<1>10. Stacked(pos)'
  <2>1. \A k \in Forced' : Shows(forced', pos, Below(pos, k)', forced'[k].start, forced'[k].data)
    <3> SUFFICES ASSUME NEW k \in Forced'
                 PROVE  Shows(forced', pos, Below(pos, k), forced[k].start, forced[k].data)
      BY <1>b, <1>8
    <3>1. Below(pos, k) \subseteq Forced' /\ k \in Forced
      BY <1>b, <1>7, <1>8 DEF Below
    <3> QED
      BY <1>1, <1>9, <3>1 DEF Stacked
  <2>2. Shows(forced', pos, At(f)', f, o.data)
    BY <1>l, <1>1, <1>7, <1>8, <1>9 DEF Stacked
  <2>3. ASSUME NEW k \in Forced', NEW g, g = forced'[k].start, g # f
        PROVE  Shows(forced', pos, At(g)', g, Entry(g)')
    <3>1. k \in Forced /\ forced[k].start = g
      BY <1>b, <2>3
    <3>2. Shows(forced, pos, At(g), g, Entry(g))
      BY <1>1, <3>1 DEF Stacked
    <3>3. Entry(g)' = Entry(g)
      BY DEF Entry
    <3> QED
      BY <1>7, <1>9, <2>3, <3>2, <3>3
  <2> QED
    BY <1>a, <1>l, <2>1, <2>2, <2>3 DEF Stacked
<1> QED
  BY <1>3, <1>4, <1>5, <1>6, <1>10 DEF CodeInv

\* What the object had saved is back: the function shows the forcing below.
LEMMA CodeRestored ==
  ASSUME SysInv, CodeInv, Restored
  PROVE  CodeInv'
<1>a. /\ UNCHANGED <<file, image, memory, forced>> /\ phase = "written" /\ object' = None
      /\ object # None /\ call.op # "construct" /\ call'.op \in {call.op, "idle"} /\ call.op # "gone"
  BY DEF Restored, Destructing, Area!Reprotect, lookup, Idle, Call
<1>l. PICK f : f = object.start
  OBVIOUS
<1>b. Forced' = Forced /\ Starts = Starts' \cup {f}
  BY <1>a, <1>l DEF Forced, Starts
<1> SUFFICES ASSUME OneSection
             PROVE  CodeInv'
  BY <1>a DEF CodeInv, OneSection
<1>c. /\ (\A g \in Starts : Clear(g)) /\ OnlyEntries /\ CallsInOrder
      /\ Entry(f) = object.data
  BY <1>a, <1>l DEF CodeInv, ObjectEntry, Installed
<1>1. PICK n, pos : Ordered(pos, n) /\ Stacked(pos)
  BY DEF CodeInv
<1>2. Shows(forced, pos, At(f), f, Entry(f))
  BY <1>a, <1>c, <1>l, <1>1 DEF Stacked
<1>3. (\A g \in Starts' : Clear(g)') /\ ObjectEntry' /\ CallsInOrder' /\ Ordered(pos, n)'
  BY <1>a, <1>b, <1>c, <1>1, Unmoved DEF Clear, ObjectEntry, CallsInOrder, InOrder, Ordered
<1>4. OnlyEntries'
  <2> SUFFICES ASSUME NEW a \in Area!Pages, \A g \in Starts', i \in Bytes : a # g + i
               PROVE  memory[a] = Own(a)
    BY <1>a, <1>b, Unmoved DEF OnlyEntries
  <2>1. CASE \E i \in Bytes : a = f + i
    <3>1. f \notin Starts'
      BY <2>1
    <3>2. At(f) = {}
      BY <1>a, <1>b, <3>1 DEF At, Starts
    <3>3. Entry(f) = OwnEntry(f)
      BY <1>2, <3>2 DEF Shows
    <3> QED
      BY <2>1, <3>3 DEF Entry, OwnEntry
  <2>2. CASE \A i \in Bytes : a # f + i
    BY <1>b, <1>c, <2>2 DEF OnlyEntries
  <2> QED
    BY <2>1, <2>2
<1>5. /\ \A g : At(g)' = At(g) /\ Entry(g)' = Entry(g)
      /\ \A l \in Forced : Below(pos, l)' = Below(pos, l)
  BY <1>a, <1>b DEF At, Entry, Below
<1>6. \A l \in Forced : Shows(forced, pos, At(forced[l].start), forced[l].start, Entry(forced[l].start))
  BY <1>l, <1>1, <1>2 DEF Stacked
<1>7. Stacked(pos)'
  BY <1>a, <1>b, <1>1, <1>5, <1>6 DEF Stacked
<1> QED
  BY <1>3, <1>4, <1>7 DEF CodeInv

LEMMA CodeNext ==
  ASSUME SysInv, CodeInv, [SysNext]_sysVars
  PROVE  CodeInv'
<1>a. /\ SysTypeOK /\ UNCHANGED <<file, image>>
      /\ (OneSection => CallsInOrder)
      /\ \A op, at, e : Call(op, at, e) = [op |-> op, at |-> at, error |-> e]
  BY Fixed DEF SysInv, CodeInv, Call
<1>1. CASE UNCHANGED sysVars
  <2>1. UNCHANGED <<memory, forced, object, phase, call>>
    BY <1>1 DEF sysVars, engine, pages, api
  <2> QED
    BY <1>a, <2>1, CodeAside DEF Installed, CallsInOrder
<1>2. CASE \/ (StaticInit \/ GetExceptions \/ AskNext \/ Search \/ PushBack \/ Crash) /\ Aside
           \/ (GetExceptionsThrows \/ GetExceptionsReturns) /\ Aside
  <2>1. UNCHANGED <<memory, forced, object>> /\ object = None
    BY <1>2, <1>a DEF Aside, engine, StaticInit, GetExceptions, AskNext, Search, PushBack, Crash,
                      GetExceptionsThrows, GetExceptionsReturns, Probe, Return, SysTypeOK
  <2>2. call' = call \/ call'.op \in {"list", "idle"}
    BY <1>2, <1>a DEF StaticInit, GetExceptions, AskNext, Search, PushBack, Crash,
                      GetExceptionsThrows, GetExceptionsReturns, Idle, api
  <2> QED
    BY <1>a, <2>1, <2>2, CodeAside DEF CallsInOrder
<1>3. CASE \/ Construct \/ (Destroy /\ InOrder) \/ Destroyed
           \/ ForceExceptionThrows \/ GetExceptionCrashes \/ ConstructorThrows
           \/ \E l \in Locations, e \in CustomErrors \cup {Null} : ForceException(l, e)
  <2>1. UNCHANGED <<memory, forced, object>> /\ object = None
    BY <1>3, <1>a DEF Construct, Destroy, Destroyed, ForceExceptionThrows, GetExceptionCrashes,
                      ConstructorThrows, Located, ForceException, engine, SysTypeOK
  <2>2. \/ call'.op \in {"idle", "force", "crashed"} \/ (call'.op = "destroy" /\ InOrder)
        \/ (call'.op = "gone" /\ Forced = {})
    BY <1>3, <1>a DEF Construct, Destroy, Destroyed, ForceExceptionThrows, GetExceptionCrashes,
                      ConstructorThrows, ForceException, Idle, Gone
  <2> QED
    BY <1>a, <2>1, <2>2, CodeAside
<1>4. CASE EmplaceDuplicate \/ Restore
  <2>1. UNCHANGED <<memory, forced, object>>
    BY <1>4 DEF EmplaceDuplicate, Restore, engine
  <2>2. \/ /\ call.op = "construct" /\ phase = "written" /\ phase' = "idle" /\ call'.op = "discard"
        \/ /\ call' = call /\ call.op \in {"discard", "unforce", "destroy"} /\ phase = "idle" /\ phase' = "open"
    BY <1>4, <1>a DEF EmplaceDuplicate, Restore, Destructing, Area!Reprotect, Area!Unprotect, api
  <2> QED
    BY <1>a, <2>1, <2>2, CodeAside DEF Installed, CallsInOrder
<1>5. ASSUME NEW l \in Locations, UnforceException(l), OnTop(l) PROVE CodeInv'
  <2>1. /\ l \in Forced /\ object' = forced[l] /\ forced' = [forced EXCEPT ![l] = None]
        /\ UNCHANGED <<memory, phase>> /\ object = None /\ call'.op = "unforce"
    BY <1>5, <1>a DEF UnforceException, pages, SysTypeOK
  <2> QED
    BY <1>a, <1>5, <2>1, CodeTaken
<1>6. CASE DestroyNext
  <2>1. PICK l \in Forced : /\ \A m \in Forced : m <= l
                            /\ object' = forced[l] /\ forced' = [forced EXCEPT ![l] = None]
    BY <1>6 DEF DestroyNext
  <2>2. UNCHANGED <<memory, phase, call>> /\ object = None /\ call.op = "destroy"
    BY <1>6 DEF DestroyNext, pages, api
  <2>3. OneSection => OnTop(l)
    BY <1>a, <2>1, <2>2, LargestOnTop DEF CodeInv, CallsInOrder
  <2> QED
    BY <1>a, <2>1, <2>2, <2>3, CodeTaken
<1>7. CASE DestructorTerminates
  <2>1. /\ UNCHANGED <<memory, forced, object, phase>> /\ call'.op = "terminated"
        /\ call.op \in {"discard", "unforce", "destroy"}
    BY <1>7, <1>a DEF DestructorTerminates, Destructing, Area!UnprotectFails, engine
  <2> QED
    BY <1>a, <2>1, CodeAside DEF Installed
<1> QED
  BY <1>1, <1>2, <1>3, <1>4, <1>5, <1>6, <1>7, CodeSaved, CodeWritten, CodeEmplaced, CodeRestored
  DEF SysNext, Client, Working

LEMMA CodeInvariance == SysSpec => [](SysInv /\ RightInv /\ CodeInv)
<1>1. SysInit => SysInv /\ RightInv /\ CodeInv
  <2> SUFFICES ASSUME SysInit PROVE SysInv /\ RightInv /\ CodeInv
    OBVIOUS
  <2>1. SysInv /\ RightInv
    BY SysInvInit DEF SysInit, RightInv, Forced
  <2>2. object = None /\ Forced = {} /\ call.op = "gone"
    BY DEF SysInit, Forced, Gone, Call
  <2>3. Starts = {}
    BY <2>2 DEF Starts
  <2>4. OnlyEntries /\ ObjectEntry /\ CallsInOrder
    BY <2>2, <2>3 DEF SysInit, OnlyEntries, ObjectEntry, CallsInOrder, Area!Pages
  <2>5. Ordered([l \in Locations |-> 0], 0) /\ Stacked([l \in Locations |-> 0])
    BY <2>2 DEF Ordered, Stacked
  <2> QED
    BY <2>1, <2>3, <2>4, <2>5 DEF CodeInv
<1> QED
  BY <1>1, SysInvNext, RightNext, CodeNext, PTL DEF SysSpec

\* If all functions are in one section, a forcer that is gone leaves all code as
\* it was loaded, however many locations it had forced in one function.
THEOREM CodeLeftAsLoaded == SysSpec => []NothingLeft
<1>1. ASSUME SysInv, CodeInv PROVE NothingLeft
  <2> SUFFICES ASSUME OneSection, call.op = "gone"
               PROVE  \A a \in DOMAIN memory : memory[a] = Own(a)
    BY DEF NothingLeft
  <2>1. Forced = {} /\ object = None /\ OnlyEntries /\ DOMAIN memory = Area!Pages
    BY <1>1 DEF CodeInv, CallsInOrder, SysInv, SysTypeOK, SysTypes
  <2>2. Starts = {}
    BY <2>1 DEF Starts
  <2> QED
    BY <2>1, <2>2 DEF OnlyEntries
<1> QED
  BY <1>1, CodeInvariance, PTL
-----------------------------------------------------------------------------
(* The promise.                                                             *)

\* The function that the contract says a location is in.
LEMMA ParentStart ==
  ASSUME SysInv, NEW l, NEW t, Encloses(t, l - Start), l \in Nat
  PROVE  ParentOf(l) = Address(t)
<1>a. TypeOK /\ Start \in Nat
  BY StartFirst DEF SysInv, IInv, SysTypes
<1> DEFINE before == {Address(s) : s \in file.functions} \cap 0 .. (l - Start)
<1>1. \A s \in file.functions : Address(s) \in Nat
  BY <1>a, FileFacts
<1>2. Address(t) \in before /\ \A b \in before : b <= Address(t) /\ b \in Nat
  BY <1>a, <1>1 DEF Encloses
<1>3. \A a \in before : (\A b \in before : b <= a) => a = Address(t)
  BY <1>2
<1>4. (CHOOSE a \in before : \A b \in before : b <= a) = Address(t)
  <2> HIDE DEF before
  <2> QED
    BY <1>2, <1>3
<1> QED
  BY <1>2, <1>4 DEF ParentOf, Start

\* If no forcing is in the way, a function finds its own bytes.
LEMMA RunsOwn ==
  ASSUME SysInv, \A g \in Starts : Clear(g), OnlyEntries,
         NEW s \in file.functions, Start + Address(s) \notin Starts
  PROVE  Runs(Address(s)) = "ran"
<1>a. TypeOK /\ image \in Images /\ Area!Start = Start /\ Start \in Nat
  BY StartFirst DEF SysInv, IInv, SysTypes, Start
<1>b. \A t \in file.functions : Address(t) \in Nat
  BY <1>a, FileFacts
<1> DEFINE f   == Start + Address(s)
           own == {i \in Bytes : \A t \in file.functions : Address(t) \notin Address(s) + 1 .. Address(s) + i}
<1>1. ASSUME NEW i \in own PROVE memory[f + i] = Own(f + i)
  <2>1. i \in Bytes /\ i \in Nat /\ f + i \in Area!Pages /\ f \in Nat
    BY <1>a, <1>b, CodeFacts, BytesFacts DEF Area!Code
  <2>2. ASSUME NEW g \in Starts, NEW j \in Bytes, f + i = g + j PROVE FALSE
    <3>1. PICK t \in file.functions : g = Start + Address(t)
      BY StartsFacts DEF OfFunction
    <3>2. j \in Nat /\ g # f /\ Address(s) \in Nat /\ Address(t) \in Nat
      BY <1>b, <3>1, BytesFacts
    <3>3. CASE Address(t) > Address(s)
      BY <1>1, <1>a, <2>1, <2>2, <3>1, <3>2, <3>3
    <3>4. CASE Address(t) < Address(s)
      <4>1. j - i \in Bytes /\ j - i > 0 /\ f = g + (j - i)
        BY <1>a, <2>1, <2>2, <3>1, <3>2, <3>4, EforceAssumption DEF Bytes
      <4> QED
        BY <4>1 DEF Clear
    <3> QED
      BY <1>a, <3>1, <3>2, <3>3, <3>4
  <2> QED
    BY <2>1, <2>2 DEF OnlyEntries
<1>2. \A i \in own : [j \in Bytes |-> memory[Area!Start + Address(s) + j]][i] = Own(Area!Start + Address(s) + i)
  BY <1>a, <1>1
<1> QED
  BY <1>2 DEF Runs

\* A function that starts with a patch throws the error of the patch.
LEMMA RunsPatch ==
  ASSUME SysInv, NEW s \in file.functions, NEW m \in Forced,
         Entry(Start + Address(s)) = PatchOf(forced[m])
  PROVE  Runs(Address(s)) = forced[m].error
<1>a. /\ Area!Start = Start /\ m \in Locations /\ forced[m].loc = m
      /\ forced[m].error \in Errors \cup {Garbage} /\ Address(s) \in Nat
  BY FileFacts DEF SysInv, IInv, SysTypes, SysTypeOK, Forced, ForcedException, Start
<1> DEFINE entry == [i \in Bytes |-> memory[Area!Start + Address(s) + i]]
           own   == {i \in Bytes : \A t \in file.functions : Address(t) \notin Address(s) + 1 .. Address(s) + i}
<1>1. entry = [i \in Bytes |-> Piece(m, forced[m].error, i)]
  BY <1>a DEF Entry, PatchOf
<1>2. entry[0] = Piece(m, forced[m].error, 0)
  BY <1>1, BytesFacts
<1>3. 0 \in own
  BY <1>a, BytesFacts
<1>4. ~ \A i \in own : entry[i] = Own(Area!Start + Address(s) + i)
  BY <1>2, <1>3, PiecesDiffer
<1>5. entry[0][3] = forced[m].error
  BY <1>2 DEF Piece
<1> QED
  BY <1>a, <1>1, <1>4, <1>5 DEF Runs

\* If all functions are in one section and forced locations lie inside
\* functions, then between calls each function throws an error promised for it,
\* or runs if none is promised, whatever is forced around it.
THEOREM PromisesKept == SysSpec => []KeepsPromises
<1>1. ASSUME SysInv, RightInv, CodeInv PROVE KeepsPromises
  <2> SUFFICES ASSUME OneSection, ~Dead, object = None, \A l \in Forced : Inside(ToOffset(l)),
                      NEW s \in file.functions
               PROVE  Runs(Address(s)) \in Contract!Outcomes(Address(s))
    BY DEF KeepsPromises
  <2> DEFINE f == Start + Address(s)
  <2>a. /\ TypeOK /\ SysTypeOK /\ SysTypes /\ Start \in Nat /\ Address(s) \in Nat
        /\ (\A g \in Starts : Clear(g)) /\ OnlyEntries /\ CallsInOrder
    BY <1>1, FileFacts, StartFirst DEF SysInv, IInv, SysTypes, CodeInv
  <2>1. ASSUME NEW l \in Forced
        PROVE  /\ l \in Locations /\ forced[l].error \in Errors \cup {Garbage} /\ forced[l].error # None
               /\ forced[l].start = Start + ParentOf(l) /\ ParentOf(l) \in Nat
    <3>1. call.op \notin {"gone", "crashed"} /\ progStart = Start
      BY <2>a, <2>1 DEF CallsInOrder, Dead, SysTypeOK, Start
    <3>2. Inside(forced[l].loc - Start) /\ forced[l].loc = l /\ l \in Nat \ {0} /\ l \in Locations
      BY <2>a, <2>1, <3>1, EforceAssumption DEF ToOffset, SysTypeOK, Forced
    <3>3. PICK t \in file.functions : Encloses(t, l - Start) /\ forced[l].start = Start + Address(t)
      BY <1>1, <2>1, <3>2 DEF RightInv, Right, RightFunction
    <3>4. ParentOf(l) = Address(t) /\ Address(t) \in Nat
      BY <1>1, <2>a, <3>2, <3>3, ParentStart, FileFacts
    <3> QED
      BY <2>a, <2>1, <3>2, <3>3, <3>4, ObjectAssumption DEF SysTypes, Forced, ForcedException
  <2> DEFINE promises == Contract!Promises(Address(s))
  <2>2. CASE \E l \in Forced : forced[l].start = f
    <3>1. PICK n, pos : Ordered(pos, n) /\ Stacked(pos)
      BY <1>1 DEF CodeInv
    <3>2. Shows(forced, pos, At(f), f, Entry(f)) /\ At(f) # {}
      BY <2>2, <3>1 DEF Stacked, At
    <3>3. PICK m \in At(f) : Entry(f) = PatchOf(forced[m])
      BY <3>2 DEF Shows
    <3>4. m \in Forced /\ forced[m].start = f
      BY <3>3 DEF At
    <3>5. Runs(Address(s)) = forced[m].error
      BY <1>1, <3>3, <3>4, RunsPatch
    <3>6. ParentOf(m) = Address(s)
      BY <2>a, <2>1, <3>4
    <3>7. forced[m].error \in promises
      BY <2>1, <3>4, <3>6 DEF Contract!Promises, Forced
    <3> QED
      BY <3>5, <3>7 DEF Contract!Outcomes
  <2>3. CASE ~ \E l \in Forced : forced[l].start = f
    <3>1. f \notin Starts
      BY <2>3 DEF Starts
    <3>2. Runs(Address(s)) = "ran"
      BY <1>1, <2>a, <3>1, RunsOwn
    <3>3. promises = {}
      BY <2>1, <2>3 DEF Contract!Promises, Forced
    <3> QED
      BY <3>2, <3>3 DEF Contract!Outcomes
  <2> QED
    BY <2>2, <2>3
<1> QED
  BY <1>1, CodeInvariance, PTL
=============================================================================
