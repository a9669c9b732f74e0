---------------------------- MODULE ExecutableArea ----------------------------
(***************************************************************************)
(* How the library finds the code it writes to: GetExecutableArea and       *)
(* ProgOffsetResolver take the first line of /proc/self/maps for the        *)
(* program, and ScopedMprotect changes the protection of that line's pages. *)
(* Memory is a function from pages to where they come from in the program's *)
(* file and how they are protected; page numbers stand for addresses.       *)
(***************************************************************************)
EXTENDS Integers

CONSTANTS
  Images, \* the address spaces considered, see IsImage
  None    \* what has not been read yet

\* A page of the file, mapped with a protection; functions are in executable pages.
Page == [offset : Nat, prot : SUBSET {"r", "w", "x"}]
IsImage(i) == DOMAIN i # {} /\ \A p \in DOMAIN i : p \in Nat /\ i[p] \in Page

ValidImages == \A i \in Images : IsImage(i)

VARIABLES
  image,     \* the address space as the program was loaded
  prot,      \* the protection of each page now
  progStart, \* m_progStartAddr of the ExceptionForcer in use
  area,      \* the static ExecutableArea: a set of pages, once it has been read
  phase,     \* "idle", or in a ForcedException: "open", "written"; or "fault"
  target,    \* the offsets in the file of the pages that are to be written
  written,   \* history: the pages that were written
  unclosed   \* history: whether the last scope's closing mprotect failed

vars == <<image, prot, progStart, area, phase, target, written, unclosed>>

Init ==
  /\ image \in Images
  /\ prot = [p \in DOMAIN image |-> image[p].prot]
  /\ progStart = None /\ area = None
  /\ phase = "idle"
  /\ target = {} /\ written = {}
  /\ unclosed = FALSE

Pages == DOMAIN image
Code  == {p \in Pages : "x" \in image[p].prot}
Start == CHOOSE p \in Pages : \A q \in Pages : p <= q

\* The first line of /proc/self/maps: pages that follow each other, in memory
\* and in the file, with one protection.
FirstLine ==
  {p \in Pages : \A q \in Start .. p :
     /\ q \in Pages /\ prot[q] = prot[Start]
     /\ image[q].offset = image[Start].offset + (q - Start)}

\* ProgOffsetResolver, constructed with the forcer.
Construct ==
  /\ phase = "idle"
  /\ progStart' = Start
  /\ UNCHANGED <<image, prot, area, phase, target, written, unclosed>>

FromOffset(offset) == IF offset = 0 THEN 0 ELSE offset + progStart

\* The static ExecutableArea reads the maps the first time only.
ReadArea == area' = IF area = None THEN FirstLine ELSE area

\* Mutant: not the area but its start is unprotected.
UnprotectStart(offsets) ==
  /\ phase = "idle" /\ progStart # None
  /\ ReadArea
  /\ prot' = [prot EXCEPT ![Start] = {"r", "w", "x"}]
  /\ phase' = "open" /\ target' = offsets /\ unclosed' = FALSE
  /\ UNCHANGED <<image, progStart, written>>

\* ScopedMprotect(); the bytes to be written are in the pages of the file at offsets.
Unprotect(offsets) ==
  /\ phase = "idle" /\ progStart # None
  /\ ReadArea
  /\ prot' = [p \in Pages |-> IF p \in area' THEN {"r", "w", "x"} ELSE prot[p]]
  /\ phase' = "open" /\ target' = offsets /\ unclosed' = FALSE
  /\ UNCHANGED <<image, progStart, written>>

\* ScopedMprotect() throws if mprotect fails.
UnprotectFails ==
  /\ phase = "idle" /\ progStart # None
  /\ ReadArea
  /\ UNCHANGED <<image, prot, progStart, phase, target, written, unclosed>>

Addressed == {FromOffset(o) : o \in target}

\* std::copy to FromOffset of the function's place in the file.
Copy ==
  /\ phase = "open"
  /\ IF \A p \in Addressed : p \in Pages /\ "w" \in prot[p]
     THEN phase' = "written" /\ written' = Addressed
     ELSE phase' = "fault" /\ UNCHANGED written
  /\ UNCHANGED <<image, prot, progStart, area, target, unclosed>>

\* Mutant: the write permission stays.
ReprotectWritable ==
  /\ phase = "written"
  /\ prot' = [p \in Pages |-> IF p \in area THEN {"r", "w", "x"} ELSE prot[p]]
  /\ phase' = "idle" /\ target' = {} /\ written' = {}
  /\ UNCHANGED <<image, progStart, area, unclosed>>

\* ~ScopedMprotect() does not look whether mprotect fails.
Reprotect ==
  /\ phase = "written"
  /\ unclosed' \in BOOLEAN
  /\ prot' = IF unclosed' THEN prot
             ELSE [p \in Pages |-> IF p \in area THEN {"r", "x"} ELSE prot[p]]
  /\ phase' = "idle" /\ target' = {} /\ written' = {}
  /\ UNCHANGED <<image, progStart, area>>

\* The ELF header is in front of them.
CodeOffsets == {image[p].offset : p \in Code} \ {0}

Next ==
  \/ Construct \/ UnprotectFails \/ Copy \/ Reprotect
  \/ \E offsets \in SUBSET CodeOffsets : Unprotect(offsets)

Spec == Init /\ [][Next]_vars
-----------------------------------------------------------------------------
\* The ELF header and the code share the segment that is loaded first.
CodeFirst ==
  \E first \in Pages :
    /\ image[first].offset = 0 /\ image[first].prot = {"r", "x"}
    /\ \A p \in Pages : first <= p
    /\ \A p \in Code : \A q \in first .. p :
         /\ q \in Pages /\ image[q].prot = {"r", "x"}
         /\ image[q].offset = q - first

\* The bytes are written to the function that is being forced, and the store
\* does not fault.
WritesTarget ==
  CodeFirst =>
    /\ phase # "fault"
    /\ phase = "written" => written = {p \in Code : image[p].offset \in target}

\* Outside a scope every page has the protection it was loaded with, unless the
\* last scope could not be closed: then exactly the pages of the area are left
\* writable, until a scope that can be.
ProtectionAsLoaded ==
  CodeFirst /\ phase = "idle" =>
    \A p \in Pages :
      prot[p] = IF unclosed /\ p \in area THEN {"r", "w", "x"} ELSE image[p].prot

\* "Parses /proc/self/maps to determine the executable area of memory": the
\* area holds the program's code.
AreaHoldsCode == area # None => Code \subseteq area
=============================================================================
