------------------------------ MODULE MCRegistry ------------------------------
(***************************************************************************)
(* Small programs for ThrowRegistry: up to two symbols in one section at    *)
(* position 2, any of them functions, and one registered throw.             *)
(***************************************************************************)
EXTENDS ThrowRegistry

CONSTANTS s1, s2, sText, e1

OneTextSection ==
  [value : [Symbols -> {0, 2, 4}], section : {[s \in Symbols |-> sText]},
   filepos : {[x \in Sections |-> 2]}, functions : SUBSET Symbols,
   mangled : {Symbols, Symbols \ {s1}}]

Throw(addr) == [throwAddr |-> addr, args |-> <<>>, error |-> e1]

\* A throw that is the first instruction of a function, if one starts at offset 4.
StartThrow == {<<<<Throw(104)>>>>}

At100 == {100}
=============================================================================
