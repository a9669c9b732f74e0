------------------------------- MODULE MCEforce -------------------------------
(***************************************************************************)
(* Small programs for Eforce: up to three functions, some of them at one    *)
(* address, one too small for a patch, and two throws.                      *)
(***************************************************************************)
EXTENDS Eforce

CONSTANTS s1, s2, s3, sText, e1, e2, e3

\* The first n symbols are functions, in the order of their values.  A second of
\* two may be at 1, out of reach.  A look behind a table finds the value of any
\* symbol: one in front of a second function or at it, and one in front of a
\* first and only function, at it or behind it.
Ordered(n) == {v \in [{s1, s2, s3} -> {0, 1, 3, 5}] :
                 /\ \A s \in {s1, s2, s3} : v[s] = 1 => s = s2 /\ n = 2
                 /\ n >= 2 => v[s1] <= v[s2]
                 /\ n >= 3 => v[s2] <= v[s3]
                 /\ n < 3 => v[s3] = IF n = 2 THEN v[s2] ELSE 5
                 /\ n < 2 => v[s2] = 0
                 /\ n < 1 => v[s1] = 0}

MCFilesOf(functions, mangled) ==
  [value : Ordered(Cardinality(functions)), section : {[s \in Symbols |-> sText]},
   filepos : {[x \in Sections |-> 2]}, functions : {functions}, mangled : mangled]

MCFiles ==
  MCFilesOf(Symbols, {Symbols, Symbols \ {s1}})
    \cup UNION {MCFilesOf(functions, {Symbols}) : functions \in {{}, {s1}, {s1, s2}}}

Throw(addr, args, error) == [throwAddr |-> addr, args |-> args, error |-> error]

\* A throw with constant arguments, in an inline function that two units use,
\* and one whose second argument is not constant.
TwoUnits ==
  <<<<Throw(106, <<"constant", "variable">>, e2), Throw(103, <<"constant", "constant">>, e1)>>,
    <<Throw(103, <<"constant", "constant">>, e1)>>>>

\* The value of a local variable that never changes.
OneThrow == <<<<Throw(106, <<"constant", "constant variable">>, e2)>>>>

MCPrograms == {TwoUnits, OneThrow}
CapturedOnly == {OneThrow}

\* Header and code in one segment, then, behind a hole, data.
OneImage ==
  {[p \in (100 .. 111) \cup {113} |->
      [offset |-> p - 100, prot |-> IF p < 112 THEN {"r", "x"} ELSE {"r", "w"}]]}

Nowhere == {}
=============================================================================
