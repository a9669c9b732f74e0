-------------------------------- MODULE MCArea --------------------------------
(***************************************************************************)
(* Address spaces for ExecutableArea: the program's mappings as GNU ld lays *)
(* them out with -z separate-code.                                          *)
(***************************************************************************)
EXTENDS ExecutableArea

Text(offset)   == [offset |-> offset, prot |-> {"r", "x"}]
Header(offset) == [offset |-> offset, prot |-> {"r"}]
Data(offset)   == [offset |-> offset, prot |-> {"r", "w"}]

\* The header in a segment of its own, then code, then data.
SeparateCode ==
  {[p \in 2 .. (4 + n) |->
      CASE p = 2     -> Header(0)
        [] p < 3 + n -> Text(p - 2)
        [] OTHER     -> Data(p - 2)] : n \in 1 .. 3}
=============================================================================
