------------------------------ MODULE MCForcer ------------------------------
(***************************************************************************)
(* Small instances of ExceptionForcer.  Locations 1 and 2 are in function  *)
(* fn1, 3 in fn2 and 4 in fn3; 9 is not registered.  Only location 2 has   *)
(* an exception that depends on run-time values.                           *)
(***************************************************************************)
EXTENDS ExceptionForcerProperties, TLC

CONSTANTS fn1, fn2, fn3, e1, e2, x1, x2

MCFnOf         == [l \in Locs |-> CASE l = 3 -> fn2 [] l = 4 -> fn3 [] OTHER -> fn1]
MCGetException == [l \in Locs |-> IF l = 2 THEN NoError ELSE e1]

\* Every forcer is asked for every address.
AllRequests == Forcers \X Addrs

\* Each forcer has locations of its own, in functions of its own.
SplitRequests == {<<x1, 1>>, <<x1, 4>>, <<x2, 3>>}

\* Two locations of one function for x1, one of them for x2 as well.
StackedRequests == {<<x1, 1>>, <<x1, 2>>, <<x2, 1>>}

Symmetry == Permutations(Ptrs)
=============================================================================
