--------------------------- MODULE OpcodeGenerator ---------------------------
(***************************************************************************)
(* What IOpcodeGenerator::GetThrowOpcode promises (priv/IOpcodeGenerator.h):*)
(* "Gets executable code that can be placed at fnStart to throw pError".    *)
(* Asked for such code it either refuses, which only a target out of the    *)
(* reach of the architecture's branch justifies, or it emits code; a        *)
(* processor that enters the function then throws pError.  OpcodeX64,       *)
(* OpcodeThumb and OpcodeAarch64 are shown to implement this.               *)
(***************************************************************************)
CONSTANTS
  Requests, \* the calls considered: [fnStart, throwFn, pError]
  InReach,  \* those whose throwFn a branch at fnStart can reach
  Nothing   \* no exception has been thrown

VARIABLES request, outcome, thrown

vars == <<request, outcome, thrown>>

Init == request \in Requests /\ outcome = "asked" /\ thrown = Nothing

Refuse == /\ outcome = "asked" /\ request \notin InReach
          /\ outcome' = "refused"
          /\ UNCHANGED <<request, thrown>>

Emit == /\ outcome = "asked"
        /\ outcome' = "emitted"
        /\ UNCHANGED <<request, thrown>>

Throw == /\ outcome = "emitted"
         /\ outcome' = "thrown" /\ thrown' = request.pError
         /\ UNCHANGED request

Next == Refuse \/ Emit \/ Throw

Spec == Init /\ [][Next]_vars /\ WF_vars(Next)
=============================================================================
