--------------------------- MODULE ThrowOnDemand ---------------------------
(***************************************************************************)
(* What eforce promises its clients ("Next call to SomeFunction() will now  *)
(* throw", README.md; ExceptionForcer.h), without patches, cells or symbol  *)
(* tables: a forcer makes the function around a location throw an error,    *)
(* until it withdraws.  A call that no forcer interferes with throws one of *)
(* the errors promised for its function, or runs if there is none.  Nothing *)
(* is said of a call during which the forcing of its function changes.      *)
(***************************************************************************)
CONSTANTS
  Forcers, Threads, Fns, Locs,
  Outs, \* what can become of a call: "ran", an error thrown, or worse
  None     \* no error, no function

VARIABLES
  parent,   \* the function each location is in, which never changes
  promised, \* the error each forcer has each location throw, or None
  changing, \* the function whose forcing each forcer is changing, or None
  calls     \* the call each thread is making: [fn, calm, out]

vars == <<parent, promised, changing, calls>>

Outside == [fn |-> None, calm |-> TRUE, out |-> "none"]

Init ==
  /\ promised = [x \in Forcers |-> [l \in Locs |-> None]]
  /\ changing = [x \in Forcers |-> None]
  /\ calls = [t \in Threads |-> Outside]

\* The errors promised for calls of f.
Promises(f) ==
  {e \in Outs : \E x \in Forcers, l \in Locs :
     parent[l] = f /\ promised[x][l] = e /\ e # None}

\* What a client may see of a call of f.
Outcomes(f) == IF Promises(f) = {} THEN {"ran"} ELSE Promises(f)

\* From here on, calls of f in progress are promised nothing.
Disturb(f) ==
  calls' = [t \in Threads |->
    [fn |-> calls[t].fn, calm |-> calls[t].calm /\ calls[t].fn # f, out |-> calls[t].out]]

Promise(x, l, e) ==
  promised' = [promised EXCEPT ![x] = [promised[x] EXCEPT ![l] = e]]

\* A forcer starts to change what calls of the function around l do ...
Begin(x, l) ==
  /\ changing[x] = None
  /\ changing' = [changing EXCEPT ![x] = parent[l]]
  /\ Disturb(parent[l])
  /\ UNCHANGED promised

\* ... and has made a promise for l, which was free,
Grant(x, l, e) ==
  /\ changing[x] = parent[l] /\ promised[x][l] = None
  /\ changing' = [changing EXCEPT ![x] = None]
  /\ Promise(x, l, e)
  /\ UNCHANGED calls

\* ... or ends, and what was promised before is promised still.
End(x) ==
  /\ changing[x] # None
  /\ changing' = [changing EXCEPT ![x] = None]
  /\ UNCHANGED <<promised, calls>>

\* A promise is withdrawn before the function is changed back.
Withdraw(x, l) ==
  /\ promised[x][l] # None
  /\ changing' = [changing EXCEPT ![x] = parent[l]]
  /\ Promise(x, l, None)
  /\ Disturb(parent[l])

Enter(t, f) ==
  /\ calls[t].fn = None
  /\ calls' = [calls EXCEPT ![t] =
       [fn |-> f, calm |-> \A x \in Forcers : changing[x] # f, out |-> "none"]]
  /\ UNCHANGED <<promised, changing>>

\* What becomes of the call.
Finish(t, result) ==
  /\ calls[t].fn # None /\ calls[t].out = "none"
  /\ calls' = [calls EXCEPT ![t] =
       [fn |-> calls[t].fn, calm |-> calls[t].calm, out |-> result]]
  /\ calls[t].calm => result \in Outcomes(calls[t].fn)
  /\ UNCHANGED <<promised, changing>>

Leave(t) ==
  /\ calls[t].out # "none"
  /\ calls' = [calls EXCEPT ![t] = Outside]
  /\ UNCHANGED <<promised, changing>>

Next ==
  /\ UNCHANGED parent
  /\ \/ \E x \in Forcers, l \in Locs :
          Begin(x, l) \/ Withdraw(x, l) \/ \E e \in Outs : Grant(x, l, e)
     \/ \E x \in Forcers : End(x)
     \/ \E t \in Threads :
          (\E f \in Fns : Enter(t, f)) \/ (\E r \in Outs : Finish(t, r)) \/ Leave(t)

Spec == Init /\ [][Next]_vars
=============================================================================
