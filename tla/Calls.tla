-------------------------------- MODULE Calls --------------------------------
(***************************************************************************)
(* What a stub promises its caller: calls are served one at a time, in     *)
(* order and each at most once; a caller gets the result of its own call.  *)
(* The last call may remain without an answer when the connection ends,    *)
(* and then nobody knows whether it was served.                            *)
(***************************************************************************)
EXTENDS Naturals, Sequences

CONSTANTS
  Call,             \* the calls that may be made
  ResultsOf(_),     \* ResultsOf(call): the results a call may have
  MaxCalls          \* calls on one connection

VARIABLES asked, served, answered, over

vars == <<asked, served, answered, over>>

Init == asked = <<>> /\ served = <<>> /\ answered = <<>> /\ over = FALSE

Ask(call) ==
  /\ ~over /\ Len(answered) = Len(asked) /\ Len(asked) < MaxCalls
  /\ asked' = Append(asked, call)
  /\ UNCHANGED <<served, answered, over>>

Serve ==
  /\ Len(served) < Len(asked)
  /\ LET call == asked[Len(served) + 1]
     IN  \E result \in ResultsOf(call) :
           served' = Append(served, [call |-> call, result |-> result])
  /\ UNCHANGED <<asked, answered, over>>

Answer ==
  /\ ~over /\ Len(answered) < Len(served)
  /\ answered' = Append(answered, served[Len(answered) + 1].result)
  /\ UNCHANGED <<asked, served, over>>

End ==
  /\ ~over
  /\ over' = TRUE
  /\ UNCHANGED <<asked, served, answered>>

Next == (\E call \in Call : Ask(call)) \/ Serve \/ Answer \/ End

\* Unless the connection ends, a call that was made is served and answered.
Spec == Init /\ [][Next]_vars /\ WF_vars(~over /\ (Serve \/ Answer))
=============================================================================
