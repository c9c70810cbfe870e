-------------------------- MODULE MCTwoPhaseProgram --------------------------
(* TwoPhaseProgram instantiated for TLC: two RMs, the first with robots 1   *)
(* and 2 (slots 1 and 0), the second, which may be down when the TM starts, *)
(* with robot 3.  Customers bid for robots 2 and 3; the last cannot         *)
(* connect.                                                                 *)
EXTENDS TwoPhaseProgram, TLC

CONSTANTS RM1, RM2

TwoRMs == <<RM1, RM2>>
WideBase == RM1 :> 1 @@ RM2 :> 3
WideSize == RM1 :> 2 @@ RM2 :> 1
SecondMayBeDown == {RM2}
OneEachOrNone == 0 :> 1 @@ 1 :> 1 @@ 2 :> 0
=============================================================================
