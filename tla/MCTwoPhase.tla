----------------------------- MODULE MCTwoPhase -----------------------------
(* TwoPhase instantiated for TLC: two RMs with one robot each, 4 and 5, and *)
(* customers of which one makes more transactions than the other.           *)
EXTENDS TwoPhase, TLC

CONSTANTS RM1, RM2, C1, C2

TwoRMs == <<RM1, RM2>>
NarrowBase == RM1 :> 4 @@ RM2 :> 5
NarrowSize == RM1 :> 1 @@ RM2 :> 1
NoneDown == {}

OneEach == C1 :> 1 @@ C2 :> 1
FourAndOne == C1 :> 4 @@ C2 :> 1
=============================================================================
