----------------------------- MODULE MCTxServer -----------------------------
(* The client program and TxServer instantiated for TLC: of three customers *)
(* one cannot connect.                                                      *)
EXTENDS ClientProgram, TLC

TwoEachOrNone == 0 :> 2 @@ 1 :> 0 @@ 2 :> 2
=============================================================================
