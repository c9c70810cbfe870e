---------------------------- MODULE MCExpertPool ----------------------------
(* ExpertPool instantiated for TLC.  Experts get the ids 0, 1, ....          *)
EXTENDS ExpertPool
=============================================================================
