-------------------------------- MODULE OneLog --------------------------------
(***************************************************************************)
(* What the replicated factories promise together: one log of orders, to   *)
(* which one order at a time is added.  An order that was acknowledged to  *)
(* its customer stays where it is; one that was not may be lost when a     *)
(* factory dies.                                                           *)
(***************************************************************************)
EXTENDS Naturals, Sequences

CONSTANT Op  \* operations in the log

VARIABLES
  log,          \* the orders so far
  acknowledged  \* how many of them were answered

vars == <<log, acknowledged>>

Init == log = <<>> /\ acknowledged = 0

Add(op) ==
  /\ acknowledged = Len(log)
  /\ log' = Append(log, op)
  /\ UNCHANGED acknowledged

Acknowledge ==
  /\ acknowledged < Len(log)
  /\ acknowledged' = Len(log)
  /\ UNCHANGED log

Lose ==
  /\ acknowledged < Len(log)
  /\ log' = SubSeq(log, 1, acknowledged)
  /\ UNCHANGED acknowledged

Next == (\E op \in Op : Add(op)) \/ Acknowledge \/ Lose

Spec == Init /\ [][Next]_vars
=============================================================================
