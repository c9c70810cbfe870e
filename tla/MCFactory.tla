------------------------------ MODULE MCFactory ------------------------------
(* FactoryReplication instantiated for TLC.                                 *)
EXTENDS FactoryReplication

\* A factory_id of -1 makes every replication request invalid.
MinusOneOrZero == {-1, 0}
=============================================================================
