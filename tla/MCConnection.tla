---------------------------- MODULE MCConnection ----------------------------
(* Connection instantiated for TLC: ints of one to four bytes, negative     *)
(* ones and the limits of int.                                             *)
EXTENDS Connection

SomeIds == {-1, 2147483647}

Reads == {[robot_id |-> 258, version |-> -1]}
Transactions ==
  {[version |-> -1,
    tx_reads |-> <<[robot_id |-> 1, version |-> 0], [robot_id |-> 258, version |-> 70000],
                   [robot_id |-> 3, version |-> 2147483647]>>,
    tx_writes |-> <<[robot_id |-> 1, bid |-> -2147483647 - 1, customer_id |-> 0],
                    [robot_id |-> 258, bid |-> 128, customer_id |-> 0],
                    [robot_id |-> 3, bid |-> 16777216, customer_id |-> 0]>>]}
Requests(t) == {[customer_id |-> 300, order_number |-> n, request_type |-> t] : n \in {1, -1}}
Replicas == {[factory_id |-> f, committed_index |-> -1, last_index |-> 255,
              map_op |-> [opcode |-> 1, arg1 |-> 300, arg2 |-> 1]] : f \in {0, -1}}

ExpertOrders == [customer_id : {1}, order_number : {0}, robot_type : {1}]

CallsOfLink ==
  [customer_engineer |-> ExpertCalls(ExpertOrders),
   customer_server |-> ReadCalls(Reads) \cup TxCalls(Transactions),
   customer_rm |-> ReadCalls(Reads),
   customer_tm |-> TxCalls(Transactions),
   customer_factory |-> OrderCalls(Requests(1)) \cup RecordCalls(Requests(2)),
   primary_backup |-> ReplicaCalls(Replicas)]
FactoryLinks == {"customer_factory", "primary_backup"}
=============================================================================
