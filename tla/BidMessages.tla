----------------------------- MODULE BidMessages -----------------------------
(***************************************************************************)
(* The message classes of assignment03.  Each has its default object, its  *)
(* fields as Marshal writes them, the object that Unmarshal makes of them  *)
(* (see Wire for ints and bytes), and the type of its members.             *)
(***************************************************************************)
EXTENDS Wire

TX_READ_IDENTIFY == 1
TX_IDENTIFY == 2

tx_reads == [robot_id : Int32, version : Int32]
tx_read == [robot_id |-> -1, version |-> -1]
tx_read_Marshal(m) == <<m.robot_id, m.version>>
tx_read_Unmarshal(b) == [robot_id |-> b[1], version |-> b[2]]

tx_writes == [robot_id : Int32, bid : Int32, customer_id : Int32]
tx_write == [robot_id |-> -1, bid |-> -1, customer_id |-> -1]
tx_write_Marshal(m) == <<m.robot_id, m.bid, m.customer_id>>
tx_write_Unmarshal(b) == [robot_id |-> b[1], bid |-> b[2], customer_id |-> b[3]]

\* The version, three reads and three writes.  (Mutant of Unmarshal: the
\* offset is not advanced past the first read.)
txs == [version : Int32, tx_reads : [1 .. 3 -> tx_reads], tx_writes : [1 .. 3 -> tx_writes]]
tx == [version |-> -1, tx_reads |-> <<tx_read, tx_read, tx_read>>,
       tx_writes |-> <<tx_write, tx_write, tx_write>>]
tx_Marshal(m) ==
  <<m.version>> \o Joined([i \in 1 .. 3 |-> tx_read_Marshal(m.tx_reads[i])], 2)
                \o Joined([i \in 1 .. 3 |-> tx_write_Marshal(m.tx_writes[i])], 3)
tx_UnmarshalOff(b) ==
  [version |-> b[1],
   tx_reads |-> [i \in 1 .. 3 |-> tx_read_Unmarshal(SubSeq(b, i + 1, i + 2))],
   tx_writes |-> [i \in 1 .. 3 |-> tx_write_Unmarshal(SubSeq(b, 3 * i + 5, 3 * i + 7))]]
tx_Unmarshal(b) ==
  [version |-> b[1],
   tx_reads |-> [i \in 1 .. 3 |-> tx_read_Unmarshal(SubSeq(b, 2 * i, 2 * i + 1))],
   tx_writes |-> [i \in 1 .. 3 |-> tx_write_Unmarshal(SubSeq(b, 3 * i + 5, 3 * i + 7))]]

ReadResponses == [bid : Int32, customer_id : Int32, version : Int32]
ReadResponse == [bid |-> -1, customer_id |-> -1, version |-> -1]
ReadResponse_Marshal(m) == <<m.bid, m.customer_id, m.version>>
ReadResponse_Unmarshal(b) == [bid |-> b[1], customer_id |-> b[2], version |-> b[3]]
=============================================================================
