------------------------ MODULE ClientProgramProofs ------------------------
(***************************************************************************)
(* Proofs about ClientProgram: what the second client program prints, for  *)
(* every number of customers, robots and requests of both programs.        *)
(***************************************************************************)
EXTENDS ClientProgram, TxServerProofs, SumTheorems

\* A customer that has made its requests is done: it has no transaction begun
\* and no request under way.
ReturnInv ==
  \A c \in Clients :
    /\ commits[c] + aborts[c] <= NumReqs[c]
    /\ Returned(c) => pc[c] = "bidding" /\ tx[c] = <<>>

\* The main thread prints when all customers have returned, and the second
\* program begins when the first has printed.
MainInv ==
  /\ spawned \in 0 .. num_customers /\ joined \in 0 .. num_customers
  /\ row \in 0 .. ReportReqs
  /\ \A c \in 0 .. joined - 1 : Returned(c)
  /\ printed # <<>> => joined = num_customers
  /\ printed = <<>> => report = <<>>
  /\ report \in Seq([rid : Slots, entry : Entries])

LEMMA Customers ==
  num_customers \in Nat /\ Clients = 0 .. num_customers - 1
BY CustomersAssumption, FS_CardinalityType DEF num_customers

\* The whole program takes steps of the server and its customers, and steps
\* of the main thread that leave those alone.
LEMMA ProgramStep ==
  /\ ProgramInit => Init
  /\ [ProgramNext]_allVars => [Next]_vars
<1>1. ProgramInit => Init
  BY DEF ProgramInit
<1>2. ASSUME [ProgramNext]_allVars PROVE [Next]_vars
  <2>1. CASE MainThread
    BY <2>1 DEF MainThread, Spawn, Join, PrintStats, ReportRow
  <2>2. CASE Server
    BY <2>2 DEF Server, Next
  <2>3. CASE \E c \in Clients : Customer(c)
    BY <2>3 DEF Customer, Next
  <2>4. CASE Ended \/ UNCHANGED allVars
    BY <2>4 DEF Ended, allVars
  <2> QED
    BY <1>2, <2>1, <2>2, <2>3, <2>4 DEF ProgramNext
<1> QED
  BY <1>1, <1>2

\* A customer that has returned stays so.
LEMMA NextReturnInv == IInv /\ ReturnInv /\ [Next]_vars => ReturnInv'
<1> SUFFICES ASSUME IInv, ReturnInv, [Next]_vars PROVE ReturnInv'
  OBVIOUS
<1> USE DEF ReturnInv, Returned
<1>1. TypeOK
  BY DEF IInv
<1>2. CASE UNCHANGED <<pc, tx, commits, aborts>>
  BY <1>2
<1>3. ASSUME NEW c \in Clients, SendRead(c) PROVE ReturnInv'
  <2>1. /\ commits[c] + aborts[c] < NumReqs[c] /\ UNCHANGED <<pc, commits, aborts>>
        /\ \A d \in Clients : d # c => tx'[d] = tx[d]
    BY <1>1, <1>3 DEF SendRead, TypeOK
  <2>2. commits[c] + aborts[c] # NumReqs[c]
    BY <1>1, <2>1, SizeAssumption DEF TypeOK
  <2> QED
    BY <2>1, <2>2
<1>4. ASSUME NEW c \in Clients, SendToTXThread(c) PROVE ReturnInv'
  <2>1. /\ Len(tx[c]) = TxSize /\ UNCHANGED <<tx, commits, aborts>>
        /\ \A d \in Clients : d # c => pc'[d] = pc[d]
    BY <1>1, <1>4 DEF SendToTXThread, TypeOK
  <2>2. tx[c] # <<>>
    BY <2>1, SizeAssumption, EmptySeq
  <2> QED
    BY <2>1, <2>2
<1>5. ASSUME NEW c \in Clients, ReceiveDecision(c) PROVE ReturnInv'
  <2>1. /\ pc[c] = "waiting" /\ pc'[c] = "bidding" /\ tx'[c] = <<>>
        /\ \A d \in Clients : d # c => /\ pc'[d] = pc[d] /\ tx'[d] = tx[d]
                                       /\ commits'[d] = commits[d] /\ aborts'[d] = aborts[d]
    BY <1>1, <1>5 DEF ReceiveDecision, TypeOK
  <2>2. PICK m \in Nat, a \in Nat : m = commits[c] /\ a = aborts[c]
    BY <1>1 DEF TypeOK
  <2>3. m + a <= NumReqs[c] /\ m + a # NumReqs[c]
    BY <2>1, <2>2
  <2>4. \/ commits'[c] = m + 1 /\ aborts'[c] = a
        \/ commits'[c] = m /\ aborts'[c] = a + 1
    BY <1>1, <1>5, <2>2 DEF ReceiveDecision, TypeOK
  <2>5. commits'[c] + aborts'[c] <= NumReqs[c]
    <3>1. PICK k \in Nat : k = NumReqs[c]
      BY SizeAssumption
    <3> QED
      BY <2>2, <2>3, <2>4, <3>1
  <2> QED
    BY <2>1, <2>5
<1> QED
  BY <1>2, <1>3, <1>4, <1>5
  DEF Next, ClientThread, TXThread, Finished, vars, clientVars, TakeRequest,
      ValidateCommit, ValidateAbort, WriteEntry, SetCommitted

\* When all customers have returned, nothing is queued and the TX thread has
\* nothing to do: the table counts every committed bid.
LEMMA QuietState ==
  ASSUME IInv, ReturnInv, \A c \in Clients : Returned(c)
  PROVE  /\ txthread = "idle" /\ txrq = <<>>
         /\ \A c \in Clients : decision[c] = 0
         /\ \A s \in Slots : kv_table[s].bid = won[s]
<1>1. TypeOK /\ QueueInv /\ NoLostUpdate
  BY DEF IInv
<1>2. \A c \in Clients : pc[c] = "bidding"
  BY DEF ReturnInv
<1>3. txthread = "idle"
  BY <1>1, <1>2 DEF TypeOK, QueueInv
<1>4. txrq = <<>>
  <2> SUFFICES ASSUME txrq # <<>> PROVE FALSE
    OBVIOUS
  <2>1. txrq \in Seq(Clients) /\ Len(txrq) \in Nat \ {0} /\ DOMAIN txrq = 1 .. Len(txrq)
    BY <1>1, EmptySeq, LenProperties DEF TypeOK
  <2>2. 1 \in DOMAIN txrq /\ txrq[1] \in Clients
    BY <2>1, ElementOfSeq
  <2> QED
    BY <1>1, <1>2, <2>2 DEF QueueInv
<1>5. \A c \in Clients : decision[c] = 0
  BY <1>1, <1>2 DEF QueueInv
<1>6. Pending = {}
  BY <1>3 DEF Pending
<1>7. \A s \in Slots : kv_table[s].bid = won[s]
  BY <1>1, <1>6 DEF NoLostUpdate, TypeOK
<1> QED
  BY <1>3, <1>4, <1>5, <1>7

\* Then nothing changes any more.
LEMMA Quiet ==
  ASSUME IInv, ReturnInv, [Next]_vars, \A c \in Clients : Returned(c)
  PROVE  UNCHANGED <<pc, tx, commits, aborts, kv_table, won>>
<1>1. TypeOK /\ txthread = "idle" /\ txrq = <<>>
  BY QuietState DEF IInv
<1>2. \A c \in Clients : /\ commits[c] + aborts[c] = NumReqs[c]
                         /\ pc[c] = "bidding" /\ tx[c] = <<>>
  BY DEF ReturnInv, Returned
<1>3. ~TXThread
  BY <1>1 DEF TXThread, TakeRequest, ValidateCommit, ValidateAbort, WriteEntry, SetCommitted
<1>4. ASSUME NEW c \in Clients PROVE ~ClientThread(c)
  <2>1. ~SendRead(c)
    BY <1>1, <1>2, SizeAssumption DEF SendRead, TypeOK
  <2>2. ~SendToTXThread(c)
    BY <1>2, SizeAssumption, EmptySeq DEF SendToTXThread
  <2>3. ~ReceiveDecision(c)
    BY <1>2 DEF ReceiveDecision
  <2> QED
    BY <2>1, <2>2, <2>3 DEF ClientThread
<1> QED
  BY <1>3, <1>4 DEF Next, Finished, vars

\* A robot in a row of the report has a slot.
LEMMA RowInTable ==
  ASSUME NEW n \in Nat, n < ReportReqs, n <= ReportEnd
  PROVE  ReportStart + n \in Slots
BY ReportAssumption

\* A customer that the main thread has joined stays returned.
LEMMA ReturnedStays ==
  ASSUME IInv, ReturnInv, [Next]_vars, NEW c \in Clients, Returned(c)
  PROVE  Returned(c)'
<1>1. TypeOK
  BY DEF IInv
<1>2. /\ commits[c] + aborts[c] = NumReqs[c] /\ pc[c] = "bidding"
  BY DEF ReturnInv, Returned
<1>3. commits'[c] = commits[c] /\ aborts'[c] = aborts[c]
  <2>1. ASSUME NEW d \in Clients, ReceiveDecision(d)
        PROVE  commits'[c] = commits[c] /\ aborts'[c] = aborts[c]
    <3>1. d # c
      BY <1>2, <2>1 DEF ReceiveDecision
    <3> QED
      BY <1>1, <2>1, <3>1 DEF ReceiveDecision, TypeOK
  <2> QED
    BY <2>1 DEF Next, ClientThread, SendRead, SendToTXThread, TXThread, Finished, vars,
       clientVars, TakeRequest, ValidateCommit, ValidateAbort, WriteEntry, SetCommitted
<1> QED
  BY <1>2, <1>3 DEF Returned

LEMMA NextMainInv ==
  IInv /\ ReturnInv /\ MainInv /\ [ProgramNext]_allVars => MainInv'
<1> SUFFICES ASSUME IInv, ReturnInv, MainInv, [ProgramNext]_allVars PROVE MainInv'
  OBVIOUS
<1> USE DEF MainInv
<1>1. num_customers \in Nat /\ Clients = 0 .. num_customers - 1 /\ [Next]_vars
  BY Customers, ProgramStep
<1>2. \A c \in 0 .. joined - 1 : Returned(c)'
  BY <1>1, ReturnedStays
<1>3. CASE UNCHANGED programVars
  BY <1>2, <1>3 DEF programVars
<1>4. CASE Spawn
  BY <1>1, <1>2, <1>4 DEF Spawn
<1>5. CASE Join
  <2>1. /\ joined < num_customers /\ joined' = joined + 1 /\ Returned(joined)
        /\ UNCHANGED <<vars, spawned, printed, row, report>>
    BY <1>5 DEF Join
  <2>2. joined \in Clients /\ joined' \in 0 .. num_customers
    BY <1>1, <2>1
  <2>3. \A c \in 0 .. joined' - 1 : c \in 0 .. joined - 1 \/ c = joined
    BY <1>1, <2>1
  <2>4. \A c \in 0 .. joined' - 1 : commits'[c] + aborts'[c] = NumReqs[c]
    <3>1. commits'[joined] + aborts'[joined] = NumReqs[joined]
      BY <2>1 DEF Returned, vars
    <3>2. \A c \in 0 .. joined - 1 : commits'[c] + aborts'[c] = NumReqs[c]
      BY <1>2 DEF Returned
    <3> QED
      BY <2>3, <3>1, <3>2
  <2>5. printed = <<>>
    BY <1>1, <2>1
  <2> QED
    BY <2>1, <2>2, <2>4, <2>5 DEF Returned
<1>6. CASE PrintStats
  <2>1. joined = num_customers /\ printed = <<>> /\ printed' # <<>>
        /\ UNCHANGED <<vars, spawned, joined, row, report>>
    BY <1>6 DEF PrintStats
  <2> QED
    BY <1>2, <2>1
<1>7. CASE ReportRow
  <2>1. /\ printed # <<>> /\ row < ReportReqs /\ row' = row + 1
        /\ UNCHANGED <<vars, spawned, joined, printed>>
    BY <1>7 DEF ReportRow
  <2>2. report' \in Seq([rid : Slots, entry : Entries])
    <3>1. CASE row <= ReportEnd
      <4> DEFINE e == [rid |-> ReportStart + row, entry |-> kv_table[ReportStart + row]]
      <4>1. ReportStart + row \in Slots
        BY <2>1, <3>1, RowInTable
      <4>2. e \in [rid : Slots, entry : Entries]
        BY <4>1 DEF IInv, TypeOK
      <4>3. report' = Append(report, e)
        BY <1>7, <3>1 DEF ReportRow, ReadEntry
      <4> HIDE DEF e
      <4> QED
        BY <4>2, <4>3, AppendProperties
    <3>2. CASE ~ (row <= ReportEnd)
      BY <1>7, <3>2 DEF ReportRow
    <3> QED
      BY <3>1, <3>2
  <2>3. row' \in 0 .. ReportReqs
    BY <2>1, ReportAssumption
  <2> QED
    BY <1>2, <2>1, <2>2, <2>3
<1> QED
  BY <1>3, <1>4, <1>5, <1>6, <1>7
  DEF ProgramNext, MainThread, Server, Customer, Ended, allVars, programVars

LEMMA NextReport ==
  IInv /\ ReturnInv /\ MainInv /\ ReportIsFinal /\ [ProgramNext]_allVars => ReportIsFinal'
<1> SUFFICES ASSUME IInv, ReturnInv, MainInv, ReportIsFinal, [ProgramNext]_allVars
             PROVE  ReportIsFinal'
  OBVIOUS
<1>1. [Next]_vars /\ Clients = 0 .. num_customers - 1 /\ num_customers \in Nat
  BY ProgramStep, Customers
<1>2. CASE printed = <<>>
  <2>1. report = <<>> /\ report' = report
    BY <1>2 DEF MainInv, ProgramNext, MainThread, Spawn, Join, PrintStats, ReportRow, Server,
       Customer, Ended, allVars, programVars
  <2> QED
    BY <2>1 DEF ReportIsFinal
<1>3. CASE printed # <<>>
  <2>1. \A c \in Clients : Returned(c)
    BY <1>1, <1>3 DEF MainInv
  <2>2. kv_table' = kv_table /\ won' = won /\ \A s \in Slots : kv_table[s].bid = won[s]
    BY <1>1, <2>1, Quiet, QuietState
  <2>3. CASE report' = report
    BY <2>2, <2>3 DEF ReportIsFinal
  <2>4. CASE ReportRow /\ row <= ReportEnd
    <3> DEFINE e == [rid |-> ReportStart + row, entry |-> kv_table[ReportStart + row]]
    <3>1. report' = Append(report, e) /\ row < ReportReqs /\ row \in Nat
      BY <2>4 DEF ReportRow, ReadEntry, MainInv
    <3>2. ReportStart + row \in Slots
      BY <2>4, <3>1, RowInTable
    <3>3. e.entry = kv_table[e.rid] /\ e.entry.bid = won[e.rid]
      BY <2>2, <3>2
    <3>4. e \in [rid : Slots, entry : Entries] /\ report \in Seq([rid : Slots, entry : Entries])
      BY <3>2 DEF IInv, TypeOK, MainInv
    <3> HIDE DEF e
    <3>5. \A i \in DOMAIN report' : (i \in DOMAIN report /\ report'[i] = report[i])
                                    \/ report'[i] = e
      BY <3>1, <3>4, AppendProperties, LenProperties
    <3> QED
      BY <2>2, <3>3, <3>5 DEF ReportIsFinal
  <2> QED
    BY <2>3, <2>4 DEF ProgramNext, MainThread, Spawn, Join, PrintStats, ReportRow, Server,
       Customer, Ended, allVars, programVars
<1> QED
  BY <1>2, <1>3

LEMMA InitProgram == ProgramInit => ReturnInv /\ MainInv /\ ReportIsFinal
<1> SUFFICES ASSUME ProgramInit PROVE ReturnInv /\ MainInv /\ ReportIsFinal
  OBVIOUS
<1>1. /\ pc = [c \in Clients |-> "bidding"] /\ tx = [c \in Clients |-> <<>>]
      /\ commits = [c \in Clients |-> 0] /\ aborts = [c \in Clients |-> 0]
  BY DEF ProgramInit, Init
<1>2. ReturnInv
  <2>1. \A c \in Clients : 0 + 0 <= NumReqs[c]
    BY SizeAssumption
  <2>2. \A c \in Clients : /\ pc[c] = "bidding" /\ tx[c] = <<>>
                           /\ commits[c] = 0 /\ aborts[c] = 0
    BY <1>1
  <2> QED
    BY <2>1, <2>2 DEF ReturnInv
<1>3. /\ spawned = 0 /\ joined = 0 /\ row = 0 /\ printed = <<>> /\ report = <<>>
  BY DEF ProgramInit
<1>4. MainInv
  BY <1>3, Customers, EmptySeq, ReportAssumption DEF MainInv
<1> QED
  BY <1>2, <1>3, <1>4 DEF ReportIsFinal

\* The program's runs are runs of the server and its customers, so that what
\* is proved of those holds of it.
THEOREM ProgramIsServer == ProgramSpec => Spec
BY ProgramStep, PTL DEF ProgramSpec, Spec

\* The report of the second program is the final table, and its bids count
\* every committed bid of every customer: nothing is written after the main
\* thread has joined the customers.
THEOREM ReportsAreFinal == ProgramSpec => []ReportIsFinal
<1>1. IInv /\ ReturnInv /\ MainInv /\ ReportIsFinal /\ [ProgramNext]_allVars =>
        ReturnInv' /\ MainInv' /\ ReportIsFinal'
  BY ProgramStep, NextReturnInv, NextMainInv, NextReport
<1> QED
  BY <1>1, InitProgram, ProgramIsServer, Invariance, PTL DEF ProgramSpec

-----------------------------------------------------------------------------
(* The totals.                                                             *)

\* The TX thread has taken c's request, and validated it, though c has not
\* counted the outcome yet.
Taken(c) == decision[c] # 0 \/ (txthread # "idle" /\ cur = c)
Validated(c) == decision[c] = 1 \/ (txthread = "writing" /\ cur = c)

TakenOf == [c \in Clients |-> commits[c] + aborts[c] + IF Taken(c) THEN 1 ELSE 0]
ValidatedOf == [c \in Clients |-> commits[c] + IF Validated(c) THEN 1 ELSE 0]

\* The version counts the requests taken, and each transaction validated has
\* raised one to TxSize bids.
CountInv ==
  /\ local_version = SumFunctionOnSet(TakenOf, Clients)
  /\ SumFunctionOnSet(ValidatedOf, Clients) <= SumFunctionOnSet(won, Slots)
  /\ SumFunctionOnSet(won, Slots) <= TxSize * SumFunctionOnSet(ValidatedOf, Clients)

\* What is printed stays what the customers counted.
PrintedInv == printed # <<>> => printed = <<Total(commits), Total(aborts)>>

LEMMA FiniteSums ==
  /\ IsFiniteSet(Clients) /\ IsFiniteSet(Slots)
  /\ TypeOK => /\ \A c \in Clients : /\ TakenOf[c] \in Int /\ ValidatedOf[c] \in Int
                                     /\ commits[c] \in Int /\ aborts[c] \in Int
               /\ \A s \in Slots : won[s] \in Int
<1>1. IsFiniteSet(Clients)
  BY CustomersAssumption
<1>2. IsFiniteSet(Slots)
  BY FS_Interval, RangeAssumption DEF Slots
<1>3. TypeOK => /\ \A c \in Clients : /\ TakenOf[c] \in Int /\ ValidatedOf[c] \in Int
                                      /\ commits[c] \in Int /\ aborts[c] \in Int
                /\ \A s \in Slots : won[s] \in Int
  BY DEF TypeOK, TakenOf, ValidatedOf
<1> QED
  BY <1>1, <1>2, <1>3

\* A transaction's reads name one to TxSize robots.
LEMMA RidsCounted ==
  ASSUME TypeOK, NEW c \in Clients, Len(tx[c]) = TxSize
  PROVE  /\ Rids(tx[c]) \in SUBSET Slots
         /\ 1 <= Cardinality(Rids(tx[c])) /\ Cardinality(Rids(tx[c])) <= TxSize
<1>1. TxSize \in Nat \ {0} /\ DOMAIN tx[c] = 1 .. TxSize
  BY SizeAssumption, LenProperties DEF TypeOK
<1>2. ASSUME NEW i \in 1 .. TxSize PROVE tx[c][i].rid \in Slots
  <2>1. tx[c] \in Seq(Reads) /\ i \in DOMAIN tx[c]
    BY <1>1 DEF TypeOK
  <2>2. tx[c][i] \in Reads
    BY <1>1, <2>1, ElementOfSeq
  <2> QED
    BY <2>2, RobotsAreSlots DEF Reads
<1>3. IsFiniteSet(1 .. TxSize) /\ Cardinality(1 .. TxSize) = TxSize
  BY <1>1, FS_Interval
<1> DEFINE f == [i \in 1 .. TxSize |-> tx[c][i].rid]
<1>4. f \in Surjection(1 .. TxSize, Rids(tx[c]))
  BY <1>1 DEF Surjection, Rids
<1>5. IsFiniteSet(Rids(tx[c])) /\ Cardinality(Rids(tx[c])) <= TxSize
  BY <1>3, <1>4, FS_Surjection
<1>6. Rids(tx[c]) # {}
  <2>1. 1 \in DOMAIN tx[c]
    BY <1>1
  <2>2. tx[c][1].rid \in Rids(tx[c])
    BY <2>1 DEF Rids
  <2> QED
    BY <2>2
<1>7. 1 <= Cardinality(Rids(tx[c]))
  BY <1>5, <1>6, FS_EmptySet, FS_CardinalityType
<1>8. Rids(tx[c]) \in SUBSET Slots
  BY <1>1, <1>2 DEF Rids
<1> QED
  BY <1>5, <1>7, <1>8

LEMMA InitCount == ProgramInit => CountInv /\ PrintedInv
<1> SUFFICES ASSUME ProgramInit PROVE CountInv /\ PrintedInv
  OBVIOUS
<1>1. Init /\ printed = <<>>
  BY DEF ProgramInit
<1>2. TypeOK
  BY <1>1, InitTypeOK
<1>3. ASSUME NEW c \in Clients PROVE TakenOf[c] = 0 /\ ValidatedOf[c] = 0
  <2>1. commits[c] = 0 /\ aborts[c] = 0 /\ decision[c] = 0 /\ txthread = "idle"
    BY <1>1 DEF Init
  <2>2. ~Taken(c) /\ ~Validated(c)
    BY <2>1 DEF Taken, Validated
  <2> QED
    BY <2>1, <2>2 DEF TakenOf, ValidatedOf
<1>4. \A s \in Slots : won[s] = 0
  BY <1>1 DEF Init
<1>5. /\ SumFunctionOnSet(TakenOf, Clients) = Cardinality(Clients) * 0
      /\ SumFunctionOnSet(ValidatedOf, Clients) = Cardinality(Clients) * 0
      /\ SumFunctionOnSet(won, Slots) = Cardinality(Slots) * 0
  BY <1>3, <1>4, FiniteSums, SumConstant
<1>6. Cardinality(Clients) \in Nat /\ Cardinality(Slots) \in Nat
  BY FiniteSums, FS_CardinalityType
<1>7. local_version = 0
  BY <1>1 DEF Init
<1> QED
  BY <1>1, <1>5, <1>6, <1>7, SizeAssumption DEF CountInv, PrintedInv

LEMMA CountsKept ==
  ASSUME TypeOK, CountInv, UNCHANGED <<local_version, won>>,
         \A d \in Clients : TakenOf'[d] = TakenOf[d] /\ ValidatedOf'[d] = ValidatedOf[d]
  PROVE  CountInv'
<1>1. /\ SumFunctionOnSet(TakenOf', Clients) = SumFunctionOnSet(TakenOf, Clients)
      /\ SumFunctionOnSet(ValidatedOf', Clients) = SumFunctionOnSet(ValidatedOf, Clients)
  BY FiniteSums, SumSame
<1> QED
  BY <1>1 DEF CountInv

\* The actions that move a request on without taking or validating one.
LEMMA CountsSame ==
  ASSUME IInv, NEW d \in Clients,
         \/ UNCHANGED vars
         \/ \E c \in Clients : ClientThread(c)
         \/ ValidateAbort \/ WriteEntry \/ SetCommitted \/ Finished
  PROVE  TakenOf'[d] = TakenOf[d] /\ ValidatedOf'[d] = ValidatedOf[d]
<1> USE DEF TakenOf, ValidatedOf, Taken, Validated
<1>1. TypeOK /\ QueueInv
  BY DEF IInv
<1>2. CASE UNCHANGED <<commits, aborts, decision, txthread, cur>>
  BY <1>2
<1>3. ASSUME NEW c \in Clients, SendToTXThread(c)
      PROVE  TakenOf'[d] = TakenOf[d] /\ ValidatedOf'[d] = ValidatedOf[d]
  <2>1. decision[c] = 0 /\ decision' = decision
    BY <1>1, <1>3 DEF SendToTXThread, QueueInv, TypeOK
  <2> QED
    BY <1>3, <2>1 DEF SendToTXThread, threadVars
<1>4. ASSUME NEW c \in Clients, ReceiveDecision(c)
      PROVE  TakenOf'[d] = TakenOf[d] /\ ValidatedOf'[d] = ValidatedOf[d]
  <2>1. decision[c] # 0 /\ ~ (txthread # "idle" /\ cur = c) /\ UNCHANGED threadVars
    BY <1>1, <1>4 DEF ReceiveDecision, QueueInv
  <2>2. CASE d # c
    BY <1>1, <1>4, <2>1, <2>2 DEF ReceiveDecision, TypeOK, threadVars
  <2>3. CASE d = c
    <3>1. PICK m \in Nat, a \in Nat : m = commits[c] /\ a = aborts[c]
      BY <1>1 DEF TypeOK
    <3>2. decision'[c] = 0 /\ ~Taken(c)' /\ ~Validated(c)'
      BY <1>1, <1>4, <2>1 DEF ReceiveDecision, TypeOK, threadVars
    <3>3. CASE decision[c] = 1
      <4>1. commits'[c] = m + 1 /\ aborts'[c] = a
        BY <1>1, <1>4, <3>1, <3>3 DEF ReceiveDecision, TypeOK
      <4>2. Taken(c) /\ Validated(c)
        BY <3>3
      <4> QED
        BY <2>3, <3>1, <3>2, <4>1, <4>2
    <3>4. CASE decision[c] # 1
      <4>1. commits'[c] = m /\ aborts'[c] = a + 1
        BY <1>1, <1>4, <3>1, <3>4 DEF ReceiveDecision, TypeOK
      <4>2. Taken(c) /\ ~Validated(c)
        BY <2>1, <3>4
      <4> QED
        BY <2>3, <3>1, <3>2, <4>1, <4>2
    <3> QED
      BY <3>3, <3>4
  <2> QED
    BY <2>2, <2>3
<1>5. CASE ValidateAbort
  <2>1. /\ txthread = "validating" /\ txthread' = "idle" /\ UNCHANGED <<cur, commits, aborts>>
        /\ cur \in Clients /\ decision[cur] = 0 /\ decision'[cur] = -1
        /\ \A c \in Clients : c # cur => decision'[c] = decision[c]
    BY <1>1, <1>5 DEF ValidateAbort, TypeOK, QueueInv, clientVars
  <2> QED
    BY <2>1
<1>6. CASE SetCommitted
  <2>1. /\ txthread = "writing" /\ txthread' = "idle" /\ UNCHANGED <<cur, commits, aborts>>
        /\ cur \in Clients /\ decision[cur] = 0 /\ decision'[cur] = 1
        /\ \A c \in Clients : c # cur => decision'[c] = decision[c]
    BY <1>1, <1>6 DEF SetCommitted, TypeOK, QueueInv, clientVars
  <2> QED
    BY <2>1
<1> QED
  BY <1>2, <1>3, <1>4, <1>5, <1>6
  DEF ClientThread, SendRead, WriteEntry, Finished, vars, clientVars, threadVars

LEMMA TakeRequestCount == IInv /\ CountInv /\ TakeRequest => CountInv'
<1> SUFFICES ASSUME IInv, CountInv, TakeRequest PROVE CountInv'
  OBVIOUS
<1>1. TypeOK /\ QueueInv
  BY DEF IInv
<1>2. /\ txthread = "idle" /\ txthread' = "validating" /\ local_version' = local_version + 1
      /\ UNCHANGED <<won, decision, commits, aborts>>
  BY DEF TakeRequest, clientVars
<1>3. PICK c \in Clients : cur' = c /\ decision[c] = 0
  <2>1. txrq \in Seq(Clients) /\ txrq # <<>>
    BY <1>1 DEF TypeOK, TakeRequest
  <2>2. 1 \in DOMAIN txrq /\ txrq[1] = Head(txrq) /\ txrq[1] \in Clients
    BY <2>1, EmptySeq, LenProperties, ElementOfSeq, HeadTailProperties
  <2> QED
    BY <1>1, <2>2 DEF TakeRequest, QueueInv
<1>4. ASSUME NEW d \in Clients
      PROVE  /\ ValidatedOf'[d] = ValidatedOf[d]
             /\ d # c => TakenOf'[d] = TakenOf[d]
             /\ d = c => TakenOf'[d] = TakenOf[d] + 1
  <2>1. /\ Validated(d)' <=> Validated(d)
        /\ Taken(d) <=> decision[d] # 0
        /\ Taken(d)' <=> decision[d] # 0 \/ d = c
    BY <1>2, <1>3 DEF Validated, Taken
  <2>2. ValidatedOf'[d] = ValidatedOf[d]
    BY <1>2, <2>1 DEF ValidatedOf
  <2>3. CASE d # c
    BY <1>2, <2>1, <2>2, <2>3 DEF TakenOf
  <2>4. CASE d = c
    <3>1. PICK k \in Nat : k = commits[c] + aborts[c]
      BY <1>1 DEF TypeOK
    <3>2. TakenOf[c] = k /\ TakenOf'[c] = k + 1
      BY <1>2, <1>3, <2>1, <2>4, <3>1 DEF TakenOf
    <3> QED
      BY <2>2, <2>4, <3>2
  <2> QED
    BY <2>3, <2>4
<1>5. SumFunctionOnSet(ValidatedOf', Clients) = SumFunctionOnSet(ValidatedOf, Clients)
  BY <1>1, <1>4, FiniteSums, SumSame
<1>6. /\ \A d \in Clients : TakenOf[d] \in Int /\ TakenOf'[d] \in Int
      /\ SumFunctionOnSet(TakenOf, Clients) \in Int
  <2>1. \A d \in Clients : TakenOf[d] \in Int
    BY <1>1, FiniteSums
  <2> QED
    BY <1>4, <2>1, FiniteSums, SumRemove
<1>7. SumFunctionOnSet(TakenOf', Clients)
        = SumFunctionOnSet(TakenOf, Clients) + TakenOf'[c] - TakenOf[c]
  BY <1>4, <1>6, FiniteSums, SumUpdate
<1>8. SumFunctionOnSet(TakenOf', Clients) = SumFunctionOnSet(TakenOf, Clients) + 1
  BY <1>4, <1>6, <1>7
<1> QED
  BY <1>2, <1>5, <1>8 DEF CountInv

LEMMA ValidateCommitCount == IInv /\ CountInv /\ ValidateCommit => CountInv'
<1> SUFFICES ASSUME IInv, CountInv, ValidateCommit PROVE CountInv'
  OBVIOUS
<1>1. TypeOK /\ QueueInv
  BY DEF IInv
<1>2. /\ txthread = "validating" /\ txthread' = "writing" /\ cur' = cur
      /\ UNCHANGED <<local_version, decision, commits, aborts>>
  BY DEF ValidateCommit, clientVars
<1>3. /\ cur \in Clients /\ decision[cur] = 0 /\ Len(tx[cur]) = TxSize
  BY <1>1, <1>2 DEF TypeOK, QueueInv
<1> DEFINE B == Rids(tx[cur])
           one == [s \in Slots |-> IF s \in B THEN 1 ELSE 0]
<1>4. /\ B \in SUBSET Slots
      /\ 1 <= Cardinality(B) /\ Cardinality(B) <= TxSize
  BY <1>1, <1>3, RidsCounted
<1>5. ASSUME NEW d \in Clients
      PROVE  /\ TakenOf'[d] = TakenOf[d]
             /\ d # cur => ValidatedOf'[d] = ValidatedOf[d]
             /\ d = cur => ValidatedOf'[d] = ValidatedOf[d] + 1
  <2>1. /\ Taken(d)' <=> Taken(d)
        /\ Validated(d) <=> decision[d] = 1
        /\ Validated(d)' <=> decision[d] = 1 \/ d = cur
    BY <1>2, <1>3 DEF Validated, Taken
  <2>2. TakenOf'[d] = TakenOf[d]
    BY <1>2, <2>1 DEF TakenOf
  <2>3. CASE d # cur
    BY <1>2, <2>1, <2>2, <2>3 DEF ValidatedOf
  <2>4. CASE d = cur
    <3>1. PICK k \in Nat : k = commits[d]
      BY <1>1 DEF TypeOK
    <3>2. ValidatedOf[d] = k /\ ValidatedOf'[d] = k + 1
      BY <1>2, <1>3, <2>1, <2>4, <3>1 DEF ValidatedOf
    <3> QED
      BY <2>2, <2>4, <3>2
  <2> QED
    BY <2>3, <2>4
<1>6. SumFunctionOnSet(TakenOf', Clients) = SumFunctionOnSet(TakenOf, Clients)
  BY <1>1, <1>5, FiniteSums, SumSame
<1>7. /\ \A d \in Clients : ValidatedOf[d] \in Int /\ ValidatedOf'[d] \in Int
      /\ SumFunctionOnSet(ValidatedOf, Clients) \in Int
      /\ SumFunctionOnSet(won, Slots) \in Int
  <2>1. /\ \A d \in Clients : ValidatedOf[d] \in Int
        /\ \A s \in Slots : won[s] \in Int
    BY <1>1, FiniteSums
  <2>2. \A d \in Clients : ValidatedOf'[d] \in Int
    BY <1>5, <2>1
  <2> QED
    BY <2>1, <2>2, FiniteSums, SumRemove
<1>8. SumFunctionOnSet(ValidatedOf', Clients)
        = SumFunctionOnSet(ValidatedOf, Clients) + ValidatedOf'[cur] - ValidatedOf[cur]
  BY <1>3, <1>5, <1>7, FiniteSums, SumUpdate
<1>9. SumFunctionOnSet(ValidatedOf', Clients) = SumFunctionOnSet(ValidatedOf, Clients) + 1
  BY <1>3, <1>5, <1>7, <1>8
<1>10. SumFunctionOnSet(won', Slots) = SumFunctionOnSet(won, Slots) + Cardinality(B)
  <2>1. \A s \in Slots : one[s] = IF s \in B THEN 1 ELSE 0
    OBVIOUS
  <2>2. \A s \in Slots : won[s] \in Int /\ one[s] \in Int /\ won'[s] = won[s] + one[s]
    BY <1>1 DEF TypeOK, ValidateCommit
  <2> HIDE DEF B, one
  <2>3. SumFunctionOnSet(one, Slots) = Cardinality(B)
    BY <1>4, <2>1, FiniteSums, SumCounts
  <2>4. SumFunctionOnSet(won', Slots)
          = SumFunctionOnSet(won, Slots) + SumFunctionOnSet(one, Slots)
    BY <2>2, FiniteSums, SumPlus
  <2> QED
    BY <2>3, <2>4
<1>11. /\ SumFunctionOnSet(ValidatedOf', Clients) <= SumFunctionOnSet(won', Slots)
       /\ SumFunctionOnSet(won', Slots) <= TxSize * SumFunctionOnSet(ValidatedOf', Clients)
  <2>1. PICK n \in Int, w \in Int, b \in Int :
          /\ n = SumFunctionOnSet(ValidatedOf, Clients) /\ w = SumFunctionOnSet(won, Slots)
          /\ b = Cardinality(B)
    <3>1. Cardinality(B) \in Nat
      BY <1>4, FiniteSums, FS_Subset, FS_CardinalityType
    <3> QED
      BY <1>7, <3>1
  <2>2. n <= w /\ w <= TxSize * n /\ 1 <= b /\ b <= TxSize
    BY <1>4, <2>1 DEF CountInv
  <2>3. n + 1 <= w + b /\ w + b <= TxSize * (n + 1)
    BY <2>2, SizeAssumption
  <2> QED
    BY <1>9, <1>10, <2>1, <2>3
<1> QED
  BY <1>2, <1>6, <1>11 DEF CountInv

LEMMA NextCountInv == IInv /\ CountInv /\ [Next]_vars => CountInv'
<1> SUFFICES ASSUME IInv, CountInv, [Next]_vars PROVE CountInv'
  OBVIOUS
<1>1. TypeOK
  BY DEF IInv
<1>2. CASE TakeRequest
  BY <1>2, TakeRequestCount
<1>3. CASE ValidateCommit
  BY <1>3, ValidateCommitCount
<1>4. CASE \/ UNCHANGED vars
           \/ \E c \in Clients : ClientThread(c)
           \/ ValidateAbort \/ WriteEntry \/ SetCommitted \/ Finished
  <2>1. UNCHANGED <<local_version, won>>
    BY <1>4 DEF ClientThread, SendRead, SendToTXThread, ReceiveDecision, ValidateAbort,
       WriteEntry, SetCommitted, Finished, vars, threadVars
  <2>2. \A d \in Clients : TakenOf'[d] = TakenOf[d] /\ ValidatedOf'[d] = ValidatedOf[d]
    BY <1>4, CountsSame
  <2> QED
    BY <1>1, <2>1, <2>2, CountsKept
<1> QED
  BY <1>2, <1>3, <1>4 DEF Next, TXThread

\* Nothing is counted any more when the totals are printed.
LEMMA NextPrintedInv ==
  IInv /\ ReturnInv /\ MainInv /\ PrintedInv /\ [ProgramNext]_allVars => PrintedInv'
<1> SUFFICES ASSUME IInv, ReturnInv, MainInv, PrintedInv, [ProgramNext]_allVars
             PROVE  PrintedInv'
  OBVIOUS
<1>1. CASE PrintStats
  <2>1. /\ printed' = <<Total(commits), Total(aborts)>>
        /\ commits' = commits /\ aborts' = aborts
    BY <1>1 DEF PrintStats, vars
  <2> QED
    BY <2>1 DEF PrintedInv, Total
<1>2. CASE ~PrintStats
  <2>1. printed' = printed
    BY <1>2 DEF ProgramNext, MainThread, Spawn, Join, ReportRow, Server, Customer, Ended,
       allVars, programVars
  <2>2. CASE printed = <<>>
    BY <2>1, <2>2 DEF PrintedInv
  <2>3. CASE printed # <<>>
    <3>1. \A c \in Clients : Returned(c)
      BY <2>3, Customers DEF MainInv
    <3>2. commits' = commits /\ aborts' = aborts
      BY <3>1, ProgramStep, Quiet
    <3> QED
      BY <2>1, <3>2 DEF PrintedInv, Total
  <2> QED
    BY <2>2, <2>3
<1> QED
  BY <1>1, <1>2

\* When the totals are printed, every request has been taken and every
\* transaction validated has been counted.
LEMMA StatsFromCounts ==
  IInv /\ ReturnInv /\ MainInv /\ CountInv /\ PrintedInv => StatsMatchTable
<1> SUFFICES ASSUME IInv, ReturnInv, MainInv, CountInv, PrintedInv, printed # <<>>
             PROVE  StatsMatchTable
  BY DEF StatsMatchTable
<1> DEFINE bidOf == [s \in Slots |-> kv_table[s].bid]
<1>1. TypeOK
  BY DEF IInv
<1>2. \A c \in Clients : Returned(c)
  BY Customers DEF MainInv
<1>3. /\ txthread = "idle"
      /\ \A c \in Clients : decision[c] = 0
      /\ \A s \in Slots : kv_table[s].bid = won[s]
  BY <1>2, QuietState
<1>4. ASSUME NEW c \in Clients
      PROVE  /\ TakenOf[c] = commits[c] + aborts[c] /\ TakenOf[c] = NumReqs[c]
             /\ ValidatedOf[c] = commits[c]
             /\ commits[c] \in Int /\ aborts[c] \in Int
  <2>1. ~Taken(c) /\ ~Validated(c)
    BY <1>3 DEF Taken, Validated
  <2>2. commits[c] \in Nat /\ aborts[c] \in Nat
    BY <1>1 DEF TypeOK
  <2> QED
    BY <1>2, <2>1, <2>2 DEF TakenOf, ValidatedOf, Returned
<1>5. SumFunctionOnSet(TakenOf, Clients) = Total(commits) + Total(aborts)
  BY <1>4, FiniteSums, SumPlus DEF Total
<1>6. SumFunctionOnSet(TakenOf, Clients) = AllRequests
  <2>1. \A c \in Clients : NumReqs[c] \in Int
    BY SizeAssumption
  <2>2. \A c \in Clients : TakenOf[c] \in Int /\ TakenOf[c] = NumReqs[c]
    <3>1. \A c \in Clients : TakenOf[c] = NumReqs[c]
      BY <1>4
    <3> QED
      BY <2>1, <3>1, Zenon
  <2> QED
    BY <2>2, FiniteSums, SumSame DEF AllRequests
<1>7. SumFunctionOnSet(ValidatedOf, Clients) = Total(commits)
  <2>1. \A c \in Clients : ValidatedOf[c] \in Int /\ ValidatedOf[c] = commits[c]
    BY <1>4
  <2> QED
    BY <2>1, FiniteSums, SumSame DEF Total
<1>8. SumFunctionOnSet(bidOf, Slots) = SumFunctionOnSet(won, Slots)
  <2>1. \A s \in Slots : bidOf[s] \in Int /\ bidOf[s] = won[s]
    BY <1>1, <1>3 DEF TypeOK
  <2> HIDE DEF bidOf
  <2> QED
    BY <2>1, FiniteSums, SumSame
<1>9. printed[1] = Total(commits) /\ printed[2] = Total(aborts)
  BY DEF PrintedInv
<1> HIDE DEF bidOf
<1>10. /\ printed[1] + printed[2] = local_version
       /\ local_version = AllRequests
       /\ printed[1] <= SumFunctionOnSet(bidOf, Slots)
       /\ SumFunctionOnSet(bidOf, Slots) <= TxSize * printed[1]
  BY <1>5, <1>6, <1>7, <1>8, <1>9 DEF CountInv
<1> QED
  BY <1>10 DEF StatsMatchTable, bidOf

\* The totals that the client program prints are the server's, for any number
\* of customers and requests: they add up to the requests that the TX thread
\* took, and to all those made, and the bids in the table are one to TxSize
\* for each transaction printed as committed.
THEOREM StatsMatch == ProgramSpec => []StatsMatchTable
<1>1. /\ ProgramInit => ReturnInv /\ MainInv /\ CountInv /\ PrintedInv
      /\ IInv /\ ReturnInv /\ MainInv /\ CountInv /\ PrintedInv /\ [ProgramNext]_allVars =>
           ReturnInv' /\ MainInv' /\ CountInv' /\ PrintedInv'
  BY InitProgram, InitCount, ProgramStep, NextReturnInv, NextMainInv, NextCountInv,
     NextPrintedInv
<1> QED
  BY <1>1, StatsFromCounts, ProgramIsServer, Invariance, PTL DEF ProgramSpec

-----------------------------------------------------------------------------
(* The programs run out of steps.                                          *)

LEMMA StepSizes ==
  /\ TxSize \in Nat \ {0} /\ NumReqs \in [Clients -> Nat] /\ num_customers \in Nat /\ ReportReqs \in Nat
  /\ TXSteps \in Nat /\ TXSteps = 2 * TxSize + 5
BY SizeAssumption, Customers, ReportAssumption DEF TXSteps

\* Where c's transaction is, by what c, the queue and the TX thread do.
PhaseIs(c) ==
  /\ pc[c] = "bidding" => StepsNow(c) = Len(tx[c])
  /\ (pc[c] = "waiting" /\ decision[c] # 0) => StepsNow(c) = 2 * TxSize + 4
  /\ (pc[c] = "waiting" /\ decision[c] = 0) =>
       /\ ~ (txthread # "idle" /\ cur = c) => StepsNow(c) = TxSize + 1
       /\ (txthread = "validating" /\ cur = c) => StepsNow(c) = TxSize + 2
       /\ (txthread = "writing" /\ cur = c) => StepsNow(c) = TxSize + 2 + widx
  /\ StepsNow(c) \in 0 .. TXSteps - 1
  /\ Len(tx[c]) \in 0 .. TxSize /\ widx \in 1 .. TxSize + 1

LEMMA PhaseIsSo == TypeOK => \A c \in Clients : PhaseIs(c)
<1> SUFFICES ASSUME TypeOK, NEW c \in Clients PROVE PhaseIs(c)
  OBVIOUS
<1>1. /\ Len(tx[c]) \in 0 .. TxSize /\ widx \in 1 .. TxSize + 1
      /\ pc[c] \in {"bidding", "waiting"} /\ decision[c] \in {0, 1, -1}
      /\ txthread \in {"idle", "validating", "writing"}
  BY StepSizes, LenProperties DEF TypeOK
<1>2. CASE pc[c] = "bidding"
  BY <1>1, <1>2, StepSizes DEF StepsNow, PhaseIs
<1>3. CASE pc[c] = "waiting" /\ decision[c] # 0
  BY <1>1, <1>3, StepSizes DEF StepsNow, PhaseIs
<1>4. CASE pc[c] = "waiting" /\ decision[c] = 0
  <2>1. StepsNow(c) = TxSize + 1 + (IF txthread # "idle" /\ cur = c
                                    THEN 1 + (IF txthread = "writing" THEN widx ELSE 0) ELSE 0)
    BY <1>4 DEF StepsNow
  <2> QED
    BY <1>1, <1>4, <2>1, StepSizes DEF PhaseIs
<1> QED
  BY <1>1, <1>2, <1>3, <1>4

LEMMA PhaseIsStillSo == TypeOK' => (\A c \in Clients : PhaseIs(c))'
BY PhaseIsSo, PTL

\* No customer makes more than the steps of its transactions.
LEMMA StepsBounded ==
  ASSUME IInv, ReturnInv, NEW c \in Clients
  PROVE  StepsMade(c) \in Nat /\ StepsMade(c) <= NumReqs[c] * TXSteps
<1>1. TypeOK /\ NumReqs[c] \in Nat
  BY StepSizes DEF IInv
<1>2. PICK m \in Nat : m = commits[c] + aborts[c]
  BY <1>1 DEF TypeOK
<1>3. StepsMade(c) = m * TXSteps + StepsNow(c) /\ StepsNow(c) \in 0 .. TXSteps - 1
  BY <1>1, <1>2, PhaseIsSo DEF StepsMade, PhaseIs
<1>4. m <= NumReqs[c]
  BY <1>2 DEF ReturnInv
<1>5. CASE m = NumReqs[c]
  <2>1. StepsNow(c) = 0
    BY <1>1, <1>2, <1>5, PhaseIsSo, EmptySeq DEF ReturnInv, Returned, PhaseIs
  <2> QED
    BY <1>3, <1>5, <2>1, StepSizes, Scaled
<1>6. CASE m # NumReqs[c]
  <2>1. m + 1 <= NumReqs[c]
    BY <1>1, <1>4, <1>6
  <2>2. /\ m * TXSteps \in Nat /\ NumReqs[c] * TXSteps \in Nat
        /\ m * TXSteps + TXSteps <= NumReqs[c] * TXSteps
    BY <1>1, <2>1, StepSizes, Scaled
  <2> QED
    BY <1>3, <2>2, StepSizes
<1> QED
  BY <1>5, <1>6

LEMMA StepsStillBounded ==
  (IInv /\ ReturnInv)' => (\A c \in Clients : StepsMade(c) \in Nat)'
<1>1. IInv /\ ReturnInv => \A c \in Clients : StepsMade(c) \in Nat
  BY StepsBounded
<1> QED
  BY <1>1, PTL

\* A step of the server or of a customer is a step for one customer.
LEMMA MoreSteps ==
  ASSUME TypeOK, TypeOK', NEW c \in Clients,
         commits'[c] = commits[c], aborts'[c] = aborts[c], StepsNow(c)' > StepsNow(c)
  PROVE  StepsMade(c)' > StepsMade(c)
<1>1. PICK m \in Nat : m = commits[c] + aborts[c]
  BY DEF TypeOK
<1>2. StepsMade(c) = m * TXSteps + StepsNow(c) /\ StepsMade(c)' = m * TXSteps + StepsNow(c)'
  BY <1>1 DEF StepsMade
<1>3. m * TXSteps \in Nat /\ StepsNow(c) \in Int /\ StepsNow(c)' \in Int
  BY <1>1, StepSizes, Scaled, PhaseIsSo, PhaseIsStillSo DEF PhaseIs
<1> QED
  BY <1>2, <1>3

LEMMA SameSteps ==
  ASSUME NEW c \in Clients,
         UNCHANGED <<pc[c], Len(tx[c]), decision[c], commits[c], aborts[c]>>,
         \/ UNCHANGED <<txthread, cur, widx>>
         \/ ~ (txthread # "idle" /\ cur = c) /\ ~ (txthread' # "idle" /\ cur' = c)
  PROVE  StepsMade(c)' = StepsMade(c)
BY DEF StepsMade, StepsNow

LEMMA StepsAdvance ==
  ASSUME IInv, TypeOK', QueueInv', Next, ~ UNCHANGED vars
  PROVE  \E c \in Clients :
           /\ StepsMade(c)' > StepsMade(c)
           /\ \A d \in Clients : d # c => StepsMade(d)' = StepsMade(d)
<1>1. TypeOK /\ QueueInv
  BY DEF IInv
<1>2. \A c \in Clients : PhaseIs(c) /\ PhaseIs(c)'
  BY <1>1, PhaseIsSo, PhaseIsStillSo
<1>3. ASSUME NEW c \in Clients, SendRead(c)
      PROVE  /\ StepsMade(c)' > StepsMade(c)
             /\ \A d \in Clients : d # c => StepsMade(d)' = StepsMade(d)
  <2>1. /\ pc[c] = "bidding" /\ UNCHANGED <<pc, decision, commits, aborts, txthread, cur, widx>>
        /\ \A d \in Clients : d # c => tx'[d] = tx[d]
    BY <1>1, <1>3 DEF SendRead, TypeOK, threadVars
  <2>2. PICK e : tx'[c] = Append(tx[c], e) /\ e \in Reads
    <3>1. PICK rid \in Robots : tx' = [tx EXCEPT ![c] =
             Append(@, [rid |-> rid, bid |-> kv_table[rid].bid, version |-> kv_table[rid].version])]
      BY <1>3 DEF SendRead, ReadEntry
    <3>2. kv_table[rid] \in Entries
      BY <1>1, RobotsAreSlots DEF TypeOK
    <3> QED
      BY <1>1, <3>1, <3>2 DEF TypeOK, Entries, Reads
  <2>3. Len(tx'[c]) = Len(tx[c]) + 1
    BY <1>1, <2>2, AppendProperties DEF TypeOK
  <2>4. StepsNow(c)' > StepsNow(c)
    BY <1>2, <2>1, <2>3 DEF PhaseIs
  <2> QED
    BY <1>1, <2>1, <2>4, MoreSteps, SameSteps
<1>4. ASSUME NEW c \in Clients, SendToTXThread(c)
      PROVE  /\ StepsMade(c)' > StepsMade(c)
             /\ \A d \in Clients : d # c => StepsMade(d)' = StepsMade(d)
  <2>1. /\ pc[c] = "bidding" /\ pc'[c] = "waiting" /\ decision'[c] = 0
        /\ UNCHANGED <<tx, commits, aborts, txthread, cur, widx>>
        /\ \A d \in Clients : d # c => pc'[d] = pc[d] /\ decision'[d] = decision[d]
    BY <1>1, <1>4 DEF SendToTXThread, TypeOK, threadVars
  <2>2. ~ (txthread' # "idle" /\ cur' = c)
    BY <1>1, <2>1 DEF QueueInv
  <2>3. StepsNow(c)' = TxSize + 1 /\ StepsNow(c) <= TxSize
    BY <1>2, <2>1, <2>2 DEF PhaseIs
  <2>4. StepsNow(c)' > StepsNow(c)
    BY <1>2, <2>3, StepSizes DEF PhaseIs
  <2> QED
    BY <1>1, <2>1, <2>4, MoreSteps, SameSteps
<1>5. ASSUME NEW c \in Clients, ReceiveDecision(c)
      PROVE  /\ StepsMade(c)' > StepsMade(c)
             /\ \A d \in Clients : d # c => StepsMade(d)' = StepsMade(d)
  <2>1. /\ pc[c] = "waiting" /\ decision[c] # 0 /\ pc'[c] = "bidding"
        /\ UNCHANGED <<txthread, cur, widx>>
        /\ \A d \in Clients : d # c => /\ pc'[d] = pc[d] /\ decision'[d] = decision[d]
                                       /\ tx'[d] = tx[d] /\ commits'[d] = commits[d]
                                       /\ aborts'[d] = aborts[d]
    BY <1>1, <1>5 DEF ReceiveDecision, TypeOK, threadVars
  <2>2. PICK a \in Nat, b \in Nat : a = commits[c] /\ b = aborts[c]
    BY <1>1 DEF TypeOK
  <2>3. commits'[c] + aborts'[c] = a + b + 1
    <3>1. CASE decision[c] = 1
      <4>1. commits'[c] = a + 1 /\ aborts'[c] = b
        BY <1>1, <1>5, <2>2, <3>1 DEF ReceiveDecision, TypeOK
      <4> QED
        BY <4>1
    <3>2. CASE decision[c] # 1
      <4>1. commits'[c] = a /\ aborts'[c] = b + 1
        BY <1>1, <1>5, <2>2, <3>2 DEF ReceiveDecision, TypeOK
      <4> QED
        BY <4>1
    <3> QED
      BY <3>1, <3>2
  <2>4. PICK m \in Nat : m = a + b
    OBVIOUS
  <2>5. /\ StepsMade(c) = m * TXSteps + StepsNow(c)
        /\ StepsMade(c)' = (m + 1) * TXSteps + StepsNow(c)'
    BY <2>2, <2>3, <2>4 DEF StepsMade
  <2>6. m * TXSteps \in Nat /\ (m + 1) * TXSteps = m * TXSteps + TXSteps
    BY StepSizes, Scaled
  <2>7. StepsNow(c) \in 0 .. TXSteps - 1
    BY <1>2 DEF PhaseIs
  <2>8. StepsNow(c)' \in 0 .. TXSteps - 1
    BY <1>2 DEF PhaseIs, TXSteps
  <2>9. StepsMade(c)' > StepsMade(c)
    BY <2>5, <2>6, <2>7, <2>8, StepSizes
  <2> QED
    BY <2>1, <2>9, SameSteps
<1>6. ASSUME TakeRequest
      PROVE  \E c \in Clients : /\ StepsMade(c)' > StepsMade(c)
                                /\ \A d \in Clients : d # c => StepsMade(d)' = StepsMade(d)
  <2>1. /\ txthread = "idle" /\ txthread' = "validating" /\ cur' \in Clients
        /\ UNCHANGED <<pc, tx, decision, commits, aborts>>
    BY <1>6 DEF TakeRequest, clientVars, TypeOK
  <2>2. PICK c \in Clients : cur' = c
    BY <2>1
  <2>3. pc[c] = "waiting" /\ decision[c] = 0
    <3>1. pc'[c] = "waiting" /\ decision'[c] = 0
      BY <2>1, <2>2 DEF QueueInv
    <3> QED
      BY <2>1, <3>1
  <2>4. StepsNow(c) = TxSize + 1
    BY <1>2, <2>1, <2>3 DEF PhaseIs
  <2>5. StepsNow(c)' = TxSize + 2
    BY <1>2, <2>1, <2>2, <2>3 DEF PhaseIs
  <2>6. StepsNow(c)' > StepsNow(c)
    BY <2>4, <2>5, StepSizes
  <2>7. StepsMade(c)' > StepsMade(c)
    BY <1>1, <2>1, <2>6, MoreSteps
  <2>8. \A d \in Clients : d # c => StepsMade(d)' = StepsMade(d)
    BY <2>1, <2>2, SameSteps
  <2> QED
    BY <2>7, <2>8
<1>7. ASSUME ValidateCommit \/ WriteEntry
      PROVE  /\ cur \in Clients /\ cur' = cur /\ StepsMade(cur)' > StepsMade(cur)
             /\ \A d \in Clients : d # cur => StepsMade(d)' = StepsMade(d)
  <2>1. /\ cur \in Clients /\ cur' = cur /\ txthread # "idle" /\ txthread' = "writing"
        /\ UNCHANGED <<pc, tx, decision, commits, aborts>>
        /\ \/ txthread = "validating"
           \/ txthread = "writing" /\ widx' = widx + 1
    BY <1>1, <1>7 DEF ValidateCommit, WriteEntry, clientVars, TypeOK
  <2>2. pc[cur] = "waiting" /\ decision[cur] = 0
    BY <1>1, <2>1 DEF QueueInv
  <2>3. StepsNow(cur)' > StepsNow(cur)
    BY <1>2, <2>1, <2>2, StepSizes DEF PhaseIs
  <2> QED
    BY <1>1, <2>1, <2>3, MoreSteps, SameSteps
<1>8. ASSUME ValidateAbort \/ SetCommitted
      PROVE  /\ cur \in Clients /\ cur' = cur /\ StepsMade(cur)' > StepsMade(cur)
             /\ \A d \in Clients : d # cur => StepsMade(d)' = StepsMade(d)
  <2>1. /\ cur \in Clients /\ cur' = cur /\ txthread # "idle" /\ txthread' = "idle"
        /\ UNCHANGED <<pc, tx, commits, aborts>> /\ decision'[cur] # 0
        /\ \A d \in Clients : d # cur => decision'[d] = decision[d]
        /\ txthread = "validating" \/ txthread = "writing"
    BY <1>1, <1>8 DEF ValidateAbort, SetCommitted, clientVars, TypeOK
  <2>2. pc[cur] = "waiting" /\ decision[cur] = 0
    BY <1>1, <2>1 DEF QueueInv
  <2>3. StepsNow(cur)' > StepsNow(cur)
    BY <1>2, <2>1, <2>2, StepSizes DEF PhaseIs
  <2> QED
    BY <1>1, <2>1, <2>3, MoreSteps, SameSteps
<1>9. CASE \E c \in Clients : ClientThread(c)
  <2>1. PICK c \in Clients : ClientThread(c)
    BY <1>9
  <2>2. /\ StepsMade(c)' > StepsMade(c)
        /\ \A d \in Clients : d # c => StepsMade(d)' = StepsMade(d)
    BY <2>1, <1>3, <1>4, <1>5 DEF ClientThread
  <2> QED
    BY <2>2
<1>10. CASE TXThread
  <2>1. CASE TakeRequest
    BY <1>6, <2>1
  <2>2. CASE ~TakeRequest
    <3>1. /\ cur \in Clients /\ cur' = cur /\ StepsMade(cur)' > StepsMade(cur)
          /\ \A d \in Clients : d # cur => StepsMade(d)' = StepsMade(d)
      BY <1>7, <1>8, <1>10, <2>2 DEF TXThread
    <3>2. PICK c \in Clients : c = cur
      BY <3>1
    <3>3. StepsMade(c)' > StepsMade(c)
      BY <3>1, <3>2 DEF StepsMade, StepsNow
    <3> QED
      BY <3>1, <3>2, <3>3
  <2> QED
    BY <2>1, <2>2
<1> QED
  BY <1>9, <1>10 DEF Next, Finished

\* The parts of StepsLeft, and that it is never below 0.
LeftBy == [c \in Clients |-> CustomerLeft(c)]

LEMMA LeftIs ==
  StepsLeft = SumFunctionOnSet(LeftBy, Clients)
              + (num_customers - spawned) + (num_customers - joined)
              + (IF printed = <<>> THEN 1 ELSE 0) + (ReportReqs - row)
BY DEF StepsLeft, LeftBy

LEMMA LeftBounded ==
  IInv /\ ReturnInv /\ MainInv =>
    /\ \A c \in Clients : LeftBy[c] \in Int
    /\ SumFunctionOnSet(LeftBy, Clients) \in Int
    /\ spawned \in Int /\ joined \in Int /\ row \in Int /\ num_customers \in Int /\ ReportReqs \in Int
    /\ StepsLeft >= 0
<1> SUFFICES ASSUME IInv, ReturnInv, MainInv
             PROVE  /\ \A c \in Clients : LeftBy[c] \in Int
                    /\ SumFunctionOnSet(LeftBy, Clients) \in Int
                    /\ spawned \in Int /\ joined \in Int /\ row \in Int
                    /\ num_customers \in Int /\ ReportReqs \in Int
                    /\ StepsLeft >= 0
  OBVIOUS
<1>1. ASSUME NEW c \in Clients PROVE LeftBy[c] \in Nat
  <2>1. NumReqs[c] * TXSteps \in Nat
    BY StepSizes, Scaled
  <2>2. StepsMade(c) \in Nat /\ StepsMade(c) <= NumReqs[c] * TXSteps
    BY StepsBounded
  <2>3. CustomerLeft(c) \in Nat
    BY <2>1, <2>2 DEF CustomerLeft
  <2> QED
    BY <2>3 DEF LeftBy
<1>2. SumFunctionOnSet(LeftBy, Clients) \in Nat
  BY <1>1, FiniteSums, SumNat
<1>3. /\ spawned \in 0 .. num_customers /\ joined \in 0 .. num_customers /\ row \in 0 .. ReportReqs
      /\ num_customers \in Nat /\ ReportReqs \in Nat
  BY StepSizes DEF MainInv
<1>4. StepsLeft >= 0
  BY <1>2, <1>3, LeftIs
<1> QED
  BY <1>1, <1>2, <1>3, <1>4

LEMMA LeftStillBounded ==
  (IInv /\ ReturnInv /\ MainInv)' =>
    (/\ \A c \in Clients : LeftBy[c] \in Int
     /\ SumFunctionOnSet(LeftBy, Clients) \in Int
     /\ spawned \in Int /\ joined \in Int /\ row \in Int /\ num_customers \in Int /\ ReportReqs \in Int
     /\ StepsLeft >= 0)'
BY LeftBounded, PTL

\* A step of the server or of a customer.
LEMMA ThreadStepsLeft ==
  ASSUME IInv, ReturnInv, MainInv, (IInv /\ ReturnInv /\ MainInv)',
         Next, ~ UNCHANGED vars, UNCHANGED programVars
  PROVE  StepsLeft' < StepsLeft
<1>1. PICK c \in Clients :
        /\ StepsMade(c)' > StepsMade(c)
        /\ \A d \in Clients : d # c => StepsMade(d)' = StepsMade(d)
  BY StepsAdvance DEF IInv
<1>2. \A d \in Clients : LeftBy[d] \in Int /\ LeftBy'[d] \in Int
  BY LeftBounded, LeftStillBounded
<1>3. LeftBy'[c] < LeftBy[c]
  <2>1. NumReqs[c] * TXSteps \in Nat
    BY StepSizes, Scaled
  <2>2. StepsMade(c) \in Nat /\ StepsMade(c)' \in Nat
    BY StepsBounded, StepsStillBounded
  <2>3. CustomerLeft(c)' < CustomerLeft(c)
    BY <1>1, <2>1, <2>2 DEF CustomerLeft
  <2> QED
    BY <2>3 DEF LeftBy
<1>4. \A d \in Clients : d # c => LeftBy'[d] = LeftBy[d]
  BY <1>1 DEF LeftBy, CustomerLeft
<1>5. SumFunctionOnSet(LeftBy', Clients) = SumFunctionOnSet(LeftBy, Clients) + LeftBy'[c] - LeftBy[c]
  BY <1>2, <1>4, FiniteSums, SumUpdate
<1>6. StepsLeft' = SumFunctionOnSet(LeftBy', Clients)
                   + (num_customers - spawned') + (num_customers - joined')
                   + (IF printed' = <<>> THEN 1 ELSE 0) + (ReportReqs - row')
  BY DEF StepsLeft, LeftBy
<1>7. UNCHANGED <<spawned, joined, printed, row>>
  BY DEF programVars
<1>8. PICK all \in Int, now \in Int, then \in Int :
        all = SumFunctionOnSet(LeftBy, Clients) /\ now = LeftBy[c] /\ then = LeftBy'[c]
  BY <1>2, LeftBounded
<1>9. PICK n \in Int, s \in Int, j \in Int, r \in Int, q \in Int :
        n = num_customers /\ s = spawned /\ j = joined /\ r = row /\ q = ReportReqs
  BY LeftBounded
<1>10. PICK p \in {0, 1} : p = IF printed = <<>> THEN 1 ELSE 0
  OBVIOUS
<1>11. StepsLeft = all + (n - s) + (n - j) + p + (q - r)
  BY <1>8, <1>9, <1>10, LeftIs
<1>12. StepsLeft' = (all + then - now) + (n - s) + (n - j) + p + (q - r)
  BY <1>5, <1>6, <1>7, <1>8, <1>9, <1>10
<1> QED
  BY <1>3, <1>8, <1>11, <1>12

\* A step of the main thread.
LEMMA MainStepsLeft ==
  ASSUME IInv, ReturnInv, MainInv, MainThread
  PROVE  StepsLeft' < StepsLeft
<1>1. UNCHANGED vars
  BY DEF MainThread, Spawn, Join, PrintStats, ReportRow
<1>2. LeftBy' = LeftBy
  BY <1>1 DEF LeftBy, CustomerLeft, StepsMade, StepsNow, vars
<1>3. StepsLeft' = SumFunctionOnSet(LeftBy, Clients)
                   + (num_customers - spawned') + (num_customers - joined')
                   + (IF printed' = <<>> THEN 1 ELSE 0) + (ReportReqs - row')
  BY <1>2 DEF StepsLeft, LeftBy
<1>4. \/ spawned' = spawned + 1 /\ UNCHANGED <<joined, printed, row>>
      \/ joined' = joined + 1 /\ UNCHANGED <<spawned, printed, row>>
      \/ printed = <<>> /\ printed' # <<>> /\ UNCHANGED <<spawned, joined, row>>
      \/ row' = row + 1 /\ UNCHANGED <<spawned, joined, printed>>
  <2>1. <<Total(commits), Total(aborts)>> # <<>>
    OBVIOUS
  <2> QED
    BY <2>1 DEF MainThread, Spawn, Join, PrintStats, ReportRow
<1>5. PICK all \in Int : all = SumFunctionOnSet(LeftBy, Clients)
  BY LeftBounded
<1>6. PICK n \in Int, s \in Int, j \in Int, r \in Int, q \in Int :
        n = num_customers /\ s = spawned /\ j = joined /\ r = row /\ q = ReportReqs
  BY LeftBounded
<1>7. PICK p \in {0, 1} : p = IF printed = <<>> THEN 1 ELSE 0
  OBVIOUS
<1>8. StepsLeft = all + (n - s) + (n - j) + p + (q - r)
  BY <1>5, <1>6, <1>7, LeftIs
<1>9. \/ StepsLeft' = all + (n - (s + 1)) + (n - j) + p + (q - r)
      \/ StepsLeft' = all + (n - s) + (n - (j + 1)) + p + (q - r)
      \/ p = 1 /\ StepsLeft' = all + (n - s) + (n - j) + 0 + (q - r)
      \/ StepsLeft' = all + (n - s) + (n - j) + p + (q - (r + 1))
  BY <1>3, <1>4, <1>5, <1>6, <1>7
<1> QED
  BY <1>8, <1>9

\* No thread goes on for ever, whatever the numbers of customers, requests
\* and robots: a transaction is answered after a bounded number of steps.
THEOREM ProgramRunsOut == ProgramSpec => RunsOut
<1>1. ASSUME IInv, ReturnInv, MainInv, (IInv /\ ReturnInv /\ MainInv)', [ProgramNext]_allVars
      PROVE  [StepsLeft' >= 0 /\ StepsLeft' < StepsLeft]_allVars
  <2> SUFFICES ASSUME ProgramNext, ~ UNCHANGED allVars
               PROVE  StepsLeft' >= 0 /\ StepsLeft' < StepsLeft
    BY <1>1
  <2>1. StepsLeft' >= 0
    BY <1>1, LeftStillBounded
  <2>2. CASE MainThread
    BY <1>1, <2>1, <2>2, MainStepsLeft
  <2>3. CASE Server \/ \E c \in Clients : Customer(c)
    <3>1. Next /\ UNCHANGED programVars
      BY <2>3 DEF Server, Customer, Next
    <3>2. ~ UNCHANGED vars
      BY <3>1 DEF allVars
    <3> QED
      BY <1>1, <2>1, <3>1, <3>2, ThreadStepsLeft
  <2> QED
    BY <2>2, <2>3 DEF ProgramNext, Ended
<1>2. /\ ProgramInit => ReturnInv /\ MainInv
      /\ IInv /\ ReturnInv /\ MainInv /\ [ProgramNext]_allVars => ReturnInv' /\ MainInv'
  BY InitProgram, ProgramStep, NextReturnInv, NextMainInv
<1> QED
  BY <1>1, <1>2, ProgramIsServer, Invariance, PTL DEF ProgramSpec, RunsOut
=============================================================================
