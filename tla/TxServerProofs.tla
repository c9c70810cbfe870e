--------------------------- MODULE TxServerProofs ---------------------------
(***************************************************************************)
(* Proofs about TxServer, for every number of customers, robots, requests  *)
(* and reads per transaction.                                              *)
(***************************************************************************)
EXTENDS TxServer, SequenceTheorems, TLAPS

(* The inductive invariant.                                                *)

\* A customer is queued or in the TX thread's hands at most once, blocked, and
\* with a complete transaction; only a blocked customer has a decision.
QueueInv ==
  /\ \A i \in DOMAIN txrq : pc[txrq[i]] = "waiting" /\ decision[txrq[i]] = 0
  /\ \A i, j \in DOMAIN txrq : txrq[i] = txrq[j] => i = j
  /\ txthread # "idle" => /\ pc[cur] = "waiting"
                          /\ decision[cur] = 0
                          /\ \A i \in DOMAIN txrq : txrq[i] # cur
  /\ \A c \in Clients : pc[c] = "waiting" => Len(tx[c]) = TxSize
  /\ \A c \in Clients : decision[c] # 0 => pc[c] = "waiting"

\* What a customer read is old or current, and current versions were read
\* with current bids: a version determines the bid.
ReadInv ==
  \A c \in Clients : \A i \in DOMAIN tx[c] :
    /\ tx[c][i].version <= kv_table[tx[c][i].rid].version
    /\ tx[c][i].version = kv_table[tx[c][i].rid].version =>
         tx[c][i].bid = kv_table[tx[c][i].rid].bid

\* The version of the current request is new until its first write.
VersionInv ==
  /\ \A s \in Slots : kv_table[s].version <= local_version
  /\ txthread = "validating" => \A s \in Slots : kv_table[s].version < local_version

\* In the write loop the robots still to write are as they were validated, and
\* the written ones have the new version, this customer and one more bid than
\* was read.
WriteInv ==
  txthread = "writing" => \A i \in DOMAIN tx[cur] :
    /\ tx[cur][i].version < local_version
    /\ tx[cur][i].rid \in Pending =>
         kv_table[tx[cur][i].rid].version = tx[cur][i].version
    /\ tx[cur][i].rid \notin Pending =>
         /\ kv_table[tx[cur][i].rid].version = local_version
         /\ kv_table[tx[cur][i].rid].bid = tx[cur][i].bid + 1
         /\ kv_table[tx[cur][i].rid].customer_id = cur

IInv == /\ TypeOK /\ QueueInv /\ ReadInv /\ VersionInv /\ WriteInv
        /\ NoLostUpdate /\ DecisionJustified

-----------------------------------------------------------------------------
(* Type correctness.                                                       *)

LEMMA RobotsAreSlots == Robots \subseteq Slots
BY RangeAssumption DEF Robots, Slots

LEMMA InitTypeOK == Init => TypeOK
<1> SUFFICES ASSUME Init PROVE TypeOK
  OBVIOUS
<1>1. tx \in [Clients -> Seq(Reads)] /\ \A c \in Clients : Len(tx[c]) <= TxSize
  BY SizeAssumption DEF Init
<1>2. kv_value \in Entries
  BY DEF kv_value, Entries
<1>3. kv_table \in [Slots -> Entries]
  BY <1>2 DEF Init
<1>4. widx \in 1 .. TxSize + 1
  BY SizeAssumption DEF Init
<1>5. txrq \in Seq(Clients)
  BY DEF Init
<1> QED
  BY <1>1, <1>3, <1>4, <1>5 DEF Init, TypeOK

LEMMA NextTypeOK == TypeOK /\ QueueInv /\ [Next]_vars => TypeOK'
<1> SUFFICES ASSUME TypeOK, QueueInv, [Next]_vars PROVE TypeOK'
  OBVIOUS
<1> USE DEF TypeOK
<1>1. CASE UNCHANGED vars
  BY <1>1 DEF vars
<1>2. ASSUME NEW c \in Clients, SendRead(c) PROVE TypeOK'
  <2>1. PICK rid \in Robots :
          tx' = [tx EXCEPT ![c] = Append(@, [rid |-> rid,
                                             bid |-> kv_table[rid].bid,
                                             version |-> kv_table[rid].version])]
    BY <1>2 DEF SendRead, ReadEntry
  <2> DEFINE r == [rid |-> rid, bid |-> kv_table[rid].bid,
                   version |-> kv_table[rid].version]
  <2>2. kv_table[rid] \in Entries
    BY RobotsAreSlots
  <2>3. r \in Reads
    BY <2>2 DEF Entries, Reads
  <2>4. Append(tx[c], r) \in Seq(Reads) /\ Len(Append(tx[c], r)) = Len(tx[c]) + 1
    BY <2>3, AppendProperties
  <2>5. Len(tx[c]) < TxSize /\ Len(tx[c]) \in Nat
    BY <1>2, LenProperties DEF SendRead, MoreReads
  <2>6. tx' = [tx EXCEPT ![c] = Append(tx[c], r)]
    BY <2>1
  <2> HIDE DEF r
  <2>7. tx' \in [Clients -> Seq(Reads)]
    BY <2>4, <2>6
  <2>8. \A d \in Clients : Len(tx'[d]) <= TxSize
    BY <2>4, <2>5, <2>6, SizeAssumption
  <2> QED
    BY <1>2, <2>7, <2>8 DEF SendRead, threadVars
<1>3. ASSUME NEW c \in Clients, SendToTXThread(c) PROVE TypeOK'
  <2>1. txrq' \in Seq(Clients)
    BY <1>3, AppendProperties DEF SendToTXThread
  <2> QED
    BY <1>3, <2>1 DEF SendToTXThread, threadVars
<1>4. ASSUME NEW c \in Clients, ReceiveDecision(c) PROVE TypeOK'
  <2>1. tx' \in [Clients -> Seq(Reads)] /\ \A d \in Clients : Len(tx'[d]) <= TxSize
    BY <1>4, SizeAssumption DEF ReceiveDecision
  <2>2. commits' \in [Clients -> Nat] /\ aborts' \in [Clients -> Nat]
    <3>1. \/ commits' = [commits EXCEPT ![c] = @ + 1] /\ aborts' = aborts
          \/ aborts' = [aborts EXCEPT ![c] = @ + 1] /\ commits' = commits
      BY <1>4 DEF ReceiveDecision
    <3>2. commits[c] + 1 \in Nat /\ aborts[c] + 1 \in Nat
      OBVIOUS
    <3> QED
      BY <3>1, <3>2
  <2> QED
    BY <1>4, <2>1, <2>2 DEF ReceiveDecision, threadVars
<1>5. CASE TakeRequest
  <2>1. cur' \in Clients /\ txrq' \in Seq(Clients)
    BY <1>5, HeadTailProperties DEF TakeRequest
  <2> QED
    BY <1>5, <2>1 DEF TakeRequest, clientVars
<1>6. CASE ValidateCommit
  BY <1>6, SizeAssumption DEF ValidateCommit, clientVars
<1>7. CASE ValidateAbort
  BY <1>7 DEF ValidateAbort, clientVars
<1>8. CASE WriteEntry
  <2> DEFINE r == tx[cur][widx]
  <2>1. widx' \in 1 .. TxSize + 1
    BY <1>8, SizeAssumption DEF WriteEntry
  <2>2. kv_table' \in [Slots -> Entries]
    <3>1. widx \in DOMAIN tx[cur]
      BY <1>8, LenProperties DEF WriteEntry, QueueInv
    <3>2. r \in Reads
      BY <1>8, <3>1, ElementOfSeq DEF WriteEntry
    <3>3. NewEntry(r) \in Entries
      BY <1>8, <3>2 DEF WriteEntry, NewEntry, Entries, Reads
    <3> QED
      BY <1>8, <3>3 DEF WriteEntry
  <2> QED
    BY <1>8, <2>1, <2>2 DEF WriteEntry, clientVars
<1>9. CASE SetCommitted
  BY <1>9 DEF SetCommitted, clientVars
<1> QED
  BY <1>1, <1>2, <1>3, <1>4, <1>5, <1>6, <1>7, <1>8, <1>9 DEF Next, TXThread, ClientThread, Finished

-----------------------------------------------------------------------------
(* The queue and the promises.                                             *)

LEMMA NextQueueInv == TypeOK /\ QueueInv /\ [Next]_vars => QueueInv'
<1> SUFFICES ASSUME TypeOK, QueueInv, [Next]_vars PROVE QueueInv'
  OBVIOUS
<1> USE DEF QueueInv
<1>1. CASE UNCHANGED vars
  BY <1>1 DEF vars
<1>2. ASSUME NEW c \in Clients, SendRead(c) PROVE QueueInv'
  <2>1. /\ UNCHANGED <<pc, txrq, decision, txthread, cur>>
        /\ \A d \in Clients : d # c => tx'[d] = tx[d]
        /\ pc[c] # "waiting"
    BY <1>2 DEF SendRead, threadVars, TypeOK
  <2> QED
    BY <2>1
<1>3. ASSUME NEW c \in Clients, SendToTXThread(c) PROVE QueueInv'
  <2>1. /\ pc[c] = "bidding" /\ Len(tx[c]) = TxSize
        /\ pc' = [pc EXCEPT ![c] = "waiting"]
        /\ decision' = [decision EXCEPT ![c] = 0]
        /\ txrq' = Append(txrq, c)
        /\ UNCHANGED <<tx, txthread, cur>>
    BY <1>3 DEF SendToTXThread, threadVars
  <2>2. /\ Len(txrq') = Len(txrq) + 1
        /\ \A i \in 1 .. Len(txrq) : txrq'[i] = txrq[i]
        /\ txrq'[Len(txrq) + 1] = c
        /\ Len(txrq) \in Nat
        /\ DOMAIN txrq = 1 .. Len(txrq) /\ DOMAIN txrq' = 1 .. Len(txrq')
    BY <2>1, AppendProperties, LenProperties DEF TypeOK
  <2>3. \A i \in DOMAIN txrq : txrq[i] \in Clients /\ txrq[i] # c
    BY <2>1, ElementOfSeq DEF TypeOK
  <2>4. \A i \in DOMAIN txrq' : pc'[txrq'[i]] = "waiting" /\ decision'[txrq'[i]] = 0
    BY <2>1, <2>2, <2>3 DEF TypeOK
  <2>5. \A i, j \in DOMAIN txrq' : txrq'[i] = txrq'[j] => i = j
    BY <2>2, <2>3
  <2>6. (txthread # "idle" => /\ pc[cur] = "waiting" /\ decision[cur] = 0
                              /\ \A i \in DOMAIN txrq : txrq[i] # cur)'
    BY <2>1, <2>2 DEF TypeOK
  <2>7. \A d \in Clients : pc'[d] = "waiting" => Len(tx'[d]) = TxSize
    BY <2>1 DEF TypeOK
  <2>8. \A d \in Clients : decision'[d] # 0 => pc'[d] = "waiting"
    BY <2>1 DEF TypeOK
  <2> QED
    BY <2>4, <2>5, <2>6, <2>7, <2>8
<1>4. ASSUME NEW c \in Clients, ReceiveDecision(c) PROVE QueueInv'
  <2>1. /\ decision[c] # 0
        /\ pc' = [pc EXCEPT ![c] = "bidding"]
        /\ decision' = [decision EXCEPT ![c] = 0]
        /\ tx' = [tx EXCEPT ![c] = <<>>]
        /\ UNCHANGED <<txrq, txthread, cur>>
    BY <1>4 DEF ReceiveDecision, threadVars
  <2>2. \A i \in DOMAIN txrq : txrq[i] \in Clients /\ txrq[i] # c
    BY <2>1, ElementOfSeq DEF TypeOK
  <2> QED
    BY <2>1, <2>2 DEF TypeOK
<1>5. CASE TakeRequest
  <2>1. /\ cur' = Head(txrq) /\ txrq' = Tail(txrq) /\ txrq # <<>>
        /\ UNCHANGED <<pc, tx, decision>>
    BY <1>5 DEF TakeRequest, clientVars
  <2>2. /\ Len(txrq) \in Nat \ {0} /\ DOMAIN txrq = 1 .. Len(txrq)
        /\ Head(txrq) = txrq[1]
        /\ DOMAIN txrq' = 1 .. Len(txrq) - 1
        /\ \A i \in 1 .. Len(txrq) - 1 : txrq'[i] = txrq[i + 1]
    BY <2>1, HeadTailProperties, LenProperties, EmptySeq DEF TypeOK
  <2>3. \A i \in DOMAIN txrq' : i + 1 \in DOMAIN txrq /\ txrq'[i] = txrq[i + 1]
    BY <2>2
  <2>4. \A i, j \in DOMAIN txrq' : txrq'[i] = txrq'[j] => i = j
    BY <2>2, <2>3
  <2>5. pc'[cur'] = "waiting" /\ decision'[cur'] = 0
    BY <2>1, <2>2
  <2>6. \A i \in DOMAIN txrq' : txrq'[i] # cur'
    BY <2>1, <2>2
  <2> QED
    BY <2>1, <2>3, <2>4, <2>5, <2>6
<1>6. CASE ValidateCommit
  BY <1>6 DEF ValidateCommit, clientVars
<1>7. CASE ValidateAbort
  <2>1. \A i \in DOMAIN txrq : txrq[i] \in Clients
    BY ElementOfSeq DEF TypeOK
  <2> QED
    BY <1>7, <2>1 DEF ValidateAbort, clientVars, TypeOK
<1>8. CASE WriteEntry
  BY <1>8 DEF WriteEntry, clientVars
<1>9. CASE SetCommitted
  <2>1. \A i \in DOMAIN txrq : txrq[i] \in Clients
    BY ElementOfSeq DEF TypeOK
  <2> QED
    BY <1>9, <2>1 DEF SetCommitted, clientVars, TypeOK
<1> QED
  BY <1>1, <1>2, <1>3, <1>4, <1>5, <1>6, <1>7, <1>8, <1>9 DEF Next, TXThread, ClientThread, Finished

-----------------------------------------------------------------------------
(* The table, the reads and the history.                                   *)

DataInv == ReadInv /\ VersionInv /\ WriteInv /\ NoLostUpdate /\ DecisionJustified

\* What a customer has read has its type, and its robot has a slot.
LEMMA ReadTypes ==
  ASSUME TypeOK, NEW c \in Clients, NEW i \in DOMAIN tx[c]
  PROVE  /\ tx[c][i].rid \in Slots
         /\ tx[c][i].bid \in Nat
         /\ tx[c][i].version \in Nat
         /\ kv_table[tx[c][i].rid].version \in Nat
         /\ kv_table[tx[c][i].rid].bid \in Nat
<1>1. tx[c][i] \in Reads
  BY ElementOfSeq DEF TypeOK
<1>2. tx[c][i].rid \in Slots
  BY <1>1, RobotsAreSlots DEF Reads
<1> QED
  BY <1>1, <1>2 DEF Reads, TypeOK, Entries

\* The TX thread works on a complete transaction.
LEMMA CurrentTX ==
  ASSUME TypeOK, QueueInv, txthread # "idle"
  PROVE  cur \in Clients /\ DOMAIN tx[cur] = 1 .. TxSize
BY LenProperties DEF TypeOK, QueueInv

LEMMA SlotTypes ==
  ASSUME TypeOK, NEW s \in Slots
  PROVE  kv_table[s].version \in Nat /\ kv_table[s].bid \in Nat /\ won[s] \in Nat
BY DEF TypeOK, Entries

\* A step of customer c leaves alone what the TX thread works on.
LEMMA ClientStep ==
  ASSUME TypeOK, QueueInv, NEW c \in Clients,
         UNCHANGED <<kv_table, won>>, UNCHANGED threadVars,
         \A d \in Clients : d # c => tx'[d] = tx[d],
         tx'[c] = tx[c] \/ pc[c] = "bidding" \/ decision[c] # 0,
         VersionInv, WriteInv, NoLostUpdate
  PROVE  VersionInv' /\ WriteInv' /\ NoLostUpdate'
<1>1. txthread # "idle" => tx'[cur] = tx[cur] /\ cur \in Clients
  BY DEF QueueInv, TypeOK
<1>2. Pending' = Pending
  <2>1. UNCHANGED <<txthread, cur, widx>>
    BY DEF threadVars
  <2>2. CASE txthread = "writing"
    <3>1. tx'[cur'] = tx[cur] /\ cur' = cur /\ widx' = widx /\ txthread' = "writing"
      BY <2>1, <2>2, <1>1
    <3> QED
      BY <2>2, <3>1 DEF Pending, Rids
  <2>3. CASE txthread # "writing"
    BY <2>1, <2>3 DEF Pending
  <2> QED
    BY <2>2, <2>3
<1>3. VersionInv'
  BY DEF VersionInv, threadVars
<1>4. WriteInv'
  BY <1>1, <1>2 DEF WriteInv, threadVars
<1>5. NoLostUpdate'
  BY <1>2 DEF NoLostUpdate
<1> QED
  BY <1>3, <1>4, <1>5

LEMMA SendReadData ==
  ASSUME TypeOK, QueueInv, DataInv, NEW c \in Clients, SendRead(c)
  PROVE  DataInv'
<1>1. PICK rid \in Robots :
        tx' = [tx EXCEPT ![c] = Append(@, [rid |-> rid,
                                           bid |-> kv_table[rid].bid,
                                           version |-> kv_table[rid].version])]
  BY DEF SendRead, ReadEntry
<1>2. pc[c] = "bidding" /\ UNCHANGED <<kv_table, won, decision>> /\ UNCHANGED threadVars
  BY DEF SendRead
<1>3. \A d \in Clients : d # c => tx'[d] = tx[d]
  BY <1>1 DEF TypeOK
<1>4. VersionInv' /\ WriteInv' /\ NoLostUpdate'
  BY <1>2, <1>3, ClientStep DEF DataInv
<1> DEFINE r == [rid |-> rid, bid |-> kv_table[rid].bid,
                 version |-> kv_table[rid].version]
<1>5. kv_table[rid] \in Entries
  BY RobotsAreSlots DEF TypeOK
<1>6. r \in Reads
  BY <1>5 DEF Entries, Reads
<1>7. tx'[c] = Append(tx[c], r) /\ tx[c] \in Seq(Reads)
  BY <1>1 DEF TypeOK
<1>8. \A i \in DOMAIN tx'[c] : (i \in DOMAIN tx[c] /\ tx'[c][i] = tx[c][i]) \/ tx'[c][i] = r
  <2> HIDE DEF r
  <2> QED
    BY <1>6, <1>7, AppendProperties, LenProperties
<1>9. ReadInv'
  <2> SUFFICES ASSUME NEW d \in Clients, NEW i \in DOMAIN tx'[d]
               PROVE  /\ tx'[d][i].version <= kv_table[tx'[d][i].rid].version
                      /\ tx'[d][i].version = kv_table[tx'[d][i].rid].version =>
                           tx'[d][i].bid = kv_table[tx'[d][i].rid].bid
    BY <1>2 DEF ReadInv
  <2>1. CASE d # c
    BY <2>1, <1>3 DEF DataInv, ReadInv
  <2>2. CASE d = c
    BY <2>2, <1>5, <1>8 DEF DataInv, ReadInv, Entries
  <2> QED
    BY <2>1, <2>2
<1>10. DecisionJustified'
  <2>1. decision[c] = 0
    BY <1>2 DEF QueueInv, TypeOK
  <2> QED
    BY <2>1, <1>2, <1>3 DEF DataInv, DecisionJustified
<1> QED
  BY <1>4, <1>9, <1>10 DEF DataInv

LEMMA SendToTXThreadData ==
  ASSUME TypeOK, QueueInv, DataInv, NEW c \in Clients, SendToTXThread(c)
  PROVE  DataInv'
<1>1. /\ UNCHANGED <<kv_table, won, tx>> /\ UNCHANGED threadVars
      /\ decision' = [decision EXCEPT ![c] = 0]
  BY DEF SendToTXThread
<1>2. VersionInv' /\ WriteInv' /\ NoLostUpdate'
  BY <1>1, ClientStep DEF DataInv
<1>3. ReadInv' /\ DecisionJustified'
  BY <1>1 DEF DataInv, ReadInv, DecisionJustified, TypeOK
<1> QED
  BY <1>2, <1>3 DEF DataInv

LEMMA ReceiveDecisionData ==
  ASSUME TypeOK, QueueInv, DataInv, NEW c \in Clients, ReceiveDecision(c)
  PROVE  DataInv'
<1>1. /\ UNCHANGED <<kv_table, won>> /\ UNCHANGED threadVars /\ decision[c] # 0
      /\ decision' = [decision EXCEPT ![c] = 0]
      /\ tx' = [tx EXCEPT ![c] = <<>>]
  BY DEF ReceiveDecision
<1>2. VersionInv' /\ WriteInv' /\ NoLostUpdate'
  BY <1>1, ClientStep DEF DataInv, TypeOK
<1>3. ReadInv' /\ DecisionJustified'
  BY <1>1 DEF DataInv, ReadInv, DecisionJustified, TypeOK
<1> QED
  BY <1>2, <1>3 DEF DataInv

LEMMA TakeRequestData ==
  ASSUME TypeOK, QueueInv, DataInv, TakeRequest
  PROVE  DataInv'
<1>1. /\ UNCHANGED <<kv_table, won, tx, decision, widx>>
      /\ txthread = "idle" /\ txthread' = "validating"
      /\ local_version' = local_version + 1
  BY DEF TakeRequest, clientVars
<1>2. ReadInv' /\ DecisionJustified'
  BY <1>1 DEF DataInv, ReadInv, DecisionJustified
<1>3. VersionInv'
  <2>1. \A s \in Slots : kv_table[s].version < local_version + 1
    BY SlotTypes DEF DataInv, VersionInv, TypeOK
  <2> QED
    BY <1>1, <2>1, SlotTypes DEF VersionInv, TypeOK
<1>4. WriteInv'
  BY <1>1 DEF WriteInv
<1>5. NoLostUpdate'
  BY <1>1 DEF DataInv, NoLostUpdate, Pending
<1> QED
  BY <1>2, <1>3, <1>4, <1>5 DEF DataInv

\* Reads that pass the check are current, so their bids are as well.
LEMMA ValidateCommitData ==
  ASSUME TypeOK, QueueInv, DataInv, ValidateCommit
  PROVE  DataInv'
<1>1. /\ UNCHANGED <<kv_table, tx, decision, cur, local_version>>
      /\ txthread = "validating" /\ txthread' = "writing" /\ widx' = 1
      /\ won' = [s \in Slots |-> IF s \in Rids(tx[cur]) THEN won[s] + 1 ELSE won[s]]
      /\ CheckReads(tx[cur])
  BY DEF ValidateCommit, clientVars
<1>2. cur \in Clients
  BY <1>1, CurrentTX
<1>3. Pending' = Rids(tx[cur]) /\ Pending = {}
  BY <1>1 DEF Pending, Rids
<1>4. ReadInv' /\ DecisionJustified'
  BY <1>1 DEF DataInv, ReadInv, DecisionJustified
<1>5. VersionInv'
  BY <1>1 DEF DataInv, VersionInv
<1>6. WriteInv'
  <2> SUFFICES ASSUME NEW i \in DOMAIN tx[cur]
               PROVE  /\ tx[cur][i].version < local_version
                      /\ kv_table[tx[cur][i].rid].version = tx[cur][i].version
                      /\ tx[cur][i].rid \in Rids(tx[cur])
    BY <1>1, <1>3 DEF WriteInv
  <2>1. tx[cur][i].version = kv_table[tx[cur][i].rid].version
    BY <1>1, <1>2, ReadTypes DEF CheckReads, DataInv, ReadInv
  <2>2. kv_table[tx[cur][i].rid].version < local_version
    BY <1>1, <1>2, ReadTypes DEF DataInv, VersionInv
  <2> QED
    BY <2>1, <2>2 DEF Rids
<1>7. NoLostUpdate'
  <2> SUFFICES ASSUME NEW s \in Slots
               PROVE  kv_table[s].bid = won'[s] - (IF s \in Rids(tx[cur]) THEN 1 ELSE 0)
    BY <1>1, <1>3 DEF NoLostUpdate
  <2>1. kv_table[s].bid = won[s] /\ won[s] \in Nat
    BY <1>3, SlotTypes DEF DataInv, NoLostUpdate
  <2> QED
    BY <1>1, <2>1
<1> QED
  BY <1>4, <1>5, <1>6, <1>7 DEF DataInv

LEMMA ValidateAbortData ==
  ASSUME TypeOK, QueueInv, DataInv, ValidateAbort
  PROVE  DataInv'
<1>1. /\ UNCHANGED <<kv_table, won, tx, cur, local_version, widx>>
      /\ txthread = "validating" /\ txthread' = "idle"
      /\ decision' = [decision EXCEPT ![cur] = -1]
      /\ ~CheckReads(tx[cur])
  BY DEF ValidateAbort, clientVars
<1>2. cur \in Clients
  BY <1>1, CurrentTX
<1>3. ReadInv' /\ VersionInv' /\ WriteInv'
  BY <1>1 DEF DataInv, ReadInv, VersionInv, WriteInv
<1>4. NoLostUpdate'
  BY <1>1 DEF DataInv, NoLostUpdate, Pending
<1>5. PICK i \in DOMAIN tx[cur] : tx[cur][i].version < kv_table[tx[cur][i].rid].version
  BY <1>1 DEF CheckReads
<1>6. DecisionJustified'
  <2>1. kv_table[tx[cur][i].rid].version > tx[cur][i].version
    BY <1>2, <1>5, ReadTypes
  <2>2. \A c \in Clients : c # cur => decision'[c] = decision[c]
    BY <1>1 DEF TypeOK
  <2>3. decision'[cur] = -1
    BY <1>1, <1>2 DEF TypeOK
  <2> QED
    BY <1>1, <2>1, <2>2, <2>3 DEF DataInv, DecisionJustified
<1> QED
  BY <1>3, <1>4, <1>6 DEF DataInv

\* Writing a robot: if it was pending its entry is as validated, so the new bid
\* is one more; if it is repeated the same entry is written again.
LEMMA WriteEntryData ==
  ASSUME TypeOK, QueueInv, DataInv, WriteEntry
  PROVE  DataInv'
<1> DEFINE rid == tx[cur][widx].rid
<1>1. /\ UNCHANGED <<won, tx, decision, txthread, cur, local_version>>
      /\ txthread = "writing" /\ widx <= TxSize /\ widx' = widx + 1
      /\ kv_table' = [kv_table EXCEPT ![rid] = NewEntry(tx[cur][widx])]
  BY DEF WriteEntry, clientVars
<1>2. /\ cur \in Clients /\ DOMAIN tx[cur] = 1 .. TxSize
      /\ widx \in DOMAIN tx[cur] /\ widx \in Nat
  BY <1>1, CurrentTX, SizeAssumption DEF TypeOK
<1>3. rid \in Slots /\ rid \in Rids(tx[cur])
  BY <1>2, ReadTypes DEF Rids
<1>4. /\ kv_table'[rid].bid = tx[cur][widx].bid + 1
      /\ kv_table'[rid].version = local_version
      /\ kv_table'[rid].customer_id = cur
      /\ \A s \in Slots : s # rid => kv_table'[s] = kv_table[s]
  BY <1>1, <1>3 DEF NewEntry, TypeOK
<1>5. Pending' = Pending \ {rid}
  <2>1. Pending = {s \in Rids(tx[cur]) : \A i \in 1 .. widx - 1 : tx[cur][i].rid # s}
    BY <1>1 DEF Pending
  <2>2. Pending' = {s \in Rids(tx[cur]) : \A i \in 1 .. widx : tx[cur][i].rid # s}
    BY <1>1, <1>2 DEF Pending, Rids
  <2>3. 1 .. widx = (1 .. widx - 1) \cup {widx}
    BY <1>2
  <2> QED
    BY <2>1, <2>2, <2>3
\* Every read of the robot written has the bid of the read now used.
<1>6. \A i \in DOMAIN tx[cur] : tx[cur][i].rid = rid =>
        tx[cur][i].bid = tx[cur][widx].bid
  <2> SUFFICES ASSUME NEW i \in DOMAIN tx[cur], tx[cur][i].rid = rid
               PROVE  tx[cur][i].bid = tx[cur][widx].bid
    OBVIOUS
  <2>1. CASE rid \in Pending
    BY <1>1, <1>2, <2>1 DEF DataInv, WriteInv, ReadInv
  <2>2. CASE rid \notin Pending
    <3>1. tx[cur][i].bid \in Nat /\ tx[cur][widx].bid \in Nat
      BY <1>2, ReadTypes
    <3>2. /\ kv_table[rid].bid = tx[cur][i].bid + 1
          /\ kv_table[rid].bid = tx[cur][widx].bid + 1
      BY <1>1, <1>2, <2>2 DEF DataInv, WriteInv
    <3> QED
      BY <3>1, <3>2
  <2> QED
    BY <2>1, <2>2
\* A robot that is not pending is written again as it is.
<1>7. /\ rid \in Pending => kv_table[rid].version < local_version
      /\ rid \notin Pending => /\ kv_table[rid].version = local_version
                               /\ kv_table[rid].bid = tx[cur][widx].bid + 1
  BY <1>1, <1>2 DEF DataInv, WriteInv
<1>8. VersionInv'
  BY <1>1, <1>4, SlotTypes DEF DataInv, VersionInv, TypeOK
<1>9. ReadInv'
  <2> SUFFICES ASSUME NEW c \in Clients, NEW i \in DOMAIN tx[c]
               PROVE  /\ tx[c][i].version <= kv_table'[tx[c][i].rid].version
                      /\ tx[c][i].version = kv_table'[tx[c][i].rid].version =>
                           tx[c][i].bid = kv_table'[tx[c][i].rid].bid
    BY <1>1 DEF ReadInv
  <2>1. /\ tx[c][i].version <= kv_table[tx[c][i].rid].version
        /\ tx[c][i].version = kv_table[tx[c][i].rid].version =>
             tx[c][i].bid = kv_table[tx[c][i].rid].bid
    BY DEF DataInv, ReadInv
  <2>2. CASE tx[c][i].rid # rid
    BY <1>4, <2>1, <2>2, ReadTypes
  <2>3. CASE tx[c][i].rid = rid /\ rid \in Pending
    <3>1. /\ tx[c][i].version \in Nat /\ kv_table[rid].version \in Nat
          /\ local_version \in Nat
      BY <2>3, ReadTypes DEF TypeOK
    <3>2. kv_table[rid].version < local_version /\ tx[c][i].version <= kv_table[rid].version
      BY <1>7, <2>1, <2>3
    <3> QED
      BY <1>4, <2>3, <3>1, <3>2
  <2>4. CASE tx[c][i].rid = rid /\ rid \notin Pending
    BY <1>4, <1>7, <2>1, <2>4
  <2> QED
    BY <2>2, <2>3, <2>4
<1>10. WriteInv'
  <2> SUFFICES ASSUME NEW i \in DOMAIN tx[cur]
               PROVE  /\ tx[cur][i].version < local_version
                      /\ tx[cur][i].rid \in Pending' =>
                           kv_table'[tx[cur][i].rid].version = tx[cur][i].version
                      /\ tx[cur][i].rid \notin Pending' =>
                           /\ kv_table'[tx[cur][i].rid].version = local_version
                           /\ kv_table'[tx[cur][i].rid].bid = tx[cur][i].bid + 1
                           /\ kv_table'[tx[cur][i].rid].customer_id = cur
    BY <1>1 DEF WriteInv
  <2>1. CASE tx[cur][i].rid # rid
    BY <1>1, <1>2, <1>4, <1>5, <2>1, ReadTypes DEF DataInv, WriteInv
  <2>2. CASE tx[cur][i].rid = rid
    BY <1>1, <1>4, <1>5, <1>6, <2>2 DEF DataInv, WriteInv
  <2> QED
    BY <2>1, <2>2
<1>11. NoLostUpdate'
  <2> SUFFICES ASSUME NEW s \in Slots
               PROVE  kv_table'[s].bid = won[s] - (IF s \in Pending' THEN 1 ELSE 0)
    BY <1>1 DEF NoLostUpdate
  <2>1. kv_table[s].bid = won[s] - (IF s \in Pending THEN 1 ELSE 0)
    BY DEF DataInv, NoLostUpdate
  <2>2. CASE s # rid
    BY <1>4, <1>5, <2>1, <2>2
  <2>3. CASE s = rid /\ rid \in Pending
    <3>1. tx[cur][widx].bid = kv_table[rid].bid
      BY <1>1, <1>2, <2>3 DEF DataInv, WriteInv, ReadInv
    <3> QED
      BY <1>4, <1>5, <2>1, <2>3, <3>1, SlotTypes
  <2>4. CASE s = rid /\ rid \notin Pending
    BY <1>4, <1>5, <1>7, <2>1, <2>4
  <2> QED
    BY <2>2, <2>3, <2>4
<1>12. DecisionJustified'
  <2>1. \A s \in Slots : kv_table[s].version <= kv_table'[s].version
                         /\ kv_table'[s].version \in Nat
    <3> SUFFICES ASSUME NEW s \in Slots
                 PROVE  kv_table[s].version <= kv_table'[s].version
                        /\ kv_table'[s].version \in Nat
      OBVIOUS
    <3>1. /\ kv_table[s].version \in Nat /\ local_version \in Nat
          /\ kv_table[s].version <= local_version
      BY SlotTypes DEF DataInv, VersionInv, TypeOK
    <3>2. kv_table'[s].version = kv_table[s].version \/ kv_table'[s].version = local_version
      BY <1>4
    <3> QED
      BY <3>1, <3>2
  <2>2. \A c \in Clients : \A i \in DOMAIN tx[c] :
          kv_table[tx[c][i].rid].version > tx[c][i].version =>
            kv_table'[tx[c][i].rid].version > tx[c][i].version
    BY <2>1, ReadTypes
  <2> QED
    BY <1>1, <2>2 DEF DataInv, DecisionJustified
<1> QED
  BY <1>8, <1>9, <1>10, <1>11, <1>12 DEF DataInv

LEMMA SetCommittedData ==
  ASSUME TypeOK, QueueInv, DataInv, SetCommitted
  PROVE  DataInv'
<1>1. /\ UNCHANGED <<kv_table, won, tx, cur, local_version, widx>>
      /\ txthread = "writing" /\ txthread' = "idle" /\ widx > TxSize
      /\ decision' = [decision EXCEPT ![cur] = 1]
  BY DEF SetCommitted, clientVars, WritesDone
<1>2. cur \in Clients /\ DOMAIN tx[cur] = 1 .. TxSize
  BY <1>1, CurrentTX
<1>3. Pending = {} /\ Pending' = {}
  BY <1>1, <1>2, SizeAssumption DEF Pending, Rids, TypeOK
<1>4. ReadInv' /\ VersionInv' /\ WriteInv'
  BY <1>1 DEF DataInv, ReadInv, VersionInv, WriteInv
<1>5. NoLostUpdate'
  BY <1>1, <1>3 DEF DataInv, NoLostUpdate
<1>6. DecisionJustified'
  <2>1. \A i \in DOMAIN tx[cur] : kv_table[tx[cur][i].rid].version > tx[cur][i].version
    BY <1>1, <1>2, <1>3, ReadTypes DEF DataInv, WriteInv, TypeOK
  <2>2. \A c \in Clients : c # cur => decision'[c] = decision[c]
    BY <1>1 DEF TypeOK
  <2>3. decision'[cur] = 1
    BY <1>1, <1>2 DEF TypeOK
  <2> QED
    BY <1>1, <2>1, <2>2, <2>3 DEF DataInv, DecisionJustified
<1> QED
  BY <1>4, <1>5, <1>6 DEF DataInv

-----------------------------------------------------------------------------
(* The theorems.                                                           *)

LEMMA InitIInv == Init => IInv
<1> SUFFICES ASSUME Init PROVE IInv
  OBVIOUS
<1>1. TypeOK
  BY InitTypeOK
<1>2. QueueInv
  BY DEF Init, QueueInv
<1>3. ReadInv /\ WriteInv /\ DecisionJustified
  BY DEF Init, ReadInv, WriteInv, DecisionJustified
<1>4. VersionInv /\ NoLostUpdate
  BY DEF Init, VersionInv, NoLostUpdate, Pending, kv_value
<1> QED
  BY <1>1, <1>2, <1>3, <1>4 DEF IInv

LEMMA NextIInv == IInv /\ [Next]_vars => IInv'
<1> SUFFICES ASSUME IInv, [Next]_vars PROVE IInv'
  OBVIOUS
<1>1. TypeOK /\ QueueInv /\ DataInv
  BY DEF IInv, DataInv
<1>2. TypeOK' /\ QueueInv'
  BY <1>1, NextTypeOK, NextQueueInv
<1>3. ASSUME UNCHANGED vars PROVE DataInv'
  <2>1. ReadInv' /\ VersionInv' /\ DecisionJustified'
    BY <1>1, <1>3 DEF vars, DataInv, ReadInv, VersionInv, DecisionJustified
  <2>2. Pending' = Pending
    BY <1>3 DEF vars, Pending, Rids
  <2>3. WriteInv' /\ NoLostUpdate'
    BY <1>1, <1>3, <2>2 DEF vars, DataInv, WriteInv, NoLostUpdate
  <2> QED
    BY <2>1, <2>3 DEF DataInv
<1>4. ASSUME NEW c \in Clients, ClientThread(c) PROVE DataInv'
  BY <1>1, <1>4, SendReadData, SendToTXThreadData, ReceiveDecisionData DEF ClientThread
<1>5. ASSUME TXThread PROVE DataInv'
  BY <1>1, <1>5, TakeRequestData, ValidateCommitData, ValidateAbortData,
     WriteEntryData, SetCommittedData DEF TXThread
<1>6. DataInv'
  BY <1>3, <1>4, <1>5 DEF Next, Finished
<1> QED
  BY <1>2, <1>6 DEF IInv, DataInv

\* The invariant of queue, promises, reads, table and history.
THEOREM Invariance == Spec => []IInv
<1>1. Init => IInv
  BY InitIInv
<1>2. IInv /\ [Next]_vars => IInv'
  BY NextIInv
<1> QED
  BY <1>1, <1>2, PTL DEF Spec

\* The variables of the server and its customers keep their types.
THEOREM TypeCorrect == Spec => []TypeOK
<1>1. IInv => TypeOK
  BY DEF IInv
<1> QED
  BY <1>1, Invariance, PTL

\* For any number of customers and however long they bid, every robot's bid is
\* the number of committed transactions that bid on it (TXThread's validation
\* of versions excludes lost updates).
THEOREM NoLostUpdates == Spec => []NoLostUpdate
<1>1. IInv => NoLostUpdate
  BY DEF IInv
<1> QED
  BY <1>1, Invariance, PTL

\* A customer that is told "committed" finds all its writes in the table, and
\* one that is told "aborted" did read something out of date.
THEOREM DecisionsJustified == Spec => []DecisionJustified
<1>1. IInv => DecisionJustified
  BY DEF IInv
<1> QED
  BY <1>1, Invariance, PTL

\* Requests leave the queue only into the TX thread's hands, and those only
\* with a decision.
LEMMA NextNoneForgotten == IInv /\ NoneForgotten /\ [Next]_vars => NoneForgotten'
<1> SUFFICES ASSUME IInv, NoneForgotten, [Next]_vars,
                    NEW c \in Clients, pc'[c] = "waiting", decision'[c] = 0
             PROVE  \/ \E i \in DOMAIN txrq' : txrq'[i] = c
                    \/ txthread' # "idle" /\ cur' = c
  BY DEF NoneForgotten
<1>1. TypeOK /\ QueueInv /\ txrq \in Seq(Clients)
  BY DEF IInv, TypeOK
<1> DEFINE Held == \/ \E i \in DOMAIN txrq : txrq[i] = c
                   \/ txthread # "idle" /\ cur = c
<1>2. CASE UNCHANGED <<pc, decision, txrq, txthread, cur>>
  BY <1>2 DEF NoneForgotten
<1>3. ASSUME NEW d \in Clients, SendToTXThread(d)
      PROVE  \/ \E i \in DOMAIN txrq' : txrq'[i] = c
             \/ txthread' # "idle" /\ cur' = c
  <2>1. /\ txrq' = Append(txrq, d) /\ UNCHANGED <<txthread, cur>>
        /\ decision' = [decision EXCEPT ![d] = 0] /\ pc' = [pc EXCEPT ![d] = "waiting"]
    BY <1>3 DEF SendToTXThread, threadVars
  <2>2. /\ Len(txrq) \in Nat /\ DOMAIN txrq = 1 .. Len(txrq)
        /\ DOMAIN txrq' = 1 .. Len(txrq) + 1 /\ txrq'[Len(txrq) + 1] = d
        /\ \A i \in 1 .. Len(txrq) : txrq'[i] = txrq[i]
    BY <1>1, <2>1, AppendProperties, LenProperties
  <2>3. CASE c = d
    <3>1. Len(txrq) + 1 \in DOMAIN txrq' /\ txrq'[Len(txrq) + 1] = c
      BY <2>2, <2>3
    <3> QED
      BY <3>1
  <2>4. CASE c # d
    <3>1. Held
      BY <1>1, <2>1, <2>4 DEF NoneForgotten, TypeOK
    <3>2. CASE \E i \in DOMAIN txrq : txrq[i] = c
      <4>1. PICK i \in 1 .. Len(txrq) : txrq[i] = c
        BY <2>2, <3>2
      <4>2. i \in DOMAIN txrq' /\ txrq'[i] = c
        BY <2>2, <4>1
      <4> QED
        BY <4>2
    <3> QED
      BY <2>1, <3>1, <3>2
  <2> QED
    BY <2>3, <2>4
<1>4. ASSUME NEW d \in Clients, ReceiveDecision(d) PROVE Held
  <2>1. c # d
    BY <1>1, <1>4 DEF ReceiveDecision, TypeOK
  <2> QED
    BY <1>1, <1>4, <2>1 DEF ReceiveDecision, NoneForgotten, TypeOK
<1>5. CASE TakeRequest
  <2>1. /\ txthread = "idle" /\ txrq # <<>> /\ cur' = Head(txrq) /\ txrq' = Tail(txrq)
        /\ txthread' = "validating" /\ UNCHANGED <<pc, decision>>
    BY <1>5 DEF TakeRequest, clientVars
  <2>2. PICK i \in DOMAIN txrq : txrq[i] = c
    BY <2>1 DEF NoneForgotten
  <2>3. /\ Len(txrq) \in Nat \ {0} /\ DOMAIN txrq = 1 .. Len(txrq) /\ Head(txrq) = txrq[1]
        /\ DOMAIN Tail(txrq) = 1 .. Len(txrq) - 1
        /\ \A j \in 1 .. Len(txrq) - 1 : Tail(txrq)[j] = txrq[j + 1]
    BY <1>1, <2>1, EmptySeq, LenProperties, HeadTailProperties
  <2>4. CASE i = 1
    BY <2>1, <2>2, <2>3, <2>4
  <2>5. CASE i # 1
    <3>1. i - 1 \in 1 .. Len(txrq) - 1 /\ Tail(txrq)[i - 1] = txrq[(i - 1) + 1] /\ (i - 1) + 1 = i
      BY <2>3, <2>5
    <3> QED
      BY <2>1, <2>2, <2>3, <3>1
  <2> QED
    BY <2>4, <2>5
<1>6. CASE ValidateCommit \/ WriteEntry
  BY <1>6 DEF ValidateCommit, WriteEntry, clientVars, NoneForgotten
<1>7. CASE ValidateAbort \/ SetCommitted
  <2>1. /\ txthread # "idle" /\ UNCHANGED <<pc, txrq, cur>> /\ cur \in Clients
        /\ \/ decision' = [decision EXCEPT ![cur] = -1]
           \/ decision' = [decision EXCEPT ![cur] = 1]
    BY <1>1, <1>7 DEF ValidateAbort, SetCommitted, clientVars, TypeOK
  <2>2. c # cur /\ decision[c] = 0
    BY <1>1, <2>1 DEF TypeOK
  <2> QED
    BY <2>1, <2>2 DEF NoneForgotten
<1> QED
  BY <1>2, <1>3, <1>4, <1>5, <1>6, <1>7
  DEF Next, TXThread, ClientThread, SendRead, ReceiveDecision, Finished, vars, threadVars

\* Nobody is blocked for nothing: whoever waits for an answer is queued, or the
\* TX thread is at work for it.
THEOREM NobodyIsForgotten == Spec => []NoneForgotten
<1>1. Init => NoneForgotten
  BY DEF Init, NoneForgotten
<1>2. IInv /\ NoneForgotten /\ [Next]_vars => NoneForgotten'
  BY NextNoneForgotten
<1> QED
  BY <1>1, <1>2, Invariance, PTL DEF Spec

\* No write of the table lowers a version or loses a bid.
THEOREM EntriesOnlyAdvance == Spec => EntriesAdvance
<1>1. IInv /\ [Next]_vars =>
        [\A s \in Slots : kv_table'[s] # kv_table[s] =>
           /\ kv_table'[s].version > kv_table[s].version
           /\ kv_table'[s].bid = kv_table[s].bid + 1]_vars
  <2> SUFFICES ASSUME IInv, [Next]_vars, NEW s \in Slots, kv_table'[s] # kv_table[s]
               PROVE  /\ kv_table'[s].version > kv_table[s].version
                      /\ kv_table'[s].bid = kv_table[s].bid + 1
    OBVIOUS
  <2>1. TypeOK /\ QueueInv /\ DataInv /\ WriteEntry
    BY DEF IInv, DataInv, Next, TXThread, ClientThread, Finished, vars, SendRead,
       SendToTXThread, ReceiveDecision, TakeRequest, ValidateCommit,
       ValidateAbort, SetCommitted
  <2>2. s = tx[cur][widx].rid /\ widx \in DOMAIN tx[cur]
    <3>1. \A q \in Slots : q # tx[cur][widx].rid => kv_table'[q] = kv_table[q]
      BY <2>1 DEF WriteEntry, TypeOK
    <3>2. widx \in DOMAIN tx[cur]
      BY <2>1, CurrentTX, SizeAssumption DEF WriteEntry, TypeOK
    <3> QED
      BY <3>1, <3>2
  <2>3. kv_table'[s] = NewEntry(tx[cur][widx])
    BY <2>1, <2>2 DEF WriteEntry, TypeOK
  <2>5. CASE s \in Pending
    <3>1. /\ kv_table[s].version = tx[cur][widx].version
          /\ tx[cur][widx].version < local_version
          /\ tx[cur][widx].bid = kv_table[s].bid
      BY <2>1, <2>2, <2>5, CurrentTX DEF WriteEntry, DataInv, WriteInv, ReadInv
    <3> QED
      BY <2>3, <3>1, <2>1, <2>2, ReadTypes, CurrentTX, SlotTypes DEF NewEntry, WriteEntry, TypeOK
  <2>6. CASE s \notin Pending
    <3>1. /\ kv_table[s].version = local_version
          /\ kv_table[s].bid = tx[cur][widx].bid + 1
          /\ kv_table[s].customer_id = cur
      BY <2>1, <2>2, <2>6 DEF WriteEntry, DataInv, WriteInv
    <3>2. kv_table[s] \in Entries
      BY <2>1 DEF TypeOK
    <3>3. kv_table[s] = NewEntry(tx[cur][widx])
      BY <3>1, <3>2 DEF NewEntry, Entries
    <3> QED
      BY <2>3, <3>3
  <2> QED
    BY <2>5, <2>6
<1> QED
  BY <1>1, Invariance, PTL DEF Spec, EntriesAdvance

-----------------------------------------------------------------------------
(* Aborts.                                                                 *)

\* As long as a transaction is undecided, only other customers have
\* overwritten what it read.
OwnInv ==
  \A c \in Clients : decision[c] = 0 /\ ~ (txthread = "writing" /\ cur = c) =>
    \A i \in DOMAIN tx[c] :
      kv_table[tx[c][i].rid].version > tx[c][i].version =>
        kv_table[tx[c][i].rid].customer_id # c

\* No step makes a customer overwrite its own reads: its next transaction
\* begins when the last one is written.
LEMMA NextOwnInv == IInv /\ OwnInv /\ [Next]_vars => OwnInv'
<1> SUFFICES ASSUME IInv, OwnInv, [Next]_vars PROVE OwnInv'
  OBVIOUS
<1>1. TypeOK /\ QueueInv
  BY DEF IInv
<1>2. CASE UNCHANGED <<tx, decision, txthread, cur, kv_table>>
  BY <1>2 DEF OwnInv
<1>3. ASSUME NEW c \in Clients, SendRead(c) PROVE OwnInv'
  <2>1. PICK rid \in Robots :
          tx' = [tx EXCEPT ![c] = Append(@, [rid |-> rid, bid |-> kv_table[rid].bid,
                                             version |-> kv_table[rid].version])]
    BY <1>3 DEF SendRead, ReadEntry
  <2> DEFINE r == [rid |-> rid, bid |-> kv_table[rid].bid,
                   version |-> kv_table[rid].version]
  <2>2. /\ pc[c] = "bidding" /\ UNCHANGED <<decision, txthread, cur, kv_table>>
        /\ \A d \in Clients : d # c => tx'[d] = tx[d]
    BY <1>1, <1>3, <2>1 DEF SendRead, threadVars, TypeOK
  <2>3. decision[c] = 0 /\ ~ (txthread = "writing" /\ cur = c)
    BY <1>1, <2>2 DEF QueueInv
  <2>4. kv_table[rid] \in Entries
    BY <1>1, RobotsAreSlots DEF TypeOK
  <2>5. r \in Reads
    BY <2>4 DEF Entries, Reads
  <2>6. tx'[c] = Append(tx[c], r) /\ tx[c] \in Seq(Reads)
    BY <1>1, <2>1 DEF TypeOK
  <2>7. \A i \in DOMAIN tx'[c] : (i \in DOMAIN tx[c] /\ tx'[c][i] = tx[c][i]) \/ tx'[c][i] = r
    <3> HIDE DEF r
    <3> QED
      BY <2>5, <2>6, AppendProperties, LenProperties
  <2>8. ~ (kv_table[rid].version > kv_table[rid].version)
    BY <2>4 DEF Entries
  <2>9. ASSUME NEW i \in DOMAIN tx'[c],
               kv_table[tx'[c][i].rid].version > tx'[c][i].version
        PROVE  kv_table[tx'[c][i].rid].customer_id # c
    BY <2>3, <2>7, <2>8, <2>9 DEF OwnInv
  <2> QED
    BY <2>2, <2>9 DEF OwnInv
<1>4. ASSUME NEW c \in Clients, SendToTXThread(c) PROVE OwnInv'
  <2>1. /\ pc[c] = "bidding" /\ decision' = [decision EXCEPT ![c] = 0]
        /\ UNCHANGED <<tx, txthread, cur, kv_table>>
    BY <1>4 DEF SendToTXThread, threadVars
  <2>2. decision[c] = 0
    BY <1>1, <2>1 DEF QueueInv
  <2>3. decision' = decision
    BY <1>1, <2>1, <2>2 DEF TypeOK
  <2> QED
    BY <1>2, <2>1, <2>3
<1>5. ASSUME NEW c \in Clients, ReceiveDecision(c) PROVE OwnInv'
  <2>1. /\ tx' = [tx EXCEPT ![c] = <<>>] /\ decision' = [decision EXCEPT ![c] = 0]
        /\ UNCHANGED <<txthread, cur, kv_table>>
    BY <1>5 DEF ReceiveDecision, threadVars
  <2>2. /\ DOMAIN tx'[c] = {}
        /\ \A d \in Clients : d # c => tx'[d] = tx[d] /\ decision'[d] = decision[d]
    BY <1>1, <2>1 DEF TypeOK
  <2> QED
    BY <2>1, <2>2 DEF OwnInv
<1>6. CASE TakeRequest
  BY <1>6 DEF TakeRequest, clientVars, OwnInv
<1>7. CASE ValidateCommit
  BY <1>7 DEF ValidateCommit, clientVars, OwnInv
<1>8. CASE ValidateAbort
  <2>1. /\ cur \in Clients /\ decision'[cur] = -1 /\ txthread = "validating"
        /\ \A d \in Clients : d # cur => decision'[d] = decision[d]
        /\ UNCHANGED <<tx, kv_table>>
    BY <1>1, <1>8 DEF ValidateAbort, clientVars, TypeOK
  <2> QED
    BY <2>1 DEF OwnInv
<1>9. CASE WriteEntry
  <2>1. /\ txthread = "writing" /\ cur \in Clients /\ widx \in DOMAIN tx[cur]
        /\ UNCHANGED <<tx, decision, txthread, cur>>
        /\ kv_table' = [kv_table EXCEPT ![tx[cur][widx].rid] = NewEntry(tx[cur][widx])]
    BY <1>1, <1>9, CurrentTX, SizeAssumption DEF WriteEntry, clientVars, TypeOK
  <2>2. \A s \in Slots : kv_table'[s] = kv_table[s] \/ kv_table'[s].customer_id = cur
    BY <1>1, <2>1 DEF NewEntry, TypeOK
  <2>3. \A c \in Clients : \A i \in DOMAIN tx[c] : tx[c][i].rid \in Slots
    BY <1>1, ReadTypes
  <2> QED
    BY <2>1, <2>2, <2>3 DEF OwnInv
<1>10. CASE SetCommitted
  <2>1. /\ cur \in Clients /\ decision'[cur] = 1 /\ txthread = "writing"
        /\ \A d \in Clients : d # cur => decision'[d] = decision[d]
        /\ UNCHANGED <<tx, kv_table>>
    BY <1>1, <1>10 DEF SetCommitted, clientVars, TypeOK
  <2> QED
    BY <2>1 DEF OwnInv
<1> QED
  BY <1>2, <1>3, <1>4, <1>5, <1>6, <1>7, <1>8, <1>9, <1>10
  DEF Next, TXThread, ClientThread, Finished, vars

\* Undecided transactions have been overtaken by other customers only.
THEOREM OwnInvariance == Spec => []OwnInv
<1>1. Init => OwnInv
  BY DEF Init, OwnInv
<1>2. IInv /\ OwnInv /\ [Next]_vars => OwnInv'
  BY NextOwnInv
<1> QED
  BY <1>1, <1>2, Invariance, PTL DEF Spec

\* A transaction that fails validation was overtaken by another customer's,
\* never by its own customer's earlier one.
LEMMA AbortReason ==
  ASSUME IInv, OwnInv, ValidateAbort
  PROVE  /\ cur \in Clients /\ decision' = [decision EXCEPT ![cur] = -1]
         /\ \E i \in DOMAIN tx[cur] :
              /\ kv_table[tx[cur][i].rid].version > tx[cur][i].version
              /\ kv_table[tx[cur][i].rid].customer_id # cur
<1>1. /\ txthread = "validating" /\ decision' = [decision EXCEPT ![cur] = -1]
      /\ ~CheckReads(tx[cur])
  BY DEF ValidateAbort
<1>2. cur \in Clients /\ decision[cur] = 0
  BY <1>1 DEF IInv, TypeOK, QueueInv
<1>3. PICK i \in DOMAIN tx[cur] : tx[cur][i].version < kv_table[tx[cur][i].rid].version
  BY <1>1 DEF CheckReads
<1>4. kv_table[tx[cur][i].rid].version > tx[cur][i].version
  BY <1>2, <1>3, ReadTypes DEF IInv
<1>5. kv_table[tx[cur][i].rid].customer_id # cur
  BY <1>1, <1>2, <1>4 DEF OwnInv
<1> QED
  BY <1>1, <1>2, <1>4, <1>5

\* A customer is never aborted by its own earlier bid.
THEOREM AbortsAreByAnother == Spec => AbortedByAnother
<1>1. IInv /\ OwnInv /\ [Next]_vars =>
        [\A c \in Clients : (decision[c] = 0 /\ decision'[c] = -1) =>
           \E i \in DOMAIN tx[c] :
             /\ kv_table[tx[c][i].rid].version > tx[c][i].version
             /\ kv_table[tx[c][i].rid].customer_id # c]_vars
  <2> SUFFICES ASSUME IInv, OwnInv, [Next]_vars, NEW c \in Clients,
                      decision[c] = 0, decision'[c] = -1
               PROVE  \E i \in DOMAIN tx[c] :
                        /\ kv_table[tx[c][i].rid].version > tx[c][i].version
                        /\ kv_table[tx[c][i].rid].customer_id # c
    OBVIOUS
  <2>1. TypeOK
    BY DEF IInv
  <2>2. CASE ValidateAbort
    <3>1. c = cur
      BY <2>1, <2>2, AbortReason DEF TypeOK
    <3> QED
      BY <2>2, <3>1, AbortReason
  <2>3. CASE SetCommitted
    BY <2>1, <2>3 DEF SetCommitted, TypeOK
  <2>4. CASE decision' = decision
    BY <2>4
  <2>5. ASSUME NEW d \in Clients, ClientThread(d), decision' # decision
        PROVE  decision' = [decision EXCEPT ![d] = 0]
    BY <2>5 DEF ClientThread, SendRead, SendToTXThread, ReceiveDecision
  <2>6. ASSUME NEW d \in Clients, decision' = [decision EXCEPT ![d] = 0] PROVE FALSE
    <3>1. decision'[c] \in {0, decision[c]}
      BY <2>1, <2>6 DEF TypeOK
    <3> QED
      BY <3>1
  <2>7. ~ \E d \in Clients : ClientThread(d) /\ decision' # decision
    BY <2>5, <2>6
  <2> QED
    BY <2>2, <2>3, <2>4, <2>7
    DEF Next, TXThread, TakeRequest, ValidateCommit, WriteEntry, Finished, vars
<1> QED
  BY <1>1, Invariance, OwnInvariance, PTL DEF Spec, AbortedByAnother

-----------------------------------------------------------------------------
(* The server implements AtomicBids.                                       *)

\* The queue and the clock of AtomicBids.
Queue == IF txthread = "validating" THEN <<cur>> \o txrq ELSE txrq
Clock == IF txthread = "validating" THEN local_version - 1 ELSE local_version

\* A sequence with an element before it.
LEMMA ConsFacts ==
  ASSUME NEW S, NEW s \in Seq(S), NEW e \in S
  PROVE  /\ <<e>> \o s \in Seq(S) /\ <<e>> \o s # <<>>
         /\ Head(<<e>> \o s) = e /\ Tail(<<e>> \o s) = s
         /\ \A d \in S : Append(<<e>> \o s, d) = <<e>> \o Append(s, d)
<1> DEFINE h == <<e>>
           t == h \o s
<1>1. h \in Seq(S) /\ Len(h) = 1 /\ h[1] = e /\ Len(s) \in Nat
  BY LenProperties
<1> HIDE DEF h
<1>2. /\ t \in Seq(S) /\ Len(t) = 1 + Len(s)
      /\ \A i \in 1 .. 1 + Len(s) : t[i] = IF i <= 1 THEN h[i] ELSE s[i - 1]
  <2>1. /\ t \in Seq(S) /\ Len(t) = Len(h) + Len(s)
        /\ \A i \in 1 .. Len(h) + Len(s) : t[i] = IF i <= Len(h) THEN h[i] ELSE s[i - Len(h)]
    BY <1>1, ConcatProperties
  <2> HIDE DEF t
  <2> QED
    BY <1>1, <2>1
<1> HIDE DEF t
<1>3. t # <<>>
  BY <1>1, <1>2, EmptySeq
<1>4. t[1] = e
  BY <1>1, <1>2
<1>5. Head(t) = e
  BY <1>2, <1>3, <1>4
<1>6. /\ Tail(t) \in Seq(S) /\ Len(Tail(t)) = Len(s)
      /\ \A i \in 1 .. Len(s) : Tail(t)[i] = t[i + 1]
  BY <1>1, <1>2, <1>3, HeadTailProperties
<1>7. \A i \in 1 .. Len(s) : Tail(t)[i] = s[i]
  BY <1>1, <1>2, <1>6
<1>8. Tail(t) = s
  BY <1>6, <1>7, SeqEqual
<1>9. ASSUME NEW d \in S PROVE Append(t, d) = h \o Append(s, d)
  <2>1. <<d>> \in Seq(S)
    OBVIOUS
  <2>2. Append(t, d) = t \o <<d>> /\ Append(s, d) = s \o <<d>>
    BY <1>2, AppendIsConcat
  <2> QED
    BY <1>1, <2>1, <2>2, ConcatAssociative DEF t
<1> QED
  BY <1>2, <1>3, <1>5, <1>8, <1>9 DEF h, t

\* In the write loop the store has all the entries of the transaction.
LEMMA WritingStore ==
  ASSUME IInv, txthread = "writing"
  PROVE  /\ \A j \in DOMAIN tx[cur] : Store[tx[cur][j].rid] = NewEntry(tx[cur][j])
         /\ \A s \in Slots : s \notin Pending => Store[s] = kv_table[s]
<1>1. TypeOK /\ QueueInv /\ cur \in Clients /\ DOMAIN tx[cur] = 1 .. TxSize
  BY CurrentTX DEF IInv
<1>2. ASSUME NEW j \in DOMAIN tx[cur]
      PROVE  Store[tx[cur][j].rid] = NewEntry(tx[cur][j])
  <2>1. PICK s \in Slots : s = tx[cur][j].rid
    BY <1>1, ReadTypes
  <2>2. CASE s \in Pending
    <3>1. PICK i \in 1 .. TxSize : /\ tx[cur][i].rid = s
                                   /\ Store[s] = NewEntry(tx[cur][i])
      BY <1>1, <2>1, <2>2 DEF Store
    <3>2. tx[cur][i].bid = kv_table[s].bid /\ tx[cur][j].bid = kv_table[s].bid
      <4>1. \A k \in DOMAIN tx[cur] :
              tx[cur][k].rid = s => kv_table[s].version = tx[cur][k].version
        BY <2>2 DEF IInv, WriteInv
      <4>2. \A k \in DOMAIN tx[cur] : tx[cur][k].rid = s => tx[cur][k].bid = kv_table[s].bid
        BY <1>1, <4>1 DEF IInv, ReadInv
      <4> QED
        BY <1>1, <2>1, <3>1, <4>2
    <3> QED
      BY <2>1, <3>1, <3>2 DEF NewEntry
  <2>3. CASE s \notin Pending
    <3>1. Store[s] = kv_table[s] /\ kv_table[s] \in Entries
      BY <1>1, <2>3 DEF Store, TypeOK
    <3>2. /\ kv_table[s].version = local_version /\ kv_table[s].customer_id = cur
          /\ kv_table[s].bid = tx[cur][j].bid + 1
      BY <2>1, <2>3 DEF IInv, WriteInv
    <3>3. kv_table[s] = NewEntry(tx[cur][j])
      BY <3>1, <3>2 DEF NewEntry, Entries
    <3> QED
      BY <2>1, <3>1, <3>3
  <2> QED
    BY <2>2, <2>3
<1> QED
  BY <1>2 DEF Store

LEMMA StoreIdle ==
  ASSUME txthread # "writing", TypeOK
  PROVE  Store = kv_table
BY DEF Store, Pending, TypeOK

LEMMA OutcomeSame ==
  ASSUME NEW d \in Clients, pc'[d] = pc[d], decision'[d] = decision[d],
         (txthread' = "writing" /\ cur' = d) <=> (txthread = "writing" /\ cur = d)
  PROVE  Outcome'[d] = Outcome[d]
BY DEF Outcome

LEMMA OutcomeStep ==
  ASSUME NEW c \in Clients, NEW x, Outcome'[c] = x,
         \A d \in Clients : d # c => Outcome'[d] = Outcome[d]
  PROVE  Outcome' = [Outcome EXCEPT ![c] = x]
<1>1. /\ DOMAIN Outcome = Clients /\ Outcome' = [d \in Clients |-> Outcome'[d]]
      /\ Outcome = [d \in Clients |-> Outcome[d]]
  BY DEF Outcome
<1> QED
  BY <1>1

LEMMA OutcomeStutter ==
  ASSUME \A d \in Clients : Outcome'[d] = Outcome[d]
  PROVE  Outcome' = Outcome
BY DEF Outcome

LEMMA BidsStutter ==
  ASSUME UNCHANGED <<Store, Queue, Clock, Outcome>>
  PROVE  UNCHANGED Atomic!bidVars
BY DEF Atomic!bidVars, Queue, Clock

\* The server starts with AtomicBids' empty store and queue.
LEMMA InitAtomic == Init => Atomic!Open
<1> SUFFICES ASSUME Init PROVE Atomic!Open
  OBVIOUS
<1>1. Store = [s \in Slots |-> Atomic!Unbid]
  BY DEF Init, Store, Pending, kv_value, NoCustomer, Atomic!Unbid
<1>2. Outcome = [c \in Clients |-> "none"]
  BY DEF Init, Outcome
<1> QED
  BY <1>1, <1>2 DEF Init, Atomic!Open

\* What the TX thread works on is not touched by a step of a customer.
LEMMA ClientStore ==
  ASSUME TypeOK, QueueInv, NEW c \in Clients, UNCHANGED <<kv_table, threadVars>>,
         \A d \in Clients : d # c => tx'[d] = tx[d],
         tx'[c] = tx[c] \/ pc[c] = "bidding" \/ decision[c] # 0
  PROVE  Store' = Store
<1>1. UNCHANGED <<kv_table, txthread, cur, local_version, widx>>
  BY DEF threadVars
<1>2. CASE txthread = "writing"
  <2>1. tx'[cur] = tx[cur]
    BY <1>2 DEF QueueInv, TypeOK
  <2>2. Pending' = Pending
    BY <1>1, <1>2, <2>1 DEF Pending, Rids
  <2> QED
    BY <1>1, <2>1, <2>2 DEF Store, NewEntry
<1>3. CASE txthread # "writing"
  BY <1>1, <1>3 DEF Store, Pending
<1> QED
  BY <1>2, <1>3

LEMMA SendReadAtomic ==
  ASSUME IInv, NEW c \in Clients, SendRead(c)
  PROVE  UNCHANGED Atomic!bidVars
<1>1. /\ pc[c] = "bidding" /\ UNCHANGED <<pc, decision, txrq, kv_table>>
      /\ UNCHANGED threadVars /\ UNCHANGED <<txthread, cur, local_version>>
  BY DEF SendRead, threadVars
<1>2. \A d \in Clients : d # c => tx'[d] = tx[d]
  BY DEF SendRead, IInv, TypeOK
<1>3. Store' = Store
  BY <1>1, <1>2, ClientStore DEF IInv
<1>4. Outcome' = Outcome
  BY <1>1, OutcomeSame, OutcomeStutter
<1>5. UNCHANGED <<Queue, Clock>>
  BY <1>1 DEF Queue, Clock
<1> QED
  BY <1>3, <1>4, <1>5, BidsStutter

LEMMA SubmitAtomic ==
  ASSUME IInv, NEW c \in Clients, SendToTXThread(c)
  PROVE  Atomic!Submit(c)
<1>1. /\ pc[c] = "bidding" /\ txrq' = Append(txrq, c)
      /\ decision' = [decision EXCEPT ![c] = 0] /\ pc' = [pc EXCEPT ![c] = "waiting"]
      /\ UNCHANGED <<tx, kv_table>> /\ UNCHANGED threadVars
      /\ UNCHANGED <<txthread, cur, local_version>>
  BY DEF SendToTXThread, threadVars
<1>2. TypeOK /\ QueueInv
  BY DEF IInv
<1>3. Store' = Store
  BY <1>1, <1>2, ClientStore
<1>4. Outcome[c] = "none"
  BY <1>1 DEF Outcome
<1>5. ~ (txthread' = "writing" /\ cur' = c)
  BY <1>1, <1>2 DEF QueueInv
<1>6. Outcome'[c] = "pending"
  <2>1. pc'[c] = "waiting" /\ decision'[c] = 0
    BY <1>1, <1>2 DEF TypeOK
  <2> QED
    BY <1>5, <2>1 DEF Outcome
<1>7. \A d \in Clients : d # c => pc'[d] = pc[d] /\ decision'[d] = decision[d]
  BY <1>1, <1>2 DEF TypeOK
<1>8. Outcome' = [Outcome EXCEPT ![c] = "pending"]
  BY <1>1, <1>6, <1>7, OutcomeSame, OutcomeStep
<1>9. Queue' = Append(Queue, c)
  <2>1. CASE txthread = "validating"
    <3>1. cur \in Clients /\ txrq \in Seq(Clients)
      BY <1>2, <2>1 DEF TypeOK
    <3> QED
      BY <1>1, <2>1, <3>1, ConsFacts DEF Queue
  <2>2. CASE txthread # "validating"
    BY <1>1, <2>2 DEF Queue
  <2> QED
    BY <2>1, <2>2
<1>10. Clock' = Clock
  BY <1>1 DEF Clock
<1> QED
  BY <1>3, <1>4, <1>8, <1>9, <1>10 DEF Atomic!Submit, Queue, Clock

LEMMA AnswerAtomic ==
  ASSUME IInv, NEW c \in Clients, ReceiveDecision(c)
  PROVE  Atomic!Answer(c)
<1>1. /\ pc[c] = "waiting" /\ decision[c] # 0
      /\ decision' = [decision EXCEPT ![c] = 0] /\ pc' = [pc EXCEPT ![c] = "bidding"]
      /\ tx' = [tx EXCEPT ![c] = <<>>]
      /\ UNCHANGED <<kv_table, txrq>> /\ UNCHANGED threadVars
      /\ UNCHANGED <<txthread, cur, local_version>>
  BY DEF ReceiveDecision, threadVars
<1>2. TypeOK /\ QueueInv
  BY DEF IInv
<1>3. \A d \in Clients : d # c => /\ pc'[d] = pc[d] /\ decision'[d] = decision[d]
                                  /\ tx'[d] = tx[d]
  BY <1>1, <1>2 DEF TypeOK
<1>4. Store' = Store
  BY <1>1, <1>2, <1>3, ClientStore
<1>5. decision[c] \in {1, -1}
  BY <1>1, <1>2 DEF TypeOK
<1>6. Outcome[c] \in {"won", "lost"}
  BY <1>1, <1>5 DEF Outcome
<1>7. Outcome'[c] = "none"
  <2>1. pc'[c] = "bidding"
    BY <1>1, <1>2 DEF TypeOK
  <2> QED
    BY <2>1 DEF Outcome
<1>8. Outcome' = [Outcome EXCEPT ![c] = "none"]
  BY <1>1, <1>3, <1>7, OutcomeSame, OutcomeStep
<1>9. UNCHANGED <<Queue, Clock>>
  BY <1>1 DEF Queue, Clock
<1> QED
  BY <1>4, <1>6, <1>8, <1>9 DEF Atomic!Answer, Queue, Clock

LEMMA TakeRequestAtomic ==
  ASSUME IInv, TakeRequest
  PROVE  UNCHANGED Atomic!bidVars
<1>1. /\ txthread = "idle" /\ txthread' = "validating" /\ txrq # <<>>
      /\ cur' = Head(txrq) /\ txrq' = Tail(txrq) /\ local_version' = local_version + 1
      /\ UNCHANGED <<pc, decision, kv_table, tx>>
  BY DEF TakeRequest, clientVars
<1>2. txrq \in Seq(Clients) /\ local_version \in Nat /\ TypeOK
  BY DEF IInv, TypeOK
<1>3. Store' = Store
  BY <1>1 DEF Store, Pending
<1>4. Outcome' = Outcome
  BY <1>1, OutcomeSame, OutcomeStutter
<1>5. Queue' = Queue
  <2>1. <<Head(txrq)>> \o Tail(txrq) = txrq
    <3> DEFINE h == Head(txrq)
               t == Tail(txrq)
               u == <<h>> \o t
    <3>1. /\ h \in Clients /\ t \in Seq(Clients) /\ Len(txrq) \in Nat \ {0}
          /\ Len(t) = Len(txrq) - 1 /\ h = txrq[1]
          /\ \A i \in 1 .. Len(t) : t[i] = txrq[i + 1]
      BY <1>1, <1>2, HeadTailProperties, EmptySeq
    <3>2. u \in Seq(Clients) /\ Head(u) = h /\ Tail(u) = t /\ u # <<>>
      BY <3>1, ConsFacts
    <3>3. /\ Len(u) \in Nat \ {0} /\ Len(t) = Len(u) - 1 /\ h = u[1]
          /\ \A i \in 1 .. Len(t) : t[i] = u[i + 1]
      <4> HIDE DEF h, t, u
      <4> QED
        BY <3>2, HeadTailProperties, EmptySeq
    <3> HIDE DEF h, t, u
    <3>4. Len(u) = Len(txrq)
      BY <3>1, <3>3
    <3>5. ASSUME NEW i \in 1 .. Len(u) PROVE u[i] = txrq[i]
      <4>1. CASE i = 1
        BY <3>1, <3>3, <4>1
      <4>2. CASE i # 1
        <5>1. i - 1 \in 1 .. Len(t) /\ (i - 1) + 1 = i
          BY <3>3, <4>2
        <5> QED
          BY <3>1, <3>3, <5>1
      <4> QED
        BY <4>1, <4>2
    <3>6. u = txrq
      BY <1>2, <3>2, <3>4, <3>5, SeqEqual
    <3> QED
      BY <3>6 DEF h, t, u
  <2> QED
    BY <1>1, <2>1 DEF Queue
<1>6. Clock' = Clock
  BY <1>1, <1>2 DEF Clock
<1> QED
  BY <1>3, <1>4, <1>5, <1>6, BidsStutter

\* A transaction takes effect when its reads are found to be current.
LEMMA CommitAtomic ==
  ASSUME IInv, ValidateCommit
  PROVE  \E bundle \in Atomic!Bundles : Atomic!Win(bundle)
<1>1. /\ txthread = "validating" /\ txthread' = "writing" /\ widx' = 1
      /\ CheckReads(tx[cur])
      /\ UNCHANGED <<pc, decision, kv_table, tx, txrq, cur, local_version>>
  BY DEF ValidateCommit, clientVars
<1>2. /\ TypeOK /\ QueueInv /\ cur \in Clients /\ DOMAIN tx[cur] = 1 .. TxSize
      /\ pc[cur] = "waiting" /\ decision[cur] = 0
      /\ txrq \in Seq(Clients) /\ local_version \in Nat
  BY <1>1, CurrentTX DEF IInv, TypeOK, QueueInv
<1> DEFINE B == Rids(tx[cur])
<1>3. B \in Atomic!Bundles
  <2>1. [i \in 1 .. TxSize |-> tx[cur][i].rid] \in [1 .. TxSize -> Slots]
    BY <1>2, ReadTypes
  <2>2. B = {[i \in 1 .. TxSize |-> tx[cur][i].rid][j] : j \in 1 .. TxSize}
    BY <1>2 DEF Rids
  <2> QED
    BY <2>1, <2>2 DEF Atomic!Bundles
<1>4. Queue # <<>> /\ Head(Queue) = cur /\ Tail(Queue) = txrq /\ Queue' = txrq
  BY <1>1, <1>2, ConsFacts DEF Queue
<1>5. Clock = local_version - 1 /\ Clock' = Clock + 1 /\ Clock + 1 = local_version
  BY <1>1, <1>2 DEF Clock
<1>6. Outcome' = [Outcome EXCEPT ![cur] = "won"]
  <2>1. Outcome'[cur] = "won"
    BY <1>1, <1>2 DEF Outcome
  <2> QED
    BY <1>1, <1>2, <2>1, OutcomeSame, OutcomeStep
<1>7. ASSUME NEW s \in Slots
      PROVE  Store'[s] = IF s \in B
                         THEN [bid |-> Store[s].bid + 1, customer_id |-> cur,
                               version |-> local_version]
                         ELSE Store[s]
  <2>1. Store = kv_table
    BY <1>1, <1>2, StoreIdle
  <2>2. Pending' = B
    BY <1>1 DEF Pending, Rids
  <2>3. CASE s \in B
    <3>1. PICK i \in 1 .. TxSize : tx[cur][i].rid = s /\ Store'[s] = NewEntry(tx[cur][i])
      <4>1. \E i \in 1 .. TxSize : tx[cur][i].rid = s
        BY <1>2, <2>3 DEF Rids
      <4>2. Store'[s] = NewEntry(tx[cur][CHOOSE i \in 1 .. TxSize : tx[cur][i].rid = s])
        BY <1>1, <2>2, <2>3 DEF Store, NewEntry
      <4> QED
        BY <4>1, <4>2
    <3>2. tx[cur][i].version = kv_table[s].version
      <4>1. tx[cur][i].version \in Nat /\ kv_table[s].version \in Nat
        BY <1>2, <3>1, ReadTypes
      <4>2. tx[cur][i].version <= kv_table[s].version
        BY <1>2, <3>1 DEF IInv, ReadInv
      <4>3. ~ (tx[cur][i].version < kv_table[s].version)
        BY <1>1, <1>2, <3>1 DEF CheckReads
      <4> QED
        BY <4>1, <4>2, <4>3
    <3>3. tx[cur][i].bid = kv_table[s].bid
      BY <1>2, <3>1, <3>2 DEF IInv, ReadInv
    <3> QED
      BY <2>1, <2>3, <3>1, <3>3 DEF NewEntry
  <2>4. CASE s \notin B
    BY <1>1, <2>1, <2>2, <2>4 DEF Store
  <2> QED
    BY <2>3, <2>4
<1>8. Store' = [s \in Slots |->
                 IF s \in B
                 THEN [bid |-> Store[s].bid + 1, customer_id |-> Head(Queue),
                       version |-> Clock + 1]
                 ELSE Store[s]]
  <2>1. Store' = [s \in Slots |-> Store'[s]]
    BY DEF Store
  <2> QED
    BY <1>4, <1>5, <1>7, <2>1
<1>9. Outcome' = [Outcome EXCEPT ![Head(Queue)] = "won"] /\ Queue' = Tail(Queue)
  BY <1>4, <1>6
<1>10. Atomic!Win(B)
  BY <1>4, <1>5, <1>8, <1>9 DEF Atomic!Win, Queue, Clock
<1> QED
  BY <1>3, <1>10

LEMMA AbortAtomic ==
  ASSUME IInv, OwnInv, ValidateAbort
  PROVE  Atomic!Lose
<1>1. /\ txthread = "validating" /\ txthread' = "idle"
      /\ UNCHANGED <<pc, kv_table, tx, txrq, cur, local_version>>
  BY DEF ValidateAbort, clientVars
<1>2. /\ TypeOK /\ cur \in Clients /\ pc[cur] = "waiting"
      /\ txrq \in Seq(Clients) /\ local_version \in Nat
  BY <1>1 DEF IInv, TypeOK, QueueInv
<1>3. Queue # <<>> /\ Head(Queue) = cur /\ Tail(Queue) = txrq /\ Queue' = txrq
  BY <1>1, <1>2, ConsFacts DEF Queue
<1>4. Clock' = Clock + 1
  BY <1>1, <1>2 DEF Clock
<1>5. Store' = Store /\ Store = kv_table
  BY <1>1, <1>2, StoreIdle DEF Store, Pending
<1>6. decision' = [decision EXCEPT ![cur] = -1]
  BY AbortReason
<1>7. Outcome' = [Outcome EXCEPT ![cur] = "lost"]
  <2>1. decision'[cur] = -1 /\ \A d \in Clients : d # cur => decision'[d] = decision[d]
    BY <1>2, <1>6 DEF TypeOK
  <2>2. Outcome'[cur] = "lost"
    BY <1>1, <1>2, <2>1 DEF Outcome
  <2> QED
    BY <1>1, <1>2, <2>1, <2>2, OutcomeSame, OutcomeStep
<1>8. \E s \in Slots : Store[s].version > 0 /\ Store[s].customer_id # cur
  <2>1. PICK i \in DOMAIN tx[cur] :
          /\ kv_table[tx[cur][i].rid].version > tx[cur][i].version
          /\ kv_table[tx[cur][i].rid].customer_id # cur
    BY AbortReason
  <2>2. /\ tx[cur][i].rid \in Slots /\ tx[cur][i].version \in Nat
        /\ kv_table[tx[cur][i].rid].version \in Nat
    BY <1>2, ReadTypes
  <2>3. kv_table[tx[cur][i].rid].version > 0
    BY <2>1, <2>2
  <2> QED
    BY <1>5, <2>1, <2>2, <2>3
<1>9. /\ Outcome' = [Outcome EXCEPT ![Head(Queue)] = "lost"] /\ Queue' = Tail(Queue)
      /\ \E s \in Slots : Store[s].version > 0 /\ Store[s].customer_id # Head(Queue)
  BY <1>3, <1>7, <1>8
<1> QED
  BY <1>3, <1>4, <1>5, <1>9 DEF Atomic!Lose, Queue, Clock

\* The writes of the loop are already in the store.
LEMMA WriteEntryAtomic ==
  ASSUME IInv, WriteEntry
  PROVE  UNCHANGED Atomic!bidVars
<1> DEFINE rid == tx[cur][widx].rid
<1>1. /\ txthread = "writing" /\ widx <= TxSize /\ widx' = widx + 1
      /\ UNCHANGED <<pc, decision, tx, txrq, txthread, cur, local_version>>
      /\ kv_table' = [kv_table EXCEPT ![rid] = NewEntry(tx[cur][widx])]
  BY DEF WriteEntry, clientVars
<1>2. /\ TypeOK /\ cur \in Clients /\ widx \in DOMAIN tx[cur] /\ widx \in Nat \ {0}
  BY <1>1, CurrentTX, SizeAssumption DEF IInv, TypeOK
<1>3. rid \in Slots
  BY <1>2, ReadTypes
<1>4. Pending' = Pending \ {rid}
  <2>1. Pending = {s \in Rids(tx[cur]) : \A i \in 1 .. widx - 1 : tx[cur][i].rid # s}
    BY <1>1 DEF Pending
  <2>2. Pending' = {s \in Rids(tx[cur]) : \A i \in 1 .. widx : tx[cur][i].rid # s}
    BY <1>1, <1>2 DEF Pending, Rids
  <2>3. 1 .. widx = (1 .. widx - 1) \cup {widx}
    BY <1>2
  <2> QED
    BY <2>1, <2>2, <2>3
<1>5. /\ Store[rid] = NewEntry(tx[cur][widx])
      /\ \A s \in Slots : s \notin Pending => Store[s] = kv_table[s]
  BY <1>1, <1>2, WritingStore
<1>6. ASSUME NEW s \in Slots PROVE Store'[s] = Store[s]
  <2>1. CASE s = rid
    <3>1. Store'[s] = kv_table'[s]
      BY <1>4, <2>1 DEF Store
    <3>2. kv_table'[s] = NewEntry(tx[cur][widx])
      BY <1>1, <1>2, <2>1 DEF TypeOK
    <3> QED
      BY <1>5, <2>1, <3>1, <3>2
  <2>2. CASE s # rid /\ s \in Pending
    BY <1>1, <1>4, <2>2 DEF Store, NewEntry
  <2>3. CASE s # rid /\ s \notin Pending
    <3>1. Store'[s] = kv_table'[s]
      BY <1>4, <2>3 DEF Store
    <3>2. kv_table'[s] = kv_table[s]
      BY <1>1, <1>2, <2>3 DEF TypeOK
    <3> QED
      BY <1>5, <2>3, <3>1, <3>2
  <2> QED
    BY <2>1, <2>2, <2>3
<1>7. Store' = Store
  <2>1. Store' = [s \in Slots |-> Store'[s]] /\ Store = [s \in Slots |-> Store[s]]
    BY DEF Store
  <2> QED
    BY <1>6, <2>1
<1>8. Outcome' = Outcome
  BY <1>1, OutcomeSame, OutcomeStutter
<1>9. UNCHANGED <<Queue, Clock>>
  BY <1>1 DEF Queue, Clock
<1> QED
  BY <1>7, <1>8, <1>9, BidsStutter

\* Setting the promise announces nothing new.
LEMMA SetCommittedAtomic ==
  ASSUME IInv, SetCommitted
  PROVE  UNCHANGED Atomic!bidVars
<1>1. /\ txthread = "writing" /\ txthread' = "idle" /\ widx > TxSize
      /\ decision' = [decision EXCEPT ![cur] = 1]
      /\ UNCHANGED <<pc, kv_table, tx, txrq, cur, local_version>>
  BY DEF SetCommitted, clientVars, WritesDone
<1>2. /\ TypeOK /\ cur \in Clients /\ DOMAIN tx[cur] = 1 .. TxSize
      /\ pc[cur] = "waiting" /\ decision[cur] = 0
  BY <1>1, CurrentTX DEF IInv, QueueInv
<1>3. Pending = {} /\ Pending' = {}
  BY <1>1, <1>2, SizeAssumption DEF Pending, Rids, TypeOK
<1>4. Store' = Store
  BY <1>1, <1>3 DEF Store
<1>5. Outcome' = Outcome
  <2>1. decision'[cur] = 1 /\ \A d \in Clients : d # cur => decision'[d] = decision[d]
    BY <1>1, <1>2 DEF TypeOK
  <2>2. Outcome'[cur] = "won" /\ Outcome[cur] = "won"
    BY <1>1, <1>2, <2>1 DEF Outcome
  <2>3. \A d \in Clients : d # cur => Outcome'[d] = Outcome[d]
    BY <1>1, <2>1, OutcomeSame
  <2> QED
    BY <2>2, <2>3, OutcomeStutter
<1>6. UNCHANGED <<Queue, Clock>>
  BY <1>1 DEF Queue, Clock
<1> QED
  BY <1>4, <1>5, <1>6, BidsStutter

LEMMA NextAtomic == IInv /\ OwnInv /\ [Next]_vars => [Atomic!Step]_Atomic!bidVars
<1> SUFFICES ASSUME IInv, OwnInv, [Next]_vars
             PROVE  Atomic!Step \/ UNCHANGED Atomic!bidVars
  OBVIOUS
<1>1. CASE UNCHANGED vars
  <2>1. UNCHANGED <<pc, decision, tx, txrq, txthread, cur, local_version, widx, kv_table>>
    BY <1>1 DEF vars
  <2>2. UNCHANGED <<Store, Queue, Clock, Outcome>>
    BY <2>1 DEF Store, Pending, Rids, NewEntry, Queue, Clock, Outcome
  <2> QED
    BY <2>2, BidsStutter
<1>2. ASSUME NEW c \in Clients, ClientThread(c)
      PROVE  Atomic!Step \/ UNCHANGED Atomic!bidVars
  <2>1. Atomic!Submit(c) \/ Atomic!Answer(c) \/ UNCHANGED Atomic!bidVars
    BY <1>2, SendReadAtomic, SubmitAtomic, AnswerAtomic DEF ClientThread
  <2> QED
    BY <2>1 DEF Atomic!Step
<1>3. CASE TXThread
  <2>1. \/ Atomic!Lose \/ \E bundle \in Atomic!Bundles : Atomic!Win(bundle)
        \/ UNCHANGED Atomic!bidVars
    BY <1>3, TakeRequestAtomic, CommitAtomic, AbortAtomic, WriteEntryAtomic,
       SetCommittedAtomic DEF TXThread
  <2> QED
    BY <2>1 DEF Atomic!Step, Atomic!Decide
<1> QED
  BY <1>1, <1>2, <1>3 DEF Next, Finished

\* The server decides transactions one at a time, in the order of its queue,
\* each of them wholly or not at all: the safety part of ServesAtomicBids.
THEOREM ServesInOrder == Spec => Atomic!AtomicSpec
<1>1. Init => Atomic!Open
  BY InitAtomic
<1>2. IInv /\ OwnInv /\ [Next]_vars => [Atomic!Step]_Atomic!bidVars
  BY NextAtomic
<1> QED
  BY <1>1, <1>2, Invariance, OwnInvariance, PTL DEF Spec, Atomic!AtomicSpec
=============================================================================
