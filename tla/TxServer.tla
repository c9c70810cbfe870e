------------------------------ MODULE TxServer ------------------------------
(***************************************************************************)
(* The standalone transactional server of assignment03 (server) and the    *)
(* customers that bid against it (client).                                 *)
(*                                                                         *)
(* A customer reads TxSize entries one at a time, then submits them as one *)
(* transaction that raises each bid by one.  Worker threads queue the      *)
(* transactions; the single TX thread validates the reads against the      *)
(* current versions, writes the entries one locked write at a time, and    *)
(* only then fulfils the promise on which the worker is blocked.           *)
(*                                                                         *)
(* A customer is blocked from SendTX to the reply, so the queue holds      *)
(* customers and tx[c] is the transaction that c's request carries.        *)
(***************************************************************************)
EXTENDS Integers, Sequences

CONSTANTS
  Clients,      \* customer threads; each has a connection and worker of its own
  KvTblSize,    \* number of table entries ([# key-value pairs])
  RangeStart,   \* first robot a customer may bid on
  RangeEnd,     \* last robot a customer may bid on
  NumReqs,      \* NumReqs[c]: transactions of customer c, [# req] of them; or
                \* none, when its stub cannot connect and its thread returns
  TxSize        \* reads (and writes) per transaction: 3 in the code

NoCustomer == -1
Robots == RangeStart .. RangeEnd
Slots == 0 .. KvTblSize - 1

\* The server indexes its table with the robot id itself, so a customer's
\* range must lie within the table.
ASSUME RangeAssumption == /\ RangeStart \in Nat /\ RangeEnd \in Nat
                          /\ KvTblSize \in Nat
                          /\ RangeStart <= RangeEnd
                          /\ RangeEnd < KvTblSize
ASSUME SizeAssumption == NumReqs \in [Clients -> Nat] /\ TxSize \in Nat \ {0}
ASSUME ClientAssumption == NoCustomer \notin Clients

VARIABLES
  pc,             \* what each customer thread is doing
  tx,             \* reads made so far: robot, bid and version as read
  commits,        \* ClientTimer's count of committed transactions
  aborts,         \* ClientTimer's count of aborted transactions
  txrq,           \* queue of requests for the TX thread
  decision,       \* the promise of each customer's request: 0 until it is set
  txthread,       \* what the TX thread is doing
  cur,            \* the customer whose request the TX thread took
  local_version,  \* requests taken so far; the version of the current one
  widx,           \* next write of the current transaction
  kv_table,
  won             \* history: per robot, the committed transactions that bid on it

clientVars == <<pc, tx, commits, aborts>>
threadVars == <<txthread, cur, local_version, widx>>
vars == <<pc, tx, commits, aborts, txrq, decision, txthread, cur,
          local_version, widx, kv_table, won>>

Entries == [bid : Nat, customer_id : Clients \cup {NoCustomer}, version : Nat]
Reads == [rid : Robots, bid : Nat, version : Nat]

kv_value == [bid |-> 0, customer_id |-> NoCustomer, version |-> 0]

Init ==
  /\ pc = [c \in Clients |-> "bidding"]
  /\ tx = [c \in Clients |-> <<>>]
  /\ commits = [c \in Clients |-> 0]
  /\ aborts = [c \in Clients |-> 0]
  /\ txrq = <<>>
  /\ decision = [c \in Clients |-> 0]
  /\ txthread = "idle"
  /\ cur = NoCustomer
  /\ local_version = 0
  /\ widx = 1
  /\ kv_table = [s \in Slots |-> kv_value]
  /\ won = [s \in Slots |-> 0]

-----------------------------------------------------------------------------
(* The customer and the worker thread that serves its connection.          *)

\* TX_READ: the worker copies the entry under kv_table_lock.
ReadEntry(rid) == kv_table[rid]

\* The loop of TxSize reads has a read to go.  (Mutant: j <= 3.)
MoreReadsThanThree(c) == Len(tx[c]) <= TxSize
MoreReads(c) == Len(tx[c]) < TxSize

\* A robot is drawn at random, the same one possibly several times, and read;
\* its bid, raised by one, is the write that goes with the read.
SendRead(c) ==
  /\ pc[c] = "bidding"
  /\ commits[c] + aborts[c] < NumReqs[c]
  /\ MoreReads(c)
  /\ \E rid \in Robots :
       tx' = [tx EXCEPT ![c] = Append(@, [rid |-> rid,
                                          bid |-> ReadEntry(rid).bid,
                                          version |-> ReadEntry(rid).version])]
  /\ UNCHANGED <<pc, commits, aborts, txrq, decision, kv_table, won>>
  /\ UNCHANGED threadVars

\* The transaction arrives; its worker makes a promise, queues the request
\* and blocks on the future.
SendToTXThread(c) ==
  /\ pc[c] = "bidding"
  /\ Len(tx[c]) = TxSize
  /\ txrq' = Append(txrq, c)
  /\ decision' = [decision EXCEPT ![c] = 0]
  /\ pc' = [pc EXCEPT ![c] = "waiting"]
  /\ UNCHANGED <<tx, commits, aborts, kv_table, won>>
  /\ UNCHANGED threadVars

\* The worker wakes and replies; the customer counts the outcome, anything
\* but 1 as an abort, and starts its next transaction.
ReceiveDecision(c) ==
  /\ pc[c] = "waiting"
  /\ decision[c] # 0
  /\ IF decision[c] = 1
     THEN commits' = [commits EXCEPT ![c] = @ + 1] /\ UNCHANGED aborts
     ELSE aborts' = [aborts EXCEPT ![c] = @ + 1] /\ UNCHANGED commits
  /\ decision' = [decision EXCEPT ![c] = 0]
  /\ tx' = [tx EXCEPT ![c] = <<>>]
  /\ pc' = [pc EXCEPT ![c] = "bidding"]
  /\ UNCHANGED <<txrq, kv_table, won>>
  /\ UNCHANGED threadVars

-----------------------------------------------------------------------------
(* The TX thread, the only writer of the table.                            *)

TakeRequest ==
  /\ txthread = "idle"
  /\ txrq # <<>>
  /\ cur' = Head(txrq)
  /\ txrq' = Tail(txrq)
  /\ local_version' = local_version + 1
  /\ txthread' = "validating"
  /\ UNCHANGED <<decision, widx, kv_table, won>>
  /\ UNCHANGED clientVars

Rids(t) == {t[i].rid : i \in DOMAIN t}

\* check_reads: no entry is newer than the version read.  (Mutants: the last
\* read is not compared; an equal version counts as newer.)
CheckAllButLast(t) ==
  \A i \in 1 .. Len(t) - 1 : ~(t[i].version < kv_table[t[i].rid].version)
CheckNotEqual(t) ==
  \A i \in DOMAIN t : ~(t[i].version <= kv_table[t[i].rid].version)
CheckReads(t) ==
  \A i \in DOMAIN t : ~(t[i].version < kv_table[t[i].rid].version)

\* The comparison loop takes the lock once per read, but nobody else writes,
\* so it is one step.
ValidateCommit ==
  /\ txthread = "validating"
  /\ CheckReads(tx[cur])
  /\ txthread' = "writing"
  /\ widx' = 1
  /\ won' = [s \in Slots |-> IF s \in Rids(tx[cur]) THEN won[s] + 1 ELSE won[s]]
  /\ UNCHANGED <<txrq, decision, cur, local_version, kv_table>>
  /\ UNCHANGED clientVars

ValidateAbort ==
  /\ txthread = "validating"
  /\ ~CheckReads(tx[cur])
  /\ decision' = [decision EXCEPT ![cur] = -1]
  /\ txthread' = "idle"
  /\ UNCHANGED <<txrq, cur, local_version, widx, kv_table, won>>
  /\ UNCHANGED clientVars

\* The write the customer derived from read r, as the TX thread stores it.
\* (Mutant: SetVersionNumber is forgotten.)
NewEntryUnversioned(r) ==
  [bid |-> r.bid + 1, customer_id |-> cur, version |-> r.version]
NewEntry(r) ==
  [bid |-> r.bid + 1, customer_id |-> cur, version |-> local_version]

\* One locked write; customers may read the table between two of them.
\* (Mutant: the loop index is not advanced.)
WriteEntryAgain ==
  /\ txthread = "writing"
  /\ widx <= TxSize
  /\ kv_table' = [kv_table EXCEPT ![tx[cur][widx].rid] = NewEntry(tx[cur][widx])]
  /\ UNCHANGED <<txrq, decision, txthread, cur, local_version, widx, won>>
  /\ UNCHANGED clientVars
WriteEntry ==
  /\ txthread = "writing"
  /\ widx <= TxSize
  /\ kv_table' = [kv_table EXCEPT ![tx[cur][widx].rid] = NewEntry(tx[cur][widx])]
  /\ widx' = widx + 1
  /\ UNCHANGED <<txrq, decision, txthread, cur, local_version, won>>
  /\ UNCHANGED clientVars

\* The write loop is over.  (Mutant: one write early.)
WritesAlmostDone == widx >= TxSize
WritesDone == widx > TxSize

\* Only after its last write does the thread fulfil the promise.
SetCommitted ==
  /\ txthread = "writing"
  /\ WritesDone
  /\ decision' = [decision EXCEPT ![cur] = 1]
  /\ txthread' = "idle"
  /\ UNCHANGED <<txrq, cur, local_version, widx, kv_table, won>>
  /\ UNCHANGED clientVars

TXThread == \/ TakeRequest \/ ValidateCommit \/ ValidateAbort
            \/ WriteEntry \/ SetCommitted

ClientThread(c) == SendRead(c) \/ SendToTXThread(c) \/ ReceiveDecision(c)

\* Every customer has made its requests and the server is idle.
Finished ==
  /\ \A c \in Clients : commits[c] + aborts[c] = NumReqs[c]
  /\ UNCHANGED vars

Next == TXThread \/ (\E c \in Clients : ClientThread(c)) \/ Finished

Spec == Init /\ [][Next]_vars

\* Every thread runs: the TX thread and each customer with its worker.
Fairness == WF_vars(TXThread) /\ \A c \in Clients : WF_vars(ClientThread(c))

FairSpec == Spec /\ Fairness

-----------------------------------------------------------------------------
(* Properties.                                                             *)

\* Every variable has its type (the table is the kv_value array, a customer's
\* tx holds at most TxSize reads of robots in its range).
TypeOK ==
  /\ pc \in [Clients -> {"bidding", "waiting"}]
  /\ tx \in [Clients -> Seq(Reads)]
  /\ \A c \in Clients : Len(tx[c]) <= TxSize
  /\ commits \in [Clients -> Nat]
  /\ aborts \in [Clients -> Nat]
  /\ txrq \in Seq(Clients)
  /\ decision \in [Clients -> {0, 1, -1}]
  /\ txthread \in {"idle", "validating", "writing"}
  /\ cur \in Clients \cup {NoCustomer}
  /\ txthread # "idle" => cur \in Clients
  /\ local_version \in Nat
  /\ widx \in 1 .. TxSize + 1
  /\ kv_table \in [Slots -> Entries]
  /\ won \in [Slots -> Nat]

\* Robots that the transaction being written has not written yet.
Pending ==
  IF txthread = "writing"
  THEN {rid \in Rids(tx[cur]) : \A i \in 1 .. widx - 1 : tx[cur][i].rid # rid}
  ELSE {}

\* No lost update: a robot's bid is the number of committed transactions that
\* bid on it, less the one whose write is still to come.  Two transactions
\* that read the same bid must not both commit, however reads, queueing and
\* the write loop (ServerThread.cpp:116-130) interleave.
NoLostUpdate ==
  \A s \in Slots : kv_table[s].bid = won[s] - (IF s \in Pending THEN 1 ELSE 0)

\* A decision says what happened: told "committed", every write of the
\* transaction is in the table (the promise is set after the loop, lines
\* 116-131); told "aborted", one of its reads was out of date.
DecisionJustified ==
  \A c \in Clients :
    /\ decision[c] = 1 => \A i \in DOMAIN tx[c] :
         kv_table[tx[c][i].rid].version > tx[c][i].version
    /\ decision[c] = -1 => \E i \in DOMAIN tx[c] :
         kv_table[tx[c][i].rid].version > tx[c][i].version

\* Nobody is blocked for nothing: a worker that waits on its future has its
\* request in the queue or in the hands of the TX thread, which goes back to
\* the queue only after it has set the promise (lines 86-131).
NoneForgotten ==
  \A c \in Clients : (pc[c] = "waiting" /\ decision[c] = 0) =>
    \/ \E i \in DOMAIN txrq : txrq[i] = c
    \/ txthread # "idle" /\ cur = c

\* A customer is never aborted by its own earlier bid: when its transaction
\* fails validation some entry it read was overwritten by another customer.
\* It holds because the reply to a commit comes after all of its writes.
AbortedByAnother ==
  [][\A c \in Clients : (decision[c] = 0 /\ decision'[c] = -1) =>
       \E i \in DOMAIN tx[c] :
         /\ kv_table[tx[c][i].rid].version > tx[c][i].version
         /\ kv_table[tx[c][i].rid].customer_id # c]_vars

\* An entry is overwritten only with a higher version and by one more bid, or,
\* by the same transaction repeating a robot, with the very same entry.
EntriesAdvance ==
  [][\A s \in Slots : kv_table'[s] # kv_table[s] =>
       /\ kv_table'[s].version > kv_table[s].version
       /\ kv_table'[s].bid = kv_table[s].bid + 1]_vars

\* Every customer gets all of its answers: no request waits in the queue for
\* ever, and no promise is dropped.
AllServed == \A c \in Clients : <>(commits[c] + aborts[c] = NumReqs[c])

-----------------------------------------------------------------------------
(* Refinement: the server implements AtomicBids.  A transaction takes      *)
(* effect when its reads are validated; the writes still to come are       *)
(* counted as done, and a customer has its outcome once it is decided.     *)

Store ==
  [s \in Slots |->
     IF s \in Pending
     THEN NewEntry(tx[cur][CHOOSE i \in 1 .. TxSize : tx[cur][i].rid = s])
     ELSE kv_table[s]]

Outcome ==
  [c \in Clients |->
     CASE pc[c] = "bidding" -> "none"
       [] pc[c] = "waiting" /\ decision[c] = 1 -> "won"
       [] pc[c] = "waiting" /\ decision[c] = -1 -> "lost"
       [] OTHER -> IF txthread = "writing" /\ cur = c THEN "won" ELSE "pending"]

Atomic == INSTANCE AtomicBids WITH
  Customers <- Clients,
  RobotIds <- Slots,
  MaxBundle <- TxSize,
  store <- Store,
  queue <- IF txthread = "validating" THEN <<cur>> \o txrq ELSE txrq,
  clock <- IF txthread = "validating" THEN local_version - 1 ELSE local_version,
  outcome <- Outcome

\* Serializability: the committed transactions take effect one at a time, in
\* the order of the queue, each seeing all writes of those before it; every
\* queued transaction is decided and every decision reaches its customer.
ServesAtomicBids == Atomic!AtomicFairSpec
=============================================================================
