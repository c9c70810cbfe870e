------------------------------ MODULE TwoPhase ------------------------------
(***************************************************************************)
(* The distributed version of assignment03: a transaction manager (tm),    *)
(* resource managers (rm) that each hold one range of robots, and          *)
(* customers (2pc-client) that read from the resource managers and submit  *)
(* to the transaction manager, which runs two-phase commit.                *)
(*                                                                         *)
(* The TM has one TCP connection to each RM.  From TM to RM it carries     *)
(* whole requests: the RM reads an identifier and then the body it calls   *)
(* for.  From RM to TM it is modelled word by word, since the two ends do  *)
(* not agree on the framing: RMStub::SendDecision sends two 4-byte words,  *)
(* the identifier TM_RM_IDENTIFY and then the decision, and                *)
(* ClientStub::SendTX takes the next single word as the decision.          *)
(***************************************************************************)
EXTENDS Integers, Sequences, FiniteSets

CONSTANTS
  Clients,   \* customer threads
  RMs,       \* the resource managers, in the order of the TM's command line
  KvBase,    \* first robot of each RM ([base key])
  KvTblSize, \* number of robots of each RM ([# kv pairs])
  RangeStart, RangeEnd,  \* robots that customers bid for ([key range start] [key range end])
  MaybeDown, \* RMs that may refuse the TM's connection when the TM starts
  NumReqs,   \* NumReqs[c]: transactions of c (client programs may differ in it);
             \* none, when a stub of c cannot connect and its thread returns
  TxSize     \* reads (and writes) per transaction: 3 in the code

NoCustomer == -1
TM_RM_IDENTIFY == 3
COMPLETE_SIG == 4

RMSet == {RMs[i] : i \in DOMAIN RMs}
Window(r) == KvBase[r] .. KvBase[r] + KvTblSize[r] - 1
Robots == UNION {Window(r) : r \in RMSet}

ASSUME RMAssumption ==
  /\ RMs \in Seq(RMSet) /\ MaybeDown \subseteq RMSet
  /\ \A i, j \in DOMAIN RMs : RMs[i] = RMs[j] => i = j
  /\ KvBase \in [RMSet -> Nat] /\ KvTblSize \in [RMSet -> Nat \ {0}]
  /\ \A r, q \in RMSet : r # q => Window(r) \cap Window(q) = {}
ASSUME RangeAssumption ==
  RangeStart \in Robots /\ RangeEnd \in Robots /\ RangeStart .. RangeEnd \subseteq Robots
ASSUME SizeAssumption == NumReqs \in [Clients -> Nat] /\ TxSize \in Nat \ {0}
ASSUME ClientAssumption == NoCustomer \notin Clients

VARIABLES
  pc,              \* what each customer thread is doing
  tx,              \* reads made so far: robot, bid and version as read
  commits, aborts, \* ClientTimer's counts
  promise,         \* TM: the promise of each customer's request, 0 until set
  txrq,            \* TM: queue of requests for its TX thread
  tm,              \* TM: what the TX thread is doing
  rm_connections,  \* TM: the RMs it reached when it started
  cur,             \* TM: the customer whose request was taken
  local_version,   \* TM: requests taken so far
  tmi,             \* TM: position in rm_connections (in RMs while it connects)
  final_decision,  \* TM: no decision word was -1 so far
  toRM,            \* requests on the way to each RM
  fromRM,          \* 4-byte words on the way from each RM
  rm,              \* RM: what its TX thread is doing
  local_tx,        \* RM: the transaction last prepared
  widx,            \* RM: next write of local_tx
  kv_table,        \* RM: its part of the robots
  ledger,          \* history: the transactions decided by the TM, in order
  votes,           \* history: each RM's decisions, in order
  heard,           \* history: the words the TM took for them
  applied          \* history: COMMIT_ABORT requests each RM has completed

clientVars == <<pc, tx, commits, aborts>>
tmVars == <<txrq, tm, rm_connections, cur, local_version, tmi, final_decision>>
rmVars == <<rm, local_tx, widx, kv_table, votes, applied>>
vars == <<pc, tx, commits, aborts, promise, txrq, tm, rm_connections, cur,
          local_version, tmi, final_decision, toRM, fromRM, rm, local_tx,
          widx, kv_table, ledger, votes, heard, applied>>

kv_value == [bid |-> 0, customer_id |-> NoCustomer, version |-> 0]
NoTX == [customer_id |-> NoCustomer, version |-> 0, reads |-> <<>>]

Slots(r) == 0 .. KvTblSize[r] - 1
Slot(r, rid) == rid % KvTblSize[r]
Reads == [rid : Robots, bid : Nat, version : Nat]
Rids(t) == {t[i].rid : i \in DOMAIN t}

ClientInit ==
  /\ pc = [c \in Clients |-> "bidding"]
  /\ tx = [c \in Clients |-> <<>>]
  /\ commits = [c \in Clients |-> 0] /\ aborts = [c \in Clients |-> 0]

TMInit ==
  /\ promise = [c \in Clients |-> 0] /\ txrq = <<>>
  /\ tm = "connect" /\ rm_connections = <<>>
  /\ cur = NoCustomer /\ local_version = 0
  /\ tmi = 1 /\ final_decision = TRUE

\* Each RM makes its table, starts its TX thread and accepts connections.
RMInit ==
  /\ rm = [r \in RMSet |-> "idle"]
  /\ kv_table = [r \in RMSet |-> [s \in Slots(r) |-> kv_value]]
  /\ local_tx = [r \in RMSet |-> NoTX]
  /\ widx = [r \in RMSet |-> 1]

Init ==
  /\ ClientInit /\ TMInit /\ RMInit
  /\ toRM = [r \in RMSet |-> <<>>] /\ fromRM = [r \in RMSet |-> <<>>]
  /\ ledger = <<>>
  /\ votes = [r \in RMSet |-> <<>>] /\ heard = [r \in RMSet |-> <<>>]
  /\ applied = [r \in RMSet |-> 0]

-----------------------------------------------------------------------------
(* The customer, with the RM and TM workers that serve its connections.    *)

\* TX_READ: the RM's worker copies the entry at the robot's slot under
\* kv_table_lock.
ReadEntry(r, rid) == kv_table[r][Slot(r, rid)]

\* The loop of TxSize reads has a read to go.  (Mutant: j <= 3.)
MoreReadsThanThree(c) == Len(tx[c]) <= TxSize
MoreReads(c) == Len(tx[c]) < TxSize

\* A read goes to the RM whose window holds the robot that was drawn.
SendRead(c) ==
  /\ pc[c] = "bidding"
  /\ commits[c] + aborts[c] < NumReqs[c]
  /\ MoreReads(c)
  /\ \E r \in RMSet : \E rid \in Window(r) \cap (RangeStart .. RangeEnd) :
       LET e == ReadEntry(r, rid) IN
       tx' = [tx EXCEPT ![c] =
                Append(@, [rid |-> rid, bid |-> e.bid, version |-> e.version])]
  /\ UNCHANGED <<pc, commits, aborts, promise, toRM, fromRM, ledger, heard>>
  /\ UNCHANGED tmVars /\ UNCHANGED rmVars

\* The TM's worker queues the transaction and blocks on the future.
SendToTXThread(c) ==
  /\ pc[c] = "bidding"
  /\ Len(tx[c]) = TxSize
  /\ txrq' = Append(txrq, c)
  /\ promise' = [promise EXCEPT ![c] = 0]
  /\ pc' = [pc EXCEPT ![c] = "waiting"]
  /\ UNCHANGED <<tx, commits, aborts, tm, rm_connections, cur, local_version,
                 tmi, final_decision, toRM, fromRM, ledger, heard>>
  /\ UNCHANGED rmVars

ReceiveDecision(c) ==
  /\ pc[c] = "waiting"
  /\ promise[c] # 0
  /\ IF promise[c] = 1
     THEN commits' = [commits EXCEPT ![c] = @ + 1] /\ UNCHANGED aborts
     ELSE aborts' = [aborts EXCEPT ![c] = @ + 1] /\ UNCHANGED commits
  /\ promise' = [promise EXCEPT ![c] = 0]
  /\ tx' = [tx EXCEPT ![c] = <<>>]
  /\ pc' = [pc EXCEPT ![c] = "bidding"]
  /\ UNCHANGED <<toRM, fromRM, ledger, heard>>
  /\ UNCHANGED tmVars /\ UNCHANGED rmVars

-----------------------------------------------------------------------------
(* The TM's TX thread.                                                     *)

RM(i) == rm_connections[i]

\* ClientSocket::Init fails for an RM that refuses the connection.
Reach(r) ==
  \/ rm_connections' = Append(rm_connections, r)
  \/ r \in MaybeDown /\ UNCHANGED rm_connections

\* At start the TM tries each RM once, and goes on with those it reached.
Connect ==
  /\ tm = "connect"
  /\ \/ tmi <= Len(RMs) /\ Reach(RMs[tmi]) /\ tmi' = tmi + 1 /\ UNCHANGED tm
     \/ tmi > Len(RMs) /\ tm' = "idle" /\ UNCHANGED <<tmi, rm_connections>>
  /\ UNCHANGED <<txrq, cur, local_version, final_decision, promise, toRM,
                 fromRM, ledger, heard>>
  /\ UNCHANGED clientVars /\ UNCHANGED rmVars

TakeRequest ==
  /\ tm = "idle"
  /\ txrq # <<>>
  /\ cur' = Head(txrq)
  /\ txrq' = Tail(txrq)
  /\ local_version' = local_version + 1
  /\ final_decision' = TRUE
  /\ tmi' = 1
  /\ tm' = "prepare"
  /\ UNCHANGED <<rm_connections, promise, toRM, fromRM, ledger, heard>>
  /\ UNCHANGED clientVars /\ UNCHANGED rmVars

\* ClientStub::SendTX, first half: the identifier and the transaction.
\* (Mutant: all of them go to the first RM.)
SendTXToFirst ==
  /\ tm = "prepare"
  /\ tmi <= Len(rm_connections)
  /\ toRM' = [toRM EXCEPT ![RM(1)] = Append(@,
       [type |-> "TX", trans |-> [customer_id |-> cur, version |-> local_version,
                                  reads |-> tx[cur]]])]
  /\ tm' = "vote"
  /\ UNCHANGED <<txrq, rm_connections, cur, local_version, tmi, final_decision,
                 promise, fromRM, ledger, heard>>
  /\ UNCHANGED clientVars /\ UNCHANGED rmVars
SendTX ==
  /\ tm = "prepare"
  /\ tmi <= Len(rm_connections)
  /\ toRM' = [toRM EXCEPT ![RM(tmi)] = Append(@,
       [type |-> "TX", trans |-> [customer_id |-> cur, version |-> local_version,
                                  reads |-> tx[cur]]])]
  /\ tm' = "vote"
  /\ UNCHANGED <<txrq, rm_connections, cur, local_version, tmi, final_decision,
                 promise, fromRM, ledger, heard>>
  /\ UNCHANGED clientVars /\ UNCHANGED rmVars

\* Only the word -1 counts against the transaction.  (Mutant: all but 1.)
IsOne(word) == word = 1
InFavour(word) == word # -1

\* ClientStub::SendTX, second half: one word is received and is the decision.
ReceiveVote ==
  /\ tm = "vote"
  /\ fromRM[RM(tmi)] # <<>>
  /\ LET word == Head(fromRM[RM(tmi)]) IN
       /\ final_decision' = (final_decision /\ InFavour(word))
       /\ heard' = [heard EXCEPT ![RM(tmi)] = Append(@, word)]
  /\ fromRM' = [fromRM EXCEPT ![RM(tmi)] = Tail(@)]
  /\ tmi' = tmi + 1
  /\ tm' = "prepare"
  /\ UNCHANGED <<txrq, rm_connections, cur, local_version, promise, toRM, ledger>>
  /\ UNCHANGED clientVars /\ UNCHANGED rmVars

\* All RMs asked: the customer's promise is set first, the RMs hear later.
Decide ==
  /\ tm = "prepare"
  /\ tmi > Len(rm_connections)
  /\ promise' = [promise EXCEPT ![cur] = IF final_decision THEN 1 ELSE -1]
  /\ ledger' = Append(ledger, [customer_id |-> cur, reads |-> tx[cur],
                               commit |-> final_decision])
  /\ tmi' = 1
  /\ tm' = IF rm_connections = <<>> THEN "idle" ELSE "finish"
  /\ UNCHANGED <<txrq, rm_connections, cur, local_version, final_decision, toRM,
                 fromRM, heard>>
  /\ UNCHANGED clientVars /\ UNCHANGED rmVars

\* ClientStub::SendCommitAbort, first half; the bool becomes the word 1 or 0.
SendCommitAbort ==
  /\ tm = "finish"
  /\ toRM' = [toRM EXCEPT ![RM(tmi)] =
       Append(@, [type |-> "TM_RM", decision |-> IF final_decision THEN 1 ELSE 0])]
  /\ tm' = "ack"
  /\ UNCHANGED <<txrq, rm_connections, cur, local_version, tmi, final_decision,
                 promise, fromRM, ledger, heard>>
  /\ UNCHANGED clientVars /\ UNCHANGED rmVars

\* (Mutant of ReceiveSignal: the loop over the RMs ends after the first.)
ReceiveOneSignal ==
  /\ tm = "ack"
  /\ fromRM[RM(tmi)] # <<>>
  /\ fromRM' = [fromRM EXCEPT ![RM(tmi)] = Tail(@)]
  /\ tm' = "idle"
  /\ UNCHANGED <<txrq, rm_connections, cur, local_version, tmi, final_decision,
                 promise, toRM, ledger, heard>>
  /\ UNCHANGED clientVars /\ UNCHANGED rmVars

\* ClientStub::SendCommitAbort, second half: the signal, whatever it is, is
\* received and ignored.
ReceiveSignal ==
  /\ tm = "ack"
  /\ fromRM[RM(tmi)] # <<>>
  /\ fromRM' = [fromRM EXCEPT ![RM(tmi)] = Tail(@)]
  /\ IF tmi < Len(rm_connections)
     THEN tm' = "finish" /\ tmi' = tmi + 1
     ELSE tm' = "idle" /\ UNCHANGED tmi
  /\ UNCHANGED <<txrq, rm_connections, cur, local_version, final_decision,
                 promise, toRM, ledger, heard>>
  /\ UNCHANGED clientVars /\ UNCHANGED rmVars

TMThread == \/ Connect \/ TakeRequest \/ SendTX \/ ReceiveVote \/ Decide
            \/ SendCommitAbort \/ ReceiveSignal

-----------------------------------------------------------------------------
(* An RM: the worker of the TM's connection hands each request to the RM's *)
(* TX thread and blocks until it is done, so the two take turns and are    *)
(* one process here.                                                       *)

\* The range check of both write and read loops.
Holds(r, rid) == rid >= KvBase[r] /\ rid <= KvBase[r] + KvTblSize[r] - 1

\* PREPARE's comparison of the versions of this RM's robots.
CheckReads(r, t) ==
  \A i \in DOMAIN t : Holds(r, t[i].rid) =>
     ~(t[i].version < kv_table[r][Slot(r, t[i].rid)].version)

\* ServerStub::SendDecision sends two words.  (Mutants: the decision alone, as
\* the standalone server sends it; a signal as well.)
DecisionAlone(d) == <<d>>
DecisionAndSignal(d) == <<TM_RM_IDENTIFY, d, COMPLETE_SIG>>
DecisionWords(d) == <<TM_RM_IDENTIFY, d>>

\* The worker reads an identifier and then the body it calls for.
Receives(r, type) == rm[r] = "idle" /\ toRM[r] # <<>> /\ Head(toRM[r]).type = type

\* It hands the request to the TX thread and blocks: while that works on it
\* nothing else is read from the connection.
ToTXThread(r) == toRM' = [toRM EXCEPT ![r] = Tail(@)]

\* PREPARE: remember the transaction, compare the versions of this RM's
\* robots, and send the identifier and the decision, two words.
Prepare(r) ==
  /\ Receives(r, "TX") /\ ToTXThread(r)
  /\ LET trans == Head(toRM[r]).trans
         d == IF CheckReads(r, trans.reads) THEN 1 ELSE -1 IN
       /\ local_tx' = [local_tx EXCEPT ![r] = trans]
       /\ fromRM' = [fromRM EXCEPT ![r] = @ \o DecisionWords(d)]
       /\ votes' = [votes EXCEPT ![r] = Append(@, d)]
  /\ UNCHANGED <<promise, ledger, heard, rm, widx, kv_table, applied>>
  /\ UNCHANGED clientVars /\ UNCHANGED tmVars

\* final_decision == 1.  (Mutant: compared with the -1 of a decision.)
NotMinusOne(req) == req.decision # -1
SaysCommit(req) == req.decision = 1

\* COMMIT_ABORT arrives: 1 starts the write loop, anything else skips it.
StartCommitAbort(r) ==
  /\ Receives(r, "TM_RM") /\ ToTXThread(r)
  /\ rm' = [rm EXCEPT ![r] = "writing"]
  /\ widx' = [widx EXCEPT ![r] =
                IF SaysCommit(Head(toRM[r])) THEN 1 ELSE TxSize + 1]
  /\ UNCHANGED <<promise, fromRM, ledger, heard, local_tx, kv_table, votes, applied>>
  /\ UNCHANGED clientVars /\ UNCHANGED tmVars

NewEntry(r) ==
  [bid |-> local_tx[r].reads[widx[r]].bid + 1,
   customer_id |-> local_tx[r].customer_id, version |-> local_tx[r].version]

\* One pass of the write loop: a robot of this RM's window is written under
\* the lock, any other is skipped.
WriteEntry(r) ==
  /\ rm[r] = "writing"
  /\ widx[r] <= TxSize
  /\ LET rid == local_tx[r].reads[widx[r]].rid IN
       kv_table' = IF Holds(r, rid)
                   THEN [kv_table EXCEPT ![r][Slot(r, rid)] = NewEntry(r)]
                   ELSE kv_table
  /\ widx' = [widx EXCEPT ![r] = @ + 1]
  /\ UNCHANGED <<promise, toRM, fromRM, ledger, heard, rm, local_tx, votes, applied>>
  /\ UNCHANGED clientVars /\ UNCHANGED tmVars

\* The promise is set and the worker sends COMPLETE_SIG, one word.
Complete(r) ==
  /\ rm[r] = "writing"
  /\ widx[r] > TxSize
  /\ rm' = [rm EXCEPT ![r] = "idle"]
  /\ fromRM' = [fromRM EXCEPT ![r] = Append(@, COMPLETE_SIG)]
  /\ applied' = [applied EXCEPT ![r] = @ + 1]
  /\ UNCHANGED <<promise, toRM, ledger, heard, local_tx, widx, kv_table, votes>>
  /\ UNCHANGED clientVars /\ UNCHANGED tmVars

RMThread(r) == Prepare(r) \/ StartCommitAbort(r) \/ WriteEntry(r) \/ Complete(r)

ClientThread(c) == SendRead(c) \/ SendToTXThread(c) \/ ReceiveDecision(c)

\* Every customer has made its requests and nothing is left to do.
Finished ==
  /\ \A c \in Clients : commits[c] + aborts[c] = NumReqs[c]
  /\ tm = "idle"
  /\ \A r \in RMSet : rm[r] = "idle" /\ toRM[r] = <<>>
  /\ UNCHANGED vars

Next == \/ TMThread
        \/ \E r \in RMSet : RMThread(r)
        \/ \E c \in Clients : ClientThread(c)
        \/ Finished

Spec == Init /\ [][Next]_vars

-----------------------------------------------------------------------------
(* Properties.                                                             *)

Transactions == [customer_id : Clients, version : Nat, reads : Seq(Reads)]
Requests == [type : {"TX"}, trans : Transactions]
            \cup [type : {"TM_RM"}, decision : {0, 1}]
Entries == [bid : Nat, customer_id : Clients \cup {NoCustomer}, version : Nat]
Words == {1, -1, TM_RM_IDENTIFY, COMPLETE_SIG}

\* Every variable has its type.
TypeOK ==
  /\ pc \in [Clients -> {"bidding", "waiting"}]
  /\ tx \in [Clients -> Seq(Reads)] /\ \A c \in Clients : Len(tx[c]) <= TxSize
  /\ commits \in [Clients -> Nat] /\ aborts \in [Clients -> Nat]
  /\ promise \in [Clients -> {0, 1, -1}]
  /\ txrq \in Seq(Clients)
  /\ tm \in {"connect", "idle", "prepare", "vote", "finish", "ack"}
  /\ rm_connections \in Seq(RMSet)
  /\ cur \in Clients \cup {NoCustomer}
  /\ local_version \in Nat /\ tmi \in Nat \ {0} /\ final_decision \in BOOLEAN
  /\ toRM \in [RMSet -> Seq(Requests)]
  /\ fromRM \in [RMSet -> Seq(Words)]
  /\ rm \in [RMSet -> {"idle", "writing"}]
  /\ local_tx \in [RMSet -> Transactions \cup {NoTX}]
  /\ widx \in [RMSet -> 1 .. TxSize + 1]
  /\ DOMAIN kv_table = RMSet /\ \A r \in RMSet : kv_table[r] \in [Slots(r) -> Entries]
  /\ ledger \in Seq([customer_id : Clients, reads : Seq(Reads), commit : BOOLEAN])
  /\ votes \in [RMSet -> Seq({1, -1})] /\ heard \in [RMSet -> Seq(Words)]
  /\ applied \in [RMSet -> Nat]

Connected == {RM(i) : i \in DOMAIN rm_connections}

\* The decided transactions among the first n that wrote robot rid.
Writers(rid, n) ==
  {k \in 1 .. n : ledger[k].commit /\ rid \in Rids(ledger[k].reads)}

Latest(S) == CHOOSE k \in S : \A j \in S : j <= k

\* The entry of robot rid after the first n decisions.
LedgerEntry(rid, n) ==
  IF Writers(rid, n) = {} THEN kv_value
  ELSE LET k == Latest(Writers(rid, n))
           reads == ledger[k].reads
           i == Latest({j \in DOMAIN reads : reads[j].rid = rid})
       IN [bid |-> reads[i].bid + 1, customer_id |-> ledger[k].customer_id,
           version |-> k]

\* Atomicity across RMs: each RM's table is the effect of a prefix of the TM's
\* decisions, in the TM's order, each decision applied to the transaction it
\* was made for, although the TM reads replies that belong to earlier ones and
\* runs ahead of the RM.  (While the RM is in its write loop the table is
\* between two prefixes.)
ReplicaIsPrefix ==
  \A r \in RMSet :
    /\ applied[r] <= Len(ledger)
    /\ rm[r] = "idle" => \A rid \in Window(r) :
         kv_table[r][Slot(r, rid)] = LedgerEntry(rid, applied[r])

\* What the TM takes for the n-th decision of an RM.  Three words are sent per
\* transaction (TM_RM_IDENTIFY and the decision, COMPLETE_SIG) and two are
\* taken (SendTX, SendCommitAbort), so the n-th word heard is the (2n-1)-th
\* sent: TM_RM_IDENTIFY, COMPLETE_SIG, or, for each third transaction, the
\* decision on an earlier transaction, number 2n/3.
HeardWord ==
  \A r \in RMSet : \A n \in DOMAIN heard[r] :
    heard[r][n] = CASE n % 3 = 1 -> TM_RM_IDENTIFY
                    [] n % 3 = 2 -> COMPLETE_SIG
                    [] n % 3 = 0 -> votes[r][(2 * n) \div 3]

\* Consequently a transaction aborts only if it is a multiple of three and
\* some RM voted against transaction 2n/3; votes on the others are lost.
OnlyThirdsAbort ==
  \A n \in DOMAIN ledger :
    ledger[n].commit <=>
      ~(n % 3 = 0 /\ \E r \in Connected : votes[r][(2 * n) \div 3] = -1)

\* How far the TM can run ahead: after n decisions each RM it is connected to
\* has completed at least (2n - 3)/3 of them, a third of the decisions behind
\* at worst and not the single one that waiting for COMPLETE_SIG would allow.
LagBound ==
  \A r \in Connected : 3 * applied[r] + 3 >= 2 * Len(ledger)

\* The connection of an RM silts up: of the three words sent per transaction
\* the TM takes two, so whenever the RM has nothing to do and the TM waits for
\* no word of it, one word per decided transaction is left unread (SendTX and
\* SendCommitAbort each receive a single word).  A socket buffer of B words
\* thus blocks the RM's send, and then the TM, after about B transactions.
UnreadWords ==
  \A r \in Connected :
    (tm = "idle" /\ toRM[r] = <<>> /\ rm[r] = "idle") => Len(fromRM[r]) = Len(ledger)

\* Nobody waits for what never comes, although the words the TM takes are not
\* the answers to what it asked: when it waits for a word of an RM there is one,
\* or the RM has a request to take or to finish; a worker of the TM that waits
\* for a decision has its transaction in the queue or in the TX thread's hands.
NobodyWaitsInVain ==
  /\ tm \in {"vote", "ack"} =>
       fromRM[RM(tmi)] # <<>> \/ toRM[RM(tmi)] # <<>> \/ rm[RM(tmi)] = "writing"
  /\ \A c \in Clients : (pc[c] = "waiting" /\ promise[c] = 0) =>
       (\E i \in DOMAIN txrq : txrq[i] = c) \/ (tm \in {"prepare", "vote"} /\ cur = c)

\* No lost update, as the assignment's overview asks: a bid based on data that
\* another customer has overwritten fails, so that every committed transaction
\* raises the bids of its robots.
BidPerCommit ==
  \A rid \in Robots :
    LedgerEntry(rid, Len(ledger)).bid = Cardinality(Writers(rid, Len(ledger)))

\* Every RM that the TM is connected to has applied all its decisions: a
\* transaction that spans RMs has taken effect in each of them or in none.
AppliedByAll ==
  \A r \in Connected :
    /\ applied[r] = Len(ledger)
    /\ \A rid \in Window(r) :
         kv_table[r][Slot(r, rid)] = LedgerEntry(rid, Len(ledger))
=============================================================================
