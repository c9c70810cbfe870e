--------------------------- MODULE TwoPhaseProgram ---------------------------
(***************************************************************************)
(* The 2pc-client programs of assignment03 around TwoPhase.  One bids: its *)
(* main thread spawns the customers, joins them and prints what their      *)
(* timers counted.  Another, of request type 3, prints entries, each asked *)
(* of the resource manager that holds it, at whatever time it is started.  *)
(***************************************************************************)
EXTENDS TwoPhase, Functions

CONSTANTS
  ReportStart,   \* [key range start] of the program of type 3
  ReportReqs     \* its [# tx]: the rows asked for

num_customers == Cardinality(Clients)
ASSUME CustomersAssumption == IsFiniteSet(Clients) /\ Clients = 0 .. num_customers - 1
ASSUME ReportAssumption == ReportStart \in Robots /\ ReportReqs \in Nat

VARIABLES
  spawned,          \* whether the customer threads are created
  joined,           \* how many of them are joined
  printed,          \* the totals printed, <<>> before
  rmc,              \* type 3: position in rms_connections
  current_index,    \* type 3: robot of the next row
  num_reqs          \* type 3: rows to go

mainVars == <<spawned, joined, printed>>
reportVars == <<rmc, current_index, num_reqs>>
allVars == <<vars, mainVars, reportVars>>

ProgramInit ==
  /\ Init
  /\ spawned = FALSE /\ joined = 0 /\ printed = <<>>
  /\ rmc = 1 /\ current_index = ReportStart /\ num_reqs = ReportReqs

-----------------------------------------------------------------------------
(* The program that bids. *)

\* The loop that creates the threads, in one step: a thread that is created
\* late is one that makes its first step late.
Spawn ==
  /\ ~spawned
  /\ spawned' = TRUE
  /\ UNCHANGED <<vars, joined, printed, reportVars>>

\* Thread c is at the end of its loop.
Returned(c) == commits[c] + aborts[c] = NumReqs[c]

Join ==
  /\ spawned /\ joined < num_customers
  /\ Returned(joined)
  /\ joined' = joined + 1
  /\ UNCHANGED <<vars, spawned, printed, reportVars>>

\* Merge of every thread's timer.  (Mutant: a loop that starts at 1.)
MergeButFirst(count) == SumFunctionOnSet(count, Clients \ {0})
Merge(count) == SumFunctionOnSet(count, Clients)

PrintStats ==
  /\ joined = num_customers /\ printed = <<>>
  /\ printed' = <<Merge(commits), Merge(aborts)>>
  /\ UNCHANGED <<vars, spawned, joined, reportVars>>

MainThread == Spawn \/ Join \/ PrintStats

-----------------------------------------------------------------------------
(* The program of type 3. *)

\* The condition of the inner loop for a connection.  (Mutant: one robot more.)
HasRowOrNext(r) ==
  num_reqs > 0 /\ current_index <= KvBase[r] + KvTblSize[r] /\ current_index >= KvBase[r]
HasRow(r) ==
  num_reqs > 0 /\ current_index <= KvBase[r] + KvTblSize[r] - 1 /\ current_index >= KvBase[r]

\* The line printed: the robot and what the RM answers.
Row(r) == [rid |-> current_index, entry |-> ReadEntry(r, current_index)]

\* A row comes from the first connection, from the current one on, whose RM
\* holds it; connections passed are not tried again.
ReportRow ==
  \E i \in rmc .. Len(RMs) :
    /\ HasRow(RMs[i]) /\ \A j \in rmc .. i - 1 : ~HasRow(RMs[j])
    /\ rmc' = i
    /\ current_index' = current_index + 1
    /\ num_reqs' = num_reqs - 1
    /\ UNCHANGED <<vars, mainVars>>

ReportEnded == \A i \in rmc .. Len(RMs) : ~HasRow(RMs[i])

-----------------------------------------------------------------------------

Customer(c) == spawned /\ ClientThread(c) /\ UNCHANGED <<mainVars, reportVars>>
Manager == TMThread /\ UNCHANGED <<mainVars, reportVars>>
Resources(r) == RMThread(r) /\ UNCHANGED <<mainVars, reportVars>>

Ended == printed # <<>> /\ ReportEnded /\ Finished /\ UNCHANGED allVars

ProgramNext ==
  \/ MainThread \/ ReportRow \/ Manager
  \/ \E r \in RMSet : Resources(r)
  \/ \E c \in Clients : Customer(c)
  \/ Ended

\* Every thread of every process runs, and TCP delivers.
ProgramSpec ==
  /\ ProgramInit /\ [][ProgramNext]_allVars
  /\ WF_allVars(MainThread) /\ WF_allVars(Manager)
  /\ \A r \in RMSet : WF_allVars(Resources(r))
  /\ \A c \in Clients : WF_allVars(Customer(c))

-----------------------------------------------------------------------------
(* Properties. *)

\* The entries that the n-th transaction writes for a robot (more than one if
\* the robot was drawn twice).
Written(rid, n) ==
  LET t == ledger[n]
  IN  {[bid |-> t.reads[i].bid + 1, customer_id |-> t.customer_id, version |-> n] :
         i \in {j \in DOMAIN t.reads : t.reads[j].rid = rid}}

\* The entry is initial or written by a committed transaction, and not older
\* than the first of n decisions that every RM has applied (see LagBound).
NoOlder(rid, entry, n) ==
  \/ entry = kv_value /\ Writers(rid, n) = {}
  \/ \E k \in Writers(rid, Len(ledger)) :
       entry \in Written(rid, k) /\ \A j \in Writers(rid, n) : j <= k

\* How stale a row of a report is: it shows the robot it is labelled with, as
\* of some decision of the TM, with at most the last third of the decisions,
\* and one more, missing (the RMs write after the customers have been told);
\* robots of an RM that the TM did not reach stay as they were, whatever was
\* committed.
RowsAreFresh ==
  [][num_reqs' # num_reqs =>
       LET r == RMs[rmc'] IN
         IF r \in Connected THEN NoOlder(Row(r).rid, Row(r).entry, (2 * Len(ledger) - 1) \div 3)
                            ELSE Row(r).entry = kv_value]_allVars

\* The number of transactions the TM has decided this way.
Decided(commit) == Cardinality({n \in DOMAIN ledger : ledger[n].commit = commit})

\* What the bidding program prints is what the TM decided: every transaction
\* counted once, as committed or aborted, by the customer whose it was.
TotalsAreDecisions ==
  printed # <<>> => printed = <<Decided(TRUE), Decided(FALSE)>>

\* The bidding program comes to its end, every customer with all its answers,
\* and every decision reaches every RM that the TM is connected to, for good.
AllApplied == <>[](printed # <<>> /\ AppliedByAll)

\* All transactions of the customers, and the steps of each: for its customer
\* the reads, the request and the answer; for the TM its being taken, its
\* decision, and four steps for each RM; for an RM its vote, the writes, and
\* the begin and the end of their loop.
AllRequests == SumFunctionOnSet(NumReqs, Clients)
CustomerSteps == TxSize + 2
ManagerSteps == 4 * Len(RMs) + 2
ResourceSteps == TxSize + 3

\* The steps that each thread has left.
CustomerLeft(c) ==
  NumReqs[c] * CustomerSteps - (commits[c] + aborts[c]) * CustomerSteps
  - (IF pc[c] = "bidding" THEN Len(tx[c]) ELSE TxSize + 1)

ResourceLeft(r) ==
  AllRequests * ResourceSteps - applied[r] * ResourceSteps
  - (Len(votes[r]) - applied[r]) - (IF rm[r] = "writing" THEN widx[r] ELSE 0)

\* For the TM those of the current transaction, once it has connected.
TransactionLeft ==
  CASE tm \in {"connect", "idle"} -> 0
    [] tm = "prepare" -> ManagerSteps + 1 - 2 * tmi
    [] tm = "vote" -> ManagerSteps - 2 * tmi
    [] tm = "finish" -> 2 * Len(RMs) + 2 - 2 * tmi
    [] tm = "ack" -> 2 * Len(RMs) + 1 - 2 * tmi

ManagerLeft ==
  (IF tm = "connect" THEN Len(RMs) + 2 - tmi ELSE 0)
  + (AllRequests * ManagerSteps - local_version * ManagerSteps) + TransactionLeft

MainLeft ==
  (IF spawned THEN 0 ELSE 1) + (num_customers - joined) + (IF printed = <<>> THEN 1 ELSE 0)

StepsLeft ==
  SumFunctionOnSet([c \in Clients |-> CustomerLeft(c)], Clients)
  + SumFunctionOnSet([r \in RMSet |-> ResourceLeft(r)], RMSet)
  + ManagerLeft + MainLeft + num_reqs

\* Every step of any thread of any process brings the programs nearer to their
\* end, so that none goes on for ever, whichever words are taken for which: no
\* transaction is taken, voted on or applied twice.
RunsOut == [][StepsLeft' >= 0 /\ StepsLeft' < StepsLeft]_allVars
=============================================================================
