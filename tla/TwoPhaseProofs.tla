--------------------------- MODULE TwoPhaseProofs ---------------------------
(***************************************************************************)
(* Proofs about TwoPhase, for every number of customers, resource managers *)
(* (some of which the TM may fail to reach), robots, requests and reads    *)
(* per transaction, and about TwoPhaseProgram: what the client programs    *)
(* print, and that they and the servers run out of steps.                  *)
(***************************************************************************)
EXTENDS TwoPhaseProgram, SumTheorems, SequenceTheorems, WellFoundedInduction, TLAPS

(* The inductive invariant.                                                *)

\* A customer is queued or in the TX thread's hands at most once, blocked, and
\* with a complete transaction; only a blocked customer has a decision.
QueueInv ==
  /\ \A i \in DOMAIN txrq : pc[txrq[i]] = "waiting" /\ promise[txrq[i]] = 0
  /\ \A i, j \in DOMAIN txrq : txrq[i] = txrq[j] => i = j
  /\ tm \in {"prepare", "vote"} =>
       /\ cur \in Clients /\ pc[cur] = "waiting" /\ promise[cur] = 0
       /\ \A i \in DOMAIN txrq : txrq[i] # cur
  /\ \A c \in Clients : pc[c] = "waiting" => Len(tx[c]) = TxSize
  /\ \A c \in Clients : promise[c] # 0 => pc[c] = "waiting"

\* The TM has at most one connection to an RM.
ConnectInv ==
  /\ \A i, j \in DOMAIN rm_connections : RM(i) = RM(j) => i = j
  /\ tm = "connect" => /\ ledger = <<>>
                       /\ \A i \in DOMAIN rm_connections : \E j \in 1 .. tmi - 1 :
                            j \in DOMAIN RMs /\ RM(i) = RMs[j]

\* The TM's counters and the history agree.
TMInv ==
  /\ tm \in {"connect", "idle", "finish", "ack"} => local_version = Len(ledger)
  /\ tm \in {"prepare", "vote"} => local_version = Len(ledger) + 1
  /\ tm = "prepare" => tmi <= Len(rm_connections) + 1
  /\ tm \in {"vote", "finish", "ack"} => tmi <= Len(rm_connections)
  /\ tm \in {"finish", "ack"} =>
       Len(ledger) > 0 /\ final_decision = ledger[Len(ledger)].commit
  /\ \A n \in DOMAIN ledger : Len(ledger[n].reads) = TxSize

\* What the TM has done on its i-th connection: requests sent, words read, and
\* words read as decisions.
RequestsSent(i) ==
  CASE (tm = "prepare" /\ i < tmi) \/ (tm = "vote" /\ i <= tmi) -> 2 * Len(ledger) + 1
    [] (tm = "finish" /\ i >= tmi) \/ (tm = "ack" /\ i > tmi) -> 2 * Len(ledger) - 1
    [] OTHER -> 2 * Len(ledger)

WordsRead(i) ==
  CASE tm \in {"prepare", "vote"} /\ i < tmi -> 2 * Len(ledger) + 1
    [] tm \in {"finish", "ack"} /\ i >= tmi -> 2 * Len(ledger) - 1
    [] OTHER -> 2 * Len(ledger)

DecisionsHeard(i) ==
  IF tm \in {"prepare", "vote"} /\ i < tmi THEN Len(ledger) + 1 ELSE Len(ledger)

\* What RM r has done: requests taken and words sent.
RequestsTaken(r) ==
  Len(votes[r]) + applied[r] + (IF rm[r] = "writing" THEN 1 ELSE 0)
WordsSent(r) == 2 * Len(votes[r]) + applied[r]

\* The n-th transaction of the TM: decided, or the current one.
Trans(n) ==
  IF n <= Len(ledger)
  THEN [customer_id |-> ledger[n].customer_id, version |-> n, reads |-> ledger[n].reads]
  ELSE [customer_id |-> cur, version |-> n, reads |-> tx[cur]]

\* The m-th request that the TM sends to an RM: a transaction and its decision
\* in turns.
Request(m) ==
  IF m % 2 = 1
  THEN [type |-> "TX", trans |-> Trans((m + 1) \div 2)]
  ELSE [type |-> "TM_RM", decision |-> IF ledger[m \div 2].commit THEN 1 ELSE 0]

\* The m-th word that RM r sends.
Word(r, m) ==
  CASE m % 3 = 1 -> TM_RM_IDENTIFY
    [] m % 3 = 2 -> votes[r][(m + 1) \div 3]
    [] m % 3 = 0 -> COMPLETE_SIG

\* RM r votes on a transaction, applies the decision, and so on.
TurnInv(r) ==
  /\ Len(votes[r]) \in {applied[r], applied[r] + 1}
  /\ rm[r] = "writing" => Len(votes[r]) = applied[r] + 1
  /\ Len(votes[r]) > 0 => local_tx[r] = Trans(Len(votes[r]))

\* The requests on the way to r are those sent and not taken.
DownInv(i, r) ==
  /\ RequestsTaken(r) + Len(toRM[r]) = RequestsSent(i)
  /\ \A k \in DOMAIN toRM[r] : toRM[r][k] = Request(RequestsTaken(r) + k)

\* The words on the way from r are those sent and not read.
UpInv(i, r) ==
  /\ WordsRead(i) + Len(fromRM[r]) = WordsSent(r)
  /\ \A k \in DOMAIN fromRM[r] : fromRM[r][k] = Word(r, WordsRead(i) + k)

\* Every second word read is taken for a decision.
HeardInv(i, r) ==
  /\ Len(heard[r]) = DecisionsHeard(i)
  /\ \A n \in DOMAIN heard[r] : heard[r][n] = Word(r, 2 * n - 1)

Pipe(i, r) == TurnInv(r) /\ DownInv(i, r) /\ UpInv(i, r) /\ HeardInv(i, r)

PipeInv ==
  \A r \in RMSet : \A i \in DOMAIN rm_connections : RM(i) = r => Pipe(i, r)

\* An RM that the TM did not reach (yet) has done nothing.
UnreachedInv ==
  \A r \in RMSet \ Connected :
    /\ rm[r] = "idle" /\ toRM[r] = <<>> /\ fromRM[r] = <<>>
    /\ votes[r] = <<>> /\ heard[r] = <<>> /\ applied[r] = 0
    /\ kv_table[r] = [s \in Slots(r) |-> kv_value]

\* The words heard decide.
DecisionInv ==
  /\ \A n \in DOMAIN ledger :
       ledger[n].commit <=> \A i \in DOMAIN rm_connections : heard[RM(i)][n] # -1
  /\ tm \in {"prepare", "vote"} =>
       (final_decision <=>
          \A i \in DOMAIN rm_connections : i < tmi => heard[RM(i)][Len(ledger) + 1] # -1)

\* Positions of local_tx, of those already written, that name robot rid.
WrittenAt(r, rid) == {j \in 1 .. widx[r] - 1 : local_tx[r].reads[j].rid = rid}

EntryOf(trans, j) ==
  [bid |-> trans.reads[j].bid + 1, customer_id |-> trans.customer_id,
   version |-> trans.version]

\* LedgerEntry of any sequence of decisions: the entry of robot rid after the
\* first n of them.
WritersIn(decisions, rid, n) ==
  {k \in 1 .. n : decisions[k].commit /\ rid \in Rids(decisions[k].reads)}

EntryAfter(decisions, rid, n) ==
  IF WritersIn(decisions, rid, n) = {} THEN kv_value
  ELSE LET k == Latest(WritersIn(decisions, rid, n))
           reads == decisions[k].reads
           i == Latest({j \in DOMAIN reads : reads[j].rid = rid})
       IN [bid |-> reads[i].bid + 1, customer_id |-> decisions[k].customer_id,
           version |-> k]

\* The table of an RM in its write loop: some robots are as after the decision
\* that is being applied, the others as after the one before.
WritingInv(r) ==
  /\ ledger[applied[r] + 1].commit \/ widx[r] = TxSize + 1
  /\ \A rid \in Window(r) :
       kv_table[r][Slot(r, rid)] =
         IF ledger[applied[r] + 1].commit /\ WrittenAt(r, rid) # {}
         THEN EntryOf(local_tx[r], Latest(WrittenAt(r, rid)))
         ELSE EntryAfter(ledger, rid, applied[r])

IdleInv(r) ==
  \A rid \in Window(r) :
    kv_table[r][Slot(r, rid)] = EntryAfter(ledger, rid, applied[r])

TableInv ==
  \A r \in RMSet : IF rm[r] = "writing" THEN WritingInv(r) ELSE IdleInv(r)

IInv == /\ TypeOK /\ QueueInv /\ ConnectInv /\ TMInv /\ PipeInv /\ UnreachedInv
        /\ DecisionInv /\ TableInv
-----------------------------------------------------------------------------
(* Sequences, sets of numbers, slots.                                      *)

\* What Append, Tail and appending two words do to a sequence.
LEMMA AppendFacts ==
  ASSUME NEW S, NEW s \in Seq(S), NEW e \in S
  PROVE  /\ Append(s, e) \in Seq(S) /\ Len(s) \in Nat
         /\ Len(Append(s, e)) = Len(s) + 1
         /\ DOMAIN s = 1 .. Len(s) /\ DOMAIN Append(s, e) = 1 .. Len(s) + 1
         /\ \A k \in 1 .. Len(s) : Append(s, e)[k] = s[k]
         /\ Append(s, e)[Len(s) + 1] = e
BY AppendProperties, LenProperties

LEMMA TailFacts ==
  ASSUME NEW S, NEW s \in Seq(S), s # <<>>
  PROVE  /\ Tail(s) \in Seq(S) /\ Head(s) \in S /\ Head(s) = s[1]
         /\ Len(s) \in Nat \ {0} /\ Len(Tail(s)) = Len(s) - 1
         /\ DOMAIN s = 1 .. Len(s) /\ DOMAIN Tail(s) = 1 .. Len(s) - 1
         /\ \A k \in 1 .. Len(s) - 1 : Tail(s)[k] = s[k + 1]
<1>1. Len(s) \in Nat /\ Len(s) # 0 /\ DOMAIN s = 1 .. Len(s)
  BY LenProperties, EmptySeq
<1>2. Tail(s) \in Seq(S) /\ Len(Tail(s)) = Len(s) - 1 /\ Head(s) = s[1] /\ Head(s) \in S
  BY HeadTailProperties
<1>3. DOMAIN Tail(s) = 1 .. Len(s) - 1
  BY <1>2, LenProperties
<1>4. \A k \in 1 .. Len(s) - 1 : Tail(s)[k] = s[k + 1]
  BY <1>1, HeadTailProperties
<1> QED
  BY <1>1, <1>2, <1>3, <1>4

LEMMA TwoMore ==
  ASSUME NEW S, NEW s \in Seq(S), NEW a \in S, NEW b \in S
  PROVE  /\ s \o <<a, b>> \in Seq(S) /\ Len(s) \in Nat
         /\ Len(s \o <<a, b>>) = Len(s) + 2
         /\ DOMAIN (s \o <<a, b>>) = 1 .. Len(s) + 2
         /\ \A k \in 1 .. Len(s) : (s \o <<a, b>>)[k] = s[k]
         /\ (s \o <<a, b>>)[Len(s) + 1] = a /\ (s \o <<a, b>>)[Len(s) + 2] = b
<1> DEFINE t == <<a, b>>
<1>1. t \in Seq(S) /\ Len(t) = 2 /\ t[1] = a /\ t[2] = b
  OBVIOUS
<1> HIDE DEF t
<1>2. Len(s) \in Nat
  BY LenProperties
<1>3. s \o t \in Seq(S) /\ Len(s \o t) = Len(s) + Len(t)
  BY <1>1, ConcatProperties
<1>4. \A k \in 1 .. Len(s) + Len(t) :
        (s \o t)[k] = IF k <= Len(s) THEN s[k] ELSE t[k - Len(s)]
  BY <1>1, ConcatProperties
<1>5. DOMAIN (s \o t) = 1 .. Len(s) + 2
  BY <1>1, <1>3, LenProperties
<1>6. (s \o t)[Len(s) + 1] = t[1] /\ (s \o t)[Len(s) + 2] = t[2]
  <2>1. /\ Len(s) + 1 \in 1 .. Len(s) + Len(t) /\ ~ (Len(s) + 1 <= Len(s))
        /\ Len(s) + 2 \in 1 .. Len(s) + Len(t) /\ ~ (Len(s) + 2 <= Len(s))
        /\ Len(s) + 1 - Len(s) = 1 /\ Len(s) + 2 - Len(s) = 2
    BY <1>1, <1>2
  <2> QED
    BY <2>1, <1>4
<1>7. \A k \in 1 .. Len(s) : (s \o t)[k] = s[k]
  BY <1>1, <1>2, <1>4
<1> QED
  BY <1>1, <1>2, <1>3, <1>5, <1>6, <1>7 DEF t

\* A nonempty set of naturals has a least element, and one that is bounded a
\* greatest: Latest is what its name says.
LessThan == {p \in Nat \X Nat : p[1] < p[2]}

LEMMA LessThanWellFounded == IsWellFoundedOn(LessThan, Nat)
BY NatLessThanWellFounded DEF OpToRel, LessThan

LEMMA LeastExists ==
  ASSUME NEW T, T \subseteq Nat, T # {}
  PROVE  \E x \in T : \A y \in T : x <= y
<1>1. \A x, y \in Nat : <<y, x>> \in LessThan <=> y < x
  BY DEF LessThan
<1>2. PICK x \in T : \A y \in T : ~ (<<y, x>> \in LessThan)
  BY LessThanWellFounded, WFMin
<1>3. ASSUME NEW y \in T PROVE x <= y
  <2>1. x \in Nat /\ y \in Nat
    OBVIOUS
  <2>2. ~ (y < x)
    BY <2>1, <1>1, <1>2
  <2> QED
    BY <2>1, <2>2
<1> QED
  BY <1>3

LEMMA LatestIsLast ==
  ASSUME NEW n \in Nat, NEW S, S \subseteq 1 .. n, S # {}
  PROVE  Latest(S) \in S /\ \A j \in S : j <= Latest(S)
<1> DEFINE T == {n - k : k \in S}
<1>1. \A k \in S : k \in 1 .. n /\ n - k \in Nat
  OBVIOUS
<1>2. T \subseteq Nat /\ T # {}
  BY <1>1
<1>3. PICK x \in T : \A y \in T : x <= y
  BY <1>2, LeastExists
<1>4. PICK k \in S : x = n - k
  BY <1>3
<1>5. ASSUME NEW j \in S PROVE j <= k
  <2>1. n - k <= n - j
    BY <1>3, <1>4
  <2> QED
    BY <2>1, <1>1
<1> QED
  BY <1>5 DEF Latest

LEMMA LatestIs ==
  ASSUME NEW S, S \subseteq Nat, NEW k \in S, \A j \in S : j <= k
  PROVE  Latest(S) = k
<1>1. \E m \in S : \A j \in S : j <= m
  OBVIOUS
<1>2. Latest(S) \in S /\ \A j \in S : j <= Latest(S)
  BY <1>1 DEF Latest
<1>3. Latest(S) <= k /\ k <= Latest(S) /\ Latest(S) \in Nat /\ k \in Nat
  BY <1>2
<1> QED
  BY <1>2, <1>3

\* Division with remainder.
LEMMA DivMod ==
  ASSUME NEW a \in Nat, NEW b \in Nat \ {0}
  PROVE  /\ a % b \in 0 .. b - 1 /\ a \div b \in Int
         /\ a = b * (a \div b) + (a % b)
OBVIOUS

\* The robots of an RM have slots, each its own.
LEMMA SlotIsSlot ==
  ASSUME NEW r \in RMSet, NEW rid \in Window(r)
  PROVE  rid \in Nat /\ rid \in Robots /\ Slot(r, rid) \in Slots(r)
<1>1. KvBase[r] \in Nat /\ KvTblSize[r] \in Nat \ {0}
  BY RMAssumption
<1>2. rid \in Nat
  BY <1>1 DEF Window
<1>3. rid % KvTblSize[r] \in 0 .. KvTblSize[r] - 1
  BY <1>1, <1>2, DivMod
<1> QED
  BY <1>2, <1>3 DEF Slot, Slots, Robots

\* Robots of one window never share a slot.
LEMMA SlotIsOwn ==
  ASSUME NEW r \in RMSet, NEW x \in Window(r), NEW y \in Window(r),
         Slot(r, x) = Slot(r, y)
  PROVE  x = y
<1> DEFINE N == KvTblSize[r]
<1>1. KvBase[r] \in Nat /\ N \in Nat \ {0}
  BY RMAssumption
<1>2. x \in Nat /\ y \in Nat /\ x - y < N /\ y - x < N
  BY <1>1 DEF Window
<1> HIDE DEF N
<1>3. /\ x = N * (x \div N) + (x % N) /\ y = N * (y \div N) + (y % N)
      /\ x \div N \in Int /\ y \div N \in Int
      /\ x % N \in Int
  BY <1>1, <1>2, DivMod
<1>4. x % N = y % N
  BY DEF Slot, N
<1>5. \A p, q \in Int : p < q => N * q - N * p >= N
  <2> SUFFICES ASSUME NEW p \in Int, NEW q \in Int, p < q
               PROVE  N * q - N * p >= N
    OBVIOUS
  <2>1. q - p - 1 \in Nat /\ N * (q - p - 1) >= 0
    BY <1>1
  <2> QED
    BY <1>1, <2>1
<1>6. ~ (x \div N < y \div N) /\ ~ (y \div N < x \div N)
  <2> DEFINE p == x \div N
             q == y \div N
             m == x % N
  <2>1. m \in Int /\ x = N * p + m /\ y = N * q + m /\ N * p \in Int /\ N * q \in Int
    BY <1>1, <1>2, <1>3, <1>4
  <2>2. p < q => N * q - N * p >= N
    BY <1>3, <1>5
  <2>3. q < p => N * p - N * q >= N
    BY <1>3, <1>5
  <2> HIDE DEF p, q, m
  <2> QED
    BY <1>1, <1>2, <2>1, <2>2, <2>3 DEF p, q
<1>7. x \div N = y \div N
  BY <1>3, <1>6
<1> QED
  BY <1>3, <1>4, <1>7

-----------------------------------------------------------------------------
(* Consequences of the invariant.                                          *)

\* A connection of the TM is one to an RM, and has a number.
LEMMA ConnectionIsRM ==
  ASSUME TypeOK, NEW i \in DOMAIN rm_connections
  PROVE  /\ RM(i) \in RMSet /\ RM(i) \in Connected
         /\ i \in Nat \ {0} /\ i <= Len(rm_connections)
         /\ Len(rm_connections) \in Nat
         /\ DOMAIN rm_connections = 1 .. Len(rm_connections)
<1>1. rm_connections \in Seq(RMSet)
  BY DEF TypeOK
<1>2. RM(i) \in RMSet
  BY <1>1, ElementOfSeq DEF RM
<1>3. Len(rm_connections) \in Nat /\ DOMAIN rm_connections = 1 .. Len(rm_connections)
  BY <1>1, LenProperties
<1> QED
  BY <1>2, <1>3 DEF Connected

\* Only an RM that the TM reached does anything.
LEMMA BusyIsConnected ==
  ASSUME UnreachedInv, NEW r \in RMSet,
         toRM[r] # <<>> \/ fromRM[r] # <<>> \/ rm[r] = "writing" \/ applied[r] # 0
  PROVE  \E i \in DOMAIN rm_connections : r = RM(i)
BY DEF UnreachedInv, Connected

\* The TM's counts: it has sent one request more than it has read words on the
\* connection it waits for, and as many on every other.
LEMMA TMCounts ==
  ASSUME TypeOK, TMInv, NEW i \in DOMAIN rm_connections
  PROVE  /\ Len(ledger) \in Nat
         /\ RequestsSent(i) \in Nat /\ RequestsSent(i) <= 2 * Len(ledger) + 1
         /\ WordsRead(i) \in Nat /\ WordsRead(i) >= 2 * Len(ledger) - 1
         /\ RequestsSent(i) = IF tm \in {"vote", "ack"} /\ i = tmi
                              THEN WordsRead(i) + 1 ELSE WordsRead(i)
<1>1. i \in Nat /\ tmi \in Nat /\ Len(ledger) \in Nat
  BY ConnectionIsRM, LenProperties DEF TypeOK
<1>2. tm \in {"finish", "ack"} => Len(ledger) > 0
  BY DEF TMInv
<1>3. CASE tm = "prepare"
  BY <1>1, <1>3 DEF RequestsSent, WordsRead
<1>4. CASE tm = "vote"
  BY <1>1, <1>4 DEF RequestsSent, WordsRead
<1>5. CASE tm = "finish"
  BY <1>1, <1>2, <1>5 DEF RequestsSent, WordsRead
<1>6. CASE tm = "ack"
  BY <1>1, <1>2, <1>6 DEF RequestsSent, WordsRead
<1>7. CASE tm \in {"connect", "idle"}
  BY <1>1, <1>7 DEF RequestsSent, WordsRead
<1> QED
  BY <1>3, <1>4, <1>5, <1>6, <1>7 DEF TypeOK

\* An RM's counts.
LEMMA RMCounts ==
  ASSUME TypeOK, NEW r \in RMSet
  PROVE  /\ Len(votes[r]) \in Nat /\ applied[r] \in Nat
         /\ RequestsTaken(r) \in Nat /\ WordsSent(r) \in Nat
         /\ Len(toRM[r]) \in Nat /\ Len(fromRM[r]) \in Nat
         /\ DOMAIN toRM[r] = 1 .. Len(toRM[r])
         /\ DOMAIN fromRM[r] = 1 .. Len(fromRM[r])
         /\ DOMAIN votes[r] = 1 .. Len(votes[r])
         /\ DOMAIN heard[r] = 1 .. Len(heard[r]) /\ Len(heard[r]) \in Nat
<1>1. votes[r] \in Seq({1, -1}) /\ applied[r] \in Nat
      /\ toRM[r] \in Seq(Requests) /\ fromRM[r] \in Seq(Words) /\ heard[r] \in Seq(Words)
  BY DEF TypeOK
<1> QED
  BY <1>1, LenProperties DEF RequestsTaken, WordsSent

\* The transactions of the TM are complete.
LEMMA TransType ==
  ASSUME TypeOK, TMInv, NEW n \in 1 .. Len(ledger)
  PROVE  /\ Trans(n) = [customer_id |-> ledger[n].customer_id, version |-> n,
                        reads |-> ledger[n].reads]
         /\ ledger[n].customer_id \in Clients /\ ledger[n].commit \in BOOLEAN
         /\ ledger[n].reads \in Seq(Reads)
         /\ Len(ledger[n].reads) = TxSize /\ DOMAIN ledger[n].reads = 1 .. TxSize
<1>1. n \in DOMAIN ledger /\ n \in Nat /\ n <= Len(ledger)
  BY LenProperties DEF TypeOK
<1>2. ledger[n] \in [customer_id : Clients, reads : Seq(Reads), commit : BOOLEAN]
  BY <1>1, ElementOfSeq DEF TypeOK
<1>3. Len(ledger[n].reads) = TxSize
  BY <1>1 DEF TMInv
<1> QED
  BY <1>1, <1>2, <1>3, LenProperties DEF Trans

\* An RM in its write loop applies a decided transaction, the one it voted on
\* last.
LEMMA Writing ==
  ASSUME TypeOK, TMInv, PipeInv, UnreachedInv, NEW r \in RMSet, rm[r] = "writing"
  PROVE  /\ applied[r] + 1 \in 1 .. Len(ledger) /\ Len(ledger) \in Nat
         /\ local_tx[r] = Trans(applied[r] + 1)
         /\ Len(votes[r]) = applied[r] + 1
<1>1. PICK i \in DOMAIN rm_connections : r = RM(i)
  BY BusyIsConnected
<1>2. TurnInv(r) /\ DownInv(i, r)
  BY <1>1 DEF PipeInv, Pipe
<1>3. applied[r] \in Nat /\ Len(toRM[r]) \in Nat
  BY RMCounts
<1>4. Len(votes[r]) = applied[r] + 1 /\ Len(votes[r]) > 0
  BY <1>2, <1>3 DEF TurnInv
<1>5. RequestsTaken(r) = 2 * applied[r] + 2
  BY <1>3, <1>4 DEF RequestsTaken
<1>6. 2 * applied[r] + 2 <= 2 * Len(ledger) + 1 /\ Len(ledger) \in Nat
  BY <1>2, <1>3, <1>5, TMCounts DEF DownInv
<1>7. local_tx[r] = Trans(Len(votes[r]))
  BY <1>2, <1>4 DEF TurnInv
<1> QED
  BY <1>3, <1>4, <1>6, <1>7

\* What an RM writes is an entry, for a robot that some RM holds.
LEMMA WritingTypes ==
  ASSUME TypeOK, TMInv, PipeInv, UnreachedInv, NEW r \in RMSet, rm[r] = "writing",
         NEW j \in 1 .. TxSize
  PROVE  /\ local_tx[r].reads[j].rid \in Robots /\ local_tx[r].reads[j].rid \in Nat
         /\ EntryOf(local_tx[r], j) \in Entries
         /\ Holds(r, local_tx[r].reads[j].rid) <=> local_tx[r].reads[j].rid \in Window(r)
<1>1. PICK n \in 1 .. Len(ledger) : n = applied[r] + 1 /\ local_tx[r] = Trans(n)
  BY Writing
<1>2. /\ local_tx[r].reads = ledger[n].reads /\ local_tx[r].version = n
      /\ local_tx[r].customer_id = ledger[n].customer_id
      /\ ledger[n].reads \in Seq(Reads) /\ j \in DOMAIN ledger[n].reads
      /\ ledger[n].customer_id \in Clients
  BY <1>1, TransType
<1>3. local_tx[r].reads[j] \in Reads
  BY <1>2, ElementOfSeq
<1>4. local_tx[r].reads[j].bid \in Nat /\ local_tx[r].reads[j].rid \in Robots
  BY <1>3 DEF Reads
<1>5. local_tx[r].reads[j].rid \in Nat
  BY <1>4, SlotIsSlot DEF Robots
<1>6. EntryOf(local_tx[r], j) \in Entries
  BY <1>2, <1>4 DEF EntryOf, Entries
<1>7. KvBase[r] \in Nat /\ KvTblSize[r] \in Nat
  BY RMAssumption
<1>8. Holds(r, local_tx[r].reads[j].rid) <=> local_tx[r].reads[j].rid \in Window(r)
  BY <1>5, <1>7 DEF Holds, Window
<1> QED
  BY <1>4, <1>5, <1>6, <1>8

\* An idle RM has completed as many decisions as it has voted, or one less.
LEMMA RequestsTakenIdle ==
  ASSUME TypeOK, NEW r \in RMSet, TurnInv(r), rm[r] = "idle"
  PROVE  \/ Len(votes[r]) = applied[r] /\ RequestsTaken(r) = 2 * applied[r]
         \/ Len(votes[r]) = applied[r] + 1 /\ RequestsTaken(r) = 2 * applied[r] + 1
BY RMCounts DEF TurnInv, RequestsTaken

-----------------------------------------------------------------------------
(* Type correctness.                                                       *)

\* The value a table starts with is an entry.
LEMMA ValueIsEntry == kv_value \in Entries
BY DEF kv_value, Entries

\* Types hold when the three programs start, and in every step.
LEMMA InitTypeOK == Init => TypeOK
<1> SUFFICES ASSUME Init PROVE TypeOK
  OBVIOUS
<1> USE DEF Init, ClientInit, TMInit, RMInit
<1>1. tx \in [Clients -> Seq(Reads)] /\ \A c \in Clients : Len(tx[c]) <= TxSize
  BY SizeAssumption
<1>2. DOMAIN kv_table = RMSet /\ \A r \in RMSet : kv_table[r] \in [Slots(r) -> Entries]
  BY ValueIsEntry
<1>3. widx \in [RMSet -> 1 .. TxSize + 1]
  BY SizeAssumption
<1>4. /\ txrq \in Seq(Clients) /\ rm_connections \in Seq(RMSet)
      /\ ledger \in Seq([customer_id : Clients, reads : Seq(Reads), commit : BOOLEAN])
  OBVIOUS
<1>5. /\ toRM \in [RMSet -> Seq(Requests)] /\ fromRM \in [RMSet -> Seq(Words)]
      /\ votes \in [RMSet -> Seq({1, -1})] /\ heard \in [RMSet -> Seq(Words)]
  OBVIOUS
<1>6. local_tx \in [RMSet -> Transactions \cup {NoTX}]
  OBVIOUS
<1> QED
  BY <1>1, <1>2, <1>3, <1>4, <1>5, <1>6 DEF TypeOK

\* The steps of the customers.
LEMMA ClientTypeOK ==
  ASSUME TypeOK, NEW c \in Clients, ClientThread(c)
  PROVE  TypeOK'
<1> USE DEF TypeOK
<1>1. CASE SendRead(c)
  <2>0. PICK r \in RMSet : \E rid \in Window(r) :
          tx' = [tx EXCEPT ![c] =
                   Append(@, [rid |-> rid, bid |-> ReadEntry(r, rid).bid,
                              version |-> ReadEntry(r, rid).version])]
    BY <1>1 DEF SendRead
  <2>1. PICK rid \in Window(r) :
          tx' = [tx EXCEPT ![c] =
                   Append(@, [rid |-> rid, bid |-> ReadEntry(r, rid).bid,
                              version |-> ReadEntry(r, rid).version])]
    BY <2>0
  <2> DEFINE e == [rid |-> rid, bid |-> ReadEntry(r, rid).bid,
                   version |-> ReadEntry(r, rid).version]
  <2>2. ReadEntry(r, rid) \in Entries /\ rid \in Robots
    BY SlotIsSlot DEF ReadEntry
  <2>3. e \in Reads
    BY <2>2 DEF Entries, Reads
  <2>4. tx' = [tx EXCEPT ![c] = Append(tx[c], e)] /\ tx[c] \in Seq(Reads)
    BY <2>1
  <2> HIDE DEF e
  <2>5. Append(tx[c], e) \in Seq(Reads) /\ Len(Append(tx[c], e)) = Len(tx[c]) + 1
        /\ Len(tx[c]) \in Nat
    BY <2>3, <2>4, AppendFacts
  <2>6. Len(tx[c]) < TxSize
    BY <1>1 DEF SendRead, MoreReads
  <2>7. tx' \in [Clients -> Seq(Reads)] /\ \A d \in Clients : Len(tx'[d]) <= TxSize
    BY <2>4, <2>5, <2>6, SizeAssumption
  <2> QED
    BY <1>1, <2>7 DEF SendRead, tmVars, rmVars
<1>2. CASE SendToTXThread(c)
  <2>1. txrq' \in Seq(Clients)
    BY <1>2, AppendFacts DEF SendToTXThread
  <2> QED
    BY <1>2, <2>1 DEF SendToTXThread, rmVars
<1>3. CASE ReceiveDecision(c)
  <2>1. tx' \in [Clients -> Seq(Reads)] /\ \A d \in Clients : Len(tx'[d]) <= TxSize
    BY <1>3, SizeAssumption DEF ReceiveDecision
  <2>2. commits' \in [Clients -> Nat] /\ aborts' \in [Clients -> Nat]
    <3>1. \/ commits' = [commits EXCEPT ![c] = @ + 1] /\ aborts' = aborts
          \/ aborts' = [aborts EXCEPT ![c] = @ + 1] /\ commits' = commits
      BY <1>3 DEF ReceiveDecision
    <3>2. commits[c] + 1 \in Nat /\ aborts[c] + 1 \in Nat
      OBVIOUS
    <3> QED
      BY <3>1, <3>2
  <2> QED
    BY <1>3, <2>1, <2>2 DEF ReceiveDecision, tmVars, rmVars
<1> QED
  BY <1>1, <1>2, <1>3 DEF ClientThread

\* The steps of the TM's TX thread.
LEMMA TMTypeOK ==
  ASSUME TypeOK, QueueInv, TMInv, TMThread
  PROVE  TypeOK'
<1> USE DEF TypeOK
<1>1. CASE Connect
  <2>1. tmi <= Len(RMs) => RMs[tmi] \in RMSet
    BY RMAssumption, LenProperties, ElementOfSeq
  <2>2. rm_connections' \in Seq(RMSet)
    <3>1. \/ tmi <= Len(RMs) /\ rm_connections' = Append(rm_connections, RMs[tmi])
          \/ rm_connections' = rm_connections
      BY <1>1 DEF Connect, Reach
    <3>2. tmi <= Len(RMs) => Append(rm_connections, RMs[tmi]) \in Seq(RMSet)
      BY <2>1, AppendFacts
    <3> QED
      BY <3>1, <3>2
  <2>3. tmi' \in Nat \ {0}
    BY <1>1 DEF Connect
  <2>4. tm' \in {"connect", "idle"}
    BY <1>1 DEF Connect
  <2> QED
    BY <1>1, <2>2, <2>3, <2>4 DEF Connect, clientVars, rmVars
<1>2. CASE TakeRequest
  <2>1. cur' \in Clients /\ txrq' \in Seq(Clients)
    BY <1>2, TailFacts DEF TakeRequest
  <2>2. local_version' \in Nat /\ tmi' = 1 /\ tm' = "prepare" /\ final_decision' = TRUE
    BY <1>2 DEF TakeRequest
  <2>3. UNCHANGED <<rm_connections, promise, toRM, fromRM, ledger, heard, clientVars, rmVars>>
    BY <1>2 DEF TakeRequest
  <2> QED
    BY <2>1, <2>2, <2>3 DEF clientVars, rmVars
<1>3. CASE SendTX
  <2> DEFINE t == [customer_id |-> cur, version |-> local_version, reads |-> tx[cur]]
  <2>1. cur \in Clients
    BY <1>3 DEF SendTX, QueueInv
  <2>2. t \in Transactions
    BY <2>1 DEF Transactions
  <2>3. [type |-> "TX", trans |-> t] \in Requests
    BY <2>2 DEF Requests
  <2>4. tmi \in DOMAIN rm_connections
    BY <1>3, LenProperties DEF SendTX
  <2>5. RM(tmi) \in RMSet
    BY <2>4, ConnectionIsRM
  <2>6. toRM' = [toRM EXCEPT ![RM(tmi)] = Append(@, [type |-> "TX", trans |-> t])]
    BY <1>3 DEF SendTX
  <2> HIDE DEF t
  <2>7. toRM' \in [RMSet -> Seq(Requests)]
    BY <2>3, <2>5, <2>6, AppendFacts
  <2> QED
    BY <1>3, <2>7 DEF SendTX, clientVars, rmVars
<1>4. CASE ReceiveVote
  <2>1. tmi \in DOMAIN rm_connections
    BY <1>4, LenProperties DEF ReceiveVote, TMInv
  <2>2. RM(tmi) \in RMSet
    BY <2>1, ConnectionIsRM
  <2>3. Head(fromRM[RM(tmi)]) \in Words /\ Tail(fromRM[RM(tmi)]) \in Seq(Words)
    BY <1>4, <2>2, TailFacts DEF ReceiveVote
  <2>4. fromRM' \in [RMSet -> Seq(Words)] /\ heard' \in [RMSet -> Seq(Words)]
    BY <1>4, <2>2, <2>3, AppendFacts DEF ReceiveVote
  <2>5. final_decision' \in BOOLEAN /\ tmi' \in Nat \ {0}
    BY <1>4 DEF ReceiveVote
  <2> QED
    BY <1>4, <2>4, <2>5 DEF ReceiveVote, clientVars, rmVars
<1>5. CASE Decide
  <2>1. cur \in Clients
    BY <1>5 DEF Decide, QueueInv
  <2> DEFINE l == [customer_id |-> cur, reads |-> tx[cur], commit |-> final_decision]
  <2>2. l \in [customer_id : Clients, reads : Seq(Reads), commit : BOOLEAN]
    BY <2>1
  <2>3. ledger' = Append(ledger, l)
    BY <1>5 DEF Decide
  <2> HIDE DEF l
  <2>4. ledger' \in Seq([customer_id : Clients, reads : Seq(Reads), commit : BOOLEAN])
    BY <2>2, <2>3, AppendFacts
  <2>5. promise' \in [Clients -> {0, 1, -1}]
    BY <1>5 DEF Decide
  <2>6. tmi' = 1 /\ tm' \in {"idle", "finish"}
    BY <1>5 DEF Decide
  <2>7. UNCHANGED <<txrq, rm_connections, cur, local_version, final_decision, toRM,
                    fromRM, heard, clientVars, rmVars>>
    BY <1>5 DEF Decide
  <2> QED
    BY <2>4, <2>5, <2>6, <2>7 DEF clientVars, rmVars
<1>6. CASE SendCommitAbort
  <2>1. tmi \in DOMAIN rm_connections
    BY <1>6, LenProperties DEF SendCommitAbort, TMInv
  <2>2. RM(tmi) \in RMSet
    BY <2>1, ConnectionIsRM
  <2> DEFINE e == [type |-> "TM_RM", decision |-> IF final_decision THEN 1 ELSE 0]
  <2>3. e \in Requests
    BY DEF Requests
  <2>4. toRM' = [toRM EXCEPT ![RM(tmi)] = Append(@, e)]
    BY <1>6 DEF SendCommitAbort
  <2> HIDE DEF e
  <2>5. toRM' \in [RMSet -> Seq(Requests)]
    BY <2>2, <2>3, <2>4, AppendFacts
  <2> QED
    BY <1>6, <2>5 DEF SendCommitAbort, clientVars, rmVars
<1>7. CASE ReceiveSignal
  <2>1. tmi \in DOMAIN rm_connections
    BY <1>7, LenProperties DEF ReceiveSignal, TMInv
  <2>2. RM(tmi) \in RMSet
    BY <2>1, ConnectionIsRM
  <2>3. fromRM' \in [RMSet -> Seq(Words)]
    BY <1>7, <2>2, TailFacts DEF ReceiveSignal
  <2>4. tm' \in {"finish", "idle"}
    BY <1>7 DEF ReceiveSignal
  <2>5. tmi' \in Nat \ {0}
    <3>1. tmi' = tmi + 1 \/ tmi' = tmi
      BY <1>7 DEF ReceiveSignal
    <3> QED
      BY <3>1
  <2> QED
    BY <1>7, <2>3, <2>4, <2>5 DEF ReceiveSignal, clientVars, rmVars
<1> QED
  BY <1>1, <1>2, <1>3, <1>4, <1>5, <1>6, <1>7 DEF TMThread

\* The steps of an RM.
LEMMA RMTypeOK ==
  ASSUME TypeOK, TMInv, PipeInv, UnreachedInv, NEW r \in RMSet, RMThread(r)
  PROVE  TypeOK'
<1> USE DEF TypeOK
<1>1. ASSUME toRM[r] # <<>>
      PROVE  Head(toRM[r]) \in Requests /\ [toRM EXCEPT ![r] = Tail(@)] \in [RMSet -> Seq(Requests)]
  BY <1>1, TailFacts
<1>2. CASE Prepare(r)
  <2>1. toRM[r] # <<>> /\ Head(toRM[r]).type = "TX" /\ toRM' = [toRM EXCEPT ![r] = Tail(@)]
    BY <1>2 DEF Prepare, Receives, ToTXThread
  <2>2. Head(toRM[r]).trans \in Transactions
    BY <1>1, <2>1 DEF Requests
  <2>3. PICK d \in {1, -1} :
          /\ fromRM' = [fromRM EXCEPT ![r] = @ \o <<TM_RM_IDENTIFY, d>>]
          /\ votes' = [votes EXCEPT ![r] = Append(@, d)]
    BY <1>2 DEF Prepare, DecisionWords
  <2>4. d \in Words /\ TM_RM_IDENTIFY \in Words
    BY DEF Words
  <2>5. fromRM' \in [RMSet -> Seq(Words)]
    BY <2>3, <2>4, TwoMore
  <2>6. votes' \in [RMSet -> Seq({1, -1})]
    BY <2>3, AppendFacts
  <2>7. local_tx' \in [RMSet -> Transactions \cup {NoTX}]
    BY <1>2, <2>2 DEF Prepare
  <2> QED
    BY <1>1, <1>2, <2>1, <2>5, <2>6, <2>7 DEF Prepare, clientVars, tmVars
<1>3. CASE StartCommitAbort(r)
  <2>1. toRM[r] # <<>> /\ toRM' = [toRM EXCEPT ![r] = Tail(@)]
    BY <1>3 DEF StartCommitAbort, Receives, ToTXThread
  <2>2. widx' \in [RMSet -> 1 .. TxSize + 1]
    BY <1>3, SizeAssumption DEF StartCommitAbort
  <2>3. rm' \in [RMSet -> {"idle", "writing"}]
    BY <1>3 DEF StartCommitAbort
  <2> QED
    BY <1>1, <1>3, <2>1, <2>2, <2>3 DEF StartCommitAbort, clientVars, tmVars
<1>4. CASE WriteEntry(r)
  <2> DEFINE rid == local_tx[r].reads[widx[r]].rid
  <2>1. rm[r] = "writing" /\ widx[r] \in 1 .. TxSize
    BY <1>4, SizeAssumption DEF WriteEntry
  <2>2. NewEntry(r) \in Entries /\ (Holds(r, rid) => rid \in Window(r))
    BY <2>1, WritingTypes DEF NewEntry, EntryOf
  <2>3. DOMAIN kv_table' = RMSet /\ \A q \in RMSet : kv_table'[q] \in [Slots(q) -> Entries]
    <3>1. \/ kv_table' = kv_table
          \/ kv_table' = [kv_table EXCEPT ![r][Slot(r, rid)] = NewEntry(r)] /\ rid \in Window(r)
      BY <1>4, <2>2 DEF WriteEntry
    <3> DEFINE s == Slot(r, rid)
    <3>2. rid \in Window(r) => s \in Slots(r)
      BY SlotIsSlot
    <3> HIDE DEF rid, s
    <3>3. CASE kv_table' = kv_table
      BY <3>3
    <3>4. CASE rid \in Window(r) /\ kv_table' = [kv_table EXCEPT ![r][s] = NewEntry(r)]
      <4>1. [kv_table[r] EXCEPT ![s] = NewEntry(r)] \in [Slots(r) -> Entries]
        BY <2>2, <3>2, <3>4
      <4>2. kv_table' = [kv_table EXCEPT ![r] = [kv_table[r] EXCEPT ![s] = NewEntry(r)]]
        BY <3>4
      <4> QED
        BY <4>1, <4>2
    <3> QED
      BY <3>1, <3>3, <3>4 DEF s
  <2>4. widx' \in [RMSet -> 1 .. TxSize + 1]
    <3>1. widx' = [widx EXCEPT ![r] = widx[r] + 1]
      BY <1>4 DEF WriteEntry
    <3>2. widx[r] + 1 \in 1 .. TxSize + 1
      BY <2>1, SizeAssumption
    <3> QED
      BY <3>1, <3>2
  <2> QED
    BY <1>4, <2>3, <2>4 DEF WriteEntry, clientVars, tmVars
<1>5. CASE Complete(r)
  <2>1. COMPLETE_SIG \in Words
    BY DEF Words
  <2>2. fromRM' \in [RMSet -> Seq(Words)]
    BY <1>5, <2>1, AppendFacts DEF Complete
  <2>3. applied' \in [RMSet -> Nat] /\ rm' \in [RMSet -> {"idle", "writing"}]
    BY <1>5 DEF Complete
  <2> QED
    BY <1>5, <2>2, <2>3 DEF Complete, clientVars, tmVars
<1> QED
  BY <1>2, <1>3, <1>4, <1>5 DEF RMThread

LEMMA NextTypeOK == IInv /\ [Next]_vars => TypeOK'
<1> SUFFICES ASSUME IInv, [Next]_vars PROVE TypeOK'
  OBVIOUS
<1>1. CASE UNCHANGED vars
  BY <1>1 DEF IInv, TypeOK, vars
<1> QED
  BY <1>1, ClientTypeOK, TMTypeOK, RMTypeOK DEF IInv, Next, Finished

-----------------------------------------------------------------------------
(* The queue, the connections, the TM's counters.                          *)

\* The steps of the RMs change nothing of the customers and the TM.
LEMMA RMStepUnchanged ==
  ASSUME NEW r \in RMSet, RMThread(r)
  PROVE  UNCHANGED <<clientVars, tmVars, promise, ledger, heard>>
BY DEF RMThread, Prepare, StartCommitAbort, WriteEntry, Complete, clientVars, tmVars

\* The steps of the customers change nothing of the RMs and, but for the
\* queue, of the TM.
LEMMA ClientStepUnchanged ==
  ASSUME NEW c \in Clients, ClientThread(c)
  PROVE  /\ UNCHANGED <<rmVars, toRM, fromRM, ledger, heard>>
         /\ UNCHANGED <<tm, rm_connections, cur, local_version, tmi, final_decision>>
BY DEF ClientThread, SendRead, SendToTXThread, ReceiveDecision, tmVars, rmVars

\* The queue under the steps of the customers, of the TM, and all of them.
LEMMA ClientQueueInv ==
  ASSUME TypeOK, QueueInv, NEW c \in Clients, ClientThread(c)
  PROVE  QueueInv'
<1> USE DEF QueueInv
<1>1. CASE SendRead(c)
  <2>1. /\ UNCHANGED <<pc, txrq, promise, tm, cur>>
        /\ \A d \in Clients : d # c => tx'[d] = tx[d]
        /\ pc[c] # "waiting"
    BY <1>1 DEF SendRead, tmVars, TypeOK
  <2> QED
    BY <2>1
<1>2. CASE SendToTXThread(c)
  <2>1. /\ pc[c] = "bidding" /\ Len(tx[c]) = TxSize
        /\ pc' = [pc EXCEPT ![c] = "waiting"]
        /\ promise' = [promise EXCEPT ![c] = 0]
        /\ txrq' = Append(txrq, c)
        /\ UNCHANGED <<tx, tm, cur>>
    BY <1>2 DEF SendToTXThread
  <2>2. /\ \A i \in 1 .. Len(txrq) : txrq'[i] = txrq[i]
        /\ txrq'[Len(txrq) + 1] = c
        /\ Len(txrq) \in Nat
        /\ DOMAIN txrq = 1 .. Len(txrq) /\ DOMAIN txrq' = 1 .. Len(txrq) + 1
    BY <2>1, AppendFacts DEF TypeOK
  <2>3. \A i \in DOMAIN txrq : txrq[i] \in Clients /\ txrq[i] # c
    BY <2>1, ElementOfSeq DEF TypeOK
  <2> DEFINE after == /\ pc'[c] = "waiting" /\ promise'[c] = 0
                      /\ \A d \in Clients : d # c => pc'[d] = pc[d] /\ promise'[d] = promise[d]
  <2>10. after
    BY <2>1 DEF TypeOK
  <2>4. \A i \in DOMAIN txrq' : pc'[txrq'[i]] = "waiting" /\ promise'[txrq'[i]] = 0
    BY <2>2, <2>3, <2>10
  <2>5. \A i, j \in DOMAIN txrq' : txrq'[i] = txrq'[j] => i = j
    BY <2>2, <2>3
  <2>6. (tm \in {"prepare", "vote"} =>
          /\ cur \in Clients /\ pc[cur] = "waiting" /\ promise[cur] = 0
          /\ \A i \in DOMAIN txrq : txrq[i] # cur)'
    <3> SUFFICES ASSUME tm \in {"prepare", "vote"}
                 PROVE  /\ cur \in Clients /\ pc'[cur] = "waiting" /\ promise'[cur] = 0
                        /\ \A i \in DOMAIN txrq' : txrq'[i] # cur
      BY <2>1
    <3>1. cur # c
      BY <2>1
    <3> QED
      BY <2>2, <2>10, <3>1
  <2>7. \A d \in Clients : pc'[d] = "waiting" => Len(tx'[d]) = TxSize
    BY <2>1 DEF TypeOK
  <2>8. \A d \in Clients : promise'[d] # 0 => pc'[d] = "waiting"
    BY <2>1 DEF TypeOK
  <2> QED
    BY <2>4, <2>5, <2>6, <2>7, <2>8
<1>3. CASE ReceiveDecision(c)
  <2>1. /\ promise[c] # 0
        /\ pc' = [pc EXCEPT ![c] = "bidding"]
        /\ promise' = [promise EXCEPT ![c] = 0]
        /\ tx' = [tx EXCEPT ![c] = <<>>]
        /\ UNCHANGED <<txrq, tm, cur>>
    BY <1>3 DEF ReceiveDecision, tmVars
  <2>2. \A i \in DOMAIN txrq : txrq[i] \in Clients /\ txrq[i] # c
    BY <2>1, ElementOfSeq DEF TypeOK
  <2> QED
    BY <2>1, <2>2 DEF TypeOK
<1> QED
  BY <1>1, <1>2, <1>3 DEF ClientThread

LEMMA TMQueueInv ==
  ASSUME TypeOK, QueueInv, TMThread
  PROVE  QueueInv'
<1> USE DEF QueueInv
<1>1. CASE TakeRequest
  <2>1. /\ cur' = Head(txrq) /\ txrq' = Tail(txrq) /\ txrq # <<>>
        /\ UNCHANGED <<pc, tx, promise>>
    BY <1>1 DEF TakeRequest, clientVars
  <2>2. /\ Len(txrq) \in Nat \ {0} /\ DOMAIN txrq = 1 .. Len(txrq)
        /\ Head(txrq) = txrq[1] /\ Head(txrq) \in Clients
        /\ DOMAIN txrq' = 1 .. Len(txrq) - 1
        /\ \A i \in 1 .. Len(txrq) - 1 : txrq'[i] = txrq[i + 1]
    BY <2>1, TailFacts DEF TypeOK
  <2>3. \A i \in DOMAIN txrq' : i + 1 \in DOMAIN txrq /\ txrq'[i] = txrq[i + 1]
    BY <2>2
  <2>4. \A i, j \in DOMAIN txrq' : txrq'[i] = txrq'[j] => i = j
    BY <2>2, <2>3
  <2>5. cur' \in Clients /\ pc'[cur'] = "waiting" /\ promise'[cur'] = 0
    BY <2>1, <2>2
  <2>6. \A i \in DOMAIN txrq' : txrq'[i] # cur'
    BY <2>1, <2>2
  <2> QED
    BY <2>1, <2>3, <2>4, <2>5, <2>6
<1>2. CASE Decide
  <2>1. \A i \in DOMAIN txrq : txrq[i] \in Clients
    BY ElementOfSeq DEF TypeOK
  <2>2. tm = "prepare" /\ UNCHANGED <<pc, tx, txrq, cur>>
        /\ promise' = [promise EXCEPT ![cur] = IF final_decision THEN 1 ELSE -1]
        /\ tm' \notin {"prepare", "vote"}
    BY <1>2 DEF Decide, clientVars
  <2> QED
    BY <2>1, <2>2 DEF TypeOK
<1>3. CASE Connect \/ SendTX \/ ReceiveVote \/ SendCommitAbort \/ ReceiveSignal
  <2>1. UNCHANGED <<pc, tx, txrq, cur, promise>>
    BY <1>3 DEF Connect, SendTX, ReceiveVote, SendCommitAbort, ReceiveSignal, clientVars
  <2>2. tm' \in {"prepare", "vote"} => tm \in {"prepare", "vote"}
    BY <1>3 DEF Connect, SendTX, ReceiveVote, SendCommitAbort, ReceiveSignal
  <2> QED
    BY <2>1, <2>2
<1> QED
  BY <1>1, <1>2, <1>3 DEF TMThread

LEMMA NextQueueInv == IInv /\ [Next]_vars => QueueInv'
<1> SUFFICES ASSUME IInv, [Next]_vars PROVE QueueInv'
  OBVIOUS
<1>1. CASE UNCHANGED vars \/ \E r \in RMSet : RMThread(r)
  <2>1. UNCHANGED <<pc, tx, txrq, cur, promise, tm>>
    BY <1>1, RMStepUnchanged DEF vars, clientVars, tmVars
  <2> QED
    BY <2>1 DEF IInv, QueueInv
<1> QED
  BY <1>1, ClientQueueInv, TMQueueInv DEF IInv, Next, Finished

\* The RM the TM connects to next is not connected yet.
LEMMA ConnectStep ==
  ASSUME TypeOK, ConnectInv, Connect,
         rm_connections' # rm_connections
  PROVE  /\ tmi \in DOMAIN RMs /\ RMs[tmi] \in RMSet \ Connected
         /\ rm_connections' = Append(rm_connections, RMs[tmi])
         /\ tm = "connect" /\ tm' = "connect" /\ tmi' = tmi + 1 /\ ledger = <<>>
<1>1. /\ tmi <= Len(RMs) /\ rm_connections' = Append(rm_connections, RMs[tmi])
      /\ tm = "connect" /\ tm' = "connect" /\ tmi' = tmi + 1
  BY DEF Connect, Reach
<1>2. tmi \in DOMAIN RMs /\ RMs[tmi] \in RMSet
  BY <1>1, RMAssumption, LenProperties, ElementOfSeq DEF TypeOK
<1>3. ASSUME NEW i \in DOMAIN rm_connections PROVE RM(i) # RMs[tmi]
  <2>1. PICK j \in 1 .. tmi - 1 : j \in DOMAIN RMs /\ RM(i) = RMs[j]
    BY <1>1 DEF ConnectInv
  <2>2. j # tmi
    BY DEF TypeOK
  <2> QED
    BY <2>1, <2>2, <1>2, RMAssumption
<1> QED
  BY <1>1, <1>2, <1>3 DEF Connected, ConnectInv

\* The TM never connects to an RM twice.
LEMMA NextConnectInv == IInv /\ [Next]_vars => ConnectInv'
<1> SUFFICES ASSUME IInv, [Next]_vars PROVE ConnectInv'
  OBVIOUS
<1> USE DEF ConnectInv
<1>1. CASE UNCHANGED <<rm_connections, tm, ledger, tmi>>
  BY <1>1 DEF IInv, RM
<1>2. CASE Connect
  <2>1. CASE rm_connections' # rm_connections
    <3>1. /\ tmi \in DOMAIN RMs /\ RMs[tmi] \in RMSet \ Connected
          /\ rm_connections' = Append(rm_connections, RMs[tmi])
          /\ tm = "connect" /\ tmi' = tmi + 1 /\ ledger = <<>>
      BY <1>2, <2>1, ConnectStep DEF IInv
    <3>2. /\ DOMAIN rm_connections = 1 .. Len(rm_connections)
          /\ DOMAIN rm_connections' = 1 .. Len(rm_connections) + 1
          /\ \A i \in 1 .. Len(rm_connections) : rm_connections'[i] = rm_connections[i]
          /\ rm_connections'[Len(rm_connections) + 1] = RMs[tmi]
          /\ Len(rm_connections) \in Nat /\ tmi \in Nat \ {0}
      BY <3>1, AppendFacts DEF IInv, TypeOK
    <3>3. \A i \in DOMAIN rm_connections : rm_connections[i] # RMs[tmi]
      BY <3>1 DEF Connected, RM
    <3>4. (\A i, j \in DOMAIN rm_connections : RM(i) = RM(j) => i = j)'
      BY <3>2, <3>3 DEF IInv, RM
    <3>5. ASSUME NEW i \in DOMAIN rm_connections'
          PROVE  \E j \in 1 .. tmi' - 1 : j \in DOMAIN RMs /\ rm_connections'[i] = RMs[j]
      <4>1. CASE i \in DOMAIN rm_connections
        <5>1. PICK j \in 1 .. tmi - 1 : j \in DOMAIN RMs /\ rm_connections[i] = RMs[j]
          BY <3>1, <4>1 DEF IInv, RM
        <5>2. j \in 1 .. tmi' - 1
          BY <3>1, <3>2
        <5> QED
          BY <3>2, <4>1, <5>1, <5>2
      <4>2. CASE i = Len(rm_connections) + 1
        <5>1. tmi \in 1 .. tmi' - 1
          BY <3>1, <3>2
        <5> QED
          BY <3>1, <3>2, <4>2, <5>1
      <4> QED
        BY <3>2, <4>1, <4>2
    <3>6. ledger' = <<>>
      BY <1>2, <3>1 DEF Connect
    <3> QED
      BY <3>4, <3>5, <3>6 DEF RM
  <2>2. CASE rm_connections' = rm_connections
    <3>1. ledger' = ledger /\ tm = "connect" /\ (tmi' = tmi \/ tmi' = tmi + 1) /\ tmi \in Nat
      BY <1>2 DEF Connect, IInv, TypeOK
    <3>2. \A j \in 1 .. tmi - 1 : j \in 1 .. tmi' - 1
      BY <3>1
    <3> QED
      BY <2>2, <3>1, <3>2 DEF IInv, RM
  <2> QED
    BY <2>1, <2>2
<1>3. CASE TMThread /\ ~Connect
  <2>1. rm_connections' = rm_connections /\ tm' # "connect"
    BY <1>3 DEF TMThread, TakeRequest, SendTX, ReceiveVote, Decide, SendCommitAbort, ReceiveSignal
  <2> QED
    BY <2>1 DEF IInv, RM
<1> QED
  BY <1>1, <1>2, <1>3, ClientStepUnchanged, RMStepUnchanged
  DEF Next, Finished, vars, tmVars

\* What a step of the TM appends to the ledger.
LEMMA DecideAppends ==
  ASSUME TypeOK, QueueInv, Decide
  PROVE  /\ Len(ledger) \in Nat
         /\ DOMAIN ledger = 1 .. Len(ledger) /\ DOMAIN ledger' = 1 .. Len(ledger) + 1
         /\ Len(ledger') = Len(ledger) + 1
         /\ \A n \in 1 .. Len(ledger) : ledger'[n] = ledger[n]
         /\ ledger'[Len(ledger) + 1] = [customer_id |-> cur, reads |-> tx[cur],
                                        commit |-> final_decision]
<1> DEFINE l == [customer_id |-> cur, reads |-> tx[cur], commit |-> final_decision]
           S == [customer_id : Clients, reads : Seq(Reads), commit : BOOLEAN]
<1>1. ledger' = Append(ledger, l)
  BY DEF Decide
<1>2. ledger \in Seq(S)
  BY DEF TypeOK
<1>3. l \in S
  BY DEF TypeOK, QueueInv, Decide
<1> HIDE DEF l, S
<1> QED
  BY <1>1, <1>2, <1>3, AppendFacts DEF l

\* Every step keeps the TM's counters and history in agreement.
LEMMA NextTMInv == IInv /\ [Next]_vars => TMInv'
<1> SUFFICES ASSUME IInv, [Next]_vars PROVE TMInv'
  OBVIOUS
<1> USE DEF TMInv
<1>1. /\ TypeOK /\ TMInv /\ Len(rm_connections) \in Nat /\ tmi \in Nat \ {0}
      /\ Len(ledger) \in Nat /\ local_version \in Nat
  BY LenProperties DEF IInv, TypeOK
<1>2. CASE UNCHANGED <<rm_connections, tm, ledger, tmi, local_version, final_decision>>
  BY <1>1, <1>2
<1>3. CASE Connect
  <2>1. tm = "connect" /\ tm' \in {"connect", "idle"} /\ UNCHANGED <<ledger, local_version>>
    BY <1>3 DEF Connect
  <2> QED
    BY <1>1, <2>1
<1>4. CASE TakeRequest
  BY <1>1, <1>4 DEF TakeRequest
<1>5. CASE SendTX
  BY <1>1, <1>5 DEF SendTX
<1>6. CASE ReceiveVote
  BY <1>1, <1>6 DEF ReceiveVote
<1>7. CASE Decide
  <2>1. /\ tm = "prepare" /\ tmi' = 1 /\ tm' = IF rm_connections = <<>> THEN "idle" ELSE "finish"
        /\ UNCHANGED <<rm_connections, local_version, final_decision>>
    BY <1>7 DEF Decide
  <2>2. rm_connections # <<>> => 1 <= Len(rm_connections)
    BY <1>1, EmptySeq DEF TypeOK
  <2>3. Len(tx[cur]) = TxSize
    BY <2>1 DEF IInv, QueueInv
  <2>4. /\ Len(ledger') = Len(ledger) + 1 /\ DOMAIN ledger = 1 .. Len(ledger)
        /\ DOMAIN ledger' = 1 .. Len(ledger) + 1
        /\ \A n \in 1 .. Len(ledger) : ledger'[n] = ledger[n]
        /\ ledger'[Len(ledger) + 1].reads = tx[cur]
        /\ ledger'[Len(ledger) + 1].commit = final_decision
    BY <1>7, DecideAppends DEF IInv
  <2>5. ASSUME NEW n \in DOMAIN ledger' PROVE Len(ledger'[n].reads) = TxSize
    <3>1. CASE n = Len(ledger) + 1
      BY <2>3, <2>4, <3>1
    <3>2. CASE n \in DOMAIN ledger
      BY <1>1, <2>4, <3>2
    <3>3. n \in 1 .. Len(ledger) + 1 /\ Len(ledger) \in Nat
      BY <1>1, <2>4
    <3>4. n = Len(ledger) + 1 \/ n \in DOMAIN ledger
      BY <2>4, <3>3
    <3> QED
      BY <3>1, <3>2, <3>4
  <2> QED
    BY <1>1, <2>1, <2>2, <2>4, <2>5
<1>8. CASE SendCommitAbort
  BY <1>1, <1>8 DEF SendCommitAbort
<1>9. CASE ReceiveSignal
  <2>1. /\ tm = "ack" /\ UNCHANGED <<rm_connections, ledger, local_version, final_decision>>
        /\ \/ tmi < Len(rm_connections) /\ tm' = "finish" /\ tmi' = tmi + 1
           \/ tm' = "idle"
    BY <1>9 DEF ReceiveSignal
  <2> QED
    BY <1>1, <2>1
<1> QED
  BY <1>2, <1>3, <1>4, <1>5, <1>6, <1>7, <1>8, <1>9, ClientStepUnchanged, RMStepUnchanged
  DEF Next, Finished, TMThread, vars, tmVars

-----------------------------------------------------------------------------
(* The connections between the TM and the RMs.                             *)

\* The customer whose request is in work keeps its transaction.
LEMMA ClientTX ==
  ASSUME TypeOK, QueueInv, NEW c \in Clients, ClientThread(c), tm \in {"prepare", "vote"}
  PROVE  tx'[cur] = tx[cur]
<1>1. cur \in Clients /\ pc[cur] = "waiting" /\ promise[cur] = 0
  BY DEF QueueInv
<1>2. c # cur \/ tx' = tx
  BY <1>1 DEF ClientThread, SendRead, SendToTXThread, ReceiveDecision
<1>3. \A d \in Clients : d # c => tx'[d] = tx[d]
  BY DEF ClientThread, SendRead, SendToTXThread, ReceiveDecision, TypeOK
<1> QED
  BY <1>1, <1>2, <1>3

\* Decided transactions, and the current one, stay as they are.
LEMMA TransStable ==
  ASSUME IInv, [Next]_vars, NEW n \in 1 .. Len(ledger) + 1,
         n <= Len(ledger) \/ tm \in {"prepare", "vote"}
  PROVE  /\ Trans(n)' = Trans(n)
         /\ n <= Len(ledger) => ledger'[n] = ledger[n]
<1>1. Len(ledger) \in Nat /\ n \in Nat
  BY LenProperties DEF IInv, TypeOK
<1>2. CASE ledger' = ledger
  <2>1. tm \in {"prepare", "vote"} => cur' = cur /\ tx'[cur] = tx[cur]
    <3>1. CASE UNCHANGED <<cur, tx>>
      BY <3>1
    <3>2. CASE \E c \in Clients : ClientThread(c)
      BY <3>2, ClientTX, ClientStepUnchanged DEF IInv
    <3>3. CASE TMThread
      <4>1. tx' = tx
        BY <3>3 DEF TMThread, Connect, TakeRequest, SendTX, ReceiveVote, Decide,
                    SendCommitAbort, ReceiveSignal, clientVars
      <4>2. cur' = cur \/ tm = "idle"
        BY <3>3 DEF TMThread, Connect, TakeRequest, SendTX, ReceiveVote, Decide,
                    SendCommitAbort, ReceiveSignal
      <4> QED
        BY <4>1, <4>2
    <3> QED
      BY <3>1, <3>2, <3>3, RMStepUnchanged DEF Next, Finished, vars, clientVars, tmVars
  <2> QED
    BY <1>1, <1>2, <2>1 DEF Trans
<1>3. CASE Decide
  <2>1. /\ Len(ledger') = Len(ledger) + 1
        /\ \A k \in 1 .. Len(ledger) : ledger'[k] = ledger[k]
        /\ ledger'[Len(ledger) + 1] = [customer_id |-> cur, reads |-> tx[cur],
                                       commit |-> final_decision]
    BY <1>3, DecideAppends DEF IInv
  <2>2. CASE n <= Len(ledger)
    <3>1. ledger'[n] = ledger[n] /\ n <= Len(ledger')
      BY <1>1, <2>1, <2>2
    <3> QED
      BY <2>2, <3>1 DEF Trans
  <2>3. CASE n = Len(ledger) + 1
    <3>1. n <= Len(ledger') /\ ~ (n <= Len(ledger))
      BY <1>1, <2>1, <2>3
    <3>2. ledger'[n].customer_id = cur /\ ledger'[n].reads = tx[cur]
      BY <2>1, <2>3
    <3> QED
      BY <3>1, <3>2 DEF Trans
  <2> QED
    BY <1>1, <2>2, <2>3
<1> QED
  BY <1>2, <1>3, RMStepUnchanged, ClientStepUnchanged
  DEF Next, Finished, TMThread, Connect, TakeRequest, SendTX, ReceiveVote,
      SendCommitAbort, ReceiveSignal, vars

\* A request that was sent stays the request of its number.
LEMMA RequestStable ==
  ASSUME IInv, [Next]_vars, NEW i \in DOMAIN rm_connections,
         NEW m \in 1 .. RequestsSent(i)
  PROVE  Request(m)' = Request(m)
<1>1. /\ Len(ledger) \in Nat /\ RequestsSent(i) \in Nat
      /\ RequestsSent(i) <= 2 * Len(ledger) + 1
  BY TMCounts DEF IInv
<1>2. m = 2 * Len(ledger) + 1 => tm \in {"prepare", "vote"}
  BY <1>1 DEF RequestsSent
<1>3. m \in Nat /\ m >= 1 /\ m <= 2 * Len(ledger) + 1
  BY <1>1
<1>4. CASE m % 2 = 1
  <2>1. (m + 1) \div 2 \in 1 .. Len(ledger) + 1
    BY <1>1, <1>3, <1>4
  <2>2. (m + 1) \div 2 <= Len(ledger) \/ m = 2 * Len(ledger) + 1
    BY <1>1, <1>3, <1>4
  <2>3. Trans((m + 1) \div 2)' = Trans((m + 1) \div 2)
    BY <1>2, <2>1, <2>2, TransStable
  <2> QED
    BY <1>4, <2>3 DEF Request
<1>5. CASE m % 2 # 1
  <2>1. m \div 2 \in 1 .. Len(ledger) + 1 /\ m \div 2 <= Len(ledger)
    BY <1>1, <1>3, <1>5
  <2>2. ledger'[m \div 2] = ledger[m \div 2]
    BY <2>1, TransStable
  <2> QED
    BY <1>5, <2>2 DEF Request
<1> QED
  BY <1>4, <1>5

\* What an RM has voted on is a transaction of the TM.
LEMMA VotedStable ==
  ASSUME IInv, [Next]_vars, NEW r \in RMSet, NEW i \in DOMAIN rm_connections,
         Pipe(i, r), NEW v, v = Len(votes[r]), v > 0
  PROVE  Trans(v)' = Trans(v)
<1>1. /\ Len(ledger) \in Nat /\ RequestsSent(i) \in Nat
      /\ RequestsSent(i) <= 2 * Len(ledger) + 1
  BY TMCounts DEF IInv
<1>2. v \in Nat /\ applied[r] \in Nat /\ Len(toRM[r]) \in Nat /\ v <= applied[r] + 1
  BY RMCounts DEF IInv, Pipe, TurnInv
<1>3. 2 * v - 1 <= RequestsTaken(r) /\ RequestsTaken(r) <= RequestsSent(i)
  BY <1>1, <1>2, RMCounts DEF IInv, Pipe, DownInv, RequestsTaken
<1>4. RequestsSent(i) = 2 * Len(ledger) + 1 => tm \in {"prepare", "vote"}
  BY <1>1 DEF RequestsSent
<1>5. 2 * v - 1 <= RequestsSent(i)
  BY <1>1, <1>2, <1>3, RMCounts DEF IInv
<1>6. v \in 1 .. Len(ledger) + 1
  BY <1>1, <1>2, <1>5
<1>7. v <= Len(ledger) \/ RequestsSent(i) = 2 * Len(ledger) + 1
  BY <1>1, <1>2, <1>5
<1> QED
  BY <1>4, <1>6, <1>7, TransStable

\* The words of an RM stay as they are when it votes again.
LEMMA WordStable ==
  ASSUME TypeOK, NEW r \in RMSet, NEW i, Pipe(i, r), NEW m \in 1 .. WordsSent(r),
         \A n \in DOMAIN votes[r] : votes'[r][n] = votes[r][n]
  PROVE  Word(r, m)' = Word(r, m)
<1>1. /\ Len(votes[r]) \in Nat /\ applied[r] \in Nat /\ applied[r] <= Len(votes[r])
      /\ DOMAIN votes[r] = 1 .. Len(votes[r])
  BY RMCounts DEF Pipe, TurnInv
<1>2. m \in Nat /\ m >= 1 /\ m <= 3 * Len(votes[r])
  BY <1>1 DEF WordsSent
<1>3. m % 3 = 2 => (m + 1) \div 3 \in DOMAIN votes[r]
  BY <1>1, <1>2
<1> QED
  BY <1>3 DEF Word

\* What was heard has been read, and what was read has been sent.
LEMMA HeardRead ==
  ASSUME TypeOK, TMInv, NEW r \in RMSet, NEW i \in DOMAIN rm_connections, Pipe(i, r),
         NEW n \in DOMAIN heard[r]
  PROVE  n \in Nat /\ 2 * n - 1 \in 1 .. WordsRead(i) /\ 2 * n - 1 \in 1 .. WordsSent(r)
<1>1. /\ Len(ledger) \in Nat /\ WordsRead(i) \in Nat /\ WordsSent(r) \in Nat
      /\ Len(fromRM[r]) \in Nat /\ n \in 1 .. Len(heard[r])
      /\ Len(heard[r]) \in Nat
  BY RMCounts, TMCounts
<1>2. Len(heard[r]) = DecisionsHeard(i) /\ WordsRead(i) <= WordsSent(r)
  BY <1>1 DEF Pipe, HeardInv, UpInv
<1>3. 2 * DecisionsHeard(i) - 1 <= WordsRead(i)
  <2>1. CASE tm \in {"prepare", "vote"} /\ i < tmi
    BY <1>1, <2>1 DEF DecisionsHeard, WordsRead
  <2>2. CASE ~ (tm \in {"prepare", "vote"} /\ i < tmi)
    BY <1>1, <2>2, TMCounts DEF DecisionsHeard
  <2> QED
    BY <2>1, <2>2
<1> QED
  BY <1>1, <1>2, <1>3

\* The four parts of Pipe, after a step that ... leaves the requests alone,
LEMMA DownSame ==
  ASSUME IInv, [Next]_vars, NEW r \in RMSet, NEW i \in DOMAIN rm_connections, Pipe(i, r),
         toRM'[r] = toRM[r], RequestsTaken(r)' = RequestsTaken(r),
         RequestsSent(i)' = RequestsSent(i)
  PROVE  DownInv(i, r)'
<1>1. ASSUME NEW k \in DOMAIN toRM[r]
      PROVE  RequestsTaken(r) + k \in 1 .. RequestsSent(i)
  BY RMCounts, TMCounts DEF IInv, Pipe, DownInv
<1> QED
  BY <1>1, RequestStable DEF Pipe, DownInv

\* ... takes one,
LEMMA DownTaken ==
  ASSUME IInv, [Next]_vars, NEW r \in RMSet, NEW i \in DOMAIN rm_connections, Pipe(i, r),
         toRM[r] # <<>>, toRM'[r] = Tail(toRM[r]),
         RequestsTaken(r)' = RequestsTaken(r) + 1, RequestsSent(i)' = RequestsSent(i)
  PROVE  DownInv(i, r)'
<1>1. PICK R \in Nat : R = RequestsTaken(r)
  BY RMCounts DEF IInv
<1>2. RequestsSent(i) \in Nat
  BY TMCounts DEF IInv
<1>3. /\ Len(toRM[r]) \in Nat \ {0} /\ Len(toRM'[r]) = Len(toRM[r]) - 1
      /\ DOMAIN toRM[r] = 1 .. Len(toRM[r]) /\ DOMAIN toRM'[r] = 1 .. Len(toRM[r]) - 1
      /\ \A k \in 1 .. Len(toRM[r]) - 1 : toRM'[r][k] = toRM[r][k + 1]
  BY TailFacts DEF IInv, TypeOK
<1>4. R + Len(toRM[r]) = RequestsSent(i) /\ RequestsTaken(r)' = R + 1
  BY <1>1 DEF Pipe, DownInv
<1>5. ASSUME NEW k \in DOMAIN toRM'[r]
      PROVE  toRM'[r][k] = Request(RequestsTaken(r) + k)'
  <2>1. k \in 1 .. Len(toRM[r]) - 1 /\ k + 1 \in DOMAIN toRM[r]
    BY <1>3
  <2>2. toRM'[r][k] = Request(R + (k + 1))
    BY <1>1, <1>3, <2>1 DEF Pipe, DownInv
  <2>3. k \in Nat /\ k >= 1 /\ k + 1 <= Len(toRM[r]) /\ Len(toRM[r]) \in Nat
    BY <1>3, <2>1
  <2>4. R + (k + 1) \in 1 .. RequestsSent(i)
    BY <1>1, <1>4, <2>3
  <2>5. R + (k + 1) = RequestsTaken(r)' + k
    BY <1>1, <1>4, <2>3
  <2> QED
    BY <2>2, <2>4, <2>5, RequestStable
<1>6. RequestsTaken(r)' + Len(toRM'[r]) = RequestsSent(i)'
  BY <1>1, <1>2, <1>3, <1>4
<1> QED
  BY <1>5, <1>6 DEF DownInv

\* ... sends one;
LEMMA DownSent ==
  ASSUME IInv, [Next]_vars, NEW r \in RMSet, NEW i \in DOMAIN rm_connections, Pipe(i, r),
         NEW e \in Requests, toRM'[r] = Append(toRM[r], e),
         NEW m, m = RequestsSent(i) + 1, e = Request(m)',
         RequestsTaken(r)' = RequestsTaken(r), RequestsSent(i)' = RequestsSent(i) + 1
  PROVE  DownInv(i, r)'
<1>1. PICK R \in Nat : R = RequestsTaken(r)
  BY RMCounts DEF IInv
<1>2. RequestsSent(i) \in Nat
  BY TMCounts DEF IInv
<1>3. /\ Len(toRM[r]) \in Nat /\ Len(toRM'[r]) = Len(toRM[r]) + 1
      /\ DOMAIN toRM[r] = 1 .. Len(toRM[r]) /\ DOMAIN toRM'[r] = 1 .. Len(toRM[r]) + 1
      /\ \A k \in 1 .. Len(toRM[r]) : toRM'[r][k] = toRM[r][k]
      /\ toRM'[r][Len(toRM[r]) + 1] = e
  BY AppendFacts DEF IInv, TypeOK
<1>4. R + Len(toRM[r]) = RequestsSent(i) /\ RequestsTaken(r)' = R
  BY <1>1 DEF Pipe, DownInv
<1>5. ASSUME NEW k \in DOMAIN toRM'[r]
      PROVE  toRM'[r][k] = Request(RequestsTaken(r) + k)'
  <2>1. CASE k = Len(toRM[r]) + 1
    <3>1. RequestsTaken(r)' + k = m
      BY <1>1, <1>2, <1>3, <1>4, <2>1
    <3> QED
      BY <1>3, <2>1, <3>1
  <2>2. CASE k \in DOMAIN toRM[r]
    <3>1. toRM'[r][k] = Request(R + k)
      BY <1>1, <1>3, <2>2 DEF Pipe, DownInv
    <3>2. k \in Nat /\ k >= 1 /\ k <= Len(toRM[r]) /\ Len(toRM[r]) \in Nat
      BY <1>3, <2>2
    <3>3. R + k \in 1 .. RequestsSent(i)
      BY <1>1, <1>4, <3>2
    <3> QED
      BY <1>4, <3>1, <3>3, RequestStable
  <2>3. k \in 1 .. Len(toRM[r]) + 1 /\ Len(toRM[r]) \in Nat
    BY <1>3
  <2>4. k = Len(toRM[r]) + 1 \/ k \in DOMAIN toRM[r]
    BY <1>3, <2>3
  <2> QED
    BY <2>1, <2>2, <2>4
<1>6. RequestsTaken(r)' + Len(toRM'[r]) = RequestsSent(i)'
  BY <1>1, <1>2, <1>3, <1>4
<1> QED
  BY <1>5, <1>6 DEF DownInv

\* ... leaves the words alone,
LEMMA UpSame ==
  ASSUME IInv, [Next]_vars, NEW r \in RMSet, NEW i \in DOMAIN rm_connections, Pipe(i, r),
         fromRM'[r] = fromRM[r], votes'[r] = votes[r],
         WordsSent(r)' = WordsSent(r), WordsRead(i)' = WordsRead(i)
  PROVE  UpInv(i, r)'
<1>1. ASSUME NEW k \in DOMAIN fromRM[r]
      PROVE  WordsRead(i) + k \in 1 .. WordsSent(r)
  BY RMCounts, TMCounts DEF IInv, Pipe, UpInv
<1> QED
  BY <1>1, WordStable DEF IInv, Pipe, UpInv

\* ... reads one;
LEMMA UpRead ==
  ASSUME IInv, [Next]_vars, NEW r \in RMSet, NEW i \in DOMAIN rm_connections, Pipe(i, r),
         fromRM[r] # <<>>, fromRM'[r] = Tail(fromRM[r]), votes'[r] = votes[r],
         WordsSent(r)' = WordsSent(r), WordsRead(i)' = WordsRead(i) + 1
  PROVE  UpInv(i, r)'
<1>1. PICK R \in Nat : R = WordsRead(i)
  BY TMCounts DEF IInv
<1>2. WordsSent(r) \in Nat
  BY RMCounts DEF IInv
<1>3. /\ Len(fromRM[r]) \in Nat \ {0} /\ Len(fromRM'[r]) = Len(fromRM[r]) - 1
      /\ DOMAIN fromRM[r] = 1 .. Len(fromRM[r]) /\ DOMAIN fromRM'[r] = 1 .. Len(fromRM[r]) - 1
      /\ \A k \in 1 .. Len(fromRM[r]) - 1 : fromRM'[r][k] = fromRM[r][k + 1]
  BY TailFacts DEF IInv, TypeOK
<1>4. R + Len(fromRM[r]) = WordsSent(r) /\ WordsRead(i)' = R + 1
  BY <1>1 DEF Pipe, UpInv
<1>5. ASSUME NEW k \in DOMAIN fromRM'[r]
      PROVE  fromRM'[r][k] = Word(r, WordsRead(i) + k)'
  <2>1. k \in 1 .. Len(fromRM[r]) - 1 /\ k + 1 \in DOMAIN fromRM[r]
    BY <1>3
  <2>2. fromRM'[r][k] = Word(r, R + (k + 1))
    BY <1>1, <1>3, <2>1 DEF Pipe, UpInv
  <2>3. k \in Nat /\ k >= 1 /\ k + 1 <= Len(fromRM[r]) /\ Len(fromRM[r]) \in Nat
    BY <1>3, <2>1
  <2>4. R + (k + 1) \in 1 .. WordsSent(r)
    BY <1>1, <1>4, <2>3
  <2>5. R + (k + 1) = WordsRead(i)' + k
    BY <1>1, <1>4, <2>3
  <2> QED
    BY <2>2, <2>4, <2>5, WordStable DEF IInv
<1>6. WordsRead(i)' + Len(fromRM'[r]) = WordsSent(r)'
  BY <1>1, <1>2, <1>3, <1>4
<1> QED
  BY <1>5, <1>6 DEF UpInv

\* ... hears nothing,
LEMMA HeardSame ==
  ASSUME IInv, [Next]_vars, NEW r \in RMSet, NEW i \in DOMAIN rm_connections, Pipe(i, r),
         heard'[r] = heard[r], \A n \in DOMAIN votes[r] : votes'[r][n] = votes[r][n],
         DecisionsHeard(i)' = DecisionsHeard(i)
  PROVE  HeardInv(i, r)'
<1>1. \A n \in DOMAIN heard[r] : n \in Nat /\ 2 * n - 1 \in 1 .. WordsSent(r)
  BY HeardRead DEF IInv
<1> QED
  BY <1>1, WordStable DEF IInv, Pipe, HeardInv

\* ... or touches nothing of it.
LEMMA PipeStable ==
  ASSUME IInv, [Next]_vars, NEW r \in RMSet, NEW i \in DOMAIN rm_connections, Pipe(i, r),
         toRM'[r] = toRM[r], fromRM'[r] = fromRM[r], heard'[r] = heard[r],
         votes'[r] = votes[r], applied'[r] = applied[r], rm'[r] = rm[r],
         local_tx'[r] = local_tx[r],
         RequestsSent(i)' = RequestsSent(i), WordsRead(i)' = WordsRead(i),
         DecisionsHeard(i)' = DecisionsHeard(i)
  PROVE  Pipe(i, r)'
<1>1. RequestsTaken(r)' = RequestsTaken(r) /\ WordsSent(r)' = WordsSent(r)
  BY DEF RequestsTaken, WordsSent
<1>2. TurnInv(r)'
  BY VotedStable DEF Pipe, TurnInv
<1> QED
  BY <1>1, <1>2, DownSame, UpSame, HeardSame DEF Pipe

\* What the steps of the TM add to its counts.
LEMMA SameCounts ==
  ASSUME UNCHANGED <<ledger, tm, tmi>>, NEW i
  PROVE  /\ RequestsSent(i)' = RequestsSent(i) /\ WordsRead(i)' = WordsRead(i)
         /\ DecisionsHeard(i)' = DecisionsHeard(i)
BY DEF RequestsSent, WordsRead, DecisionsHeard

\* SendTX counts one request more on the connection at hand,
LEMMA SendTXCounts ==
  ASSUME TypeOK, TMInv, SendTX, NEW i \in DOMAIN rm_connections
  PROVE  /\ RequestsSent(i)' = IF i = tmi THEN RequestsSent(i) + 1 ELSE RequestsSent(i)
         /\ WordsRead(i)' = WordsRead(i) /\ DecisionsHeard(i)' = DecisionsHeard(i)
         /\ i = tmi => RequestsSent(i) = 2 * Len(ledger)
<1>1. i \in Nat /\ tmi \in Nat /\ Len(ledger) \in Nat
  BY ConnectionIsRM, LenProperties DEF TypeOK
<1>2. tm = "prepare" /\ tm' = "vote" /\ ledger' = ledger /\ tmi' = tmi
  BY DEF SendTX
<1> QED
  BY <1>1, <1>2 DEF RequestsSent, WordsRead, DecisionsHeard

\* the answer counts one word, heard as a decision,
LEMMA ReceiveVoteCounts ==
  ASSUME TypeOK, TMInv, ReceiveVote, NEW i \in DOMAIN rm_connections
  PROVE  /\ RequestsSent(i)' = RequestsSent(i)
         /\ WordsRead(i)' = IF i = tmi THEN WordsRead(i) + 1 ELSE WordsRead(i)
         /\ DecisionsHeard(i)' = IF i = tmi THEN DecisionsHeard(i) + 1 ELSE DecisionsHeard(i)
         /\ i = tmi => WordsRead(i) = 2 * Len(ledger) /\ DecisionsHeard(i) = Len(ledger)
<1>1. i \in Nat /\ tmi \in Nat /\ Len(ledger) \in Nat
  BY ConnectionIsRM, LenProperties DEF TypeOK
<1>2. tm = "vote" /\ tm' = "prepare" /\ ledger' = ledger /\ tmi' = tmi + 1
  BY DEF ReceiveVote
<1> QED
  BY <1>1, <1>2 DEF RequestsSent, WordsRead, DecisionsHeard

\* SendCommitAbort counts one request,
LEMMA SendCommitAbortCounts ==
  ASSUME TypeOK, TMInv, SendCommitAbort, NEW i \in DOMAIN rm_connections
  PROVE  /\ RequestsSent(i)' = IF i = tmi THEN RequestsSent(i) + 1 ELSE RequestsSent(i)
         /\ WordsRead(i)' = WordsRead(i) /\ DecisionsHeard(i)' = DecisionsHeard(i)
         /\ i = tmi => RequestsSent(i) = 2 * Len(ledger) - 1
<1>1. i \in Nat /\ tmi \in Nat /\ Len(ledger) \in Nat
  BY ConnectionIsRM, LenProperties DEF TypeOK
<1>2. tm = "finish" /\ tm' = "ack" /\ ledger' = ledger /\ tmi' = tmi
  BY DEF SendCommitAbort
<1> QED
  BY <1>1, <1>2 DEF RequestsSent, WordsRead, DecisionsHeard

\* the signal one word, heard as none,
LEMMA ReceiveSignalCounts ==
  ASSUME TypeOK, TMInv, ReceiveSignal, NEW i \in DOMAIN rm_connections
  PROVE  /\ RequestsSent(i)' = RequestsSent(i)
         /\ WordsRead(i)' = IF i = tmi THEN WordsRead(i) + 1 ELSE WordsRead(i)
         /\ DecisionsHeard(i)' = DecisionsHeard(i)
<1>1. /\ i \in Nat /\ tmi \in Nat /\ Len(ledger) \in Nat
      /\ i <= Len(rm_connections) /\ Len(rm_connections) \in Nat
  BY ConnectionIsRM, LenProperties DEF TypeOK
<1>2. /\ tm = "ack" /\ ledger' = ledger
      /\ \/ tmi < Len(rm_connections) /\ tm' = "finish" /\ tmi' = tmi + 1
         \/ ~ (tmi < Len(rm_connections)) /\ tm' = "idle" /\ tmi' = tmi
  BY DEF ReceiveSignal
<1> QED
  BY <1>1, <1>2 DEF RequestsSent, WordsRead, DecisionsHeard

\* and the rest of the TM counts nothing.
LEMMA OtherCounts ==
  ASSUME TypeOK, TMInv, QueueInv, Connect \/ TakeRequest \/ Decide,
         NEW i \in DOMAIN rm_connections
  PROVE  /\ RequestsSent(i)' = RequestsSent(i) /\ WordsRead(i)' = WordsRead(i)
         /\ DecisionsHeard(i)' = DecisionsHeard(i)
<1>1. /\ i \in Nat \ {0} /\ tmi \in Nat /\ Len(ledger) \in Nat
      /\ i <= Len(rm_connections) /\ Len(rm_connections) \in Nat
  BY ConnectionIsRM, LenProperties DEF TypeOK
<1>2. CASE Connect
  <2>1. tm = "connect" /\ tm' \in {"connect", "idle"} /\ ledger' = ledger
    BY <1>2 DEF Connect
  <2> QED
    BY <2>1 DEF RequestsSent, WordsRead, DecisionsHeard
<1>3. CASE TakeRequest
  <2>1. tm = "idle" /\ tm' = "prepare" /\ tmi' = 1 /\ ledger' = ledger
    BY <1>3 DEF TakeRequest
  <2> QED
    BY <1>1, <2>1 DEF RequestsSent, WordsRead, DecisionsHeard
<1>4. CASE Decide
  <2>1. tm = "prepare" /\ tm' = "finish" /\ tmi' = 1 /\ i < tmi
    <3>1. rm_connections # <<>>
      BY <1>1 DEF TypeOK
    <3> QED
      BY <1>1, <1>4, <3>1 DEF Decide
  <2>2. Len(ledger') = Len(ledger) + 1
    BY <1>4, DecideAppends
  <2> QED
    BY <1>1, <2>1, <2>2 DEF RequestsSent, WordsRead, DecisionsHeard
<1> QED
  BY <1>2, <1>3, <1>4

\* One RM per connection.
LEMMA OtherRM ==
  ASSUME TypeOK, ConnectInv, NEW i \in DOMAIN rm_connections,
         NEW j \in DOMAIN rm_connections, i # j
  PROVE  RM(i) # RM(j)
BY DEF ConnectInv

\* The RM in a step of the RMs, or of the TM, which waits for it.
LEMMA PrepareRequest ==
  ASSUME TypeOK, TMInv, NEW r \in RMSet, NEW i \in DOMAIN rm_connections, Pipe(i, r),
         Receives(r, "TX")
  PROVE  /\ Len(votes[r]) = applied[r] /\ RequestsTaken(r) = 2 * applied[r]
         /\ Head(toRM[r]).trans = Trans(applied[r] + 1)
<1>1. rm[r] = "idle" /\ toRM[r] # <<>> /\ Head(toRM[r]).type = "TX"
  BY DEF Receives
<1>2. /\ Head(toRM[r]) = toRM[r][1] /\ 1 \in DOMAIN toRM[r]
      /\ Len(toRM[r]) \in Nat
  BY <1>1, TailFacts DEF TypeOK
<1>3. Head(toRM[r]) = Request(RequestsTaken(r) + 1)
  BY <1>2 DEF Pipe, DownInv
<1>4. applied[r] \in Nat
  BY RMCounts
<1>5. CASE RequestsTaken(r) = 2 * applied[r] + 1
  <2>1. (RequestsTaken(r) + 1) % 2 # 1
    BY <1>4, <1>5
  <2> QED
    BY <1>1, <1>3, <2>1 DEF Request
<1>6. CASE Len(votes[r]) = applied[r] /\ RequestsTaken(r) = 2 * applied[r]
  <2>1. (RequestsTaken(r) + 1) % 2 = 1 /\ (RequestsTaken(r) + 1 + 1) \div 2 = applied[r] + 1
    BY <1>4, <1>6
  <2> QED
    BY <1>3, <1>6, <2>1 DEF Request
<1> QED
  BY <1>1, <1>5, <1>6, RequestsTakenIdle DEF Pipe

\* A decision that an RM takes is the one on the transaction it voted on last.
LEMMA CommitAbortRequest ==
  ASSUME TypeOK, TMInv, NEW r \in RMSet, NEW i \in DOMAIN rm_connections, Pipe(i, r),
         Receives(r, "TM_RM")
  PROVE  /\ Len(votes[r]) = applied[r] + 1 /\ RequestsTaken(r) = 2 * applied[r] + 1
         /\ SaysCommit(Head(toRM[r])) <=> ledger[applied[r] + 1].commit
<1>1. rm[r] = "idle" /\ toRM[r] # <<>> /\ Head(toRM[r]).type = "TM_RM"
  BY DEF Receives
<1>2. /\ Head(toRM[r]) = toRM[r][1] /\ 1 \in DOMAIN toRM[r]
      /\ Len(toRM[r]) \in Nat
  BY <1>1, TailFacts DEF TypeOK
<1>3. Head(toRM[r]) = Request(RequestsTaken(r) + 1)
  BY <1>2 DEF Pipe, DownInv
<1>4. applied[r] \in Nat
  BY RMCounts
<1>5. CASE RequestsTaken(r) = 2 * applied[r]
  <2>1. (RequestsTaken(r) + 1) % 2 = 1
    BY <1>4, <1>5
  <2> QED
    BY <1>1, <1>3, <2>1 DEF Request
<1>6. CASE Len(votes[r]) = applied[r] + 1 /\ RequestsTaken(r) = 2 * applied[r] + 1
  <2>1. (RequestsTaken(r) + 1) % 2 # 1 /\ (RequestsTaken(r) + 1) \div 2 = applied[r] + 1
    BY <1>4, <1>6
  <2> QED
    BY <1>3, <1>6, <2>1 DEF Request, SaysCommit
<1> QED
  BY <1>1, <1>5, <1>6, RequestsTakenIdle DEF Pipe

\* The RM's vote: one request taken, two words sent.
LEMMA PreparePipe ==
  ASSUME IInv, [Next]_vars, NEW r \in RMSet, NEW i \in DOMAIN rm_connections, Pipe(i, r),
         Prepare(r)
  PROVE  Pipe(i, r)'
<1>1. TypeOK /\ TMInv
  BY DEF IInv
<1>2. PICK a \in Nat, R \in Nat, W \in Nat :
        a = applied[r] /\ R = RequestsTaken(r) /\ W = WordsSent(r)
  BY <1>1, RMCounts
<1>3. /\ rm[r] = "idle" /\ toRM[r] # <<>> /\ toRM' = [toRM EXCEPT ![r] = Tail(@)]
      /\ local_tx' = [local_tx EXCEPT ![r] = Head(toRM[r]).trans]
      /\ UNCHANGED <<rm, applied, heard, ledger, tm, tmi>>
  BY DEF Prepare, Receives, ToTXThread, tmVars
<1>4. PICK d \in {1, -1} :
        /\ fromRM' = [fromRM EXCEPT ![r] = @ \o <<TM_RM_IDENTIFY, d>>]
        /\ votes' = [votes EXCEPT ![r] = Append(@, d)]
  BY DEF Prepare, DecisionWords
<1>5. /\ Len(votes[r]) = a /\ R = 2 * a
      /\ Head(toRM[r]).trans = Trans(a + 1)
  BY <1>2, <1>1, PrepareRequest DEF Prepare
<1>6. /\ votes'[r] = Append(votes[r], d)
      /\ Len(votes'[r]) = a + 1 /\ DOMAIN votes[r] = 1 .. a
      /\ \A n \in DOMAIN votes[r] : votes'[r][n] = votes[r][n]
      /\ votes'[r][a + 1] = d
  <2>1. votes[r] \in Seq({1, -1}) /\ votes'[r] = Append(votes[r], d)
    BY <1>1, <1>4 DEF TypeOK
  <2> QED
    BY <1>5, <2>1, AppendFacts
<1>7. RequestsTaken(r)' = R + 1
  BY <1>2, <1>3, <1>5, <1>6 DEF RequestsTaken
<1>8. W = 3 * a
  BY <1>2, <1>5 DEF WordsSent
<1>9. R = 2 * a
  BY <1>5
<1>10. WordsSent(r)' = W + 2
  BY <1>2, <1>3, <1>5, <1>6 DEF WordsSent
<1>11. /\ RequestsSent(i)' = RequestsSent(i) /\ WordsRead(i)' = WordsRead(i)
      /\ DecisionsHeard(i)' = DecisionsHeard(i)
      /\ RequestsSent(i) \in Nat /\ WordsRead(i) \in Nat
  BY <1>1, <1>3, SameCounts, TMCounts
<1>12. \A m \in 1 .. W : Word(r, m)' = Word(r, m)
  BY <1>2, <1>1, <1>6, WordStable
<1>13. TurnInv(r)'
  <2>1. Trans(a + 1)' = Trans(a + 1)
    <3>1. R + Len(toRM[r]) = RequestsSent(i) /\ Len(toRM[r]) \in Nat \ {0}
      BY <1>2, <1>1, <1>3, TailFacts DEF Pipe, DownInv, TypeOK
    <3>2. /\ Len(ledger) \in Nat /\ RequestsSent(i) <= 2 * Len(ledger) + 1
          /\ RequestsSent(i) = 2 * Len(ledger) + 1 => tm \in {"prepare", "vote"}
      BY <1>2, <1>1, TMCounts DEF RequestsSent
    <3>3. 2 * a + 1 <= RequestsSent(i) /\ RequestsSent(i) \in Nat
      BY <1>2, <1>11, <1>9, <3>1
    <3>4. a + 1 \in 1 .. Len(ledger) + 1
      BY <1>2, <3>2, <3>3
    <3>5. a + 1 <= Len(ledger) \/ RequestsSent(i) = 2 * Len(ledger) + 1
      BY <1>2, <3>2, <3>3
    <3> QED
      BY <3>2, <3>4, <3>5, TransStable
  <2>2. local_tx'[r] = Trans(a + 1)
    BY <1>2, <1>1, <1>3, <1>5 DEF TypeOK
  <2>3. rm'[r] # "writing" /\ applied'[r] = a
    BY <1>2, <1>3
  <2> QED
    BY <1>2, <1>5, <1>6, <2>1, <2>2, <2>3 DEF TurnInv
<1>14. DownInv(i, r)'
  <2>1. toRM'[r] = Tail(toRM[r])
    BY <1>1, <1>3 DEF TypeOK
  <2> QED
    BY <1>2, <1>3, <1>7, <1>11, <2>1, DownTaken
<1>15. UpInv(i, r)'
  <2>1. /\ Len(fromRM[r]) \in Nat /\ Len(fromRM'[r]) = Len(fromRM[r]) + 2
        /\ DOMAIN fromRM[r] = 1 .. Len(fromRM[r])
        /\ DOMAIN fromRM'[r] = 1 .. Len(fromRM[r]) + 2
        /\ \A k \in 1 .. Len(fromRM[r]) : fromRM'[r][k] = fromRM[r][k]
        /\ fromRM'[r][Len(fromRM[r]) + 1] = TM_RM_IDENTIFY
        /\ fromRM'[r][Len(fromRM[r]) + 2] = d
    <3>1. d \in Words /\ TM_RM_IDENTIFY \in Words /\ fromRM[r] \in Seq(Words)
          /\ fromRM'[r] = fromRM[r] \o <<TM_RM_IDENTIFY, d>>
      BY <1>2, <1>1, <1>4 DEF Words, TypeOK
    <3>2. DOMAIN fromRM[r] = 1 .. Len(fromRM[r])
      BY <1>2, <3>1, LenProperties
    <3> QED
      BY <1>2, <3>1, <3>2, TwoMore
  <2>2. WordsRead(i) + Len(fromRM[r]) = W
    BY <1>2 DEF Pipe, UpInv
  <2>3. Word(r, W + 1)' = TM_RM_IDENTIFY /\ Word(r, W + 2)' = d
    <3>1. (W + 1) % 3 = 1 /\ (W + 2) % 3 = 2 /\ (W + 2 + 1) \div 3 = a + 1
      BY <1>2, <1>8
    <3>2. Word(r, W + 1)' = TM_RM_IDENTIFY
      BY <3>1 DEF Word
    <3>3. Word(r, W + 2)' = votes'[r][a + 1]
      BY <3>1 DEF Word
    <3> QED
      BY <1>6, <3>2, <3>3
  <2>4. ASSUME NEW k \in DOMAIN fromRM'[r]
        PROVE  fromRM'[r][k] = Word(r, WordsRead(i) + k)'
    <3>1. CASE k \in 1 .. Len(fromRM[r])
      <4>1. WordsRead(i) + k \in 1 .. W
        BY <1>2, <1>11, <2>1, <2>2, <3>1
      <4> QED
        BY <1>2, <1>11, <1>12, <2>1, <3>1, <4>1 DEF Pipe, UpInv
    <3>2. CASE k = Len(fromRM[r]) + 1
      <4>1. WordsRead(i) + k = W + 1
        BY <1>2, <1>11, <2>1, <2>2, <3>2
      <4> QED
        BY <1>2, <1>11, <2>1, <2>3, <3>2, <4>1
    <3>3. CASE k = Len(fromRM[r]) + 2
      <4>1. WordsRead(i) + k = W + 2
        BY <1>2, <1>11, <2>1, <2>2, <3>3
      <4> QED
        BY <1>2, <1>11, <2>1, <2>3, <3>3, <4>1
    <3>4. k \in 1 .. Len(fromRM[r]) + 2 /\ Len(fromRM[r]) \in Nat
      BY <1>2, <2>1
    <3> QED
      BY <1>2, <3>1, <3>2, <3>3, <3>4
  <2>5. WordsRead(i) + Len(fromRM'[r]) = W + 2
    BY <1>2, <1>11, <2>1, <2>2
  <2> QED
    BY <1>2, <1>10, <1>11, <2>4, <2>5 DEF UpInv
<1>16. HeardInv(i, r)'
  BY <1>3, <1>6, <1>11, HeardSame
<1> QED
  BY <1>13, <1>14, <1>15, <1>16 DEF Pipe

\* The next number is in range.
LEMMA OneMore ==
  ASSUME NEW a \in Nat, NEW b \in Nat \ {0}, NEW c \in Nat, a + b = c
  PROVE  a + 1 \in 1 .. c
OBVIOUS

\* The RM takes a decision: one request.
LEMMA StartCommitAbortPipe ==
  ASSUME IInv, [Next]_vars, NEW r \in RMSet, NEW i \in DOMAIN rm_connections, Pipe(i, r),
         StartCommitAbort(r)
  PROVE  Pipe(i, r)'
<1>1. TypeOK /\ TMInv
  BY DEF IInv
<1>2. /\ rm[r] = "idle" /\ toRM[r] # <<>> /\ toRM' = [toRM EXCEPT ![r] = Tail(@)]
      /\ rm' = [rm EXCEPT ![r] = "writing"]
      /\ UNCHANGED <<fromRM, votes, local_tx, applied, heard, ledger, tm, tmi>>
  BY DEF StartCommitAbort, Receives, ToTXThread, tmVars
<1>3. Len(votes[r]) = applied[r] + 1 /\ applied[r] \in Nat
  BY <1>1, CommitAbortRequest, RMCounts DEF StartCommitAbort
<1>4. rm'[r] = "writing" /\ toRM'[r] = Tail(toRM[r])
  BY <1>1, <1>2 DEF TypeOK
<1>5. RequestsTaken(r)' = RequestsTaken(r) + 1 /\ WordsSent(r)' = WordsSent(r)
  BY <1>2, <1>3, <1>4 DEF RequestsTaken, WordsSent
<1>6. /\ RequestsSent(i)' = RequestsSent(i) /\ WordsRead(i)' = WordsRead(i)
      /\ DecisionsHeard(i)' = DecisionsHeard(i)
  BY <1>2, SameCounts
<1>7. TurnInv(r)'
  <2>1. local_tx[r] = Trans(Len(votes[r])) /\ Len(votes[r]) > 0
    BY <1>3 DEF Pipe, TurnInv
  <2> QED
    BY <1>2, <1>3, <2>1, VotedStable DEF TurnInv
<1>8. DownInv(i, r)'
  BY <1>2, <1>4, <1>5, <1>6, DownTaken
<1> QED
  BY <1>2, <1>5, <1>6, <1>7, <1>8, UpSame, HeardSame DEF Pipe

\* The RM has applied it: one word sent.
LEMMA CompletePipe ==
  ASSUME IInv, [Next]_vars, NEW r \in RMSet, NEW i \in DOMAIN rm_connections, Pipe(i, r),
         Complete(r)
  PROVE  Pipe(i, r)'
<1>1. TypeOK /\ TMInv
  BY DEF IInv
<1>2. PICK a \in Nat, W \in Nat, R \in Nat :
        a = applied[r] /\ W = WordsSent(r) /\ R = WordsRead(i)
  BY <1>1, RMCounts, TMCounts
<1>3. /\ rm[r] = "writing" /\ rm' = [rm EXCEPT ![r] = "idle"]
      /\ fromRM' = [fromRM EXCEPT ![r] = Append(@, COMPLETE_SIG)]
      /\ applied' = [applied EXCEPT ![r] = @ + 1]
      /\ UNCHANGED <<toRM, votes, local_tx, heard, ledger, tm, tmi>>
  BY DEF Complete, tmVars
<1>4. Len(votes[r]) = a + 1
  BY <1>2, <1>3 DEF Pipe, TurnInv
<1>5. rm'[r] = "idle" /\ applied'[r] = a + 1 /\ votes'[r] = votes[r]
  BY <1>1, <1>2, <1>3 DEF TypeOK
<1>6. RequestsTaken(r)' = RequestsTaken(r) /\ WordsSent(r)' = 3 * a + 3 /\ W = 3 * a + 2
  <2>1. W = 2 * (a + 1) + a
    BY <1>2, <1>4 DEF WordsSent
  <2>2. WordsSent(r)' = 2 * (a + 1) + (a + 1)
    BY <1>4, <1>5 DEF WordsSent
  <2>3. RequestsTaken(r) = a + 1 + a + 1
    BY <1>2, <1>3, <1>4 DEF RequestsTaken
  <2>4. RequestsTaken(r)' = a + 1 + (a + 1) + 0
    BY <1>4, <1>5 DEF RequestsTaken
  <2> QED
    BY <1>2, <2>1, <2>2, <2>3, <2>4
<1>7. /\ RequestsSent(i)' = RequestsSent(i) /\ WordsRead(i)' = WordsRead(i)
      /\ DecisionsHeard(i)' = DecisionsHeard(i)
  BY <1>3, SameCounts
<1>8. TurnInv(r)'
  <2>1. local_tx[r] = Trans(Len(votes[r])) /\ Len(votes[r]) > 0
    BY <1>2, <1>4 DEF Pipe, TurnInv
  <2> QED
    BY <1>2, <1>3, <1>4, <1>5, <2>1, VotedStable DEF TurnInv
<1>9. UpInv(i, r)'
  <2>1. /\ Len(fromRM[r]) \in Nat /\ Len(fromRM'[r]) = Len(fromRM[r]) + 1
        /\ DOMAIN fromRM[r] = 1 .. Len(fromRM[r])
        /\ DOMAIN fromRM'[r] = 1 .. Len(fromRM[r]) + 1
        /\ \A k \in 1 .. Len(fromRM[r]) : fromRM'[r][k] = fromRM[r][k]
        /\ fromRM'[r][Len(fromRM[r]) + 1] = COMPLETE_SIG
    <3>1. COMPLETE_SIG \in Words /\ fromRM[r] \in Seq(Words)
          /\ fromRM'[r] = Append(fromRM[r], COMPLETE_SIG)
      BY <1>1, <1>3 DEF Words, TypeOK
    <3> QED
      BY <3>1, AppendFacts
  <2>2. R + Len(fromRM[r]) = W
    BY <1>2 DEF Pipe, UpInv
  <2>3. Word(r, W + 1)' = COMPLETE_SIG
    <3>1. (W + 1) % 3 = 0
      BY <1>2, <1>6
    <3> QED
      BY <3>1 DEF Word
  <2>4. ASSUME NEW k \in DOMAIN fromRM'[r]
        PROVE  fromRM'[r][k] = Word(r, WordsRead(i) + k)'
    <3>1. CASE k = Len(fromRM[r]) + 1
      <4>1. R + k = W + 1
        BY <1>2, <2>1, <2>2, <3>1
      <4> QED
        BY <1>2, <1>7, <2>1, <2>3, <3>1, <4>1
    <3>2. CASE k \in DOMAIN fromRM[r]
      <4>1. k \in Nat /\ k >= 1 /\ k <= Len(fromRM[r]) /\ Len(fromRM[r]) \in Nat
        BY <2>1, <3>2
      <4>2. R + k \in 1 .. W
        BY <1>2, <2>2, <4>1
      <4>3. Word(r, R + k)' = Word(r, R + k)
        BY <1>1, <1>2, <1>5, <4>2, WordStable
      <4> QED
        BY <1>2, <1>7, <2>1, <3>2, <4>3 DEF Pipe, UpInv
    <3>3. k \in 1 .. Len(fromRM[r]) + 1 /\ Len(fromRM[r]) \in Nat
      BY <2>1
    <3>4. k = Len(fromRM[r]) + 1 \/ k \in DOMAIN fromRM[r]
      BY <2>1, <3>3
    <3> QED
      BY <3>1, <3>2, <3>4
  <2>5. R + Len(fromRM'[r]) = 3 * a + 3
    <3>1. PICK q \in Nat : q = Len(fromRM[r])
      BY <2>1
    <3>2. R + q = 3 * a + 2 /\ Len(fromRM'[r]) = q + 1
      BY <1>6, <2>1, <2>2, <3>1
    <3> QED
      BY <3>2
  <2> QED
    BY <1>2, <1>6, <1>7, <2>4, <2>5 DEF UpInv
<1> QED
  BY <1>3, <1>5, <1>6, <1>7, <1>8, <1>9, DownSame, HeardSame DEF Pipe

\* The TM's steps on its current connection.
LEMMA SendTXPipe ==
  ASSUME IInv, [Next]_vars, SendTX, NEW r \in RMSet, tmi \in DOMAIN rm_connections,
         RM(tmi) = r, Pipe(tmi, r), NEW i, i = tmi
  PROVE  Pipe(i, r)'
<1>1. TypeOK /\ TMInv
  BY DEF IInv
<1> DEFINE e == [type |-> "TX", trans |-> [customer_id |-> cur, version |-> local_version,
                                           reads |-> tx[cur]]]
<1>2. /\ toRM'[r] = Append(toRM[r], e)
      /\ UNCHANGED <<fromRM, votes, local_tx, applied, heard, rm, ledger, tx, cur>>
      /\ local_version = Len(ledger) + 1
  BY <1>1 DEF SendTX, TypeOK, TMInv, rmVars, clientVars
<1>3. e \in Requests
  BY DEF IInv, QueueInv, TypeOK, SendTX, Transactions, Requests
<1>4. /\ RequestsSent(i)' = RequestsSent(i) + 1 /\ WordsRead(i)' = WordsRead(i)
      /\ DecisionsHeard(i)' = DecisionsHeard(i) /\ RequestsSent(i) = 2 * Len(ledger)
  BY <1>1, SendTXCounts
<1>5. PICK m \in Nat : m = 2 * Len(ledger) + 1 /\ Len(ledger) \in Nat
  <2>1. PICK D \in Nat : D = Len(ledger)
    BY <1>1, TMCounts
  <2> QED
    BY <2>1
<1>6. e = Request(m)'
  <2>1. m % 2 = 1 /\ (m + 1) \div 2 = Len(ledger) + 1
    BY <1>5
  <2>2. Trans(Len(ledger) + 1)' = [customer_id |-> cur, version |-> local_version,
                                   reads |-> tx[cur]]
    BY <1>2, <1>5 DEF Trans
  <2> QED
    BY <1>2, <2>1, <2>2 DEF Request
<1>7. RequestsTaken(r)' = RequestsTaken(r) /\ WordsSent(r)' = WordsSent(r)
  BY <1>2 DEF RequestsTaken, WordsSent
<1>8. TurnInv(r)'
  BY <1>2, VotedStable DEF Pipe, TurnInv
<1>9. DownInv(i, r)'
  <2> HIDE DEF e
  <2> QED
    BY <1>2, <1>3, <1>4, <1>5, <1>6, <1>7, DownSent
<1> QED
  BY <1>2, <1>4, <1>7, <1>8, <1>9, UpSame, HeardSame DEF Pipe

\* The TM sends a decision,
LEMMA SendCommitAbortPipe ==
  ASSUME IInv, [Next]_vars, SendCommitAbort, NEW r \in RMSet, tmi \in DOMAIN rm_connections,
         RM(tmi) = r, Pipe(tmi, r), NEW i, i = tmi
  PROVE  Pipe(i, r)'
<1>1. TypeOK /\ TMInv
  BY DEF IInv
<1> DEFINE e == [type |-> "TM_RM", decision |-> IF final_decision THEN 1 ELSE 0]
<1>2. /\ toRM'[r] = Append(toRM[r], e)
      /\ UNCHANGED <<fromRM, votes, local_tx, applied, heard, rm, ledger>>
      /\ final_decision = ledger[Len(ledger)].commit
      /\ Len(ledger) > 0
  BY <1>1 DEF SendCommitAbort, TypeOK, TMInv, rmVars
<1>3. e \in Requests
  BY DEF Requests
<1>4. /\ RequestsSent(i)' = RequestsSent(i) + 1 /\ WordsRead(i)' = WordsRead(i)
      /\ DecisionsHeard(i)' = DecisionsHeard(i) /\ RequestsSent(i) = 2 * Len(ledger) - 1
  BY <1>1, SendCommitAbortCounts
<1>5. PICK m \in Nat : m = 2 * Len(ledger) /\ Len(ledger) \in Nat
  BY LenProperties DEF IInv, TypeOK
<1>6. e = Request(m)'
  <2>1. m % 2 # 1 /\ m \div 2 = Len(ledger)
    BY <1>5
  <2> QED
    BY <1>2, <2>1 DEF Request
<1>7. RequestsTaken(r)' = RequestsTaken(r) /\ WordsSent(r)' = WordsSent(r)
  BY <1>2 DEF RequestsTaken, WordsSent
<1>8. TurnInv(r)'
  BY <1>2, VotedStable DEF Pipe, TurnInv
<1>9. DownInv(i, r)'
  <2>1. m = RequestsSent(i) + 1
    BY <1>4, <1>5
  <2> HIDE DEF e
  <2> QED
    BY <1>2, <1>3, <1>4, <1>6, <1>7, <2>1, DownSent
<1> QED
  BY <1>2, <1>4, <1>7, <1>8, <1>9, UpSame, HeardSame DEF Pipe

\* reads a word that it ignores,
LEMMA ReceiveSignalPipe ==
  ASSUME IInv, [Next]_vars, ReceiveSignal, NEW r \in RMSet, tmi \in DOMAIN rm_connections,
         RM(tmi) = r, Pipe(tmi, r), NEW i, i = tmi
  PROVE  Pipe(i, r)'
<1>1. TypeOK /\ TMInv
  BY DEF IInv
<1>2. /\ fromRM[r] # <<>> /\ fromRM'[r] = Tail(fromRM[r])
      /\ UNCHANGED <<toRM, votes, local_tx, applied, heard, rm>>
  BY <1>1 DEF ReceiveSignal, TypeOK, rmVars
<1>3. /\ RequestsSent(i)' = RequestsSent(i) /\ WordsRead(i)' = WordsRead(i) + 1
      /\ DecisionsHeard(i)' = DecisionsHeard(i)
  BY <1>1, ReceiveSignalCounts
<1>4. RequestsTaken(r)' = RequestsTaken(r) /\ WordsSent(r)' = WordsSent(r)
  BY <1>2 DEF RequestsTaken, WordsSent
<1>5. TurnInv(r)'
  BY <1>2, VotedStable DEF Pipe, TurnInv
<1> QED
  BY <1>2, <1>3, <1>4, <1>5, DownSame, UpRead, HeardSame DEF Pipe

\* and reads a word that it takes for a decision.
LEMMA ReceiveVotePipe ==
  ASSUME IInv, [Next]_vars, ReceiveVote, NEW r \in RMSet, tmi \in DOMAIN rm_connections,
         RM(tmi) = r, Pipe(tmi, r), NEW i, i = tmi
  PROVE  Pipe(i, r)'
<1>1. TypeOK /\ TMInv
  BY DEF IInv
<1>2. /\ fromRM[r] # <<>> /\ fromRM'[r] = Tail(fromRM[r])
      /\ heard'[r] = Append(heard[r], Head(fromRM[r]))
      /\ UNCHANGED <<toRM, votes, local_tx, applied, rm>>
  BY <1>1 DEF ReceiveVote, TypeOK, rmVars
<1>3. /\ RequestsSent(i)' = RequestsSent(i) /\ WordsRead(i)' = WordsRead(i) + 1
      /\ DecisionsHeard(i)' = DecisionsHeard(i) + 1
      /\ WordsRead(i) = 2 * Len(ledger) /\ DecisionsHeard(i) = Len(ledger)
  BY <1>1, ReceiveVoteCounts
<1>4. RequestsTaken(r)' = RequestsTaken(r) /\ WordsSent(r)' = WordsSent(r)
  BY <1>2 DEF RequestsTaken, WordsSent
<1>5. TurnInv(r)'
  BY <1>2, VotedStable DEF Pipe, TurnInv
<1>6. PICK D \in Nat : D = Len(ledger)
  BY LenProperties DEF IInv, TypeOK
<1>7. /\ Head(fromRM[r]) = fromRM[r][1] /\ Head(fromRM[r]) \in Words
      /\ 1 \in DOMAIN fromRM[r] /\ Len(fromRM[r]) \in Nat \ {0}
  BY <1>1, <1>2, TailFacts DEF TypeOK
<1>8. Head(fromRM[r]) = Word(r, 2 * D + 1) /\ 2 * D + 1 \in 1 .. WordsSent(r)
  <2>1. WordsRead(i) + Len(fromRM[r]) = WordsSent(r) /\ WordsSent(r) \in Nat
    BY <1>1, RMCounts DEF Pipe, UpInv
  <2>2. fromRM[r][1] = Word(r, WordsRead(i) + 1)
    BY <1>7 DEF Pipe, UpInv
  <2>3. WordsRead(i) = 2 * D
    BY <1>3, <1>6
  <2>4. 2 * D + 1 \in 1 .. WordsSent(r)
    <3>1. WordsRead(i) + 1 \in 1 .. WordsSent(r)
      BY <1>1, <1>7, <2>1, TMCounts, OneMore
    <3> QED
      BY <2>3, <3>1
  <2> QED
    BY <1>7, <2>2, <2>3, <2>4
<1>9. HeardInv(i, r)'
  <2>1. /\ Len(heard[r]) = D /\ Len(heard'[r]) = D + 1
        /\ DOMAIN heard[r] = 1 .. D /\ DOMAIN heard'[r] = 1 .. D + 1
        /\ \A n \in 1 .. D : heard'[r][n] = heard[r][n]
        /\ heard'[r][D + 1] = Head(fromRM[r])
    <3>1. Len(heard[r]) = D
      BY <1>3, <1>6 DEF Pipe, HeardInv
    <3>2. heard[r] \in Seq(Words)
      BY <1>1 DEF TypeOK
    <3> QED
      BY <1>2, <1>7, <3>1, <3>2, AppendFacts
  <2>2. ASSUME NEW n \in DOMAIN heard'[r]
        PROVE  heard'[r][n] = Word(r, 2 * n - 1)'
    <3>1. CASE n = D + 1
      <4>1. 2 * n - 1 = 2 * D + 1
        BY <1>6, <3>1
      <4>2. Word(r, 2 * D + 1)' = Word(r, 2 * D + 1)
        BY <1>1, <1>2, <1>8, WordStable
      <4> QED
        BY <1>8, <2>1, <3>1, <4>1, <4>2
    <3>2. CASE n \in DOMAIN heard[r]
      <4>1. 2 * n - 1 \in 1 .. WordsSent(r)
        BY <1>1, <3>2, HeardRead
      <4>2. Word(r, 2 * n - 1)' = Word(r, 2 * n - 1)
        BY <1>1, <1>2, <4>1, WordStable
      <4> QED
        BY <2>1, <3>2, <4>2 DEF Pipe, HeardInv
    <3>3. n = D + 1 \/ n \in 1 .. D
      BY <1>6, <2>1
    <3> QED
      BY <2>1, <3>1, <3>2, <3>3
  <2>3. Len(heard'[r]) = DecisionsHeard(i)'
    BY <1>3, <1>6, <2>1
  <2> QED
    BY <2>2, <2>3 DEF HeardInv
<1> QED
  BY <1>2, <1>3, <1>4, <1>5, <1>9, DownSame, UpRead DEF Pipe

\* A new connection.
LEMMA ConnectPipe ==
  ASSUME IInv, Connect, rm_connections' # rm_connections, NEW i, i = Len(rm_connections) + 1,
         NEW r \in RMSet, RM(i)' = r
  PROVE  Pipe(i, r)'
<1>1. /\ TypeOK /\ UnreachedInv
      /\ tm' = "connect" /\ ledger = <<>> /\ RMs[tmi] \in RMSet \ Connected
      /\ rm_connections' = Append(rm_connections, RMs[tmi])
  BY ConnectStep DEF IInv
<1>2. r = RMs[tmi]
  BY <1>1, AppendFacts DEF TypeOK, RM
<1>3. UNCHANGED <<ledger, rm, toRM, fromRM, votes, heard, applied>>
  BY DEF Connect, rmVars
<1>4. /\ rm'[r] = "idle" /\ toRM'[r] = <<>> /\ fromRM'[r] = <<>>
      /\ votes'[r] = <<>> /\ heard'[r] = <<>> /\ applied'[r] = 0
  BY <1>1, <1>2, <1>3 DEF UnreachedInv
<1>5. Len(<<>>) = 0 /\ DOMAIN <<>> = {}
  OBVIOUS
<1>6. RequestsSent(i)' = 0 /\ WordsRead(i)' = 0 /\ DecisionsHeard(i)' = 0
  BY <1>1, <1>3, <1>5 DEF RequestsSent, WordsRead, DecisionsHeard
<1>7. RequestsTaken(r)' = 0 /\ WordsSent(r)' = 0
  BY <1>4, <1>5 DEF RequestsTaken, WordsSent
<1>8. TurnInv(r)'
  BY <1>4, <1>5 DEF TurnInv
<1>9. DownInv(i, r)' /\ UpInv(i, r)' /\ HeardInv(i, r)'
  BY <1>4, <1>5, <1>6, <1>7 DEF DownInv, UpInv, HeardInv
<1> QED
  BY <1>8, <1>9 DEF Pipe

\* An RM's step keeps its own connection in order, and all others.
LEMMA RMPipeInv ==
  ASSUME IInv, [Next]_vars, NEW r \in RMSet, RMThread(r)
  PROVE  PipeInv'
<1>1. UNCHANGED <<rm_connections, ledger, tm, tmi, heard>>
  BY RMStepUnchanged DEF tmVars
<1>2. SUFFICES ASSUME NEW q \in RMSet, NEW i \in DOMAIN rm_connections, RM(i) = q
               PROVE  Pipe(i, q)'
  BY <1>1 DEF PipeInv, RM
<1>3. Pipe(i, q)
  BY <1>2 DEF IInv, PipeInv
<1>4. /\ RequestsSent(i)' = RequestsSent(i) /\ WordsRead(i)' = WordsRead(i)
      /\ DecisionsHeard(i)' = DecisionsHeard(i)
  BY <1>1, SameCounts
<1>5. CASE q # r \/ WriteEntry(r)
  <2>1. /\ toRM'[q] = toRM[q] /\ fromRM'[q] = fromRM[q] /\ votes'[q] = votes[q]
        /\ applied'[q] = applied[q] /\ rm'[q] = rm[q] /\ local_tx'[q] = local_tx[q]
    BY <1>5 DEF IInv, TypeOK, RMThread, Prepare, StartCommitAbort, WriteEntry, Complete,
                ToTXThread
  <2> QED
    BY <1>1, <1>3, <1>4, <2>1, PipeStable
<1>6. CASE q = r /\ ~WriteEntry(r)
  BY <1>3, <1>6, PreparePipe, StartCommitAbortPipe, CompletePipe DEF RMThread
<1> QED
  BY <1>5, <1>6

\* The TM's steps keep every connection in order.
LEMMA TMPipeInv ==
  ASSUME IInv, [Next]_vars, TMThread
  PROVE  PipeInv'
<1>1. TypeOK /\ TMInv /\ QueueInv /\ ConnectInv /\ PipeInv
  BY DEF IInv
<1>2. UNCHANGED <<rm, local_tx, votes, applied>>
  BY DEF TMThread, Connect, TakeRequest, SendTX, ReceiveVote, Decide, SendCommitAbort,
         ReceiveSignal, rmVars
<1>3. ASSUME NEW r \in RMSet, NEW i \in DOMAIN rm_connections, RM(i) = r,
             Connect \/ TakeRequest \/ Decide
      PROVE  Pipe(i, r)'
  <2>1. UNCHANGED <<toRM, fromRM, heard>>
    BY <1>3 DEF Connect, TakeRequest, Decide
  <2> QED
    BY <1>1, <1>2, <1>3, <2>1, OtherCounts, PipeStable DEF PipeInv
<1>4. CASE Connect
  <2> SUFFICES ASSUME NEW r \in RMSet, NEW i \in DOMAIN rm_connections', RM(i)' = r
               PROVE  Pipe(i, r)'
    BY DEF PipeInv
  <2>1. CASE rm_connections' = rm_connections
    BY <1>3, <1>4, <2>1 DEF RM
  <2>2. CASE rm_connections' # rm_connections
    <3>1. rm_connections' = Append(rm_connections, RMs[tmi]) /\ RMs[tmi] \in RMSet
      BY <1>1, <1>4, <2>2, ConnectStep
    <3>2. /\ Len(rm_connections) \in Nat /\ DOMAIN rm_connections = 1 .. Len(rm_connections)
          /\ i \in 1 .. Len(rm_connections) + 1
          /\ \A j \in 1 .. Len(rm_connections) : rm_connections'[j] = rm_connections[j]
      BY <1>1, <3>1, AppendFacts DEF TypeOK
    <3>3. i \in DOMAIN rm_connections \/ i = Len(rm_connections) + 1
      BY <3>2
    <3>4. CASE i \in DOMAIN rm_connections
      BY <1>3, <1>4, <3>2, <3>4 DEF RM
    <3>5. CASE i = Len(rm_connections) + 1
      BY <1>4, <2>2, <3>5, ConnectPipe
    <3> QED
      BY <3>3, <3>4, <3>5
  <2> QED
    BY <2>1, <2>2
<1>5. CASE TakeRequest \/ Decide
  <2>1. rm_connections' = rm_connections
    BY <1>5 DEF TakeRequest, Decide
  <2> QED
    BY <1>3, <1>5, <2>1 DEF PipeInv, RM
<1>6. CASE SendTX \/ ReceiveVote \/ SendCommitAbort \/ ReceiveSignal
  <2>1. rm_connections' = rm_connections
    BY <1>6 DEF SendTX, ReceiveVote, SendCommitAbort, ReceiveSignal
  <2>2. tmi \in DOMAIN rm_connections
    BY <1>1, <1>6, LenProperties DEF TypeOK, TMInv, SendTX, ReceiveVote, SendCommitAbort, ReceiveSignal
  <2>3. SUFFICES ASSUME NEW r \in RMSet, NEW i \in DOMAIN rm_connections, RM(i) = r
                 PROVE  Pipe(i, r)'
    BY <2>1 DEF PipeInv, RM
  <2>4. Pipe(i, r)
    BY <1>1, <2>3 DEF PipeInv
  <2>5. CASE i = tmi
    BY <1>6, <2>2, <2>3, <2>4, <2>5, SendTXPipe, ReceiveVotePipe, SendCommitAbortPipe,
       ReceiveSignalPipe
  <2>6. CASE i # tmi
    <3>1. RM(tmi) # r
      BY <1>1, <2>2, <2>3, <2>6, OtherRM
    <3>2. toRM'[r] = toRM[r] /\ fromRM'[r] = fromRM[r] /\ heard'[r] = heard[r]
      BY <1>1, <1>6, <3>1 DEF TypeOK, SendTX, ReceiveVote, SendCommitAbort, ReceiveSignal
    <3>3. /\ RequestsSent(i)' = RequestsSent(i) /\ WordsRead(i)' = WordsRead(i)
          /\ DecisionsHeard(i)' = DecisionsHeard(i)
      BY <1>1, <1>6, <2>6, SendTXCounts, ReceiveVoteCounts, SendCommitAbortCounts,
         ReceiveSignalCounts
    <3> QED
      BY <1>2, <2>4, <3>2, <3>3, PipeStable
  <2> QED
    BY <2>5, <2>6
<1> QED
  BY <1>4, <1>5, <1>6 DEF TMThread

\* Every step does.
LEMMA NextPipeInv == IInv /\ [Next]_vars => PipeInv'
<1> SUFFICES ASSUME IInv, [Next]_vars PROVE PipeInv'
  OBVIOUS
<1>1. CASE UNCHANGED vars \/ \E c \in Clients : ClientThread(c)
  <2>1. /\ UNCHANGED <<rm_connections, ledger, tm, tmi, heard, toRM, fromRM>>
        /\ UNCHANGED <<rm, local_tx, votes, applied>>
    BY <1>1, ClientStepUnchanged DEF vars, rmVars
  <2>2. SUFFICES ASSUME NEW r \in RMSet, NEW i \in DOMAIN rm_connections, RM(i) = r
                 PROVE  Pipe(i, r)'
    BY <2>1 DEF PipeInv, RM
  <2>3. Pipe(i, r)
    BY <2>2 DEF IInv, PipeInv
  <2> QED
    BY <2>1, <2>3, SameCounts, PipeStable
<1> QED
  BY <1>1, RMPipeInv, TMPipeInv DEF Next, Finished

\* A connection, once made, is kept.
LEMMA ConnectedGrows ==
  ASSUME IInv, [Next]_vars
  PROVE  Connected \subseteq Connected'
<1>1. CASE rm_connections' = rm_connections
  BY <1>1 DEF Connected, RM
<1>2. CASE Connect /\ rm_connections' # rm_connections
  <2>1. rm_connections' = Append(rm_connections, RMs[tmi]) /\ RMs[tmi] \in RMSet
    BY <1>2, ConnectStep DEF IInv
  <2>2. /\ Len(rm_connections) \in Nat /\ DOMAIN rm_connections = 1 .. Len(rm_connections)
        /\ DOMAIN rm_connections' = 1 .. Len(rm_connections) + 1
        /\ \A j \in 1 .. Len(rm_connections) : rm_connections'[j] = rm_connections[j]
    BY <2>1, AppendFacts DEF IInv, TypeOK
  <2> QED
    BY <2>2 DEF Connected, RM
<1> QED
  BY <1>1, <1>2, ClientStepUnchanged, RMStepUnchanged
  DEF Next, Finished, TMThread, TakeRequest, SendTX, ReceiveVote, Decide, SendCommitAbort,
      ReceiveSignal, vars, tmVars

\* An RM without a connection does nothing.
LEMMA NextUnreachedInv == IInv /\ [Next]_vars => UnreachedInv'
<1> SUFFICES ASSUME IInv, [Next]_vars, NEW r \in RMSet, r \notin Connected
             PROVE  /\ rm'[r] = rm[r] /\ toRM'[r] = toRM[r] /\ fromRM'[r] = fromRM[r]
                    /\ votes'[r] = votes[r] /\ heard'[r] = heard[r]
                    /\ applied'[r] = applied[r] /\ kv_table'[r] = kv_table[r]
  BY ConnectedGrows DEF IInv, UnreachedInv
<1>1. TypeOK /\ TMInv /\ UnreachedInv
  BY DEF IInv
<1>2. CASE UNCHANGED <<rmVars, toRM, fromRM, heard>>
  BY <1>2 DEF rmVars
<1>3. ASSUME NEW q \in RMSet, RMThread(q)
      PROVE  /\ rm'[r] = rm[r] /\ toRM'[r] = toRM[r] /\ fromRM'[r] = fromRM[r]
             /\ votes'[r] = votes[r] /\ heard'[r] = heard[r]
             /\ applied'[r] = applied[r] /\ kv_table'[r] = kv_table[r]
  <2>1. toRM[q] # <<>> \/ rm[q] = "writing"
    BY <1>3 DEF RMThread, Prepare, StartCommitAbort, Receives, WriteEntry, Complete
  <2>2. q # r
    BY <1>1, <2>1 DEF UnreachedInv
  <2>3. /\ rm'[r] = rm[r] /\ toRM'[r] = toRM[r] /\ fromRM'[r] = fromRM[r]
        /\ votes'[r] = votes[r] /\ heard'[r] = heard[r] /\ applied'[r] = applied[r]
    BY <1>1, <1>3, <2>2 DEF TypeOK, RMThread, Prepare, StartCommitAbort, WriteEntry,
                            Complete, ToTXThread
  <2>4. kv_table'[r] = kv_table[r]
    BY <1>1, <1>3, <2>2 DEF TypeOK, RMThread, Prepare, StartCommitAbort, WriteEntry,
                            Complete
  <2> QED
    BY <2>3, <2>4
<1>4. CASE TMThread
  <2>1. UNCHANGED <<rm, votes, applied, kv_table>>
    BY <1>4 DEF TMThread, Connect, TakeRequest, SendTX, ReceiveVote, Decide,
                SendCommitAbort, ReceiveSignal, rmVars
  <2>2. toRM'[r] = toRM[r] /\ fromRM'[r] = fromRM[r] /\ heard'[r] = heard[r]
    <3>1. CASE Connect \/ TakeRequest \/ Decide
      BY <3>1 DEF Connect, TakeRequest, Decide
    <3>2. CASE SendTX \/ ReceiveVote \/ SendCommitAbort \/ ReceiveSignal
      <4>1. tmi \in DOMAIN rm_connections
        BY <1>1, <3>2, LenProperties DEF TypeOK, TMInv, SendTX, ReceiveVote, SendCommitAbort, ReceiveSignal
      <4>2. RM(tmi) # r
        BY <4>1 DEF Connected
      <4> QED
        BY <1>1, <3>2, <4>2 DEF TypeOK, SendTX, ReceiveVote, SendCommitAbort, ReceiveSignal
    <3> QED
      BY <1>4, <3>1, <3>2 DEF TMThread
  <2> QED
    BY <2>1, <2>2
<1> QED
  BY <1>2, <1>3, <1>4, ClientStepUnchanged DEF Next, Finished, vars, rmVars

-----------------------------------------------------------------------------
(* The decisions.                                                          *)

\* Every decision is the conjunction of the words heard for it.
LEMMA NextDecisionInv == IInv /\ [Next]_vars => DecisionInv'
<1> SUFFICES ASSUME IInv, [Next]_vars PROVE DecisionInv'
  OBVIOUS
<1>1. TypeOK /\ TMInv /\ QueueInv /\ ConnectInv /\ DecisionInv /\ PipeInv
  BY DEF IInv
<1>2. PICK D \in Nat : D = Len(ledger) /\ DOMAIN ledger = 1 .. D
  BY <1>1, LenProperties DEF TypeOK
<1>3. CASE UNCHANGED <<rm_connections, ledger, heard, final_decision, tmi>>
           /\ (tm' \in {"prepare", "vote"} => tm \in {"prepare", "vote"})
  BY <1>1, <1>3 DEF DecisionInv, RM
<1>4. CASE Connect
  <2>1. tm = "connect" /\ tm' \in {"connect", "idle"} /\ ledger' = ledger
    BY <1>4 DEF Connect
  <2>2. ledger = <<>>
    BY <1>1, <2>1 DEF ConnectInv
  <2> QED
    BY <2>1, <2>2 DEF DecisionInv
<1>5. CASE TakeRequest
  <2>1. /\ tmi' = 1 /\ final_decision' = TRUE
        /\ UNCHANGED <<rm_connections, ledger, heard>>
    BY <1>5 DEF TakeRequest
  <2>2. \A i \in DOMAIN rm_connections : ~ (i < tmi')
    BY <1>1, <2>1, ConnectionIsRM
  <2> QED
    BY <1>1, <2>1, <2>2 DEF DecisionInv, RM
<1>6. CASE ReceiveVote
  <2>1. /\ tm = "vote" /\ tmi' = tmi + 1 /\ tmi \in DOMAIN rm_connections
        /\ UNCHANGED <<rm_connections, ledger>>
    BY <1>1, <1>6, LenProperties DEF ReceiveVote, TypeOK, TMInv
  <2>2. PICK word \in Words :
          /\ final_decision' = (final_decision /\ word # -1)
          /\ heard' = [heard EXCEPT ![RM(tmi)] = Append(@, word)]
    <3>1. RM(tmi) \in RMSet
      BY <1>1, <2>1, ConnectionIsRM
    <3>2. Head(fromRM[RM(tmi)]) \in Words
      BY <1>1, <1>6, <3>1, TailFacts DEF ReceiveVote, TypeOK
    <3> QED
      BY <1>6, <3>2 DEF ReceiveVote, InFavour
  <2>3. /\ Len(heard[RM(tmi)]) = D
        /\ \A n \in 1 .. D : heard'[RM(tmi)][n] = heard[RM(tmi)][n]
        /\ heard'[RM(tmi)][D + 1] = word
    <3>1. RM(tmi) \in RMSet /\ Pipe(tmi, RM(tmi))
      BY <1>1, <2>1, ConnectionIsRM DEF PipeInv
    <3>2. DecisionsHeard(tmi) = D
      BY <1>1, <1>2, <1>6, <2>1, ReceiveVoteCounts
    <3>3. Len(heard[RM(tmi)]) = D
      BY <3>1, <3>2 DEF Pipe, HeardInv
    <3>4. heard[RM(tmi)] \in Seq(Words) /\ heard'[RM(tmi)] = Append(heard[RM(tmi)], word)
      BY <1>1, <2>2, <3>1 DEF TypeOK
    <3> QED
      BY <3>3, <3>4, AppendFacts
  <2>4. \A i \in DOMAIN rm_connections : i # tmi => heard'[RM(i)] = heard[RM(i)]
    BY <1>1, <2>1, <2>2, OtherRM, ConnectionIsRM DEF TypeOK
  <2>5. ASSUME NEW n \in DOMAIN ledger
        PROVE  ledger[n].commit <=> \A i \in DOMAIN rm_connections : heard'[RM(i)][n] # -1
    <3>1. \A i \in DOMAIN rm_connections : heard'[RM(i)][n] = heard[RM(i)][n]
      BY <1>2, <2>3, <2>4
    <3> QED
      BY <1>1, <3>1 DEF DecisionInv
  <2>6. final_decision' <=>
          \A i \in DOMAIN rm_connections : i < tmi' => heard'[RM(i)][Len(ledger) + 1] # -1
    <3>1. \A i \in DOMAIN rm_connections : i < tmi' <=> i < tmi \/ i = tmi
      <4>1. tmi \in Nat /\ \A i \in DOMAIN rm_connections : i \in Nat
        BY <1>1, ConnectionIsRM DEF TypeOK
      <4>2. \A i \in Nat : i < tmi + 1 <=> i < tmi \/ i = tmi
        BY <4>1
      <4> QED
        BY <2>1, <4>1, <4>2
    <3>2. \A i \in DOMAIN rm_connections : i < tmi => i # tmi
      BY <1>1, ConnectionIsRM DEF TypeOK
    <3>3. final_decision <=>
            \A i \in DOMAIN rm_connections : i < tmi => heard[RM(i)][D + 1] # -1
      BY <1>1, <1>2, <2>1 DEF DecisionInv
    <3>4. \A i \in DOMAIN rm_connections :
            i < tmi => heard'[RM(i)][D + 1] = heard[RM(i)][D + 1]
      BY <2>4, <3>2
    <3>5. final_decision' <=> final_decision /\ word # -1
      BY <2>2
    <3> HIDE <2>2
    <3> QED
      BY <1>2, <2>1, <2>3, <3>1, <3>3, <3>4, <3>5
  <2> QED
    BY <2>1, <2>5, <2>6 DEF DecisionInv, RM
<1>7. CASE Decide
  <2>1. /\ tm = "prepare" /\ tmi > Len(rm_connections) /\ tm' \notin {"prepare", "vote"}
        /\ UNCHANGED <<rm_connections, heard>>
    BY <1>7 DEF Decide
  <2>2. /\ DOMAIN ledger' = 1 .. D + 1 /\ \A n \in 1 .. D : ledger'[n] = ledger[n]
        /\ ledger'[D + 1].commit = final_decision
    BY <1>1, <1>2, <1>7, DecideAppends
  <2>3. \A i \in DOMAIN rm_connections : i < tmi
    BY <1>1, <2>1, ConnectionIsRM DEF TypeOK
  <2>4. final_decision <=> \A i \in DOMAIN rm_connections : heard[RM(i)][D + 1] # -1
    BY <1>1, <1>2, <2>1, <2>3 DEF DecisionInv
  <2>5. ASSUME NEW n \in 1 .. D + 1
        PROVE  ledger'[n].commit <=> \A i \in DOMAIN rm_connections : heard[RM(i)][n] # -1
    <3>1. CASE n = D + 1
      BY <2>2, <2>4, <3>1
    <3>2. CASE n \in 1 .. D
      BY <1>1, <1>2, <2>2, <3>2 DEF DecisionInv
    <3> QED
      BY <1>2, <3>1, <3>2
  <2> QED
    BY <2>1, <2>2, <2>5 DEF DecisionInv, RM
<1>8. CASE SendTX \/ SendCommitAbort \/ ReceiveSignal
  <2>1. CASE SendTX
    BY <1>3, <2>1 DEF SendTX
  <2>2. CASE SendCommitAbort \/ ReceiveSignal
    <3>1. /\ UNCHANGED <<rm_connections, ledger, heard>>
          /\ tm' \notin {"prepare", "vote"}
      BY <2>2 DEF SendCommitAbort, ReceiveSignal
    <3> QED
      BY <1>1, <3>1 DEF DecisionInv, RM
  <2> QED
    BY <1>8, <2>1, <2>2
<1> QED
  BY <1>3, <1>4, <1>5, <1>6, <1>7, <1>8, ClientStepUnchanged, RMStepUnchanged
  DEF Next, Finished, TMThread, vars, tmVars

-----------------------------------------------------------------------------
(* The tables.                                                             *)

\* An RM applies only what is decided.
LEMMA AppliedBound ==
  ASSUME TypeOK, TMInv, PipeInv, UnreachedInv, NEW r \in RMSet
  PROVE  applied[r] \in Nat /\ Len(ledger) \in Nat /\ applied[r] <= Len(ledger)
<1>1. PICK a \in Nat, L \in Nat : a = applied[r] /\ L = Len(ledger)
  BY RMCounts, LenProperties DEF TypeOK
<1>2. CASE a # 0
  <2>1. PICK i \in DOMAIN rm_connections : r = RM(i)
    BY <1>1, <1>2, BusyIsConnected
  <2>2. TurnInv(r) /\ DownInv(i, r)
    BY <2>1 DEF PipeInv, Pipe
  <2>3. PICK T \in Nat, S \in Nat, q \in Nat :
          T = RequestsTaken(r) /\ S = RequestsSent(i) /\ q = Len(toRM[r])
    BY RMCounts, TMCounts
  <2>4. 2 * a <= T
    BY <1>1, <2>2, <2>3, RMCounts DEF TurnInv, RequestsTaken
  <2>5. T + q = S
    BY <2>2, <2>3 DEF DownInv
  <2>6. S <= 2 * L + 1
    BY <1>1, <2>3, TMCounts
  <2>7. a <= L
    BY <2>4, <2>5, <2>6
  <2> QED
    BY <1>1, <2>7
<1>3. CASE a = 0
  BY <1>1, <1>3
<1> QED
  BY <1>2, <1>3

\* Decisions to come do not change the entries after earlier ones.
LEMMA EntryAfterSame ==
  ASSUME NEW l, NEW d, NEW rid, NEW n \in Nat, \A k \in 1 .. n : d[k] = l[k]
  PROVE  EntryAfter(d, rid, n) = EntryAfter(l, rid, n)
<1>1. WritersIn(d, rid, n) = WritersIn(l, rid, n)
  BY DEF WritersIn
<1>2. CASE WritersIn(l, rid, n) = {}
  BY <1>1, <1>2 DEF EntryAfter
<1>3. CASE WritersIn(l, rid, n) # {}
  <2>1. Latest(WritersIn(l, rid, n)) \in 1 .. n
    BY <1>3, LatestIsLast DEF WritersIn
  <2>2. d[Latest(WritersIn(l, rid, n))] = l[Latest(WritersIn(l, rid, n))]
    BY <2>1
  <2> QED
    BY <1>1, <1>3, <2>2 DEF EntryAfter
<1> QED
  BY <1>2, <1>3

LEMMA EntryStable ==
  ASSUME IInv, [Next]_vars, NEW rid, NEW n \in Nat, n <= Len(ledger)
  PROVE  EntryAfter(ledger', rid, n) = EntryAfter(ledger, rid, n)
<1>1. Len(ledger) \in Nat
  BY LenProperties DEF IInv, TypeOK
<1>2. \A k \in 1 .. n : ledger'[k] = ledger[k]
  BY <1>1, TransStable
<1> QED
  BY <1>2, EntryAfterSame

\* The positions of a decided transaction that name a robot.
Positions(n, rid) == {j \in DOMAIN ledger[n].reads : ledger[n].reads[j].rid = rid}

\* The entry after the n-th decision.
LEMMA NextEntry ==
  ASSUME TypeOK, TMInv, NEW n \in 1 .. Len(ledger), NEW m \in Nat, n = m + 1, NEW rid
  PROVE  EntryAfter(ledger, rid, n) =
           IF ledger[n].commit /\ Positions(n, rid) # {}
           THEN EntryOf(Trans(n), Latest(Positions(n, rid)))
           ELSE EntryAfter(ledger, rid, m)
<1>1. rid \in Rids(ledger[n].reads) <=> Positions(n, rid) # {}
  BY DEF Rids, Positions
<1>2. n \in Nat
  OBVIOUS
<1>3. CASE ledger[n].commit /\ Positions(n, rid) # {}
  <2>1. n \in WritersIn(ledger, rid, n)
        /\ \A k \in WritersIn(ledger, rid, n) : k \in Nat /\ k <= n
    BY <1>1, <1>2, <1>3 DEF WritersIn
  <2>2. Latest(WritersIn(ledger, rid, n)) = n
    BY <2>1, LatestIs
  <2>3. /\ Trans(n).customer_id = ledger[n].customer_id /\ Trans(n).version = n
        /\ Trans(n).reads = ledger[n].reads
    BY TransType
  <2> QED
    BY <1>3, <2>1, <2>2, <2>3 DEF EntryAfter, EntryOf, Positions
<1>4. CASE ~ (ledger[n].commit /\ Positions(n, rid) # {})
  <2>1. WritersIn(ledger, rid, n) = WritersIn(ledger, rid, m)
    BY <1>1, <1>2, <1>4 DEF WritersIn
  <2> QED
    BY <1>4, <2>1 DEF EntryAfter
<1> QED
  BY <1>3, <1>4

Tabled(r) == IF rm[r] = "writing" THEN WritingInv(r) ELSE IdleInv(r)

\* A step that touches neither the table nor what the RM is doing.
LEMMA TableStable ==
  ASSUME IInv, [Next]_vars, NEW r \in RMSet,
         kv_table'[r] = kv_table[r], applied'[r] = applied[r], rm'[r] = rm[r],
         rm[r] = "writing" => widx'[r] = widx[r] /\ local_tx'[r] = local_tx[r]
  PROVE  Tabled(r)'
<1>1. /\ TypeOK /\ TMInv /\ PipeInv /\ UnreachedInv /\ Tabled(r)
  BY DEF IInv, TableInv, Tabled
<1>2. PICK n \in Nat : n = applied[r] /\ n <= Len(ledger) /\ applied'[r] = n
  BY <1>1, AppliedBound
<1>3. \A rid : EntryAfter(ledger', rid, n) = EntryAfter(ledger, rid, n)
  BY <1>2, EntryStable
<1>4. CASE rm[r] = "writing"
  <2>1. n + 1 \in 1 .. Len(ledger)
    BY <1>1, <1>2, <1>4, Writing
  <2>2. ledger'[n + 1] = ledger[n + 1]
    BY <2>1, TransStable
  <2>3. \A rid : WrittenAt(r, rid)' = WrittenAt(r, rid)
    BY <1>4 DEF WrittenAt
  <2>4. WritingInv(r)
    BY <1>1, <1>4 DEF Tabled
  <2>5. WritingInv(r)'
    BY <1>2, <1>3, <1>4, <2>2, <2>3, <2>4 DEF WritingInv
  <2> QED
    BY <1>4, <2>5 DEF Tabled
<1>5. CASE rm[r] # "writing"
  <2>1. IdleInv(r)
    BY <1>1, <1>5 DEF Tabled
  <2>2. IdleInv(r)'
    BY <1>2, <1>3, <2>1 DEF IdleInv
  <2> QED
    BY <1>5, <2>2 DEF Tabled
<1> QED
  BY <1>4, <1>5

\* The commit loop begins (a commit) or is skipped (an abort).
LEMMA StartCommitAbortTabled ==
  ASSUME IInv, [Next]_vars, NEW r \in RMSet, StartCommitAbort(r)
  PROVE  Tabled(r)'
<1>1. TypeOK /\ TMInv /\ PipeInv /\ UnreachedInv /\ Tabled(r)
  BY DEF IInv, TableInv, Tabled
<1>2. /\ rm[r] = "idle" /\ rm' = [rm EXCEPT ![r] = "writing"] /\ Receives(r, "TM_RM")
      /\ widx' = [widx EXCEPT ![r] = IF SaysCommit(Head(toRM[r])) THEN 1 ELSE TxSize + 1]
      /\ UNCHANGED <<ledger, local_tx, kv_table, applied>>
  BY DEF StartCommitAbort, Receives
<1>3. PICK n \in Nat : n = applied[r]
  BY <1>1, RMCounts
<1>4. PICK i \in DOMAIN rm_connections : r = RM(i)
  BY <1>1, <1>2, BusyIsConnected DEF Receives
<1>5. Pipe(i, r)
  BY <1>1, <1>4 DEF PipeInv
<1>6. SaysCommit(Head(toRM[r])) <=> ledger[n + 1].commit
  BY <1>1, <1>2, <1>3, <1>5, CommitAbortRequest
<1>7. \A x \in Window(r) : kv_table[r][Slot(r, x)] = EntryAfter(ledger, x, n)
  BY <1>1, <1>2, <1>3 DEF Tabled, IdleInv
<1>8. rm'[r] = "writing" /\ (ledger[n + 1].commit => widx'[r] = 1)
      /\ (ledger[n + 1].commit \/ widx'[r] = TxSize + 1)
  BY <1>1, <1>2, <1>6 DEF TypeOK
<1>9. ledger[n + 1].commit => \A x : WrittenAt(r, x)' = {}
  BY <1>8 DEF WrittenAt
<1>10. WritingInv(r)'
  BY <1>2, <1>3, <1>7, <1>8, <1>9 DEF WritingInv
<1> QED
  BY <1>8, <1>10 DEF Tabled

\* One robot is written: it is the last of those written.
LEMMA WriteEntryTabled ==
  ASSUME IInv, [Next]_vars, NEW r \in RMSet, WriteEntry(r)
  PROVE  Tabled(r)'
<1>1. TypeOK /\ TMInv /\ PipeInv /\ UnreachedInv /\ Tabled(r)
  BY DEF IInv, TableInv, Tabled
<1>2. /\ rm[r] = "writing" /\ widx[r] <= TxSize /\ widx' = [widx EXCEPT ![r] = @ + 1]
      /\ UNCHANGED <<ledger, rm, local_tx, applied>>
  BY DEF WriteEntry
<1>3. PICK n \in Nat, w \in 1 .. TxSize : n = applied[r] /\ w = widx[r]
  BY <1>1, <1>2, RMCounts, SizeAssumption DEF TypeOK
<1>4. widx'[r] = w + 1 /\ w \in Nat /\ ~ (w = TxSize + 1)
  BY <1>1, <1>2, <1>3, SizeAssumption DEF TypeOK
<1>5. PICK rid : rid = local_tx[r].reads[w].rid
  OBVIOUS
<1>6. /\ rid \in Nat /\ (Holds(r, rid) <=> rid \in Window(r))
      /\ kv_table' = IF Holds(r, rid)
                     THEN [kv_table EXCEPT ![r][Slot(r, rid)] = EntryOf(local_tx[r], w)]
                     ELSE kv_table
  BY <1>1, <1>2, <1>3, <1>5, WritingTypes DEF WriteEntry, NewEntry, EntryOf
<1>7. /\ ledger[n + 1].commit
      /\ \A x \in Window(r) :
           kv_table[r][Slot(r, x)] = IF WrittenAt(r, x) # {}
                                     THEN EntryOf(local_tx[r], Latest(WrittenAt(r, x)))
                                     ELSE EntryAfter(ledger, x, n)
  BY <1>1, <1>2, <1>3, <1>4 DEF Tabled, WritingInv
<1>8. ASSUME NEW x \in Window(r)
      PROVE  kv_table'[r][Slot(r, x)] = IF WrittenAt(r, x)' # {}
                                     THEN EntryOf(local_tx[r], Latest(WrittenAt(r, x)'))
                                     ELSE EntryAfter(ledger, x, n)
  <2>1. Slot(r, x) \in Slots(r) /\ DOMAIN kv_table = RMSet /\ DOMAIN kv_table[r] = Slots(r)
    BY <1>1, SlotIsSlot DEF TypeOK
  <2>2. WrittenAt(r, x)' = {j \in 1 .. w : local_tx[r].reads[j].rid = x}
    BY <1>2, <1>4 DEF WrittenAt
  <2>3. WrittenAt(r, x) = {j \in 1 .. w - 1 : local_tx[r].reads[j].rid = x}
    BY <1>3 DEF WrittenAt
  <2>4. CASE x = rid
    <3>1. w \in WrittenAt(r, x)' /\ WrittenAt(r, x)' \subseteq Nat
          /\ \A j \in WrittenAt(r, x)' : j <= w
      BY <1>4, <1>5, <2>2, <2>4
    <3>2. Latest(WrittenAt(r, x)') = w
      BY <3>1, LatestIs
    <3>3. kv_table'[r][Slot(r, x)] = EntryOf(local_tx[r], w)
      BY <1>6, <2>1, <2>4
    <3> QED
      BY <3>1, <3>2, <3>3
  <2>5. CASE x # rid
    <3>1. WrittenAt(r, x)' = WrittenAt(r, x)
      BY <1>4, <1>5, <2>2, <2>3, <2>5
    <3>2. rid \in Window(r) => Slot(r, x) # Slot(r, rid)
      BY <2>5, SlotIsOwn
    <3>3. kv_table'[r][Slot(r, x)] = kv_table[r][Slot(r, x)]
      BY <1>6, <2>1, <3>2
    <3> QED
      BY <1>7, <3>1, <3>3
  <2> QED
    BY <2>4, <2>5
<1>9. WritingInv(r)'
  BY <1>2, <1>3, <1>7, <1>8 DEF WritingInv
<1> QED
  BY <1>2, <1>9 DEF Tabled

\* All are written: the table is as after the decision.
LEMMA CompleteTabled ==
  ASSUME IInv, [Next]_vars, NEW r \in RMSet, Complete(r)
  PROVE  Tabled(r)'
<1>1. TypeOK /\ TMInv /\ PipeInv /\ UnreachedInv /\ Tabled(r)
  BY DEF IInv, TableInv, Tabled
<1>2. /\ rm[r] = "writing" /\ widx[r] > TxSize /\ rm' = [rm EXCEPT ![r] = "idle"]
      /\ applied' = [applied EXCEPT ![r] = @ + 1]
      /\ UNCHANGED <<ledger, kv_table>>
  BY DEF Complete
<1>3. PICK m \in Nat : m = applied[r]
  BY <1>1, RMCounts
<1>4. PICK n \in 1 .. Len(ledger) : n = m + 1 /\ local_tx[r] = Trans(n)
  BY <1>1, <1>2, <1>3, Writing
<1>5. widx[r] = TxSize + 1 /\ TxSize \in Nat
  BY <1>1, <1>2, SizeAssumption DEF TypeOK
<1>6. \A x : WrittenAt(r, x) = Positions(n, x)
  <2>1. /\ local_tx[r].reads = ledger[n].reads
        /\ DOMAIN ledger[n].reads = 1 .. TxSize
    BY <1>1, <1>4, TransType
  <2>2. widx[r] - 1 = TxSize
    BY <1>5
  <2> QED
    BY <2>1, <2>2 DEF WrittenAt, Positions
<1>7. ASSUME NEW x \in Window(r)
      PROVE  kv_table[r][Slot(r, x)] = EntryAfter(ledger, x, n)
  <2>1. kv_table[r][Slot(r, x)] = IF ledger[n].commit /\ WrittenAt(r, x) # {}
                                  THEN EntryOf(local_tx[r], Latest(WrittenAt(r, x)))
                                  ELSE EntryAfter(ledger, x, m)
    BY <1>1, <1>2, <1>3, <1>4 DEF Tabled, WritingInv
  <2>2. EntryAfter(ledger, x, n) = IF ledger[n].commit /\ Positions(n, x) # {}
                                   THEN EntryOf(Trans(n), Latest(Positions(n, x)))
                                   ELSE EntryAfter(ledger, x, m)
    BY <1>1, <1>4, NextEntry
  <2> QED
    BY <1>4, <1>6, <2>1, <2>2
<1>8. rm'[r] = "idle" /\ applied'[r] = n
  BY <1>1, <1>2, <1>3, <1>4 DEF TypeOK
<1> QED
  BY <1>2, <1>7, <1>8 DEF Tabled, IdleInv

\* Every step keeps every table between two prefixes of the decisions.
LEMMA NextTableInv == IInv /\ [Next]_vars => TableInv'
<1> SUFFICES ASSUME IInv, [Next]_vars, NEW r \in RMSet PROVE Tabled(r)'
  BY DEF TableInv, Tabled
<1>1. TypeOK
  BY DEF IInv
<1>2. CASE UNCHANGED rmVars
  BY <1>2, TableStable DEF rmVars
<1>3. CASE Prepare(r)
  <2>1. /\ rm[r] = "idle" /\ UNCHANGED <<kv_table, applied, rm>>
    BY <1>3 DEF Prepare, Receives
  <2> QED
    BY <2>1, TableStable
<1>4. ASSUME NEW q \in RMSet, q # r, RMThread(q) PROVE Tabled(r)'
  <2>1. /\ rm'[r] = rm[r] /\ applied'[r] = applied[r] /\ widx'[r] = widx[r]
        /\ local_tx'[r] = local_tx[r] /\ kv_table'[r] = kv_table[r]
    BY <1>1, <1>4 DEF RMThread, Prepare, StartCommitAbort, WriteEntry, Complete, TypeOK
  <2> QED
    BY <2>1, TableStable
<1>5. CASE \E q \in RMSet : RMThread(q)
  BY <1>3, <1>4, <1>5, StartCommitAbortTabled, WriteEntryTabled, CompleteTabled
  DEF RMThread
<1>6. CASE TMThread
  BY <1>2, <1>6 DEF TMThread, Connect, TakeRequest, SendTX, ReceiveVote, Decide,
                    SendCommitAbort, ReceiveSignal
<1>7. CASE \E c \in Clients : ClientThread(c)
  BY <1>2, <1>7, ClientStepUnchanged
<1> QED
  BY <1>2, <1>5, <1>6, <1>7 DEF Next, Finished, vars, rmVars

-----------------------------------------------------------------------------
(* The invariant.                                                          *)

\* The invariant holds when the programs start.
LEMMA InitIInv == Init => IInv
<1> SUFFICES ASSUME Init PROVE IInv
  OBVIOUS
<1>1. TypeOK
  BY InitTypeOK
<1>2. /\ pc = [c \in Clients |-> "bidding"] /\ txrq = <<>> /\ tm = "connect"
      /\ promise = [c \in Clients |-> 0] /\ rm_connections = <<>>
      /\ local_version = 0 /\ ledger = <<>> /\ DOMAIN ledger = {} /\ DOMAIN txrq = {}
      /\ DOMAIN rm_connections = {} /\ Len(ledger) = 0
  BY DEF Init, ClientInit, TMInit
<1>3. /\ rm = [r \in RMSet |-> "idle"] /\ toRM = [r \in RMSet |-> <<>>]
      /\ fromRM = [r \in RMSet |-> <<>>] /\ votes = [r \in RMSet |-> <<>>]
      /\ heard = [r \in RMSet |-> <<>>] /\ applied = [r \in RMSet |-> 0]
      /\ kv_table = [r \in RMSet |-> [s \in Slots(r) |-> kv_value]]
  BY DEF Init, RMInit
<1>4. QueueInv
  BY <1>2 DEF QueueInv
<1>5. ConnectInv
  BY <1>2 DEF ConnectInv
<1>6. TMInv
  BY <1>2 DEF TMInv
<1>7. PipeInv
  BY <1>2 DEF PipeInv
<1>8. UnreachedInv
  BY <1>3 DEF UnreachedInv
<1>9. DecisionInv
  BY <1>2 DEF DecisionInv
<1>10. TableInv
  <2>1. \A l, x : EntryAfter(l, x, 0) = kv_value
    BY DEF EntryAfter, WritersIn
  <2>2. \A r \in RMSet : IdleInv(r)
    BY <1>3, <2>1, SlotIsSlot DEF IdleInv
  <2> QED
    BY <1>3, <2>2 DEF TableInv
<1> QED
  BY <1>1, <1>4, <1>5, <1>6, <1>7, <1>8, <1>9, <1>10 DEF IInv

\* The invariant of the whole protocol: queue, counters, both directions of
\* every connection, decisions and tables.
THEOREM Invariance == Spec => []IInv
<1>1. Init => IInv
  BY InitIInv
<1>2. IInv /\ [Next]_vars => IInv'
  BY NextTypeOK, NextQueueInv, NextConnectInv, NextTMInv, NextPipeInv, NextUnreachedInv,
     NextDecisionInv, NextTableInv DEF IInv
<1> QED
  BY <1>1, <1>2, PTL DEF Spec

-----------------------------------------------------------------------------
(* What the invariant says of the system.                                  *)

\* Every variable of the three programs has its type.
THEOREM TypeCorrect == Spec => []TypeOK
<1>1. IInv => TypeOK
  BY DEF IInv
<1> QED
  BY <1>1, Invariance, PTL

\* The consequences of the invariant, one lemma for each theorem.
LEMMA IInvHeardWord == IInv => HeardWord
<1> SUFFICES ASSUME IInv, NEW r \in RMSet, NEW n \in DOMAIN heard[r]
             PROVE  heard[r][n] = CASE n % 3 = 1 -> TM_RM_IDENTIFY
                                    [] n % 3 = 2 -> COMPLETE_SIG
                                    [] n % 3 = 0 -> votes[r][(2 * n) \div 3]
  BY DEF HeardWord
<1>1. n \in Nat \ {0}
  BY RMCounts DEF IInv
<1>2. PICK i \in DOMAIN rm_connections : r = RM(i)
  <2>1. heard[r] # <<>>
    OBVIOUS
  <2>2. r \in Connected
    BY <2>1 DEF IInv, UnreachedInv
  <2> QED
    BY <2>2 DEF Connected
<1>3. heard[r][n] = Word(r, 2 * n - 1)
  BY <1>2 DEF IInv, PipeInv, Pipe, HeardInv
<1>4. CASE n % 3 = 1
  <2>1. (2 * n - 1) % 3 = 1
    BY <1>1, <1>4
  <2> QED
    BY <1>3, <1>4, <2>1 DEF Word
<1>5. CASE n % 3 = 2
  <2>1. (2 * n - 1) % 3 = 0
    BY <1>1, <1>5
  <2> QED
    BY <1>3, <1>5, <2>1 DEF Word
<1>6. CASE n % 3 = 0
  <2>1. (2 * n - 1) % 3 = 2 /\ 2 * n - 1 + 1 = 2 * n
    BY <1>1, <1>6
  <2> QED
    BY <1>3, <1>6, <2>1 DEF Word
<1>7. n % 3 \in {0, 1, 2}
  BY <1>1
<1> QED
  BY <1>4, <1>5, <1>6, <1>7

\* What RMStub::SendDecision sends in two words and ClientStub::SendTX reads
\* as one: the n-th word taken for a decision is the identifier, the signal,
\* or, every third time, the vote on transaction 2n/3.
THEOREM WordsHeard == Spec => []HeardWord
BY IInvHeardWord, Invariance, PTL

\* The TM has heard a word from every RM for every decision it made.
LEMMA DecidedHeard ==
  ASSUME IInv, NEW n \in DOMAIN ledger, NEW i \in DOMAIN rm_connections
  PROVE  n \in Nat \ {0} /\ RM(i) \in RMSet /\ n \in DOMAIN heard[RM(i)]
<1>1. RM(i) \in RMSet /\ Len(ledger) \in Nat /\ n \in 1 .. Len(ledger)
  BY ConnectionIsRM, LenProperties DEF IInv, TypeOK
<1>2. Len(heard[RM(i)]) = DecisionsHeard(i)
  BY <1>1 DEF IInv, PipeInv, Pipe, HeardInv
<1>3. DecisionsHeard(i) \in {Len(ledger), Len(ledger) + 1}
  BY DEF DecisionsHeard
<1>4. DOMAIN heard[RM(i)] = 1 .. Len(heard[RM(i)])
  BY <1>1, RMCounts DEF IInv
<1> QED
  BY <1>1, <1>2, <1>3, <1>4

LEMMA IInvOnlyThirdsAbort == IInv => OnlyThirdsAbort
<1> SUFFICES ASSUME IInv, NEW n \in DOMAIN ledger
             PROVE  ledger[n].commit <=>
                      ~(n % 3 = 0 /\ \E r \in Connected : votes[r][(2 * n) \div 3] = -1)
  BY DEF OnlyThirdsAbort
<1>1. ledger[n].commit <=> \A i \in DOMAIN rm_connections : heard[RM(i)][n] # -1
  BY DEF IInv, DecisionInv
<1>2. ASSUME NEW i \in DOMAIN rm_connections
      PROVE  heard[RM(i)][n] = -1 <=> n % 3 = 0 /\ votes[RM(i)][(2 * n) \div 3] = -1
  <2>1. n \in Nat /\ RM(i) \in RMSet /\ n \in DOMAIN heard[RM(i)]
    BY DecidedHeard
  <2>2. heard[RM(i)][n] = CASE n % 3 = 1 -> TM_RM_IDENTIFY
                            [] n % 3 = 2 -> COMPLETE_SIG
                            [] n % 3 = 0 -> votes[RM(i)][(2 * n) \div 3]
    BY <2>1, IInvHeardWord DEF HeardWord
  <2>3. n % 3 \in {0, 1, 2}
    BY <2>1
  <2>4. TM_RM_IDENTIFY # -1 /\ COMPLETE_SIG # -1
    BY DEF TM_RM_IDENTIFY, COMPLETE_SIG
  <2>5. CASE n % 3 = 0
    BY <2>2, <2>5
  <2>6. CASE n % 3 # 0
    BY <2>2, <2>3, <2>4, <2>6
  <2> QED
    BY <2>5, <2>6
<1> QED
  BY <1>1, <1>2 DEF Connected

\* A transaction aborts only if it is a third one and some RM voted against
\* number 2n/3: no other vote has any effect.
THEOREM VotesLost == Spec => []OnlyThirdsAbort
BY IInvOnlyThirdsAbort, Invariance, PTL

LEMMA IInvLagBound == IInv => LagBound
<1> SUFFICES ASSUME IInv, NEW i \in DOMAIN rm_connections, NEW r \in RMSet, r = RM(i)
             PROVE  3 * applied[r] + 3 >= 2 * Len(ledger)
  BY ConnectionIsRM DEF IInv, LagBound, Connected
<1>1. TypeOK /\ TMInv /\ Pipe(i, r)
  BY DEF IInv, PipeInv
<1>2. PICK a \in Nat, D \in Nat, v \in Nat, W \in Nat, q \in Nat :
        /\ a = applied[r] /\ D = Len(ledger) /\ v = Len(votes[r])
        /\ W = WordsRead(i) /\ q = Len(fromRM[r])
  BY <1>1, RMCounts, TMCounts
<1>3. W >= 2 * D - 1
  BY <1>1, <1>2, TMCounts
<1>4. W + q = 2 * v + a
  BY <1>1, <1>2 DEF Pipe, UpInv, WordsSent
<1>5. v = a \/ v = a + 1
  BY <1>1, <1>2 DEF Pipe, TurnInv
<1>6. 3 * a + 3 >= 2 * D
  BY <1>3, <1>4, <1>5
<1> QED
  BY <1>2, <1>6

\* After n decisions every RM has completed (2n - 3)/3 of them.
THEOREM LagBounded == Spec => []LagBound
BY IInvLagBound, Invariance, PTL

LEMMA IInvUnreadWords == IInv => UnreadWords
<1> SUFFICES ASSUME IInv, NEW i \in DOMAIN rm_connections, NEW r \in RMSet, r = RM(i),
                    tm = "idle", toRM[r] = <<>>, rm[r] = "idle"
             PROVE  Len(fromRM[r]) = Len(ledger)
  BY ConnectionIsRM DEF IInv, UnreadWords, Connected
<1>1. TypeOK /\ TMInv /\ Pipe(i, r)
  BY DEF IInv, PipeInv
<1>2. PICK a \in Nat, D \in Nat, v \in Nat, q \in Nat :
        a = applied[r] /\ D = Len(ledger) /\ v = Len(votes[r]) /\ q = Len(fromRM[r])
  BY <1>1, RMCounts, TMCounts
<1>3. RequestsSent(i) = 2 * D /\ WordsRead(i) = 2 * D
  BY <1>2 DEF RequestsSent, WordsRead
<1>4. RequestsTaken(r) + 0 = 2 * D
  BY <1>1, <1>3, EmptySeq DEF Pipe, DownInv
<1>5. v + a = 2 * D
  BY <1>2, <1>4 DEF RequestsTaken
<1>6. 2 * D + q = 2 * v + a
  BY <1>1, <1>2, <1>3 DEF Pipe, UpInv, WordsSent
<1>7. v = a \/ v = a + 1
  BY <1>1, <1>2 DEF Pipe, TurnInv
<1>8. v = D /\ a = D
  BY <1>5, <1>7
<1>9. q = D
  BY <1>6, <1>8
<1> QED
  BY <1>2, <1>9

\* One word per decided transaction is never read from an RM's connection.
THEOREM WordsLeft == Spec => []UnreadWords
BY IInvUnreadWords, Invariance, PTL

\* EntryAfter is LedgerEntry of the ledger.
LEMMA LedgerEntryIs ==
  ASSUME NEW rid, NEW n
  PROVE  LedgerEntry(rid, n) = EntryAfter(ledger, rid, n)
BY DEF LedgerEntry, EntryAfter, Writers, WritersIn

LEMMA IInvReplicaIsPrefix == IInv => ReplicaIsPrefix
<1> SUFFICES ASSUME IInv, NEW r \in RMSet
             PROVE  /\ applied[r] <= Len(ledger)
                    /\ rm[r] = "idle" => \A rid \in Window(r) :
                         kv_table[r][Slot(r, rid)] = LedgerEntry(rid, applied[r])
  BY DEF ReplicaIsPrefix
<1>1. applied[r] <= Len(ledger)
  BY AppliedBound DEF IInv
<1>2. rm[r] = "idle" => IdleInv(r)
  BY DEF IInv, TableInv
<1> QED
  BY <1>1, <1>2, LedgerEntryIs DEF IdleInv

\* Every RM's table is the effect of a prefix of the TM's decisions, in order,
\* although the TM takes late words for answers and runs ahead of the RMs.
THEOREM ReplicasArePrefixes == Spec => []ReplicaIsPrefix
BY IInvReplicaIsPrefix, Invariance, PTL

-----------------------------------------------------------------------------
(* Nobody waits in vain.                                                   *)

\* When the TM waits for a word of an RM that has nothing to do, a word is there.
LEMMA IInvWordComes ==
  ASSUME IInv, tm \in {"vote", "ack"}
  PROVE  fromRM[RM(tmi)] # <<>> \/ toRM[RM(tmi)] # <<>> \/ rm[RM(tmi)] = "writing"
<1> SUFFICES ASSUME toRM[RM(tmi)] = <<>>, rm[RM(tmi)] # "writing"
             PROVE  fromRM[RM(tmi)] # <<>>
  OBVIOUS
<1>1. TypeOK /\ TMInv
  BY DEF IInv
<1>2. tmi \in DOMAIN rm_connections
  BY <1>1, LenProperties DEF TypeOK, TMInv
<1>3. PICK i \in DOMAIN rm_connections, r \in RMSet : i = tmi /\ r = RM(i)
  BY <1>1, <1>2, ConnectionIsRM
<1>4. Pipe(i, r)
  BY <1>3 DEF IInv, PipeInv
<1>5. PICK a \in Nat, D \in Nat, v \in Nat, q \in Nat :
        a = applied[r] /\ D = Len(ledger) /\ v = Len(votes[r]) /\ q = Len(fromRM[r])
  BY <1>1, <1>3, RMCounts, TMCounts
<1>6. RequestsTaken(r) = RequestsSent(i)
  <2>1. Len(toRM[r]) = 0
    BY <1>3, EmptySeq
  <2>2. RequestsTaken(r) \in Nat /\ RequestsTaken(r) + Len(toRM[r]) = RequestsSent(i)
    BY <1>1, <1>3, <1>4, RMCounts DEF Pipe, DownInv
  <2> QED
    BY <2>1, <2>2
<1>7. RequestsTaken(r) = v + a
  BY <1>3, <1>5 DEF RequestsTaken
<1>8. RequestsSent(i) = WordsRead(i) + 1
  BY <1>1, <1>3, TMCounts
<1>9. WordsRead(i) \in Nat /\ WordsRead(i) + q = 2 * v + a
  BY <1>1, <1>3, <1>4, <1>5, TMCounts DEF Pipe, UpInv, WordsSent
<1>10. v = a \/ v = a + 1
  BY <1>4, <1>5 DEF Pipe, TurnInv
<1>11. PICK W \in Nat : W = WordsRead(i)
  BY <1>9
<1>12. v + a = W + 1 /\ W + q = 2 * v + a
  BY <1>6, <1>7, <1>8, <1>9, <1>11
<1>13. q # 0
  BY <1>12
<1>14. Len(<<>>) = 0
  BY EmptySeq
<1> QED
  BY <1>3, <1>5, <1>13, <1>14

\* A worker that waits for a decision has its transaction in the queue or in
\* the TX thread's hands.
Remembered ==
  \A c \in Clients : (pc[c] = "waiting" /\ promise[c] = 0) =>
    (\E i \in DOMAIN txrq : txrq[i] = c) \/ (tm \in {"prepare", "vote"} /\ cur = c)

LEMMA ClientRemembered ==
  ASSUME IInv, Remembered, NEW d \in Clients, ClientThread(d)
  PROVE  Remembered'
<1>1. TypeOK /\ QueueInv /\ txrq \in Seq(Clients)
  BY DEF IInv, TypeOK
<1>2. CASE SendRead(d)
  BY <1>2 DEF SendRead, tmVars, Remembered
<1>3. CASE SendToTXThread(d)
  <2>1. /\ txrq' = Append(txrq, d) /\ UNCHANGED <<tm, cur>>
        /\ \A c \in Clients : c # d => pc'[c] = pc[c] /\ promise'[c] = promise[c]
    BY <1>1, <1>3 DEF SendToTXThread, TypeOK
  <2>2. /\ Len(txrq) \in Nat /\ DOMAIN txrq = 1 .. Len(txrq)
        /\ DOMAIN txrq' = 1 .. Len(txrq) + 1 /\ txrq'[Len(txrq) + 1] = d
        /\ \A i \in 1 .. Len(txrq) : txrq'[i] = txrq[i]
    BY <1>1, <2>1, AppendFacts
  <2>3. \E i \in DOMAIN txrq' : txrq'[i] = d
    <3>1. Len(txrq) + 1 \in DOMAIN txrq'
      BY <2>2
    <3> QED
      BY <2>2, <3>1
  <2>4. ASSUME NEW c \in Clients, \E i \in DOMAIN txrq : txrq[i] = c
        PROVE  \E i \in DOMAIN txrq' : txrq'[i] = c
    <3>1. PICK i \in 1 .. Len(txrq) : txrq[i] = c
      BY <2>2, <2>4
    <3>2. i \in DOMAIN txrq' /\ txrq'[i] = c
      BY <2>2, <3>1
    <3> QED
      BY <3>2
  <2> QED
    BY <2>1, <2>3, <2>4 DEF Remembered
<1>4. CASE ReceiveDecision(d)
  <2>1. /\ UNCHANGED <<txrq, tm, cur>> /\ pc'[d] = "bidding"
        /\ \A c \in Clients : c # d => pc'[c] = pc[c] /\ promise'[c] = promise[c]
    BY <1>1, <1>4 DEF ReceiveDecision, TypeOK, tmVars
  <2> QED
    BY <2>1 DEF Remembered
<1> QED
  BY <1>2, <1>3, <1>4 DEF ClientThread

LEMMA NextRemembered == IInv /\ Remembered /\ [Next]_vars => Remembered'
<1> SUFFICES ASSUME IInv, Remembered, [Next]_vars PROVE Remembered'
  OBVIOUS
<1>1. TypeOK /\ QueueInv /\ txrq \in Seq(Clients)
  BY DEF IInv, TypeOK
<1>2. CASE UNCHANGED <<pc, promise, txrq, tm, cur>>
  BY <1>2 DEF Remembered
<1>3. CASE TakeRequest
  <2> SUFFICES ASSUME NEW c \in Clients, pc'[c] = "waiting", promise'[c] = 0
               PROVE  (\E i \in DOMAIN txrq' : txrq'[i] = c)
                      \/ (tm' \in {"prepare", "vote"} /\ cur' = c)
    BY DEF Remembered
  <2>1. /\ tm = "idle" /\ txrq # <<>> /\ cur' = Head(txrq) /\ txrq' = Tail(txrq)
        /\ tm' = "prepare" /\ UNCHANGED <<pc, promise>>
    BY <1>3 DEF TakeRequest, clientVars
  <2>2. PICK i \in DOMAIN txrq : txrq[i] = c
    BY <2>1 DEF Remembered
  <2>3. /\ Len(txrq) \in Nat \ {0} /\ DOMAIN txrq = 1 .. Len(txrq) /\ Head(txrq) = txrq[1]
        /\ DOMAIN Tail(txrq) = 1 .. Len(txrq) - 1
        /\ \A j \in 1 .. Len(txrq) - 1 : Tail(txrq)[j] = txrq[j + 1]
    BY <1>1, <2>1, EmptySeq, LenProperties, HeadTailProperties
  <2>4. CASE i = 1
    BY <2>1, <2>2, <2>3, <2>4
  <2>5. CASE i # 1
    <3>1. i - 1 \in 1 .. Len(txrq) - 1 /\ Tail(txrq)[i - 1] = txrq[(i - 1) + 1] /\ (i - 1) + 1 = i
      BY <2>3, <2>5
    <3> QED
      BY <2>1, <2>2, <2>3, <3>1
  <2> QED
    BY <2>4, <2>5
<1>4. CASE Decide
  <2>1. /\ tm = "prepare" /\ cur \in Clients /\ promise'[cur] # 0
        /\ UNCHANGED <<pc, txrq, cur>>
        /\ \A c \in Clients : c # cur => promise'[c] = promise[c]
    BY <1>1, <1>4 DEF Decide, TypeOK, QueueInv, clientVars
  <2> QED
    BY <2>1 DEF Remembered
<1>5. CASE SendTX \/ ReceiveVote
  BY <1>5 DEF SendTX, ReceiveVote, clientVars, Remembered
<1>6. CASE Connect \/ SendCommitAbort \/ ReceiveSignal
  <2>1. tm \notin {"prepare", "vote"} /\ UNCHANGED <<pc, promise, txrq>>
    BY <1>6 DEF Connect, SendCommitAbort, ReceiveSignal, clientVars
  <2> QED
    BY <2>1 DEF Remembered
<1>7. ASSUME NEW r \in RMSet, RMThread(r) PROVE UNCHANGED <<pc, promise, txrq, tm, cur>>
  BY <1>7 DEF RMThread, Prepare, StartCommitAbort, WriteEntry, Complete, clientVars, tmVars
<1> QED
  BY <1>2, <1>3, <1>4, <1>5, <1>6, <1>7, ClientRemembered
  DEF Next, TMThread, Finished, vars

\* Nobody waits for what never comes, for any number of resource managers and
\* transactions, though the TM takes two of the three words sent for each.
THEOREM NobodyInVain == Spec => []NobodyWaitsInVain
<1>1. Init => Remembered
  BY DEF Init, ClientInit, Remembered
<1>2. IInv /\ Remembered => NobodyWaitsInVain
  BY IInvWordComes DEF Remembered, NobodyWaitsInVain
<1> QED
  BY <1>1, <1>2, NextRemembered, Invariance, PTL DEF Spec

-----------------------------------------------------------------------------
(* The client programs.                                                    *)

\* Where the program of type 3 is in its list of resource managers and robots.
ReportInv == rmc \in Nat \ {0} /\ current_index \in Nat /\ num_reqs \in Nat

\* The programs take steps of the TM, the RMs and the customers, and steps of
\* the main thread and of the report that leave those alone.
LEMMA ProgramStep ==
  /\ ProgramInit => Init
  /\ [ProgramNext]_allVars => [Next]_vars
<1>1. ProgramInit => Init
  BY DEF ProgramInit
<1>2. ASSUME [ProgramNext]_allVars PROVE [Next]_vars
  <2>1. CASE MainThread
    BY <2>1 DEF MainThread, Spawn, Join, PrintStats
  <2>2. CASE ReportRow
    BY <2>2 DEF ReportRow
  <2>3. CASE Manager \/ \E r \in RMSet : Resources(r)
    BY <2>3 DEF Manager, Resources, Next
  <2>4. CASE \E c \in Clients : Customer(c)
    BY <2>4 DEF Customer, Next
  <2>5. CASE Ended \/ UNCHANGED allVars
    BY <2>5 DEF Ended, allVars
  <2> QED
    BY <1>2, <2>1, <2>2, <2>3, <2>4, <2>5 DEF ProgramNext
<1> QED
  BY <1>1, <1>2

\* Only a row that is printed moves the report on.
LEMMA ReportStands ==
  ASSUME [ProgramNext]_allVars, ~ReportRow
  PROVE  UNCHANGED reportVars
<1>1. CASE MainThread
  BY <1>1 DEF MainThread, Spawn, Join, PrintStats
<1>2. CASE Manager \/ \E r \in RMSet : Resources(r)
  BY <1>2 DEF Manager, Resources
<1>3. CASE \E c \in Clients : Customer(c)
  BY <1>3 DEF Customer
<1>4. CASE Ended \/ UNCHANGED allVars
  BY <1>4 DEF Ended, allVars
<1> QED
  BY <1>1, <1>2, <1>3, <1>4 DEF ProgramNext

\* A row is of a robot in the window of the RM that is asked.
LEMMA RowInWindow ==
  ASSUME ReportInv, ReportRow
  PROVE  /\ RMs[rmc'] \in RMSet /\ current_index \in Window(RMs[rmc'])
         /\ ReportInv'
<1>1. PICK i \in rmc .. Len(RMs) :
        HasRow(RMs[i]) /\ rmc' = i /\ current_index' = current_index + 1
        /\ num_reqs' = num_reqs - 1
  BY DEF ReportRow
<1>2. Len(RMs) \in Nat /\ DOMAIN RMs = 1 .. Len(RMs)
  BY RMAssumption, LenProperties
<1>3. i \in 1 .. Len(RMs)
  BY <1>2 DEF ReportInv
<1>4. RMs[i] \in RMSet
  BY <1>2, <1>3 DEF RMSet
<1>5. PICK b \in Nat, n \in Nat : b = KvBase[RMs[i]] /\ n = KvTblSize[RMs[i]]
  BY <1>4, RMAssumption
<1>6. PICK x \in Nat, q \in Nat : x = current_index /\ q = num_reqs
  BY DEF ReportInv
<1>7. q > 0 /\ x <= b + n - 1 /\ x >= b
  BY <1>1, <1>5, <1>6 DEF HasRow
<1>8. x \in b .. b + n - 1 /\ q - 1 \in Nat /\ x + 1 \in Nat
  BY <1>5, <1>6, <1>7
<1>9. i \in Nat \ {0}
  BY <1>2, <1>3
<1> QED
  BY <1>1, <1>4, <1>5, <1>6, <1>8, <1>9 DEF Window, ReportInv

\* The robots of the first report row are those of the command line.
LEMMA ReportInvariant == ProgramSpec => []ReportInv
<1>1. ProgramInit => ReportInv
  <2>1. ReportStart \in Nat
    BY ReportAssumption, SlotIsSlot DEF Robots
  <2> QED
    BY <2>1, ReportAssumption DEF ProgramInit, ReportInv
<1>2. ReportInv /\ [ProgramNext]_allVars => ReportInv'
  BY ReportStands, RowInWindow DEF reportVars, ReportInv
<1> QED
  BY <1>1, <1>2, PTL DEF ProgramSpec

-----------------------------------------------------------------------------
(* The entries that a resource manager may answer with.                    *)

\* An entry that a decided transaction writes for a robot, if none of the
\* first m decisions wrote the robot later.
LEMMA WrittenNoOlder ==
  ASSUME NEW rid, NEW m, NEW k \in Writers(rid, Len(ledger)),
         \A j \in Writers(rid, m) : j <= k,
         NEW i \in DOMAIN ledger[k].reads, ledger[k].reads[i].rid = rid,
         NEW entry, entry = [bid |-> ledger[k].reads[i].bid + 1,
                             customer_id |-> ledger[k].customer_id, version |-> k]
  PROVE  NoOlder(rid, entry, m)
<1>1. entry \in Written(rid, k)
  BY DEF Written
<1> QED
  BY <1>1 DEF NoOlder

\* The entry after n decisions misses none of the first n that wrote.
LEMMA EntryAfterNoOlder ==
  ASSUME TypeOK, TMInv, NEW n \in Nat, n <= Len(ledger), NEW rid,
         NEW m \in Int, m <= n
  PROVE  NoOlder(rid, EntryAfter(ledger, rid, n), m)
<1> DEFINE W == WritersIn(ledger, rid, n)
<1>1. Len(ledger) \in Nat
  BY LenProperties DEF TypeOK
<1>2. /\ W \subseteq 1 .. n /\ Writers(rid, m) \subseteq W
      /\ W \subseteq Writers(rid, Len(ledger))
  BY <1>1 DEF Writers, WritersIn
<1>3. CASE W = {}
  BY <1>2, <1>3 DEF EntryAfter, NoOlder
<1>4. CASE W # {}
  <2>1. PICK k \in W : k = Latest(W) /\ \A j \in W : j <= k
    BY <1>2, <1>4, LatestIsLast
  <2>2. k \in 1 .. Len(ledger)
    BY <1>1, <1>2
  <2> DEFINE P == {j \in DOMAIN ledger[k].reads : ledger[k].reads[j].rid = rid}
  <2>3. P # {} /\ P \subseteq 1 .. TxSize
    BY <2>2, TransType DEF WritersIn, Rids
  <2>4. Latest(P) \in P
    BY <2>3, LatestIsLast, SizeAssumption
  <2>5. EntryAfter(ledger, rid, n) =
          [bid |-> ledger[k].reads[Latest(P)].bid + 1,
           customer_id |-> ledger[k].customer_id, version |-> k]
    BY <1>4, <2>1 DEF EntryAfter
  <2>6. k \in Writers(rid, Len(ledger)) /\ \A j \in Writers(rid, m) : j <= k
    BY <1>2, <2>1
  <2> QED
    BY <2>4, <2>5, <2>6, WrittenNoOlder
<1> QED
  BY <1>3, <1>4

\* At every time, also between two writes of a commit, an RM holds for each of
\* its robots what a decided transaction wrote, or the initial entry, and
\* nothing older than the decisions it has applied.
LEMMA EntryNoOlder ==
  ASSUME IInv, NEW r \in RMSet, NEW rid \in Window(r), NEW m \in Int, m <= applied[r]
  PROVE  NoOlder(rid, ReadEntry(r, rid), m)
<1>1. TypeOK /\ TMInv /\ PipeInv /\ UnreachedInv
  BY DEF IInv
<1>2. PICK n \in Nat : n = applied[r] /\ n <= Len(ledger)
  BY <1>1, AppliedBound
<1>3. NoOlder(rid, EntryAfter(ledger, rid, n), m)
  BY <1>1, <1>2, EntryAfterNoOlder
<1>4. CASE rm[r] # "writing" \/ ~ledger[n + 1].commit \/ WrittenAt(r, rid) = {}
  BY <1>2, <1>3, <1>4 DEF IInv, TableInv, IdleInv, WritingInv, ReadEntry
<1>5. CASE rm[r] = "writing" /\ ledger[n + 1].commit /\ WrittenAt(r, rid) # {}
  <2> DEFINE k == n + 1
             i == Latest(WrittenAt(r, rid))
  <2>1. k \in 1 .. Len(ledger) /\ Len(ledger) \in Nat /\ local_tx[r] = Trans(k)
    BY <1>1, <1>2, <1>5, Writing
  <2>2. /\ DOMAIN ledger[k].reads = 1 .. TxSize /\ local_tx[r].reads = ledger[k].reads
        /\ local_tx[r].customer_id = ledger[k].customer_id /\ local_tx[r].version = k
    BY <1>1, <2>1, TransType
  <2>3. widx[r] \in 1 .. TxSize + 1
    BY <1>1 DEF TypeOK
  <2>4. WrittenAt(r, rid) \subseteq 1 .. TxSize
    BY <2>3, SizeAssumption DEF WrittenAt
  <2>5. i \in WrittenAt(r, rid)
    BY <1>5, <2>4, LatestIsLast, SizeAssumption
  <2>6. i \in DOMAIN ledger[k].reads /\ ledger[k].reads[i].rid = rid
    BY <2>2, <2>4, <2>5 DEF WrittenAt
  <2>7. ReadEntry(r, rid) = [bid |-> ledger[k].reads[i].bid + 1,
                             customer_id |-> ledger[k].customer_id, version |-> k]
    BY <1>2, <1>5, <2>2 DEF IInv, TableInv, WritingInv, ReadEntry, EntryOf
  <2>8. k \in Writers(rid, Len(ledger))
    BY <1>5, <2>1, <2>6 DEF Writers, Rids
  <2>9. \A j \in Writers(rid, m) : j <= k
    BY <1>2, <2>1 DEF Writers
  <2> HIDE DEF k, i
  <2> QED
    BY <2>6, <2>7, <2>8, <2>9, WrittenNoOlder
<1> QED
  BY <1>4, <1>5

\* What is left of LagBound when a third is rounded up.
LEMMA ThirdsApplied ==
  ASSUME NEW a \in Nat, NEW L \in Nat, 3 * a + 3 >= 2 * L
  PROVE  (2 * L - 1) \div 3 \in Int /\ (2 * L - 1) \div 3 <= a
OBVIOUS

\* How stale the answer of an RM is, whenever it is asked.
LEMMA RowIsFresh ==
  ASSUME IInv, NEW r \in RMSet, NEW rid \in Window(r)
  PROVE  IF r \in Connected
         THEN NoOlder(rid, ReadEntry(r, rid), (2 * Len(ledger) - 1) \div 3)
         ELSE ReadEntry(r, rid) = kv_value
<1>1. CASE r \in Connected
  <2>1. applied[r] \in Nat /\ Len(ledger) \in Nat
    BY AppliedBound DEF IInv
  <2>2. 3 * applied[r] + 3 >= 2 * Len(ledger)
    BY <1>1, IInvLagBound DEF LagBound
  <2> QED
    BY <1>1, <2>1, <2>2, ThirdsApplied, EntryNoOlder
<1>2. CASE r \notin Connected
  <2>1. kv_table[r] = [s \in Slots(r) |-> kv_value] /\ Slot(r, rid) \in Slots(r)
    BY <1>2, SlotIsSlot DEF IInv, UnreachedInv
  <2> QED
    BY <1>2, <2>1 DEF ReadEntry
<1> QED
  BY <1>1, <1>2

-----------------------------------------------------------------------------

LEMMA ProgramInvariance == ProgramSpec => [](IInv /\ ReportInv)
<1>1. ProgramInit => IInv
  BY ProgramStep, InitIInv
<1>2. IInv /\ [ProgramNext]_allVars => IInv'
  BY ProgramStep, NextTypeOK, NextQueueInv, NextConnectInv, NextTMInv, NextPipeInv,
     NextUnreachedInv, NextDecisionInv, NextTableInv DEF IInv
<1> QED
  BY <1>1, <1>2, ReportInvariant, PTL DEF ProgramSpec

\* Every row that is printed shows the robot it is labelled with as of some
\* decision of the TM, with at most the last third of the decisions, and one
\* more, missing; robots of an RM that was not reached are as they were.
THEOREM RowsFresh == ProgramSpec => RowsAreFresh
<1> DEFINE Fresh ==
      num_reqs' # num_reqs =>
        LET r == RMs[rmc'] IN
          IF r \in Connected
          THEN NoOlder(Row(r).rid, Row(r).entry, (2 * Len(ledger) - 1) \div 3)
          ELSE Row(r).entry = kv_value
<1>1. IInv /\ ReportInv /\ [ProgramNext]_allVars => Fresh
  <2> SUFFICES ASSUME IInv, ReportInv, [ProgramNext]_allVars, num_reqs' # num_reqs
               PROVE  Fresh
    OBVIOUS
  <2>1. ReportRow
    BY ReportStands DEF reportVars
  <2>2. RMs[rmc'] \in RMSet /\ current_index \in Window(RMs[rmc'])
    BY <2>1, RowInWindow
  <2>3. \A r : Row(r).rid = current_index /\ Row(r).entry = ReadEntry(r, current_index)
    BY DEF Row
  <2> QED
    BY <2>2, <2>3, RowIsFresh
<1>2. IInv /\ ReportInv /\ [ProgramNext]_allVars => [Fresh]_allVars
  BY <1>1
<1> HIDE DEF Fresh
<1>3. ProgramSpec => [][Fresh]_allVars
  BY <1>2, ProgramInvariance, PTL DEF ProgramSpec
<1> QED
  BY <1>3 DEF RowsAreFresh, Fresh

-----------------------------------------------------------------------------
(* The totals that the bidding program prints.                             *)

\* A customer that has made its requests is done: it has no transaction begun
\* and no request under way.
ReturnInv ==
  \A c \in Clients :
    /\ commits[c] + aborts[c] <= NumReqs[c]
    /\ Returned(c) => pc[c] = "bidding" /\ tx[c] = <<>>

\* The main thread joins the customers in turn, prints when all have returned,
\* and what it prints stays what they counted.
MainInv ==
  /\ spawned \in BOOLEAN /\ joined \in 0 .. num_customers
  /\ \A c \in 0 .. joined - 1 : Returned(c)
  /\ printed # <<>> => joined = num_customers /\ printed = <<Merge(commits), Merge(aborts)>>

\* Each decision of the TM is counted by its customer or is its promise.
WonOf == [c \in Clients |-> commits[c] + IF promise[c] = 1 THEN 1 ELSE 0]
LostOf == [c \in Clients |-> aborts[c] + IF promise[c] = -1 THEN 1 ELSE 0]
DecidedInv ==
  /\ SumFunctionOnSet(WonOf, Clients) = Decided(TRUE)
  /\ SumFunctionOnSet(LostOf, Clients) = Decided(FALSE)

LEMMA Customers ==
  /\ num_customers \in Nat /\ Clients = 0 .. num_customers - 1 /\ IsFiniteSet(Clients)
  /\ \A c \in Clients : NumReqs[c] \in Nat
BY CustomersAssumption, SizeAssumption, FS_CardinalityType DEF num_customers

\* The steps of the TM and of the RMs, seen by the customers' counts.
LEMMA OthersCount ==
  ASSUME TMThread \/ \E r \in RMSet : RMThread(r)
  PROVE  UNCHANGED clientVars
BY RMStepUnchanged DEF TMThread, Connect, TakeRequest, SendTX, ReceiveVote, Decide,
   SendCommitAbort, ReceiveSignal

\* A decision is received.
LEMMA Received ==
  ASSUME TypeOK, NEW c \in Clients, ReceiveDecision(c)
  PROVE  \E m, a \in Nat :
           /\ m = commits[c] /\ a = aborts[c] /\ promise'[c] = 0 /\ promise[c] \in {1, -1}
           /\ promise[c] = 1 => commits'[c] = m + 1 /\ aborts'[c] = a
           /\ promise[c] = -1 => commits'[c] = m /\ aborts'[c] = a + 1
           /\ commits'[c] + aborts'[c] = m + a + 1
<1>1. PICK m \in Nat, a \in Nat : m = commits[c] /\ a = aborts[c]
  BY DEF TypeOK
<1>2. promise[c] \in {1, -1} /\ promise'[c] = 0
  BY DEF TypeOK, ReceiveDecision
<1>3. CASE promise[c] = 1
  <2>1. commits'[c] = m + 1 /\ aborts'[c] = a
    BY <1>1, <1>3 DEF ReceiveDecision, TypeOK
  <2> QED
    BY <1>1, <1>2, <1>3, <2>1
<1>4. CASE promise[c] = -1
  <2>1. commits'[c] = m /\ aborts'[c] = a + 1
    BY <1>1, <1>4 DEF ReceiveDecision, TypeOK
  <2> QED
    BY <1>1, <1>2, <1>4, <2>1
<1> QED
  BY <1>2, <1>3, <1>4

\* A customer that has returned stays so.
LEMMA NextReturnInv == IInv /\ ReturnInv /\ [Next]_vars => ReturnInv'
<1> SUFFICES ASSUME IInv, ReturnInv, [Next]_vars PROVE ReturnInv'
  OBVIOUS
<1> USE DEF ReturnInv, Returned
<1>1. TypeOK
  BY DEF IInv
<1>2. CASE UNCHANGED clientVars
  BY <1>2 DEF clientVars
<1>3. ASSUME NEW c \in Clients, SendRead(c) PROVE ReturnInv'
  <2>1. /\ commits[c] + aborts[c] < NumReqs[c] /\ UNCHANGED <<pc, commits, aborts>>
        /\ \A d \in Clients : d # c => tx'[d] = tx[d]
    BY <1>1, <1>3 DEF SendRead, TypeOK
  <2>2. commits[c] + aborts[c] # NumReqs[c]
    BY <1>1, <2>1, SizeAssumption DEF TypeOK
  <2> QED
    BY <2>1, <2>2
<1>4. ASSUME NEW c \in Clients, SendToTXThread(c) PROVE ReturnInv'
  <2>1. /\ Len(tx[c]) = TxSize /\ UNCHANGED <<tx, commits, aborts>>
        /\ \A d \in Clients : d # c => pc'[d] = pc[d]
    BY <1>1, <1>4 DEF SendToTXThread, TypeOK
  <2>2. tx[c] # <<>>
    BY <2>1, SizeAssumption, EmptySeq
  <2> QED
    BY <2>1, <2>2
<1>5. ASSUME NEW c \in Clients, ReceiveDecision(c) PROVE ReturnInv'
  <2>1. /\ pc[c] = "waiting" /\ pc'[c] = "bidding" /\ tx'[c] = <<>>
        /\ \A d \in Clients : d # c => /\ pc'[d] = pc[d] /\ tx'[d] = tx[d]
                                       /\ commits'[d] = commits[d] /\ aborts'[d] = aborts[d]
    BY <1>1, <1>5 DEF ReceiveDecision, TypeOK
  <2>2. PICK m \in Nat, a \in Nat :
          m = commits[c] /\ a = aborts[c] /\ commits'[c] + aborts'[c] = m + a + 1
    BY <1>1, <1>5, Received
  <2>3. m + a <= NumReqs[c] /\ m + a # NumReqs[c]
    BY <2>1, <2>2
  <2>4. commits'[c] + aborts'[c] <= NumReqs[c]
    <3>1. PICK k \in Nat : k = NumReqs[c]
      BY Customers
    <3>2. m + a + 1 <= k
      BY <2>3, <3>1
    <3> QED
      BY <2>2, <3>1, <3>2
  <2> QED
    BY <2>1, <2>4
<1> QED
  BY <1>2, <1>3, <1>4, <1>5, OthersCount DEF Next, ClientThread, Finished, vars, clientVars

\* A customer that the main thread has joined stays returned.
LEMMA ReturnedStays ==
  ASSUME IInv, ReturnInv, [Next]_vars, NEW c \in Clients, Returned(c)
  PROVE  Returned(c)' /\ commits'[c] = commits[c] /\ aborts'[c] = aborts[c]
<1>1. TypeOK
  BY DEF IInv
<1>2. commits[c] + aborts[c] = NumReqs[c] /\ pc[c] = "bidding"
  BY DEF ReturnInv, Returned
<1>3. commits'[c] = commits[c] /\ aborts'[c] = aborts[c]
  <2>1. ASSUME NEW d \in Clients, ReceiveDecision(d)
        PROVE  commits'[c] = commits[c] /\ aborts'[c] = aborts[c]
    <3>1. d # c
      BY <1>2, <2>1 DEF ReceiveDecision
    <3> QED
      BY <1>1, <2>1, <3>1 DEF ReceiveDecision, TypeOK
  <2> QED
    BY <2>1, OthersCount DEF Next, ClientThread, SendRead, SendToTXThread, Finished, vars, clientVars
<1> QED
  BY <1>2, <1>3 DEF Returned

LEMMA NextMainInv ==
  IInv /\ IInv' /\ ReturnInv /\ MainInv /\ [ProgramNext]_allVars => MainInv'
<1> SUFFICES ASSUME IInv, IInv', ReturnInv, MainInv, [ProgramNext]_allVars PROVE MainInv'
  OBVIOUS
<1> USE DEF MainInv
<1>1. num_customers \in Nat /\ Clients = 0 .. num_customers - 1 /\ [Next]_vars
  BY Customers, ProgramStep
<1>2. \A c \in 0 .. joined - 1 : Returned(c)'
  BY <1>1, ReturnedStays
<1>3. CASE UNCHANGED mainVars
  <2>1. printed # <<>> => commits' = commits /\ aborts' = aborts
    <3>1. printed # <<>> => \A c \in Clients : commits'[c] = commits[c] /\ aborts'[c] = aborts[c]
      BY <1>1, ReturnedStays
    <3>2. /\ commits \in [Clients -> Nat] /\ commits' \in [Clients -> Nat]
          /\ aborts \in [Clients -> Nat] /\ aborts' \in [Clients -> Nat]
      BY DEF IInv, TypeOK
    <3> QED
      BY <3>1, <3>2
  <2> QED
    BY <1>2, <1>3, <2>1 DEF mainVars, Merge
<1>4. CASE Spawn
  BY <1>1, <1>2, <1>4 DEF Spawn, vars
<1>5. CASE Join
  <2>1. /\ joined < num_customers /\ joined' = joined + 1 /\ Returned(joined)
        /\ UNCHANGED <<vars, spawned, printed>>
    BY <1>5 DEF Join
  <2>2. joined \in Clients /\ joined' \in 0 .. num_customers
    BY <1>1, <2>1
  <2>3. \A c \in 0 .. joined' - 1 : c \in 0 .. joined - 1 \/ c = joined
    BY <1>1, <2>1
  <2>4. \A c \in 0 .. joined' - 1 : commits'[c] + aborts'[c] = NumReqs[c]
    <3>1. commits'[joined] + aborts'[joined] = NumReqs[joined]
      BY <2>1 DEF Returned, vars
    <3>2. \A c \in 0 .. joined - 1 : commits'[c] + aborts'[c] = NumReqs[c]
      BY <1>2 DEF Returned
    <3> QED
      BY <2>3, <3>1, <3>2
  <2>5. printed = <<>>
    BY <1>1, <2>1
  <2> QED
    BY <2>1, <2>2, <2>4, <2>5 DEF Returned
<1>6. CASE PrintStats
  <2>1. /\ joined = num_customers /\ printed' = <<Merge(commits), Merge(aborts)>>
        /\ UNCHANGED <<commits, aborts, spawned, joined>>
    BY <1>6 DEF PrintStats, vars
  <2>2. printed' = <<Merge(commits'), Merge(aborts')>>
    BY <2>1 DEF Merge
  <2> QED
    BY <1>2, <2>1, <2>2
<1> QED
  BY <1>3, <1>4, <1>5, <1>6
  DEF ProgramNext, MainThread, ReportRow, Manager, Resources, Customer, Ended, allVars, mainVars

\* The transactions decided in one way.
LEMMA DecidedCount ==
  ASSUME TypeOK, NEW b
  PROVE  IsFiniteSet({n \in DOMAIN ledger : ledger[n].commit = b}) /\ Decided(b) \in Nat
<1>1. IsFiniteSet(DOMAIN ledger)
  BY LenProperties, FS_Interval DEF TypeOK
<1> QED
  BY <1>1, FS_Subset, FS_CardinalityType DEF Decided

LEMMA DecidedOneMore ==
  ASSUME TypeOK, QueueInv, Decide, NEW b
  PROVE  Decided(b)' = IF b = final_decision THEN Decided(b) + 1 ELSE Decided(b)
<1> DEFINE S == {n \in DOMAIN ledger : ledger[n].commit = b}
           T == {n \in DOMAIN ledger' : ledger'[n].commit = b}
<1>1. PICK k \in Nat : k = Len(ledger)
  BY DecideAppends
<1>2. /\ DOMAIN ledger = 1 .. k /\ DOMAIN ledger' = 1 .. k + 1
      /\ \A n \in 1 .. k : ledger'[n] = ledger[n]
      /\ ledger'[k + 1].commit = final_decision
  BY <1>1, DecideAppends
<1>3. T = IF b = final_decision THEN S \cup {k + 1} ELSE S
  BY <1>1, <1>2
<1>4. IsFiniteSet(S) /\ Decided(b) = Cardinality(S)
  BY DecidedCount DEF Decided
<1>6. k + 1 \notin S
  BY <1>1, <1>2
<1>5. Decided(b)' = Cardinality(T)
  BY DEF Decided
<1> HIDE DEF S, T
<1> QED
  BY <1>3, <1>4, <1>5, <1>6, FS_AddElement

\* A count is a number.
LEMMA CountTypes ==
  ASSUME TypeOK
  PROVE  \A c \in Clients : /\ commits[c] \in Int /\ aborts[c] \in Int
                            /\ WonOf[c] \in Int /\ LostOf[c] \in Int
BY DEF TypeOK, WonOf, LostOf

\* Steps that make no decision move none to another customer.
LEMMA CountsSame ==
  ASSUME IInv, [Next]_vars, ~Decide, NEW d \in Clients
  PROVE  WonOf'[d] = WonOf[d] /\ LostOf'[d] = LostOf[d]
<1> USE DEF WonOf, LostOf
<1>1. TypeOK /\ QueueInv
  BY DEF IInv
<1>2. CASE UNCHANGED <<commits, aborts, promise>>
  BY <1>2
<1>3. ASSUME NEW c \in Clients, SendToTXThread(c)
      PROVE  UNCHANGED <<commits, aborts, promise>>
  BY <1>1, <1>3 DEF SendToTXThread, QueueInv, TypeOK
<1>4. ASSUME NEW c \in Clients, ReceiveDecision(c)
      PROVE  WonOf'[d] = WonOf[d] /\ LostOf'[d] = LostOf[d]
  <2>1. CASE d # c
    BY <1>1, <1>4, <2>1 DEF ReceiveDecision, TypeOK
  <2>2. CASE d = c
    <3>1. PICK m \in Nat, a \in Nat :
            /\ m = commits[c] /\ a = aborts[c] /\ promise'[c] = 0 /\ promise[c] \in {1, -1}
            /\ promise[c] = 1 => commits'[c] = m + 1 /\ aborts'[c] = a
            /\ promise[c] = -1 => commits'[c] = m /\ aborts'[c] = a + 1
      BY <1>1, <1>4, Received
    <3>2. /\ WonOf'[c] = commits'[c] + 0 /\ LostOf'[c] = aborts'[c] + 0
      BY <3>1
    <3>3. CASE promise[c] = 1
      <4>1. WonOf[c] = m + 1 /\ LostOf[c] = a + 0
        BY <3>1, <3>3
      <4> QED
        BY <2>2, <3>1, <3>2, <3>3, <4>1
    <3>4. CASE promise[c] = -1
      <4>1. WonOf[c] = m + 0 /\ LostOf[c] = a + 1
        BY <3>1, <3>4
      <4> QED
        BY <2>2, <3>1, <3>2, <3>4, <4>1
    <3> QED
      BY <3>1, <3>3, <3>4
  <2> QED
    BY <2>1, <2>2
<1>5. ASSUME TMThread, ~Decide PROVE UNCHANGED promise
  BY <1>5 DEF TMThread, Connect, TakeRequest, SendTX, ReceiveVote, SendCommitAbort, ReceiveSignal
<1>6. ASSUME NEW r \in RMSet, RMThread(r) PROVE UNCHANGED promise
  BY <1>6, RMStepUnchanged
<1> QED
  BY <1>2, <1>3, <1>4, <1>5, <1>6, OthersCount
  DEF Next, ClientThread, SendRead, Finished, vars, clientVars

LEMMA DecideCount ==
  ASSUME IInv, DecidedInv, Decide
  PROVE  DecidedInv'
<1>1. TypeOK /\ QueueInv
  BY DEF IInv
<1>2. /\ cur \in Clients /\ promise[cur] = 0 /\ UNCHANGED <<commits, aborts>>
      /\ promise'[cur] = IF final_decision THEN 1 ELSE -1
      /\ \A d \in Clients : d # cur => promise'[d] = promise[d]
  BY <1>1 DEF Decide, QueueInv, TypeOK, clientVars
<1>3. PICK m \in Nat, a \in Nat, c \in Clients : m = commits[c] /\ a = aborts[c] /\ c = cur
  BY <1>1, <1>2 DEF TypeOK
<1>4. \A d \in Clients : d # c => WonOf'[d] = WonOf[d] /\ LostOf'[d] = LostOf[d]
  BY <1>2, <1>3 DEF WonOf, LostOf
<1>5. WonOf[c] = m + 0 /\ LostOf[c] = a + 0
  BY <1>2, <1>3 DEF WonOf, LostOf
<1>6. /\ WonOf'[c] = m + IF final_decision THEN 1 ELSE 0
      /\ LostOf'[c] = a + IF final_decision THEN 0 ELSE 1
  BY <1>2, <1>3 DEF WonOf, LostOf
<1>7. \A d \in Clients : WonOf[d] \in Int /\ LostOf[d] \in Int
  BY <1>1, CountTypes
<1>8. \A d \in Clients : WonOf'[d] \in Int /\ LostOf'[d] \in Int
  BY <1>4, <1>6, <1>7
<1>9. /\ SumFunctionOnSet(WonOf', Clients) = SumFunctionOnSet(WonOf, Clients) + WonOf'[c] - WonOf[c]
      /\ SumFunctionOnSet(LostOf', Clients) = SumFunctionOnSet(LostOf, Clients) + LostOf'[c] - LostOf[c]
  BY <1>4, <1>7, <1>8, Customers, SumUpdate
<1>10. PICK w \in Nat, l \in Nat :
         w = SumFunctionOnSet(WonOf, Clients) /\ l = SumFunctionOnSet(LostOf, Clients)
  BY <1>1, DecidedCount DEF DecidedInv
<1>11. /\ Decided(TRUE)' = IF final_decision THEN w + 1 ELSE w
       /\ Decided(FALSE)' = IF final_decision THEN l ELSE l + 1
  <2>1. final_decision \in BOOLEAN
    BY <1>1 DEF TypeOK
  <2>2. /\ Decided(TRUE)' = IF final_decision THEN Decided(TRUE) + 1 ELSE Decided(TRUE)
        /\ Decided(FALSE)' = IF final_decision THEN Decided(FALSE) ELSE Decided(FALSE) + 1
    BY <1>1, <2>1, DecidedOneMore
  <2> QED
    BY <1>10, <2>2 DEF DecidedInv
<1>12. /\ SumFunctionOnSet(WonOf', Clients) = IF final_decision THEN w + 1 ELSE w
       /\ SumFunctionOnSet(LostOf', Clients) = IF final_decision THEN l ELSE l + 1
  BY <1>5, <1>6, <1>9, <1>10
<1> QED
  BY <1>11, <1>12 DEF DecidedInv

LEMMA NextDecidedInv == IInv /\ DecidedInv /\ [Next]_vars => DecidedInv'
<1> SUFFICES ASSUME IInv, DecidedInv, [Next]_vars, ~Decide PROVE DecidedInv'
  BY DecideCount
<1>1. /\ SumFunctionOnSet(WonOf', Clients) = SumFunctionOnSet(WonOf, Clients)
      /\ SumFunctionOnSet(LostOf', Clients) = SumFunctionOnSet(LostOf, Clients)
  <2>1. \A d \in Clients : /\ WonOf[d] \in Int /\ LostOf[d] \in Int
                           /\ WonOf[d] = WonOf'[d] /\ LostOf[d] = LostOf'[d]
    BY CountTypes, CountsSame DEF IInv
  <2> QED
    BY <2>1, Customers, SumSame
<1>2. ledger' = ledger
  BY ClientStepUnchanged, RMStepUnchanged
  DEF Next, TMThread, Connect, TakeRequest, SendTX, ReceiveVote, SendCommitAbort,
      ReceiveSignal, Finished, vars
<1> QED
  BY <1>1, <1>2 DEF DecidedInv, Decided

LEMMA InitProgram == ProgramInit => ReturnInv /\ MainInv /\ DecidedInv
<1> SUFFICES ASSUME ProgramInit PROVE ReturnInv /\ MainInv /\ DecidedInv
  OBVIOUS
<1>1. \A c \in Clients : /\ pc[c] = "bidding" /\ tx[c] = <<>> /\ promise[c] = 0
                         /\ commits[c] = 0 /\ aborts[c] = 0
  BY DEF ProgramInit, Init, ClientInit, TMInit
<1>2. ReturnInv
  BY <1>1, Customers DEF ReturnInv
<1>3. MainInv
  <2>1. spawned = FALSE /\ joined = 0 /\ printed = <<>>
    BY DEF ProgramInit
  <2>2. 0 .. joined - 1 = {} /\ 0 \in 0 .. num_customers
    BY <2>1, Customers
  <2> QED
    BY <2>1, <2>2 DEF MainInv
<1>4. \A c \in Clients : WonOf[c] = 0 /\ LostOf[c] = 0
  BY <1>1 DEF WonOf, LostOf
<1>5. PICK k \in Nat : k = Cardinality(Clients)
  BY Customers, FS_CardinalityType
<1>6. SumFunctionOnSet(WonOf, Clients) = k * 0 /\ SumFunctionOnSet(LostOf, Clients) = k * 0
  BY <1>4, <1>5, Customers, SumConstant
<1>7. ledger = <<>>
  BY DEF ProgramInit, Init
<1>8. Decided(TRUE) = 0 /\ Decided(FALSE) = 0
  <2>1. DOMAIN ledger = {}
    BY <1>7
  <2>2. \A b : {n \in DOMAIN ledger : ledger[n].commit = b} = {}
    BY <2>1
  <2> QED
    BY <2>2, FS_EmptySet DEF Decided
<1>9. k * 0 = 0
  OBVIOUS
<1> QED
  BY <1>2, <1>3, <1>6, <1>8, <1>9 DEF DecidedInv

\* When the totals are printed no decision is a promise any more.
LEMMA TotalsFromCounts ==
  IInv /\ ReturnInv /\ MainInv /\ DecidedInv => TotalsAreDecisions
<1> SUFFICES ASSUME IInv, ReturnInv, MainInv, DecidedInv, printed # <<>>
             PROVE  printed = <<Decided(TRUE), Decided(FALSE)>>
  BY DEF TotalsAreDecisions
<1>1. printed = <<Merge(commits), Merge(aborts)>> /\ \A c \in Clients : Returned(c)
  BY Customers DEF MainInv
<1>2. \A c \in Clients : promise[c] = 0
  BY <1>1 DEF ReturnInv, IInv, QueueInv
<1>3. \A c \in Clients : /\ WonOf[c] \in Int /\ LostOf[c] \in Int
                         /\ WonOf[c] = commits[c] /\ LostOf[c] = aborts[c]
  BY <1>2 DEF WonOf, LostOf, IInv, TypeOK
<1>4. /\ Merge(commits) = SumFunctionOnSet(WonOf, Clients)
      /\ Merge(aborts) = SumFunctionOnSet(LostOf, Clients)
  BY <1>3, Customers, SumSame DEF Merge
<1> QED
  BY <1>1, <1>4 DEF DecidedInv

LEMMA MainInvariance == ProgramSpec => [](IInv /\ ReturnInv /\ MainInv /\ DecidedInv)
<1>1. /\ ProgramInit => ReturnInv /\ MainInv /\ DecidedInv
      /\ IInv /\ IInv' /\ ReturnInv /\ MainInv /\ DecidedInv /\ [ProgramNext]_allVars =>
           ReturnInv' /\ MainInv' /\ DecidedInv'
  BY InitProgram, ProgramStep, NextReturnInv, NextMainInv, NextDecidedInv
<1> QED
  BY <1>1, ProgramInvariance, PTL DEF ProgramSpec

\* What the bidding program prints is what the TM decided, for any number of
\* customers, requests and resource managers: each decision is counted once,
\* by the customer whose transaction it was.
THEOREM TotalsMatch == ProgramSpec => []TotalsAreDecisions
BY MainInvariance, TotalsFromCounts, PTL

-----------------------------------------------------------------------------
(* The programs run out of steps.                                          *)

\* The TM tries each RM once.
ConnectCount ==
  /\ Len(rm_connections) <= Len(RMs)
  /\ tm = "connect" => tmi <= Len(RMs) + 1 /\ Len(rm_connections) <= tmi - 1

LEMMA Sizes ==
  /\ TxSize \in Nat \ {0} /\ Len(RMs) \in Nat /\ AllRequests \in Nat
  /\ CustomerSteps \in Nat /\ ManagerSteps \in Nat /\ ResourceSteps \in Nat
  /\ CustomerSteps = TxSize + 2 /\ ManagerSteps = 4 * Len(RMs) + 2
  /\ ResourceSteps = TxSize + 3
  /\ IsFiniteSet(RMSet)
<1>1. TxSize \in Nat \ {0} /\ Len(RMs) \in Nat /\ DOMAIN RMs = 1 .. Len(RMs)
  BY SizeAssumption, RMAssumption, LenProperties
<1>2. AllRequests \in Nat
  BY Customers, SumNat DEF AllRequests
<1>3. IsFiniteSet(RMSet)
  <2>1. IsFiniteSet(DOMAIN RMs)
    BY <1>1, FS_Interval
  <2>2. RMs \in Surjection(DOMAIN RMs, RMSet)
    <3>1. RMs \in [DOMAIN RMs -> RMSet]
      BY RMAssumption, <1>1, LenProperties
    <3> QED
      BY <3>1 DEF Surjection, RMSet
  <2> QED
    BY <2>1, <2>2, FS_Surjection
<1> QED
  BY <1>1, <1>2, <1>3 DEF CustomerSteps, ManagerSteps, ResourceSteps

LEMMA NextConnectCount == TypeOK /\ ConnectCount /\ [Next]_vars => ConnectCount'
<1> SUFFICES ASSUME TypeOK, ConnectCount, [Next]_vars PROVE ConnectCount'
  OBVIOUS
<1> USE DEF ConnectCount
<1>1. CASE UNCHANGED <<rm_connections, tm, tmi>>
  BY <1>1
<1>2. CASE Connect
  <2>1. PICK n \in Nat, i \in Nat, k \in Nat : n = Len(RMs) /\ i = tmi /\ k = Len(rm_connections)
    BY Sizes, LenProperties DEF TypeOK
  <2>2. k <= n /\ i <= n + 1 /\ k <= i - 1
    BY <1>2, <2>1 DEF Connect
  <2>3. CASE tmi > Len(RMs)
    BY <1>2, <2>1, <2>3 DEF Connect
  <2>4. CASE ~ (tmi > Len(RMs))
    <3>1. tmi <= Len(RMs) /\ tmi' = tmi + 1 /\ Reach(RMs[tmi])
      BY <1>2, <2>4 DEF Connect
    <3>2. RMs[tmi] \in RMSet
      BY <2>1, <3>1, RMAssumption, LenProperties, ElementOfSeq DEF TypeOK
    <3>3. Len(rm_connections') \in {k, k + 1}
      <4>1. CASE rm_connections' = Append(rm_connections, RMs[tmi])
        BY <2>1, <3>2, <4>1, AppendFacts DEF TypeOK
      <4>2. CASE rm_connections' = rm_connections
        BY <2>1, <4>2
      <4> QED
        BY <3>1, <4>1, <4>2 DEF Reach
    <3> QED
      BY <2>1, <2>2, <3>1, <3>3
  <2> QED
    BY <2>3, <2>4
<1>3. ASSUME TMThread, ~Connect PROVE rm_connections' = rm_connections /\ tm' # "connect"
  BY <1>3 DEF TMThread, TakeRequest, SendTX, ReceiveVote, Decide, SendCommitAbort, ReceiveSignal
<1> QED
  BY <1>1, <1>2, <1>3, ClientStepUnchanged, RMStepUnchanged
  DEF Next, Finished, vars, tmVars

\* The TM has decided as many transactions as it has one way or the other.
LEMMA DecidedBoth == TypeOK => Decided(TRUE) + Decided(FALSE) = Len(ledger)
<1> SUFFICES ASSUME TypeOK PROVE Decided(TRUE) + Decided(FALSE) = Len(ledger)
  OBVIOUS
<1> DEFINE S == {n \in DOMAIN ledger : ledger[n].commit = TRUE}
           T == {n \in DOMAIN ledger : ledger[n].commit = FALSE}
<1>1. PICK k \in Nat : k = Len(ledger) /\ DOMAIN ledger = 1 .. k
  BY LenProperties DEF TypeOK
<1>2. \A n \in DOMAIN ledger : ledger[n].commit \in BOOLEAN
  <2> DEFINE L == [customer_id : Clients, reads : Seq(Reads), commit : BOOLEAN]
  <2>1. ledger \in Seq(L)
    BY DEF TypeOK
  <2>2. \A n \in DOMAIN ledger : ledger[n] \in L
    <3> HIDE DEF L
    <3> QED
      BY <2>1, ElementOfSeq
  <2> QED
    BY <2>2
<1>3. S \cup T = 1 .. k /\ S \cap T = {}
  BY <1>1, <1>2
<1>4. /\ IsFiniteSet(S) /\ Cardinality(S) = Decided(TRUE) /\ Decided(TRUE) \in Nat
      /\ IsFiniteSet(T) /\ Cardinality(T) = Decided(FALSE) /\ Decided(FALSE) \in Nat
  BY DecidedCount DEF Decided
<1> HIDE DEF S, T
<1>5. Cardinality(S \cup T) = Cardinality(S) + Cardinality(T) - Cardinality(S \cap T)
  BY <1>4, FS_Union
<1>6. Cardinality(1 .. k) = k
  <2>1. 1 \in Int /\ k \in Int
    OBVIOUS
  <2>2. Cardinality(1 .. k) = IF 1 > k THEN 0 ELSE k - 1 + 1
    BY <2>1, FS_Interval
  <2> QED
    BY <2>2
<1>7. PICK s \in Nat, t \in Nat : s = Cardinality(S) /\ t = Cardinality(T)
  BY <1>4
<1>8. k = s + t - 0
  BY <1>3, <1>5, <1>6, <1>7, FS_EmptySet
<1>9. k = s + t
  BY <1>1, <1>7, <1>8
<1> QED
  BY <1>1, <1>4, <1>7, <1>9

\* The requests of c that the TM has taken.
TakenOf ==
  [c \in Clients |-> WonOf[c] + LostOf[c] + IF tm \in {"prepare", "vote"} /\ cur = c THEN 1 ELSE 0]

\* The TM takes no more requests than are made.
LEMMA RequestsBounded ==
  ASSUME IInv, ReturnInv, DecidedInv
  PROVE  local_version \in Nat /\ local_version <= AllRequests
<1>1. TypeOK /\ QueueInv /\ TMInv
  BY DEF IInv
<1> DEFINE both == [c \in Clients |-> WonOf[c] + LostOf[c]]
<1>2. \A c \in Clients : WonOf[c] \in Int /\ LostOf[c] \in Int /\ both[c] = WonOf[c] + LostOf[c]
  BY <1>1, CountTypes
<1>3. \A c \in Clients : both[c] \in Int
  BY <1>2
<1>4. ASSUME NEW c \in Clients
      PROVE  /\ TakenOf[c] \in Int /\ TakenOf[c] <= NumReqs[c]
             /\ ~ (tm \in {"prepare", "vote"} /\ cur = c) => TakenOf[c] = both[c]
             /\ tm \in {"prepare", "vote"} /\ cur = c => TakenOf[c] = both[c] + 1
  <2>1. PICK m \in Nat, a \in Nat, k \in Nat : m = commits[c] /\ a = aborts[c] /\ k = NumReqs[c]
    BY <1>1, Customers DEF TypeOK
  <2>2. m + a <= k /\ (pc[c] = "waiting" => m + a < k)
    BY <2>1 DEF ReturnInv, Returned
  <2>3. /\ promise[c] # 0 => pc[c] = "waiting"
        /\ (tm \in {"prepare", "vote"} /\ cur = c) => pc[c] = "waiting" /\ promise[c] = 0
    BY <1>1 DEF QueueInv
  <2>4. promise[c] \in {0, 1, -1}
    BY <1>1 DEF TypeOK
  <2>5. both[c] = m + a + IF promise[c] # 0 THEN 1 ELSE 0
    <3>1. /\ WonOf[c] = m + IF promise[c] = 1 THEN 1 ELSE 0
          /\ LostOf[c] = a + IF promise[c] = -1 THEN 1 ELSE 0
      BY <2>1 DEF WonOf, LostOf
    <3> QED
      BY <2>4, <3>1, <2>1
  <2>6. TakenOf[c] = both[c] + IF tm \in {"prepare", "vote"} /\ cur = c THEN 1 ELSE 0
    BY DEF TakenOf
  <2> HIDE DEF both
  <2>7. CASE tm \in {"prepare", "vote"} /\ cur = c
    <3>1. TakenOf[c] = m + a + 0 + 1
      BY <2>3, <2>5, <2>6, <2>7
    <3> QED
      BY <2>1, <2>2, <2>3, <2>5, <2>7, <3>1
  <2>8. CASE ~ (tm \in {"prepare", "vote"} /\ cur = c)
    <3>1. TakenOf[c] = both[c]
      BY <1>3, <2>6, <2>8
    <3>2. both[c] <= k
      BY <2>1, <2>2, <2>3, <2>5
    <3> QED
      BY <1>3, <2>1, <2>8, <3>1, <3>2
  <2> QED
    BY <2>7, <2>8
<1> HIDE DEF both
<1>5. PICK L \in Nat : L = Len(ledger)
  BY <1>1, LenProperties DEF TypeOK
<1>6. SumFunctionOnSet(both, Clients) = L
  <2>1. SumFunctionOnSet(both, Clients)
          = SumFunctionOnSet(WonOf, Clients) + SumFunctionOnSet(LostOf, Clients)
    BY <1>2, Customers, SumPlus
  <2> QED
    BY <1>1, <1>5, <2>1, DecidedBoth DEF DecidedInv
<1>7. SumFunctionOnSet(TakenOf, Clients) = local_version
  <2>1. CASE tm \in {"prepare", "vote"}
    <3>1. PICK c \in Clients : c = cur
      BY <1>1, <2>1 DEF QueueInv
    <3>2. TakenOf[c] = both[c] + 1 /\ \A d \in Clients : d # c => TakenOf[d] = both[d]
      BY <1>4, <2>1, <3>1
    <3>3. SumFunctionOnSet(TakenOf, Clients) = SumFunctionOnSet(both, Clients) + TakenOf[c] - both[c]
      BY <1>3, <1>4, <3>2, Customers, SumUpdate
    <3>4. local_version = L + 1
      BY <1>1, <1>5, <2>1 DEF TMInv
    <3> QED
      BY <1>3, <1>5, <1>6, <3>2, <3>3, <3>4
  <2>2. CASE tm \notin {"prepare", "vote"}
    <3>1. \A d \in Clients : both[d] \in Int /\ both[d] = TakenOf[d]
      BY <1>3, <1>4, <2>2
    <3>2. SumFunctionOnSet(both, Clients) = SumFunctionOnSet(TakenOf, Clients)
      BY <3>1, Customers, SumSame
    <3>3. local_version = L
      BY <1>1, <1>5, <2>2 DEF TMInv, TypeOK
    <3> QED
      BY <1>6, <3>2, <3>3
  <2> QED
    BY <2>1, <2>2
<1>8. SumFunctionOnSet(TakenOf, Clients) <= SumFunctionOnSet(NumReqs, Clients)
  <2>1. \A c \in Clients : TakenOf[c] \in Int /\ NumReqs[c] \in Int /\ TakenOf[c] <= NumReqs[c]
    BY <1>4, Customers
  <2> QED
    BY <2>1, Customers, SumMonotonic
<1> QED
  BY <1>1, <1>7, <1>8 DEF AllRequests, TypeOK

\* An RM has voted on no more than the requests taken, and applies a decision
\* before it votes again.
LEMMA VotesBounded ==
  ASSUME IInv, NEW r \in RMSet
  PROVE  \E v, a \in Nat :
           /\ v = Len(votes[r]) /\ a = applied[r] /\ v \in {a, a + 1}
           /\ rm[r] = "writing" => v = a + 1
           /\ v <= local_version
<1>1. TypeOK /\ TMInv /\ PipeInv /\ UnreachedInv
  BY DEF IInv
<1>2. PICK v \in Nat, a \in Nat, l \in Nat :
        v = Len(votes[r]) /\ a = applied[r] /\ l = local_version
  BY <1>1, RMCounts DEF TypeOK
<1>3. CASE r \in Connected
  <2>1. PICK i \in DOMAIN rm_connections : r = RM(i)
    BY <1>3 DEF Connected
  <2>2. TurnInv(r) /\ DownInv(i, r)
    BY <1>1, <2>1 DEF PipeInv, Pipe
  <2>3. v \in {a, a + 1} /\ (rm[r] = "writing" => v = a + 1)
    BY <1>2, <2>2 DEF TurnInv
  <2>4. PICK t \in Nat, w \in Nat, s \in Nat, L \in Nat :
          /\ t = RequestsTaken(r) /\ w = Len(toRM[r]) /\ s = RequestsSent(i) /\ L = Len(ledger)
    BY <1>1, <2>1, RMCounts, TMCounts
  <2>5. t + w = s /\ v + a <= t
    <3>1. t + w = s
      BY <2>2, <2>4 DEF DownInv
    <3>2. t = v + a + (IF rm[r] = "writing" THEN 1 ELSE 0)
      BY <1>2, <2>4 DEF RequestsTaken
    <3> QED
      BY <3>1, <3>2
  <2>6. s <= 2 * l
    <3>1. CASE tm \in {"prepare", "vote"}
      <4>1. l = L + 1 /\ s <= 2 * L + 1
        BY <1>1, <1>2, <2>1, <2>4, <3>1, TMCounts DEF TMInv
      <4> QED
        BY <4>1
    <3>2. CASE tm \notin {"prepare", "vote"}
      <4>1. l = L
        BY <1>1, <1>2, <2>4, <3>2 DEF TMInv, TypeOK
      <4>2. s \in {2 * L, 2 * L - 1}
        BY <2>4, <3>2 DEF RequestsSent
      <4> QED
        BY <4>1, <4>2
    <3> QED
      BY <3>1, <3>2
  <2>7. v <= l
    BY <2>3, <2>4, <2>5, <2>6
  <2> QED
    BY <1>2, <2>3, <2>7
<1>4. CASE r \notin Connected
  <2>1. votes[r] = <<>> /\ applied[r] = 0 /\ rm[r] = "idle"
    BY <1>1, <1>4 DEF UnreachedInv
  <2>2. Len(<<>>) = 0
    BY EmptySeq
  <2> QED
    BY <1>2, <2>1, <2>2
<1> QED
  BY <1>3, <1>4

\* No thread has made more than all its steps.
LEMMA CustomerBounded ==
  ASSUME IInv, ReturnInv, NEW c \in Clients
  PROVE  CustomerLeft(c) \in Nat
<1>1. PICK m \in Nat, k \in Nat, n \in Nat, S \in Nat, x \in Nat \ {0} :
        /\ m = commits[c] + aborts[c] /\ k = NumReqs[c] /\ n = Len(tx[c]) /\ S = CustomerSteps
        /\ x = TxSize
  <2>1. commits[c] \in Nat /\ aborts[c] \in Nat
    BY DEF IInv, TypeOK
  <2>2. NumReqs[c] \in Nat /\ CustomerSteps \in Nat /\ TxSize \in Nat \ {0}
    BY Sizes, Customers
  <2>3. Len(tx[c]) \in Nat
    BY LenProperties DEF IInv, TypeOK
  <2>4. commits[c] + aborts[c] \in Nat
    BY <2>1
  <2> QED
    BY <2>2, <2>3, <2>4
<1>2. /\ n <= x /\ S = x + 2 /\ m <= k
      /\ m = k => pc[c] = "bidding" /\ tx[c] = <<>>
  BY <1>1, Sizes DEF IInv, TypeOK, ReturnInv, Returned
<1>3. PICK d \in Nat : k = m + d
  <2>1. k - m \in Nat /\ k = m + (k - m)
    BY <1>2
  <2> QED
    BY <2>1
<1>4. k * S = m * S + d * S /\ k * S \in Nat /\ m * S \in Nat /\ d * S \in Nat
  BY <1>3
<1>5. PICK p \in Nat : p = IF pc[c] = "bidding" THEN n ELSE x + 1
  BY <1>1
<1>6. CustomerLeft(c) = d * S - p
  <2>1. CustomerLeft(c) = k * S - m * S - p
    BY <1>1, <1>5 DEF CustomerLeft
  <2> QED
    BY <1>4, <2>1
<1>7. CASE d = 0
  <2>1. pc[c] = "bidding" /\ tx[c] = <<>>
    BY <1>2, <1>3, <1>7
  <2>2. n = 0
    BY <1>1, <2>1, EmptySeq
  <2>3. d * S = 0
    BY <1>7
  <2>4. p = 0
    BY <1>5, <2>1, <2>2
  <2>5. CustomerLeft(c) = 0 - 0
    BY <1>6, <2>3, <2>4
  <2> QED
    BY <2>5
<1>8. CASE d # 0
  <2>1. 1 <= d /\ 1 * S = S
    BY <1>8
  <2>2. S <= d * S
    BY <2>1, Scaled
  <2>3. p <= x + 1
    BY <1>2, <1>5
  <2> QED
    BY <1>2, <1>4, <1>6, <2>2, <2>3
<1> QED
  BY <1>7, <1>8

LEMMA ResourceBounded ==
  ASSUME IInv, ReturnInv, DecidedInv, NEW r \in RMSet
  PROVE  ResourceLeft(r) \in Nat
<1>1. PICK v \in Nat, a \in Nat :
        /\ v = Len(votes[r]) /\ a = applied[r] /\ v \in {a, a + 1}
        /\ rm[r] = "writing" => v = a + 1
        /\ v <= local_version
  BY VotesBounded
<1>2. PICK A \in Nat, S \in Nat, x \in Nat \ {0}, w \in Nat :
        A = AllRequests /\ S = ResourceSteps /\ x = TxSize /\ w = widx[r]
  <2>1. widx[r] \in 1 .. TxSize + 1
    BY DEF IInv, TypeOK
  <2>2. widx[r] \in Nat
    BY <2>1, Sizes
  <2> QED
    BY <2>2, Sizes
<1>3. v <= A /\ w <= x + 1 /\ S = x + 3
  <2>1. local_version \in Nat /\ local_version <= A
    BY <1>2, RequestsBounded
  <2>2. widx[r] \in 1 .. TxSize + 1
    BY DEF IInv, TypeOK
  <2> QED
    BY <1>1, <1>2, <2>1, <2>2, Sizes
<1>4. PICK d \in Nat : A = a + d
  <2>1. A - a \in Nat /\ A = a + (A - a)
    BY <1>1, <1>3
  <2> QED
    BY <2>1
<1>5. A * S = a * S + d * S /\ A * S \in Nat /\ a * S \in Nat /\ d * S \in Nat
  BY <1>4
<1>6. PICK p \in Nat : p = IF rm[r] = "writing" THEN w ELSE 0
  BY <1>2
<1>7. ResourceLeft(r) = d * S - (v - a) - p
  <2>1. ResourceLeft(r) = A * S - a * S - (v - a) - p
    BY <1>1, <1>2, <1>6 DEF ResourceLeft
  <2> QED
    BY <1>1, <1>5, <2>1
<1>8. CASE d = 0
  <2>1. v = a /\ rm[r] # "writing"
    BY <1>1, <1>3, <1>4, <1>8
  <2>2. d * S = 0
    BY <1>8
  <2> QED
    BY <1>6, <1>7, <2>1, <2>2
<1>9. CASE d # 0
  <2>1. 1 <= d /\ 1 * S = S
    BY <1>9
  <2>2. S <= d * S
    BY <2>1, Scaled
  <2>3. p <= x + 1 /\ v - a \in 0 .. 1
    BY <1>1, <1>3, <1>6
  <2> QED
    BY <1>3, <1>5, <1>7, <2>2, <2>3
<1> QED
  BY <1>8, <1>9

LEMMA ManagerBounded ==
  ASSUME IInv, ReturnInv, DecidedInv, ConnectCount
  PROVE  ManagerLeft \in Nat
<1>1. PICK A \in Nat, S \in Nat, l \in Nat, n \in Nat, i \in Nat, k \in Nat :
        /\ A = AllRequests /\ S = ManagerSteps /\ l = local_version /\ n = Len(RMs) /\ i = tmi
        /\ k = Len(rm_connections)
  BY Sizes, LenProperties DEF IInv, TypeOK
<1>2. /\ l <= A /\ S = 4 * n + 2 /\ k <= n
      /\ tm = "connect" => i <= n + 1
      /\ tm = "prepare" => i <= k + 1
      /\ tm \in {"vote", "finish", "ack"} => i <= k
      /\ tm \in {"connect", "idle", "prepare", "vote", "finish", "ack"}
  BY <1>1, Sizes, RequestsBounded DEF ConnectCount, IInv, TMInv, TypeOK
<1>3. TransactionLeft \in Nat
  BY <1>1, <1>2 DEF TransactionLeft
<1>4. A * S - l * S \in Nat
  <2>1. A * S \in Nat /\ l * S \in Nat /\ l * S <= A * S
    BY <1>2, Scaled
  <2> QED
    BY <2>1
<1>5. (IF tm = "connect" THEN n + 2 - i ELSE 0) \in Nat
  BY <1>2
<1>6. PICK p \in Nat, q \in Nat, t \in Nat :
        /\ p = (IF tm = "connect" THEN n + 2 - i ELSE 0) /\ q = A * S - l * S
        /\ t = TransactionLeft
  BY <1>3, <1>4, <1>5
<1>7. ManagerLeft = p + q + t
  BY <1>1, <1>6 DEF ManagerLeft
<1> QED
  BY <1>7

LEMMA MainBounded == MainInv => MainLeft \in Nat
<1> SUFFICES ASSUME MainInv PROVE MainLeft \in Nat
  OBVIOUS
<1>1. PICK j \in Nat, n \in Nat : j = joined /\ n = num_customers /\ j <= n
  BY Customers DEF MainInv
<1> QED
  BY <1>1 DEF MainLeft

ProgramInv == IInv /\ ReturnInv /\ MainInv /\ DecidedInv /\ ConnectCount /\ ReportInv

LEMMA PartsBounded ==
  ProgramInv => /\ \A c \in Clients : CustomerLeft(c) \in Nat
                /\ \A r \in RMSet : ResourceLeft(r) \in Nat
                /\ ManagerLeft \in Nat /\ MainLeft \in Nat /\ num_reqs \in Nat
BY CustomerBounded, ResourceBounded, ManagerBounded, MainBounded DEF ProgramInv, ReportInv

LEMMA PartsStillBounded ==
  ProgramInv' => (/\ \A c \in Clients : CustomerLeft(c) \in Nat
                  /\ \A r \in RMSet : ResourceLeft(r) \in Nat
                  /\ ManagerLeft \in Nat /\ MainLeft \in Nat /\ num_reqs \in Nat)'
BY PartsBounded, PTL

\* What the steps of one kind leave to the others.
LEMMA CustomersStand ==
  ASSUME UNCHANGED clientVars PROVE \A c \in Clients : CustomerLeft(c)' = CustomerLeft(c)
BY DEF clientVars, CustomerLeft

LEMMA ResourcesStand ==
  ASSUME UNCHANGED rmVars PROVE \A r \in RMSet : ResourceLeft(r)' = ResourceLeft(r)
BY DEF rmVars, ResourceLeft

LEMMA ManagerStands ==
  ASSUME UNCHANGED <<tm, local_version, tmi>> PROVE ManagerLeft' = ManagerLeft
BY DEF ManagerLeft, TransactionLeft

\* A step of a customer.
LEMMA CustomerAdvances ==
  ASSUME TypeOK, NEW c \in Clients, ClientThread(c)
  PROVE  /\ CustomerLeft(c)' < CustomerLeft(c)
         /\ \A d \in Clients : d # c => CustomerLeft(d)' = CustomerLeft(d)
<1>1. PICK m \in Nat, k \in Nat, n \in Nat, S \in Nat, x \in Nat \ {0} :
        /\ m = commits[c] + aborts[c] /\ k = NumReqs[c] /\ n = Len(tx[c]) /\ S = CustomerSteps
        /\ x = TxSize
  <2>1. commits[c] \in Nat /\ aborts[c] \in Nat
    BY DEF TypeOK
  <2>2. NumReqs[c] \in Nat /\ CustomerSteps \in Nat /\ TxSize \in Nat \ {0}
    BY Sizes, Customers
  <2>3. Len(tx[c]) \in Nat
    BY LenProperties DEF TypeOK
  <2>4. commits[c] + aborts[c] \in Nat
    BY <2>1
  <2> QED
    BY <2>2, <2>3, <2>4
<1>2. S = x + 2
  BY <1>1, Sizes
<1>3. PICK a \in Nat, b \in Nat : a = k * S /\ b = m * S
  OBVIOUS
<1>4. CustomerLeft(c) = a - b - IF pc[c] = "bidding" THEN n ELSE x + 1
  BY <1>1, <1>3 DEF CustomerLeft
<1>5. CASE SendRead(c)
  <2>1. /\ pc[c] = "bidding" /\ UNCHANGED <<pc, commits, aborts>>
        /\ \A d \in Clients : d # c => tx'[d] = tx[d]
    BY <1>5 DEF SendRead, TypeOK
  <2>2. PICK r \in RMSet : \E rid \in Window(r) :
          tx' = [tx EXCEPT ![c] = Append(@, [rid |-> rid, bid |-> ReadEntry(r, rid).bid,
                                             version |-> ReadEntry(r, rid).version])]
    BY <1>5 DEF SendRead
  <2>20. PICK rid \in Window(r) :
          tx' = [tx EXCEPT ![c] = Append(@, [rid |-> rid, bid |-> ReadEntry(r, rid).bid,
                                             version |-> ReadEntry(r, rid).version])]
    BY <2>2
  <2>3. ReadEntry(r, rid) \in Entries /\ rid \in Robots
    BY SlotIsSlot DEF TypeOK, ReadEntry
  <2> DEFINE e == [rid |-> rid, bid |-> ReadEntry(r, rid).bid, version |-> ReadEntry(r, rid).version]
  <2>4. e \in Reads
    BY <2>3 DEF Entries, Reads
  <2>5. tx'[c] = Append(tx[c], e) /\ tx[c] \in Seq(Reads)
    BY <2>20 DEF TypeOK
  <2> HIDE DEF e
  <2>6. Len(tx'[c]) = n + 1
    BY <1>1, <2>4, <2>5, AppendProperties
  <2>7. CustomerLeft(c)' = a - b - (n + 1)
    BY <1>1, <1>3, <2>1, <2>6 DEF CustomerLeft
  <2>8. CustomerLeft(c)' < CustomerLeft(c)
    BY <1>4, <2>1, <2>7
  <2> QED
    BY <2>1, <2>8 DEF CustomerLeft
<1>6. CASE SendToTXThread(c)
  <2>1. /\ pc[c] = "bidding" /\ pc'[c] = "waiting" /\ n = x
        /\ UNCHANGED <<tx, commits, aborts>>
        /\ \A d \in Clients : d # c => pc'[d] = pc[d]
    BY <1>1, <1>6 DEF SendToTXThread, TypeOK
  <2>2. CustomerLeft(c)' = a - b - (x + 1)
    BY <1>1, <1>3, <2>1 DEF CustomerLeft
  <2>3. CustomerLeft(c)' < CustomerLeft(c)
    BY <1>4, <2>1, <2>2
  <2> QED
    BY <2>1, <2>3 DEF CustomerLeft
<1>7. CASE ReceiveDecision(c)
  <2>1. /\ pc[c] = "waiting" /\ pc'[c] = "bidding" /\ tx'[c] = <<>>
        /\ \A d \in Clients : d # c => /\ pc'[d] = pc[d] /\ tx'[d] = tx[d]
                                       /\ commits'[d] = commits[d] /\ aborts'[d] = aborts[d]
    BY <1>7 DEF ReceiveDecision, TypeOK
  <2>2. commits'[c] + aborts'[c] = m + 1
    BY <1>1, <1>7, Received
  <2>3. Len(tx'[c]) = 0
    BY <2>1, EmptySeq
  <2>4. (m + 1) * S = b + S
    BY <1>3
  <2>5. CustomerLeft(c)' = a - (b + S) - 0
    BY <1>1, <1>3, <2>1, <2>2, <2>3, <2>4 DEF CustomerLeft
  <2>6. CustomerLeft(c) = a - b - (x + 1)
    BY <1>4, <2>1
  <2>7. CustomerLeft(c)' < CustomerLeft(c)
    BY <1>2, <2>5, <2>6
  <2> QED
    BY <2>1, <2>7 DEF CustomerLeft
<1> QED
  BY <1>5, <1>6, <1>7 DEF ClientThread

\* A step of an RM.
LEMMA ResourceAdvances ==
  ASSUME TypeOK, NEW r \in RMSet, RMThread(r)
  PROVE  /\ ResourceLeft(r)' < ResourceLeft(r)
         /\ \A q \in RMSet : q # r => ResourceLeft(q)' = ResourceLeft(q)
<1>1. PICK v \in Nat, a \in Nat, A \in Nat, S \in Nat, x \in Nat \ {0}, w \in Nat :
        /\ v = Len(votes[r]) /\ a = applied[r] /\ A = AllRequests /\ S = ResourceSteps
        /\ x = TxSize /\ w = widx[r]
  <2>1. widx[r] \in 1 .. TxSize + 1
    BY DEF TypeOK
  <2>2. widx[r] \in Nat
    BY <2>1, Sizes
  <2> QED
    BY <2>2, Sizes, RMCounts
<1>2. S = x + 3 /\ w \in 1 .. x + 1
  BY <1>1, Sizes DEF TypeOK
<1>3. PICK b \in Nat, u \in Nat : b = A * S /\ u = a * S
  OBVIOUS
<1>4. ResourceLeft(r) = b - u - (v - a) - IF rm[r] = "writing" THEN w ELSE 0
  BY <1>1, <1>3 DEF ResourceLeft
<1>5. CASE Prepare(r)
  <2>1. /\ rm[r] = "idle" /\ UNCHANGED <<rm, widx, applied>>
        /\ \A q \in RMSet : q # r => votes'[q] = votes[q]
    BY <1>5 DEF Prepare, Receives, TypeOK
  <2>2. Len(votes'[r]) = v + 1
    <3>1. PICK d \in {1, -1} : votes'[r] = Append(votes[r], d)
      BY <1>5 DEF Prepare, TypeOK
    <3>2. votes[r] \in Seq({1, -1})
      BY DEF TypeOK
    <3> QED
      BY <1>1, <3>1, <3>2, AppendProperties
  <2>3. ResourceLeft(r)' = b - u - (v + 1 - a) - 0
    <3>1. rm'[r] # "writing" /\ applied'[r] = a
      BY <1>1, <2>1
    <3>2. ResourceLeft(r)' = AllRequests * ResourceSteps - applied'[r] * ResourceSteps
                             - (Len(votes'[r]) - applied'[r])
                             - IF rm'[r] = "writing" THEN widx'[r] ELSE 0
      BY DEF ResourceLeft
    <3>3. ResourceLeft(r)' = A * S - a * S - (Len(votes'[r]) - a) - 0
      BY <1>1, <3>1, <3>2
    <3>4. ResourceLeft(r)' = b - u - (Len(votes'[r]) - a) - 0
      BY <1>3, <3>3
    <3> QED
      BY <2>2, <3>4
  <2>4. ResourceLeft(r)' < ResourceLeft(r)
    BY <1>4, <2>1, <2>3
  <2> QED
    BY <2>1, <2>4 DEF ResourceLeft
<1>6. CASE StartCommitAbort(r)
  <2>1. /\ rm[r] = "idle" /\ rm'[r] = "writing" /\ UNCHANGED <<votes, applied>>
        /\ widx'[r] \in {1, x + 1}
        /\ \A q \in RMSet : q # r => rm'[q] = rm[q] /\ widx'[q] = widx[q]
    BY <1>1, <1>6 DEF StartCommitAbort, Receives, TypeOK
  <2>2. PICK y \in Nat \ {0} : y = widx'[r]
    BY <2>1
  <2>3. ResourceLeft(r)' = b - u - (v - a) - y
    BY <1>1, <1>3, <2>1, <2>2 DEF ResourceLeft
  <2>4. ResourceLeft(r)' < ResourceLeft(r)
    BY <1>4, <2>1, <2>3
  <2> QED
    BY <2>1, <2>4 DEF ResourceLeft
<1>7. CASE WriteEntry(r)
  <2>1. /\ rm[r] = "writing" /\ UNCHANGED <<rm, votes, applied>> /\ widx'[r] = w + 1
        /\ \A q \in RMSet : q # r => widx'[q] = widx[q]
    BY <1>1, <1>7 DEF WriteEntry, TypeOK
  <2>2. ResourceLeft(r)' = b - u - (v - a) - (w + 1)
    BY <1>1, <1>3, <2>1 DEF ResourceLeft
  <2>3. ResourceLeft(r)' < ResourceLeft(r)
    BY <1>4, <2>1, <2>2
  <2> QED
    BY <2>1, <2>3 DEF ResourceLeft
<1>8. CASE Complete(r)
  <2>1. /\ rm[r] = "writing" /\ rm'[r] = "idle" /\ UNCHANGED <<votes, widx>>
        /\ applied'[r] = a + 1
        /\ \A q \in RMSet : q # r => rm'[q] = rm[q] /\ applied'[q] = applied[q]
    BY <1>1, <1>8 DEF Complete, TypeOK
  <2>2. (a + 1) * S = u + S
    BY <1>3
  <2>3. ResourceLeft(r)' = b - (u + S) - (v - (a + 1)) - 0
    BY <1>1, <1>3, <2>1, <2>2 DEF ResourceLeft
  <2>4. ResourceLeft(r) = b - u - (v - a) - w
    BY <1>4, <2>1
  <2>5. ResourceLeft(r)' < ResourceLeft(r)
    BY <1>2, <2>3, <2>4
  <2> QED
    BY <2>1, <2>5 DEF ResourceLeft
<1> QED
  BY <1>5, <1>6, <1>7, <1>8 DEF RMThread

\* A step of the TM.
LEMMA ManagerAdvances ==
  ASSUME IInv, ConnectCount, TMThread
  PROVE  ManagerLeft' < ManagerLeft
<1>1. PICK A \in Nat, S \in Nat, l \in Nat, n \in Nat, i \in Nat, k \in Nat :
        /\ A = AllRequests /\ S = ManagerSteps /\ l = local_version /\ n = Len(RMs) /\ i = tmi
        /\ k = Len(rm_connections)
  BY Sizes, LenProperties DEF IInv, TypeOK
<1>2. /\ S = 4 * n + 2 /\ k <= n
      /\ tm = "connect" => i <= n + 1
      /\ tm = "prepare" => i <= k + 1
      /\ tm \in {"vote", "finish", "ack"} => i <= k
  BY <1>1, Sizes DEF ConnectCount, IInv, TMInv, TypeOK
<1>3. PICK b \in Nat, u \in Nat : b = A * S /\ u = l * S
  OBVIOUS
<1>4. ManagerLeft = (IF tm = "connect" THEN n + 2 - i ELSE 0) + (b - u) + TransactionLeft
  BY <1>1, <1>3 DEF ManagerLeft
<1>5. ASSUME local_version' = local_version
      PROVE  ManagerLeft' = (IF tm' = "connect" THEN n + 2 - tmi' ELSE 0) + (b - u) + TransactionLeft'
  BY <1>1, <1>3, <1>5 DEF ManagerLeft
<1> USE DEF TransactionLeft
<1>6. CASE Connect
  <2>1. tm = "connect" /\ local_version' = local_version
        /\ \/ tm' = "connect" /\ tmi' = i + 1
           \/ i > n /\ tm' = "idle"
    BY <1>1, <1>6 DEF Connect
  <2>2. ManagerLeft = n + 2 - i + (b - u) + 0
    BY <1>4, <2>1
  <2>3. CASE tm' = "connect" /\ tmi' = i + 1
    BY <1>5, <2>1, <2>2, <2>3
  <2>4. CASE i > n /\ tm' = "idle"
    <3>1. ManagerLeft' = 0 + (b - u) + 0
      BY <1>5, <2>1, <2>4
    <3>2. i = n + 1
      BY <1>2, <2>1, <2>4
    <3> QED
      BY <2>2, <3>1, <3>2
  <2> QED
    BY <2>1, <2>3, <2>4
<1>7. CASE TakeRequest
  <2>1. tm = "idle" /\ tm' = "prepare" /\ tmi' = 1 /\ local_version' = l + 1
    BY <1>1, <1>7 DEF TakeRequest
  <2>2. (l + 1) * S = u + S
    BY <1>3
  <2>3. ManagerLeft' = 0 + (b - (u + S)) + (S + 1 - 2 * 1)
    BY <1>1, <1>3, <2>1, <2>2 DEF ManagerLeft
  <2>4. ManagerLeft = 0 + (b - u) + 0
    BY <1>4, <2>1
  <2> QED
    BY <2>3, <2>4
<1>8. CASE SendTX
  <2>1. tm = "prepare" /\ tm' = "vote" /\ tmi' = i /\ local_version' = local_version
    BY <1>1, <1>8 DEF SendTX
  <2>2. ManagerLeft' = 0 + (b - u) + (S - 2 * i) /\ ManagerLeft = 0 + (b - u) + (S + 1 - 2 * i)
    BY <1>1, <1>4, <1>5, <2>1
  <2> QED
    BY <2>2
<1>9. CASE ReceiveVote
  <2>1. tm = "vote" /\ tm' = "prepare" /\ tmi' = i + 1 /\ local_version' = local_version
    BY <1>1, <1>9 DEF ReceiveVote
  <2>2. ManagerLeft' = 0 + (b - u) + (S + 1 - 2 * (i + 1)) /\ ManagerLeft = 0 + (b - u) + (S - 2 * i)
    BY <1>1, <1>4, <1>5, <2>1
  <2> QED
    BY <2>2
<1>10. CASE Decide
  <2>1. /\ tm = "prepare" /\ tm' \in {"idle", "finish"} /\ tmi' = 1
        /\ local_version' = local_version
    BY <1>10 DEF Decide
  <2>2. ManagerLeft = 0 + (b - u) + (S + 1 - 2 * i)
    BY <1>1, <1>4, <2>1
  <2>3. i <= n + 1
    BY <1>2, <2>1
  <2>4. CASE tm' = "idle"
    <3>1. ManagerLeft' = 0 + (b - u) + 0
      BY <1>5, <2>1, <2>4
    <3> QED
      BY <1>2, <2>2, <2>3, <3>1
  <2>5. CASE tm' = "finish"
    <3>1. ManagerLeft' = 0 + (b - u) + (2 * n + 2 - 2 * 1)
      BY <1>1, <1>5, <2>1, <2>5
    <3> QED
      BY <1>2, <2>2, <2>3, <3>1
  <2> QED
    BY <2>1, <2>4, <2>5
<1>11. CASE SendCommitAbort
  <2>1. tm = "finish" /\ tm' = "ack" /\ tmi' = i /\ local_version' = local_version
    BY <1>1, <1>11 DEF SendCommitAbort
  <2>2. /\ ManagerLeft' = 0 + (b - u) + (2 * n + 1 - 2 * i)
        /\ ManagerLeft = 0 + (b - u) + (2 * n + 2 - 2 * i)
    BY <1>1, <1>4, <1>5, <2>1
  <2> QED
    BY <2>2
<1>12. CASE ReceiveSignal
  <2>1. /\ tm = "ack" /\ local_version' = local_version
        /\ \/ tm' = "finish" /\ tmi' = i + 1
           \/ tm' = "idle"
    BY <1>1, <1>12 DEF ReceiveSignal
  <2>2. ManagerLeft = 0 + (b - u) + (2 * n + 1 - 2 * i) /\ i <= n
    BY <1>1, <1>2, <1>4, <2>1
  <2>3. CASE tm' = "finish" /\ tmi' = i + 1
    <3>1. ManagerLeft' = 0 + (b - u) + (2 * n + 2 - 2 * (i + 1))
      BY <1>1, <1>5, <2>1, <2>3
    <3> QED
      BY <2>2, <3>1
  <2>4. CASE tm' = "idle"
    <3>1. ManagerLeft' = 0 + (b - u) + 0
      BY <1>5, <2>1, <2>4
    <3> QED
      BY <2>2, <3>1
  <2> QED
    BY <2>1, <2>3, <2>4
<1> QED
  BY <1>6, <1>7, <1>8, <1>9, <1>10, <1>11, <1>12 DEF TMThread

\* A step of the bidding program's main thread.
LEMMA MainAdvances ==
  ASSUME MainInv, MainThread
  PROVE  MainLeft' < MainLeft
<1>1. PICK j \in Nat, n \in Nat : j = joined /\ n = num_customers
  BY Customers DEF MainInv
<1>2. PICK s \in {0, 1}, p \in {0, 1} :
        s = (IF spawned THEN 0 ELSE 1) /\ p = (IF printed = <<>> THEN 1 ELSE 0)
  OBVIOUS
<1>3. MainLeft = s + (n - j) + p
  BY <1>1, <1>2 DEF MainLeft
<1>4. CASE Spawn
  <2>1. s = 1 /\ MainLeft' = 0 + (n - j) + p
    BY <1>1, <1>2, <1>4 DEF Spawn, MainLeft
  <2> QED
    BY <1>3, <2>1
<1>5. CASE Join
  <2>1. MainLeft' = s + (n - (j + 1)) + p
    BY <1>1, <1>2, <1>5 DEF Join, MainLeft
  <2> QED
    BY <1>3, <2>1
<1>6. CASE PrintStats
  <2>1. printed' # <<>>
    BY <1>6 DEF PrintStats
  <2>2. p = 1 /\ MainLeft' = s + (n - j) + 0
    BY <1>1, <1>2, <1>6, <2>1 DEF PrintStats, MainLeft
  <2> QED
    BY <1>3, <2>2
<1> QED
  BY <1>4, <1>5, <1>6 DEF MainThread

CustomersLeft == [c \in Clients |-> CustomerLeft(c)]
ResourcesLeft == [r \in RMSet |-> ResourceLeft(r)]
CustomerSum == SumFunctionOnSet(CustomersLeft, Clients)
ResourceSum == SumFunctionOnSet(ResourcesLeft, RMSet)

LEMMA LeftIs ==
  StepsLeft = CustomerSum + ResourceSum + ManagerLeft + MainLeft + num_reqs
BY DEF StepsLeft, CustomerSum, ResourceSum, CustomersLeft, ResourcesLeft

LEMMA LeftIsStill ==
  StepsLeft' = CustomerSum' + ResourceSum' + ManagerLeft' + MainLeft' + num_reqs'
BY DEF StepsLeft, CustomerSum, ResourceSum, CustomersLeft, ResourcesLeft

LEMMA SumsBounded == ProgramInv => CustomerSum \in Nat /\ ResourceSum \in Nat
<1> SUFFICES ASSUME ProgramInv PROVE CustomerSum \in Nat /\ ResourceSum \in Nat
  OBVIOUS
<1>1. /\ \A c \in Clients : CustomersLeft[c] \in Nat
      /\ \A r \in RMSet : ResourcesLeft[r] \in Nat
  BY PartsBounded DEF CustomersLeft, ResourcesLeft
<1> QED
  BY <1>1, Customers, Sizes, SumNat DEF CustomerSum, ResourceSum

LEMMA SumsStillBounded == ProgramInv' => (CustomerSum \in Nat /\ ResourceSum \in Nat)'
BY SumsBounded, PTL

\* A sum under a step of one of its threads, and of none.
LEMMA CustomerSumAdvances ==
  ASSUME ProgramInv, ProgramInv', NEW c \in Clients, ClientThread(c)
  PROVE  CustomerSum' < CustomerSum
<1>1. /\ CustomerLeft(c)' < CustomerLeft(c)
      /\ \A d \in Clients : d # c => CustomerLeft(d)' = CustomerLeft(d)
  BY CustomerAdvances DEF ProgramInv, IInv
<1>2. \A d \in Clients : CustomersLeft[d] = CustomerLeft(d) /\ CustomersLeft'[d] = CustomerLeft(d)'
  BY DEF CustomersLeft
<1>3. \A d \in Clients : CustomersLeft[d] \in Int /\ CustomersLeft'[d] \in Int
  BY <1>2, PartsBounded, PartsStillBounded
<1>4. CustomersLeft'[c] < CustomersLeft[c]
      /\ \A d \in Clients : d # c => CustomersLeft'[d] = CustomersLeft[d]
  BY <1>1, <1>2
<1>5. CustomerSum' = CustomerSum + CustomersLeft'[c] - CustomersLeft[c]
  BY <1>3, <1>4, Customers, SumUpdate DEF CustomerSum
<1>6. CustomerSum \in Nat
  BY SumsBounded
<1> QED
  BY <1>3, <1>4, <1>5, <1>6

LEMMA ResourceSumAdvances ==
  ASSUME ProgramInv, ProgramInv', NEW r \in RMSet, RMThread(r)
  PROVE  ResourceSum' < ResourceSum
<1>1. /\ ResourceLeft(r)' < ResourceLeft(r)
      /\ \A q \in RMSet : q # r => ResourceLeft(q)' = ResourceLeft(q)
  BY ResourceAdvances DEF ProgramInv, IInv
<1>2. \A q \in RMSet : ResourcesLeft[q] = ResourceLeft(q) /\ ResourcesLeft'[q] = ResourceLeft(q)'
  BY DEF ResourcesLeft
<1>3. \A q \in RMSet : ResourcesLeft[q] \in Int /\ ResourcesLeft'[q] \in Int
  BY <1>2, PartsBounded, PartsStillBounded
<1>4. ResourcesLeft'[r] < ResourcesLeft[r]
      /\ \A q \in RMSet : q # r => ResourcesLeft'[q] = ResourcesLeft[q]
  BY <1>1, <1>2
<1>5. ResourceSum' = ResourceSum + ResourcesLeft'[r] - ResourcesLeft[r]
  BY <1>3, <1>4, Sizes, SumUpdate DEF ResourceSum
<1>6. ResourceSum \in Nat
  BY SumsBounded
<1> QED
  BY <1>3, <1>4, <1>5, <1>6

LEMMA SumsStand ==
  ASSUME ProgramInv
  PROVE  /\ UNCHANGED clientVars => CustomerSum' = CustomerSum
         /\ UNCHANGED rmVars => ResourceSum' = ResourceSum
<1>1. ASSUME UNCHANGED clientVars PROVE CustomerSum' = CustomerSum
  <2>1. \A c \in Clients : CustomersLeft'[c] = CustomersLeft[c] /\ CustomersLeft[c] \in Int
    BY <1>1, CustomersStand, PartsBounded DEF CustomersLeft
  <2>2. \A c \in Clients : CustomersLeft'[c] \in Int /\ CustomersLeft'[c] = CustomersLeft[c]
    BY <2>1
  <2> QED
    BY <2>2, Customers, SumSame DEF CustomerSum
<1>2. ASSUME UNCHANGED rmVars PROVE ResourceSum' = ResourceSum
  <2>1. \A r \in RMSet : ResourcesLeft'[r] = ResourcesLeft[r] /\ ResourcesLeft[r] \in Int
    BY <1>2, ResourcesStand, PartsBounded DEF ResourcesLeft
  <2>2. \A r \in RMSet : ResourcesLeft'[r] \in Int /\ ResourcesLeft'[r] = ResourcesLeft[r]
    BY <2>1
  <2> QED
    BY <2>2, Sizes, SumSame DEF ResourceSum
<1> QED
  BY <1>1, <1>2

LEMMA MainStands == ASSUME UNCHANGED mainVars PROVE MainLeft' = MainLeft
BY DEF mainVars, MainLeft

\* Every step brings one part down and leaves the others.
LEMMA StepsAdvance ==
  ASSUME ProgramInv, ProgramInv', ProgramNext, ~ UNCHANGED allVars
  PROVE  StepsLeft' >= 0 /\ StepsLeft' < StepsLeft
<1>1. PICK c1 \in Nat, r1 \in Nat, t1 \in Nat, m1 \in Nat, q1 \in Nat :
        /\ c1 = CustomerSum /\ r1 = ResourceSum /\ t1 = ManagerLeft /\ m1 = MainLeft
        /\ q1 = num_reqs
  BY SumsBounded, PartsBounded
<1>2. PICK c2 \in Nat, r2 \in Nat, t2 \in Nat, m2 \in Nat, q2 \in Nat :
        /\ c2 = CustomerSum' /\ r2 = ResourceSum' /\ t2 = ManagerLeft' /\ m2 = MainLeft'
        /\ q2 = num_reqs'
  BY SumsStillBounded, PartsStillBounded
<1>3. /\ c2 <= c1 /\ r2 <= r1 /\ t2 <= t1 /\ m2 <= m1 /\ q2 <= q1
      /\ c2 < c1 \/ r2 < r1 \/ t2 < t1 \/ m2 < m1 \/ q2 < q1
  <2>1. CASE \E c \in Clients : Customer(c)
    <3>1. PICK c \in Clients : ClientThread(c) /\ UNCHANGED <<mainVars, reportVars>>
      BY <2>1 DEF Customer
    <3>2. UNCHANGED <<rmVars, tm, local_version, tmi, num_reqs>>
      BY <3>1, ClientStepUnchanged DEF reportVars
    <3>3. /\ c2 < c1 /\ r2 = r1 /\ t2 = t1 /\ m2 = m1 /\ q2 = q1
      BY <1>1, <1>2, <3>1, <3>2, CustomerSumAdvances, SumsStand, ManagerStands, MainStands
    <3> QED
      BY <3>3
  <2>2. CASE \E r \in RMSet : Resources(r)
    <3>1. PICK r \in RMSet : RMThread(r) /\ UNCHANGED <<mainVars, reportVars>>
      BY <2>2 DEF Resources
    <3>2. UNCHANGED <<clientVars, tm, local_version, tmi, num_reqs>>
      BY <3>1, RMStepUnchanged DEF reportVars, tmVars
    <3>3. /\ c2 = c1 /\ r2 < r1 /\ t2 = t1 /\ m2 = m1 /\ q2 = q1
      BY <1>1, <1>2, <3>1, <3>2, ResourceSumAdvances, SumsStand, ManagerStands, MainStands
    <3> QED
      BY <3>3
  <2>3. CASE Manager
    <3>1. TMThread /\ UNCHANGED <<mainVars, reportVars>>
      BY <2>3 DEF Manager
    <3>2. UNCHANGED <<clientVars, rmVars, num_reqs>>
      BY <3>1 DEF reportVars, TMThread, Connect, TakeRequest, SendTX, ReceiveVote, Decide,
         SendCommitAbort, ReceiveSignal
    <3>3. /\ c2 = c1 /\ r2 = r1 /\ t2 < t1 /\ m2 = m1 /\ q2 = q1
      BY <1>1, <1>2, <3>1, <3>2, ManagerAdvances, SumsStand, MainStands DEF ProgramInv
    <3> QED
      BY <3>3
  <2>4. CASE MainThread
    <3>1. UNCHANGED <<vars, num_reqs>>
      BY <2>4 DEF MainThread, Spawn, Join, PrintStats, reportVars
    <3>2. UNCHANGED <<clientVars, rmVars, tm, local_version, tmi>>
      BY <3>1 DEF vars, clientVars, rmVars
    <3>3. /\ c2 = c1 /\ r2 = r1 /\ t2 = t1 /\ m2 < m1 /\ q2 = q1
      BY <1>1, <1>2, <2>4, <3>1, <3>2, MainAdvances, SumsStand, ManagerStands DEF ProgramInv
    <3> QED
      BY <3>3
  <2>5. CASE ReportRow
    <3>1. UNCHANGED <<vars, mainVars>> /\ num_reqs' = num_reqs - 1
      BY <2>5 DEF ReportRow
    <3>2. UNCHANGED <<clientVars, rmVars, tm, local_version, tmi>>
      BY <3>1 DEF vars, clientVars, rmVars
    <3>3. /\ c2 = c1 /\ r2 = r1 /\ t2 = t1 /\ m2 = m1 /\ q2 < q1
      BY <1>1, <1>2, <3>1, <3>2, SumsStand, ManagerStands, MainStands
    <3> QED
      BY <3>3
  <2> QED
    BY <2>1, <2>2, <2>3, <2>4, <2>5 DEF ProgramNext, Ended
<1>4. StepsLeft = c1 + r1 + t1 + m1 + q1 /\ StepsLeft' = c2 + r2 + t2 + m2 + q2
  BY <1>1, <1>2, LeftIs, LeftIsStill
<1> QED
  BY <1>3, <1>4

\* No process goes on for ever, for any number of customers, resource managers,
\* requests and reads: no transaction is taken, voted on or applied twice.
THEOREM ProgramRunsOut == ProgramSpec => RunsOut
<1>1. ProgramInit => ConnectCount
  <2> SUFFICES ASSUME ProgramInit PROVE ConnectCount
    OBVIOUS
  <2>1. rm_connections = <<>> /\ tmi = 1
    BY DEF ProgramInit, Init, TMInit
  <2>2. Len(rm_connections) = 0
    BY <2>1, EmptySeq
  <2> QED
    BY <2>1, <2>2, Sizes DEF ConnectCount
<1>2. IInv /\ ConnectCount /\ [ProgramNext]_allVars => ConnectCount'
  BY ProgramStep, NextConnectCount DEF IInv
<1>3. ProgramSpec => []ProgramInv
  BY <1>1, <1>2, MainInvariance, ProgramInvariance, PTL DEF ProgramSpec, ProgramInv
<1>4. ProgramInv /\ ProgramInv' /\ [ProgramNext]_allVars =>
        [StepsLeft' >= 0 /\ StepsLeft' < StepsLeft]_allVars
  BY StepsAdvance
<1> QED
  BY <1>3, <1>4, PTL DEF ProgramSpec, RunsOut
=============================================================================
