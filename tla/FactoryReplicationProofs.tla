---------------------- MODULE FactoryReplicationProofs ----------------------
(***************************************************************************)
(* Proofs about FactoryReplication, for every number of factories, client  *)
(* programs, customers and orders: of types and indices whatever happens,  *)
(* of the replication under the hypothesis Orderly below.                  *)
(***************************************************************************)
EXTENDS FactoryReplication, SequenceTheorems, WellFoundedInduction, TLAPS

\* What the replication needs of the ids and of the faults.  What factory_id
\* happens to hold is not -1 and no factory's id (else see the run
\* factory_id_unset).  The factories that serve customers are not killed (else
\* see factory_stale_request), though a broken pipe may end them; of the others
\* one may be, at any time, and it is the one that is called last (the README
\* says what happens to the log if it is not).
Orderly ==
  /\ GarbageIds \cap (Factory \cup {NoId}) = {}
  /\ MayServe \cap MayCrash = {}
  /\ \A f \in MayCrash : \A g \in Factory \ {f} : g < f

(* The inductive invariant.                                                *)

Replicating(f) == admin[f].pc \in {"replicate", "wait"}
Busy(f) == admin[f].pc = "append" \/ Replicating(f)

\* The length of the target's log, which is the longest.
N == Len(smr_log[target])

\* What is in a log without gaps.
Orders == [cid : Customers, num : 1 .. MaxOrders]

\* Only the target has work to do; a customer is queued or in the hands of the
\* admin at most once, and waits.
QueueInv ==
  /\ \A f \in Live : f # target => admin[f].pc = "idle" /\ arq[f] = <<>>
  /\ \A c \in Customers :
       /\ customer[c].num <= quota
       /\ customer[c].pc \in {"waiting", "made"} => customer[c].num >= 1
       /\ up[target] /\ customer[c].pc = "stopped" => customer[c].num = quota
  /\ up[target] =>
       /\ \A i \in DOMAIN arq[target] : customer[arq[target][i]].pc = "waiting"
       /\ \A i, j \in DOMAIN arq[target] : arq[target][i] = arq[target][j] => i = j
       /\ admin[target].pc \in {"takeover", "connect"} => arq[target] # <<>>
       /\ Busy(target) =>
            /\ admin[target].cust \in Customers
            /\ customer[admin[target].cust].pc = "waiting"
            /\ \A i \in DOMAIN arq[target] : arq[target][i] # admin[target].cust

\* A request that was sent brings an entry; who waits, waits for a peer.
RequestInv ==
  /\ \A f \in Factory : /\ Replicating(f) => admin[f].req.last >= 0
                        /\ admin[f].pc = "wait" => admin[f].todo # {}
  /\ \A g, f \in Factory : ifa[g][f].pc \notin {"none", "wait"} => ifa[g][f].req.last >= 0

\* The last index is in the log, and so is the one that a thread has written at
\* and is to make the last.
IndexInv ==
  \A f \in Live :
    /\ last_index[f] < Len(Log(f))
    /\ \A g \in Factory : ifa[f][g].pc \in {"last", "apply"} => ifa[f][g].req.last < Len(Log(f))

\* What holds without Orderly.
Typed == TypeOK /\ QueueInv /\ RequestInv /\ IndexInv

\* Nothing is logged before a program runs.
QuotaInv ==
  quota = 0 => /\ \A c \in Customers : customer[c].pc = "stopped"
               /\ \A f \in Factory : smr_log[f] = <<>>

\* The target dies only when it has called everyone who lives.  A primary that
\* has connected to its peers is connected to all that live; a connection on
\* which it has sent nothing is one that it is about to use, or dead.
StubInv ==
  /\ ~ up[target] => /\ admin[target].pc = "replicate"
                     /\ \A g \in Live : g \notin admin[target].todo
  /\ \A f \in Live : stub[f][f] = "none"
  /\ \A f, g \in Live : peer_connected[f] /\ g # f =>
        stub[f][g] \in {"open", "identified"} /\ ifa[g][f].pc # "none"
  /\ \A f \in Live, g \in Factory : stub[f][g] = "open" =>
        \/ g \in MayCrash
        \/ /\ up[g] /\ f = target
           /\ \/ admin[f].pc = "append"
              \/ Replicating(f) /\ g \in admin[f].todo
  /\ Busy(target) => peer_connected[target]
  /\ admin[target].pc = "wait" =>
       admin[target].todo # {} /\ stub[target][NextPeer(target)] = "identified"
  /\ Replicating(target) => target \notin admin[target].todo

\* The one factory that serves a primary is the one that the target waits for,
\* and has its request.
CallInv ==
  /\ \A g \in Live, f \in Factory : ifa[g][f].pc \notin {"none", "wait"} =>
        /\ up[f] /\ f = target /\ admin[f].pc = "wait" /\ g = NextPeer(f)
        /\ ifa[g][f].req = admin[f].req
        /\ ifa[g][f].pc = "reply" => ifa[g][f].res = N - 1
  /\ admin[target].pc = "wait" /\ up[NextPeer(target)] =>
       ifa[NextPeer(target)][target].pc \notin {"none", "wait"}
  /\ up[target] /\ Replicating(target) =>
       /\ admin[target].req = [fid |-> factory_id[target], committed |-> N - 2, last |-> N - 1,
                               op |-> [cid |-> admin[target].cust,
                                       num |-> customer[admin[target].cust].num]]
       /\ smr_log[target][N] = admin[target].req.op

\* Who has not yet stored the entry that is being replicated is one entry
\* behind; everyone else has the log of the target.
Stored(f) == ifa[f][target].pc \in {"last", "apply", "reply"}
Behind(f) == Replicating(target) /\ f \in admin[target].todo /\ ~ Stored(f)

LogInv ==
  /\ smr_log[target] \in Seq(Orders)
  /\ Replicating(target) => N > 0
  /\ last_index[target] = N - 1
  /\ \A f \in Live :
       /\ smr_log[f] = IF Behind(f) THEN SubSeq(smr_log[target], 1, N - 1) ELSE smr_log[target]
       /\ last_index[f] = Len(smr_log[f]) - (IF ifa[f][target].pc = "last" THEN 2 ELSE 1)

\* Everyone has applied his log, but for the last entry if it came from a
\* primary: whom he takes for the primary tells.
Leads(f) == primary_id[f] \in {NoId, f}
Answered == \E c \in Customers : customer[c].num > 0 /\ customer[c].pc # "waiting"

PeerCommitInv(f) ==
  LET m == Len(smr_log[f])
  IN  /\ ifa[f][target].pc = "store" => committed_index[f] \in {m - 1, m - 2}
      /\ ifa[f][target].pc \in {"last", "apply"} => committed_index[f] \in {m - 2, m - 3}
      /\ ifa[f][target].pc \in {"none", "wait", "sent", "reply"} =>
           committed_index[f] = m - (IF Leads(f) THEN 1 ELSE 2)
PeerLeadInv(f) ==
  \/ Answered
  \/ ifa[f][target].pc \in {"store", "last", "apply", "reply"}
  \/ Replicating(target) /\ f \notin admin[target].todo
  => ~ Leads(f)

CommitInv ==
  /\ \A f \in Live : primary_id[f] = NoId => smr_log[f] = <<>>
  /\ admin[target].pc \in {"connect", "append", "replicate", "wait"} =>
       primary_id[target] = target
  /\ committed_index[target] =
       N - (IF Replicating(target) \/ (admin[target].pc = "idle" /\ ~ Leads(target))
            THEN 2 ELSE 1)
  /\ \A f \in Live : f # target => PeerCommitInv(f) /\ PeerLeadInv(f)
  /\ up[target] /\ Answered => primary_id[target] = target

Inv == /\ QueueInv /\ RequestInv /\ IndexInv
       /\ QuotaInv /\ StubInv /\ CallInv /\ LogInv /\ CommitInv

IInv == TypeOK /\ Inv

-----------------------------------------------------------------------------
(* Natural numbers and sequences.                                          *)

LEMMA LessThanWellFounded == IsWellFoundedOn(OpToRel(<, Nat), Nat)
BY NatLessThanWellFounded

\* A set of natural numbers has a least element.
LEMMA LeastExists ==
  ASSUME NEW T, T \subseteq Nat, T # {}
  PROVE  \E x \in T : \A y \in T : x <= y
<1>1. \A x, y \in Nat : <<y, x>> \in OpToRel(<, Nat) <=> y < x
  BY DEF OpToRel
<1>2. PICK x \in T : \A y \in T : ~ (<<y, x>> \in OpToRel(<, Nat))
  BY LessThanWellFounded, WFMin
<1>3. ASSUME NEW y \in T PROVE x <= y
  <2>1. x \in Nat /\ y \in Nat
    OBVIOUS
  <2>2. ~ (y < x)
    BY <2>1, <1>1, <1>2
  <2> QED
    BY <2>1, <2>2
<1> QED
  BY <1>3

\* A sequence with an element more.
LEMMA AppendFacts ==
  ASSUME NEW S, NEW s \in Seq(S), NEW e \in S
  PROVE  /\ Append(s, e) \in Seq(S) /\ Len(Append(s, e)) = Len(s) + 1
         /\ Append(s, e)[Len(s) + 1] = e
         /\ \A i \in 1 .. Len(s) : Append(s, e)[i] = s[i]
         /\ SubSeq(Append(s, e), 1, Len(s)) = s
<1>1. /\ Append(s, e) \in Seq(S) /\ Len(Append(s, e)) = Len(s) + 1
      /\ Append(s, e)[Len(s) + 1] = e
      /\ \A i \in 1 .. Len(s) : Append(s, e)[i] = s[i]
  BY AppendProperties
<1>2. Len(s) \in Nat /\ Len(s) <= Len(s) + 1
  BY LenProperties
<1>3. /\ SubSeq(Append(s, e), 1, Len(s)) \in Seq(S)
      /\ Len(SubSeq(Append(s, e), 1, Len(s))) = Len(s)
      /\ \A i \in 1 .. Len(s) : SubSeq(Append(s, e), 1, Len(s))[i] = Append(s, e)[i]
  BY <1>1, <1>2
<1>4. SubSeq(Append(s, e), 1, Len(s)) = s
  BY <1>1, <1>3, SeqEqual
<1> QED
  BY <1>1, <1>4

\* What is left of a queue.
LEMMA TailFacts ==
  ASSUME NEW S, NEW s \in Seq(S), s # <<>>
  PROVE  /\ Tail(s) \in Seq(S) /\ Head(s) \in S /\ Head(s) = s[1] /\ Len(s) >= 1
         /\ DOMAIN Tail(s) = 1 .. Len(s) - 1 /\ Len(s) \in Nat /\ DOMAIN s = 1 .. Len(s)
         /\ \A i \in DOMAIN Tail(s) : Tail(s)[i] = s[i + 1] /\ i + 1 \in DOMAIN s /\ i \in Nat
BY HeadTailProperties, LenProperties, EmptySeq

\* An element put after the first m of a sequence of m.
LEMMA InsertedLast ==
  ASSUME NEW S, NEW s \in Seq(S), NEW e \in S
  PROVE  Inserted(s, Len(s), <<e>>) = Append(s, e)
<1>1. Len(s) \in Nat
  OBVIOUS
<1>2. SubSeq(s, 1, Len(s)) = s
  BY <1>1, SubSeqFull
<1>3. SubSeq(s, Len(s) + 1, Len(s)) = <<>>
  BY <1>1
<1>4. /\ s \o <<e>> \in Seq(S) /\ Len(s \o <<e>>) = Len(s) + 1
  BY <1>1
<1>5. (s \o <<e>>) \o <<>> = s \o <<e>>
  BY <1>4
<1>6. s \o <<e>> = Append(s, e)
  OBVIOUS
<1> QED
  BY <1>2, <1>3, <1>5, <1>6 DEF Inserted

\* A sequence is its first elements and the last.
LEMMA FrontAndLast ==
  ASSUME NEW S, NEW s \in Seq(S), Len(s) > 0
  PROVE  /\ SubSeq(s, 1, Len(s) - 1) \in Seq(S)
         /\ Len(SubSeq(s, 1, Len(s) - 1)) = Len(s) - 1
         /\ Append(SubSeq(s, 1, Len(s) - 1), s[Len(s)]) = s
         /\ s[Len(s)] \in S
         /\ \A i \in 1 .. Len(s) - 1 : SubSeq(s, 1, Len(s) - 1)[i] = s[i]
<1> DEFINE p == SubSeq(s, 1, Len(s) - 1)
<1>1. Len(s) \in Nat \ {0} /\ s[Len(s)] \in S
  BY ElementOfSeq
<1>2. p \in Seq(S) /\ Len(p) = Len(s) - 1 /\ \A i \in 1 .. Len(s) - 1 : p[i] = s[i]
  <2> DEFINE m == Len(s) - 1
  <2>1. m \in Nat /\ m < Len(s) /\ \A i \in 1 .. m : s[i] \in S
    BY <1>1, ElementOfSeq
  <2>2. /\ p \in Seq(S) /\ Len(p) = IF 1 <= m THEN m - 1 + 1 ELSE 0
        /\ \A i \in 1 .. m - 1 + 1 : p[i] = s[1 + i - 1]
    BY <2>1, SubSeqProperties
  <2>3. m = Len(s) - 1
    OBVIOUS
  <2> HIDE DEF p, m
  <2>4. Len(p) = m /\ \A i \in 1 .. m : p[i] = s[i]
    <3>1. ASSUME NEW i \in 1 .. m PROVE i \in 1 .. m - 1 + 1 /\ 1 + i - 1 = i
      BY <2>1
    <3>2. Len(p) = m
      BY <2>1, <2>2
    <3> QED
      BY <2>2, <3>1, <3>2
  <2> QED
    BY <2>2, <2>3, <2>4
<1>3. /\ Append(p, s[Len(s)]) \in Seq(S) /\ Len(Append(p, s[Len(s)])) = Len(s)
      /\ Append(p, s[Len(s)])[Len(s)] = s[Len(s)]
      /\ \A i \in 1 .. Len(s) - 1 : Append(p, s[Len(s)])[i] = p[i]
  BY <1>1, <1>2, AppendProperties
<1>4. ASSUME NEW i \in 1 .. Len(s) PROVE Append(p, s[Len(s)])[i] = s[i]
  <2>1. i = Len(s) \/ i \in 1 .. Len(s) - 1
    BY <1>1
  <2> QED
    BY <2>1, <1>2, <1>3
<1>5. Append(p, s[Len(s)]) = s
  BY <1>3, <1>4, SeqEqual
<1> QED
  BY <1>1, <1>2, <1>5

\* What vector::insert leaves.
LEMMA InsertedFacts ==
  ASSUME NEW S, NEW s \in Seq(S), NEW o \in Seq(S), NEW i \in 0 .. Len(s)
  PROVE  Inserted(s, i, o) \in Seq(S) /\ Len(Inserted(s, i, o)) = Len(s) + Len(o)
<1> DEFINE front == SubSeq(s, 1, i)
           back == SubSeq(s, i + 1, Len(s))
<1>1. PICK m \in Nat, n \in Nat, j \in Nat : m = Len(s) /\ n = Len(o) /\ j = i /\ j <= m
  BY LenProperties
<1>2. front \in Seq(S) /\ Len(front) = j
  BY <1>1
<1>3. back \in Seq(S) /\ Len(back) = m - j
  BY <1>1
<1>4. Inserted(s, i, o) = front \o o \o back
  BY DEF Inserted
<1> HIDE DEF front, back
<1> DEFINE most == front \o o
<1>5. most \in Seq(S) /\ Len(most) = j + n
  BY <1>1, <1>2, ConcatProperties
<1>6. front \o o \o back = most \o back
  OBVIOUS
<1> HIDE DEF most
<1>7. most \o back \in Seq(S) /\ Len(most \o back) = j + n + (m - j)
  <2>1. most \o back \in Seq(S) /\ Len(most \o back) = Len(most) + Len(back)
    BY <1>3, <1>5, ConcatProperties
  <2> QED
    BY <2>1, <1>3, <1>5
<1>8. j + n + (m - j) = m + n
  BY <1>1
<1> QED
  BY <1>1, <1>4, <1>6, <1>7, <1>8

LEMMA NextPeerIs ==
  ASSUME TypeOK, NEW f \in Factory, admin[f].todo # {}
  PROVE  /\ NextPeer(f) \in admin[f].todo /\ NextPeer(f) \in Factory
         /\ \A h \in admin[f].todo : NextPeer(f) <= h
<1>1. admin[f].todo \subseteq Factory /\ Factory \subseteq Nat
  BY FactoryAssumption DEF TypeOK, AdminStates
<1>2. \E g \in admin[f].todo : \A h \in admin[f].todo : g <= h
  BY <1>1, LeastExists
<1> QED
  BY <1>1, <1>2 DEF NextPeer

-----------------------------------------------------------------------------
(* Types.                                                                  *)

LEMMA OpIsOp == Orders \subseteq Ops /\ MapOp \in Ops /\ NoRequest \in Requests
                /\ \A op \in Orders : op.cid \in Customers /\ op.num \in 1 .. MaxOrders
BY DEF Orders, Ops, NoRequest, Requests, Indices, NoId

LEMMA TargetIsFactory == TypeOK => target \in Factory /\ target \in MayServe
BY FactoryAssumption DEF TypeOK

LEMMA InitTypeOK == Init => TypeOK
<1> SUFFICES ASSUME Init PROVE TypeOK
  OBVIOUS
<1>1. /\ up \in [Factory -> BOOLEAN]
      /\ smr_log \in [Factory -> Seq(Ops)]
      /\ customer_record \in [Factory -> [Keys -> {NoRecord, MapOp.num} \cup 1 .. MaxOrders]]
      /\ last_index \in [Factory -> Indices] /\ committed_index \in [Factory -> Indices]
      /\ primary_id \in [Factory -> Factory \cup GarbageIds \cup {NoId}]
      /\ factory_id \in [Factory -> GarbageIds]
      /\ arq \in [Factory -> Seq(Customers)]
  BY DEF Init, Indices
<1>2. /\ admin \in [Factory -> AdminStates]
      /\ peer_connected \in [Factory -> BOOLEAN]
      /\ stub \in [Factory -> [Factory -> StubStates]]
  BY OpIsOp DEF Init, IdleAdmin, StubStates, AdminStates, AdminPcs
<1>3. ifa \in [Factory -> [Factory -> IfaStates]]
  BY OpIsOp DEF Init, Indices, IfaStates, IfaPcs
<1>4. /\ program \in 0 .. MaxPrograms /\ target \in MayServe /\ quota \in 0 .. MaxOrders
      /\ customer \in [Customers ->
           [pc : {"ready", "waiting", "made", "stopped"}, num : 0 .. MaxOrders]]
  BY ProgramAssumption DEF Init
<1> QED
  BY <1>1, <1>2, <1>3, <1>4 DEF TypeOK

\* Whose admin has work is the target.
LEMMA WorkerIsTarget ==
  ASSUME Typed, NEW f \in Factory, up[f], admin[f].pc # "idle" \/ arq[f] # <<>>
  PROVE  f = target
BY DEF Typed, QueueInv, Live

\* The admin's request is an order of a customer who waits.
LEMMA RequestIsOrder ==
  ASSUME Typed, up[target], Busy(target)
  PROVE  [cid |-> admin[target].cust, num |-> customer[admin[target].cust].num] \in Orders
<1>1. admin[target].cust \in Customers /\ customer[admin[target].cust].pc = "waiting"
  BY DEF Typed, QueueInv
<1>2. customer[admin[target].cust].num >= 1 /\ customer[admin[target].cust].num \in 0 .. MaxOrders
  BY <1>1 DEF Typed, QueueInv, TypeOK
<1> QED
  BY <1>1, <1>2, ProgramAssumption DEF Orders

\* While an admin has something to do a program runs.
LEMMA BusyMeansOrders == Typed /\ up[target] /\ Busy(target) => quota # 0
<1> SUFFICES ASSUME Typed, up[target], Busy(target) PROVE quota # 0
  OBVIOUS
<1> DEFINE n == customer[admin[target].cust].num
<1>1. n >= 1 /\ n <= quota /\ admin[target].cust \in Customers
  BY DEF Typed, QueueInv
<1>2. n \in Nat /\ quota \in Nat
  <2>1. /\ customer \in [Customers -> [pc : {"ready", "waiting", "made", "stopped"}, num : 0 .. MaxOrders]]
        /\ quota \in 0 .. MaxOrders
    BY DEF Typed, TypeOK
  <2>2. customer[admin[target].cust].num \in 0 .. MaxOrders
    BY <1>1, <2>1
  <2> QED
    BY <2>1, <2>2, ProgramAssumption
<1> HIDE DEF n
<1> QED
  BY <1>1, <1>2

\* Whatever index the program reads a log at, what it gets is an operation.
LEMMA EntryIsOp ==
  ASSUME TypeOK, NEW f \in Factory, NEW i \in Indices
  PROVE  /\ Entry(f, i) \in Ops /\ Entry(f, i).cid \in Keys
         /\ Entry(f, i).num \in {NoRecord, MapOp.num} \cup 1 .. MaxOrders
<1>1. smr_log[f] \in Seq(Ops)
  BY DEF TypeOK
<1>2. Entry(f, i) \in Ops
  BY <1>1, OpIsOp, ElementOfSeq DEF Entry
<1>3. \A op \in Ops : op.cid \in Keys /\ op.num \in {NoRecord, MapOp.num} \cup 1 .. MaxOrders
  BY DEF Ops, Keys
<1> QED
  BY <1>2, <1>3

\* Threads and connections that change.
LEMMA AdminChanges ==
  ASSUME TypeOK, NEW f \in Factory, NEW p \in AdminPcs, NEW T \in SUBSET Factory
  PROVE  /\ admin \in [Factory -> AdminStates] /\ admin[f] \in AdminStates
         /\ [admin EXCEPT ![f].pc = p] \in [Factory -> AdminStates]
         /\ [admin EXCEPT ![f].pc = p, ![f].todo = T] \in [Factory -> AdminStates]
         /\ \A c \in Customers :
              [admin EXCEPT ![f].pc = p, ![f].cust = c] \in [Factory -> AdminStates]
         /\ \A r \in Requests :
              [admin EXCEPT ![f].pc = p, ![f].req = r, ![f].todo = T] \in [Factory -> AdminStates]
<1>1. admin \in [Factory -> AdminStates] /\ admin[f] \in AdminStates
  BY DEF TypeOK
<1>2. \A s \in AdminStates : [admin EXCEPT ![f] = s] \in [Factory -> AdminStates]
  BY <1>1
<1>3. /\ [admin[f] EXCEPT !.pc = p] \in AdminStates
      /\ [admin[f] EXCEPT !.pc = p, !.todo = T] \in AdminStates
      /\ \A c \in Customers : [admin[f] EXCEPT !.pc = p, !.cust = c] \in AdminStates
      /\ \A r \in Requests : [admin[f] EXCEPT !.pc = p, !.req = r, !.todo = T] \in AdminStates
  BY <1>1 DEF AdminStates
<1> QED
  BY <1>1, <1>2, <1>3

LEMMA IfaMoves ==
  ASSUME TypeOK, NEW g \in Factory, NEW f \in Factory, NEW p \in IfaPcs
  PROVE  [ifa EXCEPT ![g][f].pc = p] \in [Factory -> [Factory -> IfaStates]]
<1>1. ifa \in [Factory -> [Factory -> IfaStates]] /\ ifa[g][f] \in IfaStates
  BY DEF TypeOK
<1>2. \A s \in IfaStates : [ifa EXCEPT ![g][f] = s] \in [Factory -> [Factory -> IfaStates]]
  BY <1>1
<1>3. [ifa[g][f] EXCEPT !.pc = p] \in IfaStates
  BY <1>1 DEF IfaStates
<1>4. [ifa EXCEPT ![g][f].pc = p] = [ifa EXCEPT ![g][f] = [ifa[g][f] EXCEPT !.pc = p]]
  OBVIOUS
<1> QED
  BY <1>2, <1>3, <1>4

LEMMA IfaChanges ==
  ASSUME TypeOK, NEW g \in Factory, NEW f \in Factory, NEW p \in IfaPcs, NEW i \in Indices
  PROVE  /\ [ifa EXCEPT ![g][f].pc = p, ![g][f].res = i] \in [Factory -> [Factory -> IfaStates]]
         /\ \A r \in Requests : [ifa EXCEPT ![g][f] = [pc |-> p, req |-> r, res |-> i]]
                                  \in [Factory -> [Factory -> IfaStates]]
<1>1. ifa \in [Factory -> [Factory -> IfaStates]] /\ ifa[g][f] \in IfaStates
  BY DEF TypeOK
<1>2. \A s \in IfaStates : [ifa EXCEPT ![g][f] = s] \in [Factory -> [Factory -> IfaStates]]
  BY <1>1
<1>3. /\ [ifa[g][f] EXCEPT !.pc = p, !.res = i] \in IfaStates
      /\ \A r \in Requests : [pc |-> p, req |-> r, res |-> i] \in IfaStates
  BY <1>1 DEF IfaStates
<1>4. [ifa EXCEPT ![g][f].pc = p, ![g][f].res = i]
        = [ifa EXCEPT ![g][f] = [ifa[g][f] EXCEPT !.pc = p, !.res = i]]
  BY <1>1
<1> QED
  BY <1>2, <1>3, <1>4

LEMMA StubChanges ==
  ASSUME TypeOK, NEW f \in Factory, NEW g, NEW s \in StubStates
  PROVE  [stub EXCEPT ![f][g] = s] \in [Factory -> [Factory -> StubStates]]
<1>1. stub[f] \in [Factory -> StubStates]
  BY DEF TypeOK
<1>2. [stub[f] EXCEPT ![g] = s] \in [Factory -> StubStates]
  BY <1>1
<1> QED
  BY <1>2 DEF TypeOK

LEMMA CustomerTypeOK ==
  ASSUME TypeOK, \/ \E f \in Factory, orders \in 1 .. MaxOrders : StartProgram(f, orders)
                 \/ \E c \in Customers : CustomerThread(c)
  PROVE  TypeOK'
<1> USE ProgramAssumption DEF TypeOK, factoryVars, adminVars, clientVars
<1>1. ASSUME NEW f \in Factory, NEW orders \in 1 .. MaxOrders, StartProgram(f, orders)
      PROVE  TypeOK'
  BY <1>1 DEF StartProgram
<1>2. ASSUME NEW c \in Customers, Order(c)
      PROVE  TypeOK'
  <2>1. customer[c].num + 1 \in 0 .. MaxOrders /\ target \in Factory
    BY <1>2, FactoryAssumption DEF Order
  <2>2. customer' \in [Customers ->
           [pc : {"ready", "waiting", "made", "stopped"}, num : 0 .. MaxOrders]]
    BY <1>2, <2>1 DEF Order
  <2>3. arq' \in [Factory -> Seq(Customers)]
    BY <1>2, <2>1, AppendProperties DEF Order
  <2> QED
    BY <1>2, <2>2, <2>3 DEF Order
<1>3. ASSUME NEW c \in Customers, ShipRobot(c)
      PROVE  TypeOK'
  BY <1>3 DEF ShipRobot
<1>4. ASSUME NEW c \in Customers, Leave(c)
      PROVE  TypeOK'
  BY <1>4 DEF Leave
<1> QED
  BY <1>1, <1>2, <1>3, <1>4 DEF CustomerThread

\* Applying an entry of the log leaves records and indices.
LEMMA RecordType ==
  ASSUME TypeOK, NEW f \in Factory, NEW i \in Indices
  PROVE  /\ [customer_record EXCEPT ![f][Entry(f, i).cid] = Entry(f, i).num]
              \in [Factory -> [Keys -> {NoRecord, MapOp.num} \cup 1 .. MaxOrders]]
         /\ [committed_index EXCEPT ![f] = i] \in [Factory -> Indices]
<1> DEFINE R == {NoRecord, MapOp.num} \cup 1 .. MaxOrders
           c == Entry(f, i).cid
           n == Entry(f, i).num
<1>1. c \in Keys /\ n \in R /\ customer_record \in [Factory -> [Keys -> R]]
  BY EntryIsOp DEF TypeOK
<1> HIDE DEF R, c, n
<1>2. [customer_record EXCEPT ![f][c] = n] \in [Factory -> [Keys -> R]]
  BY <1>1
<1>3. [committed_index EXCEPT ![f] = i] \in [Factory -> Indices]
  BY DEF TypeOK
<1> QED
  BY <1>2, <1>3 DEF R, c, n

LEMMA UpdateType ==
  ASSUME TypeOK, NEW f \in Factory, UpdateCusRecord(f)
  PROVE  /\ customer_record' \in [Factory -> [Keys -> {NoRecord, MapOp.num} \cup 1 .. MaxOrders]]
         /\ committed_index' \in [Factory -> Indices]
<1>1. last_index[f] \in Indices
  BY DEF TypeOK
<1> QED
  BY <1>1, RecordType DEF UpdateCusRecord

\* What AppendLog does, whether the log has entries beyond last_index or not.
LEMMA AppendLogStep ==
  ASSUME Typed, NEW f \in Factory, AppendLog(f)
  PROVE  LET op == [cid |-> admin[f].cust, num |-> customer[admin[f].cust].num]
             req == [fid |-> factory_id[f], committed |-> committed_index[f],
                     last |-> last_index'[f], op |-> op]
         IN  /\ op \in Ops /\ req \in Requests /\ req.last \in Nat
             /\ admin' = [admin EXCEPT ![f].pc = "replicate", ![f].req = req,
                            ![f].todo = {g \in Factory : stub[f][g] \in {"open", "identified"}}]
             /\ smr_log' \in [Factory -> Seq(Ops)] /\ last_index' \in [Factory -> Indices]
             /\ Len(smr_log'[f]) >= Len(smr_log[f]) /\ last_index'[f] < Len(smr_log'[f])
             /\ \A g \in Factory \ {f} : smr_log'[g] = smr_log[g] /\ last_index'[g] = last_index[g]
<1> DEFINE op == [cid |-> admin[f].cust, num |-> customer[admin[f].cust].num]
           req == [fid |-> factory_id[f], committed |-> committed_index[f],
                   last |-> last_index'[f], op |-> op]
<1>1. f = target /\ up[f] /\ Busy(f) /\ f \in Live
  BY WorkerIsTarget DEF AppendLog, Busy, Live
<1>2. op \in Ops
  BY <1>1, RequestIsOrder, OpIsOp
<1>3. /\ smr_log \in [Factory -> Seq(Ops)] /\ last_index \in [Factory -> Indices]
      /\ committed_index[f] \in Indices /\ factory_id[f] \in GarbageIds
      /\ last_index[f] < Len(smr_log[f])
  BY <1>1 DEF Typed, TypeOK, IndexInv, Log
<1>4. PICK n \in Nat, L \in Indices : n = Len(smr_log[f]) /\ L = last_index[f] /\ L < n
                                      /\ DOMAIN smr_log[f] = 1 .. n
  BY <1>3, LenProperties
<1>5. /\ \/ /\ LogIsAhead(f) /\ ~AppendFaults(f)
            /\ smr_log' = [smr_log EXCEPT ![f][last_index[f] + 1] = op]
            /\ UNCHANGED last_index
         \/ /\ ~LogIsAhead(f)
            /\ smr_log' = [smr_log EXCEPT ![f] = Append(@, op)]
            /\ last_index' = [last_index EXCEPT ![f] = @ + 1]
      /\ admin' = [admin EXCEPT ![f].pc = "replicate", ![f].req = req,
                     ![f].todo = {g \in Factory : stub[f][g] \in {"open", "identified"}}]
  BY DEF AppendLog
<1> HIDE DEF op
<1>6. /\ smr_log' \in [Factory -> Seq(Ops)] /\ last_index' \in [Factory -> Indices]
      /\ last_index'[f] \in Nat
      /\ Len(smr_log'[f]) >= Len(smr_log[f]) /\ last_index'[f] < Len(smr_log'[f])
      /\ \A g \in Factory \ {f} : smr_log'[g] = smr_log[g] /\ last_index'[g] = last_index[g]
  <2>1. CASE /\ LogIsAhead(f) /\ ~AppendFaults(f)
             /\ smr_log' = [smr_log EXCEPT ![f][last_index[f] + 1] = op]
             /\ UNCHANGED last_index
    <3>1. L \in Nat /\ L + 1 \in 1 .. n
      BY <2>1, <1>4 DEF AppendFaults, Indices
    <3>2. smr_log[f] \in Seq(Ops)
      BY <1>3
    <3>3. /\ [smr_log[f] EXCEPT ![L + 1] = op] \in Seq(Ops)
          /\ Len([smr_log[f] EXCEPT ![L + 1] = op]) = n
      BY <3>1, <3>2, <1>2, <1>4, ExceptSeq
    <3>4. smr_log' = [smr_log EXCEPT ![f] = [smr_log[f] EXCEPT ![L + 1] = op]]
      BY <2>1, <1>4
    <3>5. smr_log'[f] = [smr_log[f] EXCEPT ![L + 1] = op]
      BY <3>4, <1>3
    <3>6. smr_log' \in [Factory -> Seq(Ops)] /\ \A g \in Factory \ {f} : smr_log'[g] = smr_log[g]
      BY <3>3, <3>4, <1>3
    <3> QED
      BY <2>1, <3>1, <3>3, <3>5, <3>6, <1>3, <1>4
  <2>2. CASE /\ ~LogIsAhead(f)
             /\ smr_log' = [smr_log EXCEPT ![f] = Append(@, op)]
             /\ last_index' = [last_index EXCEPT ![f] = @ + 1]
    <3>1. smr_log[f] \in Seq(Ops)
      BY <1>3
    <3>2. /\ Append(smr_log[f], op) \in Seq(Ops)
          /\ Len(Append(smr_log[f], op)) = n + 1
      BY <3>1, <1>2, <1>4, AppendProperties
    <3>3. smr_log'[f] = Append(smr_log[f], op) /\ last_index'[f] = L + 1
      BY <2>2, <1>3, <1>4
    <3>4. L + 1 \in Nat /\ L + 1 \in Indices
      BY DEF Indices
    <3>5. /\ smr_log' \in [Factory -> Seq(Ops)]
          /\ \A g \in Factory \ {f} : smr_log'[g] = smr_log[g] /\ last_index'[g] = last_index[g]
      BY <2>2, <3>2, <1>3
    <3>6. last_index' \in [Factory -> Indices]
      BY <2>2, <3>4, <1>3, <1>4
    <3>7. Len(smr_log'[f]) = n + 1 /\ last_index'[f] < n + 1
      BY <3>2, <3>3, <1>4 DEF Indices
    <3> QED
      BY <3>3, <3>4, <3>5, <3>6, <3>7, <1>4
  <2> QED
    BY <1>5, <2>1, <2>2
<1>7. req \in Requests /\ req.last \in Nat
  BY <1>2, <1>3, <1>6 DEF Requests, Indices
<1> QED
  BY <1>2, <1>5, <1>6, <1>7 DEF op

LEMMA AdminTypeOK ==
  ASSUME Typed, NEW f \in Factory, AdminThread(f)
  PROVE  TypeOK'
<1> USE DEF Typed, TypeOK, factoryVars, adminVars, clientVars
<1>1. CASE StayPrimary(f)
  BY <1>1, AdminChanges DEF StayPrimary, AdminPcs
<1>2. CASE TakeOver(f)
  <2>1. /\ \/ UNCHANGED <<customer_record, committed_index>>
           \/ UpdateCusRecord(f)
        /\ up' = up \/ up' = [up EXCEPT ![f] = FALSE]
        /\ admin' = [admin EXCEPT ![f].pc = "takeover"]
        /\ UNCHANGED <<smr_log, last_index, primary_id, factory_id, arq, peer_connected,
                       stub, ifa, clientVars>>
    BY <1>2 DEF TakeOver
  <2>2. /\ customer_record' \in [Factory -> [Keys -> {NoRecord, MapOp.num} \cup 1 .. MaxOrders]]
        /\ committed_index' \in [Factory -> Indices]
    <3>1. CASE UNCHANGED <<customer_record, committed_index>>
      BY <3>1
    <3>2. CASE UpdateCusRecord(f)
      BY <3>2, UpdateType
    <3> QED
      BY <2>1, <3>1, <3>2
  <2>3. admin' \in [Factory -> AdminStates]
    BY <2>1, AdminChanges DEF AdminPcs
  <2>4. up' \in [Factory -> BOOLEAN]
    BY <2>1
  <2> QED
    BY <2>1, <2>2, <2>3, <2>4
<1>3. CASE BecomePrimary(f)
  BY <1>3, AdminChanges DEF BecomePrimary, AdminPcs
<1>4. CASE TakeRequest(f)
  <2>1. arq[f] # <<>>
    BY <1>4, WorkerIsTarget DEF TakeRequest, QueueInv
  <2>2. Head(arq[f]) \in Customers /\ Tail(arq[f]) \in Seq(Customers)
    BY <2>1, HeadTailProperties
  <2>3. admin' \in [Factory -> AdminStates]
    BY <1>4, <2>2, AdminChanges DEF TakeRequest, AdminPcs
  <2>4. stub' \in [Factory -> [Factory -> StubStates]]
    BY <1>4 DEF TakeRequest, StubStates
  <2>5. ifa' \in [Factory -> [Factory -> IfaStates]]
    <3>1. ASSUME NEW g \in Factory PROVE [ifa[g] EXCEPT ![f].pc = "wait"] \in [Factory -> IfaStates]
      <4>1. ifa[g] \in [Factory -> IfaStates] /\ ifa[g][f] \in IfaStates
        OBVIOUS
      <4>2. [ifa[g][f] EXCEPT !.pc = "wait"] \in IfaStates
        BY <4>1 DEF IfaStates, IfaPcs
      <4> QED
        BY <4>1, <4>2
    <3>2. ifa' = [g \in Factory |-> IF g \in (IF peer_connected[f] THEN {} ELSE Reached(f))
                                    THEN [ifa[g] EXCEPT ![f].pc = "wait"] ELSE ifa[g]]
      BY <1>4 DEF TakeRequest
    <3> QED
      BY <3>1, <3>2
  <2> QED
    BY <1>4, <2>2, <2>3, <2>4, <2>5 DEF TakeRequest
<1>5. CASE AppendLog(f)
  <2> DEFINE req == [fid |-> factory_id[f], committed |-> committed_index[f],
                     last |-> last_index'[f],
                     op |-> [cid |-> admin[f].cust, num |-> customer[admin[f].cust].num]]
  <2>1. /\ req \in Requests
        /\ admin' = [admin EXCEPT ![f].pc = "replicate", ![f].req = req,
                       ![f].todo = {g \in Factory : stub[f][g] \in {"open", "identified"}}]
        /\ smr_log' \in [Factory -> Seq(Ops)] /\ last_index' \in [Factory -> Indices]
    BY <1>5, AppendLogStep
  <2> HIDE DEF req
  <2>2. admin' \in [Factory -> AdminStates]
    BY <2>1, AdminChanges DEF AdminPcs
  <2> QED
    BY <1>5, <2>1, <2>2 DEF AppendLog
<1>6. CASE AppendFault(f)
  BY <1>6 DEF AppendFault
<1>7. CASE SendReplicationRequest(f)
  <2> DEFINE g == NextPeer(f)
  <2>1. g \in Factory /\ -1 \in Indices
    BY <1>7, NextPeerIs DEF SendReplicationRequest, Indices
  <2>2. /\ ifa' = [ifa EXCEPT ![g][f] = [pc |-> "sent", req |-> admin[f].req, res |-> -1]]
        /\ stub' = [stub EXCEPT ![f][g] = "identified"]
        /\ admin' = [admin EXCEPT ![f].pc = "wait"]
    BY <1>7 DEF SendReplicationRequest
  <2> HIDE DEF g
  <2>3. ifa' \in [Factory -> [Factory -> IfaStates]]
    <3>1. admin[f].req \in Requests /\ "sent" \in IfaPcs
      BY DEF AdminStates, IfaPcs
    <3> QED
      BY <2>1, <2>2, <3>1, IfaChanges
  <2>4. stub' \in [Factory -> [Factory -> StubStates]]
    BY <2>1, <2>2, StubChanges DEF StubStates
  <2>5. admin' \in [Factory -> AdminStates]
    BY <2>2, AdminChanges DEF AdminPcs
  <2> QED
    BY <1>7, <2>3, <2>4, <2>5 DEF SendReplicationRequest
<1>8. CASE ReceiveReply(f)
  <2> DEFINE g == NextPeer(f)
  <2>1. /\ \/ ifa' = [ifa EXCEPT ![g][f].pc = "wait"]
           \/ ifa' = [ifa EXCEPT ![g][f].pc = "none"]
        /\ stub' = stub \/ stub' = [stub EXCEPT ![f][g] = "down"]
        /\ admin' = [admin EXCEPT ![f].pc = "replicate", ![f].todo = @ \ {g}]
    BY <1>8 DEF ReceiveReply
  <2>2. g \in Factory
    BY <1>8, NextPeerIs DEF ReceiveReply, RequestInv
  <2> HIDE DEF g
  <2>3. stub' \in [Factory -> [Factory -> StubStates]]
    <3>1. "down" \in StubStates /\ stub \in [Factory -> [Factory -> StubStates]]
      BY DEF StubStates
    <3>2. [stub EXCEPT ![f][g] = "down"] \in [Factory -> [Factory -> StubStates]]
      BY <3>1, StubChanges
    <3> QED
      BY <2>1, <3>1, <3>2
  <2>4. ifa' \in [Factory -> [Factory -> IfaStates]]
    <3>1. /\ [ifa EXCEPT ![g][f].pc = "wait"] \in [Factory -> [Factory -> IfaStates]]
          /\ [ifa EXCEPT ![g][f].pc = "none"] \in [Factory -> [Factory -> IfaStates]]
      BY <2>2, IfaMoves DEF IfaPcs
    <3> QED
      BY <2>1, <3>1
  <2>5. admin' \in [Factory -> AdminStates]
    <3>1. admin[f].todo \ {g} \in SUBSET Factory
      BY DEF AdminStates
    <3> QED
      BY <2>1, <3>1, AdminChanges DEF AdminPcs
  <2> QED
    BY <1>8, <2>3, <2>4, <2>5 DEF ReceiveReply
<1>9. CASE PeerFails(f)
  <2> DEFINE g == NextPeer(f)
  <2>1. /\ stub' = stub \/ stub' = [stub EXCEPT ![f][g] = "down"]
        /\ admin' = [admin EXCEPT ![f].pc = "replicate", ![f].todo = @ \ {g}]
    BY <1>9 DEF PeerFails
  <2> HIDE DEF g
  <2>2. stub' \in [Factory -> [Factory -> StubStates]]
    <3>1. "down" \in StubStates /\ stub \in [Factory -> [Factory -> StubStates]]
      BY DEF StubStates
    <3>2. [stub EXCEPT ![f][g] = "down"] \in [Factory -> [Factory -> StubStates]]
      BY <3>1, StubChanges
    <3> QED
      BY <2>1, <3>1, <3>2
  <2>3. admin' \in [Factory -> AdminStates]
    <3>1. admin[f].todo \ {g} \in SUBSET Factory
      BY DEF AdminStates
    <3> QED
      BY <2>1, <3>1, AdminChanges DEF AdminPcs
  <2> QED
    BY <1>9, <2>2, <2>3 DEF PeerFails
<1>10. CASE BrokenPipe(f)
  BY <1>10 DEF BrokenPipe
<1>11. CASE Commit(f)
  <2>1. UpdateCusRecord(f)
    BY <1>11 DEF Commit
  <2>2. /\ customer_record' \in [Factory -> [Keys -> {NoRecord, MapOp.num} \cup 1 .. MaxOrders]]
        /\ committed_index' \in [Factory -> Indices]
    BY <2>1, UpdateType
  <2>3. admin' \in [Factory -> AdminStates]
    BY <1>11, OpIsOp DEF Commit, IdleAdmin, AdminStates, AdminPcs
  <2>4. customer' \in [Customers ->
           [pc : {"ready", "waiting", "made", "stopped"}, num : 0 .. MaxOrders]]
    BY <1>11 DEF Commit
  <2> QED
    BY <1>11, <2>2, <2>3, <2>4 DEF Commit
<1> QED
  BY <1>1, <1>2, <1>3, <1>4, <1>5, <1>6, <1>7, <1>8, <1>9, <1>10, <1>11 DEF AdminThread

\* A request is written within the log that is filled for it; every other entry
\* of the log only moves up.
LEMMA WriteLogStep ==
  ASSUME Typed, NEW g \in Factory, NEW f \in Factory, WriteLog(g, f)
  PROVE  /\ smr_log' \in [Factory -> Seq(Ops)] /\ last_index' \in [Factory -> Indices]
         /\ Len(smr_log'[g]) > Len(smr_log[g]) /\ last_index'[g] < Len(smr_log'[g])
         /\ ifa[g][f].req.last < Len(smr_log'[g])
         /\ \A h \in Factory \ {g} : smr_log'[h] = smr_log[h] /\ last_index'[h] = last_index[h]
         /\ ifa[g][f].req.last <= Len(Filled(g, f)) /\ ifa[g][f].req.last \in Nat
<1> DEFINE req == ifa[g][f].req
<1>1. g \in Live /\ ifa[g][f].pc = "store" /\ ~ GapFaults(g, f)
  BY DEF WriteLog, Live
<1>2. /\ smr_log \in [Factory -> Seq(Ops)] /\ last_index \in [Factory -> Indices]
      /\ smr_log[g] \in Seq(Ops) /\ last_index[g] \in Indices
      /\ last_index[g] < Len(smr_log[g])
      /\ req.last \in Indices /\ req.last >= 0 /\ req.op \in Ops
  <2>1. /\ smr_log \in [Factory -> Seq(Ops)] /\ last_index \in [Factory -> Indices]
        /\ ifa[g][f] \in IfaStates
    BY DEF Typed, TypeOK
  <2>2. smr_log[g] \in Seq(Ops) /\ last_index[g] \in Indices
    BY <2>1
  <2>3. req.last \in Indices /\ req.op \in Ops
    BY <2>1 DEF IfaStates, Requests
  <2>4. last_index[g] < Len(smr_log[g]) /\ req.last >= 0
    BY <1>1 DEF Typed, IndexInv, RequestInv, Log
  <2> QED
    BY <2>1, <2>2, <2>3, <2>4
<1>3. PICK n \in Nat, i \in Indices, k \in Nat :
        n = Len(smr_log[g]) /\ i = last_index[g] /\ i < n /\ k = req.last
  BY <1>2 DEF Indices
<1>4. /\ Filled(g, f) \in Seq(Ops) /\ Len(Filled(g, f)) >= n /\ k <= Len(Filled(g, f))
      /\ Len(Filled(g, f)) \in Nat
  <2>1. CASE HasGap(g, f)
    <3>1. i \in Nat /\ i <= n /\ k - i \in Nat /\ i \in 0 .. n /\ i + 1 <= n
      BY <1>1, <1>3, <2>1 DEF GapFaults, HasGap, Indices
    <3>2. Filler(g, f) = [j \in 1 .. k - i |-> MapOp]
      BY <1>3 DEF Filler
    <3>3. Filler(g, f) \in Seq(Ops) /\ Len(Filler(g, f)) = k - i
      BY <3>1, <3>2, OpIsOp
    <3>4. /\ Inserted(smr_log[g], i, Filler(g, f)) \in Seq(Ops)
          /\ Len(Inserted(smr_log[g], i, Filler(g, f))) = n + (k - i)
      <4>1. i \in 0 .. Len(smr_log[g])
        BY <3>1, <1>3
      <4> QED
        BY <4>1, <3>3, <1>2, <1>3, InsertedFacts
    <3>5. Filled(g, f) = Inserted(smr_log[g], i, Filler(g, f))
      BY <2>1, <1>3 DEF Filled
    <3>6. n + (k - i) \in Nat /\ n + (k - i) >= n /\ k <= n + (k - i)
      BY <3>1
    <3> QED
      BY <3>4, <3>5, <3>6
  <2>2. CASE ~ HasGap(g, f)
    <3>1. Filled(g, f) = smr_log[g] /\ ~ (k - i > 1)
      BY <2>2, <1>3 DEF Filled, HasGap
    <3> QED
      BY <3>1, <1>2, <1>3 DEF Indices
  <2> QED
    BY <2>1, <2>2
<1> DEFINE new == Inserted(Filled(g, f), k, <<req.op>>)
<1>5. new \in Seq(Ops) /\ Len(new) = Len(Filled(g, f)) + 1
  <2>1. <<req.op>> \in Seq(Ops) /\ Len(<<req.op>>) = 1
    BY <1>2
  <2>2. k \in 0 .. Len(Filled(g, f))
    BY <1>4
  <2>3. Filled(g, f) \in Seq(Ops)
    BY <1>4
  <2> QED
    BY <2>1, <2>2, <2>3, InsertedFacts
<1>6. /\ smr_log' = [smr_log EXCEPT ![g] = new]
      /\ last_index' = [last_index EXCEPT ![g] = IF HasGap(g, f) THEN k ELSE i]
  BY <1>3 DEF WriteLog
<1> HIDE DEF new
<1>7. smr_log' \in [Factory -> Seq(Ops)] /\ smr_log'[g] = new
      /\ \A h \in Factory \ {g} : smr_log'[h] = smr_log[h]
  BY <1>2, <1>5, <1>6
<1>8. /\ last_index' \in [Factory -> Indices] /\ last_index'[g] \in {k, i}
      /\ \A h \in Factory \ {g} : last_index'[h] = last_index[h]
  <2>1. k \in Indices
    BY DEF Indices
  <2> QED
    BY <2>1, <1>2, <1>6
<1>9. k < Len(new) /\ i < Len(new) /\ n < Len(new)
  BY <1>3, <1>4, <1>5 DEF Indices
<1> QED
  BY <1>3, <1>4, <1>7, <1>8, <1>9

LEMMA IfaTypeOK ==
  ASSUME Typed, NEW g \in Factory, NEW f \in Factory, IfaThread(g, f)
  PROVE  TypeOK'
<1> USE DEF Typed, TypeOK, factoryVars, adminVars, clientVars
<1>1. CASE ReceiveReplicationRequest(g, f)
  <2>1. ifa[g][f].req.fid \in GarbageIds \cup {NoId}
    BY DEF IfaStates, Requests
  <2>2. /\ ifa' = [ifa EXCEPT ![g][f].pc = "none"] \/ ifa' = [ifa EXCEPT ![g][f].pc = "store"]
        /\ [ifa EXCEPT ![g][f].pc = "none"] \in [Factory -> [Factory -> IfaStates]]
        /\ [ifa EXCEPT ![g][f].pc = "store"] \in [Factory -> [Factory -> IfaStates]]
    BY <1>1, IfaMoves DEF ReceiveReplicationRequest, IfaPcs
  <2>3. ifa' \in [Factory -> [Factory -> IfaStates]]
    BY <2>2
  <2>4. primary_id' \in [Factory -> Factory \cup GarbageIds \cup {NoId}]
    BY <1>1, <2>1 DEF ReceiveReplicationRequest
  <2> QED
    BY <1>1, <2>3, <2>4 DEF ReceiveReplicationRequest
<1>2. CASE WriteLog(g, f)
  <2>1. /\ ifa' = [ifa EXCEPT ![g][f].pc = "last"]
        /\ UNCHANGED <<up, customer_record, committed_index, primary_id, factory_id,
                       arq, admin, peer_connected, stub, program, target, quota, customer>>
    BY <1>2 DEF WriteLog
  <2>2. ifa' \in [Factory -> [Factory -> IfaStates]]
    BY <2>1, IfaMoves DEF IfaPcs
  <2>3. smr_log' \in [Factory -> Seq(Ops)] /\ last_index' \in [Factory -> Indices]
    BY <1>2, WriteLogStep
  <2> QED
    BY <2>1, <2>2, <2>3
<1>3. CASE GapFault(g, f)
  BY <1>3 DEF GapFault
<1>4. CASE SetLastIndex(g, f)
  <2>1. ifa[g][f].req.last \in Indices
    BY DEF Requests, IfaStates
  <2> QED
    BY <1>4, <2>1, IfaMoves DEF SetLastIndex, IfaPcs
<1>5. CASE ApplyCommitted(g, f)
  <2>1. ifa[g][f].req.committed \in Indices /\ last_index[g] \in Indices
    BY DEF Requests, IfaStates
  <2>2. /\ customer_record' \in [Factory -> [Keys -> {NoRecord, MapOp.num} \cup 1 .. MaxOrders]]
        /\ committed_index' \in [Factory -> Indices]
    <3>1. CASE UNCHANGED <<customer_record, committed_index>>
      BY <3>1
    <3>2. CASE ~ UNCHANGED <<customer_record, committed_index>>
      <4>1. \E i \in Indices :
              /\ customer_record' = [customer_record EXCEPT ![g][Entry(g, i).cid] = Entry(g, i).num]
              /\ committed_index' = [committed_index EXCEPT ![g] = i]
        BY <1>5, <2>1, <3>2 DEF ApplyCommitted
      <4> QED
        BY <4>1, RecordType
    <3> QED
      BY <3>1, <3>2
  <2>3. ifa' = [ifa EXCEPT ![g][f].pc = "reply", ![g][f].res = last_index[g]]
    BY <1>5 DEF ApplyCommitted
  <2>4. ifa' \in [Factory -> [Factory -> IfaStates]]
    BY <2>1, <2>3, IfaChanges DEF IfaPcs
  <2> QED
    BY <1>5, <2>2, <2>4 DEF ApplyCommitted
<1> QED
  BY <1>1, <1>2, <1>3, <1>4, <1>5 DEF IfaThread

LEMMA NextTypeOK == Typed /\ [Next]_vars => TypeOK'
<1> SUFFICES ASSUME Typed, [Next]_vars PROVE TypeOK'
  OBVIOUS
<1>1. ASSUME NEW f \in Factory, Crash(f)
      PROVE  TypeOK'
  BY <1>1 DEF Typed, TypeOK, Crash, factoryVars, adminVars, clientVars
<1>2. CASE UNCHANGED vars
  BY <1>2 DEF Typed, TypeOK, vars
<1>3. TypeOK
  BY DEF Typed
<1> QED
  BY <1>1, <1>2, <1>3, CustomerTypeOK, AdminTypeOK, IfaTypeOK DEF Next, Finished

-----------------------------------------------------------------------------
(* The queue.                                                              *)

\* When no customer has anything to wait for, no admin has anything to do.
LEMMA AllIdle ==
  ASSUME Typed, \A c \in Customers : customer[c].pc = "stopped"
  PROVE  \A f \in Live : admin[f].pc = "idle" /\ arq[f] = <<>>
<1>1. ASSUME up[target] PROVE admin[target].pc = "idle" /\ arq[target] = <<>>
  <2>1. target \in Factory /\ arq[target] \in Seq(Customers)
    BY TargetIsFactory DEF Typed, TypeOK
  <2>2. arq[target] = <<>>
    <3>1. ASSUME arq[target] # <<>> PROVE FALSE
      <4>1. arq[target][1] \in Customers /\ 1 \in DOMAIN arq[target]
        BY <2>1, <3>1, TailFacts
      <4> QED
        BY <1>1, <4>1 DEF Typed, QueueInv
    <3> QED
      BY <3>1
  <2>3. ~ Busy(target) /\ admin[target].pc \notin {"takeover", "connect"}
    BY <1>1, <2>2 DEF Typed, QueueInv
  <2>4. admin[target].pc \in AdminPcs
    BY <2>1 DEF Typed, TypeOK, AdminStates
  <2> QED
    BY <2>2, <2>3, <2>4 DEF Busy, Replicating, AdminPcs
<1> QED
  BY <1>1 DEF Typed, QueueInv, Live

LEMMA CustomerQueueInv ==
  ASSUME Typed, \/ \E f \in Factory, orders \in 1 .. MaxOrders : StartProgram(f, orders)
               \/ \E c \in Customers : CustomerThread(c)
  PROVE  QueueInv'
<1>1. ASSUME NEW f \in Factory, NEW orders \in 1 .. MaxOrders, StartProgram(f, orders)
      PROVE  QueueInv'
  <2>1. /\ \A g \in Live : admin[g].pc = "idle" /\ arq[g] = <<>>
        /\ target' = f /\ up[f] /\ quota' = orders /\ quota' # 0 /\ orders \in Nat
        /\ \A c \in Customers : customer'[c] = [pc |-> "ready", num |-> 0]
        /\ UNCHANGED <<up, arq, admin, smr_log>>
    BY <1>1, AllIdle, ProgramAssumption DEF StartProgram, adminVars, factoryVars
  <2>2. /\ f \in Live /\ Live' = Live /\ admin'[f].pc = "idle" /\ arq'[f] = <<>>
        /\ ~ Busy(f)' /\ \A i : i \notin DOMAIN arq'[f]
    BY <2>1 DEF Live, Busy, Replicating
  <2> QED
    BY <2>1, <2>2 DEF QueueInv
<1>2. ASSUME NEW c \in Customers, Order(c)
      PROVE  QueueInv'
  <2>0. /\ customer[c].pc = "ready" /\ up[target] /\ customer[c].num < quota
        /\ customer' = [customer EXCEPT ![c] = [pc |-> "waiting", num |-> @.num + 1]]
        /\ arq' = [arq EXCEPT ![target] = Append(@, c)]
        /\ UNCHANGED <<up, smr_log, admin, target, quota>>
        /\ Live' = Live /\ Busy(target)' = Busy(target)
    BY <1>2 DEF Order, factoryVars, Live, Busy, Replicating
  <2>1. /\ customer[c].num \in Nat /\ quota \in Nat /\ arq[target] \in Seq(Customers)
        /\ target \in Factory
        /\ customer \in [Customers -> [pc : {"ready", "waiting", "made", "stopped"}, num : 0 .. MaxOrders]]
        /\ arq \in [Factory -> Seq(Customers)]
    BY TargetIsFactory, ProgramAssumption DEF Typed, TypeOK
  <2>2. /\ customer'[c].pc = "waiting" /\ customer'[c].num = customer[c].num + 1
        /\ \A d \in Customers \ {c} : customer'[d] = customer[d]
        /\ arq'[target] = Append(arq[target], c)
        /\ \A f \in Factory \ {target} : arq'[f] = arq[f]
    BY <2>0, <2>1
  <2>3. /\ DOMAIN arq[target] = 1 .. Len(arq[target]) /\ Len(arq[target]) \in Nat
        /\ DOMAIN arq'[target] = 1 .. Len(arq[target]) + 1
        /\ arq'[target][Len(arq[target]) + 1] = c
        /\ \A i \in DOMAIN arq[target] : arq'[target][i] = arq[target][i]
                                         /\ arq[target][i] \in Customers
        /\ arq'[target] # <<>>
    BY <2>1, <2>2, AppendProperties
  <2>4. \A i \in DOMAIN arq[target] : customer[arq[target][i]].pc = "waiting" /\ arq[target][i] # c
    BY <2>0 DEF Typed, QueueInv
  <2>5. \A i \in DOMAIN arq'[target] : i \in DOMAIN arq[target] \/ i = Len(arq[target]) + 1
    BY <2>3
  <2>6. \A i, j \in DOMAIN arq'[target] : arq'[target][i] = arq'[target][j] => i = j
    <3>1. \A i, j \in DOMAIN arq[target] : arq[target][i] = arq[target][j] => i = j
      BY <2>0 DEF Typed, QueueInv
    <3> QED
      BY <2>3, <2>4, <2>5, <3>1
  <2>7. \A i \in DOMAIN arq'[target] : customer'[arq'[target][i]].pc = "waiting"
    BY <2>2, <2>3, <2>4, <2>5
  <2>8. Busy(target) => /\ admin[target].cust \in Customers /\ admin[target].cust # c
                        /\ customer'[admin[target].cust].pc = "waiting"
                        /\ \A i \in DOMAIN arq'[target] : arq'[target][i] # admin[target].cust
    BY <2>0, <2>2, <2>3, <2>5 DEF Typed, QueueInv
  <2>9. \A d \in Customers :
          /\ customer'[d].num <= quota'
          /\ customer'[d].pc \in {"waiting", "made"} => customer'[d].num >= 1
          /\ up'[target'] /\ customer'[d].pc = "stopped" => customer'[d].num = quota'
    BY <2>0, <2>1, <2>2 DEF Typed, QueueInv
  <2>10. \A f \in Live' : f # target' => admin'[f].pc = "idle" /\ arq'[f] = <<>>
    BY <2>0, <2>2 DEF Typed, QueueInv, Live
  <2> QED
    BY <2>0, <2>3, <2>6, <2>7, <2>8, <2>9, <2>10 DEF QueueInv
<1>3. ASSUME NEW c \in Customers, ShipRobot(c) \/ Leave(c)
      PROVE  QueueInv'
  <2>1. /\ \/ customer[c].pc = "made" /\ up[target] /\ customer'[c].pc = "ready"
           \/ customer[c].pc # "stopped" /\ ~ up[target] /\ customer'[c].pc = "stopped"
           \/ /\ customer[c].pc = "ready" /\ customer[c].num = quota /\ customer'[c].pc = "stopped"
        /\ customer'[c].num = customer[c].num
        /\ \A d \in Customers \ {c} : customer'[d] = customer[d]
        /\ UNCHANGED <<up, smr_log, admin, arq, target, quota>>
        /\ Live' = Live /\ Busy(target)' = Busy(target)
    BY <1>3 DEF ShipRobot, Leave, factoryVars, adminVars, Typed, TypeOK, Live, Busy, Replicating
  <2>2. arq[target] \in Seq(Customers)
    BY TargetIsFactory DEF Typed, TypeOK
  <2>3. \A i \in DOMAIN arq[target] : arq[target][i] \in Customers
    BY <2>2
  <2>4. up[target] => \A i \in DOMAIN arq[target] : customer'[arq[target][i]].pc = "waiting"
    BY <2>1, <2>3 DEF Typed, QueueInv
  <2>5. up[target] /\ Busy(target) => /\ admin[target].cust \in Customers
                                      /\ customer'[admin[target].cust].pc = "waiting"
    BY <2>1 DEF Typed, QueueInv
  <2>6. \A d \in Customers :
          /\ customer'[d].num <= quota'
          /\ customer'[d].pc \in {"waiting", "made"} => customer'[d].num >= 1
          /\ up'[target'] /\ customer'[d].pc = "stopped" => customer'[d].num = quota'
    BY <2>1 DEF Typed, QueueInv
  <2> QED
    BY <2>1, <2>4, <2>5, <2>6 DEF Typed, QueueInv
<1> QED
  BY <1>1, <1>2, <1>3 DEF CustomerThread

\* A factory dies.
LEMMA DeathQueueInv ==
  ASSUME Typed, NEW f \in Factory, up' = [up EXCEPT ![f] = FALSE],
         UNCHANGED <<admin, arq, target, quota, customer>>
  PROVE  QueueInv'
<1>1. Live' \subseteq Live /\ (up'[target] => up[target])
  BY TargetIsFactory DEF Typed, TypeOK, Live
<1>2. Busy(target)' = Busy(target)
  BY DEF Busy, Replicating
<1> QED
  BY <1>1, <1>2 DEF Typed, QueueInv

\* Steps that move the target's admin.
LEMMA AdminStepQueue ==
  ASSUME Typed, NEW f \in Factory, up[f], f = target,
         UNCHANGED <<up, arq, target, quota, customer>>,
         \A g \in Factory \ {f} : admin'[g] = admin[g],
         \/ admin'[f].pc \in {"takeover", "connect"} /\ arq[f] # <<>>
         \/ Busy(f) /\ Busy(f)' /\ admin'[f].cust = admin[f].cust
  PROVE  QueueInv'
<1>1. Live' = Live /\ f \in Live
  BY DEF Live
<1>2. \A g \in Live : g # f => admin'[g] = admin[g]
  BY DEF Live
<1>3. admin'[f].pc \in {"takeover", "connect"} => arq[f] # <<>>
  BY DEF Busy, Replicating
<1>4. Busy(f)' => /\ Busy(f) /\ admin'[f].cust = admin[f].cust
  BY DEF Busy, Replicating
<1> QED
  BY <1>1, <1>2, <1>3, <1>4 DEF Typed, QueueInv

LEMMA AdminQueueInv ==
  ASSUME Typed, NEW f \in Factory, AdminThread(f)
  PROVE  QueueInv'
<1>0. /\ admin \in [Factory -> AdminStates] /\ arq \in [Factory -> Seq(Customers)]
      /\ customer \in [Customers -> [pc : {"ready", "waiting", "made", "stopped"}, num : 0 .. MaxOrders]]
  BY DEF Typed, TypeOK
<1>1. CASE StayPrimary(f) \/ TakeOver(f) \/ BecomePrimary(f)
  <2>1. f = target /\ up[f] /\ arq[f] # <<>>
    BY <1>1, WorkerIsTarget DEF StayPrimary, TakeOver, BecomePrimary, Typed, QueueInv
  <2>2. /\ UNCHANGED <<arq, target, quota, customer>>
        /\ \A g \in Factory \ {f} : admin'[g] = admin[g]
        /\ admin'[f].pc \in {"takeover", "connect"}
    BY <1>0, <1>1 DEF StayPrimary, TakeOver, BecomePrimary, clientVars, AdminStates
  <2>3. CASE up' = up
    BY <2>1, <2>2, <2>3, AdminStepQueue
  <2>4. CASE up' = [up EXCEPT ![f] = FALSE]
    <3>1. ~ up'[f] /\ \A g \in Live' : g \in Live /\ g # f
      BY <2>4 DEF Typed, TypeOK, Live
    <3> QED
      BY <2>1, <2>2, <3>1 DEF Typed, QueueInv, Live
  <2> QED
    BY <1>1, <2>3, <2>4 DEF StayPrimary, TakeOver, BecomePrimary
<1>2. CASE TakeRequest(f)
  <2>1. f = target /\ up[f] /\ arq[f] # <<>> /\ arq[f] \in Seq(Customers)
    BY <1>0, <1>2, WorkerIsTarget DEF TakeRequest, Typed, QueueInv
  <2>2. /\ UNCHANGED <<up, target, quota, customer, smr_log>> /\ Live' = Live
        /\ \A g \in Factory \ {f} : admin'[g] = admin[g] /\ arq'[g] = arq[g]
        /\ admin'[f].pc = "append" /\ admin'[f].cust = Head(arq[f])
        /\ arq'[f] = Tail(arq[f])
    BY <1>0, <1>2 DEF TakeRequest, factoryVars, clientVars, AdminStates, Live
  <2>3. /\ \A i \in DOMAIN Tail(arq[f]) : Tail(arq[f])[i] = arq[f][i + 1] /\ i + 1 \in DOMAIN arq[f]
                                          /\ i \in Nat /\ i >= 1
        /\ Head(arq[f]) = arq[f][1] /\ 1 \in DOMAIN arq[f] /\ Head(arq[f]) \in Customers
    BY <2>1, TailFacts
  <2>4. \A i, j \in DOMAIN arq[f] : arq[f][i] = arq[f][j] => i = j
    BY <2>1 DEF Typed, QueueInv
  <2>5. \A i \in DOMAIN arq[f] : customer[arq[f][i]].pc = "waiting"
    BY <2>1 DEF Typed, QueueInv
  <2>6. \A i, j \in DOMAIN arq'[f] : arq'[f][i] = arq'[f][j] => i = j
    <3>1. ASSUME NEW i \in DOMAIN Tail(arq[f]), NEW j \in DOMAIN Tail(arq[f]),
                 Tail(arq[f])[i] = Tail(arq[f])[j]
          PROVE  i = j
      <4>1. i + 1 = j + 1 /\ i \in Nat /\ j \in Nat
        BY <2>3, <2>4, <3>1
      <4> QED
        BY <4>1
    <3> QED
      BY <2>2, <3>1
  <2>7. \A i \in DOMAIN arq'[f] : customer'[arq'[f][i]].pc = "waiting" /\ arq'[f][i] # Head(arq[f])
    <3>1. ASSUME NEW i \in DOMAIN Tail(arq[f])
          PROVE  Tail(arq[f])[i] # Head(arq[f]) /\ customer[Tail(arq[f])[i]].pc = "waiting"
      <4>1. i + 1 # 1
        BY <2>3
      <4> QED
        BY <4>1, <2>3, <2>4, <2>5
    <3> QED
      BY <2>2, <3>1
  <2>8. customer'[Head(arq[f])].pc = "waiting"
    BY <2>2, <2>3, <2>5
  <2>9. \A g \in Live : g # f => admin'[g].pc = "idle" /\ arq'[g] = <<>>
    BY <2>1, <2>2 DEF Typed, QueueInv, Live
  <2> QED
    BY <2>1, <2>2, <2>3, <2>6, <2>7, <2>8, <2>9 DEF Typed, QueueInv
<1>3. CASE AppendLog(f) \/ SendReplicationRequest(f) \/ ReceiveReply(f) \/ PeerFails(f)
  <2>1. f = target /\ up[f] /\ Busy(f)
    BY <1>3, WorkerIsTarget
       DEF AppendLog, SendReplicationRequest, ReceiveReply, PeerFails, Busy, Replicating
  <2>2. /\ UNCHANGED <<up, arq, target, quota, customer>>
        /\ \A g \in Factory \ {f} : admin'[g] = admin[g]
        /\ admin'[f].pc \in {"replicate", "wait"} /\ admin'[f].cust = admin[f].cust
    BY <1>0, <1>3 DEF AppendLog, SendReplicationRequest, ReceiveReply, PeerFails, clientVars, AdminStates
  <2>3. Busy(f)'
    BY <2>2 DEF Busy, Replicating
  <2> QED
    BY <2>1, <2>2, <2>3, AdminStepQueue
<1>4. CASE AppendFault(f) \/ BrokenPipe(f)
  <2>1. /\ up' = [up EXCEPT ![f] = FALSE]
        /\ UNCHANGED <<admin, arq, target, quota, customer>>
    BY <1>4 DEF AppendFault, BrokenPipe, adminVars, clientVars
  <2> QED
    BY <2>1, DeathQueueInv
<1>5. CASE Commit(f)
  <2>1. f = target /\ up[f] /\ Busy(f)
    BY <1>5, WorkerIsTarget DEF Commit, Busy, Replicating
  <2>2. /\ admin[f].cust \in Customers /\ customer[admin[f].cust].pc = "waiting"
        /\ \A i \in DOMAIN arq[f] : arq[f][i] # admin[f].cust /\ arq[f][i] \in Customers
                                    /\ customer[arq[f][i]].pc = "waiting"
    <3>1. arq[f] \in Seq(Customers)
      BY <1>0
    <3>2. \A i \in DOMAIN arq[f] : arq[f][i] \in Customers
      BY <3>1
    <3> QED
      BY <2>1, <3>2 DEF Typed, QueueInv
  <2>3. /\ UNCHANGED <<up, arq, target, quota, smr_log>> /\ Live' = Live
        /\ \A g \in Factory \ {f} : admin'[g] = admin[g]
        /\ admin'[f].pc = "idle"
        /\ customer'[admin[f].cust].pc = "made"
        /\ customer'[admin[f].cust].num = customer[admin[f].cust].num
        /\ \A c \in Customers \ {admin[f].cust} : customer'[c] = customer[c]
    BY <1>0, <1>5, <2>2 DEF Commit, IdleAdmin, Live
  <2>4. \A i \in DOMAIN arq'[f] : customer'[arq'[f][i]].pc = "waiting"
    BY <2>2, <2>3
  <2>5. ~ Busy(f)'
    BY <2>3 DEF Busy, Replicating
  <2>6. \A d \in Customers :
          /\ customer'[d].num <= quota'
          /\ customer'[d].pc \in {"waiting", "made"} => customer'[d].num >= 1
          /\ up'[target'] /\ customer'[d].pc = "stopped" => customer'[d].num = quota'
    BY <2>2, <2>3 DEF Typed, QueueInv
  <2>7. \A g \in Live' : g # f => admin'[g].pc = "idle" /\ arq'[g] = <<>>
    BY <2>1, <2>3 DEF Typed, QueueInv, Live
  <2> QED
    BY <2>1, <2>2, <2>3, <2>4, <2>5, <2>6, <2>7 DEF Typed, QueueInv
<1> QED
  BY <1>1, <1>2, <1>3, <1>4, <1>5 DEF AdminThread

LEMMA IfaQueueInv ==
  ASSUME Typed, NEW g \in Factory, NEW f \in Factory, IfaThread(g, f)
  PROVE  QueueInv'
<1>1. CASE GapFault(g, f)
  BY <1>1, DeathQueueInv DEF GapFault, adminVars, clientVars
<1>2. CASE ~ GapFault(g, f)
  <2>1. UNCHANGED <<up, arq, admin, target, quota, customer>>
    BY <1>2 DEF IfaThread, ReceiveReplicationRequest, WriteLog, SetLastIndex, ApplyCommitted,
                adminVars, clientVars
  <2>2. Live' = Live /\ Busy(target)' = Busy(target)
    BY <2>1 DEF Live, Busy, Replicating
  <2> QED
    BY <2>1, <2>2 DEF Typed, QueueInv
<1> QED
  BY <1>1, <1>2

LEMMA NextQueueInv == Typed /\ [Next]_vars => QueueInv'
<1> SUFFICES ASSUME Typed, [Next]_vars PROVE QueueInv'
  OBVIOUS
<1>1. ASSUME NEW f \in Factory, Crash(f)
      PROVE  QueueInv'
  BY <1>1, DeathQueueInv DEF Crash, adminVars, clientVars
<1>2. CASE UNCHANGED vars
  <2>1. /\ UNCHANGED <<up, admin, arq, target, quota, customer>> /\ Live' = Live
        /\ Busy(target)' = Busy(target)
    BY <1>2 DEF vars, Live, Busy, Replicating
  <2> QED
    BY <2>1 DEF Typed, QueueInv
<1> QED
  BY <1>1, <1>2, CustomerQueueInv, AdminQueueInv, IfaQueueInv DEF Next, Finished

-----------------------------------------------------------------------------
(* The indices.                                                            *)

\* A factory's threads keep to its log when the log grows, the last entry is
\* set to one of the log, or the thread writes its entry.
LEMMA FrameIndexInv ==
  ASSUME Typed, \A f \in Factory : up'[f] => up[f],
         \A f \in Factory, g \in Factory :
           ifa'[f][g] = ifa[f][g] \/ ifa'[f][g].pc \notin {"last", "apply"},
         UNCHANGED <<smr_log, last_index>>
  PROVE  IndexInv'
<1>1. \A f \in Live' : f \in Live
  BY DEF Live
<1> QED
  BY <1>1 DEF Typed, IndexInv, Live, Log

\* A step of one thread.
LEMMA IfaSteps ==
  ASSUME TypeOK, NEW g \in Factory, NEW f \in Factory, NEW p \in IfaPcs, NEW i,
         \/ ifa' = [ifa EXCEPT ![g][f].pc = p]
         \/ ifa' = [ifa EXCEPT ![g][f].pc = p, ![g][f].res = i]
  PROVE  /\ \A h, k \in Factory : h # g \/ k # f => ifa'[h][k] = ifa[h][k]
         /\ ifa'[g][f].pc = p /\ ifa'[g][f].req = ifa[g][f].req
<1>1. /\ ifa \in [Factory -> [Factory -> IfaStates]] /\ ifa[g][f] \in IfaStates
      /\ ifa[g] \in [Factory -> IfaStates]
  BY DEF TypeOK
<1>2. CASE ifa' = [ifa EXCEPT ![g][f].pc = p]
  <2> DEFINE s == [ifa[g][f] EXCEPT !.pc = p]
  <2>1. ifa' = [ifa EXCEPT ![g][f] = s]
    BY <1>1, <1>2
  <2>2. s.pc = p /\ s.req = ifa[g][f].req
    BY <1>1 DEF IfaStates
  <2> HIDE DEF s
  <2> QED
    BY <1>1, <2>1, <2>2
<1>3. CASE ifa' = [ifa EXCEPT ![g][f].pc = p, ![g][f].res = i]
  <2> DEFINE s == [ifa[g][f] EXCEPT !.pc = p, !.res = i]
  <2>1. ifa' = [ifa EXCEPT ![g][f] = s]
    BY <1>1, <1>3
  <2>2. s.pc = p /\ s.req = ifa[g][f].req
    BY <1>1 DEF IfaStates
  <2> HIDE DEF s
  <2> QED
    BY <1>1, <2>1, <2>2
<1> QED
  BY <1>2, <1>3

LEMMA AdminIndexInv ==
  ASSUME Typed, NEW f \in Factory, AdminThread(f)
  PROVE  IndexInv' /\ RequestInv'
<1>0. /\ admin \in [Factory -> AdminStates] /\ ifa \in [Factory -> [Factory -> IfaStates]]
      /\ up \in [Factory -> BOOLEAN] /\ TypeOK
  BY DEF Typed, TypeOK
<1>1. CASE StayPrimary(f) \/ TakeOver(f) \/ BecomePrimary(f) \/ AppendFault(f) \/ BrokenPipe(f)
           \/ PeerFails(f) \/ Commit(f)
  <2>1. /\ UNCHANGED <<smr_log, last_index, ifa>>
        /\ \A g \in Factory : up'[g] => up[g]
    BY <1>0, <1>1 DEF StayPrimary, TakeOver, BecomePrimary, AppendFault, BrokenPipe, PeerFails, Commit,
                      factoryVars
  <2>2. /\ \A g \in Factory \ {f} : admin'[g] = admin[g]
        /\ \/ admin'[f] = admin[f]
           \/ admin'[f].pc \in {"connect", "takeover", "idle"}
           \/ Replicating(f) /\ admin'[f].pc = "replicate" /\ admin'[f].req = admin[f].req
    BY <1>0, <1>1 DEF StayPrimary, TakeOver, BecomePrimary, AppendFault, BrokenPipe, PeerFails, Commit,
                      adminVars, AdminStates, IdleAdmin, Replicating
  <2>3. IndexInv'
    BY <2>1, FrameIndexInv
  <2>4. RequestInv'
    BY <2>1, <2>2 DEF Typed, RequestInv, Replicating
  <2> QED
    BY <2>3, <2>4
<1>2. CASE TakeRequest(f)
  <2>1. /\ UNCHANGED <<up, smr_log, last_index>>
        /\ \A g, h \in Factory : ifa'[g][h] = ifa[g][h] \/ ifa'[g][h].pc = "wait"
    <3>1. ifa' = [g \in Factory |-> IF g \in (IF peer_connected[f] THEN {} ELSE Reached(f))
                                    THEN [ifa[g] EXCEPT ![f].pc = "wait"] ELSE ifa[g]]
      BY <1>2 DEF TakeRequest
    <3>2. ASSUME NEW g \in Factory, NEW h \in Factory
          PROVE  ifa'[g][h] = ifa[g][h] \/ ifa'[g][h].pc = "wait"
      <4>1. ifa[g] \in [Factory -> IfaStates] /\ ifa[g][f] \in IfaStates
        BY <1>0
      <4>2. ifa'[g] = ifa[g] \/ ifa'[g] = [ifa[g] EXCEPT ![f].pc = "wait"]
        BY <3>1
      <4>3. [ifa[g] EXCEPT ![f].pc = "wait"][h] = ifa[g][h]
            \/ [ifa[g] EXCEPT ![f].pc = "wait"][h].pc = "wait"
        BY <4>1 DEF IfaStates
      <4> QED
        BY <4>2, <4>3
    <3> QED
      BY <1>2, <3>2 DEF TakeRequest, factoryVars
  <2>2. /\ \A g \in Factory \ {f} : admin'[g] = admin[g]
        /\ admin'[f].pc = "append"
    BY <1>0, <1>2 DEF TakeRequest, AdminStates
  <2>3. IndexInv'
    BY <2>1, FrameIndexInv
  <2>4. RequestInv'
    BY <2>1, <2>2 DEF Typed, RequestInv, Replicating
  <2> QED
    BY <2>3, <2>4
<1>3. CASE AppendLog(f)
  <2>1. /\ UNCHANGED <<up, ifa>> /\ Live' = Live
        /\ \A g \in Factory \ {f} : admin'[g] = admin[g]
        /\ admin'[f].pc = "replicate" /\ admin'[f].req.last \in Nat
    <3>1. UNCHANGED <<up, ifa>> /\ Live' = Live
      BY <1>3 DEF AppendLog, Live
    <3>2. \E req \in Requests, T \in SUBSET Factory :
            /\ req.last \in Nat
            /\ admin' = [admin EXCEPT ![f].pc = "replicate", ![f].req = req, ![f].todo = T]
      <4> DEFINE r == [fid |-> factory_id[f], committed |-> committed_index[f],
                       last |-> last_index'[f],
                       op |-> [cid |-> admin[f].cust, num |-> customer[admin[f].cust].num]]
                 T == {g \in Factory : stub[f][g] \in {"open", "identified"}}
      <4>1. /\ r \in Requests /\ r.last \in Nat
            /\ admin' = [admin EXCEPT ![f].pc = "replicate", ![f].req = r, ![f].todo = T]
        BY <1>3, AppendLogStep
      <4>2. T \in SUBSET Factory
        OBVIOUS
      <4> HIDE DEF r, T
      <4> QED
        BY <4>1, <4>2
    <3>3. /\ \A g \in Factory \ {f} : admin'[g] = admin[g]
          /\ admin'[f].pc = "replicate" /\ admin'[f].req.last \in Nat
      BY <3>2, <1>0 DEF AdminStates
    <3> QED
      BY <3>1, <3>3
  <2>2. /\ Len(smr_log'[f]) >= Len(smr_log[f]) /\ last_index'[f] < Len(smr_log'[f])
        /\ \A g \in Factory \ {f} : smr_log'[g] = smr_log[g] /\ last_index'[g] = last_index[g]
        /\ smr_log'[f] \in Seq(Ops) /\ smr_log[f] \in Seq(Ops)
    BY <1>3, AppendLogStep DEF Typed, TypeOK
  <2>3. ASSUME NEW h \in Factory, ifa[f][h].pc \in {"last", "apply"}, f \in Live
        PROVE  ifa[f][h].req.last < Len(smr_log'[f])
    <3>1. Len(smr_log'[f]) \in Nat /\ Len(smr_log[f]) \in Nat
      BY <2>2, LenProperties
    <3>2. ifa[f][h].req.last \in Indices /\ ifa[f][h].req.last < Len(smr_log[f])
      BY <1>0, <2>3 DEF Typed, IndexInv, Log, IfaStates, Requests
    <3> QED
      BY <3>1, <3>2, <2>2 DEF Indices
  <2>4. IndexInv'
    BY <2>1, <2>2, <2>3 DEF Typed, IndexInv, Log, Live
  <2>5. RequestInv'
    BY <2>1 DEF Typed, RequestInv, Replicating
  <2> QED
    BY <2>4, <2>5
<1>4. CASE SendReplicationRequest(f)
  <2> DEFINE g == NextPeer(f)
  <2>1. /\ UNCHANGED <<up, smr_log, last_index>> /\ g \in Factory
        /\ ifa' = [ifa EXCEPT ![g][f] = [pc |-> "sent", req |-> admin[f].req, res |-> -1]]
        /\ admin' = [admin EXCEPT ![f].pc = "wait"] /\ admin[f].todo # {} /\ Replicating(f)
    BY <1>0, <1>4, NextPeerIs DEF SendReplicationRequest, factoryVars, Replicating
  <2> HIDE DEF g
  <2>2. /\ \A h \in Factory \ {f} : admin'[h] = admin[h]
        /\ admin'[f].req = admin[f].req /\ admin'[f].todo = admin[f].todo
        /\ \A h, k \in Factory : \/ ifa'[h][k] = ifa[h][k]
                                 \/ ifa'[h][k].pc = "sent" /\ ifa'[h][k].req = admin[f].req
    BY <1>0, <2>1 DEF AdminStates
  <2>3. IndexInv'
    BY <2>1, <2>2, FrameIndexInv
  <2>4. RequestInv'
    BY <2>1, <2>2 DEF Typed, RequestInv, Replicating
  <2> QED
    BY <2>3, <2>4
<1>5. CASE ReceiveReply(f)
  <2> DEFINE g == NextPeer(f)
  <2>1. /\ UNCHANGED <<up, smr_log, last_index>> /\ Replicating(f)
        /\ \/ ifa' = [ifa EXCEPT ![g][f].pc = "wait"]
           \/ ifa' = [ifa EXCEPT ![g][f].pc = "none"]
        /\ admin' = [admin EXCEPT ![f].pc = "replicate", ![f].todo = @ \ {g}]
    BY <1>5 DEF ReceiveReply, factoryVars, Replicating
  <2>2. g \in Factory
    BY <1>0, <1>5, NextPeerIs DEF ReceiveReply, Typed, RequestInv
  <2> HIDE DEF g
  <2>3. /\ \A h \in Factory \ {f} : admin'[h] = admin[h]
        /\ admin'[f].req = admin[f].req /\ admin'[f].pc = "replicate"
    BY <1>0, <2>1 DEF AdminStates
  <2>4. ASSUME NEW h \in Factory, NEW k \in Factory
        PROVE  ifa'[h][k] = ifa[h][k] \/ ifa'[h][k].pc \in {"none", "wait"}
    <3>1. PICK p \in {"none", "wait"} : ifa' = [ifa EXCEPT ![g][f].pc = p]
      BY <2>1
    <3>2. p \in IfaPcs
      BY DEF IfaPcs
    <3>3. /\ h # g \/ k # f => ifa'[h][k] = ifa[h][k]
          /\ ifa'[g][f].pc = p
      BY <1>0, <2>2, <3>1, <3>2, IfaSteps
    <3> QED
      BY <3>3
  <2>5. IndexInv'
    BY <2>1, <2>4, FrameIndexInv
  <2>6. RequestInv'
    BY <2>1, <2>3, <2>4 DEF Typed, RequestInv, Replicating
  <2> QED
    BY <2>5, <2>6
<1> QED
  BY <1>1, <1>2, <1>3, <1>4, <1>5 DEF AdminThread

LEMMA IfaIndexInv ==
  ASSUME Typed, NEW g \in Factory, NEW f \in Factory, IfaThread(g, f)
  PROVE  IndexInv' /\ RequestInv'
<1>0. /\ ifa \in [Factory -> [Factory -> IfaStates]] /\ ifa[g][f] \in IfaStates
      /\ up \in [Factory -> BOOLEAN] /\ TypeOK
  BY DEF Typed, TypeOK
\* A thread's request does not change; what it does with it does.
<1>1. /\ UNCHANGED admin
      /\ \A h, k \in Factory : h # g \/ k # f => ifa'[h][k] = ifa[h][k]
      /\ ifa'[g][f].req = ifa[g][f].req
      /\ ifa[g][f].pc \notin {"none", "wait"}
  <2>1. /\ UNCHANGED admin /\ ifa[g][f].pc \notin {"none", "wait"}
        /\ \/ UNCHANGED ifa
           \/ \E p \in IfaPcs : ifa' = [ifa EXCEPT ![g][f].pc = p]
           \/ ifa' = [ifa EXCEPT ![g][f].pc = "reply", ![g][f].res = last_index[g]]
    BY DEF IfaThread, ReceiveReplicationRequest, WriteLog, GapFault, SetLastIndex, ApplyCommitted,
           adminVars, IfaPcs
  <2>2. CASE UNCHANGED ifa
    BY <2>1, <2>2
  <2>3. CASE \E p \in IfaPcs : ifa' = [ifa EXCEPT ![g][f].pc = p]
    <3>1. PICK p \in IfaPcs : ifa' = [ifa EXCEPT ![g][f].pc = p]
      BY <2>3
    <3> QED
      BY <1>0, <2>1, <3>1 DEF IfaStates
  <2>4. CASE ifa' = [ifa EXCEPT ![g][f].pc = "reply", ![g][f].res = last_index[g]]
    BY <1>0, <2>1, <2>4 DEF IfaStates
  <2> QED
    BY <2>1, <2>2, <2>3, <2>4
<1>2. RequestInv'
  BY <1>1 DEF Typed, RequestInv, Replicating
<1>3. CASE ReceiveReplicationRequest(g, f) \/ GapFault(g, f) \/ ApplyCommitted(g, f)
  <2>0. /\ UNCHANGED <<smr_log, last_index>> /\ \A h \in Factory : up'[h] => up[h]
        /\ \/ ifa' = ifa
           \/ ifa' = [ifa EXCEPT ![g][f].pc = "none"] \/ ifa' = [ifa EXCEPT ![g][f].pc = "store"]
           \/ ifa' = [ifa EXCEPT ![g][f].pc = "reply", ![g][f].res = last_index[g]]
    BY <1>0, <1>3 DEF ReceiveReplicationRequest, GapFault, ApplyCommitted, factoryVars
  <2>1. ifa'[g][f] = ifa[g][f] \/ ifa'[g][f].pc \in {"none", "store", "reply"}
    <3>1. CASE ifa' = ifa
      BY <3>1
    <3>2. CASE ifa' # ifa
      <4>1. PICK p \in {"none", "store", "reply"}, i \in Indices :
              \/ ifa' = [ifa EXCEPT ![g][f].pc = p]
              \/ ifa' = [ifa EXCEPT ![g][f].pc = p, ![g][f].res = i]
        BY <2>0, <3>2 DEF Typed, TypeOK
      <4>2. p \in IfaPcs
        BY DEF IfaPcs
      <4>3. CASE ifa' = [ifa EXCEPT ![g][f].pc = p]
        BY <1>0, <4>2, <4>3, IfaSteps
      <4>4. CASE ifa' = [ifa EXCEPT ![g][f].pc = p, ![g][f].res = i]
        BY <1>0, <4>2, <4>4, IfaSteps
      <4> QED
        BY <4>1, <4>3, <4>4
    <3> QED
      BY <3>1, <3>2
  <2>2. \A h, k \in Factory : ifa'[h][k] = ifa[h][k] \/ ifa'[h][k].pc \notin {"last", "apply"}
    BY <1>1, <2>1
  <2> QED
    BY <1>2, <2>0, <2>2, FrameIndexInv
<1>4. CASE WriteLog(g, f)
  <2>1. /\ smr_log' \in [Factory -> Seq(Ops)] /\ smr_log \in [Factory -> Seq(Ops)]
        /\ Len(smr_log'[g]) > Len(smr_log[g]) /\ last_index'[g] < Len(smr_log'[g])
        /\ ifa[g][f].req.last < Len(smr_log'[g])
        /\ \A h \in Factory \ {g} : smr_log'[h] = smr_log[h] /\ last_index'[h] = last_index[h]
    BY <1>0, <1>4, WriteLogStep DEF TypeOK
  <2>2. Live' = Live /\ g \in Live
    BY <1>4 DEF WriteLog, Live
  <2>3. ASSUME NEW k \in Factory, ifa'[g][k].pc \in {"last", "apply"}
        PROVE  ifa'[g][k].req.last < Len(smr_log'[g])
    <3>1. CASE k = f
      BY <3>1, <1>1, <2>1
    <3>2. CASE k # f
      <4>1. ifa'[g][k] = ifa[g][k]
        BY <1>1, <3>2
      <4>2. ifa[g][k].req.last \in Indices /\ ifa[g][k].req.last < Len(smr_log[g])
        BY <1>0, <2>2, <2>3, <4>1 DEF Typed, IndexInv, Log, IfaStates, Requests
      <4>3. Len(smr_log'[g]) \in Nat /\ Len(smr_log[g]) \in Nat
        BY <2>1, LenProperties
      <4> QED
        BY <2>1, <4>1, <4>2, <4>3 DEF Indices
    <3> QED
      BY <3>1, <3>2
  <2>4. IndexInv'
    BY <1>1, <2>1, <2>2, <2>3 DEF Typed, IndexInv, Log, Live
  <2> QED
    BY <1>2, <2>4
<1>5. CASE SetLastIndex(g, f)
  <2>1. /\ UNCHANGED <<smr_log, up>> /\ Live' = Live /\ g \in Live
        /\ last_index'[g] = ifa[g][f].req.last /\ ifa[g][f].pc = "last"
        /\ \A h \in Factory \ {g} : last_index'[h] = last_index[h]
    BY <1>0, <1>5 DEF SetLastIndex, Live, TypeOK
  <2>2. ifa[g][f].req.last < Len(smr_log[g])
    BY <2>1 DEF Typed, IndexInv, Log
  <2>3. IndexInv'
    BY <1>1, <2>1, <2>2 DEF Typed, IndexInv, Log, Live
  <2> QED
    BY <1>2, <2>3
<1> QED
  BY <1>3, <1>4, <1>5 DEF IfaThread

LEMMA NextIndexInv == Typed /\ [Next]_vars => IndexInv' /\ RequestInv'
<1> SUFFICES ASSUME Typed, [Next]_vars PROVE IndexInv' /\ RequestInv'
  OBVIOUS
<1>1. CASE \/ UNCHANGED vars
           \/ \E f \in Factory : Crash(f)
           \/ \E f \in Factory, orders \in 1 .. MaxOrders : StartProgram(f, orders)
           \/ \E c \in Customers : CustomerThread(c)
  <2>1. /\ UNCHANGED <<smr_log, last_index, ifa, admin>>
        /\ \A f \in Factory : up'[f] => up[f]
    BY <1>1 DEF vars, Crash, StartProgram, CustomerThread, Order, ShipRobot, Leave,
                factoryVars, adminVars, Typed, TypeOK
  <2>2. IndexInv'
    BY <2>1, FrameIndexInv
  <2>3. RequestInv'
    BY <2>1 DEF Typed, RequestInv, Replicating
  <2> QED
    BY <2>2, <2>3
<1> QED
  BY <1>1, AdminIndexInv, IfaIndexInv DEF Next, Finished

LEMMA InitTyped == Init => Typed
<1> SUFFICES ASSUME Init PROVE Typed
  OBVIOUS
<1>1. TypeOK
  BY InitTypeOK
<1>2. admin[target] = IdleAdmin /\ \A f \in Factory : admin[f] = IdleAdmin
  BY FactoryAssumption DEF Init
<1>3. QueueInv
  <2>1. /\ quota = 0 /\ \A c \in Customers : customer[c] = [pc |-> "stopped", num |-> 0]
        /\ \A f \in Factory : arq[f] = <<>> /\ admin[f].pc = "idle"
        /\ arq[target] = <<>> /\ admin[target].pc = "idle"
    BY <1>2, TargetIsFactory, <1>1 DEF Init, IdleAdmin
  <2>2. ~ Busy(target) /\ \A i : i \notin DOMAIN arq[target]
    BY <2>1 DEF Busy, Replicating
  <2> QED
    BY <2>1, <2>2 DEF QueueInv, Live
<1>4. RequestInv /\ IndexInv
  <2>1. \A f \in Factory : last_index[f] = -1 /\ Len(smr_log[f]) = 0
    BY DEF Init
  <2> QED
    BY <1>2, <2>1 DEF Init, RequestInv, IndexInv, Replicating, IdleAdmin, Live, Log
<1> QED
  BY <1>1, <1>3, <1>4 DEF Typed

\* Types, queues, requests and indices, whatever is killed and whatever
\* factory_id holds.
THEOREM TypesAndIndices == Spec => []Typed
<1>1. Init => Typed
  BY InitTyped
<1>2. Typed /\ [Next]_vars => Typed'
  BY NextTypeOK, NextQueueInv, NextIndexInv DEF Typed
<1> QED
  BY <1>1, <1>2, PTL DEF Spec

\* Every variable keeps its type: the logs hold operations, the indices are
\* indices of them or -1, and the queues and threads only name what there is.
THEOREM TypeCorrect == Spec => []TypeOK
<1>1. Typed => TypeOK
  BY DEF Typed
<1> QED
  BY <1>1, TypesAndIndices, PTL

\* Every entry that a thread is about to insert or overwrite is within the log,
\* and so is every entry it applies for a request that does not commit more than
\* it brings, also when primaries die and leave their last requests behind.
THEOREM IndicesAreInLog == Spec => []IndexInLog
<1>1. Typed => IndexInLog
  <2>1. ASSUME Typed, NEW f \in Live
        PROVE  last_index[f] < Len(Log(f))
    BY <2>1 DEF Typed, IndexInv
  <2>2. ASSUME Typed, NEW f \in Live, NEW g \in Factory
        PROVE  LET req == ifa[f][g].req
               IN  /\ ifa[f][g].pc = "store" /\ ~HasGap(f, g) => req.last <= Len(Log(f))
                   /\ ifa[f][g].pc = "apply" /\ req.committed <= req.last =>
                        req.committed < Len(Log(f))
    <3>1. /\ f \in Factory /\ smr_log[f] \in Seq(Ops) /\ last_index[f] \in Indices
          /\ ifa[f][g].req.last \in Indices /\ ifa[f][g].req.committed \in Indices
      BY <2>2 DEF Typed, TypeOK, Live, IfaStates, Requests
    <3>2. PICK n \in Nat, i \in Indices, k \in Indices, c \in Indices :
            /\ n = Len(smr_log[f]) /\ i = last_index[f]
            /\ k = ifa[f][g].req.last /\ c = ifa[f][g].req.committed
      BY <3>1, LenProperties
    <3>3. i < n /\ (ifa[f][g].pc = "apply" => k < n)
      BY <2>2, <3>2 DEF Typed, IndexInv, Log
    <3>4. ~ HasGap(f, g) => ~ (k - i > 1)
      BY <3>2 DEF HasGap
    <3>5. /\ ~ (k - i > 1) => k <= n
          /\ ifa[f][g].pc = "apply" /\ c <= k => c < n
      BY <3>3 DEF Indices
    <3> QED
      BY <3>2, <3>4, <3>5 DEF Log
  <2> QED
    BY <2>1, <2>2 DEF IndexInLog
<1> QED
  BY <1>1, TypesAndIndices, PTL

-----------------------------------------------------------------------------
(* Consequences of the invariant.                                          *)

LEMMA IInvIsTyped == IInv => Typed
BY DEF IInv, Inv, Typed

LEMMA LogFacts ==
  ASSUME IInv
  PROVE  /\ target \in Factory /\ target \in MayServe
         /\ N \in Nat /\ smr_log[target] \in Seq(Orders)
         /\ DOMAIN smr_log[target] = 1 .. N /\ last_index[target] = N - 1
         /\ \A f \in Live :
              /\ Len(smr_log[f]) \in Nat /\ smr_log[f] \in Seq(Orders)
              /\ Len(smr_log[f]) = N - (IF Behind(f) THEN 1 ELSE 0)
              /\ DOMAIN smr_log[f] = 1 .. Len(smr_log[f])
         /\ Orders \subseteq Ops
<1>1. target \in Factory /\ target \in MayServe
  BY FactoryAssumption DEF IInv, TypeOK
<1>2. N \in Nat /\ smr_log[target] \in Seq(Orders) /\ DOMAIN smr_log[target] = 1 .. N
  BY LenProperties DEF IInv, Inv, LogInv, N
<1>3. ASSUME NEW f \in Live
      PROVE  /\ Len(smr_log[f]) \in Nat /\ smr_log[f] \in Seq(Orders)
             /\ Len(smr_log[f]) = N - (IF Behind(f) THEN 1 ELSE 0)
             /\ DOMAIN smr_log[f] = 1 .. Len(smr_log[f])
  <2>1. CASE Behind(f)
    <3>1. N > 0 /\ smr_log[f] = SubSeq(smr_log[target], 1, N - 1)
      BY <2>1 DEF IInv, Inv, LogInv, Behind
    <3> QED
      BY <3>1, <2>1, <1>2, FrontAndLast, LenProperties DEF N
  <2>2. CASE ~ Behind(f)
    <3>1. smr_log[f] = smr_log[target]
      BY <2>2 DEF IInv, Inv, LogInv
    <3> QED
      BY <3>1, <2>2, <1>2 DEF N
  <2> QED
    BY <2>1, <2>2
<1>4. Orders \subseteq Ops
  BY DEF Orders, Ops
<1> QED
  BY <1>1, <1>2, <1>3, <1>4 DEF IInv, Inv, LogInv

\* The thread of a factory that serves a primary serves the target.
LEMMA ServedIsTarget ==
  ASSUME IInv, NEW g \in Factory, NEW f \in Factory, up[g],
         ifa[g][f].pc \notin {"none", "wait"}
  PROVE  /\ f = target /\ up[target] /\ admin[target].pc = "wait"
         /\ g = NextPeer(target) /\ g # target
         /\ g \in admin[target].todo /\ Replicating(target) /\ Busy(target)
         /\ N > 0 /\ ifa[g][f].req.last = N - 1 /\ ifa[g][f].req.committed = N - 2
         /\ ifa[g][f].req.fid \in GarbageIds
         /\ ifa[g][f].req.op = smr_log[target][N]
         /\ g \in Live
<1>1. /\ f = target /\ up[target] /\ admin[target].pc = "wait"
      /\ g = NextPeer(target) /\ ifa[g][f].req = admin[target].req /\ g \in Live
  BY DEF IInv, Inv, CallInv, Live
<1>2. Replicating(target) /\ Busy(target)
  BY <1>1 DEF Replicating, Busy
<1>3. g \in admin[target].todo /\ g # target
  BY <1>1, <1>2, NextPeerIs DEF IInv, Inv, StubInv
<1>4. /\ admin[target].req.fid = factory_id[target] /\ admin[target].req.committed = N - 2
      /\ admin[target].req.last = N - 1 /\ smr_log[target][N] = admin[target].req.op
  BY <1>1, <1>2 DEF IInv, Inv, CallInv
<1>5. factory_id[target] \in GarbageIds
  BY <1>1 DEF IInv, TypeOK
<1> QED
  BY <1>1, <1>2, <1>3, <1>4, <1>5 DEF IInv, Inv, LogInv

\* No one serves a primary unless the target waits.
LEMMA NobodyServes ==
  ASSUME IInv, NEW g \in Factory, NEW f \in Factory, up[g],
         ~ up[target] \/ admin[target].pc # "wait"
  PROVE  ifa[g][f].pc \in {"none", "wait"}
BY ServedIsTarget

-----------------------------------------------------------------------------
(* What the steps do.                                                      *)

\* AppendLog appends: the target's log is never ahead.
LEMMA AppendLogAppends ==
  ASSUME IInv, NEW f \in Factory, up[f], admin[f].pc = "append"
  PROVE  f = target /\ ~ LogIsAhead(f) /\ Busy(target)
<1>1. f = target
  BY WorkerIsTarget, IInvIsTyped
<1>2. Len(smr_log[f]) - last_index[f] = 1
  BY <1>1, LogFacts DEF N
<1> QED
  BY <1>1, <1>2 DEF LogIsAhead, Busy

\* The factory that is to store the target's last entry lacks just this one.
LEMMA StoreAppends ==
  ASSUME IInv, NEW g \in Factory, NEW f \in Factory, up[g], ifa[g][f].pc = "store"
  PROVE  /\ ~ HasGap(g, f) /\ Filled(g, f) = smr_log[g]
         /\ Inserted(smr_log[g], ifa[g][f].req.last, <<ifa[g][f].req.op>>) = smr_log[target]
         /\ Len(smr_log[g]) = N - 1 /\ last_index[g] = N - 2
<1>1. /\ f = target /\ N > 0 /\ ifa[g][f].req.last = N - 1 /\ g \in Live
      /\ ifa[g][f].req.op = smr_log[target][N] /\ g \in admin[target].todo /\ Replicating(target)
  BY ServedIsTarget
<1>2. Behind(g)
  BY <1>1 DEF Behind, Stored
<1>3. smr_log[g] = SubSeq(smr_log[target], 1, N - 1) /\ last_index[g] = Len(smr_log[g]) - 1
  BY <1>1, <1>2 DEF IInv, Inv, LogInv
<1>4. N \in Nat /\ Len(smr_log[g]) = N - 1 /\ smr_log[g] \in Seq(Orders)
  BY <1>1, <1>2, LogFacts
<1>5. last_index[g] = N - 2
  BY <1>3, <1>4
<1>6. ~ HasGap(g, f)
  BY <1>1, <1>4, <1>5 DEF HasGap
<1>7. /\ Append(smr_log[g], smr_log[target][N]) = smr_log[target]
      /\ smr_log[target][N] \in Orders
  BY <1>1, <1>3, LogFacts, FrontAndLast DEF N
<1>8. Inserted(smr_log[g], N - 1, <<smr_log[target][N]>>) = smr_log[target]
  BY <1>4, <1>7, InsertedLast
<1> QED
  BY <1>1, <1>4, <1>5, <1>6, <1>8 DEF Filled

LEMMA WriteLogStores ==
  ASSUME IInv, NEW g \in Factory, NEW f \in Factory, WriteLog(g, f)
  PROVE  /\ f = target /\ up[g] /\ ifa[g][f].pc = "store"
         /\ smr_log' = [smr_log EXCEPT ![g] = smr_log[target]]
         /\ last_index' = last_index
         /\ ifa' = [ifa EXCEPT ![g][f].pc = "last"]
         /\ UNCHANGED <<up, customer_record, committed_index, primary_id, factory_id,
                        adminVars, clientVars>>
<1>1. /\ f = target /\ ~ HasGap(g, f) /\ Filled(g, f) = smr_log[g]
      /\ Inserted(smr_log[g], ifa[g][f].req.last, <<ifa[g][f].req.op>>) = smr_log[target]
  BY StoreAppends, ServedIsTarget DEF WriteLog
<1>2. last_index' = [last_index EXCEPT ![g] = last_index[g]]
  BY <1>1 DEF WriteLog
<1>3. last_index' = last_index
  BY <1>2 DEF IInv, TypeOK
<1> QED
  BY <1>1, <1>3 DEF WriteLog

\* Nothing is wrong with the log when a factory takes over.
LEMMA TakeOverUpdates ==
  ASSUME IInv, NEW f \in Factory, TakeOver(f)
  PROVE  /\ f = target /\ up[f] /\ primary_id[f] # f /\ up' = up
         /\ admin[f].pc = "idle" /\ arq[f] # <<>>
         /\ \/ /\ primary_id[f] = NoId /\ N = 0
               /\ UNCHANGED <<customer_record, committed_index>>
            \/ primary_id[f] # NoId /\ N > 0 /\ UpdateCusRecord(f)
<1>1. f = target /\ up[f] /\ primary_id[f] # f /\ admin[f].pc = "idle" /\ f \in Live
      /\ arq[f] # <<>>
  BY WorkerIsTarget, IInvIsTyped DEF TakeOver, Live
<1>2. CASE primary_id[f] = NoId
  <2>1. smr_log[f] = <<>>
    BY <1>1, <1>2 DEF IInv, Inv, CommitInv
  <2>2. N = 0
    BY <1>1, <2>1 DEF N
  <2> QED
    BY <1>1, <1>2, <2>2 DEF TakeOver
<1>3. CASE primary_id[f] # NoId
  <2>1. ~ Leads(target) /\ admin[target].pc = "idle"
    BY <1>1, <1>3 DEF Leads
  <2>2. committed_index[target] = N - 2
    BY <2>1 DEF IInv, Inv, CommitInv
  <2>3. committed_index[target] \in Indices /\ N \in Nat
    BY LogFacts DEF IInv, TypeOK
  <2>4. N > 0
    BY <2>2, <2>3 DEF Indices
  <2>5. ~ UpdateFaults(f)
    BY <2>4, <1>1 DEF UpdateFaults, N
  <2> QED
    BY <1>1, <1>3, <2>4, <2>5 DEF TakeOver
<1> QED
  BY <1>2, <1>3

\* The entry that is applied is one of the log.
LEMMA EntryIsOrder ==
  ASSUME IInv, NEW f \in Live, NEW i \in 0 .. Len(smr_log[f]) - 1
  PROVE  Entry(f, i) \in Orders /\ Entry(f, i) = smr_log[f][i + 1]
<1>1. Len(smr_log[f]) \in Nat /\ smr_log[f] \in Seq(Orders)
  BY LogFacts
<1>2. i + 1 \in DOMAIN smr_log[f]
  BY <1>1
<1> QED
  BY <1>1, <1>2, ElementOfSeq DEF Entry

LEMMA LastEntry ==
  ASSUME IInv, up[target], N > 0
  PROVE  /\ Entry(target, last_index[target]) = smr_log[target][N]
         /\ smr_log[target][N] \in Orders /\ last_index[target] = N - 1
<1>1. target \in Live /\ last_index[target] = N - 1 /\ N \in Nat
  BY LogFacts DEF Live
<1>2. N - 1 \in 0 .. Len(smr_log[target]) - 1 /\ N - 1 + 1 = N
  BY <1>1 DEF N
<1> QED
  BY <1>1, <1>2, EntryIsOrder

\* The committed entry of a request is in the log of the one who applies it.
LEMMA ApplyCommittedApplies ==
  ASSUME IInv, NEW g \in Factory, NEW f \in Factory, ApplyCommitted(g, f)
  PROVE  /\ f = target /\ up[g] /\ g # target /\ g \in Live /\ N > 0 /\ ifa[g][f].pc = "apply"
         /\ smr_log[g] = smr_log[target] /\ last_index[g] = N - 1
         /\ ifa' = [ifa EXCEPT ![g][f].pc = "reply", ![g][f].res = N - 1]
         /\ \/ /\ N = 1
               /\ UNCHANGED <<customer_record, committed_index>>
            \/ /\ N > 1 /\ Entry(g, N - 2) = smr_log[target][N - 1]
               /\ smr_log[target][N - 1] \in Orders
               /\ customer_record' = [customer_record EXCEPT
                     ![g][smr_log[target][N - 1].cid] = smr_log[target][N - 1].num]
               /\ committed_index' = [committed_index EXCEPT ![g] = N - 2]
         /\ UNCHANGED <<up, smr_log, last_index, primary_id, factory_id, adminVars, clientVars>>
<1>1. /\ f = target /\ N > 0 /\ ifa[g][f].req.committed = N - 2 /\ g \in Live
      /\ up[g] /\ ifa[g][f].pc = "apply" /\ g # target
  BY ServedIsTarget DEF ApplyCommitted
<1>2. ~ Behind(g)
  BY <1>1 DEF Behind, Stored
<1>3. smr_log[g] = smr_log[target] /\ last_index[g] = Len(smr_log[g]) - 1
  BY <1>1, <1>2 DEF IInv, Inv, LogInv
<1>4. N \in Nat /\ last_index[g] = N - 1
  BY <1>3, LogFacts DEF N
<1>5. N > 1 => Entry(g, N - 2) = smr_log[target][N - 1] /\ Entry(g, N - 2) \in Orders
  <2> SUFFICES ASSUME N > 1
               PROVE  Entry(g, N - 2) = smr_log[target][N - 1] /\ Entry(g, N - 2) \in Orders
    OBVIOUS
  <2>1. N - 2 \in 0 .. Len(smr_log[g]) - 1 /\ N - 2 + 1 = N - 1
    BY <1>3, <1>4 DEF N
  <2> QED
    BY <1>1, <1>3, <2>1, EntryIsOrder
<1>6. N = 1 <=> N - 2 = -1
  BY <1>4
<1>7. N = 1 \/ N > 1
  BY <1>1, <1>4
<1> QED
  BY <1>1, <1>3, <1>4, <1>5, <1>6, <1>7 DEF ApplyCommitted

-----------------------------------------------------------------------------
(* Before the first program.                                               *)

LEMMA NextQuotaInv == IInv /\ [Next]_vars => QuotaInv'
<1> SUFFICES ASSUME IInv, [Next]_vars, quota' = 0
             PROVE  /\ \A c \in Customers : customer'[c].pc = "stopped"
                    /\ \A f \in Factory : smr_log'[f] = smr_log[f]
                    /\ quota = 0
  BY DEF QuotaInv, IInv, Inv
<1>0. quota' = quota => \A c \in Customers : customer[c].pc = "stopped"
  BY DEF QuotaInv, IInv, Inv
<1>1. ASSUME NEW f \in Factory, NEW orders \in 1 .. MaxOrders, StartProgram(f, orders)
      PROVE  FALSE
  BY <1>1 DEF StartProgram
<1>2. ASSUME ~ \E f \in Factory, orders \in 1 .. MaxOrders : StartProgram(f, orders)
      PROVE  UNCHANGED <<quota, customer, smr_log>>
  <2>1. CASE \E c \in Customers : CustomerThread(c)
    <3>1. PICK c \in Customers : CustomerThread(c)
      BY <2>1
    <3>2. quota' = quota
      BY <3>1 DEF CustomerThread, Order, ShipRobot, Leave
    <3>3. customer[c].pc = "stopped"
      BY <3>2, <1>0
    <3> QED
      BY <3>1, <3>3 DEF CustomerThread, Order, ShipRobot, Leave
  <2>2. ASSUME NEW f \in Factory, AdminThread(f)
        PROVE  UNCHANGED <<quota, customer, smr_log>>
    <3>1. quota' = quota
      BY <2>2 DEF AdminThread, StayPrimary, TakeOver, BecomePrimary, TakeRequest, AppendLog,
                  AppendFault, SendReplicationRequest, ReceiveReply, PeerFails, BrokenPipe, Commit,
                  clientVars
    <3>2. ~ (AppendLog(f) \/ Commit(f))
      <4>1. ASSUME AppendLog(f) \/ Commit(f) PROVE f = target /\ up[f] /\ Busy(f)
        BY <4>1, WorkerIsTarget, IInvIsTyped DEF AppendLog, Commit, Busy, Replicating
      <4> QED
        BY <3>1, <4>1, BusyMeansOrders, IInvIsTyped
    <3> QED
      BY <2>2, <3>2 DEF AdminThread, StayPrimary, TakeOver, BecomePrimary, TakeRequest,
                  AppendFault, SendReplicationRequest, ReceiveReply, PeerFails, BrokenPipe,
                  clientVars, factoryVars
  <2>3. ASSUME NEW g \in Factory, NEW f \in Factory, IfaThread(g, f)
        PROVE  UNCHANGED <<quota, customer, smr_log>>
    <3>1. quota' = quota
      BY <2>3 DEF IfaThread, ReceiveReplicationRequest, WriteLog, GapFault, SetLastIndex,
                  ApplyCommitted, clientVars
    <3>2. ~ WriteLog(g, f)
      BY <3>1, ServedIsTarget, BusyMeansOrders, IInvIsTyped DEF WriteLog
    <3> QED
      BY <2>3, <3>2 DEF IfaThread, ReceiveReplicationRequest, GapFault, SetLastIndex,
                  ApplyCommitted, clientVars, factoryVars
  <2>4. ASSUME NEW f \in Factory, Crash(f)
        PROVE  UNCHANGED <<quota, customer, smr_log>>
    BY <2>4 DEF Crash, clientVars, factoryVars
  <2>5. CASE UNCHANGED vars
    BY <2>5 DEF vars
  <2> QED
    BY <1>2, <2>1, <2>2, <2>3, <2>4, <2>5 DEF Next, Finished
<1> QED
  BY <1>0, <1>1, <1>2

-----------------------------------------------------------------------------
(* The connections of the admins.                                          *)

\* Steps of others that leave the connections alone.
LEMMA FrameStubInv ==
  ASSUME IInv, UNCHANGED <<up, admin, peer_connected, stub, target>>,
         \A f, g \in Live : ifa[g][f].pc # "none" => ifa'[g][f].pc # "none"
  PROVE  StubInv'
<1>1. Live' = Live /\ NextPeer(target)' = NextPeer(target)
      /\ Busy(target)' = Busy(target) /\ \A f : Replicating(f)' = Replicating(f)
  BY DEF Live, NextPeer, Busy, Replicating
<1> QED
  BY <1>1 DEF IInv, Inv, StubInv

\* Who dies is the target after it has called all, or one that may be killed.
LEMMA DeathStubInv ==
  ASSUME Orderly, IInv, NEW f \in Factory, up[f], up' = [up EXCEPT ![f] = FALSE],
         UNCHANGED <<admin, peer_connected, stub, ifa, target>>,
         \/ f \in MayCrash
         \/ /\ f = target /\ admin[f].pc = "replicate"
            /\ \A g \in Live : g \notin admin[target].todo
  PROVE  StubInv'
<1>1. /\ Live' = Live \ {f} /\ NextPeer(target)' = NextPeer(target)
      /\ Busy(target)' = Busy(target) /\ \A g : Replicating(g)' = Replicating(g)
      /\ \A g \in Factory \ {f} : up'[g] = up[g]
  BY DEF Live, NextPeer, Busy, Replicating, IInv, TypeOK
<1>2. f \in MayCrash => f # target
  BY LogFacts DEF Orderly
<1>3. ~ up'[target] => /\ admin[target].pc = "replicate"
                       /\ \A g \in Live : g \notin admin[target].todo
  <2>1. CASE f = target
    BY <1>2, <2>1
  <2>2. CASE f # target
    BY <1>1, <2>2, LogFacts DEF IInv, Inv, StubInv
  <2> QED
    BY <2>1, <2>2
<1>4. ASSUME NEW h \in Live \ {f}, NEW g \in Factory, stub[h][g] = "open"
      PROVE  \/ g \in MayCrash
             \/ /\ up'[g] /\ h = target
                /\ \/ admin[h].pc = "append"
                   \/ Replicating(h) /\ g \in admin[h].todo
  <2>1. CASE f \in MayCrash
    BY <1>1, <1>4, <2>1 DEF IInv, Inv, StubInv
  <2>2. CASE f = target
    BY <1>1, <1>4, <2>2 DEF IInv, Inv, StubInv
  <2> QED
    BY <2>1, <2>2
<1> QED
  BY <1>1, <1>3, <1>4 DEF IInv, Inv, StubInv

\* The target's admin starts with an order.
LEMMA TakeRequestStubInv ==
  ASSUME IInv, NEW f \in Factory, TakeRequest(f)
  PROVE  StubInv'
<1>0. /\ admin \in [Factory -> AdminStates] /\ peer_connected \in [Factory -> BOOLEAN]
      /\ ifa \in [Factory -> [Factory -> IfaStates]] /\ stub \in [Factory -> [Factory -> StubStates]]
  BY DEF IInv, TypeOK
<1>1. f = target /\ up[f] /\ f \in Live /\ UNCHANGED <<up, target>> /\ Live' = Live
  BY WorkerIsTarget, IInvIsTyped DEF TakeRequest, Live, clientVars
<1>2. /\ \A g \in Factory \ {f} : /\ admin'[g] = admin[g] /\ stub'[g] = stub[g]
                                  /\ peer_connected'[g] = peer_connected[g]
      /\ admin'[f].pc = "append" /\ peer_connected'[f] = TRUE
  BY <1>0 DEF TakeRequest, AdminStates
<1> DEFINE reached == IF peer_connected[f] THEN {} ELSE Reached(f)
<1>3. /\ \A g \in Factory : stub'[f][g] = IF g \in reached THEN "open" ELSE stub[f][g]
      /\ \A g \in Factory : ifa'[g] = IF g \in reached THEN [ifa[g] EXCEPT ![f].pc = "wait"]
                                      ELSE ifa[g]
  BY <1>0 DEF TakeRequest
<1>4. \A g \in Factory, h \in Factory : /\ ifa[g][h].pc # "none" => ifa'[g][h].pc # "none"
                                        /\ g \in reached => ifa'[g][f].pc = "wait"
  <2>1. ASSUME NEW g \in Factory, NEW h \in Factory
        PROVE  /\ ifa[g][h].pc # "none" => ifa'[g][h].pc # "none"
               /\ g \in reached => ifa'[g][f].pc = "wait"
    <3>1. ifa[g] \in [Factory -> IfaStates] /\ ifa[g][f] \in IfaStates
      BY <1>0
    <3>2. [ifa[g] EXCEPT ![f].pc = "wait"][f].pc = "wait"
      BY <3>1 DEF IfaStates
    <3>3. h # f => [ifa[g] EXCEPT ![f].pc = "wait"][h] = ifa[g][h]
      BY <3>1
    <3> HIDE DEF reached
    <3> QED
      BY <1>3, <3>2, <3>3
  <2> QED
    BY <2>1
<1>5. /\ f \notin reached
      /\ ~ peer_connected[f] => \A g \in Live : g # f => g \in reached
      /\ \A g \in reached : up[g]
      /\ reached \subseteq Factory
  BY <1>0 DEF Reached, Peers, Live
<1> HIDE DEF reached
<1>6. \A h \in Live : stub'[h][h] = "none"
  BY <1>1, <1>2, <1>3, <1>5 DEF IInv, Inv, StubInv, Live
<1>7. ASSUME NEW h \in Live, NEW g \in Live, peer_connected'[h], g # h
      PROVE  stub'[h][g] \in {"open", "identified"} /\ ifa'[g][h].pc # "none"
  <2>1. CASE h # f \/ peer_connected[f]
    <3>1. stub[h][g] \in {"open", "identified"} /\ ifa[g][h].pc # "none" /\ h \in Factory /\ g \in Factory
      BY <1>2, <1>7, <2>1 DEF IInv, Inv, StubInv, Live
    <3> QED
      BY <3>1, <1>2, <1>3, <1>4
  <2>2. CASE h = f /\ ~ peer_connected[f]
    <3>1. g \in reached /\ g \in Factory /\ h \in Factory
      BY <1>5, <1>7, <2>2 DEF Live
    <3> QED
      BY <2>2, <3>1, <1>3, <1>4
  <2> QED
    BY <2>1, <2>2, <1>0
<1>8. ASSUME NEW h \in Live, NEW g \in Factory, stub'[h][g] = "open"
      PROVE  g \in MayCrash \/ (up[g] /\ h = target /\ admin'[h].pc = "append")
  <2>1. CASE h = f
    <3>1. CASE g \in reached
      BY <3>1, <2>1, <1>1, <1>2, <1>5
    <3>2. CASE g \notin reached
      <4>1. stub[f][g] = "open"
        BY <3>2, <2>1, <1>3, <1>8
      <4>2. admin[f].pc = "connect"
        BY DEF TakeRequest
      <4> QED
        BY <4>1, <4>2, <1>1 DEF IInv, Inv, StubInv, Replicating
    <3> QED
      BY <3>1, <3>2
  <2>2. CASE h # f
    BY <2>2, <1>1, <1>2, <1>8 DEF IInv, Inv, StubInv, Live
  <2> QED
    BY <2>1, <2>2
<1> QED
  BY <1>1, <1>2, <1>6, <1>7, <1>8 DEF StubInv, Replicating

\* The target's admin appends an entry and is about to call its peers.
LEMMA AppendLogStubInv ==
  ASSUME IInv, NEW f \in Factory, AppendLog(f)
  PROVE  StubInv'
<1>1. f = target /\ up[f] /\ f \in Live /\ admin[f].pc = "append"
  BY WorkerIsTarget, IInvIsTyped DEF AppendLog, Live
<1>2. /\ \A g \in Factory \ {f} : admin'[g] = admin[g]
      /\ admin'[f].pc = "replicate"
      /\ admin'[f].todo = {g \in Factory : stub[f][g] \in {"open", "identified"}}
      /\ UNCHANGED <<up, target, peer_connected, stub, ifa>> /\ Live' = Live
  <2>1. admin \in [Factory -> AdminStates]
    BY DEF IInv, TypeOK
  <2> QED
    BY <2>1 DEF AppendLog, AdminStates, clientVars, Live
<1>3. Replicating(f)' /\ f \notin admin'[f].todo /\ peer_connected[f]
  BY <1>1, <1>2 DEF Replicating, Busy, IInv, Inv, StubInv
<1>4. ASSUME NEW h \in Live, NEW g \in Factory, stub[h][g] = "open"
      PROVE  g \in MayCrash \/ (up[g] /\ h = target /\ g \in admin'[f].todo)
  BY <1>1, <1>2, <1>4 DEF IInv, Inv, StubInv
<1> QED
  BY <1>1, <1>2, <1>3, <1>4 DEF IInv, Inv, StubInv

\* The target's admin calls a peer, or is done with one.
LEMMA CallStubInv ==
  ASSUME IInv, NEW f \in Factory,
         SendReplicationRequest(f) \/ ReceiveReply(f) \/ PeerFails(f)
  PROVE  StubInv'
<1> DEFINE p == NextPeer(f)
<1>0. /\ admin \in [Factory -> AdminStates] /\ stub \in [Factory -> [Factory -> StubStates]]
      /\ ifa \in [Factory -> [Factory -> IfaStates]]
  BY DEF IInv, TypeOK
<1>1. /\ f = target /\ up[f] /\ f \in Live /\ admin[f].todo # {} /\ Replicating(f) /\ Busy(f)
      /\ UNCHANGED <<up, target, peer_connected>> /\ Live' = Live
  BY WorkerIsTarget, IInvIsTyped
     DEF SendReplicationRequest, ReceiveReply, PeerFails, clientVars, Live, Replicating, Busy,
         IInv, Inv, StubInv
<1>2. p \in admin[f].todo /\ p \in Factory /\ p # f /\ peer_connected[f] /\ f \notin admin[f].todo
  BY <1>1, NextPeerIs DEF IInv, Inv, StubInv
<1>3. /\ \A g \in Factory \ {f} : admin'[g] = admin[g] /\ stub'[g] = stub[g]
      /\ \A g \in Factory \ {p} : stub'[f][g] = stub[f][g]
  BY <1>0, <1>2 DEF SendReplicationRequest, ReceiveReply, PeerFails
<1>4. up[p] => ifa[p][f].pc # "none" /\ stub[f][p] \in {"open", "identified"}
  BY <1>1, <1>2 DEF IInv, Inv, StubInv, Live
<1>5. \/ /\ admin'[f].pc = "wait" /\ admin'[f].todo = admin[f].todo
         /\ NextPeer(f)' = p /\ stub'[f][p] = "identified"
      \/ /\ admin'[f].pc = "replicate" /\ admin'[f].todo = admin[f].todo \ {p}
         /\ up[p] => stub'[f][p] = "identified"
         /\ stub'[f][p] = "open" => stub[f][p] = "open"
  <2>1. CASE SendReplicationRequest(f)
    <3>1. admin'[f].pc = "wait" /\ admin'[f].todo = admin[f].todo /\ stub'[f][p] = "identified"
      BY <1>0, <1>2, <2>1 DEF SendReplicationRequest, AdminStates
    <3>2. NextPeer(f)' = p
      BY <3>1 DEF NextPeer
    <3> QED
      BY <3>1, <3>2
  <2>2. CASE ReceiveReply(f)
    <3>1. /\ admin'[f].pc = "replicate" /\ admin'[f].todo = admin[f].todo \ {p}
          /\ up[p] /\ ifa[p][f].pc = "reply" /\ admin[f].pc = "wait"
          /\ ifa[p][f].res = last_index[f] => stub' = stub
      BY <1>0, <2>2 DEF ReceiveReply, AdminStates
    <3>2. ifa[p][f].res = last_index[f]
      BY <1>1, <1>2, <3>1, LogFacts DEF IInv, Inv, CallInv, Live
    <3>3. stub[f][p] = "identified"
      BY <1>1, <3>1 DEF IInv, Inv, StubInv
    <3> QED
      BY <3>1, <3>2, <3>3
  <2>3. CASE PeerFails(f)
    <3>1. /\ admin'[f].pc = "replicate" /\ admin'[f].todo = admin[f].todo \ {p}
          /\ ~ up[p] \/ ifa[p][f].pc = "none"
          /\ stub' = stub \/ stub' = [stub EXCEPT ![f][p] = "down"]
      BY <1>0, <2>3 DEF PeerFails, AdminStates
    <3>2. stub'[f][p] = stub[f][p] \/ stub'[f][p] = "down"
      BY <3>1, <1>0, <1>2
    <3> QED
      BY <1>4, <3>1, <3>2
  <2> QED
    BY <2>1, <2>2, <2>3
<1>6. \A g, h \in Live : ifa[g][h].pc # "none" => ifa'[g][h].pc # "none"
  <2>1. CASE SendReplicationRequest(f)
    BY <2>1, <1>0, <1>2 DEF SendReplicationRequest, Live
  <2>2. CASE ReceiveReply(f)
    <3>1. up[p] /\ ifa[p][f].pc = "reply"
      BY <2>2 DEF ReceiveReply
    <3>2. ifa[p][f].res = last_index[f]
      BY <1>1, <1>2, <3>1, LogFacts DEF IInv, Inv, CallInv, Live
    <3>3. ifa' = [ifa EXCEPT ![p][f].pc = "wait"]
      BY <2>2, <3>2 DEF ReceiveReply
    <3> QED
      BY <3>3, <1>0, <1>2 DEF Live, IfaStates
  <2>3. CASE PeerFails(f)
    BY <2>3 DEF PeerFails
  <2> QED
    BY <2>1, <2>2, <2>3
<1> HIDE DEF p
<1>7. ASSUME NEW h \in Live, NEW g \in Factory, stub'[h][g] = "open"
      PROVE  g \in MayCrash \/ (up[g] /\ h = target /\ g \in admin'[f].todo)
  <2>1. CASE h # f
    BY <2>1, <1>1, <1>3, <1>7 DEF IInv, Inv, StubInv, Live
  <2>2. CASE h = f /\ g # p
    <3>1. stub[f][g] = "open" /\ admin[f].pc # "append"
      BY <2>2, <1>1, <1>3, <1>7 DEF Replicating
    <3>2. g \in MayCrash \/ (up[g] /\ g \in admin[f].todo)
      BY <3>1, <1>1 DEF IInv, Inv, StubInv
    <3> QED
      BY <3>2, <2>2, <1>1, <1>5
  <2>3. CASE h = f /\ g = p
    <3>1. stub[f][p] = "open" /\ ~ up[p]
      BY <2>3, <1>5, <1>7
    <3> QED
      BY <3>1, <2>3, <1>1, <1>2 DEF IInv, Inv, StubInv
  <2> QED
    BY <2>1, <2>2, <2>3
<1>8. Replicating(f)' /\ f \notin admin'[f].todo
      /\ (admin'[f].pc = "wait" => admin'[f].todo # {} /\ stub'[f][NextPeer(f)'] = "identified")
  BY <1>1, <1>2, <1>5 DEF Replicating
<1>9. \A h \in Live : stub'[h][h] = "none"
  BY <1>1, <1>2, <1>3 DEF IInv, Inv, StubInv, Live
<1>10. ASSUME NEW h \in Live, NEW g \in Live, peer_connected[h], g # h
       PROVE  stub'[h][g] \in {"open", "identified"} /\ ifa'[g][h].pc # "none"
  <2>1. stub[h][g] \in {"open", "identified"} /\ ifa[g][h].pc # "none"
    BY <1>10 DEF IInv, Inv, StubInv
  <2>2. stub'[h][g] \in {"open", "identified"}
    <3>1. CASE h # f \/ g # p
      BY <3>1, <2>1, <1>3 DEF Live
    <3>2. CASE h = f /\ g = p
      BY <3>2, <1>5 DEF Live
    <3> QED
      BY <3>1, <3>2
  <2> QED
    BY <2>1, <2>2, <1>6
<1> QED
  BY <1>1, <1>2, <1>7, <1>8, <1>9, <1>10 DEF StubInv

LEMMA NextStubInv == Orderly /\ IInv /\ [Next]_vars => StubInv'
<1> SUFFICES ASSUME Orderly, IInv, [Next]_vars PROVE StubInv'
  OBVIOUS
<1>0. /\ admin \in [Factory -> AdminStates] /\ ifa \in [Factory -> [Factory -> IfaStates]]
  BY DEF IInv, TypeOK
<1>1. ASSUME NEW f \in Factory, NEW orders \in 1 .. MaxOrders, StartProgram(f, orders)
      PROVE  StubInv'
  <2>1. /\ \A g \in Live : admin[g].pc = "idle"
        /\ target' = f /\ up[f] /\ f \in Live /\ Live' = Live
        /\ UNCHANGED <<up, admin, peer_connected, stub, ifa>>
    BY <1>1, AllIdle, IInvIsTyped DEF StartProgram, adminVars, Live
  <2>2. \A h \in Live, g \in Factory : stub[h][g] = "open" => g \in MayCrash
    BY <2>1 DEF IInv, Inv, StubInv, Replicating
  <2>3. ~ Busy(f)' /\ ~ Replicating(f)' /\ admin'[f].pc = "idle"
    BY <2>1 DEF Busy, Replicating
  <2> QED
    BY <2>1, <2>2, <2>3 DEF IInv, Inv, StubInv
<1>2. ASSUME NEW c \in Customers, CustomerThread(c)
      PROVE  StubInv'
  BY <1>2, FrameStubInv DEF CustomerThread, Order, ShipRobot, Leave, adminVars
<1>3. ASSUME NEW f \in Factory, AdminThread(f)
      PROVE  StubInv'
  <2>1. CASE StayPrimary(f) \/ TakeOver(f) \/ BecomePrimary(f) \/ Commit(f)
    <3>1. f = target /\ up[f] /\ f \in Live
      BY <2>1, WorkerIsTarget, IInvIsTyped DEF StayPrimary, TakeOver, BecomePrimary, Commit, Live
    <3>2. /\ up' = up /\ Live' = Live
          /\ UNCHANGED <<peer_connected, stub, ifa, target>>
          /\ \A g \in Factory \ {f} : admin'[g] = admin[g]
          /\ admin'[f].pc \in {"idle", "connect", "takeover"}
          /\ admin[f].pc \in {"idle", "takeover"} \/ admin[f].todo = {}
          /\ admin[f].pc # "append"
      BY <1>0, <2>1, TakeOverUpdates
         DEF StayPrimary, TakeOver, BecomePrimary, Commit, Live, clientVars, IdleAdmin, AdminStates
    <3>3. ~ Busy(f)' /\ ~ Replicating(f)' /\ admin'[f].pc # "wait"
      BY <3>2 DEF Busy, Replicating
    <3>4. \A h \in Live, g \in Factory : stub[h][g] = "open" => g \in MayCrash
      BY <3>1, <3>2 DEF IInv, Inv, StubInv, Replicating
    <3> QED
      BY <3>1, <3>2, <3>3, <3>4 DEF IInv, Inv, StubInv
  <2>2. CASE AppendFault(f)
    BY <2>2, AppendLogAppends DEF AppendFault, AppendFaults
  <2>3. CASE BrokenPipe(f)
    <3>1. /\ f = target /\ up[f] /\ admin[f].pc = "replicate" /\ admin[f].todo # {}
          /\ ~ up[NextPeer(f)] /\ stub[f][NextPeer(f)] = "open" /\ f \in Live
          /\ UNCHANGED <<admin, peer_connected, stub, ifa, target>>
          /\ up' = [up EXCEPT ![f] = FALSE]
      BY <2>3, WorkerIsTarget, IInvIsTyped DEF BrokenPipe, Live, adminVars, clientVars
    <3>2. /\ NextPeer(f) \in Factory /\ \A h \in admin[f].todo : NextPeer(f) <= h
          /\ admin[f].todo \subseteq Factory
      BY <1>0, <3>1, NextPeerIs DEF IInv, AdminStates
    <3>3. NextPeer(f) \in MayCrash
      BY <3>1, <3>2 DEF IInv, Inv, StubInv
    <3>4. ASSUME NEW g \in admin[f].todo
          PROVE  ~ up[g]
      <4>1. CASE g = NextPeer(f)
        BY <4>1, <3>1
      <4>2. CASE g # NextPeer(f)
        <5>1. g < NextPeer(f) /\ NextPeer(f) <= g /\ g \in Nat /\ NextPeer(f) \in Nat
          BY <4>2, <3>2, <3>3, <3>4, FactoryAssumption DEF Orderly
        <5> QED
          BY <5>1
      <4> QED
        BY <4>1, <4>2
    <3> QED
      BY <3>1, <3>4, DeathStubInv DEF Live
  <2> QED
    BY <1>3, <2>1, <2>2, <2>3, TakeRequestStubInv, AppendLogStubInv, CallStubInv DEF AdminThread
<1>4. ASSUME NEW g \in Factory, NEW f \in Factory, IfaThread(g, f)
      PROVE  StubInv'
  <2>1. CASE GapFault(g, f)
    <3>1. up[g] /\ ifa[g][f].pc = "store" /\ HasGap(g, f)
      BY <2>1 DEF GapFault, GapFaults
    <3> QED
      BY <3>1, StoreAppends
  <2>2. CASE ~ GapFault(g, f)
    <3>1. UNCHANGED <<up, admin, peer_connected, stub, target>>
      BY <1>4, <2>2 DEF IfaThread, ReceiveReplicationRequest, WriteLog, SetLastIndex, ApplyCommitted,
                  adminVars, clientVars
    <3>2. up[g] /\ ifa[g][f].pc \notin {"none", "wait"}
      BY <1>4, <2>2 DEF IfaThread, ReceiveReplicationRequest, WriteLog, SetLastIndex, ApplyCommitted
    <3>3. ifa[g][f].req.fid # NoId
      BY <3>2, ServedIsTarget DEF Orderly
    <3>4. \E p \in IfaPcs \ {"none"}, i \in Indices :
             ifa' = [ifa EXCEPT ![g][f].pc = p] \/ ifa' = [ifa EXCEPT ![g][f].pc = p, ![g][f].res = i]
      <4>1. last_index[g] \in Indices
        BY DEF IInv, TypeOK
      <4> QED
        BY <1>4, <2>2, <3>3, <4>1
           DEF IfaThread, ReceiveReplicationRequest, WriteLog, SetLastIndex, ApplyCommitted, IfaPcs
    <3>5. \A h, k \in Factory : ifa[h][k].pc # "none" => ifa'[h][k].pc # "none"
      <4>1. PICK p \in IfaPcs \ {"none"}, i \in Indices :
              ifa' = [ifa EXCEPT ![g][f].pc = p] \/ ifa' = [ifa EXCEPT ![g][f].pc = p, ![g][f].res = i]
        BY <3>4
      <4>2. ifa[g][f] \in IfaStates /\ ifa[g] \in [Factory -> IfaStates]
        BY <1>0
      <4>3. ifa'[g][f].pc = p
        BY <4>1, <4>2, <1>0 DEF IfaStates
      <4>4. \A h, k \in Factory : h # g \/ k # f => ifa'[h][k] = ifa[h][k]
        BY <4>1, <4>2, <1>0
      <4> QED
        BY <4>1, <4>3, <4>4
    <3> QED
      BY <3>1, <3>5, FrameStubInv DEF Live
  <2> QED
    BY <2>1, <2>2
<1>5. ASSUME NEW f \in Factory, Crash(f)
      PROVE  StubInv'
  BY <1>5, DeathStubInv DEF Crash, adminVars, clientVars
<1>6. CASE UNCHANGED vars
  BY <1>6, FrameStubInv DEF vars
<1> QED
  BY <1>1, <1>2, <1>3, <1>4, <1>5, <1>6 DEF Next, Finished

-----------------------------------------------------------------------------
(* The calls.                                                              *)

\* Steps of the target's admin that are no calls, when it waits for nobody.
LEMMA QuietCallInv ==
  ASSUME IInv, Live' \subseteq Live, ~ up[target] \/ admin[target].pc # "wait",
         \A g \in Live, f \in Factory :
           ifa[g][f].pc \in {"none", "wait"} => ifa'[g][f].pc \in {"none", "wait"},
         admin'[target'].pc # "wait", ~ up'[target'] \/ ~ Replicating(target)'
  PROVE  CallInv'
<1>1. ASSUME NEW g \in Live', NEW f \in Factory
      PROVE  ifa'[g][f].pc \in {"none", "wait"}
  BY <1>1, NobodyServes DEF Live
<1> QED
  BY <1>1 DEF CallInv

LEMMA CustomerCallInv ==
  ASSUME IInv, \/ \E f \in Factory, orders \in 1 .. MaxOrders : StartProgram(f, orders)
               \/ \E c \in Customers : CustomerThread(c)
  PROVE  CallInv'
<1>1. ASSUME NEW f \in Factory, NEW orders \in 1 .. MaxOrders, StartProgram(f, orders)
      PROVE  CallInv'
  <2>1. /\ \A g \in Live : admin[g].pc = "idle"
        /\ target' = f /\ up[f] /\ f \in Live /\ Live' = Live
        /\ UNCHANGED <<up, admin, ifa>>
    BY <1>1, AllIdle, IInvIsTyped DEF StartProgram, adminVars, Live
  <2>2. (~ up[target] \/ admin[target].pc # "wait") /\ admin'[target'].pc # "wait"
        /\ ~ Replicating(target)'
    BY <2>1, LogFacts DEF Live, Replicating
  <2> QED
    BY <2>1, <2>2, QuietCallInv
<1>2. ASSUME NEW c \in Customers, CustomerThread(c)
      PROVE  CallInv'
  <2>0. customer \in [Customers -> [pc : {"ready", "waiting", "made", "stopped"}, num : 0 .. MaxOrders]]
    BY DEF IInv, TypeOK
  <2>1. /\ UNCHANGED <<up, admin, ifa, smr_log, target, factory_id>> /\ Live' = Live
        /\ NextPeer(target)' = NextPeer(target) /\ N' = N
        /\ \A f \in Factory : NextPeer(f)' = NextPeer(f)
        /\ Replicating(target)' = Replicating(target)
    BY <1>2 DEF CustomerThread, Order, ShipRobot, Leave, adminVars, factoryVars, Live, NextPeer, N,
                Replicating
  <2>2. \A d \in Customers : customer[d].pc = "waiting" => customer'[d].num = customer[d].num
    BY <2>0, <1>2 DEF CustomerThread, Order, ShipRobot, Leave
  <2>3. up[target] /\ Replicating(target) =>
          customer'[admin[target].cust].num = customer[admin[target].cust].num
    BY <2>2 DEF IInv, Inv, QueueInv, Busy
  <2> QED
    BY <2>1, <2>3 DEF IInv, Inv, CallInv
<1> QED
  BY <1>1, <1>2

LEMMA AppendLogCallInv ==
  ASSUME IInv, NEW f \in Factory, AppendLog(f)
  PROVE  CallInv'
<1> DEFINE op == [cid |-> admin[f].cust, num |-> customer[admin[f].cust].num]
<1>1. f = target /\ up[f] /\ admin[f].pc = "append" /\ ~ LogIsAhead(f) /\ op \in Orders
  BY AppendLogAppends, RequestIsOrder, IInvIsTyped DEF AppendLog
<1>2. /\ smr_log' = [smr_log EXCEPT ![f] = Append(@, op)]
      /\ last_index' = [last_index EXCEPT ![f] = @ + 1]
      /\ UNCHANGED <<up, ifa, factory_id, target, customer>> /\ Live' = Live
  BY <1>1 DEF AppendLog, clientVars, Live
<1>3. /\ admin'[f].pc = "replicate" /\ admin'[f].cust = admin[f].cust
      /\ admin'[f].req = [fid |-> factory_id[f], committed |-> committed_index[f],
                          last |-> last_index'[f], op |-> op]
  <2>1. admin \in [Factory -> AdminStates]
    BY DEF IInv, TypeOK
  <2> QED
    BY <2>1 DEF AppendLog, AdminStates
<1>4. /\ last_index'[f] = N /\ committed_index[f] = N - 1 /\ N \in Nat
      /\ smr_log'[f] = Append(smr_log[f], op)
  <2>1. last_index[f] = N - 1 /\ N \in Nat
    BY <1>1, LogFacts
  <2>2. committed_index[f] = N - 1
    BY <1>1 DEF IInv, Inv, CommitInv, Replicating
  <2>3. smr_log'[f] = Append(smr_log[f], op) /\ last_index'[f] = last_index[f] + 1
    BY <1>2 DEF IInv, TypeOK
  <2> QED
    BY <2>1, <2>2, <2>3
<1>5. N' = N + 1 /\ smr_log'[f][N'] = op
  <2> HIDE DEF op
  <2>1. smr_log[f] \in Seq(Orders)
    BY <1>1, LogFacts
  <2> QED
    BY <1>1, <1>2, <1>4, <2>1, AppendFacts DEF N
<1>6. N = N' - 1 /\ N - 1 = N' - 2
  BY <1>4, <1>5
<1>7. admin'[target'].req = [fid |-> factory_id'[target'], committed |-> N' - 2, last |-> N' - 1, op |-> op]
  BY <1>1, <1>2, <1>3, <1>4, <1>6
<1>8. op = [cid |-> admin'[target'].cust, num |-> customer'[admin'[target'].cust].num]
  BY <1>1, <1>2, <1>3
<1>9. smr_log'[target'][N'] = admin'[target'].req.op
  <2>1. target' = f /\ admin'[f].req.op = op
    BY <1>1, <1>2, <1>3
  <2> HIDE DEF op
  <2> QED
    BY <2>1, <1>5
<1>10. \A g \in Live', h \in Factory : ifa'[g][h].pc \in {"none", "wait"}
  BY <1>1, <1>2, NobodyServes DEF Live
<1> HIDE DEF op
<1> QED
  BY <1>1, <1>2, <1>3, <1>7, <1>8, <1>9, <1>10 DEF CallInv

LEMMA CallCallInv ==
  ASSUME IInv, NEW f \in Factory,
         SendReplicationRequest(f) \/ ReceiveReply(f) \/ PeerFails(f)
  PROVE  CallInv'
<1> DEFINE p == NextPeer(f)
<1>0. /\ admin \in [Factory -> AdminStates]
      /\ ifa \in [Factory -> [Factory -> IfaStates]]
  BY DEF IInv, TypeOK
<1>1. /\ f = target /\ up[f] /\ f \in Live /\ admin[f].todo # {} /\ Replicating(f) /\ Busy(f)
      /\ UNCHANGED <<up, target, smr_log, factory_id, customer>> /\ Live' = Live /\ N' = N
  BY WorkerIsTarget, IInvIsTyped
     DEF SendReplicationRequest, ReceiveReply, PeerFails, clientVars, factoryVars, Live, N,
         Replicating, Busy, IInv, Inv, StubInv
<1>2. p \in admin[f].todo /\ p \in Factory /\ p # f
  BY <1>1, NextPeerIs DEF IInv, Inv, StubInv
<1>3. /\ admin'[f].req = admin[f].req /\ admin'[f].cust = admin[f].cust
      /\ admin'[f].pc \in {"replicate", "wait"}
  BY <1>0 DEF SendReplicationRequest, ReceiveReply, PeerFails, AdminStates
<1>4. /\ admin'[target'].req = [fid |-> factory_id'[target'], committed |-> N' - 2, last |-> N' - 1,
                               op |-> [cid |-> admin'[target'].cust,
                                       num |-> customer'[admin'[target'].cust].num]]
      /\ smr_log'[target'][N'] = admin'[target'].req.op
  BY <1>1, <1>3 DEF IInv, Inv, CallInv
<1>5. CASE SendReplicationRequest(f)
  <2>1. /\ admin'[f].pc = "wait" /\ admin'[f].todo = admin[f].todo
        /\ ifa'[p][f] = [pc |-> "sent", req |-> admin[f].req, res |-> -1]
        /\ \A g, h \in Factory : (g # p \/ h # f) => ifa'[g][h] = ifa[g][h]
        /\ admin[f].pc = "replicate"
    BY <1>0, <1>2, <1>5 DEF SendReplicationRequest, AdminStates
  <2>2. NextPeer(f)' = p
    BY <2>1 DEF NextPeer
  <2>3. \A g \in Live, h \in Factory : (g # p \/ h # f) => ifa'[g][h].pc \in {"none", "wait"}
    BY <1>1, <2>1, NobodyServes DEF Live
  <2>4. ifa'[p][f].pc = "sent" /\ ifa'[p][f].req = admin'[f].req
    BY <1>3, <2>1
  <2> HIDE DEF p
  <2> QED
    BY <1>1, <1>4, <2>1, <2>2, <2>3, <2>4 DEF CallInv
<1>6. CASE ReceiveReply(f)
  <2>1. /\ admin'[f].pc = "replicate"
        /\ ifa'[p][f].pc \in {"none", "wait"}
        /\ \A g, h \in Factory : (g # p \/ h # f) => ifa'[g][h] = ifa[g][h]
    BY <1>0, <1>2, <1>6 DEF ReceiveReply, AdminStates, IfaStates
  <2>2. \A g \in Live, h \in Factory : (g # p \/ h # f) => ifa[g][h].pc \in {"none", "wait"}
    BY <1>1, ServedIsTarget DEF Live
  <2>3. \A g \in Live, h \in Factory : ifa'[g][h].pc \in {"none", "wait"}
    BY <2>1, <2>2 DEF Live
  <2> HIDE DEF p
  <2> QED
    BY <1>1, <1>4, <2>1, <2>3 DEF CallInv
<1>7. CASE PeerFails(f)
  <2>1. /\ admin'[f].pc = "replicate" /\ ifa' = ifa
        /\ ~ up[p] \/ ifa[p][f].pc = "none"
    BY <1>0, <1>7 DEF PeerFails, AdminStates
  <2>2. ~ up[p]
    BY <1>1, <1>2, <2>1 DEF IInv, Inv, StubInv, Live
  <2>3. \A g \in Live, h \in Factory : ifa[g][h].pc \in {"none", "wait"}
    BY <1>1, <2>2, ServedIsTarget DEF Live
  <2> HIDE DEF p
  <2> QED
    BY <1>1, <1>4, <2>1, <2>3 DEF CallInv
<1> QED
  BY <1>5, <1>6, <1>7

LEMMA AdminCallInv ==
  ASSUME IInv, NEW f \in Factory, AdminThread(f)
  PROVE  CallInv'
<1>0. /\ admin \in [Factory -> AdminStates] /\ ifa \in [Factory -> [Factory -> IfaStates]]
  BY DEF IInv, TypeOK
<1>1. CASE StayPrimary(f) \/ TakeOver(f) \/ BecomePrimary(f) \/ Commit(f)
  <2>1. /\ f = target /\ UNCHANGED <<up, target, ifa>> /\ Live' = Live
        /\ admin[f].pc # "wait" /\ admin'[f].pc \in {"idle", "takeover", "connect"}
    BY <1>0, <1>1, WorkerIsTarget, IInvIsTyped, TakeOverUpdates
       DEF StayPrimary, TakeOver, BecomePrimary, Commit, Live, clientVars, IdleAdmin, AdminStates
  <2>2. ~ Replicating(target)'
    BY <2>1 DEF Replicating
  <2> QED
    BY <2>1, <2>2, QuietCallInv
<1>2. CASE TakeRequest(f)
  <2>1. /\ f = target /\ UNCHANGED <<up, target>> /\ Live' = Live
        /\ admin[f].pc = "connect" /\ admin'[f].pc = "append"
    BY <1>0, <1>2, WorkerIsTarget, IInvIsTyped DEF TakeRequest, Live, clientVars, AdminStates
  <2>2. ~ Replicating(target)'
    BY <2>1 DEF Replicating
  <2>3. ASSUME NEW g \in Live, NEW h \in Factory, ifa[g][h].pc \in {"none", "wait"}
        PROVE  ifa'[g][h].pc \in {"none", "wait"}
    <3>1. ifa'[g] = ifa[g] \/ ifa'[g] = [ifa[g] EXCEPT ![f].pc = "wait"]
      BY <1>2 DEF TakeRequest, Live
    <3>2. ifa[g] \in [Factory -> IfaStates]
      BY <1>0 DEF Live
    <3>3. h = f => [ifa[g] EXCEPT ![f].pc = "wait"][h].pc = "wait"
      BY <3>2 DEF IfaStates
    <3>4. h # f => [ifa[g] EXCEPT ![f].pc = "wait"][h] = ifa[g][h]
      BY <3>2
    <3> QED
      BY <2>3, <3>1, <3>3, <3>4
  <2> QED
    BY <2>1, <2>2, <2>3, QuietCallInv
<1>3. CASE AppendFault(f)
  BY <1>3, AppendLogAppends DEF AppendFault, AppendFaults
<1>4. CASE BrokenPipe(f)
  <2>1. /\ f = target /\ Live' \subseteq Live /\ ~ up'[target] /\ admin[f].pc = "replicate"
        /\ UNCHANGED <<target, admin, ifa>>
    BY <1>4, WorkerIsTarget, IInvIsTyped DEF BrokenPipe, Live, adminVars, clientVars, IInv, TypeOK
  <2> QED
    BY <2>1, QuietCallInv
<1> QED
  BY <1>1, <1>2, <1>3, <1>4, AppendLogCallInv, CallCallInv DEF AdminThread

LEMMA IfaCallInv ==
  ASSUME Orderly, IInv, NEW g \in Factory, NEW f \in Factory, IfaThread(g, f)
  PROVE  CallInv'
<1>0. ifa \in [Factory -> [Factory -> IfaStates]]
  BY DEF IInv, TypeOK
<1>1. up[g] /\ ifa[g][f].pc \notin {"none", "wait"}
  BY DEF IfaThread, ReceiveReplicationRequest, WriteLog, GapFault, SetLastIndex, ApplyCommitted
<1>2. /\ f = target /\ up[target] /\ admin[target].pc = "wait" /\ g = NextPeer(target)
      /\ g # target /\ ifa[g][f].req.fid # NoId /\ g \in Live
      /\ ifa[g][f].req = admin[target].req
  BY <1>1, ServedIsTarget DEF Orderly, IInv, Inv, CallInv
<1>3. ~ GapFault(g, f)
  BY StoreAppends DEF GapFault, GapFaults
<1>4. /\ UNCHANGED <<up, admin, target, factory_id, customer>> /\ Live' = Live
      /\ smr_log'[target] = smr_log[target]
  <2>1. UNCHANGED <<up, admin, target, factory_id, customer>>
    BY <1>3 DEF IfaThread, ReceiveReplicationRequest, WriteLog, SetLastIndex, ApplyCommitted,
                adminVars, clientVars
  <2>2. smr_log' = smr_log \/ smr_log' = [smr_log EXCEPT ![g] = smr_log[target]]
    BY <1>3, WriteLogStores DEF IfaThread, ReceiveReplicationRequest, SetLastIndex, ApplyCommitted
  <2> QED
    BY <1>2, <2>1, <2>2, LogFacts DEF Live, IInv, TypeOK
<1>5. \/ /\ ifa' = [ifa EXCEPT ![g][f].pc = "reply", ![g][f].res = N - 1]
      \/ \E p \in {"store", "last", "apply"} : ifa' = [ifa EXCEPT ![g][f].pc = p]
  BY <1>2, <1>3, ApplyCommittedApplies
     DEF IfaThread, ReceiveReplicationRequest, WriteLog, SetLastIndex
<1>6. /\ \A h, k \in Factory : (h # g \/ k # f) => ifa'[h][k] = ifa[h][k]
      /\ ifa'[g][f].pc \notin {"none", "wait"} /\ ifa'[g][f].req = ifa[g][f].req
      /\ ifa'[g][f].pc = "reply" => ifa'[g][f].res = N - 1
  <2>1. ifa[g][f] \in IfaStates /\ ifa[g] \in [Factory -> IfaStates]
    BY <1>0
  <2>2. CASE ifa' = [ifa EXCEPT ![g][f].pc = "reply", ![g][f].res = N - 1]
    <3> DEFINE n == N - 1
    <3> HIDE DEF n
    <3>1. ifa' = [ifa EXCEPT ![g][f].pc = "reply", ![g][f].res = n]
      BY <2>2 DEF n
    <3>2. /\ \A h, k \in Factory : (h # g \/ k # f) => ifa'[h][k] = ifa[h][k]
          /\ ifa'[g][f].pc = "reply" /\ ifa'[g][f].req = ifa[g][f].req
          /\ ifa'[g][f].res = n
      BY <1>0, <2>1, <3>1 DEF IfaStates
    <3> QED
      BY <3>2 DEF n
  <2>3. CASE \E p \in {"store", "last", "apply"} : ifa' = [ifa EXCEPT ![g][f].pc = p]
    BY <1>0, <2>1, <2>3 DEF IfaStates
  <2> QED
    BY <1>5, <2>2, <2>3
<1>7. N' = N /\ NextPeer(target)' = NextPeer(target) /\ Replicating(target)' = Replicating(target)
      /\ target \in Factory
  BY <1>4, LogFacts DEF N, NextPeer, Replicating
<1>8. ASSUME NEW h \in Live, NEW k \in Factory, ifa'[h][k].pc \notin {"none", "wait"}
      PROVE  /\ up[k] /\ k = target /\ h = NextPeer(k) /\ ifa'[h][k].req = admin[k].req
             /\ ifa'[h][k].pc = "reply" => ifa'[h][k].res = N - 1
  <2>1. CASE h = g /\ k = f
    BY <2>1, <1>2, <1>6
  <2>2. CASE h # g \/ k # f
    BY <2>2, <1>6, <1>8 DEF IInv, Inv, CallInv, Live
  <2> QED
    BY <2>1, <2>2
<1> QED
  BY <1>2, <1>4, <1>6, <1>7, <1>8 DEF IInv, Inv, CallInv

LEMMA NextCallInv == Orderly /\ IInv /\ [Next]_vars => CallInv'
<1> SUFFICES ASSUME Orderly, IInv, [Next]_vars PROVE CallInv'
  OBVIOUS
<1>1. ASSUME NEW f \in Factory, Crash(f)
      PROVE  CallInv'
  <2>1. /\ f # target /\ Live' \subseteq Live /\ up'[target] = up[target]
        /\ UNCHANGED <<smr_log, admin, ifa, factory_id, target, customer>>
        /\ \A g \in Factory : up'[g] => up[g]
    BY <1>1, LogFacts DEF Orderly, Crash, Live, factoryVars, adminVars, clientVars, IInv, TypeOK
  <2>2. /\ N' = N /\ NextPeer(target)' = NextPeer(target)
        /\ Replicating(target)' = Replicating(target)
        /\ \A g : NextPeer(g)' = NextPeer(g)
    BY <2>1 DEF N, NextPeer, Replicating
  <2>3. admin[target].pc = "wait" => NextPeer(target) \in Factory
    BY NextPeerIs, LogFacts DEF IInv, Inv, StubInv
  <2>4. ASSUME NEW g \in Live', NEW h \in Factory, ifa[g][h].pc \notin {"none", "wait"}
        PROVE  /\ up'[h] /\ h = target /\ admin[h].pc = "wait" /\ g = NextPeer(h)
               /\ ifa[g][h].req = admin[h].req
               /\ ifa[g][h].pc = "reply" => ifa[g][h].res = N - 1
    BY <2>1, <2>4 DEF IInv, Inv, CallInv
  <2> QED
    BY <2>1, <2>2, <2>3, <2>4 DEF IInv, Inv, CallInv
<1>2. CASE UNCHANGED vars
  <2>1. /\ UNCHANGED <<up, smr_log, admin, ifa, factory_id, target, customer>> /\ Live' = Live
        /\ N' = N /\ NextPeer(target)' = NextPeer(target)
        /\ Replicating(target)' = Replicating(target)
        /\ \A g : NextPeer(g)' = NextPeer(g)
    BY <1>2 DEF vars, Live, N, NextPeer, Replicating
  <2> QED
    BY <2>1 DEF IInv, Inv, CallInv
<1> QED
  BY <1>1, <1>2, CustomerCallInv, AdminCallInv, IfaCallInv DEF Next, Finished

-----------------------------------------------------------------------------
(* The logs.                                                               *)

\* Steps that write no log and set no index.
LEMMA FrameLogInv ==
  ASSUME IInv, Live' \subseteq Live, UNCHANGED <<smr_log, last_index, target>>,
         Replicating(target)' => Replicating(target),
         \A f \in Live' : /\ Behind(f)' <=> Behind(f)
                          /\ ifa'[f][target].pc = "last" <=> ifa[f][target].pc = "last"
  PROVE  LogInv'
<1>1. N' = N
  BY DEF N
<1> QED
  BY <1>1 DEF IInv, Inv, LogInv

\* When nothing is being replicated, or its primary is dead, all logs are equal.
LEMMA LogsEqual ==
  ASSUME IInv, ~ up[target] \/ ~ Replicating(target), NEW f \in Live
  PROVE  /\ smr_log[f] = smr_log[target] /\ ~ Behind(f)
         /\ last_index[f] = N - 1 /\ Len(smr_log[f]) = N
<1>1. ~ Behind(f)
  BY DEF IInv, Inv, StubInv, Behind
<1>2. ifa[f][target].pc \in {"none", "wait"}
  BY NobodyServes, LogFacts DEF Live, Replicating
<1> QED
  BY <1>1, <1>2, LogFacts DEF IInv, Inv, LogInv, N

LEMMA StartProgramLogInv ==
  ASSUME IInv, NEW f \in Factory, NEW orders \in 1 .. MaxOrders, StartProgram(f, orders)
  PROVE  LogInv'
<1>1. /\ \A g \in Live : admin[g].pc = "idle"
      /\ target' = f /\ up[f] /\ f \in Live /\ Live' = Live
      /\ UNCHANGED <<up, admin, ifa, smr_log, last_index>>
  BY AllIdle, IInvIsTyped DEF StartProgram, adminVars, factoryVars, Live
<1>2. ~ up[target] \/ ~ Replicating(target)
  BY <1>1, LogFacts DEF Live, Replicating
<1>3. \A g \in Live : /\ smr_log[g] = smr_log[target]
                      /\ last_index[g] = N - 1 /\ Len(smr_log[g]) = N
  BY <1>2, LogsEqual
<1>4. ~ Replicating(f)' /\ N' = N
  BY <1>1, <1>3 DEF Replicating, N
<1>5. \A g \in Live : ~ Behind(g)' /\ ifa[g][f].pc # "last"
  <2>1. \A g \in Live : ifa[g][f].pc \in {"none", "wait"}
    BY <1>2, NobodyServes DEF Live, Replicating
  <2> QED
    BY <1>1, <1>4, <2>1 DEF Behind
<1> QED
  BY <1>1, <1>3, <1>4, <1>5, LogFacts DEF LogInv

LEMMA AppendLogLogInv ==
  ASSUME IInv, NEW f \in Factory, AppendLog(f)
  PROVE  LogInv'
<1> DEFINE op == [cid |-> admin[f].cust, num |-> customer[admin[f].cust].num]
<1>1. f = target /\ up[f] /\ admin[f].pc = "append" /\ ~ LogIsAhead(f) /\ op \in Orders
      /\ f \in Live /\ peer_connected[f]
  BY AppendLogAppends, RequestIsOrder, IInvIsTyped DEF AppendLog, Live, IInv, Inv, StubInv
<1>2. /\ smr_log' = [smr_log EXCEPT ![f] = Append(@, op)]
      /\ last_index' = [last_index EXCEPT ![f] = @ + 1]
      /\ UNCHANGED <<up, ifa, target>> /\ Live' = Live
  BY <1>1 DEF AppendLog, clientVars, Live
<1>3. /\ admin'[f].pc = "replicate"
      /\ admin'[f].todo = {g \in Factory : stub[f][g] \in {"open", "identified"}}
  <2>1. admin \in [Factory -> AdminStates]
    BY DEF IInv, TypeOK
  <2> QED
    BY <2>1 DEF AppendLog, AdminStates
<1> HIDE DEF op
<1>4. /\ smr_log'[f] = Append(smr_log[f], op) /\ last_index'[f] = last_index[f] + 1
      /\ \A g \in Live : g # f => smr_log'[g] = smr_log[g] /\ last_index'[g] = last_index[g]
  BY <1>2 DEF IInv, TypeOK, Live
<1>5. ~ Replicating(target) /\ Replicating(f)'
  BY <1>1, <1>3 DEF Replicating
<1>6. \A g \in Live : /\ smr_log[g] = smr_log[target]
                      /\ last_index[g] = N - 1 /\ Len(smr_log[g]) = N
  BY <1>5, LogsEqual
<1>7. smr_log[f] \in Seq(Orders) /\ N \in Nat /\ Len(smr_log[f]) = N
  BY <1>1, <1>6, LogFacts
<1>8. /\ smr_log'[f] \in Seq(Orders) /\ N' = N + 1 /\ Len(smr_log'[f]) = N + 1
      /\ SubSeq(smr_log'[f], 1, N) = smr_log[f] /\ N' - 1 = N
  BY <1>1, <1>2, <1>4, <1>7, AppendFacts DEF N
<1>9. \A g \in Live : ifa[g][f].pc \in {"none", "wait"}
  BY <1>1, NobodyServes DEF Live
<1>10. \A g \in Live : Behind(g)' <=> g # f
  <2>1. \A g \in Live : g # f => g \in admin'[f].todo
    BY <1>1, <1>3 DEF IInv, Inv, StubInv, Live
  <2>2. f \notin admin'[f].todo
    BY <1>1, <1>3 DEF IInv, Inv, StubInv
  <2> QED
    BY <1>1, <1>2, <1>5, <1>9, <2>1, <2>2 DEF Behind, Stored
<1>11. \A g \in Live :
         /\ smr_log'[g] = IF Behind(g)' THEN SubSeq(smr_log'[f], 1, N' - 1) ELSE smr_log'[f]
         /\ last_index'[g] = Len(smr_log'[g]) - 1
  <2>1. ASSUME NEW g \in Live, g # f
        PROVE  /\ smr_log'[g] = SubSeq(smr_log'[f], 1, N' - 1) /\ Behind(g)'
               /\ last_index'[g] = Len(smr_log'[g]) - 1
    BY <2>1, <1>1, <1>4, <1>6, <1>8, <1>10
  <2>2. last_index'[f] = Len(smr_log'[f]) - 1 /\ ~ Behind(f)'
    BY <1>1, <1>4, <1>6, <1>7, <1>8, <1>10
  <2> QED
    BY <2>1, <2>2
<1>12. last_index'[f] = N' - 1 /\ N' > 0
  BY <1>1, <1>7, <1>8, <1>11, <1>4, <1>6
<1>13. target' = f /\ Live' = Live /\ \A g \in Live : ifa'[g][f].pc # "last"
  BY <1>1, <1>2, <1>9
<1>14. \A g \in Live : last_index'[g] = Len(smr_log'[g]) - (IF ifa'[g][f].pc = "last" THEN 2 ELSE 1)
  BY <1>11, <1>13
<1>15. smr_log'[f] \in Seq(Orders)
  BY <1>8
<1> QED
  BY <1>11, <1>12, <1>13, <1>14, <1>15 DEF LogInv

\* What the threads of the target's peers do.
LEMMA IfaLogInv ==
  ASSUME Orderly, IInv, NEW g \in Factory, NEW f \in Factory, IfaThread(g, f)
  PROVE  LogInv'
<1>0. ifa \in [Factory -> [Factory -> IfaStates]] /\ ifa[g][f] \in IfaStates
      /\ ifa[g] \in [Factory -> IfaStates]
  BY DEF IInv, TypeOK
<1>1. up[g] /\ ifa[g][f].pc \notin {"none", "wait"}
  BY DEF IfaThread, ReceiveReplicationRequest, WriteLog, GapFault, SetLastIndex, ApplyCommitted
<1>2. /\ f = target /\ g # target /\ g \in Live /\ ifa[g][f].req.fid # NoId
      /\ Replicating(target) /\ g \in admin[target].todo /\ N > 0
      /\ ifa[g][f].req.last = N - 1
  BY <1>1, ServedIsTarget DEF Orderly
<1>3. ~ GapFault(g, f)
  BY StoreAppends DEF GapFault, GapFaults
<1>4. /\ UNCHANGED <<up, admin, target>> /\ Live' = Live
      /\ Replicating(target)' = Replicating(target)
  BY <1>3 DEF IfaThread, ReceiveReplicationRequest, WriteLog, SetLastIndex, ApplyCommitted,
              adminVars, clientVars, Live, Replicating
<1>5. CASE ReceiveReplicationRequest(g, f) \/ ApplyCommitted(g, f)
  <2>1. /\ UNCHANGED <<smr_log, last_index>>
        /\ \/ ifa[g][f].pc = "sent" /\ ifa'[g][f].pc = "store"
           \/ ifa[g][f].pc = "apply" /\ ifa'[g][f].pc = "reply"
        /\ \A h \in Factory : h # g => ifa'[h] = ifa[h]
    BY <1>0, <1>2, <1>5 DEF ReceiveReplicationRequest, ApplyCommitted, IfaStates
  <2>2. \A h \in Live : /\ Behind(h)' <=> Behind(h)
                        /\ ifa'[h][target].pc = "last" <=> ifa[h][target].pc = "last"
    BY <1>2, <1>4, <2>1 DEF Behind, Stored, Live
  <2> QED
    BY <1>4, <2>1, <2>2, FrameLogInv
<1>6. CASE WriteLog(g, f)
  <2>1. /\ smr_log'[g] = smr_log[target] /\ last_index' = last_index
        /\ \A h \in Factory : h # g => smr_log'[h] = smr_log[h] /\ ifa'[h] = ifa[h]
        /\ ifa'[g][f].pc = "last" /\ ifa[g][f].pc = "store"
    BY <1>0, <1>6, WriteLogStores DEF IfaStates, IInv, TypeOK
  <2>2. smr_log'[target] = smr_log[target] /\ N' = N /\ N \in Nat
    BY <1>2, <1>4, <2>1, LogFacts DEF N
  <2>3. ~ Behind(g)' /\ \A h \in Live : h # g => (Behind(h)' <=> Behind(h))
    BY <1>2, <1>4, <2>1 DEF Behind, Stored, Live
  <2>4. last_index[g] = N - 2 /\ Len(smr_log'[g]) = N
    BY <1>1, <2>1, StoreAppends DEF N
  <2>5. last_index'[g] = Len(smr_log'[g]) - 2
    BY <2>1, <2>2, <2>4
  <2>6. \A h \in Live :
          /\ smr_log'[h] = IF Behind(h)' THEN SubSeq(smr_log[target], 1, N - 1) ELSE smr_log[target]
          /\ last_index'[h] = Len(smr_log'[h]) - (IF ifa'[h][target].pc = "last" THEN 2 ELSE 1)
    <3>1. ASSUME NEW h \in Live, h # g
          PROVE  /\ smr_log'[h] = IF Behind(h)' THEN SubSeq(smr_log[target], 1, N - 1)
                                  ELSE smr_log[target]
                 /\ last_index'[h] = Len(smr_log'[h]) - (IF ifa'[h][target].pc = "last" THEN 2 ELSE 1)
      BY <3>1, <2>1, <2>3 DEF IInv, Inv, LogInv, Live
    <3> QED
      BY <3>1, <1>2, <2>1, <2>3, <2>5
  <2> QED
    BY <1>2, <1>4, <2>1, <2>2, <2>6 DEF IInv, Inv, LogInv
<1>7. CASE SetLastIndex(g, f)
  <2>1. /\ smr_log' = smr_log /\ last_index'[g] = N - 1
        /\ \A h \in Factory : h # g => last_index'[h] = last_index[h] /\ ifa'[h] = ifa[h]
        /\ ifa'[g][f].pc = "apply" /\ ifa[g][f].pc = "last"
    BY <1>0, <1>2, <1>7 DEF SetLastIndex, IfaStates, IInv, TypeOK
  <2>2. last_index'[target] = last_index[target] /\ N' = N
    BY <1>2, <1>4, <2>1, LogFacts DEF N
  <2>3. \A h \in Live : Behind(h)' <=> Behind(h)
    BY <1>2, <1>4, <2>1 DEF Behind, Stored, Live
  <2>4. ~ Behind(g)
    BY <1>2, <2>1 DEF Behind, Stored
  <2>5. Len(smr_log[g]) = N
    BY <1>2, <2>4 DEF IInv, Inv, LogInv, N
  <2>6. \A h \in Live :
          last_index'[h] = Len(smr_log'[h]) - (IF ifa'[h][target].pc = "last" THEN 2 ELSE 1)
    <3>1. ASSUME NEW h \in Live, h # g
          PROVE  last_index'[h] = Len(smr_log'[h]) - (IF ifa'[h][target].pc = "last" THEN 2 ELSE 1)
      BY <3>1, <2>1 DEF IInv, Inv, LogInv, Live
    <3>2. last_index'[g] = Len(smr_log'[g]) - (IF ifa'[g][target].pc = "last" THEN 2 ELSE 1)
      BY <1>2, <2>1, <2>5
    <3> QED
      BY <3>1, <3>2
  <2> QED
    BY <1>2, <1>4, <2>1, <2>2, <2>3, <2>6 DEF IInv, Inv, LogInv
<1> QED
  BY <1>3, <1>5, <1>6, <1>7 DEF IfaThread

LEMMA AdminLogInv ==
  ASSUME IInv, NEW f \in Factory, AdminThread(f), ~ AppendLog(f)
  PROVE  LogInv'
<1>0. /\ admin \in [Factory -> AdminStates] /\ ifa \in [Factory -> [Factory -> IfaStates]]
  BY DEF IInv, TypeOK
<1>1. CASE StayPrimary(f) \/ TakeOver(f) \/ BecomePrimary(f) \/ Commit(f)
  <2>1. /\ f = target /\ UNCHANGED <<up, target, ifa, smr_log, last_index>> /\ Live' = Live
        /\ admin[f].pc \in {"idle", "takeover"} \/ admin[f].todo = {}
        /\ admin'[f].pc \in {"idle", "takeover", "connect"}
    BY <1>0, <1>1, WorkerIsTarget, IInvIsTyped, TakeOverUpdates
       DEF StayPrimary, TakeOver, BecomePrimary, Commit, Live, clientVars, factoryVars, IdleAdmin,
           AdminStates
  <2>2. ~ Replicating(target)' /\ (~ Replicating(target) \/ admin[target].todo = {})
    BY <2>1 DEF Replicating
  <2> QED
    BY <2>1, <2>2, FrameLogInv DEF Behind
<1>2. CASE TakeRequest(f)
  <2>1. /\ f = target /\ UNCHANGED <<up, target, smr_log, last_index>> /\ Live' = Live
        /\ admin[f].pc = "connect" /\ admin'[f].pc = "append"
    BY <1>0, <1>2, WorkerIsTarget, IInvIsTyped DEF TakeRequest, Live, clientVars, factoryVars, AdminStates
  <2>2. ~ Replicating(target)' /\ ~ Replicating(target)
    BY <2>1 DEF Replicating
  <2>3. ASSUME NEW g \in Live
        PROVE  ifa'[g][f].pc # "last" /\ ifa[g][f].pc # "last"
    <3>1. ifa[g][f].pc \in {"none", "wait"}
      BY <2>1, NobodyServes DEF Live
    <3>2. ifa'[g] = ifa[g] \/ ifa'[g] = [ifa[g] EXCEPT ![f].pc = "wait"]
      BY <1>2 DEF TakeRequest, Live
    <3>3. ifa[g] \in [Factory -> IfaStates]
      BY <1>0 DEF Live
    <3>4. [ifa[g] EXCEPT ![f].pc = "wait"][f].pc = "wait"
      BY <3>3 DEF IfaStates
    <3> QED
      BY <3>1, <3>2, <3>4
  <2> QED
    BY <2>1, <2>2, <2>3, FrameLogInv DEF Behind
<1>3. CASE AppendFault(f)
  BY <1>3, AppendLogAppends DEF AppendFault, AppendFaults
<1>4. CASE SendReplicationRequest(f) \/ ReceiveReply(f) \/ PeerFails(f)
  <2> DEFINE p == NextPeer(f)
  <2>1. /\ f = target /\ admin[f].todo # {} /\ Replicating(f) /\ f \in Live
        /\ UNCHANGED <<up, target, smr_log, last_index>> /\ Live' = Live
    BY <1>4, WorkerIsTarget, IInvIsTyped
       DEF SendReplicationRequest, ReceiveReply, PeerFails, clientVars, factoryVars, Live,
           Replicating, IInv, Inv, StubInv
  <2>2. p \in admin[f].todo /\ p \in Factory /\ p # f /\ peer_connected[f]
    BY <2>1, NextPeerIs DEF IInv, Inv, StubInv, Busy
  <2>3. /\ admin'[f].pc \in {"replicate", "wait"}
        /\ \A g, h \in Factory : g # p \/ h # f => ifa'[g][h] = ifa[g][h]
    BY <1>0, <1>4, <2>2 DEF SendReplicationRequest, ReceiveReply, PeerFails, AdminStates
  <2>4. Replicating(f)'
    BY <2>3 DEF Replicating
  <2>5. \/ /\ admin'[f].todo = admin[f].todo
           /\ ifa[p][f].pc = "wait" /\ ifa'[p][f].pc = "sent"
        \/ /\ admin'[f].todo = admin[f].todo \ {p}
           /\ ifa[p][f].pc = "reply" /\ ifa'[p][f].pc \in {"wait", "none"}
        \/ /\ admin'[f].todo = admin[f].todo \ {p}
           /\ p \notin Live
    <3>1. CASE SendReplicationRequest(f)
      BY <3>1, <1>0, <2>2 DEF SendReplicationRequest, AdminStates
    <3>2. CASE ReceiveReply(f)
      BY <3>2, <1>0, <2>2 DEF ReceiveReply, AdminStates, IfaStates
    <3>3. CASE PeerFails(f)
      BY <3>3, <1>0, <2>1, <2>2 DEF PeerFails, AdminStates, IInv, Inv, StubInv, Live
    <3> QED
      BY <1>4, <3>1, <3>2, <3>3
  <2> HIDE DEF p
  <2>6. ASSUME NEW h \in Live
        PROVE  /\ Behind(h)' <=> Behind(h)
               /\ ifa'[h][f].pc = "last" <=> ifa[h][f].pc = "last"
    <3>1. CASE h = p
      BY <3>1, <2>1, <2>2, <2>4, <2>5 DEF Behind, Stored
    <3>2. CASE h # p
      <4>1. ifa'[h][f] = ifa[h][f] /\ (h \in admin'[f].todo <=> h \in admin[f].todo)
        BY <3>2, <2>3, <2>5 DEF Live
      <4> QED
        BY <4>1, <2>1, <2>4 DEF Behind, Stored
    <3> QED
      BY <3>1, <3>2
  <2> QED
    BY <2>1, <2>6, FrameLogInv
<1>5. CASE BrokenPipe(f)
  <2>1. /\ Live' \subseteq Live
        /\ UNCHANGED <<target, admin, ifa, smr_log, last_index>>
    BY <1>5 DEF BrokenPipe, Live, adminVars, clientVars, factoryVars, IInv, TypeOK
  <2> QED
    BY <2>1, FrameLogInv DEF Behind, Stored, Replicating
<1> QED
  BY <1>1, <1>2, <1>3, <1>4, <1>5 DEF AdminThread

LEMMA NextLogInv == Orderly /\ IInv /\ [Next]_vars => LogInv'
<1> SUFFICES ASSUME Orderly, IInv, [Next]_vars PROVE LogInv'
  OBVIOUS
<1>1. ASSUME \/ \E c \in Customers : CustomerThread(c)
             \/ \E f \in Factory : Crash(f)
             \/ UNCHANGED vars
      PROVE  LogInv'
  <2>1. /\ Live' \subseteq Live
        /\ UNCHANGED <<target, admin, ifa, smr_log, last_index>>
    BY <1>1 DEF CustomerThread, Order, ShipRobot, Leave, Crash, vars, Live, adminVars, clientVars,
                factoryVars, IInv, TypeOK
  <2> QED
    BY <2>1, FrameLogInv DEF Behind, Stored, Replicating
<1> QED
  BY <1>1, StartProgramLogInv, AppendLogLogInv, AdminLogInv, IfaLogInv DEF Next, Finished

-----------------------------------------------------------------------------
(* What has been applied.                                                  *)

\* A peer that is left alone.
LEMMA FramePeer ==
  ASSUME NEW f \in Factory, PeerCommitInv(f), PeerLeadInv(f),
         target' = target, Answered' => Answered,
         smr_log'[f] = smr_log[f], committed_index'[f] = committed_index[f],
         primary_id'[f] = primary_id[f],
         \/ ifa'[f][target].pc = ifa[f][target].pc
         \/ /\ ifa[f][target].pc \in {"none", "wait", "sent", "reply"}
            /\ ifa'[f][target].pc \in {"none", "wait", "sent"},
         Replicating(target)' /\ f \notin admin'[target].todo =>
           \/ Replicating(target) /\ f \notin admin[target].todo
           \/ ifa[f][target].pc = "reply"
  PROVE  PeerCommitInv(f)' /\ PeerLeadInv(f)'
<1>1. Leads(f)' <=> Leads(f)
  BY DEF Leads
<1> QED
  BY <1>1 DEF PeerCommitInv, PeerLeadInv

LEMMA StartProgramCommitInv ==
  ASSUME IInv, NEW f \in Factory, NEW orders \in 1 .. MaxOrders, StartProgram(f, orders)
  PROVE  CommitInv'
<1>1. /\ \A g \in Live : admin[g].pc = "idle"
      /\ target' = f /\ up[f] /\ f \in Live /\ Live' = Live
      /\ UNCHANGED <<up, admin, ifa, smr_log, primary_id, committed_index>>
      /\ \A c \in Customers : customer'[c].num = 0
  BY AllIdle, IInvIsTyped DEF StartProgram, adminVars, factoryVars, Live
<1>2. ~ Answered' /\ ~ Replicating(f)' /\ \A g : Leads(g)' <=> Leads(g)
  <2>1. ~ Answered'
    BY <1>1 DEF Answered
  <2>2. ~ Replicating(f)'
    BY <1>1 DEF Replicating
  <2>3. \A g : Leads(g)' <=> Leads(g)
    BY <1>1 DEF Leads
  <2> QED
    BY <2>1, <2>2, <2>3
<1>3. ~ up[target] \/ (~ Replicating(target) /\ admin[target].pc = "idle")
  BY <1>1, LogFacts DEF Live, Replicating
<1>4. \A g \in Live, h \in Factory : ifa[g][h].pc \in {"none", "wait"}
  BY <1>3, NobodyServes DEF Live
<1>5. ASSUME NEW g \in Live
      PROVE  committed_index[g] = Len(smr_log[g]) - (IF Leads(g) THEN 1 ELSE 2)
  <2>1. CASE g = target
    BY <2>1, <1>3 DEF IInv, Inv, CommitInv, N, Live
  <2>2. CASE g # target
    BY <2>2, <1>4, LogFacts DEF IInv, Inv, CommitInv, PeerCommitInv
  <2> QED
    BY <2>1, <2>2
<1>6. ASSUME NEW g \in Live
      PROVE  PeerCommitInv(g)' /\ PeerLeadInv(g)'
  <2>1. ifa[g][f].pc \in {"none", "wait"}
    BY <1>4
  <2> QED
    BY <2>1, <1>1, <1>2, <1>5 DEF PeerCommitInv, PeerLeadInv
<1>7. committed_index'[f] = N' - (IF Leads(f)' THEN 1 ELSE 2)
  BY <1>1, <1>2, <1>5 DEF N
<1>8. \A g \in Live : primary_id[g] = NoId => smr_log[g] = <<>>
  BY DEF IInv, Inv, CommitInv
<1> QED
  BY <1>1, <1>2, <1>6, <1>7, <1>8 DEF CommitInv

LEMMA CustomerCommitInv ==
  ASSUME IInv, NEW c \in Customers, CustomerThread(c)
  PROVE  CommitInv'
<1>1. /\ UNCHANGED <<up, admin, ifa, smr_log, primary_id, committed_index, target>>
      /\ Live' = Live /\ N' = N
      /\ Replicating(target)' = Replicating(target) /\ \A g : Leads(g)' <=> Leads(g)
  BY DEF CustomerThread, Order, ShipRobot, Leave, adminVars, factoryVars, Live, N, Replicating, Leads
<1>2. up[target] => (Answered' => Answered)
  <2>0. customer \in [Customers -> [pc : {"ready", "waiting", "made", "stopped"}, num : 0 .. MaxOrders]]
    BY DEF IInv, TypeOK
  <2>1. \A d \in Customers \ {c} : customer'[d] = customer[d]
    BY <2>0 DEF CustomerThread, Order, ShipRobot, Leave
  <2>2. \/ customer'[c].pc = "waiting"
        \/ customer'[c].num = customer[c].num /\ (up[target] => customer[c].pc # "waiting")
    BY <2>0 DEF CustomerThread, Order, ShipRobot, Leave
  <2> QED
    BY <2>1, <2>2 DEF Answered
<1>3. ASSUME NEW f \in Live, f # target
      PROVE  PeerCommitInv(f)' /\ PeerLeadInv(f)'
  <2>1. PeerCommitInv(f) /\ PeerLeadInv(f)
    BY <1>3 DEF IInv, Inv, CommitInv
  <2>2. CASE up[target]
    BY <2>1, <2>2, <1>1, <1>2, FramePeer DEF Live
  <2>3. CASE ~ up[target]
    <3>1. Replicating(target) /\ f \notin admin[target].todo
      BY <2>3 DEF IInv, Inv, StubInv, Replicating
    <3> QED
      BY <3>1, <2>1, <1>1 DEF PeerCommitInv, PeerLeadInv
  <2> QED
    BY <2>2, <2>3, LogFacts DEF IInv, TypeOK
<1> QED
  BY <1>1, <1>2, <1>3 DEF IInv, Inv, CommitInv

\* The target's admin becomes the primary.
LEMMA PrimaryCommitInv ==
  ASSUME IInv, NEW f \in Factory, StayPrimary(f) \/ TakeOver(f) \/ BecomePrimary(f)
  PROVE  CommitInv'
<1>a. NoId \notin Factory
  BY FactoryAssumption DEF NoId
<1>0. /\ admin \in [Factory -> AdminStates] /\ target \in Factory /\ N \in Nat
      /\ committed_index \in [Factory -> Indices] /\ NoId \notin Factory
      /\ primary_id \in [Factory -> Factory \cup GarbageIds \cup {NoId}]
  BY <1>a, LogFacts DEF IInv, TypeOK
<1>1. /\ f = target /\ f \in Live /\ UNCHANGED <<up, target, ifa, smr_log, customer>>
      /\ Live' = Live /\ N' = N
      /\ Answered' = Answered
      /\ admin[f].pc \in {"idle", "takeover"}
      /\ admin'[f].pc \in {"takeover", "connect"}
  BY <1>0, WorkerIsTarget, IInvIsTyped, TakeOverUpdates
     DEF StayPrimary, TakeOver, BecomePrimary, Live, N, Answered, clientVars, factoryVars, AdminStates
<1>2. ~ Replicating(target)' /\ ~ Replicating(target)
  BY <1>1 DEF Replicating
<1>3. committed_index'[f] = N - 1
  <2>1. CASE StayPrimary(f)
    BY <2>1, <1>1, <1>2 DEF StayPrimary, factoryVars, IInv, Inv, CommitInv, Leads
  <2>2. CASE TakeOver(f) /\ primary_id[f] = NoId
    <3>1. committed_index' = committed_index
      BY <2>2, TakeOverUpdates
    <3> QED
      BY <3>1, <2>2, <1>1, <1>2 DEF IInv, Inv, CommitInv, Leads
  <2>3. CASE TakeOver(f) /\ primary_id[f] # NoId
    <3>1. UpdateCusRecord(f)
      BY <2>3, TakeOverUpdates
    <3> QED
      BY <3>1, <1>0, <1>1, LogFacts DEF UpdateCusRecord
  <2>4. CASE BecomePrimary(f)
    BY <2>4, <1>1, <1>2 DEF BecomePrimary, IInv, Inv, CommitInv
  <2> QED
    BY <2>1, <2>2, <2>3, <2>4
<1>4. /\ \A g \in Factory \ {f} : /\ committed_index'[g] = committed_index[g]
                                  /\ primary_id'[g] = primary_id[g]
      /\ primary_id'[f] \in {f, primary_id[f]}
      /\ admin'[f].pc = "connect" => primary_id'[f] = f
  BY <1>0, <1>1 DEF StayPrimary, TakeOver, UpdateCusRecord, BecomePrimary, factoryVars, AdminStates
<1>5. ASSUME NEW g \in Live, g # target
      PROVE  PeerCommitInv(g)' /\ PeerLeadInv(g)'
  <2>1. PeerCommitInv(g) /\ PeerLeadInv(g) /\ g \in Factory
    BY <1>5 DEF IInv, Inv, CommitInv, Live
  <2> QED
    BY <2>1, <1>1, <1>2, <1>4, <1>5, FramePeer
<1>6. \A g \in Live : primary_id'[g] = NoId => smr_log[g] = <<>>
  BY <1>0, <1>1, <1>4 DEF IInv, Inv, CommitInv, Live
<1>7. up[target] /\ Answered => primary_id'[target] = target
  BY <1>1, <1>4 DEF IInv, Inv, CommitInv
<1> QED
  BY <1>1, <1>2, <1>3, <1>4, <1>5, <1>6, <1>7 DEF CommitInv

LEMMA TakeRequestCommitInv ==
  ASSUME IInv, NEW f \in Factory, TakeRequest(f)
  PROVE  CommitInv'
<1>0. /\ admin \in [Factory -> AdminStates] /\ ifa \in [Factory -> [Factory -> IfaStates]]
  BY DEF IInv, TypeOK
<1>1. /\ f = target /\ UNCHANGED <<up, target, smr_log, committed_index, primary_id, customer>>
      /\ Live' = Live /\ N' = N /\ Answered' = Answered
      /\ admin[f].pc = "connect" /\ admin'[f].pc = "append"
      /\ \A g : Leads(g)' <=> Leads(g)
  BY <1>0, WorkerIsTarget, IInvIsTyped DEF TakeRequest, Live, N, Answered, Leads, clientVars, factoryVars, AdminStates
<1>2. ~ Replicating(target)' /\ ~ Replicating(target)
  BY <1>1 DEF Replicating
<1>3. ASSUME NEW g \in Live, g # target
      PROVE  PeerCommitInv(g)' /\ PeerLeadInv(g)'
  <2>1. PeerCommitInv(g) /\ PeerLeadInv(g) /\ g \in Factory
    BY <1>3 DEF IInv, Inv, CommitInv, Live
  <2>2. ifa[g][f].pc \in {"none", "wait"}
    BY <1>1, NobodyServes DEF Live
  <2>3. ifa'[g] = ifa[g] \/ ifa'[g] = [ifa[g] EXCEPT ![f].pc = "wait"]
    BY DEF TakeRequest, Live
  <2>4. ifa[g] \in [Factory -> IfaStates]
    BY <1>0 DEF Live
  <2>5. [ifa[g] EXCEPT ![f].pc = "wait"][f].pc = "wait"
    BY <2>4 DEF IfaStates
  <2>6. ifa'[g][f].pc \in {"none", "wait"}
    BY <2>2, <2>3, <2>5
  <2> QED
    BY <1>1, <1>2, <2>1, <2>2, <2>6, FramePeer
<1> QED
  BY <1>1, <1>2, <1>3 DEF IInv, Inv, CommitInv

LEMMA AppendLogCommitInv ==
  ASSUME IInv, NEW f \in Factory, AppendLog(f)
  PROVE  CommitInv'
<1> DEFINE op == [cid |-> admin[f].cust, num |-> customer[admin[f].cust].num]
<1>0. admin \in [Factory -> AdminStates] /\ NoId \notin Factory
  BY FactoryAssumption DEF IInv, TypeOK, NoId
<1>1. f = target /\ up[f] /\ admin[f].pc = "append" /\ ~ LogIsAhead(f) /\ op \in Orders
      /\ f \in Live /\ peer_connected[f] /\ ~ Replicating(target)
  BY AppendLogAppends, RequestIsOrder, IInvIsTyped DEF AppendLog, Live, Replicating, IInv, Inv, StubInv
<1>2. /\ smr_log' = [smr_log EXCEPT ![f] = Append(@, op)]
      /\ UNCHANGED <<up, ifa, target, committed_index, primary_id, customer>> /\ Live' = Live
      /\ Answered' = Answered /\ \A g : Leads(g)' <=> Leads(g)
  BY <1>1 DEF AppendLog, clientVars, Live, Answered, Leads
<1>3. /\ admin'[f].pc = "replicate"
      /\ admin'[f].todo = {g \in Factory : stub[f][g] \in {"open", "identified"}}
  BY <1>0 DEF AppendLog, AdminStates
<1> HIDE DEF op
<1>4. /\ smr_log'[f] = Append(smr_log[f], op) /\ smr_log[f] \in Seq(Orders) /\ N \in Nat
      /\ \A g \in Live : g # f => smr_log'[g] = smr_log[g]
  BY <1>1, <1>2, LogFacts DEF IInv, TypeOK, Live
<1>5. N' = N + 1
  BY <1>1, <1>2, <1>4, AppendFacts DEF N
<1>6. committed_index'[f] = N' - 2 /\ primary_id'[f] = f
  <2>1. committed_index[f] = N - 1 /\ primary_id[f] = f
    BY <1>1 DEF IInv, Inv, CommitInv
  <2> QED
    BY <2>1, <1>2, <1>4, <1>5
<1>7. ASSUME NEW g \in Live, g # target
      PROVE  PeerCommitInv(g)' /\ PeerLeadInv(g)'
  <2>1. PeerCommitInv(g) /\ PeerLeadInv(g) /\ g \in Factory
    BY <1>7 DEF IInv, Inv, CommitInv, Live
  <2>2. g \in admin'[f].todo
    BY <1>1, <1>3, <1>7 DEF IInv, Inv, StubInv, Live
  <2> QED
    BY <1>1, <1>2, <1>4, <1>7, <2>1, <2>2, FramePeer
<1>8. Replicating(f)'
  BY <1>3 DEF Replicating
<1>9. \A g \in Live : primary_id'[g] = NoId => smr_log'[g] = <<>>
  BY <1>0, <1>2, <1>4, <1>6 DEF IInv, Inv, CommitInv
<1> QED
  BY <1>1, <1>2, <1>3, <1>6, <1>7, <1>8, <1>9 DEF CommitInv

LEMMA CallCommitInv ==
  ASSUME IInv, NEW f \in Factory,
         SendReplicationRequest(f) \/ ReceiveReply(f) \/ PeerFails(f)
  PROVE  CommitInv'
<1> DEFINE p == NextPeer(f)
<1>0. /\ admin \in [Factory -> AdminStates] /\ ifa \in [Factory -> [Factory -> IfaStates]]
  BY DEF IInv, TypeOK
<1>1. /\ f = target /\ admin[f].todo # {} /\ Replicating(f) /\ f \in Live
      /\ UNCHANGED <<up, target, smr_log, committed_index, primary_id, customer>> /\ Live' = Live
      /\ Answered' = Answered /\ N' = N /\ \A g : Leads(g)' <=> Leads(g)
  BY WorkerIsTarget, IInvIsTyped
     DEF SendReplicationRequest, ReceiveReply, PeerFails, clientVars, factoryVars, Live, Answered, N,
         Leads, Replicating, IInv, Inv, StubInv
<1>2. p \in admin[f].todo /\ p \in Factory /\ p # f /\ peer_connected[f]
  BY <1>1, NextPeerIs DEF IInv, Inv, StubInv, Busy
<1>3. /\ admin'[f].pc \in {"replicate", "wait"}
      /\ \A g, h \in Factory : g # p \/ h # f => ifa'[g][h] = ifa[g][h]
  BY <1>0, <1>2 DEF SendReplicationRequest, ReceiveReply, PeerFails, AdminStates
<1>4. Replicating(f)' /\ primary_id[f] = f
  BY <1>1, <1>3 DEF Replicating, IInv, Inv, CommitInv
<1>5. \/ /\ admin'[f].todo = admin[f].todo
         /\ ifa[p][f].pc = "wait" /\ ifa'[p][f].pc = "sent"
      \/ /\ admin'[f].todo = admin[f].todo \ {p}
         /\ ifa[p][f].pc = "reply" /\ ifa'[p][f].pc \in {"wait", "none"}
      \/ /\ admin'[f].todo = admin[f].todo \ {p}
         /\ p \notin Live
  <2>1. CASE SendReplicationRequest(f)
    BY <2>1, <1>0, <1>2 DEF SendReplicationRequest, AdminStates
  <2>2. CASE ReceiveReply(f)
    BY <2>2, <1>0, <1>2 DEF ReceiveReply, AdminStates, IfaStates
  <2>3. CASE PeerFails(f)
    BY <2>3, <1>0, <1>1, <1>2 DEF PeerFails, AdminStates, IInv, Inv, StubInv, Live
  <2> QED
    BY <2>1, <2>2, <2>3
<1> HIDE DEF p
<1>6. ASSUME NEW g \in Live, g # target
      PROVE  PeerCommitInv(g)' /\ PeerLeadInv(g)'
  <2>1. PeerCommitInv(g) /\ PeerLeadInv(g) /\ g \in Factory
    BY <1>6 DEF IInv, Inv, CommitInv, Live
  <2>2. CASE g = p
    BY <1>1, <1>2, <1>4, <1>5, <2>1, <2>2, FramePeer
  <2>3. CASE g # p
    <3>1. ifa'[g][f] = ifa[g][f] /\ (g \in admin'[f].todo <=> g \in admin[f].todo)
      BY <2>1, <2>3, <1>3, <1>5
    <3> QED
      BY <3>1, <1>1, <1>4, <2>1, FramePeer
  <2> QED
    BY <2>2, <2>3
<1>7. committed_index[f] = N - 2
  BY <1>1 DEF IInv, Inv, CommitInv
<1> QED
  BY <1>1, <1>3, <1>4, <1>6, <1>7 DEF IInv, Inv, CommitInv

LEMMA CommitCommitInv ==
  ASSUME IInv, NEW f \in Factory, Commit(f)
  PROVE  CommitInv'
<1>0. /\ admin \in [Factory -> AdminStates] /\ target \in Factory /\ N \in Nat
      /\ committed_index \in [Factory -> Indices]
  BY LogFacts DEF IInv, TypeOK
<1>1. /\ f = target /\ f \in Live /\ UNCHANGED <<up, target, ifa, smr_log, primary_id>>
      /\ Live' = Live /\ N' = N /\ Replicating(f) /\ admin[f].todo = {}
      /\ admin'[f].pc = "idle" /\ \A g : Leads(g)' <=> Leads(g)
  BY <1>0, WorkerIsTarget, IInvIsTyped DEF Commit, Live, N, Leads, Replicating, IdleAdmin
<1>2. ~ Replicating(target)' /\ primary_id[f] = f /\ Leads(f)
  BY <1>1 DEF Replicating, Leads, IInv, Inv, CommitInv
<1>3. /\ committed_index'[f] = N - 1
      /\ \A g \in Live : g # f => committed_index'[g] = committed_index[g]
  BY <1>0, <1>1, LogFacts DEF Commit, UpdateCusRecord, Live
<1>4. ASSUME NEW g \in Live, g # target
      PROVE  PeerCommitInv(g)' /\ PeerLeadInv(g)'
  <2>1. PeerCommitInv(g) /\ PeerLeadInv(g) /\ g \in Factory
    BY <1>4 DEF IInv, Inv, CommitInv, Live
  <2>2. ~ Leads(g)
    BY <1>1, <2>1 DEF PeerLeadInv
  <2> QED
    BY <1>1, <1>3, <1>4, <2>1, <2>2 DEF PeerCommitInv, PeerLeadInv
<1> QED
  BY <1>1, <1>2, <1>3, <1>4 DEF IInv, Inv, CommitInv

LEMMA IfaCommitInv ==
  ASSUME Orderly, IInv, NEW g \in Factory, NEW f \in Factory, IfaThread(g, f)
  PROVE  CommitInv'
<1>0. /\ ifa \in [Factory -> [Factory -> IfaStates]] /\ ifa[g][f] \in IfaStates
      /\ ifa[g] \in [Factory -> IfaStates]
      /\ committed_index \in [Factory -> Indices] /\ target \in Factory /\ N \in Nat
      /\ smr_log \in [Factory -> Seq(Ops)]
      /\ primary_id \in [Factory -> Factory \cup GarbageIds \cup {NoId}]
  BY LogFacts DEF IInv, TypeOK
<1>1. up[g] /\ ifa[g][f].pc \notin {"none", "wait"}
  BY DEF IfaThread, ReceiveReplicationRequest, WriteLog, GapFault, SetLastIndex, ApplyCommitted
<1>2. /\ f = target /\ g # target /\ g \in Live
      /\ ifa[g][f].req.fid \in GarbageIds /\ ifa[g][f].req.fid \notin {NoId, g}
      /\ Replicating(target) /\ g \in admin[target].todo /\ N > 0
      /\ PeerCommitInv(g) /\ PeerLeadInv(g)
  BY <1>1, ServedIsTarget DEF Orderly, IInv, Inv, CommitInv
<1>3. ~ GapFault(g, f)
  BY StoreAppends DEF GapFault, GapFaults
<1>4. /\ UNCHANGED <<up, admin, target, customer>> /\ Live' = Live /\ Answered' = Answered
      /\ Replicating(target)' = Replicating(target)
  BY <1>3 DEF IfaThread, ReceiveReplicationRequest, WriteLog, SetLastIndex, ApplyCommitted,
              adminVars, clientVars, Live, Answered, Replicating
<1>5. \A h \in Factory : h # g => /\ ifa'[h] = ifa[h] /\ smr_log'[h] = smr_log[h]
                                  /\ committed_index'[h] = committed_index[h]
                                  /\ primary_id'[h] = primary_id[h]
  <2>1. \A h \in Factory : h # g => ifa'[h] = ifa[h] /\ primary_id'[h] = primary_id[h]
    BY <1>0, <1>3 DEF IfaThread, ReceiveReplicationRequest, WriteLog, SetLastIndex, ApplyCommitted
  <2>2. \A h \in Factory : h # g => smr_log'[h] = smr_log[h]
    BY <1>0, <1>3 DEF IfaThread, ReceiveReplicationRequest, WriteLog, SetLastIndex, ApplyCommitted
  <2>3. \A h \in Factory : h # g => committed_index'[h] = committed_index[h]
    BY <1>0, <1>3 DEF IfaThread, ReceiveReplicationRequest, WriteLog, SetLastIndex, ApplyCommitted
  <2> QED
    BY <2>1, <2>2, <2>3
<1>6. N' = N /\ smr_log'[target] = smr_log[target] /\ committed_index'[target] = committed_index[target]
      /\ primary_id'[target] = primary_id[target] /\ (Leads(target)' <=> Leads(target))
  BY <1>0, <1>2, <1>4, <1>5 DEF N, Leads
<1>7. ASSUME NEW h \in Live, h # target, h # g
      PROVE  PeerCommitInv(h)' /\ PeerLeadInv(h)'
  <2>1. PeerCommitInv(h) /\ PeerLeadInv(h) /\ h \in Factory
    BY <1>7 DEF IInv, Inv, CommitInv, Live
  <2> QED
    BY <1>2, <1>4, <1>5, <1>7, <2>1, FramePeer
<1>8. ~ Leads(g)' /\ primary_id'[g] # NoId /\ PeerCommitInv(g)'
  <2>1. CASE ReceiveReplicationRequest(g, f)
    <3>1. /\ primary_id'[g] = ifa[g][f].req.fid /\ ifa'[g][f].pc = "store"
          /\ ifa[g][f].pc = "sent" /\ UNCHANGED <<smr_log, committed_index>>
      BY <2>1, <1>0, <1>2 DEF ReceiveReplicationRequest, IfaStates
    <3> QED
      BY <3>1, <1>2, <1>4 DEF Leads, PeerCommitInv
  <2>2. CASE ~ ReceiveReplicationRequest(g, f)
    <3>1. primary_id' = primary_id /\ ~ Leads(g)
      BY <2>2, <1>2, <1>3 DEF IfaThread, WriteLog, SetLastIndex, ApplyCommitted, PeerLeadInv
    <3>2. ~ Leads(g)' /\ primary_id'[g] # NoId
      BY <3>1 DEF Leads
    <3>3. CASE WriteLog(g, f)
      <4>a. smr_log'[g] = smr_log[target]
        BY <3>3, <1>0, WriteLogStores
      <4>b. ifa'[g][f].pc = "last" /\ ifa[g][f].pc = "store" /\ committed_index' = committed_index
        BY <3>3, <1>0 DEF WriteLog, IfaStates
      <4>c. Len(smr_log[g]) = N - 1
        BY <4>b, <1>1, StoreAppends
      <4>1. /\ smr_log'[g] = smr_log[target] /\ Len(smr_log[g]) = N - 1
            /\ ifa'[g][f].pc = "last" /\ ifa[g][f].pc = "store"
            /\ committed_index' = committed_index
        BY <4>a, <4>b, <4>c
      <4>2. Len(smr_log'[g]) = Len(smr_log[g]) + 1
        BY <4>1, <1>0 DEF N
      <4>3. committed_index[g] \in {Len(smr_log[g]) - 1, Len(smr_log[g]) - 2} /\ Len(smr_log[g]) \in Nat
        BY <4>1, <1>0, <1>2 DEF PeerCommitInv
      <4>4. committed_index'[g] \in {Len(smr_log'[g]) - 2, Len(smr_log'[g]) - 3}
        BY <4>1, <4>2, <4>3
      <4> QED
        BY <3>2, <4>1, <4>4, <1>2, <1>4 DEF PeerCommitInv
    <3>4. CASE SetLastIndex(g, f)
      <4>1. /\ ifa'[g][f].pc = "apply" /\ ifa[g][f].pc = "last"
            /\ UNCHANGED <<smr_log, committed_index>>
        BY <3>4, <1>0 DEF SetLastIndex, IfaStates
      <4> QED
        BY <3>2, <4>1, <1>2, <1>4 DEF PeerCommitInv
    <3>5. CASE ApplyCommitted(g, f)
      <4>1. /\ ifa[g][f].pc = "apply" /\ smr_log' = smr_log /\ Len(smr_log[g]) = N
            /\ committed_index' = [committed_index EXCEPT ![g] = N - 2]
               \/ (N = 1 /\ committed_index' = committed_index)
        BY <3>5, ApplyCommittedApplies DEF N
      <4>2. ifa'[g][f].pc = "reply"
        BY <3>5, <1>0 DEF ApplyCommitted, IfaStates
      <4>3. committed_index'[g] = N - 2
        <5>1. committed_index[g] \in {N - 2, N - 3} /\ committed_index[g] \in Indices
          BY <4>1, <1>0, <1>2 DEF PeerCommitInv
        <5>2. N = 1 => committed_index[g] = N - 2
          BY <5>1 DEF Indices
        <5> QED
          BY <4>1, <5>2, <1>0
      <4> QED
        BY <3>2, <4>1, <4>2, <4>3, <1>2, <1>4 DEF PeerCommitInv
    <3> QED
      BY <2>2, <3>2, <3>3, <3>4, <3>5, <1>3 DEF IfaThread
  <2> QED
    BY <2>1, <2>2
<1>9. PeerLeadInv(g)'
  BY <1>8 DEF PeerLeadInv
<1>10. \A h \in Live : primary_id'[h] = NoId => smr_log'[h] = <<>>
  BY <1>5, <1>8 DEF IInv, Inv, CommitInv, Live
<1> QED
  BY <1>4, <1>6, <1>7, <1>8, <1>9, <1>10 DEF IInv, Inv, CommitInv

LEMMA NextCommitInv == Orderly /\ IInv /\ [Next]_vars => CommitInv'
<1> SUFFICES ASSUME Orderly, IInv, [Next]_vars PROVE CommitInv'
  OBVIOUS
<1>1. ASSUME \/ \E f \in Factory : AppendFault(f) \/ BrokenPipe(f) \/ Crash(f)
             \/ UNCHANGED vars
      PROVE  CommitInv'
  <2>1. /\ \A f \in Live' : f \in Live
        /\ up'[target] => up[target]
        /\ UNCHANGED <<target, admin, ifa, smr_log, primary_id, committed_index, customer>>
    BY <1>1, LogFacts DEF AppendFault, BrokenPipe, Crash, vars, Live, adminVars, clientVars, factoryVars,
                IInv, TypeOK
  <2>2. N' = N /\ Answered' = Answered /\ Replicating(target)' = Replicating(target)
        /\ \A g : Leads(g)' <=> Leads(g)
    BY <2>1 DEF N, Answered, Replicating, Leads
  <2>3. ASSUME NEW f \in Live', f # target
        PROVE  PeerCommitInv(f)' /\ PeerLeadInv(f)'
    <3>0. f \in Live /\ f \in Factory
      BY <2>1, <2>3 DEF Live
    <3>1. PeerCommitInv(f) /\ PeerLeadInv(f)
      BY <2>3, <3>0 DEF IInv, Inv, CommitInv
    <3> QED
      BY <2>1, <2>2, <3>0, <3>1, FramePeer
  <2>4. CommitInv
    BY DEF IInv, Inv
  <2>5. \A f \in Live' : primary_id[f] = NoId => smr_log[f] = <<>>
    BY <2>1, <2>4 DEF CommitInv
  <2>6. up[target] /\ Answered => primary_id[target] = target
    BY <2>4 DEF CommitInv
  <2> QED
    BY <2>1, <2>2, <2>3, <2>4, <2>5, <2>6 DEF CommitInv
<1> QED
  BY <1>1, StartProgramCommitInv, CustomerCommitInv, PrimaryCommitInv, TakeRequestCommitInv,
     AppendLogCommitInv, CallCommitInv, CommitCommitInv, IfaCommitInv
     DEF Next, Finished, AdminThread

-----------------------------------------------------------------------------
(* The invariant.                                                          *)

LEMMA InitInv == Init => Inv
<1> SUFFICES ASSUME Init PROVE Inv
  OBVIOUS
<1>0. target \in Factory /\ \A f \in Factory : admin[f] = IdleAdmin
  BY FactoryAssumption DEF Init
<1>1. ~ Busy(target) /\ ~ Replicating(target) /\ admin[target].pc = "idle"
  BY <1>0 DEF Busy, Replicating, IdleAdmin
<1>2. N = 0 /\ smr_log[target] = <<>> /\ \A f \in Factory : Len(smr_log[f]) = 0
  BY <1>0 DEF Init, N
<1>3. \A f \in Factory : Leads(f)
  BY DEF Init, Leads
<1>4. \A f, g \in Factory : ifa[g][f].pc = "none"
  BY DEF Init
<1>5. ~ Answered
  BY DEF Init, Answered
<1>6. QueueInv /\ RequestInv /\ IndexInv /\ QuotaInv
  BY InitTyped DEF Typed, Init, QuotaInv
<1>7. StubInv
  BY <1>0, <1>1 DEF Init, StubInv, Live
<1>8. CallInv
  BY <1>0, <1>1, <1>4 DEF CallInv, Live
<1>9. LogInv
  BY <1>0, <1>1, <1>2, <1>4 DEF Init, LogInv, Behind, Live
<1>10. \A f \in Live : PeerCommitInv(f) /\ PeerLeadInv(f)
  BY <1>0, <1>1, <1>2, <1>3, <1>4, <1>5 DEF Init, PeerCommitInv, PeerLeadInv, Live
<1>11. CommitInv
  BY <1>0, <1>1, <1>2, <1>3, <1>5, <1>10 DEF Init, CommitInv, Live
<1> QED
  BY <1>6, <1>7, <1>8, <1>9, <1>11 DEF Inv

\* The inductive invariant holds in every reachable state.
THEOREM Invariance == Orderly => (Spec => []IInv)
<1> SUFFICES ASSUME Orderly PROVE Spec => []IInv
  OBVIOUS
<1>1. Init => IInv
  BY InitTypeOK, InitInv DEF IInv
<1>2. IInv /\ [Next]_vars => IInv'
  BY IInvIsTyped, NextTypeOK, NextQueueInv, NextIndexInv, NextQuotaInv, NextStubInv, NextCallInv,
     NextLogInv, NextCommitInv DEF IInv, Inv
<1> QED
  BY <1>1, <1>2, PTL DEF Spec

-----------------------------------------------------------------------------
(* The logs and what of them is applied.                                   *)

\* How much of his log a live factory has applied.
LEMMA CommittedFacts ==
  ASSUME IInv, NEW f \in Live
  PROVE  /\ committed_index[f] \in Indices /\ committed_index[f] < Len(smr_log[f])
         /\ Replicating(target) /\ up[target] => committed_index[f] <= N - 2
<1>0. /\ f \in Factory /\ Len(smr_log[f]) \in Nat /\ committed_index[f] \in Indices
      /\ N \in Nat /\ ifa[f][target] \in IfaStates /\ target \in Factory
      /\ Len(smr_log[f]) = N - (IF Behind(f) THEN 1 ELSE 0)
      /\ admin[target] \in AdminStates
  BY LogFacts DEF IInv, TypeOK, Live
<1>1. CASE f = target
  <2>1. committed_index[f] \in {N - 1, N - 2} /\ (Replicating(target) => committed_index[f] = N - 2)
    BY <1>1 DEF IInv, Inv, CommitInv
  <2>2. Len(smr_log[f]) = N
    BY <1>1 DEF N
  <2>3. N \in Nat
    BY <1>0
  <2>4. committed_index[f] < N /\ (Replicating(target) => committed_index[f] <= N - 2)
    BY <2>1, <2>3
  <2> QED
    BY <1>0, <2>2, <2>4
<1>2. CASE f # target
  <2>1. PeerCommitInv(f) /\ PeerLeadInv(f)
    BY <1>2 DEF IInv, Inv, CommitInv
  <2>2. ifa[f][target].pc \in {"none", "wait", "sent", "store", "last", "apply", "reply"}
    BY <1>0 DEF IfaStates, IfaPcs
  <2>3. committed_index[f] < Len(smr_log[f])
    BY <1>0, <2>1, <2>2 DEF PeerCommitInv
  <2>4. ASSUME Replicating(target), up[target]
        PROVE  committed_index[f] <= N - 2
    <3>1. CASE Behind(f)
      <4>1. Len(smr_log[f]) = N - 1
        BY <1>0, <3>1
      <4>2. committed_index[f] <= Len(smr_log[f]) - 1
        BY <1>0, <2>3 DEF Indices
      <4> QED
        BY <4>1, <4>2, <1>0 DEF Indices
    <3>2. CASE ~ Behind(f)
      <4>1. Len(smr_log[f]) = N
        BY <1>0, <3>2
      <4>2. f \notin admin[target].todo \/ Stored(f)
        BY <3>2, <2>4 DEF Behind
      <4>3. ifa[f][target].pc # "store"
        <5>1. ifa[f][target].pc = "store" => f \in admin[target].todo
          BY <1>0, ServedIsTarget DEF Live
        <5> QED
          BY <5>1, <4>2 DEF Stored
      <4>4. ~ Leads(f)
        BY <2>1, <2>4, <4>2 DEF PeerLeadInv, Stored
      <4> QED
        BY <1>0, <2>1, <2>2, <4>1, <4>3, <4>4 DEF PeerCommitInv
    <3> QED
      BY <3>1, <3>2
  <2> QED
    BY <1>0, <2>3, <2>4
<1> QED
  BY <1>1, <1>2

\* Steps of the proof of LogsAgree and AppliedIsReplicated: every live log is
\* the target's or all but its last entry.
LEMMA LiveLogs ==
  ASSUME IInv, NEW f \in Live
  PROVE  /\ Len(smr_log[f]) \in {N, N - 1} /\ (Len(smr_log[f]) = N - 1 => Behind(f) /\ N > 0)
         /\ \A i \in 1 .. Len(smr_log[f]) : smr_log[f][i] = smr_log[target][i]
         /\ smr_log[f] = SubSeq(smr_log[target], 1, Len(smr_log[f]))
<1>0. N \in Nat /\ smr_log[target] \in Seq(Orders) /\ Len(smr_log[target]) = N
  BY LogFacts DEF N
<1>1. CASE Behind(f)
  <2>1. N > 0 /\ smr_log[f] = SubSeq(smr_log[target], 1, N - 1)
    BY <1>1 DEF IInv, Inv, LogInv, Behind
  <2>2. Len(smr_log[f]) = N - 1 /\ \A i \in 1 .. N - 1 : smr_log[f][i] = smr_log[target][i]
    BY <1>0, <2>1, FrontAndLast
  <2> QED
    BY <1>0, <1>1, <2>1, <2>2
<1>2. CASE ~ Behind(f)
  <2>1. smr_log[f] = smr_log[target]
    BY <1>2 DEF IInv, Inv, LogInv
  <2>2. SubSeq(smr_log[target], 1, N) = smr_log[target]
    BY <1>0, SubSeqFull
  <2> QED
    BY <1>0, <2>1, <2>2
<1> QED
  BY <1>1, <1>2

LEMMA IInvLogsAgree == IInv => LogsAgree
<1> SUFFICES ASSUME IInv, NEW f \in Live, NEW g \in Live, Len(Log(f)) <= Len(Log(g))
             PROVE  /\ Log(f) = SubSeq(Log(g), 1, Len(Log(f)))
                    /\ Len(Log(g)) <= Len(Log(f)) + 1
  BY DEF LogsAgree
<1>0. N \in Nat /\ smr_log[target] \in Seq(Orders) /\ Len(smr_log[target]) = N
  BY LogFacts DEF N
<1>1. /\ Len(smr_log[f]) \in {N, N - 1} /\ Len(smr_log[g]) \in {N, N - 1}
      /\ smr_log[f] = SubSeq(smr_log[target], 1, Len(smr_log[f]))
      /\ smr_log[g] = SubSeq(smr_log[target], 1, Len(smr_log[g]))
      /\ Len(smr_log[f]) \in Nat /\ smr_log[g] \in Seq(Orders)
  BY LiveLogs, LogFacts
<1>2. CASE Len(smr_log[f]) = Len(smr_log[g])
  <2>1. smr_log[f] = smr_log[g]
    BY <1>1, <1>2
  <2> QED
    BY <1>1, <1>2, <2>1, SubSeqFull DEF Log
<1>3. CASE Len(smr_log[f]) # Len(smr_log[g])
  <2>1. Len(smr_log[f]) = N - 1 /\ Len(smr_log[g]) = N
    BY <1>0, <1>1, <1>3 DEF Log
  <2>2. smr_log[g] = smr_log[target]
    BY <1>0, <1>1, <2>1, SubSeqFull
  <2> QED
    BY <1>0, <1>1, <2>1, <2>2 DEF Log
<1> QED
  BY <1>2, <1>3

LEMMA IInvAppliedIsReplicated == IInv => AppliedIsReplicated
<1> SUFFICES ASSUME IInv, NEW f \in Live, NEW g \in Live
             PROVE  /\ committed_index[f] < Len(smr_log[g])
                    /\ \A i \in 0 .. committed_index[f] : Entry(g, i) = Entry(f, i)
  BY DEF AppliedIsReplicated, Log
<1>1. /\ N \in Nat /\ Len(smr_log[f]) \in {N, N - 1} /\ Len(smr_log[g]) \in {N, N - 1}
      /\ Len(smr_log[f]) \in Nat /\ Len(smr_log[g]) \in Nat
      /\ committed_index[f] \in Indices /\ committed_index[f] < Len(smr_log[f])
      /\ Replicating(target) /\ up[target] => committed_index[f] <= N - 2
      /\ Len(smr_log[g]) = N - 1 => Behind(g)
  BY LiveLogs, LogFacts, CommittedFacts
<1>2. Behind(g) => Replicating(target) /\ up[target]
  BY DEF Behind, IInv, Inv, StubInv
<1>3. committed_index[f] < Len(smr_log[g])
  BY <1>1, <1>2 DEF Indices
<1>4. ASSUME NEW i \in 0 .. committed_index[f]
      PROVE  Entry(g, i) = Entry(f, i)
  <2>1. i \in 0 .. Len(smr_log[f]) - 1 /\ i \in 0 .. Len(smr_log[g]) - 1
    BY <1>1, <1>3 DEF Indices
  <2>2. Entry(f, i) = smr_log[f][i + 1] /\ Entry(g, i) = smr_log[g][i + 1]
    BY <2>1, EntryIsOrder
  <2>3. i + 1 \in 1 .. Len(smr_log[f]) /\ i + 1 \in 1 .. Len(smr_log[g])
    BY <1>1, <2>1
  <2> QED
    BY <2>2, <2>3, LiveLogs
<1> QED
  BY <1>3, <1>4

\* The logs of two live factories agree: whatever was appended by whichever
\* primary, and whoever died meanwhile, one is a prefix of the other and at
\* most the entry that is being replicated is missing.
THEOREM LiveLogsAgree == Orderly => (Spec => []LogsAgree)
<1> SUFFICES ASSUME Orderly PROVE Spec => []LogsAgree
  OBVIOUS
<1> QED
  BY IInvLogsAgree, Invariance, PTL

\* What a live factory has applied to its records is in the log of every live
\* factory: UpdateCusRecord and ApplyCommitted come after the replication.
THEOREM AppliedAfterReplication == Orderly => (Spec => []AppliedIsReplicated)
<1> SUFFICES ASSUME Orderly PROVE Spec => []AppliedIsReplicated
  OBVIOUS
<1> QED
  BY IInvAppliedIsReplicated, Invariance, PTL

\* Between two programs everybody has the same log; the last primary has
\* applied it, the others all but the last entry.
LEMMA IInvOneBehind == IInv => OneBehind
<1> SUFFICES ASSUME IInv, \A c \in Customers : customer[c].pc = "stopped", up[target],
                    NEW f \in Live
             PROVE  /\ last_index[f] = last_index[target]
                    /\ committed_index[f] = last_index[target]
                                  - (IF f = target \/ last_index[f] = -1 THEN 0 ELSE 1)
  BY DEF OneBehind
<1>1. target \in Live /\ ~ Replicating(target) /\ admin[target].pc = "idle"
  BY AllIdle, IInvIsTyped, LogFacts DEF Live, Replicating
<1>2. /\ smr_log[f] = smr_log[target] /\ last_index[f] = N - 1 /\ last_index[target] = N - 1
      /\ N \in Nat
  BY <1>1, LogsEqual, LogFacts
<1>3. ifa[f][target].pc \in {"none", "wait"}
  BY <1>1, NobodyServes, LogFacts DEF Live
<1>4. ASSUME N > 0
      PROVE  Answered /\ primary_id[target] = target
  <2>1. smr_log[target][1] \in Orders
    BY <1>2, <1>4, LogFacts, ElementOfSeq DEF N
  <2>2. PICK c \in Customers : TRUE
    BY <2>1 DEF Orders
  <2>a. smr_log[target] # <<>>
    BY <1>4 DEF N
  <2>3. quota # 0
    BY <2>a, LogFacts DEF IInv, Inv, QuotaInv
  <2>4. customer[c].num = quota /\ quota \in Nat
    BY DEF IInv, Inv, QueueInv, TypeOK
  <2>5. Answered
    BY <2>3, <2>4 DEF Answered
  <2> QED
    BY <2>5 DEF IInv, Inv, CommitInv
<1>5. committed_index[f] \in Indices /\ Len(smr_log[f]) = N
  BY <1>2, CommittedFacts DEF N
<1>6. CASE f = target
  <2>1. committed_index[f] = N - (IF ~ Leads(target) THEN 2 ELSE 1)
    BY <1>1, <1>6 DEF IInv, Inv, CommitInv
  <2>2. N > 0 => Leads(target)
    BY <1>4 DEF Leads
  <2>3. committed_index[f] = N - 1
    BY <1>2, <1>5, <2>1, <2>2 DEF Indices
  <2> QED
    BY <1>2, <1>6, <2>3
<1>7. CASE f # target
  <2>1. PeerCommitInv(f) /\ PeerLeadInv(f)
    BY <1>7 DEF IInv, Inv, CommitInv
  <2>2. committed_index[f] = N - (IF Leads(f) THEN 1 ELSE 2)
    BY <1>3, <1>5, <2>1 DEF PeerCommitInv
  <2>3. N > 0 => ~ Leads(f)
    BY <1>4, <2>1 DEF PeerLeadInv
  <2>4. committed_index[f] = N - 1 - (IF N = 0 THEN 0 ELSE 1)
    BY <1>2, <1>5, <2>2, <2>3 DEF Indices
  <2>5. last_index[f] = -1 <=> N = 0
    BY <1>2
  <2> QED
    BY <1>2, <1>7, <2>4, <2>5
<1> QED
  BY <1>2, <1>6, <1>7

\* Between two client programs the backups are one entry behind the primary
\* in what they have applied, and in nothing else.
THEOREM BackupsOneBehind == Orderly => (Spec => []OneBehind)
<1> SUFFICES ASSUME Orderly PROVE Spec => []OneBehind
  OBVIOUS
<1> QED
  BY IInvOneBehind, Invariance, PTL

\* The only steps that apply something, and what they apply: the last entry of
\* the target, when all but this is applied, or at a backup the last but one,
\* once more or for the first time.
AppliesLast(f) ==
  /\ up[f] /\ f = target /\ N > 0 /\ committed_index[f] = N - 2
  /\ UpdateCusRecord(f)
AppliesCommitted(g) ==
  /\ up[g] /\ g # target /\ N > 1 /\ committed_index[g] \in {N - 2, N - 3}
  /\ smr_log[g] = smr_log[target] /\ smr_log[target][N - 1] \in Orders
  /\ customer_record' = [customer_record EXCEPT
        ![g][smr_log[target][N - 1].cid] = smr_log[target][N - 1].num]
  /\ committed_index' = [committed_index EXCEPT ![g] = N - 2]

LEMMA TakeOverApplies ==
  ASSUME IInv, NEW f \in Factory, TakeOver(f)
  PROVE  UNCHANGED <<customer_record, committed_index>> \/ AppliesLast(f)
<1>1. f = target /\ up[f] /\ admin[f].pc = "idle" /\ primary_id[f] # f
  BY TakeOverUpdates
<1>2. ASSUME primary_id[f] # NoId, N > 0, UpdateCusRecord(f)
      PROVE  AppliesLast(f)
  <2>1. ~ Leads(target)
    BY <1>1, <1>2 DEF Leads
  <2>2. committed_index[f] = N - 2
    BY <1>1, <2>1 DEF IInv, Inv, CommitInv
  <2> QED
    BY <1>1, <1>2, <2>2 DEF AppliesLast
<1> QED
  BY <1>2, TakeOverUpdates

LEMMA CommitApplies ==
  ASSUME IInv, NEW f \in Factory, Commit(f)
  PROVE  AppliesLast(f)
<1>1. f = target /\ up[f] /\ admin[f].pc = "replicate" /\ UpdateCusRecord(f)
  BY WorkerIsTarget, IInvIsTyped DEF Commit
<1>2. Replicating(target)
  BY <1>1 DEF Replicating
<1>3. N > 0
  BY <1>2 DEF IInv, Inv, LogInv
<1>4. committed_index[f] = N - 2
  BY <1>1, <1>2 DEF IInv, Inv, CommitInv
<1> QED
  BY <1>1, <1>3, <1>4 DEF AppliesLast

LEMMA IfaApplies ==
  ASSUME IInv, NEW g \in Factory, NEW f \in Factory, ApplyCommitted(g, f)
  PROVE  UNCHANGED <<customer_record, committed_index>> \/ AppliesCommitted(g)
<1>1. /\ f = target /\ up[g] /\ g # target /\ g \in Live /\ ifa[g][f].pc = "apply"
      /\ smr_log[g] = smr_log[target]
  BY ApplyCommittedApplies
<1>2. committed_index[g] \in {Len(smr_log[g]) - 2, Len(smr_log[g]) - 3}
  BY <1>1 DEF IInv, Inv, CommitInv, PeerCommitInv
<1>3. Len(smr_log[g]) = N
  BY <1>1 DEF N
<1> QED
  BY <1>1, <1>2, <1>3, ApplyCommittedApplies DEF AppliesCommitted

LEMMA NextApplies ==
  ASSUME IInv, [Next]_vars
  PROVE  \/ UNCHANGED <<customer_record, committed_index>>
         \/ \E f \in Factory : AppliesLast(f) \/ AppliesCommitted(f)
<1>1. CASE \/ \E f \in Factory, orders \in 1 .. MaxOrders : StartProgram(f, orders)
           \/ \E c \in Customers : CustomerThread(c)
           \/ \E f \in Factory : Crash(f)
           \/ Finished \/ UNCHANGED vars
  BY <1>1 DEF StartProgram, CustomerThread, Order, ShipRobot, Leave, Crash, Finished, vars, factoryVars
<1>2. ASSUME NEW f \in Factory, AdminThread(f)
      PROVE  UNCHANGED <<customer_record, committed_index>> \/ AppliesLast(f)
  BY <1>2, TakeOverApplies, CommitApplies
     DEF AdminThread, StayPrimary, BecomePrimary, TakeRequest, AppendLog, AppendFault,
         SendReplicationRequest, ReceiveReply, PeerFails, BrokenPipe, factoryVars
<1>3. ASSUME NEW g \in Factory, NEW f \in Factory, IfaThread(g, f)
      PROVE  UNCHANGED <<customer_record, committed_index>> \/ AppliesCommitted(g)
  BY <1>3, IfaApplies
     DEF IfaThread, ReceiveReplicationRequest, WriteLog, GapFault, SetLastIndex, factoryVars
<1> QED
  BY <1>1, <1>2, <1>3 DEF Next

LEMMA CommittedIncreases ==
  ASSUME IInv, [Next]_vars, NEW h \in Factory
  PROVE  committed_index'[h] >= committed_index[h]
<1>0. /\ committed_index \in [Factory -> Indices] /\ N \in Nat /\ last_index[target] = N - 1
      /\ committed_index[h] \in Int
  BY LogFacts DEF IInv, TypeOK, Indices
<1>1. CASE committed_index' = committed_index
  BY <1>0, <1>1
<1>2. ASSUME NEW f \in Factory, AppliesLast(f)
      PROVE  committed_index'[h] >= committed_index[h]
  <2>1. committed_index' = [committed_index EXCEPT ![f] = N - 1] /\ committed_index[f] = N - 2
    BY <1>0, <1>2 DEF AppliesLast, UpdateCusRecord
  <2> QED
    BY <1>0, <2>1
<1>3. ASSUME NEW f \in Factory, AppliesCommitted(f)
      PROVE  committed_index'[h] >= committed_index[h]
  <2>1. /\ committed_index' = [committed_index EXCEPT ![f] = N - 2]
        /\ committed_index[f] \in {N - 2, N - 3}
    BY <1>3 DEF AppliesCommitted
  <2> QED
    BY <1>0, <2>1
<1> QED
  BY <1>1, <1>2, <1>3, NextApplies

\* No step takes back what a factory has applied: a new primary applies one
\* entry more than it had, a backup the same again or one more.
THEOREM CommitsNeverRecede == Orderly => (Spec => CommitsAdvance)
<1> SUFFICES ASSUME Orderly PROVE Spec => CommitsAdvance
  OBVIOUS
<1>1. IInv /\ [Next]_vars => [\A f \in Factory : committed_index'[f] >= committed_index[f]]_vars
  BY CommittedIncreases
<1> QED
  BY <1>1, Invariance, PTL DEF Spec, CommitsAdvance

-----------------------------------------------------------------------------
(* The factories together are one log.                                     *)

\* Nothing of the abstract state changes.
LEMMA Stutter ==
  ASSUME UNCHANGED <<target, smr_log>>, Replicating(target)' <=> Replicating(target)
  PROVE  UNCHANGED Abstract!vars
BY DEF Abstract!vars, Log, Acknowledged, Replicating

LEMMA AdminImplements ==
  ASSUME IInv, NEW f \in Factory, AdminThread(f)
  PROVE  [Abstract!Next]_(Abstract!vars)
<1>0. admin \in [Factory -> AdminStates] /\ N \in Nat /\ Orders \subseteq Ops
  BY LogFacts DEF IInv, TypeOK
<1>1. CASE StayPrimary(f) \/ TakeOver(f) \/ BecomePrimary(f) \/ TakeRequest(f)
  <2>1. /\ UNCHANGED <<target, smr_log>> /\ admin[f].pc \in {"idle", "takeover", "connect"}
        /\ admin'[f].pc \in {"takeover", "connect", "append"}
        /\ up[f]
    BY <1>0, <1>1 DEF StayPrimary, TakeOver, BecomePrimary, TakeRequest, AdminStates, factoryVars, clientVars
  <2>2. f = target
    BY <1>1, <2>1, WorkerIsTarget, IInvIsTyped DEF StayPrimary, TakeOver, BecomePrimary, TakeRequest
  <2> QED
    BY <2>1, <2>2, Stutter DEF Replicating
<1>2. CASE SendReplicationRequest(f) \/ ReceiveReply(f) \/ PeerFails(f)
  <2>1. /\ UNCHANGED <<target, smr_log>> /\ admin[f].pc \in {"replicate", "wait"}
        /\ admin'[f].pc \in {"replicate", "wait"} /\ up[f]
    BY <1>0, <1>2 DEF SendReplicationRequest, ReceiveReply, PeerFails, AdminStates, factoryVars, clientVars
  <2>2. f = target
    BY <2>1, WorkerIsTarget, IInvIsTyped
  <2> QED
    BY <2>1, <2>2, Stutter DEF Replicating
<1>3. CASE AppendFault(f) \/ BrokenPipe(f)
  BY <1>3, Stutter DEF AppendFault, BrokenPipe, factoryVars, clientVars, adminVars, Replicating
<1>4. CASE AppendLog(f)
  <2> DEFINE op == [cid |-> admin[f].cust, num |-> customer[admin[f].cust].num]
  <2>1. f = target /\ ~ LogIsAhead(f) /\ op \in Orders /\ admin[f].pc = "append"
    BY <1>4, AppendLogAppends, RequestIsOrder, IInvIsTyped DEF AppendLog
  <2>2. smr_log' = [smr_log EXCEPT ![f] = Append(@, op)] /\ target' = target
    BY <1>4, <2>1 DEF AppendLog, clientVars
  <2>3. admin'[f].pc = "replicate"
    BY <1>0, <1>4 DEF AppendLog, AdminStates
  <2> HIDE DEF op
  <2>4. smr_log'[f] = Append(smr_log[f], op) /\ smr_log[f] \in Seq(Orders)
    BY <2>1, <2>2, LogFacts DEF IInv, TypeOK
  <2>5. Len(smr_log'[f]) = N + 1
    BY <2>1, <2>4, AppendFacts DEF N
  <2>6. Acknowledged(target) = N /\ Acknowledged(target)' = N /\ Len(Log(target)) = N
    BY <1>0, <2>1, <2>2, <2>3, <2>5 DEF Acknowledged, Log, N
  <2>7. Log(target)' = Append(Log(target), op)
    BY <2>1, <2>2, <2>4 DEF Log
  <2>8. Abstract!Add(op) /\ op \in Ops
    BY <1>0, <2>1, <2>6, <2>7 DEF Abstract!Add
  <2> QED
    BY <2>8 DEF Abstract!Next
<1>5. CASE Commit(f)
  <2>1. /\ f = target /\ UNCHANGED <<target, smr_log>> /\ admin[f].pc = "replicate"
        /\ admin'[f].pc = "idle"
    BY <1>0, <1>5, WorkerIsTarget, IInvIsTyped DEF Commit, IdleAdmin
  <2>2. N > 0 /\ Len(Log(target)) = N
    BY <2>1 DEF IInv, Inv, LogInv, Replicating, Log, N
  <2>3. Acknowledged(target) = N - 1 /\ Acknowledged(target)' = N /\ Log(target)' = Log(target)
    BY <1>0, <2>1, <2>2 DEF Acknowledged, Log
  <2> QED
    BY <1>0, <2>2, <2>3 DEF Abstract!Next, Abstract!Acknowledge
<1> QED
  BY <1>1, <1>2, <1>3, <1>4, <1>5 DEF AdminThread

LEMMA StartProgramImplements ==
  ASSUME IInv, NEW f \in Factory, NEW orders \in 1 .. MaxOrders, StartProgram(f, orders)
  PROVE  [Abstract!Next]_(Abstract!vars)
<1>0. N \in Nat /\ target \in Factory
  BY LogFacts
<1>1. /\ admin[f].pc = "idle" /\ target' = f /\ f \in Live /\ UNCHANGED <<smr_log, admin>>
      /\ \A g \in Live : admin[g].pc = "idle"
  BY AllIdle, IInvIsTyped DEF StartProgram, adminVars, factoryVars, Live
<1>2. ~ up[target] \/ ~ Replicating(target)
  BY <1>0, <1>1 DEF Live, Replicating
<1>3. smr_log[f] = smr_log[target] /\ Len(smr_log[f]) = N
  BY <1>1, <1>2, LogsEqual
<1>4. Log(target)' = Log(target) /\ Len(Log(target)) = N /\ Acknowledged(target)' = N
  BY <1>0, <1>1, <1>3 DEF Log, Acknowledged
<1>5. CASE up[target]
  <2>1. Acknowledged(target) = N
    BY <1>0, <1>2, <1>4, <1>5 DEF Acknowledged, Replicating
  <2> QED
    BY <1>4, <2>1 DEF Abstract!vars
<1>6. CASE ~ up[target]
  <2>1. Replicating(target)
    BY <1>6 DEF IInv, Inv, StubInv, Replicating
  <2>2. N > 0 /\ Acknowledged(target) = N - 1
    BY <1>0, <1>4, <2>1 DEF IInv, Inv, LogInv, Acknowledged, Replicating
  <2> QED
    BY <1>0, <1>4, <2>2 DEF Abstract!Next, Abstract!Acknowledge
<1> QED
  BY <1>5, <1>6

LEMMA IfaImplements ==
  ASSUME IInv, NEW g \in Factory, NEW f \in Factory, IfaThread(g, f)
  PROVE  UNCHANGED Abstract!vars
<1>0. smr_log \in [Factory -> Seq(Ops)] /\ target \in Factory
  BY LogFacts DEF IInv, TypeOK
<1>1. g # target
  BY ServedIsTarget
     DEF IfaThread, ReceiveReplicationRequest, WriteLog, GapFault, SetLastIndex, ApplyCommitted
<1>2. UNCHANGED <<admin, target>> /\ smr_log'[target] = smr_log[target]
  BY <1>0, <1>1
     DEF IfaThread, ReceiveReplicationRequest, WriteLog, GapFault, SetLastIndex, ApplyCommitted,
         factoryVars, adminVars, clientVars
<1> QED
  BY <1>2 DEF Abstract!vars, Log, Acknowledged

\* The factories together are one log: the log of the factory that serves the
\* running program, of which all is acknowledged but what its admin replicates.
\* When that factory died, the next one starts with what it left.
THEOREM FactoriesAreOneLog == Orderly => (Spec => ImplementsOneLog)
<1> SUFFICES ASSUME Orderly PROVE Spec => ImplementsOneLog
  OBVIOUS
<1>1. Init => Abstract!Init
  <2> SUFFICES ASSUME Init PROVE Abstract!Init
    OBVIOUS
  <2>1. target \in Factory
    BY FactoryAssumption DEF Init
  <2>2. Log(target) = <<>> /\ admin[target].pc = "idle"
    BY <2>1 DEF Init, Log, IdleAdmin
  <2>3. Acknowledged(target) = 0
    BY <2>2 DEF Acknowledged
  <2> QED
    BY <2>2, <2>3 DEF Abstract!Init
<1>2. ASSUME IInv, [Next]_vars
      PROVE  [Abstract!Next]_(Abstract!vars)
  <2>1. CASE \/ \E c \in Customers : CustomerThread(c)
             \/ \E f \in Factory : Crash(f)
             \/ Finished \/ UNCHANGED vars
    <3>1. UNCHANGED <<target, smr_log, admin>>
      BY <2>1 DEF CustomerThread, Order, ShipRobot, Leave, Crash, Finished, vars,
                  factoryVars, adminVars, clientVars
    <3> QED
      BY <3>1, Stutter DEF Replicating
  <2> QED
    BY <1>2, <2>1, AdminImplements, StartProgramImplements, IfaImplements DEF Next
<1> QED
  BY <1>1, <1>2, Invariance, PTL DEF Spec, ImplementsOneLog, Abstract!Spec

-----------------------------------------------------------------------------
(* The records.                                                            *)

\* r is what the first n operations of a log leave for customer c.
IsReplay(log, c, n, r) ==
  \/ r = NoRecord /\ \A i \in 1 .. n : log[i].cid # c
  \/ \E i \in 1 .. n : /\ log[i].cid = c /\ log[i].num = r
                       /\ \A j \in i + 1 .. n : log[j].cid # c

\* Only the first n operations count.
LEMMA ReplayFrame ==
  ASSUME NEW n \in Nat, NEW log, NEW log2, \A i \in 1 .. n : log2[i] = log[i],
         NEW c, NEW r, IsReplay(log, c, n, r)
  PROVE  IsReplay(log2, c, n, r)
<1>1. CASE r = NoRecord /\ \A i \in 1 .. n : log[i].cid # c
  BY <1>1 DEF IsReplay
<1>2. ASSUME NEW i \in 1 .. n, log[i].cid = c, log[i].num = r,
             \A j \in i + 1 .. n : log[j].cid # c
      PROVE  IsReplay(log2, c, n, r)
  <2>1. log2[i].cid = c /\ log2[i].num = r
    BY <1>2
  <2>2. \A j \in i + 1 .. n : log2[j].cid # c
    BY <1>2
  <2> QED
    BY <2>1, <2>2 DEF IsReplay
<1> QED
  BY <1>1, <1>2 DEF IsReplay

\* One operation more, or the last one once more.
LEMMA ReplayStep ==
  ASSUME NEW n \in Nat \ {0}, NEW m \in {n - 1, n}, NEW log, NEW c, NEW r, IsReplay(log, c, m, r)
  PROVE  IsReplay(log, c, n, IF log[n].cid = c THEN log[n].num ELSE r)
<1>1. CASE log[n].cid = c
  <2>1. n \in 1 .. n /\ \A j \in n + 1 .. n : log[j].cid # c
    OBVIOUS
  <2>2. IsReplay(log, c, n, log[n].num)
    BY <1>1, <2>1 DEF IsReplay
  <2> QED
    BY <1>1, <2>2
<1>2. CASE log[n].cid # c
  <2>1. CASE r = NoRecord /\ \A i \in 1 .. m : log[i].cid # c
    <3>1. \A i \in 1 .. n : log[i].cid # c
      BY <1>2, <2>1
    <3> QED
      BY <1>2, <2>1, <3>1 DEF IsReplay
  <2>2. ASSUME NEW i \in 1 .. m, log[i].cid = c, log[i].num = r,
               \A j \in i + 1 .. m : log[j].cid # c
        PROVE  IsReplay(log, c, n, r)
    <3>1. i \in 1 .. n /\ \A j \in i + 1 .. n : log[j].cid # c
      BY <1>2, <2>2
    <3> QED
      BY <2>2, <3>1 DEF IsReplay
  <2> QED
    BY <1>2, <2>1, <2>2 DEF IsReplay
<1> QED
  BY <1>1, <1>2

\* Replayed(f, c, n), with indices that count from 0, is such an r.
LEMMA ReplayedIs ==
  ASSUME IInv, NEW f \in Live, NEW c \in Customers, NEW n \in Indices, n < Len(smr_log[f]),
         NEW r, IsReplay(smr_log[f], c, n + 1, r)
  PROVE  Replayed(f, c, n) = r
<1> DEFINE mine == {i \in 0 .. n : Entry(f, i).cid = c}
<1>0. n \in Int /\ Len(smr_log[f]) \in Nat
  BY LogFacts DEF Indices
<1>1. \A i \in 0 .. n : Entry(f, i) = smr_log[f][i + 1]
  BY <1>0, EntryIsOrder
<1>2. CASE r = NoRecord /\ \A i \in 1 .. n + 1 : smr_log[f][i].cid # c
  <2>1. mine = {}
    BY <1>0, <1>1, <1>2
  <2> QED
    BY <1>2, <2>1 DEF Replayed
<1>3. ASSUME NEW k \in 1 .. n + 1, smr_log[f][k].cid = c, smr_log[f][k].num = r,
             \A j \in k + 1 .. n + 1 : smr_log[f][j].cid # c
      PROVE  Replayed(f, c, n) = r
  <2>1. k - 1 \in 0 .. n /\ k - 1 + 1 = k
    BY <1>0
  <2>2. k - 1 \in mine /\ Entry(f, k - 1).num = r
    BY <1>1, <1>3, <2>1
  <2>3. \A j \in mine : j <= k - 1
    <3>1. ASSUME NEW j \in mine, ~ (j <= k - 1) PROVE FALSE
      <4>1. j + 1 \in k + 1 .. n + 1 /\ j \in 0 .. n
        BY <1>0, <3>1
      <4> QED
        BY <1>1, <1>3, <3>1, <4>1
    <3> QED
      BY <3>1
  <2>4. \A i \in mine : (\A j \in mine : j <= i) => i = k - 1
    BY <1>0, <2>2, <2>3
  <2>5. (CHOOSE i \in mine : \A j \in mine : j <= i) = k - 1
    BY <2>2, <2>3, <2>4
  <2>6. mine # {}
    BY <2>2
  <2>7. Replayed(f, c, n) =
          IF mine = {} THEN NoRecord ELSE Entry(f, CHOOSE i \in mine : \A j \in mine : j <= i).num
    BY DEF Replayed
  <2> QED
    BY <2>2, <2>5, <2>6, <2>7
<1> QED
  BY <1>2, <1>3 DEF IsReplay

\* The records replay the log; what was made is recorded.
RecordInv ==
  \A f \in Live, c \in Customers :
    IsReplay(smr_log[f], c, committed_index[f] + 1, customer_record[f][c])
MadeInv ==
  up[target] => \A c \in Customers :
    customer[c].pc = "made" => customer_record[target][c] = customer[c].num

\* An operation applied to the records of a factory.
LEMMA RecordChanges ==
  ASSUME TypeOK, NEW f \in Factory, NEW op, op \in Orders,
         customer_record' = [customer_record EXCEPT ![f][op.cid] = op.num]
  PROVE  /\ \A c \in Customers : customer_record'[f][c] =
                                 IF op.cid = c THEN op.num ELSE customer_record[f][c]
         /\ \A g \in Factory \ {f} : customer_record'[g] = customer_record[g]
<1>1. customer_record \in [Factory -> [Keys -> {NoRecord, MapOp.num} \cup 1 .. MaxOrders]]
  BY DEF TypeOK
<1>2. op.cid \in Customers /\ Customers \subseteq Keys
  BY DEF Orders, Keys
<1>3. customer_record[f] \in [Keys -> {NoRecord, MapOp.num} \cup 1 .. MaxOrders]
  BY <1>1
<1>4. customer_record'[f] = [customer_record[f] EXCEPT ![op.cid] = op.num]
  BY <1>1
<1>5. \A c \in Customers : customer_record'[f][c] =
                           IF op.cid = c THEN op.num ELSE customer_record[f][c]
  BY <1>2, <1>3, <1>4
<1> QED
  BY <1>1, <1>5

\* What the primary applies.
LEMMA LastChanges ==
  ASSUME IInv, NEW f \in Factory, AppliesLast(f)
  PROVE  /\ smr_log[f][N] \in Orders /\ f \in Live
         /\ \A c \in Customers : customer_record'[f][c] =
              IF smr_log[f][N].cid = c THEN smr_log[f][N].num ELSE customer_record[f][c]
         /\ \A g \in Factory \ {f} : /\ customer_record'[g] = customer_record[g]
                                     /\ committed_index'[g] = committed_index[g]
         /\ committed_index'[f] = N - 1
<1>1. f = target /\ up[target] /\ N > 0 /\ UpdateCusRecord(f) /\ f \in Live
  BY DEF AppliesLast, Live
<1>2. /\ Entry(f, last_index[f]) = smr_log[f][N] /\ smr_log[f][N] \in Orders
      /\ last_index[f] = N - 1
  BY <1>1, LastEntry
<1> DEFINE op == smr_log[f][N]
<1>3. /\ customer_record' = [customer_record EXCEPT ![f][op.cid] = op.num]
      /\ committed_index' = [committed_index EXCEPT ![f] = N - 1]
  BY <1>1, <1>2 DEF UpdateCusRecord
<1>4. TypeOK /\ op \in Orders
  BY <1>2 DEF IInv
<1>5. committed_index \in [Factory -> Indices]
  BY <1>4 DEF TypeOK
<1>6. /\ \A c \in Customers : customer_record'[f][c] =
                                 IF op.cid = c THEN op.num ELSE customer_record[f][c]
      /\ \A g \in Factory \ {f} : customer_record'[g] = customer_record[g]
  <2> HIDE DEF op
  <2> QED
    BY <1>3, <1>4, RecordChanges
<1> QED
  BY <1>1, <1>2, <1>3, <1>5, <1>6

\* What a backup applies.
LEMMA CommittedChanges ==
  ASSUME IInv, NEW f \in Factory, AppliesCommitted(f)
  PROVE  /\ smr_log[f][N - 1] \in Orders /\ f \in Live /\ f # target
         /\ \A c \in Customers : customer_record'[f][c] =
              IF smr_log[f][N - 1].cid = c THEN smr_log[f][N - 1].num ELSE customer_record[f][c]
         /\ \A g \in Factory \ {f} : /\ customer_record'[g] = customer_record[g]
                                     /\ committed_index'[g] = committed_index[g]
         /\ committed_index'[f] = N - 2
<1> DEFINE op == smr_log[f][N - 1]
<1>1. /\ smr_log[f] = smr_log[target] /\ smr_log[target][N - 1] \in Orders /\ f \in Live
      /\ f # target
  BY DEF AppliesCommitted, Live
<1>2. op \in Orders
  BY <1>1
<1>3. /\ customer_record' = [customer_record EXCEPT ![f][op.cid] = op.num]
      /\ committed_index' = [committed_index EXCEPT ![f] = N - 2]
  BY <1>1 DEF AppliesCommitted
<1>4. TypeOK /\ committed_index \in [Factory -> Indices]
  BY DEF IInv, TypeOK
<1>5. /\ \A c \in Customers : customer_record'[f][c] =
                                 IF op.cid = c THEN op.num ELSE customer_record[f][c]
      /\ \A g \in Factory \ {f} : customer_record'[g] = customer_record[g]
  <2> HIDE DEF op
  <2> QED
    BY <1>2, <1>3, <1>4, RecordChanges
<1> QED
  BY <1>1, <1>2, <1>3, <1>4, <1>5

\* A log only grows, and a step that applies something writes no log.
LEMMA LogsGrow ==
  ASSUME IInv, [Next]_vars, NEW f \in Live
  PROVE  \A i \in 1 .. Len(smr_log[f]) : smr_log'[f][i] = smr_log[f][i]
<1>0. smr_log \in [Factory -> Seq(Ops)] /\ f \in Factory
  BY DEF IInv, TypeOK, Live
<1>1. CASE smr_log'[f] = smr_log[f]
  BY <1>1
<1>2. ASSUME NEW g \in Factory, AppendLog(g), g = f
      PROVE  \A i \in 1 .. Len(smr_log[f]) : smr_log'[f][i] = smr_log[f][i]
  <2> DEFINE op == [cid |-> admin[f].cust, num |-> customer[admin[f].cust].num]
  <2>1. f = target /\ ~ LogIsAhead(f) /\ op \in Orders
    BY <1>2, AppendLogAppends, RequestIsOrder, IInvIsTyped DEF AppendLog
  <2>2. smr_log' = [smr_log EXCEPT ![f] = Append(@, op)]
    BY <1>2, <2>1 DEF AppendLog
  <2> HIDE DEF op
  <2>3. smr_log'[f] = Append(smr_log[f], op) /\ smr_log[f] \in Seq(Orders)
    BY <1>0, <2>1, <2>2, LogFacts
  <2> QED
    BY <2>1, <2>3, AppendFacts
<1>3. ASSUME NEW g \in Factory, NEW h \in Factory, WriteLog(g, h), g = f
      PROVE  \A i \in 1 .. Len(smr_log[f]) : smr_log'[f][i] = smr_log[f][i]
  <2>1. smr_log'[f] = smr_log[target]
    BY <1>0, <1>3, WriteLogStores
  <2> QED
    BY <2>1, LiveLogs
<1>4. CASE \/ \E g \in Factory, orders \in 1 .. MaxOrders : StartProgram(g, orders)
           \/ \E c \in Customers : CustomerThread(c)
           \/ \E g \in Factory : Crash(g)
           \/ Finished \/ UNCHANGED vars
  BY <1>1, <1>4 DEF StartProgram, CustomerThread, Order, ShipRobot, Leave, Crash, Finished, vars, factoryVars
<1>5. ASSUME NEW g \in Factory, AdminThread(g), ~ (AppendLog(g) /\ g = f)
      PROVE  smr_log'[f] = smr_log[f]
  <2>1. CASE AppendLog(g)
    BY <1>0, <1>5, <2>1 DEF AppendLog
  <2>2. CASE ~ AppendLog(g)
    BY <1>5, <2>2
       DEF AdminThread, StayPrimary, TakeOver, BecomePrimary, TakeRequest, AppendFault, Commit,
           SendReplicationRequest, ReceiveReply, PeerFails, BrokenPipe, factoryVars
  <2> QED
    BY <2>1, <2>2
<1>6. ASSUME NEW g \in Factory, NEW h \in Factory, IfaThread(g, h), ~ (WriteLog(g, h) /\ g = f)
      PROVE  smr_log'[f] = smr_log[f]
  <2>1. CASE WriteLog(g, h)
    BY <1>0, <1>6, <2>1 DEF WriteLog
  <2>2. CASE ~ WriteLog(g, h)
    BY <1>6, <2>2
       DEF IfaThread, ReceiveReplicationRequest, GapFault, SetLastIndex, ApplyCommitted, factoryVars
  <2> QED
    BY <2>1, <2>2
<1> QED
  BY <1>1, <1>2, <1>3, <1>4, <1>5, <1>6 DEF Next

\* Nobody comes to life.
LEMMA NobodyRises ==
  ASSUME IInv, [Next]_vars, NEW f \in Live'
  PROVE  f \in Live
<1>1. up \in [Factory -> BOOLEAN] /\ f \in Factory /\ up'[f]
  BY DEF IInv, TypeOK, Live
<1>2. CASE \/ \E g \in Factory, orders \in 1 .. MaxOrders : StartProgram(g, orders)
           \/ \E c \in Customers : CustomerThread(c)
           \/ \E g \in Factory : Crash(g)
           \/ Finished \/ UNCHANGED vars
  BY <1>1, <1>2 DEF StartProgram, CustomerThread, Order, ShipRobot, Leave, Crash, Finished, vars, Live
<1>3. ASSUME NEW g \in Factory, AdminThread(g)
      PROVE  f \in Live
  BY <1>1, <1>3
     DEF AdminThread, StayPrimary, TakeOver, BecomePrimary, TakeRequest, AppendLog, AppendFault, Commit,
         SendReplicationRequest, ReceiveReply, PeerFails, BrokenPipe, Live
<1>4. ASSUME NEW g \in Factory, NEW h \in Factory, IfaThread(g, h)
      PROVE  f \in Live
  BY <1>1, <1>4
     DEF IfaThread, ReceiveReplicationRequest, WriteLog, GapFault, SetLastIndex, ApplyCommitted, Live
<1> QED
  BY <1>2, <1>3, <1>4 DEF Next

LEMMA NextRecordInv == IInv /\ RecordInv /\ [Next]_vars => RecordInv'
<1> SUFFICES ASSUME IInv, RecordInv, [Next]_vars, NEW f \in Live', NEW c \in Customers
             PROVE  IsReplay(smr_log'[f], c, committed_index'[f] + 1, customer_record'[f][c])
  BY DEF RecordInv
<1>0. /\ f \in Live /\ f \in Factory /\ committed_index[f] \in Indices
      /\ committed_index[f] < Len(smr_log[f]) /\ Len(smr_log[f]) \in Nat /\ N \in Nat
  BY NobodyRises, CommittedFacts, LogFacts DEF Live
<1> DEFINE n == committed_index[f] + 1
<1>1. IsReplay(smr_log[f], c, n, customer_record[f][c]) /\ n \in Nat
  BY <1>0 DEF RecordInv, Indices
<1>2. \A i \in 1 .. Len(smr_log[f]) : smr_log'[f][i] = smr_log[f][i]
  BY <1>0, LogsGrow
<1>3. ASSUME NEW m \in Nat, m <= Len(smr_log[f]), NEW r, IsReplay(smr_log[f], c, m, r)
      PROVE  IsReplay(smr_log'[f], c, m, r)
  <2>1. \A i \in 1 .. m : smr_log'[f][i] = smr_log[f][i]
    BY <1>0, <1>2, <1>3
  <2> QED
    BY <1>3, <2>1, ReplayFrame
<1>4. CASE UNCHANGED <<customer_record[f], committed_index[f]>>
  <2>1. n <= Len(smr_log[f])
    BY <1>0, <1>1 DEF Indices
  <2> QED
    BY <1>1, <1>3, <1>4, <2>1
<1>5. ASSUME NEW m \in Nat \ {0}, m <= Len(smr_log[f]), n \in {m - 1, m},
             customer_record'[f][c] =
               IF smr_log[f][m].cid = c THEN smr_log[f][m].num ELSE customer_record[f][c],
             committed_index'[f] = m - 1
      PROVE  IsReplay(smr_log'[f], c, committed_index'[f] + 1, customer_record'[f][c])
  <2>1. IsReplay(smr_log[f], c, m, customer_record'[f][c])
    <3> HIDE DEF n
    <3> QED
      BY <1>1, <1>5, ReplayStep
  <2>2. committed_index'[f] + 1 = m
    BY <1>5
  <2> QED
    BY <1>3, <1>5, <2>1, <2>2
<1> HIDE DEF n
<1>6. ASSUME NEW g \in Factory, AppliesLast(g)
      PROVE  IsReplay(smr_log'[f], c, committed_index'[f] + 1, customer_record'[f][c])
  <2>1. CASE g # f
    BY <1>0, <1>4, <1>6, <2>1, LastChanges
  <2>2. CASE g = f
    <3>1. Len(smr_log[f]) = N /\ N > 0 /\ committed_index[f] = N - 2
      BY <1>6, <2>2 DEF AppliesLast, N
    <3>2. N \in Nat \ {0} /\ n \in {N - 1, N}
      BY <1>0, <3>1 DEF n
    <3> QED
      BY <1>0, <1>5, <1>6, <2>2, <3>1, <3>2, LastChanges
  <2> QED
    BY <2>1, <2>2
<1>7. ASSUME NEW g \in Factory, AppliesCommitted(g)
      PROVE  IsReplay(smr_log'[f], c, committed_index'[f] + 1, customer_record'[f][c])
  <2>1. CASE g # f
    BY <1>0, <1>4, <1>7, <2>1, CommittedChanges
  <2>2. CASE g = f
    <3> DEFINE m == N - 1
    <3>1. Len(smr_log[f]) = N /\ N > 1 /\ committed_index[f] \in {N - 2, N - 3}
      BY <1>7, <2>2 DEF AppliesCommitted, N
    <3>2. m \in Nat \ {0} /\ n \in {m - 1, m} /\ m <= Len(smr_log[f])
      BY <1>0, <3>1 DEF n
    <3>3. /\ customer_record'[f][c] =
               IF smr_log[f][m].cid = c THEN smr_log[f][m].num ELSE customer_record[f][c]
          /\ committed_index'[f] = N - 2
      BY <1>7, <2>2, CommittedChanges
    <3>4. committed_index'[f] = m - 1
      BY <1>0, <3>3
    <3> HIDE DEF m
    <3> QED
      BY <1>5, <3>2, <3>3, <3>4
  <2> QED
    BY <2>1, <2>2
<1> QED
  BY <1>4, <1>6, <1>7, NextApplies

LEMMA InitRecordInv == Init => RecordInv /\ MadeInv
<1> SUFFICES ASSUME Init PROVE RecordInv /\ MadeInv
  OBVIOUS
<1>1. \A f \in Live, c \in Customers : customer_record[f][c] = NoRecord /\ committed_index[f] + 1 = 0
  BY DEF Init, Live, Keys
<1>2. RecordInv
  BY <1>1 DEF RecordInv, IsReplay
<1> QED
  BY <1>2 DEF Init, MadeInv

\* The records of every live factory are the replay of its log, as far as it
\* has applied it, although each step applies one entry.
THEOREM RecordsReplayLogs == Orderly => (Spec => []RecordIsReplay)
<1> SUFFICES ASSUME Orderly PROVE Spec => []RecordIsReplay
  OBVIOUS
<1>1. Init => RecordInv
  BY InitRecordInv
<1>2. IInv /\ RecordInv /\ [Next]_vars => RecordInv'
  BY NextRecordInv
<1>3. IInv /\ RecordInv => RecordIsReplay
  <2> SUFFICES ASSUME IInv, RecordInv, NEW f \in Live, NEW c \in Customers
               PROVE  customer_record[f][c] = Replayed(f, c, committed_index[f])
    BY DEF RecordIsReplay
  <2>1. committed_index[f] \in Indices /\ committed_index[f] < Len(smr_log[f])
    BY CommittedFacts
  <2>2. IsReplay(smr_log[f], c, committed_index[f] + 1, customer_record[f][c])
    BY DEF RecordInv
  <2> QED
    BY <2>1, <2>2, ReplayedIs
<1> QED
  BY <1>1, <1>2, <1>3, Invariance, PTL DEF Spec

\* The order that Commit has made is the target's last entry.
LEMMA CommitMakes ==
  ASSUME IInv, NEW f \in Factory, Commit(f), NEW c \in Customers, customer'[c].pc = "made",
         MadeInv
  PROVE  customer_record'[f][c] = customer'[c].num
<1>1. f = target /\ up[f] /\ admin[f].pc = "replicate" /\ Replicating(target) /\ Busy(target)
  BY WorkerIsTarget, IInvIsTyped DEF Commit, Replicating, Busy
<1> DEFINE d == admin[f].cust
<1>2. smr_log[f][N] = [cid |-> d, num |-> customer[d].num] /\ d \in Customers
  BY <1>1 DEF IInv, Inv, CallInv, QueueInv
<1>3. \A e \in Customers : customer_record'[f][e] =
         IF smr_log[f][N].cid = e THEN smr_log[f][N].num ELSE customer_record[f][e]
  BY CommitApplies, LastChanges
<1>4. customer' = [customer EXCEPT ![d].pc = "made"]
  BY DEF Commit
<1>5. customer'[c].num = customer[c].num /\ (c # d => customer'[c] = customer[c])
  BY <1>4 DEF IInv, TypeOK
<1> HIDE DEF d
<1>6. CASE c = d
  BY <1>2, <1>3, <1>5, <1>6
<1>7. CASE c # d
  BY <1>1, <1>2, <1>3, <1>5, <1>7 DEF MadeInv
<1> QED
  BY <1>6, <1>7

\* Steps that leave the target's records and make nobody happy.
LEMMA FrameMadeInv ==
  ASSUME MadeInv, target' = target, up'[target] => up[target],
         customer_record'[target] = customer_record[target],
         \A c \in Customers : customer'[c].pc = "made" => customer'[c] = customer[c]
  PROVE  MadeInv'
BY DEF MadeInv

LEMMA NextMadeInv == IInv /\ MadeInv /\ [Next]_vars => MadeInv'
<1> SUFFICES ASSUME IInv, MadeInv, [Next]_vars PROVE MadeInv'
  OBVIOUS
<1>0. /\ customer \in [Customers ->
           [pc : {"ready", "waiting", "made", "stopped"}, num : 0 .. MaxOrders]]
      /\ target \in Factory
  BY LogFacts DEF IInv, TypeOK
<1>a. up'[target] => up[target]
  BY <1>0, NobodyRises DEF Live
<1>1. ASSUME NEW f \in Factory, NEW orders \in 1 .. MaxOrders, StartProgram(f, orders)
      PROVE  MadeInv'
  BY <1>1 DEF StartProgram, MadeInv
<1>2. ASSUME NEW c \in Customers, CustomerThread(c)
      PROVE  MadeInv'
  <2>1. UNCHANGED <<target, customer_record>>
    BY <1>2 DEF CustomerThread, Order, ShipRobot, Leave, factoryVars
  <2>2. \A d \in Customers : customer'[d].pc = "made" => customer'[d] = customer[d]
    BY <1>0, <1>2 DEF CustomerThread, Order, ShipRobot, Leave
  <2> QED
    BY <1>a, <2>1, <2>2, FrameMadeInv
<1>3. ASSUME NEW f \in Factory, Commit(f)
      PROVE  MadeInv'
  <2>1. f = target /\ target' = target
    BY <1>3, WorkerIsTarget, IInvIsTyped DEF Commit
  <2> QED
    BY <1>3, <2>1, CommitMakes DEF MadeInv
<1>4. ASSUME NEW f \in Factory, TakeOver(f)
      PROVE  MadeInv'
  <2>1. /\ f = target /\ up[target] /\ primary_id[target] # target
        /\ UNCHANGED <<target, customer>>
    BY <1>4, TakeOverUpdates DEF TakeOver, clientVars
  <2>2. ~ Answered
    BY <2>1 DEF IInv, Inv, CommitInv
  <2>3. ASSUME NEW c \in Customers, customer[c].pc = "made" PROVE FALSE
    <3>1. customer[c].num >= 1
      BY <2>3 DEF IInv, Inv, QueueInv
    <3> QED
      BY <1>0, <2>2, <2>3, <3>1 DEF Answered
  <2> QED
    BY <2>1, <2>3 DEF MadeInv
<1>5. ASSUME NEW f \in Factory, AdminThread(f), ~ Commit(f), ~ TakeOver(f)
      PROVE  MadeInv'
  <2>1. UNCHANGED <<target, customer, customer_record>>
    BY <1>5
       DEF AdminThread, StayPrimary, BecomePrimary, TakeRequest, AppendLog, AppendFault,
           SendReplicationRequest, ReceiveReply, PeerFails, BrokenPipe, factoryVars, clientVars
  <2> QED
    BY <1>a, <2>1, FrameMadeInv
<1>6. ASSUME NEW g \in Factory, NEW f \in Factory, IfaThread(g, f)
      PROVE  MadeInv'
  <2>1. UNCHANGED <<target, customer>>
    BY <1>6 DEF IfaThread, ReceiveReplicationRequest, WriteLog, GapFault, SetLastIndex,
                ApplyCommitted, clientVars
  <2>2. customer_record'[target] = customer_record[target]
    <3>1. CASE ApplyCommitted(g, f)
      <4>1. UNCHANGED customer_record \/ (AppliesCommitted(g) /\ g # target)
        BY <3>1, IfaApplies, CommittedChanges
      <4> QED
        BY <1>0, <4>1, CommittedChanges
    <3>2. CASE ~ ApplyCommitted(g, f)
      BY <1>6, <3>2 DEF IfaThread, ReceiveReplicationRequest, WriteLog, GapFault, SetLastIndex, factoryVars
    <3> QED
      BY <3>1, <3>2
  <2> QED
    BY <1>a, <2>1, <2>2, FrameMadeInv
<1>7. CASE (\E f \in Factory : Crash(f)) \/ Finished \/ UNCHANGED vars
  <2>1. UNCHANGED <<target, customer, customer_record>>
    BY <1>7 DEF Crash, Finished, vars, factoryVars, clientVars
  <2> QED
    BY <1>a, <2>1, FrameMadeInv
<1> QED
  BY <1>1, <1>2, <1>3, <1>4, <1>5, <1>6, <1>7 DEF Next

\* A robot that was made is in the record of the factory that made it: no
\* takeover and no backup's step comes between.
THEOREM MadeRobotsAreRecorded == Orderly => (Spec => []MadeIsRecorded)
<1> SUFFICES ASSUME Orderly PROVE Spec => []MadeIsRecorded
  OBVIOUS
<1>1. Init => MadeInv
  BY InitRecordInv
<1>2. IInv /\ MadeInv /\ [Next]_vars => MadeInv'
  BY NextMadeInv
<1>3. MadeInv => MadeIsRecorded
  BY DEF MadeInv, MadeIsRecorded
<1> QED
  BY <1>1, <1>2, <1>3, Invariance, PTL DEF Spec

-----------------------------------------------------------------------------
(* Indices.                                                                *)

\* Who appends has applied all that it has: with an id of its own, no primary
\* takes itself for another one, or another one for itself.
THEOREM LeadersHaveCommitted == Orderly => (Spec => []LeaderHasCommitted)
<1> SUFFICES ASSUME Orderly PROVE Spec => []LeaderHasCommitted
  OBVIOUS
<1>1. IInv => LeaderHasCommitted
  <2> SUFFICES ASSUME IInv, NEW f \in Live, admin[f].pc = "append"
               PROVE  committed_index[f] = last_index[f]
    BY DEF LeaderHasCommitted
  <2>1. f = target /\ ~ Replicating(target) /\ admin[target].pc = "append"
    BY WorkerIsTarget, IInvIsTyped DEF Live, Replicating
  <2>2. committed_index[f] = N - 1
    BY <2>1 DEF IInv, Inv, CommitInv
  <2> QED
    BY <2>1, <2>2, LogFacts
<1> QED
  BY <1>1, Invariance, PTL
=============================================================================
