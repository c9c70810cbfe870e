----------------------------- MODULE StubsProofs -----------------------------
(***************************************************************************)
(* Proofs about Wire, the message classes and Stubs: what one end of a     *)
(* connection marshals the other unmarshals, for every message of every    *)
(* class, and a server thread that reads the frames it expects cuts the    *)
(* bytes of a request where its caller joined them.                        *)
(***************************************************************************)
EXTENDS Stubs, SequenceTheorems, TLAPS

(* Arithmetic.                                                             *)

\* Division of a multiple and a remainder.
LEMMA DivModUnique ==
  ASSUME NEW n \in Nat \ {0}, NEW q \in Int, NEW m \in 0 .. n - 1
  PROVE  (n * q + m) \div n = q /\ (n * q + m) % n = m
<1> DEFINE a == n * q + m
<1>1. n * q \in Int /\ a \in Int
  OBVIOUS
<1>2. a = n * (a \div n) + (a % n) /\ a \div n \in Int /\ a % n \in 0 .. n - 1
  BY <1>1
<1>3. PICK p \in Int, k \in 0 .. n - 1 : p = a \div n /\ k = a % n
  BY <1>2
<1>4. n * q + m = n * p + k
  BY <1>2, <1>3
<1>5. \A x, y \in Int : x < y => n * y - n * x >= n
  <2> SUFFICES ASSUME NEW x \in Int, NEW y \in Int, x < y PROVE n * y - n * x >= n
    OBVIOUS
  <2>1. y - x - 1 \in Nat /\ n * (y - x - 1) >= 0
    OBVIOUS
  <2> QED
    BY <2>1
<1>6. ~(p < q) /\ ~(q < p)
  <2>1. p < q => n * q - n * p >= n
    BY <1>5
  <2>2. q < p => n * p - n * q >= n
    BY <1>5
  <2>3. n * q \in Int /\ n * p \in Int
    OBVIOUS
  <2> QED
    BY <1>4, <2>1, <2>2, <2>3
<1>7. p = q /\ k = m
  BY <1>4, <1>6
<1> QED
  BY <1>3, <1>7

\* htonl gives four bytes, of which ntohl makes the int again.
LEMMA IntBytes ==
  ASSUME NEW x \in Int32
  PROVE  /\ htonl(x) \in Seq(Byte) /\ Len(htonl(x)) = 4
         /\ \A i \in 1 .. 4 : htonl(x)[i] \in Byte
         /\ ntohl(htonl(x)) = x
<1> DEFINE b1 == (x \div 16777216) % 256
           b2 == (x \div 65536) % 256
           b3 == (x \div 256) % 256
           b4 == x % 256
<1>1. x \in Int /\ x >= -2147483648 /\ x <= 2147483647
  <2>1. INT_MIN \in Int /\ INT_MAX \in Int
    BY SMT DEF INT_MIN, INT_MAX
  <2>2. x \in Int /\ INT_MIN <= x /\ x <= INT_MAX
    BY <2>1 DEF Int32
  <2>3. INT_MIN = -2147483648 /\ INT_MAX = 2147483647
    BY SMT DEF INT_MIN, INT_MAX
  <2> QED
    BY <2>2, <2>3, SMT
<1>2. b1 \in 0 .. 255 /\ b2 \in 0 .. 255 /\ b3 \in 0 .. 255 /\ b4 \in 0 .. 255
  BY <1>1, SMT
<1>3. (IF b1 < 128 THEN b1 ELSE b1 - 256) * 16777216 + b2 * 65536 + b3 * 256 + b4 = x
  BY <1>1, SMT
<1>4. htonl(x) = <<b1, b2, b3, b4>>
  BY SMT DEF htonl
<1> HIDE DEF b1, b2, b3, b4
<1>5. /\ <<b1, b2, b3, b4>> \in Seq(Byte) /\ Len(<<b1, b2, b3, b4>>) = 4
      /\ <<b1, b2, b3, b4>>[1] = b1 /\ <<b1, b2, b3, b4>>[2] = b2
      /\ <<b1, b2, b3, b4>>[3] = b3 /\ <<b1, b2, b3, b4>>[4] = b4
  BY <1>2 DEF Byte
<1>6. \A i \in 1 .. 4 : htonl(x)[i] \in Byte
  BY <1>2, <1>4, <1>5 DEF Byte
<1>7. ntohl(htonl(x)) = x
  BY <1>3, <1>4, <1>5, SMT DEF ntohl
<1> QED
  BY <1>4, <1>5, <1>6, <1>7

-----------------------------------------------------------------------------
(* Buffers of ints.                                                        *)

\* u is s, of length p, and then t, of length q.
IsConcat(u, s, t, S, p, q) ==
  /\ u \in Seq(S) /\ Len(u) = p + q
  /\ \A k \in 1 .. p : u[k] = s[k]
  /\ \A k \in p + 1 .. p + q : u[k] = t[k - p]

LEMMA ConcatIs ==
  ASSUME NEW S, NEW s \in Seq(S), NEW t \in Seq(S), NEW p \in Nat, NEW q \in Nat,
         Len(s) = p, Len(t) = q
  PROVE  IsConcat(s \o t, s, t, S, p, q)
<1>1. /\ s \o t \in Seq(S) /\ Len(s \o t) = Len(s) + Len(t)
      /\ \A k \in 1 .. Len(s) + Len(t) :
           (s \o t)[k] = IF k <= Len(s) THEN s[k] ELSE t[k - Len(s)]
  BY ConcatProperties, Zenon
<1> QED
  BY <1>1 DEF IsConcat

\* A function on 1 .. n is a sequence of length n.
LEMMA FunctionIsSeq ==
  ASSUME NEW n \in Nat, NEW S, NEW f \in [1 .. n -> S]
  PROVE  f \in Seq(S) /\ Len(f) = n
OBVIOUS

\* L frames of n elements of S each, and a buffer that they fill.
AreFrames(frames, n, L, S) ==
  Len(frames) = L /\ \A j \in 1 .. L : \A i \in 1 .. n : frames[j][i] \in S

Fill(buffer, frames, n, L, S) ==
  /\ buffer \in Seq(S) /\ Len(buffer) = n * L
  /\ \A j \in 1 .. L : \A i \in 1 .. n : buffer[n * (j - 1) + i] = frames[j][i]

\* Joined puts element i of frame j at place n * (j - 1) + i.
LEMMA JoinedIs ==
  ASSUME NEW S, NEW n \in Nat \ {0}, NEW frames, NEW L \in Nat, AreFrames(frames, n, L, S)
  PROVE  Fill(Joined(frames, n), frames, n, L, S)
<1> USE DEF AreFrames
<1>1. n * L \in Nat
  OBVIOUS
<1>2. ASSUME NEW k \in 1 .. n * L
      PROVE  /\ (k - 1) \div n \in 0 .. L - 1 /\ (k - 1) % n \in 0 .. n - 1
             /\ frames[((k - 1) \div n) + 1][((k - 1) % n) + 1] \in S
  <2>1. k \in Int /\ k >= 1 /\ k <= n * L /\ k - 1 \in Int
    BY <1>1
  <2> DEFINE q == (k - 1) \div n
             m == (k - 1) % n
  <2>2. q \in Int /\ m \in 0 .. n - 1
    BY <2>1
  <2>3. k - 1 = n * q + m
    BY <2>1
  <2> HIDE DEF q, m
  <2>4. n * q \in Int
    BY <2>2
  <2>5. q >= 0
    <3> SUFFICES ASSUME q <= -1 PROVE FALSE
      BY <2>2
    <3>1. n * (-1 - q) >= 0
      BY <2>2
    <3>2. n * q <= -n
      BY <2>2, <3>1
    <3> QED
      BY <2>1, <2>2, <2>3, <2>4, <3>2
  <2>6. q < L
    <3> SUFFICES ASSUME q >= L PROVE FALSE
      BY <2>2
    <3>1. n * (q - L) >= 0
      BY <2>2
    <3>2. n * q >= n * L
      BY <2>2, <3>1
    <3> QED
      BY <1>1, <2>1, <2>2, <2>3, <2>4, <3>2
  <2>7. q + 1 \in 1 .. L /\ m + 1 \in 1 .. n /\ q \in 0 .. L - 1
    BY <2>2, <2>5, <2>6
  <2> QED
    BY <2>2, <2>7 DEF q, m
<1>3. Joined(frames, n) \in [1 .. n * L -> S]
  BY <1>2 DEF Joined
<1>4. Joined(frames, n) \in Seq(S) /\ Len(Joined(frames, n)) = n * L
  BY <1>1, <1>3, FunctionIsSeq
<1>5. ASSUME NEW j \in 1 .. L, NEW i \in 1 .. n
      PROVE  Joined(frames, n)[n * (j - 1) + i] = frames[j][i]
  <2>1. n * (j - 1) >= 0 /\ n * (L - j) >= 0
    <3>1. \A x, y \in Int : x >= 0 /\ y >= 0 => x * y >= 0
      OBVIOUS
    <3>2. j - 1 \in Int /\ L - j \in Int /\ j - 1 >= 0 /\ L - j >= 0 /\ n \in Int /\ n >= 0
      OBVIOUS
    <3> QED
      BY <3>1, <3>2
  <2>2. n * (j - 1) + n <= n * L
    BY <2>1
  <2>3. n * (j - 1) \in Int
    OBVIOUS
  <2>4. n * (j - 1) + i \in 1 .. n * L
    BY <1>1, <2>1, <2>2, <2>3
  <2>5. n * (j - 1) + i - 1 = n * (j - 1) + (i - 1) /\ i - 1 \in 0 .. n - 1 /\ j - 1 \in Int
    BY <2>3
  <2>6. (n * (j - 1) + i - 1) \div n = j - 1 /\ (n * (j - 1) + i - 1) % n = i - 1
    BY <2>5, DivModUnique
  <2>7. j - 1 + 1 = j /\ i - 1 + 1 = i
    OBVIOUS
  <2>8. \A x \in 1 .. n * L :
          Joined(frames, n)[x] = frames[((x - 1) \div n) + 1][((x - 1) % n) + 1]
    BY DEF Joined
  <2>9. PICK x \in 1 .. n * L : x = n * (j - 1) + i
    BY <2>4
  <2>10. (x - 1) \div n = j - 1 /\ (x - 1) % n = i - 1
    BY <2>6, <2>9
  <2>11. Joined(frames, n)[x] = frames[j][i]
    BY <2>7, <2>8, <2>10
  <2> QED
    BY <2>9, <2>11
<1> QED
  BY <1>4, <1>5 DEF Fill

\* A buffer with ints holds four bytes for each, from which Frame takes them.
LEMMA BytesIs ==
  ASSUME NEW ints \in Seq(Int32), NEW L \in Nat, Len(ints) = L
  PROVE  /\ Bytes(ints) \in Seq(Byte) /\ Len(Bytes(ints)) = 4 * L
         /\ \A j \in 1 .. L : \A i \in 1 .. 4 : Bytes(ints)[4 * (j - 1) + i] = htonl(ints[j])[i]
<1> DEFINE frames == [j \in DOMAIN ints |-> htonl(ints[j])]
<1>1. DOMAIN ints = 1 .. L /\ \A j \in 1 .. L : ints[j] \in Int32
  BY LenProperties, ElementOfSeq
<1>2. Len(frames) = L /\ \A j \in 1 .. L : frames[j] = htonl(ints[j])
  <2>1. frames \in [1 .. L -> {htonl(ints[j]) : j \in 1 .. L}]
    BY <1>1
  <2> QED
    BY <1>1, <2>1, FunctionIsSeq
<1>3. \A j \in 1 .. L : \A i \in 1 .. 4 : frames[j][i] \in Byte
  BY <1>1, <1>2, IntBytes
<1> HIDE DEF frames
<1>4. AreFrames(frames, 4, L, Byte)
  BY <1>2, <1>3 DEF AreFrames
<1>5. Fill(Joined(frames, 4), frames, 4, L, Byte)
  BY <1>4, JoinedIs
<1>6. Bytes(ints) = Joined(frames, 4)
  BY DEF Bytes, frames
<1> QED
  BY <1>2, <1>5, <1>6 DEF Fill

\* A frame of four bytes is determined by them.
LEMMA FrameIs ==
  ASSUME NEW x \in Int32, NEW b, NEW j,
         \A i \in 1 .. 4 : b[4 * (j - 1) + i] = htonl(x)[i]
  PROVE  ntohl(Frame(b, 4, j)) = x
<1>1. Frame(b, 4, j)[1] = htonl(x)[1] /\ Frame(b, 4, j)[2] = htonl(x)[2]
      /\ Frame(b, 4, j)[3] = htonl(x)[3] /\ Frame(b, 4, j)[4] = htonl(x)[4]
  BY DEF Frame
<1>2. ntohl(Frame(b, 4, j)) = ntohl(htonl(x))
  BY <1>1, SMT DEF ntohl
<1> QED
  BY <1>2, IntBytes

\* The ints of a buffer made of ints are these ints.
LEMMA IntsOfBytes ==
  ASSUME NEW ints \in Seq(Int32)
  PROVE  Ints(Bytes(ints)) = ints
<1>1. PICK L \in Nat : L = Len(ints)
  BY LenProperties
<1>2. DOMAIN ints = 1 .. L /\ \A j \in 1 .. L : ints[j] \in Int32
  BY <1>1, LenProperties, ElementOfSeq
<1>3. (4 * L) \div 4 = L
  OBVIOUS
<1>4. Ints(Bytes(ints)) = [j \in 1 .. L |-> ntohl(Frame(Bytes(ints), 4, j))]
  BY <1>1, <1>3, BytesIs DEF Ints
<1>5. ASSUME NEW j \in 1 .. L PROVE ntohl(Frame(Bytes(ints), 4, j)) = ints[j]
  <2>1. \A i \in 1 .. 4 : Bytes(ints)[4 * (j - 1) + i] = htonl(ints[j])[i]
    BY <1>1, BytesIs
  <2> QED
    BY <1>2, <2>1, FrameIs
<1>6. Ints(Bytes(ints)) = [j \in 1 .. L |-> ints[j]]
  BY <1>4, <1>5
<1> QED
  BY <1>2, <1>6, LenProperties

\* Every place of a buffer is in the bytes of some int.
LEMMA PlaceInFrame ==
  ASSUME NEW L \in Nat, NEW k \in 1 .. 4 * L
  PROVE  \E j \in 1 .. L : \E i \in 1 .. 4 : k = 4 * (j - 1) + i
<1> DEFINE q == (k - 1) \div 4
           m == (k - 1) % 4
<1>1. q \in Int /\ m \in 0 .. 3 /\ k - 1 = 4 * q + m /\ k >= 1 /\ k <= 4 * L
  OBVIOUS
<1> HIDE DEF q, m
<1>2. q + 1 \in 1 .. L /\ m + 1 \in 1 .. 4 /\ k = 4 * ((q + 1) - 1) + (m + 1)
  BY <1>1
<1> QED
  BY <1>2

\* The bytes of two messages one after the other.
LEMMA BytesConcat ==
  ASSUME NEW s \in Seq(Int32), NEW t \in Seq(Int32)
  PROVE  Bytes(s \o t) = Bytes(s) \o Bytes(t)
<1>1. PICK m \in Nat, n \in Nat : m = Len(s) /\ n = Len(t)
  BY LenProperties
<1>2. s \o t \in Seq(Int32) /\ Len(s \o t) = m + n
  BY <1>1, ConcatProperties
<1>3. /\ \A j \in 1 .. m : (s \o t)[j] = s[j]
      /\ \A j \in m + 1 .. m + n : (s \o t)[j] = t[j - m]
  BY <1>1, ConcatProperties
<1> DEFINE bs == Bytes(s)
           bt == Bytes(t)
           bst == Bytes(s \o t)
<1>4. /\ bs \in Seq(Byte) /\ Len(bs) = 4 * m
      /\ bt \in Seq(Byte) /\ Len(bt) = 4 * n
      /\ bst \in Seq(Byte) /\ Len(bst) = 4 * m + 4 * n
  <2>1. bs \in Seq(Byte) /\ Len(bs) = 4 * m
    BY <1>1, BytesIs
  <2>2. bt \in Seq(Byte) /\ Len(bt) = 4 * n
    BY <1>1, BytesIs
  <2>3. m + n \in Nat /\ 4 * (m + n) = 4 * m + 4 * n
    OBVIOUS
  <2>4. bst \in Seq(Byte) /\ Len(bst) = 4 * (m + n)
    BY <1>2, <2>3, BytesIs
  <2> QED
    BY <2>1, <2>2, <2>3, <2>4
<1> HIDE DEF bs, bt, bst
<1>5. /\ bs \o bt \in Seq(Byte) /\ Len(bs \o bt) = 4 * m + 4 * n
      /\ \A k \in 1 .. 4 * m + 4 * n :
           (bs \o bt)[k] = IF k <= 4 * m THEN bs[k] ELSE bt[k - 4 * m]
  <2>1. PICK p \in Nat, q \in Nat : p = 4 * m /\ q = 4 * n
    OBVIOUS
  <2>2. /\ bs \o bt \in Seq(Byte) /\ Len(bs \o bt) = Len(bs) + Len(bt)
        /\ \A k \in 1 .. Len(bs) + Len(bt) :
             (bs \o bt)[k] = IF k <= Len(bs) THEN bs[k] ELSE bt[k - Len(bs)]
    BY <1>4, ConcatProperties, Zenon
  <2>3. Len(bs) = p /\ Len(bt) = q
    BY <1>4, <2>1
  <2> QED
    BY <2>1, <2>2, <2>3
<1>6. ASSUME NEW k \in 1 .. 4 * m + 4 * n
      PROVE  bst[k] = (bs \o bt)[k]
  <2>1. m + n \in Nat /\ k \in 1 .. 4 * (m + n)
    OBVIOUS
  <2>2. PICK j \in 1 .. m + n, i \in 1 .. 4 : k = 4 * (j - 1) + i
    BY <2>1, PlaceInFrame
  <2>3. bst[4 * (j - 1) + i] = htonl((s \o t)[j])[i]
    BY <1>2, <2>1, BytesIs DEF bst
  <2>4. CASE j <= m
    <3>1. j \in 1 .. m /\ k \in 1 .. 4 * m + 4 * n /\ k <= 4 * m
      BY <2>2, <2>4
    <3>2. (bs \o bt)[k] = bs[k]
      BY <1>5, <3>1
    <3>3. bs[4 * (j - 1) + i] = htonl(s[j])[i]
      BY <1>1, <3>1, BytesIs DEF bs
    <3> QED
      BY <1>3, <2>2, <2>3, <3>1, <3>2, <3>3
  <2>5. CASE j > m
    <3>1. j \in m + 1 .. m + n /\ k \in 1 .. 4 * m + 4 * n /\ ~(k <= 4 * m)
      BY <2>2, <2>5
    <3>2. PICK x \in 1 .. n : x = j - m
      BY <3>1
    <3>3. k - 4 * m = 4 * (x - 1) + i
      BY <2>2, <3>2
    <3>4. (bs \o bt)[k] = bt[4 * (x - 1) + i]
      BY <1>5, <3>1, <3>3
    <3>5. bt[4 * (x - 1) + i] = htonl(t[x])[i]
      BY <1>1, BytesIs DEF bt
    <3> QED
      BY <1>3, <2>2, <2>3, <3>1, <3>2, <3>4, <3>5
  <2>6. j <= m \/ j > m
    BY <2>1
  <2> QED
    BY <2>4, <2>5, <2>6
<1>7. bst = bs \o bt
  BY <1>4, <1>5, <1>6, SeqEqual
<1> QED
  BY <1>7 DEF bs, bt, bst

-----------------------------------------------------------------------------
(* The message classes: Marshal gives ints, of which Unmarshal makes the   *)
(* object again.                                                           *)

\* s is a sequence of n ints.
IntsOf(s, n) == s \in Seq(Int32) /\ Len(s) = n

LEMMA TxRead ==
  ASSUME NEW m \in tx_reads
  PROVE  IntsOf(tx_read_Marshal(m), 2) /\ tx_read_Unmarshal(tx_read_Marshal(m)) = m
BY DEF tx_reads, tx_read_Marshal, tx_read_Unmarshal, IntsOf

LEMMA TxWrite ==
  ASSUME NEW m \in tx_writes
  PROVE  IntsOf(tx_write_Marshal(m), 3) /\ tx_write_Unmarshal(tx_write_Marshal(m)) = m
BY DEF tx_writes, tx_write_Marshal, tx_write_Unmarshal, IntsOf

LEMMA ReadResponseTrip ==
  ASSUME NEW m \in ReadResponses
  PROVE  IntsOf(ReadResponse_Marshal(m), 3) /\ ReadResponse_Unmarshal(ReadResponse_Marshal(m)) = m
BY DEF ReadResponses, ReadResponse_Marshal, ReadResponse_Unmarshal, IntsOf

LEMMA CustomerRequestTrip ==
  ASSUME NEW m \in CustomerRequests
  PROVE  /\ IntsOf(CustomerRequest_Marshal(m), 3)
         /\ CustomerRequest_Unmarshal(CustomerRequest_Marshal(m)) = m
BY DEF CustomerRequests, CustomerRequest_Marshal, CustomerRequest_Unmarshal, IntsOf

LEMMA RobotInfoTrip ==
  ASSUME NEW m \in RobotInfos
  PROVE  IntsOf(RobotInfo_Marshal(m), 5) /\ RobotInfo_Unmarshal(RobotInfo_Marshal(m)) = m
BY DEF RobotInfos, RobotInfo_Marshal, RobotInfo_Unmarshal, IntsOf

LEMMA CustomerRecordTrip ==
  ASSUME NEW m \in CustomerRecords
  PROVE  /\ IntsOf(CustomerRecord_Marshal(m), 2)
         /\ CustomerRecord_Unmarshal(CustomerRecord_Marshal(m)) = m
BY DEF CustomerRecords, CustomerRecord_Marshal, CustomerRecord_Unmarshal, IntsOf

LEMMA MapOpTrip ==
  ASSUME NEW m \in MapOps
  PROVE  IntsOf(MapOp_Marshal(m), 3) /\ MapOp_Unmarshal(MapOp_Marshal(m)) = m
BY DEF MapOps, MapOp_Marshal, MapOp_Unmarshal, IntsOf

LEMMA OrderTrip ==
  ASSUME NEW o \in Orders
  PROVE  IntsOf(Order_marshal(o), 3) /\ Order_unmarshal(Order_marshal(o)) = o
BY DEF Orders, Order_marshal, Order_unmarshal, IntsOf

\* Fields before those of another object.
LEMMA ThreeAndTwo ==
  ASSUME NEW S, NEW a \in S, NEW b \in S, NEW c \in S, NEW d \in S, NEW e \in S
  PROVE  <<a, b, c>> \o <<d, e>> = <<a, b, c, d, e>>
<1> DEFINE s == <<a, b, c>>
           t == <<d, e>>
           u == <<a, b, c, d, e>>
<1>1. /\ s \in Seq(S) /\ Len(s) = 3 /\ s[1] = a /\ s[2] = b /\ s[3] = c
      /\ t \in Seq(S) /\ Len(t) = 2 /\ t[1] = d /\ t[2] = e
      /\ u \in Seq(S) /\ Len(u) = 5 /\ u[1] = a /\ u[2] = b /\ u[3] = c /\ u[4] = d /\ u[5] = e
  OBVIOUS
<1> HIDE DEF s, t, u
<1>2. IsConcat(s \o t, s, t, S, 3, 2)
  BY <1>1, ConcatIs
<1>3. \A k \in 1 .. 5 : k = 1 \/ k = 2 \/ k = 3 \/ k = 4 \/ k = 5
  OBVIOUS
<1>4. \A k \in 1 .. 5 : (s \o t)[k] = u[k]
  BY <1>1, <1>2, <1>3 DEF IsConcat
<1>5. s \o t = u
  BY <1>1, <1>2, <1>4, SeqEqual DEF IsConcat
<1> QED
  BY <1>5 DEF s, t, u

LEMMA ThreeAndThree ==
  ASSUME NEW S, NEW a \in S, NEW b \in S, NEW c \in S, NEW d \in S, NEW e \in S, NEW f \in S
  PROVE  <<a, b, c>> \o <<d, e, f>> = <<a, b, c, d, e, f>>
<1> DEFINE s == <<a, b, c>>
           t == <<d, e, f>>
           u == <<a, b, c, d, e, f>>
<1>1. /\ s \in Seq(S) /\ Len(s) = 3 /\ s[1] = a /\ s[2] = b /\ s[3] = c
      /\ t \in Seq(S) /\ Len(t) = 3 /\ t[1] = d /\ t[2] = e /\ t[3] = f
      /\ u \in Seq(S) /\ Len(u) = 6 /\ u[1] = a /\ u[2] = b /\ u[3] = c /\ u[4] = d
      /\ u[5] = e /\ u[6] = f
  OBVIOUS
<1> HIDE DEF s, t, u
<1>2. IsConcat(s \o t, s, t, S, 3, 3)
  BY <1>1, ConcatIs
<1>3. \A k \in 1 .. 6 : k = 1 \/ k = 2 \/ k = 3 \/ k = 4 \/ k = 5 \/ k = 6
  OBVIOUS
<1>4. \A k \in 1 .. 6 : (s \o t)[k] = u[k]
  BY <1>1, <1>2, <1>3 DEF IsConcat
<1>5. s \o t = u
  BY <1>1, <1>2, <1>4, SeqEqual DEF IsConcat
<1> QED
  BY <1>5 DEF s, t, u

LEMMA RobotTrip ==
  ASSUME NEW o \in Orders, NEW i \in Int32, NEW x \in Int32, NEW r, r = MakeRobot(o, i, x)
  PROVE  /\ r \in Robots /\ IntsOf(Robot_marshal(r), 5)
         /\ Robot_unmarshal(Robot_marshal(r)) = r
<1> DEFINE c == o.customer_id
           t == o.robot_type
           b == <<c, c, t, i, x>>
<1>1. c \in Int32 /\ t \in Int32
  BY DEF Orders
<1>2. r.order = [customer_id |-> c, order_number |-> c, robot_type |-> t]
  BY DEF MakeRobot, CopyOrder, Orders
<1>3. r.engineer_id = i /\ r.expert_id = x
      /\ r = [order |-> r.order, engineer_id |-> i, expert_id |-> x]
  BY DEF MakeRobot
<1>4. Order_marshal(r.order) = <<c, c, t>>
  BY <1>2 DEF Order_marshal
<1>5. Robot_marshal(r) = b
  BY <1>1, <1>3, <1>4, ThreeAndTwo DEF Robot_marshal
<1>6. IntsOf(b, 5)
  BY <1>1 DEF IntsOf
<1>7. SubSeq(b, 1, 3)[1] = c /\ SubSeq(b, 1, 3)[2] = c /\ SubSeq(b, 1, 3)[3] = t
  BY <1>1
<1>8. Robot_unmarshal(b) = [order |-> [customer_id |-> c, order_number |-> c, robot_type |-> t],
                            engineer_id |-> i, expert_id |-> x]
  BY <1>7 DEF Robot_unmarshal, MakeRobot, CopyOrder, Order_unmarshal
<1>9. r \in Robots
  BY <1>1, <1>2, <1>3 DEF Robots, Orders
<1> QED
  BY <1>2, <1>3, <1>5, <1>6, <1>8, <1>9

LEMMA ReplicationRequestTrip ==
  ASSUME NEW m \in ReplicationRequests
  PROVE  /\ IntsOf(ReplicationRequest_Marshal(m), 6)
         /\ ReplicationRequest_Unmarshal(ReplicationRequest_Marshal(m)) = m
<1> DEFINE o == m.map_op
           b == <<m.factory_id, m.committed_index, m.last_index, o.opcode, o.arg1, o.arg2>>
<1>1. /\ m.factory_id \in Int32 /\ m.committed_index \in Int32 /\ m.last_index \in Int32
      /\ o \in MapOps
      /\ m = [factory_id |-> m.factory_id, committed_index |-> m.committed_index,
              last_index |-> m.last_index, map_op |-> o]
  BY DEF ReplicationRequests
<1>2. o.opcode \in Int32 /\ o.arg1 \in Int32 /\ o.arg2 \in Int32
      /\ o = [opcode |-> o.opcode, arg1 |-> o.arg1, arg2 |-> o.arg2]
  BY <1>1 DEF MapOps
<1>3. ReplicationRequest_Marshal(m) = b
  BY <1>1, <1>2, ThreeAndThree DEF ReplicationRequest_Marshal, MapOp_Marshal
<1>4. IntsOf(b, 6)
  BY <1>1, <1>2 DEF IntsOf
<1>5. SubSeq(b, 4, 6)[1] = o.opcode /\ SubSeq(b, 4, 6)[2] = o.arg1 /\ SubSeq(b, 4, 6)[3] = o.arg2
  OBVIOUS
<1>6. MapOp_Unmarshal(SubSeq(b, 4, 6)) = o
  BY <1>2, <1>5 DEF MapOp_Unmarshal
<1>7. ReplicationRequest_Unmarshal(b) = m
  BY <1>1, <1>6 DEF ReplicationRequest_Unmarshal
<1> QED
  BY <1>3, <1>4, <1>7

\* The reads and the writes of a transaction are its ints 2 to 7 and 8 to 16.
LEMMA TxTrip ==
  ASSUME NEW m \in txs
  PROVE  IntsOf(tx_Marshal(m), 16) /\ tx_Unmarshal(tx_Marshal(m)) = m
<1> DEFINE rs == [i \in 1 .. 3 |-> tx_read_Marshal(m.tx_reads[i])]
           ws == [i \in 1 .. 3 |-> tx_write_Marshal(m.tx_writes[i])]
           r == Joined(rs, 2)
           w == Joined(ws, 3)
           v == <<m.version>>
           b == (v \o r) \o w
<1>1. /\ m.version \in Int32 /\ m.tx_reads \in [1 .. 3 -> tx_reads]
      /\ m.tx_writes \in [1 .. 3 -> tx_writes]
      /\ m = [version |-> m.version, tx_reads |-> m.tx_reads, tx_writes |-> m.tx_writes]
  BY DEF txs
<1>2. /\ \A i \in 1 .. 3 : rs[i] \in Seq(Int32) /\ Len(rs[i]) = 2
      /\ \A i \in 1 .. 3 : ws[i] \in Seq(Int32) /\ Len(ws[i]) = 3
  BY <1>1, TxRead, TxWrite DEF IntsOf
<1>3. Len(rs) = 3 /\ Len(ws) = 3
  <2>1. rs \in Seq(Seq(Int32)) /\ ws \in Seq(Seq(Int32))
    BY <1>2
  <2> QED
    BY <2>1, LenProperties
<1>4. Fill(r, rs, 2, 3, Int32)
  <2> HIDE DEF rs
  <2>1. AreFrames(rs, 2, 3, Int32)
    BY <1>2, <1>3, ElementOfSeq DEF AreFrames
  <2> QED
    BY <2>1, JoinedIs
<1>5. Fill(w, ws, 3, 3, Int32)
  <2> HIDE DEF ws
  <2>1. AreFrames(ws, 3, 3, Int32)
    BY <1>2, <1>3, ElementOfSeq DEF AreFrames
  <2> QED
    BY <2>1, JoinedIs
<1>6. /\ \A i \in 1 .. 3 : r[2 * (i - 1) + 1] = rs[i][1] /\ r[2 * (i - 1) + 2] = rs[i][2]
      /\ \A i \in 1 .. 3 : /\ w[3 * (i - 1) + 1] = ws[i][1] /\ w[3 * (i - 1) + 2] = ws[i][2]
                           /\ w[3 * (i - 1) + 3] = ws[i][3]
  <2> HIDE DEF rs, ws, r, w
  <2> QED
    BY <1>4, <1>5 DEF Fill
<1>7. /\ \A i \in 1 .. 3 : rs[i] = <<m.tx_reads[i].robot_id, m.tx_reads[i].version>>
      /\ \A i \in 1 .. 3 : ws[i] = <<m.tx_writes[i].robot_id, m.tx_writes[i].bid,
                                     m.tx_writes[i].customer_id>>
  BY DEF tx_read_Marshal, tx_write_Marshal
<1>8. /\ r \in Seq(Int32) /\ Len(r) = 6 /\ w \in Seq(Int32) /\ Len(w) = 9
      /\ v \in Seq(Int32) /\ Len(v) = 1 /\ v[1] = m.version
  BY <1>1, <1>4, <1>5 DEF Fill
<1>9. tx_Marshal(m) = b
  BY DEF tx_Marshal
<1> HIDE DEF rs, ws, r, w, v
<1>10. IsConcat(v \o r, v, r, Int32, 1, 6)
  BY <1>8, ConcatIs
<1>11. IsConcat(b, v \o r, w, Int32, 7, 9)
  <2>1. v \o r \in Seq(Int32) /\ Len(v \o r) = 7
    BY <1>10 DEF IsConcat
  <2> QED
    BY <1>8, <2>1, ConcatIs
<1> DEFINE vr == v \o r
<1> HIDE DEF vr, b
<1>12. /\ b[1] = m.version
       /\ \A k \in 2 .. 7 : b[k] = r[k - 1]
       /\ \A k \in 8 .. 16 : b[k] = w[k - 7]
       /\ b \in Seq(Int32) /\ Len(b) = 16
  <2>1. vr[1] = m.version /\ \A k \in 2 .. 7 : vr[k] = r[k - 1]
    BY <1>8, <1>10 DEF IsConcat, vr
  <2>2. /\ b \in Seq(Int32) /\ Len(b) = 7 + 9
        /\ \A k \in 1 .. 7 : b[k] = vr[k]
        /\ \A k \in 7 + 1 .. 7 + 9 : b[k] = w[k - 7]
    BY <1>11, Zenon DEF IsConcat, vr
  <2>3. Len(b) = 16 /\ \A k \in 8 .. 16 : b[k] = w[k - 7]
    BY <2>2
  <2>4. b[1] = vr[1] /\ \A k \in 2 .. 7 : b[k] = vr[k]
    BY <2>2
  <2> QED
    BY <2>1, <2>2, <2>3, <2>4
<1>13. ASSUME NEW i \in 1 .. 3
       PROVE  tx_read_Unmarshal(SubSeq(b, 2 * i, 2 * i + 1)) = m.tx_reads[i]
  <2>1. /\ 2 * i \in 2 .. 7 /\ 2 * i - 1 = 2 * (i - 1) + 1
        /\ 2 * i + 1 \in 2 .. 7 /\ 2 * i + 1 - 1 = 2 * (i - 1) + 2
    OBVIOUS
  <2>2. b[2 * i] = r[2 * (i - 1) + 1] /\ b[2 * i + 1] = r[2 * (i - 1) + 2]
    BY <1>12, <2>1
  <2>3. b[2 * i] = m.tx_reads[i].robot_id /\ b[2 * i + 1] = m.tx_reads[i].version
    BY <1>6, <1>7, <2>2
  <2>4. SubSeq(b, 2 * i, 2 * i + 1)[1] = b[2 * i] /\ SubSeq(b, 2 * i, 2 * i + 1)[2] = b[2 * i + 1]
    BY <1>12, <2>1
  <2>5. m.tx_reads[i] \in tx_reads
    BY <1>1
  <2> QED
    BY <2>3, <2>4, <2>5 DEF tx_reads, tx_read_Unmarshal
<1>14. ASSUME NEW i \in 1 .. 3
       PROVE  tx_write_Unmarshal(SubSeq(b, 3 * i + 5, 3 * i + 7)) = m.tx_writes[i]
  <2>1. /\ 3 * i + 5 \in 8 .. 16 /\ 3 * i + 5 - 7 = 3 * (i - 1) + 1
        /\ 3 * i + 6 \in 8 .. 16 /\ 3 * i + 6 - 7 = 3 * (i - 1) + 2
        /\ 3 * i + 7 \in 8 .. 16 /\ 3 * i + 7 - 7 = 3 * (i - 1) + 3
    OBVIOUS
  <2>2. /\ b[3 * i + 5] = w[3 * (i - 1) + 1] /\ b[3 * i + 6] = w[3 * (i - 1) + 2]
        /\ b[3 * i + 7] = w[3 * (i - 1) + 3]
    BY <1>12, <2>1
  <2>3. /\ b[3 * i + 5] = m.tx_writes[i].robot_id /\ b[3 * i + 6] = m.tx_writes[i].bid
        /\ b[3 * i + 7] = m.tx_writes[i].customer_id
    BY <1>6, <1>7, <2>2
  <2>4. /\ SubSeq(b, 3 * i + 5, 3 * i + 7)[1] = b[3 * i + 5]
        /\ SubSeq(b, 3 * i + 5, 3 * i + 7)[2] = b[3 * i + 6]
        /\ SubSeq(b, 3 * i + 5, 3 * i + 7)[3] = b[3 * i + 7]
    BY <1>12, <2>1
  <2>5. m.tx_writes[i] \in tx_writes
    BY <1>1
  <2> QED
    BY <2>3, <2>4, <2>5 DEF tx_writes, tx_write_Unmarshal
<1>15. tx_Unmarshal(b) = [version |-> m.version, tx_reads |-> [i \in 1 .. 3 |-> m.tx_reads[i]],
                          tx_writes |-> [i \in 1 .. 3 |-> m.tx_writes[i]]]
  BY <1>12, <1>13, <1>14 DEF tx_Unmarshal
<1>16. [i \in 1 .. 3 |-> m.tx_reads[i]] = m.tx_reads /\ [i \in 1 .. 3 |-> m.tx_writes[i]] = m.tx_writes
  BY <1>1
<1>17. tx_Unmarshal(b) = m
  BY <1>1, <1>15, <1>16
<1> QED
  BY <1>9, <1>12, <1>17 DEF IntsOf

-----------------------------------------------------------------------------
(* The stubs.                                                              *)

\* A frame of n ints, and what its receiver makes of it.
IsFrame(buffer, n, ints) ==
  buffer \in Seq(Byte) /\ Len(buffer) = 4 * n /\ Ints(buffer) = ints

LEMMA FrameOfInts ==
  ASSUME NEW n \in Nat, NEW ints, IntsOf(ints, n)
  PROVE  IsFrame(Bytes(ints), n, ints)
BY BytesIs, IntsOfBytes DEF IntsOf, IsFrame

LEMMA FrameOfInt ==
  ASSUME NEW x \in Int32
  PROVE  /\ IsFrame(Bytes(<<x>>), 1, <<x>>) /\ <<x>>[1] = x
         /\ Bytes(<<x>>) \in Seq(Byte) /\ Len(Bytes(<<x>>)) = 4 /\ Ints(Bytes(<<x>>))[1] = x
<1>1. IntsOf(<<x>>, 1) /\ <<x>>[1] = x
  BY DEF IntsOf
<1>2. IsFrame(Bytes(<<x>>), 1, <<x>>)
  BY <1>1, FrameOfInts
<1> QED
  BY <1>1, <1>2 DEF IsFrame

LEMMA SmallInts == \A x \in -1 .. 255 : x \in Int32
<1>1. INT_MIN \in Int /\ INT_MIN <= -1 /\ INT_MAX \in Int /\ 255 <= INT_MAX
  BY SMT DEF INT_MIN, INT_MAX
<1> QED
  BY <1>1 DEF Int32

\* What a caller sends for a message is what the server's stub takes it for.  A
\* read or a transaction of assignment03 is a frame of its own after the frame
\* that identifies it.
THEOREM RequestsArrive ==
  /\ \A m \in tx_reads :
       /\ SendRead(m) = Bytes(<<TX_READ_IDENTIFY>>) \o Bytes(tx_read_Marshal(m))
       /\ IsFrame(Bytes(tx_read_Marshal(m)), 2, tx_read_Marshal(m))
       /\ ReceiveTxRead(Bytes(tx_read_Marshal(m))) = m
  /\ \A m \in txs :
       /\ SendTX(m) = Bytes(<<TX_IDENTIFY>>) \o Bytes(tx_Marshal(m))
       /\ IsFrame(Bytes(tx_Marshal(m)), 16, tx_Marshal(m))
       /\ ReceiveTX(Bytes(tx_Marshal(m))) = m
  /\ \A m \in CustomerRequests :
       /\ IsFrame(Order(m), 3, CustomerRequest_Marshal(m)) /\ ReceiveRequest(Order(m)) = m
       /\ ReadRecord(m) = Order(m)
  /\ \A o \in Orders :
       IsFrame(PlaceOrder(o), 3, Order_marshal(o)) /\ ReceiveOrder(PlaceOrder(o)) = o
  /\ \A m \in ReplicationRequests :
       /\ IsFrame(SendReplicationRequest(m), 6, ReplicationRequest_Marshal(m))
       /\ ReceiveReplicationRequest(SendReplicationRequest(m)) = m
<1>1. ASSUME NEW m \in tx_reads
      PROVE  /\ SendRead(m) = Bytes(<<TX_READ_IDENTIFY>>) \o Bytes(tx_read_Marshal(m))
             /\ IsFrame(Bytes(tx_read_Marshal(m)), 2, tx_read_Marshal(m))
             /\ ReceiveTxRead(Bytes(tx_read_Marshal(m))) = m
  <2>1. IntsOf(tx_read_Marshal(m), 2)
    BY TxRead
  <2>2. IsFrame(Bytes(tx_read_Marshal(m)), 2, tx_read_Marshal(m))
    BY <2>1, FrameOfInts
  <2>3. <<TX_READ_IDENTIFY>> \in Seq(Int32)
    BY SmallInts DEF TX_READ_IDENTIFY
  <2>4. SendRead(m) = Bytes(<<TX_READ_IDENTIFY>>) \o Bytes(tx_read_Marshal(m))
    BY <2>1, <2>3, BytesConcat DEF SendRead, IntsOf
  <2>5. ReceiveTxRead(Bytes(tx_read_Marshal(m))) = m
    BY <2>2, TxRead DEF ReceiveTxRead, IsFrame
  <2> QED
    BY <2>2, <2>4, <2>5
<1>2. ASSUME NEW m \in txs
      PROVE  /\ SendTX(m) = Bytes(<<TX_IDENTIFY>>) \o Bytes(tx_Marshal(m))
             /\ IsFrame(Bytes(tx_Marshal(m)), 16, tx_Marshal(m))
             /\ ReceiveTX(Bytes(tx_Marshal(m))) = m
  <2>1. IntsOf(tx_Marshal(m), 16)
    BY TxTrip
  <2>2. IsFrame(Bytes(tx_Marshal(m)), 16, tx_Marshal(m))
    BY <2>1, FrameOfInts
  <2>3. <<TX_IDENTIFY>> \in Seq(Int32)
    BY SmallInts DEF TX_IDENTIFY
  <2>4. SendTX(m) = Bytes(<<TX_IDENTIFY>>) \o Bytes(tx_Marshal(m))
    BY <2>1, <2>3, BytesConcat DEF SendTX, IntsOf
  <2>5. ReceiveTX(Bytes(tx_Marshal(m))) = m
    BY <2>2, TxTrip DEF ReceiveTX, IsFrame
  <2> QED
    BY <2>2, <2>4, <2>5
<1>3. ASSUME NEW m \in CustomerRequests
      PROVE  /\ IsFrame(Order(m), 3, CustomerRequest_Marshal(m))
             /\ ReceiveRequest(Order(m)) = m /\ ReadRecord(m) = Order(m)
  <2>1. IsFrame(Order(m), 3, CustomerRequest_Marshal(m))
    BY CustomerRequestTrip, FrameOfInts DEF Order
  <2> QED
    BY <2>1, CustomerRequestTrip DEF ReceiveRequest, IsFrame, ReadRecord, Order
<1>4. ASSUME NEW o \in Orders
      PROVE  IsFrame(PlaceOrder(o), 3, Order_marshal(o)) /\ ReceiveOrder(PlaceOrder(o)) = o
  <2>1. IsFrame(PlaceOrder(o), 3, Order_marshal(o))
    BY OrderTrip, FrameOfInts DEF PlaceOrder
  <2> QED
    BY <2>1, OrderTrip DEF ReceiveOrder, IsFrame
<1>5. ASSUME NEW m \in ReplicationRequests
      PROVE  /\ IsFrame(SendReplicationRequest(m), 6, ReplicationRequest_Marshal(m))
             /\ ReceiveReplicationRequest(SendReplicationRequest(m)) = m
  <2>1. IsFrame(SendReplicationRequest(m), 6, ReplicationRequest_Marshal(m))
    BY ReplicationRequestTrip, FrameOfInts DEF SendReplicationRequest
  <2> QED
    BY <2>1, ReplicationRequestTrip DEF ReceiveReplicationRequest, IsFrame
<1> QED
  BY <1>1, <1>2, <1>3, <1>4, <1>5

\* What a server sends for a result is what the caller's stub returns, and as
\* long as the caller expects.
THEOREM RepliesArrive ==
  /\ \A call, r : call.op = "SendRead" /\ r \in ReadResponses =>
       /\ SendReadResponse(r) \in Seq(Byte) /\ Len(SendReadResponse(r)) = 4 * ReplyInts[call.op]
       /\ ReplyOf(call, SendReadResponse(r)) = r
  /\ \A call, d : call.op = "SendTX" /\ d \in Int32 =>
       /\ SendDecision(d) \in Seq(Byte) /\ Len(SendDecision(d)) = 4 * ReplyInts[call.op]
       /\ ReplyOf(call, SendDecision(d)) = d
  /\ \A call, r : call.op = "Order" /\ r \in RobotInfos =>
       /\ ShipRobot(r) \in Seq(Byte) /\ Len(ShipRobot(r)) = 4 * ReplyInts[call.op]
       /\ ReplyOf(call, ShipRobot(r)) = r
  /\ \A call, r : call.op = "ReadRecord" /\ r \in CustomerRecords =>
       /\ ReturnRecord(r) \in Seq(Byte) /\ Len(ReturnRecord(r)) = 4 * ReplyInts[call.op]
       /\ ReplyOf(call, ReturnRecord(r)) = r
  /\ \A call : call.op = "order" => \A o \in Orders : \A i, x \in Int32 :
       LET r == MakeRobot(o, i, x) IN
       /\ ShipExpertRobot(r) \in Seq(Byte) /\ Len(ShipExpertRobot(r)) = 4 * ReplyInts[call.op]
       /\ ReplyOf(call, ShipExpertRobot(r)) = r
  /\ \A call, i : call.op = "SendReplicationRequest" /\ i \in Int32 =>
       /\ ReturnReplicaResponse(i) \in Seq(Byte)
       /\ Len(ReturnReplicaResponse(i)) = 4 * ReplyInts[call.op]
       /\ ReplyOf(call, ReturnReplicaResponse(i)) = i
<1>1. ASSUME NEW call, NEW r \in ReadResponses, call.op = "SendRead"
      PROVE  /\ SendReadResponse(r) \in Seq(Byte)
             /\ Len(SendReadResponse(r)) = 4 * ReplyInts[call.op]
             /\ ReplyOf(call, SendReadResponse(r)) = r
  <2>1. IsFrame(SendReadResponse(r), 3, ReadResponse_Marshal(r))
    BY ReadResponseTrip, FrameOfInts DEF SendReadResponse
  <2> QED
    BY <1>1, <2>1, ReadResponseTrip DEF IsFrame, ReplyOf, ReplyInts
<1>2. ASSUME NEW call, NEW d \in Int32, call.op = "SendTX"
      PROVE  /\ SendDecision(d) \in Seq(Byte) /\ Len(SendDecision(d)) = 4 * ReplyInts[call.op]
             /\ ReplyOf(call, SendDecision(d)) = d
  BY <1>2, FrameOfInt DEF SendDecision, ReplyOf, ReplyInts
<1>3. ASSUME NEW call, NEW r \in RobotInfos, call.op = "Order"
      PROVE  /\ ShipRobot(r) \in Seq(Byte) /\ Len(ShipRobot(r)) = 4 * ReplyInts[call.op]
             /\ ReplyOf(call, ShipRobot(r)) = r
  <2>1. IsFrame(ShipRobot(r), 5, RobotInfo_Marshal(r))
    BY RobotInfoTrip, FrameOfInts DEF ShipRobot
  <2> QED
    BY <1>3, <2>1, RobotInfoTrip DEF IsFrame, ReplyOf, ReplyInts
<1>4. ASSUME NEW call, NEW r \in CustomerRecords, call.op = "ReadRecord"
      PROVE  /\ ReturnRecord(r) \in Seq(Byte) /\ Len(ReturnRecord(r)) = 4 * ReplyInts[call.op]
             /\ ReplyOf(call, ReturnRecord(r)) = r
  <2>1. IsFrame(ReturnRecord(r), 2, CustomerRecord_Marshal(r))
    BY CustomerRecordTrip, FrameOfInts DEF ReturnRecord
  <2> QED
    BY <1>4, <2>1, CustomerRecordTrip DEF IsFrame, ReplyOf, ReplyInts
<1>5. ASSUME NEW call, call.op = "order", NEW o \in Orders, NEW i \in Int32, NEW x \in Int32,
             NEW r, r = MakeRobot(o, i, x)
      PROVE  /\ ShipExpertRobot(r) \in Seq(Byte)
             /\ Len(ShipExpertRobot(r)) = 4 * ReplyInts[call.op]
             /\ ReplyOf(call, ShipExpertRobot(r)) = r
  <2>1. IntsOf(Robot_marshal(r), 5) /\ Robot_unmarshal(Robot_marshal(r)) = r
    BY <1>5, RobotTrip
  <2>2. IsFrame(ShipExpertRobot(r), 5, Robot_marshal(r))
    BY <2>1, FrameOfInts DEF ShipExpertRobot
  <2> QED
    BY <1>5, <2>1, <2>2 DEF IsFrame, ReplyOf, ReplyInts
<1>6. ASSUME NEW call, NEW i \in Int32, call.op = "SendReplicationRequest"
      PROVE  /\ ReturnReplicaResponse(i) \in Seq(Byte)
             /\ Len(ReturnReplicaResponse(i)) = 4 * ReplyInts[call.op]
             /\ ReplyOf(call, ReturnReplicaResponse(i)) = i
  BY <1>6, FrameOfInt DEF ReturnReplicaResponse, ReplyOf, ReplyInts
<1> QED
  BY <1>1, <1>2, <1>3, <1>4, <1>5, <1>6
=============================================================================
