-------------------------------- MODULE Wire --------------------------------
(***************************************************************************)
(* How the programs put messages on a TCP connection.  A message is a      *)
(* sequence of ints, its fields in the order of the class; each int is     *)
(* converted with htonl and copied into a buffer of bytes, 4 per int.      *)
(***************************************************************************)
EXTENDS Integers, Sequences

INT_MIN == -2147483647 - 1
INT_MAX == 2147483647
Int32 == INT_MIN .. INT_MAX
Byte == 0 .. 255

\* The frames of n elements each, one after the other: a memcpy per frame,
\* the offset advanced by n.
Joined(frames, n) ==
  [k \in 1 .. n * Len(frames) |-> frames[((k - 1) \div n) + 1][((k - 1) % n) + 1]]

\* The j-th frame of n elements in a buffer.
Frame(buffer, n, j) == [i \in 1 .. n |-> buffer[n * (j - 1) + i]]

\* The most significant byte first; negative ints in two's complement.
\* (Mutant of ntohl: the sign is lost.)
htonl(x) == <<(x \div 16777216) % 256, (x \div 65536) % 256, (x \div 256) % 256, x % 256>>
ntohlUnsigned(b) == (b[1] % 128) * 16777216 + b[2] * 65536 + b[3] * 256 + b[4]
ntohl(b) ==
  (IF b[1] < 128 THEN b[1] ELSE b[1] - 256) * 16777216
    + b[2] * 65536 + b[3] * 256 + b[4]

\* A buffer with the given ints, and the ints of a buffer.
Bytes(ints) == Joined([j \in DOMAIN ints |-> htonl(ints[j])], 4)
Ints(buffer) == [j \in 1 .. Len(buffer) \div 4 |-> ntohl(Frame(buffer, 4, j))]
=============================================================================
