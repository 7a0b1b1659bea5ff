---------------------------- MODULE Wire_proofs ----------------------------
(****************************************************************************)
(* A session of a client and a server: however bytes are cut and the two    *)
(* directions interleave, no message is refused, the files of both sides    *)
(* stay apart and are known to the other, and what is written to a file     *)
(* arrives there, complete, once and in order.  All this follows from one   *)
(* invariant, WireInv, that says which packets are in the bytes on their    *)
(* way.                                                                     *)
(*                                                                          *)
(* The first half is about what a session is made of: data messages and how *)
(* a receiver recognises them however the stream was cut, queues of         *)
(* packets, the fragments of a write, and the lists of files either side    *)
(* builds.  The session and its invariant begin with the lemma OtherFacts.  *)
(****************************************************************************)
EXTENDS Wire, FileMap_proofs
(* A length is read from the bytes that have arrived as it is read from     *)
(* all of them.                                                             *)
LEMMA LengthOfPrefix ==
  ASSUME NEW x \in Seq(Byte), NEW y \in Seq(Byte), x # <<>>,
         numheader_decode32(x).size > 0
  PROVE  numheader_decode32(x \o y) = numheader_decode32(x)
<1> DEFINE b == x \o y
<1>1. /\ Len(b) = Len(x) + Len(y) /\ Len(x) \in Nat /\ Len(y) \in Nat
      /\ \A i \in 1..Len(x) : b[i] = x[i]
  BY ConcatElements
<1> HIDE DEF b
<1>2. Len(x) # 0
  BY EmptySeq
<1>3. b[1] = x[1]
  <2>1. 1 \in 1..Len(x)
    BY <1>1, <1>2, SMT
  <2> QED BY <1>1, <2>1
<1>4. CASE x[1] < Base \div 2
  BY <1>3, <1>4 DEF numheader_decode32, b
<1>5. CASE ~(x[1] < Base \div 2)
  <2>1. Len(x) >= 4
    <3> SUFFICES ASSUME ~(Len(x) >= 4) PROVE FALSE
      OBVIOUS
    <3>1. numheader_decode32(x) = [size |-> 0, value |-> 0]
      BY <1>5 DEF numheader_decode32
    <3> QED BY <3>1
  <2>2. b[1] = x[1] /\ b[2] = x[2] /\ b[3] = x[3] /\ b[4] = x[4] /\ Len(b) >= 4
    <3>1. 1 \in 1..Len(x) /\ 2 \in 1..Len(x) /\ 3 \in 1..Len(x) /\ 4 \in 1..Len(x) /\ Len(b) >= 4
      BY <1>1, <2>1, SMT
    <3> QED BY <1>1, <3>1
  <2>3. FromBE32(b) = FromBE32(x)
    BY <2>2 DEF FromBE32, FromBE16
  <2> QED BY <1>5, <2>1, <2>2, <2>3 DEF numheader_decode32, b
<1> QED BY <1>4, <1>5

(* Two ways to cut the same bytes.                                          *)
CutTwice(x, y, m, rest) == x \o y = m \o rest /\ Len(m) <= Len(x)

(* What follows a message that has arrived as a whole.                      *)
LEMMA Cut ==
  ASSUME NEW S, NEW x \in Seq(S), NEW y \in Seq(S), NEW m \in Seq(S), NEW rest \in Seq(S),
         CutTwice(x, y, m, rest)
  PROVE  /\ From(x, Len(m) + 1) \in Seq(S)
         /\ x = m \o From(x, Len(m) + 1)
         /\ From(x, Len(m) + 1) \o y = rest
<1> DEFINE n == Len(m)
           k == Len(x)
           a == SubSeq(x, 1, n)
           r == From(x, n + 1)
           b == x \o y
           c == m \o rest
<1>1. /\ k \in Nat /\ b \in Seq(S) /\ \A i \in 1..k : b[i] = x[i]
      /\ \A i \in 1..k : x[i] \in S
  BY ConcatElements, LenProperties
<1>2. n \in Nat /\ c \in Seq(S) /\ \A i \in 1..n : c[i] = m[i]
  <2>1. m \in Seq(S) /\ rest \in Seq(S)
    OBVIOUS
  <2> QED BY ONLY <2>1, ConcatElements DEF c, n
<1>3. b = c /\ n <= k
  BY DEF CutTwice
<1> HIDE DEF b, c, k, n
<1>4. a \in Seq(S) /\ Len(a) = n /\ \A i \in 1..n : a[i] = x[i]
  <2>1. \A i \in 1..n : x[i] \in S
    BY <1>1, <1>2, <1>3, SMT
  <2>2. 1 \in Int /\ n \in Int
    BY <1>2, SMT
  <2>3. /\ a \in Seq(S) /\ Len(a) = IF 1 <= n THEN n - 1 + 1 ELSE 0
        /\ \A i \in 1..(n - 1 + 1) : a[i] = x[1 + i - 1]
    BY <2>1, <2>2, SubSeqProperties
  <2> HIDE DEF a
  <2>4. Len(a) = n /\ n - 1 + 1 = n /\ \A i \in 1..n : 1 + i - 1 = i
    BY <1>2, <2>3, SMT
  <2> QED BY <2>3, <2>4
<1>5. a = m
  <2>1. \A i \in 1..n : i \in 1..k
    BY <1>1, <1>2, <1>3, SMT
  <2>2. \A i \in 1..n : a[i] = m[i]
    BY <1>1, <1>2, <1>3, <1>4, <2>1
  <2>3. a \in Seq(S) /\ m \in Seq(S) /\ Len(a) = Len(m) /\ \A i \in 1..Len(a) : a[i] = m[i]
    BY <1>4, <2>2 DEF n
  <2> HIDE DEF a
  <2> QED BY <2>3, SeqEqual
<1>6. r \in Seq(S)
  <2>1. \A i \in (n + 1)..k : x[i] \in S
    BY <1>1, <1>2, SMT
  <2>2. n + 1 \in Int /\ k \in Int
    BY <1>1, <1>2, SMT
  <2>3. SubSeq(x, n + 1, k) \in Seq(S)
    BY <2>1, <2>2, SubSeqProperties
  <2> QED BY <2>3 DEF From, k
<1>7. x = a \o r
  <2>1. CASE x = <<>>
    <3>1. k = 0 /\ n = 0
      BY <1>1, <1>2, <1>3, <2>1, EmptySeq, SMT DEF k
    <3>2. a = <<>> /\ r = <<>>
      BY <2>1, <3>1, SubSeqEmpty DEF From, k
    <3> HIDE DEF a, r
    <3>3. <<>> \in Seq(S)
      BY EmptySeq
    <3>4. <<>> \o <<>> = <<>>
      BY ONLY <3>3, ConcatEmptySeq
    <3> QED BY <2>1, <3>2, <3>4
  <2>2. CASE x # <<>>
    <3>1. k # 0
      BY <2>2, EmptySeq DEF k
    <3>2. /\ 1 \in 1..(k + 1) /\ n \in (1 - 1)..k /\ k \in n..k
      BY <1>1, <1>2, <1>3, <3>1, SMT
    <3>3. SubSeq(x, 1, n) \o SubSeq(x, n + 1, k) = SubSeq(x, 1, k)
      BY <3>2, ConcatAdjacentSubSeq DEF k
    <3>4. SubSeq(x, 1, k) = x
      BY SubSeqFull DEF k
    <3> QED BY <3>3, <3>4 DEF From, k
  <2> QED BY <2>1, <2>2
<1>8. x = m \o r
  BY <1>5, <1>7
<1>9. r \o y = rest
  <2> HIDE DEF r, a
  <2>1. m \in Seq(S) /\ r \in Seq(S) /\ y \in Seq(S)
    BY <1>6
  <2>2. (m \o r) \o y = m \o (r \o y)
    BY ONLY <2>1, Associative, SMTT(30)
  <2>3. m \o (r \o y) = m \o rest
    BY <1>3, <1>8, <2>2 DEF b, c
  <2>4. r \o y \in Seq(S) /\ rest \in Seq(S) /\ m \in Seq(S)
    BY <2>1, ConcatProperties
  <2> QED BY ONLY <2>3, <2>4, ConcatSimplifications
<1> QED BY <1>6, <1>8, <1>9 DEF r, n

(* The parts of a message; a send buffer with room for the largest one.     *)
Room == SendBuffer \in Nat /\ CmdAreaSize + 4 <= SendBuffer
HeaderOf(a, more, d) == numheader_encode32(rmf_needed_encoding_size(a) + Len(d))

(* A data message is its length, its address and its data, one after the    *)
(* other.                                                                   *)
LEMMA MessageParts ==
  ASSUME Room, NEW a \in Nat, a <= HIGH_ADDR_MAX, NEW more \in BOOLEAN,
         NEW d \in Seq(Byte), Len(d) <= CmdAreaSize
  PROVE  LET w == rmf_address_encode(a, more)
             h == HeaderOf(a, more, d)
         IN /\ DataMessage(a, more, d) = (h \o w) \o d
            /\ w \in Seq(Byte) /\ Len(w) = rmf_needed_encoding_size(a)
            /\ h \in Seq(Byte) /\ Len(h) \in {1, 4}
            /\ Len(w) \in {2, 4} /\ Len(d) \in Nat
            /\ Len(w) + Len(d) \in Nat /\ Len(w) + Len(d) <= NUM_LONG_MAX
            /\ Len(h) = IF Len(w) + Len(d) <= NUM_SHORT_MAX THEN 1 ELSE 4
<1> DEFINE w == rmf_address_encode(a, more)
           h == HeaderOf(a, more, d)
           n == rmf_needed_encoding_size(a) + Len(d)
<1>1. w \in Seq(Byte) /\ Len(w) = rmf_needed_encoding_size(a) /\ rmf_needed_encoding_size(a) \in {2, 4}
  BY EncodedAddress DEF rmf_needed_encoding_size
<1>2. Len(d) \in Nat
  BY LenProperties
<1>3. n \in Nat /\ n <= NUM_LONG_MAX /\ n <= SendBuffer
  <2> DEFINE k == rmf_needed_encoding_size(a)
  <2>1. k \in {2, 4} /\ CmdAreaSize \in Nat /\ CmdAreaSize + 4 <= NUM_LONG_MAX /\ NUM_LONG_MAX \in Nat
        /\ SendBuffer \in Nat /\ CmdAreaSize + 4 <= SendBuffer
    BY <1>1, AddressLimits DEF Room
  <2> HIDE DEF k
  <2>2. k + Len(d) \in Nat /\ k + Len(d) <= NUM_LONG_MAX /\ k + Len(d) <= SendBuffer
    BY <1>2, <2>1, SMT
  <2> QED BY <2>2 DEF k
<1>4. h \in Seq(Byte) /\ Len(h) = IF n <= NUM_SHORT_MAX THEN 1 ELSE 4
  BY <1>3, EncodedLength DEF HeaderOf
<1>5. ~(n > SendBuffer)
  BY <1>3, SMT DEF Room
<1>6. DataMessage(a, more, d) = (h \o w) \o d
  BY <1>5 DEF DataMessage, HeaderOf
<1>7. n = Len(w) + Len(d)
  BY <1>1
<1> HIDE DEF w, h, n
<1> QED BY <1>1, <1>2, <1>3, <1>4, <1>6, <1>7 DEF w, h, n

(* A data message is a nonempty sequence of bytes.                          *)
LEMMA MessageType ==
  ASSUME Room, NEW a \in Nat, a <= HIGH_ADDR_MAX, NEW more \in BOOLEAN,
         NEW d \in Seq(Byte), Len(d) <= CmdAreaSize
  PROVE  DataMessage(a, more, d) \in Seq(Byte) /\ DataMessage(a, more, d) # <<>>
<1> DEFINE w == rmf_address_encode(a, more)
           h == HeaderOf(a, more, d)
           m == DataMessage(a, more, d)
<1>1. m = (h \o w) \o d /\ w \in Seq(Byte) /\ h \in Seq(Byte) /\ Len(h) \in {1, 4}
      /\ Len(w) \in {2, 4} /\ Len(d) \in Nat
  BY MessageParts
<1> HIDE DEF w, h, m
<1> DEFINE p == h \o w
<1>2. p \in Seq(Byte) /\ Len(p) = Len(h) + Len(w)
  <2>1. h \in Seq(Byte) /\ w \in Seq(Byte)
    BY <1>1
  <2> QED BY ONLY <2>1, ConcatElements DEF p
<1> HIDE DEF p
<1>3. m \in Seq(Byte) /\ Len(m) = Len(p) + Len(d)
  <2>1. p \in Seq(Byte) /\ d \in Seq(Byte)
    BY <1>2
  <2>2. p \o d \in Seq(Byte) /\ Len(p \o d) = Len(p) + Len(d)
    BY ONLY <2>1, ConcatElements
  <2> QED BY <1>1, <2>2 DEF p
<1>4. Len(m) # 0
  BY <1>1, <1>2, <1>3, SMT
<1>5. m # <<>>
  BY <1>4, EmptySeq
<1> QED BY <1>3, <1>5 DEF m

(* What a side reads at the beginning of the bytes x that have arrived: an  *)
(* address, a more bit and data, and what remains, y being on its way.      *)
Encloses(x, y, h, p, rest) ==
  /\ x \o y = (h \o p) \o rest /\ x # <<>>
  /\ h = numheader_encode32(Len(p)) /\ Len(p) <= NUM_LONG_MAX
  /\ numheader_decode32(x).size > 0
  /\ numheader_decode32(x).size + numheader_decode32(x).value <= Len(x)

(* A length and as many bytes, of which all have arrived: the payload is    *)
(* read back and what follows it is left.                                   *)
LEMMA PayloadRead ==
  ASSUME NEW p \in Seq(Byte), NEW h, NEW x \in Seq(Byte), NEW y \in Seq(Byte),
         NEW rest \in Seq(Byte), Encloses(x, y, h, p, rest)
  PROVE  LET l == numheader_decode32(x)
         IN /\ SubSeq(x, l.size + 1, l.size + l.value) = p
            /\ From(x, l.size + l.value + 1) \in Seq(Byte)
            /\ From(x, l.size + l.value + 1) \o y = rest
<1> DEFINE n == Len(p)
           m == h \o p
           l == numheader_decode32(x)
           r == From(x, Len(m) + 1)
<1>0. /\ x \o y = (h \o p) \o rest /\ x # <<>>
      /\ h = numheader_encode32(Len(p)) /\ Len(p) <= NUM_LONG_MAX
      /\ numheader_decode32(x).size > 0
      /\ numheader_decode32(x).size + numheader_decode32(x).value <= Len(x)
  BY DEF Encloses
<1>1. n \in Nat /\ n <= NUM_LONG_MAX
  BY <1>0
<1>2. h \in Seq(Byte) /\ Len(h) = IF n <= NUM_SHORT_MAX THEN 1 ELSE 4
  BY <1>0, <1>1, EncodedLength
<1>3. m \in Seq(Byte) /\ Len(m) = Len(h) + n
  <2>1. h \o p \in Seq(Byte) /\ Len(h \o p) = Len(h) + Len(p)
    BY ONLY <1>2, ConcatElements
  <2> QED BY <2>1
<1>4. x \o y = h \o (p \o rest) /\ p \o rest \in Seq(Byte)
  <2>1. h \in Seq(Byte) /\ p \in Seq(Byte) /\ rest \in Seq(Byte)
    BY <1>2
  <2>2. (h \o p) \o rest = h \o (p \o rest)
    BY ONLY <2>1, Associative, SMTT(30)
  <2>3. p \o rest \in Seq(Byte)
    BY ONLY <2>1, ConcatElements
  <2> QED BY <1>0, <2>2, <2>3
<1>5. l = [size |-> Len(h), value |-> n]
  <2> DEFINE t == p \o rest
  <2>1. n \in Nat /\ n <= NUM_LONG_MAX /\ t \in Seq(Byte)
    BY <1>1, <1>4
  <2> HIDE DEF t, n
  <2>2. numheader_decode32(numheader_encode32(n) \o t) =
          [size |-> IF n <= NUM_SHORT_MAX THEN 1 ELSE 4, value |-> n]
    BY ONLY <2>1, LengthRoundTrip
  <2>3. numheader_decode32(x \o y) = l
    BY <1>0, LengthOfPrefix
  <2>4. h = numheader_encode32(n)
    BY <1>0 DEF n
  <2> QED BY <1>2, <1>4, <2>2, <2>3, <2>4 DEF t
<1> HIDE DEF l, n
<1>6. l.size = Len(h) /\ l.value = n /\ l.size + l.value = Len(m) /\ Len(m) <= Len(x)
  BY <1>0, <1>3, <1>5 DEF l
<1> HIDE DEF m, r
<1>7. r \in Seq(Byte) /\ x = m \o r /\ r \o y = rest
  <2>1. x \in Seq(Byte) /\ y \in Seq(Byte) /\ m \in Seq(Byte) /\ rest \in Seq(Byte)
        /\ CutTwice(x, y, m, rest)
    BY <1>0, <1>3, <1>6 DEF m, CutTwice
  <2>2. /\ From(x, Len(m) + 1) \in Seq(Byte)
        /\ x = m \o From(x, Len(m) + 1)
        /\ From(x, Len(m) + 1) \o y = rest
    BY ONLY <2>1, Cut
  <2> QED BY <2>2 DEF r
<1>8. SubSeq(x, Len(h) + 1, Len(h) + n) = p
  <2>1. h \in Seq(Byte) /\ p \in Seq(Byte) /\ r \in Seq(Byte)
    BY <1>2, <1>7
  <2>2. SubSeq((h \o p) \o r, Len(h) + 1, Len(h) + Len(p)) = p
    BY ONLY <2>1, MiddlePart
  <2> QED BY <1>7, <2>2 DEF m, n
<1>9. /\ SubSeq(x, l.size + 1, l.size + l.value) = p
      /\ From(x, l.size + l.value + 1) = r
  BY <1>6, <1>8 DEF r
<1> QED BY <1>7, <1>9 DEF l

(* The message was recognised: its address, its more bit, its data and what *)
(* follows it.                                                              *)
Reads(x, y, a, more, d, rest) ==
  LET l == numheader_decode32(x)
      p == SubSeq(x, l.size + 1, l.size + l.value)
      header == rmf_address_decode(p)
      r == From(x, l.size + l.value + 1)
  IN /\ header = [size |-> rmf_needed_encoding_size(a), more |-> more, address |-> a]
     /\ From(p, header.size + 1) = d
     /\ r \in Seq(Byte) /\ r \o y = rest

(* A data message that has arrived is read as it was written: parse_message *)
(* undoes apx_fileManager_send_local_data, whatever follows it.             *)
LEMMA MessageRead ==
  ASSUME Room, NEW a \in Nat, a <= HIGH_ADDR_MAX, NEW more \in BOOLEAN,
         NEW d \in Seq(Byte), Len(d) <= CmdAreaSize,
         NEW x \in Seq(Byte), NEW y \in Seq(Byte), NEW rest \in Seq(Byte),
         x \o y = DataMessage(a, more, d) \o rest, x # <<>>,
         numheader_decode32(x).size > 0,
         numheader_decode32(x).size + numheader_decode32(x).value <= Len(x)
  PROVE  Reads(x, y, a, more, d, rest)
<1> DEFINE w == rmf_address_encode(a, more)
           h == HeaderOf(a, more, d)
           m == DataMessage(a, more, d)
           l == numheader_decode32(x)
           n == Len(w) + Len(d)
<1>1. /\ m = (h \o w) \o d /\ w \in Seq(Byte) /\ h \in Seq(Byte)
      /\ Len(w) = rmf_needed_encoding_size(a)
      /\ n \in Nat /\ n <= NUM_LONG_MAX /\ Len(h) = IF n <= NUM_SHORT_MAX THEN 1 ELSE 4
      /\ Len(h) \in {1, 4}
  BY MessageParts
<1>2. h = numheader_encode32(n)
  BY <1>1 DEF HeaderOf
<1>3. rmf_address_decode(w \o d) = [size |-> Len(w), more |-> more, address |-> a]
  BY <1>1, AddressRoundTrip
<1> HIDE DEF w, h, m
<1> DEFINE p == w \o d
<1>4. p \in Seq(Byte) /\ Len(p) = n /\ From(p, Len(w) + 1) = d
  <2>1. w \in Seq(Byte) /\ d \in Seq(Byte)
    BY <1>1
  <2> QED BY ONLY <2>1, ConcatElements, ConcatParts DEF p, n
<1>5. m = h \o p
  <2>1. h \in Seq(Byte) /\ w \in Seq(Byte) /\ d \in Seq(Byte)
    BY <1>1
  <2>2. (h \o w) \o d = h \o (w \o d)
    BY ONLY <2>1, Associative, SMTT(30)
  <2> QED BY <1>1, <2>2 DEF p
<1>6. rmf_address_decode(p) = [size |-> Len(w), more |-> more, address |-> a]
  BY <1>3 DEF p
<1> HIDE DEF p, n
<1>7. /\ SubSeq(x, l.size + 1, l.size + l.value) = p
      /\ From(x, l.size + l.value + 1) \in Seq(Byte)
      /\ From(x, l.size + l.value + 1) \o y = rest
  <2>1. p \in Seq(Byte) /\ x \in Seq(Byte) /\ y \in Seq(Byte) /\ rest \in Seq(Byte)
    BY <1>4
  <2>2. Encloses(x, y, h, p, rest)
    BY <1>1, <1>2, <1>4, <1>5 DEF m, n, Encloses
  <2>3. /\ SubSeq(x, numheader_decode32(x).size + 1,
                  numheader_decode32(x).size + numheader_decode32(x).value) = p
        /\ From(x, numheader_decode32(x).size + numheader_decode32(x).value + 1) \in Seq(Byte)
        /\ From(x, numheader_decode32(x).size + numheader_decode32(x).value + 1) \o y = rest
    BY ONLY <2>1, <2>2, PayloadRead
  <2> QED BY <2>3 DEF l
<1>15. rmf_address_decode(p) = [size |-> rmf_needed_encoding_size(a), more |-> more, address |-> a]
       /\ From(p, rmf_address_decode(p).size + 1) = d
  BY <1>1, <1>4, <1>6
<1> HIDE DEF l
<1> QED BY <1>7, <1>15, Zenon DEF Reads, l

-----------------------------------------------------------------------------
(* The parts e[x] of the elements x of a sequence, one behind the other.    *)
PartsOf(e, S, T) == e \in [S -> Seq(T)]
FlatMap(e, q) == FlattenSeq([i \in 1..Len(q) |-> e[q[i]]])

(* The parts, as a sequence of sequences.                                   *)
LEMMA MapType ==
  ASSUME NEW S, NEW T, NEW e, PartsOf(e, S, T), NEW q \in Seq(S)
  PROVE  LET m == [i \in 1..Len(q) |-> e[q[i]]]
         IN m \in Seq(Seq(T)) /\ Len(m) = Len(q) /\ DOMAIN m = 1..Len(q)
<1> DEFINE n == Len(q)
           m == [i \in 1..n |-> e[q[i]]]
<1>1. n \in Nat /\ \A i \in 1..n : q[i] \in S
  BY LenProperties
<1>2. \A i \in 1..n : e[q[i]] \in Seq(T)
  BY <1>1 DEF PartsOf
<1> HIDE DEF n
<1>3. m \in Seq(Seq(T))
  <2>1. m \in [1..n -> Seq(T)]
    BY <1>2
  <2> HIDE DEF m
  <2> QED BY <1>1, <2>1
<1>4. Len(m) = n
  BY <1>1
<1> QED BY <1>3, <1>4 DEF n

(* The parts of a sequence, of none, of two and of one element.             *)
LEMMA FlatMapType ==
  ASSUME NEW S, NEW T, NEW e, PartsOf(e, S, T), NEW q \in Seq(S)
  PROVE  FlatMap(e, q) \in Seq(T)
<1> DEFINE m == [i \in 1..Len(q) |-> e[q[i]]]
<1>1. m \in Seq(Seq(T))
  BY MapType
<1> HIDE DEF m
<1>2. FlattenSeq(m) \in Seq(T)
  BY ONLY <1>1, FlattenType
<1> QED BY <1>2 DEF FlatMap, m

LEMMA FlatMapEmpty ==
  ASSUME NEW e
  PROVE  FlatMap(e, <<>>) = <<>>
<1>1. [i \in 1..Len(<<>>) |-> e[<<>>[i]]] = <<>>
  OBVIOUS
<1> QED BY <1>1, FlattenEmpty DEF FlatMap

LEMMA FlatMapConcat ==
  ASSUME NEW S, NEW T, NEW e, PartsOf(e, S, T), NEW q \in Seq(S), NEW r \in Seq(S)
  PROVE  FlatMap(e, q \o r) = FlatMap(e, q) \o FlatMap(e, r)
<1> DEFINE a == [i \in 1..Len(q) |-> e[q[i]]]
           b == [i \in 1..Len(r) |-> e[r[i]]]
           c == [i \in 1..Len(q \o r) |-> e[(q \o r)[i]]]
<1>1. a \in Seq(Seq(T)) /\ Len(a) = Len(q)
  BY MapType
<1>2. b \in Seq(Seq(T)) /\ Len(b) = Len(r)
  BY MapType
<1>3. /\ q \o r \in Seq(S) /\ Len(q \o r) = Len(q) + Len(r) /\ Len(q) \in Nat /\ Len(r) \in Nat
      /\ \A i \in 1..(Len(q) + Len(r)) : (q \o r)[i] = IF i <= Len(q) THEN q[i] ELSE r[i - Len(q)]
  BY ConcatProperties, LenProperties
<1>4. c \in Seq(Seq(T)) /\ Len(c) = Len(q) + Len(r)
  <2> DEFINE t == q \o r
  <2>1. t \in Seq(S)
    BY <1>3
  <2> HIDE DEF t
  <2>2. [i \in 1..Len(t) |-> e[t[i]]] \in Seq(Seq(T)) /\ Len([i \in 1..Len(t) |-> e[t[i]]]) = Len(t)
    BY <2>1, MapType
  <2> QED BY <1>3, <2>2 DEF t
<1>5. \A i \in 1..(Len(q) + Len(r)) : c[i] = IF i <= Len(q) THEN a[i] ELSE b[i - Len(q)]
  <2> TAKE i \in 1..(Len(q) + Len(r))
  <2>1. c[i] = e[(q \o r)[i]]
    BY <1>3
  <2>2. CASE i <= Len(q)
    <3>1. i \in 1..Len(q)
      BY <1>3, <2>2, SMT
    <3>2. a[i] = e[q[i]]
      BY <3>1
    <3>3. (q \o r)[i] = q[i]
      BY <1>3, <2>2
    <3> HIDE DEF a, b, c
    <3> QED BY <2>1, <2>2, <3>2, <3>3
  <2>3. CASE ~(i <= Len(q))
    <3>1. i - Len(q) \in 1..Len(r)
      BY <1>3, <2>3, SMT
    <3>2. b[i - Len(q)] = e[r[i - Len(q)]]
      BY <3>1
    <3>3. (q \o r)[i] = r[i - Len(q)]
      BY <1>3, <2>3
    <3> HIDE DEF a, b, c
    <3> QED BY <2>1, <2>3, <3>2, <3>3
  <2> QED BY <2>2, <2>3
<1> HIDE DEF a, b, c
<1>6. c = a \o b
  <2>1. /\ a \o b \in Seq(Seq(T)) /\ Len(a \o b) = Len(a) + Len(b)
        /\ \A i \in 1..(Len(a) + Len(b)) : (a \o b)[i] = IF i <= Len(a) THEN a[i] ELSE b[i - Len(a)]
    <3>1. a \in Seq(Seq(T)) /\ b \in Seq(Seq(T))
      BY <1>1, <1>2
    <3> QED BY ONLY <3>1, ConcatProperties
  <2> DEFINE d == a \o b
  <2>2. c \in Seq(Seq(T)) /\ d \in Seq(Seq(T)) /\ Len(c) = Len(d) /\ \A i \in 1..Len(c) : c[i] = d[i]
    BY <1>1, <1>2, <1>4, <1>5, <2>1
  <2> HIDE DEF d
  <2>3. c = d
    BY ONLY <2>2, SeqEqual
  <2> QED BY <2>3 DEF d
<1>7. FlattenSeq(a \o b) = FlattenSeq(a) \o FlattenSeq(b)
  <2>1. a \in Seq(Seq(T)) /\ b \in Seq(Seq(T))
    BY <1>1, <1>2
  <2> QED BY ONLY <2>1, FlattenConcat
<1> QED BY <1>6, <1>7 DEF FlatMap, a, b, c

LEMMA FlatMapOne ==
  ASSUME NEW S, NEW T, NEW e, PartsOf(e, S, T), NEW x \in S
  PROVE  FlatMap(e, <<x>>) = e[x]
<1> DEFINE m == [i \in 1..Len(<<x>>) |-> e[<<x>>[i]]]
<1>1. m = <<e[x]>>
  OBVIOUS
<1>2. FlattenSeq(<<e[x]>>) = e[x]
  <2> DEFINE y == e[x]
  <2>1. y \in Seq(T)
    BY DEF PartsOf
  <2> HIDE DEF y
  <2>2. FlattenSeq(<<y>>) = y
    BY ONLY <2>1, FlattenOne
  <2> QED BY <2>2 DEF y
<1> QED BY <1>1, <1>2 DEF FlatMap

(* A nonempty sequence is its first element and the others.                 *)
LEMMA FirstAndTail ==
  ASSUME NEW S, NEW q \in Seq(S), q # <<>>
  PROVE  /\ q[1] \in S /\ Tail(q) \in Seq(S) /\ q = <<q[1]>> \o Tail(q)
         /\ Len(q) \in Nat /\ Len(q) # 0 /\ Len(Tail(q)) = Len(q) - 1
         /\ \A i \in 1..Len(Tail(q)) : Tail(q)[i] = q[i + 1]
         /\ 1 \in 1..Len(q)
<1>1. Len(q) \in Nat /\ Len(q) # 0 /\ 1 \in 1..Len(q)
  BY EmptySeq, SMT
<1>2. /\ q[1] \in S /\ Tail(q) \in Seq(S) /\ Len(Tail(q)) = Len(q) - 1
      /\ \A i \in 1..Len(Tail(q)) : Tail(q)[i] = q[i + 1]
  BY <1>1, HeadTailProperties, ElementOfSeq
<1> DEFINE a == <<q[1]>>
           t == Tail(q)
<1>3. a \in Seq(S) /\ Len(a) = 1 /\ a[1] = q[1]
  BY <1>2
<1>4. /\ t \in Seq(S) /\ Len(t) = Len(q) - 1 /\ \A i \in 1..Len(t) : t[i] = q[i + 1]
  BY <1>2
<1> HIDE DEF a, t
<1>5. /\ a \o t \in Seq(S) /\ Len(a \o t) = Len(a) + Len(t)
      /\ \A i \in 1..(Len(a) + Len(t)) : (a \o t)[i] = IF i <= Len(a) THEN a[i] ELSE t[i - Len(a)]
  <2>1. a \in Seq(S) /\ t \in Seq(S)
    BY <1>3, <1>4
  <2> QED BY ONLY <2>1, ConcatProperties
<1> DEFINE d == a \o t
<1>6. d \in Seq(S) /\ Len(d) = Len(q) /\ \A i \in 1..Len(q) : d[i] = IF i <= 1 THEN a[i] ELSE t[i - 1]
  BY <1>1, <1>3, <1>4, <1>5
<1> HIDE DEF d
<1>7. \A i \in 1..Len(q) : d[i] = q[i]
  <2> TAKE i \in 1..Len(q)
  <2>1. CASE i = 1
    BY <1>3, <1>6, <2>1
  <2>2. CASE i # 1
    <3>1. ~(i <= 1) /\ i - 1 \in 1..Len(t) /\ (i - 1) + 1 = i
      BY <1>1, <1>4, <2>2, SMT
    <3>2. t[i - 1] = q[(i - 1) + 1]
      BY <1>4, <3>1
    <3> QED BY <1>6, <3>1, <3>2
  <2> QED BY <2>1, <2>2
<1>8. d = q
  BY <1>6, <1>7, SeqEqual
<1> QED BY <1>1, <1>2, <1>8 DEF a, t, d

(* The parts of a sequence are those of its first element and of the        *)
(* others.                                                                  *)
LEMMA FlatMapFirst ==
  ASSUME NEW S, NEW T, NEW e, PartsOf(e, S, T), NEW q \in Seq(S), q # <<>>
  PROVE  FlatMap(e, q) = e[q[1]] \o FlatMap(e, Tail(q))
<1> DEFINE a == <<q[1]>>
           t == Tail(q)
<1>1. q[1] \in S /\ t \in Seq(S) /\ q = a \o t
  BY FirstAndTail
<1>2. FlatMap(e, a) = e[q[1]]
  <2> DEFINE x == q[1]
  <2>1. x \in S
    BY <1>1
  <2> HIDE DEF x
  <2>2. FlatMap(e, <<x>>) = e[x]
    BY <2>1, FlatMapOne
  <2> QED BY <2>2 DEF x
<1>3. FlatMap(e, a \o t) = FlatMap(e, a) \o FlatMap(e, t)
  <2>1. a \in Seq(S)
    BY <1>1
  <2>2. t \in Seq(S)
    BY <1>1
  <2>3. \A x, y \in Seq(S) : FlatMap(e, x \o y) = FlatMap(e, x) \o FlatMap(e, y)
    BY FlatMapConcat
  <2> HIDE DEF a, t
  <2> QED BY ONLY <2>1, <2>2, <2>3
<1> QED BY <1>1, <1>2, <1>3

(* If no element has a part there is nothing.                               *)
LEMMA FlatMapNothing ==
  ASSUME NEW S, NEW T, NEW e, PartsOf(e, S, T), NEW q \in Seq(S),
         \A i \in 1..Len(q) : e[q[i]] = <<>>
  PROVE  FlatMap(e, q) = <<>>
<1> DEFINE m == [i \in 1..Len(q) |-> e[q[i]]]
<1>1. m \in Seq(Seq(T)) /\ Len(m) = Len(q)
  BY MapType
<1>2. \A i \in 1..Len(m) : m[i] = <<>>
  BY <1>1
<1> HIDE DEF m
<1>3. FlattenSeq(m) = <<>>
  BY ONLY <1>1, <1>2, FlattenNothing
<1> QED BY <1>3 DEF FlatMap, m

-----------------------------------------------------------------------------
(* A file as the sides of a session know it.                                *)
Exts == {ExtDefinition, ExtProvide, ExtRequire}
Digests == {d \in Seq(Byte) : Len(d) = DigestSize}
Names == Nodes \X Exts
Files == [name : Names, address : 0..CMD_AREA_START, size : 1..CmdAreaSize,
          type : {0}, digest_type : {0, 2}, digest : Digests]

(* What is known of a file: its name is a node and a type, its data lie     *)
(* below the command area, and its size is one a receiver takes.            *)
LEMMA FileFacts ==
  ASSUME NEW f \in Files
  PROVE  /\ f \in Publishable(TextNames) /\ f \in FileInfos /\ f.name \in TextNames
         /\ FileType(f) = f.name[2] /\ BaseName(f) = f.name[1] /\ Len(f.name) = 2
         /\ f.name[1] \in Nodes /\ f.name[2] \in Exts
         /\ f.name = FileName(f.name[1], f.name[2]) /\ f.name \in Names
         /\ Start(f) \in Nat /\ Start(f) <= CMD_AREA_START /\ f.address # INVALID_ADDRESS
         /\ Start(f) <= HIGH_ADDR_MAX /\ Start(f) < Word32
         /\ f.size \in Nat /\ f.size >= 1 /\ f.size <= CmdAreaSize
         /\ End(f) \in Nat /\ Start(f) < End(f) /\ End(f) = Start(f) + f.size
<1>1. /\ f.name \in Names /\ f.address \in 0..CMD_AREA_START /\ f.size \in 1..CmdAreaSize
      /\ f.type = 0 /\ f.digest_type \in {0, 2} /\ f.digest \in Digests
      /\ f = [name |-> f.name, address |-> f.address, size |-> f.size, type |-> f.type,
              digest_type |-> f.digest_type, digest |-> f.digest]
  BY DEF Files
<1>2. PICK n \in Nodes, e \in Exts : f.name = <<n, e>>
  BY <1>1 DEF Names
<1>3. /\ f.name[1] = n /\ f.name[2] = e /\ Len(f.name) = 2 /\ f.name = FileName(n, e)
  BY <1>2 DEF FileName
<1>4. n \in Byte \ {0} /\ e \in Byte \ {0}
  <2>1. n \in Byte \ {0}
    BY WireAssumption
  <2>2. e \in 1..3
    BY SMT DEF Exts, ExtDefinition, ExtProvide, ExtRequire
  <2>3. Base \in Nat /\ Base >= 4
    BY RemoteFileAssumption
  <2>4. e \in Byte \ {0}
    BY <2>2, <2>3, SMT DEF Byte
  <2> QED BY <2>1, <2>4
<1>5. f.name \in TextNames
  <2>1. <<n, e>> \in Seq(Byte \ {0}) /\ <<n, e>> # <<>>
    BY <1>4
  <2> QED BY <1>2, <2>1 DEF TextNames
<1>6. /\ f.address \in Nat /\ f.address <= CMD_AREA_START
      /\ f.size \in Nat /\ f.size >= 1 /\ f.size <= CmdAreaSize
  BY <1>1, AddressLimits, SMT
<1>7. /\ f.address <= HIGH_ADDR_MAX /\ f.address # INVALID_ADDRESS /\ f.address < Word32
      /\ f.size < Word32
  BY <1>6, AddressLimits, SmallNumbers, SMT
<1>8. f \in Publishable(TextNames)
  <2>1. f.address \in 0..(Word32 - 1) /\ f.size \in 0..(Word32 - 1)
    BY <1>6, <1>7, SmallNumbers, SMT
  <2>2. f.type \in FILE_TYPES /\ f.digest_type \in DIGEST_TYPES
    BY <1>1, SMT DEF FILE_TYPES, DIGEST_TYPES
  <2> QED BY <1>1, <1>5, <2>1, <2>2 DEF Publishable, Digests
<1>9. f \in FileInfos
  <2>1. f.type \in FILE_TYPES /\ f.digest_type \in DIGEST_TYPES
    BY <1>1, SMT DEF FILE_TYPES, DIGEST_TYPES
  <2>2. f.name \in Nodes \X {ExtDefinition, ExtProvide, ExtRequire}
    BY <1>1 DEF Names, Exts
  <2> QED BY <1>1, <1>6, <2>1, <2>2 DEF FileInfos, Digests
<1>10. FileType(f) = f.name[2] /\ BaseName(f) = f.name[1]
  BY <1>3 DEF FileType, BaseName
<1>11. End(f) \in Nat /\ Start(f) < End(f) /\ End(f) = Start(f) + f.size
  BY <1>6, SMT DEF Start, End
<1>12. Start(f) = f.address
  BY DEF Start
<1> QED BY <1>1, <1>2, <1>3, <1>5, <1>6, <1>7, <1>8, <1>9, <1>10, <1>11, <1>12

-----------------------------------------------------------------------------
(* The messages on their way, seen as the sender meant them.  A packet is a *)
(* message: the bytes from lo to hi of the data of a command or of a write. *)
Packets == [what : {"publish", "open", "write"}, file : Files, offset : Nat, data : Seq(Byte),
            lo : Nat, hi : Nat]
Address(p) == IF p.what = "write" THEN Start(p.file) + p.offset ELSE CMD_AREA_START
Final(p) == p.hi = Len(p.data)
Piece(p) == SubSeq(p.data, p.lo + 1, p.hi)

(* What makes a packet one that a side sends.                               *)
AsMeant(p) ==
  /\ p.lo < p.hi /\ p.hi <= Len(p.data) /\ Len(p.data) <= CmdAreaSize
  /\ p.what = "publish" =>
       p.data = rmf_encode_publish_file_cmd(p.file) /\ p.lo = 0 /\ Final(p)
  /\ p.what = "open" =>
       p.data = rmf_encode_open_file_cmd(Start(p.file)) /\ p.lo = 0 /\ Final(p)
  /\ p.what = "write" =>
       /\ p.offset < p.file.size
       /\ Address(p) + Len(p.data) <= CMD_AREA_START
       /\ \/ p.offset = 0 /\ p.data = Contents(p.file.name) /\ p.file.size = Len(p.data)
          \/ FileType(p.file) # ExtDefinition /\ \E v \in Byte : p.data = <<v>>
Sent == {p \in Packets : AsMeant(p)}

(* The bytes of a packet, the write that is complete with it and the file   *)
(* that it publishes.                                                       *)
FileWrites == [name : Names, offset : Nat, data : Seq(Byte)]
Encoding == [p \in Sent |-> DataMessage(Address(p) + p.lo, ~Final(p), Piece(p))]
WriteOf == [p \in Sent |-> IF Final(p) /\ p.what = "write"
                           THEN <<Write(p.file.name, p.offset, p.data)>> ELSE <<>>]
FileOf == [p \in Sent |-> IF p.what = "publish" THEN <<p.file>> ELSE <<>>]

(* What is known of a packet: the piece of the data that it carries, and an *)
(* address that can be encoded.                                             *)
LEMMA SentFacts ==
  ASSUME NEW p \in Sent
  PROVE  /\ p \in Packets /\ AsMeant(p) /\ p.file \in Files
         /\ p.data \in Seq(Byte) /\ Len(p.data) \in Nat /\ Len(p.data) <= CmdAreaSize
         /\ p.lo \in Nat /\ p.hi \in Nat /\ p.lo < p.hi /\ p.hi <= Len(p.data)
         /\ p.offset \in Nat /\ p.what \in {"publish", "open", "write"}
         /\ Address(p) \in Nat /\ Address(p) + p.lo \in Nat /\ Address(p) + p.lo <= HIGH_ADDR_MAX
         /\ Address(p) <= CMD_AREA_START /\ (p.what = "write" => Address(p) < CMD_AREA_START)
         /\ Piece(p) \in Seq(Byte) /\ Len(Piece(p)) = p.hi - p.lo /\ Len(Piece(p)) <= CmdAreaSize
         /\ Final(p) \in BOOLEAN
<1>1. /\ p \in Packets /\ AsMeant(p) /\ p.file \in Files /\ p.data \in Seq(Byte)
      /\ p.lo \in Nat /\ p.hi \in Nat /\ p.offset \in Nat /\ p.what \in {"publish", "open", "write"}
  BY DEF Sent, Packets
<1>2. Len(p.data) \in Nat
  BY <1>1, LenProperties
<1>3. Len(p.data) <= CmdAreaSize /\ p.lo < p.hi /\ p.hi <= Len(p.data)
  BY <1>1 DEF AsMeant
<1>4. CMD_AREA_START \in Nat /\ CMD_AREA_START <= HIGH_ADDR_MAX /\ HIGH_ADDR_MAX \in Nat
  BY AddressLimits
<1>5. /\ Address(p) \in Nat /\ Address(p) + p.lo \in Nat /\ Address(p) + p.lo <= HIGH_ADDR_MAX
      /\ Address(p) <= CMD_AREA_START /\ (p.what = "write" => Address(p) < CMD_AREA_START)
  <2>1. CASE p.what = "write"
    <3>1. Address(p) = Start(p.file) + p.offset /\ Start(p.file) \in Nat
      BY <1>1, <2>1, FileFacts DEF Address
    <3>2. Address(p) + Len(p.data) <= CMD_AREA_START
      BY <1>1, <2>1 DEF AsMeant
    <3> QED BY <1>1, <1>2, <1>3, <1>4, <3>1, <3>2, SMT
  <2>2. CASE p.what # "write"
    <3>1. Address(p) = CMD_AREA_START /\ p.lo = 0
      BY <1>1, <2>2 DEF Address, AsMeant
    <3> QED BY <1>4, <2>2, <3>1, SMT
  <2> QED BY <2>1, <2>2
<1>6. Piece(p) \in Seq(Byte) /\ Len(Piece(p)) = p.hi - p.lo
  <2> DEFINE d == p.data
             lo == p.lo
             hi == p.hi
  <2>1. d \in Seq(Byte) /\ lo \in Nat /\ hi \in Nat /\ lo < hi /\ hi <= Len(d) /\ Len(d) \in Nat
    BY <1>1, <1>2, <1>3
  <2> HIDE DEF d, lo, hi
  <2>2. \A i \in (lo + 1)..hi : d[i] \in Byte
    <3>1. \A i \in (lo + 1)..hi : i \in 1..Len(d)
      BY <2>1, SMT
    <3> QED BY <2>1, <3>1, ElementOfSeq
  <2>3. lo + 1 \in Int /\ hi \in Int
    BY <2>1, SMT
  <2>4. SubSeq(d, lo + 1, hi) \in Seq(Byte)
        /\ Len(SubSeq(d, lo + 1, hi)) = IF lo + 1 <= hi THEN hi - (lo + 1) + 1 ELSE 0
    BY <2>2, <2>3, SubSeqProperties
  <2>5. Len(SubSeq(d, lo + 1, hi)) = hi - lo
    BY <2>1, <2>4, SMT
  <2> QED BY <2>4, <2>5 DEF Piece, d, lo, hi
<1>7. Len(Piece(p)) <= CmdAreaSize
  BY <1>1, <1>2, <1>3, <1>6, AddressLimits, SMT
<1> QED BY <1>1, <1>2, <1>3, <1>5, <1>6, <1>7 DEF Final

(* The bytes, the write and the file of a packet are functions on packets.  *)
LEMMA EncodingParts == Room => PartsOf(Encoding, Sent, Byte)
<1> SUFFICES ASSUME Room PROVE PartsOf(Encoding, Sent, Byte)
  OBVIOUS
<1>1. ASSUME NEW p \in Sent
      PROVE  DataMessage(Address(p) + p.lo, ~Final(p), Piece(p)) \in Seq(Byte)
  <2> DEFINE a == Address(p) + p.lo
             more == ~Final(p)
             d == Piece(p)
  <2>1. a \in Nat /\ a <= HIGH_ADDR_MAX /\ more \in BOOLEAN /\ d \in Seq(Byte) /\ Len(d) <= CmdAreaSize
    BY SentFacts
  <2> HIDE DEF a, more, d
  <2>2. DataMessage(a, more, d) \in Seq(Byte)
    BY <2>1, MessageType
  <2> QED BY <2>2 DEF a, more, d
<1> QED BY <1>1 DEF PartsOf, Encoding

LEMMA WriteParts == PartsOf(WriteOf, Sent, FileWrites)
<1>1. ASSUME NEW p \in Sent
      PROVE  Write(p.file.name, p.offset, p.data) \in FileWrites
  <2>1. p.file \in Files /\ p.offset \in Nat /\ p.data \in Seq(Byte)
    BY SentFacts
  <2>2. p.file.name \in Names
    BY <2>1, FileFacts
  <2> QED BY <2>1, <2>2 DEF Write, FileWrites
<1>2. ASSUME NEW p \in Sent
      PROVE  (IF Final(p) /\ p.what = "write"
                THEN <<Write(p.file.name, p.offset, p.data)>> ELSE <<>>) \in Seq(FileWrites)
  <2> DEFINE w == Write(p.file.name, p.offset, p.data)
  <2>1. w \in FileWrites
    BY <1>1
  <2> HIDE DEF w
  <2>2. <<w>> \in Seq(FileWrites) /\ <<>> \in Seq(FileWrites)
    BY <2>1
  <2> QED BY <2>2 DEF w
<1> QED BY <1>2 DEF PartsOf, WriteOf

LEMMA FileParts == PartsOf(FileOf, Sent, Files)
<1>1. ASSUME NEW p \in Sent
      PROVE  (IF p.what = "publish" THEN <<p.file>> ELSE <<>>) \in Seq(Files)
  <2> DEFINE f == p.file
  <2>1. f \in Files
    BY SentFacts
  <2> HIDE DEF f
  <2>2. <<f>> \in Seq(Files) /\ <<>> \in Seq(Files)
    BY <2>1
  <2> QED BY <2>2 DEF f
<1> QED BY <1>1 DEF PartsOf, FileOf

-----------------------------------------------------------------------------
Bytes(q)    == FlatMap(Encoding, q)
WritesIn(q) == FlatMap(WriteOf, q)
FilesIn(q)  == FlatMap(FileOf, q)

(* The fragments of a message follow each other, and nothing lies between.  *)
Contiguous(q) ==
  \A i \in 1..Len(q) :
    /\ Final(q[i]) /\ i < Len(q) => q[i + 1].lo = 0
    /\ ~Final(q[i]) => /\ i < Len(q) /\ q[i + 1].lo = q[i].hi
                       /\ Address(q[i + 1]) = Address(q[i]) /\ q[i + 1].data = q[i].data

(* What a receiver holds before and after a packet.                         *)
Before(p) == IF p.lo = 0 THEN Reset
             ELSE [start |-> Address(p), data |-> SubSeq(p.data, 1, p.lo)]
After(p) == IF Final(p) THEN Reset
            ELSE [start |-> Address(p), data |-> SubSeq(p.data, 1, p.hi)]
Expects(q) == IF q = <<>> THEN Reset ELSE Before(q[1])

(* How a packet is understood.                                              *)
Understood(p) ==
  IF ~Final(p) THEN Ignore
  ELSE IF p.what = "publish" THEN [kind |-> "publish", rc |-> "ok", file |-> p.file]
  ELSE IF p.what = "open" THEN [kind |-> "open", rc |-> "ok", address |-> Start(p.file)]
  ELSE [kind |-> "write", rc |-> "ok", address |-> Address(p), data |-> p.data]

(* The first n bytes.                                                       *)
LEMMA BeginningOf ==
  ASSUME NEW d \in Seq(Byte), NEW n \in Nat, n <= Len(d)
  PROVE  SubSeq(d, 1, n) \in Seq(Byte) /\ Len(SubSeq(d, 1, n)) = n
<1>1. Len(d) \in Nat /\ \A i \in 1..Len(d) : d[i] \in Byte
  BY LenProperties
<1>2. \A i \in 1..n : d[i] \in Byte
  BY <1>1, SMT
<1>3. 1 \in Int /\ n \in Int
  BY SMT
<1>4. SubSeq(d, 1, n) \in Seq(Byte) /\ Len(SubSeq(d, 1, n)) = IF 1 <= n THEN n - 1 + 1 ELSE 0
  BY <1>2, <1>3, SubSeqProperties
<1> QED BY <1>4, SMT

(* The piece a packet carries continues the beginning that was received.    *)
LEMMA ContinuedBy ==
  ASSUME NEW p \in Sent
  PROVE  /\ SubSeq(p.data, 1, p.lo) \o Piece(p) = SubSeq(p.data, 1, p.hi)
         /\ Len(SubSeq(p.data, 1, p.lo)) = p.lo /\ Len(SubSeq(p.data, 1, p.hi)) = p.hi
         /\ (p.lo = 0 => <<>> \o Piece(p) = SubSeq(p.data, 1, p.hi))
<1> DEFINE d == p.data
           lo == p.lo
           hi == p.hi
<1>1. /\ d \in Seq(Byte) /\ Len(d) \in Nat /\ lo \in Nat /\ hi \in Nat /\ lo < hi /\ hi <= Len(d)
      /\ Piece(p) \in Seq(Byte)
  BY SentFacts
<1>2. Piece(p) = SubSeq(d, lo + 1, hi)
  BY DEF Piece
<1> HIDE DEF d, lo, hi
<1>3. SubSeq(d, 1, lo) \o SubSeq(d, lo + 1, hi) = SubSeq(d, 1, hi)
  <2>1. 1 \in 1..(Len(d) + 1) /\ lo \in (1 - 1)..Len(d) /\ hi \in lo..Len(d)
    BY <1>1, SMT
  <2> QED BY <1>1, <2>1, ConcatAdjacentSubSeq
<1>4. Len(SubSeq(d, 1, lo)) = lo /\ Len(SubSeq(d, 1, hi)) = hi
  <2>1. lo <= Len(d)
    BY <1>1, SMT
  <2> QED BY <1>1, <2>1, BeginningOf
<1>5. lo = 0 => SubSeq(d, 1, lo) = <<>>
  BY SubSeqEmpty
<1> QED BY <1>2, <1>3, <1>4, <1>5 DEF d, lo, hi

(* A packet continues what the receiver holds (apx_fileManagerReceiver_write,*)
(* file_manager_receiver.c:69-149).                                         *)
LEMMA PacketReceived ==
  ASSUME NEW p \in Sent
  PROVE  Receive(Before(p), Address(p) + p.lo, Piece(p), ~Final(p)) =
           [rc |-> "ok", complete |-> Final(p), address |-> Address(p),
            data |-> SubSeq(p.data, 1, p.hi), receiver |-> After(p)]
<1> DEFINE r == Before(p)
           a == Address(p) + p.lo
           m == ~Final(p)
           start == IF r.start = INVALID_ADDRESS THEN a ELSE r.start
           all == r.data \o Piece(p)
           whole == SubSeq(p.data, 1, p.hi)
<1>1. /\ Address(p) \in Nat /\ Address(p) <= HIGH_ADDR_MAX /\ p.lo \in Nat
      /\ p.hi \in Nat /\ p.hi <= CmdAreaSize /\ Address(p) # INVALID_ADDRESS
  <2>1. /\ Address(p) \in Nat /\ Address(p) <= CMD_AREA_START /\ p.lo \in Nat
        /\ p.hi \in Nat /\ p.hi <= Len(p.data) /\ Len(p.data) <= CmdAreaSize /\ Len(p.data) \in Nat
    BY SentFacts
  <2>2. /\ CMD_AREA_START <= HIGH_ADDR_MAX /\ HIGH_ADDR_MAX < INVALID_ADDRESS /\ CMD_AREA_START \in Nat
        /\ HIGH_ADDR_MAX \in Nat /\ INVALID_ADDRESS \in Nat /\ CmdAreaSize \in Nat
    BY AddressLimits
  <2> QED BY <2>1, <2>2, SMT
<1>2. start = Address(p) /\ start + Len(r.data) = a /\ all = whole
  <2>1. CASE p.lo = 0
    <3>1. r = [start |-> INVALID_ADDRESS, data |-> <<>>]
      BY <2>1 DEF Before, Reset
    <3>2. r.start = INVALID_ADDRESS /\ r.data = <<>> /\ Len(r.data) = 0
      BY <3>1
    <3>3. a = Address(p)
      BY <1>1, <2>1, SMT
    <3>4. all = whole
      BY <2>1, <3>2, ContinuedBy
    <3> HIDE DEF r, a, all, whole
    <3>5. Address(p) + 0 = Address(p)
      BY <1>1, SMT
    <3> QED BY <3>2, <3>3, <3>4, <3>5
  <2>2. CASE p.lo # 0
    <3>1. r = [start |-> Address(p), data |-> SubSeq(p.data, 1, p.lo)]
      BY <2>2 DEF Before
    <3>2. r.start = Address(p) /\ r.data = SubSeq(p.data, 1, p.lo) /\ Len(r.data) = p.lo
      <4>1. Len(SubSeq(p.data, 1, p.lo)) = p.lo
        BY ContinuedBy
      <4> HIDE DEF r
      <4>2. r.start = Address(p) /\ r.data = SubSeq(p.data, 1, p.lo)
        BY <3>1
      <4> QED BY <4>1, <4>2
    <3>3. all = whole
      BY <3>2, ContinuedBy
    <3> HIDE DEF r, all, whole
    <3> QED BY <1>1, <3>2, <3>3
  <2> QED BY <2>1, <2>2
<1>3. ~(Len(all) > CmdAreaSize)
  <2>1. Len(all) = p.hi
    BY <1>2, ContinuedBy
  <2> HIDE DEF all
  <2> QED BY <1>1, <2>1, AddressLimits, SMT
<1>4. (IF m THEN [start |-> start, data |-> all] ELSE Reset) = After(p)
  BY <1>2 DEF After
<1>5. Receive(r, a, Piece(p), m) =
        [rc |-> "ok", complete |-> ~m, address |-> start, data |-> all,
         receiver |-> IF m THEN [start |-> start, data |-> all] ELSE Reset]
  <2>1. ~(start + Len(r.data) # a)
    BY <1>2
  <2> HIDE DEF a, m, r
  <2> QED BY <1>3, <2>1 DEF Receive
<1>6. (~m) = Final(p)
  BY SentFacts
<1> HIDE DEF r, a, start, all, whole
<1> QED BY <1>2, <1>4, <1>5, <1>6 DEF r, a, whole

(* What process_message makes of a packet, in one word.                     *)
LEMMA PacketUnderstood ==
  ASSUME NEW p \in Sent, NEW header, header.size # 0
  PROVE  Meaning(header, [rc |-> "ok", complete |-> Final(p), address |-> Address(p),
                          data |-> SubSeq(p.data, 1, p.hi), receiver |-> After(p)]) = Understood(p)
<1> DEFINE r == [rc |-> "ok", complete |-> Final(p), address |-> Address(p),
                 data |-> SubSeq(p.data, 1, p.hi), receiver |-> After(p)]
<1>1. r.rc = "ok" /\ r.complete = Final(p) /\ r.address = Address(p) /\ r.data = SubSeq(p.data, 1, p.hi)
  OBVIOUS
<1> HIDE DEF r
<1>2. CASE ~Final(p)
  <2>1. ~r.complete
    BY <1>1, <1>2
  <2> QED BY <1>1, <1>2, <2>1 DEF Meaning, Understood, r
<1>3. CASE Final(p)
  <2>1. r.data = p.data
    <3>1. p.hi = Len(p.data) /\ p.data \in Seq(Byte)
      BY <1>3, SentFacts DEF Final
    <3> QED BY <1>1, <3>1, SubSeqFull
  <2>2. p.file \in Files /\ AsMeant(p)
    BY SentFacts
  <2>3. CASE p.what = "publish"
    <3>1. p.data = rmf_encode_publish_file_cmd(p.file) /\ Address(p) = CMD_AREA_START
      BY <2>2, <2>3 DEF AsMeant, Address
    <3>2. /\ rmf_decode_cmd_type(p.data) = CMD_PUBLISH
          /\ rmf_decode_publish_file_cmd(p.data) = [ok |-> TRUE, info |-> p.file]
      BY <2>2, <3>1, FileFacts, PublishRoundTrip
    <3>3. CommandMessage(p.data) = [kind |-> "publish", rc |-> "ok", file |-> p.file]
      BY <3>2 DEF CommandMessage, CMD_PUBLISH, CMD_REVOKE, CMD_OPEN, CMD_CLOSE
    <3>4. Meaning(header, r) = CommandMessage(p.data)
      BY <1>1, <1>3, <2>1, <3>1 DEF Meaning
    <3>5. Understood(p) = [kind |-> "publish", rc |-> "ok", file |-> p.file]
      BY <1>3, <2>3 DEF Understood
    <3> QED BY <3>3, <3>4, <3>5 DEF r
  <2>4. CASE p.what = "open"
    <3>1. p.data = rmf_encode_open_file_cmd(Start(p.file)) /\ Address(p) = CMD_AREA_START
      BY <2>2, <2>4 DEF AsMeant, Address
    <3>2. /\ rmf_decode_cmd_type(p.data) = CMD_OPEN /\ Len(p.data) = 8
          /\ FromLE32(From(p.data, 5)) = Start(p.file)
      <4>1. Start(p.file) \in Nat /\ Start(p.file) < Word32
        BY <2>2, FileFacts
      <4> QED BY <3>1, <4>1, OpenRoundTrip
    <3>3. CommandMessage(p.data) = [kind |-> "open", rc |-> "ok", address |-> Start(p.file)]
      BY <3>2 DEF CommandMessage, CMD_PUBLISH, CMD_REVOKE, CMD_OPEN, CMD_CLOSE
    <3>4. Meaning(header, r) = CommandMessage(p.data)
      BY <1>1, <1>3, <2>1, <3>1 DEF Meaning
    <3>5. Understood(p) = [kind |-> "open", rc |-> "ok", address |-> Start(p.file)]
      BY <1>3, <2>4 DEF Understood
    <3> QED BY <3>3, <3>4, <3>5 DEF r
  <2>5. CASE p.what = "write"
    <3>1. Address(p) < CMD_AREA_START /\ Address(p) \in Nat /\ CMD_AREA_START \in Nat
      BY <2>5, SentFacts, AddressLimits
    <3>2. Address(p) # CMD_AREA_START /\ ~(Address(p) > CMD_AREA_START)
      BY <3>1, SMT
    <3>3. Meaning(header, r) = [kind |-> "write", rc |-> "ok", address |-> Address(p), data |-> p.data]
      BY <1>1, <1>3, <2>1, <3>2 DEF Meaning
    <3>4. Understood(p) = [kind |-> "write", rc |-> "ok", address |-> Address(p), data |-> p.data]
      BY <1>3, <2>5 DEF Understood
    <3> QED BY <3>3, <3>4 DEF r
  <2> QED BY <2>3, <2>4, <2>5, SentFacts
<1> QED BY <1>2, <1>3

(* After the first packet of a contiguous queue the next one is expected.   *)
LEMMA AfterFirst ==
  ASSUME NEW q \in Seq(Sent), q # <<>>, Contiguous(q)
  PROVE  Expects(Tail(q)) = After(q[1]) /\ Contiguous(Tail(q))
<1> DEFINE t == Tail(q)
           n == Len(q)
<1>1. /\ q[1] \in Sent /\ t \in Seq(Sent) /\ n \in Nat /\ n # 0 /\ Len(t) = n - 1
      /\ \A i \in 1..Len(t) : t[i] = q[i + 1]
      /\ 1 \in 1..n
  BY FirstAndTail
<1>2. \A i \in 1..n :
        /\ Final(q[i]) /\ i < n => q[i + 1].lo = 0
        /\ ~Final(q[i]) => /\ i < n /\ q[i + 1].lo = q[i].hi
                           /\ Address(q[i + 1]) = Address(q[i]) /\ q[i + 1].data = q[i].data
  BY DEF Contiguous
<1> HIDE DEF t, n
<1>3. Expects(t) = After(q[1])
  <2>1. CASE n = 1
    <3>1. t = <<>>
      BY <1>1, <2>1, EmptySeq, SMT
    <3>2. Final(q[1])
      BY <1>1, <1>2, <2>1, SMT
    <3> QED BY <3>1, <3>2 DEF Expects, After
  <2>2. CASE n # 1
    <3>1. 1 \in 1..Len(t) /\ 1 < n
      BY <1>1, <2>2, SMT
    <3>2. t # <<>> /\ t[1] = q[1 + 1]
      BY <1>1, <3>1, EmptySeq, SMT
    <3>3. CASE Final(q[1])
      <4>1. q[1 + 1].lo = 0
        BY <1>1, <1>2, <3>1, <3>3
      <4> QED BY <3>2, <3>3, <4>1 DEF Expects, After, Before
    <3>4. CASE ~Final(q[1])
      <4>1. q[1 + 1].lo = q[1].hi /\ Address(q[1 + 1]) = Address(q[1]) /\ q[1 + 1].data = q[1].data
        BY <1>1, <1>2, <3>4
      <4>2. q[1].hi # 0
        <5>1. q[1].lo \in Nat /\ q[1].hi \in Nat /\ q[1].lo < q[1].hi
          BY <1>1, SentFacts
        <5> QED BY <5>1, SMT
      <4>3. Before(q[1 + 1]) = After(q[1])
        BY <3>4, <4>1, <4>2 DEF Before, After
      <4> QED BY <3>2, <4>3 DEF Expects
    <3> QED BY <3>3, <3>4
  <2> QED BY <2>1, <2>2
<1>4. Contiguous(t)
  <2> SUFFICES ASSUME NEW i \in 1..Len(t)
               PROVE  /\ Final(t[i]) /\ i < Len(t) => t[i + 1].lo = 0
                      /\ ~Final(t[i]) => /\ i < Len(t) /\ t[i + 1].lo = t[i].hi
                                         /\ Address(t[i + 1]) = Address(t[i]) /\ t[i + 1].data = t[i].data
    BY DEF Contiguous
  <2>1. i + 1 \in 1..n /\ (i < Len(t) <=> i + 1 < n) /\ (i < Len(t) => i + 1 \in 1..Len(t))
    BY <1>1, SMT
  <2>2. t[i] = q[i + 1] /\ (i < Len(t) => t[i + 1] = q[(i + 1) + 1])
    BY <1>1, <2>1
  <2> QED BY <1>2, <2>1, <2>2
<1> QED BY <1>3, <1>4 DEF t

(* The bytes of a queue begin with those of its first packet.               *)
LEMMA BytesFirst ==
  ASSUME Room, NEW q \in Seq(Sent), q # <<>>
  PROVE  /\ Bytes(q) = Encoding[q[1]] \o Bytes(Tail(q))
         /\ Bytes(Tail(q)) \in Seq(Byte) /\ Encoding[q[1]] \in Seq(Byte) /\ Encoding[q[1]] # <<>>
         /\ Encoding[q[1]] = DataMessage(Address(q[1]) + q[1].lo, ~Final(q[1]), Piece(q[1]))
<1>1. q[1] \in Sent /\ Tail(q) \in Seq(Sent)
  BY FirstAndTail
<1>2. FlatMap(Encoding, q) = Encoding[q[1]] \o FlatMap(Encoding, Tail(q))
  BY EncodingParts, FlatMapFirst
<1>3. FlatMap(Encoding, Tail(q)) \in Seq(Byte)
  BY <1>1, EncodingParts, FlatMapType
<1> DEFINE p == q[1]
           a == Address(p) + p.lo
           more == ~Final(p)
           d == Piece(p)
<1>4. p \in Sent
  BY <1>1
<1>5. Encoding[p] = DataMessage(a, more, d)
  BY <1>4 DEF Encoding
<1> HIDE DEF p
<1>6. a \in Nat /\ a <= HIGH_ADDR_MAX /\ more \in BOOLEAN /\ d \in Seq(Byte) /\ Len(d) <= CmdAreaSize
  BY <1>4, SentFacts
<1> HIDE DEF a, more, d
<1>7. DataMessage(a, more, d) \in Seq(Byte) /\ DataMessage(a, more, d) # <<>>
  BY <1>6, MessageType
<1> QED BY <1>2, <1>3, <1>5, <1>7 DEF p, a, more, d, Bytes

-----------------------------------------------------------------------------
(* What has arrived at a side and what is on its way to it are the bytes of *)
(* the packets q, and its receiver has what came before the first of them.  *)
Queued(s, q) ==
  /\ inbox[s] \in Seq(Byte) /\ stream[s] \in Seq(Byte)
  /\ inbox[s] \o stream[s] = Bytes(q)
  /\ Contiguous(q) /\ receiver[s] = Expects(q)

(* A queue of packets is a sequence of bytes.                               *)
LEMMA BytesType ==
  ASSUME Room, NEW q \in Seq(Sent)
  PROVE  Bytes(q) \in Seq(Byte) /\ (q = <<>> => Bytes(q) = <<>>)
<1>1. FlatMap(Encoding, q) \in Seq(Byte)
  BY EncodingParts, FlatMapType
<1>2. FlatMap(Encoding, <<>>) = <<>>
  BY FlatMapEmpty
<1> QED BY <1>1, <1>2 DEF Bytes

(* A side that parses finds the first packet as it was meant, and nothing   *)
(* of the packets behind it is lost.                                        *)
LEMMA ParsesFirst ==
  ASSUME Room, NEW s \in Sides, NEW q \in Seq(Sent), Queued(s, q), Parses(s), s \in DOMAIN inbox
  PROVE  /\ q # <<>>
         /\ Message(s) = Understood(q[1]) /\ Reception(s).receiver = After(q[1])
         /\ inbox'[s] \in Seq(Byte) /\ inbox'[s] \o stream[s] = Bytes(Tail(q))
         /\ inbox' = [inbox EXCEPT ![s] = inbox'[s]]
<1> DEFINE x == inbox[s]
           y == stream[s]
           l == numheader_decode32(x)
           r == From(x, l.size + l.value + 1)
<1>1. /\ x \in Seq(Byte) /\ y \in Seq(Byte) /\ x \o y = Bytes(q) /\ Contiguous(q)
      /\ receiver[s] = Expects(q)
  BY DEF Queued
<1>2. x # <<>> /\ l.size > 0 /\ l.size + l.value <= Len(x)
      /\ inbox' = [inbox EXCEPT ![s] = r]
  BY DEF Parses, Complete, Length
<1>3. inbox'[s] = r /\ inbox' = [inbox EXCEPT ![s] = inbox'[s]]
  BY <1>2
<1>4. q # <<>>
  <2> SUFFICES ASSUME q = <<>> PROVE FALSE
    OBVIOUS
  <2>1. x \o y = <<>>
    BY <1>1, BytesType
  <2> HIDE DEF x, y
  <2>2. x = <<>>
    BY ONLY <1>1, <2>1, ConcatSimplifications
  <2> QED BY <1>2, <2>2
<1> DEFINE p == q[1]
           a == Address(p) + p.lo
           more == ~Final(p)
           d == Piece(p)
           rest == Bytes(Tail(q))
<1>5. /\ p \in Sent /\ rest \in Seq(Byte) /\ Bytes(q) = DataMessage(a, more, d) \o rest
  BY <1>4, FirstAndTail, BytesFirst
<1>6. a \in Nat /\ a <= HIGH_ADDR_MAX /\ more \in BOOLEAN /\ d \in Seq(Byte) /\ Len(d) <= CmdAreaSize
  BY <1>5, SentFacts
<1>7. Reads(x, y, a, more, d, rest)
  <2> HIDE DEF x, y, a, more, d, rest, l
  <2>1. x \o y = DataMessage(a, more, d) \o rest
    BY <1>1, <1>5
  <2>2. numheader_decode32(x).size > 0
        /\ numheader_decode32(x).size + numheader_decode32(x).value <= Len(x)
    BY <1>2 DEF l
  <2> QED BY <1>1, <1>2, <1>5, <1>6, <2>1, <2>2, MessageRead
<1> DEFINE pl == SubSeq(x, l.size + 1, l.size + l.value)
           h == rmf_address_decode(pl)
<1>8. /\ h = [size |-> rmf_needed_encoding_size(a), more |-> more, address |-> a]
      /\ From(pl, h.size + 1) = d
      /\ r \in Seq(Byte) /\ r \o y = rest
  <2> HIDE DEF a, more, d, rest
  <2> QED BY <1>7, Zenon DEF Reads
<1>9. Payload(s) = pl /\ Header(s) = h /\ Body(s) = From(pl, h.size + 1)
  BY DEF Payload, Length, Header, Body
<1>10. Header(s).size # 0 /\ Header(s).address = a /\ Header(s).more = more /\ Body(s) = d
  <2>1. rmf_needed_encoding_size(a) # 0
    BY DEF rmf_needed_encoding_size
  <2> HIDE DEF pl, h, a, more, d
  <2> QED BY <1>8, <1>9, <2>1
<1>11. receiver[s] = Before(p)
  BY <1>1, <1>4 DEF Expects
<1>12. Reception(s) = [rc |-> "ok", complete |-> Final(p), address |-> Address(p),
                       data |-> SubSeq(p.data, 1, p.hi), receiver |-> After(p)]
  <2>1. Reception(s) = Receive(Before(p), a, d, more)
    <3> HIDE DEF a, d, more
    <3> QED BY <1>10, <1>11 DEF Reception
  <2> QED BY <1>5, <2>1, PacketReceived
<1>13. Message(s) = Understood(p)
  <2> DEFINE hd == Header(s)
  <2>1. hd.size # 0
    BY <1>10
  <2>2. Message(s) = Meaning(hd, Reception(s))
    BY DEF Message
  <2> HIDE DEF hd, p
  <2> QED BY <1>5, <1>12, <2>1, <2>2, PacketUnderstood
<1>14. Reception(s).receiver = After(p)
  BY <1>12
<1> HIDE DEF r, rest
<1> QED BY <1>3, <1>4, <1>8, <1>13, <1>14 DEF rest

(* The queue of a side after its first packet was parsed.                   *)
LEMMA QueuedAfterFirst ==
  ASSUME Room, NEW s \in Sides, NEW q \in Seq(Sent), Queued(s, q), Parses(s), s \in DOMAIN inbox,
         receiver'[s] = After(q[1]), stream'[s] = stream[s]
  PROVE  Queued(s, Tail(q))'
<1>1. /\ q # <<>> /\ inbox'[s] \in Seq(Byte) /\ inbox'[s] \o stream[s] = Bytes(Tail(q))
  BY ParsesFirst
<1>2. Expects(Tail(q)) = After(q[1]) /\ Contiguous(Tail(q))
  BY <1>1, AfterFirst DEF Queued
<1>3. stream[s] \in Seq(Byte)
  BY DEF Queued
<1> QED BY <1>1, <1>2, <1>3 DEF Queued

-----------------------------------------------------------------------------
(* Contiguous queues are put behind each other if the second begins with    *)
(* new data.                                                                *)
LEMMA ContiguousConcat ==
  ASSUME NEW q \in Seq(Sent), NEW r \in Seq(Sent), Contiguous(q), Contiguous(r),
         r # <<>> => r[1].lo = 0
  PROVE  /\ q \o r \in Seq(Sent) /\ Contiguous(q \o r)
         /\ Expects(q \o r) = Expects(q)
<1> DEFINE m == Len(q)
           n == Len(r)
           t == q \o r
           Fits(u, i) == /\ Final(u[i]) /\ i < Len(u) => u[i + 1].lo = 0
                         /\ ~Final(u[i]) => /\ i < Len(u) /\ u[i + 1].lo = u[i].hi
                                            /\ Address(u[i + 1]) = Address(u[i]) /\ u[i + 1].data = u[i].data
<1>1. /\ t \in Seq(Sent) /\ Len(t) = m + n /\ m \in Nat /\ n \in Nat
      /\ \A i \in 1..m : t[i] = q[i]
      /\ \A i \in 1..n : t[m + i] = r[i]
  BY ConcatElements
<1>2. (\A i \in 1..m : Fits(q, i)) /\ (\A i \in 1..n : Fits(r, i))
  BY DEF Contiguous
<1>3. (q = <<>> <=> m = 0) /\ (r = <<>> <=> n = 0)
  BY EmptySeq
<1> HIDE DEF t
<1>4. ASSUME NEW i \in 1..m PROVE Fits(t, i)
  <2> HIDE DEF m, n
  <2>1. t[i] = q[i]
    BY <1>1
  <2>2. CASE i < m
    <3>1. i + 1 \in 1..m /\ i < Len(t)
      BY <1>1, <2>2, SMT
    <3>2. t[i + 1] = q[i + 1]
      BY <1>1, <3>1
    <3>3. Fits(q, i) /\ i < Len(q)
      BY <1>2, <2>2 DEF m
    <3> QED BY <2>1, <3>1, <3>2, <3>3
  <2>3. CASE i = m
    <3>1. Final(q[i])
      <4>1. Fits(q, i) /\ ~(i < Len(q))
        BY <1>1, <1>2, <2>3, SMT DEF m
      <4> QED BY <4>1
    <3>2. i < Len(t) => t[i + 1].lo = 0
      <4> SUFFICES ASSUME i < Len(t) PROVE t[i + 1].lo = 0
        OBVIOUS
      <4>1. 1 \in 1..n /\ n # 0
        BY <1>1, <2>3, SMT
      <4>2. t[m + 1] = r[1] /\ r # <<>>
        BY <1>1, <1>3, <4>1
      <4> QED BY <2>3, <4>2
    <3> QED BY <2>1, <3>1, <3>2
  <2> QED BY <1>1, <2>2, <2>3, SMT
<1>5. ASSUME NEW i \in 1..(m + n), ~(i <= m) PROVE Fits(t, i)
  <2> HIDE DEF m, n
  <2>1. i - m \in 1..n /\ m + (i - m) = i /\ (i < Len(t) <=> i - m < n)
        /\ (i < Len(t) => (i - m) + 1 \in 1..n) /\ m + ((i - m) + 1) = i + 1
    BY <1>1, <1>5, SMT
  <2>2. t[i] = r[i - m] /\ (i < Len(t) => t[i + 1] = r[(i - m) + 1])
    BY <1>1, <2>1
  <2>3. Fits(r, i - m) /\ Len(r) = n
    BY <1>2, <2>1 DEF n
  <2> QED BY <2>1, <2>2, <2>3
<1>6. Contiguous(t)
  <2>1. \A i \in 1..Len(t) : Fits(t, i)
    <3> HIDE DEF Fits, m, n
    <3>1. \A i \in 1..(m + n) : i \in 1..m \/ ~(i <= m)
      BY <1>1, SMT
    <3> QED BY <1>1, <1>4, <1>5, <3>1
  <2> QED BY <2>1 DEF Contiguous
<1>7. Expects(t) = Expects(q)
  <2>1. CASE q = <<>>
    <3>1. t = r
      BY <2>1, ConcatEmptySeq DEF t
    <3>2. CASE r = <<>>
      BY <2>1, <3>1, <3>2 DEF Expects
    <3>3. CASE r # <<>>
      BY <2>1, <3>1, <3>3 DEF Expects, Before
    <3> QED BY <3>2, <3>3
  <2>2. CASE q # <<>>
    <3>1. 1 \in 1..m /\ m + n # 0
      BY <1>1, <1>3, <2>2, SMT
    <3>2. t[1] = q[1] /\ t # <<>>
      BY <1>1, <3>1, EmptySeq
    <3> QED BY <2>2, <3>2 DEF Expects
  <2> QED BY <2>1, <2>2
<1> QED BY <1>1, <1>6, <1>7 DEF t

(* Packets that are sent join the queue of the other side.                  *)
LEMMA QueuedMore ==
  ASSUME Room, NEW s \in Sides, NEW q \in Seq(Sent), NEW r \in Seq(Sent),
         Queued(s, q), Contiguous(r), r # <<>> => r[1].lo = 0,
         inbox'[s] = inbox[s], receiver'[s] = receiver[s], stream'[s] = stream[s] \o Bytes(r)
  PROVE  Queued(s, q \o r)'
<1>1. q \o r \in Seq(Sent) /\ Contiguous(q \o r) /\ Expects(q \o r) = Expects(q)
  BY ContiguousConcat DEF Queued
<1>2. Bytes(q \o r) = Bytes(q) \o Bytes(r)
  BY EncodingParts, FlatMapConcat DEF Bytes
<1>3. Bytes(r) \in Seq(Byte)
  BY BytesType
<1>4. inbox[s] \in Seq(Byte) /\ stream[s] \in Seq(Byte) /\ inbox[s] \o stream[s] = Bytes(q)
      /\ receiver[s] = Expects(q)
  BY DEF Queued
<1> DEFINE x == inbox[s]
           y == stream[s]
           z == Bytes(r)
<1>5. x \in Seq(Byte) /\ y \in Seq(Byte) /\ z \in Seq(Byte)
  BY <1>3, <1>4
<1>6. (x \o y) \o z = x \o (y \o z) /\ y \o z \in Seq(Byte)
  <2> HIDE DEF x, y, z
  <2>1. (x \o y) \o z = x \o (y \o z)
    BY ONLY <1>5, Associative, SMTT(30)
  <2>2. y \o z \in Seq(Byte)
    BY ONLY <1>5, ConcatElements
  <2> QED BY <2>1, <2>2
<1> QED BY <1>1, <1>2, <1>4, <1>6 DEF Queued

(* The writes and the files in a queue.                                     *)
LEMMA WritesInType ==
  ASSUME NEW q \in Seq(Sent), NEW r \in Seq(Sent)
  PROVE  /\ WritesIn(q) \in Seq(FileWrites) /\ FilesIn(q) \in Seq(Files)
         /\ WritesIn(q \o r) = WritesIn(q) \o WritesIn(r)
         /\ FilesIn(q \o r) = FilesIn(q) \o FilesIn(r)
         /\ (q # <<>> => /\ WritesIn(q) = WriteOf[q[1]] \o WritesIn(Tail(q))
                         /\ FilesIn(q) = FileOf[q[1]] \o FilesIn(Tail(q)))
         /\ (q = <<>> => WritesIn(q) = <<>> /\ FilesIn(q) = <<>>)
<1>1. FlatMap(WriteOf, q) \in Seq(FileWrites)
  BY WriteParts, FlatMapType
<1>2. FlatMap(FileOf, q) \in Seq(Files)
  BY FileParts, FlatMapType
<1>3. FlatMap(WriteOf, q \o r) = FlatMap(WriteOf, q) \o FlatMap(WriteOf, r)
  BY WriteParts, FlatMapConcat
<1>4. FlatMap(FileOf, q \o r) = FlatMap(FileOf, q) \o FlatMap(FileOf, r)
  BY FileParts, FlatMapConcat
<1>5. q # <<>> => FlatMap(WriteOf, q) = WriteOf[q[1]] \o FlatMap(WriteOf, Tail(q))
  BY WriteParts, FlatMapFirst
<1>6. q # <<>> => FlatMap(FileOf, q) = FileOf[q[1]] \o FlatMap(FileOf, Tail(q))
  BY FileParts, FlatMapFirst
<1>7. FlatMap(WriteOf, <<>>) = <<>> /\ FlatMap(FileOf, <<>>) = <<>>
  BY FlatMapEmpty
<1> QED BY <1>1, <1>2, <1>3, <1>4, <1>5, <1>6, <1>7 DEF WritesIn, FilesIn

-----------------------------------------------------------------------------
(* The packets of a message.                                                *)
Packet(what, f, offset, data, lo, hi) ==
  [what |-> what, file |-> f, offset |-> offset, data |-> data, lo |-> lo, hi |-> hi]
Published(f) == Packet("publish", f, 0, rmf_encode_publish_file_cmd(f), 0,
                       Len(rmf_encode_publish_file_cmd(f)))
Asked(f) == Packet("open", f, 0, rmf_encode_open_file_cmd(Start(f)), 0,
                   Len(rmf_encode_open_file_cmd(Start(f))))
Enough == FILE_INFO_HEADER_SIZE + 3 <= CmdAreaSize

(* A command is a message of one packet.                                    *)
LEMMA OnePacket ==
  ASSUME Room, NEW p \in Sent, p.lo = 0, Final(p)
  PROVE  /\ <<p>> \in Seq(Sent) /\ <<p>> # <<>> /\ <<p>>[1].lo = 0 /\ Contiguous(<<p>>)
         /\ Len(<<p>>) = 1 /\ <<p>>[1] = p
         /\ Bytes(<<p>>) = DataMessage(Address(p), FALSE, p.data)
         /\ WritesIn(<<p>>) = WriteOf[p] /\ FilesIn(<<p>>) = FileOf[p]
<1>1. <<p>> \in Seq(Sent) /\ <<p>> # <<>> /\ Len(<<p>>) = 1 /\ <<p>>[1] = p
  OBVIOUS
<1>2. Contiguous(<<p>>)
  BY <1>1, SMT DEF Contiguous
<1>3. Bytes(<<p>>) = Encoding[p]
  BY EncodingParts, FlatMapOne DEF Bytes
<1>4. Encoding[p] = DataMessage(Address(p) + p.lo, ~Final(p), Piece(p))
  BY DEF Encoding
<1>5. Address(p) + p.lo = Address(p) /\ (~Final(p)) = FALSE /\ Piece(p) = p.data
  <2>1. Address(p) \in Nat /\ p.data \in Seq(Byte)
    BY SentFacts
  <2>2. Address(p) + p.lo = Address(p)
    BY <2>1, SMT
  <2> DEFINE d == p.data
             n == Len(d)
  <2>3. Piece(p) = SubSeq(d, 1, n)
    BY DEF Piece, Final
  <2>4. d \in Seq(Byte)
    BY <2>1
  <2> HIDE DEF d
  <2>5. SubSeq(d, 1, Len(d)) = d
    BY <2>4, SMT
  <2> QED BY <2>2, <2>3, <2>5 DEF d
<1>6. WritesIn(<<p>>) = WriteOf[p]
  BY WriteParts, FlatMapOne DEF WritesIn
<1>7. FilesIn(<<p>>) = FileOf[p]
  BY FileParts, FlatMapOne DEF FilesIn
<1> QED BY <1>1, <1>2, <1>3, <1>4, <1>5, <1>6, <1>7

(* A file information command is one packet, and its bytes are those that   *)
(* are sent.                                                                *)
LEMMA PublishPacket ==
  ASSUME Room, Enough, NEW f \in Files
  PROVE  LET p == Published(f)
         IN /\ p \in Sent /\ p.what = "publish" /\ p.file = f /\ p.lo = 0 /\ Final(p)
            /\ Encoding[p] = Publish(f) /\ FileOf[p] = <<f>> /\ WriteOf[p] = <<>>
            /\ Bytes(<<p>>) = Publish(f)
<1> DEFINE d == rmf_encode_publish_file_cmd(f)
           p == Published(f)
           n == Len(d)
<1>1. f \in Publishable(TextNames) /\ Len(f.name) = 2
  BY FileFacts
<1>2. d \in Seq(Byte) /\ n = FILE_INFO_HEADER_SIZE + 3
  <2>1. d \in Seq(Byte) /\ n = FILE_INFO_HEADER_SIZE + Len(f.name) + 1
    BY <1>1, PublishRoundTrip
  <2>2. FILE_INFO_HEADER_SIZE \in Nat
    BY RemoteFileAssumption, SMT DEF FILE_INFO_HEADER_SIZE
  <2> QED BY <1>1, <2>1, <2>2, SMT
<1>3. n \in Nat /\ 0 < n /\ n <= CmdAreaSize
  <2>1. FILE_INFO_HEADER_SIZE \in Nat
    BY RemoteFileAssumption, SMT DEF FILE_INFO_HEADER_SIZE
  <2> QED BY <1>2, <2>1, RemoteFileAssumption, SMT DEF Enough
<1>4. p = [what |-> "publish", file |-> f, offset |-> 0, data |-> d, lo |-> 0, hi |-> n]
  BY DEF Published, Packet
<1>5. p.what = "publish" /\ p.file = f /\ p.offset = 0 /\ p.data = d /\ p.lo = 0 /\ p.hi = n
  BY <1>4
<1>6. Final(p)
  BY <1>5 DEF Final
<1>7. p \in Packets
  <2> HIDE DEF d, n
  <2>1. [what |-> "publish", file |-> f, offset |-> 0, data |-> d, lo |-> 0, hi |-> n] \in Packets
    BY <1>2, <1>3 DEF Packets
  <2> QED BY <1>4, <2>1
<1>8. AsMeant(p)
  <2>1. p.lo < p.hi /\ p.hi <= Len(p.data) /\ Len(p.data) <= CmdAreaSize
    BY <1>3, <1>5
  <2>2. p.data = rmf_encode_publish_file_cmd(p.file)
    BY <1>5
  <2> QED BY <1>5, <1>6, <2>1, <2>2 DEF AsMeant
<1>9. p \in Sent
  BY <1>7, <1>8 DEF Sent
<1>10. FileOf[p] = <<f>> /\ WriteOf[p] = <<>>
  BY <1>5, <1>9 DEF FileOf, WriteOf
<1>11. Address(p) = CMD_AREA_START
  BY <1>5 DEF Address
<1>12. Bytes(<<p>>) = Publish(f)
  <2>1. Bytes(<<p>>) = DataMessage(Address(p), FALSE, p.data)
    BY <1>5, <1>6, <1>9, OnePacket
  <2> QED BY <1>5, <1>11, <2>1 DEF Publish, Command
<1>13. Encoding[p] = Publish(f)
  <2>1. Bytes(<<p>>) = Encoding[p]
    BY <1>9, EncodingParts, FlatMapOne DEF Bytes
  <2> QED BY <1>12, <2>1
<1> QED BY <1>5, <1>6, <1>9, <1>10, <1>12, <1>13

(* The same of an open request.                                             *)
LEMMA OpenPacket ==
  ASSUME Room, Enough, NEW f \in Files
  PROVE  LET p == Asked(f)
         IN /\ p \in Sent /\ p.what = "open" /\ p.file = f /\ p.lo = 0 /\ Final(p)
            /\ FileOf[p] = <<>> /\ WriteOf[p] = <<>>
            /\ Bytes(<<p>>) = OpenFile(f)
<1> DEFINE d == rmf_encode_open_file_cmd(Start(f))
           p == Asked(f)
           n == Len(d)
<1>1. Start(f) \in Nat /\ Start(f) < Word32
  BY FileFacts
<1>2. d \in Seq(Byte) /\ n = 8
  BY <1>1, OpenRoundTrip
<1>3. n \in Nat /\ 0 < n /\ n <= CmdAreaSize
  BY <1>2, RemoteFileAssumption, SMT DEF Enough, FILE_INFO_HEADER_SIZE
<1>4. p = [what |-> "open", file |-> f, offset |-> 0, data |-> d, lo |-> 0, hi |-> n]
  BY DEF Asked, Packet
<1>5. p.what = "open" /\ p.file = f /\ p.offset = 0 /\ p.data = d /\ p.lo = 0 /\ p.hi = n
  BY <1>4
<1>6. Final(p)
  BY <1>5 DEF Final
<1>7. p \in Packets
  <2> HIDE DEF d, n
  <2>1. [what |-> "open", file |-> f, offset |-> 0, data |-> d, lo |-> 0, hi |-> n] \in Packets
    BY <1>2, <1>3 DEF Packets
  <2> QED BY <1>4, <2>1
<1>8. AsMeant(p)
  <2>1. p.lo < p.hi /\ p.hi <= Len(p.data) /\ Len(p.data) <= CmdAreaSize
    BY <1>3, <1>5
  <2>2. p.data = rmf_encode_open_file_cmd(Start(p.file))
    BY <1>5
  <2> QED BY <1>5, <1>6, <2>1, <2>2 DEF AsMeant
<1>9. p \in Sent
  BY <1>7, <1>8 DEF Sent
<1>10. FileOf[p] = <<>> /\ WriteOf[p] = <<>>
  BY <1>5, <1>9 DEF FileOf, WriteOf
<1>11. Address(p) = CMD_AREA_START
  BY <1>5 DEF Address
<1>12. Bytes(<<p>>) = OpenFile(f)
  <2>1. Bytes(<<p>>) = DataMessage(Address(p), FALSE, p.data)
    BY <1>5, <1>6, <1>9, OnePacket
  <2> QED BY <1>5, <1>11, <2>1 DEF OpenFile, Command
<1> QED BY <1>5, <1>6, <1>9, <1>10, <1>12

-----------------------------------------------------------------------------
(* How n bytes are cut into pieces of z: all but the last are whole.        *)
PieceCount(n, z) == (n + z - 1) \div z
PieceEnd(n, z, i) == IF i < PieceCount(n, z) THEN i * z ELSE n
(* Where the pieces begin and end: they are not empty, follow each other,   *)
(* and the last ends at n.                                                  *)
LEMMA Pieces ==
  ASSUME NEW n \in Nat \ {0}, NEW z \in Nat \ {0}
  PROVE  /\ PieceCount(n, z) \in Nat \ {0}
         /\ \A i \in 1..PieceCount(n, z) :
              /\ (i - 1) * z \in Nat /\ PieceEnd(n, z, i) \in Nat
              /\ (i - 1) * z < PieceEnd(n, z, i) /\ PieceEnd(n, z, i) <= n
              /\ (i < PieceCount(n, z) => PieceEnd(n, z, i) = i * z /\ i * z < n)
              /\ (i < PieceCount(n, z) <=> PieceEnd(n, z, i) # n)
              /\ (i = PieceCount(n, z) => n <= i * z)
<1> DEFINE v == n + z - 1
           c == PieceCount(n, z)
           r == v % z
<1>1. v \in Nat
  BY SMT
<1>2. c \in Nat /\ r \in Nat /\ r < z /\ v = c * z + r
  BY <1>1, DivMod DEF PieceCount
<1> HIDE DEF c, r
<1>3. c * z \in Nat /\ n <= c * z
  <2> DEFINE m == c * z
  <2>1. m \in Int
    BY <1>2, SMT
  <2> HIDE DEF m
  <2>2. n + z - 1 = m + r
    BY <1>2 DEF m
  <2>3. n <= m
    BY <1>2, <2>1, <2>2, SMT
  <2>4. m \in Nat
    BY <2>1, <2>3, SMT
  <2> QED BY <2>3, <2>4 DEF m
<1>4. c # 0
  <2> SUFFICES ASSUME c = 0 PROVE FALSE
    OBVIOUS
  <2>1. c * z = 0
    BY SMT
  <2> QED BY <1>3, <2>1, SMT
<1>5. (c - 1) * z < n /\ (c - 1) * z \in Nat
  <2> DEFINE m == c * z
             k == (c - 1) * z
  <2>1. m = k + z /\ k \in Nat
    BY <1>2, <1>4, SMT
  <2>2. n + z - 1 = m + r
    BY <1>2 DEF m
  <2> HIDE DEF m, k
  <2>3. k < n
    BY <1>2, <2>1, <2>2, SMT
  <2> QED BY <2>1, <2>3 DEF k
<1>6. ASSUME NEW i \in 1..c
      PROVE  /\ (i - 1) * z \in Nat /\ i * z \in Nat /\ (i - 1) * z < i * z
             /\ (i < c => i * z < n)
  <2> DEFINE a == (i - 1) * z
             b == i * z
  <2>0. i \in Nat /\ i - 1 \in Nat
    BY <1>2, SMT
  <2>1. a \in Nat /\ b \in Nat /\ b = a + z
    BY <2>0, SMT
  <2>2. i < c => b <= (c - 1) * z
    <3> SUFFICES ASSUME i < c PROVE b <= (c - 1) * z
      OBVIOUS
    <3> DEFINE e == c - 1 - i
    <3>1. e \in Nat /\ c - 1 = i + e
      BY <1>2, <2>0, SMT
    <3> HIDE DEF e
    <3>2. (i + e) * z = i * z + e * z /\ e * z \in Nat
      BY <2>0, <3>1, SMT
    <3> DEFINE x == e * z
               y == (i + e) * z
    <3>3. x \in Nat /\ y = b + x
      BY <3>2
    <3> HIDE DEF x, y, b
    <3>4. b <= y
      BY <2>1, <3>3, SMT
    <3> QED BY <3>1, <3>4 DEF y
  <2> DEFINE k == (c - 1) * z
  <2>3. k \in Nat /\ k < n
    BY <1>5
  <2> HIDE DEF a, b, k
  <2>4. a < b
    BY <2>1, SMT
  <2>5. i < c => b < n
    BY <2>1, <2>2, <2>3, SMT DEF k
  <2> QED BY <2>1, <2>4, <2>5 DEF a, b
<1>7. ASSUME NEW i \in 1..c
      PROVE  /\ (i - 1) * z \in Nat /\ PieceEnd(n, z, i) \in Nat
              /\ (i - 1) * z < PieceEnd(n, z, i) /\ PieceEnd(n, z, i) <= n
              /\ (i < c => PieceEnd(n, z, i) = i * z /\ i * z < n)
              /\ (i < c <=> PieceEnd(n, z, i) # n)
              /\ (i = c => n <= i * z)
  <2>1. PieceEnd(n, z, i) = IF i < c THEN i * z ELSE n
    BY DEF PieceEnd, c
  <2> DEFINE a == (i - 1) * z
             b == i * z
             e == PieceEnd(n, z, i)
  <2>2. a \in Nat /\ b \in Nat /\ a < b /\ (i < c => b < n)
    BY <1>6
  <2>3. i = c => a < n /\ n <= b
    BY <1>3, <1>5
  <2>4. e = IF i < c THEN b ELSE n
    BY <2>1
  <2>5. i < c \/ i = c
    BY <1>2, SMT
  <2> HIDE DEF a, b, e
  <2>6. /\ a \in Nat /\ e \in Nat /\ a < e /\ e <= n /\ (i < c => e = b /\ b < n)
        /\ (i < c <=> e # n) /\ (i = c => n <= b)
    BY <1>2, <2>2, <2>3, <2>4, <2>5, SMT
  <2> QED BY <2>6 DEF a, b, e
<1> QED BY <1>2, <1>4, <1>7 DEF c

(* The smaller of two numbers.                                              *)
LEMMA Smaller ==
  ASSUME NEW a \in Nat, NEW b \in Nat
  PROVE  Min({a, b}) = IF a <= b THEN a ELSE b
<1> DEFINE m == IF a <= b THEN a ELSE b
<1>1. m \in {a, b} /\ \A y \in {a, b} : m <= y
  BY SMT
<1>2. \A x \in {a, b} : (\A y \in {a, b} : x <= y) => x = m
  BY SMT
<1>3. Min({a, b}) = CHOOSE x \in {a, b} : \A y \in {a, b} : x <= y
  BY DEF Min
<1> HIDE DEF m
<1>4. (CHOOSE x \in {a, b} : \A y \in {a, b} : x <= y) = m
  BY <1>1, <1>2
<1> QED BY <1>3, <1>4 DEF m

-----------------------------------------------------------------------------
(* What a side writes: a whole file, or one byte of a port data file.       *)
Meant(f, offset, data) ==
  /\ f \in Files /\ offset \in Nat /\ data \in Seq(Byte) /\ data # <<>>
  /\ Len(data) <= CmdAreaSize /\ offset < f.size /\ Start(f) + offset + Len(data) <= CMD_AREA_START
  /\ \/ offset = 0 /\ data = Contents(f.name) /\ f.size = Len(data)
     \/ FileType(f) # ExtDefinition /\ \E v \in Byte : data = <<v>>

(* Its fragments.                                                           *)
Fragments(s, f, offset, data) ==
  [i \in 1..PieceCount(Len(data), FragmentSize[s]) |->
     Packet("write", f, offset, data, (i - 1) * FragmentSize[s],
            PieceEnd(Len(data), FragmentSize[s], i))]

(* A piece of what is written is a packet.                                  *)
LEMMA FragmentPacket ==
  ASSUME NEW f, NEW offset, NEW data, Meant(f, offset, data),
         NEW lo \in Nat, NEW hi \in Nat, lo < hi, hi <= Len(data)
  PROVE  LET p == Packet("write", f, offset, data, lo, hi)
         IN /\ p \in Sent /\ p.what = "write" /\ p.file = f /\ p.offset = offset /\ p.data = data
            /\ p.lo = lo /\ p.hi = hi /\ Address(p) = Start(f) + offset
            /\ Piece(p) = SubSeq(data, lo + 1, hi) /\ (Final(p) <=> hi = Len(data))
<1> DEFINE p == Packet("write", f, offset, data, lo, hi)
<1>1. p = [what |-> "write", file |-> f, offset |-> offset, data |-> data, lo |-> lo, hi |-> hi]
  BY DEF Packet
<1>2. /\ p.what = "write" /\ p.file = f /\ p.offset = offset /\ p.data = data /\ p.lo = lo /\ p.hi = hi
  BY <1>1
<1>3. p \in Packets
  BY <1>1 DEF Packets, Meant
<1> HIDE DEF p
<1>4. Address(p) = Start(f) + offset
  BY <1>2 DEF Address
<1>5. AsMeant(p)
  BY <1>2, <1>4 DEF AsMeant, Meant
<1>6. Piece(p) = SubSeq(data, lo + 1, hi) /\ (Final(p) <=> hi = Len(data))
  BY <1>2 DEF Piece, Final
<1> QED BY <1>2, <1>3, <1>4, <1>5, <1>6 DEF Sent, p

(* The pieces of a write are packets, one for each piece.                   *)
LEMMA FragmentParts ==
  ASSUME NEW s \in Sides, NEW f, NEW offset, NEW data, Meant(f, offset, data)
  PROVE  LET r == Fragments(s, f, offset, data)
             n == Len(data)
             z == FragmentSize[s]
             c == PieceCount(n, z)
         IN /\ r \in Seq(Sent) /\ Len(r) = c /\ c \in Nat \ {0} /\ z \in Nat \ {0} /\ n \in Nat \ {0}
            /\ \A i \in 1..c :
                 /\ r[i].what = "write" /\ r[i].file = f /\ r[i].offset = offset /\ r[i].data = data
                 /\ r[i].lo = (i - 1) * z /\ r[i].hi = PieceEnd(n, z, i)
                 /\ Address(r[i]) = Start(f) + offset
                 /\ Piece(r[i]) = SubSeq(data, (i - 1) * z + 1, PieceEnd(n, z, i))
                 /\ (i < c <=> ~Final(r[i]))
<1> DEFINE r == Fragments(s, f, offset, data)
           n == Len(data)
           z == FragmentSize[s]
           c == PieceCount(n, z)
           P(i) == Packet("write", f, offset, data, (i - 1) * z, PieceEnd(n, z, i))
<1>1. n \in Nat \ {0} /\ z \in Nat \ {0}
  <2>1. n \in Nat /\ n # 0
    BY EmptySeq DEF Meant
  <2>2. z \in Nat \ {0}
    BY WireAssumption
  <2> QED BY <2>1, <2>2
<1>2. r = [i \in 1..c |-> P(i)]
  BY DEF Fragments
<1> HIDE DEF n, z, r
<1>3. /\ c \in Nat \ {0}
      /\ \A i \in 1..c :
              /\ (i - 1) * z \in Nat /\ PieceEnd(n, z, i) \in Nat
              /\ (i - 1) * z < PieceEnd(n, z, i) /\ PieceEnd(n, z, i) <= n
              /\ (i < c <=> PieceEnd(n, z, i) # n)
  BY <1>1, Pieces
<1> HIDE DEF c
<1>4. ASSUME NEW i \in 1..c
      PROVE  /\ P(i) \in Sent
             /\ P(i).what = "write" /\ P(i).file = f /\ P(i).offset = offset /\ P(i).data = data
             /\ P(i).lo = (i - 1) * z /\ P(i).hi = PieceEnd(n, z, i)
             /\ Address(P(i)) = Start(f) + offset
             /\ Piece(P(i)) = SubSeq(data, (i - 1) * z + 1, PieceEnd(n, z, i))
             /\ (i < c <=> ~Final(P(i)))
  <2> DEFINE lo == (i - 1) * z
             hi == PieceEnd(n, z, i)
  <2>1. lo \in Nat /\ hi \in Nat /\ lo < hi /\ hi <= Len(data) /\ (i < c <=> hi # Len(data))
    BY <1>3 DEF n
  <2> DEFINE p == Packet("write", f, offset, data, lo, hi)
  <2> HIDE DEF lo, hi
  <2>2. /\ p \in Sent /\ p.what = "write" /\ p.file = f /\ p.offset = offset /\ p.data = data
        /\ p.lo = lo /\ p.hi = hi /\ Address(p) = Start(f) + offset
        /\ Piece(p) = SubSeq(data, lo + 1, hi) /\ (Final(p) <=> hi = Len(data))
    BY <2>1, FragmentPacket
  <2>3. i < c <=> ~Final(p)
    BY <2>1, <2>2
  <2>4. p = P(i)
    BY DEF lo, hi
  <2> QED BY <2>2, <2>3, <2>4 DEF lo, hi
<1>5. \A i \in 1..c : r[i] = P(i)
  BY <1>2
<1>6. r \in Seq(Sent) /\ Len(r) = c
  <2>1. \A i \in 1..c : P(i) \in Sent
    BY <1>4
  <2> HIDE DEF P
  <2>2. r \in [1..c -> Sent]
    BY <1>2, <2>1
  <2> QED BY <1>2, <1>3, <2>2, SeqDef, LenProperties, SMT
<1>7. \A i \in 1..c :
                 /\ r[i].what = "write" /\ r[i].file = f /\ r[i].offset = offset /\ r[i].data = data
                 /\ r[i].lo = (i - 1) * z /\ r[i].hi = PieceEnd(n, z, i)
                 /\ Address(r[i]) = Start(f) + offset
                 /\ Piece(r[i]) = SubSeq(data, (i - 1) * z + 1, PieceEnd(n, z, i))
                 /\ (i < c <=> ~Final(r[i]))
  <2> HIDE DEF P
  <2> QED BY <1>4, <1>5
<1> QED BY <1>1, <1>3, <1>6, <1>7 DEF r, n, z, c

(* The fragments are what FileData sends, they follow each other, and the   *)
(* last of them completes the write.                                        *)
LEMMA FragmentFacts ==
  ASSUME Room, NEW s \in Sides, NEW f, NEW offset, NEW data, Meant(f, offset, data)
  PROVE  LET r == Fragments(s, f, offset, data)
         IN /\ r \in Seq(Sent) /\ r # <<>> /\ r[1].lo = 0 /\ Contiguous(r)
            /\ Bytes(r) = FileData(s, Start(f) + offset, data)
            /\ WritesIn(r) = <<Write(f.name, offset, data)>> /\ FilesIn(r) = <<>>
            /\ \A i \in 1..Len(r) : r[i].what = "write" /\ r[i].file = f
<1> DEFINE r == Fragments(s, f, offset, data)
           n == Len(data)
           z == FragmentSize[s]
           c == PieceCount(n, z)
<1>1. /\ r \in Seq(Sent) /\ Len(r) = c /\ c \in Nat \ {0} /\ z \in Nat \ {0} /\ n \in Nat \ {0}
      /\ \A i \in 1..c :
                 /\ r[i].what = "write" /\ r[i].file = f /\ r[i].offset = offset /\ r[i].data = data
                 /\ r[i].lo = (i - 1) * z /\ r[i].hi = PieceEnd(n, z, i)
                 /\ Address(r[i]) = Start(f) + offset
                 /\ Piece(r[i]) = SubSeq(data, (i - 1) * z + 1, PieceEnd(n, z, i))
                 /\ (i < c <=> ~Final(r[i]))
  BY FragmentParts
<1>2. /\ \A i \in 1..c :
              /\ (i - 1) * z \in Nat /\ PieceEnd(n, z, i) \in Nat
              /\ (i < c => PieceEnd(n, z, i) = i * z /\ i * z < n)
              /\ (i < c <=> PieceEnd(n, z, i) # n)
              /\ (i = c => n <= i * z)
  BY <1>1, Pieces
<1> HIDE DEF r, n, z, c
<1>3. /\ 1 \in 1..c /\ c \in 1..c
      /\ \A i \in 1..c : i \in Nat /\ i <= c /\ (i < c => i + 1 \in 1..c)
      /\ \A i \in 1..c : i < c \/ i = c
  BY <1>1, SMT
<1>4. r # <<>> /\ r[1].lo = 0
  <2>1. r[1].lo = (1 - 1) * z
    BY <1>1, <1>3
  <2>2. (1 - 1) * z = 0
    BY <1>1, SMT
  <2>3. r # <<>>
    BY <1>1, EmptySeq, SMT
  <2> QED BY <2>1, <2>2, <2>3
<1>5. Contiguous(r)
  <2>1. ASSUME NEW i \in 1..c
        PROVE  /\ Final(r[i]) /\ i < c => r[i + 1].lo = 0
               /\ ~Final(r[i]) => /\ i < c /\ r[i + 1].lo = r[i].hi
                                  /\ Address(r[i + 1]) = Address(r[i]) /\ r[i + 1].data = r[i].data
    <3>1. i < c <=> ~Final(r[i])
      BY <1>1
    <3>2. ASSUME i < c
          PROVE  /\ r[i + 1].lo = r[i].hi
                 /\ Address(r[i + 1]) = Address(r[i]) /\ r[i + 1].data = r[i].data
      <4>1. i + 1 \in 1..c
        BY <1>3, <3>2
      <4>2. r[i + 1].lo = ((i + 1) - 1) * z /\ Address(r[i + 1]) = Start(f) + offset /\ r[i + 1].data = data
        BY <1>1, <4>1
      <4>3. (i + 1) - 1 = i
        BY <1>3, SMT
      <4>4. r[i].hi = i * z
        BY <1>1, <1>2, <3>2
      <4>5. r[i + 1].lo = r[i].hi
        BY <4>2, <4>3, <4>4
      <4> QED BY <1>1, <4>2, <4>5
    <3> QED BY <3>1, <3>2
  <2> QED BY <1>1, <2>1 DEF Contiguous
<1>6. Bytes(r) = FileData(s, Start(f) + offset, data)
  <2> DEFINE address == Start(f) + offset
             Fragment(i) == DataMessage(address + (i - 1) * z, i < c,
                              SubSeq(data, (i - 1) * z + 1, Min({i * z, n})))
  <2>1. FileData(s, address, data) = FlattenSeq([i \in 1..c |-> Fragment(i)])
    BY DEF FileData, n, z, c, PieceCount
  <2>2. Bytes(r) = FlattenSeq([i \in 1..c |-> Encoding[r[i]]])
    BY <1>1 DEF Bytes, FlatMap
  <2>3. ASSUME NEW i \in 1..c PROVE Encoding[r[i]] = Fragment(i)
    <3>1. r[i] \in Sent
      BY <1>1, LenProperties
    <3>2. Encoding[r[i]] = DataMessage(Address(r[i]) + r[i].lo, ~Final(r[i]), Piece(r[i]))
      BY <3>1 DEF Encoding
    <3>3. Address(r[i]) + r[i].lo = address + (i - 1) * z
      BY <1>1
    <3>4. (~Final(r[i])) = (i < c)
      BY <1>1 DEF Final
    <3>5. Min({i * z, n}) = PieceEnd(n, z, i)
      <4> DEFINE b == i * z
                 e == PieceEnd(n, z, i)
      <4>1. b \in Nat
        BY <1>1, <1>3, SMT
      <4>2. (i < c => e = b /\ b < n) /\ (i < c <=> e # n) /\ (i = c => n <= b)
        BY <1>2
      <4>3. n \in Nat /\ (i < c \/ i = c)
        BY <1>1, <1>3
      <4> HIDE DEF b, e
      <4>4. Min({b, n}) = IF b <= n THEN b ELSE n
        BY <4>1, <4>3, Smaller
      <4>5. (IF b <= n THEN b ELSE n) = e
        BY <4>1, <4>2, <4>3, <1>1, SMT
      <4> QED BY <4>4, <4>5 DEF b, e
    <3>6. Piece(r[i]) = SubSeq(data, (i - 1) * z + 1, Min({i * z, n}))
      BY <1>1, <3>5
    <3> DEFINE a == Address(r[i]) + r[i].lo
               m == ~Final(r[i])
               d == Piece(r[i])
               a2 == address + (i - 1) * z
               m2 == i < c
               d2 == SubSeq(data, (i - 1) * z + 1, Min({i * z, n}))
    <3>7. Encoding[r[i]] = DataMessage(a, m, d)
      BY ONLY <3>2
    <3>9. a = a2
      BY ONLY <3>3
    <3>10. m = m2
      BY ONLY <3>4
    <3>11. d = d2
      BY ONLY <3>6
    <3>8. Fragment(i) = DataMessage(a2, m2, d2)
      OBVIOUS
    <3> HIDE DEF a, m, d, a2, m2, d2, Fragment
    <3> QED BY <3>7, <3>8, <3>9, <3>10, <3>11
  <2> HIDE DEF Fragment, address
  <2>4. [i \in 1..c |-> Encoding[r[i]]] = [i \in 1..c |-> Fragment(i)]
    BY <2>3
  <2> QED BY <2>1, <2>2, <2>4 DEF address
<1>7. FilesIn(r) = <<>>
  <2>1. \A i \in 1..Len(r) : FileOf[r[i]] = <<>>
    <3> SUFFICES ASSUME NEW i \in 1..c PROVE FileOf[r[i]] = <<>>
      BY <1>1
    <3>1. r[i] \in Sent /\ r[i].what = "write"
      BY <1>1, LenProperties
    <3> QED BY <3>1 DEF FileOf
  <2>2. FlatMap(FileOf, r) = <<>>
    BY <1>1, <2>1, FileParts, FlatMapNothing
  <2> QED BY <2>2 DEF FilesIn
<1>8. WritesIn(r) = <<Write(f.name, offset, data)>>
  <2> DEFINE front == SubSeq(r, 1, c - 1)
             last == r[c]
  <2>1. /\ front \in Seq(Sent) /\ Len(front) = c - 1 /\ last \in Sent
        /\ \A i \in 1..(c - 1) : front[i] = r[i]
    <3>1. \A i \in 1..(c - 1) : r[i] \in Sent
      BY <1>1, LenProperties, SMT
    <3>2. r[c] \in Sent
      BY <1>1, <1>3, LenProperties
    <3>3. c - 1 \in Nat
      BY <1>1, SMT
    <3> QED BY <1>1, <3>1, <3>2, <3>3, SubSeqProperties, SMT
  <2>2. r = front \o <<last>>
    <3>1. <<last>> = SubSeq(r, c, c)
      BY <1>1, <1>3, SMT
    <3>2. SubSeq(r, 1, c - 1) \o SubSeq(r, (c - 1) + 1, c) = SubSeq(r, 1, c)
      <4>1. 1 \in 1..(Len(r) + 1) /\ c - 1 \in (1 - 1)..Len(r) /\ c \in (c - 1)..Len(r)
        BY <1>1, SMT
      <4> QED BY <1>1, <4>1, ConcatAdjacentSubSeq
    <3>3. (c - 1) + 1 = c
      BY <1>1, SMT
    <3>4. SubSeq(r, 1, c) = r
      BY <1>1, SMT
    <3> QED BY <3>1, <3>2, <3>3, <3>4
  <2> HIDE DEF front
  <2>3. \A i \in 1..Len(front) : WriteOf[front[i]] = <<>>
    <3> SUFFICES ASSUME NEW i \in 1..(c - 1) PROVE WriteOf[r[i]] = <<>>
      BY <2>1
    <3>1. i \in 1..c /\ i < c
      BY <1>1, SMT
    <3>2. ~Final(r[i]) /\ r[i] \in Sent
      BY <1>1, <3>1, LenProperties
    <3> QED BY <3>2 DEF WriteOf
  <2>4. FlatMap(WriteOf, front) = <<>>
    BY <2>1, <2>3, WriteParts, FlatMapNothing
  <2>5. Final(last) /\ last.what = "write" /\ last.file = f /\ last.offset = offset /\ last.data = data
    <3>1. ~(c < c)
      BY <1>1, SMT
    <3> QED BY <1>1, <1>3, <3>1
  <2>6. WriteOf[last] = <<Write(f.name, offset, data)>>
    BY <2>1, <2>5 DEF WriteOf
  <2> HIDE DEF last
  <2>7. FlatMap(WriteOf, <<last>>) = WriteOf[last]
    BY <2>1, WriteParts, FlatMapOne
  <2>8. <<last>> \in Seq(Sent)
    BY <2>1
  <2>9. FlatMap(WriteOf, r) = FlatMap(WriteOf, front) \o FlatMap(WriteOf, <<last>>)
    <3>1. FlatMap(WriteOf, front \o <<last>>) = FlatMap(WriteOf, front) \o FlatMap(WriteOf, <<last>>)
      <4> DEFINE x == <<last>>
      <4>1. x \in Seq(Sent)
        BY <2>8
      <4> HIDE DEF x
      <4>2. FlatMap(WriteOf, front \o x) = FlatMap(WriteOf, front) \o FlatMap(WriteOf, x)
        BY <2>1, <4>1, WriteParts, FlatMapConcat
      <4> QED BY <4>2 DEF x
    <3> QED BY <2>2, <3>1
  <2>10. <<>> \o WriteOf[last] = WriteOf[last]
    BY <2>6
  <2> QED BY <2>4, <2>6, <2>7, <2>9, <2>10 DEF WritesIn
<1>9. \A i \in 1..Len(r) : r[i].what = "write" /\ r[i].file = f
  BY <1>1
<1> QED BY <1>1, <1>4, <1>5, <1>6, <1>7, <1>8, <1>9 DEF r

-----------------------------------------------------------------------------
(* Parts of one element each are the sequence of these elements.            *)
LEMMA FlattenSingles ==
  ASSUME NEW S, NEW s \in Seq(S)
  PROVE  FlattenSeq([i \in 1..Len(s) |-> <<s[i]>>]) = s
<1> DEFINE n == Len(s)
           t == [i \in 1..n |-> <<s[i]>>]
<1>1. n \in Nat /\ \A i \in 1..n : s[i] \in S
  BY LenProperties
<1>2. t \in Seq(Seq(S)) /\ Len(t) = n /\ \A i \in 1..n : t[i] = <<s[i]>>
  <2> HIDE DEF n
  <2>1. \A i \in 1..n : <<s[i]>> \in Seq(S)
    BY <1>1
  <2>2. t \in [1..n -> Seq(S)]
    BY <2>1
  <2> QED BY <1>1, <2>2, SeqDef, LenProperties, SMT
<1>3. CASE n = 0
  <2>1. s = <<>>
    BY <1>3, EmptySeq
  <2>2. t = <<>>
    <3> HIDE DEF t
    <3> QED BY <1>2, <1>3, EmptySeq
  <2> HIDE DEF t
  <2> QED BY <2>1, <2>2, FlattenEmpty DEF t
<1>4. CASE n # 0
  <2>1. t # <<>>
    <3> HIDE DEF t
    <3> QED BY <1>2, <1>4, EmptySeq
  <2> HIDE DEF t
  <2>2. PICK f \in [1..Len(t) -> Seq(S)] :
           /\ f[1] = t[1]
           /\ \A i \in 1..Len(t) : i # 1 => f[i] = f[i - 1] \o t[i]
           /\ FlattenSeq(t) = f[Len(t)]
    BY ONLY <1>2, <2>1, FlattenedBy
  <2> DEFINE Bad == {k \in 1..n : f[k] # SubSeq(s, 1, k)}
  <2> HIDE DEF n
  <2>3. Bad = {}
    <3> SUFFICES ASSUME Bad # {} PROVE FALSE
      OBVIOUS
    <3>1. Bad \subseteq Nat
      BY <1>1
    <3> HIDE DEF Bad
    <3>2. PICK k \in Bad : \A y \in Bad : ~(y < k)
      BY <3>1, LeastExists
    <3>3. k \in 1..n /\ f[k] # SubSeq(s, 1, k)
      BY <3>2 DEF Bad
    <3>4. CASE k = 1
      <4>2. <<s[k]>> = SubSeq(s, k, k)
        BY <1>1, <3>3, SMT DEF n
      <4>1. SubSeq(s, 1, 1) = <<s[1]>>
        BY <3>4, <4>2
      <4> QED BY <1>2, <2>2, <3>3, <3>4, <4>1
    <3>5. CASE k # 1
      <4>1. k - 1 \in 1..n /\ k - 1 < k /\ k \in Nat
        BY <1>1, <3>3, <3>5, SMT
      <4>2. k - 1 \notin Bad
        BY <3>2, <4>1
      <4>3. f[k - 1] = SubSeq(s, 1, k - 1)
        BY <4>1, <4>2 DEF Bad
      <4>4. f[k] = SubSeq(s, 1, k - 1) \o <<s[k]>>
        BY <1>2, <2>2, <3>3, <3>5, <4>3
      <4>5. <<s[k]>> = SubSeq(s, k, k)
        BY <1>1, <3>3, SMT DEF n
      <4>6. SubSeq(s, 1, k - 1) \o SubSeq(s, (k - 1) + 1, k) = SubSeq(s, 1, k)
        <5>1. 1 \in 1..(Len(s) + 1) /\ k - 1 \in (1 - 1)..Len(s) /\ k \in (k - 1)..Len(s)
          BY <1>1, <3>3, <4>1, SMT DEF n
        <5> QED BY <5>1, ConcatAdjacentSubSeq
      <4>7. (k - 1) + 1 = k
        BY <4>1, SMT
      <4> QED BY <3>3, <4>4, <4>5, <4>6, <4>7
    <3> QED BY <3>4, <3>5
  <2>4. n \in 1..n
    BY <1>1, <1>4, SMT
  <2>5. f[n] = SubSeq(s, 1, n)
    BY <2>3, <2>4
  <2>6. SubSeq(s, 1, n) = s
    BY SMT DEF n
  <2> QED BY <1>2, <2>2, <2>5, <2>6 DEF t, n
<1> QED BY <1>3, <1>4

(* All files of a list, published in its order.                             *)
AllPublished(files) == [i \in 1..Len(files) |-> Published(files[i])]
(* A list of files is published as one packet for each file.                *)
LEMMA AllPublishedFacts ==
  ASSUME Room, Enough, NEW files \in Seq(Files)
  PROVE  LET r == AllPublished(files)
         IN /\ r \in Seq(Sent) /\ Contiguous(r) /\ (r # <<>> => r[1].lo = 0)
            /\ Bytes(r) = FlattenSeq([i \in DOMAIN files |-> Publish(files[i])])
            /\ FilesIn(r) = files /\ WritesIn(r) = <<>>
            /\ \A i \in 1..Len(r) : r[i].what = "publish"
<1> DEFINE r == AllPublished(files)
           n == Len(files)
<1>1. n \in Nat /\ DOMAIN files = 1..n /\ \A i \in 1..n : files[i] \in Files
  BY LenProperties
<1>2. r = [i \in 1..n |-> Published(files[i])]
  BY DEF AllPublished
<1> HIDE DEF n, r
<1>3. ASSUME NEW i \in 1..n
      PROVE  LET p == Published(files[i])
             IN /\ p \in Sent /\ p.what = "publish" /\ p.lo = 0 /\ Final(p)
                /\ Encoding[p] = Publish(files[i]) /\ FileOf[p] = <<files[i]>> /\ WriteOf[p] = <<>>
  <2> DEFINE f == files[i]
  <2>1. f \in Files
    BY <1>1
  <2> HIDE DEF f
  <2>2. LET p == Published(f)
        IN /\ p \in Sent /\ p.what = "publish" /\ p.lo = 0 /\ Final(p)
           /\ Encoding[p] = Publish(f) /\ FileOf[p] = <<f>> /\ WriteOf[p] = <<>>
    BY <2>1, PublishPacket
  <2> QED BY <2>2 DEF f
<1>4. r \in Seq(Sent) /\ Len(r) = n
  <2>1. r \in [1..n -> Sent]
    BY <1>2, <1>3
  <2> QED BY <1>1, <1>2, <2>1, SeqDef, LenProperties, SMT
<1>5. \A i \in 1..n : /\ r[i].what = "publish" /\ r[i].lo = 0 /\ Final(r[i])
                      /\ Encoding[r[i]] = Publish(files[i]) /\ FileOf[r[i]] = <<files[i]>>
                      /\ WriteOf[r[i]] = <<>>
  BY <1>2, <1>3
<1>6. Contiguous(r)
  <2>1. \A i \in 1..n : i < n => i + 1 \in 1..n
    BY <1>1, SMT
  <2> QED BY <1>4, <1>5, <2>1 DEF Contiguous
<1>7. r # <<>> => r[1].lo = 0
  <2>1. r # <<>> => 1 \in 1..n
    BY <1>1, <1>4, EmptySeq, SMT
  <2> QED BY <1>5, <2>1
<1>8. Bytes(r) = FlattenSeq([i \in DOMAIN files |-> Publish(files[i])])
  <2>1. [i \in 1..n |-> Encoding[r[i]]] = [i \in 1..n |-> Publish(files[i])]
    BY <1>5
  <2> QED BY <1>1, <1>4, <2>1 DEF Bytes, FlatMap
<1>9. FilesIn(r) = files
  <2>1. [i \in 1..n |-> FileOf[r[i]]] = [i \in 1..n |-> <<files[i]>>]
    BY <1>5
  <2>2. FlattenSeq([i \in 1..n |-> <<files[i]>>]) = files
    BY FlattenSingles DEF n
  <2> QED BY <1>4, <2>1, <2>2 DEF FilesIn, FlatMap
<1>10. WritesIn(r) = <<>>
  <2>1. \A i \in 1..Len(r) : WriteOf[r[i]] = <<>>
    BY <1>4, <1>5
  <2>2. FlatMap(WriteOf, r) = <<>>
    BY <1>4, <2>1, WriteParts, FlatMapNothing
  <2> QED BY <2>2 DEF WritesIn
<1> QED BY <1>4, <1>5, <1>6, <1>7, <1>8, <1>9, <1>10 DEF r

-----------------------------------------------------------------------------
(* A file map, and files no two of which have the same name.                *)
Maps == [files : Seq(Files), last : Nat]
UniqueNames(files) == \A i, j \in DOMAIN files : files[i].name = files[j].name => i = j

(* The elements of a sequence.                                              *)
LEMMA Elements ==
  ASSUME NEW S, NEW s \in Seq(S)
  PROVE  /\ Len(s) \in Nat /\ DOMAIN s = 1..Len(s) /\ Range(s) = {s[i] : i \in 1..Len(s)}
         /\ \A i \in 1..Len(s) : s[i] \in S /\ s[i] \in Range(s)
         /\ Range(s) \subseteq S
<1>1. Len(s) \in Nat /\ DOMAIN s = 1..Len(s) /\ \A i \in 1..Len(s) : s[i] \in S
  BY LenProperties
<1>2. Range(s) = {s[i] : i \in 1..Len(s)}
  BY <1>1 DEF Range
<1> QED BY <1>1, <1>2

(* A search for what one file at most is finds it, if it is there.          *)
LEMMA Searched ==
  ASSUME NEW map \in Maps, NEW fits, fits \subseteq Range(map.files),
         \A f, g \in fits : f = g
  PROVE  /\ Search(map, fits).found = fits
         /\ Search(map, fits).map \in Maps /\ Search(map, fits).map.files = map.files
<1> DEFINE files == map.files
           cached == {f \in Range(files) : Start(f) = map.last} \cap fits
           inList == {i \in DOMAIN files : files[i] \in fits}
           first == files[Min(inList)]
           result == Search(map, fits)
<1>1. /\ files \in Seq(Files) /\ map.last \in Nat
      /\ map = [files |-> files, last |-> map.last]
  BY DEF Maps
<1>2. result = IF cached # {} THEN [found |-> cached, map |-> map]
               ELSE IF inList = {} THEN [found |-> {}, map |-> map]
               ELSE [found |-> {first}, map |-> [map EXCEPT !.last = Start(first)]]
  BY DEF Search
<1>3. DOMAIN files = 1..Len(files) /\ Range(files) = {files[i] : i \in 1..Len(files)}
      /\ Range(files) \subseteq Files
  BY <1>1, Elements
<1>4. fits \subseteq {files[i] : i \in DOMAIN files}
  BY <1>3
<1> HIDE DEF files, result
<1>5. CASE cached # {}
  <2>1. cached = fits
    BY <1>5
  <2> QED BY <1>2, <1>5, <2>1 DEF result, files
<1>6. CASE cached = {} /\ inList = {}
  <2>1. fits = {}
    BY <1>4, <1>6
  <2> QED BY <1>2, <1>6, <2>1 DEF result, files
<1>7. CASE cached = {} /\ inList # {}
  <2>1. inList \subseteq Nat
    BY <1>3
  <2>2. Min(inList) \in inList
    <3> HIDE DEF inList
    <3>1. PICK x \in inList : \A y \in inList : ~(y < x)
      BY <1>7, <2>1, LeastExists
    <3>2. \A y \in inList : x <= y
      BY <2>1, <3>1, SMT
    <3>3. Min(inList) = CHOOSE z \in inList : \A y \in inList : z <= y
      BY DEF Min
    <3> QED BY <3>2, <3>3
  <2>3. first \in fits
    BY <2>2
  <2> HIDE DEF first
  <2>4. fits = {first}
    BY <2>3
  <2>5. Start(first) \in Nat
    BY <1>3, <2>3, FileFacts DEF files
  <2>6. result = [found |-> {first}, map |-> [map EXCEPT !.last = Start(first)]]
    BY <1>2, <1>7
  <2> DEFINE m == [map EXCEPT !.last = Start(first)]
  <2>7. m \in Maps /\ m.files = map.files
    BY <2>5 DEF Maps
  <2>8. result = [found |-> {first}, map |-> m]
    BY <2>6
  <2> HIDE DEF m
  <2>9. result.found = {first} /\ result.map = m
    BY <2>8
  <2> QED BY <2>4, <2>7, <2>9 DEF result
<1> QED BY <1>5, <1>6, <1>7

(* Two files that lie apart have no address in common.                      *)
LEMMA OneCovers ==
  ASSUME NEW files \in Seq(Files), Apart(files), NEW f \in Range(files), NEW g \in Range(files),
         NEW a \in Nat, Covers(f, a), Covers(g, a)
  PROVE  f = g
<1>1. /\ Len(files) \in Nat /\ DOMAIN files = 1..Len(files)
      /\ Range(files) = {files[i] : i \in 1..Len(files)}
      /\ \A i \in 1..Len(files) : files[i] \in Files
  BY Elements
<1>2. PICK i \in 1..Len(files), j \in 1..Len(files) : f = files[i] /\ g = files[j]
  BY <1>1
<1>3. /\ Start(f) \in Nat /\ End(f) \in Nat /\ Start(g) \in Nat /\ End(g) \in Nat
  BY <1>1, <1>2, FileFacts
<1>4. Start(f) <= a /\ a < End(f) /\ Start(g) <= a /\ a < End(g)
  BY DEF Covers
<1>5. ~(i < j) /\ ~(j < i)
  <2>1. i < j => End(f) <= Start(g)
    BY <1>1, <1>2 DEF Apart
  <2>2. j < i => End(g) <= Start(f)
    BY <1>1, <1>2 DEF Apart
  <2> QED BY <1>3, <1>4, <2>1, <2>2, SMT
<1>6. i = j
  BY <1>1, <1>5, SMT
<1> QED BY <1>2, <1>6

(* In a list of files that do not overlap the file that covers an address   *)
(* is found, the only one (file_map.c:142-171).                             *)
LEMMA FoundByAddress ==
  ASSUME NEW map \in Maps, Apart(map.files), NEW f \in Range(map.files), NEW a \in Nat, Covers(f, a)
  PROVE  /\ apx_fileMap_find_by_address(map, a).found = {f}
         /\ apx_fileMap_find_by_address(map, a).map \in Maps
         /\ apx_fileMap_find_by_address(map, a).map.files = map.files
<1> DEFINE fits == {g \in Range(map.files) : Covers(g, a)}
<1>1. map.files \in Seq(Files)
  BY DEF Maps
<1>2. fits = {f} /\ fits \subseteq Range(map.files) /\ \A g, h \in fits : g = h
  BY <1>1, OneCovers
<1>3. apx_fileMap_find_by_address(map, a) = Search(map, fits)
  BY DEF apx_fileMap_find_by_address
<1> HIDE DEF fits
<1>4. /\ Search(map, fits).found = fits
      /\ Search(map, fits).map \in Maps /\ Search(map, fits).map.files = map.files
  BY <1>2, Searched
<1> QED BY <1>2, <1>3, <1>4

(* If no two files have the same name, a name finds the file that has it    *)
(* (file_map.c:173-202).                                                    *)
LEMMA FoundByName ==
  ASSUME NEW map \in Maps, UniqueNames(map.files), NEW name
  PROVE  /\ apx_fileMap_find_by_name(map, name).found = {f \in Range(map.files) : f.name = name}
         /\ apx_fileMap_find_by_name(map, name).map \in Maps
         /\ apx_fileMap_find_by_name(map, name).map.files = map.files
         /\ \A f, g \in apx_fileMap_find_by_name(map, name).found : f = g
<1> DEFINE fits == {f \in Range(map.files) : f.name = name}
<1>1. map.files \in Seq(Files)
  BY DEF Maps
<1>2. fits \subseteq Range(map.files) /\ \A g, h \in fits : g = h
  <2>1. /\ DOMAIN map.files = 1..Len(map.files)
        /\ Range(map.files) = {map.files[i] : i \in 1..Len(map.files)}
    BY <1>1, Elements
  <2> QED BY <2>1 DEF UniqueNames
<1>3. apx_fileMap_find_by_name(map, name) = Search(map, fits)
  BY DEF apx_fileMap_find_by_name
<1> HIDE DEF fits
<1>4. /\ Search(map, fits).found = fits
      /\ Search(map, fits).map \in Maps /\ Search(map, fits).map.files = map.files
  BY <1>2, Searched
<1> QED BY <1>2, <1>3, <1>4 DEF fits

(* A file that is put behind all others.                                    *)
LEMMA InsertedLast ==
  ASSUME NEW S, NEW files \in Seq(S), NEW f \in S
  PROVE  InsertAt(files, Len(files) + 1, f) = files \o <<f>>
<1> DEFINE n == Len(files)
           t == InsertAt(files, n + 1, f)
           u == files \o <<f>>
           one == <<f>>
<1>1. n \in Nat /\ n + 1 \in 1..(n + 1)
  BY LenProperties, SMT
<1>2. /\ t \in Seq(S) /\ Len(t) = n + 1
      /\ \A k \in 1..(n + 1) :
           t[k] = IF k < n + 1 THEN files[k] ELSE IF k = n + 1 THEN f ELSE files[k - 1]
  BY <1>1, Inserted
<1>3. one \in Seq(S) /\ Len(one) = 1 /\ one[1] = f
  BY SMT
<1> HIDE DEF one
<1>4. /\ files \o one \in Seq(S) /\ Len(files \o one) = n + 1
      /\ \A i \in 1..n : (files \o one)[i] = files[i]
      /\ \A i \in 1..1 : (files \o one)[n + i] = one[i]
  BY <1>3, ConcatElements
<1>5. u = files \o one
  BY DEF one
<1> HIDE DEF n, t, u
<1>6. \A k \in 1..(n + 1) : t[k] = u[k]
  <2> SUFFICES ASSUME NEW k \in 1..(n + 1) PROVE t[k] = u[k]
    OBVIOUS
  <2>1. CASE k < n + 1
    <3>1. k \in 1..n
      BY <1>1, <2>1, SMT
    <3> QED BY <1>2, <1>4, <1>5, <2>1, <3>1
  <2>2. CASE k = n + 1
    <3>1. u[n + 1] = one[1]
      BY <1>4, <1>5, SMT
    <3>2. ~(n + 1 < n + 1)
      BY <1>1, SMT
    <3> QED BY <1>2, <1>3, <2>2, <3>1, <3>2
  <2> QED BY <1>1, <2>1, <2>2, SMT
<1>7. t = u
  <2>1. u \in Seq(S) /\ Len(u) = Len(t) /\ \A i \in 1..Len(t) : t[i] = u[i]
    BY <1>2, <1>4, <1>5, <1>6
  <2> QED BY <1>2, <2>1, SeqEqual
<1> QED BY <1>7 DEF t, u, n

(* A file behind all others is inserted last.                               *)
LEMMA ItemLast ==
  ASSUME NEW files \in Seq(Files), NEW f \in Files,
         Len(files) > 0 => End(files[Len(files)]) <= Start(f)
  PROVE  insert_item(files, f, Len(files)) =
           [result |-> "created", file |-> f, files |-> files \o <<f>>]
<1>1. Len(files) \in Nat /\ ~(Len(files) < Len(files))
  BY LenProperties, SMT
<1>2. insert_item(files, f, Len(files)) =
        [result |-> "created", file |-> f, files |-> InsertAt(files, Len(files) + 1, f)]
  BY <1>1 DEF insert_item
<1>3. InsertAt(files, Len(files) + 1, f) = files \o <<f>>
  BY InsertedLast
<1> QED BY <1>2, <1>3

(* An address behind all others has its place at the end.                   *)
LEMMA PositionLast ==
  ASSUME NEW files \in Seq(Files), NEW a, \A i \in 1..Len(files) : Start(files[i]) < a
  PROVE  find_next_available_position(files, a) = Len(files)
<1> DEFINE n == Len(files)
           before == {i \in DOMAIN files : \A j \in 1..i : Start(files[j]) < a}
<1>1. n \in Nat /\ DOMAIN files = 1..n
  BY LenProperties
<1>2. before = 1..n
  <2>1. \A i \in 1..n : \A j \in 1..i : j \in 1..n
    BY <1>1, SMT
  <2> QED BY <1>1, <2>1
<1>3. find_next_available_position(files, a) = Cardinality(before)
  BY DEF find_next_available_position
<1> HIDE DEF n, before
<1>4. Cardinality(1..n) = n
  BY <1>1, FS_Interval, SMT
<1> QED BY <1>2, <1>3, <1>4 DEF n

(* A published file that lies above all that are known becomes the last.    *)
LEMMA CreatedLast ==
  ASSUME NEW files \in Seq(Files), NEW f \in Files,
         \A i \in 1..Len(files) : End(files[i]) <= Start(f)
  PROVE  apx_fileMap_create_file(files, f) =
           [result |-> "created", file |-> f, files |-> files \o <<f>>]
<1>1. Len(files) \in Nat /\ \A i \in 1..Len(files) : files[i] \in Files
  BY LenProperties
<1>2. f.address # INVALID_ADDRESS /\ Start(f) \in Nat
  BY FileFacts
<1>3. \A i \in 1..Len(files) : Start(files[i]) < Start(f)
  <2> SUFFICES ASSUME NEW i \in 1..Len(files) PROVE Start(files[i]) < Start(f)
    OBVIOUS
  <2> DEFINE g == files[i]
  <2>1. g \in Files /\ End(g) <= Start(f)
    BY <1>1
  <2> HIDE DEF g
  <2>2. Start(g) \in Nat /\ End(g) \in Nat /\ Start(g) < End(g)
    BY <2>1, FileFacts
  <2>3. Start(g) < Start(f)
    BY <1>2, <2>1, <2>2, SMT
  <2> QED BY <2>3 DEF g
<1>4. find_next_available_position(files, Start(f)) = Len(files)
  BY <1>3, PositionLast
<1>5. apx_fileMap_create_file(files, f) = insert_item(files, f, Len(files))
  BY <1>2, <1>4 DEF apx_fileMap_create_file, Start
<1>6. Len(files) > 0 => End(files[Len(files)]) <= Start(f)
  BY <1>1, SMT
<1> QED BY <1>5, <1>6, ItemLast

-----------------------------------------------------------------------------
(* The area of a file type, divided among the nodes.                        *)
AreaSize(type) == IF type = ExtDefinition THEN CMD_AREA_START - DefinitionStart ELSE DefinitionStart
Share(type) == AreaSize(type) \div Cardinality(Nodes)

(* There are finitely many nodes, so that they can be counted.              *)
LEMMA NodesFinite == IsFiniteSet(Nodes) /\ Cardinality(Nodes) \in Nat
<1>1. IsFiniteSet(0..(Base - 1))
  BY BaseFacts, FS_Interval, SMT
<1>2. Nodes \in SUBSET (0..(Base - 1))
  BY WireAssumption DEF Byte
<1>3. IsFiniteSet(Nodes)
  BY <1>1, <1>2, FS_Subset
<1> QED BY <1>3, FS_CardinalityType

(* The share of a node in the area of a file type holds its file, wherever  *)
(* alignment puts it.                                                       *)
LEMMA Shares ==
  ASSUME SizesFit, NEW n \in Nodes, NEW type \in Exts
  PROVE  /\ Cardinality(Nodes) \in Nat \ {0} /\ AreaSize(type) \in Nat /\ Share(type) \in Nat
         /\ Cardinality(Nodes) * Share(type) <= AreaSize(type)
         /\ SizeOf(FileName(n, type)) \in Nat /\ SizeOf(FileName(n, type)) <= CmdAreaSize
         /\ SizeOf(FileName(n, type)) + Alignment(type) <= Share(type)
         /\ AreaStart(type) \in Nat /\ Alignment(type) \in Nat \ {0}
         /\ AreaStart(type) + AreaSize(type) <= CMD_AREA_START
<1> DEFINE N == Cardinality(Nodes)
           A == AreaSize(type)
           x == SizeOf(FileName(n, type)) + Alignment(type)
           q == Share(type)
           r == A % N
<1>1. N \in Nat \ {0}
  <2>1. Nodes # {}
    OBVIOUS
  <2>2. N # 0
    BY <2>1, NodesFinite, FS_EmptySet
  <2> QED BY <2>2, NodesFinite
<1>2. AreaStart(type) \in Nat /\ Alignment(type) \in Nat \ {0}
  BY AreaTypes
<1>3. CMD_AREA_START \in Nat /\ DefinitionStart \in Nat
  BY AddressLimits, FileMapAssumption
<1>4. /\ SizeOf(FileName(n, type)) \in Nat /\ SizeOf(FileName(n, type)) <= CmdAreaSize
      /\ N * x <= A
      /\ N * (DefinitionSize[n] + DefinitionAlignment) <= CMD_AREA_START - DefinitionStart
      /\ DefinitionSize[n] \in Nat
  <2>1. /\ DefinitionSize[n] \in 1..CmdAreaSize /\ ProvideSize[n] \in 0..CmdAreaSize
        /\ RequireSize[n] \in 0..CmdAreaSize
        /\ N * (ProvideSize[n] + PortDataAlignment) <= DefinitionStart
        /\ N * (RequireSize[n] + PortDataAlignment) <= DefinitionStart
        /\ N * (DefinitionSize[n] + DefinitionAlignment) <= CMD_AREA_START - DefinitionStart
    BY DEF SizesFit
  <2>2. CmdAreaSize \in Nat
    BY RemoteFileAssumption, BaseFacts, SMT
  <2>3. /\ DefinitionSize[n] \in Nat /\ DefinitionSize[n] <= CmdAreaSize
        /\ ProvideSize[n] \in Nat /\ ProvideSize[n] <= CmdAreaSize
        /\ RequireSize[n] \in Nat /\ RequireSize[n] <= CmdAreaSize
    BY <2>1, <2>2, SMT
  <2>4. /\ FileName(n, type)[1] = n /\ FileName(n, type)[2] = type
    BY DEF FileName
  <2>5. CASE type = ExtDefinition
    <3>1. SizeOf(FileName(n, type)) = DefinitionSize[n] /\ Alignment(type) = DefinitionAlignment
          /\ A = CMD_AREA_START - DefinitionStart
      BY <2>4, <2>5 DEF SizeOf, Alignment, AreaSize, ExtDefinition, ExtProvide, ExtRequire
    <3> QED BY <2>1, <2>3, <3>1
  <2>6. CASE type = ExtProvide
    <3>1. SizeOf(FileName(n, type)) = ProvideSize[n] /\ Alignment(type) = PortDataAlignment
          /\ A = DefinitionStart
      BY <2>4, <2>6 DEF SizeOf, Alignment, AreaSize, ExtDefinition, ExtProvide, ExtRequire
    <3> QED BY <2>1, <2>3, <3>1
  <2>7. CASE type = ExtRequire
    <3>1. SizeOf(FileName(n, type)) = RequireSize[n] /\ Alignment(type) = PortDataAlignment
          /\ A = DefinitionStart
      BY <2>4, <2>7 DEF SizeOf, Alignment, AreaSize, ExtDefinition, ExtProvide, ExtRequire
    <3> QED BY <2>1, <2>3, <3>1
  <2> QED BY <2>5, <2>6, <2>7 DEF Exts
<1>5. DefinitionStart <= CMD_AREA_START
  <2> DEFINE y == DefinitionSize[n] + DefinitionAlignment
             z == N * y
  <2>1. y \in Nat
    BY <1>4, FileMapAssumption, SMT
  <2> HIDE DEF y, N
  <2>2. z \in Nat
    BY <1>1, <2>1, SMT
  <2>3. z <= CMD_AREA_START - DefinitionStart
    BY <1>4 DEF y
  <2> HIDE DEF z
  <2> QED BY <1>3, <2>2, <2>3, SMT
<1>6. A \in Nat /\ AreaStart(type) + A <= CMD_AREA_START
  <2>1. CASE type = ExtDefinition
    <3>1. A = CMD_AREA_START - DefinitionStart /\ AreaStart(type) = DefinitionStart
      BY <2>1 DEF AreaSize, AreaStart
    <3> QED BY <1>3, <1>5, <3>1, SMT
  <2>2. CASE type # ExtDefinition
    <3>1. A = DefinitionStart /\ AreaStart(type) = 0
      BY <2>2 DEF AreaSize, AreaStart, Exts, ExtDefinition, ExtProvide, ExtRequire
    <3> QED BY <1>3, <1>5, <3>1, SMT
  <2> QED BY <2>1, <2>2
<1>7. x \in Nat
  BY <1>2, <1>4, SMT
<1> HIDE DEF N, A, x
<1>8. q \in Nat /\ r \in Nat /\ r < N /\ A = q * N + r
  BY <1>1, <1>6, DivMod DEF Share, N, A
<1> HIDE DEF q, r
<1>9. N * q <= A
  <2> DEFINE m == q * N
  <2>1. m \in Nat /\ N * q = m
    BY <1>1, <1>8, SMT
  <2> HIDE DEF m
  <2> QED BY <1>8, <2>1, SMT DEF m
<1>10. x <= q
  <2> SUFFICES ASSUME ~(x <= q) PROVE FALSE
    OBVIOUS
  <2> DEFINE e == x - (q + 1)
             m == q * N
             k == e * N
  <2>1. e \in Nat /\ x = (q + 1) + e
    BY <1>7, <1>8, SMT
  <2> HIDE DEF e
  <2>2. k \in Nat /\ m \in Nat
    BY <1>1, <1>8, <2>1, SMT
  <2>3. N * x = m + N + k
    BY <1>1, <1>8, <2>1, SMT
  <2> DEFINE y == N * x
  <2>4. y <= A /\ y = m + N + k /\ A = m + r
    BY <1>4, <1>8, <2>3 DEF N, A, x
  <2> HIDE DEF k, m, y
  <2> QED BY <1>1, <1>6, <1>8, <2>2, <2>4, SMT
<1> QED BY <1>1, <1>2, <1>4, <1>6, <1>8, <1>9, <1>10 DEF N, A, x, q

(* k of the shares fit if there are k nodes.                                *)
LEMMA SharesOf ==
  ASSUME SizesFit, NEW n \in Nodes, NEW type \in Exts, NEW k \in Nat, k <= Cardinality(Nodes)
  PROVE  k * Share(type) \in Nat /\ k * Share(type) <= AreaSize(type)
<1> DEFINE N == Cardinality(Nodes)
           A == AreaSize(type)
           q == Share(type)
           e == N - k
<1>1. N \in Nat \ {0} /\ A \in Nat /\ q \in Nat /\ N * q <= A
  BY Shares
<1>2. e \in Nat /\ N = k + e
  BY <1>1, SMT
<1> HIDE DEF N, A, q, e
<1>3. N * q = k * q + e * q /\ k * q \in Nat /\ e * q \in Nat
  BY <1>1, <1>2, SMT
<1> DEFINE x == k * q
           y == e * q
<1>4. x + y <= A /\ x \in Nat /\ y \in Nat
  BY <1>1, <1>3
<1> HIDE DEF x, y
<1>5. x <= A
  BY <1>1, <1>4, SMT
<1> QED BY <1>4, <1>5 DEF x, A, q

(* Different nodes: there are no more of them than nodes.                   *)
LEMMA NodesCounted ==
  ASSUME NEW k \in Nat, NEW g \in [1..k -> Nodes], \A i, j \in 1..k : g[i] = g[j] => i = j
  PROVE  k <= Cardinality(Nodes)
<1>1. IsFiniteSet(1..k) /\ Cardinality(1..k) = k
  BY FS_Interval, SMT
<1>2. ~(Cardinality(Nodes) < Cardinality(1..k))
  <2> SUFFICES ASSUME Cardinality(Nodes) < Cardinality(1..k) PROVE FALSE
    OBVIOUS
  <2>1. \E x, y \in 1..k : x # y /\ g[x] = g[y]
    BY <1>1, NodesFinite, FS_PigeonHole
  <2> QED BY <2>1
<1> QED BY <1>1, <1>2, NodesFinite, SMT

(* Alignment skips less than one unit.                                      *)
LEMMA AlignedBelow ==
  ASSUME NEW a \in Nat, NEW n \in Nat \ {0}
  PROVE  Aligned(a, n) \in Nat /\ a <= Aligned(a, n) /\ Aligned(a, n) < a + n
<1> DEFINE v == a + n - 1
           q == v \div n
           r == v % n
           m == q * n
<1>1. v \in Nat
  BY SMT
<1>2. q \in Nat /\ r \in Nat /\ r < n /\ v = q * n + r
  BY <1>1, DivMod
<1>3. Aligned(a, n) = m
  BY DEF Aligned
<1>4. m \in Nat
  <2> HIDE DEF q
  <2> QED BY <1>2, SMT
<1>5. a + n - 1 = m + r
  BY <1>2
<1> HIDE DEF m, r
<1> QED BY <1>2, <1>3, <1>4, <1>5, SMT

-----------------------------------------------------------------------------
(* The k-th file of a type lies within the first k shares of its area.      *)
InShare(f, type, k) ==
  /\ FileType(f) = type /\ AreaStart(type) <= Start(f)
  /\ End(f) + Alignment(type) <= AreaStart(type) + k * Share(type)

(* The files of a type follow each other, between two places of the list.   *)
Block(files, type, from, to) ==
  /\ from \in Nat /\ to \in Nat /\ from <= to /\ to <= Len(files)
  /\ \A i \in 1..Len(files) : /\ (from < i /\ i <= to) => InShare(files[i], type, i - from)
                              /\ ~(from < i /\ i <= to) => FileType(files[i]) # type

(* The last file of a type is found at the end of its block.                *)
LEMMA LastOfBlock ==
  ASSUME NEW files \in Seq(Files), NEW type, NEW from, NEW to, Block(files, type, from, to)
  PROVE  find_last_element_of_type(files, type) = IF from = to THEN 0 ELSE to
<1> DEFINE OfType(i) == FileType(files[i]) = type
           run == {i \in DOMAIN files : OfType(i) /\
                     \A j, k \in 1..i : (OfType(j) /\ j <= k) => OfType(k)}
           n == Len(files)
<1>1. n \in Nat /\ DOMAIN files = 1..n
  BY LenProperties
<1>2. /\ from \in Nat /\ to \in Nat /\ from <= to /\ to <= n
      /\ \A i \in 1..n : OfType(i) <=> (from < i /\ i <= to)
  BY DEF Block, InShare
<1>3. find_last_element_of_type(files, type) = IF run = {} THEN 0 ELSE Max(run)
  BY DEF find_last_element_of_type
<1>4. \A i \in run : i \in 1..n /\ from < i /\ i <= to
  BY <1>1, <1>2
<1>5. CASE from = to
  <2>1. run = {}
    <3> HIDE DEF run
    <3>1. \A i \in run : FALSE
      BY <1>1, <1>2, <1>4, <1>5, SMT
    <3> QED BY <3>1
  <2> QED BY <1>3, <1>5, <2>1
<1>6. CASE from # to
  <2>1. to \in run
    <3>1. to \in 1..n /\ from < to
      BY <1>1, <1>2, <1>6, SMT
    <3>2. OfType(to)
      BY <1>1, <1>2, <3>1, SMT
    <3>3. ASSUME NEW j \in 1..to, NEW k \in 1..to, OfType(j), j <= k PROVE OfType(k)
      <4>1. j \in 1..n /\ k \in 1..n
        BY <1>1, <1>2, <3>3, SMT
      <4>2. from < j
        BY <1>2, <3>3, <4>1
      <4>3. from < k /\ k <= to
        BY <1>2, <3>3, <4>1, <4>2, SMT
      <4> QED BY <1>2, <4>1, <4>3
    <3> QED BY <1>1, <3>1, <3>2, <3>3
  <2>2. \A y \in run : to >= y
    BY <1>1, <1>2, <1>4, SMT
  <2>3. \A y \in run : y \in Nat
    BY <1>4
  <2> HIDE DEF run
  <2>4. Max(run) = CHOOSE x \in run : \A y \in run : x >= y
    BY DEF Max
  <2>5. \A x \in run : (\A y \in run : x >= y) => x = to
    BY <1>2, <2>1, <2>2, <2>3, SMT
  <2>6. Max(run) = to
    BY <2>1, <2>2, <2>4, <2>5
  <2> QED BY <1>3, <1>6, <2>1, <2>6
<1> QED BY <1>5, <1>6

(* A new file, as a node gives it to the map and as the map completes it.   *)
NewFile(n, type, a) ==
  [FileInfo(FileName(n, type), SizeOf(FileName(n, type))) EXCEPT !.address = a]

(* A file that create_file makes is one a session knows.                    *)
LEMMA NewFileFacts ==
  ASSUME NEW n \in Nodes, NEW type \in Exts, NEW a \in Nat,
         SizeOf(FileName(n, type)) \in Nat \ {0}, SizeOf(FileName(n, type)) <= CmdAreaSize,
         a + SizeOf(FileName(n, type)) <= CMD_AREA_START
  PROVE  /\ NewFile(n, type, a) \in Files /\ NewFile(n, type, a).name = FileName(n, type)
         /\ Start(NewFile(n, type, a)) = a /\ NewFile(n, type, a).size = SizeOf(FileName(n, type))
         /\ End(NewFile(n, type, a)) = a + SizeOf(FileName(n, type))
         /\ FileType(NewFile(n, type, a)) = type
<1> DEFINE name == FileName(n, type)
           size == SizeOf(name)
           d == [i \in 1..DigestSize |-> IF name[2] = ExtDefinition THEN name[1] ELSE 0]
           t == IF name[2] = ExtDefinition THEN 2 ELSE 0
           f == NewFile(n, type, a)
<1>1. name = <<n, type>> /\ name \in Names /\ name[1] = n /\ name[2] = type /\ Len(name) = 2
  BY DEF FileName, Names
<1>2. d \in Digests
  <2>1. n \in Byte /\ 0 \in Byte
    BY WireAssumption, BaseFacts, SMT DEF Byte
  <2>2. DigestSize \in Nat
    BY RemoteFileAssumption
  <2>3. d \in [1..DigestSize -> Byte]
    BY <1>1, <2>1
  <2>4. DOMAIN d = 1..DigestSize
    OBVIOUS
  <2> HIDE DEF d
  <2>5. d \in Seq(Byte) /\ Len(d) = DigestSize
    BY <2>2, <2>3, <2>4, SeqDef, LenProperties, SMT
  <2> QED BY <2>5 DEF Digests
<1>3. t \in {0, 2}
  OBVIOUS
<1>4. f = [name |-> name, address |-> a, size |-> size, type |-> 0, digest_type |-> t, digest |-> d]
  <2> DEFINE info == FileInfo(name, size)
  <2>1. info = [name |-> name, address |-> INVALID_ADDRESS, size |-> size, type |-> 0,
                digest_type |-> t, digest |-> d]
    BY DEF FileInfo
  <2>2. f = [info EXCEPT !.address = a]
    BY DEF NewFile
  <2> HIDE DEF name, size, d, t, f, info
  <2> QED BY <2>1, <2>2
<1>5. size \in 1..CmdAreaSize /\ a \in 0..CMD_AREA_START
  <2>1. CmdAreaSize \in Nat /\ CMD_AREA_START \in Nat
    BY AddressLimits, RemoteFileAssumption, BaseFacts, SMT
  <2> HIDE DEF size
  <2>2. size \in Nat \ {0} /\ size <= CmdAreaSize /\ a + size <= CMD_AREA_START
    BY DEF size
  <2> QED BY <2>1, <2>2, SMT
<1> HIDE DEF name, size, d, t, f
<1>6. f \in Files
  BY <1>1, <1>2, <1>3, <1>4, <1>5 DEF Files
<1>7. f.name = name /\ f.address = a /\ f.size = size
  BY <1>4
<1>8. FileType(f) = type
  BY <1>1, <1>7 DEF FileType
<1> QED BY <1>6, <1>7, <1>8 DEF f, name, size, Start, End

(* Where the next file of a block comes to lie.                             *)
LEMMA NextShare ==
  ASSUME SizesFit, NEW n \in Nodes, NEW type \in Exts, NEW files \in Seq(Files),
         NEW from, NEW to, Block(files, type, from, to)
  PROVE  LET a == AutoAddress(files, type)
         IN /\ a \in Nat /\ AreaStart(type) <= a
            /\ a + SizeOf(FileName(n, type)) + Alignment(type) <=
                 AreaStart(type) + ((to - from) + 1) * Share(type)
            /\ (to # from => End(files[to]) <= a)
<1> DEFINE a == AutoAddress(files, type)
           size == SizeOf(FileName(n, type))
           A == Alignment(type)
           q == Share(type)
           S == AreaStart(type)
           k == to - from
<1>1. from \in Nat /\ to \in Nat /\ from <= to /\ to <= Len(files) /\ Len(files) \in Nat
  BY LenProperties DEF Block
<1>2. size \in Nat /\ q \in Nat /\ size + A <= q /\ S \in Nat /\ A \in Nat \ {0}
  BY Shares
<1>3. a = IF from = to THEN S ELSE Aligned(End(files[to]), A)
  <2>1. find_last_element_of_type(files, type) = IF from = to THEN 0 ELSE to
    BY LastOfBlock
  <2>2. from # to => to # 0
    BY <1>1, SMT
  <2> QED BY <2>1, <2>2 DEF AutoAddress
<1>4. k \in Nat
  BY <1>1, SMT
<1> HIDE DEF size, A, q, S, k, a
<1>5. CASE from = to
  <2>1. k = 0 /\ (k + 1) * q = q
    <3>1. k = 0
      BY <1>1, <1>5, SMT DEF k
    <3> QED BY <1>2, <3>1, SMT
  <2>2. a = S
    BY <1>3, <1>5
  <2>3. S + size + A <= S + (k + 1) * q
    BY <1>2, <2>1, SMT
  <2> QED BY <1>2, <1>5, <2>2, <2>3 DEF a, size, A, q, S, k
<1>6. CASE from # to
  <2> DEFINE g == files[to]
             e == End(g)
             m == k * q
  <2>1. to \in 1..Len(files) /\ from < to /\ to <= to
    BY <1>1, <1>6, SMT
  <2>2. g \in Files
    BY <2>1, LenProperties
  <2>3. InShare(g, type, k)
    BY <2>1 DEF Block, k
  <2>4. e \in Nat /\ Start(g) \in Nat /\ Start(g) < e
    <3> HIDE DEF g
    <3> QED BY <2>2, FileFacts
  <2>5. S <= Start(g) /\ e + A <= S + m
    BY <2>3 DEF InShare, S, A, q
  <2>6. m \in Nat /\ (k + 1) * q = m + q
    BY <1>2, <1>4, SMT
  <2>7. a = Aligned(e, A)
    BY <1>3, <1>6
  <2> DEFINE st == Start(g)
             p == (k + 1) * q
  <2>8. st \in Nat /\ st < e /\ S <= st /\ p = m + q
    BY <2>4, <2>5, <2>6
  <2>9. e \in Nat /\ e + A <= S + m
    BY <2>4, <2>5
  <2>10. m \in Nat
    BY <2>6
  <2> HIDE DEF e, m, st, p
  <2>11. a \in Nat /\ e <= a /\ a < e + A
    BY <1>2, <2>7, <2>9, AlignedBelow
  <2>12. S <= a /\ a + size + A <= S + p
    BY <1>2, <2>8, <2>9, <2>10, <2>11, SMT
  <2> QED BY <2>11, <2>12 DEF a, size, A, q, S, k, e, p
<1> QED BY <1>5, <1>6

(* A file of a node that has none of its type yet gets the next share.      *)
LEMMA BlockCounted ==
  ASSUME NEW n \in Nodes, NEW type \in Exts, NEW files \in Seq(Files), UniqueNames(files),
         NEW from, NEW to, Block(files, type, from, to),
         \A i \in 1..Len(files) : files[i].name # FileName(n, type)
  PROVE  (to - from) + 1 \in Nat /\ (to - from) + 1 <= Cardinality(Nodes)
<1> DEFINE k == (to - from) + 1
           g == [i \in 1..k |-> IF i < k THEN files[from + i].name[1] ELSE n]
<1>1. from \in Nat /\ to \in Nat /\ from <= to /\ to <= Len(files) /\ Len(files) \in Nat
      /\ DOMAIN files = 1..Len(files)
  BY LenProperties DEF Block
<1>2. k \in Nat /\ k >= 1 /\ \A i \in 1..k : i < k => from + i \in 1..Len(files) /\ from < from + i /\ from + i <= to
  BY <1>1, SMT
<1> HIDE DEF k
<1>3. ASSUME NEW i \in 1..k, i < k
      PROVE  files[from + i].name[1] \in Nodes /\ files[from + i].name = FileName(files[from + i].name[1], type)
  <2> DEFINE f == files[from + i]
  <2>1. from + i \in 1..Len(files) /\ from < from + i /\ from + i <= to
    BY <1>2, <1>3
  <2>2. f \in Files
    BY <2>1, LenProperties
  <2>3. FileType(f) = type
    BY <2>1 DEF Block, InShare
  <2> HIDE DEF f
  <2>4. f.name[1] \in Nodes /\ f.name = FileName(f.name[1], f.name[2]) /\ FileType(f) = f.name[2]
    BY <2>2, FileFacts
  <2> QED BY <2>3, <2>4 DEF f
<1>4. g \in [1..k -> Nodes]
  BY <1>3
<1>5. \A i \in 1..k : g[i] = IF i < k THEN files[from + i].name[1] ELSE n
  OBVIOUS
<1>6. ASSUME NEW i \in 1..k, NEW j \in 1..k, g[i] = g[j] PROVE i = j
  <2>1. CASE i < k /\ j < k
    <3>1. files[from + i].name = files[from + j].name
      BY <1>3, <1>5, <1>6, <2>1
    <3>2. from + i \in DOMAIN files /\ from + j \in DOMAIN files
      BY <1>1, <1>2, <2>1
    <3>3. from + i = from + j
      BY <3>1, <3>2 DEF UniqueNames
    <3> QED BY <1>1, <3>3, SMT
  <2>2. CASE i < k /\ ~(j < k)
    <3>1. files[from + i].name = FileName(n, type)
      BY <1>3, <1>5, <1>6, <2>2
    <3> QED BY <1>2, <2>2, <3>1
  <2>3. CASE ~(i < k) /\ j < k
    <3>1. files[from + j].name = FileName(n, type)
      BY <1>3, <1>5, <1>6, <2>3
    <3> QED BY <1>2, <2>3, <3>1
  <2>4. CASE ~(i < k) /\ ~(j < k)
    BY <1>2, <2>4, SMT
  <2> QED BY <2>1, <2>2, <2>3, <2>4
<1> HIDE DEF g
<1>7. k <= Cardinality(Nodes)
  BY <1>2, <1>4, <1>6, NodesCounted
<1> QED BY <1>2, <1>7 DEF k

-----------------------------------------------------------------------------
(* What holds of the files of either side.                                  *)
Good(files) ==
  /\ files \in Seq(Files) /\ Apart(files) /\ UniqueNames(files)
  /\ \A i \in 1..Len(files) : /\ End(files[i]) <= CMD_AREA_START
                              /\ files[i].size = SizeOf(files[i].name)

(* A new file may be put behind the left one.                               *)
HasPlace(files, f, left) ==
  /\ left \in 0..Len(files)
  /\ left > 0 => End(files[left]) <= Start(f)
  /\ left < Len(files) => End(f) <= Start(files[left + 1])

(* t is files with f behind the first left of them.                         *)
IsInserted(t, files, f, left) ==
  /\ t \in Seq(Files) /\ Len(t) = Len(files) + 1
  /\ \A k \in 1..(Len(files) + 1) :
       t[k] = IF k < left + 1 THEN files[k] ELSE IF k = left + 1 THEN f ELSE files[k - 1]

(* A list of files stays good when a new one is put at its place.           *)
LEMMA GoodInserted ==
  ASSUME NEW files, Good(files), NEW f \in Files, NEW left, HasPlace(files, f, left),
         End(f) <= CMD_AREA_START, f.size = SizeOf(f.name),
         \A i \in 1..Len(files) : files[i].name # f.name
  PROVE  LET t == InsertAt(files, left + 1, f)
         IN Good(t) /\ IsInserted(t, files, f, left)
<1> DEFINE n == Len(files)
           t == InsertAt(files, left + 1, f)
           F == File(Names, Digests)
<1>1. /\ files \in Seq(Files) /\ n \in Nat /\ DOMAIN files = 1..n /\ \A i \in 1..n : files[i] \in Files
      /\ Apart(files) /\ UniqueNames(files)
      /\ \A i \in 1..n : End(files[i]) <= CMD_AREA_START /\ files[i].size = SizeOf(files[i].name)
  BY LenProperties DEF Good
<1>2. /\ left \in 0..n /\ (left > 0 => End(files[left]) <= Start(f))
      /\ (left < n => End(f) <= Start(files[left + 1]))
  BY DEF HasPlace
<1>3. left + 1 \in 1..(n + 1) /\ left \in Nat
  BY <1>1, <1>2, SMT
<1>4. /\ t \in Seq(Files) /\ Len(t) = n + 1
      /\ \A k \in 1..(n + 1) :
           t[k] = IF k < left + 1 THEN files[k] ELSE IF k = left + 1 THEN f ELSE files[k - 1]
  <2> DEFINE j == left + 1
             u == InsertAt(files, j, f)
  <2>1. j \in 1..(Len(files) + 1)
    BY <1>3
  <2> HIDE DEF j
  <2>2. /\ u \in Seq(Files) /\ Len(u) = Len(files) + 1
        /\ \A k \in 1..(Len(files) + 1) :
             u[k] = IF k < j THEN files[k] ELSE IF k = j THEN f ELSE files[k - 1]
    BY <1>1, <2>1, Inserted
  <2> QED BY <2>2 DEF j
<1>5. Apart(t)
  <2>1. \A g \in Files : g \in F
    <3> SUFFICES ASSUME NEW g \in Files PROVE g \in F
      OBVIOUS
    <3>1. /\ g.name \in Names /\ g.address \in 0..CMD_AREA_START /\ g.size \in 1..CmdAreaSize
          /\ g.type \in {0} /\ g.digest_type \in {0, 2} /\ g.digest \in Digests
          /\ g = [name |-> g.name, address |-> g.address, size |-> g.size, type |-> g.type,
                  digest_type |-> g.digest_type, digest |-> g.digest]
      BY DEF Files
    <3>2. g.address \in Nat /\ g.size \in Nat
      BY FileFacts DEF Start
    <3>3. g.type \in FILE_TYPES /\ g.digest_type \in DIGEST_TYPES
      BY <3>1 DEF FILE_TYPES, DIGEST_TYPES
    <3> HIDE DEF Names, Digests
    <3> QED BY <3>1, <3>2, <3>3 DEF File
  <2>2. files \in Seq(F) /\ f \in F
    BY <1>1, <2>1, SeqDef, LenProperties
  <2> HIDE DEF F, t
  <2>3. InsertAt(files, left + 1, f) \in Seq(F) /\ Apart(InsertAt(files, left + 1, f))
    BY <1>1, <1>2, <2>2, InsertedApart DEF F
  <2> QED BY <2>3 DEF t
<1> HIDE DEF t, n
<1>6. ASSUME NEW k \in 1..(n + 1)
      PROVE  \/ k = left + 1 /\ t[k] = f
             \/ k < left + 1 /\ k \in 1..n /\ t[k] = files[k]
             \/ k > left + 1 /\ k - 1 \in 1..n /\ t[k] = files[k - 1]
  BY <1>1, <1>2, <1>3, <1>4, SMT
<1>7. \A k \in 1..(n + 1) : End(t[k]) <= CMD_AREA_START /\ t[k].size = SizeOf(t[k].name)
  BY <1>1, <1>6 DEF n
<1>8. UniqueNames(t)
  <2>1. ASSUME NEW i \in 1..(n + 1), NEW j \in 1..(n + 1), t[i].name = t[j].name PROVE i = j
    <3> DEFINE src(k) == IF k < left + 1 THEN k ELSE k - 1
    <3>1. \A k \in 1..(n + 1) : k # left + 1 => src(k) \in 1..n /\ t[k] = files[src(k)]
      BY <1>1, <1>2, <1>3, <1>4, SMT
    <3>2. \A k \in 1..(n + 1) : k # left + 1 => t[k].name # f.name
      BY <3>1 DEF n
    <3>3. t[left + 1] = f
      BY <1>3, <1>6
    <3>4. i = left + 1 <=> j = left + 1
      BY <2>1, <3>2, <3>3
    <3>5. CASE i # left + 1 /\ j # left + 1
      <4>1. files[src(i)].name = files[src(j)].name /\ src(i) \in 1..n /\ src(j) \in 1..n
        BY <2>1, <3>1, <3>5
      <4> HIDE DEF src
      <4>2. src(i) = src(j)
        BY <1>1, <4>1 DEF UniqueNames
      <4> QED BY <1>1, <1>3, <3>5, <4>2, SMT DEF src
    <3> QED BY <3>4, <3>5
  <2>2. DOMAIN t = 1..(n + 1)
    BY <1>4, LenProperties
  <2> QED BY <2>1, <2>2 DEF UniqueNames
<1>9. Good(t)
  BY <1>4, <1>5, <1>7, <1>8 DEF Good
<1> QED BY <1>4, <1>9 DEF t, n, IsInserted

(* A node's new file gets a place behind the last of its type.              *)
PlaceOf(files, type, from, to) ==
  /\ from = to => /\ find_next_available_position(files, AreaStart(type)) = to
                  /\ to > 0 => End(files[to]) <= AreaStart(type)
  /\ to < Len(files) => AreaStart(type) + AreaSize(type) <= Start(files[to + 1])

(* create_file accepts the file of a node, and puts it behind the block of  *)
(* its type.                                                                *)
LEMMA AutoCreated ==
  ASSUME SizesFit, NEW n \in Nodes, NEW type \in Exts, SizeOf(FileName(n, type)) # 0,
         NEW files, Good(files), NEW from, NEW to, Block(files, type, from, to),
         PlaceOf(files, type, from, to),
         \A i \in 1..Len(files) : files[i].name # FileName(n, type)
  PROVE  LET f == NewFile(n, type, AutoAddress(files, type))
         IN /\ apx_fileMap_create_file(files, FileInfo(FileName(n, type), SizeOf(FileName(n, type)))) =
                 [result |-> "created", file |-> f, files |-> InsertAt(files, to + 1, f)]
            /\ f \in Files /\ f.name = FileName(n, type) /\ InShare(f, type, (to - from) + 1)
            /\ HasPlace(files, f, to)
            /\ End(f) <= CMD_AREA_START /\ f.size = SizeOf(f.name)
<1> DEFINE size == SizeOf(FileName(n, type))
           a == AutoAddress(files, type)
           f == NewFile(n, type, a)
           info == FileInfo(FileName(n, type), size)
           k == (to - from) + 1
           p == k * Share(type)
           A == Alignment(type)
           S == AreaStart(type)
           M == AreaSize(type)
<1>1. /\ files \in Seq(Files) /\ Len(files) \in Nat
      /\ from \in Nat /\ to \in Nat /\ from <= to /\ to <= Len(files)
  BY LenProperties DEF Good, Block
<1>2. a \in Nat /\ S <= a /\ a + size + A <= S + p /\ (to # from => End(files[to]) <= a)
  BY <1>1, NextShare
<1>3. size \in Nat /\ size <= CmdAreaSize /\ A \in Nat \ {0} /\ S \in Nat /\ M \in Nat
      /\ S + M <= CMD_AREA_START
  BY Shares
<1>4. k \in Nat /\ k <= Cardinality(Nodes)
  BY <1>1, BlockCounted DEF Good
<1>5. p \in Nat /\ p <= M
  BY <1>4, SharesOf
<1>6. CMD_AREA_START \in Nat
  BY AddressLimits
<1> HIDE DEF p, A, S, M, k
<1>7. a + size <= S + M /\ a + size <= CMD_AREA_START
  <2> HIDE DEF a, size
  <2> QED BY <1>2, <1>3, <1>5, <1>6, SMT
<1>8. /\ f \in Files /\ f.name = FileName(n, type) /\ Start(f) = a /\ f.size = size
      /\ End(f) = a + size /\ FileType(f) = type
  BY <1>2, <1>3, <1>7, NewFileFacts
<1>9. info.address = INVALID_ADDRESS /\ FileType(info) = type /\ f = [info EXCEPT !.address = a]
  <2>1. info.address = INVALID_ADDRESS /\ info.name = FileName(n, type)
    BY DEF FileInfo
  <2>2. Len(FileName(n, type)) = 2 /\ FileName(n, type)[2] = type
    BY DEF FileName
  <2> QED BY <2>1, <2>2 DEF FileType, NewFile
<1> HIDE DEF f, info
<1>10. find_last_element_of_type(files, type) = IF from = to THEN 0 ELSE to
  BY <1>1, LastOfBlock
<1>11. from = to => a = S
  <2>1. from = to => find_last_element_of_type(files, type) = 0
    BY <1>10
  <2> QED BY <2>1 DEF AutoAddress, S
<1>12. apx_fileMap_create_file(files, info) = insert_item(files, f, to)
  <2>1. f.address = a
    BY <1>8 DEF Start
  <2>2. CASE from = to
    <3>1. find_next_available_position(files, f.address) = to
      BY <1>11, <2>1, <2>2 DEF PlaceOf, S
    <3> QED BY <1>9, <1>10, <2>2, <3>1 DEF apx_fileMap_create_file
  <2>3. CASE from # to
    <3>1. to # 0
      BY <1>1, <2>3, SMT
    <3> QED BY <1>9, <1>10, <2>3, <3>1 DEF apx_fileMap_create_file
  <2> QED BY <2>2, <2>3
<1>13. HasPlace(files, f, to)
  <2>1. to > 0 => End(files[to]) <= Start(f)
    BY <1>2, <1>8, <1>11 DEF PlaceOf, S
  <2>2. to < Len(files) => End(f) <= Start(files[to + 1])
    <3> SUFFICES ASSUME to < Len(files) PROVE End(f) <= Start(files[to + 1])
      OBVIOUS
    <3> DEFINE g == files[to + 1]
    <3>1. to + 1 \in 1..Len(files)
      BY <1>1, SMT
    <3>2. g \in Files
      BY <1>1, <3>1, LenProperties
    <3>3. S + M <= Start(g)
      BY DEF PlaceOf, S, M
    <3> HIDE DEF g, a, size
    <3>4. Start(g) \in Nat
      BY <3>2, FileFacts
    <3>5. End(f) <= Start(g)
      BY <1>2, <1>3, <1>7, <1>8, <3>3, <3>4, SMT
    <3> QED BY <3>5 DEF g
  <2>3. to \in 0..Len(files)
    BY <1>1, SMT
  <2> QED BY <2>1, <2>2, <2>3 DEF HasPlace
<1>14. insert_item(files, f, to) =
         [result |-> "created", file |-> f, files |-> InsertAt(files, to + 1, f)]
  <2>1. ~(to > 0 /\ ~(End(files[to]) <= Start(f)))
    BY <1>13 DEF HasPlace
  <2>2. ~(to < Len(files) /\ (End(f) > Start(files[to + 1]) \/ End(f) > CMD_AREA_START))
    <3> SUFFICES ASSUME to < Len(files)
                 PROVE  ~(End(f) > Start(files[to + 1])) /\ ~(End(f) > CMD_AREA_START)
      OBVIOUS
    <3> DEFINE g == files[to + 1]
    <3>1. to + 1 \in 1..Len(files)
      BY <1>1, SMT
    <3>2. g \in Files
      BY <1>1, <3>1, LenProperties
    <3>3. End(f) <= Start(g) /\ End(f) <= CMD_AREA_START
      BY <1>7, <1>8, <1>13 DEF HasPlace
    <3> HIDE DEF g, a, size
    <3>4. Start(g) \in Nat /\ End(f) \in Nat
      BY <1>8, <3>2, FileFacts
    <3>5. ~(End(f) > Start(g)) /\ ~(End(f) > CMD_AREA_START)
      BY <1>6, <3>3, <3>4, SMT
    <3> QED BY <3>5 DEF g
  <2> QED BY <2>1, <2>2 DEF insert_item
<1>15. InShare(f, type, k)
  <2>1. End(f) + A <= S + p
    BY <1>2, <1>8
  <2> QED BY <1>2, <1>8, <2>1 DEF InShare, A, S, p
<1>16. End(f) <= CMD_AREA_START /\ f.size = SizeOf(f.name)
  BY <1>7, <1>8
<1> QED BY <1>8, <1>12, <1>13, <1>14, <1>15, <1>16 DEF f, info, k

-----------------------------------------------------------------------------
(* The names of files.                                                      *)
Named(files) == {f.name : f \in Range(files)}

(* The files and the names there are after an insertion.                    *)
LEMMA InsertedRange ==
  ASSUME NEW files \in Seq(Files), NEW t, NEW f, NEW left \in 0..Len(files),
         IsInserted(t, files, f, left)
  PROVE  Range(t) = Range(files) \cup {f} /\ Named(t) = Named(files) \cup {f.name}
<1> DEFINE n == Len(files)
<1>1. n \in Nat /\ Range(files) = {files[i] : i \in 1..n} /\ Range(t) = {t[i] : i \in 1..(n + 1)}
  BY Elements DEF IsInserted
<1>2. \A k \in 1..(n + 1) : t[k] = IF k < left + 1 THEN files[k] ELSE IF k = left + 1 THEN f ELSE files[k - 1]
  BY DEF IsInserted
<1>3. left \in Nat /\ left + 1 \in 1..(n + 1) /\ left <= n
  BY <1>1, SMT
<1> HIDE DEF n
<1>4. \A k \in 1..(n + 1) : k < left + 1 => k \in 1..n
  BY <1>1, <1>3, SMT
<1>5. \A k \in 1..(n + 1) : ~(k < left + 1) /\ k # left + 1 => k - 1 \in 1..n
  BY <1>1, <1>3, SMT
<1>6. \A k \in 1..(n + 1) : t[k] = f \/ \E i \in 1..n : t[k] = files[i]
  BY <1>2, <1>4, <1>5
<1>7. t[left + 1] = f
  <2>1. ~(left + 1 < left + 1)
    BY <1>3, SMT
  <2> QED BY <1>2, <1>3, <2>1
<1>8. ASSUME NEW i \in 1..n PROVE \E k \in 1..(n + 1) : t[k] = files[i]
  <2>1. CASE i < left + 1
    <3>1. i \in 1..(n + 1)
      BY <1>1, SMT
    <3>2. t[i] = files[i]
      BY <1>2, <2>1, <3>1
    <3> QED BY <3>1, <3>2
  <2>2. CASE ~(i < left + 1)
    <3>1. i + 1 \in 1..(n + 1) /\ ~(i + 1 < left + 1) /\ i + 1 # left + 1 /\ (i + 1) - 1 = i
      BY <1>1, <1>3, <2>2, SMT
    <3>2. t[i + 1] = files[(i + 1) - 1]
      BY <1>2, <3>1
    <3>3. t[i + 1] = files[i]
      BY <3>1, <3>2
    <3> QED BY <3>1, <3>3
  <2> QED BY <2>1, <2>2
<1>9. Range(t) = Range(files) \cup {f}
  <2>1. \A g \in Range(t) : g = f \/ g \in Range(files)
    BY <1>1, <1>6
  <2>2. f \in Range(t)
    BY <1>1, <1>3, <1>7
  <2>3. \A g \in Range(files) : g \in Range(t)
    <3> SUFFICES ASSUME NEW i \in 1..n PROVE files[i] \in Range(t)
      BY <1>1
    <3>1. PICK k \in 1..(n + 1) : t[k] = files[i]
      BY <1>8
    <3> QED BY <1>1, <3>1
  <2> QED BY <2>1, <2>2, <2>3
<1> QED BY <1>9 DEF Named

(* No block has more files than there are nodes.                            *)
LEMMA BlockBound ==
  ASSUME NEW type \in Exts, NEW files \in Seq(Files), UniqueNames(files),
         NEW from, NEW to, Block(files, type, from, to)
  PROVE  to - from \in Nat /\ to - from <= Cardinality(Nodes)
<1> DEFINE k == to - from
           g == [i \in 1..k |-> files[from + i].name[1]]
<1>1. from \in Nat /\ to \in Nat /\ from <= to /\ to <= Len(files) /\ Len(files) \in Nat
      /\ DOMAIN files = 1..Len(files)
  BY LenProperties DEF Block
<1>2. k \in Nat /\ \A i \in 1..k : from + i \in 1..Len(files) /\ from < from + i /\ from + i <= to /\ (from + i) - from = i
  BY <1>1, SMT
<1> HIDE DEF k
<1>3. ASSUME NEW i \in 1..k
      PROVE  files[from + i].name[1] \in Nodes /\ files[from + i].name = FileName(files[from + i].name[1], type)
  <2> DEFINE f == files[from + i]
  <2>1. from + i \in 1..Len(files) /\ from < from + i /\ from + i <= to
    BY <1>2
  <2>2. f \in Files
    BY <2>1, LenProperties
  <2>3. FileType(f) = type
    BY <2>1 DEF Block, InShare
  <2> HIDE DEF f
  <2>4. f.name[1] \in Nodes /\ f.name = FileName(f.name[1], f.name[2]) /\ FileType(f) = f.name[2]
    BY <2>2, FileFacts
  <2> QED BY <2>3, <2>4 DEF f
<1>4. g \in [1..k -> Nodes]
  BY <1>3
<1>5. \A i \in 1..k : g[i] = files[from + i].name[1]
  OBVIOUS
<1>6. ASSUME NEW i \in 1..k, NEW j \in 1..k, g[i] = g[j] PROVE i = j
  <2>1. files[from + i].name = files[from + j].name
    BY <1>3, <1>5, <1>6
  <2>2. from + i \in DOMAIN files /\ from + j \in DOMAIN files
    BY <1>1, <1>2
  <2>3. from + i = from + j
    BY <2>1, <2>2 DEF UniqueNames
  <2> QED BY <1>1, <2>3, SMT
<1> HIDE DEF g
<1>7. k <= Cardinality(Nodes)
  BY <1>2, <1>4, <1>6, NodesCounted
<1> QED BY <1>2, <1>7 DEF k

(* All files of a block lie within its area.                                *)
LEMMA WithinArea ==
  ASSUME SizesFit, NEW type \in Exts, NEW files \in Seq(Files), UniqueNames(files),
         NEW from, NEW to, Block(files, type, from, to), NEW i \in 1..Len(files),
         from < i, i <= to
  PROVE  /\ AreaStart(type) <= Start(files[i]) /\ End(files[i]) <= AreaStart(type) + AreaSize(type)
         /\ Start(files[i]) < AreaStart(type) + AreaSize(type)
<1> DEFINE f == files[i]
           k == i - from
           p == k * Share(type)
           S == AreaStart(type)
           M == AreaSize(type)
           A == Alignment(type)
<1>1. from \in Nat /\ to \in Nat /\ from <= to /\ to <= Len(files) /\ Len(files) \in Nat
  BY LenProperties DEF Block
<1>2. f \in Files
  BY LenProperties
<1>3. InShare(f, type, k)
  BY DEF Block
<1>4. to - from \in Nat /\ to - from <= Cardinality(Nodes)
  BY BlockBound
<1>5. k \in Nat /\ k <= to - from
  BY <1>1, SMT
<1>6. k <= Cardinality(Nodes)
  BY <1>4, <1>5, NodesFinite, SMT
<1> HIDE DEF f, k
<1>7. f.name[1] \in Nodes /\ Start(f) \in Nat /\ End(f) \in Nat /\ Start(f) < End(f)
  BY <1>2, FileFacts
<1>8. p \in Nat /\ p <= M
  BY <1>5, <1>6, <1>7, SharesOf
<1>9. S \in Nat /\ A \in Nat /\ M \in Nat
  BY <1>7, Shares
<1>10. S <= Start(f) /\ End(f) + A <= S + p
  BY <1>3 DEF InShare
<1> HIDE DEF p, S, M, A
<1>11. S <= Start(f) /\ End(f) <= S + M /\ Start(f) < S + M
  BY <1>7, <1>8, <1>9, <1>10, SMT
<1> QED BY <1>11 DEF f, S, M

(* The lists of the two sides.                                              *)
ClientList(files, m) ==
  Good(files) /\ Block(files, ExtProvide, 0, m) /\ Block(files, ExtDefinition, m, Len(files))
ServerList(files) == Good(files) /\ Block(files, ExtRequire, 0, Len(files))

(* Where the areas begin, and that the file types are three.                *)
LEMMA AreaFacts ==
  /\ AreaStart(ExtProvide) = 0 /\ AreaStart(ExtRequire) = 0 /\ AreaStart(ExtDefinition) = DefinitionStart
  /\ AreaSize(ExtProvide) = DefinitionStart /\ AreaSize(ExtRequire) = DefinitionStart
  /\ ExtProvide # ExtDefinition /\ ExtRequire # ExtDefinition /\ ExtProvide # ExtRequire
  /\ {ExtProvide, ExtRequire, ExtDefinition} \subseteq Exts
  /\ DefinitionStart \in Nat
  BY FileMapAssumption DEF AreaStart, AreaSize, ExtProvide, ExtRequire, ExtDefinition, Exts

(* The size of a file by its name.                                          *)
LEMMA SizeNames ==
  ASSUME NEW n
  PROVE  /\ SizeOf(FileName(n, ExtDefinition)) = DefinitionSize[n]
         /\ SizeOf(FileName(n, ExtProvide)) = ProvideSize[n]
         /\ SizeOf(FileName(n, ExtRequire)) = RequireSize[n]
<1>1. \A e : FileName(n, e)[1] = n /\ FileName(n, e)[2] = e
  BY DEF FileName
<1> QED BY <1>1, AreaFacts DEF SizeOf

(* Nothing lies before address zero.                                        *)
LEMMA PositionFirst ==
  ASSUME NEW files \in Seq(Files)
  PROVE  find_next_available_position(files, 0) = 0
<1> DEFINE before == {i \in DOMAIN files : \A j \in 1..i : Start(files[j]) < 0}
<1>1. \A i \in before : FALSE
  <2> SUFFICES ASSUME NEW i \in before PROVE FALSE
    OBVIOUS
  <2>1. i \in 1..Len(files) /\ Len(files) \in Nat /\ \A j \in 1..i : Start(files[j]) < 0
    BY LenProperties
  <2>2. 1 \in 1..i /\ 1 \in 1..Len(files)
    BY <2>1, SMT
  <2> DEFINE f == files[1]
  <2>3. f \in Files /\ Start(f) < 0
    BY <2>1, <2>2, LenProperties
  <2> HIDE DEF f
  <2>4. Start(f) \in Nat
    BY <2>3, FileFacts
  <2> QED BY <2>3, <2>4, SMT
<1>2. find_next_available_position(files, 0) = Cardinality(before)
  BY DEF find_next_available_position
<1> HIDE DEF before
<1>3. before = {}
  BY <1>1
<1> QED BY <1>2, <1>3, FS_EmptySet

(* A side creates the file of a node.                                       *)
Created(files, n, type, t, f) ==
  /\ apx_fileMap_create_file(files, FileInfo(FileName(n, type), SizeOf(FileName(n, type)))) =
       [result |-> "created", file |-> f, files |-> t]
  /\ f \in Files /\ f.name = FileName(n, type)
  /\ Named(t) = Named(files) \cup {f.name} /\ Range(t) = Range(files) \cup {f}

(* A name that is not in use.                                               *)
LEMMA NotNamed ==
  ASSUME NEW files \in Seq(Files), NEW name, name \notin Named(files)
  PROVE  \A i \in 1..Len(files) : files[i].name # name
<1>1. \A i \in 1..Len(files) : files[i] \in Range(files)
  BY Elements
<1> QED BY <1>1 DEF Named

(* The client adds the provide port data file of a node to its files.       *)
LEMMA ProvideAdded ==
  ASSUME SizesFit, NEW n \in Nodes, ProvideSize[n] # 0, NEW files, NEW m, ClientList(files, m),
         FileName(n, ExtProvide) \notin Named(files)
  PROVE  \E t, f : Created(files, n, ExtProvide, t, f) /\ ClientList(t, m + 1)
<1> DEFINE type == ExtProvide
           f == NewFile(n, type, AutoAddress(files, type))
           t == InsertAt(files, m + 1, f)
           N == Len(files)
<1>1. /\ Good(files) /\ files \in Seq(Files) /\ UniqueNames(files) /\ N \in Nat
      /\ Block(files, type, 0, m) /\ Block(files, ExtDefinition, m, N)
      /\ m \in Nat /\ m <= N /\ type \in Exts
  BY LenProperties, AreaFacts DEF ClientList, Good, Block
<1>2. SizeOf(FileName(n, type)) # 0
  BY SizeNames
<1>3. \A i \in 1..N : files[i].name # FileName(n, type)
  BY <1>1, NotNamed
<1>4. PlaceOf(files, type, 0, m)
  <2>1. find_next_available_position(files, AreaStart(type)) = 0
    BY <1>1, AreaFacts, PositionFirst
  <2>2. 0 = m => ~(m > 0)
    BY <1>1, SMT
  <2>3. m < N => AreaStart(type) + AreaSize(type) <= Start(files[m + 1])
    <3> SUFFICES ASSUME m < N PROVE AreaStart(type) + AreaSize(type) <= Start(files[m + 1])
      OBVIOUS
    <3>1. m + 1 \in 1..N /\ m < m + 1 /\ m + 1 <= N
      BY <1>1, SMT
    <3>2. InShare(files[m + 1], ExtDefinition, (m + 1) - m)
      BY <1>1, <3>1 DEF Block
    <3>3. DefinitionStart <= Start(files[m + 1])
      BY <3>2, AreaFacts DEF InShare
    <3>4. AreaStart(type) + AreaSize(type) = DefinitionStart
      BY AreaFacts, SMT
    <3> QED BY <3>3, <3>4
  <2> QED BY <2>1, <2>2, <2>3 DEF PlaceOf
<1>5. /\ apx_fileMap_create_file(files, FileInfo(FileName(n, type), SizeOf(FileName(n, type)))) =
           [result |-> "created", file |-> f, files |-> t]
      /\ f \in Files /\ f.name = FileName(n, type) /\ InShare(f, type, (m - 0) + 1)
      /\ HasPlace(files, f, m)
      /\ End(f) <= CMD_AREA_START /\ f.size = SizeOf(f.name)
  BY <1>1, <1>2, <1>3, <1>4, AutoCreated
<1> HIDE DEF f, t
<1>15. Good(t) /\ IsInserted(t, files, f, m)
  BY <1>1, <1>3, <1>5, GoodInserted DEF t
<1>6. /\ Good(t) /\ t \in Seq(Files) /\ Len(t) = N + 1
      /\ \A k \in 1..(N + 1) :
           t[k] = IF k < m + 1 THEN files[k] ELSE IF k = m + 1 THEN f ELSE files[k - 1]
  BY <1>15 DEF IsInserted
<1>7. Named(t) = Named(files) \cup {f.name} /\ Range(t) = Range(files) \cup {f}
  <2>1. m \in 0..Len(files)
    BY <1>1, SMT
  <2> QED BY <1>1, <1>15, <2>1, InsertedRange
<1> HIDE DEF N
<1>8. ASSUME NEW k \in 1..(N + 1)
      PROVE  \/ k = m + 1 /\ t[k] = f
             \/ k < m + 1 /\ k \in 1..N /\ t[k] = files[k] /\ k <= m
             \/ k > m + 1 /\ k - 1 \in 1..N /\ t[k] = files[k - 1] /\ m < k - 1 /\ k - 1 <= N
  BY <1>1, <1>6, SMT
<1>9. FileType(f) = type /\ InShare(f, type, m + 1)
  BY <1>1, <1>5, SMT DEF InShare
<1>10. /\ \A i \in 1..N : i <= m => InShare(files[i], type, i) /\ FileType(files[i]) # ExtDefinition
       /\ \A i \in 1..N : m < i /\ i <= N => InShare(files[i], ExtDefinition, i - m) /\ FileType(files[i]) # type
  <2>1. \A i \in 1..N : 0 < i /\ i - 0 = i /\ i <= N
    BY <1>1, SMT
  <2>2. \A i \in 1..N : i <= m => ~(m < i /\ i <= N)
    BY <1>1, SMT
  <2>3. \A i \in 1..N : m < i => ~(0 < i /\ i <= m)
    BY <1>1, SMT
  <2>4. \A i \in 1..N : i <= m => InShare(files[i], type, i)
    <3>1. \A i \in 1..N : 0 < i /\ i <= m => InShare(files[i], type, i - 0)
      BY <1>1 DEF Block, N
    <3> QED BY <2>1, <3>1
  <2>5. \A i \in 1..N : m < i => FileType(files[i]) # type
    BY <1>1, <2>3 DEF Block, N
  <2>6. \A i \in 1..N : i <= m => FileType(files[i]) # ExtDefinition
    BY <1>1, <2>2 DEF Block, N
  <2>7. \A i \in 1..N : m < i /\ i <= N => InShare(files[i], ExtDefinition, i - m)
    BY <1>1 DEF Block, N
  <2> QED BY <2>4, <2>5, <2>6, <2>7
<1>11. Block(t, type, 0, m + 1)
  <2>1. ASSUME NEW k \in 1..(N + 1)
        PROVE  /\ (0 < k /\ k <= m + 1) => InShare(t[k], type, k - 0)
               /\ ~(0 < k /\ k <= m + 1) => FileType(t[k]) # type
    <3>0. k - 0 = k /\ 0 < k /\ k \in Nat
      BY <1>1, SMT
    <3>1. CASE k = m + 1 /\ t[k] = f
      <4>1. k <= m + 1
        BY <1>1, <3>1, SMT
      <4> QED BY <1>9, <3>0, <3>1, <4>1
    <3>2. CASE k < m + 1 /\ k \in 1..N /\ t[k] = files[k] /\ k <= m
      <4>1. k <= m + 1
        BY <1>1, <3>0, <3>2, SMT
      <4>2. InShare(files[k], type, k)
        BY <1>10, <3>2
      <4> QED BY <3>0, <3>2, <4>1, <4>2
    <3>3. CASE k > m + 1 /\ k - 1 \in 1..N /\ t[k] = files[k - 1] /\ m < k - 1 /\ k - 1 <= N
      <4>1. ~(k <= m + 1)
        BY <1>1, <3>0, <3>3, SMT
      <4>2. FileType(files[k - 1]) # type
        BY <1>10, <3>3
      <4> QED BY <3>3, <4>1, <4>2
    <3> QED BY <1>8, <3>1, <3>2, <3>3
  <2>2. 0 \in Nat /\ m + 1 \in Nat /\ 0 <= m + 1 /\ m + 1 <= N + 1
    BY <1>1, SMT
  <2> QED BY <1>6, <2>1, <2>2 DEF Block, N
<1>12. Block(t, ExtDefinition, m + 1, N + 1)
  <2>1. ASSUME NEW k \in 1..(N + 1)
        PROVE  /\ (m + 1 < k /\ k <= N + 1) => InShare(t[k], ExtDefinition, k - (m + 1))
               /\ ~(m + 1 < k /\ k <= N + 1) => FileType(t[k]) # ExtDefinition
    <3>0. k \in Nat /\ k <= N + 1 /\ k - (m + 1) = (k - 1) - m
      BY <1>1, SMT
    <3>1. CASE k = m + 1 /\ t[k] = f
      <4>1. ~(m + 1 < k)
        BY <1>1, <3>1, SMT
      <4> QED BY <1>9, <3>1, <4>1, AreaFacts
    <3>2. CASE k < m + 1 /\ k \in 1..N /\ t[k] = files[k] /\ k <= m
      <4>1. ~(m + 1 < k)
        BY <1>1, <3>0, <3>2, SMT
      <4>2. FileType(files[k]) # ExtDefinition
        BY <1>10, <3>2
      <4> QED BY <3>2, <4>1, <4>2
    <3>3. CASE k > m + 1 /\ k - 1 \in 1..N /\ t[k] = files[k - 1] /\ m < k - 1 /\ k - 1 <= N
      <4>1. m + 1 < k
        BY <1>1, <3>0, <3>3, SMT
      <4>2. InShare(files[k - 1], ExtDefinition, (k - 1) - m)
        BY <1>10, <3>3
      <4> QED BY <3>0, <3>3, <4>1, <4>2
    <3> QED BY <1>8, <3>1, <3>2, <3>3
  <2>2. m + 1 \in Nat /\ N + 1 \in Nat /\ m + 1 <= N + 1
    BY <1>1, SMT
  <2>3. N + 1 <= N + 1
    BY <1>1, SMT
  <2> QED BY <1>6, <2>1, <2>2, <2>3 DEF Block, N
<1>13. ClientList(t, m + 1)
  BY <1>6, <1>11, <1>12 DEF ClientList, N
<1>14. Created(files, n, type, t, f)
  BY <1>5, <1>7 DEF Created
<1> QED BY <1>13, <1>14

-----------------------------------------------------------------------------
(* A block of files ends with the file that is put behind it.               *)
LEMMA BlockExtended ==
  ASSUME NEW files \in Seq(Files), NEW f, NEW t, IsInserted(t, files, f, Len(files)),
         NEW type, NEW from, Block(files, type, from, Len(files)),
         InShare(f, type, (Len(files) - from) + 1)
  PROVE  Block(t, type, from, Len(files) + 1)
<1> DEFINE n == Len(files)
<1>1. /\ n \in Nat /\ Len(t) = n + 1 /\ from \in Nat /\ from <= n
      /\ \A k \in 1..(n + 1) :
           t[k] = IF k < n + 1 THEN files[k] ELSE IF k = n + 1 THEN f ELSE files[k - 1]
  BY LenProperties DEF IsInserted, Block
<1>2. \A i \in 1..n : /\ (from < i /\ i <= n) => InShare(files[i], type, i - from)
                      /\ ~(from < i /\ i <= n) => FileType(files[i]) # type
  BY DEF Block
<1> HIDE DEF n
<1>3. ASSUME NEW k \in 1..(n + 1)
      PROVE  /\ (from < k /\ k <= n + 1) => InShare(t[k], type, k - from)
             /\ ~(from < k /\ k <= n + 1) => FileType(t[k]) # type
  <2>1. CASE k = n + 1
    <3>1. t[k] = f /\ k - from = (n - from) + 1 /\ from < k
      <4>1. ~(k < n + 1) /\ k - from = (n - from) + 1 /\ from < k
        BY <1>1, <2>1, SMT
      <4>2. t[k] = f
        BY <1>1, <2>1, <4>1
      <4> QED BY <4>1, <4>2
    <3>2. k <= n + 1
      BY <1>1, <2>1, SMT
    <3> QED BY <3>1, <3>2 DEF n
  <2>2. CASE k # n + 1
    <3>1. k < n + 1 /\ k \in 1..n /\ k <= n /\ k <= n + 1
      BY <1>1, <2>2, SMT
    <3>2. t[k] = files[k]
      BY <1>1, <3>1
    <3> QED BY <1>2, <3>1, <3>2
  <2> QED BY <2>1, <2>2
<1>4. n + 1 \in Nat /\ from <= n + 1 /\ n + 1 <= n + 1
  BY <1>1, SMT
<1> QED BY <1>1, <1>3, <1>4 DEF Block, n

(* Files of other types change nothing in a block.                          *)
LEMMA BlockKept ==
  ASSUME NEW files \in Seq(Files), NEW f, NEW t, IsInserted(t, files, f, Len(files)),
         NEW type, NEW from, NEW to, Block(files, type, from, to), FileType(f) # type
  PROVE  Block(t, type, from, to)
<1> DEFINE n == Len(files)
<1>1. /\ n \in Nat /\ Len(t) = n + 1 /\ from \in Nat /\ to \in Nat /\ from <= to /\ to <= n
      /\ \A k \in 1..(n + 1) :
           t[k] = IF k < n + 1 THEN files[k] ELSE IF k = n + 1 THEN f ELSE files[k - 1]
  BY LenProperties DEF IsInserted, Block
<1>2. \A i \in 1..n : /\ (from < i /\ i <= to) => InShare(files[i], type, i - from)
                      /\ ~(from < i /\ i <= to) => FileType(files[i]) # type
  BY DEF Block
<1> HIDE DEF n
<1>3. ASSUME NEW k \in 1..(n + 1)
      PROVE  /\ (from < k /\ k <= to) => InShare(t[k], type, k - from)
             /\ ~(from < k /\ k <= to) => FileType(t[k]) # type
  <2>1. CASE k = n + 1
    <3>1. ~(k < n + 1) /\ ~(k <= to)
      BY <1>1, <2>1, SMT
    <3>2. t[k] = f
      BY <1>1, <2>1, <3>1
    <3> QED BY <3>1, <3>2
  <2>2. CASE k # n + 1
    <3>1. k < n + 1 /\ k \in 1..n
      BY <1>1, <2>2, SMT
    <3>2. t[k] = files[k]
      BY <1>1, <3>1
    <3> QED BY <1>2, <3>1, <3>2
  <2> QED BY <2>1, <2>2
<1>4. to <= n + 1
  BY <1>1, SMT
<1> QED BY <1>1, <1>3, <1>4 DEF Block, n

(* The last of a list.                                                      *)
LEMMA AddedLast ==
  ASSUME SizesFit, NEW n \in Nodes, NEW type \in Exts, SizeOf(FileName(n, type)) # 0,
         NEW files, Good(files), NEW from, Block(files, type, from, Len(files)),
         PlaceOf(files, type, from, Len(files)), FileName(n, type) \notin Named(files)
  PROVE  \E t, f : /\ Created(files, n, type, t, f) /\ t = files \o <<f>> /\ Good(t)
                   /\ IsInserted(t, files, f, Len(files))
                   /\ FileType(f) = type /\ Block(t, type, from, Len(files) + 1)
<1> DEFINE f == NewFile(n, type, AutoAddress(files, type))
           m == Len(files)
           t == InsertAt(files, m + 1, f)
<1>1. files \in Seq(Files) /\ m \in Nat
  BY LenProperties DEF Good
<1>2. \A i \in 1..Len(files) : files[i].name # FileName(n, type)
  BY <1>1, NotNamed
<1>3. /\ apx_fileMap_create_file(files, FileInfo(FileName(n, type), SizeOf(FileName(n, type)))) =
           [result |-> "created", file |-> f, files |-> t]
      /\ f \in Files /\ f.name = FileName(n, type) /\ InShare(f, type, (m - from) + 1)
      /\ HasPlace(files, f, m)
      /\ End(f) <= CMD_AREA_START /\ f.size = SizeOf(f.name)
  BY <1>2, AutoCreated
<1> HIDE DEF f, t
<1>4. Good(t) /\ IsInserted(t, files, f, m)
  BY <1>2, <1>3, GoodInserted DEF t
<1>5. t = files \o <<f>>
  BY <1>1, <1>3, InsertedLast DEF t
<1>6. Named(t) = Named(files) \cup {f.name} /\ Range(t) = Range(files) \cup {f}
  <2>1. m \in 0..Len(files)
    BY <1>1, SMT
  <2> QED BY <1>1, <1>4, <2>1, InsertedRange
<1>7. Created(files, n, type, t, f)
  BY <1>3, <1>6 DEF Created
<1>8. FileType(f) = type
  BY <1>3 DEF InShare
<1>9. Block(t, type, from, Len(files) + 1)
  BY <1>1, <1>3, <1>4, BlockExtended
<1> QED BY <1>4, <1>5, <1>7, <1>8, <1>9

(* The client adds the definition of a node to its files.                   *)
LEMMA DefinitionAdded ==
  ASSUME SizesFit, NEW n \in Nodes, NEW files, NEW m, ClientList(files, m),
         FileName(n, ExtDefinition) \notin Named(files)
  PROVE  \E t, f : Created(files, n, ExtDefinition, t, f) /\ ClientList(t, m)
<1> DEFINE N == Len(files)
           type == ExtDefinition
<1>1. /\ Good(files) /\ files \in Seq(Files) /\ UniqueNames(files) /\ N \in Nat
      /\ Block(files, ExtProvide, 0, m) /\ Block(files, type, m, N)
      /\ m \in Nat /\ m <= N /\ type \in Exts /\ ExtProvide \in Exts
  BY LenProperties, AreaFacts DEF ClientList, Good, Block
<1>2. SizeOf(FileName(n, type)) # 0
  <2>1. DefinitionSize[n] \in 1..CmdAreaSize
    BY DEF SizesFit
  <2>2. DefinitionSize[n] # 0
    BY <2>1, RemoteFileAssumption, BaseFacts, SMT
  <2> QED BY <2>2, SizeNames
<1>3. PlaceOf(files, type, m, N)
  <2>1. ASSUME m = N
        PROVE  /\ find_next_available_position(files, AreaStart(type)) = N
               /\ N > 0 => End(files[N]) <= AreaStart(type)
    <3>1. \A i \in 1..N : 0 < i /\ i <= m
      BY <1>1, <2>1, SMT
    <3>2. ASSUME NEW i \in 1..N
          PROVE  Start(files[i]) < DefinitionStart /\ End(files[i]) <= DefinitionStart
      <4>1. /\ End(files[i]) <= AreaStart(ExtProvide) + AreaSize(ExtProvide)
            /\ Start(files[i]) < AreaStart(ExtProvide) + AreaSize(ExtProvide)
        BY <1>1, <3>1, WithinArea
      <4>2. AreaStart(ExtProvide) + AreaSize(ExtProvide) = DefinitionStart
        BY AreaFacts, SMT
      <4> QED BY <4>1, <4>2
    <3>3. find_next_available_position(files, DefinitionStart) = N
      BY <1>1, <3>2, PositionLast
    <3>4. N > 0 => N \in 1..N
      BY <1>1, SMT
    <3> QED BY <3>2, <3>3, <3>4, AreaFacts
  <2>2. ~(N < N)
    BY <1>1, SMT
  <2> QED BY <2>1, <2>2 DEF PlaceOf
<1>4. PICK t, f : /\ Created(files, n, type, t, f) /\ Good(t)
                  /\ IsInserted(t, files, f, N)
                  /\ FileType(f) = type /\ Block(t, type, m, N + 1)
  BY <1>1, <1>2, <1>3, AddedLast
<1>5. Block(t, ExtProvide, 0, m)
  <2>1. FileType(f) # ExtProvide
    BY <1>4, AreaFacts
  <2> QED BY <1>1, <1>4, <2>1, BlockKept
<1>6. Len(t) = N + 1
  BY <1>4 DEF IsInserted
<1>7. ClientList(t, m)
  BY <1>4, <1>5, <1>6 DEF ClientList
<1> QED BY <1>4, <1>7

(* The server adds the require port data file of a node to its files.       *)
LEMMA RequireAdded ==
  ASSUME SizesFit, NEW n \in Nodes, RequireSize[n] # 0, NEW files, ServerList(files),
         FileName(n, ExtRequire) \notin Named(files)
  PROVE  \E t, f : Created(files, n, ExtRequire, t, f) /\ ServerList(t) /\ t = files \o <<f>>
<1> DEFINE N == Len(files)
           type == ExtRequire
<1>1. /\ Good(files) /\ files \in Seq(Files) /\ N \in Nat
      /\ Block(files, type, 0, N) /\ type \in Exts
  BY LenProperties, AreaFacts DEF ServerList, Good
<1>2. SizeOf(FileName(n, type)) # 0
  BY SizeNames
<1>3. PlaceOf(files, type, 0, N)
  <2>1. find_next_available_position(files, AreaStart(type)) = 0
    BY <1>1, AreaFacts, PositionFirst
  <2>2. 0 = N => ~(N > 0)
    BY <1>1, SMT
  <2>3. ~(N < N)
    BY <1>1, SMT
  <2> QED BY <2>1, <2>2, <2>3 DEF PlaceOf
<1>4. PICK t, f : /\ Created(files, n, type, t, f) /\ t = files \o <<f>> /\ Good(t)
                  /\ IsInserted(t, files, f, N)
                  /\ FileType(f) = type /\ Block(t, type, 0, N + 1)
  BY <1>1, <1>2, <1>3, AddedLast
<1>5. Len(t) = N + 1
  BY <1>4 DEF IsInserted
<1>6. ServerList(t)
  BY <1>4, <1>5 DEF ServerList
<1> QED BY <1>4, <1>6

(* What the lists contain, and that provide port data come first.           *)
LEMMA ClientTypes ==
  ASSUME NEW files, NEW m, ClientList(files, m)
  PROVE  /\ \A i \in 1..Len(files) : FileType(files[i]) \in {ExtProvide, ExtDefinition}
         /\ \A i, j \in 1..Len(files) : i < j /\ FileType(files[i]) = ExtDefinition
                                          => FileType(files[j]) = ExtDefinition
<1> DEFINE N == Len(files)
<1>1. /\ files \in Seq(Files) /\ N \in Nat /\ m \in Nat /\ m <= N
      /\ \A i \in 1..N : 0 < i /\ i <= m => FileType(files[i]) = ExtProvide
      /\ \A i \in 1..N : m < i /\ i <= N => FileType(files[i]) = ExtDefinition
      /\ \A i \in 1..N : ~(m < i /\ i <= N) => FileType(files[i]) # ExtDefinition
  BY LenProperties DEF ClientList, Good, Block, InShare
<1> HIDE DEF N
<1>2. \A i \in 1..N : (0 < i /\ i <= m) \/ (m < i /\ i <= N)
  BY <1>1, SMT
<1>3. ASSUME NEW i \in 1..N, NEW j \in 1..N, i < j, FileType(files[i]) = ExtDefinition
      PROVE  FileType(files[j]) = ExtDefinition
  <2>1. m < i
    BY <1>1, <1>3
  <2>2. m < j /\ j <= N
    BY <1>1, <1>3, <2>1, SMT
  <2> QED BY <1>1, <2>2
<1> QED BY <1>1, <1>2, <1>3 DEF N

(* The server publishes nothing else.                                       *)
LEMMA ServerTypes ==
  ASSUME NEW files, ServerList(files)
  PROVE  \A i \in 1..Len(files) : FileType(files[i]) = ExtRequire
<1> DEFINE N == Len(files)
<1>1. /\ N \in Nat
      /\ \A i \in 1..N : 0 < i /\ i <= N => FileType(files[i]) = ExtRequire
  BY LenProperties DEF ServerList, Good, Block, InShare
<1> HIDE DEF N
<1>2. \A i \in 1..N : 0 < i /\ i <= N
  BY <1>1, SMT
<1> QED BY <1>1, <1>2 DEF N

-----------------------------------------------------------------------------
(* The two sides.                                                           *)
LEMMA OtherFacts ==
  ASSUME NEW s \in Sides
  PROVE  Other(s) \in Sides /\ Other(s) # s /\ Other(Other(s)) = s
         /\ \A t \in Sides : t = s \/ t = Other(s)
  BY DEF Other, Sides, Client, Server

(* The receivers of a side.                                                 *)
Receivers == [start : Nat, data : Seq(Byte)]

(* The types of the variables, and that nothing was refused.                *)
Typed ==
  /\ connected \in BOOLEAN /\ accepted \in [Sides -> BOOLEAN]
  /\ local \in [Sides -> Maps] /\ remote \in [Sides -> Maps]
  /\ opened \in [Sides -> SUBSET Names] /\ known \in SUBSET Nodes
  /\ receiver \in [Sides -> Receivers]
  /\ stream \in [Sides -> Seq(Byte)] /\ inbox \in [Sides -> Seq(Byte)]
  /\ meant \in [Sides -> Seq(FileWrites)] /\ got \in [Sides -> Seq(FileWrites)]
  /\ rc \in [Sides -> {"ok"}]

(* The definition of a node, and the lists of files: the client's, and for  *)
(* each of them the definition of its node, and the server's.               *)
DefinitionOf(n) == FileName(n, ExtDefinition)
Lists ==
  /\ \E m : ClientList(local[Client].files, m)
  /\ ServerList(local[Server].files)
  /\ \A f \in Range(local[Client].files) : DefinitionOf(f.name[1]) \in Named(local[Client].files)

(* While files and writes are exchanged: q[s] are the packets on their way  *)
(* to side s.                                                               *)
QueuesHold(q) == q \in [Sides -> Seq(Sent)] /\ \A s \in Sides : Queued(s, q[s])
FilesFlow(q)  == \A s \in Sides : remote[s].files \o FilesIn(q[s]) = local[Other(s)].files
WritesFlow(q) == \A s \in Sides : meant[s] = got[s] \o WritesIn(q[s])

(* A file is asked for by a side that knows it and is ready for its data,   *)
(* and written to a side that has it open.                                  *)
Placed(s, p) ==
  /\ p.what = "open" => /\ p.file \in Range(local[s].files)
                        /\ p.file \in Range(remote[Other(s)].files)
                        /\ p.file.name \in opened[Other(s)]
  /\ p.what = "write" => p.file \in Range(remote[s].files) /\ p.file.name \in opened[s]
AllPlaced(s, u) == \A i \in 1..Len(u) : Placed(s, u[i])
Linked ==
  \A s \in Sides : \A f \in Range(local[s].files) :
    f.name \in opened[s] => f \in Range(remote[Other(s)].files) /\ f.name \in opened[Other(s)]
OpenedNamed ==
  \A s \in Sides : opened[s] \subseteq Named(local[s].files) \cup Named(remote[s].files)
NodesKnown == known = {n \in Nodes : DefinitionOf(n) \in Named(remote[Server].files)}

(* The definition of a node is asked for, written and built once.           *)
Asks(p) == p.what = "open" /\ FileType(p.file) = ExtDefinition
AskedOnce(u) ==
  /\ \A i, j \in 1..Len(u) : Asks(u[i]) /\ Asks(u[j]) /\ u[i].file.name = u[j].file.name => i = j
  /\ \A i \in 1..Len(u) : Asks(u[i]) => u[i].file.name \notin opened[Client]
WrittenOnce ==
  /\ \A i, j \in 1..Len(meant[Server]) :
       meant[Server][i].name[2] = ExtDefinition /\ meant[Server][i].name = meant[Server][j].name
         => i = j
  /\ \A i \in 1..Len(meant[Server]) :
       meant[Server][i].name[2] = ExtDefinition => meant[Server][i].name \in opened[Client]
BuiltFrom ==
  \A f \in Range(local[Server].files) : \E i \in 1..Len(got[Server]) :
    got[Server][i].name = DefinitionOf(f.name[1])

(* What holds of the session once both sides exchange files, with the       *)
(* queues q.                                                                *)
Running(q) ==
  /\ QueuesHold(q) /\ FilesFlow(q) /\ WritesFlow(q)
  /\ \A s \in Sides : AllPlaced(s, q[s])
  /\ Linked /\ OpenedNamed /\ NodesKnown
  /\ AskedOnce(q[Client]) /\ WrittenOnce /\ BuiltFrom

(* A step of side s: it takes a packet or none, with the file rf or the     *)
(* write gw that is complete with it, and sends the packets r, with which   *)
(* it publishes the files lf; it opens the files named "new".               *)
Takes(s, q, u, rf, gw) ==
  \/ /\ Parses(s) /\ u = Tail(q[s]) /\ rf = FileOf[q[s][1]] /\ gw = WriteOf[q[s][1]]
     /\ receiver' = [receiver EXCEPT ![s] = After(q[s][1])]
  \/ /\ u = q[s] /\ rf = <<>> /\ gw = <<>>
     /\ UNCHANGED <<inbox, receiver>>
GivesFiles(s, rf, lf) ==
  /\ local' \in [Sides -> Maps] /\ remote' \in [Sides -> Maps]
  /\ local'[s].files = local[s].files \o lf /\ local'[Other(s)].files = local[Other(s)].files
  /\ remote'[s].files = remote[s].files \o rf /\ remote'[Other(s)].files = remote[Other(s)].files
Sending(s, r, lf) ==
  /\ r \in Seq(Sent) /\ Contiguous(r) /\ (r # <<>> => r[1].lo = 0)
  /\ FilesIn(r) = lf
  /\ stream' = [stream EXCEPT ![Other(s)] = @ \o Bytes(r)]
  /\ meant' = [meant EXCEPT ![Other(s)] = @ \o WritesIn(r)]
StepOf(s, q, u, r, rf, gw, lf, new) ==
  /\ Takes(s, q, u, rf, gw) /\ GivesFiles(s, rf, lf) /\ Sending(s, r, lf)
  /\ got' = [got EXCEPT ![s] = @ \o gw]
  /\ opened' = [opened EXCEPT ![s] = @ \cup new] /\ new \subseteq Names
  /\ UNCHANGED <<connected, accepted, rc>>
QueuesAfter(s, q, u, r) == [t \in Sides |-> IF t = s THEN u ELSE q[t] \o r]

(* The queues after a step of side s.                                       *)
LEMMA AfterSides ==
  ASSUME NEW s \in Sides, NEW q, NEW u, NEW r
  PROVE  QueuesAfter(s, q, u, r)[s] = u /\ QueuesAfter(s, q, u, r)[Other(s)] = q[Other(s)] \o r
  BY OtherFacts DEF QueuesAfter

(* What is left of the queue of a side after a message was taken from it.   *)
LEMMA TakenParts ==
  ASSUME NEW s \in Sides, NEW q, QueuesHold(q), Room, Typed, NEW u, NEW rf, NEW gw, Takes(s, q, u, rf, gw)
  PROVE  /\ u \in Seq(Sent) /\ rf \in Seq(Files) /\ gw \in Seq(FileWrites)
         /\ FilesIn(q[s]) = rf \o FilesIn(u) /\ WritesIn(q[s]) = gw \o WritesIn(u)
         /\ inbox' \in [Sides -> Seq(Byte)] /\ receiver' \in [Sides -> Receivers]
         /\ inbox'[Other(s)] = inbox[Other(s)] /\ receiver'[Other(s)] = receiver[Other(s)]
         /\ (stream'[s] = stream[s] => Queued(s, u)')
<1> DEFINE v == q[s]
<1>1. v \in Seq(Sent) /\ Queued(s, v) /\ s \in DOMAIN inbox /\ Other(s) \in Sides /\ Other(s) # s
  BY OtherFacts DEF QueuesHold, Typed
<1>2. inbox \in [Sides -> Seq(Byte)] /\ receiver \in [Sides -> Receivers]
  BY DEF Typed
<1>3. CASE /\ Parses(s) /\ u = Tail(v) /\ rf = FileOf[v[1]] /\ gw = WriteOf[v[1]]
           /\ receiver' = [receiver EXCEPT ![s] = After(v[1])]
  <2> HIDE DEF v
  <2>1. /\ v # <<>> /\ inbox'[s] \in Seq(Byte) /\ inbox' = [inbox EXCEPT ![s] = inbox'[s]]
    BY <1>1, <1>3, ParsesFirst
  <2>2. v[1] \in Sent /\ Tail(v) \in Seq(Sent)
    BY <1>1, <2>1, FirstAndTail
  <2>3. WritesIn(v) = WriteOf[v[1]] \o WritesIn(Tail(v)) /\ FilesIn(v) = FileOf[v[1]] \o FilesIn(Tail(v))
    BY <1>1, <2>1, WritesInType
  <2>4. rf \in Seq(Files) /\ gw \in Seq(FileWrites)
    BY <1>3, <2>2, WriteParts, FileParts DEF PartsOf
  <2>5. After(v[1]) \in Receivers
    <3> DEFINE p == v[1]
    <3>1. /\ Address(p) \in Nat /\ p.data \in Seq(Byte) /\ p.hi \in Nat /\ p.hi <= Len(p.data)
      BY <2>2, SentFacts
    <3>2. SubSeq(p.data, 1, p.hi) \in Seq(Byte)
      BY <3>1, BeginningOf
    <3>3. INVALID_ADDRESS \in Nat
      BY AddressLimits
    <3>4. <<>> \in Seq(Byte)
      OBVIOUS
    <3> QED BY <3>1, <3>2, <3>3, <3>4 DEF After, Reset, Receivers
  <2>6. receiver' \in [Sides -> Receivers] /\ receiver'[Other(s)] = receiver[Other(s)]
        /\ receiver'[s] = After(v[1])
    BY <1>1, <1>2, <1>3, <2>5
  <2>7. inbox' \in [Sides -> Seq(Byte)] /\ inbox'[Other(s)] = inbox[Other(s)]
    BY <1>1, <1>2, <2>1
  <2>8. ASSUME stream'[s] = stream[s] PROVE Queued(s, u)'
    <3>1. Queued(s, Tail(v))'
      BY <1>1, <1>3, <2>6, <2>8, QueuedAfterFirst
    <3>2. u = Tail(v)
      BY <1>3
    <3>3. u' = u /\ Tail(v)' = Tail(v)
      OBVIOUS
    <3> QED BY <3>1, <3>2, <3>3 DEF Queued
  <2> QED BY <1>3, <2>2, <2>3, <2>4, <2>6, <2>7, <2>8 DEF v
<1>4. CASE u = v /\ rf = <<>> /\ gw = <<>> /\ UNCHANGED <<inbox, receiver>>
  <2> HIDE DEF v
  <2>1. FilesIn(v) \in Seq(Files) /\ WritesIn(v) \in Seq(FileWrites)
    BY <1>1, WritesInType
  <2>2. <<>> \o FilesIn(v) = FilesIn(v) /\ <<>> \o WritesIn(v) = WritesIn(v)
    BY <2>1, ConcatEmptySeq
  <2>3. <<>> \in Seq(Files) /\ <<>> \in Seq(FileWrites)
    OBVIOUS
  <2>4. ASSUME stream'[s] = stream[s] PROVE Queued(s, u)'
    <3>1. u = v
      BY <1>4
    <3> QED BY <1>1, <1>4, <2>4, <3>1 DEF Queued
  <2> QED BY <1>1, <1>2, <1>4, <2>2, <2>3, <2>4 DEF v
<1> QED BY <1>3, <1>4 DEF Takes, v

-----------------------------------------------------------------------------
(* The same of three given sequences.                                       *)
LEMMA ConcatThree ==
  ASSUME NEW S, NEW a \in Seq(S), NEW b \in Seq(S), NEW c \in Seq(S)
  PROVE  (a \o b) \o c = a \o (b \o c)
  BY Associative

(* The queues and what flows through them.                                  *)
LEMMA StepFlows ==
  ASSUME Room, Typed, NEW q, Running(q), NEW s \in Sides,
         NEW u, NEW r, NEW rf, NEW gw, NEW lf, NEW new, StepOf(s, q, u, r, rf, gw, lf, new)
  PROVE  LET q2 == QueuesAfter(s, q, u, r)
         IN /\ Typed' \/ known' \notin SUBSET Nodes
            /\ QueuesHold(q2)' /\ FilesFlow(q2)' /\ WritesFlow(q2)'
<1> DEFINE o == Other(s)
           q2 == QueuesAfter(s, q, u, r)
<1>1. o \in Sides /\ o # s /\ Other(o) = s /\ \A t \in Sides : t = s \/ t = o
  BY OtherFacts
<1>2. QueuesHold(q) /\ q \in [Sides -> Seq(Sent)] /\ (\A t \in Sides : Queued(t, q[t]))
      /\ FilesFlow(q) /\ WritesFlow(q)
  BY DEF Running, QueuesHold
<1>3. /\ Takes(s, q, u, rf, gw) /\ GivesFiles(s, rf, lf) /\ Sending(s, r, lf)
      /\ got' = [got EXCEPT ![s] = @ \o gw]
      /\ opened' = [opened EXCEPT ![s] = @ \cup new] /\ new \subseteq Names
      /\ UNCHANGED <<connected, accepted, rc>>
  BY DEF StepOf
<1>4. /\ u \in Seq(Sent) /\ rf \in Seq(Files) /\ gw \in Seq(FileWrites)
      /\ FilesIn(q[s]) = rf \o FilesIn(u) /\ WritesIn(q[s]) = gw \o WritesIn(u)
      /\ inbox' \in [Sides -> Seq(Byte)] /\ receiver' \in [Sides -> Receivers]
      /\ inbox'[o] = inbox[o] /\ receiver'[o] = receiver[o]
      /\ (stream'[s] = stream[s] => Queued(s, u)')
  BY <1>2, <1>3, TakenParts
<1>5. /\ r \in Seq(Sent) /\ Contiguous(r) /\ (r # <<>> => r[1].lo = 0)
      /\ FilesIn(r) = lf
      /\ stream' = [stream EXCEPT ![o] = @ \o Bytes(r)]
      /\ meant' = [meant EXCEPT ![o] = @ \o WritesIn(r)]
  BY <1>3 DEF Sending
<1>6. /\ local' \in [Sides -> Maps] /\ remote' \in [Sides -> Maps]
      /\ local'[s].files = local[s].files \o lf /\ local'[o].files = local[o].files
      /\ remote'[s].files = remote[s].files \o rf /\ remote'[o].files = remote[o].files
  BY <1>3 DEF GivesFiles
<1>7. /\ stream \in [Sides -> Seq(Byte)] /\ meant \in [Sides -> Seq(FileWrites)]
      /\ got \in [Sides -> Seq(FileWrites)] /\ opened \in [Sides -> SUBSET Names]
      /\ local \in [Sides -> Maps] /\ remote \in [Sides -> Maps]
  BY DEF Typed
<1>8. q[s] \in Seq(Sent) /\ q[o] \in Seq(Sent) /\ q[o] \o r \in Seq(Sent)
  BY <1>1, <1>2, <1>5
<1>9. Bytes(r) \in Seq(Byte) /\ WritesIn(r) \in Seq(FileWrites) /\ FilesIn(r) \in Seq(Files)
  BY <1>5, BytesType, WritesInType
<1>10. /\ stream'[s] = stream[s] /\ stream'[o] = stream[o] \o Bytes(r)
       /\ meant'[s] = meant[s] /\ meant'[o] = meant[o] \o WritesIn(r)
       /\ got'[o] = got[o] /\ got'[s] = got[s] \o gw
  BY <1>1, <1>3, <1>5, <1>7
<1>11. q2[s] = u /\ q2[o] = q[o] \o r
  BY AfterSides
<1>17. q2 = [t \in Sides |-> IF t = s THEN u ELSE q[t] \o r]
  BY DEF QueuesAfter
<1> HIDE DEF o, q2
<1>12. QueuesHold(q2)'
  <2>1. q2 \in [Sides -> Seq(Sent)]
    <3>1. q2[s] \in Seq(Sent) /\ q2[o] \in Seq(Sent)
      BY <1>4, <1>8, <1>11
    <3>2. DOMAIN q2 = Sides /\ q2 = [t \in Sides |-> q2[t]]
      BY <1>17
    <3> QED BY <1>1, <3>1, <3>2
  <2>2. Queued(s, u)'
    BY <1>4, <1>10
  <2>3. Queued(o, q[o] \o r)'
    <3>1. Queued(o, q[o])
      BY <1>1, <1>2
    <3> QED BY <1>1, <1>4, <1>5, <1>8, <1>10, <3>1, QueuedMore
  <2>4. Queued(s, q2[s])'
    <3>1. q2[s] = u
      BY <1>11
    <3> QED BY <2>2, <3>1 DEF Queued
  <2>5. Queued(o, q2[o])'
    <3>1. q2[o] = q[o] \o r
      BY <1>11
    <3> QED BY <2>3, <3>1 DEF Queued
  <2>6. \A t \in Sides : Queued(t, q2[t])'
    BY <1>1, <2>4, <2>5
  <2> QED BY <2>1, <2>6 DEF QueuesHold
<1>13. FilesFlow(q2)'
  <2>1. remote'[s].files \o FilesIn(u) = local'[o].files
    <3>1. remote[s].files \in Seq(Files) /\ FilesIn(u) \in Seq(Files)
      BY <1>4, <1>7, WritesInType DEF Maps
    <3>2. (remote[s].files \o rf) \o FilesIn(u) = remote[s].files \o (rf \o FilesIn(u))
      <4> DEFINE a == remote[s].files
                 b == rf
                 c == FilesIn(u)
      <4>1. a \in Seq(Files) /\ b \in Seq(Files) /\ c \in Seq(Files)
        BY <1>4, <3>1
      <4> HIDE DEF a, b, c
      <4>2. (a \o b) \o c = a \o (b \o c)
        BY ONLY <4>1, ConcatThree
      <4> QED BY <4>2 DEF a, b, c
    <3>3. remote[s].files \o FilesIn(q[s]) = local[o].files
      BY <1>2 DEF FilesFlow, o
    <3> QED BY <1>4, <1>6, <3>2, <3>3
  <2>2. remote'[o].files \o FilesIn(q[o] \o r) = local'[s].files
    <3>1. remote[o].files \in Seq(Files) /\ FilesIn(q[o]) \in Seq(Files)
      BY <1>1, <1>7, <1>8, WritesInType DEF Maps
    <3>2. FilesIn(q[o] \o r) = FilesIn(q[o]) \o FilesIn(r)
      BY <1>5, <1>8, WritesInType
    <3>3. (remote[o].files \o FilesIn(q[o])) \o FilesIn(r) = remote[o].files \o (FilesIn(q[o]) \o FilesIn(r))
      <4> DEFINE a == remote[o].files
                 b == FilesIn(q[o])
                 c == FilesIn(r)
      <4>1. a \in Seq(Files) /\ b \in Seq(Files) /\ c \in Seq(Files)
        BY <1>9, <3>1
      <4> HIDE DEF a, b, c
      <4>2. (a \o b) \o c = a \o (b \o c)
        BY ONLY <4>1, ConcatThree
      <4> QED BY <4>2 DEF a, b, c
    <3>4. remote[o].files \o FilesIn(q[o]) = local[s].files
      BY <1>1, <1>2 DEF FilesFlow
    <3> QED BY <1>5, <1>6, <3>2, <3>3, <3>4
  <2>3. remote'[s].files \o FilesIn(q2[s]) = local'[Other(s)].files
    BY <1>11, <2>1 DEF o
  <2>4. remote'[o].files \o FilesIn(q2[o]) = local'[Other(o)].files
    BY <1>1, <1>11, <2>2
  <2> QED BY <1>1, <2>3, <2>4 DEF FilesFlow
<1>14. WritesFlow(q2)'
  <2>1. meant'[s] = got'[s] \o WritesIn(u)
    <3>1. got[s] \in Seq(FileWrites) /\ WritesIn(u) \in Seq(FileWrites)
      BY <1>4, <1>7, WritesInType
    <3>2. (got[s] \o gw) \o WritesIn(u) = got[s] \o (gw \o WritesIn(u))
      <4> DEFINE a == got[s]
                 b == gw
                 c == WritesIn(u)
      <4>1. a \in Seq(FileWrites) /\ b \in Seq(FileWrites) /\ c \in Seq(FileWrites)
        BY <1>4, <3>1
      <4> HIDE DEF a, b, c
      <4>2. (a \o b) \o c = a \o (b \o c)
        BY ONLY <4>1, ConcatThree
      <4> QED BY <4>2 DEF a, b, c
    <3>3. meant[s] = got[s] \o WritesIn(q[s])
      BY <1>2 DEF WritesFlow
    <3> QED BY <1>4, <1>10, <3>2, <3>3
  <2>2. meant'[o] = got'[o] \o WritesIn(q[o] \o r)
    <3>1. got[o] \in Seq(FileWrites) /\ WritesIn(q[o]) \in Seq(FileWrites)
      BY <1>1, <1>7, <1>8, WritesInType
    <3>2. WritesIn(q[o] \o r) = WritesIn(q[o]) \o WritesIn(r)
      BY <1>5, <1>8, WritesInType
    <3>3. (got[o] \o WritesIn(q[o])) \o WritesIn(r) = got[o] \o (WritesIn(q[o]) \o WritesIn(r))
      <4> DEFINE a == got[o]
                 b == WritesIn(q[o])
                 c == WritesIn(r)
      <4>1. a \in Seq(FileWrites) /\ b \in Seq(FileWrites) /\ c \in Seq(FileWrites)
        BY <1>9, <3>1
      <4> HIDE DEF a, b, c
      <4>2. (a \o b) \o c = a \o (b \o c)
        BY ONLY <4>1, ConcatThree
      <4> QED BY <4>2 DEF a, b, c
    <3>4. meant[o] = got[o] \o WritesIn(q[o])
      BY <1>1, <1>2 DEF WritesFlow
    <3> QED BY <1>10, <3>2, <3>3, <3>4
  <2>3. meant'[s] = got'[s] \o WritesIn(q2[s])
    BY <1>11, <2>1
  <2>4. meant'[o] = got'[o] \o WritesIn(q2[o])
    BY <1>11, <2>2
  <2> QED BY <1>1, <2>3, <2>4 DEF WritesFlow
<1>15. Typed' \/ known' \notin SUBSET Nodes
  <2>1. stream[o] \o Bytes(r) \in Seq(Byte) /\ meant[o] \o WritesIn(r) \in Seq(FileWrites)
        /\ got[s] \o gw \in Seq(FileWrites)
    <3>1. stream[o] \in Seq(Byte) /\ meant[o] \in Seq(FileWrites) /\ got[s] \in Seq(FileWrites)
      BY <1>1, <1>7
    <3> QED BY <1>4, <1>9, <3>1, ConcatElements
  <2>2. stream' \in [Sides -> Seq(Byte)] /\ meant' \in [Sides -> Seq(FileWrites)]
        /\ got' \in [Sides -> Seq(FileWrites)]
    BY <1>3, <1>5, <1>7, <2>1
  <2>3. opened' \in [Sides -> SUBSET Names]
    BY <1>3, <1>7
  <2> QED BY <1>3, <1>4, <1>6, <2>2, <2>3 DEF Typed
<1> QED BY <1>12, <1>13, <1>14, <1>15 DEF q2

-----------------------------------------------------------------------------
(* The elements of a concatenation.                                         *)
LEMMA RangeConcat ==
  ASSUME NEW S, NEW a \in Seq(S), NEW b \in Seq(S)
  PROVE  Range(a \o b) = Range(a) \cup Range(b)
<1> DEFINE c == a \o b
<1>1. /\ c \in Seq(S) /\ Len(c) = Len(a) + Len(b) /\ Len(a) \in Nat /\ Len(b) \in Nat
      /\ \A i \in 1..Len(a) : c[i] = a[i]
      /\ \A i \in 1..Len(b) : c[Len(a) + i] = b[i]
  BY ConcatElements
<1> HIDE DEF c
<1>2. /\ Range(c) = {c[i] : i \in 1..Len(c)} /\ Range(a) = {a[i] : i \in 1..Len(a)}
      /\ Range(b) = {b[i] : i \in 1..Len(b)}
  BY <1>1, Elements
<1>3. ASSUME NEW x \in Range(c) PROVE x \in Range(a) \cup Range(b)
  <2>1. PICK i \in 1..Len(c) : x = c[i]
    BY <1>2, <1>3
  <2>2. CASE i <= Len(a)
    <3>1. i \in 1..Len(a)
      BY <2>2, <1>1
    <3> QED BY <1>1, <1>2, <2>1, <3>1
  <2>3. CASE i > Len(a)
    <3>1. i - Len(a) \in 1..Len(b) /\ Len(a) + (i - Len(a)) = i
      BY <2>3, <1>1
    <3> QED BY <1>1, <1>2, <2>1, <3>1
  <2> QED BY <2>1, <2>2, <2>3, <1>1
<1>4. ASSUME NEW x \in Range(a) PROVE x \in Range(c)
  <2>1. PICK i \in 1..Len(a) : x = a[i]
    BY <1>2, <1>4
  <2>2. i \in 1..Len(c)
    BY <1>1
  <2> QED BY <1>1, <1>2, <2>1, <2>2
<1>5. ASSUME NEW x \in Range(b) PROVE x \in Range(c)
  <2>1. PICK i \in 1..Len(b) : x = b[i]
    BY <1>2, <1>5
  <2>2. Len(a) + i \in 1..Len(c)
    BY <1>1
  <2> QED BY <1>1, <1>2, <2>1, <2>2
<1>6. Range(c) = Range(a) \cup Range(b)
  BY <1>3, <1>4, <1>5
<1> QED BY <1>6 DEF c

(* A step of side s only adds files and open files.                         *)
LEMMA Grows ==
  ASSUME Room, Typed, NEW q, QueuesHold(q), NEW s \in Sides,
         NEW u, NEW r, NEW rf, NEW gw, NEW lf, NEW new, StepOf(s, q, u, r, rf, gw, lf, new)
  PROVE  LET o == Other(s)
         IN /\ Range(local'[s].files) = Range(local[s].files) \cup Range(lf)
            /\ Range(local'[o].files) = Range(local[o].files)
            /\ Range(remote'[s].files) = Range(remote[s].files) \cup Range(rf)
            /\ Range(remote'[o].files) = Range(remote[o].files)
            /\ opened'[s] = opened[s] \cup new /\ opened'[o] = opened[o]
            /\ lf \in Seq(Files) /\ rf \in Seq(Files) /\ gw \in Seq(FileWrites)
<1> DEFINE o == Other(s)
<1>1. o \in Sides /\ o # s
  BY OtherFacts
<1>2. Takes(s, q, u, rf, gw) /\ GivesFiles(s, rf, lf) /\ Sending(s, r, lf)
      /\ opened' = [opened EXCEPT ![s] = @ \cup new]
  BY DEF StepOf
<1>3. rf \in Seq(Files) /\ gw \in Seq(FileWrites)
  BY <1>2, TakenParts
<1>4. lf \in Seq(Files)
  BY <1>2, WritesInType DEF Sending
<1>5. local[s].files \in Seq(Files) /\ remote[s].files \in Seq(Files)
  BY DEF Typed, Maps
<1>6. Range(local'[s].files) = Range(local[s].files) \cup Range(lf)
  <2> DEFINE a == local[s].files
  <2>1. a \in Seq(Files) /\ local'[s].files = a \o lf
    BY <1>2, <1>5 DEF GivesFiles
  <2> HIDE DEF a
  <2>2. Range(a \o lf) = Range(a) \cup Range(lf)
    BY <1>4, <2>1, RangeConcat
  <2> QED BY <2>1, <2>2 DEF a
<1>7. Range(remote'[s].files) = Range(remote[s].files) \cup Range(rf)
  <2> DEFINE a == remote[s].files
  <2>1. a \in Seq(Files) /\ remote'[s].files = a \o rf
    BY <1>2, <1>5 DEF GivesFiles
  <2> HIDE DEF a
  <2>2. Range(a \o rf) = Range(a) \cup Range(rf)
    BY <1>3, <2>1, RangeConcat
  <2> QED BY <2>1, <2>2 DEF a
<1>8. opened'[s] = opened[s] \cup new /\ opened'[o] = opened[o]
  BY <1>1, <1>2 DEF Typed
<1> QED BY <1>2, <1>3, <1>4, <1>6, <1>7, <1>8 DEF GivesFiles

(* What a step of a running session has to take care of.                    *)
Careful(s, q, u, r, gw, lf, new) ==
  /\ \A i \in 1..Len(r) : Placed(Other(s), r[i])'
  /\ \A f \in Range(lf) : f.name \notin opened'[s]
  /\ \A f \in Range(local[s].files) :
       f.name \in new => f \in Range(remote[Other(s)].files) /\ f.name \in opened[Other(s)]
  /\ new \subseteq Named(local'[s].files) \cup Named(remote'[s].files)
  /\ NodesKnown'
  /\ AskedOnce(QueuesAfter(s, q, u, r)[Client])'
  /\ WrittenOnce' /\ BuiltFrom' /\ Lists'

(* Every step of the exchange keeps what holds of it: what was taken from   *)
(* the one queue, put on the other, listed and opened agree.                *)
LEMMA RunningStep ==
  ASSUME Room, Typed, NEW q, Running(q), NEW s \in Sides,
         NEW u, NEW r, NEW rf, NEW gw, NEW lf, NEW new, StepOf(s, q, u, r, rf, gw, lf, new),
         Careful(s, q, u, r, gw, lf, new)
  PROVE  Typed' /\ Lists' /\ Running(QueuesAfter(s, q, u, r))'
<1> DEFINE o == Other(s)
           q2 == QueuesAfter(s, q, u, r)
<1>1. o \in Sides /\ o # s /\ Other(o) = s /\ \A t \in Sides : t = s \/ t = o
  BY OtherFacts
<1>2. /\ QueuesHold(q) /\ (\A t \in Sides : AllPlaced(t, q[t])) /\ Linked /\ OpenedNamed
      /\ q \in [Sides -> Seq(Sent)]
  BY DEF Running, QueuesHold
<1>3. /\ Range(local'[s].files) = Range(local[s].files) \cup Range(lf)
      /\ Range(local'[o].files) = Range(local[o].files)
      /\ Range(remote'[s].files) = Range(remote[s].files) \cup Range(rf)
      /\ Range(remote'[o].files) = Range(remote[o].files)
      /\ opened'[s] = opened[s] \cup new /\ opened'[o] = opened[o]
  BY <1>2, Grows
<1>4. /\ \A i \in 1..Len(r) : Placed(o, r[i])'
      /\ \A f \in Range(lf) : f.name \notin opened'[s]
      /\ \A f \in Range(local[s].files) :
           f.name \in new => f \in Range(remote[o].files) /\ f.name \in opened[o]
      /\ new \subseteq Named(local'[s].files) \cup Named(remote'[s].files)
      /\ NodesKnown' /\ AskedOnce(q2[Client])'
      /\ WrittenOnce' /\ BuiltFrom' /\ Lists'
  BY DEF Careful
<1>5. (Typed' \/ known' \notin SUBSET Nodes) /\ QueuesHold(q2)' /\ FilesFlow(q2)' /\ WritesFlow(q2)'
  BY StepFlows
<1>6. q2[s] = u /\ q2[o] = q[o] \o r
  BY AfterSides
<1>7. u \in Seq(Sent) /\ r \in Seq(Sent) /\ q[s] \in Seq(Sent) /\ q[o] \in Seq(Sent)
  BY <1>1, <1>2, TakenParts DEF StepOf, Sending
<1>8. \A i \in 1..Len(u) : \E j \in 1..Len(q[s]) : u[i] = q[s][j]
  <2> DEFINE v == q[s]
  <2>1. CASE u = v
    BY <2>1
  <2>2. CASE Parses(s) /\ u = Tail(v)
    <3>1. Queued(s, v) /\ s \in DOMAIN inbox /\ v \in Seq(Sent)
      BY <1>2, <1>7 DEF QueuesHold, Typed
    <3> HIDE DEF v
    <3>2. v # <<>>
      BY <2>2, <3>1, ParsesFirst
    <3>3. /\ Len(v) \in Nat /\ Len(Tail(v)) = Len(v) - 1
          /\ \A i \in 1..Len(Tail(v)) : Tail(v)[i] = v[i + 1]
      BY <3>1, <3>2, FirstAndTail
    <3>4. ASSUME NEW i \in 1..Len(u) PROVE \E j \in 1..Len(v) : u[i] = v[j]
      <4>1. i + 1 \in 1..Len(v) /\ u[i] = v[i + 1]
        BY <2>2, <3>3
      <4> QED BY <4>1
    <3> QED BY <3>4 DEF v
  <2> QED BY <2>1, <2>2 DEF StepOf, Takes
<1> HIDE DEF o, q2
<1>9. ASSUME NEW t \in Sides, NEW p, Placed(t, p)
      PROVE  Placed(t, p)'
  <2>1. Other(t) \in Sides /\ (t = s => Other(t) = o) /\ (t = o => Other(t) = s)
    BY <1>1, OtherFacts DEF o
  <2> QED BY <1>1, <1>3, <1>9, <2>1 DEF Placed
<1>10. \A t \in Sides : AllPlaced(t, q2[t])'
  <2>1. AllPlaced(s, u)'
    <3>1. ASSUME NEW i \in 1..Len(u) PROVE Placed(s, u[i])'
      <4>1. PICK j \in 1..Len(q[s]) : u[i] = q[s][j]
        BY <1>8
      <4>2. Placed(s, q[s][j])
        BY <1>2 DEF AllPlaced
      <4>3. Placed(s, u[i])
        BY <4>1, <4>2
      <4> QED BY <4>3, <1>9
    <3> QED BY <3>1 DEF AllPlaced
  <2>2. AllPlaced(o, q[o] \o r)'
    <3> DEFINE v == q[o] \o r
               w == q[o]
    <3>1. w \in Seq(Sent) /\ \A i \in 1..Len(w) : Placed(o, w[i])
      BY <1>1, <1>2, <1>7 DEF AllPlaced
    <3>2. ASSUME NEW i \in 1..Len(v) PROVE Placed(o, v[i])'
      <4> HIDE DEF w
      <4>1. /\ Len(v) = Len(w) + Len(r) /\ Len(w) \in Nat /\ Len(r) \in Nat
            /\ \A k \in 1..Len(w) : v[k] = w[k]
            /\ \A k \in 1..Len(r) : v[Len(w) + k] = r[k]
        BY <1>7, <3>1, ConcatElements DEF w
      <4> HIDE DEF v
      <4>2. CASE i <= Len(w)
        <5>1. i \in 1..Len(w)
          BY <4>1, <4>2
        <5>2. Placed(o, w[i])'
          BY <1>1, <1>9, <3>1, <5>1
        <5> QED BY <4>1, <5>1, <5>2 DEF Placed
      <4>3. CASE i > Len(w)
        <5> DEFINE k == i - Len(w)
        <5>1. k \in 1..Len(r) /\ Len(w) + k = i
          BY <4>1, <4>3
        <5> HIDE DEF k
        <5>2. Placed(o, r[k])' /\ v[i] = r[k]
          BY <1>4, <4>1, <5>1
        <5> QED BY <5>2 DEF Placed
      <4> QED BY <4>1, <4>2, <4>3
    <3> QED BY <3>2 DEF AllPlaced
  <2>3. AllPlaced(s, q2[s])'
    BY <1>6, <2>1 DEF AllPlaced
  <2>4. AllPlaced(o, q2[o])'
    BY <1>6, <2>2 DEF AllPlaced
  <2> QED BY <1>1, <2>3, <2>4
<1>11. Linked'
  <2>1. ASSUME NEW f \in Range(local'[s].files), f.name \in opened'[s]
        PROVE  f \in Range(remote'[o].files) /\ f.name \in opened'[o]
    BY <1>1, <1>2, <1>3, <1>4, <2>1 DEF Linked, o
  <2>2. ASSUME NEW f \in Range(local'[o].files), f.name \in opened'[o]
        PROVE  f \in Range(remote'[s].files) /\ f.name \in opened'[s]
    BY <1>1, <1>2, <1>3, <2>2 DEF Linked
  <2>3. Other(s) = o /\ Other(o) = s
    BY <1>1 DEF o
  <2> QED BY <1>1, <2>1, <2>2, <2>3 DEF Linked
<1>12. OpenedNamed'
  <2>1. opened'[s] \subseteq Named(local'[s].files) \cup Named(remote'[s].files)
    <3>1. Named(local[s].files) \subseteq Named(local'[s].files)
      BY <1>3 DEF Named
    <3>2. Named(remote[s].files) \subseteq Named(remote'[s].files)
      BY <1>3 DEF Named
    <3>3. opened[s] \subseteq Named(local[s].files) \cup Named(remote[s].files)
      BY <1>2 DEF OpenedNamed
    <3> QED BY <1>3, <1>4, <3>1, <3>2, <3>3
  <2>2. opened'[o] \subseteq Named(local'[o].files) \cup Named(remote'[o].files)
    BY <1>1, <1>2, <1>3 DEF OpenedNamed, Named
  <2> QED BY <1>1, <2>1, <2>2 DEF OpenedNamed
<1>13. Typed'
  BY <1>4, <1>5 DEF NodesKnown
<1> QED BY <1>4, <1>5, <1>10, <1>11, <1>12, <1>13 DEF Running, q2

-----------------------------------------------------------------------------
(* What is left of a queue were elements of it.                             *)
LEMMA TakenElements ==
  ASSUME Room, Typed, NEW q, QueuesHold(q), NEW s \in Sides,
         NEW u, NEW rf, NEW gw, Takes(s, q, u, rf, gw)
  PROVE  \E d \in 0..1 : \A i \in 1..Len(u) : i + d \in 1..Len(q[s]) /\ u[i] = q[s][i + d]
<1> DEFINE v == q[s]
<1>1. Queued(s, v) /\ s \in DOMAIN inbox /\ v \in Seq(Sent)
  BY DEF QueuesHold, Typed
<1>2. CASE u = v
  <2> HIDE DEF v
  <2>1. Len(v) \in Nat
    BY <1>1, Elements
  <2>2. \A i \in 1..Len(u) : i + 0 \in 1..Len(v) /\ u[i] = v[i + 0]
    BY <1>2, <2>1
  <2> QED BY <2>2 DEF v
<1>3. CASE Parses(s) /\ u = Tail(v)
  <2> HIDE DEF v
  <2>1. v # <<>>
    BY <1>1, <1>3, ParsesFirst
  <2>2. /\ Len(v) \in Nat /\ Len(Tail(v)) = Len(v) - 1
        /\ \A i \in 1..Len(Tail(v)) : Tail(v)[i] = v[i + 1]
    BY <1>1, <2>1, FirstAndTail
  <2>3. \A i \in 1..Len(u) : i + 1 \in 1..Len(v) /\ u[i] = v[i + 1]
    BY <1>3, <2>2
  <2> QED BY <2>3 DEF v
<1> QED BY <1>2, <1>3 DEF Takes

(* No file is asked for twice.                                              *)
LEMMA AskedKept ==
  ASSUME Room, Typed, NEW q, Running(q), NEW s \in Sides,
         NEW u, NEW r, NEW rf, NEW gw, NEW lf, NEW new, StepOf(s, q, u, r, rf, gw, lf, new),
         s = Server => \A i \in 1..Len(r) : ~Asks(r[i]),
         s = Client => \A i \in 1..Len(u) : Asks(u[i]) => u[i].file.name \notin new
  PROVE  AskedOnce(QueuesAfter(s, q, u, r)[Client])'
<1> DEFINE q2 == QueuesAfter(s, q, u, r)
           v == q[Client]
<1>1. QueuesHold(q) /\ AskedOnce(v) /\ v \in Seq(Sent)
  BY DEF Running, QueuesHold, Sides
<1>2. /\ opened'[s] = opened[s] \cup new /\ opened'[Other(s)] = opened[Other(s)]
  BY <1>1, Grows
<1>3. q2[s] = u /\ q2[Other(s)] = q[Other(s)] \o r
  BY AfterSides
<1>4. Client # Server
  BY DEF Client, Server
<1>5. CASE s = Client
  <2>1. q2[Client] = u /\ opened'[Client] = opened[Client] \cup new
    BY <1>2, <1>3, <1>5
  <2>2. PICK d \in 0..1 : \A i \in 1..Len(u) : i + d \in 1..Len(v) /\ u[i] = v[i + d]
    BY <1>1, <1>5, TakenElements DEF StepOf
  <2> HIDE DEF v, q2
  <2>3. AskedOnce(u)'
    <3>1. ASSUME NEW i \in 1..Len(u), NEW j \in 1..Len(u), Asks(u[i]), Asks(u[j]),
                 u[i].file.name = u[j].file.name
          PROVE  i = j
      <4>1. i + d = j + d
        BY <1>1, <2>2, <3>1 DEF AskedOnce
      <4> QED BY <4>1
    <3>2. ASSUME NEW i \in 1..Len(u), Asks(u[i]) PROVE u[i].file.name \notin opened'[Client]
      BY <1>1, <1>5, <2>1, <2>2, <3>2 DEF AskedOnce
    <3> QED BY <3>1, <3>2 DEF AskedOnce, Asks
  <2> QED BY <2>1, <2>3 DEF AskedOnce, q2
<1>6. CASE s = Server
  <2>1. Other(s) = Client
    BY <1>4, <1>6 DEF Other
  <2>2. q2[Client] = v \o r /\ opened'[Client] = opened[Client] /\ r \in Seq(Sent)
    BY <1>2, <1>3, <2>1 DEF StepOf, Sending
  <2> DEFINE w == v \o r
  <2> HIDE DEF v, q2
  <2>3. /\ Len(w) = Len(v) + Len(r) /\ Len(v) \in Nat /\ Len(r) \in Nat
        /\ \A k \in 1..Len(v) : w[k] = v[k]
        /\ \A k \in 1..Len(r) : w[Len(v) + k] = r[k]
    BY <1>1, <2>2, ConcatElements
  <2> HIDE DEF w
  <2>4. ASSUME NEW i \in 1..Len(w), Asks(w[i]) PROVE i \in 1..Len(v) /\ w[i] = v[i]
    <3>1. CASE i > Len(v)
      <4> DEFINE k == i - Len(v)
      <4>1. k \in 1..Len(r) /\ Len(v) + k = i
        BY <2>3, <3>1
      <4>2. w[i] = r[k] /\ ~Asks(r[k])
        BY <1>6, <2>3, <4>1
      <4> QED BY <2>4, <4>2
    <3> QED BY <2>3, <3>1
  <2>5. AskedOnce(w)'
    <3>1. ASSUME NEW i \in 1..Len(w), NEW j \in 1..Len(w), Asks(w[i]), Asks(w[j]),
                 w[i].file.name = w[j].file.name
          PROVE  i = j
      BY <1>1, <2>4, <3>1 DEF AskedOnce
    <3>2. ASSUME NEW i \in 1..Len(w), Asks(w[i]) PROVE w[i].file.name \notin opened'[Client]
      BY <1>1, <2>2, <2>4, <3>2 DEF AskedOnce
    <3> QED BY <3>1, <3>2 DEF AskedOnce, Asks
  <2> QED BY <2>2, <2>5 DEF AskedOnce, q2, w
<1> QED BY <1>5, <1>6 DEF Sides

(* No definition is written twice.                                          *)
LEMMA WrittenKept ==
  ASSUME Room, Typed, NEW q, Running(q), NEW s \in Sides,
         NEW u, NEW r, NEW rf, NEW gw, NEW lf, NEW new, StepOf(s, q, u, r, rf, gw, lf, new),
         \A i \in 1..Len(WritesIn(r)) : WritesIn(r)[i].name[2] = ExtDefinition =>
           Len(WritesIn(r)) = 1 /\ WritesIn(r)[i].name \in new \ opened[s]
  PROVE  WrittenOnce'
<1> DEFINE m == meant[Server]
           w == WritesIn(r)
<1>1. QueuesHold(q) /\ WrittenOnce /\ m \in Seq(FileWrites) /\ meant \in [Sides -> Seq(FileWrites)]
      /\ r \in Seq(Sent) /\ meant' = [meant EXCEPT ![Other(s)] = @ \o WritesIn(r)]
  BY DEF Running, QueuesHold, Sides, Typed, StepOf, Sending
<1>2. /\ opened'[s] = opened[s] \cup new /\ opened'[Other(s)] = opened[Other(s)]
  BY <1>1, Grows
<1>3. w \in Seq(FileWrites)
  BY <1>1, WritesInType
<1>4. Client # Server /\ {Client, Server} = Sides
  BY DEF Client, Server, Sides
<1>5. CASE s = Server
  <2>1. meant'[Server] = meant[Server] /\ opened'[Client] = opened[Client]
    BY <1>1, <1>2, <1>4, <1>5 DEF Other
  <2> QED BY <1>1, <2>1 DEF WrittenOnce
<1>6. CASE s = Client
  <2>1. meant'[Server] = m \o w /\ opened'[Client] = opened[Client] \cup new
    BY <1>1, <1>2, <1>4, <1>6 DEF Other
  <2>2. \A i \in 1..Len(w) : w[i].name[2] = ExtDefinition =>
           Len(w) = 1 /\ w[i].name \in new \ opened[Client]
    BY <1>6
  <2>3. /\ \A i, j \in 1..Len(m) : m[i].name[2] = ExtDefinition /\ m[i].name = m[j].name => i = j
        /\ \A i \in 1..Len(m) : m[i].name[2] = ExtDefinition => m[i].name \in opened[Client]
    BY <1>1 DEF WrittenOnce
  <2> DEFINE c == m \o w
  <2>4. c = meant'[Server]
    BY <2>1
  <2> HIDE DEF m, w
  <2>5. /\ Len(c) = Len(m) + Len(w) /\ Len(m) \in Nat /\ Len(w) \in Nat
        /\ \A k \in 1..Len(m) : c[k] = m[k]
        /\ \A k \in 1..Len(w) : c[Len(m) + k] = w[k]
    BY <1>1, <1>3, ConcatElements
  <2> HIDE DEF c
  <2>6. ASSUME NEW i \in 1..Len(c), c[i].name[2] = ExtDefinition
        PROVE  \/ i \in 1..Len(m) /\ c[i] = m[i] /\ c[i].name \in opened[Client]
               \/ i = Len(m) + 1 /\ c[i].name \in new \ opened[Client]
    <3>1. CASE i > Len(m)
      <4> DEFINE k == i - Len(m)
      <4>1. k \in 1..Len(w) /\ Len(m) + k = i
        BY <2>5, <3>1
      <4>2. c[i] = w[k]
        BY <2>5, <4>1
      <4> HIDE DEF k
      <4>3. Len(w) = 1 /\ w[k].name \in new \ opened[Client]
        BY <2>2, <2>6, <4>1, <4>2
      <4> QED BY <2>5, <4>1, <4>2, <4>3
    <3>2. CASE i <= Len(m)
      <4>1. i \in 1..Len(m)
        BY <2>5, <3>2
      <4>2. c[i] = m[i]
        BY <2>5, <4>1
      <4> QED BY <2>3, <2>6, <4>1, <4>2
    <3> QED BY <2>5, <3>1, <3>2
  <2>7. ASSUME NEW i \in 1..Len(c), NEW j \in 1..Len(c),
               c[i].name[2] = ExtDefinition, c[i].name = c[j].name
        PROVE  i = j
    <3>1. c[j].name[2] = ExtDefinition
      BY <2>7
    <3>2. \/ i \in 1..Len(m) /\ c[i] = m[i] /\ c[i].name \in opened[Client]
          \/ i = Len(m) + 1 /\ c[i].name \in new \ opened[Client]
      BY <2>6, <2>7
    <3>3. \/ j \in 1..Len(m) /\ c[j] = m[j] /\ c[j].name \in opened[Client]
          \/ j = Len(m) + 1 /\ c[j].name \in new \ opened[Client]
      BY <2>6, <3>1
    <3> QED BY <2>3, <2>7, <3>2, <3>3
  <2>8. ASSUME NEW i \in 1..Len(c), c[i].name[2] = ExtDefinition
        PROVE  c[i].name \in opened'[Client]
    BY <2>1, <2>6, <2>8
  <2> QED BY <2>4, <2>7, <2>8 DEF WrittenOnce
<1> QED BY <1>4, <1>5, <1>6

(* The server has a require port data file only of nodes whose definition   *)
(* it received.                                                             *)
LEMMA BuiltKept ==
  ASSUME Room, Typed, NEW q, Running(q), NEW s \in Sides,
         NEW u, NEW r, NEW rf, NEW gw, NEW lf, NEW new, StepOf(s, q, u, r, rf, gw, lf, new),
         s = Server => \A f \in Range(lf) : gw # <<>> /\ gw[1].name = DefinitionOf(f.name[1])
  PROVE  BuiltFrom'
<1> DEFINE g == got[Server]
<1>1. QueuesHold(q) /\ BuiltFrom /\ g \in Seq(FileWrites) /\ got \in [Sides -> Seq(FileWrites)]
      /\ got' = [got EXCEPT ![s] = @ \o gw]
  BY DEF Running, Sides, Typed, StepOf
<1>2. /\ Range(local'[s].files) = Range(local[s].files) \cup Range(lf)
      /\ Range(local'[Other(s)].files) = Range(local[Other(s)].files)
      /\ gw \in Seq(FileWrites)
  BY <1>1, Grows
<1>4. Client # Server /\ {Client, Server} = Sides
  BY DEF Client, Server, Sides
<1>5. CASE s = Client
  <2>1. got'[Server] = got[Server] /\ Range(local'[Server].files) = Range(local[Server].files)
    BY <1>1, <1>2, <1>4, <1>5 DEF Other
  <2> QED BY <1>1, <2>1 DEF BuiltFrom
<1>6. CASE s = Server
  <2>1. got'[Server] = g \o gw /\ Range(local'[Server].files) = Range(local[Server].files) \cup Range(lf)
    BY <1>1, <1>2, <1>4, <1>6
  <2> DEFINE c == g \o gw
  <2>2. c = got'[Server]
    BY <2>1
  <2>3. \A f \in Range(local[Server].files) : \E i \in 1..Len(g) : g[i].name = DefinitionOf(f.name[1])
    BY <1>1 DEF BuiltFrom
  <2> HIDE DEF g
  <2>4. /\ Len(c) = Len(g) + Len(gw) /\ Len(g) \in Nat /\ Len(gw) \in Nat
        /\ \A k \in 1..Len(g) : c[k] = g[k]
        /\ \A k \in 1..Len(gw) : c[Len(g) + k] = gw[k]
    BY <1>1, <1>2, ConcatElements
  <2> HIDE DEF c
  <2>5. ASSUME NEW f \in Range(local[Server].files)
        PROVE  \E i \in 1..Len(c) : c[i].name = DefinitionOf(f.name[1])
    <3>1. PICK i \in 1..Len(g) : g[i].name = DefinitionOf(f.name[1])
      BY <2>3
    <3>2. i \in 1..Len(c) /\ c[i] = g[i]
      BY <2>4
    <3> QED BY <3>1, <3>2
  <2>6. ASSUME NEW f \in Range(lf)
        PROVE  \E i \in 1..Len(c) : c[i].name = DefinitionOf(f.name[1])
    <3>1. gw # <<>> /\ gw[1].name = DefinitionOf(f.name[1])
      BY <1>6
    <3>2. 1 \in 1..Len(gw)
      BY <1>2, <3>1, FirstAndTail
    <3>3. Len(g) + 1 \in 1..Len(c) /\ c[Len(g) + 1] = gw[1]
      BY <2>4, <3>2
    <3> QED BY <3>1, <3>3
  <2>7. ASSUME NEW f \in Range(local'[Server].files)
        PROVE  \E i \in 1..Len(c) : c[i].name = DefinitionOf(f.name[1])
    BY <2>1, <2>5, <2>6
  <2> QED BY <2>2, <2>7 DEF BuiltFrom, DefinitionOf
<1> QED BY <1>4, <1>5, <1>6

(* The nodes the server knows are those of the files that were published to *)
(* it.                                                                      *)
LEMMA NodesKept ==
  ASSUME Room, Typed, NEW q, Running(q), NEW s \in Sides,
         NEW u, NEW r, NEW gw, NEW lf, NEW new, StepOf(s, q, u, r, <<>>, gw, lf, new),
         known' = known
  PROVE  NodesKnown'
<1>1. QueuesHold(q) /\ NodesKnown
  BY DEF Running
<1> DEFINE none == <<>>
<1>2. StepOf(s, q, u, r, none, gw, lf, new)
  OBVIOUS
<1> HIDE DEF none
<1>3. /\ Range(remote'[s].files) = Range(remote[s].files) \cup Range(none)
      /\ Range(remote'[Other(s)].files) = Range(remote[Other(s)].files)
  BY <1>1, <1>2, Grows
<1>4. Range(none) = {}
  BY DEF Range, none
<1>5. Range(remote'[Server].files) = Range(remote[Server].files)
  <2>1. Server \in Sides
    BY DEF Sides
  <2> QED BY <1>3, <1>4, <2>1, OtherFacts
<1>6. Named(remote'[Server].files) = Named(remote[Server].files)
  BY <1>5 DEF Named
<1> QED BY <1>1, <1>6 DEF NodesKnown, DefinitionOf

(* The lists of files keep their form.                                      *)
LEMMA ListsKept ==
  ASSUME Typed, Lists, NEW s \in Sides, NEW rf, NEW lf, GivesFiles(s, rf, lf),
         lf = <<>> \/ (s = Server /\ ServerList(local[Server].files \o lf))
  PROVE  Lists'
<1>1. /\ local'[s].files = local[s].files \o lf /\ local'[Other(s)].files = local[Other(s)].files
  BY DEF GivesFiles
<1>2. Client # Server /\ {Client, Server} = Sides
  BY DEF Client, Server, Sides
<1>3. CASE lf = <<>>
  <2>1. local[s].files \o <<>> = local[s].files
    <3>1. local[s].files \in Seq(Files)
      BY DEF Typed, Maps
    <3> QED BY <3>1, ConcatEmptySeq
  <2>2. local'[Client].files = local[Client].files /\ local'[Server].files = local[Server].files
    BY <1>1, <1>2, <1>3, <2>1, OtherFacts
  <2> QED BY <2>2 DEF Lists, ClientList, ServerList, DefinitionOf
<1>4. CASE s = Server /\ ServerList(local[Server].files \o lf)
  <2>1. Other(s) = Client
    BY <1>2, <1>4 DEF Other
  <2>2. local'[Client].files = local[Client].files
        /\ local'[Server].files = local[Server].files \o lf
    BY <1>1, <1>4, <2>1
  <2> QED BY <1>4, <2>2 DEF Lists, ClientList, ServerList, DefinitionOf
<1> QED BY <1>3, <1>4

-----------------------------------------------------------------------------
(* The exchange goes on, with some queues.                                  *)
Flowing == \E q : Running(q)

(* Nothing sent, got or opened.                                             *)
LEMMA EmptyParts ==
  ASSUME Typed, Room, NEW s \in Sides
  PROVE  /\ got = [got EXCEPT ![s] = @ \o <<>>]
         /\ opened = [opened EXCEPT ![s] = @ \cup {}]
         /\ stream = [stream EXCEPT ![s] = @ \o Bytes(<<>>)]
         /\ meant = [meant EXCEPT ![s] = @ \o WritesIn(<<>>)]
         /\ Bytes(<<>>) = <<>> /\ WritesIn(<<>>) = <<>> /\ FilesIn(<<>>) = <<>> /\ Contiguous(<<>>)
         /\ local[s].files \o <<>> = local[s].files /\ remote[s].files \o <<>> = remote[s].files
<1>1. /\ got \in [Sides -> Seq(FileWrites)] /\ meant \in [Sides -> Seq(FileWrites)]
      /\ stream \in [Sides -> Seq(Byte)] /\ opened \in [Sides -> SUBSET Names]
      /\ local \in [Sides -> Maps] /\ remote \in [Sides -> Maps]
  BY DEF Typed
<1>2. Bytes(<<>>) = <<>> /\ WritesIn(<<>>) = <<>> /\ FilesIn(<<>>) = <<>>
  BY FlatMapEmpty DEF Bytes, WritesIn, FilesIn
<1>3. Contiguous(<<>>)
  BY DEF Contiguous
<1>4. /\ got[s] \o <<>> = got[s] /\ meant[s] \o <<>> = meant[s] /\ stream[s] \o <<>> = stream[s]
  <2>1. got[s] \in Seq(FileWrites) /\ meant[s] \in Seq(FileWrites) /\ stream[s] \in Seq(Byte)
    BY <1>1
  <2> QED BY <2>1, ConcatEmptySeq
<1>5. local[s].files \o <<>> = local[s].files /\ remote[s].files \o <<>> = remote[s].files
  <2>1. local[s].files \in Seq(Files) /\ remote[s].files \in Seq(Files)
    BY <1>1 DEF Maps
  <2> QED BY <2>1, ConcatEmptySeq
<1>6. opened[s] \cup {} = opened[s]
  OBVIOUS
<1> QED BY <1>1, <1>2, <1>3, <1>4, <1>5, <1>6

LEMMA GivesNothing ==
  ASSUME Typed, Room, NEW s \in Sides, local' \in [Sides -> Maps], remote' \in [Sides -> Maps],
         \A t \in Sides : local'[t].files = local[t].files /\ remote'[t].files = remote[t].files
  PROVE  GivesFiles(s, <<>>, <<>>)
<1>1. Other(s) \in Sides
  BY OtherFacts
<1>2. local[s].files \o <<>> = local[s].files /\ remote[s].files \o <<>> = remote[s].files
  BY EmptyParts
<1> QED BY <1>1, <1>2 DEF GivesFiles

LEMMA SendsNothing ==
  ASSUME Typed, Room, NEW s \in Sides, stream' = stream, meant' = meant
  PROVE  Sending(s, <<>>, <<>>)
<1>1. Other(s) \in Sides
  BY OtherFacts
<1>2. /\ stream = [stream EXCEPT ![Other(s)] = @ \o Bytes(<<>>)]
      /\ meant = [meant EXCEPT ![Other(s)] = @ \o WritesIn(<<>>)]
      /\ FilesIn(<<>>) = <<>> /\ Contiguous(<<>>)
  BY <1>1, EmptyParts
<1>3. <<>> \in Seq(Sent)
  OBVIOUS
<1> QED BY <1>2, <1>3 DEF Sending

(* A message that is received is the first packet of the queue.             *)
LEMMA Received ==
  ASSUME Room, Typed, NEW q, Running(q), NEW s \in Sides, NEW kind, Receives(s, kind)
  PROVE  LET p == q[s][1]
         IN /\ q[s] # <<>> /\ p \in Sent /\ Placed(s, p) /\ 1 \in 1..Len(q[s])
            /\ Message(s) = Understood(p)
            /\ Takes(s, q, Tail(q[s]), FileOf[p], WriteOf[p])
            /\ kind = "none" => ~Final(p) /\ FileOf[p] = <<>> /\ WriteOf[p] = <<>>
            /\ kind = "publish" => Final(p) /\ p.what = kind /\ FileOf[p] = <<p.file>> /\ WriteOf[p] = <<>>
                                   /\ Message(s).file = p.file
            /\ kind = "open" => Final(p) /\ p.what = kind /\ FileOf[p] = <<>> /\ WriteOf[p] = <<>>
                                   /\ Message(s).address = Start(p.file)
            /\ kind = "write" => Final(p) /\ p.what = kind /\ FileOf[p] = <<>>
                                   /\ WriteOf[p] = <<Write(p.file.name, p.offset, p.data)>>
                                   /\ Message(s).address = Address(p) /\ Message(s).data = p.data
            /\ Message(s).rc = "ok"
<1> DEFINE v == q[s]
           p == v[1]
<1>1. Queued(s, v) /\ s \in DOMAIN inbox /\ v \in Seq(Sent) /\ AllPlaced(s, v)
  BY DEF Running, QueuesHold, Typed
<1>2. Parses(s) /\ Message(s).kind = kind
      /\ receiver' = IF Message(s).rc = "ok"
                       THEN [receiver EXCEPT ![s] = Reception(s).receiver] ELSE receiver
  BY DEF Receives
<1> HIDE DEF v
<1>3. v # <<>> /\ Message(s) = Understood(p) /\ Reception(s).receiver = After(p)
  BY <1>1, <1>2, ParsesFirst
<1>4. p \in Sent /\ 1 \in 1..Len(v)
  BY <1>1, <1>3, FirstAndTail
<1>5. Placed(s, p)
  BY <1>1, <1>4 DEF AllPlaced
<1>6. p.what \in {"publish", "open", "write"} /\ AsMeant(p)
  BY <1>4, SentFacts
<1>7. Understood(p).rc = "ok"
  BY DEF Understood, Ignore
<1>8. receiver' = [receiver EXCEPT ![s] = After(p)]
  BY <1>2, <1>3, <1>7
<1>9. Takes(s, q, Tail(v), FileOf[p], WriteOf[p])
  BY <1>2, <1>8 DEF Takes, v
<1>10. /\ FileOf[p] = IF p.what = "publish" THEN <<p.file>> ELSE <<>>
       /\ WriteOf[p] = IF Final(p) /\ p.what = "write"
                         THEN <<Write(p.file.name, p.offset, p.data)>> ELSE <<>>
  BY <1>4 DEF FileOf, WriteOf
<1>11. ~Final(p) => p.what = "write"
  BY <1>6 DEF AsMeant
<1>12. kind = Understood(p).kind
  BY <1>2, <1>3
<1>13. kind = IF ~Final(p) THEN "none" ELSE p.what
  BY <1>6, <1>12 DEF Understood, Ignore
<1>14. /\ kind = "publish" => Understood(p).file = p.file
       /\ kind = "open" => Understood(p).address = Start(p.file)
       /\ kind = "write" => Understood(p).address = Address(p) /\ Understood(p).data = p.data
  BY <1>6, <1>13 DEF Understood, Ignore
<1>15. kind = "none" => ~Final(p) /\ FileOf[p] = <<>> /\ WriteOf[p] = <<>>
  BY <1>6, <1>10, <1>11, <1>13
<1>16. kind = "publish" => Final(p) /\ p.what = kind /\ FileOf[p] = <<p.file>> /\ WriteOf[p] = <<>>
  BY <1>6, <1>10, <1>13
<1>17. kind = "open" => Final(p) /\ p.what = kind /\ FileOf[p] = <<>> /\ WriteOf[p] = <<>>
  BY <1>6, <1>10, <1>13
<1>18. kind = "write" => Final(p) /\ p.what = kind /\ FileOf[p] = <<>>
                         /\ WriteOf[p] = <<Write(p.file.name, p.offset, p.data)>>
  BY <1>6, <1>10, <1>13
<1> QED BY <1>3, <1>4, <1>5, <1>7, <1>9, <1>14, <1>15, <1>16, <1>17, <1>18 DEF v

(* A step with nothing to do.                                               *)
LEMMA NothingStep ==
  ASSUME Room, Typed, Lists, NEW q, Running(q), NEW s \in Sides, NothingToDo(s)
  PROVE  Typed' /\ Lists' /\ Flowing'
<1> DEFINE v == q[s]
           u == Tail(v)
           e == <<>>
           z == {}
<1>1. Receives(s, "none") /\ rc' = [rc EXCEPT ![s] = Message(s).rc]
      /\ UNCHANGED <<connected, accepted, local, remote, opened, known, stream, meant, got>>
  BY DEF NothingToDo
<1>2. /\ v # <<>> /\ Takes(s, q, u, e, e) /\ Message(s).rc = "ok"
  BY <1>1, Received
<1>3. rc' = rc
  BY <1>1, <1>2 DEF Typed
<1>4. GivesFiles(s, e, e)
  BY <1>1, GivesNothing DEF Typed
<1>5. Sending(s, e, e)
  BY <1>1, SendsNothing
<1>6. got' = [got EXCEPT ![s] = @ \o e] /\ opened' = [opened EXCEPT ![s] = @ \cup z]
  BY <1>1, EmptyParts
<1>7. StepOf(s, q, u, e, e, e, e, z)
  BY <1>1, <1>2, <1>3, <1>4, <1>5, <1>6 DEF StepOf
<1>8. e # <<>> => FALSE
  OBVIOUS
<1>9. Len(e) = 0 /\ Range(e) = {} /\ Len(WritesIn(e)) = 0
  BY EmptyParts DEF Range
<1>10. Lists'
  BY <1>4, ListsKept
<1>14. NodesKnown'
  BY <1>1, <1>7, NodesKept
<1> HIDE DEF u, e, z
<1>11. AskedOnce(QueuesAfter(s, q, u, e)[Client])'
  BY <1>7, <1>9, AskedKept DEF z
<1>12. WrittenOnce'
  BY <1>7, <1>9, WrittenKept
<1>13. BuiltFrom'
  BY <1>7, <1>9, BuiltKept
<1>15. Careful(s, q, u, e, e, e, z)
  BY <1>9, <1>10, <1>11, <1>12, <1>13, <1>14 DEF Careful, z
<1>16. Typed' /\ Running(QueuesAfter(s, q, u, e))'
  BY <1>7, <1>15, RunningStep
<1> QED BY <1>10, <1>16 DEF Flowing

-----------------------------------------------------------------------------
(* What a side knows of the files of the other are the first of them.       *)
LEMMA KnownFirst ==
  ASSUME Typed, Lists, NEW q, QueuesHold(q), FilesFlow(q), NEW s \in Sides
  PROVE  LET old == remote[s].files
             all == local[Other(s)].files
         IN /\ Good(all) /\ all \in Seq(Files) /\ old \in Seq(Files) /\ Len(old) <= Len(all)
            /\ \A i \in 1..Len(old) : old[i] = all[i]
            /\ Range(old) \subseteq Range(all) /\ Apart(old) /\ UniqueNames(old)
            /\ FilesIn(q[s]) \in Seq(Files) /\ Len(all) = Len(old) + Len(FilesIn(q[s]))
            /\ \A i \in 1..Len(FilesIn(q[s])) : all[Len(old) + i] = FilesIn(q[s])[i]
<1> DEFINE old == remote[s].files
           all == local[Other(s)].files
           more == FilesIn(q[s])
<1>1. Other(s) \in Sides /\ q[s] \in Seq(Sent)
  BY OtherFacts DEF QueuesHold
<1>2. Good(all)
  BY <1>1 DEF Lists, ClientList, ServerList, Sides
<1>3. all \in Seq(Files) /\ old \in Seq(Files) /\ more \in Seq(Files)
  BY <1>1, WritesInType DEF Typed, Maps
<1>4. old \o more = all
  BY DEF FilesFlow
<1> HIDE DEF old, all, more
<1>5. /\ Len(all) = Len(old) + Len(more) /\ Len(old) \in Nat /\ Len(more) \in Nat /\ Len(all) \in Nat
      /\ \A i \in 1..Len(old) : all[i] = old[i]
      /\ \A i \in 1..Len(more) : all[Len(old) + i] = more[i]
  BY <1>3, <1>4, ConcatElements
<1>6. Range(old) \subseteq Range(all)
  <2>1. Range(old \o more) = Range(old) \cup Range(more)
    BY <1>3, RangeConcat
  <2> QED BY <1>4, <2>1
<1>7. DOMAIN old = 1..Len(old) /\ DOMAIN all = 1..Len(all)
  BY <1>3, Elements
<1>8. Apart(all) /\ UniqueNames(all)
  BY <1>2 DEF Good
<1>9. \A i \in 1..Len(old) : i \in 1..Len(all)
  BY <1>5
<1>10. Apart(old)
  BY <1>5, <1>7, <1>8, <1>9 DEF Apart
<1>11. UniqueNames(old)
  BY <1>5, <1>7, <1>8, <1>9 DEF UniqueNames
<1>12. Len(old) <= Len(all)
  BY <1>5
<1> QED BY <1>2, <1>3, <1>5, <1>6, <1>10, <1>11, <1>12 DEF old, all, more

(* The types of the files of each side.                                     *)
LEMMA FilesOfSides ==
  ASSUME Typed, Lists
  PROVE  /\ \A f \in Range(local[Client].files) :
               f \in Files /\ FileType(f) \in {ExtProvide, ExtDefinition}
         /\ \A f \in Range(local[Server].files) : f \in Files /\ FileType(f) = ExtRequire
<1>1. local[Client].files \in Seq(Files) /\ local[Server].files \in Seq(Files)
  BY DEF Typed, Maps, Sides
<1>2. ASSUME NEW f \in Range(local[Client].files)
      PROVE  f \in Files /\ FileType(f) \in {ExtProvide, ExtDefinition}
  <2>1. PICK m : ClientList(local[Client].files, m)
    BY DEF Lists
  <2>2. PICK i \in 1..Len(local[Client].files) : f = local[Client].files[i]
    BY <1>1, <1>2, Elements
  <2> QED BY <1>1, <2>1, <2>2, ClientTypes, Elements
<1>3. ASSUME NEW f \in Range(local[Server].files)
      PROVE  f \in Files /\ FileType(f) = ExtRequire
  <2>1. ServerList(local[Server].files)
    BY DEF Lists
  <2>2. PICK i \in 1..Len(local[Server].files) : f = local[Server].files[i]
    BY <1>1, <1>3, Elements
  <2> QED BY <1>1, <2>1, <2>2, ServerTypes, Elements
<1> QED BY <1>2, <1>3

(* A published file is the next file of the other side.                     *)
LEMMA NextPublished ==
  ASSUME Room, Typed, Lists, NEW q, Running(q), NEW s \in Sides, q[s] # <<>>,
         NEW f, FileOf[q[s][1]] = <<f>>
  PROVE  LET old == remote[s].files
             all == local[Other(s)].files
         IN /\ f \in Files /\ Len(old) + 1 \in 1..Len(all) /\ all[Len(old) + 1] = f
            /\ f \in Range(all) /\ f.name \notin Named(old)
            /\ \A i \in 1..Len(old) : End(old[i]) <= Start(f)
            /\ apx_fileMap_create_file(old, f) =
                 [result |-> "created", file |-> f, files |-> old \o <<f>>]
<1> DEFINE old == remote[s].files
           all == local[Other(s)].files
           v == q[s]
           more == FilesIn(v)
           rest == FilesIn(Tail(v))
           one == <<f>>
<1>1. QueuesHold(q) /\ FilesFlow(q) /\ v \in Seq(Sent)
  BY DEF Running, QueuesHold
<1>2. /\ Good(all) /\ all \in Seq(Files) /\ old \in Seq(Files)
      /\ \A i \in 1..Len(old) : old[i] = all[i]
      /\ more \in Seq(Files) /\ Len(all) = Len(old) + Len(more)
      /\ \A i \in 1..Len(more) : all[Len(old) + i] = more[i]
  <2>1. QueuesHold(q) /\ FilesFlow(q)
    BY <1>1
  <2> HIDE <1>1
  <2> QED BY <2>1, KnownFirst, ZenonT(30)
<1>3. more = one \o rest /\ one \in Seq(Files) /\ rest \in Seq(Files)
  <2>1. v[1] \in Sent /\ Tail(v) \in Seq(Sent)
    BY <1>1, FirstAndTail
  <2>2. FileOf[v[1]] \in Seq(Files)
    BY <2>1, FileParts DEF PartsOf
  <2>3. rest \in Seq(Files)
    BY <2>1, WritesInType
  <2>4. more = FileOf[v[1]] \o rest
    BY <1>1, WritesInType
  <2> QED BY <2>2, <2>3, <2>4
<1>4. f \in Files /\ one # <<>> /\ one[1] = f
  <2>1. Len(one) = 1 /\ one[1] = f /\ one \in Seq(Files) /\ one # <<>>
    BY <1>3
  <2> HIDE DEF one
  <2>2. 1 \in 1..Len(one)
    BY <2>1
  <2>3. one[1] \in Files
    BY ONLY <2>1, <2>2, Elements
  <2> QED BY <2>1, <2>2, <2>3
<1> HIDE DEF old, all, more, rest, one, v
<1>5. Len(more) \in Nat /\ Len(more) >= 1 /\ more[1] = f
  <2>1. Len(more) = Len(one) + Len(rest) /\ Len(one) \in Nat /\ Len(rest) \in Nat
        /\ \A i \in 1..Len(one) : more[i] = one[i]
    BY <1>3, ConcatElements
  <2>2. Len(one) = 1 /\ 1 \in 1..Len(one)
    BY DEF one
  <2> QED BY <1>4, <2>1, <2>2
<1>6. Len(old) \in Nat /\ Len(all) \in Nat /\ DOMAIN all = 1..Len(all) /\ DOMAIN old = 1..Len(old)
  BY <1>2, Elements
<1>7. Len(old) + 1 \in 1..Len(all) /\ all[Len(old) + 1] = f
  BY <1>2, <1>5, <1>6
<1>8. f \in Range(all)
  BY <1>2, <1>7, Elements
<1>9. \A i \in 1..Len(old) : i \in 1..Len(all) /\ i < Len(old) + 1
  BY <1>2, <1>5, <1>6
<1>10. \A i \in 1..Len(old) : End(old[i]) <= Start(f)
  <2>1. \A i, j \in 1..Len(all) : i < j => End(all[i]) <= Start(all[j])
    BY <1>2, <1>6 DEF Good, Apart
  <2> QED BY <1>2, <1>7, <1>9, <2>1
<1>11. f.name \notin Named(old)
  <2>1. \A i, j \in 1..Len(all) : all[i].name = all[j].name => i = j
    BY <1>2, <1>6 DEF Good, UniqueNames
  <2>2. ASSUME NEW g \in Range(old), g.name = f.name PROVE FALSE
    <3>1. PICK i \in 1..Len(old) : g = old[i]
      <4>1. old \in Seq(Files) /\ g \in Range(old)
        BY <1>2, <2>2
      <4>2. Range(old) = {old[i] : i \in 1..Len(old)}
        BY <4>1, Elements
      <4> QED BY <4>1, <4>2
    <3>2. i = Len(old) + 1
      BY <1>2, <1>7, <1>9, <2>1, <2>2, <3>1
    <3> QED BY <1>9, <3>1, <3>2, <1>6
  <2> QED BY <2>2 DEF Named
<1>12. apx_fileMap_create_file(old, f) =
         [result |-> "created", file |-> f, files |-> old \o <<f>>]
  BY <1>2, <1>4, <1>10, CreatedLast
<1> QED BY <1>4, <1>7, <1>8, <1>10, <1>11, <1>12 DEF old, all

-----------------------------------------------------------------------------
(* The server does not know the node of a file that is published to it.     *)
LEMMA NodeIsNew ==
  ASSUME Room, Typed, Lists, NEW q, Running(q), q[Server] # <<>>,
         NEW f, FileOf[q[Server][1]] = <<f>>
  PROVE  BaseName(f) \notin known
<1> DEFINE old == remote[Server].files
           all == local[Other(Server)].files
           k == Len(old) + 1
           n == BaseName(f)
<1>1. Server \in Sides /\ Other(Server) = Client /\ QueuesHold(q) /\ FilesFlow(q) /\ NodesKnown
  BY DEF Sides, Other, Server, Client, Running
<1>2. /\ f \in Files /\ k \in 1..Len(all) /\ all[k] = f /\ f.name \notin Named(old)
  BY ONLY Room, Typed, Lists, Running(q), q[Server] # <<>>, FileOf[q[Server][1]] = <<f>>, <1>1,
     NextPublished, ZenonT(30)
<1>3. /\ Good(all) /\ all \in Seq(Files) /\ old \in Seq(Files)
      /\ \A i \in 1..Len(old) : old[i] = all[i]
  BY <1>1, KnownFirst
<1>4. PICK m : ClientList(all, m)
  BY <1>1 DEF Lists
<1>5. ASSUME n \in known PROVE FALSE
  <2>1. DefinitionOf(n) \in Named(old) /\ n \in Nodes
    BY <1>1, <1>5 DEF NodesKnown
  <2> HIDE DEF old, all
  <2>2. PICK g \in Range(old) : g.name = DefinitionOf(n)
    BY <2>1 DEF Named
  <2>3. Range(old) = {old[i] : i \in 1..Len(old)} /\ Len(old) \in Nat
    BY <1>3, Elements
  <2>4. PICK i \in 1..Len(old) : g = old[i]
    BY <2>2, <2>3
  <2>5. i < k /\ i \in 1..Len(all) /\ all[i] = g
    <3>1. i < k
      BY <2>3, <2>4
    <3>2. Len(all) \in Nat
      BY <1>3, Elements
    <3> QED BY <1>2, <1>3, <2>4, <3>1, <3>2
  <2>6. g \in Files /\ FileType(g) = g.name[2] /\ FileType(f) = f.name[2]
        /\ f.name = FileName(f.name[1], f.name[2]) /\ BaseName(f) = f.name[1]
    <3>1. g \in Files
      BY <1>3, <2>5, Elements
    <3> QED BY <1>2, <3>1, FileFacts
  <2>7. FileType(g) = ExtDefinition
    BY <2>2, <2>6 DEF DefinitionOf, FileName
  <2>8. FileType(f) = ExtDefinition
    BY <1>2, <1>4, <2>5, <2>7, ClientTypes
  <2>9. f.name = DefinitionOf(n)
    BY <2>6, <2>8 DEF DefinitionOf
  <2> QED BY <1>2, <2>1, <2>9 DEF old
<1> QED BY <1>5

(* A file that was published is not refused: it lies apart from those       *)
(* known, and its node is not known under this file.                        *)
LEMMA PublishedAccepted ==
  ASSUME Room, Typed, Lists, NEW q, Running(q), NEW s \in Sides, q[s] # <<>>,
         NEW f, FileOf[q[s][1]] = <<f>>, NEW created, created.result = "created"
  PROVE  PublishVerdict(s, f, created) = "ok"
<1>1. s = Client \/ ~HasNode(s, BaseName(f))
  BY NodeIsNew DEF HasNode, Sides
<1> QED BY <1>1 DEF PublishVerdict

(* The nodes the server knows after a file was published to it.             *)
LEMMA NodesAfterPublished ==
  ASSUME Room, Typed, Lists, NEW q, Running(q), NEW s \in Sides, q[s] # <<>>,
         NEW f, f \in Files,
         Range(remote'[s].files) = Range(remote[s].files) \cup {f},
         Range(remote'[Other(s)].files) = Range(remote[Other(s)].files),
         known' = IF s = Server /\ FileType(f) = ExtDefinition THEN known \cup {BaseName(f)} ELSE known
  PROVE  NodesKnown'
<1>1. NodesKnown
  BY DEF Running
<1>2. Client # Server /\ {Client, Server} = Sides
  BY DEF Client, Server, Sides
<1>3. CASE s = Client
  <2>1. Range(remote'[Server].files) = Range(remote[Server].files) /\ known' = known
    BY <1>2, <1>3 DEF Other
  <2>2. Named(remote'[Server].files) = Named(remote[Server].files)
    BY <2>1 DEF Named
  <2> QED BY <1>1, <2>1, <2>2 DEF NodesKnown, DefinitionOf
<1>4. CASE s = Server
  <2>1. Named(remote'[Server].files) = Named(remote[Server].files) \cup {f.name}
    BY <1>4 DEF Named
  <2>2. /\ FileType(f) = f.name[2] /\ BaseName(f) = f.name[1] /\ f.name[1] \in Nodes
        /\ f.name = FileName(f.name[1], f.name[2])
    BY FileFacts
  <2>3. \A n \in Nodes : DefinitionOf(n) = f.name <=> FileType(f) = ExtDefinition /\ n = BaseName(f)
    BY <2>2 DEF DefinitionOf, FileName
  <2>4. known' = {n \in Nodes : DefinitionOf(n) \in Named(remote'[Server].files)}
    BY <1>1, <1>4, <2>1, <2>2, <2>3 DEF NodesKnown
  <2> QED BY <2>4 DEF NodesKnown, DefinitionOf
<1> QED BY <1>2, <1>3, <1>4

-----------------------------------------------------------------------------
(* A file that is known is asked for (apx_fileManager_send_open_file).      *)
Opening(s, f) ==
  /\ opened' = [opened EXCEPT ![s] = @ \cup {f.name}]
  /\ known' = NodesAfter(s, BaseName(f))
  /\ Sends(s, OpenFile(f))

(* What the handler of a published file does.                               *)
LEMMA PublishedEffect ==
  ASSUME Room, Typed, Lists, NEW q, Running(q), NEW s \in Sides, FilePublished(s)
  PROVE  LET p == q[s][1]
             f == p.file
         IN /\ q[s] # <<>> /\ f \in Files /\ FileOf[p] = <<f>> /\ WriteOf[p] = <<>>
            /\ Takes(s, q, Tail(q[s]), <<f>>, <<>>)
            /\ f \in Range(local[Other(s)].files) /\ f.name \notin Named(remote[s].files)
            /\ rc' = rc
            /\ remote' = [remote EXCEPT ![s].files = remote[s].files \o <<f>>]
            /\ \/ OpensAtOnce(s, f) /\ Opening(s, f)
               \/ ~OpensAtOnce(s, f) /\ UNCHANGED <<opened, known, stream>>
            /\ UNCHANGED <<connected, accepted, local, meant, got>>
<1> DEFINE p == q[s][1]
           f == p.file
           old == remote[s].files
           created == [result |-> "created", file |-> f, files |-> old \o <<f>>]
<1>1. Receives(s, "publish")
  BY DEF FilePublished
<1>2. /\ q[s] # <<>> /\ FileOf[p] = <<f>> /\ WriteOf[p] = <<>> /\ Message(s).file = f
      /\ Takes(s, q, Tail(q[s]), FileOf[p], WriteOf[p])
  BY <1>1, Received
<1> HIDE DEF f
<1>3. /\ f \in Files /\ f \in Range(local[Other(s)].files) /\ f.name \notin Named(old)
      /\ apx_fileMap_create_file(old, f) = created
  BY <1>2, NextPublished
<1> DEFINE verdict == PublishVerdict(s, f, created)
<1>4. created.result = "created" /\ created.file = f /\ created.files = old \o <<f>>
  OBVIOUS
<1> HIDE DEF created
<1>5. verdict = "ok"
  BY <1>2, <1>4, PublishedAccepted
<1> HIDE DEF verdict
<1>6. /\ rc' = [rc EXCEPT ![s] = verdict]
      /\ remote' = IF created.result = "created"
                     THEN [remote EXCEPT ![s].files = created.files] ELSE remote
      /\ IF verdict = "ok" /\ OpensAtOnce(s, f)
           THEN /\ opened' = [opened EXCEPT ![s] = @ \cup {f.name}]
                /\ known' = NodesAfter(s, BaseName(f))
                /\ Sends(s, OpenFile(created.file))
           ELSE UNCHANGED <<opened, known, stream>>
      /\ UNCHANGED <<connected, accepted, local, meant, got>>
  BY <1>2, <1>3 DEF FilePublished, verdict
<1>7. rc' = rc
  BY <1>5, <1>6 DEF Typed
<1>8. remote' = [remote EXCEPT ![s].files = old \o <<f>>]
  BY <1>4, <1>6
<1>9. \/ OpensAtOnce(s, f) /\ Opening(s, f)
      \/ ~OpensAtOnce(s, f) /\ UNCHANGED <<opened, known, stream>>
  BY <1>4, <1>5, <1>6 DEF Opening
<1> QED BY <1>2, <1>3, <1>6, <1>7, <1>8, <1>9 DEF f

(* A file that was published joins the remote files of the side.            *)
LEMMA PublishedGives ==
  ASSUME Typed, Room, NEW s \in Sides, NEW f \in Files, local' = local,
         remote' = [remote EXCEPT ![s].files = remote[s].files \o <<f>>]
  PROVE  /\ GivesFiles(s, <<f>>, <<>>)
         /\ Range(remote'[s].files) = Range(remote[s].files) \cup {f}
         /\ Range(remote'[Other(s)].files) = Range(remote[Other(s)].files)
<1> DEFINE old == remote[s].files
           one == <<f>>
<1>1. Other(s) \in Sides /\ Other(s) # s
  BY OtherFacts
<1>2. local \in [Sides -> Maps] /\ remote \in [Sides -> Maps] /\ old \in Seq(Files)
      /\ remote[s] \in Maps
  BY DEF Typed, Maps
<1>3. one \in Seq(Files) /\ Range(one) = {f}
  BY DEF Range
<1> HIDE DEF old, one
<1>4. old \o one \in Seq(Files) /\ Range(old \o one) = Range(old) \cup Range(one)
  BY <1>2, <1>3, ConcatElements, RangeConcat
<1> DEFINE new == old \o one
<1> HIDE DEF new
<1>5. remote' = [remote EXCEPT ![s].files = new]
  BY DEF old, one, new
<1>6. new \in Seq(Files)
  BY <1>4 DEF new
<1>7. [remote[s] EXCEPT !.files = new] \in Maps
  BY <1>2, <1>6 DEF Maps
<1>8. remote' = [remote EXCEPT ![s] = [remote[s] EXCEPT !.files = new]]
  BY <1>5
<1>9. remote' \in [Sides -> Maps]
  BY <1>2, <1>7, <1>8
<1>10. remote'[s].files = new /\ remote'[Other(s)] = remote[Other(s)]
  <2>1. [remote[s] EXCEPT !.files = new].files = new
    BY <1>2 DEF Maps
  <2>2. remote'[s] = [remote[s] EXCEPT !.files = new]
    BY <1>2, <1>8
  <2>3. remote'[Other(s)] = remote[Other(s)]
    BY <1>1, <1>2, <1>8
  <2> QED BY <2>1, <2>2, <2>3
<1>11. local[s].files \o <<>> = local[s].files
  BY EmptyParts
<1> QED BY <1>2, <1>3, <1>4, <1>9, <1>10, <1>11 DEF GivesFiles, new, old, one

(* A file information command is received.                                  *)
LEMMA PublishedStep ==
  ASSUME Room, Enough, Typed, Lists, NEW q, Running(q), NEW s \in Sides, FilePublished(s)
  PROVE  Typed' /\ Lists' /\ Flowing'
<1> DEFINE v == q[s]
           u == Tail(v)
           f == v[1].file
           e == <<>>
           rf == <<f>>
           o == Other(s)
<1>1. /\ v # <<>> /\ f \in Files /\ FileOf[v[1]] = rf /\ WriteOf[v[1]] = <<>>
      /\ Takes(s, q, u, rf, e)
      /\ f \in Range(local[o].files) /\ f.name \notin Named(remote[s].files)
      /\ rc' = rc
      /\ remote' = [remote EXCEPT ![s].files = remote[s].files \o rf]
      /\ \/ OpensAtOnce(s, f) /\ Opening(s, f)
         \/ ~OpensAtOnce(s, f) /\ UNCHANGED <<opened, known, stream>>
      /\ UNCHANGED <<connected, accepted, local, meant, got>>
  BY PublishedEffect
<1>2. /\ GivesFiles(s, rf, e) /\ Range(remote'[s].files) = Range(remote[s].files) \cup {f}
      /\ Range(remote'[o].files) = Range(remote[o].files)
  BY <1>1, PublishedGives
<1>3. got' = [got EXCEPT ![s] = @ \o e]
  BY <1>1, EmptyParts
<1>4. Lists'
  BY <1>2, ListsKept
<1>5. Client # Server /\ {Client, Server} = Sides /\ o \in Sides /\ Other(o) = s /\ o # s
  BY OtherFacts DEF Client, Server, Sides
<1>6. Range(e) = {} /\ Len(WritesIn(e)) = 0 /\ Len(e) = 0
  BY EmptyParts DEF Range
<1>7. QueuesHold(q) /\ AskedOnce(q[Client]) /\ (\A t \in Sides : AllPlaced(t, q[t])) /\ Linked
      /\ FilesFlow(q) /\ OpenedNamed /\ q \in [Sides -> Seq(Sent)]
  BY DEF Running, QueuesHold
<1>8. f.name \in Names /\ FileType(f) = f.name[2]
  BY <1>1, FileFacts
<1> HIDE DEF u, f, rf, e, o, v
<1>9. CASE ~OpensAtOnce(s, f) /\ UNCHANGED <<opened, known, stream>>
  <2> DEFINE z == {}
  <2>1. Sending(s, e, e)
    BY <1>1, <1>9, SendsNothing DEF e
  <2>2. opened' = [opened EXCEPT ![s] = @ \cup z]
    BY <1>9, EmptyParts
  <2> HIDE DEF z
  <2>3. StepOf(s, q, u, e, rf, e, e, z)
    BY <1>1, <1>2, <1>3, <1>9, <2>1, <2>2 DEF StepOf, z
  <2>4. AskedOnce(QueuesAfter(s, q, u, e)[Client])'
    BY <1>6, <2>3, AskedKept DEF z
  <2>5. WrittenOnce'
    BY <1>6, <2>3, WrittenKept
  <2>6. BuiltFrom'
    BY <1>6, <2>3, BuiltKept
  <2>7. NodesKnown'
    <3>1. known' = IF s = Server /\ FileType(f) = ExtDefinition
                     THEN known \cup {BaseName(f)} ELSE known
      BY <1>9 DEF OpensAtOnce
    <3> QED BY <1>1, <1>2, <3>1, NodesAfterPublished DEF o, v
  <2>8. Careful(s, q, u, e, e, e, z)
    BY <1>4, <1>6, <2>4, <2>5, <2>6, <2>7 DEF Careful, z
  <2>9. Typed' /\ Running(QueuesAfter(s, q, u, e))'
    BY <2>3, <2>8, RunningStep
  <2> QED BY <1>4, <2>9 DEF Flowing
<1>10. CASE OpensAtOnce(s, f) /\ Opening(s, f)
  <2> DEFINE a == Asked(f)
             r == <<a>>
             z == {f.name}
  <2>1. /\ a \in Sent /\ a.what = "open" /\ a.file = f /\ a.lo = 0 /\ Final(a)
        /\ FileOf[a] = <<>> /\ WriteOf[a] = <<>> /\ Bytes(r) = OpenFile(f)
    BY <1>1, OpenPacket
  <2> HIDE DEF a
  <2>2. /\ r \in Seq(Sent) /\ r # <<>> /\ r[1].lo = 0 /\ Contiguous(r) /\ Len(r) = 1 /\ r[1] = a
        /\ WritesIn(r) = e /\ FilesIn(r) = e
    BY <2>1, OnePacket DEF e
  <2> HIDE DEF r
  <2>3. Sending(s, r, e)
    <3>1. stream' = [stream EXCEPT ![o] = @ \o Bytes(r)]
      BY <1>10, <2>1 DEF Opening, Sends, o
    <3>2. meant' = [meant EXCEPT ![o] = @ \o WritesIn(r)]
      BY <1>1, <1>5, <2>2, EmptyParts DEF e
    <3> QED BY <2>2, <3>1, <3>2 DEF Sending, o
  <2>4. opened' = [opened EXCEPT ![s] = @ \cup z] /\ z \subseteq Names
    BY <1>8, <1>10 DEF Opening
  <2> HIDE DEF z
  <2>5. StepOf(s, q, u, r, rf, e, e, z)
    BY <1>1, <1>2, <1>3, <2>3, <2>4 DEF StepOf
  <2>6. opened'[s] = opened[s] \cup z /\ opened'[o] = opened[o]
    BY <1>7, <2>5, Grows DEF o
  <2>7. \A i \in 1..Len(r) : Placed(o, r[i])'
    <3>1. f \in Range(local'[o].files) /\ f \in Range(remote'[s].files) /\ f.name \in opened'[s]
      BY <1>1, <1>2, <2>6 DEF z
    <3>2. Placed(o, a)'
      BY <1>5, <2>1, <3>1 DEF Placed
    <3>3. ASSUME NEW i \in 1..Len(r) PROVE r[i] = a
      BY <2>2
    <3> QED BY <3>2, <3>3 DEF Placed
  <2>8. \A g \in Range(local[s].files) : g.name # f.name
    <3>1. ASSUME NEW g \in Range(local[s].files), g.name = f.name PROVE FALSE
      <4>1. g \in Files
        BY <1>5, <3>1, FilesOfSides
      <4>2. FileType(g) = FileType(f)
        BY <1>8, <3>1, <4>1, FileFacts
      <4>3. ExtRequire \notin {ExtProvide, ExtDefinition}
        BY AreaFacts
      <4>4. s = Client \/ s = Server
        BY <1>5
      <4> QED BY <1>1, <1>5, <3>1, <4>2, <4>3, <4>4, FilesOfSides DEF Other, o
    <3> QED BY <3>1
  <2>9. z \subseteq Named(local'[s].files) \cup Named(remote'[s].files)
    <3>1. f.name \in Named(remote'[s].files)
      BY <1>2 DEF Named
    <3> QED BY <3>1 DEF z
  <2>10. NodesKnown'
    <3>1. known' = IF s = Server /\ FileType(f) = ExtDefinition
                     THEN known \cup {BaseName(f)} ELSE known
      BY <1>10 DEF OpensAtOnce, Opening, NodesAfter
    <3> QED BY <1>1, <1>2, <3>1, NodesAfterPublished DEF o, v
  <2>11. AskedOnce(QueuesAfter(s, q, u, r)[Client])'
    <3>1. CASE s = Client
      <4>1. FileType(f) = ExtRequire /\ ExtRequire # ExtDefinition
        BY <1>5, <1>10, <3>1, AreaFacts DEF OpensAtOnce
      <4>2. \A i \in 1..Len(u) : Asks(u[i]) => u[i].file.name \notin z
        <5>1. ASSUME NEW i \in 1..Len(u), Asks(u[i]), u[i].file.name = f.name PROVE FALSE
          <6>1. u \in Seq(Sent)
            BY <1>1, <1>7, TakenParts
          <6>2. u[i] \in Sent
            BY <5>1, <6>1, Elements
          <6>3. u[i].file \in Files
            BY <6>2, SentFacts
          <6>4. FileType(u[i].file) = f.name[2]
            BY <5>1, <6>3, FileFacts
          <6> QED BY <1>8, <4>1, <5>1, <6>4 DEF Asks
        <5> QED BY <5>1 DEF z
      <4> QED BY <1>5, <2>5, <3>1, <4>2, AskedKept
    <3>2. CASE s = Server
      <4>1. o = Client
        BY <1>5, <3>2 DEF Other, o
      <4> DEFINE w == q[Client]
                 c == w \o r
      <4>2. QueuesAfter(s, q, u, r)[Client] = c
        <5>1. QueuesAfter(s, q, u, r)[o] = q[o] \o r
          BY AfterSides DEF o
        <5> QED BY <4>1, <5>1
      <4>3. opened'[Client] = opened[Client]
        BY <2>6, <4>1
      <4>4. f.name \notin opened[Client]
        <5>1. ASSUME f.name \in opened[Client] PROVE FALSE
          <6>1. f \in Range(remote[Server].files)
            BY <1>1, <1>5, <1>7, <3>2, <4>1, <5>1 DEF Linked, o
          <6> QED BY <1>1, <3>2, <6>1 DEF Named
        <5> QED BY <5>1
      <4>5. \A i \in 1..Len(w) : Asks(w[i]) => w[i].file.name # f.name
        <5>1. ASSUME NEW i \in 1..Len(w), Asks(w[i]), w[i].file.name = f.name PROVE FALSE
          <6>1. Placed(Client, w[i])
            BY <1>5, <1>7, <5>1 DEF AllPlaced
          <6>2. w[i].file \in Range(remote[Server].files)
            BY <3>2, <4>1, <1>5, <5>1, <6>1 DEF Placed, Asks
          <6> QED BY <1>1, <3>2, <5>1, <6>2 DEF Named
        <5> QED BY <5>1
      <4>6. w \in Seq(Sent)
        BY <1>5, <1>7
      <4>7. /\ \A i, j \in 1..Len(w) : Asks(w[i]) /\ Asks(w[j]) /\ w[i].file.name = w[j].file.name => i = j
            /\ \A i \in 1..Len(w) : Asks(w[i]) => w[i].file.name \notin opened[Client]
        BY <1>7 DEF AskedOnce
      <4> HIDE DEF w
      <4>8. /\ Len(c) = Len(w) + Len(r) /\ Len(w) \in Nat /\ Len(r) \in Nat
            /\ \A k \in 1..Len(w) : c[k] = w[k]
            /\ \A k \in 1..Len(r) : c[Len(w) + k] = r[k]
        <5>1. r \in Seq(Sent)
          BY <2>2
        <5> QED BY ONLY <4>6, <5>1, ConcatElements
      <4> HIDE DEF c
      <4>9. Len(c) = Len(w) + 1 /\ c[Len(w) + 1] = a
        BY <2>2, <4>8
      <4>10. \A i \in 1..Len(c) : i \in 1..Len(w) \/ i = Len(w) + 1
        BY <4>8, <4>9
      <4>11. ASSUME NEW i \in 1..Len(c), NEW j \in 1..Len(c), Asks(c[i]), Asks(c[j]),
                    c[i].file.name = c[j].file.name
             PROVE  i = j
        BY <2>1, <4>5, <4>7, <4>8, <4>9, <4>10, <4>11
      <4>12. ASSUME NEW i \in 1..Len(c), Asks(c[i]) PROVE c[i].file.name \notin opened'[Client]
        BY <2>1, <4>3, <4>4, <4>7, <4>8, <4>9, <4>10, <4>12
      <4> QED BY <4>2, <4>11, <4>12 DEF AskedOnce, Asks
    <3> QED BY <1>5, <3>1, <3>2
  <2>12. WrittenOnce'
    <3>1. Len(WritesIn(r)) = 0
      BY <2>2, <1>6 DEF e
    <3> QED BY <2>5, <3>1, WrittenKept
  <2>13. BuiltFrom'
    BY <1>6, <2>5, BuiltKept
  <2>14. Careful(s, q, u, r, e, e, z)
    <3>1. \A g \in Range(local[s].files) : g.name \notin z
      BY <2>8 DEF z
    <3> QED BY <1>4, <1>6, <2>7, <2>9, <2>10, <2>11, <2>12, <2>13, <3>1 DEF Careful, o
  <2>15. Typed' /\ Running(QueuesAfter(s, q, u, r))'
    BY <2>5, <2>14, RunningStep
  <2> QED BY <1>4, <2>15 DEF Flowing
<1> QED BY <1>1, <1>9, <1>10

-----------------------------------------------------------------------------
(* A file that is opened is meant to be written as a whole.                 *)
LEMMA WholeMeant ==
  ASSUME NEW f \in Files, f.size = SizeOf(f.name), End(f) <= CMD_AREA_START
  PROVE  Meant(f, 0, Contents(f.name))
<1> DEFINE d == Contents(f.name)
           n == SizeOf(f.name)
           b == f.name[1]
<1>1. /\ f.size \in Nat /\ f.size >= 1 /\ f.size <= CmdAreaSize /\ f.name[1] \in Nodes
      /\ Start(f) \in Nat /\ End(f) = Start(f) + f.size
  BY FileFacts
<1>2. b \in Nat
  <2>1. Nodes \subseteq Byte \ {0}
    BY WireAssumption
  <2>2. Byte \subseteq Nat
    BY DEF Byte
  <2> QED BY <1>1, <2>1, <2>2
<1>3. Base \in Nat \ {0} /\ Byte = 0..(Base - 1)
  BY RemoteFileAssumption DEF Byte
<1>4. n \in Nat /\ n >= 1 /\ n <= CmdAreaSize
  BY <1>1
<1>5. d = [i \in 1..n |-> (i + b) % Base]
  BY DEF Contents
<1> HIDE DEF d, n, b
<1>6. \A i \in 1..n : (i + b) % Base \in Byte
  <2>1. ASSUME NEW i \in 1..n PROVE (i + b) % Base \in 0..(Base - 1)
    <3>1. i + b \in Nat
      BY <1>2, <1>4
    <3> DEFINE k == i + b
    <3> HIDE DEF k
    <3>2. k % Base \in 0..(Base - 1)
      <4>1. k % Base \in Nat /\ k % Base < Base
        BY <1>3, <3>1, DivMod DEF k
      <4> QED BY <1>3, <4>1
    <3> QED BY <3>2 DEF k
  <2> QED BY <1>3, <2>1
<1>7. d \in Seq(Byte) /\ Len(d) = n
  BY <1>4, <1>5, <1>6
<1>8. d # <<>>
  BY <1>4, <1>7
<1>9. Len(d) = f.size
  BY <1>7 DEF n
<1>10. 0 < f.size /\ Start(f) + 0 + Len(d) <= CMD_AREA_START /\ Len(d) <= CmdAreaSize
  BY <1>1, <1>9
<1> QED BY <1>7, <1>8, <1>9, <1>10 DEF Meant, d

(* The local files of a side.                                               *)
LEMMA LocalGood ==
  ASSUME Typed, Lists, NEW s \in Sides
  PROVE  /\ Good(local[s].files) /\ local[s].files \in Seq(Files) /\ local[s] \in Maps
         /\ Apart(local[s].files) /\ UniqueNames(local[s].files)
         /\ \A f \in Range(local[s].files) :
              f \in Files /\ End(f) <= CMD_AREA_START /\ f.size = SizeOf(f.name)
         /\ \A f, g \in Range(local[s].files) : f.name = g.name => f = g
<1> DEFINE files == local[s].files
<1>1. Good(files)
  BY DEF Lists, ClientList, ServerList, Sides
<1>2. local[s] \in Maps
  BY DEF Typed
<1> HIDE DEF files
<1>3. files \in Seq(Files) /\ Apart(files) /\ UniqueNames(files)
  BY <1>1 DEF Good
<1>4. /\ DOMAIN files = 1..Len(files) /\ Range(files) = {files[i] : i \in 1..Len(files)}
      /\ \A i \in 1..Len(files) : files[i] \in Files
  BY <1>3, Elements
<1>5. ASSUME NEW f \in Range(files)
      PROVE  f \in Files /\ End(f) <= CMD_AREA_START /\ f.size = SizeOf(f.name)
  <2>1. PICK i \in 1..Len(files) : f = files[i]
    BY <1>4
  <2> QED BY <1>1, <1>4, <2>1 DEF Good
<1>6. ASSUME NEW f \in Range(files), NEW g \in Range(files), f.name = g.name PROVE f = g
  <2>1. PICK i \in 1..Len(files) : f = files[i]
    BY <1>4
  <2>2. PICK j \in 1..Len(files) : g = files[j]
    BY <1>4
  <2> QED BY <1>3, <1>4, <1>6, <2>1, <2>2 DEF UniqueNames
<1> QED BY <1>1, <1>2, <1>3, <1>5, <1>6 DEF files

(* What the handler of an open request does.                                *)
LEMMA OpenEffect ==
  ASSUME Room, Typed, Lists, NEW q, Running(q), NEW s \in Sides, OpenRequested(s)
  PROVE  LET p == q[s][1]
             f == p.file
         IN /\ q[s] # <<>> /\ p.what = "open" /\ p.file \in Files
            /\ Takes(s, q, Tail(q[s]), <<>>, <<>>)
            /\ f \in Range(local[s].files) /\ f \in Range(remote[Other(s)].files)
            /\ f.name \in opened[Other(s)]
            /\ local' \in [Sides -> Maps] /\ (\A t \in Sides : local'[t].files = local[t].files)
            /\ opened' = [opened EXCEPT ![s] = @ \cup {f.name}]
            /\ Sends(s, FileData(s, Start(f), Contents(f.name)))
            /\ meant' = [meant EXCEPT ![Other(s)] =
                           Append(@, Write(f.name, 0, Contents(f.name)))]
            /\ UNCHANGED <<rc, connected, accepted, remote, known, got>>
<1> DEFINE p == q[s][1]
           f == p.file
           map == local[s]
<1>1. Receives(s, "open")
  BY DEF OpenRequested
<1>2. /\ q[s] # <<>> /\ p \in Sent /\ Placed(s, p) /\ p.what = "open"
      /\ FileOf[p] = <<>> /\ WriteOf[p] = <<>>
      /\ Message(s).address = Start(f) /\ Takes(s, q, Tail(q[s]), FileOf[p], WriteOf[p])
  BY <1>1, Received
<1>3. f \in Files /\ f \in Range(map.files) /\ f \in Range(remote[Other(s)].files)
      /\ f.name \in opened[Other(s)]
  BY <1>2, SentFacts DEF Placed
<1>4. Start(f) \in Nat /\ Covers(f, Start(f))
  <2>1. Start(f) \in Nat /\ Start(f) < End(f)
    BY <1>3, FileFacts
  <2> QED BY <2>1 DEF Covers
<1> DEFINE search == apx_fileMap_find_by_address(map, Start(f))
<1>5. search.found = {f} /\ search.map \in Maps /\ search.map.files = map.files
  <2>1. map \in Maps /\ Apart(map.files)
    BY LocalGood
  <2> HIDE DEF f, map
  <2> DEFINE a == Start(f)
  <2>2. a \in Nat /\ Covers(f, a) /\ f \in Range(map.files)
    BY <1>3, <1>4
  <2> HIDE DEF a
  <2>3. /\ apx_fileMap_find_by_address(map, a).found = {f}
        /\ apx_fileMap_find_by_address(map, a).map \in Maps
        /\ apx_fileMap_find_by_address(map, a).map.files = map.files
    BY ONLY <2>1, <2>2, FoundByAddress
  <2> QED BY <2>3 DEF a
<1> HIDE DEF f, search
<1>6. f = CHOOSE g \in search.found : TRUE
  BY <1>5
<1>7. search.found # {}
  BY <1>5
<1>8. /\ local' = [local EXCEPT ![s] = search.map]
      /\ opened' = [opened EXCEPT ![s] = @ \cup {f.name}]
      /\ Sends(s, FileData(s, Start(f), Contents(f.name)))
      /\ meant' = [meant EXCEPT ![Other(s)] = Append(@, Write(f.name, 0, Contents(f.name)))]
      /\ UNCHANGED <<rc, connected, accepted, remote, known, got>>
  BY <1>2, <1>6, <1>7 DEF OpenRequested, search
<1>9. local' \in [Sides -> Maps] /\ (\A t \in Sides : local'[t].files = local[t].files)
  BY <1>5, <1>8 DEF Typed
<1> QED BY <1>2, <1>3, <1>8, <1>9 DEF f

(* An open request is received: the whole file is sent.                     *)
LEMMA OpenStep ==
  ASSUME Room, Typed, Lists, NEW q, Running(q), NEW s \in Sides, OpenRequested(s)
  PROVE  Typed' /\ Lists' /\ Flowing'
<1> DEFINE v == q[s]
           u == Tail(v)
           p == v[1]
           f == p.file
           e == <<>>
           o == Other(s)
           d == Contents(f.name)
           r == Fragments(s, f, 0, d)
           z == {f.name}
           w == Write(f.name, 0, d)
<1>1. /\ v # <<>> /\ p.what = "open" /\ f \in Files
      /\ Takes(s, q, u, e, e)
      /\ f \in Range(local[s].files) /\ f \in Range(remote[o].files) /\ f.name \in opened[o]
      /\ local' \in [Sides -> Maps] /\ (\A t \in Sides : local'[t].files = local[t].files)
      /\ opened' = [opened EXCEPT ![s] = @ \cup z]
      /\ Sends(s, FileData(s, Start(f), d))
      /\ meant' = [meant EXCEPT ![o] = Append(@, w)]
      /\ UNCHANGED <<rc, connected, accepted, remote, known, got>>
  BY OpenEffect
<1>2. Client # Server /\ {Client, Server} = Sides /\ o \in Sides /\ Other(o) = s /\ o # s
  BY OtherFacts DEF Client, Server, Sides
<1>3. QueuesHold(q) /\ AskedOnce(q[Client]) /\ FilesFlow(q) /\ q \in [Sides -> Seq(Sent)]
  BY DEF Running, QueuesHold
<1>4. Meant(f, 0, d)
  BY <1>1, LocalGood, WholeMeant
<1>5. f.name \in Names /\ FileType(f) = f.name[2] /\ Start(f) \in Nat
  BY <1>1, FileFacts
<1>6. v \in Seq(Sent)
  BY <1>3
<1> HIDE DEF d, v
<1>7. /\ r \in Seq(Sent) /\ r # <<>> /\ r[1].lo = 0 /\ Contiguous(r)
      /\ Bytes(r) = FileData(s, Start(f) + 0, d)
      /\ WritesIn(r) = <<w>> /\ FilesIn(r) = <<>>
      /\ \A i \in 1..Len(r) : r[i].what = "write" /\ r[i].file = f
  BY <1>4, FragmentFacts DEF d, v
<1>8. u \in Seq(Sent) /\ \A i \in 1..Len(u) : u[i] = v[i + 1] /\ i + 1 \in 1..Len(v)
  <2>1. Tail(v) \in Seq(Sent) /\ Len(v) \in Nat /\ Len(Tail(v)) = Len(v) - 1
        /\ \A i \in 1..Len(Tail(v)) : Tail(v)[i] = v[i + 1]
    BY <1>1, <1>6, FirstAndTail
  <2> QED BY <2>1
<1>9. 1 \in 1..Len(v) /\ p \in Sent
  BY <1>1, <1>6, FirstAndTail
<1> HIDE DEF u, f, e, o, r, z, w
<1>10. GivesFiles(s, e, e)
  <2>1. remote' \in [Sides -> Maps] /\ \A t \in Sides : remote'[t].files = remote[t].files
    BY <1>1 DEF Typed
  <2> QED BY <1>1, <2>1, GivesNothing DEF e
<1>11. got' = [got EXCEPT ![s] = @ \o e]
  BY <1>1, EmptyParts DEF e
<1>12. Sending(s, r, e)
  <2>1. stream' = [stream EXCEPT ![o] = @ \o Bytes(r)]
    <3>1. Start(f) + 0 = Start(f)
      BY <1>5
    <3> QED BY <1>1, <1>7, <3>1 DEF Sends, o
  <2>2. meant[o] \in Seq(FileWrites)
    BY <1>2 DEF Typed
  <2>3. Append(meant[o], w) = meant[o] \o <<w>>
    <3>1. w \in FileWrites
      <4>1. WritesIn(r) \in Seq(FileWrites)
        BY <1>7, WritesInType
      <4> DEFINE m == <<w>>
      <4>2. m \in Seq(FileWrites) /\ Len(m) = 1 /\ m[1] = w
        BY <1>7, <4>1
      <4> HIDE DEF m
      <4>3. 1 \in 1..Len(m)
        BY <4>2
      <4> QED BY <4>2, <4>3, Elements
    <3> QED BY <2>2, <3>1, AppendIsConcat
  <2>4. meant' = [meant EXCEPT ![o] = @ \o WritesIn(r)]
    BY <1>1, <1>7, <2>3
  <2> QED BY <1>7, <2>1, <2>4 DEF Sending, o, e
<1>13. z \subseteq Names
  BY <1>5 DEF z
<1>14. StepOf(s, q, u, r, e, e, e, z)
  BY <1>1, <1>10, <1>11, <1>12, <1>13 DEF StepOf
<1>15. opened'[s] = opened[s] \cup z /\ opened'[o] = opened[o]
       /\ Range(remote'[o].files) = Range(remote[o].files)
       /\ Range(local'[s].files) = Range(local[s].files)
  <2>1. opened'[s] = opened[s] \cup z /\ opened'[o] = opened[o]
    BY <1>3, <1>14, Grows DEF o
  <2> QED BY <1>1, <2>1
<1>16. Lists'
  BY <1>10, ListsKept DEF e
<1>17. NodesKnown'
  BY <1>1, <1>14, NodesKept DEF e
<1>18. ExtRequire # ExtDefinition
  BY AreaFacts
<1>19. FileType(f) = ExtDefinition /\ s = Client => f.name \notin opened[Client]
  <2>1. ASSUME FileType(f) = ExtDefinition, s = Client PROVE Asks(p)
    BY <1>1, <2>1 DEF Asks, f
  <2> QED BY <1>3, <1>9, <2>1 DEF AskedOnce, v, f
<1>20. AskedOnce(QueuesAfter(s, q, u, r)[Client])'
  <2>1. ASSUME NEW i \in 1..Len(r) PROVE ~Asks(r[i])
    BY <1>7 DEF Asks
  <2>2. ASSUME s = Client, NEW i \in 1..Len(u), Asks(u[i]), u[i].file.name = f.name PROVE FALSE
    <3>1. u[i] \in Sent
      BY <1>8, <2>2, Elements
    <3>2. u[i].file \in Files
      BY <3>1, SentFacts
    <3>3. FileType(u[i].file) = f.name[2]
      BY <2>2, <3>2, FileFacts
    <3>4. FileType(f) = ExtDefinition
      BY <1>5, <2>2, <3>3 DEF Asks
    <3>5. Asks(p)
      BY <1>1, <3>4 DEF Asks, f
    <3>6. i + 1 \in 1..Len(v) /\ u[i] = v[i + 1] /\ i + 1 # 1
      BY <1>8, <2>2
    <3> QED BY <1>3, <1>9, <2>2, <3>5, <3>6 DEF AskedOnce, v, f
  <2>3. s = Client => \A i \in 1..Len(u) : Asks(u[i]) => u[i].file.name \notin z
    BY <2>2 DEF z
  <2> QED BY <1>14, <2>1, <2>3, AskedKept
<1>21. WrittenOnce'
  <2> DEFINE m == WritesIn(r)
  <2>1. Len(m) = 1 /\ m[1].name = f.name
    BY <1>7 DEF w, Write
  <2> HIDE DEF m
  <2>2. ASSUME NEW i \in 1..Len(m), m[i].name[2] = ExtDefinition
        PROVE  Len(m) = 1 /\ m[i].name \in z \ opened[s]
    <3>1. m[i].name = f.name
      BY <2>1
    <3>2. FileType(f) = ExtDefinition
      BY <1>5, <2>2, <3>1
    <3>3. s = Client
      BY <1>1, <1>2, <1>18, <3>2, FilesOfSides
    <3> QED BY <1>19, <2>1, <3>1, <3>2, <3>3 DEF z
  <2> QED BY <1>14, <2>2, WrittenKept DEF m
<1>22. Range(e) = {}
  BY DEF Range, e
<1>23. BuiltFrom'
  BY <1>14, <1>22, BuiltKept
<1>24. Careful(s, q, u, r, e, e, z)
  <2>1. ASSUME NEW i \in 1..Len(r) PROVE Placed(o, r[i])'
    <3>1. r[i].what = "write" /\ r[i].file = f
      BY <1>7
    <3>2. f \in Range(remote'[o].files) /\ f.name \in opened'[o]
      BY <1>1, <1>15
    <3> QED BY <3>1, <3>2 DEF Placed
  <2>2. \A g \in Range(local[s].files) :
           g.name \in z => g \in Range(remote[o].files) /\ g.name \in opened[o]
    BY <1>1, LocalGood DEF z
  <2>3. z \subseteq Named(local'[s].files) \cup Named(remote'[s].files)
    <3>1. f \in Range(local'[s].files)
      BY <1>1, <1>15
    <3> QED BY <3>1 DEF Named, z
  <2> QED BY <1>16, <1>17, <1>20, <1>21, <1>22, <1>23, <2>1, <2>2, <2>3 DEF Careful, o
<1>25. Typed' /\ Running(QueuesAfter(s, q, u, r))'
  BY <1>14, <1>24, RunningStep
<1> QED BY <1>16, <1>25 DEF Flowing

-----------------------------------------------------------------------------
(* A write that is appended.                                                *)
LEMMA AppendedWrite ==
  ASSUME NEW r \in Seq(Sent), NEW w, WritesIn(r) = <<w>>, NEW m \in Seq(FileWrites)
  PROVE  Append(m, w) = m \o WritesIn(r)
<1>1. w \in FileWrites
  <2>1. WritesIn(r) \in Seq(FileWrites)
    BY WritesInType
  <2> DEFINE l == <<w>>
  <2>2. l \in Seq(FileWrites) /\ Len(l) = 1 /\ l[1] = w
    BY <2>1
  <2> HIDE DEF l
  <2>3. 1 \in 1..Len(l)
    BY <2>2
  <2> QED BY <2>2, <2>3, Elements
<1> QED BY <1>1, AppendIsConcat

(* A write of one byte.                                                     *)
LEMMA ByteMeant ==
  ASSUME NEW f \in Files, End(f) <= CMD_AREA_START, FileType(f) # ExtDefinition,
         NEW offset \in 0..(f.size - 1), NEW k \in Nat
  PROVE  /\ Meant(f, offset, <<k % Base>>)
         /\ Start(f) + offset \in Nat /\ Covers(f, Start(f) + offset)
<1> DEFINE b == k % Base
           d == <<b>>
<1>1. /\ f.size \in Nat /\ f.size >= 1 /\ Start(f) \in Nat /\ End(f) = Start(f) + f.size
  BY FileFacts
<1>2. b \in Byte
  <2>1. Base \in Nat \ {0} /\ Byte = 0..(Base - 1)
    BY RemoteFileAssumption DEF Byte
  <2>2. b \in Nat /\ b < Base
    BY <2>1, DivMod
  <2> QED BY <2>1, <2>2
<1> HIDE DEF b
<1>3. d \in Seq(Byte) /\ Len(d) = 1 /\ d # <<>> /\ \E v \in Byte : d = <<v>>
  BY <1>2
<1> HIDE DEF d
<1>4. CmdAreaSize \in Nat /\ CmdAreaSize >= 1
  BY AddressLimits
<1>5. /\ offset \in Nat /\ offset < f.size /\ Start(f) + offset + 1 <= CMD_AREA_START
      /\ Start(f) + offset \in Nat /\ Start(f) <= Start(f) + offset /\ Start(f) + offset < End(f)
  <2>1. CMD_AREA_START \in Nat
    BY AddressLimits
  <2> QED BY <1>1, <2>1
<1>6. Covers(f, Start(f) + offset)
  BY <1>5 DEF Covers
<1>7. Meant(f, offset, d)
  BY <1>3, <1>4, <1>5 DEF Meant
<1> QED BY <1>5, <1>6, <1>7 DEF d, b

(* What the application writes: one byte of a port data file the other side *)
(* opened.                                                                  *)
LEMMA LocalWritten ==
  ASSUME Typed, Lists, NEW s \in Sides, WriteLocalFile(s)
  PROVE  \E f \in Range(local[s].files) : \E offset \in 0..(f.size - 1), k \in Nat :
           /\ FileType(f) # ExtDefinition /\ f.name \in opened[s]
           /\ local' \in [Sides -> Maps] /\ (\A t \in Sides : local'[t].files = local[t].files)
           /\ Sends(s, FileData(s, Start(f) + offset, <<k % Base>>))
           /\ meant' = [meant EXCEPT ![Other(s)] = Append(@, Write(f.name, offset, <<k % Base>>))]
<1> DEFINE k == Len(meant[Other(s)])
           map == local[s]
<1>1. k \in Nat
  <2>1. meant[Other(s)] \in Seq(FileWrites)
    BY OtherFacts DEF Typed
  <2> QED BY <2>1, Elements
<1> HIDE DEF k
<1>2. PICK f \in Range(map.files) : \E offset \in 0..(f.size - 1) :
       LET address == Start(f) + offset
           data    == <<k % Base>>
           search  == apx_fileMap_find_by_address(local[s], address)
           target  == CHOOSE g \in search.found : TRUE
       IN /\ FileType(f) # ExtDefinition
          /\ search.found # {} /\ target.name \in opened[s]
          /\ local' = [local EXCEPT ![s] = search.map]
          /\ Sends(s, FileData(s, address, data))
          /\ meant' = [meant EXCEPT ![Other(s)] = Append(@, Write(f.name, offset, data))]
  BY DEF WriteLocalFile, k
<1>3. PICK offset \in 0..(f.size - 1) :
       LET address == Start(f) + offset
           data    == <<k % Base>>
           search  == apx_fileMap_find_by_address(local[s], address)
           target  == CHOOSE g \in search.found : TRUE
       IN /\ FileType(f) # ExtDefinition
          /\ search.found # {} /\ target.name \in opened[s]
          /\ local' = [local EXCEPT ![s] = search.map]
          /\ Sends(s, FileData(s, address, data))
          /\ meant' = [meant EXCEPT ![Other(s)] = Append(@, Write(f.name, offset, data))]
  BY <1>2
<1> DEFINE a == Start(f) + offset
           search == apx_fileMap_find_by_address(map, a)
<1>4. f \in Files /\ End(f) <= CMD_AREA_START /\ map \in Maps /\ Apart(map.files)
  BY LocalGood
<1>5. a \in Nat /\ Covers(f, a)
  BY <1>1, <1>3, <1>4, ByteMeant
<1>6. search.found = {f} /\ search.map \in Maps /\ search.map.files = map.files
  <2> HIDE DEF a, map
  <2> QED BY <1>2, <1>4, <1>5, FoundByAddress
<1>7. (CHOOSE g \in search.found : TRUE) = f
  BY <1>6
<1> HIDE DEF search
<1>8. /\ FileType(f) # ExtDefinition /\ f.name \in opened[s]
      /\ local' = [local EXCEPT ![s] = search.map]
      /\ Sends(s, FileData(s, Start(f) + offset, <<k % Base>>))
      /\ meant' = [meant EXCEPT ![Other(s)] = Append(@, Write(f.name, offset, <<k % Base>>))]
  BY <1>3, <1>7 DEF search
<1>9. local' \in [Sides -> Maps] /\ (\A t \in Sides : local'[t].files = local[t].files)
  BY <1>6, <1>8 DEF Typed
<1> QED BY <1>1, <1>8, <1>9

(* The application writes port data.                                        *)
LEMMA LocalStep ==
  ASSUME Room, Typed, Lists, NEW q, Running(q), NEW s \in Sides, WriteLocalFile(s)
  PROVE  Typed' /\ Lists' /\ Flowing'
<1>1. PICK f \in Range(local[s].files) : \E offset \in 0..(f.size - 1), k \in Nat :
           /\ FileType(f) # ExtDefinition /\ f.name \in opened[s]
           /\ local' \in [Sides -> Maps] /\ (\A t \in Sides : local'[t].files = local[t].files)
           /\ Sends(s, FileData(s, Start(f) + offset, <<k % Base>>))
           /\ meant' = [meant EXCEPT ![Other(s)] = Append(@, Write(f.name, offset, <<k % Base>>))]
  BY LocalWritten
<1>2. PICK offset \in 0..(f.size - 1), k \in Nat :
           /\ FileType(f) # ExtDefinition /\ f.name \in opened[s]
           /\ local' \in [Sides -> Maps] /\ (\A t \in Sides : local'[t].files = local[t].files)
           /\ Sends(s, FileData(s, Start(f) + offset, <<k % Base>>))
           /\ meant' = [meant EXCEPT ![Other(s)] = Append(@, Write(f.name, offset, <<k % Base>>))]
  BY <1>1
<1> DEFINE u == q[s]
           e == <<>>
           o == Other(s)
           d == <<k % Base>>
           r == Fragments(s, f, offset, d)
           z == {}
           w == Write(f.name, offset, d)
<1>3. UNCHANGED <<connected, accepted, remote, opened, known, receiver, inbox, rc, got>>
  BY DEF WriteLocalFile
<1>4. f \in Files /\ End(f) <= CMD_AREA_START
  BY LocalGood
<1>5. Meant(f, offset, d)
  BY <1>2, <1>4, ByteMeant
<1>6. QueuesHold(q) /\ Linked /\ q \in [Sides -> Seq(Sent)] /\ o \in Sides /\ o # s /\ Other(o) = s
  BY OtherFacts DEF Running, QueuesHold
<1>7. f \in Range(remote[o].files) /\ f.name \in opened[o]
  BY <1>2, <1>6 DEF Linked
<1> HIDE DEF d
<1>8. /\ r \in Seq(Sent) /\ r # <<>> /\ r[1].lo = 0 /\ Contiguous(r)
      /\ Bytes(r) = FileData(s, Start(f) + offset, d)
      /\ WritesIn(r) = <<w>> /\ FilesIn(r) = <<>>
      /\ \A i \in 1..Len(r) : r[i].what = "write" /\ r[i].file = f
  BY <1>5, FragmentFacts
<1>9. Takes(s, q, u, e, e)
  BY <1>3 DEF Takes
<1> HIDE DEF u, e, o, r, z, w
<1>10. GivesFiles(s, e, e)
  <2>1. remote' \in [Sides -> Maps] /\ \A t \in Sides : remote'[t].files = remote[t].files
    BY <1>3 DEF Typed
  <2> QED BY <1>2, <2>1, GivesNothing DEF e
<1>11. got' = [got EXCEPT ![s] = @ \o e]
  BY <1>3, EmptyParts DEF e
<1>12. Sending(s, r, e)
  <2>1. stream' = [stream EXCEPT ![o] = @ \o Bytes(r)]
    BY <1>2, <1>8 DEF Sends, o, d
  <2>2. meant[o] \in Seq(FileWrites)
    BY <1>6 DEF Typed
  <2>3. Append(meant[o], w) = meant[o] \o WritesIn(r)
    BY <1>8, <2>2, AppendedWrite
  <2>4. meant' = [meant EXCEPT ![o] = @ \o WritesIn(r)]
    BY <1>2, <2>3 DEF o, d, w
  <2> QED BY <1>8, <2>1, <2>4 DEF Sending, o, e
<1>13. opened' = [opened EXCEPT ![s] = @ \cup z]
  BY <1>3, EmptyParts DEF z
<1>14. StepOf(s, q, u, r, e, e, e, z)
  BY <1>3, <1>9, <1>10, <1>11, <1>12, <1>13 DEF StepOf, z
<1>16. Lists'
  BY <1>10, ListsKept DEF e
<1>17. NodesKnown'
  BY <1>3, <1>14, NodesKept DEF e
<1>20. AskedOnce(QueuesAfter(s, q, u, r)[Client])'
  <2>1. ASSUME NEW i \in 1..Len(r) PROVE ~Asks(r[i])
    BY <1>8 DEF Asks
  <2> QED BY <1>14, <2>1, AskedKept DEF z
<1>21. WrittenOnce'
  <2> DEFINE m == WritesIn(r)
  <2>1. Len(m) = 1 /\ m[1].name = f.name
    BY <1>8 DEF w, Write
  <2>3. FileType(f) = f.name[2]
    BY <1>4, FileFacts
  <2> HIDE DEF m
  <2>2. ASSUME NEW i \in 1..Len(m), m[i].name[2] = ExtDefinition PROVE FALSE
    BY <1>2, <2>1, <2>2, <2>3
  <2> QED BY <1>14, <2>2, WrittenKept DEF m
<1>22. Range(e) = {}
  BY DEF Range, e
<1>23. BuiltFrom'
  BY <1>14, <1>22, BuiltKept
<1>24. Careful(s, q, u, r, e, e, z)
  <2>1. ASSUME NEW i \in 1..Len(r) PROVE Placed(o, r[i])'
    <3>1. r[i].what = "write" /\ r[i].file = f
      BY <1>8
    <3>2. f \in Range(remote'[o].files) /\ f.name \in opened'[o]
      BY <1>3, <1>7
    <3> QED BY <3>1, <3>2 DEF Placed
  <2> QED BY <1>16, <1>17, <1>20, <1>21, <1>22, <1>23, <2>1 DEF Careful, o, z
<1>25. Typed' /\ Running(QueuesAfter(s, q, u, r))'
  BY <1>14, <1>24, RunningStep
<1> QED BY <1>16, <1>25 DEF Flowing

-----------------------------------------------------------------------------
(* The provide port data file of a node, if it was published, is asked for. *)
ProvideFound(n, map) ==
  IF ProvideSize[n] = 0 THEN [found |-> {}, map |-> map]
  ELSE apx_fileMap_find_by_name(map, FileName(n, ExtProvide))
ProvideOpened(out) ==
  IF out.found = {} THEN <<>> ELSE OpenFile(CHOOSE f \in out.found : TRUE)
RequireMade(n) ==
  IF RequireSize[n] = 0 THEN [result |-> "none"]
  ELSE apx_fileMap_create_file(local[Server].files,
                               FileInfo(FileName(n, ExtRequire), RequireSize[n]))

(* The packets r ask for the files with names in new, and nothing else.     *)
Opens(r, new, name, files) ==
  /\ r \in Seq(Sent) /\ Contiguous(r) /\ (r # <<>> => r[1].lo = 0)
  /\ FilesIn(r) = <<>> /\ WritesIn(r) = <<>>
  /\ new \subseteq {name} /\ new \subseteq Named(files)
  /\ \A i \in 1..Len(r) : r[i].what = "open" /\ r[i].file \in Range(files) /\ r[i].file.name \in new

(* After a definition the provide port data file is asked for, if it was    *)
(* published.                                                               *)
LEMMA ProvideAsked ==
  ASSUME Room, Enough, NEW n \in Nodes, NEW map \in Maps, UniqueNames(map.files)
  PROVE  LET out == ProvideFound(n, map)
         IN /\ out.map \in Maps /\ out.map.files = map.files
            /\ \E r : /\ Opens(r, {f.name : f \in out.found}, FileName(n, ExtProvide), map.files)
                      /\ Bytes(r) = ProvideOpened(out)
<1> DEFINE out == ProvideFound(n, map)
           name == FileName(n, ExtProvide)
           fits == {f \in Range(map.files) : f.name = name}
           new == {f.name : f \in out.found}
<1>1. /\ apx_fileMap_find_by_name(map, name).found = fits
      /\ apx_fileMap_find_by_name(map, name).map \in Maps
      /\ apx_fileMap_find_by_name(map, name).map.files = map.files
      /\ \A f, g \in fits : f = g
  BY FoundByName
<1>2. out.map \in Maps /\ out.map.files = map.files /\ (out.found = {} \/ out.found = fits)
  BY <1>1 DEF ProvideFound
<1> HIDE DEF out
<1>3. CASE out.found = {}
  <2>1. ProvideOpened(out) = <<>>
    BY <1>3 DEF ProvideOpened
  <2>2. Bytes(<<>>) = <<>> /\ WritesIn(<<>>) = <<>> /\ FilesIn(<<>>) = <<>>
    BY FlatMapEmpty DEF Bytes, WritesIn, FilesIn
  <2>3. new = {}
    BY <1>3
  <2>4. <<>> \in Seq(Sent) /\ Len(<<>>) = 0 /\ Contiguous(<<>>)
    BY DEF Contiguous
  <2> HIDE DEF new
  <2>6. new \subseteq {name} /\ new \subseteq Named(map.files)
    BY <2>3
  <2>5. Opens(<<>>, new, name, map.files)
    BY <2>2, <2>4, <2>6 DEF Opens
  <2> QED BY <1>2, <2>1, <2>2, <2>5 DEF out, new
<1>4. CASE out.found # {}
  <2>1. out.found = fits
    BY <1>2, <1>4
  <2> DEFINE g == CHOOSE f \in out.found : TRUE
  <2>2. g \in out.found
    BY <1>4
  <2> HIDE DEF g
  <2>3. g \in Range(map.files) /\ g.name = name
    BY <2>1, <2>2
  <2>4. g \in Files
    BY <2>3, Elements DEF Maps
  <2>5. ProvideOpened(out) = OpenFile(g)
    BY <1>4 DEF ProvideOpened, g
  <2> DEFINE a == Asked(g)
             r == <<a>>
  <2>6. /\ a \in Sent /\ a.what = "open" /\ a.file = g /\ a.lo = 0 /\ Final(a)
        /\ FileOf[a] = <<>> /\ WriteOf[a] = <<>> /\ Bytes(r) = OpenFile(g)
    BY <2>4, OpenPacket
  <2> HIDE DEF a
  <2>7. /\ r \in Seq(Sent) /\ r # <<>> /\ r[1].lo = 0 /\ Contiguous(r) /\ Len(r) = 1 /\ r[1] = a
        /\ WritesIn(r) = <<>> /\ FilesIn(r) = <<>>
    BY <2>6, OnePacket
  <2> HIDE DEF r
  <2>8. new \subseteq {name}
    BY <2>1
  <2>9. new \subseteq Named(map.files)
    BY <2>1 DEF Named
  <2>10. ASSUME NEW i \in 1..Len(r)
         PROVE  r[i].what = "open" /\ r[i].file \in Range(map.files) /\ r[i].file.name \in new
    <3>1. r[i] = a
      BY <2>7
    <3> QED BY <2>2, <2>3, <2>6, <3>1
  <2> HIDE DEF new
  <2>11. Opens(r, new, name, map.files)
    BY <2>7, <2>8, <2>9, <2>10 DEF Opens
  <2>12. Bytes(r) = ProvideOpened(out)
    BY <2>5, <2>6
  <2> QED BY <1>2, <2>11, <2>12 DEF out, new
<1> QED BY <1>3, <1>4

(* The packets r publish the files lf, which join the server's list.        *)
Publishes(r, lf, name, files) ==
  /\ r \in Seq(Sent) /\ Contiguous(r) /\ (r # <<>> => r[1].lo = 0)
  /\ FilesIn(r) = lf /\ WritesIn(r) = <<>> /\ lf \in Seq(Files)
  /\ \A f \in Range(lf) : f.name = name
  /\ lf # <<>> => ServerList(files \o lf)
  /\ \A i \in 1..Len(r) : r[i].what = "publish"

(* The require port data file of a node is created and published.           *)
LEMMA RequirePublished ==
  ASSUME Room, Enough, SizesFit, NEW n \in Nodes, ServerList(local[Server].files),
         FileName(n, ExtRequire) \notin Named(local[Server].files)
  PROVE  LET created == RequireMade(n)
         IN \E r, lf :
              /\ Publishes(r, lf, FileName(n, ExtRequire), local[Server].files)
              /\ \/ created.result # "created" /\ lf = <<>> /\ Bytes(r) = <<>>
                 \/ /\ created.result = "created" /\ Bytes(r) = Publish(created.file)
                    /\ created.files = local[Server].files \o lf
<1> DEFINE files == local[Server].files
           name == FileName(n, ExtRequire)
<1>1. CASE RequireSize[n] = 0
  <2>1. RequireMade(n).result # "created"
    BY <1>1 DEF RequireMade
  <2>2. Bytes(<<>>) = <<>> /\ WritesIn(<<>>) = <<>> /\ FilesIn(<<>>) = <<>>
    BY FlatMapEmpty DEF Bytes, WritesIn, FilesIn
  <2>3. <<>> \in Seq(Sent) /\ Len(<<>>) = 0 /\ Contiguous(<<>>) /\ <<>> \in Seq(Files) /\ Range(<<>>) = {}
    BY DEF Contiguous, Range
  <2>4. Publishes(<<>>, <<>>, name, files)
    BY <2>2, <2>3 DEF Publishes
  <2> QED BY <2>1, <2>2, <2>4
<1>2. CASE RequireSize[n] # 0
  <2>1. PICK t, f : Created(files, n, ExtRequire, t, f) /\ ServerList(t) /\ t = files \o <<f>>
    BY <1>2, RequireAdded
  <2>2. RequireMade(n) = [result |-> "created", file |-> f, files |-> t]
    BY <1>2, <2>1, SizeNames DEF RequireMade, Created
  <2>3. f \in Files /\ f.name = name
    BY <2>1 DEF Created
  <2> DEFINE a == Published(f)
             r == <<a>>
             lf == <<f>>
  <2>6. /\ a \in Sent /\ a.what = "publish" /\ a.file = f /\ a.lo = 0 /\ Final(a)
        /\ FileOf[a] = lf /\ WriteOf[a] = <<>> /\ Bytes(r) = Publish(f)
    BY <2>3, PublishPacket
  <2> HIDE DEF a
  <2>7. /\ r \in Seq(Sent) /\ r # <<>> /\ r[1].lo = 0 /\ Contiguous(r) /\ Len(r) = 1 /\ r[1] = a
        /\ WritesIn(r) = <<>> /\ FilesIn(r) = lf
    BY <2>6, OnePacket
  <2> HIDE DEF r
  <2>8. lf \in Seq(Files) /\ Range(lf) = {f}
    BY <2>3 DEF Range
  <2>9. \A i \in 1..Len(r) : r[i].what = "publish"
    BY <2>6, <2>7
  <2>10. Publishes(r, lf, name, files)
    BY <2>1, <2>3, <2>7, <2>8, <2>9 DEF Publishes
  <2>11. RequireMade(n).result = "created" /\ RequireMade(n).file = f /\ RequireMade(n).files = t
    BY <2>2
  <2> QED BY <2>1, <2>6, <2>10, <2>11
<1> QED BY <1>1, <1>2

-----------------------------------------------------------------------------
(* What the server does with the definition of a node: it publishes its     *)
(* require port data file and asks for its provide port data file.          *)
Builds(n, r, lf, new) ==
  /\ Sending(Server, r, lf) /\ GivesFiles(Server, <<>>, lf) /\ WritesIn(r) = <<>>
  /\ (lf # <<>> => ServerList(local[Server].files \o lf))
  /\ \A f \in Range(lf) : f.name = FileName(n, ExtRequire)
  /\ opened' = [opened EXCEPT ![Server] = @ \cup new]
  /\ new \subseteq {FileName(n, ExtProvide)} /\ new \subseteq Named(remote[Server].files)
  /\ \A i \in 1..Len(r) :
       \/ r[i].what = "publish"
       \/ r[i].what = "open" /\ r[i].file \in Range(remote[Server].files) /\ r[i].file.name \in new

(* What building a node does: files are opened and published.               *)
LEMMA NodeBuilt ==
  ASSUME Room, Enough, SizesFit, Typed, Lists, NEW n \in Nodes, NEW map \in Maps,
         map.files = remote[Server].files, UniqueNames(map.files),
         FileName(n, ExtRequire) \notin Named(local[Server].files),
         AttachAtServer(n, map), meant' = meant
  PROVE  \E r, lf, new : Builds(n, r, lf, new)
<1> DEFINE out == ProvideFound(n, map)
           created == RequireMade(n)
           new == {f.name : f \in out.found}
           files == local[Server].files
           old == remote[Server].files
<1>1. /\ remote' = [remote EXCEPT ![Server] = out.map]
      /\ opened' = [opened EXCEPT ![Server] = @ \cup new]
      /\ IF created.result = "created"
           THEN /\ local' = [local EXCEPT ![Server].files = created.files]
                /\ Sends(Server, ProvideOpened(out) \o Publish(created.file))
           ELSE Sends(Server, ProvideOpened(out)) /\ UNCHANGED local
  BY DEF AttachAtServer, ProvideFound, ProvideOpened, RequireMade
<1>2. out.map \in Maps /\ out.map.files = map.files
  BY ProvideAsked
<1>3. PICK r1 : /\ Opens(r1, new, FileName(n, ExtProvide), old)
                /\ Bytes(r1) = ProvideOpened(out)
  BY ProvideAsked
<1> HIDE DEF out, new
<1>4. PICK r2, lf :
        /\ Publishes(r2, lf, FileName(n, ExtRequire), files)
        /\ \/ created.result # "created" /\ lf = <<>> /\ Bytes(r2) = <<>>
           \/ /\ created.result = "created" /\ Bytes(r2) = Publish(created.file)
              /\ created.files = files \o lf
  BY RequirePublished DEF Lists
<1> HIDE DEF created
<1> DEFINE r == r1 \o r2
           o == Other(Server)
<1>5. Server \in Sides /\ o \in Sides /\ o # Server
  BY OtherFacts DEF Sides
<1>6. /\ r1 \in Seq(Sent) /\ Contiguous(r1) /\ (r1 # <<>> => r1[1].lo = 0)
      /\ FilesIn(r1) = <<>> /\ WritesIn(r1) = <<>>
      /\ r2 \in Seq(Sent) /\ Contiguous(r2) /\ (r2 # <<>> => r2[1].lo = 0)
      /\ FilesIn(r2) = lf /\ WritesIn(r2) = <<>> /\ lf \in Seq(Files)
  BY <1>3, <1>4 DEF Opens, Publishes
<1>7. r \in Seq(Sent) /\ Contiguous(r)
  BY <1>6, ContiguousConcat
<1>8. r # <<>> => r[1].lo = 0
  <2>1. CASE r1 = <<>>
    <3>1. r = r2
      BY <1>6, <2>1, ConcatEmptySeq
    <3> QED BY <1>6, <3>1
  <2>2. CASE r1 # <<>>
    <3>1. 1 \in 1..Len(r1)
      BY <1>6, <2>2, FirstAndTail
    <3>2. r[1] = r1[1]
      BY <1>6, <3>1, ConcatElements
    <3> QED BY <1>6, <2>2, <3>2
  <2> QED BY <2>1, <2>2
<1>9. FilesIn(r) = lf /\ WritesIn(r) = <<>>
  <2>1. FilesIn(r) = FilesIn(r1) \o FilesIn(r2) /\ WritesIn(r) = WritesIn(r1) \o WritesIn(r2)
    BY <1>6, WritesInType
  <2>2. <<>> \o lf = lf
    BY <1>6, ConcatEmptySeq
  <2>3. <<>> \o <<>> = <<>>
    <3>1. <<>> \in Seq(Files)
      OBVIOUS
    <3> QED BY <3>1, ConcatEmptySeq
  <2> QED BY <1>6, <2>1, <2>2, <2>3
<1>10. Bytes(r) = Bytes(r1) \o Bytes(r2) /\ Bytes(r1) \in Seq(Byte) /\ Bytes(r2) \in Seq(Byte)
  BY <1>6, EncodingParts, FlatMapConcat, BytesType DEF Bytes
<1>11. Sends(Server, Bytes(r))
  <2>1. CASE created.result = "created"
    BY <1>1, <1>3, <1>4, <1>10, <2>1
  <2>2. CASE created.result # "created"
    <3>1. Bytes(r1) \o <<>> = Bytes(r1)
      BY <1>10, ConcatEmptySeq
    <3>2. Bytes(r) = Bytes(r1)
      BY <1>4, <1>10, <2>2, <3>1
    <3> QED BY <1>1, <1>3, <2>2, <3>2
  <2> QED BY <2>1, <2>2
<1>12. Sending(Server, r, lf)
  <2>1. meant' = [meant EXCEPT ![o] = @ \o WritesIn(r)]
    BY <1>5, <1>9, EmptyParts
  <2>2. stream' = [stream EXCEPT ![o] = @ \o Bytes(r)]
    BY <1>11 DEF Sends
  <2> HIDE DEF r
  <2> QED BY <1>7, <1>8, <1>9, <2>1, <2>2 DEF Sending
<1>13. files \in Seq(Files) /\ old \in Seq(Files) /\ local \in [Sides -> Maps] /\ remote \in [Sides -> Maps]
       /\ local[Server] \in Maps
  BY <1>5 DEF Typed, Maps
<1>14. local' \in [Sides -> Maps] /\ local'[Server].files = files \o lf
       /\ local'[o].files = local[o].files
  <2>1. CASE created.result = "created"
    <3> DEFINE t == files \o lf
    <3>1. local' = [local EXCEPT ![Server].files = t]
      BY <1>1, <1>4, <2>1
    <3>2. t \in Seq(Files)
      BY <1>6, <1>13, ConcatElements
    <3> HIDE DEF t, files, old
    <3>3. [local[Server] EXCEPT !.files = t] \in Maps /\ [local[Server] EXCEPT !.files = t].files = t
      BY <1>13, <3>2 DEF Maps
    <3>4. local' = [local EXCEPT ![Server] = [local[Server] EXCEPT !.files = t]]
      BY <3>1
    <3>5. local' \in [Sides -> Maps]
      BY <1>13, <3>3, <3>4
    <3>6. local'[Server] = [local[Server] EXCEPT !.files = t] /\ local'[o] = local[o]
      BY <1>5, <1>13, <3>4
    <3> QED BY <3>3, <3>5, <3>6 DEF t
  <2>2. CASE created.result # "created"
    <3>1. local' = local /\ lf = <<>>
      BY <1>1, <1>4, <2>2
    <3> QED BY <1>13, <3>1, ConcatEmptySeq
  <2> QED BY <2>1, <2>2
<1>15. GivesFiles(Server, <<>>, lf)
  <2>1. remote' \in [Sides -> Maps] /\ remote'[Server].files = old /\ remote'[o].files = remote[o].files
    BY <1>1, <1>2, <1>5, <1>13
  <2>2. old \o <<>> = old
    BY <1>13, ConcatEmptySeq
  <2> QED BY <1>14, <2>1, <2>2 DEF GivesFiles
<1>16. ASSUME NEW i \in 1..Len(r)
       PROVE  \/ r[i].what = "publish"
              \/ r[i].what = "open" /\ r[i].file \in Range(old) /\ r[i].file.name \in new
  <2>1. /\ Len(r) = Len(r1) + Len(r2) /\ Len(r1) \in Nat /\ Len(r2) \in Nat
        /\ \A k \in 1..Len(r1) : r[k] = r1[k]
        /\ \A k \in 1..Len(r2) : r[Len(r1) + k] = r2[k]
    BY <1>6, ConcatElements
  <2> HIDE DEF r
  <2>2. CASE i <= Len(r1)
    <3>1. i \in 1..Len(r1)
      BY <2>1, <2>2
    <3> QED BY <1>3, <2>1, <3>1 DEF Opens
  <2>3. CASE i > Len(r1)
    <3> DEFINE k == i - Len(r1)
    <3>1. k \in 1..Len(r2) /\ Len(r1) + k = i
      BY <2>1, <2>3
    <3> HIDE DEF k
    <3>2. r[i] = r2[k] /\ r2[k].what = "publish"
      BY <1>4, <2>1, <3>1 DEF Publishes
    <3> QED BY <3>2
  <2> QED BY <2>1, <2>2, <2>3
<1>17. /\ lf # <<>> => ServerList(files \o lf)
       /\ \A f \in Range(lf) : f.name = FileName(n, ExtRequire)
       /\ new \subseteq {FileName(n, ExtProvide)} /\ new \subseteq Named(old)
  BY <1>3, <1>4 DEF Opens, Publishes
<1> HIDE DEF r
<1>18. Builds(n, r, lf, new)
  BY <1>1, <1>9, <1>12, <1>15, <1>16, <1>17 DEF Builds
<1> QED BY <1>18

-----------------------------------------------------------------------------
(* What the handler of a write does.                                        *)
LEMMA WriteEffect ==
  ASSUME Room, Typed, Lists, NEW q, Running(q), NEW s \in Sides, FileWritten(s)
  PROVE  LET p == q[s][1]
             f == p.file
             w == Write(f.name, p.offset, p.data)
         IN /\ q[s] # <<>> /\ f \in Files /\ w \in FileWrites
            /\ WritesIn(q[s]) = <<w>> \o WritesIn(Tail(q[s])) /\ WritesIn(Tail(q[s])) \in Seq(FileWrites)
            /\ Takes(s, q, Tail(q[s]), <<>>, <<w>>)
            /\ got' = [got EXCEPT ![s] = @ \o <<w>>]
            /\ UNCHANGED <<connected, accepted, known, meant, rc>>
            /\ \E map \in Maps :
                 /\ map.files = remote[s].files
                 /\ IF IsWholeDefinition(s, f, p.offset, p.data)
                      THEN AttachAtServer(BaseName(f), map)
                      ELSE /\ remote' = [remote EXCEPT ![s] = map]
                           /\ UNCHANGED <<local, opened, stream>>
<1> DEFINE p == q[s][1]
           f == p.file
           w == Write(f.name, p.offset, p.data)
           a == Address(p)
           map == remote[s]
<1>1. Receives(s, "write")
  BY DEF FileWritten
<1>2. /\ q[s] # <<>> /\ p \in Sent /\ Placed(s, p) /\ p.what = "write"
      /\ FileOf[p] = <<>> /\ WriteOf[p] = <<w>>
      /\ Message(s).address = a /\ Message(s).data = p.data
      /\ Takes(s, q, Tail(q[s]), FileOf[p], WriteOf[p])
  BY <1>1, Received
<1>3. f \in Files /\ f \in Range(map.files) /\ f.name \in opened[s]
      /\ p.offset \in Nat /\ p.offset < f.size /\ p.data \in Seq(Byte)
  BY <1>2, SentFacts DEF Placed, AsMeant
<1>4. a \in Nat /\ Covers(f, a) /\ a - Start(f) = p.offset
  <2>1. Start(f) \in Nat /\ f.size \in Nat /\ End(f) = Start(f) + f.size
    BY <1>3, FileFacts
  <2>2. a = Start(f) + p.offset
    BY <1>2 DEF Address
  <2> HIDE DEF a, f
  <2> QED BY <1>3, <2>1, <2>2 DEF Covers
<1> DEFINE search == apx_fileMap_find_by_address(map, a)
<1>5. search.found = {f} /\ search.map \in Maps /\ search.map.files = map.files
  <2>1. map \in Maps /\ Apart(map.files)
    BY KnownFirst DEF Running, Typed
  <2> HIDE DEF f, map, a
  <2> QED BY <1>3, <1>4, <2>1, FoundByAddress
<1>6. (CHOOSE g \in search.found : TRUE) = f
  BY <1>5
<1>7. search.found # {}
  BY <1>5
<1> HIDE DEF search, a, f
<1>8. /\ got' = [got EXCEPT ![s] = Append(@, w)]
      /\ IF IsWholeDefinition(s, f, p.offset, p.data)
           THEN AttachAtServer(BaseName(f), search.map)
           ELSE /\ remote' = [remote EXCEPT ![s] = search.map]
                /\ UNCHANGED <<local, opened, stream>>
      /\ UNCHANGED <<connected, accepted, known, meant, rc>>
  BY <1>2, <1>3, <1>4, <1>6, <1>7 DEF FileWritten, search
<1>9. w \in FileWrites
  <2>1. f.name \in Names
    BY <1>3, FileFacts
  <2> QED BY <1>3, <2>1 DEF Write, FileWrites
<1> HIDE DEF w
<1>10. got' = [got EXCEPT ![s] = @ \o <<w>>]
  <2>1. got[s] \in Seq(FileWrites)
    BY DEF Typed
  <2>2. Append(got[s], w) = got[s] \o <<w>>
    BY <1>9, <2>1, AppendIsConcat
  <2> QED BY <1>8, <2>2
<1>11. WritesIn(q[s]) = <<w>> \o WritesIn(Tail(q[s])) /\ WritesIn(Tail(q[s])) \in Seq(FileWrites)
  <2> DEFINE v == q[s]
  <2>1. v \in Seq(Sent) /\ v # <<>>
    BY <1>2 DEF Running, QueuesHold
  <2>2. WriteOf[v[1]] = <<w>>
    BY <1>2 DEF w, f
  <2> HIDE DEF v
  <2>3. Tail(v) \in Seq(Sent)
    BY <2>1, FirstAndTail
  <2>4. WritesIn(v) = WriteOf[v[1]] \o WritesIn(Tail(v)) /\ WritesIn(Tail(v)) \in Seq(FileWrites)
    BY <2>1, <2>3, WritesInType
  <2> QED BY <2>2, <2>4 DEF v
<1> QED BY <1>2, <1>3, <1>5, <1>8, <1>9, <1>10, <1>11 DEF f, w

(* Data are received that are not a definition.                             *)
LEMMA WriteStep ==
  ASSUME Room, Typed, Lists, NEW q, Running(q), NEW s \in Sides, FileWritten(s),
         ~IsWholeDefinition(s, q[s][1].file, q[s][1].offset, q[s][1].data)
  PROVE  Typed' /\ Lists' /\ Flowing'
<1> DEFINE v == q[s]
           p == v[1]
           f == p.file
           u == Tail(v)
           e == <<>>
           w == Write(f.name, p.offset, p.data)
           g == <<w>>
           z == {}
<1>1. /\ Takes(s, q, u, e, g)
      /\ got' = [got EXCEPT ![s] = @ \o g]
      /\ UNCHANGED <<connected, accepted, known, meant, rc>>
      /\ \E map \in Maps : map.files = remote[s].files /\ remote' = [remote EXCEPT ![s] = map]
      /\ UNCHANGED <<local, opened, stream>>
  BY WriteEffect
<1> HIDE DEF u, g
<1>4. GivesFiles(s, e, e)
  <2>1. remote' \in [Sides -> Maps] /\ \A t \in Sides : remote'[t].files = remote[t].files
    BY <1>1 DEF Typed
  <2> QED BY <1>1, <2>1, GivesNothing DEF Typed
<1>5. Sending(s, e, e)
  BY <1>1, SendsNothing
<1>6. opened' = [opened EXCEPT ![s] = @ \cup z]
  BY <1>1, EmptyParts
<1>7. StepOf(s, q, u, e, e, g, e, z)
  BY <1>1, <1>4, <1>5, <1>6 DEF StepOf
<1>9. Len(e) = 0 /\ Range(e) = {} /\ Len(WritesIn(e)) = 0
  BY EmptyParts DEF Range
<1>10. Lists'
  BY <1>4, ListsKept
<1>14. NodesKnown'
  BY <1>1, <1>7, NodesKept
<1> HIDE DEF e, z
<1>11. AskedOnce(QueuesAfter(s, q, u, e)[Client])'
  BY <1>7, <1>9, AskedKept DEF z
<1>12. WrittenOnce'
  BY <1>7, <1>9, WrittenKept
<1>13. BuiltFrom'
  BY <1>7, <1>9, BuiltKept
<1>15. Careful(s, q, u, e, g, e, z)
  BY <1>9, <1>10, <1>11, <1>12, <1>13, <1>14 DEF Careful, z
<1>16. Typed' /\ Running(QueuesAfter(s, q, u, e))'
  BY <1>7, <1>15, RunningStep
<1> QED BY <1>10, <1>16 DEF Flowing

-----------------------------------------------------------------------------
(* The node whose definition is written has no require port data file yet.  *)
LEMMA NotBuilt ==
  ASSUME Room, Typed, Lists, NEW q, Running(q), NEW n, NEW w \in FileWrites, w.name = DefinitionOf(n),
         NEW rest \in Seq(FileWrites), WritesIn(q[Server]) = <<w>> \o rest
  PROVE  FileName(n, ExtRequire) \notin Named(local[Server].files)
<1> DEFINE g == got[Server]
           m == meant[Server]
           l == <<w>>
           c == WritesIn(q[Server])
<1>1. /\ WritesFlow(q) /\ WrittenOnce /\ BuiltFrom /\ Server \in Sides /\ g \in Seq(FileWrites)
  BY DEF Running, Sides, Typed
<1>2. m = g \o c
  BY <1>1 DEF WritesFlow
<1>3. \A i, j \in 1..Len(m) : m[i].name[2] = ExtDefinition /\ m[i].name = m[j].name => i = j
  BY <1>1 DEF WrittenOnce
<1>4. \A f \in Range(local[Server].files) : \E i \in 1..Len(g) : g[i].name = DefinitionOf(f.name[1])
  BY <1>1 DEF BuiltFrom
<1>5. l \in Seq(FileWrites) /\ Len(l) = 1 /\ l[1] = w
  OBVIOUS
<1>6. c = l \o rest
  OBVIOUS
<1> HIDE DEF g, m, l, c
<1>7. c \in Seq(FileWrites) /\ Len(c) = Len(l) + Len(rest) /\ Len(rest) \in Nat
      /\ \A i \in 1..Len(l) : c[i] = l[i]
  BY <1>5, <1>6, ConcatElements
<1>8. Len(c) >= 1 /\ c[1] = w
  <2>1. 1 \in 1..Len(l)
    BY <1>5
  <2> QED BY <1>5, <1>7, <2>1
<1>9. /\ Len(m) = Len(g) + Len(c) /\ Len(g) \in Nat /\ Len(c) \in Nat
      /\ \A k \in 1..Len(g) : m[k] = g[k]
      /\ \A k \in 1..Len(c) : m[Len(g) + k] = c[k]
  <2>1. g \in Seq(FileWrites) /\ c \in Seq(FileWrites)
    BY <1>1, <1>7
  <2> DEFINE t == g \o c
  <2>2. /\ Len(t) = Len(g) + Len(c) /\ Len(g) \in Nat /\ Len(c) \in Nat
        /\ \A k \in 1..Len(g) : t[k] = g[k]
        /\ \A k \in 1..Len(c) : t[Len(g) + k] = c[k]
    BY ONLY <2>1, ConcatElements
  <2> QED BY <1>2, <2>2
<1>10. Len(g) + 1 \in 1..Len(m) /\ m[Len(g) + 1] = w
  BY <1>8, <1>9
<1>11. ASSUME NEW f \in Range(local[Server].files), f.name = FileName(n, ExtRequire) PROVE FALSE
  <2>1. PICK i \in 1..Len(g) : g[i].name = DefinitionOf(f.name[1])
    BY <1>4
  <2>2. f.name[1] = n
    BY <1>11 DEF FileName
  <2>3. i \in 1..Len(m) /\ m[i] = g[i]
    BY <1>9
  <2>4. m[i].name = DefinitionOf(n)
    BY <2>1, <2>2, <2>3
  <2>5. m[i].name[2] = ExtDefinition
    BY <2>4 DEF DefinitionOf, FileName
  <2>6. i = Len(g) + 1
    BY <1>3, <1>10, <2>3, <2>4, <2>5
  <2> QED BY <1>9, <2>6
<1> QED BY <1>11 DEF Named

(* The server receives a definition and builds the node.                    *)
LEMMA BuildStep ==
  ASSUME Room, Enough, SizesFit, Typed, Lists, NEW q, Running(q), FileWritten(Server),
         IsWholeDefinition(Server, q[Server][1].file, q[Server][1].offset, q[Server][1].data)
  PROVE  Typed' /\ Lists' /\ Flowing'
<1> DEFINE s == Server
           o == Client
           v == q[s]
           p == v[1]
           f == p.file
           u == Tail(v)
           e == <<>>
           w == Write(f.name, p.offset, p.data)
           g == <<w>>
           n == BaseName(f)
<1>1. s \in Sides /\ o \in Sides /\ Other(s) = o /\ Other(o) = s /\ s # o
  BY DEF Sides, Other, Client, Server
<1>2. /\ f \in Files /\ w \in FileWrites
      /\ WritesIn(v) = <<w>> \o WritesIn(u) /\ WritesIn(u) \in Seq(FileWrites)
      /\ Takes(s, q, u, e, g)
      /\ got' = [got EXCEPT ![s] = @ \o g]
      /\ UNCHANGED <<connected, accepted, known, meant, rc>>
      /\ \E map \in Maps : map.files = remote[s].files /\ AttachAtServer(n, map)
  BY <1>1, WriteEffect
<1>3. PICK map \in Maps : map.files = remote[s].files /\ AttachAtServer(n, map)
  BY <1>2
<1>4. /\ n = f.name[1] /\ n \in Nodes /\ f.name = DefinitionOf(n)
  <2>1. FileType(f) = ExtDefinition
    BY DEF IsWholeDefinition
  <2> HIDE DEF f
  <2> QED BY <1>2, <2>1, FileFacts DEF DefinitionOf
<1>5. w.name = DefinitionOf(n)
  BY <1>4 DEF Write
<1> HIDE DEF w, n, f
<1>6. QueuesHold(q) /\ FilesFlow(q) /\ OpenedNamed
  BY DEF Running
<1>7. UniqueNames(map.files)
  BY <1>1, <1>3, <1>6, KnownFirst
<1>8. FileName(n, ExtRequire) \notin Named(local[Server].files)
  BY <1>2, <1>5, NotBuilt
<1>9. PICK r, lf, new : Builds(n, r, lf, new)
  BY <1>2, <1>3, <1>4, <1>7, <1>8, NodeBuilt
<1>10. /\ Sending(s, r, lf) /\ GivesFiles(s, e, lf) /\ WritesIn(r) = <<>>
       /\ (lf # <<>> => ServerList(local[s].files \o lf))
       /\ \A h \in Range(lf) : h.name = FileName(n, ExtRequire)
       /\ opened' = [opened EXCEPT ![s] = @ \cup new]
       /\ new \subseteq {FileName(n, ExtProvide)} /\ new \subseteq Named(remote[s].files)
       /\ \A i \in 1..Len(r) :
            \/ r[i].what = "publish"
            \/ r[i].what = "open" /\ r[i].file \in Range(remote[s].files) /\ r[i].file.name \in new
  BY <1>9 DEF Builds
<1>11. Len(g) = 1 /\ g[1] = w /\ g # <<>>
  OBVIOUS
<1> HIDE DEF g, u
<1>12. FileName(n, ExtProvide) \in Names
  BY <1>4 DEF Names, Exts, FileName
<1>13. new \subseteq Names
  BY <1>10, <1>12
<1>14. StepOf(s, q, u, r, e, g, lf, new)
  BY <1>2, <1>10, <1>13 DEF StepOf
<1>15. /\ Range(local'[o].files) = Range(local[o].files)
       /\ Range(remote'[s].files) = Range(remote[s].files) \cup Range(e)
       /\ opened'[s] = opened[s] \cup new /\ opened'[o] = opened[o]
  BY <1>1, <1>6, <1>14, Grows
<1>16. Range(e) = {} /\ Len(WritesIn(r)) = 0
  BY <1>10 DEF Range
<1>17. Range(remote[s].files) \subseteq Range(local[o].files)
  BY <1>1, <1>6, KnownFirst
<1>18. ExtProvide # ExtDefinition /\ ExtRequire # ExtProvide /\ ExtRequire # ExtDefinition
  BY AreaFacts
<1>19. Lists'
  BY <1>1, <1>10, ListsKept
<1>20. NodesKnown'
  BY <1>1, <1>2, <1>14, NodesKept
<1> HIDE DEF e
<1>21. AskedOnce(QueuesAfter(s, q, u, r)[Client])'
  <2>1. ASSUME NEW i \in 1..Len(r) PROVE ~Asks(r[i])
    <3>1. ASSUME Asks(r[i]) PROVE FALSE
      <4>1. r[i].file \in Range(remote[s].files) /\ r[i].file.name \in new
        BY <1>10, <3>1 DEF Asks
      <4>2. r[i].file \in Files
        BY <1>17, <4>1, FilesOfSides
      <4>3. r[i].file.name = FileName(n, ExtProvide)
        BY <1>10, <4>1
      <4>4. FileType(r[i].file) = ExtProvide
        BY <4>2, <4>3, FileFacts DEF FileName
      <4> QED BY <1>18, <3>1, <4>4 DEF Asks
    <3> QED BY <3>1
  <2>2. s # Client
    BY <1>1
  <2> HIDE DEF s
  <2> QED BY <1>1, <1>14, <2>1, <2>2, AskedKept
<1>22. WrittenOnce'
  BY <1>1, <1>14, <1>16, WrittenKept
<1>23. BuiltFrom'
  <2>1. ASSUME NEW h \in Range(lf) PROVE g # <<>> /\ g[1].name = DefinitionOf(h.name[1])
    <3>1. h.name[1] = n
      BY <1>10, <2>1 DEF FileName
    <3> QED BY <1>5, <1>11, <3>1
  <2> QED BY <1>1, <1>14, <2>1, BuiltKept
<1>24. ASSUME NEW h \in Range(lf) PROVE h.name \notin opened'[s]
  <2>1. h.name = FileName(n, ExtRequire) /\ h.name[2] = ExtRequire
    BY <1>10, <1>24 DEF FileName
  <2>2. FileName(n, ExtRequire) \notin new
    <3>1. FileName(n, ExtRequire) # FileName(n, ExtProvide)
      BY <1>18 DEF FileName
    <3> QED BY <1>10, <3>1
  <2>3. h.name \notin opened[s]
    <3>1. ASSUME h.name \in opened[s] PROVE FALSE
      <4>1. h.name \in Named(remote[s].files)
        BY <1>1, <1>6, <1>8, <2>1, <3>1 DEF OpenedNamed
      <4>2. PICK k \in Range(local[o].files) : k.name = h.name
        BY <1>17, <4>1 DEF Named
      <4>3. k \in Files /\ FileType(k) \in {ExtProvide, ExtDefinition}
        BY FilesOfSides
      <4>4. FileType(k) = k.name[2]
        BY <4>3, FileFacts
      <4> QED BY <1>18, <2>1, <4>2, <4>3, <4>4
    <3> QED BY <3>1
  <2> QED BY <1>15, <2>1, <2>2, <2>3
<1>25. \A h \in Range(local[s].files) : h.name \notin new
  <2>1. ASSUME NEW h \in Range(local[s].files), h.name \in new PROVE FALSE
    <3>1. h \in Files /\ FileType(h) = ExtRequire
      BY <2>1, FilesOfSides
    <3>2. h.name = FileName(n, ExtProvide)
      BY <1>10, <2>1
    <3>3. FileType(h) = ExtProvide
      BY <3>1, <3>2, FileFacts DEF FileName
    <3> QED BY <1>18, <3>1, <3>3
  <2> QED BY <2>1
<1>26. new \subseteq Named(local'[s].files) \cup Named(remote'[s].files)
  <2>1. Named(remote'[s].files) = Named(remote[s].files)
    <3>1. Range(remote'[s].files) = Range(remote[s].files)
      BY <1>15, <1>16
    <3> QED BY <3>1 DEF Named
  <2> QED BY <1>10, <2>1
<1>27. ASSUME NEW i \in 1..Len(r) PROVE Placed(o, r[i])'
  <2>1. CASE r[i].what = "publish"
    BY <2>1 DEF Placed
  <2>2. CASE r[i].what = "open" /\ r[i].file \in Range(remote[s].files) /\ r[i].file.name \in new
    <3>1. r[i].file \in Range(local'[o].files) /\ r[i].file \in Range(remote'[s].files)
          /\ r[i].file.name \in opened'[s]
      BY <1>15, <1>16, <1>17, <2>2
    <3> QED BY <1>1, <2>2, <3>1 DEF Placed
  <2> QED BY <1>10, <2>1, <2>2
<1>28. Careful(s, q, u, r, g, lf, new)
  BY <1>1, <1>19, <1>20, <1>21, <1>22, <1>23, <1>24, <1>25, <1>26, <1>27 DEF Careful
<1>29. Typed' /\ Running(QueuesAfter(s, q, u, r))'
  BY <1>1, <1>14, <1>28, RunningStep
<1> QED BY <1>19, <1>29 DEF Flowing

-----------------------------------------------------------------------------
(* k bytes of b have moved behind a.                                        *)
Moved(S, a, b, k) ==
  /\ a \o SubSeq(b, 1, k) \in Seq(S) /\ From(b, k + 1) \in Seq(S)
  /\ (a \o SubSeq(b, 1, k)) \o From(b, k + 1) = a \o b

(* Nothing is lost wherever the stream is cut.                              *)
LEMMA CutAnywhere ==
  ASSUME NEW S, NEW a \in Seq(S), NEW b \in Seq(S), NEW k \in 0..Len(b)
  PROVE  Moved(S, a, b, k)
<1> DEFINE x == SubSeq(b, 1, k)
           y == From(b, k + 1)
<1>1. x \in Seq(S) /\ Len(x) = k /\ \A i \in 1..k : x[i] = b[i]
  OBVIOUS
<1>2. y \in Seq(S) /\ Len(y) = Len(b) - k /\ \A i \in 1..Len(y) : y[i] = b[k + i]
  BY DEF From
<1> HIDE DEF x, y
<1>3. x \o y = b
  <2> DEFINE c == x \o y
  <2>1. /\ c \in Seq(S) /\ Len(c) = Len(x) + Len(y) /\ Len(x) \in Nat /\ Len(y) \in Nat
        /\ \A i \in 1..Len(x) : c[i] = x[i]
        /\ \A i \in 1..Len(y) : c[Len(x) + i] = y[i]
    BY <1>1, <1>2, ConcatElements
  <2> HIDE DEF c
  <2>2. Len(c) = Len(b) /\ Len(b) \in Nat
    BY <1>1, <1>2, <2>1
  <2>3. ASSUME NEW i \in 1..Len(b) PROVE c[i] = b[i]
    <3>1. CASE i <= k
      <4>1. i \in 1..k /\ i \in 1..Len(x)
        BY <1>1, <3>1
      <4> QED BY <1>1, <2>1, <4>1
    <3>2. CASE i > k
      <4> DEFINE j == i - k
      <4>1. j \in 1..Len(y) /\ k + j = i
        BY <1>2, <2>2, <3>2
      <4> HIDE DEF j
      <4>2. c[Len(x) + j] = y[j] /\ y[j] = b[k + j]
        BY <1>2, <2>1, <4>1
      <4> QED BY <1>1, <4>1, <4>2
    <3> QED BY <3>1, <3>2
  <2>4. c \in Seq(S) /\ b \in Seq(S)
    BY <2>1
  <2>5. c = b
    BY <2>2, <2>3, <2>4, SeqEqual
  <2> QED BY <2>5 DEF c
<1>4. (a \o x) \o y = a \o (x \o y)
  BY <1>1, <1>2, ConcatThree
<1>5. a \o x \in Seq(S)
  BY <1>1, ConcatElements
<1> QED BY <1>2, <1>3, <1>4, <1>5 DEF x, y, Moved

(* Bytes that arrive stay in order.                                         *)
LEMMA Arrived ==
  ASSUME NEW s \in Sides, inbox \in [Sides -> Seq(Byte)], stream \in [Sides -> Seq(Byte)], Arrive(s)
  PROVE  /\ inbox' \in [Sides -> Seq(Byte)] /\ stream' \in [Sides -> Seq(Byte)]
         /\ \A t \in Sides : inbox'[t] \o stream'[t] = inbox[t] \o stream[t]
         /\ UNCHANGED <<connected, accepted, local, remote, opened, known, receiver, rc, meant, got>>
<1> DEFINE x == inbox[s]
           y == stream[s]
<1>1. PICK n \in Chunks :
        LET k == Min({n, Len(y)})
        IN /\ inbox' = [inbox EXCEPT ![s] = x \o SubSeq(y, 1, k)]
           /\ stream' = [stream EXCEPT ![s] = From(y, k + 1)]
  BY DEF Arrive
<1>2. x \in Seq(Byte) /\ y \in Seq(Byte) /\ n \in Nat /\ Len(y) \in Nat
  <2>1. Chunks \subseteq Nat \ {0}
    BY WireAssumption
  <2> QED BY <2>1
<1> DEFINE k == Min({n, Len(y)})
<1>3. k \in 0..Len(y)
  <2> DEFINE m == Len(y)
  <2>1. m \in Nat
    BY <1>2
  <2> HIDE DEF m
  <2>2. Min({n, m}) = IF n <= m THEN n ELSE m
    BY <1>2, <2>1, Smaller
  <2>3. Min({n, m}) \in 0..m
    BY <1>2, <2>1, <2>2
  <2> QED BY <2>3 DEF m
<1>4. /\ inbox' = [inbox EXCEPT ![s] = x \o SubSeq(y, 1, k)]
      /\ stream' = [stream EXCEPT ![s] = From(y, k + 1)]
  BY <1>1
<1> HIDE DEF x, y, k
<1>5. /\ x \o SubSeq(y, 1, k) \in Seq(Byte) /\ From(y, k + 1) \in Seq(Byte)
      /\ (x \o SubSeq(y, 1, k)) \o From(y, k + 1) = x \o y
  <2>1. x \in Seq(Byte)
    BY <1>2
  <2>2. y \in Seq(Byte)
    BY <1>2
  <2>3. k \in 0..Len(y)
    BY <1>3
  <2>4. Moved(Byte, x, y, k)
    BY ONLY <2>1, <2>2, <2>3, CutAnywhere
  <2> QED BY <2>4 DEF Moved
<1>6. inbox' \in [Sides -> Seq(Byte)] /\ stream' \in [Sides -> Seq(Byte)]
  BY <1>4, <1>5
<1>7. ASSUME NEW t \in Sides PROVE inbox'[t] \o stream'[t] = inbox[t] \o stream[t]
  <2>1. CASE t = s
    <3>1. inbox'[t] = x \o SubSeq(y, 1, k) /\ stream'[t] = From(y, k + 1)
      BY <1>4, <2>1
    <3>2. x = inbox[t] /\ y = stream[t]
      BY <2>1 DEF x, y
    <3> QED BY <1>5, <3>1, <3>2
  <2>2. CASE t # s
    BY <1>4, <2>2
  <2> QED BY <2>1, <2>2
<1> QED BY <1>6, <1>7 DEF Arrive

(* Bytes arrive: what is in the inbox and in the stream is still the same.  *)
LEMMA ArriveStep ==
  ASSUME Typed, Lists, NEW q, Running(q), NEW s \in Sides, Arrive(s)
  PROVE  Typed' /\ Lists' /\ Flowing'
<1>1. /\ inbox' \in [Sides -> Seq(Byte)] /\ stream' \in [Sides -> Seq(Byte)]
      /\ \A t \in Sides : inbox'[t] \o stream'[t] = inbox[t] \o stream[t]
      /\ UNCHANGED <<connected, accepted, local, remote, opened, known, receiver, rc, meant, got>>
  BY Arrived DEF Typed
<1>2. Typed'
  BY <1>1 DEF Typed
<1>3. Lists'
  BY <1>1 DEF Lists, ClientList, ServerList, DefinitionOf
<1>4. QueuesHold(q)'
  <2>1. ASSUME NEW t \in Sides PROVE Queued(t, q[t])'
    <3>1. Queued(t, q[t])
      BY DEF Running, QueuesHold
    <3> QED BY <1>1, <3>1 DEF Queued
  <2>2. q \in [Sides -> Seq(Sent)]
    BY DEF Running, QueuesHold
  <2> QED BY <2>1, <2>2 DEF QueuesHold
<1>5. FilesFlow(q)' /\ WritesFlow(q)'
  BY <1>1 DEF Running, FilesFlow, WritesFlow
<1>6. \A t \in Sides : AllPlaced(t, q[t])'
  <2>1. \A t \in Sides : AllPlaced(t, q[t])
    BY DEF Running
  <2> QED BY <1>1, <2>1 DEF AllPlaced, Placed
<1>7. Linked' /\ OpenedNamed' /\ NodesKnown'
  <2>1. Linked /\ OpenedNamed /\ NodesKnown
    BY DEF Running
  <2>2. Linked'
    BY <1>1, <2>1 DEF Linked
  <2>3. OpenedNamed'
    BY <1>1, <2>1 DEF OpenedNamed
  <2>4. NodesKnown'
    BY <1>1, <2>1 DEF NodesKnown, DefinitionOf
  <2> QED BY <2>2, <2>3, <2>4
<1>8. AskedOnce(q[Client])' /\ WrittenOnce' /\ BuiltFrom'
  <2>1. AskedOnce(q[Client]) /\ WrittenOnce /\ BuiltFrom
    BY DEF Running
  <2>2. AskedOnce(q[Client])'
    BY <1>1, <2>1 DEF AskedOnce
  <2>3. WrittenOnce'
    BY <1>1, <2>1 DEF WrittenOnce
  <2>4. BuiltFrom'
    BY <1>1, <2>1 DEF BuiltFrom, DefinitionOf
  <2> QED BY <2>2, <2>3, <2>4
<1> QED BY <1>2, <1>3, <1>4, <1>5, <1>6, <1>7, <1>8 DEF Running, Flowing

-----------------------------------------------------------------------------
(* Before the acknowledge is received: no file is known to the other side,  *)
(* nothing was opened, received or written.                                 *)
Quiet ==
  /\ local[Server].files = <<>> /\ known = {}
  /\ \A s \in Sides : /\ remote[s].files = <<>> /\ opened[s] = {} /\ receiver[s] = Reset
                      /\ meant[s] = <<>> /\ got[s] = <<>>
OnTheWay(toServer, toClient) ==
  inbox[Server] \o stream[Server] = toServer /\ inbox[Client] \o stream[Client] = toClient
GreetingMessage == numheader_encode32(Len(Greeting)) \o Greeting

Attaching  == /\ ~connected /\ ~accepted[Server] /\ ~accepted[Client] /\ Quiet
              /\ OnTheWay(<<>>, <<>>)
Greets     == /\ connected /\ ~accepted[Server] /\ ~accepted[Client] /\ Quiet
              /\ OnTheWay(GreetingMessage, <<>>)
Answered   == /\ connected /\ accepted[Server] /\ ~accepted[Client] /\ Quiet
              /\ OnTheWay(<<>>, Acknowledge)
Exchanging == connected /\ accepted[Server] /\ accepted[Client] /\ Flowing

(* Where a session is.                                                      *)
Phase == Attaching \/ Greets \/ Answered \/ Exchanging

(* There is no message in nothing.                                          *)
LEMMA NothingArrived ==
  ASSUME NEW s, inbox[s] \in Seq(Byte), stream[s] \in Seq(Byte), inbox[s] \o stream[s] = <<>>
  PROVE  ~Parses(s) /\ stream[s] = <<>> /\ inbox[s] = <<>>
<1> DEFINE x == inbox[s]
           y == stream[s]
           c == x \o y
<1>1. x \in Seq(Byte) /\ y \in Seq(Byte) /\ c = <<>>
  OBVIOUS
<1> HIDE DEF x, y
<1>2. Len(c) = Len(x) + Len(y) /\ Len(x) \in Nat /\ Len(y) \in Nat
  BY <1>1, ConcatElements
<1>3. Len(c) = 0
  BY <1>1
<1>4. Len(x) = 0 /\ Len(y) = 0
  BY <1>2, <1>3
<1>5. x = <<>> /\ y = <<>>
  BY <1>1, <1>4, EmptySeq
<1> QED BY <1>5 DEF x, y, Parses, Complete

(* Nothing can be written before a file was opened.                         *)
LEMMA QuietSide ==
  ASSUME NEW s \in Sides, Quiet
  PROVE  ~WriteLocalFile(s)
  BY DEF WriteLocalFile, Quiet

(* A node is attached.                                                      *)
LEMMA AttachStep ==
  ASSUME SizesFit, Typed, Lists, Attaching, NEW n \in Nodes, Attach(n)
  PROVE  Typed' /\ Lists' /\ Attaching'
<1> DEFINE before == local[Client].files
           pn == FileName(n, ExtProvide)
           dn == FileName(n, ExtDefinition)
           create(files, ext) ==
             apx_fileMap_create_file(files, FileInfo(FileName(n, ext), SizeOf(FileName(n, ext))))
           out == IF ProvideSize[n] = 0 THEN [result |-> "created", files |-> before]
                  ELSE create(before, ExtProvide)
           apx == create(out.files, ExtDefinition)
<1>1. /\ dn \notin Named(before)
      /\ IF out.result # "created"
           THEN rc' = [rc EXCEPT ![Client] = out.result] /\ UNCHANGED local
           ELSE IF apx.result # "created"
           THEN /\ rc' = [rc EXCEPT ![Client] = apx.result]
                /\ local' = [local EXCEPT ![Client].files = out.files]
           ELSE /\ local' = [local EXCEPT ![Client].files = apx.files]
                /\ UNCHANGED rc
      /\ UNCHANGED <<connected, accepted, remote, opened, known, receiver, stream, inbox, meant, got>>
  BY DEF Attach, Named
<1>2. PICK m : ClientList(before, m)
  BY DEF Lists
<1>3. \A f \in Range(before) : DefinitionOf(f.name[1]) \in Named(before)
  BY DEF Lists
<1>4. pn \notin Named(before)
  <2>1. ASSUME NEW f \in Range(before), f.name = pn PROVE FALSE
    <3>1. f.name[1] = n
      BY <2>1 DEF FileName
    <3>2. DefinitionOf(f.name[1]) = dn
      BY <3>1 DEF DefinitionOf
    <3> QED BY <1>1, <1>3, <2>1, <3>2
  <2> QED BY <2>1 DEF Named
<1>5. \E m2 : /\ ClientList(out.files, m2) /\ out.result = "created"
              /\ dn \notin Named(out.files)
              /\ \A f \in Range(out.files) : f \in Range(before) \/ f.name = pn
              /\ Named(before) \subseteq Named(out.files)
  <2>1. CASE ProvideSize[n] = 0
    <3>1. out.result = "created" /\ out.files = before
      BY <2>1
    <3> QED BY <1>1, <1>2, <3>1
  <2>2. CASE ProvideSize[n] # 0
    <3> HIDE DEF before
    <3>1. PICK t, f : Created(before, n, ExtProvide, t, f) /\ ClientList(t, m + 1)
      BY <1>2, <1>4, <2>2, ProvideAdded
    <3>2. /\ out = [result |-> "created", file |-> f, files |-> t]
          /\ f.name = pn /\ Named(t) = Named(before) \cup {f.name} /\ Range(t) = Range(before) \cup {f}
      BY <2>2, <3>1 DEF Created
    <3>3. pn # dn
      BY AreaFacts DEF FileName
    <3>4. out.result = "created" /\ out.files = t
      BY <3>2
    <3> HIDE DEF out, pn, dn
    <3>5. dn \notin Named(t)
      BY <1>1, <3>2, <3>3
    <3>6. \A g \in Range(t) : g \in Range(before) \/ g.name = pn
      BY <3>2
    <3> QED BY <3>1, <3>2, <3>4, <3>5, <3>6
  <2> QED BY <2>1, <2>2
<1>6. PICK m2 : /\ ClientList(out.files, m2) /\ out.result = "created"
                /\ dn \notin Named(out.files)
                /\ \A f \in Range(out.files) : f \in Range(before) \/ f.name = pn
                /\ Named(before) \subseteq Named(out.files)
  BY <1>5
<1> DEFINE mid == out.files
<1>7. /\ ClientList(mid, m2) /\ dn \notin Named(mid)
      /\ \A f \in Range(mid) : f \in Range(before) \/ f.name = pn
      /\ Named(before) \subseteq Named(mid)
      /\ apx = create(mid, ExtDefinition)
  BY <1>6
<1>8. PICK t, f : Created(mid, n, ExtDefinition, t, f) /\ ClientList(t, m2)
  <2> HIDE DEF mid
  <2> QED BY <1>7, DefinitionAdded
<1>9. /\ apx.result = "created" /\ apx.files = t
      /\ f.name = dn /\ Named(t) = Named(mid) \cup {f.name} /\ Range(t) = Range(mid) \cup {f}
  <2> HIDE DEF mid
  <2>1. apx = [result |-> "created", file |-> f, files |-> t]
    BY <1>7, <1>8 DEF Created
  <2> QED BY <1>8, <2>1 DEF Created
<1>10. local' = [local EXCEPT ![Client].files = t] /\ rc' = rc
  BY <1>1, <1>6, <1>9
<1>11. t \in Seq(Files)
  BY <1>8 DEF ClientList, Good
<1>12. Client \in Sides /\ Server \in Sides /\ Client # Server
  BY DEF Sides, Client, Server
<1>13. local'[Client].files = t /\ local'[Server] = local[Server] /\ local' \in [Sides -> Maps]
  <2>1. local \in [Sides -> Maps]
    BY DEF Typed
  <2>2. local'[Client] = [local[Client] EXCEPT !.files = t] /\ local'[Server] = local[Server]
    BY <1>10, <1>12, <2>1
  <2>3. local[Client] \in Maps
    BY <1>12, <2>1
  <2>4. [local[Client] EXCEPT !.files = t] \in Maps
    BY <1>11, <2>3 DEF Maps
  <2>5. [local[Client] EXCEPT !.files = t].files = t
    BY <2>3 DEF Maps
  <2> QED BY <1>10, <1>12, <2>1, <2>2, <2>4, <2>5
<1>14. Typed'
  BY <1>1, <1>10, <1>13 DEF Typed
<1>15. \A g \in Range(t) : DefinitionOf(g.name[1]) \in Named(t)
  <2> SUFFICES ASSUME NEW g \in Range(t) PROVE DefinitionOf(g.name[1]) \in Named(t)
    OBVIOUS
  <2>1. g = f \/ g \in Range(before) \/ g.name = pn
    BY <1>7, <1>9
  <2>2. g.name[1] = n \/ g \in Range(before)
    BY <1>9, <2>1 DEF FileName
  <2>3. CASE g.name[1] = n
    <3>1. DefinitionOf(g.name[1]) = dn
      BY <2>3 DEF DefinitionOf
    <3> QED BY <1>9, <3>1
  <2>4. CASE g \in Range(before)
    BY <1>3, <1>7, <1>9, <2>4
  <2> QED BY <2>2, <2>3, <2>4
<1>16. Lists'
  <2>1. ServerList(local[Server].files)
    BY DEF Lists
  <2>2. ServerList(local'[Server].files)
    BY <1>13, <2>1
  <2> QED BY <1>8, <1>13, <1>15, <2>2 DEF Lists, DefinitionOf
<1>17. Attaching'
  <2>1. Quiet'
    BY <1>1, <1>13 DEF Attaching, Quiet
  <2> QED BY <1>1, <2>1 DEF Attaching, OnTheWay
<1> QED BY <1>14, <1>16, <1>17

-----------------------------------------------------------------------------
(* The two sides by name.                                                   *)
LEMMA TwoSides ==
  /\ Client \in Sides /\ Server \in Sides /\ Client # Server
  /\ Other(Client) = Server /\ Other(Server) = Client
  /\ \A s \in Sides : s = Client \/ s = Server
  BY DEF Sides, Client, Server, Other

(* Bytes that are sent join the stream of the other side.                   *)
LEMMA SendsBytes ==
  ASSUME Typed, NEW s \in Sides, NEW b \in Seq(Byte), Sends(s, b)
  PROVE  /\ stream' \in [Sides -> Seq(Byte)] /\ stream'[s] = stream[s]
         /\ stream'[Other(s)] = stream[Other(s)] \o b
<1>1. Other(s) \in Sides /\ Other(s) # s
  BY OtherFacts
<1>2. stream \in [Sides -> Seq(Byte)] /\ stream[Other(s)] \in Seq(Byte)
  BY <1>1 DEF Typed
<1> DEFINE y == stream[Other(s)]
<1>3. stream' = [stream EXCEPT ![Other(s)] = y \o b]
  BY DEF Sends
<1>4. y \o b \in Seq(Byte)
  <2> HIDE DEF y
  <2>1. y \in Seq(Byte)
    BY <1>2 DEF y
  <2> QED BY ONLY <2>1, b \in Seq(Byte), ConcatElements
<1> QED BY <1>1, <1>2, <1>3, <1>4

(* The greeting is a message with a length.                                 *)
LEMMA NumberOfGreeting ==
  /\ Greeting \in Seq(Byte) /\ Len(Greeting) = 3 /\ 3 <= NUM_LONG_MAX
  /\ numheader_encode32(Len(Greeting)) \in Seq(Byte) /\ EndsHeader(Greeting)
<1>1. Base \in Nat /\ Base >= 4
  BY RemoteFileAssumption
<1>2. 1 \in Byte /\ 2 \in Byte
  BY <1>1 DEF Byte
<1>3. Greeting \in Seq(Byte) /\ Len(Greeting) = 3
  BY <1>2 DEF Greeting, NewLine
<1>4. 3 <= NUM_LONG_MAX
  BY AddressLimits, SMT
<1>5. numheader_encode32(3) \in Seq(Byte)
  BY <1>4, EncodedLength
<1>6. EndsHeader(Greeting)
  <2>1. 3 \in DOMAIN Greeting /\ Greeting[3] = NewLine /\ Greeting[3 - 1] = NewLine
    BY DEF Greeting
  <2> QED BY <2>1 DEF EndsHeader
<1> QED BY <1>3, <1>4, <1>5, <1>6

(* The client connects and greets the server.                               *)
LEMMA ConnectStep ==
  ASSUME Typed, Lists, Attaching, Connect
  PROVE  Typed' /\ Lists' /\ Greets'
<1> DEFINE b == GreetingMessage
<1>1. b \in Seq(Byte)
  <2> DEFINE h == numheader_encode32(Len(Greeting))
             g == Greeting
  <2>1. h \in Seq(Byte)
    BY NumberOfGreeting
  <2>2. g \in Seq(Byte)
    BY NumberOfGreeting
  <2> HIDE DEF h, g
  <2>3. h \o g \in Seq(Byte)
    BY ONLY <2>1, <2>2, ConcatElements
  <2> QED BY <2>3 DEF h, g, GreetingMessage
<1>2. /\ connected' = TRUE /\ Sends(Client, b)
      /\ UNCHANGED <<accepted, local, remote, opened, known, receiver, inbox, rc, meant, got>>
  BY DEF Connect, GreetingMessage
<1> HIDE DEF b
<1>3. /\ stream' \in [Sides -> Seq(Byte)] /\ stream'[Client] = stream[Client]
      /\ stream'[Server] = stream[Server] \o b
  BY <1>1, <1>2, SendsBytes, TwoSides
<1>4. stream[Server] = <<>> /\ inbox[Server] = <<>>
  BY TwoSides, NothingArrived DEF Typed, Attaching, OnTheWay
<1>5. stream'[Server] = b /\ inbox'[Server] \o stream'[Server] = b
  <2>1. <<>> \o b = b
    BY <1>1, ConcatEmptySeq
  <2> QED BY <1>2, <1>3, <1>4, <2>1
<1>6. Typed'
  BY <1>2, <1>3 DEF Typed
<1>7. Lists'
  BY <1>2 DEF Lists, ClientList, ServerList, DefinitionOf
<1>8. Greets'
  <2>1. Quiet'
    BY <1>2 DEF Attaching, Quiet
  <2>2. ~accepted'[Server] /\ ~accepted'[Client] /\ inbox'[Client] \o stream'[Client] = <<>>
    BY <1>2, <1>3 DEF Attaching, OnTheWay
  <2> QED BY <1>2, <1>5, <2>1, <2>2 DEF Greets, OnTheWay, b, GreetingMessage
<1> QED BY <1>6, <1>7, <1>8

(* Bytes of the greeting or of the acknowledge arrive.                      *)
LEMMA ArriveEarly ==
  ASSUME Typed, Lists, Attaching \/ Greets \/ Answered, NEW s \in Sides, Arrive(s)
  PROVE  Typed' /\ Lists' /\ (Attaching \/ Greets \/ Answered)'
<1>1. /\ inbox' \in [Sides -> Seq(Byte)] /\ stream' \in [Sides -> Seq(Byte)]
      /\ \A t \in Sides : inbox'[t] \o stream'[t] = inbox[t] \o stream[t]
      /\ UNCHANGED <<connected, accepted, local, remote, opened, known, receiver, rc, meant, got>>
  BY Arrived DEF Typed
<1>2. Typed'
  BY <1>1 DEF Typed
<1>3. Lists'
  BY <1>1 DEF Lists, ClientList, ServerList, DefinitionOf
<1>4. Quiet => Quiet'
  BY <1>1 DEF Quiet
<1>5. /\ inbox'[Server] \o stream'[Server] = inbox[Server] \o stream[Server]
      /\ inbox'[Client] \o stream'[Client] = inbox[Client] \o stream[Client]
  BY <1>1, TwoSides
<1>6. ASSUME Attaching PROVE Attaching'
  BY <1>1, <1>4, <1>5, <1>6 DEF Attaching, OnTheWay
<1>7. ASSUME Greets PROVE Greets'
  BY <1>1, <1>4, <1>5, <1>7 DEF Greets, OnTheWay, GreetingMessage
<1>8. ASSUME Answered PROVE Answered'
  BY <1>1, <1>4, <1>5, <1>8 DEF Answered, OnTheWay, Acknowledge
<1> QED BY <1>2, <1>3, <1>6, <1>7, <1>8

-----------------------------------------------------------------------------
(* The acknowledge is a data message to the command area.                   *)
LEMMA AcknowledgeFacts ==
  ASSUME Room, Enough
  PROVE  LET d == rmf_encode_acknowledge_cmd
         IN /\ d \in Seq(Byte) /\ Len(d) <= CmdAreaSize /\ rmf_decode_cmd_type(d) = CMD_ACK
            /\ Acknowledge = DataMessage(CMD_AREA_START, FALSE, d) /\ Acknowledge \in Seq(Byte)
            /\ CMD_AREA_START \in Nat /\ CMD_AREA_START <= HIGH_ADDR_MAX
<1> DEFINE d == rmf_encode_acknowledge_cmd
           a == CMD_AREA_START
           no == FALSE
<1>1. d \in Seq(Byte) /\ Len(d) = 4 /\ rmf_decode_cmd_type(d) = CMD_ACK
  BY AcknowledgeBytes
<1>2. 4 <= CmdAreaSize
  BY RemoteFileAssumption, SMT DEF Enough, FILE_INFO_HEADER_SIZE
<1>3. Acknowledge = DataMessage(a, no, d)
  BY DEF Acknowledge, Command
<1>4. a \in Nat /\ a <= HIGH_ADDR_MAX /\ no \in BOOLEAN
  BY AddressLimits
<1> HIDE DEF d, a, no
<1>5. DataMessage(a, no, d) \in Seq(Byte)
  <2>1. Len(d) <= CmdAreaSize
    BY <1>1, <1>2
  <2> QED BY <1>1, <1>4, <2>1, MessageType
<1> QED BY <1>1, <1>2, <1>3, <1>4, <1>5 DEF d, a, no

(* Of a side that parses, all that is needed to read what has arrived.      *)
LEMMA ParsesParts ==
  ASSUME Typed, NEW s \in Sides, Parses(s)
  PROVE  LET x == inbox[s]
             l == numheader_decode32(x)
         IN /\ x \in Seq(Byte) /\ stream[s] \in Seq(Byte) /\ x # <<>>
            /\ l.size > 0 /\ l.size + l.value <= Len(x)
            /\ Payload(s) = SubSeq(x, l.size + 1, l.size + l.value)
            /\ inbox' = [inbox EXCEPT ![s] = From(x, l.size + l.value + 1)]
            /\ inbox \in [Sides -> Seq(Byte)] /\ stream \in [Sides -> Seq(Byte)]
<1>1. inbox \in [Sides -> Seq(Byte)] /\ stream \in [Sides -> Seq(Byte)]
  BY DEF Typed
<1> QED BY <1>1 DEF Parses, Complete, Length, Payload

(* The server reads the greeting and acknowledges it.                       *)
LEMMA GreetingStep ==
  ASSUME Room, Enough, Typed, Lists, Greets, GreetingReceived
  PROVE  Typed' /\ Lists' /\ Answered'
<1> DEFINE x == inbox[Server]
           y == stream[Server]
           l == numheader_decode32(x)
           r == From(x, l.size + l.value + 1)
           g == Greeting
           h == numheader_encode32(Len(g))
           none == <<>>
<1>1. Parses(Server)
  BY DEF GreetingReceived
<1>2. /\ x \in Seq(Byte) /\ y \in Seq(Byte) /\ x # <<>>
      /\ l.size > 0 /\ l.size + l.value <= Len(x)
      /\ Payload(Server) = SubSeq(x, l.size + 1, l.size + l.value)
      /\ inbox' = [inbox EXCEPT ![Server] = r]
      /\ inbox \in [Sides -> Seq(Byte)]
  BY <1>1, TwoSides, ParsesParts
<1>3. g \in Seq(Byte) /\ Len(g) <= NUM_LONG_MAX /\ h \in Seq(Byte) /\ EndsHeader(g)
  BY NumberOfGreeting
<1>4. x \o y = (h \o g) \o none
  <2>1. x \o y = h \o g
    BY DEF Greets, OnTheWay, GreetingMessage
  <2> DEFINE c == h \o g
  <2>2. c \in Seq(Byte)
    <3>1. h \in Seq(Byte) /\ g \in Seq(Byte)
      BY <1>3
    <3> HIDE DEF h, g
    <3> QED BY <3>1, ConcatElements
  <2> HIDE DEF c
  <2>3. c \o <<>> = c
    BY <2>2, ConcatEmptySeq
  <2> QED BY <2>1, <2>3 DEF c
<1>5. Encloses(x, y, h, g, none)
  BY <1>2, <1>3, <1>4 DEF Encloses
<1>6. none \in Seq(Byte)
  OBVIOUS
<1>7. SubSeq(x, l.size + 1, l.size + l.value) = g /\ r \in Seq(Byte) /\ r \o y = none
  <2>1. x \in Seq(Byte) /\ y \in Seq(Byte) /\ g \in Seq(Byte)
    BY <1>2, <1>3
  <2> HIDE DEF x, y, g, h, none
  <2> QED BY ONLY <1>5, <1>6, <2>1, PayloadRead
<1>8. EndsHeader(Payload(Server))
  BY <1>2, <1>3, <1>7
<1>9. /\ accepted' = [accepted EXCEPT ![Server] = TRUE] /\ Sends(Server, Acknowledge) /\ rc' = rc
      /\ UNCHANGED <<connected, local, remote, opened, known, receiver, meant, got>>
  BY <1>8 DEF GreetingReceived
<1>10. Acknowledge \in Seq(Byte)
  BY AcknowledgeFacts
<1>11. /\ stream' \in [Sides -> Seq(Byte)] /\ stream'[Server] = y
       /\ stream'[Client] = stream[Client] \o Acknowledge
  <2> DEFINE a == Acknowledge
  <2>1. Sends(Server, a) /\ a \in Seq(Byte)
    BY <1>9, <1>10
  <2> HIDE DEF a
  <2>2. /\ stream' \in [Sides -> Seq(Byte)] /\ stream'[Server] = stream[Server]
        /\ stream'[Other(Server)] = stream[Other(Server)] \o a
    BY <2>1, SendsBytes, TwoSides
  <2> QED BY <2>2, TwoSides DEF a
<1>12. stream[Client] = <<>> /\ inbox[Client] = <<>>
  BY TwoSides, NothingArrived DEF Typed, Greets, OnTheWay
<1>13. inbox' \in [Sides -> Seq(Byte)] /\ inbox'[Server] = r /\ inbox'[Client] = inbox[Client]
  <2> HIDE DEF r
  <2> QED BY <1>2, <1>7, TwoSides
<1>14. inbox'[Client] \o stream'[Client] = Acknowledge
  <2> DEFINE a == Acknowledge
  <2>1. a \in Seq(Byte)
    BY <1>10
  <2> HIDE DEF a
  <2>2. <<>> \o a = a /\ <<>> \o (<<>> \o a) = a
    BY <2>1, ConcatEmptySeq
  <2> QED BY <1>11, <1>12, <1>13, <2>2 DEF a
<1>15. Typed'
  BY <1>9, <1>11, <1>13 DEF Typed
<1>16. Lists'
  BY <1>9 DEF Lists, ClientList, ServerList, DefinitionOf
<1>17. Answered'
  <2>1. Quiet'
    BY <1>9 DEF Greets, Quiet
  <2>2. accepted'[Server] /\ ~accepted'[Client]
    BY <1>9, TwoSides DEF Greets, Typed
  <2>3. inbox'[Server] \o stream'[Server] = <<>>
    BY <1>7, <1>11, <1>13
  <2>4. connected'
    BY <1>9 DEF Greets
  <2> QED BY <1>14, <2>1, <2>2, <2>3, <2>4 DEF Answered, OnTheWay, Acknowledge
<1> QED BY <1>15, <1>16, <1>17

-----------------------------------------------------------------------------
(* The queues when the exchange begins: what the client sends once it is    *)
(* acknowledged.                                                            *)
FirstQueues(u) == [s \in Sides |-> IF s = Server THEN u ELSE <<>>]

(* Nothing but the publications of the client's files is on its way.        *)
LEMMA RunningFirst ==
  ASSUME Typed', Quiet', NEW u \in Seq(Sent), Contiguous(u), u # <<>> => u[1].lo = 0,
         FilesIn(u) = local'[Client].files, WritesIn(u) = <<>>,
         \A i \in 1..Len(u) : u[i].what = "publish",
         OnTheWay(Bytes(u), <<>>)'
  PROVE  Running(FirstQueues(u))'
<1> DEFINE q == FirstQueues(u)
           none == <<>>
<1>1. q[Server] = u /\ q[Client] = none /\ none \in Seq(Sent) /\ q \in [Sides -> Seq(Sent)]
  BY TwoSides DEF FirstQueues
<1>2. Bytes(none) = <<>> /\ WritesIn(none) = <<>> /\ FilesIn(none) = <<>> /\ Contiguous(none)
  <2>1. Contiguous(none)
    BY DEF Contiguous
  <2> QED BY <2>1, FlatMapEmpty DEF Bytes, WritesIn, FilesIn
<1>3. /\ local'[Server].files = <<>> /\ known' = {}
      /\ \A s \in Sides : /\ remote'[s].files = <<>> /\ opened'[s] = {} /\ receiver'[s] = Reset
                          /\ meant'[s] = <<>> /\ got'[s] = <<>>
  BY DEF Quiet
<1>3a. /\ inbox'[Server] \o stream'[Server] = Bytes(u)
       /\ inbox'[Client] \o stream'[Client] = <<>>
       /\ inbox' \in [Sides -> Seq(Byte)] /\ stream' \in [Sides -> Seq(Byte)]
  BY DEF OnTheWay, Bytes, Typed
<1> HIDE DEF q, none
<1>4. Queued(Server, u)'
  <2>1. Expects(u) = Reset
    BY DEF Expects, Before
  <2> QED BY <1>3, <1>3a, <2>1, TwoSides DEF Queued
<1>5. Queued(Client, none)'
  <2>1. Expects(none) = Reset
    BY DEF Expects, none
  <2>2. none' = none
    BY DEF none
  <2> QED BY <1>2, <1>3, <1>3a, <2>1, <2>2, TwoSides DEF Queued
<1>6. QueuesHold(q)'
  <2>1. \A s \in Sides : s = Server \/ s = Client
    BY TwoSides
  <2>2. Queued(Server, q[Server])'
    BY <1>1, <1>4 DEF Queued, q
  <2>3. Queued(Client, q[Client])'
    BY <1>1, <1>5 DEF Queued, q, none
  <2> QED BY <1>1, <2>1, <2>2, <2>3 DEF QueuesHold, q
<1>7. FilesFlow(q)'
  <2> DEFINE f == local'[Client].files
  <2>1. f \in Seq(Files)
    BY TwoSides DEF Typed, Maps
  <2> HIDE DEF f
  <2>2. <<>> \o f = f
    BY <2>1, ConcatEmptySeq
  <2>3. <<>> \o <<>> = <<>>
    BY ConcatEmptySeq
  <2>4. remote'[Server].files \o FilesIn(q[Server]) = local'[Client].files
    BY <1>1, <1>3, <2>2, TwoSides DEF f
  <2>5. remote'[Client].files \o FilesIn(q[Client]) = local'[Server].files
    BY <1>1, <1>2, <1>3, <2>3, TwoSides
  <2> QED BY <2>4, <2>5, TwoSides DEF FilesFlow, q
<1>8. WritesFlow(q)'
  <2>1. <<>> \o <<>> = <<>>
    BY ConcatEmptySeq
  <2>2. WritesIn(q[Server]) = <<>> /\ WritesIn(q[Client]) = <<>>
    BY <1>1, <1>2
  <2> QED BY <1>3, <2>1, <2>2, TwoSides DEF WritesFlow, q
<1>9. \A s \in Sides : AllPlaced(s, q[s])'
  <2>1. \A i \in 1..Len(q[Server]) : q[Server][i].what = "publish"
    BY <1>1
  <2>2. AllPlaced(Server, q[Server])'
    BY <2>1 DEF AllPlaced, Placed, q
  <2>3. Len(none) = 0 /\ \A i \in 1..0 : FALSE
    BY DEF none
  <2>4. \A i \in 1..Len(q[Client]) : FALSE
    BY <1>1, <2>3
  <2>5. AllPlaced(Client, q[Client])'
    BY <2>4 DEF AllPlaced, q
  <2> QED BY <2>2, <2>5, TwoSides
<1>10. Linked' /\ OpenedNamed'
  <2>1. \A s \in Sides : opened'[s] = {}
    BY <1>3
  <2> QED BY <2>1 DEF Linked, OpenedNamed
<1>11. NodesKnown'
  <2>1. Range(<<>>) = {}
    BY DEF Range
  <2> QED BY <1>3, <2>1, TwoSides DEF NodesKnown, Named
<1>12. AskedOnce(q[Client])'
  <2>1. Len(none) = 0 /\ \A i \in 1..0 : FALSE
    BY DEF none
  <2>2. \A i \in 1..Len(q[Client]) : FALSE
    BY <1>1, <2>1
  <2> QED BY <2>2 DEF AskedOnce, q
<1>13. WrittenOnce'
  <2>1. Len(meant'[Server]) = 0 /\ \A i \in 1..0 : FALSE
    BY <1>3, TwoSides
  <2> QED BY <2>1 DEF WrittenOnce
<1>14. BuiltFrom'
  <2>1. Range(<<>>) = {}
    BY DEF Range
  <2> QED BY <1>3, <2>1 DEF BuiltFrom
<1> QED BY <1>6, <1>7, <1>8, <1>9, <1>10, <1>11, <1>12, <1>13, <1>14 DEF Running, q

(* The client reads the acknowledge and publishes its files.                *)
LEMMA AcknowledgeStep ==
  ASSUME Room, Enough, Typed, Lists, Answered, AcknowledgeReceived
  PROVE  Typed' /\ Lists' /\ Exchanging'
<1> DEFINE x == inbox[Client]
           y == stream[Client]
           l == numheader_decode32(x)
           r == From(x, l.size + l.value + 1)
           d == rmf_encode_acknowledge_cmd
           a == CMD_AREA_START
           no == FALSE
           none == <<>>
           files == local[Client].files
           b == FlattenSeq([i \in DOMAIN files |-> Publish(files[i])])
<1>1. Parses(Client)
  BY DEF AcknowledgeReceived
<1>2. /\ x \in Seq(Byte) /\ y \in Seq(Byte) /\ x # <<>>
      /\ l.size > 0 /\ l.size + l.value <= Len(x)
      /\ Payload(Client) = SubSeq(x, l.size + 1, l.size + l.value)
      /\ inbox' = [inbox EXCEPT ![Client] = r]
      /\ inbox \in [Sides -> Seq(Byte)]
  BY <1>1, TwoSides, ParsesParts
<1>3. /\ d \in Seq(Byte) /\ Len(d) <= CmdAreaSize /\ rmf_decode_cmd_type(d) = CMD_ACK
      /\ Acknowledge = DataMessage(a, no, d) /\ Acknowledge \in Seq(Byte)
      /\ a \in Nat /\ a <= HIGH_ADDR_MAX /\ no \in BOOLEAN
  BY AcknowledgeFacts
<1>4. x \o y = DataMessage(a, no, d) \o none
  <2> DEFINE m == Acknowledge
  <2>1. x \o y = m /\ m \in Seq(Byte) /\ m = DataMessage(a, no, d)
    BY <1>3 DEF Answered, OnTheWay
  <2> HIDE DEF m
  <2>2. m \o <<>> = m
    BY <2>1, ConcatEmptySeq
  <2> QED BY <2>1, <2>2
<1>5. none \in Seq(Byte)
  OBVIOUS
<1>6. Reads(x, y, a, no, d, none)
  <2> HIDE DEF x, y, d, a, no, none
  <2> QED BY <1>2, <1>3, <1>4, <1>5, MessageRead
<1>7. /\ Header(Client).address = CMD_AREA_START /\ Body(Client) = d
      /\ r \in Seq(Byte) /\ r \o y = none
  BY <1>2, <1>6 DEF Reads, Header, Body
<1>8. rmf_decode_cmd_type(Body(Client)) = CMD_ACK
  BY <1>3, <1>7
<1>9. /\ accepted' = [accepted EXCEPT ![Client] = TRUE] /\ Sends(Client, b) /\ rc' = rc
      /\ UNCHANGED <<connected, local, remote, opened, known, receiver, meant, got>>
  BY <1>7, <1>8 DEF AcknowledgeReceived
<1>0. PICK u : u = AllPublished(files)
  OBVIOUS
<1>10. /\ u \in Seq(Sent) /\ Contiguous(u) /\ (u # <<>> => u[1].lo = 0)
       /\ Bytes(u) = b /\ FilesIn(u) = files /\ WritesIn(u) = <<>>
       /\ \A i \in 1..Len(u) : u[i].what = "publish"
  <2>1. files \in Seq(Files)
    BY TwoSides DEF Typed, Maps
  <2> QED BY <1>0, <2>1, AllPublishedFacts
<1>11. b \in Seq(Byte)
  BY <1>10, BytesType
<1> HIDE DEF b
<1>12. /\ stream' \in [Sides -> Seq(Byte)] /\ stream'[Client] = y
       /\ stream'[Server] = stream[Server] \o b
  <2>1. /\ stream' \in [Sides -> Seq(Byte)] /\ stream'[Client] = stream[Client]
        /\ stream'[Other(Client)] = stream[Other(Client)] \o b
    BY <1>9, <1>11, SendsBytes, TwoSides
  <2> QED BY <2>1, TwoSides
<1>13. stream[Server] = <<>> /\ inbox[Server] = <<>>
  BY TwoSides, NothingArrived DEF Typed, Answered, OnTheWay
<1>14. inbox' \in [Sides -> Seq(Byte)] /\ inbox'[Client] = r /\ inbox'[Server] = inbox[Server]
  <2> HIDE DEF r
  <2> QED BY <1>2, <1>7, TwoSides
<1>15. inbox'[Server] \o stream'[Server] = b
  <2>1. <<>> \o b = b /\ <<>> \o (<<>> \o b) = b
    BY <1>11, ConcatEmptySeq
  <2> QED BY <1>12, <1>13, <1>14, <2>1
<1>16. Typed'
  BY <1>9, <1>12, <1>14 DEF Typed
<1>17. Lists'
  BY <1>9 DEF Lists, ClientList, ServerList, DefinitionOf
<1>18. Quiet'
  BY <1>9 DEF Answered, Quiet
<1>19. OnTheWay(Bytes(u), <<>>)'
  <2>1. inbox'[Client] \o stream'[Client] = <<>>
    BY <1>7, <1>12, <1>14
  <2> QED BY <1>10, <1>15, <2>1 DEF OnTheWay, Bytes
<1>20. FilesIn(u) = local'[Client].files
  BY <1>9, <1>10
<1>21. Running(FirstQueues(u))'
  BY <1>10, <1>16, <1>18, <1>19, <1>20, RunningFirst
<1>22. connected' /\ accepted'[Server] /\ accepted'[Client]
  BY <1>9, TwoSides DEF Answered, Typed
<1> QED BY <1>16, <1>17, <1>21, <1>22 DEF Exchanging, Flowing

-----------------------------------------------------------------------------
(* The inductive invariant.                                                 *)
WireInv == Typed /\ Lists /\ Phase

(* A send buffer holds every message, and a command area every command.     *)
LEMMA SizesGive ==
  ASSUME SizesFit
  PROVE  Room /\ Enough
  BY WireAssumption DEF SizesFit, Room, Enough

(* The invariant holds at first and is kept by every step.                  *)
LEMMA InitHolds == Init => WireInv
<1> SUFFICES ASSUME Init PROVE WireInv
  OBVIOUS
<1>1. /\ EmptyMap \in Maps /\ EmptyMap.files = <<>>
      /\ Reset \in Receivers
  <2>1. INVALID_ADDRESS \in Nat
    BY AddressLimits
  <2>2. <<>> \in Seq(Files) /\ <<>> \in Seq(Byte)
    OBVIOUS
  <2> QED BY <2>1, <2>2 DEF EmptyMap, Maps, Reset, Receivers
<1>2. <<>> \in Seq(Byte) /\ <<>> \in Seq(FileWrites) /\ {} \in SUBSET Names /\ {} \in SUBSET Nodes
  OBVIOUS
<1>3. Typed
  BY <1>1, <1>2 DEF Init, Typed
<1>4. \A s \in Sides : local[s].files = <<>> /\ remote[s].files = <<>>
  BY <1>1 DEF Init
<1>5. Good(<<>>) /\ Range(<<>>) = {} /\ Len(<<>>) = 0
  BY DEF Good, Apart, UniqueNames, Range
<1>6. ClientList(<<>>, 0) /\ ServerList(<<>>)
  BY <1>5 DEF ClientList, ServerList, Block
<1>7. Lists
  BY <1>4, <1>5, <1>6, TwoSides DEF Lists
<1>8. Quiet
  BY <1>4, TwoSides DEF Init, Quiet
<1>9. OnTheWay(<<>>, <<>>)
  <2>1. <<>> \o <<>> = <<>>
    BY ConcatEmptySeq
  <2> QED BY <2>1, TwoSides DEF Init, OnTheWay
<1>10. Attaching
  BY <1>8, <1>9, TwoSides DEF Init, Attaching
<1> QED BY <1>3, <1>7, <1>10 DEF WireInv, Phase

(* While files and writes are exchanged, a step of the protocol keeps the   *)
(* invariant.                                                               *)
LEMMA ExchangingStep ==
  ASSUME SizesFit, Typed, Lists, Exchanging, Next
  PROVE  Typed' /\ Lists' /\ Exchanging'
<1>1. Room /\ Enough
  BY SizesGive
<1>2. PICK q : Running(q)
  BY DEF Exchanging, Flowing
<1>3. connected /\ accepted[Server] /\ accepted[Client]
  BY DEF Exchanging
<1>4. PICK s \in Sides : \/ Arrive(s) \/ NothingToDo(s) \/ FilePublished(s) \/ OpenRequested(s)
                         \/ FileWritten(s) \/ WriteLocalFile(s)
  BY <1>3 DEF Next, Handle, Attach, Connect, GreetingReceived, AcknowledgeReceived
<1>5. Typed' /\ Lists' /\ Flowing'
  <2>1. CASE Arrive(s)
    BY <1>2, <2>1, ArriveStep
  <2>2. CASE NothingToDo(s)
    BY <1>1, <1>2, <2>2, NothingStep
  <2>3. CASE FilePublished(s)
    BY <1>1, <1>2, <2>3, PublishedStep
  <2>4. CASE OpenRequested(s)
    BY <1>1, <1>2, <2>4, OpenStep
  <2>5. CASE FileWritten(s)
    <3>1. CASE IsWholeDefinition(s, q[s][1].file, q[s][1].offset, q[s][1].data)
      <4>1. s = Server
        BY <3>1 DEF IsWholeDefinition
      <4> QED BY <1>1, <1>2, <2>5, <3>1, <4>1, BuildStep
    <3>2. CASE ~IsWholeDefinition(s, q[s][1].file, q[s][1].offset, q[s][1].data)
      BY <1>1, <1>2, <2>5, <3>2, WriteStep
    <3> QED BY <3>1, <3>2
  <2>6. CASE WriteLocalFile(s)
    BY <1>1, <1>2, <2>6, LocalStep
  <2> QED BY <1>4, <2>1, <2>2, <2>3, <2>4, <2>5, <2>6
<1>6. connected' = connected /\ accepted' = accepted
  BY <1>4 DEF Arrive, NothingToDo, FilePublished, OpenRequested, FileWritten, WriteLocalFile
<1> QED BY <1>3, <1>5, <1>6 DEF Exchanging

(* Before that, only the steps of the greeting can be taken.                *)
LEMMA GreetingStepsOnly ==
  ASSUME Typed, Attaching \/ Greets \/ Answered, Next
  PROVE  \/ Attaching /\ \E n \in Nodes : Attach(n)
         \/ Attaching /\ Connect
         \/ \E s \in Sides : Arrive(s)
         \/ Greets /\ GreetingReceived
         \/ Answered /\ AcknowledgeReceived
<1>1. \A s \in Sides : ~WriteLocalFile(s)
  BY QuietSide DEF Attaching, Greets, Answered
<1>2. /\ (Attaching \/ Greets) => ~Parses(Client)
      /\ (Attaching \/ Answered) => ~Parses(Server)
  BY TwoSides, NothingArrived DEF Typed, Attaching, Greets, Answered, OnTheWay
<1>3. \A s \in Sides : ~(accepted[s] /\ Parses(s))
  BY <1>2, TwoSides DEF Attaching, Greets, Answered
<1>4. \A s \in Sides :
        ~(NothingToDo(s) \/ FilePublished(s) \/ OpenRequested(s) \/ FileWritten(s))
  BY <1>3 DEF NothingToDo, FilePublished, OpenRequested, FileWritten, Receives
<1>5. (\E n \in Nodes : Attach(n)) \/ Connect => Attaching
  BY DEF Attach, Connect, Attaching, Greets, Answered
<1>6. GreetingReceived => Greets
  BY <1>2 DEF GreetingReceived, Attaching, Greets, Answered
<1>7. AcknowledgeReceived => Answered
  BY <1>2 DEF AcknowledgeReceived, Attaching, Greets, Answered
<1> QED BY <1>1, <1>4, <1>5, <1>6, <1>7 DEF Next, Handle

LEMMA StepHolds == SizesFit /\ WireInv /\ [Next]_vars => WireInv'
<1> SUFFICES ASSUME SizesFit, WireInv, [Next]_vars PROVE WireInv'
  OBVIOUS
<1>1. Typed /\ Lists /\ Phase
  BY DEF WireInv
<1>2. Room /\ Enough
  BY SizesGive
<1>3. CASE UNCHANGED vars
  <2>1. Typed'
    BY <1>1, <1>3 DEF Typed, vars
  <2>2. Lists'
    BY <1>1, <1>3 DEF Lists, ClientList, ServerList, DefinitionOf, vars
  <2>3. Quiet => Quiet'
    BY <1>3 DEF Quiet, vars
  <2>4. Attaching => Attaching'
    BY <1>3, <2>3 DEF Attaching, OnTheWay, vars
  <2>5. Greets => Greets'
    BY <1>3, <2>3 DEF Greets, OnTheWay, GreetingMessage, vars
  <2>6. Answered => Answered'
    BY <1>3, <2>3 DEF Answered, OnTheWay, Acknowledge, vars
  <2>7. Exchanging => Exchanging'
    <3>1. ASSUME Exchanging PROVE Flowing'
      <4>1. PICK q : Running(q)
        BY <3>1 DEF Exchanging, Flowing
      <4>2. Running(q)'
        BY <1>3, <4>1 DEF Running, QueuesHold, Queued, FilesFlow, WritesFlow, AllPlaced, Placed,
             Linked, OpenedNamed, NodesKnown, AskedOnce, WrittenOnce, BuiltFrom, DefinitionOf, vars
      <4> QED BY <4>2 DEF Flowing
    <3> QED BY <1>3, <3>1 DEF Exchanging, vars
  <2> QED BY <1>1, <2>1, <2>2, <2>4, <2>5, <2>6, <2>7 DEF WireInv, Phase
<1>4. CASE Next
  <2>1. CASE Exchanging
    <3>1. Typed' /\ Lists' /\ Exchanging'
      BY <1>1, <1>4, <2>1, ExchangingStep
    <3> QED BY <3>1 DEF WireInv, Phase
  <2>2. CASE Attaching \/ Greets \/ Answered
    <3>1. \/ Attaching /\ \E n \in Nodes : Attach(n)
          \/ Attaching /\ Connect
          \/ \E s \in Sides : Arrive(s)
          \/ Greets /\ GreetingReceived
          \/ Answered /\ AcknowledgeReceived
      BY <1>1, <1>4, <2>2, GreetingStepsOnly
    <3>2. ASSUME Attaching, NEW n \in Nodes, Attach(n) PROVE Typed' /\ Lists' /\ Attaching'
      BY <1>1, <3>2, AttachStep
    <3>3. ASSUME Attaching, Connect PROVE Typed' /\ Lists' /\ Greets'
      BY <1>1, <3>3, ConnectStep
    <3>4. ASSUME NEW s \in Sides, Arrive(s) PROVE Typed' /\ Lists' /\ (Attaching \/ Greets \/ Answered)'
      BY <1>1, <2>2, <3>4, ArriveEarly
    <3>5. ASSUME Greets, GreetingReceived PROVE Typed' /\ Lists' /\ Answered'
      BY <1>1, <1>2, <3>5, GreetingStep
    <3>6. ASSUME Answered, AcknowledgeReceived PROVE Typed' /\ Lists' /\ Exchanging'
      BY <1>1, <1>2, <3>6, AcknowledgeStep
    <3> QED BY <3>1, <3>2, <3>3, <3>4, <3>5, <3>6 DEF WireInv, Phase
  <2> QED BY <1>1, <2>1, <2>2 DEF Phase
<1> QED BY <1>3, <1>4

-----------------------------------------------------------------------------
(* The files of a session can be described to the other side.               *)
LEMMA FilesAreInfos ==
  ASSUME NEW s \in Seq(Files)
  PROVE  s \in Seq(FileInfos)
<1>1. Files \subseteq FileInfos
  <2> SUFFICES ASSUME NEW f \in Files PROVE f \in FileInfos
    OBVIOUS
  <2>1. /\ f = [name |-> f.name, address |-> f.address, size |-> f.size, type |-> f.type,
                digest_type |-> f.digest_type, digest |-> f.digest]
        /\ f.name \in Names /\ f.address \in 0..CMD_AREA_START /\ f.size \in 1..CmdAreaSize
        /\ f.type \in {0} /\ f.digest_type \in {0, 2} /\ f.digest \in Digests
    BY DEF Files
  <2>2. f.address \in Nat /\ f.size \in Nat
    BY <2>1
  <2>3. f.type \in FILE_TYPES /\ f.digest_type \in DIGEST_TYPES
    BY <2>1 DEF FILE_TYPES, DIGEST_TYPES
  <2>4. f.digest \in Seq(Byte) /\ f.name \in Nodes \X {ExtDefinition, ExtProvide, ExtRequire}
    BY <2>1 DEF Digests, Names, Exts
  <2> QED BY <2>1, <2>2, <2>3, <2>4 DEF FileInfos
<1>2. Len(s) \in Nat /\ DOMAIN s = 1..Len(s) /\ \A i \in 1..Len(s) : s[i] \in FileInfos
  BY <1>1, LenProperties
<1>3. s = [i \in 1..Len(s) |-> s[i]]
  BY <1>2, LenProperties
<1> QED BY <1>2, <1>3, SeqDef

(* Only files that are known were opened.                                   *)
LEMMA NamesOpened ==
  ASSUME WireInv
  PROVE  OpenedNamed
<1>1. CASE Attaching \/ Greets \/ Answered
  BY <1>1 DEF Attaching, Greets, Answered, Quiet, OpenedNamed
<1>2. CASE Exchanging
  BY <1>2 DEF Exchanging, Flowing, Running
<1> QED BY <1>1, <1>2 DEF WireInv, Phase

(* What the invariant says of the properties of a session.                  *)
LEMMA TypesHold == WireInv => TypeOK
<1> SUFFICES ASSUME WireInv PROVE TypeOK
  OBVIOUS
<1>1. Typed
  BY DEF WireInv
<1>2. connected \in BOOLEAN /\ known \subseteq Nodes
  BY <1>1 DEF Typed
<1>3. ASSUME NEW s \in Sides
      PROVE  /\ accepted[s] \in BOOLEAN
             /\ local[s].files \in Seq(FileInfos) /\ remote[s].files \in Seq(FileInfos)
             /\ local[s].last \in Nat /\ remote[s].last \in Nat
             /\ opened[s] \subseteq {f.name : f \in Range(local[s].files) \cup Range(remote[s].files)}
             /\ receiver[s].start \in Nat /\ receiver[s].data \in Seq(Byte)
             /\ stream[s] \in Seq(Byte) /\ inbox[s] \in Seq(Byte)
  <2>1. local[s] \in Maps /\ remote[s] \in Maps /\ receiver[s] \in Receivers
    BY <1>1 DEF Typed
  <2>2. /\ accepted[s] \in BOOLEAN /\ stream[s] \in Seq(Byte) /\ inbox[s] \in Seq(Byte)
    BY <1>1 DEF Typed
  <2>3. /\ local[s].files \in Seq(Files) /\ remote[s].files \in Seq(Files)
        /\ local[s].last \in Nat /\ remote[s].last \in Nat
    BY <2>1 DEF Maps
  <2>4. local[s].files \in Seq(FileInfos) /\ remote[s].files \in Seq(FileInfos)
    <3> DEFINE a == local[s].files
               b == remote[s].files
    <3>1. a \in Seq(Files) /\ b \in Seq(Files)
      BY <2>3
    <3> HIDE DEF a, b
    <3>2. a \in Seq(FileInfos) /\ b \in Seq(FileInfos)
      BY <3>1, FilesAreInfos
    <3> QED BY <3>2 DEF a, b
  <2>5. receiver[s].start \in Nat /\ receiver[s].data \in Seq(Byte)
    BY <2>1 DEF Receivers
  <2>6. opened[s] \subseteq {f.name : f \in Range(local[s].files) \cup Range(remote[s].files)}
    BY NamesOpened DEF OpenedNamed, Named
  <2> QED BY <2>2, <2>3, <2>4, <2>5, <2>6
<1> QED BY <1>2, <1>3 DEF TypeOK

LEMMA DisjointHolds == WireInv => FilesDisjoint
<1> SUFFICES ASSUME WireInv, NEW s \in Sides
             PROVE  \A map \in {local[s], remote[s]} :
                      Apart(map.files) /\ \A f \in Range(map.files) : End(f) <= CMD_AREA_START
  BY DEF FilesDisjoint
<1>1. Typed /\ Lists /\ Phase
  BY DEF WireInv
<1>2. /\ Apart(local[s].files)
      /\ \A f \in Range(local[s].files) : End(f) <= CMD_AREA_START
  BY <1>1, LocalGood
<1>3. Apart(remote[s].files) /\ \A f \in Range(remote[s].files) : End(f) <= CMD_AREA_START
  <2>1. CASE Attaching \/ Greets \/ Answered
    <3>1. remote[s].files = <<>>
      BY <2>1 DEF Attaching, Greets, Answered, Quiet
    <3>2. Apart(<<>>) /\ Range(<<>>) = {}
      BY DEF Apart, Range
    <3> QED BY <3>1, <3>2
  <2>2. CASE Exchanging
    <3>1. PICK q : Running(q)
      BY <2>2 DEF Exchanging, Flowing
    <3>2. QueuesHold(q) /\ FilesFlow(q) /\ Other(s) \in Sides
      BY <3>1, OtherFacts DEF Running
    <3>3. Apart(remote[s].files) /\ Range(remote[s].files) \subseteq Range(local[Other(s)].files)
      BY <1>1, <3>2, KnownFirst
    <3>4. \A f \in Range(local[Other(s)].files) : End(f) <= CMD_AREA_START
      BY <1>1, <3>2, LocalGood
    <3> QED BY <3>3, <3>4
  <2> QED BY <1>1, <2>1, <2>2 DEF Phase
<1> QED BY <1>2, <1>3

LEMMA NothingRefused == WireInv => NeverRefused
  BY DEF WireInv, Typed, NeverRefused

LEMMA MirrorsHold == SizesFit /\ WireInv => RemoteMapMirrors
<1> SUFFICES ASSUME SizesFit, WireInv, NEW s \in Sides
             PROVE  /\ Range(remote[s].files) \subseteq Range(local[Other(s)].files)
                    /\ Settled => Range(remote[s].files) = Range(local[Other(s)].files)
  BY DEF RemoteMapMirrors
<1>1. Typed /\ Lists /\ Phase /\ Room
  BY SizesGive DEF WireInv
<1>2. CASE Attaching \/ Greets \/ Answered
  <2>1. remote[s].files = <<>> /\ ~Settled
    BY <1>2 DEF Attaching, Greets, Answered, Quiet, Settled
  <2>2. Range(<<>>) = {}
    BY DEF Range
  <2> QED BY <2>1, <2>2
<1>3. CASE Exchanging
  <2>1. PICK q : Running(q)
    BY <1>3 DEF Exchanging, Flowing
  <2>2. QueuesHold(q) /\ FilesFlow(q) /\ Other(s) \in Sides
    BY <2>1, OtherFacts DEF Running
  <2>3. Range(remote[s].files) \subseteq Range(local[Other(s)].files)
    BY <1>1, <2>2, KnownFirst
  <2>4. ASSUME Settled PROVE remote[s].files = local[Other(s)].files
    <3> DEFINE v == q[s]
    <3>1. v \in Seq(Sent) /\ Queued(s, v)
      BY <2>2 DEF QueuesHold
    <3>2. stream[s] = <<>> /\ inbox[s] = <<>>
      BY <2>4 DEF Settled
    <3>3. remote[s].files \o FilesIn(v) = local[Other(s)].files
      BY <2>2 DEF FilesFlow
    <3> HIDE DEF v
    <3>4. Bytes(v) = <<>>
      <4>1. <<>> \o <<>> = <<>>
        BY ConcatEmptySeq
      <4> QED BY <3>1, <3>2, <4>1 DEF Queued
    <3>5. v = <<>>
      <4>1. ASSUME v # <<>> PROVE FALSE
        <5> DEFINE a == Encoding[v[1]]
                   b == Bytes(Tail(v))
        <5>1. Bytes(v) = a \o b /\ a \in Seq(Byte) /\ b \in Seq(Byte) /\ a # <<>>
          BY <1>1, <3>1, <4>1, BytesFirst
        <5> HIDE DEF a, b
        <5> DEFINE c == a \o b
        <5>2. Len(c) = Len(a) + Len(b) /\ Len(a) \in Nat /\ Len(b) \in Nat
          BY <5>1, ConcatElements
        <5>3. Len(c) = 0
          BY <3>4, <5>1
        <5>4. Len(a) = 0
          BY <5>2, <5>3
        <5> QED BY <5>1, <5>4, EmptySeq
      <4> QED BY <4>1
    <3>6. FilesIn(v) = <<>>
      BY <3>1, <3>5, WritesInType
    <3>7. remote[s].files \o <<>> = remote[s].files
      BY <1>1, EmptyParts
    <3> QED BY <3>3, <3>6, <3>7
  <2> QED BY <2>3, <2>4
<1> QED BY <1>1, <1>2, <1>3 DEF Phase

(* Whatever the nodes, the sizes of their files, the fragments and the      *)
(* points at which the socket cuts the stream (Arrive): the session stays   *)
(* as the inductive invariant describes it.                                 *)
THEOREM WireInvariant == ASSUME SizesFit PROVE Spec => []WireInv
<1>1. Init => WireInv
  BY InitHolds
<1>2. WireInv /\ [Next]_vars => WireInv'
  BY StepHolds
<1> QED BY <1>1, <1>2, PTL DEF Spec

(* The file manager, its receiver and both file maps stay within their      *)
(* types (file_manager.c, file_manager_receiver.c, file_map.c).             *)
THEOREM WireTypes == ASSUME SizesFit PROVE Spec => []TypeOK
<1>1. WireInv => TypeOK
  BY TypesHold
<1>2. Spec => []WireInv
  BY WireInvariant
<1> QED BY <1>1, <1>2, PTL

(* No two files of a side overlap, neither those that                       *)
(* apx_fileMap_create_file placed by itself nor those the other side        *)
(* published (file_map.c:92-129, 243-403).                                  *)
THEOREM WireFilesDisjoint == ASSUME SizesFit PROVE Spec => []FilesDisjoint
<1>1. WireInv => FilesDisjoint
  BY DisjointHolds
<1>2. Spec => []WireInv
  BY WireInvariant
<1> QED BY <1>1, <1>2, PTL

(* No message of a session is refused: neither the decoding of commands,    *)
(* nor the receiver, nor the file map returns an error, wherever the stream *)
(* was cut (server_connection.c:427-485, file_manager.c:207-490).           *)
THEOREM WireNeverRefused == ASSUME SizesFit PROVE Spec => []NeverRefused
<1>1. WireInv => NeverRefused
  BY NothingRefused
<1>2. Spec => []WireInv
  BY WireInvariant
<1> QED BY <1>1, <1>2, PTL

(* What a side knows of the files of the other is what the other has: same  *)
(* names, addresses and sizes, as far as file information has arrived       *)
(* (file_manager.c:475-490).                                                *)
THEOREM WireMirrors == ASSUME SizesFit PROVE Spec => []RemoteMapMirrors
<1>1. WireInv => RemoteMapMirrors
  BY MirrorsHold
<1>2. Spec => []WireInv
  BY WireInvariant
<1> QED BY <1>1, <1>2, PTL

-----------------------------------------------------------------------------
(* What a side may be told: the server definitions and provided data, the   *)
(* client required data.  A step hands a write over to the channel, or      *)
(* delivers the first ones.                                                 *)
Told(s) == IF s = Server THEN Writes(Nodes \X {ExtDefinition, ExtProvide}, Byte)
           ELSE Writes(Nodes \X {ExtRequire}, Byte)

HandsOver(s) == /\ \E m \in Told(s) : meant'[s] = Append(meant[s], m)
                /\ got'[s] = got[s]
Delivers(s) ==
  /\ meant'[s] = meant[s]
  /\ \E w \in FileWrites, rest \in Seq(FileWrites) :
       got'[s] = got[s] \o <<w>> /\ meant[s] = got'[s] \o rest

(* What a side writes are writes to files it has.                           *)
LEMMA ToldWrites ==
  ASSUME Typed, Lists, NEW s \in Sides, NEW f \in Range(local[s].files)
  PROVE  /\ Write(f.name, 0, Contents(f.name)) \in Told(Other(s))
         /\ \A offset \in 0..(f.size - 1), v \in Byte : Write(f.name, offset, <<v>>) \in Told(Other(s))
<1> DEFINE names == IF s = Client THEN Nodes \X {ExtDefinition, ExtProvide} ELSE Nodes \X {ExtRequire}
<1>1. /\ f \in Files /\ f.size = SizeOf(f.name)
  BY LocalGood
<1>2. f.name = <<f.name[1], f.name[2]>> /\ f.name[1] \in Nodes /\ FileType(f) = f.name[2]
  BY <1>1, FileFacts DEF FileName
<1>3. f.name \in names
  <2>1. CASE s = Client
    <3>1. FileType(f) \in {ExtProvide, ExtDefinition}
      BY <2>1, FilesOfSides
    <3> QED BY <1>2, <2>1, <3>1
  <2>2. CASE s = Server
    <3>1. FileType(f) = ExtRequire
      BY <2>2, FilesOfSides
    <3>2. s # Client
      BY <2>2, TwoSides
    <3> QED BY <1>2, <3>1, <3>2
  <2> QED BY <2>1, <2>2, TwoSides
<1>4. Told(Other(s)) = Writes(names, Byte)
  BY TwoSides DEF Told
<1> HIDE DEF names
<1>5. Write(f.name, 0, Contents(f.name)) \in Writes(names, Byte)
  BY <1>3 DEF Writes
<1>6. ASSUME NEW offset \in 0..(f.size - 1), NEW v \in Byte
      PROVE  Write(f.name, offset, <<v>>) \in Writes(names, Byte)
  <2> DEFINE n == f.name
  <2>1. offset \in 0..(SizeOf(n) - 1) /\ n \in names
    BY <1>1, <1>3
  <2> HIDE DEF n
  <2>2. Write(n, offset, <<v>>) \in Writes(names, Byte)
    BY <2>1 DEF Writes
  <2> QED BY <2>2 DEF n
<1> QED BY <1>4, <1>5, <1>6

(* Every step hands over, delivers, or does neither.                        *)
LEMMA WritesStep ==
  ASSUME SizesFit, WireInv, [Next]_vars, NEW s \in Sides
  PROVE  (meant'[s] = meant[s] /\ got'[s] = got[s]) \/ HandsOver(s) \/ Delivers(s)
<1>1. Typed /\ Lists /\ Phase /\ Room
  BY SizesGive DEF WireInv
<1>2. CASE UNCHANGED vars
  BY <1>2 DEF vars
<1>3. CASE Next /\ (Attaching \/ Greets \/ Answered)
  <2>1. \/ \E n \in Nodes : Attach(n)
        \/ Connect \/ GreetingReceived \/ AcknowledgeReceived
        \/ \E t \in Sides : Arrive(t)
    BY <1>1, <1>3, GreetingStepsOnly
  <2>2. meant' = meant /\ got' = got
    BY <2>1 DEF Attach, Connect, GreetingReceived, AcknowledgeReceived, Arrive
  <2> QED BY <2>2
<1>4. CASE Next /\ Exchanging
  <2>1. PICK q : Running(q)
    BY <1>4 DEF Exchanging, Flowing
  <2>2. PICK t \in Sides : \/ Arrive(t) \/ NothingToDo(t) \/ FilePublished(t) \/ OpenRequested(t)
                           \/ FileWritten(t) \/ WriteLocalFile(t)
    BY <1>4 DEF Exchanging, Next, Handle, Attach, Connect, GreetingReceived, AcknowledgeReceived
  <2>3. CASE Arrive(t) \/ NothingToDo(t) \/ FilePublished(t)
    BY <2>3 DEF Arrive, NothingToDo, FilePublished
  <2>4. meant \in [Sides -> Seq(FileWrites)] /\ got \in [Sides -> Seq(FileWrites)]
    BY <1>1 DEF Typed
  <2>5. CASE OpenRequested(t)
    <3> DEFINE f == q[t][1].file
    <3>1. /\ f \in Range(local[t].files)
          /\ meant' = [meant EXCEPT ![Other(t)] = Append(@, Write(f.name, 0, Contents(f.name)))]
          /\ got' = got
      BY <1>1, <2>1, <2>5, OpenEffect
    <3> HIDE DEF f
    <3>2. Write(f.name, 0, Contents(f.name)) \in Told(Other(t))
      BY <1>1, <3>1, ToldWrites
    <3>3. CASE s = Other(t)
      BY <2>4, <3>1, <3>2, <3>3 DEF HandsOver
    <3>4. CASE s # Other(t)
      BY <2>4, <3>1, <3>4
    <3> QED BY <3>3, <3>4
  <2>6. CASE WriteLocalFile(t)
    <3>1. PICK f \in Range(local[t].files) : \E offset \in 0..(f.size - 1), k \in Nat :
            meant' = [meant EXCEPT ![Other(t)] = Append(@, Write(f.name, offset, <<k % Base>>))]
      BY <1>1, <2>6, LocalWritten
    <3>2. PICK offset \in 0..(f.size - 1), k \in Nat :
            meant' = [meant EXCEPT ![Other(t)] = Append(@, Write(f.name, offset, <<k % Base>>))]
      BY <3>1
    <3>3. k % Base \in Byte
      <4>1. Base \in Nat /\ Base >= 4
        BY RemoteFileAssumption
      <4> QED BY <4>1, DivMod DEF Byte
    <3>4. Write(f.name, offset, <<k % Base>>) \in Told(Other(t))
      BY <1>1, <3>1, <3>3, ToldWrites
    <3>5. got' = got
      BY <2>6 DEF WriteLocalFile
    <3>6. CASE s = Other(t)
      BY <2>4, <3>2, <3>4, <3>5, <3>6 DEF HandsOver
    <3>7. CASE s # Other(t)
      BY <2>4, <3>2, <3>5, <3>7
    <3> QED BY <3>6, <3>7
  <2>7. CASE FileWritten(t)
    <3> DEFINE w == Write(q[t][1].file.name, q[t][1].offset, q[t][1].data)
               v == q[t]
               rest == WritesIn(Tail(v))
               one == <<w>>
    <3>1. /\ w \in FileWrites /\ WritesIn(v) = one \o rest /\ rest \in Seq(FileWrites)
          /\ got' = [got EXCEPT ![t] = @ \o one] /\ meant' = meant
      BY <1>1, <2>1, <2>7, WriteEffect
    <3>2. meant[t] = got[t] \o WritesIn(v)
      BY <2>1 DEF Running, WritesFlow
    <3> HIDE DEF w, v, rest
    <3>3. one \in Seq(FileWrites)
      BY <3>1
    <3> HIDE DEF one
    <3>4. (got[t] \o one) \o rest = meant[t]
      <4> DEFINE g == got[t]
      <4>1. g \in Seq(FileWrites)
        BY <2>4
      <4> HIDE DEF g
      <4>2. (g \o one) \o rest = g \o (one \o rest)
        BY <3>1, <3>3, <4>1, ConcatThree
      <4> QED BY <3>1, <3>2, <4>2 DEF g
    <3>5. CASE s = t
      <4>1. got'[s] = got[s] \o one /\ meant[s] = got'[s] \o rest /\ meant'[s] = meant[s]
        BY <2>4, <3>1, <3>4, <3>5
      <4> QED BY <3>1, <4>1 DEF Delivers, one
    <3>6. CASE s # t
      BY <2>4, <3>1, <3>6
    <3> QED BY <3>5, <3>6
  <2> QED BY <2>2, <2>3, <2>5, <2>6, <2>7
<1> QED BY <1>1, <1>2, <1>3, <1>4 DEF Phase

-----------------------------------------------------------------------------
(* What has been delivered is the beginning of what was written.            *)
LEMMA DeliversBeginning ==
  ASSUME NEW m \in Seq(FileWrites), NEW g \in Seq(FileWrites), NEW w \in FileWrites,
         NEW rest \in Seq(FileWrites), NEW h, h = g \o <<w>>, m = h \o rest
  PROVE  Len(h) \in (Len(g) + 1)..Len(m) /\ h = SubSeq(m, 1, Len(h))
<1> DEFINE one == <<w>>
<1>1. one \in Seq(FileWrites) /\ Len(one) = 1 /\ h = g \o one
  OBVIOUS
<1> HIDE DEF one
<1>2. h \in Seq(FileWrites) /\ Len(h) = Len(g) + 1 /\ Len(g) \in Nat
  BY <1>1, ConcatElements
<1>3. /\ Len(m) = Len(h) + Len(rest) /\ Len(h) \in Nat /\ Len(rest) \in Nat
      /\ \A i \in 1..Len(h) : m[i] = h[i]
  BY <1>2, ConcatElements
<1>4. Len(h) \in (Len(g) + 1)..Len(m)
  BY <1>2, <1>3
<1> DEFINE b == SubSeq(m, 1, Len(h))
<1>5. b \in Seq(FileWrites) /\ Len(b) = Len(h) /\ \A i \in 1..Len(h) : b[i] = m[i]
  BY <1>2, <1>3
<1> HIDE DEF b
<1>6. \A i \in 1..Len(h) : b[i] = h[i]
  BY <1>3, <1>5
<1>7. b = h
  BY <1>2, <1>5, <1>6, SeqEqual
<1> QED BY <1>4, <1>7 DEF b

(* The mark behind the last write is not a write.                           *)
LEMMA NotTheLast ==
  ASSUME NEW m \in Seq(FileWrites)
  PROVE  ~ \E i \in DOMAIN m : m[i] = NoWrite
<1> SUFFICES ASSUME NEW i \in DOMAIN m, m[i] = NoWrite PROVE FALSE
  OBVIOUS
<1>1. m[i] \in FileWrites
  BY Elements
<1>2. m[i].name \in Names
  BY <1>1 DEF FileWrites
<1>3. m[i].name = <<>>
  BY DEF NoWrite, Write
<1>4. \A n \in Names : Len(n) = 2
  BY DEF Names
<1>5. Len(<<>>) = 0
  BY SMT
<1> DEFINE n == m[i].name
<1>6. n \in Names /\ n = <<>>
  BY <1>2, <1>3
<1> HIDE DEF n
<1>7. Len(n) = 2
  BY ONLY <1>4, <1>6
<1>8. Len(n) = 0
  BY ONLY <1>5, <1>6
<1> QED BY <1>7, <1>8

(* Every step is one of the channel to the server, and one of the channel   *)
(* to the client.                                                           *)
LEMMA ServerStep ==
  ASSUME SizesFit, WireInv, [Next]_vars
  PROVE  [ToServer!Next]_<<meant[Server], got[Server]>>
<1> DEFINE s == Server
<1>1. s \in Sides /\ Told(s) = Writes(Nodes \X {ExtDefinition, ExtProvide}, Byte)
  BY TwoSides DEF Told
<1>2. meant[s] \in Seq(FileWrites) /\ got[s] \in Seq(FileWrites)
  BY <1>1 DEF WireInv, Typed
<1>3. (meant'[s] = meant[s] /\ got'[s] = got[s]) \/ HandsOver(s) \/ Delivers(s)
  BY <1>1, WritesStep
<1>4. CASE HandsOver(s)
  BY <1>1, <1>4 DEF HandsOver, ToServer!Next, ToServer!Accept
<1>5. CASE Delivers(s)
  <2>1. PICK w \in FileWrites, rest \in Seq(FileWrites) :
          meant'[s] = meant[s] /\ got'[s] = got[s] \o <<w>> /\ meant[s] = got'[s] \o rest
    BY <1>5 DEF Delivers
  <2>2. Len(got'[s]) \in (Len(got[s]) + 1)..Len(meant[s]) /\ got'[s] = SubSeq(meant[s], 1, Len(got'[s]))
    BY <1>2, <2>1, DeliversBeginning
  <2>3. ToServer!Due = meant[s]
    BY <1>2, NotTheLast DEF ToServer!Due
  <2>4. ToServer!Deliver
    BY <2>1, <2>2, <2>3 DEF ToServer!Deliver
  <2> QED BY <2>4 DEF ToServer!Next
<1> QED BY <1>3, <1>4, <1>5

LEMMA ClientStep ==
  ASSUME SizesFit, WireInv, [Next]_vars
  PROVE  [ToClient!Next]_<<meant[Client], got[Client]>>
<1> DEFINE s == Client
<1>1. s \in Sides /\ Told(s) = Writes(Nodes \X {ExtRequire}, Byte)
  BY TwoSides DEF Told
<1>2. meant[s] \in Seq(FileWrites) /\ got[s] \in Seq(FileWrites)
  BY <1>1 DEF WireInv, Typed
<1>3. (meant'[s] = meant[s] /\ got'[s] = got[s]) \/ HandsOver(s) \/ Delivers(s)
  BY <1>1, WritesStep
<1>4. CASE HandsOver(s)
  BY <1>1, <1>4 DEF HandsOver, ToClient!Next, ToClient!Accept
<1>5. CASE Delivers(s)
  <2>1. PICK w \in FileWrites, rest \in Seq(FileWrites) :
          meant'[s] = meant[s] /\ got'[s] = got[s] \o <<w>> /\ meant[s] = got'[s] \o rest
    BY <1>5 DEF Delivers
  <2>2. Len(got'[s]) \in (Len(got[s]) + 1)..Len(meant[s]) /\ got'[s] = SubSeq(meant[s], 1, Len(got'[s]))
    BY <1>2, <2>1, DeliversBeginning
  <2>3. ToClient!Due = meant[s]
    BY <1>2, NotTheLast DEF ToClient!Due
  <2>4. ToClient!Deliver
    BY <2>1, <2>2, <2>3 DEF ToClient!Deliver
  <2> QED BY <2>4 DEF ToClient!Next
<1> QED BY <1>3, <1>4, <1>5

(* The session implements the two command channels: what the files of a     *)
(* side receive is what the other side wrote, complete, in order and once,  *)
(* although it travels as bytes, in fragments and cut anywhere              *)
(* (file_manager.c:433-454, file_manager_receiver.c:131-234).  The channels *)
(* are those of WritesDelivered without its fairness.                       *)
THEOREM WireImplementsChannels ==
  ASSUME SizesFit
  PROVE  Spec => /\ ToServer!Init /\ [][ToServer!Next]_<<meant[Server], got[Server]>>
                 /\ ToClient!Init /\ [][ToClient!Next]_<<meant[Client], got[Client]>>
<1>1. Init => ToServer!Init /\ ToClient!Init
  BY TwoSides DEF Init, ToServer!Init, ToClient!Init
<1>2. WireInv /\ [Next]_vars => [ToServer!Next]_<<meant[Server], got[Server]>>
  BY ServerStep
<1>3. WireInv /\ [Next]_vars => [ToClient!Next]_<<meant[Client], got[Client]>>
  BY ClientStep
<1>4. Spec => []WireInv
  BY WireInvariant
<1> QED BY <1>1, <1>2, <1>3, <1>4, PTL DEF Spec
=============================================================================
