-------------------------- MODULE FileMap_proofs --------------------------
(****************************************************************************)
(* What the code of both ends of a connection has in common.  What one side *)
(* encodes the other decodes: addresses, lengths and commands of the        *)
(* RemoteFile protocol, for bytes of any number of values that is a         *)
(* multiple of four.  Files stay apart: whatever files are created in       *)
(* whatever order, those that create_file accepts never overlap, and an     *)
(* address that is assigned behind a file of the same type never trips the  *)
(* assertion in insert_item.                                                *)
(****************************************************************************)
EXTENDS FileMap, SequenceLemmas, TLAPS

(* Quotient and remainder.                                                  *)
LEMMA DivMod ==
  ASSUME NEW b \in Nat \ {0}, NEW v \in Nat
  PROVE  /\ v \div b \in Nat /\ v % b \in Nat /\ v % b < b
         /\ v = (v \div b) * b + (v % b)
  BY SMT

LEMMA DivUnique ==
  ASSUME NEW b \in Nat \ {0}, NEW q \in Nat, NEW r \in Nat, r < b
  PROVE  (q * b + r) \div b = q /\ (q * b + r) % b = r
  BY SMT

LEMMA DivLess ==
  ASSUME NEW b \in Nat \ {0}, NEW c \in Nat, NEW v \in Nat, v < b * c
  PROVE  v \div b < c
<1> DEFINE q == v \div b
<1>1. q \in Nat /\ q * b <= v
  BY DivMod, SMT
<1> HIDE DEF q
<1>2. SUFFICES ASSUME c <= q PROVE FALSE
  BY <1>1 DEF q
<1>3. c * b <= q * b
  BY <1>1, <1>2, SMT
<1> QED BY <1>1, <1>3, SMT

LEMMA NestedDiv ==
  ASSUME NEW b \in Nat \ {0}, NEW c \in Nat \ {0}, NEW v \in Nat
  PROVE  (v \div b) \div c = v \div (b * c)
<1> DEFINE q == v \div b
           r == v % b
           p == q \div c
           s == q % c
<1>1. q \in Nat /\ r \in Nat /\ r < b /\ v = q * b + r
  BY DivMod
<1> HIDE DEF q, r
<1>2. p \in Nat /\ s \in Nat /\ s < c /\ q = p * c + s
  BY <1>1, DivMod
<1> HIDE DEF p, s
<1>3. v = p * (b * c) + (s * b + r)
  BY <1>1, <1>2, SMT
<1>4. s * b + r < b * c /\ s * b + r \in Nat
  <2>1. (s + 1) * b <= c * b
    BY <1>2, SMT
  <2>2. (s + 1) * b = s * b + b
    BY <1>2, SMT
  <2> QED BY <1>1, <1>2, <2>1, <2>2, SMT
<1>5. b * c \in Nat \ {0}
  BY SMT
<1>6. v \div (b * c) = p
  BY <1>2, <1>3, <1>4, <1>5, DivUnique
<1> QED BY <1>6 DEF p, q

-----------------------------------------------------------------------------
(* Words and bytes.                                                         *)
K == Base \div 4

LEMMA BaseFacts ==
  /\ Base \in Nat \ {0} /\ K \in Nat \ {0} /\ Base = 4 * K
  /\ Word16 \in Nat \ {0} /\ Word32 \in Nat \ {0}
<1>1. Base \in Nat \ {0} /\ K \in Nat \ {0} /\ Base = 4 * K
  BY RemoteFileAssumption, SMT DEF K
<1>2. Word16 \in Nat \ {0}
  BY <1>1, SMT DEF Word16
<1>3. Word32 \in Nat \ {0}
  BY <1>2, SMT DEF Word32
<1> QED BY <1>1, <1>2, <1>3

LEMMA Fractions ==
  /\ K * Base \in Nat \ {0} /\ Word16 = 4 * (K * Base) /\ Word16 \div 4 = K * Base
  /\ K * (Base * Word16) \in Nat \ {0}
  /\ Word32 = 4 * (K * (Base * Word16)) /\ Word32 \div 4 = K * (Base * Word16)
  /\ Word32 \div 2 = 2 * (K * (Base * Word16)) /\ Base \div 2 = 2 * K
<1>1. K * Base \in Nat \ {0}
  BY BaseFacts, SMT
<1>2. Word16 = 4 * (K * Base)
  BY BaseFacts, SMT DEF Word16
<1> DEFINE n == K * (Base * Word16)
<1>3. n = (K * Base) * Word16
  BY BaseFacts, SMT
<1>4. n \in Nat \ {0}
  BY <1>1, <1>3, BaseFacts, SMT
<1>5. Word32 = 4 * n
  BY <1>1, <1>2, <1>3, BaseFacts, SMT DEF Word32
<1> HIDE DEF n
<1>6. Word32 \div 4 = n /\ Word32 \div 2 = 2 * n
  BY <1>4, <1>5, SMT
<1>7. (4 * (K * Base)) \div 4 = K * Base /\ Base \div 2 = 2 * K
  BY <1>1, BaseFacts, SMT
<1> QED BY <1>1, <1>2, <1>4, <1>5, <1>6, <1>7 DEF n

LEMMA TwoBytes ==
  ASSUME NEW v \in Nat, v < Word16
  PROVE  /\ BE16(v) = <<v \div Base, v % Base>>
         /\ v \div Base \in Byte /\ v % Base \in Byte
         /\ (v \div Base) * Base + (v % Base) = v
<1>1. v \div Base < Base
  BY BaseFacts, DivLess DEF Word16
<1>2. v \div Base \in Nat /\ v % Base \in Nat /\ v % Base < Base
      /\ (v \div Base) * Base + (v % Base) = v
  BY BaseFacts, DivMod
<1>3. \A n \in Nat : n < Base => n \in Byte
  BY BaseFacts, SMT DEF Byte
<1>4. BE16(v) = <<v \div Base, v % Base>>
  BY DEF BE16
<1> QED BY <1>1, <1>2, <1>3, <1>4

LEMMA Concatenated ==
  ASSUME NEW S, NEW a \in S, NEW b \in S, NEW c \in S, NEW d \in S
  PROVE  LET q == <<a, b>> \o <<c, d>>
         IN q \in Seq(S) /\ Len(q) = 4 /\ q[1] = a /\ q[2] = b /\ q[3] = c /\ q[4] = d
<1> DEFINE s1 == <<a, b>>
           s2 == <<c, d>>
<1>1. /\ s1 \in Seq(S) /\ Len(s1) = 2 /\ s1[1] = a /\ s1[2] = b
      /\ s2 \in Seq(S) /\ Len(s2) = 2 /\ s2[1] = c /\ s2[2] = d
  BY SMT
<1> HIDE DEF s1, s2
<1>2. s1 \o s2 \in Seq(S) /\ Len(s1 \o s2) = Len(s1) + Len(s2)
      /\ \A i \in 1..(Len(s1) + Len(s2)) :
           (s1 \o s2)[i] = IF i <= Len(s1) THEN s1[i] ELSE s2[i - Len(s1)]
  BY <1>1, ConcatProperties
<1>3. Len(s1 \o s2) = 4 /\ (s1 \o s2)[1] = a /\ (s1 \o s2)[2] = b
      /\ (s1 \o s2)[3] = c /\ (s1 \o s2)[4] = d
  BY <1>1, <1>2, SMT
<1> QED BY <1>2, <1>3 DEF s1, s2

LEMMA FourBytes ==
  ASSUME NEW v \in Nat, v < Word32
  PROVE  /\ BE32(v) \in Seq(Byte) /\ Len(BE32(v)) = 4
         /\ BE32(v)[1] = v \div (Base * Word16)
         /\ FromBE32(BE32(v)) = v
<1> DEFINE h == v \div Word16
           l == v % Word16
<1>1. h \in Nat /\ h < Word16 /\ l \in Nat /\ l < Word16 /\ h * Word16 + l = v
  BY BaseFacts, DivMod, DivLess DEF Word32
<1>2. h \div Base = v \div (Base * Word16)
  <2>1. h \div Base = v \div (Word16 * Base)
    BY BaseFacts, NestedDiv
  <2>2. Word16 * Base = Base * Word16
    BY BaseFacts, SMT
  <2> QED BY <2>1, <2>2
<1>3. BE32(v) = BE16(h) \o BE16(l)
  BY DEF BE32
<1> HIDE DEF h, l
<1>4. /\ BE32(v) \in Seq(Byte) /\ Len(BE32(v)) = 4
      /\ BE32(v)[1] = h \div Base /\ BE32(v)[2] = h % Base
      /\ BE32(v)[3] = l \div Base /\ BE32(v)[4] = l % Base
  <2>1. BE16(h) = <<h \div Base, h % Base>> /\ h \div Base \in Byte /\ h % Base \in Byte
    BY <1>1, TwoBytes
  <2>2. BE16(l) = <<l \div Base, l % Base>> /\ l \div Base \in Byte /\ l % Base \in Byte
    BY <1>1, TwoBytes
  <2> QED BY <1>3, <2>1, <2>2, Concatenated
<1>5. FromBE32(BE32(v)) =
        ((h \div Base) * Base + (h % Base)) * Word16 + ((l \div Base) * Base + (l % Base))
  <2>1. FromBE16(BE32(v)) = (h \div Base) * Base + (h % Base)
    BY <1>4 DEF FromBE16
  <2>2. FromBE16(<<BE32(v)[3], BE32(v)[4]>>) = (l \div Base) * Base + (l % Base)
    BY <1>4 DEF FromBE16
  <2> QED BY <2>1, <2>2 DEF FromBE32
<1>6. FromBE32(BE32(v)) = v
  BY <1>1, <1>5, TwoBytes
<1> QED BY <1>1, <1>2, <1>4, <1>6, TwoBytes

(* The first bytes of a sequence do not depend on what follows.             *)
LEMMA Prefix ==
  ASSUME NEW w \in Seq(Byte), NEW rest \in Seq(Byte)
  PROVE  /\ Len(w \o rest) = Len(w) + Len(rest) /\ Len(w) \in Nat /\ Len(rest) \in Nat
         /\ Len(w) >= 1 => (w \o rest)[1] = w[1] /\ w \o rest # <<>>
         /\ Len(w) = 2 => FromBE16(w \o rest) = FromBE16(w)
         /\ Len(w) = 4 => FromBE32(w \o rest) = FromBE32(w)
<1> DEFINE b == w \o rest
<1>1. /\ b \in Seq(Byte) /\ Len(b) = Len(w) + Len(rest) /\ Len(w) \in Nat /\ Len(rest) \in Nat
      /\ \A i \in 1..(Len(w) + Len(rest)) : b[i] = IF i <= Len(w) THEN w[i] ELSE rest[i - Len(w)]
  BY ConcatProperties, LenProperties
<1> HIDE DEF b
<1>2. Len(w) >= 1 => b[1] = w[1] /\ b # <<>>
  BY <1>1, EmptySeq, SMT
<1>3. Len(w) = 2 => b[1] = w[1] /\ b[2] = w[2]
  BY <1>1, SMT
<1>4. Len(w) = 4 => b[1] = w[1] /\ b[2] = w[2] /\ b[3] = w[3] /\ b[4] = w[4]
  BY <1>1, SMT
<1>5. Len(w) = 2 => FromBE16(b) = FromBE16(w)
  BY <1>3 DEF FromBE16
<1>6. Len(w) = 4 => FromBE32(b) = FromBE32(w)
  BY <1>4 DEF FromBE32, FromBE16
<1> QED BY <1>1, <1>2, <1>5, <1>6 DEF b

(* The highest bits of a word are in its first byte.                        *)
LEMMA HighBits ==
  ASSUME NEW unit \in Nat \ {0}, NEW q \in Nat, NEW a \in Nat, a < K * unit
  PROVE  /\ q * (K * unit) + a \in Nat
         /\ ((q * (K * unit) + a) \div unit) \div K = q
         /\ (q * (K * unit) + a) \div unit \in Nat
<1> DEFINE v == q * (K * unit) + a
<1>1. K * unit \in Nat \ {0} /\ unit * K = K * unit
  BY BaseFacts, SMT
<1>2. v \in Nat /\ v \div (K * unit) = q
  <2> DEFINE b == K * unit
  <2>1. b \in Nat \ {0} /\ a < b
    BY <1>1
  <2> HIDE DEF b
  <2>2. (q * b + a) \div b = q
    BY ONLY <2>1, q \in Nat, a \in Nat, DivUnique, SMTT(30)
  <2>3. q * b + a \in Nat
    BY ONLY <2>1, q \in Nat, a \in Nat, SMTT(30)
  <2> QED BY <2>2, <2>3 DEF b
<1> HIDE DEF v
<1>3. (v \div unit) \div K = q
  BY <1>1, <1>2, BaseFacts, NestedDiv
<1> QED BY <1>2, <1>3, DivMod DEF v

(* A byte is below twice K exactly if its quotient by K is 0 or 1.          *)
LEMMA HighBitOfByte ==
  ASSUME NEW b \in Nat
  PROVE  b < Base \div 2 <=> b \div K < 2
<1>1. b = (b \div K) * K + (b % K) /\ b \div K \in Nat /\ b % K \in Nat /\ b % K < K
  BY BaseFacts, DivMod
<1> DEFINE q == b \div K
           r == b % K
<1> HIDE DEF q, r
<1>2. b = q * K + r /\ q \in Nat /\ r \in Nat /\ r < K
  BY <1>1 DEF q, r
<1>3. ASSUME q < 2 PROVE b < 2 * K
  <2>1. q = 0 \/ q = 1
    BY <1>2, <1>3, SMT
  <2> QED BY <1>2, <2>1, BaseFacts, SMT
<1>4. ASSUME q >= 2 PROVE b >= 2 * K
  <2>1. q * K >= 2 * K
    BY <1>2, <1>4, BaseFacts, SMT
  <2> QED BY <1>2, <2>1, BaseFacts, SMT
<1> QED BY <1>2, <1>3, <1>4, Fractions, BaseFacts, SMT DEF q

(* The largest addresses are numbers.                                       *)
LEMMA Limits == LOW_ADDR_MAX \in Int /\ HIGH_ADDR_MAX \in Int
<1>1. \A n \in Nat : n - 1 \in Int
  BY SMT
<1>2. Word16 \div 4 \in Nat /\ Word32 \div 4 \in Nat
  BY Fractions
<1> QED BY <1>1, <1>2 DEF LOW_ADDR_MAX, HIGH_ADDR_MAX

(* A word of two bytes whose highest two bits are q, and one of four.       *)
LEMMA LowWord ==
  ASSUME NEW q \in {0, 1}, NEW a \in Nat, a <= LOW_ADDR_MAX
  PROVE  LET v == q * (K * Base) + a
         IN /\ v \in Nat /\ v < Word16 /\ v % (LOW_ADDR_MAX + 1) = a
            /\ BE16(v) \in Seq(Byte) /\ Len(BE16(v)) = 2 /\ FromBE16(BE16(v)) = v
            /\ BE16(v)[1] \in Nat /\ BE16(v)[1] \div K = q
<1> DEFINE n == K * Base
           v == q * n + a
<1>1. n \in Nat \ {0} /\ Word16 = 4 * n /\ LOW_ADDR_MAX + 1 = n /\ a < n
  BY Fractions, SMT DEF LOW_ADDR_MAX
<1>2. v \in Nat /\ (v \div Base) \div K = q /\ v \div Base \in Nat
  <2>1. q \in Nat /\ Base \in Nat \ {0}
    BY BaseFacts, SMT
  <2>2. a < K * Base
    BY <1>1
  <2> QED BY <2>1, <2>2, HighBits, Zenon
<1> HIDE DEF n
<1>3. v < Word16
  BY <1>1, SMT
<1>4. v % n = a
  BY <1>1, DivUnique
<1> HIDE DEF v
<1>5. BE16(v) = <<v \div Base, v % Base>> /\ v \div Base \in Byte /\ v % Base \in Byte
      /\ (v \div Base) * Base + (v % Base) = v
  BY <1>2, <1>3, TwoBytes
<1>6. BE16(v) \in Seq(Byte) /\ Len(BE16(v)) = 2 /\ BE16(v)[1] = v \div Base
      /\ FromBE16(BE16(v)) = v
  BY <1>5 DEF FromBE16
<1> QED BY <1>1, <1>2, <1>3, <1>4, <1>6 DEF v, n

LEMMA HighWord ==
  ASSUME NEW q \in {2, 3}, NEW a \in Nat, a <= HIGH_ADDR_MAX
  PROVE  LET v == q * (K * (Base * Word16)) + a
         IN /\ v \in Nat /\ v < Word32 /\ v % (HIGH_ADDR_MAX + 1) = a
            /\ BE32(v) \in Seq(Byte) /\ Len(BE32(v)) = 4 /\ FromBE32(BE32(v)) = v
            /\ BE32(v)[1] \in Nat /\ BE32(v)[1] \div K = q
<1> DEFINE u == Base * Word16
           n == K * u
           v == q * n + a
<1>1. n \in Nat \ {0} /\ Word32 = 4 * n /\ HIGH_ADDR_MAX + 1 = n /\ a < n
  BY Fractions, SMT DEF HIGH_ADDR_MAX
<1>2. u \in Nat \ {0}
  BY BaseFacts, SMT
<1>3. v \in Nat /\ (v \div u) \div K = q /\ v \div u \in Nat
  <2>1. q \in Nat
    BY SMT
  <2>2. a < K * u
    BY <1>1
  <2> HIDE DEF u
  <2> QED BY <1>2, <2>1, <2>2, HighBits, Zenon
<1> HIDE DEF n
<1>4. v < Word32
  BY <1>1, SMT
<1>5. v % n = a
  BY <1>1, DivUnique
<1> HIDE DEF v
<1>6. BE32(v) \in Seq(Byte) /\ Len(BE32(v)) = 4 /\ BE32(v)[1] = v \div u
      /\ FromBE32(BE32(v)) = v
  BY <1>3, <1>4, FourBytes
<1> QED BY <1>1, <1>3, <1>4, <1>5, <1>6 DEF v, n, u

(* An address and its more bit are read back as they were written,          *)
(* whatever follows them in the message: rmf_address_decode undoes          *)
(* rmf_address_encode (remotefile.c:65-126) on both sides of the boundary   *)
(* between the two forms.                                                   *)
THEOREM AddressRoundTrip ==
  ASSUME NEW address \in Nat, address <= HIGH_ADDR_MAX, NEW more \in BOOLEAN,
         NEW data \in Seq(Byte)
  PROVE  rmf_address_decode(rmf_address_encode(address, more) \o data) =
           [size |-> rmf_needed_encoding_size(address), more |-> more, address |-> address]
<1> DEFINE w == rmf_address_encode(address, more)
           b == w \o data
<1>1. K = Base \div 4
  BY DEF K
<1>2. CASE address <= LOW_ADDR_MAX
  <2> DEFINE q == IF more THEN 1 ELSE 0
             v == q * (K * Base) + address
  <2>1. q \in {0, 1} /\ (q % 2 = 1 <=> more) /\ q < 2
    BY SMT
  <2>2. v = (IF more THEN MORE_BIT_LOW ELSE 0) + address
    BY Fractions, SMT DEF MORE_BIT_LOW
  <2>3. w = BE16(v)
    <3>1. ~(address > HIGH_ADDR_MAX)
      BY Limits, SMT
    <3> QED BY <1>2, <2>2, <3>1 DEF rmf_address_encode, rmf_needed_encoding_size
  <2> HIDE DEF q
  <2>4. /\ v % (LOW_ADDR_MAX + 1) = address
        /\ w \in Seq(Byte) /\ Len(w) = 2 /\ FromBE16(w) = v
        /\ w[1] \in Nat /\ w[1] \div K = q
    BY <1>2, <2>1, <2>3, LowWord
  <2> HIDE DEF w, v
  <2>5. b # <<>> /\ Len(b) >= 2 /\ b[1] = w[1] /\ FromBE16(b) = v
    <3>1. /\ Len(b) = Len(w) + Len(data) /\ Len(data) \in Nat
          /\ Len(w) >= 1 => b[1] = w[1] /\ b # <<>>
          /\ Len(w) = 2 => FromBE16(b) = FromBE16(w)
      BY <2>4, Prefix, Zenon
    <3> HIDE DEF b
    <3> QED BY <2>4, <3>1, SMT
  <2>6. b[1] < Base \div 2
    BY <2>1, <2>4, <2>5, HighBitOfByte
  <2>7. b[1] \in Nat /\ Base \div 2 \in Nat
    BY <2>4, <2>5, Fractions, BaseFacts, SMT
  <2>8. ~(b[1] >= Base \div 2) /\ ~(Len(b) < 2)
    BY <2>4, <2>5, <2>6, <2>7, Prefix, SMT
  <2>9. (b[1] \div (Base \div 4)) % 2 = 1 <=> more
    BY <1>1, <2>1, <2>4, <2>5
  <2> HIDE DEF b
  <2>10. rmf_address_decode(b) = [size |-> 2, more |-> more, address |-> address]
    BY <2>4, <2>5, <2>8, <2>9 DEF rmf_address_decode
  <2> QED BY <1>2, <2>10 DEF b, w, rmf_needed_encoding_size
<1>3. CASE ~(address <= LOW_ADDR_MAX)
  <2> DEFINE q == IF more THEN 3 ELSE 2
             v == q * (K * (Base * Word16)) + address
  <2>1. q \in {2, 3} /\ (q % 2 = 1 <=> more) /\ ~(q < 2)
    BY SMT
  <2>2. v = HIGH_ADDR_BIT + (IF more THEN MORE_BIT_HIGH ELSE 0) + address
    BY Fractions, SMT DEF MORE_BIT_HIGH, HIGH_ADDR_BIT
  <2>3. ~(address > HIGH_ADDR_MAX)
    BY Limits, SMT
  <2>4. w = BE32(v)
    BY <1>3, <2>2, <2>3 DEF rmf_address_encode, rmf_needed_encoding_size
  <2> HIDE DEF q
  <2>5. /\ v % (HIGH_ADDR_MAX + 1) = address
        /\ w \in Seq(Byte) /\ Len(w) = 4 /\ FromBE32(w) = v
        /\ w[1] \in Nat /\ w[1] \div K = q
    BY <2>1, <2>4, HighWord
  <2> HIDE DEF w, v
  <2>6. b # <<>> /\ Len(b) >= 4 /\ b[1] = w[1] /\ FromBE32(b) = v
    <3>1. /\ Len(b) = Len(w) + Len(data) /\ Len(data) \in Nat
          /\ Len(w) >= 1 => b[1] = w[1] /\ b # <<>>
          /\ Len(w) = 4 => FromBE32(b) = FromBE32(w)
      BY <2>5, Prefix, Zenon
    <3> HIDE DEF b
    <3> QED BY <2>5, <3>1, SMT
  <2>7. ~(b[1] < Base \div 2)
    BY <2>1, <2>5, <2>6, HighBitOfByte
  <2>8. b[1] \in Nat /\ Base \div 2 \in Nat
    BY <2>5, <2>6, Fractions, BaseFacts, SMT
  <2>9. b[1] >= Base \div 2 /\ ~(Len(b) < 4)
    BY <2>5, <2>6, <2>7, <2>8, Prefix, SMT
  <2>10. (b[1] \div (Base \div 4)) % 2 = 1 <=> more
    BY <1>1, <2>1, <2>5, <2>6
  <2> HIDE DEF b
  <2>11. rmf_address_decode(b) = [size |-> 4, more |-> more, address |-> address]
    BY <2>5, <2>6, <2>9, <2>10 DEF rmf_address_decode
  <2> QED BY <1>3, <2>11 DEF b, w, rmf_needed_encoding_size
<1> QED BY <1>2, <1>3
-----------------------------------------------------------------------------
(* A quotient is as large as a multiple of the divisor allows.              *)
LEMMA DivAtLeast ==
  ASSUME NEW u \in Nat \ {0}, NEW c \in Nat, NEW v \in Nat, c * u <= v
  PROVE  c <= v \div u
<1> DEFINE q == v \div u
           r == v % u
<1>1. q \in Nat /\ r \in Nat /\ r < u /\ v = q * u + r
  BY DivMod
<1> HIDE DEF q, r
<1>2. SUFFICES ASSUME q + 1 <= c PROVE FALSE
  BY <1>1, SMT DEF q
<1>3. (q + 1) * u <= c * u
  BY <1>1, <1>2, SMT
<1>4. (q + 1) * u = q * u + u
  BY <1>1, SMT
<1> QED BY <1>1, <1>3, <1>4, SMT

(* A length is read back as it was written, whatever follows it:            *)
(* numheader_decode32 undoes numheader_encode32 (numheader.c:81-151) for    *)
(* the short and the long form, also for the lengths next to the boundary,  *)
(* whose lowest byte looks like a short length.                             *)
THEOREM LengthRoundTrip ==
  ASSUME NEW n \in Nat, n <= NUM_LONG_MAX, NEW data \in Seq(Byte)
  PROVE  numheader_decode32(numheader_encode32(n) \o data) =
           [size |-> IF n <= NUM_SHORT_MAX THEN 1 ELSE 4, value |-> n]
<1> DEFINE w == numheader_encode32(n)
           b == w \o data
           u == Base * Word16
<1>1. /\ u \in Nat \ {0} /\ Base \div 2 = 2 * K /\ K \in Nat \ {0} /\ Base = 4 * K
      /\ K * u \in Nat \ {0} /\ Word32 = 4 * (K * u) /\ HIGH_ADDR_BIT = 2 * (K * u)
      /\ NUM_LONG_MAX = 2 * (K * u) - 1 /\ NUM_SHORT_MAX = 2 * K - 1
  <2>1. u \in Nat \ {0}
    BY BaseFacts, SMT
  <2> QED BY <2>1, BaseFacts, Fractions DEF HIGH_ADDR_BIT, NUM_LONG_MAX, NUM_SHORT_MAX
<1>2. n < 2 * (K * u) /\ ~(n > NUM_LONG_MAX)
  <2> HIDE DEF u
  <2> DEFINE m == K * u
  <2>1. m \in Nat /\ n <= 2 * m - 1 /\ NUM_LONG_MAX = 2 * m - 1
    BY <1>1
  <2> HIDE DEF m
  <2>2. n < 2 * m /\ ~(n > NUM_LONG_MAX)
    BY <2>1, SMT
  <2> QED BY <2>2 DEF m
<1>3. CASE n <= NUM_SHORT_MAX
  <2>1. w = <<n>> /\ n \in Byte /\ n < Base \div 2
    BY <1>1, <1>2, <1>3, SMT DEF numheader_encode32, Byte
  <2>2. w \in Seq(Byte) /\ Len(w) = 1 /\ w[1] = n
    BY <2>1
  <2> HIDE DEF w
  <2>3. b[1] = n
    BY <2>2, Prefix
  <2> HIDE DEF b
  <2>4. numheader_decode32(b) = [size |-> 1, value |-> n]
    BY <2>1, <2>3 DEF numheader_decode32
  <2> QED BY <1>3, <2>4 DEF b, w
<1>4. CASE ~(n <= NUM_SHORT_MAX)
  <2> DEFINE v == HIGH_ADDR_BIT + n
  <2>1. w = BE32(v)
    BY <1>2, <1>4 DEF numheader_encode32
  <2>2. v \in Nat /\ v < Word32 /\ (2 * K) * u <= v /\ v - HIGH_ADDR_BIT = n
    <3> DEFINE m == K * u
    <3>1. (2 * K) * u = 2 * m
      <4> HIDE DEF u
      <4> QED BY <1>1, SMT
    <3>2. m \in Nat /\ n < 2 * m /\ Word32 = 4 * m /\ HIGH_ADDR_BIT = 2 * m
      BY <1>1, <1>2
    <3> HIDE DEF m, u
    <3> QED BY <3>1, <3>2, SMT
  <2> HIDE DEF v
  <2>3. w \in Seq(Byte) /\ Len(w) = 4 /\ w[1] = v \div u /\ FromBE32(w) = v
    BY <2>1, <2>2, FourBytes
  <2>4. 2 * K <= v \div u /\ v \div u \in Nat
    <3>1. 2 * K \in Nat
      BY <1>1, SMT
    <3> HIDE DEF u
    <3> QED BY <1>1, <2>2, <3>1, DivAtLeast, DivMod
  <2> HIDE DEF w, u
  <2>5. b[1] = v \div u /\ FromBE32(b) = v /\ Len(b) = 4 + Len(data) /\ Len(data) \in Nat
    <3>1. /\ Len(b) = Len(w) + Len(data) /\ Len(data) \in Nat
          /\ Len(w) >= 1 => b[1] = w[1] /\ b # <<>>
          /\ Len(w) = 4 => FromBE32(b) = FromBE32(w)
      BY <2>3, Prefix, Zenon
    <3> HIDE DEF b
    <3> QED BY <2>3, <3>1, SMT
  <2> HIDE DEF b
  <2>6. ~(b[1] < Base \div 2) /\ Len(b) >= 4
    BY <1>1, <2>4, <2>5, SMT
  <2>7. numheader_decode32(b) = [size |-> 4, value |-> n]
    BY <2>2, <2>5, <2>6 DEF numheader_decode32
  <2> QED BY <1>4, <2>7 DEF b, w
<1> QED BY <1>3, <1>4

-----------------------------------------------------------------------------
(* The beginnings of a flattened sequence: f[i] are the first i parts.      *)
IsFlattening(f, s) ==
  f = [i \in 1..Len(s) |-> IF i = 1 THEN s[i] ELSE f[i - 1] \o s[i]]

(* There is such a function, whatever the length: it is extended by one     *)
(* part until a least length without one cannot be found.                   *)
LEMMA FlatteningExists ==
  ASSUME NEW S, NEW s \in Seq(Seq(S))
  PROVE  \E f \in [1..Len(s) -> Seq(S)] : IsFlattening(f, s)
<1> DEFINE n == Len(s)
           Is(f, k) == /\ f \in [1..k -> Seq(S)]
                       /\ \A i \in 1..k : f[i] = IF i = 1 THEN s[i] ELSE f[i - 1] \o s[i]
           Bad == {k \in 0..n : ~\E f : Is(f, k)}
<1>1. n \in Nat /\ \A i \in 1..n : s[i] \in Seq(S)
  BY LenProperties
<1> HIDE DEF n
<1>2. Bad = {}
  <2> SUFFICES ASSUME Bad # {} PROVE FALSE
    OBVIOUS
  <2>1. PICK k \in Bad : \A j \in Bad : ~(j < k)
    <3>1. Bad \subseteq Nat
      BY <1>1, SMT
    <3> HIDE DEF Bad
    <3> QED BY <3>1, LeastExists
  <2>2. k \in 0..n /\ ~\E f : Is(f, k)
    OBVIOUS
  <2>3. k # 0
    <3> SUFFICES ASSUME k = 0 PROVE FALSE
      OBVIOUS
    <3> DEFINE f == [i \in 1..0 |-> s[i]]
    <3>1. Is(f, 0)
      OBVIOUS
    <3> HIDE DEF f, Is
    <3> QED BY <2>2, <3>1
  <2>4. k - 1 \in 0..n /\ k - 1 < k /\ k \in 1..n /\ k \in Nat
    BY <1>1, <2>2, <2>3, SMT
  <2>5. PICK f : Is(f, k - 1)
    <3>1. k - 1 \notin Bad
      <4> HIDE DEF Bad
      <4> QED BY <2>1, <2>4
    <3> QED BY <2>4, <3>1
  <2> DEFINE g == [i \in 1..k |-> IF i < k THEN f[i] ELSE IF k = 1 THEN s[k] ELSE f[k - 1] \o s[k]]
  <2>6. k # 1 => k - 1 \in 1..(k - 1) /\ f[k - 1] \in Seq(S)
    BY <2>4, <2>5, SMT
  <2>7. s[k] \in Seq(S) /\ (k # 1 => f[k - 1] \o s[k] \in Seq(S))
    BY <1>1, <2>4, <2>6, ConcatProperties
  <2>8. \A i \in 1..k : i # k => i \in 1..(k - 1) /\ i < k /\ i \in Nat
    BY <2>4, SMT
  <2>9. g \in [1..k -> Seq(S)]
    BY <2>4, <2>5, <2>7, <2>8
  <2>10. ASSUME NEW i \in 1..k
         PROVE  g[i] = IF i = 1 THEN s[i] ELSE g[i - 1] \o s[i]
    <3>1. i # 1 => i - 1 \in 1..k /\ i - 1 < k
      BY <2>4, SMT
    <3>2. CASE i = k
      <4>1. g[k] = IF k = 1 THEN s[k] ELSE f[k - 1] \o s[k]
        BY <2>4, SMT
      <4>2. k # 1 => g[k - 1] = f[k - 1]
        BY <3>1, <3>2
      <4> HIDE DEF g
      <4> QED BY <3>2, <4>1, <4>2
    <3>3. CASE i # k
      <4>1. g[i] = f[i] /\ (i # 1 => g[i - 1] = f[i - 1])
        BY <2>8, <3>1, <3>3
      <4>2. f[i] = IF i = 1 THEN s[i] ELSE f[i - 1] \o s[i]
        BY <2>5, <2>8, <3>3
      <4> HIDE DEF g
      <4> QED BY <4>1, <4>2
    <3> QED BY <3>2, <3>3
  <2>11. Is(g, k)
    <3> HIDE DEF g
    <3> QED BY <2>9, <2>10
  <2> HIDE DEF g, Is
  <2> QED BY <2>2, <2>11
<1>3. n \in 0..n
  BY <1>1, SMT
<1>4. PICK f : Is(f, n)
  BY <1>2, <1>3
<1>5. f = [i \in 1..n |-> f[i]] /\ f \in [1..n -> Seq(S)]
  BY <1>4
<1>6. \A i \in 1..n : f[i] = IF i = 1 THEN s[i] ELSE f[i - 1] \o s[i]
  BY <1>4
<1>7. f = [i \in 1..n |-> IF i = 1 THEN s[i] ELSE f[i - 1] \o s[i]]
  BY <1>5, <1>6, Zenon
<1> QED BY <1>5, <1>7 DEF IsFlattening, n

(* Parts are put behind each other one at a time.                           *)
LEMMA FlattenedBy ==
  ASSUME NEW S, NEW s \in Seq(Seq(S)), s # <<>>
  PROVE  \E f \in [1..Len(s) -> Seq(S)] :
           /\ f[1] = s[1]
           /\ \A i \in 1..Len(s) : i # 1 => f[i] = f[i - 1] \o s[i]
           /\ FlattenSeq(s) = f[Len(s)]
<1> DEFINE n == Len(s)
           flatten == CHOOSE f : IsFlattening(f, s)
<1>1. n \in Nat /\ n # 0 /\ 1 \in 1..n /\ n \in 1..n
  BY LenProperties, EmptySeq, SMT
<1>2. FlattenSeq(s) = flatten[n]
  BY <1>1 DEF FlattenSeq, IsFlattening
<1>3. PICK f \in [1..Len(s) -> Seq(S)] : IsFlattening(f, s)
  BY FlatteningExists
<1>4. IsFlattening(flatten, s)
  BY <1>3
<1> HIDE DEF flatten, n
<1> DEFINE P(k) == flatten[k] \in Seq(S)
           Bad == {k \in 1..n : ~P(k)}
<1>5. \A i \in 1..n : flatten[i] = IF i = 1 THEN s[i] ELSE flatten[i - 1] \o s[i]
  BY <1>4 DEF IsFlattening, n
<1>6. \A i \in 1..n : s[i] \in Seq(S)
  BY LenProperties DEF n
<1>7. Bad = {}
  <2> SUFFICES ASSUME Bad # {} PROVE FALSE
    OBVIOUS
  <2>1. PICK k \in Bad : \A j \in Bad : ~(j < k)
    <3>1. Bad \subseteq Nat
      BY <1>1, SMT
    <3> HIDE DEF Bad
    <3> QED BY <3>1, LeastExists
  <2>2. k \in 1..n /\ flatten[k] \notin Seq(S)
    OBVIOUS
  <2>3. k # 1
    BY <1>5, <1>6, <2>2
  <2>4. k - 1 \in 1..n /\ k - 1 < k
    BY <1>1, <2>2, <2>3, SMT
  <2>5. flatten[k - 1] \in Seq(S)
    BY <2>1, <2>4
  <2>6. flatten[k] = flatten[k - 1] \o s[k] /\ s[k] \in Seq(S)
    BY <1>5, <1>6, <2>2, <2>3
  <2>7. flatten[k] \in Seq(S)
    BY <2>5, <2>6, ConcatProperties
  <2> QED BY <2>2, <2>7
<1>8. flatten \in [1..n -> Seq(S)]
  <2>1. flatten = [i \in 1..n |-> IF i = 1 THEN s[i] ELSE flatten[i - 1] \o s[i]]
    BY <1>4 DEF IsFlattening, n
  <2>2. \A k \in 1..n : flatten[k] \in Seq(S)
    BY <1>7
  <2>3. flatten = [k \in 1..n |-> flatten[k]]
    BY <2>1, <1>5
  <2> QED BY <2>2, <2>3
<1> QED BY <1>1, <1>2, <1>5, <1>8 DEF n

-----------------------------------------------------------------------------
(* How three sequences are put behind each other does not matter.           *)
LEMMA Associative ==
  ASSUME NEW S
  PROVE  \A x, y, z \in Seq(S) : (x \o y) \o z = x \o (y \o z)
  BY ConcatAssociative

(* No parts, one part, and what the parts have for elements.                *)
LEMMA FlattenEmpty == FlattenSeq(<<>>) = <<>>
  BY DEF FlattenSeq

LEMMA FlattenType ==
  ASSUME NEW S, NEW s \in Seq(Seq(S))
  PROVE  FlattenSeq(s) \in Seq(S)
<1>1. CASE s = <<>>
  BY <1>1, FlattenEmpty, EmptySeq
<1>2. CASE s # <<>>
  <2>1. Len(s) \in 1..Len(s)
    BY <1>2, EmptySeq, SMT
  <2>2. PICK f \in [1..Len(s) -> Seq(S)] : FlattenSeq(s) = f[Len(s)]
    BY <1>2, FlattenedBy
  <2>3. f[Len(s)] \in Seq(S)
    BY <2>1
  <2> QED BY <2>2, <2>3
<1> QED BY <1>1, <1>2

LEMMA FlattenOne ==
  ASSUME NEW S, NEW x \in Seq(S)
  PROVE  FlattenSeq(<<x>>) = x
<1> DEFINE s == <<x>>
<1>1. s \in Seq(Seq(S)) /\ s # <<>> /\ Len(s) = 1 /\ s[1] = x
  OBVIOUS
<1> HIDE DEF s
<1>2. FlattenSeq(s) = x
  BY <1>1, FlattenedBy
<1> QED BY <1>2 DEF s

(* Flattening two lists of parts, one behind the other.                     *)
LEMMA FlattenConcat ==
  ASSUME NEW S, NEW a \in Seq(Seq(S)), NEW b \in Seq(Seq(S))
  PROVE  FlattenSeq(a \o b) = FlattenSeq(a) \o FlattenSeq(b)
<1> DEFINE m == Len(a)
           n == Len(b)
           c == a \o b
<1>1. /\ m \in Nat /\ n \in Nat /\ c \in Seq(Seq(S)) /\ Len(c) = m + n
      /\ \A i \in 1..(m + n) : c[i] = IF i <= m THEN a[i] ELSE b[i - m]
  BY LenProperties, ConcatProperties
<1>2. CASE a = <<>>
  <2>1. a \o b = b /\ FlattenSeq(a) = <<>> /\ FlattenSeq(b) \in Seq(S)
    BY <1>2, FlattenEmpty, FlattenType, ConcatEmptySeq
  <2> QED BY <2>1, ConcatEmptySeq
<1>3. CASE b = <<>>
  <2>1. a \o b = a /\ FlattenSeq(b) = <<>> /\ FlattenSeq(a) \in Seq(S)
    BY <1>3, FlattenEmpty, FlattenType, ConcatEmptySeq
  <2> QED BY <2>1, ConcatEmptySeq
<1>4. CASE a # <<>> /\ b # <<>>
  <2>1. m > 0 /\ n > 0 /\ c # <<>>
    <3>1. m > 0 /\ n > 0
      BY <1>4, EmptySeq, SMT
    <3> QED BY <1>4, <3>1, ConcatSimplifications
  <2>2. PICK f \in [1..m -> Seq(S)] :
           /\ f[1] = a[1]
           /\ \A i \in 1..m : i # 1 => f[i] = f[i - 1] \o a[i]
           /\ FlattenSeq(a) = f[m]
    BY <1>4, FlattenedBy
  <2>3. PICK g \in [1..n -> Seq(S)] :
           /\ g[1] = b[1]
           /\ \A i \in 1..n : i # 1 => g[i] = g[i - 1] \o b[i]
           /\ FlattenSeq(b) = g[n]
    BY <1>4, FlattenedBy
  <2>4. PICK h \in [1..Len(c) -> Seq(S)] :
           /\ h[1] = c[1]
           /\ \A i \in 1..Len(c) : i # 1 => h[i] = h[i - 1] \o c[i]
           /\ FlattenSeq(c) = h[Len(c)]
    BY <1>1, <2>1, FlattenedBy
  <2> HIDE DEF m, n, c
  <2> DEFINE P(i) == h[i] = IF i <= m THEN f[i] ELSE f[m] \o g[i - m]
             Bad == {i \in 1..(m + n) : ~P(i)}
  <2>5. Bad = {}
    <3> SUFFICES ASSUME Bad # {} PROVE FALSE
      OBVIOUS
    <3>1. PICK k \in Bad : \A j \in Bad : ~(j < k)
      <4>1. Bad \subseteq Nat
        <5>1. 1..(m + n) \subseteq Nat
          BY <1>1, SMT
        <5> HIDE DEF P
        <5> QED BY <5>1
      <4> HIDE DEF Bad
      <4> QED BY <4>1, LeastExists
    <3>2. k \in 1..(m + n) /\ ~P(k)
      OBVIOUS
    <3>3. k # 1 => k - 1 \in 1..(m + n) /\ k - 1 < k
      <4>1. k \in 1..(m + n) /\ m \in Nat /\ n \in Nat
        BY <1>1, <3>2
      <4> QED BY ONLY <4>1, SMT
    <3>4. k # 1 => P(k - 1)
      <4> SUFFICES ASSUME k # 1 PROVE P(k - 1)
        OBVIOUS
      <4>1. k - 1 \notin Bad
        <5> HIDE DEF Bad
        <5> QED BY <3>1, <3>3
      <4> HIDE DEF P
      <4> QED BY <3>3, <4>1
    <3>5. k # 1 => h[k] = h[k - 1] \o c[k]
      BY <1>1, <2>4, <3>2
    <3>6. CASE k = 1
      <4>1. 1 <= m /\ 1 \in 1..(m + n)
        BY <1>1, <2>1, SMT
      <4>2. h[1] = a[1] /\ f[1] = a[1]
        BY <1>1, <2>2, <2>4, <4>1
      <4> QED BY <3>2, <3>6, <4>1, <4>2
    <3>7. CASE k # 1 /\ k <= m
      <4>1. k - 1 <= m /\ k \in 1..m
        BY <1>1, <3>2, <3>7, SMT
      <4>2. h[k] = f[k - 1] \o a[k]
        BY <1>1, <3>2, <3>4, <3>5, <3>7, <4>1
      <4>3. f[k] = f[k - 1] \o a[k]
        BY <2>2, <3>7, <4>1
      <4> QED BY <3>2, <3>7, <4>2, <4>3
    <3>8. CASE k = m + 1
      <4>1. k - 1 = m /\ ~(k <= m) /\ k - m = 1 /\ k # 1 /\ m <= m
        BY <1>1, <2>1, <3>8, SMT
      <4>2. h[k] = f[m] \o b[1]
        BY <1>1, <3>2, <3>4, <3>5, <4>1
      <4> QED BY <2>3, <3>2, <4>1, <4>2
    <3>9. CASE k > m + 1
      <4>1. /\ ~(k - 1 <= m) /\ ~(k <= m) /\ k # 1 /\ k - m # 1
            /\ k - m \in 1..n /\ (k - 1) - m = (k - m) - 1 /\ (k - m) - 1 \in 1..n /\ m \in 1..m
        BY <1>1, <2>1, <3>2, <3>9, SMT
      <4>2. h[k] = (f[m] \o g[(k - m) - 1]) \o b[k - m]
        BY <1>1, <3>2, <3>4, <3>5, <4>1
      <4>3. f[m] \in Seq(S) /\ g[(k - m) - 1] \in Seq(S) /\ b[k - m] \in Seq(S)
        <5>1. \A i \in 1..n : b[i] \in Seq(S)
          BY LenProperties DEF n
        <5> QED BY <2>2, <2>3, <4>1, <5>1
      <4>4. h[k] = f[m] \o (g[(k - m) - 1] \o b[k - m])
        <5> DEFINE x == f[m]
                   y == g[(k - m) - 1]
                   z == b[k - m]
        <5>1. x \in Seq(S) /\ y \in Seq(S) /\ z \in Seq(S) /\ h[k] = (x \o y) \o z
          BY <4>2, <4>3
        <5> HIDE DEF x, y, z
        <5>2. (x \o y) \o z = x \o (y \o z)
          <6>1. x \in Seq(S) /\ y \in Seq(S) /\ z \in Seq(S)
            BY <5>1
          <6> QED BY <6>1, Associative, SMTT(30)
        <5>3. h[k] = x \o (y \o z)
          BY <5>1, <5>2, Zenon
        <5> QED BY <5>3 DEF x, y, z
      <4>5. g[k - m] = g[(k - m) - 1] \o b[k - m]
        BY <2>3, <4>1
      <4> QED BY <3>2, <4>1, <4>4, <4>5
    <3> QED BY <1>1, <2>1, <3>2, <3>6, <3>7, <3>8, <3>9, SMT
  <2>6. P(m + n)
    <3>1. m + n \in 1..(m + n)
      BY <1>1, <2>1, SMT
    <3> HIDE DEF P
    <3> QED BY <2>5, <3>1
  <2>7. ~(m + n <= m) /\ (m + n) - m = n
    BY <1>1, <2>1, SMT
  <2> QED BY <1>1, <2>2, <2>3, <2>4, <2>6, <2>7 DEF c
<1> QED BY <1>2, <1>3, <1>4

(* Parts that are all empty.                                                *)
LEMMA FlattenNothing ==
  ASSUME NEW S, NEW s \in Seq(Seq(S)), \A i \in 1..Len(s) : s[i] = <<>>
  PROVE  FlattenSeq(s) = <<>>
<1> DEFINE n == Len(s)
<1>1. CASE s = <<>>
  BY <1>1, FlattenEmpty
<1>2. CASE s # <<>>
  <2>1. PICK f \in [1..n -> Seq(S)] :
           /\ f[1] = s[1]
           /\ \A i \in 1..n : i # 1 => f[i] = f[i - 1] \o s[i]
           /\ FlattenSeq(s) = f[n]
    BY <1>2, FlattenedBy
  <2>2. n \in Nat /\ n # 0
    BY <1>2, EmptySeq
  <2>0. \A i \in 1..n : s[i] = <<>>
    OBVIOUS
  <2> HIDE DEF n
  <2> DEFINE Bad == {i \in 1..n : f[i] # <<>>}
  <2>3. Bad = {}
    <3> SUFFICES ASSUME Bad # {} PROVE FALSE
      OBVIOUS
    <3>1. PICK k \in Bad : \A j \in Bad : ~(j < k)
      <4>1. Bad \subseteq Nat
        BY <2>2, SMT
      <4> HIDE DEF Bad
      <4> QED BY <4>1, LeastExists
    <3>2. k \in 1..n /\ f[k] # <<>>
      OBVIOUS
    <3>3. k # 1
      BY <2>0, <2>1, <2>2, <3>2
    <3>4. k - 1 \in 1..n /\ k - 1 < k
      BY <2>2, <3>2, <3>3, SMT
    <3>5. f[k - 1] = <<>>
      BY <3>1, <3>4
    <3>6. f[k] = <<>> \o <<>>
      BY <2>0, <2>1, <3>2, <3>3, <3>5
    <3> QED BY <3>2, <3>6, ConcatEmptySeq
  <2>4. n \in 1..n
    BY <2>2, SMT
  <2> QED BY <2>1, <2>3, <2>4
<1> QED BY <1>1, <1>2

-----------------------------------------------------------------------------
(* The elements and the parts of a concatenation.                           *)
LEMMA ConcatElements ==
  ASSUME NEW S, NEW a \in Seq(S), NEW b \in Seq(S)
  PROVE  /\ a \o b \in Seq(S) /\ Len(a \o b) = Len(a) + Len(b)
         /\ Len(a) \in Nat /\ Len(b) \in Nat
         /\ \A i \in 1..Len(a) : (a \o b)[i] = a[i]
         /\ \A i \in 1..Len(b) : (a \o b)[Len(a) + i] = b[i]
<1> DEFINE m == Len(a)
           n == Len(b)
           c == a \o b
<1>1. /\ m \in Nat /\ n \in Nat /\ c \in Seq(S) /\ Len(c) = m + n
      /\ \A i \in 1..(m + n) : c[i] = IF i <= m THEN a[i] ELSE b[i - m]
  BY LenProperties, ConcatProperties
<1> HIDE DEF m, n, c
<1>2. ASSUME NEW i \in 1..m PROVE c[i] = a[i]
  <2>1. i \in 1..(m + n) /\ i <= m
    BY <1>1, SMT
  <2> QED BY <1>1, <2>1
<1>3. ASSUME NEW i \in 1..n PROVE c[m + i] = b[i]
  <2>1. m + i \in 1..(m + n) /\ ~(m + i <= m) /\ (m + i) - m = i
    BY <1>1, SMT
  <2> QED BY <1>1, <2>1
<1> QED BY <1>1, <1>2, <1>3 DEF m, n, c

(* The two parts of a concatenation are found in it again.                  *)
LEMMA ConcatParts ==
  ASSUME NEW S, NEW a \in Seq(S), NEW b \in Seq(S)
  PROVE  /\ SubSeq(a \o b, 1, Len(a)) = a
         /\ From(a \o b, Len(a) + 1) = b
<1> DEFINE m == Len(a)
           n == Len(b)
           c == a \o b
<1>1. /\ c \in Seq(S) /\ Len(c) = m + n /\ m \in Nat /\ n \in Nat
      /\ \A i \in 1..m : c[i] = a[i]
      /\ \A i \in 1..n : c[m + i] = b[i]
  BY ConcatElements
<1>2. \A i \in 1..(m + n) : c[i] \in S
  BY <1>1, LenProperties
<1> HIDE DEF c
<1> USE DEF From
<1>3. SubSeq(c, 1, m) = a
  <2> DEFINE d == SubSeq(c, 1, m)
  <2> HIDE DEF m
  <2>1. \A i \in 1..m : c[i] \in S
    BY <1>1, <1>2, SMT
  <2>2. d \in Seq(S) /\ Len(d) = (IF 1 <= m THEN m - 1 + 1 ELSE 0)
        /\ \A i \in 1..(m - 1 + 1) : d[i] = c[1 + i - 1]
    <3>1. 1 \in Int /\ m \in Int
      BY <1>1, SMT
    <3> QED BY <2>1, <3>1, SubSeqProperties
  <2> HIDE DEF d
  <2>3. Len(d) = m /\ \A i \in 1..m : d[i] = a[i]
    <3>1. m - 1 + 1 = m /\ \A i \in 1..m : 1 + i - 1 = i
      BY <1>1, SMT
    <3> QED BY <1>1, <2>2, <3>1, SMT
  <2>4. a \in Seq(S) /\ Len(a) = m
    BY DEF m
  <2>5. d = a
    BY <2>2, <2>3, <2>4, SeqEqual
  <2> QED BY <2>5 DEF d
<1>4. SubSeq(c, m + 1, m + n) = b
  <2> DEFINE d == SubSeq(c, m + 1, m + n)
  <2> HIDE DEF m, n
  <2>1. \A i \in (m + 1)..(m + n) : c[i] \in S
    BY <1>1, <1>2, SMT
  <2>2. d \in Seq(S) /\ Len(d) = (IF m + 1 <= m + n THEN (m + n) - (m + 1) + 1 ELSE 0)
        /\ \A i \in 1..((m + n) - (m + 1) + 1) : d[i] = c[(m + 1) + i - 1]
    <3>1. m + 1 \in Int /\ m + n \in Int
      BY <1>1, SMT
    <3> QED BY <2>1, <3>1, SubSeqProperties
  <2> HIDE DEF d
  <2>3. Len(d) = n /\ \A i \in 1..n : d[i] = b[i]
    <3>1. (m + n) - (m + 1) + 1 = n /\ \A i \in 1..n : (m + 1) + i - 1 = m + i
      BY <1>1, SMT
    <3> QED BY <1>1, <2>2, <3>1, SMT
  <2>4. b \in Seq(S) /\ Len(b) = n
    BY DEF n
  <2>5. d = b
    BY <2>2, <2>3, <2>4, SeqEqual
  <2> QED BY <2>5 DEF d
<1> QED BY <1>1, <1>3, <1>4 DEF c

(* The words in four and in two bytes behind the first n, least end first.  *)
At32(b, n) == (b[n + 4] * Base + b[n + 3]) * Word16 + (b[n + 2] * Base + b[n + 1])
At16(b, n) == b[n + 2] * Base + b[n + 1]

(* The little end first.                                                    *)
LEMMA TwoBytesLE ==
  ASSUME NEW v \in Nat, v < Word16
  PROVE  /\ LE16(v) \in Seq(Byte) /\ Len(LE16(v)) = 2
         /\ At16(LE16(v), 0) = v
<1> DEFINE h == v \div Base
           l == v % Base
<1>1. h \in Byte /\ l \in Byte /\ h * Base + l = v
  BY TwoBytes
<1>2. LE16(v) = <<l, h>>
  BY DEF LE16
<1> HIDE DEF h, l
<1>3. <<l, h>> \in Seq(Byte) /\ Len(<<l, h>>) = 2 /\ <<l, h>>[1] = l /\ <<l, h>>[2] = h
  BY <1>1
<1> DEFINE x == <<l, h>>
<1>4. x[1] = l /\ x[2] = h
  BY <1>3
<1> HIDE DEF x
<1>5. x[0 + 2] * Base + x[0 + 1] = v
  BY <1>1, <1>4
<1> QED BY <1>2, <1>3, <1>5 DEF x, At16

(* A number of four bytes, lowest byte first, is read as it was written.    *)
LEMMA FourBytesLE ==
  ASSUME NEW v \in Nat, v < Word32
  PROVE  /\ LE32(v) \in Seq(Byte) /\ Len(LE32(v)) = 4
         /\ At32(LE32(v), 0) = v
<1> DEFINE h == v \div Word16
           l == v % Word16
           x == LE16(l)
           y == LE16(h)
<1>1. h \in Nat /\ h < Word16 /\ l \in Nat /\ l < Word16 /\ h * Word16 + l = v
  BY BaseFacts, DivMod, DivLess DEF Word32
<1> HIDE DEF h, l
<1>2. /\ x \in Seq(Byte) /\ Len(x) = 2 /\ x[2] * Base + x[1] = l
      /\ y \in Seq(Byte) /\ Len(y) = 2 /\ y[2] * Base + y[1] = h
  <2>1. x[0 + 2] * Base + x[0 + 1] = l /\ y[0 + 2] * Base + y[0 + 1] = h
    BY <1>1, TwoBytesLE DEF At16
  <2>2. x[2] * Base + x[1] = l /\ y[2] * Base + y[1] = h
    BY <2>1
  <2> QED BY <1>1, <2>2, TwoBytesLE
<1>3. LE32(v) = x \o y
  BY DEF LE32, h, l
<1> HIDE DEF x, y
<1>4. /\ x \o y \in Seq(Byte) /\ Len(x \o y) = 4
      /\ (x \o y)[1] = x[1] /\ (x \o y)[2] = x[2] /\ (x \o y)[3] = y[1] /\ (x \o y)[4] = y[2]
  <2>1. /\ x \o y \in Seq(Byte) /\ Len(x \o y) = Len(x) + Len(y)
        /\ \A i \in 1..Len(x) : (x \o y)[i] = x[i]
        /\ \A i \in 1..Len(y) : (x \o y)[Len(x) + i] = y[i]
    <3>1. x \in Seq(Byte) /\ y \in Seq(Byte)
      BY <1>2
    <3> QED BY <3>1, ConcatElements
  <2>2. (x \o y)[2 + 1] = y[1] /\ (x \o y)[2 + 2] = y[2]
    BY <1>2, <2>1
  <2> QED BY <1>2, <2>1, <2>2
<1> DEFINE z == x \o y
<1>5. z[1] = x[1] /\ z[2] = x[2] /\ z[3] = y[1] /\ z[4] = y[2]
  BY <1>4
<1> HIDE DEF z
<1>6. (z[0 + 4] * Base + z[0 + 3]) * Word16 + (z[0 + 2] * Base + z[0 + 1]) = v
  BY <1>1, <1>2, <1>5
<1> QED BY <1>3, <1>4, <1>6 DEF At32, z

(* A number behind the first n bytes.                                       *)
LEMMA FromWord16 ==
  ASSUME NEW b \in Seq(Byte), NEW n \in Nat, n + 2 <= Len(b)
  PROVE  FromLE16(From(b, n + 1)) = At16(b, n)
<1> DEFINE m == Len(b)
           d == From(b, n + 1)
<1>1. m \in Nat /\ n + 2 <= m /\ \A i \in 1..m : b[i] \in Byte
  BY LenProperties
<1>2. d = SubSeq(b, n + 1, m)
  BY DEF From
<1> HIDE DEF d, m
<1>3. d[1] = b[n + 1] /\ d[2] = b[n + 2]
  <2>1. \A i \in (n + 1)..m : b[i] \in Byte
    BY <1>1, SMT
  <2>2. \A i \in 1..(m - (n + 1) + 1) : d[i] = b[(n + 1) + i - 1]
    <3>1. n + 1 \in Int /\ m \in Int
      BY <1>1, SMT
    <3> QED BY <1>2, <2>1, <3>1, SubSeqProperties
  <2>3. 1 \in 1..(m - (n + 1) + 1) /\ 2 \in 1..(m - (n + 1) + 1)
        /\ (n + 1) + 1 - 1 = n + 1 /\ (n + 1) + 2 - 1 = n + 2
    BY <1>1, SMT
  <2> QED BY <2>2, <2>3
<1>4. FromLE16(d) = d[2] * Base + d[1]
  BY DEF FromLE16
<1> QED BY <1>3, <1>4 DEF d, At16

(* A word is found behind the bytes that precede it.                        *)
LEMMA FromWord32 ==
  ASSUME NEW b \in Seq(Byte), NEW n \in Nat, n + 4 <= Len(b)
  PROVE  FromLE32(From(b, n + 1)) = At32(b, n)
<1> DEFINE m == Len(b)
           d == From(b, n + 1)
<1>1. m \in Nat /\ n + 4 <= m /\ \A i \in 1..m : b[i] \in Byte
  BY LenProperties
<1>2. d = SubSeq(b, n + 1, m)
  BY DEF From
<1> HIDE DEF d, m
<1>3. d[1] = b[n + 1] /\ d[2] = b[n + 2] /\ d[3] = b[n + 3] /\ d[4] = b[n + 4]
  <2>1. \A i \in (n + 1)..m : b[i] \in Byte
    BY <1>1, SMT
  <2>2. \A i \in 1..(m - (n + 1) + 1) : d[i] = b[(n + 1) + i - 1]
    <3>1. n + 1 \in Int /\ m \in Int
      BY <1>1, SMT
    <3> QED BY <1>2, <2>1, <3>1, SubSeqProperties
  <2>3. /\ {1, 2, 3, 4} \subseteq 1..(m - (n + 1) + 1)
        /\ (n + 1) + 1 - 1 = n + 1 /\ (n + 1) + 2 - 1 = n + 2
        /\ (n + 1) + 3 - 1 = n + 3 /\ (n + 1) + 4 - 1 = n + 4
    BY <1>1, SMT
  <2>4. 1 \in 1..(m - (n + 1) + 1) /\ 2 \in 1..(m - (n + 1) + 1)
        /\ 3 \in 1..(m - (n + 1) + 1) /\ 4 \in 1..(m - (n + 1) + 1)
    BY <2>3
  <2> QED BY <2>2, <2>3, <2>4
<1>4. FromLE32(d) = (d[4] * Base + d[3]) * Word16 + (d[2] * Base + d[1])
  <2> DEFINE t == <<d[3], d[4]>>
  <2>1. t[1] = d[3] /\ t[2] = d[4]
    OBVIOUS
  <2>2. FromLE16(t) = t[2] * Base + t[1] /\ FromLE16(d) = d[2] * Base + d[1]
    BY DEF FromLE16
  <2>3. FromLE32(d) = FromLE16(t) * Word16 + FromLE16(d)
    BY DEF FromLE32
  <2> HIDE DEF t
  <2> QED BY <2>1, <2>2, <2>3
<1> QED BY <1>3, <1>4 DEF d, At32

(* A word that lies between other bytes.                                    *)
LEMMA MovedWord32 ==
  ASSUME NEW x, NEW b, NEW n,
         b[n + 1] = x[1], b[n + 2] = x[2], b[n + 3] = x[3], b[n + 4] = x[4]
  PROVE  At32(b, n) = At32(x, 0)
<1>1. 0 + 1 = 1 /\ 0 + 2 = 2 /\ 0 + 3 = 3 /\ 0 + 4 = 4
  OBVIOUS
<1> QED BY <1>1 DEF At32

LEMMA MovedWord16 ==
  ASSUME NEW x, NEW b, NEW n, b[n + 1] = x[1], b[n + 2] = x[2]
  PROVE  At16(b, n) = At16(x, 0)
<1>1. 0 + 1 = 1 /\ 0 + 2 = 2
  OBVIOUS
<1> QED BY <1>1 DEF At16

-----------------------------------------------------------------------------
(* The numbers of the commands, of the file types and of the digest types   *)
(* fit in two bytes, and two bytes in four.                                 *)
LEMMA SmallNumbers ==
  /\ Word16 \in Nat /\ Word32 \in Nat /\ 16 <= Word16 /\ 256 <= Word32
<1>1. Base \in Nat /\ Base >= 4
  BY RemoteFileAssumption
<1>2. Base * Base >= 4 * 4
  BY <1>1, SMT
<1>3. Word16 \in Nat /\ Word16 >= 16
  BY <1>1, <1>2, SMT DEF Word16
<1>4. Word16 * Word16 >= 16 * 16
  BY <1>3, SMT
<1> QED BY <1>3, <1>4, SMT DEF Word32

(* Nothing is cut off.                                                      *)
LEMMA FromOne ==
  ASSUME NEW b \in Seq(Byte)
  PROVE  From(b, 1) = b
  BY SubSeqFull DEF From

(* An open request is read back as it was written (remotefile.c:330-398).   *)
THEOREM OpenRoundTrip ==
  ASSUME NEW address \in Nat, address < Word32
  PROVE  LET bytes == rmf_encode_open_file_cmd(address)
         IN /\ bytes \in Seq(Byte) /\ Len(bytes) = 8
            /\ rmf_decode_cmd_type(bytes) = CMD_OPEN
            /\ FromLE32(From(bytes, 5)) = address
<1> DEFINE x == LE32(CMD_OPEN)
           y == LE32(address)
           b == x \o y
<1>1. CMD_OPEN \in Nat /\ CMD_OPEN < Word32
  BY SmallNumbers, SMT DEF CMD_OPEN
<1>2. x \in Seq(Byte) /\ Len(x) = 4 /\ At32(x, 0) = CMD_OPEN
  BY <1>1, FourBytesLE
<1>3. y \in Seq(Byte) /\ Len(y) = 4 /\ At32(y, 0) = address
  BY FourBytesLE
<1>4. rmf_encode_open_file_cmd(address) = b
  BY DEF rmf_encode_open_file_cmd
<1> HIDE DEF x, y
<1>5. /\ b \in Seq(Byte) /\ Len(b) = Len(x) + Len(y)
      /\ \A i \in 1..Len(x) : b[i] = x[i]
      /\ \A i \in 1..Len(y) : b[Len(x) + i] = y[i]
  <2>1. x \in Seq(Byte) /\ y \in Seq(Byte)
    BY <1>2, <1>3
  <2> QED BY <2>1, ConcatElements
<1> HIDE DEF b
<1>6. /\ Len(b) = 8
      /\ b[1] = x[1] /\ b[2] = x[2] /\ b[3] = x[3] /\ b[4] = x[4]
      /\ b[4 + 1] = y[1] /\ b[4 + 2] = y[2] /\ b[4 + 3] = y[3] /\ b[4 + 4] = y[4]
  BY <1>2, <1>3, <1>5
<1>7. At32(b, 0) = CMD_OPEN
  <2>1. b[0 + 1] = x[1] /\ b[0 + 2] = x[2] /\ b[0 + 3] = x[3] /\ b[0 + 4] = x[4]
    BY <1>6
  <2>2. At32(b, 0) = At32(x, 0)
    BY <2>1, MovedWord32
  <2> QED BY <1>2, <2>2
<1>8. FromLE32(From(b, 0 + 1)) = CMD_OPEN
  <2>1. 0 \in Nat /\ 0 + 4 <= Len(b)
    BY <1>6, SMT
  <2> QED BY <1>5, <1>7, <2>1, FromWord32
<1>9. At32(b, 4) = address
  <2>1. At32(b, 4) = At32(y, 0)
    BY <1>6, MovedWord32
  <2> QED BY <1>3, <2>1
<1>10. FromLE32(From(b, 4 + 1)) = address
  <2>1. 4 \in Nat /\ 4 + 4 <= Len(b)
    BY <1>6, SMT
  <2> QED BY <1>5, <1>9, <2>1, FromWord32
<1>11. rmf_decode_cmd_type(b) = CMD_OPEN
  <2>1. From(b, 0 + 1) = b
    BY <1>5, FromOne
  <2>2. ~(Len(b) < 4)
    BY <1>6, SMT
  <2> QED BY <1>8, <2>1, <2>2 DEF rmf_decode_cmd_type
<1>12. FromLE32(From(b, 5)) = address
  BY <1>10
<1> QED BY <1>4, <1>5, <1>6, <1>11, <1>12 DEF b

(* The bytes of the acknowledge command (run_send_acknowledge).             *)
LEMMA AcknowledgeBytes ==
  /\ rmf_encode_acknowledge_cmd \in Seq(Byte) /\ Len(rmf_encode_acknowledge_cmd) = 4
  /\ rmf_decode_cmd_type(rmf_encode_acknowledge_cmd) = CMD_ACK
<1> DEFINE x == rmf_encode_acknowledge_cmd
<1>1. CMD_ACK \in Nat /\ CMD_ACK < Word32
  BY SmallNumbers, SMT DEF CMD_ACK
<1>2. x \in Seq(Byte) /\ Len(x) = 4 /\ At32(x, 0) = CMD_ACK
  BY <1>1, FourBytesLE DEF rmf_encode_acknowledge_cmd
<1> HIDE DEF x
<1>3. FromLE32(From(x, 0 + 1)) = CMD_ACK
  <2>1. 0 \in Nat /\ 0 + 4 <= Len(x) /\ x \in Seq(Byte)
    BY <1>2, SMT
  <2>2. FromLE32(From(x, 0 + 1)) = At32(x, 0)
    BY <2>1, FromWord32
  <2> QED BY <1>2, <2>2
<1>4. rmf_decode_cmd_type(x) = CMD_ACK
  <2>1. From(x, 0 + 1) = x
    BY <1>2, FromOne
  <2>2. ~(Len(x) < 4)
    BY <1>2, SMT
  <2> QED BY <1>3, <2>1, <2>2 DEF rmf_decode_cmd_type
<1> QED BY <1>2, <1>4 DEF x

(* The name ends before the first zero.                                     *)
LEMMA NameBeforeZero ==
  ASSUME NEW name \in Seq(Byte \ {0}), NEW z \in Seq(Byte), Len(z) = 1, z[1] = 0
  PROVE  NameLength(name \o z) = Len(name)
<1> DEFINE t == name \o z
           n == Len(name)
           zeros == {i \in DOMAIN t : t[i] = 0}
<1>0. name \in Seq(Byte)
  <2>1. \A i \in 1..Len(name) : name[i] \in Byte \ {0}
    BY ElementOfSeq
  <2> QED BY <2>1, LenProperties
<1>1. /\ t \in Seq(Byte) /\ Len(t) = n + 1 /\ n \in Nat
      /\ \A i \in 1..n : t[i] = name[i]
      /\ t[n + 1] = z[1]
  <2>1. /\ t \in Seq(Byte) /\ Len(t) = n + Len(z) /\ n \in Nat
        /\ \A i \in 1..n : t[i] = name[i]
        /\ \A i \in 1..Len(z) : t[n + i] = z[i]
    <3>1. name \in Seq(Byte)
      BY <1>0
    <3>2. z \in Seq(Byte)
      OBVIOUS
    <3> QED BY ONLY <3>1, <3>2, ConcatElements
  <2> HIDE DEF t, n
  <2>2. Len(t) = n + 1 /\ 1 \in 1..Len(z)
    BY <2>1, SMT
  <2> QED BY <2>1, <2>2
<1>2. DOMAIN t = 1..(n + 1)
  BY <1>1, LenProperties
<1>3. \A i \in 1..n : name[i] # 0
  BY ElementOfSeq
<1> HIDE DEF t, n
<1>4. zeros = {n + 1}
  <2>1. \A i \in 1..(n + 1) : i \in 1..n \/ i = n + 1
    BY <1>1, SMT
  <2>2. n + 1 \in 1..(n + 1)
    BY <1>1, SMT
  <2> QED BY <1>1, <1>2, <1>3, <2>1, <2>2
<1>5. NameLength(t) = IF zeros = {} THEN 0 ELSE (CHOOSE i \in zeros : \A j \in zeros : i <= j) - 1
  BY DEF NameLength
<1> HIDE DEF zeros
<1>6. (CHOOSE i \in zeros : \A j \in zeros : i <= j) = n + 1
  <2>1. n + 1 \in zeros /\ \A j \in zeros : n + 1 <= j
    BY <1>1, <1>4, SMT
  <2>2. (CHOOSE i \in zeros : \A j \in zeros : i <= j) \in zeros
    BY <2>1
  <2> QED BY <1>4, <2>2
<1>7. zeros # {} /\ (n + 1) - 1 = n
  BY <1>1, <1>4, SMT
<1>8. NameLength(t) = n
  BY <1>5, <1>6, <1>7
<1> QED BY <1>8 DEF t, n

-----------------------------------------------------------------------------
(* What lies between two other parts.                                       *)
LEMMA MiddlePart ==
  ASSUME NEW S, NEW a \in Seq(S), NEW d \in Seq(S), NEW t \in Seq(S)
  PROVE  SubSeq((a \o d) \o t, Len(a) + 1, Len(a) + Len(d)) = d
<1> DEFINE m == Len(a)
           n == Len(d)
           p == a \o d
           b == p \o t
           e == SubSeq(b, m + 1, m + n)
<1>1. /\ p \in Seq(S) /\ Len(p) = m + n /\ m \in Nat /\ n \in Nat
      /\ \A i \in 1..n : p[m + i] = d[i]
  BY ConcatElements
<1>2. b \in Seq(S) /\ Len(b) = Len(p) + Len(t) /\ Len(t) \in Nat /\ \A i \in 1..Len(p) : b[i] = p[i]
  <2>1. p \in Seq(S) /\ t \in Seq(S)
    BY <1>1
  <2> HIDE DEF p
  <2> QED BY ONLY <2>1, ConcatElements DEF b
<1>3. \A i \in 1..Len(b) : b[i] \in S
  BY <1>2, LenProperties
<1> HIDE DEF p, b, m, n
<1>4. \A i \in 1..n : b[m + i] = d[i] /\ b[m + i] \in S
  <2> TAKE i \in 1..n
  <2>1. m + i \in 1..Len(p) /\ m + i \in 1..Len(b)
    BY <1>1, <1>2, SMT
  <2> QED BY <1>1, <1>2, <1>3, <2>1
<1>5. /\ e \in Seq(S) /\ Len(e) = (IF m + 1 <= m + n THEN (m + n) - (m + 1) + 1 ELSE 0)
      /\ \A i \in 1..((m + n) - (m + 1) + 1) : e[i] = b[(m + 1) + i - 1]
  <2>1. \A i \in (m + 1)..(m + n) : b[i] \in S
    <3> TAKE i \in (m + 1)..(m + n)
    <3>1. i - m \in 1..n /\ m + (i - m) = i
      BY <1>1, SMT
    <3> QED BY <1>4, <3>1
  <2>2. m + 1 \in Int /\ m + n \in Int
    BY <1>1, SMT
  <2> QED BY <2>1, <2>2, SubSeqProperties
<1> HIDE DEF e
<1>6. Len(e) = n /\ \A i \in 1..n : e[i] = d[i]
  <2>1. (m + n) - (m + 1) + 1 = n /\ (\A i \in 1..n : (m + 1) + i - 1 = m + i) /\ Len(e) = n
    BY <1>1, <1>5, SMT
  <2> QED BY <1>4, <1>5, <2>1
<1>7. e = d
  BY <1>5, <1>6, SeqEqual DEF n
<1> QED BY <1>7 DEF e, b, p, m, n

(* What a file can be published with.                                       *)
Publishable(Names) ==
  [name : Names, address : 0..(Word32 - 1), size : 0..(Word32 - 1), type : FILE_TYPES,
   digest_type : DIGEST_TYPES, digest : {d \in Seq(Byte) : Len(d) = DigestSize}]
TextNames == {s \in Seq(Byte \ {0}) : s # <<>>}

(* The words of a published file and where they lie.                        *)
IsHeader(a, w0, w1, w2, w3, w4) ==
  /\ a \in Seq(Byte) /\ Len(a) = 16
  /\ \A i \in 1..4 : a[i] = w0[i] /\ a[4 + i] = w1[i] /\ a[8 + i] = w2[i]
  /\ \A i \in 1..2 : a[12 + i] = w3[i] /\ a[14 + i] = w4[i]

(* Where the numbers are in the fixed part of a file information command.   *)
LEMMA PublishParts ==
  ASSUME NEW w0 \in Seq(Byte), NEW w1 \in Seq(Byte), NEW w2 \in Seq(Byte),
         NEW w3 \in Seq(Byte), NEW w4 \in Seq(Byte),
         Len(w0) = 4, Len(w1) = 4, Len(w2) = 4, Len(w3) = 2, Len(w4) = 2
  PROVE  IsHeader(w0 \o w1 \o w2 \o w3 \o w4, w0, w1, w2, w3, w4)
<1> DEFINE p1 == w0 \o w1
           p2 == p1 \o w2
           p3 == p2 \o w3
           p4 == p3 \o w4
<1>1. /\ p1 \in Seq(Byte) /\ Len(p1) = Len(w0) + Len(w1)
      /\ \A i \in 1..Len(w0) : p1[i] = w0[i]
      /\ \A i \in 1..Len(w1) : p1[Len(w0) + i] = w1[i]
  <2>1. w0 \in Seq(Byte) /\ w1 \in Seq(Byte)
    OBVIOUS
  <2> QED BY ONLY <2>1, ConcatElements DEF p1
<1> HIDE DEF p1
<1>2. /\ p2 \in Seq(Byte) /\ Len(p2) = Len(p1) + Len(w2)
      /\ \A i \in 1..Len(p1) : p2[i] = p1[i]
      /\ \A i \in 1..Len(w2) : p2[Len(p1) + i] = w2[i]
  <2>1. p1 \in Seq(Byte) /\ w2 \in Seq(Byte)
    BY <1>1
  <2> QED BY ONLY <2>1, ConcatElements DEF p2
<1> HIDE DEF p2
<1>3. /\ p3 \in Seq(Byte) /\ Len(p3) = Len(p2) + Len(w3)
      /\ \A i \in 1..Len(p2) : p3[i] = p2[i]
      /\ \A i \in 1..Len(w3) : p3[Len(p2) + i] = w3[i]
  <2>1. p2 \in Seq(Byte) /\ w3 \in Seq(Byte)
    BY <1>2
  <2> QED BY ONLY <2>1, ConcatElements DEF p3
<1> HIDE DEF p3
<1>4. /\ p4 \in Seq(Byte) /\ Len(p4) = Len(p3) + Len(w4)
      /\ \A i \in 1..Len(p3) : p4[i] = p3[i]
      /\ \A i \in 1..Len(w4) : p4[Len(p3) + i] = w4[i]
  <2>1. p3 \in Seq(Byte) /\ w4 \in Seq(Byte)
    BY <1>3
  <2> QED BY ONLY <2>1, ConcatElements DEF p4
<1> HIDE DEF p4
<1>5. Len(p1) = 8 /\ Len(p2) = 12 /\ Len(p3) = 14 /\ Len(p4) = 16
  BY <1>1, <1>2, <1>3, <1>4, SMT
<1>6. \A i \in 1..4 : p4[i] = w0[i] /\ p4[4 + i] = w1[i] /\ p4[8 + i] = w2[i]
  <2> TAKE i \in 1..4
  <2>1. /\ i \in 1..8 /\ i \in 1..12 /\ i \in 1..14
        /\ 4 + i \in 1..8 /\ 4 + i \in 1..12 /\ 4 + i \in 1..14
        /\ 8 + i \in 1..12 /\ 8 + i \in 1..14
    BY SMT
  <2>2. p4[i] = p3[i] /\ p4[4 + i] = p3[4 + i] /\ p4[8 + i] = p3[8 + i]
    BY <1>4, <1>5, <2>1
  <2>3. p3[i] = p2[i] /\ p3[4 + i] = p2[4 + i] /\ p3[8 + i] = p2[8 + i]
    BY <1>3, <1>5, <2>1
  <2>4. p2[i] = p1[i] /\ p2[4 + i] = p1[4 + i] /\ p2[8 + i] = w2[i]
    BY <1>2, <1>5, <2>1
  <2>5. p1[i] = w0[i] /\ p1[4 + i] = w1[i]
    BY <1>1
  <2> QED BY <2>2, <2>3, <2>4, <2>5
<1>7. \A i \in 1..2 : p4[12 + i] = w3[i] /\ p4[14 + i] = w4[i]
  <2> TAKE i \in 1..2
  <2>1. 12 + i \in 1..14
    BY SMT
  <2>2. p4[12 + i] = p3[12 + i] /\ p4[14 + i] = w4[i]
    BY <1>4, <1>5, <2>1
  <2>3. p3[12 + i] = w3[i]
    BY <1>3, <1>5
  <2> QED BY <2>2, <2>3
<1>8. IsHeader(p4, w0, w1, w2, w3, w4)
  BY <1>4, <1>5, <1>6, <1>7 DEF IsHeader
<1> QED BY <1>8 DEF p1, p2, p3, p4

(* What is published of a file is read back as it was written: the name,    *)
(* the address, the size, both types and the digest                         *)
(* (remotefile.c:196-297), for every file whose name has no zero byte.      *)
THEOREM PublishRoundTrip ==
  ASSUME NEW info \in Publishable(TextNames)
  PROVE  LET bytes == rmf_encode_publish_file_cmd(info)
         IN /\ bytes \in Seq(Byte)
            /\ Len(bytes) = FILE_INFO_HEADER_SIZE + Len(info.name) + 1
            /\ rmf_decode_cmd_type(bytes) = CMD_PUBLISH
            /\ rmf_decode_publish_file_cmd(bytes) = [ok |-> TRUE, info |-> info]
<1> DEFINE w0 == LE32(CMD_PUBLISH)
           w1 == LE32(info.address)
           w2 == LE32(info.size)
           w3 == LE16(info.type)
           w4 == LE16(info.digest_type)
           a == w0 \o w1 \o w2 \o w3 \o w4
           d == info.digest
           n == info.name
           z == <<0>>
           p == a \o d
           t == n \o z
           b == p \o t
           D == DigestSize
<1>0. CMD_PUBLISH \in Nat /\ CMD_PUBLISH < Word32 /\ D \in Nat
  BY SmallNumbers, RemoteFileAssumption, SMT DEF CMD_PUBLISH
<1>1. w0 \in Seq(Byte) /\ Len(w0) = 4 /\ At32(w0, 0) = CMD_PUBLISH
  BY <1>0, FourBytesLE
<1>2. w1 \in Seq(Byte) /\ Len(w1) = 4 /\ At32(w1, 0) = info.address
  <2>1. info.address \in Nat /\ info.address < Word32
    BY SmallNumbers, SMT DEF Publishable
  <2> QED BY <2>1, FourBytesLE
<1>3. w2 \in Seq(Byte) /\ Len(w2) = 4 /\ At32(w2, 0) = info.size
  <2>1. info.size \in Nat /\ info.size < Word32
    BY SmallNumbers, SMT DEF Publishable
  <2> QED BY <2>1, FourBytesLE
<1>4. w3 \in Seq(Byte) /\ Len(w3) = 2 /\ At16(w3, 0) = info.type
  <2>1. info.type \in Nat /\ info.type < Word16
    BY SmallNumbers, SMT DEF Publishable, FILE_TYPES
  <2> QED BY <2>1, TwoBytesLE
<1>5. w4 \in Seq(Byte) /\ Len(w4) = 2 /\ At16(w4, 0) = info.digest_type
  <2>1. info.digest_type \in Nat /\ info.digest_type < Word16
    BY SmallNumbers, SMT DEF Publishable, DIGEST_TYPES
  <2> QED BY <2>1, TwoBytesLE
<1>6. /\ d \in Seq(Byte) /\ Len(d) = D
      /\ n \in Seq(Byte \ {0}) /\ n \in Seq(Byte) /\ Len(n) \in Nat /\ Len(n) # 0
      /\ z \in Seq(Byte) /\ Len(z) = 1 /\ z[1] = 0
  <2>1. d \in Seq(Byte) /\ Len(d) = D /\ n \in Seq(Byte \ {0}) /\ n # <<>>
    BY DEF Publishable, TextNames
  <2>2. n \in Seq(Byte) /\ Len(n) \in Nat
    <3> HIDE DEF n
    <3>1. \A i \in 1..Len(n) : n[i] \in Byte \ {0}
      BY <2>1, ElementOfSeq
    <3> QED BY <2>1, <3>1, LenProperties
  <2>3. Len(n) # 0
    <3> HIDE DEF n
    <3> QED BY <2>1, EmptySeq
  <2>4. z \in Seq(Byte) /\ Len(z) = 1 /\ z[1] = 0
    <3>1. 0 \in Byte
      BY BaseFacts, SMT DEF Byte
    <3> QED BY <3>1
  <2> QED BY <2>1, <2>2, <2>3, <2>4
<1>7. rmf_encode_publish_file_cmd(info) = ((a \o d) \o n) \o z
  BY DEF rmf_encode_publish_file_cmd
<1> HIDE DEF w0, w1, w2, w3, w4, d, n, z
<1>8. /\ a \in Seq(Byte) /\ Len(a) = 16
      /\ \A i \in 1..4 : a[i] = w0[i] /\ a[4 + i] = w1[i] /\ a[8 + i] = w2[i]
      /\ \A i \in 1..2 : a[12 + i] = w3[i] /\ a[14 + i] = w4[i]
  <2>1. w0 \in Seq(Byte) /\ w1 \in Seq(Byte) /\ w2 \in Seq(Byte) /\ w3 \in Seq(Byte) /\ w4 \in Seq(Byte)
    BY <1>1, <1>2, <1>3, <1>4, <1>5
  <2>2. Len(w0) = 4 /\ Len(w1) = 4 /\ Len(w2) = 4 /\ Len(w3) = 2 /\ Len(w4) = 2
    BY <1>1, <1>2, <1>3, <1>4, <1>5
  <2>3. IsHeader(a, w0, w1, w2, w3, w4)
    BY ONLY <2>1, <2>2, PublishParts DEF a
  <2> HIDE DEF a
  <2> QED BY <2>3 DEF IsHeader
<1> HIDE DEF a
<1>9. p \in Seq(Byte) /\ Len(p) = Len(a) + Len(d) /\ \A i \in 1..Len(a) : p[i] = a[i]
  <2>1. a \in Seq(Byte) /\ d \in Seq(Byte)
    BY <1>6, <1>8
  <2> QED BY ONLY <2>1, ConcatElements DEF p
<1>10. t \in Seq(Byte) /\ Len(t) = Len(n) + Len(z) /\ SubSeq(t, 1, Len(n)) = n /\ NameLength(t) = Len(n)
  <2>1. n \in Seq(Byte) /\ z \in Seq(Byte)
    BY <1>6
  <2>2. t \in Seq(Byte) /\ Len(t) = Len(n) + Len(z) /\ SubSeq(t, 1, Len(n)) = n
    BY ONLY <2>1, ConcatElements, ConcatParts DEF t
  <2>3. NameLength(t) = Len(n)
    BY <1>6, NameBeforeZero
  <2> QED BY <2>2, <2>3
<1>11. ((a \o d) \o n) \o z = b
  <2>1. p \in Seq(Byte) /\ n \in Seq(Byte) /\ z \in Seq(Byte)
    BY <1>6, <1>9
  <2> HIDE DEF p
  <2>2. (p \o n) \o z = p \o (n \o z)
    BY ONLY <2>1, Associative, SMTT(30)
  <2> QED BY <2>2 DEF p
<1>12. SubSeq(b, Len(a) + 1, Len(a) + Len(d)) = d
  <2>1. a \in Seq(Byte) /\ d \in Seq(Byte) /\ t \in Seq(Byte)
    BY <1>6, <1>8, <1>10
  <2> HIDE DEF t
  <2> QED BY ONLY <2>1, MiddlePart DEF b, p
<1>13. /\ b \in Seq(Byte) /\ Len(b) = Len(p) + Len(t) /\ From(b, Len(p) + 1) = t
       /\ \A i \in 1..Len(p) : b[i] = p[i]
  <2>1. p \in Seq(Byte) /\ t \in Seq(Byte)
    BY <1>9, <1>10
  <2> HIDE DEF p, t
  <2> QED BY ONLY <2>1, ConcatElements, ConcatParts DEF b
<1> HIDE DEF p, t, b
<1>14. Len(b) = 16 + D + Len(n) + 1 /\ Len(p) = 16 + D
  BY <1>0, <1>6, <1>8, <1>9, <1>10, <1>13, SMT
<1>15. \A i \in 1..16 : b[i] = a[i]
  <2> TAKE i \in 1..16
  <2>1. i \in 1..Len(p) /\ i \in 1..Len(a)
    BY <1>0, <1>8, <1>14, SMT
  <2> QED BY <1>9, <1>13, <2>1
<1>16. \A i \in 1..4 : b[0 + i] = w0[i] /\ b[4 + i] = w1[i] /\ b[8 + i] = w2[i]
  <2> TAKE i \in 1..4
  <2>1. 0 + i = i /\ i \in 1..16 /\ 4 + i \in 1..16 /\ 8 + i \in 1..16
    BY SMT
  <2> QED BY <1>8, <1>15, <2>1
<1>17. \A i \in 1..2 : b[12 + i] = w3[i] /\ b[14 + i] = w4[i]
  <2> TAKE i \in 1..2
  <2>1. 12 + i \in 1..16 /\ 14 + i \in 1..16
    BY SMT
  <2> QED BY <1>8, <1>15, <2>1
<1>18. 1 \in 1..4 /\ 2 \in 1..4 /\ 3 \in 1..4 /\ 4 \in 1..4 /\ 1 \in 1..2 /\ 2 \in 1..2
  BY SMT
<1>19. At32(b, 0) = CMD_PUBLISH
  <2>1. At32(b, 0) = At32(w0, 0)
    BY <1>16, <1>18, MovedWord32
  <2> QED BY <1>1, <2>1
<1>20. At32(b, 4) = info.address
  <2>1. At32(b, 4) = At32(w1, 0)
    BY <1>16, <1>18, MovedWord32
  <2> QED BY <1>2, <2>1
<1>21. At32(b, 8) = info.size
  <2>1. At32(b, 8) = At32(w2, 0)
    BY <1>16, <1>18, MovedWord32
  <2> QED BY <1>3, <2>1
<1>22. At16(b, 12) = info.type
  <2>1. At16(b, 12) = At16(w3, 0)
    BY <1>17, <1>18, MovedWord16
  <2> QED BY <1>4, <2>1
<1>23. At16(b, 14) = info.digest_type
  <2>1. At16(b, 14) = At16(w4, 0)
    BY <1>17, <1>18, MovedWord16
  <2> QED BY <1>5, <2>1
<1>24. 0 \in Nat /\ 4 \in Nat /\ 8 \in Nat /\ 12 \in Nat /\ 14 \in Nat
       /\ 0 + 4 <= Len(b) /\ 4 + 4 <= Len(b) /\ 8 + 4 <= Len(b) /\ 12 + 2 <= Len(b) /\ 14 + 2 <= Len(b)
  BY <1>0, <1>6, <1>14, SMT
<1>25. /\ FromLE32(From(b, 0 + 1)) = CMD_PUBLISH
       /\ FromLE32(From(b, 4 + 1)) = info.address /\ FromLE32(From(b, 8 + 1)) = info.size
       /\ FromLE16(From(b, 12 + 1)) = info.type /\ FromLE16(From(b, 14 + 1)) = info.digest_type
  BY <1>13, <1>19, <1>20, <1>21, <1>22, <1>23, <1>24, FromWord32, FromWord16
<1>26. From(b, 0 + 1) = b
  <2>1. From(b, 1) = b
    BY <1>13, FromOne
  <2> QED BY <2>1
<1>27. /\ FromLE32(b) = CMD_PUBLISH
       /\ FromLE32(From(b, 5)) = info.address /\ FromLE32(From(b, 9)) = info.size
       /\ FromLE16(From(b, 13)) = info.type /\ FromLE16(From(b, 15)) = info.digest_type
  BY <1>25, <1>26
<1>28. From(b, FILE_INFO_HEADER_SIZE + 1) = t /\ SubSeq(b, 17, FILE_INFO_HEADER_SIZE) = d
  <2>1. FILE_INFO_HEADER_SIZE = 16 + D /\ Len(a) + 1 = 17 /\ Len(a) + Len(d) = 16 + D
    BY <1>6, <1>8 DEF FILE_INFO_HEADER_SIZE
  <2> QED BY <1>12, <1>13, <1>14, <2>1
<1>29. ~(Len(b) <= FILE_INFO_HEADER_SIZE) /\ ~(Len(b) < 4)
  BY <1>0, <1>6, <1>14, SMT DEF FILE_INFO_HEADER_SIZE
<1>30. info.type \in FILE_TYPES /\ info.digest_type \in DIGEST_TYPES
  BY DEF Publishable
<1>31. info = [name |-> n, address |-> info.address, size |-> info.size, type |-> info.type,
               digest_type |-> info.digest_type, digest |-> d]
  BY DEF Publishable, n, d
<1>32. rmf_decode_publish_file_cmd(b) = [ok |-> TRUE, info |->
         [name |-> n, address |-> info.address, size |-> info.size, type |-> info.type,
               digest_type |-> info.digest_type, digest |-> d]]
  BY <1>6, <1>10, <1>27, <1>28, <1>29, <1>30, Zenon DEF rmf_decode_publish_file_cmd
<1>33. rmf_decode_cmd_type(b) = CMD_PUBLISH
  BY <1>27, <1>29 DEF rmf_decode_cmd_type
<1>34. Len(b) = FILE_INFO_HEADER_SIZE + Len(n) + 1
  BY <1>14 DEF FILE_INFO_HEADER_SIZE
<1>35. rmf_encode_publish_file_cmd(info) = b
  BY <1>7, <1>11
<1>36. Len(b) = FILE_INFO_HEADER_SIZE + Len(info.name) + 1
  BY <1>34 DEF n
<1>37. rmf_decode_publish_file_cmd(b) = [ok |-> TRUE, info |-> info]
  BY <1>31, <1>32
<1> HIDE DEF D
<1> QED BY <1>13, <1>33, <1>35, <1>36, <1>37

-----------------------------------------------------------------------------
(* The limits of addresses and lengths are numbers, in this order.          *)
LEMMA AddressLimits ==
  /\ HIGH_ADDR_MAX \in Nat /\ INVALID_ADDRESS \in Nat /\ HIGH_ADDR_MAX < INVALID_ADDRESS
  /\ CMD_AREA_START \in Nat /\ CMD_AREA_START <= HIGH_ADDR_MAX /\ INVALID_ADDRESS < Word32
  /\ CmdAreaSize \in Nat /\ CmdAreaSize # 0 /\ NUM_LONG_MAX \in Nat /\ CmdAreaSize + 4 <= NUM_LONG_MAX
  /\ CmdAreaSize < Word32
<1> DEFINE c == Base * Word16
           n == K * c
<1>1. /\ n \in Nat \ {0} /\ Word32 = 4 * n /\ Word32 \div 4 = n /\ Word32 \div 2 = 2 * n
  BY Fractions
<1>2. c \in Nat /\ c >= 64
  <2>1. Base \in Nat /\ Base >= 4 /\ Word16 \in Nat /\ Word16 >= 16
    BY SmallNumbers, RemoteFileAssumption
  <2>2. Base * Word16 >= 4 * 16
    BY <2>1, SMT
  <2>3. Base * Word16 \in Nat
    BY <2>1, SMT
  <2> QED BY <2>2, <2>3, SMT
<1>3. CmdAreaSize \in 1..c
  <2>1. Base * Base * Base = c
    BY BaseFacts, SMT DEF Word16
  <2> QED BY <2>1, RemoteFileAssumption
<1>4. n >= c
  <2>1. K \in Nat /\ K >= 1
    BY BaseFacts, SMT
  <2> HIDE DEF c
  <2> QED BY <1>2, <2>1, SMT
<1> HIDE DEF n, c
<1>5. CmdAreaSize \in Nat /\ CmdAreaSize >= 1 /\ CmdAreaSize <= n /\ CmdAreaSize + 4 <= 2 * n - 1
  BY <1>1, <1>2, <1>3, <1>4, SMT
<1>6. HIGH_ADDR_MAX = n - 1 /\ INVALID_ADDRESS = 2 * n - 1 /\ NUM_LONG_MAX = 2 * n - 1
  BY <1>1 DEF HIGH_ADDR_MAX, INVALID_ADDRESS, NUM_LONG_MAX
<1>7. CMD_AREA_START = n - CmdAreaSize
  BY <1>1, <1>5, <1>6, SMT DEF CMD_AREA_START
<1> QED BY <1>1, <1>5, <1>6, <1>7, SMT

(* The encodings are bytes.                                                 *)
LEMMA EncodedAddress ==
  ASSUME NEW a \in Nat, a <= HIGH_ADDR_MAX, NEW more \in BOOLEAN
  PROVE  /\ rmf_address_encode(a, more) \in Seq(Byte)
         /\ Len(rmf_address_encode(a, more)) = rmf_needed_encoding_size(a)
<1> DEFINE w == rmf_address_encode(a, more)
<1>0. ~(a > HIGH_ADDR_MAX)
  BY Limits, SMT
<1>1. CASE a <= LOW_ADDR_MAX
  <2> DEFINE q == IF more THEN 1 ELSE 0
             v == q * (K * Base) + a
  <2>1. q \in {0, 1} /\ v = (IF more THEN MORE_BIT_LOW ELSE 0) + a
    BY Fractions, SMT DEF MORE_BIT_LOW
  <2>2. w = BE16(v)
    BY <1>0, <1>1, <2>1 DEF rmf_address_encode, rmf_needed_encoding_size
  <2> HIDE DEF q
  <2>3. w \in Seq(Byte) /\ Len(w) = 2
    BY <1>1, <2>1, <2>2, LowWord
  <2> QED BY <1>1, <2>3 DEF rmf_needed_encoding_size
<1>2. CASE ~(a <= LOW_ADDR_MAX)
  <2> DEFINE q == IF more THEN 3 ELSE 2
             v == q * (K * (Base * Word16)) + a
  <2>1. q \in {2, 3}
    BY SMT
  <2>2. v = HIGH_ADDR_BIT + (IF more THEN MORE_BIT_HIGH ELSE 0) + a
    BY Fractions, SMT DEF MORE_BIT_HIGH, HIGH_ADDR_BIT
  <2>3. w = BE32(v)
    BY <1>0, <1>2, <2>2 DEF rmf_address_encode, rmf_needed_encoding_size
  <2> HIDE DEF q
  <2>4. w \in Seq(Byte) /\ Len(w) = 4
    BY <2>1, <2>3, HighWord
  <2> QED BY <1>2, <2>4 DEF rmf_needed_encoding_size
<1> QED BY <1>1, <1>2

(* How many bytes a length takes (numheader.c:81-115).                      *)
LEMMA EncodedLength ==
  ASSUME NEW n \in Nat, n <= NUM_LONG_MAX
  PROVE  /\ numheader_encode32(n) \in Seq(Byte)
         /\ Len(numheader_encode32(n)) = IF n <= NUM_SHORT_MAX THEN 1 ELSE 4
<1>0. ~(n > NUM_LONG_MAX)
  BY AddressLimits, SMT
<1>1. CASE n <= NUM_SHORT_MAX
  <2>1. NUM_SHORT_MAX < Base
    BY Fractions, BaseFacts, SMT DEF NUM_SHORT_MAX
  <2>2. NUM_SHORT_MAX \in Int
    BY Fractions, BaseFacts, SMT DEF NUM_SHORT_MAX
  <2>3. n \in Byte
    BY <1>1, <2>1, <2>2, BaseFacts, SMT DEF Byte
  <2>4. numheader_encode32(n) = <<n>>
    BY <1>0, <1>1 DEF numheader_encode32
  <2> QED BY <1>1, <2>3, <2>4
<1>2. CASE ~(n <= NUM_SHORT_MAX)
  <2>1. HIGH_ADDR_BIT + n \in Nat /\ HIGH_ADDR_BIT + n < Word32
    <3> DEFINE m == K * (Base * Word16)
    <3>1. m \in Nat \ {0} /\ Word32 = 4 * m /\ Word32 \div 2 = 2 * m
      BY Fractions
    <3> HIDE DEF m
    <3> QED BY <3>1, SMT DEF HIGH_ADDR_BIT, NUM_LONG_MAX
  <2>2. numheader_encode32(n) = BE32(HIGH_ADDR_BIT + n)
    BY <1>0, <1>2 DEF numheader_encode32
  <2> QED BY <1>2, <2>1, <2>2, FourBytes
<1> QED BY <1>1, <1>2

-----------------------------------------------------------------------------
(* The files that can be described to the other side.                       *)
File(Names, Digests) ==
  [name : Names, address : Nat, size : Nat, type : FILE_TYPES,
   digest_type : DIGEST_TYPES, digest : Digests]

-----------------------------------------------------------------------------
-----------------------------------------------------------------------------
(* A file put between two neighbours, apart from both, is apart from all.   *)
LEMMA InsertedApart ==
  ASSUME NEW Names, NEW Digests, NEW files \in Seq(File(Names, Digests)), Apart(files),
         NEW f \in File(Names, Digests), NEW left \in 0..Len(files),
         left > 0 => End(files[left]) <= Start(f),
         left < Len(files) => End(f) <= Start(files[left + 1])
  PROVE  LET t == InsertAt(files, left + 1, f)
         IN t \in Seq(File(Names, Digests)) /\ Apart(t)
<1> DEFINE F == File(Names, Digests)
           n == Len(files)
           t == InsertAt(files, left + 1, f)
<1>1. n \in Nat /\ DOMAIN files = 1..n /\ \A k \in 1..n : files[k] \in F
  BY LenProperties
<1>2. /\ t \in Seq(F) /\ Len(t) = n + 1
      /\ \A k \in 1..(n + 1) :
           t[k] = IF k < left + 1 THEN files[k] ELSE IF k = left + 1 THEN f ELSE files[k - 1]
  <2>1. left + 1 \in 1..(n + 1)
    BY <1>1, SMT
  <2> QED BY <2>1, Inserted
<1>3. DOMAIN t = 1..(n + 1)
  BY <1>2, LenProperties
<1>4. \A g \in F : Start(g) \in Nat /\ End(g) \in Nat /\ Start(g) <= End(g)
  BY SMT DEF File, Start, End
<1>5. \A i, j \in 1..n : i < j => End(files[i]) <= Start(files[j])
  BY <1>1 DEF Apart
<1> HIDE DEF n, t, F
<1>6. f \in F /\ left \in Nat /\ left <= n
  BY <1>1, SMT DEF F, n
<1>7. (left > 0 => End(files[left]) <= Start(f)) /\ (left < n => End(f) <= Start(files[left + 1]))
  BY DEF n
<1>8. ASSUME NEW i \in 1..n, i <= left PROVE End(files[i]) <= Start(f)
  <2>1. left > 0 /\ left \in 1..n
    BY <1>1, <1>6, <1>8, SMT
  <2>2. CASE i = left
    BY <1>7, <2>1, <2>2
  <2>3. CASE i < left
    <3>1. End(files[i]) <= Start(files[left])
      BY <1>5, <2>1, <2>3
    <3>2. /\ End(files[i]) \in Nat /\ Start(files[left]) \in Nat /\ Start(f) \in Nat
          /\ End(files[left]) \in Nat /\ Start(files[left]) <= End(files[left])
      BY <1>1, <1>4, <1>6, <2>1
    <3> QED BY <1>7, <2>1, <3>1, <3>2, SMT
  <2> QED BY <1>6, <1>8, <2>2, <2>3, SMT
<1>9. ASSUME NEW j \in 1..n, left < j PROVE End(f) <= Start(files[j])
  <2>1. left < n /\ left + 1 \in 1..n
    BY <1>1, <1>6, <1>9, SMT
  <2>2. CASE j = left + 1
    BY <1>7, <2>1, <2>2
  <2>3. CASE left + 1 < j
    <3>1. End(files[left + 1]) <= Start(files[j])
      BY <1>5, <2>1, <2>3
    <3>2. /\ End(f) \in Nat /\ Start(files[j]) \in Nat /\ Start(files[left + 1]) \in Nat
          /\ End(files[left + 1]) \in Nat /\ Start(files[left + 1]) <= End(files[left + 1])
      BY <1>1, <1>4, <1>6, <2>1
    <3> QED BY <1>7, <2>1, <3>1, <3>2, SMT
  <2> QED BY <1>6, <1>9, <2>2, <2>3, SMT
<1>10. ASSUME NEW i \in 1..(n + 1), NEW j \in 1..(n + 1), i < j
       PROVE  End(t[i]) <= Start(t[j])
  <2>1. i \in Nat /\ j \in Nat /\ i >= 1 /\ j >= 1 /\ i <= n + 1 /\ j <= n + 1
    BY <1>1, SMT
  <2>2. CASE j < left + 1
    <3>1. i < left + 1 /\ i \in 1..n /\ j \in 1..n
      BY <1>1, <1>6, <1>10, <2>1, <2>2, SMT
    <3> QED BY <1>2, <1>5, <1>10, <2>2, <3>1
  <2>3. CASE j = left + 1
    <3>1. i < left + 1 /\ i \in 1..n /\ i <= left /\ ~(j < left + 1)
      BY <1>1, <1>6, <1>10, <2>1, <2>3, SMT
    <3> QED BY <1>2, <1>8, <2>3, <3>1
  <2>4. CASE i = left + 1
    <3>1. j - 1 \in 1..n /\ left < j - 1 /\ ~(j < left + 1) /\ j # left + 1 /\ ~(i < left + 1)
      BY <1>1, <1>6, <1>10, <2>1, <2>4, SMT
    <3> QED BY <1>2, <1>9, <2>4, <3>1
  <2>5. CASE i < left + 1 /\ j > left + 1
    <3>1. i \in 1..n /\ j - 1 \in 1..n /\ i < j - 1 /\ ~(j < left + 1) /\ j # left + 1
      BY <1>1, <1>6, <1>10, <2>1, <2>5, SMT
    <3> QED BY <1>2, <1>5, <2>5, <3>1
  <2>6. CASE i > left + 1
    <3>1. /\ i - 1 \in 1..n /\ j - 1 \in 1..n /\ i - 1 < j - 1
          /\ ~(j < left + 1) /\ j # left + 1 /\ ~(i < left + 1) /\ i # left + 1
      BY <1>1, <1>6, <1>10, <2>1, <2>6, SMT
    <3> QED BY <1>2, <1>5, <3>1
  <2> QED BY <1>6, <2>1, <2>2, <2>3, <2>4, <2>5, <2>6, SMT
<1> QED BY <1>2, <1>3, <1>10 DEF Apart, t, F
-----------------------------------------------------------------------------
(* The addresses of the areas are numbers, and aligning never goes back.    *)
LEMMA AreaTypes ==
  ASSUME NEW type
  PROVE  AreaStart(type) \in Nat /\ Alignment(type) \in Nat \ {0}
  BY FileMapAssumption DEF AreaStart, Alignment

LEMMA AlignedAbove ==
  ASSUME NEW a \in Nat, NEW n \in Nat \ {0}
  PROVE  Aligned(a, n) \in Nat /\ a <= Aligned(a, n)
<1> DEFINE v == a + n - 1
           q == v \div n
           r == v % n
<1>1. v \in Nat
  BY SMT
<1> HIDE DEF v
<1>2. q \in Nat /\ r \in Nat /\ r < n /\ v = q * n + r
  BY <1>1, DivMod
<1> HIDE DEF q, r
<1>3. q * n \in Nat
  BY <1>2, SMT
<1> DEFINE m == q * n
<1>4. m \in Nat /\ v = m + r
  BY <1>2, <1>3
<1> HIDE DEF m
<1>5. a <= m
  BY <1>2, <1>4, SMT DEF v
<1> QED BY <1>4, <1>5 DEF Aligned, m, q, v

(* Where the searches of the list can end.                                  *)
LEMMA LastOfType ==
  ASSUME NEW S, NEW files \in Seq(S), NEW type
  PROVE  find_last_element_of_type(files, type) \in {0} \cup DOMAIN files
<1> DEFINE OfType(i) == FileType(files[i]) = type
           run == {i \in DOMAIN files : OfType(i) /\
                     \A j, k \in 1..i : (OfType(j) /\ j <= k) => OfType(k)}
<1>1. DOMAIN files = 1..Len(files) /\ Len(files) \in Nat /\ run \subseteq DOMAIN files
  BY LenProperties
<1>2. find_last_element_of_type(files, type) = IF run = {} THEN 0 ELSE Max(run)
  BY DEF find_last_element_of_type
<1> HIDE DEF run
<1>3. CASE run = {}
  BY <1>2, <1>3
<1>4. CASE run # {}
  BY <1>1, <1>2, <1>4, Largest
<1> QED BY <1>3, <1>4

LEMMA NextPosition ==
  ASSUME NEW S, NEW files \in Seq(S), NEW address
  PROVE  find_next_available_position(files, address) \in 0..Len(files)
<1> DEFINE before == {i \in DOMAIN files : \A j \in 1..i : Start(files[j]) < address}
           n == Len(files)
<1>1. DOMAIN files = 1..n /\ n \in Nat /\ before \in SUBSET (1..n)
  BY LenProperties
<1> HIDE DEF n
<1>2. IsFiniteSet(1..n) /\ Cardinality(1..n) = n
  BY <1>1, FS_Interval, SMT
<1> HIDE DEF before
<1>3. IsFiniteSet(before) /\ Cardinality(before) <= n
  <2> DEFINE all == 1..n
  <2>1. IsFiniteSet(all) /\ Cardinality(all) = n /\ before \in SUBSET all
    BY <1>1, <1>2
  <2> HIDE DEF all
  <2>2. IsFiniteSet(before) /\ Cardinality(before) <= Cardinality(all)
    BY <2>1, FS_Subset, Zenon
  <2> QED BY <2>1, <2>2
<1>4. Cardinality(before) \in Nat
  BY <1>3, FS_CardinalityType
<1> QED BY <1>1, <1>3, <1>4, SMT DEF before, n, find_next_available_position

-----------------------------------------------------------------------------
(* A file that create_file accepts overlaps no file of the list, whatever   *)
(* the list, the address or the type: the check of the right neighbour and  *)
(* the assertion about the left one are enough, although nothing is         *)
(* compared on the right when the file becomes the last (file_map.c:367).   *)
THEOREM CreatedFilesStayApart ==
  ASSUME NEW Names, NEW Digests, NEW files \in Seq(File(Names, Digests)), Apart(files),
         NEW info \in File(Names, Digests),
         apx_fileMap_create_file(files, info).result = "created"
  PROVE  LET after == apx_fileMap_create_file(files, info).files
         IN after \in Seq(File(Names, Digests)) /\ Apart(after)
<1> DEFINE F == File(Names, Digests)
           n == Len(files)
           last == find_last_element_of_type(files, FileType(info))
           f == IF info.address = INVALID_ADDRESS
                  THEN [info EXCEPT !.address = AutoAddress(files, FileType(info))] ELSE info
           left == IF info.address = INVALID_ADDRESS /\ last # 0
                     THEN last ELSE find_next_available_position(files, f.address)
<1>1. n \in Nat /\ DOMAIN files = 1..n /\ \A k \in 1..n : files[k] \in F
  BY LenProperties
<1>2. last \in 0..n
  <2>1. last \in {0} \cup DOMAIN files
    BY LastOfType
  <2> HIDE DEF last, n
  <2> QED BY <1>1, <2>1, SMT
<1>3. AutoAddress(files, FileType(info)) \in Nat
  <2>1. CASE last = 0
    BY <2>1, AreaTypes DEF AutoAddress
  <2>2. CASE last # 0
    <3>1. last \in 1..n
      <4> HIDE DEF last, n
      <4> QED BY <1>1, <1>2, <2>2, SMT
    <3>2. End(files[last]) \in Nat
      <4> HIDE DEF last, n
      <4>1. files[last] \in F
        BY <1>1, <3>1
      <4>2. files[last].address \in Nat /\ files[last].size \in Nat
        BY <4>1 DEF File
      <4> QED BY <4>2, SMT DEF End
    <3>3. AutoAddress(files, FileType(info)) = Aligned(End(files[last]), Alignment(FileType(info)))
      BY <2>2 DEF AutoAddress
    <3> HIDE DEF last
    <3> QED BY <3>2, <3>3, AreaTypes, AlignedAbove
  <2> QED BY <2>1, <2>2
<1>4. f \in F
  BY <1>3 DEF File
<1>5. left \in 0..n
  BY <1>2, NextPosition
<1>6. apx_fileMap_create_file(files, info) = insert_item(files, f, left)
  BY DEF apx_fileMap_create_file
<1> HIDE DEF f, left, last, F
<1>7. /\ left > 0 => End(files[left]) <= Start(f)
      /\ ~(left < n /\ (End(f) > Start(files[left + 1]) \/ End(f) > CMD_AREA_START))
      /\ insert_item(files, f, left).files = InsertAt(files, left + 1, f)
  BY <1>6 DEF insert_item
<1>8. left < n => End(f) <= Start(files[left + 1])
  <2> SUFFICES ASSUME left < n PROVE End(f) <= Start(files[left + 1])
    OBVIOUS
  <2>1. left + 1 \in 1..n
    BY <1>1, <1>5, SMT
  <2>2. files[left + 1] \in F /\ f \in F
    BY <1>1, <1>4, <2>1
  <2>3. End(f) \in Nat /\ Start(files[left + 1]) \in Nat
    BY <2>2, SMT DEF F, File, End, Start
  <2> QED BY <1>7, <2>3, SMT
<1> HIDE DEF n
<1>9. left \in 0..Len(files) /\ (left < Len(files) => End(f) <= Start(files[left + 1]))
  BY <1>5, <1>8 DEF n
<1> QED BY <1>4, <1>6, <1>7, <1>9, InsertedApart DEF F

(* When a file is put behind the last file of its own type, the assertion   *)
(* that its left neighbour ends before it (file_map.c:371) holds: the       *)
(* address assigned there is the aligned end of that very neighbour.        *)
THEOREM AssignedBehindItsType ==
  ASSUME NEW Names, NEW Digests, NEW files \in Seq(File(Names, Digests)),
         NEW info \in File(Names, Digests), info.address = INVALID_ADDRESS,
         find_last_element_of_type(files, FileType(info)) # 0
  PROVE  apx_fileMap_create_file(files, info).result # "assertion"
<1> DEFINE F == File(Names, Digests)
           last == find_last_element_of_type(files, FileType(info))
           f == [info EXCEPT !.address = AutoAddress(files, FileType(info))]
<1>1. last \in DOMAIN files /\ last # 0
  BY LastOfType
<1>2. apx_fileMap_create_file(files, info) = insert_item(files, f, last)
  BY DEF apx_fileMap_create_file
<1>3. Start(f) = Aligned(End(files[last]), Alignment(FileType(info)))
  BY DEF Start, File, AutoAddress
<1> HIDE DEF f, last
<1>4. files[last] \in F
  BY <1>1, LenProperties
<1>5. End(files[last]) \in Nat
  <2>1. files[last].address \in Nat /\ files[last].size \in Nat
    BY <1>4 DEF File
  <2> QED BY <2>1, SMT DEF End
<1>6. End(files[last]) <= Start(f)
  BY <1>3, <1>5, AreaTypes, AlignedAbove
<1> QED BY <1>2, <1>6 DEF insert_item
=============================================================================
