------------------------- MODULE ProgramHeader_proofs -------------------------
(***************************************************************************)
(* The queue length that the virtual machine computes from a header is the *)
(* one the compiler was given, for every element size, every queue length  *)
(* and every width of the integers.                                        *)
(***************************************************************************)
EXTENDS ProgramHeader, TLAPS

(* A number that fits a field is stored as it is (packLE, unpackLE).        *)
LEMMA StoredFits ==
  ASSUME NEW n \in Nat, n <= U32Max
  PROVE  Stored(n, VariantOf(n)) = n
<1>1. /\ n <= VariantMax(VariantOf(n))
      /\ VariantMax(VariantOf(n)) \in Nat
  BY WidthAssumption DEF VariantOf, VariantMax, UINT8, UINT16, UINT32
<1>2. \A m \in Nat : n <= m => n % (m + 1) = n
  BY SMT
<1> QED BY <1>1, <1>2 DEF Stored

(* The remainder and the quotient of a product are what they should be.     *)
LEMMA ProductDivides ==
  ASSUME NEW d \in Nat \ {0}, NEW q \in Nat
  PROVE  (d * q) % d = 0 /\ (d * q) \div d = q
  BY SMT

(* An element variant and a queue variant are both recovered from the sum   *)
(* of the element's base and the queue variant.                             *)
LEMMA VariantsRecovered ==
  ASSUME NEW e \in Variants, NEW q \in Variants
  PROVE  LET i == DataSizeVariant(e, q)
         IN /\ i \in ELEMENT_SIZE_U8_BASE .. ELEMENT_SIZE_LAST
            /\ ElementVariantOf(i) = e
            /\ QueueVariantOf(i) = q
  BY DEF Variants, DataSizeVariant, ElementBase, ElementVariantOf, QueueVariantOf, UINT8, UINT16,
         UINT32, ELEMENT_SIZE_U8_BASE, ELEMENT_SIZE_U16_BASE, ELEMENT_SIZE_U32_BASE,
         ELEMENT_SIZE_LAST

(* What encode_header writes of a legal port, decode_header reads back: the *)
(* size of the data and, of a queued port, the element size and the queue   *)
(* length, although the queue length itself is not stored.                  *)
THEOREM HeaderRoundTrip ==
  ASSUME NEW type, NEW dynamic \in BOOLEAN,
         NEW element_size \in Nat \ {0}, NEW queue_length \in Nat,
         DataSize(element_size, queue_length) <= U32Max
  PROVE  DecodeHeader(EncodeHeader(type, element_size, queue_length, dynamic)) =
           [rc |-> "ok", type |-> type, dynamic |-> dynamic,
            data_size    |-> DataSize(element_size, queue_length),
            element_size |-> IF queue_length > 0 THEN element_size ELSE 0,
            queue_length |-> queue_length]
<1> DEFINE size == DataSize(element_size, queue_length)
           lsize == VariantSize(VariantOf(queue_length))
           h == EncodeHeader(type, element_size, queue_length, dynamic)
           i == DataSizeVariant(VariantOf(element_size), VariantOf(queue_length))
<1>1. VariantOf(queue_length) \in Variants /\ VariantOf(element_size) \in Variants
  BY DEF VariantOf, Variants
<1>2. lsize \in 1..4
  BY DEF VariantSize
<1>3. queue_length > 0 => element_size * queue_length \in Nat /\ element_size <= element_size * queue_length
  <2> SUFFICES ASSUME queue_length > 0
               PROVE  element_size * queue_length \in Nat /\ element_size <= element_size * queue_length
    OBVIOUS
  <2> QED BY SMT
<1>4. size \in Nat /\ size <= U32Max
  BY <1>2, <1>3 DEF DataSize
<1>5. Stored(size, VariantOf(size)) = size
  BY <1>4, StoredFits
<1>h. /\ h.type = type /\ h.dynamic = dynamic /\ h.queued = (queue_length > 0)
      /\ h.data = Stored(size, VariantOf(size))
      /\ h.instruction = IF queue_length > 0 THEN i ELSE 0
      /\ h.element = IF queue_length > 0 THEN Stored(element_size, VariantOf(element_size)) ELSE 0
  <2>1. ~(size > U32Max)
    BY <1>4, WidthAssumption
  <2> QED BY <2>1, Zenon DEF EncodeHeader
<1>6. CASE queue_length = 0
  <2>1. ~(queue_length > 0)
    BY <1>6
  <2>2. /\ h.type = type /\ h.dynamic = dynamic /\ ~h.queued /\ h.data = size
    BY <1>h, <1>5, <2>1
  <2> HIDE DEF h, size
  <2>3. DecodeHeader(h) = [rc |-> "ok", type |-> h.type, dynamic |-> h.dynamic,
                           data_size |-> h.data, element_size |-> 0, queue_length |-> 0]
    BY <2>2 DEF DecodeHeader
  <2> QED BY <2>1, <2>2, <2>3, <1>6 DEF h, size
<1>7. CASE queue_length > 0
  <2>1. size = lsize + element_size * queue_length
    BY <1>7 DEF DataSize
  <2>2. Stored(element_size, VariantOf(element_size)) = element_size
    BY <1>2, <1>3, <1>4, <1>7, <2>1, StoredFits, WidthAssumption
  <2>3. /\ h.type = type /\ h.dynamic = dynamic /\ h.queued /\ h.data = size
        /\ h.instruction = i /\ h.element = element_size
    BY <1>h, <1>5, <1>7, <2>2
  <2>4. /\ i \in ELEMENT_SIZE_U8_BASE .. ELEMENT_SIZE_LAST
        /\ QueueVariantOf(i) = VariantOf(queue_length)
    BY <1>1, VariantsRecovered
  <2>5. lsize <= size /\ size - lsize = element_size * queue_length
    BY <1>2, <1>3, <1>7, <2>1
  <2>6. (size - lsize) % element_size = 0 /\ (size - lsize) \div element_size = queue_length
    BY <2>5, ProductDivides
  <2>7. ~(lsize > h.data) /\ VariantSize(QueueVariantOf(h.instruction)) = lsize
    BY <2>3, <2>4, <2>5, <1>2, <1>4
  <2> HIDE DEF h, i, lsize, size
  <2>8. DecodeHeader(h) = [rc |-> "ok", type |-> h.type, dynamic |-> h.dynamic,
                           data_size |-> h.data, element_size |-> h.element,
                           queue_length |-> (h.data - lsize) \div h.element]
    BY <2>3, <2>4, <2>6, <2>7 DEF DecodeHeader
  <2> QED BY <2>3, <2>6, <2>8, <1>7 DEF size, h
<1> QED BY <1>6, <1>7
=============================================================================
