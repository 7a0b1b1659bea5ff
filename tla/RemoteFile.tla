----------------------------- MODULE RemoteFile -----------------------------
(***************************************************************************)
(* The bytes of the RemoteFile protocol: the length in front of a message  *)
(* (src/apx/src/numheader.c), its address (src/apx/src/remotefile.c) and   *)
(* the commands written to the command area (also src/apx/src/file_info.c).*)
(*                                                                         *)
(* A byte is a number below Base.  The code has Base = 256; every constant *)
(* of remotefile.h is the same fraction of the word for a smaller Base.    *)
(***************************************************************************)
EXTENDS Integers, Sequences

CONSTANTS
  Base,         (* the number of values of a byte                          *)
  CmdAreaSize,  (* RMF_CMD_AREA_SIZE                                       *)
  DigestSize    (* RMF_SHA256_SIZE                                         *)

ASSUME RemoteFileAssumption ==
  /\ Base \in Nat /\ Base >= 4 /\ Base % 4 = 0
  /\ CmdAreaSize \in 1..(Base * Base * Base)
  /\ DigestSize \in Nat

Byte == 0..(Base - 1)
Word16 == Base * Base
Word32 == Word16 * Word16

LOW_ADDR_MAX    == Word16 \div 4 - 1      (* 0x3FFF     *)
MORE_BIT_LOW    == Word16 \div 4          (* 0x4000     *)
HIGH_ADDR_MAX   == Word32 \div 4 - 1      (* 0x3FFFFFFF *)
MORE_BIT_HIGH   == Word32 \div 4          (* 0x40000000 *)
HIGH_ADDR_BIT   == Word32 \div 2          (* 0x80000000 *)
INVALID_ADDRESS == Word32 \div 2 - 1      (* 0x7FFFFFFF *)
CMD_AREA_START  == HIGH_ADDR_MAX + 1 - CmdAreaSize
NUM_SHORT_MAX   == Base \div 2 - 1        (* 127        *)
NUM_LONG_MAX    == Word32 \div 2 - 1

(* packBE, packLE and unpackBE, unpackLE of two and of four bytes.          *)
BE16(v) == <<v \div Base, v % Base>>
BE32(v) == BE16(v \div Word16) \o BE16(v % Word16)
LE16(v) == <<v % Base, v \div Base>>
LE32(v) == LE16(v % Word16) \o LE16(v \div Word16)
FromBE16(b) == b[1] * Base + b[2]
FromBE32(b) == FromBE16(b) * Word16 + FromBE16(<<b[3], b[4]>>)
FromLE16(b) == b[2] * Base + b[1]
FromLE32(b) == FromLE16(<<b[3], b[4]>>) * Word16 + FromLE16(b)

From(bytes, n) == SubSeq(bytes, n, Len(bytes))

-----------------------------------------------------------------------------
(* numheader.c: a length is one byte or, with the highest bit set, four.    *)

numheader_encode32(n) ==
  IF n > NUM_LONG_MAX THEN <<>>
  ELSE IF n <= NUM_SHORT_MAX THEN <<n>> ELSE BE32(HIGH_ADDR_BIT + n)

(* The number of bytes taken, 0 while too few have arrived, and the length. *)
numheader_decode32(bytes) ==
  IF bytes[1] < Base \div 2 THEN [size |-> 1, value |-> bytes[1]]
  ELSE IF Len(bytes) >= 4 THEN [size |-> 4, value |-> FromBE32(bytes) - HIGH_ADDR_BIT]
  ELSE [size |-> 0, value |-> 0]

-----------------------------------------------------------------------------
(* remotefile.c: an address takes two bytes up to LOW_ADDR_MAX, four above. *)
(* The first byte also carries the high bit and the more bit.               *)

(* Faulty variant: the first high address is taken for a low one.           *)
EncodingSizeOffByOne(address) == IF address <= LOW_ADDR_MAX + 1 THEN 2 ELSE 4

rmf_needed_encoding_size(address) == IF address <= LOW_ADDR_MAX THEN 2 ELSE 4

rmf_address_encode(address, more) ==
  IF address > HIGH_ADDR_MAX THEN <<>>
  ELSE IF rmf_needed_encoding_size(address) = 2
         THEN BE16((IF more THEN MORE_BIT_LOW ELSE 0) + address)
  ELSE BE32(HIGH_ADDR_BIT + (IF more THEN MORE_BIT_HIGH ELSE 0) + address)

(* A size of 0 means that the bytes hold no address.                        *)
rmf_address_decode(bytes) ==
  LET high == bytes[1] >= Base \div 2
      more == (bytes[1] \div (Base \div 4)) % 2 = 1
      size == IF high THEN 4 ELSE 2
  IN IF bytes = <<>> \/ Len(bytes) < size
       THEN [size |-> 0, address |-> INVALID_ADDRESS, more |-> FALSE]
       ELSE [size |-> size, more |-> more,
             address |-> IF high THEN FromBE32(bytes) % (HIGH_ADDR_MAX + 1)
                         ELSE FromBE16(bytes) % (LOW_ADDR_MAX + 1)]

-----------------------------------------------------------------------------
(* The commands.                                                            *)

CMD_ACK     == 0
CMD_PUBLISH == 3
CMD_REVOKE  == 4
CMD_OPEN    == 10
CMD_CLOSE   == 11

rmf_encode_acknowledge_cmd == LE32(CMD_ACK)
rmf_encode_open_file_cmd(address) == LE32(CMD_OPEN) \o LE32(address)

(* The command at the beginning of the bytes, -1 if there are too few.      *)
rmf_decode_cmd_type(bytes) == IF Len(bytes) < 4 THEN -1 ELSE FromLE32(bytes)

(* file_info.c: what is published of a file.  The file types 0..5 (fixed,   *)
(* dynamic, device, stream) and the digest types 0..2 are sent as they are; *)
(* a digest is padded with zeros.                                           *)
FILE_TYPES   == 0..5
DIGEST_TYPES == 0..2

(* Faulty variant: size and address change places.                          *)
EncodePublishSwapped(info) ==
  LE32(CMD_PUBLISH) \o LE32(info.size) \o LE32(info.address) \o LE16(info.type)
    \o LE16(info.digest_type) \o info.digest \o info.name \o <<0>>

rmf_encode_publish_file_cmd(info) ==
  LE32(CMD_PUBLISH) \o LE32(info.address) \o LE32(info.size) \o LE16(info.type)
    \o LE16(info.digest_type) \o info.digest \o info.name \o <<0>>

FILE_INFO_HEADER_SIZE == 16 + DigestSize

(* Faulty variant: the zero byte is taken into the name.                    *)
NameLengthWithZero(bytes) ==
  LET zeros == {i \in DOMAIN bytes : bytes[i] = 0}
  IN IF zeros = {} THEN 0 ELSE CHOOSE i \in zeros : \A j \in zeros : i <= j

(* The name ends before the first zero byte, which must be there.           *)
NameLength(bytes) ==
  LET zeros == {i \in DOMAIN bytes : bytes[i] = 0}
  IN IF zeros = {} THEN 0 ELSE (CHOOSE i \in zeros : \A j \in zeros : i <= j) - 1

rmf_decode_publish_file_cmd(bytes) ==
  LET type        == FromLE16(From(bytes, 13))
      digest_type == FromLE16(From(bytes, 15))
      text        == From(bytes, FILE_INFO_HEADER_SIZE + 1)
      length      == NameLength(text)
  IN IF \/ Len(bytes) <= FILE_INFO_HEADER_SIZE
        \/ FromLE32(bytes) # CMD_PUBLISH
        \/ type \notin FILE_TYPES \/ digest_type \notin DIGEST_TYPES
        \/ length = 0
       THEN [ok |-> FALSE]
       ELSE [ok |-> TRUE,
             info |-> [name |-> SubSeq(text, 1, length), address |-> FromLE32(From(bytes, 5)),
                       size |-> FromLE32(From(bytes, 9)), type |-> type,
                       digest_type |-> digest_type,
                       digest |-> SubSeq(bytes, 17, FILE_INFO_HEADER_SIZE)]]
=============================================================================
