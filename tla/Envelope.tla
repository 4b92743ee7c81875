------------------------------ MODULE Envelope ------------------------------
(***************************************************************************)
(* The meta-information frame of the wire envelope                         *)
(* (src/src/logjam-util.c: htonll, ntohll, frame_extract_meta_info).       *)
(*                                                                         *)
(* A producer fills a meta header, converts it to network byte order and   *)
(* sends it as the last frame of a message; a consumer, possibly on a host *)
(* of the other byte order, checks the frame's size, converts the header   *)
(* back and checks its tag and version.  The 64-bit fields are modelled by *)
(* the sequence number, a word of Width bytes of CharBit bits each; the    *)
(* conversion is modelled byte by byte, as the code does it, on the        *)
(* memory representation of the word on either host.  Tag and version are  *)
(* converted by the system's htons/htonl (not part of this code) and are   *)
(* kept as values.                                                         *)
(***************************************************************************)
EXTENDS Naturals

CONSTANTS
    Width,      \* sizeof(uint64_t)
    CharBit,    \* CHAR_BIT
    Tag,        \* META_INFO_TAG
    Version,    \* META_INFO_VERSION
    Others,     \* tags and versions of foreign or stale producers
    HeaderSize  \* sizeof(msg_meta_t)

ASSUME WidthAssumption == Width \in Nat \ {0} /\ CharBit \in Nat \ {0}
ASSUME HeaderAssumption ==
    HeaderSize \in Nat \ {0} /\ Tag \notin Others /\ Version \notin Others

\* 2^k.
Pow2[k \in Nat] == IF k = 0 THEN 1 ELSE 2 * Pow2[k - 1]

ByteRange == 0..(Pow2[CharBit] - 1)
Words == 0..(Pow2[Width * CharBit] - 1)
Addrs == 0..(Width - 1)

\* The byte of x at bit position k * CharBit.
ByteOf(x, k) == (x \div Pow2[k * CharBit]) % Pow2[CharBit]

\* ((unsigned char *)&x)[i] on a host of the given byte order.
Mem(x, big) == [i \in Addrs |-> ByteOf(x, IF big THEN Width - 1 - i ELSE i)]

\* The word a host of the given byte order reads from the bytes m.
FromMem(m, big) ==
    LET val[i \in 0..Width] ==
          IF i = 0 THEN 0
          ELSE val[i - 1] + m[i - 1] * Pow2[(IF big THEN Width - i ELSE i - 1) * CharBit]
    IN  val[Width]

\* The reference: network byte order puts the most significant byte first.
NetBytes(x) == [i \in Addrs |-> ByteOf(x, Width - 1 - i)]

-----------------------------------------------------------------------------
\* Variant: the bytes are taken from the last address down.
HtonllReversed(x, big) ==
    LET acc[i \in 0..Width] ==
          IF i = 0 THEN 0
          ELSE ((acc[i - 1] * Pow2[CharBit]) % Pow2[Width * CharBit])
               + Mem(x, big)[Width - i]
    IN  acc[Width]

(* htonll: for each address i from the first, result <<= CHAR_BIT (in a    *)
(* 64-bit word) and result += the byte of net_number at address i.         *)
Htonll(x, big) ==
    LET acc[i \in 0..Width] ==
          IF i = 0 THEN 0
          ELSE ((acc[i - 1] * Pow2[CharBit]) % Pow2[Width * CharBit])
               + Mem(x, big)[i - 1]
    IN  acc[Width]

(* ntohll: for each address i from the last, the byte of result at address *)
(* i = native_number & UCHAR_MAX, then native_number >>= CHAR_BIT.         *)
Ntohll(x, big) ==
    FromMem([i \in Addrs |-> ByteOf(x, Width - 1 - i)], big)

\* Variant: the version is not checked.
AcceptTagOnly(m) == m.tag = Tag

\* meta->tag == META_INFO_TAG && meta->version == META_INFO_VERSION.
Accept(m) == m.tag = Tag /\ m.version = Version

VARIABLES
    meta,         \* the header the producer sends
    size,         \* the size of the frame the consumer receives
    wire,         \* the header as it travels: sequence number as bytes
    phase,        \* "fill", "sent" or "done"
    rc,           \* the result of frame_extract_meta_info
    decoded,      \* the header the consumer decoded
    producerBig,  \* the producer's host is big-endian
    consumerBig   \* the consumer's host is big-endian

vars == <<meta, size, wire, phase, rc, decoded, producerBig, consumerBig>>

Metas == [tag : {Tag} \cup Others, version : {Version} \cup Others, seq : Words]
Sizes == {HeaderSize, HeaderSize - 1}

TypeOK ==
    /\ meta \in Metas
    /\ size \in Sizes
    /\ wire \in [tag : {Tag} \cup Others, version : {Version} \cup Others,
                 seq : [Addrs -> ByteRange]]
    /\ phase \in {"fill", "sent", "done"}
    /\ rc \in BOOLEAN
    /\ decoded \in Metas
    /\ producerBig \in BOOLEAN
    /\ consumerBig \in BOOLEAN

NoWire == [tag |-> Tag, version |-> Version, seq |-> [i \in Addrs |-> 0]]
NoMeta == [tag |-> Tag, version |-> Version, seq |-> 0]

Init ==
    /\ meta \in Metas
    /\ size \in Sizes
    /\ wire = NoWire
    /\ phase = "fill"
    /\ rc = FALSE
    /\ decoded = NoMeta
    /\ producerBig \in BOOLEAN
    /\ consumerBig \in BOOLEAN

(* The producer encodes the header (meta_info_encode: each field in        *)
(* network byte order) and sends it as the message's last frame; the frame *)
(* may arrive whole, or short (a foreign or truncated frame).              *)
Send ==
    /\ phase = "fill"
    /\ wire' = [tag |-> meta.tag, version |-> meta.version,
                seq |-> Mem(Htonll(meta.seq, producerBig), producerBig)]
    /\ phase' = "sent"
    /\ UNCHANGED <<meta, size, rc, decoded, producerBig, consumerBig>>

(* frame_extract_meta_info: the size check, the memcpy and                 *)
(* meta_info_decode, then the tag and version check.                       *)
Extract ==
    /\ phase = "sent"
    /\ IF size = HeaderSize
         THEN LET m == [tag |-> wire.tag, version |-> wire.version,
                        seq |-> Ntohll(FromMem(wire.seq, consumerBig), consumerBig)]
              IN  /\ decoded' = m
                  /\ rc' = Accept(m)
         ELSE /\ rc' = FALSE
              /\ UNCHANGED decoded
    /\ phase' = "done"
    /\ UNCHANGED <<meta, size, wire, producerBig, consumerBig>>

(* The next message, from any producer to any consumer.                    *)
NextMessage ==
    /\ phase = "done"
    /\ meta' \in Metas
    /\ size' \in Sizes
    /\ producerBig' \in BOOLEAN
    /\ consumerBig' \in BOOLEAN
    /\ phase' = "fill"
    /\ wire' = NoWire
    /\ rc' = FALSE
    /\ decoded' = NoMeta

Next == Send \/ Extract \/ NextMessage

Spec == Init /\ [][Next]_vars

-----------------------------------------------------------------------------
(* Properties.                                                             *)

\* The spec's "stored in network byte order": whatever the producer's byte
\* order, the bytes of the sequence number on the wire are big-endian.
WireNetworkOrder == phase # "fill" => wire.seq = NetBytes(meta.seq)

\* The spec's envelope round trip, across hosts of either byte order: the
\* consumer accepts exactly a whole frame of the expected tag and version,
\* and then decodes exactly the header that was sent.
RoundTrip ==
    phase = "done" =>
        /\ rc = (size = HeaderSize /\ meta.tag = Tag /\ meta.version = Version)
        /\ rc => decoded = meta

=============================================================================
