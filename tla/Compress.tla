------------------------------ MODULE Compress ------------------------------
(***************************************************************************)
(* Compression of message bodies into a reusable, growing scratch buffer   *)
(* (src/src/logjam-util.c: compress_message_data,                          *)
(* compress_message_data_gzip, compress_message_data_snappy).              *)
(*                                                                         *)
(* A producer owns one buffer and compresses the bodies it sends, one call *)
(* at a time; the buffer keeps its size from one call to the next.  A call *)
(* asks the codec for the worst-case compressed size of the data, grows    *)
(* the buffer by doubling until that bound fits, compresses into it and    *)
(* copies the result into the body.  Sizes are in bytes.  Unlike           *)
(* decompression, compression has no ceiling.                              *)
(***************************************************************************)
EXTENDS Naturals

CONSTANTS
    Methods,      \* the compression methods the producer may be given
    InitialSize,  \* the size the producer's buffer is created with
    Lengths       \* the lengths of the bodies to compress

ASSUME MethodsAssumption == Methods \subseteq {"gzip", "snappy", "other"}
ASSUME SizeAssumption == InitialSize \in Nat \ {0}
ASSUME LengthsAssumption == Lengths \subseteq Nat /\ Lengths # {}

VARIABLES
    size,    \* zchunk_max_size(buffer)
    method,  \* the compression method of the call
    len,     \* data_len
    next,    \* next_size, the loop variable of the growth
    phase,   \* "idle" between calls, "grow" in the loop, "compress" after it
    out      \* the length of the last compressed body

vars == <<size, method, len, next, phase, out>>

\* The codecs' worst-case output size: zlib's compressBound and
\* snappy_max_compressed_length.
LibraryBound(m, n) ==
    IF m = "gzip" THEN n + n \div 4096 + n \div 16384 + n \div 33554432 + 13
                  ELSE 32 + n + n \div 6

TypeOK ==
    /\ size \in Nat \ {0}
    /\ method \in Methods
    /\ len \in Lengths
    /\ next \in Nat
    /\ phase \in {"idle", "grow", "compress"}
    /\ out \in Nat

-----------------------------------------------------------------------------
\* Variant: the buffer is sized for the raw data, not the compression bound.
RequiredSizeRaw(m, n) == n

\* compressed_len = compressBound(raw_len), or
\* max_compressed_len = snappy_max_compressed_length(data_len).
RequiredSize(m, n) == LibraryBound(m, n)

\* Variant: the loop goes round once more when the bound is hit exactly.
KeepDoublingAtBound(n, b) == n <= b

\* while (next_size < compressed_len) next_size *= 2.
KeepDoubling(n, b) == n < b

Init ==
    /\ size = InitialSize
    /\ method \in Methods
    /\ len \in Lengths
    /\ next = 0
    /\ phase = "idle"
    /\ out = 0

(* compress_message_data: a body to compress, with the method it is to be  *)
(* compressed with.  An unknown method is reported and the body left       *)
(* alone.  Otherwise, when the buffer is smaller than the bound, the       *)
(* growth starts at twice the current size.                                *)
Call ==
    /\ phase = "idle"
    /\ \E m \in Methods, n \in Lengths :
          /\ method' = m
          /\ len' = n
          /\ CASE m = "other" ->
                    UNCHANGED <<next, phase>>
               [] size < RequiredSize(m, n) ->
                    /\ next' = 2 * size
                    /\ phase' = "grow"
               [] OTHER ->
                    /\ phase' = "compress"
                    /\ UNCHANGED next
    /\ UNCHANGED <<size, out>>

(* One iteration of the doubling loop.                                     *)
Grow ==
    /\ phase = "grow"
    /\ KeepDoubling(next, RequiredSize(method, len))
    /\ next' = 2 * next
    /\ UNCHANGED <<size, method, len, phase, out>>

(* The loop has ended: zchunk_resize(buffer, next_size).                   *)
Resize ==
    /\ phase = "grow"
    /\ ~KeepDoubling(next, RequiredSize(method, len))
    /\ size' = next
    /\ phase' = "compress"
    /\ UNCHANGED <<method, len, next, out>>

(* compress or snappy_compress into the buffer (the codec writes at most   *)
(* its bound), then the result is copied into a new body message.          *)
Deflate ==
    /\ phase = "compress"
    /\ \E c \in 0..LibraryBound(method, len) : out' = c
    /\ phase' = "idle"
    /\ UNCHANGED <<size, method, len, next>>

Next == Call \/ Grow \/ Resize \/ Deflate

Spec == Init /\ [][Next]_vars

-----------------------------------------------------------------------------
(* Properties.                                                             *)

\* The code's assertion assert(compressed_len <= zchunk_max_size(buffer)):
\* whatever the codec wrote fits the buffer, across calls that reuse it.
BufferHoldsOutput == out <= size

\* The spec's geometric growth: a call grows the buffer to less than twice
\* the size it needs, and never shrinks it.
GrowthTight ==
    [][/\ size' >= size
       /\ size' > size => size' < 2 * LibraryBound(method, len)]_vars

=============================================================================
