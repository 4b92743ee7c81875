----------------------------- MODULE Decompress -----------------------------
(***************************************************************************)
(* Decompression of message bodies into a reusable, growing scratch        *)
(* buffer (src/src/logjam-util.c: decompress_frame, decompress_frame_gzip, *)
(* decompress_frame_snappy).                                               *)
(*                                                                         *)
(* A worker owns one buffer and decompresses the bodies it receives, one   *)
(* call at a time; the buffer keeps its size from one call to the next.    *)
(* A body is abstracted to the length of its decompressed data, or to      *)
(* Invalid for data the codec rejects whatever the buffer size.  Sizes are *)
(* in units: MaxBufferSize stands for max_buffer_size (32 MiB).            *)
(***************************************************************************)
EXTENDS Naturals

CONSTANTS
    Methods,        \* the compression methods bodies arrive with
    MaxBufferSize,  \* max_buffer_size
    InitialSize,    \* the size the worker's buffer is created with
    Lengths,        \* the decompressed lengths of valid bodies
    Invalid         \* a body no buffer size makes decompressible

ASSUME MethodsAssumption == Methods \subseteq {"gzip", "snappy"}
ASSUME SizeAssumption ==
    /\ MaxBufferSize \in Nat \ {0}
    /\ InitialSize \in 1..MaxBufferSize
ASSUME LengthsAssumption == Lengths \subseteq Nat /\ Invalid \notin Nat

Bodies == Lengths \cup {Invalid}

VARIABLES
    size,       \* zchunk_max_size(buffer)
    method,     \* the compression method of the body being decompressed
    body,       \* the body being decompressed
    result,     \* "busy" while a call runs, then "ok" or "fail"
    largest,    \* the largest decompressed length the buffer had to hold
    next,       \* next_size, the loop variable of the snappy growth
    stage       \* "start", or "grow" inside the snappy growth loop

vars == <<size, method, body, result, largest, next, stage>>

TypeOK ==
    /\ size \in 1..MaxBufferSize
    /\ method \in Methods
    /\ body \in Bodies
    /\ result \in {"busy", "ok", "fail"}
    /\ largest \in Lengths \cup {0}
    /\ next \in Nat
    /\ stage \in {"start", "grow"}

-----------------------------------------------------------------------------
\* The codec succeeds when the destination holds the decompressed data.
Fits(b, capacity) == b # Invalid /\ b <= capacity

\* Variant: the growth is not capped at the ceiling.
CapUncapped(n) == n

\* if (next_size > max_buffer_size) next_size = max_buffer_size.
Cap(n) == IF n > MaxBufferSize THEN MaxBufferSize ELSE n

\* while (next_size < max_buffer_size): the snappy growth goes on doubling.
BelowCeiling(n) == n < MaxBufferSize

Init ==
    /\ size = InitialSize
    /\ method \in Methods
    /\ body \in Bodies
    /\ result = "busy"
    /\ largest = 0
    /\ next = 0
    /\ stage = "start"

(* A new body arrives once the previous call has returned.                 *)
Receive ==
    /\ result # "busy"
    /\ \E m \in Methods, b \in Bodies :
          /\ method' = m
          /\ body' = b
    /\ result' = "busy"
    /\ UNCHANGED <<size, largest, next, stage>>

(* One iteration of decompress_frame_gzip's loop                           *)
(*   while (zchunk_max_size(buffer) <= max_buffer_size):                   *)
(* uncompress succeeds, or the buffer is doubled (capped) and the loop     *)
(* goes round again.                                                       *)
GzipStep ==
    /\ result = "busy"
    /\ method = "gzip"
    /\ IF size > MaxBufferSize
         THEN /\ result' = "fail"
              /\ UNCHANGED <<size, largest>>
         ELSE IF Fits(body, size)
           THEN /\ result' = "ok"
                /\ largest' = IF body > largest THEN body ELSE largest
                /\ UNCHANGED size
           ELSE /\ size' = Cap(2 * size)
                /\ UNCHANGED <<result, largest>>
    /\ UNCHANGED <<method, body, next, stage>>

\* snappy_uncompress into a destination of the given capacity.
Uncompress(capacity) ==
    /\ result' = IF Fits(body, capacity) THEN "ok" ELSE "fail"
    /\ largest' = IF Fits(body, capacity) /\ body > largest
                    THEN body ELSE largest

\* Variant: the destination buffer is never grown.
SnappyStepNoGrowth ==
    /\ result = "busy"
    /\ method = "snappy"
    /\ stage = "start"
    /\ IF body = Invalid
         THEN /\ result' = "fail"
              /\ UNCHANGED largest
         ELSE Uncompress(size)
    /\ UNCHANGED <<size, method, body, next, stage>>

(* decompress_frame_snappy up to its growth loop:                          *)
(* snappy_uncompressed_length fails on invalid data; a buffer too small    *)
(* starts growing at twice its size; otherwise snappy_uncompress.          *)
SnappyStep ==
    /\ result = "busy"
    /\ method = "snappy"
    /\ stage = "start"
    /\ CASE body = Invalid ->
              /\ result' = "fail"
              /\ UNCHANGED <<largest, next, stage>>
         [] body > size ->
              /\ next' = 2 * size
              /\ stage' = "grow"
              /\ UNCHANGED <<result, largest>>
         [] OTHER ->
              /\ Uncompress(size)
              /\ UNCHANGED <<next, stage>>
    /\ UNCHANGED <<size, method, body>>

(* One iteration of the growth loop: next_size *= 2.                       *)
SnappyGrow ==
    /\ stage = "grow"
    /\ BelowCeiling(next)
    /\ next' = 2 * next
    /\ UNCHANGED <<size, method, body, result, largest, stage>>

(* The loop has ended: the size is capped at the ceiling, zchunk_resize,   *)
(* then snappy_uncompress into the grown buffer.                           *)
SnappyResize ==
    /\ stage = "grow"
    /\ ~BelowCeiling(next)
    /\ size' = Cap(next)
    /\ Uncompress(Cap(next))
    /\ stage' = "start"
    /\ UNCHANGED <<method, body, next>>

Next == Receive \/ GzipStep \/ SnappyStep \/ SnappyGrow \/ SnappyResize

(* A call runs without interruption on its worker thread.                  *)
Spec ==
    /\ Init /\ [][Next]_vars
    /\ WF_vars(GzipStep) /\ WF_vars(SnappyStep)
    /\ WF_vars(SnappyGrow) /\ WF_vars(SnappyResize)

-----------------------------------------------------------------------------
(* Properties.                                                             *)

\* The spec: a body is rejected only when it is invalid or does not fit
\* under the ceiling, and an accepted one fits the buffer it is in.
NoSpuriousFailure ==
    /\ result = "fail" => ~Fits(body, MaxBufferSize)
    /\ result = "ok" => Fits(body, size)

\* The spec: decompression returns failure rather than looping when the
\* output would exceed the ceiling: every call returns.
CallReturns == []<>(result # "busy")

\* The spec: the buffer grows by doubling until it holds the data, up to
\* the ceiling: it is never larger than its initial size or twice the
\* largest body it had to hold.
BufferTight ==
    size <= IF InitialSize > 2 * largest THEN InitialSize ELSE 2 * largest

=============================================================================
