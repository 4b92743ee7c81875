-------------------------- MODULE DecompressProofs --------------------------
(***************************************************************************)
(* Proofs about the decompression buffer for every ceiling, initial size  *)
(* and set of body lengths: the buffer never leaves 1..max_buffer_size,    *)
(* and a call fails only on a body that no buffer under the ceiling would  *)
(* hold.                                                                   *)
(*                                                                         *)
(* TypeOK and NoSpuriousFailure together are inductive.  The growth loops  *)
(* need no extra invariant: the gzip loop caps every doubling, and the     *)
(* snappy loop only ends once next_size has reached the ceiling, so the    *)
(* capped size is the ceiling itself.                                      *)
(***************************************************************************)
EXTENDS Decompress, TLAPS

Inv == TypeOK /\ NoSpuriousFailure

-----------------------------------------------------------------------------
\* A doubled size capped at the ceiling is a size of the buffer.
LEMMA CapRange ==
    ASSUME NEW n \in Nat \ {0}
    PROVE  Cap(n) \in 1..MaxBufferSize
BY SizeAssumption DEF Cap

\* The snappy loop's exit: a next_size at or above the ceiling is capped to
\* the ceiling.
LEMMA CapAtCeiling ==
    ASSUME NEW n \in Nat, ~BelowCeiling(n)
    PROVE  Cap(n) = MaxBufferSize
BY SizeAssumption DEF Cap, BelowCeiling

\* What snappy_uncompress leaves behind, for a capacity of the buffer.
LEMMA UncompressInv ==
    ASSUME TypeOK, NEW c \in 1..MaxBufferSize, Uncompress(c)
    PROVE  /\ largest' \in Lengths \cup {0}
           /\ result' \in {"ok", "fail"}
           /\ result' = "ok" => Fits(body, c)
           /\ result' = "fail" => ~Fits(body, c)
BY LengthsAssumption DEF Uncompress, Fits, TypeOK, Bodies

LEMMA InitInv == Init => Inv
BY SizeAssumption DEF Init, Inv, TypeOK, NoSpuriousFailure

LEMMA NextInv == Inv /\ [Next]_vars => Inv'
<1> SUFFICES ASSUME Inv, [Next]_vars PROVE Inv'
  OBVIOUS
<1> USE DEF Inv
<1>1. CASE Receive
  BY <1>1 DEF Receive, TypeOK, NoSpuriousFailure
<1>2. CASE GzipStep
  <2>1. size \in 1..MaxBufferSize /\ ~(size > MaxBufferSize)
    BY SizeAssumption DEF TypeOK
  <2>2. CASE Fits(body, size)
    <3>1. body \in Lengths
      BY <2>2 DEF Fits, TypeOK, Bodies
    <3>. QED BY <1>2, <2>1, <2>2, <3>1 DEF GzipStep, TypeOK, NoSpuriousFailure
  <2>3. CASE ~Fits(body, size)
    <3>1. size' = Cap(2 * size) /\ UNCHANGED <<result, largest, body>>
      BY <1>2, <2>1, <2>3 DEF GzipStep
    <3>2. size' \in 1..MaxBufferSize
      BY <2>1, <3>1, CapRange
    <3>3. result # "ok"
      BY <2>3 DEF NoSpuriousFailure
    <3>. QED BY <1>2, <3>1, <3>2, <3>3 DEF GzipStep, TypeOK, NoSpuriousFailure
  <2>. QED BY <2>2, <2>3
<1>3. CASE SnappyStep
  <2>1. CASE body = Invalid
    BY <1>3, <2>1 DEF SnappyStep, TypeOK, NoSpuriousFailure, Fits
  <2>2. CASE body # Invalid /\ body > size
    BY <1>3, <2>2 DEF SnappyStep, TypeOK, NoSpuriousFailure
  <2>3. CASE body # Invalid /\ ~(body > size)
    <3>1. Uncompress(size) /\ UNCHANGED <<size, method, body, next, stage>>
      BY <1>3, <2>3 DEF SnappyStep
    <3>2. result' = "fail" => ~Fits(body, MaxBufferSize)
      BY <2>3, <3>1, UncompressInv, LengthsAssumption
         DEF TypeOK, Bodies, Fits
    <3>. QED BY <3>1, <3>2, UncompressInv DEF TypeOK, NoSpuriousFailure
  <2>. QED BY <2>1, <2>2, <2>3
<1>4. CASE SnappyGrow
  BY <1>4 DEF SnappyGrow, TypeOK, NoSpuriousFailure
<1>5. CASE SnappyResize
  <2>1. Cap(next) = MaxBufferSize
    BY <1>5, CapAtCeiling DEF SnappyResize, TypeOK
  <2>2. MaxBufferSize \in 1..MaxBufferSize
    BY SizeAssumption
  <2>3. size' = MaxBufferSize /\ Uncompress(MaxBufferSize)
        /\ UNCHANGED <<method, body, next>> /\ stage' = "start"
    BY <1>5, <2>1 DEF SnappyResize
  <2>. QED BY <2>2, <2>3, UncompressInv DEF TypeOK, NoSpuriousFailure
<1>6. CASE UNCHANGED vars
  BY <1>6 DEF vars, TypeOK, NoSpuriousFailure, Fits
<1>. QED BY <1>1, <1>2, <1>3, <1>4, <1>5, <1>6 DEF Next

\* Type correctness of the decompression buffer: its size stays between 1
\* and max_buffer_size across calls (the cap of decompress_frame_gzip and
\* decompress_frame_snappy).
THEOREM TypeCorrect == Spec => []TypeOK
BY InitInv, NextInv, PTL DEF Spec, Inv

\* decompress_frame rejects a body only when it is invalid or larger than
\* max_buffer_size, and an accepted body fits the buffer it was written to.
THEOREM NoSpuriousFailureHolds == Spec => []NoSpuriousFailure
BY InitInv, NextInv, PTL DEF Spec, Inv

=============================================================================
