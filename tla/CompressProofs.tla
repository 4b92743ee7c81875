--------------------------- MODULE CompressProofs ---------------------------
(***************************************************************************)
(* Proofs about the compression buffer, for every initial size and every   *)
(* set of body lengths: the codec's output always fits the buffer, and a   *)
(* call grows the buffer to less than twice what it needs.                 *)
(*                                                                         *)
(* Neither property is inductive alone.  While the doubling loop runs,     *)
(* GrowInv records that next_size is above the current size (so the       *)
(* resize grows the buffer) and below twice the bound (because the loop    *)
(* doubles only while next_size is below the bound); once it has run,      *)
(* the buffer holds the bound.                                             *)
(***************************************************************************)
EXTENDS Compress, TLAPS

\* The codecs' bounds are naturals.
LEMMA BoundType ==
    ASSUME NEW m, NEW n \in Nat
    PROVE  LibraryBound(m, n) \in Nat
BY DEF LibraryBound

GrowInv ==
    phase = "grow" => size < next /\ next < 2 * LibraryBound(method, len)

CalledInv == phase = "compress" => LibraryBound(method, len) <= size

Inv == TypeOK /\ BufferHoldsOutput /\ GrowInv /\ CalledInv

LEMMA InitInv == Init => Inv
BY SizeAssumption, LengthsAssumption
   DEF Init, Inv, TypeOK, BufferHoldsOutput, GrowInv, CalledInv

LEMMA NextInv == Inv /\ [Next]_vars => Inv'
<1> SUFFICES ASSUME Inv, [Next]_vars PROVE Inv'
  OBVIOUS
<1> USE LengthsAssumption DEF Inv, TypeOK
<1>0. LibraryBound(method, len) \in Nat
  BY BoundType
<1>1. CASE Call
  <2>1. PICK m \in Methods, n \in Lengths :
          /\ method' = m /\ len' = n
          /\ CASE m = "other" -> UNCHANGED <<next, phase>>
               [] size < RequiredSize(m, n) -> next' = 2 * size /\ phase' = "grow"
               [] OTHER -> phase' = "compress" /\ UNCHANGED next
    BY <1>1 DEF Call
  <2>2. LibraryBound(m, n) \in Nat
    BY BoundType
  <2>. QED BY <1>1, <2>1, <2>2
          DEF Call, RequiredSize, BufferHoldsOutput, GrowInv, CalledInv
<1>2. CASE Grow
  BY <1>0, <1>2 DEF Grow, KeepDoubling, RequiredSize, BufferHoldsOutput,
                    GrowInv, CalledInv
<1>3. CASE Resize
  BY <1>0, <1>3 DEF Resize, KeepDoubling, RequiredSize, BufferHoldsOutput,
                    GrowInv, CalledInv
<1>4. CASE Deflate
  BY <1>0, <1>4 DEF Deflate, BufferHoldsOutput, GrowInv, CalledInv
<1>5. CASE UNCHANGED vars
  BY <1>5 DEF vars, BufferHoldsOutput, GrowInv, CalledInv
<1>. QED BY <1>1, <1>2, <1>3, <1>4, <1>5 DEF Next

\* The assertion assert(compressed_len <= zchunk_max_size(buffer)) of both
\* compression functions never fails.
THEOREM OutputFits == Spec => []BufferHoldsOutput
<1>1. Inv => BufferHoldsOutput
  BY DEF Inv
<1>. QED BY InitInv, NextInv, <1>1, PTL DEF Spec

\* A step of the compression path never shrinks the buffer, and grows it to
\* less than twice the bound of the body being compressed.
LEMMA StepTight ==
    Inv /\ [Next]_vars =>
        [/\ size' >= size
         /\ size' > size => size' < 2 * LibraryBound(method, len)]_vars
<1> SUFFICES ASSUME Inv, [Next]_vars
             PROVE  [/\ size' >= size
                     /\ size' > size => size' < 2 * LibraryBound(method, len)]_vars
  OBVIOUS
<1> USE DEF Inv, TypeOK
<1>1. CASE Resize
  BY <1>1 DEF Resize, GrowInv
<1>2. CASE ~Resize
  BY <1>2 DEF Next, Call, Grow, Deflate, vars
<1>. QED BY <1>1, <1>2

\* The buffer grows geometrically only as far as it must (the spec's
\* "grows until the data fits"), and never shrinks.
THEOREM GrowthIsTight == Spec => GrowthTight
BY InitInv, NextInv, StepTight, PTL DEF Spec, GrowthTight

=============================================================================
