---------------------------- MODULE ReplayProofs ----------------------------
(***************************************************************************)
(* Proof of the replay tool's rate limit for every rate, dump and word     *)
(* size.                                                                   *)
(*                                                                         *)
(* RateLimit is not inductive by itself: a send is allowed whenever the    *)
(* credit is positive, so the proof needs the relation between the credit  *)
(* and the messages sent since the last timer event.  Every send and every *)
(* failed load spends one credit, a throttled poll spends nothing positive,*)
(* and the timer restores both: CreditInv.                                 *)
(***************************************************************************)
EXTENDS Replay, SequenceTheorems, TLAPS

\* The positive part of the credit.
Available(c) == IF c > 0 THEN c ELSE 0

\* The messages sent since the last timer event and the credit still
\* available never add up to more than messages_per_second.
CreditInv ==
    /\ credit \in Int
    /\ sentInPeriod \in Nat
    /\ sentInPeriod + Available(credit) <= Rate

-----------------------------------------------------------------------------
\* Both branches of Send spend one credit on one message.
LEMMA SendSpends ==
    ASSUME NEW b, NEW p, Send(b, p)
    PROVE  credit' = credit - 1 /\ sentInPeriod' = sentInPeriod + 1
BY DEF Send

LEMMA InitCredit == Init => CreditInv
BY RateAssumption DEF Init, CreditInv, Available

LEMMA NextCredit == CreditInv /\ [Next]_vars => CreditInv'
<1> SUFFICES ASSUME CreditInv, [Next]_vars PROVE CreditInv'
  OBVIOUS
<1>1. CASE Timer
  BY <1>1, RateAssumption DEF Timer, CreditInv, Available
<1>2. CASE Throttle
  BY <1>2 DEF Throttle, Throttled, CreditInv, Available
<1>3. CASE LoadFails
  <2>1. credit > 0
    BY <1>3 DEF LoadFails, Throttled, CreditInv
  <2>2. credit' = credit - 1 /\ sentInPeriod' = sentInPeriod
    BY <1>3 DEF LoadFails
  <2>. QED BY <2>1, <2>2, RateAssumption DEF CreditInv, Available
<1>4. CASE Forward
  <2>1. credit > 0
    BY <1>4 DEF Forward, Throttled, CreditInv
  <2>2. credit' = credit - 1 /\ sentInPeriod' = sentInPeriod + 1
    BY <1>4, SendSpends DEF Forward
  <2>. QED BY <2>1, <2>2, RateAssumption DEF CreditInv, Available
<1>5. CASE ForwardPartial
  <2>1. credit > 0
    BY <1>5 DEF ForwardPartial, Throttled, CreditInv
  <2>2. credit' = credit - 1 /\ sentInPeriod' = sentInPeriod + 1
    BY <1>5, SendSpends DEF ForwardPartial
  <2>. QED BY <2>1, <2>2, RateAssumption DEF CreditInv, Available
<1>6. CASE UNCHANGED vars
  BY <1>6 DEF vars, CreditInv, Available
<1>. QED BY <1>1, <1>2, <1>3, <1>4, <1>5, <1>6 DEF Next

\* The rate limit of the replay tool: between two timer events, at most
\* messages_per_second messages are sent, whatever the dump and whether
\* loads fail (file_consume_message_and_forward, timer_event).
THEOREM RateLimitHolds == Spec => []RateLimit
<1>1. CreditInv => RateLimit
  BY RateAssumption DEF CreditInv, Available, RateLimit
<1>. QED BY InitCredit, NextCredit, <1>1, PTL DEF Spec

-----------------------------------------------------------------------------
(* The byte counter.  bytes_read_from_file adds five words and the content *)
(* size for every message, while zmsg_savex writes one word for the frame *)
(* count and one per frame.  The two agree only for records of four       *)
(* frames, which is what every logjam message has (app-env, routing key,   *)
(* body and meta frame): CounterTracksOffset is proved under FourFrames,   *)
(* and a dump of records with another frame count breaks it.  The         *)
(* inductive invariant only adds the types the step needs.                 *)

\* Every record of every dump is a four-frame logjam message.
FourFrames == \A f \in DumpFiles : \A i \in 1..Len(f) : f[i].frames = 4

OffsetInv ==
    /\ dump \in DumpFiles
    /\ pos \in 1..EOF
    /\ counted \in Int
    /\ endless \in BOOLEAN
    /\ CounterTracksOffset

\* The layout of the dump the tool replays: the first record is at offset
\* 0, and each record ends where the next one starts.
LEMMA OffsetStep ==
    ASSUME dump \in DumpFiles
    PROVE  /\ Offset(1) = 0
           /\ \A i \in 1..Len(dump) :
                 /\ Offset(i) \in Int
                 /\ Offset(i + 1) = Offset(i) + OnDisk(dump[i])
BY LayoutAssumption DEF Offset

\* A whole four-frame record takes up exactly what the counter adds for it.
LEMMA WholeRecordCounted ==
    ASSUME FourFrames, dump \in DumpFiles, NEW i \in 1..Len(dump),
           dump[i].cut = 0
    PROVE  Offset(i + 1) = Offset(i) + CountedBytes(dump[i].bytes)
<1>1. dump[i] \in [frames : Nat, bytes : Nat, cut : Nat] /\ dump[i].frames = 4
  BY DumpAssumption, ElementOfSeq DEF FourFrames
<1>. QED BY <1>1, OffsetStep, WordSizeAssumption DEF OnDisk, CountedBytes

LEMMA InitOffset == Init => OffsetInv
BY OffsetStep, DumpAssumption, LoopAssumption
   DEF Init, OffsetInv, CounterTracksOffset, EOF

LEMMA NextOffset ==
    ASSUME FourFrames, OffsetInv, [Next]_vars
    PROVE  OffsetInv'
<1> USE DEF OffsetInv
<1>0. Len(dump) \in Nat /\ dump \in Seq([frames : Nat, bytes : Nat, cut : Nat])
  BY DumpAssumption
<1>1. CASE Timer \/ Throttle
  BY <1>1 DEF Timer, Throttle, CounterTracksOffset, WholeDump, Records,
              Offset, EOF
<1>2. CASE LoadFails
  <2>1. UNCHANGED <<dump, counted, interrupted, endless>> /\ pos' = EOF
    BY <1>2 DEF LoadFails
  <2>2. WholeDump /\ ~interrupted => pos = EOF
    BY <1>0, <1>2 DEF LoadFails, Loadable, WholeDump, Records, EOF
  <2>. QED BY <1>0, <2>1, <2>2 DEF CounterTracksOffset, WholeDump, Records,
              Offset, EOF
<1>3. CASE Forward
  <2> DEFINE c == counted + CountedBytes(dump[pos].bytes)
  <2>1. pos \in 1..Len(dump) /\ dump[pos].cut = 0 /\ ~interrupted
    BY <1>3 DEF Forward, Loadable, Records
  <2>2. UNCHANGED <<dump, endless>> /\ Send(dump[pos].bytes, pos + 1)
    BY <1>3 DEF Forward
  <2>3. dump[pos].bytes \in Nat
    <3>1. dump[pos] \in [frames : Nat, bytes : Nat, cut : Nat]
      BY <1>0, <2>1, ElementOfSeq
    <3>. QED BY <3>1
  <2>4. c \in Int
    BY <2>3, WordSizeAssumption DEF CountedBytes
  <2>5. WholeDump => c = Offset(pos + 1)
    BY <2>1, WholeRecordCounted DEF CounterTracksOffset
  <2>6. Offset(1) = 0
    BY OffsetStep
  <2>7. CASE c = FileSize /\ endless
    <3>1. counted' = 0 /\ pos' = 1 /\ interrupted' = interrupted
      BY <2>2, <2>7 DEF Send
    <3>. QED BY <1>0, <2>1, <2>2, <2>6, <3>1
            DEF CounterTracksOffset, WholeDump, Records, Offset, EOF
  <2>8. CASE c = FileSize /\ ~endless
    <3>1. counted' = c /\ pos' = pos + 1 /\ interrupted' = TRUE
      BY <2>2, <2>8 DEF Send
    <3>. QED BY <1>0, <2>1, <2>2, <2>4, <3>1 DEF CounterTracksOffset, EOF
  <2>9. CASE c # FileSize
    <3>1. counted' = c /\ pos' = pos + 1 /\ interrupted' = interrupted
      BY <2>2, <2>9 DEF Send
    <3>. QED BY <1>0, <2>1, <2>2, <2>4, <2>5, <3>1
            DEF CounterTracksOffset, WholeDump, Records, Offset, EOF
  <2>. QED BY <2>7, <2>8, <2>9
<1>4. CASE ForwardPartial
  <2>1. PICK b \in PartialContents(dump[pos]) : Send(b, EOF)
    BY <1>4 DEF ForwardPartial
  <2>2. pos \in 1..Len(dump) /\ dump[pos].cut > 0 /\ b \in Nat
    BY <1>0, <1>4, <2>1 DEF ForwardPartial, PartialContents, Records
  <2>3. ~WholeDump' /\ UNCHANGED <<dump, endless>>
    BY <1>4, <2>2 DEF ForwardPartial, WholeDump, Records
  <2>4. counted' \in Int /\ pos' \in {1, EOF}
    BY <2>1, <2>2, WordSizeAssumption DEF Send, CountedBytes
  <2>. QED BY <1>0, <2>3, <2>4 DEF CounterTracksOffset, EOF
<1>5. CASE UNCHANGED vars
  BY <1>5 DEF vars, CounterTracksOffset, WholeDump, Records, Offset, EOF
<1>. QED BY <1>1, <1>2, <1>3, <1>4, <1>5 DEF Next

\* For a dump of whole four-frame records, bytes_read_from_file is always
\* the offset of the record the file is at, so the end-of-file test
\* (bytes_read_from_file == dump_file_size) meets the end of the dump.
THEOREM CounterTracksOffsetHolds == FourFrames => (Spec => []CounterTracksOffset)
<1> SUFFICES ASSUME FourFrames PROVE Spec => []CounterTracksOffset
  OBVIOUS
<1>1. OffsetInv /\ [Next]_vars => OffsetInv'
  BY NextOffset
<1>2. OffsetInv => CounterTracksOffset
  BY DEF OffsetInv
<1>. QED BY <1>1, <1>2, InitOffset, PTL DEF Spec

=============================================================================
