------------------------------- MODULE Replay -------------------------------
(***************************************************************************)
(* The stream replay tool (src/src/logjam-replay.c).                       *)
(*                                                                         *)
(* A zloop polls the dump file (always readable) and calls                 *)
(* file_consume_message_and_forward, which loads one record with           *)
(* zmsg_loadx and sends it, throttled by a message credit that a           *)
(* one-second timer refills.  The tool does not track the file position:   *)
(* it adds a fixed record header of five size_t words plus the content     *)
(* size of every message it loads to bytes_read_from_file, and treats the  *)
(* file as exhausted when that counter equals the file size: then it       *)
(* rewinds (--loop) or stops.                                              *)
(*                                                                         *)
(* A record of the dump (zmsg_savex) is its frame count, its content size  *)
(* and the number of bytes missing from its end (cut > 0 only for a dump   *)
(* whose writer stopped in the middle of a record).  Layout gives each     *)
(* dump's record offsets: consecutive records, each as long as zmsg_savex  *)
(* writes it.                                                              *)
(***************************************************************************)
EXTENDS Integers, Sequences, Functions

CONSTANTS
    DumpFiles,      \* the dump files the tool may be given
    WordSize,       \* sizeof(size_t)
    Rate,           \* messages_per_second
    LoopOptions,    \* the values of --loop the tool may be started with
    ThrottleBound,  \* the throttled polls the model allows between two timer events
    Layout          \* Layout[f][i]: the offset of record i of dump f; Layout[f][Len(f)+1]: its size

ASSUME DumpAssumption ==
    \A f \in DumpFiles :
        f \in Seq([frames : Nat, bytes : Nat, cut : Nat]) /\ Len(f) > 0
ASSUME WordSizeAssumption == WordSize \in Nat \ {0}

\* The bytes zmsg_savex writes for a record: the frame count, one size per
\* frame, and the frames' data; a cut record lacks its last bytes.
OnDisk(r) == WordSize * (1 + r.frames) + r.bytes - r.cut

\* A dump file is its records one after the other, from offset 0.
ASSUME LayoutAssumption ==
    \A f \in DumpFiles :
        /\ Layout[f] \in [1..(Len(f) + 1) -> Int]
        /\ Layout[f][1] = 0
        /\ \A i \in 1..Len(f) : Layout[f][i + 1] = Layout[f][i] + OnDisk(f[i])
ASSUME RateAssumption == Rate \in Nat \ {0} /\ ThrottleBound \in Nat \ {0}
ASSUME LoopAssumption == LoopOptions \subseteq BOOLEAN /\ LoopOptions # {}

VARIABLES
    dump,          \* the records of the dump file, in file order
    pos,           \* the record the file position is at (EOF past the last)
    counted,       \* bytes_read_from_file
    credit,        \* message_credit
    sentInPeriod,  \* messages sent since the last timer event
    last,          \* the record sent last (0 before the first)
    interrupted,   \* zsys_interrupted: the zloop has ended
    endless        \* endless_loop (--loop)

vars == <<dump, pos, counted, credit, sentInPeriod, last, interrupted, endless>>

Records == 1..Len(dump)
EOF == Len(dump) + 1

\* The offset in the file of record i.
Offset(i) == Layout[dump][i]

\* zmsg_loadx returns a message for record i: a whole record, not past the
\* end of the file.
Loadable(i) == i \in Records /\ dump[i].cut = 0

\* A dump every record of which was written whole.
WholeDump == \A i \in Records : dump[i].cut = 0

\* zsys_file_size(dump_file_name).
FileSize == Offset(EOF)

TypeOK ==
    /\ dump \in DumpFiles
    /\ pos \in 1..EOF
    /\ counted \in 0..(FileSize + Len(dump) * (5 * WordSize))
    /\ credit \in (-ThrottleBound)..Rate
    /\ sentInPeriod \in 0..(Rate + ThrottleBound)
    /\ last \in 0..Len(dump)
    /\ interrupted \in BOOLEAN
    /\ endless \in LoopOptions

-----------------------------------------------------------------------------
\* Variant: the header is counted as four words.
CountedBytesFourWords(b) == WordSize * 4 + b

\* bytes_read_from_file += sizeof(size_t) * 5 + msg_bytes, for a message of
\* b content bytes.
CountedBytes(b) == WordSize * 5 + b

\* Variant: the throttle tests the credit after the decrement.
ThrottledLate(c) == c < 0

\* if (message_credit-- <= 0): the test sees the value before the decrement.
Throttled(c) == c <= 0

\* zmsg_loadx on a record cut in a frame-size field, after at least one
\* whole frame: "Unable to read properly, quit" leaves the loop and the
\* frames read so far are returned, with at most the record's content.
PartialContents(r) == IF r.cut > 0 /\ r.frames > 1 THEN 0..r.bytes ELSE {}

\* main: the options are parsed, the dump file named on the command line
\* is opened, and message_credit = messages_per_second before zloop_start.
Init ==
    /\ dump \in DumpFiles
    /\ pos = 1
    /\ counted = 0
    /\ credit = Rate
    /\ sentInPeriod = 0
    /\ last = 0
    /\ interrupted = FALSE
    /\ endless \in LoopOptions

(* timer_event: every 1000 ms the statistics are printed and the credit   *)
(* is refilled.                                                            *)
Timer ==
    /\ ~interrupted
    /\ credit' = Rate
    /\ sentInPeriod' = 0
    /\ UNCHANGED <<dump, pos, counted, last, interrupted, endless>>

(* No credit left: the handler sleeps 1 ms and returns; the credit is      *)
(* still decremented.                                                      *)
Throttle ==
    /\ ~interrupted
    /\ Throttled(credit)
    /\ credit > -ThrottleBound
    /\ credit' = credit - 1
    /\ UNCHANGED <<dump, pos, counted, sentInPeriod, last, interrupted, endless>>

\* Variant: the failed load moves the position one record on.
LoadFailsSkip ==
    /\ ~interrupted
    /\ ~Throttled(credit)
    /\ ~Loadable(pos)
    /\ credit' = credit - 1
    /\ pos' = pos + 1
    /\ UNCHANGED <<dump, counted, sentInPeriod, last, interrupted, endless>>

(* zmsg_loadx returns NULL, at the end of the file or on a record cut in   *)
(* its data or its frame count ("corrupt file"): the handler returns 1,    *)
(* which does not stop the zloop.  A cut record is the last one: the file  *)
(* is then at its end.                                                     *)
LoadFails ==
    /\ ~interrupted
    /\ ~Throttled(credit)
    /\ ~Loadable(pos)
    /\ credit' = credit - 1
    /\ pos' = EOF
    /\ UNCHANGED <<dump, counted, sentInPeriod, last, interrupted, endless>>

\* Variant: the rewind leaves the counter alone.
SendNoCounterReset(b, p) ==
    /\ credit' = credit - 1
    /\ sentInPeriod' = sentInPeriod + 1
    /\ last' = pos
    /\ LET c == counted + CountedBytes(b)
       IN  /\ counted' = c
           /\ IF c = FileSize /\ endless THEN pos' = 1 ELSE pos' = p
           /\ interrupted' = (c = FileSize /\ ~endless)

(* The loaded message of b content bytes is sent, the file position now at *)
(* p; the counter grows by the assumed record size and, if it equals the   *)
(* file size, the file is rewound or the tool stops.                       *)
Send(b, p) ==
    /\ credit' = credit - 1
    /\ sentInPeriod' = sentInPeriod + 1
    /\ last' = pos
    /\ LET c == counted + CountedBytes(b)
       IN  IF c = FileSize
             THEN IF endless
                    THEN /\ counted' = 0
                         /\ pos' = 1
                         /\ UNCHANGED interrupted
                    ELSE /\ counted' = c
                         /\ pos' = p
                         /\ interrupted' = TRUE
             ELSE /\ counted' = c
                  /\ pos' = p
                  /\ UNCHANGED interrupted

(* A whole record is loaded and sent.                                      *)
Forward ==
    /\ ~interrupted
    /\ ~Throttled(credit)
    /\ Loadable(pos)
    /\ Send(dump[pos].bytes, pos + 1)
    /\ UNCHANGED <<dump, endless>>

(* A record cut in a frame-size field is loaded in part and sent; the file *)
(* is at its end.                                                          *)
ForwardPartial ==
    /\ ~interrupted
    /\ ~Throttled(credit)
    /\ pos \in Records
    /\ \E b \in PartialContents(dump[pos]) : Send(b, EOF)
    /\ UNCHANGED <<dump, endless>>

Next == Timer \/ Throttle \/ LoadFails \/ Forward \/ ForwardPartial

(* The timer fires every second, and the dump file's descriptor is always  *)
(* readable, so the zloop keeps calling the handler.                       *)
Spec ==
    /\ Init /\ [][Next]_vars
    /\ WF_vars(Timer) /\ WF_vars(Throttle)
    /\ WF_vars(LoadFails) /\ WF_vars(Forward) /\ WF_vars(ForwardPartial)

-----------------------------------------------------------------------------
(* Properties.                                                             *)

\* The rate limit: between two timer events at most messages_per_second
\* messages are sent (the post-decrement test of message_credit).
RateLimit == sentInPeriod <= Rate

\* For a dump of whole four-frame records (logjam messages) the tool's byte
\* counter is the file position: bytes_read_from_file is the offset of the
\* record the file is at (the two are reset together by the rewind).  The
\* fixed five-word header it adds is wrong for any other frame count.
CounterTracksOffset == (WholeDump /\ ~interrupted) => counted = Offset(pos)

\* Without --loop, replaying a dump of whole records ends (zsys_interrupted
\* is set once the end of the dump file is reached).
ReplayEnds == (WholeDump /\ ~endless) => <>interrupted

\* Without --loop, replaying any dump file ends: the code's comment "end of
\* dump file reached" and the loop's exit.
EveryReplayEnds == ~endless => <>interrupted

\* With --loop, every record of a dump of whole records is replayed again
\* and again (the "end of dump file reached. rewinding." branch).
ReplayedForever ==
    (endless /\ WholeDump) =>
        \A i \in UNION {DOMAIN f : f \in DumpFiles} : (i \in Records) => []<>(last = i)

=============================================================================
