------------------------------ MODULE MCReplay ------------------------------
(***************************************************************************)
(* Dump files of one to three records for the replay tool: messages of     *)
(* four frames as the subscriber writes them, and the same dumps with      *)
(* their last record cut short by a writer that stopped.  MCLayout lays    *)
(* each dump out record after record.                                      *)
(***************************************************************************)
EXTENDS Replay

MCRecords == {[frames |-> 4, bytes |-> b, cut |-> 0] : b \in 0..2}

MCWholeDumps == UNION {[1..n -> MCRecords] : n \in 1..3}

MCCutDumps ==
    {f \o <<[frames |-> 4, bytes |-> 2, cut |-> 1]>> :
        f \in UNION {[1..n -> MCRecords] : n \in 0..2}}

MCDumps == MCWholeDumps \cup MCCutDumps

\* The record offsets of each dump: the sum of the records before it.
MCLayout ==
    [f \in MCDumps |->
        [i \in 1..(Len(f) + 1) |->
            SumFunctionOnSet([j \in 1..Len(f) |-> OnDisk(f[j])], 1..(i - 1))]]

=============================================================================
