----------------------------- MODULE MCIndexer -----------------------------
(* Model-checking instance of Indexer: two streams, two parsers, a clock   *)
(* that crosses two midnights, and short refresh intervals so that cache   *)
(* flushes and storage samples happen within the bound.                    *)
EXTENDS Indexer, TLC

CONSTANTS s1, s2, p1, p2

MCStreams == {s1, s2}
MCParsers == {p1, p2}

\* One parser, for the liveness run.
MCOneParser == {p1}

\* Streams and parsers are interchangeable.
MCSymmetry == Permutations(MCStreams) \cup Permutations(MCParsers)
=============================================================================
