----------------------------- MODULE MCEnvelope -----------------------------
(* Model-checking instance of Envelope: words of three bytes of two bits,  *)
(* so that every byte position and both byte orders matter, one foreign    *)
(* tag or stale version, and a header of 4 units.                          *)
EXTENDS Envelope
=============================================================================
