---------------------------- MODULE MCDecompress ----------------------------
(* Model-checking instance of Decompress: a ceiling of 8 units, a buffer   *)
(* created with 2, bodies that fit at once, after growth, exactly at the   *)
(* ceiling, or not at all.                                                 *)
EXTENDS Decompress

MCLengths == {1, 3, 5, 8, 9}
=============================================================================
