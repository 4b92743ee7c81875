----------------------------- MODULE MCCompress -----------------------------
(* Model-checking instance of Compress: a buffer created with 16 bytes,   *)
(* and bodies whose bounds fit at once, hit a doubled size exactly (a      *)
(* 19-byte body under zlib needs 32), or need several doublings.           *)
EXTENDS Compress

MCLengths == {0, 19, 40, 100}
=============================================================================
