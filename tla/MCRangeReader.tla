--------------------------- MODULE MCRangeReader ---------------------------
(* Small instances of RangeReader: objects of no byte, of less than a      *)
(* chunk, of exactly one and two chunks, and around a chunk boundary.      *)
EXTENDS RangeReader

MCLengths == {0, 1, 2, 3, 4, 5}
MCOutSizes == {1, 3}
=============================================================================
