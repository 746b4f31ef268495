--------------------------- MODULE MCMemoryManager ---------------------------
\* Constants for TLC: a header of 2 bytes, so that a chunk can be cut, cut
\* exactly and too small to be cut within a few bytes; one heap too small for
\* a header, one with room for a header only, one with room for four chunks.
EXTENDS MemoryManager

MCHeapSizes == {1, 2, 13}
MCSizes == {0, 1, 2, 3, 31}
==============================================================================
