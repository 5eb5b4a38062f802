--------------------------- MODULE MCTagCoalesce ---------------------------
(***************************************************************************)
(* TagCoalesce on a small arena.  Requests of 3, 16, 20 and 100 bytes are  *)
(* 1, 2, 3 and 13 words, and RawAlloc refuses 0.  Callers store a word     *)
(* that reads as the tag of a free one-word block.                         *)
(***************************************************************************)
EXTENDS TagCoalesce

TaggingBytes == {0, 3, 16, 20}
ScanBytes    == {3, 100}
ForgedTag    == {FREE_BIT + 1}
NoWords      == {}
============================================================================
