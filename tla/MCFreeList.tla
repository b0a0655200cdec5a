------------------------------ MODULE MCFreeList ------------------------------
(***************************************************************************)
(* FreeList on a region of a dozen words.  The region starts at an odd     *)
(* word so that an alignment of two words has a gap to drop.               *)
(***************************************************************************)
EXTENDS FreeList

MCSizes == {3, 4}
MCAligns == {1, 2}
===============================================================================
