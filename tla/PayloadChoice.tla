---------------------------- MODULE PayloadChoice ----------------------------
(* Which payload partition is used, given the types that are present       *)
(* (dramstage/boot_blockdev.c).  mask is the set of types with a usable    *)
(* entry.                                                                  *)

PayloadType == {"A", "B", "C"}

\* mutant: the first type in alphabetical order
UsedIndex_Alphabetical(mask) ==
  IF "A" \in mask THEN "A" ELSE IF "B" \in mask THEN "B" ELSE "C"

UsedIndex(mask) ==
  IF mask = {"B"} \/ mask = {"B", "C"} THEN "B"
  ELSE IF mask = {"C"} \/ mask = {"A", "C"} THEN "C"
  ELSE "A"

\* the cycle of the rules of README.rst:282: of two types that are present the
\* one that the other follows is used
Successor(t) == IF t = "A" THEN "B" ELSE IF t = "B" THEN "C" ELSE "A"
=============================================================================
