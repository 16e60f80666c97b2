--------------------------------- MODULE Filter ---------------------------------
(***************************************************************************)
(* What slices and arrays are filtered with, by loops in the message queue *)
(* and in the panel.  It is SequencesExt's Remove and the standard         *)
(* SelectSeq for a set of elements, written with a recursive function:     *)
(* FilterProofs has what is known of it.                                   *)
(***************************************************************************)
EXTENDS Integers, Sequences

\* The elements of s that are in S, in their order.
Only(s, S) ==
  LET kept[k \in 0 .. Len(s)] ==
        IF k = 0 THEN << >>
        ELSE IF s[k] \in S THEN Append(kept[k - 1], s[k]) ELSE kept[k - 1]
  IN kept[Len(s)]
=============================================================================
