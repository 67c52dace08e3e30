----------------------- MODULE MCIncrementalExtract -----------------------
(***************************************************************************)
(* Small instances of IncrementalExtract: every content has the whole-file *)
(* node "doc", "v1" and "v2" have one more node each, "v2" is large enough *)
(* for the bulk writer when it is in Bulky.                                *)
(***************************************************************************)
EXTENDS IncrementalExtract, TLC

MCSpansOf ==
  [c \in Content |-> CASE c = "v1" -> {"doc", "p1"}
                       [] c = "v2" -> {"doc", "p2"}
                       [] c = "v3" -> {"doc"}]

FileSymmetry == Permutations(Uri)

=============================================================================
