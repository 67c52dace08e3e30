------------------------- MODULE MCNetworkXBackend -------------------------
(***************************************************************************)
(* Small instances of NetworkXBackend.  "A" and "a" differ only by case,   *)
(* "B" and "C" are other names, "x" is a form only extractors use, as an   *)
(* alias.                                                                  *)
(***************************************************************************)
EXTENDS NetworkXBackend, TLC

CONSTANTS MaxEdges, MaxAliases

MCLower ==
  [n \in Name |-> CASE n \in {"A", "a"} -> "ka" [] n = "B" -> "kb"
                     [] n = "C" -> "kc" [] n = "x" -> "kx"]

AliasCount == [n \in DOMAIN nodes |-> Cardinality(nodes[n].aliases)]

(* Bounds of the exploration: edges in the graph, alias entries over all   *)
(* nodes.                                                                  *)
Bounded ==
  /\ Cardinality(DOMAIN edges) <= MaxEdges
  /\ SumFunction(AliasCount) <= MaxAliases

SourceSymmetry == Permutations(Source)

=============================================================================
