--------------------------- MODULE MCNeo4jWorkers ---------------------------
(***************************************************************************)
(* Two documents that share an entity, and a graph file with the first.    *)
(***************************************************************************)
EXTENDS Neo4jWorkers

CONSTANTS s1, s2

MCMentions == [k \in {s1, s2} |-> IF k = s1 THEN {"a", "b"} ELSE {"b", "c"}]

MCClaims == [k \in {s1, s2} |-> IF k = s1 THEN {<<"a", "b">>} ELSE {<<"b", "c">>}]

MCFileSources == [a \in {"a", "b"} |-> {s1}]

MCFileClaims == [c \in {<<"a", "b">>} |-> {s1}]

=============================================================================
