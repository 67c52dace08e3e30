-------------------------- MODULE CommunityHierarchy --------------------------
(***************************************************************************)
(* CommunityDetector.detect_hierarchical: communities of communities, in   *)
(* one dictionary keyed by level and number                                *)
(* (kgweave/knowledge_graph/community/detector.py).                        *)
(*                                                                         *)
(* Leiden is a table: for each set of entities the sequence of communities *)
(* that it parts the graph between them into; its seed is fixed.           *)
(***************************************************************************)
EXTENDS Integers, Sequences, FiniteSets

CONSTANT Stride  \* 1000 in the code: what keeps the children of two parents apart

(* _run_leiden: number -> members, without the empty.                      *)
RunLeiden(leiden, S) ==
  [c \in {d \in 0..(Len(leiden[S]) - 1) : leiden[S][d + 1] # {}} |-> leiden[S][c + 1]]

(* _apply_min_size: the small ones go to the bucket, -1, which comes last. *)
ApplyMinSize(communities, min) ==
  LET small  == {c \in DOMAIN communities : Cardinality(communities[c]) < min}
      bucket == IF small = {} THEN {} ELSE {-1}
  IN  [c \in (DOMAIN communities \ small) \union bucket |->
         IF c = -1 THEN UNION {communities[d] : d \in small} ELSE communities[c]]

Sooner(c, d) == c # -1 /\ (d = -1 \/ c < d)

Parts(leiden, min, S) == ApplyMinSize(RunLeiden(leiden, S), min)

NoStride(parent, c) == <<parent[1] + 1, c + parent[2]>>

SubKey(parent, c) == <<parent[1] + 1, c + parent[2] * Stride>>

(* A level: members by key, parent by key, and which key came before which.*)
FirstLevel(leiden, min, entities) ==
  LET parts == Parts(leiden, min, entities)
      keys  == {0} \X DOMAIN parts
  IN  [members |-> [k \in keys |-> parts[k[2]]],
       parent  |-> <<>>,
       before  |-> {x \in keys \X keys : Sooner(x[1][2], x[2][2])}]

(* A community splits into two that are no bucket, or it does not.         *)
Splits(leiden, min, level) ==
  LET large == {p \in DOMAIN level.members :
                  /\ Cardinality(level.members[p]) >= 2 * min
                  /\ Cardinality(DOMAIN Parts(leiden, min, level.members[p]) \ {-1}) >= 2}
  IN  UNION {{p} \X DOMAIN Parts(leiden, min, level.members[p]) : p \in large}

(* Of those with one key the last remains, in the place of the first.      *)
NextLevel(leiden, min, level) ==
  LET splits == Splits(leiden, min, level)
      keys   == {SubKey(s[1], s[2]) : s \in splits}
      Keyed(k) == {s \in splits : SubKey(s[1], s[2]) = k}
      Earlier(s, t) == <<s[1], t[1]>> \in level.before \/ (s[1] = t[1] /\ Sooner(s[2], t[2]))
      First(k) == CHOOSE s \in Keyed(k) : \A t \in Keyed(k) : ~Earlier(t, s)
      Last(k)  == CHOOSE s \in Keyed(k) : \A t \in Keyed(k) : ~Earlier(s, t)
  IN  [members |-> [k \in keys |-> Parts(leiden, min, level.members[Last(k)[1]])[Last(k)[2]]],
       parent  |-> [k \in keys |-> Last(k)[1]],
       before  |-> {x \in keys \X keys : Earlier(First(x[1]), First(x[2]))}]

DetectHierarchical(leiden, entities, min, maxLevels) ==
  LET last == IF maxLevels <= 1 THEN 0 ELSE maxLevels - 1
      level[l \in 0..last] ==
        IF l = 0 THEN FirstLevel(leiden, min, entities) ELSE NextLevel(leiden, min, level[l - 1])
  IN  [members |-> [k \in UNION {DOMAIN level[l].members : l \in 0..last} |-> level[k[1]].members[k]],
       parent  |-> [k \in UNION {DOMAIN level[l].parent : l \in 0..last} |-> level[k[1]].parent[k]]]

=============================================================================
