-------------------------- MODULE EntityResolution --------------------------
(***************************************************************************)
(* EntityResolver.resolve: which entities are proposed as duplicates, and  *)
(* what carrying the proposals out one after the other leaves              *)
(* (kgweave/knowledge_graph/resolution/).  What one merge does to edges,   *)
(* aliases and sources is NetworkXBackend's.  No two names differ only by  *)
(* case.  A graph is a map from places, in the order of get_all_entities,  *)
(* to entities: a sequence, as long as none is gone.  Proposals, each a    *)
(* pair <<canonical, duplicate>>, are a map from the order they are made in*)
(***************************************************************************)
EXTENDS Integers, Sequences

Entity == [name: STRING, type: STRING, count: Nat]

Names(graph) == {graph[i].name : i \in DOMAIN graph}

PlaceOf(graph, name) == CHOOSE i \in DOMAIN graph : graph[i].name = name

(* AliasResolver.find_candidates: table is the sequence of <<variant,      *)
(* canonical>>, a variant at most once.  A proposal is made at its row.    *)
MergesWithItself(graph, table) ==
  LET rows == {i \in DOMAIN table : {table[i][1], table[i][2]} \subseteq Names(graph)}
  IN  [i \in rows |-> <<table[i][2], table[i][1]>>]

AliasCandidates(graph, table) ==
  LET rows == {i \in DOMAIN table : /\ {table[i][1], table[i][2]} \subseteq Names(graph)
                                    /\ table[i][1] # table[i][2]}
  IN  [i \in rows |-> <<table[i][2], table[i][1]>>]

(* EmbeddingResolver.find_candidates: the pairs in order, within a type.   *)
(* similar holds the unordered pairs at or over the threshold.             *)
Pair(e, f) == IF e.count >= f.count THEN <<e.name, f.name>> ELSE <<f.name, e.name>>

Compare(graph, similar, s, i, j) ==
  IF /\ j > i /\ j \in DOMAIN graph
     /\ graph[j].type = graph[i].type
     /\ graph[j].name \notin s.merged
     /\ {graph[i].name, graph[j].name} \in similar
  THEN [found  |-> Append(s.found, Pair(graph[i], graph[j])),
        merged |-> s.merged \union {Pair(graph[i], graph[j])[2]}]
  ELSE s

Row(graph, n, similar, s, i) ==
  LET row[j \in 0..n] == IF j = 0 THEN s ELSE Compare(graph, similar, row[j - 1], i, j)
  IN  row[n]

EmbeddingCandidates(graph, n, similar) ==
  LET after[i \in 0..n] ==
        IF i = 0 THEN [found |-> <<>>, merged |-> {}]
        ELSE IF i \notin DOMAIN graph \/ graph[i].name \in after[i - 1].merged THEN after[i - 1]
        ELSE Row(graph, n, similar, after[i - 1], i)
  IN  after[n].found

(* merge_entities: nothing, when either is gone.                           *)
MergeEntities(graph, candidate) ==
  LET kept == PlaceOf(graph, candidate[1])
      gone == PlaceOf(graph, candidate[2])
  IN  IF {candidate[1], candidate[2]} \subseteq Names(graph)
      THEN [i \in DOMAIN graph \ {gone} |->
              IF i = kept THEN [graph[i] EXCEPT !.count = @ + graph[gone].count] ELSE graph[i]]
      ELSE graph

Execute(graph, candidates, n) ==
  LET after[k \in 0..n] ==
        IF k = 0 THEN graph
        ELSE IF k \in DOMAIN candidates THEN MergeEntities(after[k - 1], candidates[k])
        ELSE after[k - 1]
  IN  after[n]

(* resolve: the graph and the proposals after each of the two phases.      *)
Resolve(graph, table, similar) ==
  LET aliases == AliasCandidates(graph, table)
      between == Execute(graph, aliases, Len(table))
      pairs   == EmbeddingCandidates(between, Len(graph), similar)
  IN  [aliases |-> aliases, between |-> between, pairs |-> pairs,
       graph |-> Execute(between, pairs, Len(pairs))]

=============================================================================
