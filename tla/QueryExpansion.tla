--------------------------- MODULE QueryExpansion ---------------------------
(***************************************************************************)
(* What a query is expanded to: the terms of GraphQueryExpander.expand and *)
(* the paths of PathMatcher.evaluate (kgweave/knowledge_graph/query), with *)
(* the traversals of the backend that they are made of.                    *)
(*                                                                         *)
(* A graph is [nodes, edges]; an edge is <<subject, predicate, object>>.   *)
(* Which entities a query names is text work: the seeds are an input, and  *)
(* so are the names that occur in its text.  Neither need follow from the  *)
(* other (aliases, token boundaries), and a seed may be gone from the      *)
(* graph, because the matcher is built once.                               *)
(*                                                                         *)
(* Listings come from Python sets: where a bound cuts one, which of its    *)
(* elements are kept is left open, and a function gives the set of results.*)
(***************************************************************************)
EXTENDS Integers, Sequences, SequencesExt, FiniteSets, FiniteSetsExt

CONSTANTS
  Canon,         \* what a form resolves to; a name, to itself
  MaxTerms,      \* KGConfig.max_expansion_terms
  MaxHopFanout   \* _MAX_HOP_FANOUT

Predecessors(g, x) == {e[1] : e \in {f \in g.edges : f[3] = x}}

(* The names within depth of x, x included, level by level; hops are pairs.*)
Within(hops, x, depth) ==
  LET seen[level \in 0..depth] ==
        IF level = 0 THEN {x}
        ELSE seen[level - 1] \union {h[2] : h \in {k \in hops : k[1] \in seen[level - 1]}}
  IN  seen[depth]

Forward(E) == {<<e[1], e[3]>> : e \in E}
Backward(E) == {<<e[3], e[1]>> : e \in E}

(* query_neighbors: forward to the depth, and backward for one hop.        *)
QueryNeighbors(g, x, depth) ==
  IF x \notin g.nodes THEN {}
  ELSE (Within(Forward(g.edges), x, depth) \union Predecessors(g, x)) \ {x}

ForwardOnly(g, types) == Forward({e \in g.edges : e[2] \in types})  \* mutant

(* query_neighbors_typed, for a depth of one and more: both ways, along    *)
(* edges of the types.                                                     *)
TypedHops(g, types) ==
  LET E == {e \in g.edges : e[2] \in types}
  IN  Forward(E) \union Backward(E)

QueryNeighborsTyped(g, form, types, depth) ==
  LET x == Canon[form]
  IN  IF x \notin g.nodes THEN {} ELSE Within(TypedHops(g, types), x, depth) \ {x}

-----------------------------------------------------------------------------
(* A query q is [graph, seeds, inQuery, depth, types, communities]: types  *)
(* are retrieval_edge_types, empty when the injection is off; communities  *)
(* the members that the summaries list, the bucket -1 apart; none when     *)
(* there is no detector that is ready.                                     *)

EffectiveDepth(q) ==
  IF q.depth < 2 /\ \E x \in q.seeds, e \in q.graph.edges : e[1] = x /\ e[2] = "connects_to"
  THEN 2 ELSE q.depth

(* The typed traversal refuses a depth of zero, and the untyped one takes  *)
(* its place.                                                              *)
Neighbours(q, x) ==
  LET depth == EffectiveDepth(q)
  IN  IF q.types # {} /\ depth >= 1 THEN QueryNeighborsTyped(q.graph, x, q.types, depth)
      ELSE QueryNeighbors(q.graph, x, depth)

Expanded(q) ==
  q.seeds \union UNION {Neighbours(q, x) \union Predecessors(q.graph, x) : x \in q.seeds}

LocalTerms(q) == Expanded(q) \ q.inQuery

CommunityTerms(q) ==
  (UNION {c \in q.communities : c \intersect q.seeds # {}}) \ (Expanded(q) \union q.inQuery)

Cut(S, n) == IF Cardinality(S) <= n THEN {S} ELSE kSubset(n, S)

(* expand: the results that are possible, the local terms apart from those *)
(* of communities, which get the places that are left.                     *)
Expand(q) ==
  IF q.seeds = {} THEN {[local |-> {}, community |-> {}]}
  ELSE UNION {{[local |-> l, community |-> c] :
                 c \in Cut(CommunityTerms(q), MaxTerms - Cardinality(l))} :
              l \in Cut(LocalTerms(q), MaxTerms)}

-----------------------------------------------------------------------------
NotStraightBack(walk) == {Last(walk)} \union {walk[i] : i \in {Len(walk) - 1} \ {0}}  \* mutant

(* A walk is the names it visits, from the seed as it was spelt.           *)
Visited(walk) == ToSet(walk)

Extensions(g, walk, type) ==
  {Append(walk, n) : n \in QueryNeighborsTyped(g, Last(walk), {type}, 1) \ Visited(walk)}

(* _match_pattern: the frontiers that are possible at its end.             *)
MatchPattern(g, seed, pattern) ==
  LET frontiers[hop \in 0..Len(pattern)] ==
        IF hop = 0 THEN {{<<seed>>}}
        ELSE UNION {Cut(UNION {Extensions(g, w, pattern[hop]) : w \in W}, MaxHopFanout) :
                      W \in frontiers[hop - 1]}
  IN  frontiers[Len(pattern)]

(* evaluate keeps the first walk to each terminal.                         *)
FirstPerTerminal(W) ==
  {R \in SUBSET W : /\ {Last(w) : w \in R} = {Last(w) : w \in W}
                    /\ \A v, w \in R : Last(v) = Last(w) => v = w}

Evaluate(g, seed, patterns) ==
  LET Results(p) == UNION {FirstPerTerminal(W) : W \in MatchPattern(g, seed, p)}
  IN  {f \in [patterns -> UNION {Results(p) : p \in patterns}] : \A p \in patterns : f[p] \in Results(p)}

=============================================================================
