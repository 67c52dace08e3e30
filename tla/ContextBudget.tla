---------------------------- MODULE ContextBudget ----------------------------
(***************************************************************************)
(* What GraphContextFormatter leaves out to keep its block within the      *)
(* token budget (kgweave/knowledge_graph/query/context_formatter.py), and  *)
(* which community summaries format_community_section leaves out.          *)
(*                                                                         *)
(* A line is its length.  An item is <<kind, position>>: an entity line, a *)
(* group of triples (its heading and members), a path.                     *)
(***************************************************************************)
EXTENDS Integers, Sequences, SequencesExt, FiniteSets, FiniteSetsExt

CONSTANTS
  SeedTag, NeighbourTag  \* lengths of the tags that entity lines begin with

Entity == [seed: BOOLEAN, chars: Nat, stub: Nat]
Group  == [members: Nat, chars: Nat]

Entities(b, seeds) == {"entity"} \X {i \in DOMAIN b.entities : b.entities[i].seed = seeds}
Groups(b)          == {"group"} \X DOMAIN b.groups
Paths(b)           == {"path"} \X DOMAIN b.paths

Items(b) == Entities(b, TRUE) \union Entities(b, FALSE) \union Groups(b) \union Paths(b)

Tag(e) == IF e.seed THEN SeedTag ELSE NeighbourTag

(* What an item takes of the budget, cut or not.  A seed keeps its stub.   *)
EntityChars(e, cut) ==
  IF ~cut THEN Tag(e) + e.chars
  ELSE IF e.seed THEN SeedTag + e.stub ELSE 0

SumOf(f) ==
  LET sum[n \in 0..Len(f)] == IF n = 0 THEN 0 ELSE sum[n - 1] + f[n]
  IN  sum[Len(f)]

TotalChars(b, cut) ==
  SumOf([i \in DOMAIN b.entities |-> EntityChars(b.entities[i], <<"entity", i>> \in cut)])
    + SumOf([i \in DOMAIN b.groups |-> IF <<"group", i>> \in cut THEN 0 ELSE b.groups[i].chars])
    + SumOf([i \in DOMAIN b.paths |-> IF <<"path", i>> \in cut THEN 0 ELSE b.paths[i]])

(* The orders in which a phase takes its items, as sets of pairs.          *)
FromTheEnd(items) == {x \in items \X items : x[1][2] > x[2][2]}

LargestFirst(b) ==
  {x \in Groups(b) \X Groups(b) :
     LET g == b.groups[x[1][2]]
         h == b.groups[x[2][2]]
     IN  g.members > h.members \/ (g.members = h.members /\ x[1][2] < x[2][2])}

(* The stable sort of phase 2.                                             *)
SmallestFirst(b) ==
  {x \in Groups(b) \X Groups(b) :
     LET g == b.groups[x[1][2]]
         h == b.groups[x[2][2]]
     IN  g.members < h.members \/ (g.members = h.members /\ x[1][2] < x[2][2])}

(* One phase: cut the items in turn, as long as the block is too long.     *)
CutWhileOver(b, budget, items, order, cut) ==
  LET turn(v) == Cardinality({w \in items : <<w, v>> \in order})
      gone[n \in 0..Cardinality(items)] ==
        IF n = 0 THEN cut
        ELSE IF TotalChars(b, gone[n - 1]) > budget
        THEN gone[n - 1] \union {v \in items : turn(v) = n - 1}
        ELSE gone[n - 1]
  IN  gone[Cardinality(items)]

CutFromTheEnd(b, budget, items, cut) == CutWhileOver(b, budget, items, FromTheEnd(items), cut)

(* _apply_token_budget: the items that are cut.                            *)
ApplyTokenBudget(b, budget) ==
  LET neighbours == CutFromTheEnd(b, budget, Entities(b, FALSE), {})
      groups     == CutWhileOver(b, budget, Groups(b), SmallestFirst(b), neighbours)
      paths      == CutFromTheEnd(b, budget, Paths(b), groups)
  IN  CutFromTheEnd(b, budget, Entities(b, TRUE), paths)

(* format_community_section: a community is [count, chars], and is left out*)
(* as a group of as many members is.  The positions that are kept.         *)
SectionKept(communities, budget) ==
  LET b == [entities |-> <<>>, paths |-> <<>>,
            groups |-> [i \in DOMAIN communities |->
                          [members |-> communities[i].count, chars |-> communities[i].chars]]]
      dropped == CutWhileOver(b, budget, Groups(b), SmallestFirst(b), {})
  IN  {i \in DOMAIN communities : <<"group", i>> \notin dropped}

=============================================================================
