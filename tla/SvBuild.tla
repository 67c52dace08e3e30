------------------------------ MODULE SvBuild ------------------------------
(***************************************************************************)
(* build_kg (knowledge_graph/builders/sv/build.py): the graph of an ordered*)
(* list of SystemVerilog files, and what the promote cache                 *)
(* (semantic/promote_cache.py) makes of a list that was built before.      *)
(*                                                                         *)
(* A file's content is the sequence of its labelled syntax nodes; the first*)
(* is its root.  A label defines a symbol or refers to one, and the three  *)
(* kinds of reference are resolved at three moments: an import as pass 1   *)
(* visits it, an instance in pass 2, a declared type after both passes.    *)
(***************************************************************************)
EXTENDS Naturals, Sequences, FiniteSets

CONSTANTS
  Uri,      \* the files
  Stem,     \* what their names can be without the directory and the suffix
  Content,  \* what a file can contain
  Sym,      \* names of packages, modules and types
  Labels,   \* content -> sequence of labels
  None      \* no symbol, no origin

Label ==
  [role: {"plain"}, sym: {None}] \union [role: {"def", "import", "instance", "type"}, sym: Sym]

LabelsAssumption ==
  \A c \in Content : Labels[c] \in Seq(Label) /\ Labels[c] # <<>>

(* The tables an edge can go to, one for each kind modelled.               *)
EdgeType == {"child", "imports", "of_module", "of_type"}

(* _unresolved.<name>                                                      *)
Placeholder == [unresolved: Sym]

Least(S) == CHOOSE x \in S : \A y \in S : x <= y
Greatest(S) == CHOOSE x \in S : \A y \in S : x >= y

-----------------------------------------------------------------------------
(* A corpus is a sequence of [uri, stem, sha].                             *)
(* The n-th file of a stem in the order of the call, from 0.               *)
Prefix(cs, i) ==
  <<cs[i].stem, Cardinality({j \in DOMAIN cs : j < i /\ cs[j].stem = cs[i].stem})>>

NodeId(cs, i, p) == [prefix |-> Prefix(cs, i), pos |-> p]

LabelAt(cs, i, p) == Labels[cs[i].sha][p]

PositionsIn(cs, i) == DOMAIN Labels[cs[i].sha]

AnyMention(cs, i, p, role, s) ==
  {q \in PositionsIn(cs, i) : q < p /\ LabelAt(cs, i, q).sym = s}

(* Where file i has a label of the given role and symbol, before p.        *)
Where(cs, i, p, role, s) ==
  {q \in PositionsIn(cs, i) : q < p /\ LabelAt(cs, i, q) = [role |-> role, sym |-> s]}

DefsBefore(cs, i, p, s) == Where(cs, i, p, "def", s)

DefsIn(cs, i, s) == DefsBefore(cs, i, Len(Labels[cs[i].sha]) + 1, s)

(* Files 1 .. i that define s.                                             *)
Definers(cs, i, s) == {j \in 1..i : DefsIn(cs, j, s) # {}}

(* name_index when pass 1 has visited files 1 .. i: every definition       *)
(* overwrites the one before.                                              *)
IndexAfter(cs, i) ==
  [s \in {s \in Sym : Definers(cs, i, s) # {}} |->
     LET j == Greatest(Definers(cs, i, s))
     IN  NodeId(cs, j, Greatest(DefsIn(cs, j, s)))]

CapturesNothing(cs, i) == [s \in {} |-> s]

(* _run_and_capture, ni_added: of the names file i defines, those that were*)
(* not in the index before it, with their value after it.                  *)
Captured(cs, i) ==
  [s \in {s \in Sym : DefsIn(cs, i, s) # {}} \ DOMAIN IndexAfter(cs, i - 1) |->
     NodeId(cs, i, Greatest(DefsIn(cs, i, s)))]

(* _replay of every file's delta into an empty index.                      *)
ReplayedIndex(cs) ==
  [s \in UNION {DOMAIN Captured(cs, i) : i \in DOMAIN cs} |->
     Captured(cs, Least({i \in DOMAIN cs : s \in DOMAIN Captured(cs, i)}))[s]]

-----------------------------------------------------------------------------
GraphNodes(cs) ==
  UNION {{[id |-> NodeId(cs, i, p), sha |-> cs[i].sha] : p \in PositionsIn(cs, i)} :
           i \in DOMAIN cs}

(* Where a reference to s goes by this index.                              *)
Resolved(index, s) == IF s \in DOMAIN index THEN index[s] ELSE [unresolved |-> s]

(* What pass 1 has seen when it visits position p of file i.               *)
ImportTarget(cs, i, p, s) ==
  IF DefsBefore(cs, i, p, s) # {}
  THEN NodeId(cs, i, Greatest(DefsBefore(cs, i, p, s)))
  ELSE Resolved(IndexAfter(cs, i - 1), s)

(* The edges from position p of file i; "types" is the index of the sweep  *)
(* after both passes.  An instance of an unknown module has no edge.       *)
EdgesAt(cs, i, p, types) ==
  LET l == LabelAt(cs, i, p)
      full == IndexAfter(cs, Len(cs))
      edge(t, dst) == [type |-> t, src |-> NodeId(cs, i, p), dst |-> dst]
  IN  CASE l.role = "import" -> {edge("imports", ImportTarget(cs, i, p, l.sym))}
        [] l.role = "instance" ->
             IF l.sym \in DOMAIN full THEN {edge("of_module", full[l.sym])} ELSE {}
        [] l.role = "type" -> {edge("of_type", Resolved(types, l.sym))}
        [] OTHER -> {}

ChildEdges(cs, i) ==
  {[type |-> "child", src |-> NodeId(cs, i, 1), dst |-> NodeId(cs, i, p)] :
     p \in PositionsIn(cs, i) \ {1}}

(* Edges of passes 1 and 2 are replayed as they were captured; the sweep   *)
(* after them runs again, over the index that the replay left.             *)
GraphEdges(cs, cached) ==
  LET types == IF cached THEN ReplayedIndex(cs) ELSE IndexAfter(cs, Len(cs))
  IN  UNION {ChildEdges(cs, i) \union
             UNION {EdgesAt(cs, i, p, types) : p \in PositionsIn(cs, i)} :
               i \in DOMAIN cs}

=============================================================================
