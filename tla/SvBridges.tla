----------------------------- MODULE SvBridges -----------------------------
(***************************************************************************)
(* How V2IntegrationDriver ties the statement tree of a SystemVerilog      *)
(* module to its expression trees: stubs of sv_dataflow_v2_statements.py,  *)
(* roots of sv_v2_walker.py, bridges of sv_v2_integration.py.              *)
(*                                                                         *)
(* A module is the sequence of its processes [kind, sites]; a site is an   *)
(* expression of a statement, [role, nodes], with the nodes [form, word,   *)
(* key] of its tree in the order of a walk, itself first.  The forms:      *)
(*   "name"      an identifier                                             *)
(*   "shared"    a literal or a select, one node per module for its key: a *)
(*               literal without its apostrophe; the base of a select with *)
(*               its bounds, a hash of the place in the tree for one that  *)
(*               is no literal, which selects of many words then share     *)
(*   "operator"  an operator                                               *)
(*   "other"     what is no root: a call, a cast, an outer parenthesis     *)
(***************************************************************************)
EXTENDS Integers, Sequences, SequencesExt, FiniteSets, FiniteSetsExt

CONSTANT KnownSignals  \* known_module_signals

Site == [role: {"condition", "selector", "case_value", "lhs", "rhs"},
         nodes: Seq([form: {"name", "shared", "operator", "other"}, word: STRING,
                    key: STRING]) \ {<<>>}]

Process == [kind: STRING, sites: Seq(Site)]

Numbered == {"always_ff", "always_comb", "always_latch", "always", "assign"}

(* _collect_process_nodes of the walker: the position of a process among   *)
(* those it collects, which the initial and final ones are not.            *)
WalkerNumber(module, p) == Cardinality({q \in 1..(p - 1) : module[q].kind \in Numbered})

(* _collect_processes of the statements: initial and final count.          *)
NumberAmongItsKind(module, p) == Cardinality({q \in 1..(p - 1) : module[q].kind = module[p].kind})

StatementNumber(module, p) == p - 1

WalkerProcess(module, p)    == <<module[p].kind, WalkerNumber(module, p)>>
StatementProcess(module, p) == <<module[p].kind, StatementNumber(module, p)>>

Walked(module) == {p \in DOMAIN module : module[p].kind \in Numbered}

(* A node by its place: its process, its site and its number in the tree.  *)
Node(module, at) == module[at[1]].sites[at[2]].nodes[at[3]]

Places(module, p) ==
  UNION {{<<p, i, k>> : k \in DOMAIN module[p].sites[i].nodes} : i \in DOMAIN module[p].sites}

OfForm(module, places, form) == {at \in places : Node(module, at).form = form}

(* The order in which _visit comes to them.                                *)
Earlier(a, b) ==
  \/ a[1] < b[1]
  \/ a[1] = b[1] /\ a[2] < b[2]
  \/ a[1] = b[1] /\ a[2] = b[2] /\ a[3] < b[3]

(* The nodes of process p that _emit_literal and _emit_index make.         *)
Made(module, p) ==
  LET shared == OfForm(module, UNION {Places(module, q) : q \in Walked(module)}, "shared")
  IN  {at \in shared : /\ at[1] = p
                       /\ \A other \in shared :
                            Earlier(other, at) => Node(module, other).key # Node(module, at).key}

(* They enter a text only when they make the node, and its first.          *)
SharedRoots(module, p) ==
  LET firsts == {at \in Made(module, p) : \A other \in Made(module, p) :
                   Earlier(other, at) => Node(module, other).word # Node(module, at).word}
  IN  {[text |-> Node(module, at).word, node |-> <<Node(module, at).key>>] : at \in firsts}

(* _emit_operator: the first of a text in the process.                     *)
OperatorRoots(module, p) ==
  LET operators == OfForm(module, Places(module, p), "operator")
      firsts == {at \in operators : \A other \in operators :
                   Earlier(other, at) => Node(module, other).word # Node(module, at).word}
  IN  {[text |-> Node(module, at).word, node |-> at] : at \in firsts}

(* text_to_root, of a process by its name.                                 *)
TextToRoot(module, process) ==
  UNION {SharedRoots(module, p) \union OperatorRoots(module, p) :
         p \in {q \in Walked(module) : WalkerProcess(module, q) = process}}

(* The roles whose triple has the stub as its object.  That of a predicate,*)
(* condition_of, has the branch: _emit_bridges passes it over.             *)
StubIsObject == {"selector", "case_value", "lhs", "rhs"}

(* _emit_bridges: where the stub of site i of process p leads.             *)
BridgeTargets(module, p, i) ==
  LET site == module[p].sites[i]
      text == site.nodes[1].word
      roots == {r.node : r \in {t \in TextToRoot(module, StatementProcess(module, p)) : t.text = text}}
  IN  IF site.role \notin StubIsObject THEN {}
      ELSE IF roots # {} THEN roots
      ELSE IF site.nodes[1].form = "name" /\ text \in KnownSignals THEN {<<text>>} ELSE {}

Bridges(module) ==
  [p \in DOMAIN module |-> [i \in DOMAIN module[p].sites |-> BridgeTargets(module, p, i)]]

=============================================================================
