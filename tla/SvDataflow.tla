----------------------------- MODULE SvDataflow -----------------------------
(***************************************************************************)
(* The dataflow between the signals of a SystemVerilog module, from the    *)
(* elaborated tree (reads, _emit_dataflow_edges of sv_connectivity.py) and *)
(* from the syntax tree (drives_signal, sv_dataflow_extractor.py).         *)
(*                                                                         *)
(* A statement is the sequence of its parts, in the order of the text:     *)
(*   assignments, with targets of [base, index]: more than one is a        *)
(*   concatenation; index: the signals in its [ ];                         *)
(*   and what precedes the branches of an if or a case, its test.          *)
(* A part is under the branches that it is in: <<number, branch>>, where   *)
(* branch is 1 for the then or the first item, 0 for the else or default.  *)
(* An expression is the set of its signals; one with one signal is that    *)
(* signal.  The process of a continuous assignment is the assignment.      *)
(***************************************************************************)
EXTENDS Integers, Sequences, SequencesExt, FiniteSets, FiniteSetsExt

CONSTANT Signal

Target == [base: Signal, index: SUBSET Signal]

Part ==
  [kind: {"assign"}, targets: Seq(Target), rhs: SUBSET Signal, under: SUBSET (Nat \X Nat)]
    \union [kind: {"if", "case"}, test: SUBSET Signal, under: SUBSET (Nat \X Nat)]

(* A branch has a part that opens it, before it and no deeper than it.     *)
IsStatement(s) ==
  /\ s \in Seq(Part)
  /\ \A i \in DOMAIN s : \A x \in s[i].under :
       /\ x[1] \in 1..(i - 1) /\ s[x[1]].kind # "assign" /\ s[x[1]].under \subseteq s[i].under
       /\ \A y \in s[i].under : x[1] = y[1] => x = y

Assigns(s) == {i \in DOMAIN s : s[i].kind = "assign"}

Branches(s) == UNION {s[i].under : i \in DOMAIN s}

InCase(s, i) == \E x \in s[i].under : s[x[1]].kind = "case"

(* _collect_base_symbols of a left-hand side: the indices count.           *)
LhsNames(a) == UNION {{t.base} \union t.index : t \in ToSet(a.targets)}

LhsAtOnce(s, x) == UNION {LhsNames(s[i]) : i \in {k \in Assigns(s) : s[k].under = s[x[1]].under \union {x}}}

(* _collect_lhs_in_branch, which does not look into a case either.         *)
LhsInBranch(s, x) ==
  UNION {LhsNames(s[i]) : i \in {k \in Assigns(s) :
                                  /\ x \in s[k].under
                                  /\ \A y \in s[k].under : y[1] > x[1] => s[y[1]].kind # "case"}}

(* _walk_stmts: the pairs <<reader, read>>.                                *)
ReadsOf(s) ==
  (UNION {LhsNames(s[i]) \X s[i].rhs : i \in {k \in Assigns(s) : ~InCase(s, k)}})
    \union (UNION {LhsInBranch(s, x) \X s[x[1]].test :
                     x \in {y \in Branches(s) : s[y[1]].kind = "if" /\ ~InCase(s, y[1])}})

Reads(s) == {r \in ReadsOf(s) : r[1] # r[2]}

-----------------------------------------------------------------------------
Assignments(s) == {s[i] : i \in Assigns(s)}

Predicates(s) == UNION {s[i].test : i \in DOMAIN s \ Assigns(s)}

(* _lhs_subnode: the first child of the assignment that is a name, which a *)
(* concatenation is not; then it is the right-hand side, if that is one.   *)
TargetOf(a) ==
  IF Len(a.targets) = 1 THEN {a.targets[1].base}
  ELSE IF Cardinality(a.rhs) = 1 THEN a.rhs ELSE {}

(* The identifiers left when those nodes are skipped, indices and all.     *)
Operands(a) ==
  IF Len(a.targets) = 1 THEN a.rhs
  ELSE LhsNames(a) \union (IF Cardinality(a.rhs) = 1 THEN {} ELSE a.rhs)

(* _emit_for_process: each of the identifiers drives each of the targets.  *)
DrivesSignal(s) ==
  LET identifiers == Predicates(s) \union UNION {Operands(a) : a \in Assignments(s)}
      targets     == UNION {TargetOf(a) : a \in Assignments(s)}
  IN  {d \in identifiers \X targets : d[1] # d[2]}

HasCase(s) == \E i \in DOMAIN s : s[i].kind = "case"

-----------------------------------------------------------------------------
(* The values the statement leaves when the signals have those of env: an  *)
(* expression is the parity of its signals, which no signal is without     *)
(* influence on.  A case has an item for "true", and a default.  A part    *)
(* that is under branches not taken is passed over.                        *)
Parity(env, signals) == Cardinality({x \in signals : env[x]}) % 2 = 1

Assign(env, a) ==
  [x \in DOMAIN env |-> IF \E t \in ToSet(a.targets) : t.base = x THEN Parity(env, a.rhs) ELSE env[x]]

Step(s, i, now) ==
  IF ~(s[i].under \subseteq now.taken) THEN now
  ELSE IF s[i].kind = "assign" THEN [env |-> Assign(now.env, s[i]), taken |-> now.taken]
  ELSE [env   |-> now.env,
        taken |-> now.taken \union {<<i, IF Parity(now.env, s[i].test) THEN 1 ELSE 0>>}]

Execute(s, env) ==
  LET after[i \in 0..Len(s)] ==
        IF i = 0 THEN [env |-> env, taken |-> {}] ELSE Step(s, i, after[i - 1])
  IN  after[Len(s)].env

(* Changing y alone changes what the statement leaves in x.                *)
Influences(s, y, x, env) == Execute(s, env)[x] # Execute(s, [env EXCEPT ![y] = ~@])[x]

=============================================================================
