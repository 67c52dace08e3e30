------------------------------- MODULE SvFsm -------------------------------
(***************************************************************************)
(* The transitions of the state machines of a SystemVerilog module         *)
(* (_emit_fsm_edges of extraction/sv_connectivity.py).                     *)
(*                                                                         *)
(* A design is [vars, type, members, procs]: the enum-typed variables in   *)
(* the order of their declarations, the enum of each, the members of each  *)
(* enum, and the processes [kind, stmt].  A statement is the sequence of   *)
(* its parts, in the order of the text:                                    *)
(*   assignments of a value to a variable (value NoName: no member);       *)
(*   what precedes the branches of an if, its test [reads, var, literal]:  *)
(*   var == literal, or with the literal NoName another predicate on reads;*)
(*   what precedes the branches of a case: the labels of each of its items,*)
(*   and its selector (NoName: not a variable);                            *)
(*   and the begin of a begin ... end.                                     *)
(* A part is under the branches that it is in: <<number, branch>>, where   *)
(* branch is 1 for the then, 0 for the else or the default, the number of  *)
(* the item of a case, and 1 for a begin.                                  *)
(***************************************************************************)
EXTENDS Integers, Sequences, SequencesExt, FiniteSets

CONSTANT NoName

VarNames(design) == DOMAIN design.type
States(design) == UNION {design.members[e] : e \in DOMAIN design.members}

Test(design) ==
  {t \in [reads: SUBSET VarNames(design), var: VarNames(design) \union {NoName},
          literal: States(design) \union {NoName}] :
     t.literal # NoName => t.var # NoName /\ t.literal \in design.members[design.type[t.var]]}

Branch == Nat \X Nat

Part(design) ==
  [kind: {"assign"}, var: VarNames(design), value: States(design) \union {NoName},
   nonblocking: BOOLEAN, under: SUBSET Branch]
    \union [kind: {"begin"}, under: SUBSET Branch]
    \union [kind: {"if"}, test: Test(design), under: SUBSET Branch]
    \union {c \in [kind: {"case"}, selector: VarNames(design) \union {NoName},
                   labels: Seq(SUBSET States(design)), under: SUBSET Branch] :
              c.selector # NoName =>
                \A j \in DOMAIN c.labels : c.labels[j] \subseteq design.members[design.type[c.selector]]}

(* A part that is directly in a branch of an if or a case.                 *)
InArm(s, i) ==
  \E x \in s[i].under : s[x[1]].kind \in {"if", "case"} /\ s[i].under = s[x[1]].under \union {x}

(* A branch is opened by a part before it, which is in the branches around *)
(* it; and one of an if or a case is one statement.                        *)
IsStatement(design, s) ==
  /\ s \in Seq(Part(design))
  /\ \A i \in DOMAIN s : \A x \in s[i].under :
       /\ x[1] \in 1..(i - 1)
       /\ CASE s[x[1]].kind = "begin"  -> x[2] = 1
            [] s[x[1]].kind = "if"     -> x[2] \in {0, 1}
            [] s[x[1]].kind = "case"   -> x[2] \in 0..Len(s[x[1]].labels)
            [] s[x[1]].kind = "assign" -> FALSE
       /\ s[x[1]].under = {y \in s[i].under : y[1] < x[1]}
       /\ \A y \in s[i].under : x[1] = y[1] => x = y
  /\ \A i, j \in DOMAIN s : InArm(s, i) /\ s[j].under = s[i].under => i = j

(* In a scope, a name is declared once.                                    *)
IsDesign(design) ==
  /\ design.vars \in Seq(VarNames(design))
  /\ \A v \in VarNames(design) : \E i \in DOMAIN design.vars : design.vars[i] = v
  /\ design.type \in [VarNames(design) -> DOMAIN design.members]
  /\ VarNames(design) \intersect States(design) = {}
  /\ NoName \notin VarNames(design) \union States(design)
  /\ \A i \in DOMAIN design.procs : IsStatement(design, design.procs[i].stmt)

-----------------------------------------------------------------------------
Of(procs, kind) == {a \in UNION {ToSet(p.stmt) : p \in procs} : a.kind = kind}

CaseSelectors(design) == {c.selector : c \in Of(ToSet(design.procs), "case")} \ {NoName}
IfConditionVars(design) == UNION {c.test.reads : c \in Of(ToSet(design.procs), "if")}
NbaTargets(design) ==
  {a.var : a \in {b \in Of({p \in ToSet(design.procs) : p.kind = "always_ff"}, "assign") : b.nonblocking}}

(* Only an enum whose variables are tested somewhere is a state machine.   *)
Observed(design, enum) ==
  \E v \in CaseSelectors(design) \union IfConditionVars(design) :
    v \in VarNames(design) /\ design.type[v] = enum

StateVars(design) == {v \in VarNames(design) : Observed(design, design.type[v])}

(* The variable that names the machine.                                    *)
FsmVar(design, enum) ==
  LET Among(S) == {i \in DOMAIN design.vars : design.type[design.vars[i]] = enum /\ design.vars[i] \in S}
      First(S) == design.vars[CHOOSE i \in Among(S) : \A j \in Among(S) : i <= j]
  IN  CASE Among(NbaTargets(design)) # {}    -> First(NbaTargets(design))
        [] Among(CaseSelectors(design)) # {} -> First(CaseSelectors(design))
        [] OTHER                             -> First(VarNames(design))

(* _find_state_assignments in a branch: it does not look into a case.      *)
StateAssignments(design, s, x) ==
  {k \in DOMAIN s :
     /\ s[k].kind = "assign" /\ s[k].var \in StateVars(design) /\ s[k].value # NoName
     /\ x \in s[k].under
     /\ \A y \in s[k].under : y[1] > x[1] => s[y[1]].kind # "case"}

Branches(s) == UNION {s[i].under : i \in DOMAIN s}

(* The items of the cases over state variables, and their edges.           *)
Items(design, s) ==
  {x \in Branches(s) : s[x[1]].kind = "case" /\ x[2] # 0 /\ s[x[1]].selector \in StateVars(design)}

ItemEdgesToAnyMachine(design, s, x) ==
  {[src |-> src, dst |-> s[k].value] :
     src \in s[x[1]].labels[x[2]], k \in StateAssignments(design, s, x)}

ItemEdges(design, s, x) ==
  {[src |-> src, dst |-> s[k].value] :
     src \in s[x[1]].labels[x[2]],
     k \in {m \in StateAssignments(design, s, x) :
              design.type[s[m].var] = design.type[s[x[1]].selector]}}

(* The conditionals that _walk_stmts keeps.  That one is in an arm is      *)
(* forgotten in a begin ... end.                                           *)
Ladders(s) == {i \in DOMAIN s : s[i].kind = "if" /\ ~InArm(s, i)}

(* _walk_ladder: from one to the else-ifs of it.                           *)
Rungs(s, i) ==
  {k \in DOMAIN s :
     /\ s[k].kind = "if" /\ (k = i \/ <<i, 0>> \in s[k].under)
     /\ \A y \in s[k].under : y[1] >= i => s[y[1]].kind = "if" /\ y[2] = 0}

ElseIf(s, k) == \E i \in DOMAIN s : s[i].kind = "if" /\ s[i].under = s[k].under \union {<<k, 0>>}

Arms(s) ==
  {x \in Branches(s) : /\ \E i \in Ladders(s) : x[1] \in Rungs(s, i)
                       /\ x[2] = 0 => ~ElseIf(s, x[1])}

(* _emit_ladder_arm: from the state the predicate names, if its variable   *)
(* is of the machine, and else from the machine, which stands for any.     *)
(* What was tested before an else is not known in it.                      *)
ArmEdges(design, s, x) ==
  LET test == s[x[1]].test
      From(enum) == IF x[2] = 1 /\ test.literal # NoName /\ design.type[test.var] = enum
                    THEN test.literal ELSE FsmVar(design, enum)
  IN  {[src |-> From(design.type[s[k].var]), dst |-> s[k].value] : k \in StateAssignments(design, s, x)}

Combinational == {"always_comb", "always_latch", "always"}

ProcessEdges(design, p) ==
  (UNION {ItemEdges(design, p.stmt, x) : x \in Items(design, p.stmt)})
    \union (IF p.kind \in Combinational
            THEN UNION {ArmEdges(design, p.stmt, x) : x \in Arms(p.stmt)} ELSE {})

Transitions(design) == UNION {ProcessEdges(design, p) : p \in ToSet(design.procs)}

-----------------------------------------------------------------------------
(* The values that the variables may have before a process: those of one   *)
(* machine agree, as if all of them were its state.                        *)
Envs(design) ==
  {env \in [VarNames(design) -> States(design)] :
     \A v, w \in VarNames(design) :
       env[v] \in design.members[design.type[v]] /\ (design.type[v] = design.type[w] => env[v] = env[w])}

(* Whether a branch is taken: the first item with the label, or the default*)
Takes(part, branch, env) ==
  CASE part.kind = "begin" -> TRUE
    [] part.kind = "if"    -> part.test.literal = NoName \/ (branch = 1 <=> env[part.test.var] = part.test.literal)
    [] part.kind = "case"  ->
         \/ part.selector = NoName
         \/ /\ branch # 0 => env[part.selector] \in part.labels[branch]
            /\ \A j \in DOMAIN part.labels : j < branch \/ branch = 0 => env[part.selector] \notin part.labels[j]

Reached(s, k, env) == \A x \in s[k].under : Takes(s[x[1]], x[2], env)

(* What a part tests: the machines, and the states it compares with.       *)
TestsOf(design, part) ==
  CASE part.kind = "if" /\ part.test.literal # NoName ->
         {<<design.type[part.test.var], part.test.literal>>}
    [] part.kind = "case" /\ part.selector # NoName   ->
         {design.type[part.selector]} \X (UNION ToSet(part.labels))
    [] OTHER -> {}

(* No test is decided by one that it is inside of, no label is there twice.*)
TestedOnce(design, s) ==
  \A k \in DOMAIN s :
    /\ \A x \in s[k].under : \A t \in TestsOf(design, s[x[1]]), u \in TestsOf(design, s[k]) :
         IF x[2] = 0 THEN t # u ELSE t[1] # u[1]
    /\ s[k].kind = "case" =>
         \A i, j \in DOMAIN s[k].labels : i # j => s[k].labels[i] \intersect s[k].labels[j] = {}

NoneDead(design, s) == \A k \in DOMAIN s : \E env \in Envs(design) : Reached(s, k, env)

(* What decides on an assignment is followed: an item of a case over a     *)
(* variable of the machine, or the conditionals of a combinational process.*)
Followed(design, p, k) ==
  LET s == p.stmt
      inCases == {x \in s[k].under : s[x[1]].kind = "case"}
  IN  \/ /\ p.kind \in Combinational /\ inCases = {}
         /\ \E x \in s[k].under : s[x[1]].kind = "if"
      \/ \E x \in inCases : /\ \A y \in inCases : y[1] <= x[1]
                            /\ x[2] # 0 /\ s[x[1]].selector # NoName
                            /\ design.type[s[x[1]].selector] = design.type[s[k].var]

=============================================================================
