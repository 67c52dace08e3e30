---------------------------- MODULE Computations ----------------------------
(***************************************************************************)
(* The pure computations of the repository that have a property of their   *)
(* own: a task with its input, and one step that puts out what the code    *)
(* computes from it.                                                       *)
(***************************************************************************)
EXTENDS Integers, Sequences, SequencesExt, FiniteSets, FiniteSetsExt

CONSTANTS
  Private, SeedTag, NeighbourTag, Stride,  \* of the modules below
  CaptureInputs, ImportInputs, BudgetInputs, HierarchyInputs, ResolutionInputs,
  ModuleInputs, KnownSignals, StatementInputs, Signal, DesignInputs, NoName,
  Canon, MaxTerms, MaxHopFanout, QueryInputs, PatternInputs

VARIABLES task, input, output  \* output is <<>>, and then has one element

cvars == <<task, input, output>>

Scopes    == INSTANCE PyScopes
Budget    == INSTANCE ContextBudget
Hierarchy == INSTANCE CommunityHierarchy
Resolution == INSTANCE EntityResolution
BridgeStep == INSTANCE SvBridges
Dataflow  == INSTANCE SvDataflow
Fsm       == INSTANCE SvFsm
Queries   == INSTANCE QueryExpansion

(* A chain is of frames, and one that the compiler accepts: the source has *)
(* been parsed before it is walked.                                        *)
ASSUME CaptureAssumption ==
  \A i \in CaptureInputs : i.chain \in Seq(Scopes!Frame) /\ Scopes!Compiles(i.chain)

ASSUME ImportAssumption ==
  \A i \in ImportInputs :
    /\ i.consumer \in Seq(STRING) \ {<<>>} /\ i.file \in Seq(Scopes!Statement) /\ i.name \in STRING
    /\ \A k \in DOMAIN i.file :
         i.file[k].form = "import" => i.file[k].module # <<>> /\ i.file[k].local = Head(i.file[k].module)

(* A stub is part of its line.                                             *)
ASSUME BudgetAssumption ==
  /\ {SeedTag, NeighbourTag} \subseteq Nat
  /\ \A i \in BudgetInputs :
       /\ i.budget \in Nat
       /\ i.block.entities \in Seq({e \in Budget!Entity : e.stub <= e.chars})
       /\ i.block.groups \in Seq(Budget!Group)
       /\ i.block.paths \in Seq(Nat)
       /\ i.communities \in Seq([count: Nat, chars: Nat])

(* Leiden parts any set of entities into communities.                      *)
ASSUME HierarchyAssumption ==
  /\ Stride \in Nat
  /\ \A i \in HierarchyInputs :
       /\ i.maxLevels \in Nat
       /\ i.leiden \in [SUBSET i.entities -> Seq(SUBSET i.entities)]
       /\ \A S \in SUBSET i.entities :
            /\ UNION {i.leiden[S][c] : c \in DOMAIN i.leiden[S]} = S
            /\ \A c, d \in DOMAIN i.leiden[S] : c # d => i.leiden[S][c] \intersect i.leiden[S][d] = {}

(* What a node is, its text says.                                          *)
ASSUME ModuleAssumption ==
  \A module \in ModuleInputs :
    /\ module \in Seq(BridgeStep!Process)
    /\ \A at, other \in UNION {BridgeStep!Places(module, p) : p \in DOMAIN module} :
         BridgeStep!Node(module, at).word = BridgeStep!Node(module, other).word
           => BridgeStep!Node(module, at).form = BridgeStep!Node(module, other).form

ASSUME StatementAssumption == \A s \in StatementInputs : Dataflow!IsStatement(s)

ASSUME DesignAssumption == \A design \in DesignInputs : Fsm!IsDesign(design)

(* The entities of a graph have names of their own.                        *)
ASSUME ResolutionAssumption ==
  \A i \in ResolutionInputs :
    /\ i.graph \in Seq(Resolution!Entity) /\ IsInjective([k \in DOMAIN i.graph |-> i.graph[k].name])
    /\ i.table \in Seq(STRING \X STRING)

(* Entities of a graph and its edges; seeds are names, not other forms.    *)
ASSUME QueryAssumption ==
  /\ MaxTerms \in Nat
  /\ \A q \in QueryInputs :
       /\ q.graph.edges \subseteq q.graph.nodes \X STRING \X q.graph.nodes
       /\ q.depth \in Nat
       /\ \A x \in q.seeds : Canon[x] = x
       /\ \A S \in {q.seeds, q.graph.nodes, UNION q.communities} : IsFiniteSet(S)

ASSUME PatternAssumption ==
  \A i \in PatternInputs :
    /\ i.graph.edges \subseteq i.graph.nodes \X STRING \X i.graph.nodes
    /\ i.patterns \subseteq Seq(STRING)

ComputeInit ==
  /\ output = <<>>
  /\ \/ task = "capture"   /\ input \in CaptureInputs
     \/ task = "import"    /\ input \in ImportInputs
     \/ task = "budget"    /\ input \in BudgetInputs
     \/ task = "hierarchy" /\ input \in HierarchyInputs
     \/ task = "resolve"   /\ input \in ResolutionInputs
     \/ task = "bridges"   /\ input \in ModuleInputs
     \/ task = "dataflow"  /\ input \in StatementInputs
     \/ task = "machine"   /\ input \in DesignInputs
     \/ task = "expand"    /\ input \in QueryInputs
     \/ task = "paths"     /\ input \in PatternInputs

PutOut(t, result) ==
  /\ task = t /\ output = <<>>
  /\ output' = <<result>>
  /\ UNCHANGED <<task, input>>

ClassifyCapture == PutOut("capture", Scopes!Classify(input.chain, input.inModule, FALSE))

AttributeImport ==
  PutOut("import", Scopes!Attribute(input.corpus, input.consumer, input.isInit, input.file, input.name))

FormatContext ==
  PutOut("budget", [cut  |-> Budget!ApplyTokenBudget(input.block, input.budget),
                    kept |-> Budget!SectionKept(input.communities, input.budget)])

DetectHierarchical ==
  PutOut("hierarchy",
         Hierarchy!DetectHierarchical(input.leiden, input.entities, input.minSize, input.maxLevels))

ResolveEntities ==
  PutOut("resolve", Resolution!Resolve(input.graph, input.table, input.similar))

EmitBridges == PutOut("bridges", BridgeStep!Bridges(input))

EmitDataflow ==
  PutOut("dataflow", [reads |-> Dataflow!Reads(input), drives |-> Dataflow!DrivesSignal(input)])

EmitFsmEdges == PutOut("machine", Fsm!Transitions(input))

ExpandQuery ==
  task = "expand" /\ \E result \in Queries!Expand(input) : PutOut("expand", result)

EvaluatePatterns ==
  /\ task = "paths"
  /\ \E result \in Queries!Evaluate(input.graph, input.seed, input.patterns) : PutOut("paths", result)

Compute ==
  \/ ClassifyCapture
  \/ AttributeImport
  \/ FormatContext
  \/ DetectHierarchical
  \/ ResolveEntities
  \/ EmitBridges
  \/ EmitDataflow
  \/ EmitFsmEdges
  \/ ExpandQuery
  \/ EvaluatePatterns

ComputeSpec == ComputeInit /\ [][Compute]_cvars

Computed(t) == task = t /\ output # <<>>

-----------------------------------------------------------------------------
(* No frame says anything of the name to what is in its header, which      *)
(* Python evaluates in the scope around the frame and the indexer inside   *)
(* it, and nothing is assigned in a header or directly in a lambda: the    *)
(* code does not see it.                                                   *)
BodiesOnly(chain) ==
  \A i \in DOMAIN chain :
    /\ chain[i].header /\ chain[i].kind # "class" => chain[i].form \in {"absent", "nonlocal", "walrus"}
    /\ chain[i].form = "walrus" => \A k \in 1..(i - 1) : ~chain[k].header
    /\ chain[i].kind = "lambda" => ~Scopes!WalrusInside(chain, i) /\ chain[i].form # "walrus"

(* A captured name is local-in-enclosing exactly if Python finds it in an  *)
(* enclosing scope, through class bodies, global and nonlocal declarations *)
(* and assignment expressions in comprehensions, where the name's frames   *)
(* are those around it in Python (BodiesOnly).                             *)
LooksWherePythonLooks ==
  Computed("capture") /\ BodiesOnly(input.chain)
    => (output[1] = "local-in-enclosing" <=> Scopes!PythonLooks(input.chain) = "enclosing")

(* No module has an attribute and a submodule of one name.                 *)
Unambiguous(corpus) ==
  \A m \in DOMAIN corpus.exports, x \in UNION {corpus.exports[n] : n \in DOMAIN corpus.exports} :
    x \in corpus.exports[m] => Append(m, x) \notin corpus.modules

(* Statements of a file whose binding of a name the code can follow: one   *)
(* is not "import a.b", which the walker records as if it bound a to a.b.  *)
Followed(i) ==
  LET binders == Scopes!PythonBinders(input.corpus, input.file, input.name)
      stars   == {j \in binders : input.file[j].form = "star"}
  IN  /\ \A j \in DOMAIN input.file :
           /\ ~input.file[j].inFunction /\ ~input.file[j].guarded
           /\ input.file[j].module # <<>>
           /\ input.file[j].form = "star" => input.file[j].level = 0
      /\ Cardinality(stars) <= 1 /\ Cardinality(binders \ stars) <= 1
      /\ \A j \in stars, k \in binders \ stars : j < k
      /\ binders # {} /\ i = Max(binders)
      /\ input.file[i].form = "import" => Len(input.file[i].module) = 1

(* A name that is imported once by name, whatever its level of relativity, *)
(* or once by a star, or both in this order, is attributed to the module   *)
(* that Python takes it from, in a package's __init__.py or not, and with  *)
(* or without an __all__; an attribute never to a submodule, nor a         *)
(* submodule to its package.                                               *)
ImportAttributed ==
  Computed("import") /\ Unambiguous(input.corpus) =>
    \A i \in DOMAIN input.file : Followed(i) =>
      \A b \in Scopes!PythonBindings(input.corpus, input.consumer, input.isInit,
                                     input.file[i], input.name) :
        (b.kind = "cross-file-import" \/ b.origin \in input.corpus.modules) => output[1] = b

(* What _apply_token_budget cuts, it cuts in the order of its phases: a    *)
(* kind is touched only when the kinds before it are gone, groups fewest   *)
(* members first, the others from the end, and nothing is cut that could   *)
(* have stayed after all that was cut before it.  The result fits, unless  *)
(* nothing is left to cut.  The communities' section keeps the communities *)
(* with the most touched members.                                          *)
BudgetPriority ==
  Computed("budget") =>
    LET b == input.block
        cut == output[1].cut
        Phase(x) == CASE x[1] = "entity" /\ ~b.entities[x[2]].seed -> 1
                      [] x[1] = "group" -> 2 [] x[1] = "path" -> 3 [] OTHER -> 4
        Before(x, y) ==
          \/ Phase(x) < Phase(y)
          \/ Phase(x) = Phase(y) /\ Phase(x) # 2 /\ x[2] > y[2]
          \/ Phase(x) = 2 /\ Phase(y) = 2 /\ b.groups[x[2]].members < b.groups[y[2]].members
    IN  /\ \A y \in cut : {x \in Budget!Items(b) : Before(x, y)} \subseteq cut
        /\ cut = Budget!Items(b) \/ Budget!TotalChars(b, cut) <= input.budget
        /\ cut # {} => \E y \in cut : Budget!TotalChars(b, cut \ {y}) > input.budget
        /\ \A i \in output[1].kept, j \in DOMAIN input.communities \ output[1].kept :
             input.communities[j].count <= input.communities[i].count

(* As long as no community splits into Stride or more, the children of a   *)
(* community partition it, at every level: none is overwritten by a cousin *)
(* with its number, the bucket's -1 included.                              *)
HierarchyRefines ==
  Computed("hierarchy") /\ (\A k \in DOMAIN input.leiden : Len(input.leiden[k]) < Stride) =>
    LET h == output[1]
        Children(k) == {x \in DOMAIN h.parent : h.parent[x] = k}
    IN  /\ \A x \in DOMAIN h.parent :
             h.parent[x][1] = x[1] - 1 /\ h.parent[x] \in DOMAIN h.members
        /\ \A k \in DOMAIN h.members : Children(k) # {} =>
             UNION {h.members[x] : x \in Children(k)} = h.members[k]
        /\ \A x, y \in DOMAIN h.members :
             x # y /\ x[1] = y[1] => h.members[x] \intersect h.members[y] = {}

(* Proposals are made from one listing and carried out one by one.  When   *)
(* no entity that is to stay is itself proposed as a duplicate, each of    *)
(* them is carried out, by either resolver; and no merge loses a mention.  *)
ProposalsCarriedOut ==
  Computed("resolve") =>
    LET r == output[1]
        Gone(candidates, graph) ==
          LET cs == {candidates[k] : k \in DOMAIN candidates}
          IN  (\A c, d \in cs : c[1] # d[2]) =>
                \A c \in cs : c[1] \in Resolution!Names(graph) /\ c[2] \notin Resolution!Names(graph)
        Mentions(graph) ==
          Budget!SumOf([i \in DOMAIN input.graph |-> IF i \in DOMAIN graph THEN graph[i].count ELSE 0])
    IN  /\ Gone(r.aliases, r.between) /\ Gone(r.pairs, r.graph)
        /\ Mentions(r.graph) = Mentions(input.graph)

(* A stub is tied to one root, of its own text.  Up to the first initial or*)
(* final process, which only one of the two walks numbers, it is one of its*)
(* own process, and each is tied: the stub of a name to the signal, of an  *)
(* operator, and of a literal or select whose key the module has nowhere   *)
(* before under another text or in another process.  (Where it has, the    *)
(* text is not entered.  The predicate of a conditional is never tied.)    *)
BridgesFaithful ==
  Computed("bridges") =>
    \A p \in DOMAIN input : \A i \in DOMAIN input[p].sites :
      LET site == input[p].sites[i]
          root == site.nodes[1]
          targets == output[1][p][i]
          Numbered(q) == input[q].kind \in BridgeStep!Numbered
          Shared(q, word) == {at \in BridgeStep!Places(input, q) :
                                /\ BridgeStep!Node(input, at).form = "shared"
                                /\ BridgeStep!Node(input, at).word = word}
          New == \A q \in 1..p : \A at \in BridgeStep!Places(input, q) :
                   LET n == BridgeStep!Node(input, at)
                   IN  n.form = "shared" /\ n.key = root.key => q = p /\ n.word = root.word
      IN  /\ Cardinality(targets) <= 1
          /\ \A at \in targets : root.form = "operator" =>
               BridgeStep!Node(input, at).word = root.word
          /\ (\A q \in 1..p : Numbered(q)) =>
               /\ \A x \in targets : root.form = "operator" => x[1] = p
               /\ \A x \in targets : root.form = "shared" =>
                    \E at \in Shared(p, root.word) : x = <<BridgeStep!Node(input, at).key>>
               /\ site.role \in {"lhs", "rhs", "selector", "case_value"} =>
                    CASE root.form = "operator" -> targets # {}
                      [] root.form = "name"     -> root.word \in KnownSignals => targets = {<<root.word>>}
                      [] root.form = "shared"   -> New => targets # {}
                      [] OTHER                  -> targets = {}

(* Dataflow is not lost, for assignments without indices.  A set of signals*)
(* that is closed under reads, in a statement without a case, is influenced*)
(* by nothing outside of it; and what influences a signal drives it, in a  *)
(* statement without a concatenation on the left, with a case or without.  *)
(* There the two extractors agree: what a signal reads also drives it, if  *)
(* it is not merely in an index.                                           *)
DataflowCovered ==
  Computed("dataflow") =>
    LET assigns == Dataflow!Assignments(input)
        Single == \A a \in assigns : Len(a.targets) = 1
        Indexed == \E a \in assigns : \E t \in ToSet(a.targets) : t.index # {}
        Bases == {t.base : t \in UNION {ToSet(a.targets) : a \in assigns}}
        Envs == [Signal -> BOOLEAN]
        Influences(y, x) == \E env \in Envs : Dataflow!Influences(input, y, x, env)
        Closed(S) == \A r \in output[1].reads : r[1] \in S => r[2] \in S
    IN  /\ ~Indexed /\ ~Dataflow!HasCase(input) =>
             \A S \in SUBSET Signal : Closed(S) =>
               \A x \in S, y \in Signal \ S : ~Influences(y, x)
        /\ ~Indexed /\ Single =>
             \A x, y \in Signal : x # y /\ Influences(y, x) => <<y, x>> \in output[1].drives
        /\ Single =>
             \A r \in output[1].reads : r[1] \in Bases => <<r[2], r[1]>> \in output[1].drives

(* What is related to a query: its seeds, what is at most so many hops from*)
(* one, by edges of the types if there are any, and the predecessors of    *)
(* one.  A hop goes along an edge or, both ways, also against it.  A seed  *)
(* that is gone leads nowhere.                                             *)
HopLimit(q) ==
  LET leads == \E e \in q.graph.edges : e[1] \in q.seeds /\ e[2] = "connects_to"
  IN  IF leads THEN Max({2, q.depth}) ELSE q.depth

Hop(q, bothWays, x, y) ==
  \E e \in q.graph.edges : /\ q.types = {} \/ e[2] \in q.types
                           /\ (e[1] = x /\ e[3] = y) \/ (bothWays /\ e[1] = y /\ e[3] = x)

Reaches(q, bothWays, x, y) ==
  \E n \in 1..HopLimit(q) : \E w \in [0..n -> q.graph.nodes] :
    w[0] = x /\ w[n] = y /\ \A i \in 1..n : Hop(q, bothWays, w[i - 1], w[i])

Related(q, bothWays) ==
  {y \in q.seeds \union q.graph.nodes :
     \E x \in q.seeds : \/ x = y \/ Reaches(q, bothWays, x, y)
                        \/ \E e \in q.graph.edges : e[1] = y /\ e[3] = x}

(* What is in one community with a seed.                                   *)
Kin(q) == {y \in UNION q.communities : \E c \in q.communities, x \in q.seeds : {x, y} \subseteq c}

(* The expansion of a query offers what is related to it, both ways, as    *)
(* expand documents (expander.py:131-132).  A local term is not in the     *)
(* query and is a seed, a predecessor of one, or at most so many hops from *)
(* one; there are no more than MaxTerms.  If there are fewer, nothing was  *)
(* left out that is related: both ways, of a query with types or of at most*)
(* one hop.  Without types a deeper one goes back a single hop (networkx_- *)
(* backend.py:703, where 685 and backend.py:191 say both ways to the depth)*)
(* and leaves out nothing that its edges lead to.  Terms that only a com-  *)
(* munity relates are offered when all of those are, in the places left,   *)
(* and none of these is left empty while there are more.                   *)
TermsRelated ==
  Computed("expand") /\ input.seeds # {} =>
    LET local     == output[1].local
        community == output[1].community
        found     == Related(input, input.types # {} \/ HopLimit(input) < 2)
        lone      == Kin(input) \ (found \union input.inQuery)
        Full      == Cardinality(local) + Cardinality(community) = MaxTerms
    IN  /\ Cardinality(local \union community) <= MaxTerms
        /\ local \subseteq Related(input, TRUE) \ input.inQuery
        /\ community \subseteq lone
        /\ Cardinality(local) < MaxTerms => found \ input.inQuery \subseteq local
        /\ Full \/ community = lone

(* The walks along the first n types of a pattern, edge by edge or, either *)
(* way, also against an edge; they come to no node twice, but for a seed   *)
(* that was not asked for under its own name.                              *)
LinkedBy(g, x, type, y) == <<x, type, y>> \in g.edges /\ x # y

WalksAlong(g, seed, pattern, n, eitherWay) ==
  {w \in [1..(n + 1) -> g.nodes \union {seed}] :
     /\ w[1] = seed
     /\ IsInjective(w)
     /\ \A i \in 1..n : LET x == Canon[w[i]]
                        IN  \/ LinkedBy(g, x, pattern[i], w[i + 1])
                            \/ eitherWay /\ LinkedBy(g, w[i + 1], pattern[i], x)}

(* From the end of a walk along a part of a pattern an edge of the type    *)
(* that is next leads back to a node that the walk has not come to.        *)
LeadsBack(g, seed, pattern) ==
  \E n \in 1..Len(pattern) : \E w \in WalksAlong(g, seed, pattern, n - 1, FALSE) :
    \E y \in g.nodes \ ToSet(w) : LinkedBy(g, y, pattern[n], Canon[Last(w)])

(* A path follows its pattern, type by type; there is one for a terminal.  *)
(* A hop is documented as directed (query/schemas.py:39), and it is where  *)
(* no edge leads back.  There is a path to each node that a directed walk  *)
(* ends at, edges that lead back or not, as long as no prefix of the       *)
(* pattern has more walks, either way, than the fan-out allows.  (With     *)
(* more, walks to one node can use it up.)                                 *)
PathsFollowPatterns ==
  Computed("paths") =>
    \A p \in input.patterns :
      LET found == output[1][p]
          Walks(n, eitherWay) == WalksAlong(input.graph, input.seed, p, n, eitherWay)
      IN  /\ ~LeadsBack(input.graph, input.seed, p) => found \subseteq Walks(Len(p), FALSE)
          /\ \A v, w \in found : Last(v) = Last(w) => v = w
          /\ (\A n \in 1..Len(p) : Cardinality(Walks(n, TRUE)) <= MaxHopFanout) =>
               {Last(w) : w \in Walks(Len(p), FALSE)} \subseteq {Last(w) : w \in found}

(* The transitions of a state machine.  Where no machine is tested again   *)
(* inside of a test of it, and every statement can be reached, an edge from*)
(* a state is one that a process can take in that state.  And what assigns *)
(* a member to a state variable, in an item of a case over a variable of   *)
(* the machine or in a conditional of a combinational process, has an edge *)
(* from the state or from any.  (What a default, a case over something     *)
(* else, an unconditional assignment or a reset in an always_ff assigns,   *)
(* has none.)                                                              *)
TransitionsFaithful ==
  Computed("machine") =>
    LET Envs == Fsm!Envs(input)
        procs == ToSet(input.procs)
        Assigned(p, env) == {k \in DOMAIN p.stmt : p.stmt[k].kind = "assign" /\ Fsm!Reached(p.stmt, k, env)}
    IN  /\ (\A p \in procs : Fsm!TestedOnce(input, p.stmt) /\ Fsm!NoneDead(input, p.stmt)) =>
             \A edge \in output[1] : edge.src \in Fsm!States(input) =>
               \E p \in procs, env \in Envs : \E k \in Assigned(p, env) :
                 p.stmt[k].value = edge.dst /\ env[p.stmt[k].var] = edge.src
        /\ \A p \in procs, env \in Envs : \A k \in Assigned(p, env) :
             LET a == p.stmt[k]
             IN  a.var \in Fsm!StateVars(input) /\ a.value # NoName /\ Fsm!Followed(input, p, k) =>
                   \E edge \in output[1] :
                     edge.dst = a.value /\ edge.src \in {env[a.var], Fsm!FsmVar(input, input.type[a.var])}

=============================================================================
