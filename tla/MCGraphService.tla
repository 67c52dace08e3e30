--------------------------- MODULE MCGraphService ---------------------------
(***************************************************************************)
(* A run explores either the service, with two threads, a name in the graph*)
(* file and one that is ingested, or one of the computations.              *)
(***************************************************************************)
EXTENDS GraphService, Computations

CONSTANTS filed, added

MCFileNames == {filed}

MCSeqs(S, n) == UNION {[1..k -> S] : k \in 0..n}

MCCaptureInputs ==
  {i \in [chain : MCSeqs(Scopes!Frame, 3), inModule : {TRUE}] : Scopes!Compiles(i.chain)}

(* x is the name that is asked about; p is a package, p.m, p.q and q are   *)
(* modules, and there are a package and a module of it named like x.       *)
MCModules == {<<"p">>, <<"p", "m">>, <<"p", "q">>, <<"q">>, <<"x">>, <<"x", "m">>}

MCCorpora ==
  {[modules |-> mods,
    exports |-> [m \in mods |-> IF m = <<"p", "q">> THEN eq ELSE IF m = <<"q">> THEN {"x", "_y"} ELSE {}],
    all     |-> [m \in M |-> {"x"}]] :
     mods \in {MCModules, MCModules \union {<<"p", "q", "x">>}},
     eq \in {{}, {"x"}},
     M \in {{}, {<<"p", "q">>}}}

MCStatement(form, level, module, leaf, local) ==
  [form |-> form, level |-> level, module |-> module, leaf |-> leaf, local |-> local,
   inFunction |-> FALSE, guarded |-> FALSE]

MCStatements ==
  {MCStatement("as", 0, m, "", "x") : m \in {<<"q">>, <<"p", "q">>}}
    \union {MCStatement("import", 0, m, "", "x") : m \in {<<"x">>, <<"x", "m">>}}
    \union {MCStatement("from", l, m, "x", "x") : l \in 0..3, m \in {<<"q">>, <<"p", "q">>, <<>>}}
    \union {MCStatement("from", 0, <<"q">>, "_y", "x"), MCStatement("from", 0, <<"p">>, "q", "x"),
            [MCStatement("from", 0, <<"q">>, "x", "x") EXCEPT !.inFunction = TRUE],
            [MCStatement("from", 0, <<"p", "q">>, "x", "x") EXCEPT !.guarded = TRUE]}
    \union {MCStatement("star", l, m, "", "") : l \in 0..1, m \in {<<"q">>, <<"p", "q">>}}

MCImportInputs ==
  {[corpus |-> c, consumer |-> IF init THEN <<"p">> ELSE <<"p", "m">>, isInit |-> init,
    file |-> f, name |-> "x"] :
     c \in MCCorpora, init \in BOOLEAN, f \in MCSeqs(MCStatements, 2) \ {<<>>}}

MCBudgetInputs ==
  [block : [entities : {<<s, n>> : s \in {[seed |-> TRUE, chars |-> 4, stub |-> 2]},
                                   n \in {[seed |-> FALSE, chars |-> c, stub |-> 2] : c \in 2..3}}
                         \union {<<[seed |-> TRUE, chars |-> 5, stub |-> 1],
                                   [seed |-> FALSE, chars |-> 2, stub |-> 1],
                                   [seed |-> TRUE, chars |-> 3, stub |-> 2]>>},
            groups : MCSeqs([members : 1..2, chars : {3}], 2),
            paths : {<<>>, <<2>>, <<2, 3>>}],
   communities : MCSeqs([count : 1..2, chars : {6, 9}], 2),
   budget : {5, 8, 12, 18}]

(* The partitions of the numbers from 1, and Leiden by one of them: a set  *)
(* is parted into runs of these sizes.                                     *)
MCPartitions ==
  <<{<<1>>},
    {<<2>>, <<1, 1>>},
    {<<3>>, <<2, 1>>, <<1, 1, 1>>},
    {<<4>>, <<3, 1>>, <<2, 2>>, <<2, 1, 1>>, <<1, 1, 1, 1>>},
    {<<5>>, <<4, 1>>, <<3, 2>>, <<3, 1, 1>>, <<2, 2, 1>>, <<2, 1, 1, 1>>, <<1, 1, 1, 1, 1>>}>>

MCLeiden(partitions) ==
  [S \in SUBSET (1..5) |->
     LET sizes == IF S = {} THEN <<>> ELSE partitions[Cardinality(S)]
         before(c) == FoldLeft(+, 0, SubSeq(sizes, 1, c))
         Rank(x) == Cardinality({y \in S : y <= x})
     IN  [c \in DOMAIN sizes |-> {x \in S : Rank(x) \in (before(c - 1) + 1)..before(c)}]]

MCHierarchyInputs ==
  {[leiden |-> MCLeiden(<<<<1>>, p2, p3, p4, p5>>), entities |-> 1..5, minSize |-> m, maxLevels |-> 3] :
     p2 \in MCPartitions[2], p3 \in MCPartitions[3], p4 \in MCPartitions[4],
     p5 \in MCPartitions[5], m \in 1..2}

MCGraphs ==
  {[i \in 1..3 |-> [name |-> <<"x", "y", "z">>[i], type |-> types[i], count |-> counts[i]]] :
     types \in {<<"t", "t", "t">>, <<"t", "u", "t">>}, counts \in [1..3 -> 1..2]}

MCResolutionInputs ==
  {i \in [graph : MCGraphs, table : MCSeqs({"x", "y", "z"} \X {"x", "y", "z"}, 2),
          similar : SUBSET {{"x", "y"}, {"x", "z"}, {"y", "z"}}] :
     Len(i.table) = 2 => i.table[1][1] # i.table[2][1]}

(* cs is the register of the machine and ns its next state; mode is of     *)
(* another enum.  NoName as the literal of a test: another predicate.      *)
(* A statement behind so many parts, in these branches.                    *)
MCBehind(n, branches, s) ==
  [i \in DOMAIN s |-> [s[i] EXCEPT !.under = branches \union {<<x[1] + n, x[2]>> : x \in @}]]

MCSet(v, value) ==
  <<[kind |-> "assign", var |-> v, value |-> value, nonblocking |-> v = "cs", under |-> {}]>>

MCBegin(s) == <<[kind |-> "begin", under |-> {}]>> \o MCBehind(1, {<<1, 1>>}, s)

MCIf(test, s, t) ==
  <<[kind |-> "if", test |-> test, under |-> {}]>>
    \o MCBehind(1, {<<1, 1>>}, s) \o MCBehind(1 + Len(s), {<<1, 0>>}, t)

MCItem(labels, body) == [labels |-> labels, body |-> body]

MCCase(selector, items, default) ==
  LET before(j) == 1 + FoldLeft(+, 0, [i \in 1..(j - 1) |-> Len(items[i].body)])
      n == Len(items)
  IN  <<[kind |-> "case", selector |-> selector, labels |-> [i \in 1..n |-> items[i].labels], under |-> {}]>>
        \o FlattenSeq([i \in 1..n |-> MCBehind(before(i), {<<1, i>>}, items[i].body)])
        \o MCBehind(before(n + 1), {<<1, 0>>}, default)

MCTests ==
  {[reads |-> {v}, var |-> v, literal |-> l] : v \in {"cs"}, l \in {"idle", "run"}}
    \union {[reads |-> {"mode"}, var |-> "mode", literal |-> "fast"]}
    \union {[reads |-> r, var |-> NoName, literal |-> NoName] : r \in {{}, {"cs"}}}

MCMoves(v) == {<<>>} \union {MCSet(v, l) : l \in {"idle", "run"}}

(* Statements with one construct over S and the leaves, or a case over an  *)
(* element of S.                                                           *)
MCConstructs(v, S) ==
  LET L == MCMoves(v)
  IN  {MCIf(t, s, l) : t \in MCTests, s \in S, l \in L}
        \union {MCIf(t, l, s) : t \in MCTests, s \in S, l \in L}
        \union {MCCase("cs", <<MCItem({"idle"}, s), MCItem({"run"}, l)>>, <<>>) :
                  s \in S, l \in L}
        \union {MCCase("cs", <<MCItem({"idle"}, l)>>, s) : s \in S, l \in L}
        \union {MCCase("cs", <<MCItem({"idle", "run"}, s)>>, <<>>) : s \in S}
        \union {MCCase("mode", <<MCItem({"fast"}, s)>>, <<>>) : s \in S}
        \union {MCCase(NoName, <<MCItem({}, s)>>, MCSet(v, "idle")) : s \in S}

MCBlocks(S) == S \union {MCBegin(s) : s \in S}

MCStatementsOver(v) ==
  LET once == MCConstructs(v, MCMoves(v))
  IN  once \union MCConstructs(v, MCBlocks(once))
           \union {MCBegin(MCSet(v, "idle") \o MCBehind(1, {}, s)) : s \in once}

MCDesigns ==
  {[vars    |-> <<"mode", "ns", "cs">>,
    type    |-> [mode |-> "speeds", ns |-> "states", cs |-> "states"],
    members |-> [speeds |-> {"fast", "slow"}, states |-> {"idle", "run"}],
    procs   |-> p] :
     p \in {<<[kind |-> "always_ff", stmt |-> MCSet("cs", NoName)],
               [kind |-> "always_comb", stmt |-> s]>> : s \in MCStatementsOver("ns")}
             \union {<<[kind |-> "always_ff", stmt |-> s]>> : s \in MCStatementsOver("cs")}}

(* Assignments, and statements up to two constructs deep, over a, b and c. *)
MCAssign(targets, rhs) == <<[kind |-> "assign", targets |-> targets, rhs |-> rhs, under |-> {}]>>
MCTarget(x) == [base |-> x, index |-> {}]

MCAssigns ==
  {MCAssign(<<MCTarget("a")>>, r) : r \in {{}, {"b"}, {"b", "c"}}}
    \union {MCAssign(<<MCTarget("b")>>, r) : r \in {{"a"}, {"c"}}}
    \union {MCAssign(<<MCTarget("a"), MCTarget("b")>>, r) : r \in {{"c"}, {"b", "c"}}}
    \union {MCAssign(<<[base |-> "a", index |-> {"b"}]>>, {"c"})}

MCBranch(kind, test, s, t) ==
  <<[kind |-> kind, test |-> test, under |-> {}]>>
    \o MCBehind(1, {<<1, 1>>}, s) \o MCBehind(1 + Len(s), {<<1, 0>>}, t)

MCBranching(S, T) ==
  {MCBranch("if", x, s, t) : x \in {{"b"}, {"a", "c"}}, s \in S, t \in T}
    \union {MCBranch("case", {"c"}, s, t) : s \in S, t \in T}
    \union {s \o MCBehind(Len(s), {}, t) : s \in S, t \in T}
    \union {t \o MCBehind(Len(t), {}, s) : s \in S, t \in T}

MCFlows ==
  LET once == MCBranching(MCAssigns, MCAssigns \union {<<>>})
  IN  once \union MCBranching(once, {<<>>, MCAssign(<<MCTarget("b")>>, {"a"}),
                                       MCAssign(<<MCTarget("a")>>, {"b", "c"})})

(* The literal 1 is also written '1; d[i] and d[j] have one key where they *)
(* are in the same place of an expression.                                 *)
MCNode(form, word, key) == [form |-> form, word |-> word, key |-> key]
MCOne == MCNode("shared", "1", "1")
MCSum == <<MCNode("operator", "a + 1", ""), MCNode("name", "a", ""), MCOne>>

MCAlone == {MCOne, MCNode("shared", "tick1", "1"), MCNode("shared", "d[i]", "d[e0]"),
            MCNode("shared", "d[j]", "d[e0]"), MCNode("name", "a", ""), MCNode("name", "local", "")}

MCSites ==
  {[role |-> "rhs", nodes |-> <<n>>] : n \in MCAlone}
    \union {[role |-> r, nodes |-> n] :
              r \in {"condition", "rhs"},
              n \in {<<MCNode("operator", "~(a + 1)", "")>> \o MCSum,
                    <<MCNode("other", "f(a + 1)", "")>> \o MCSum}}
    \union {[role |-> "rhs", nodes |-> MCSum],
            [role |-> "rhs", nodes |-> <<MCNode("operator", "-d[i]", ""), MCNode("shared", "d[i]", "d[e1]")>>]}

MCProcesses(n) == [kind : {"always_comb", "assign", "initial"}, sites : MCSeqs(MCSites, n)]

MCModulesOf == [1..1 -> MCProcesses(2)] \union [1..2 -> MCProcesses(1)]
                 \union [1..3 -> {p \in MCProcesses(1) :
                                    /\ p.kind # "assign"
                                    /\ \A i \in DOMAIN p.sites : p.sites[i].nodes \in {MCSum} \union Seq(MCAlone)}]

(* A is another form of a; z is a seed that is gone.                       *)
MCCanon == [f \in {"a", "b", "c", "d", "z", "A"} |-> IF f = "A" THEN "a" ELSE f]

MCQueryGraphs ==
  {[nodes |-> {"a", "b", "c", "d"}, edges |-> E] :
     E \in SUBSET {<<"a", "uses", "b">>, <<"b", "uses", "c">>, <<"d", "uses", "a">>, <<"c", "uses", "d">>,
                   <<"b", "uses", "d">>, <<"a", "connects_to", "c">>, <<"c", "connects_to", "a">>}}

MCQueryInputs ==
  [graph : MCQueryGraphs, seeds : {{}, {"a"}, {"a", "c"}, {"b", "z"}}, inQuery : {{}, {"a"}, {"a", "d"}},
   depth : 0..2, types : {{}, {"uses"}}, communities : {{}, {{"a", "d"}, {"b", "c", "y"}}}]

MCPatternInputs ==
  [graph : MCQueryGraphs, seed : {"a", "A", "z"},
   patterns : {{<<"uses">>, <<"uses", "uses">>}, {<<"uses", "connects_to">>, <<"connects_to">>},
               {<<"uses", "uses", "uses">>}, {<<"uses", "uses", "connects_to">>}}]

-----------------------------------------------------------------------------
MCInit ==
  \/ Init /\ task = "serve" /\ input = {} /\ output = <<>>
  \/ Init /\ file = "absent" /\ (ComputeInit)

Serve == task = "serve" /\ Next /\ UNCHANGED cvars

MCNext == Serve \/ (Compute /\ UNCHANGED vars)

MCSpec == MCInit /\ [][MCNext]_<<vars, cvars>> /\ \A t \in Thread : WF_vars(ThreadStep(t))

=============================================================================
