----------------------------- MODULE Connectors -----------------------------
(***************************************************************************)
(* The connectors that tag Python rows with a semantic role and link       *)
(* Markdown code to declarations (knowledge_graph/connectors), as run by   *)
(* run_connectors between incremental extracts.                            *)
(*                                                                         *)
(* A connector reads the rows it needs in one or two queries and then      *)
(* writes them back one statement each, so a run may stop after any subset *)
(* of its writes.  An extract is one step here: IncrementalExtract has its *)
(* statements.                                                             *)
(***************************************************************************)
EXTENDS PartialMaps, Naturals, Sequences, FiniteSets

CONSTANTS
  File,
  CorpusOf,       \* file -> the corpus it is extracted under
  SourceOf,       \* file -> "py", "sv" or "md"
  TextsOf,        \* file -> the texts it may have: sequences of declarations
  Plans,          \* sequences of connectors a caller may ask for
  MaxExtracts,    \* bound: extracts of changed files over a behaviour
  MaxInterrupts,  \* bound: runs cut short over a behaviour
  Nothing         \* no role, no metaclass

(* The connectors that have a model.                                       *)
Connector ==
  {"py-decorator-semantics", "py-property-descriptor", "py-descriptor-semantics",
   "py-set-name-semantics", "py-init-subclass-semantics", "py-class-getitem-semantics",
   "py-md-reference", "sv-md-reference"}

(* The values of semantic_role.                                            *)
Roles ==
  {"property", "dataclass", "fixture", "property-descriptor", "descriptor",
   "set-name-hook", "init-subclass-hook", "class-getitem-hook"}

(* What the declarations of a file of each source are.  A dotted name is a *)
(* sequence of segments; what Python imports is pairs of a local name and  *)
(* the name it stands for.                                                 *)
Declaration ==
  LET Dotted == Seq(STRING) \ {<<>>}
  IN  [py |-> [kind: {"PyModule"}, name: STRING]
                \union [kind: {"PyImport"}, name: STRING, aliases: SUBSET (STRING \X Dotted)]
                \union [kind: {"PyFunction"}, name: STRING, decorators: Seq(Dotted)]
                \union [kind: {"PyClass"}, name: STRING, decorators: Seq(Dotted),
                        methods: SUBSET STRING, bases: SUBSET Dotted,
                        metaclass: {Nothing} \union Dotted],
       sv |-> [kind: {"ModuleDeclaration", "TypedefDeclaration", "NetDeclaration"}, name: STRING],
       md |-> [kind: {"MdInlineCode", "MdCodeFence"}, tokens: SUBSET STRING]]

ASSUME FilesAssumption == IsFiniteSet(File) /\ \A f \in File : SourceOf[f] \in DOMAIN Declaration
ASSUME TextsAssumption ==
  \A f \in File : TextsOf[f] \subseteq Seq(Declaration[SourceOf[f]]) \ {<<>>}
ASSUME PlansAssumption == Plans \subseteq Seq(Connector) \ {<<>>}
ASSUME NothingAssumption == Nothing \notin Roles
ASSUME LimitsAssumption == MaxExtracts \in Nat /\ MaxInterrupts \in Nat

VARIABLES
  stored,   \* file -> the declarations of its rows; <<>> when it has none
  role,     \* payload.semantic_role of the rows that have one
  refs,     \* REFERENCES edges: <<Markdown row, declaration row, ref_text>>
  phase,    \* "idle", or where the run is: "next", "read", "write"
  todo,     \* connectors of the run that are not done, the running one first
  passes,   \* passes of the running connector that are not done
  present,  \* sources in the store when the run began
  tags,     \* roles the current pass still has to write: <<row, role>>
  links,    \* edges it still has to write
  asked,    \* history: the connectors the run was asked for
  settled,  \* history: what the last complete run, with no extract since, was asked for
  old,      \* history: rows whose corpus has changed since they were tagged
  extracts, interrupts

graph   == <<stored, role, refs>>
run     == <<phase, todo, passes, present, tags, links>>
history == <<asked, settled, old>>
bounds  == <<extracts, interrupts>>
connectVars == <<graph, run, history, bounds>>

-----------------------------------------------------------------------------
(* Rows.  A row is a file and a position in it; its id also has the hash of*)
(* the file, so a changed file has new rows.                               *)

RowsOf(f) == {<<f, i>> : i \in DOMAIN stored[f]}

Rows == UNION {RowsOf(f) : f \in File}

Decl(r) == stored[r[1]][r[2]]

CorpusOfRow(r) == CorpusOf[r[1]]

OfKind(kinds) == {r \in Rows : Decl(r).kind \in kinds}

Classes == OfKind({"PyClass"})

Role(r) == Get(role, r, Nothing)

AnyRow(r) == TRUE

(* Only rows without a role are tagged, except by the decorator connector. *)
Untagged(r) == Role(r) = Nothing

(* A dotted name is the sequence of its segments.                          *)
LastSegment(d) == d[Len(d)]

-----------------------------------------------------------------------------
(* Roles by decorator.                                                     *)

(* _DECORATOR_ROLE: <<canonical name, kind of row, role>>.                 *)
Promotions ==
  { << <<"property">>, "PyFunction", "property" >>,
    << <<"builtins", "property">>, "PyFunction", "property" >>,
    << <<"dataclass">>, "PyClass", "dataclass" >>,
    << <<"dataclasses", "dataclass">>, "PyClass", "dataclass" >>,
    << <<"pytest", "fixture">>, "PyFunction", "fixture" >> }

(* _TARGET_CANONICALS of py_property_descriptor.                           *)
PropertyNames ==
  { <<"property">>, <<"builtins", "property">>, <<"functools", "cached_property">> }

(* <<file, local name, canonical name>> of every imported name.            *)
Bindings ==
  UNION {{<<r[1], b[1], b[2]>> : b \in Decl(r).aliases} : r \in OfKind({"PyImport"})}

(* aliases_by_origin: a name bound by several imports of a file has the    *)
(* last binding of an unordered query.                                     *)
AliasIndexes ==
  {x \in SUBSET Bindings :
     \A b \in Bindings : \E m \in x : \A a \in x : <<a[1], a[2]>> = <<b[1], b[2]>> <=> a = m}

(* The element of a set that has one.                                      *)
The(S) == CHOOSE x \in S : TRUE

(* _apply_alias_map                                                        *)
Canonical(f, d, alias) ==
  LET bound == {a \in alias : a[1] = f /\ a[2] = Head(d)}
  IN  IF bound = {} THEN d ELSE The(bound)[3] \o Tail(d)

PromotedBy(r, i, p, alias) ==
  /\ p[1] = Canonical(r[1], Decl(r).decorators[i], alias)
  /\ p[2] = Decl(r).kind

(* _role_for: the outermost decorator that promotes a row of this kind.    *)
DecoratorTags(alias) ==
  {<<t[1], t[2][3]>> : t \in
     {q \in OfKind({"PyFunction", "PyClass"}) \X Promotions :
        \E i \in DOMAIN Decl(q[1]).decorators :
          /\ PromotedBy(q[1], i, q[2], alias)
          /\ \A j \in 1 .. i - 1 : \A p \in Promotions : ~PromotedBy(q[1], j, p, alias)}}

(* PyPropertyDescriptorConnector: rows that have no role yet.              *)
PropertyTags(alias) ==
  {<<r, "property-descriptor">> : r \in
     {q \in OfKind({"PyFunction"}) :
        /\ Untagged(q)
        /\ \E i \in DOMAIN Decl(q).decorators :
             Canonical(q[1], Decl(q).decorators[i], alias) \in PropertyNames}}

-----------------------------------------------------------------------------
(* Roles by method, own or inherited.                                      *)

NameKey(r) == <<CorpusOfRow(r), Decl(r).name>>

(* name_to_id: of several classes of one name, the last of an unordered    *)
(* query.                                                                  *)
NameIndexes ==
  {x \in SUBSET Classes :
     \A c \in Classes : \E m \in x : \A a \in x : NameKey(a) = NameKey(c) <=> a = m}

InAnyCorpus(r, d, home) == {a \in home : Decl(a).name = LastSegment(d)}

(* The row a reference from row r resolves to, if any.  Class names have   *)
(* one segment, so that only the last one of the reference can match.      *)
ResolvesTo(r, d, home) == {a \in home : NameKey(a) = <<CorpusOfRow(r), LastSegment(d)>>}

Parents(r, home) == UNION {ResolvesTo(r, d, home) : d \in Decl(r).bases}

(* _has_inherited_method: the rows its walk reaches, cycles or not.        *)
Ancestors(r, home) ==
  LET Reach[n \in 0 .. Cardinality(Classes)] ==
        IF n = 0 THEN Parents(r, home)
        ELSE LET nearer == Reach[n - 1]
             IN  nearer \union UNION {Parents(a, home) : a \in nearer}
  IN  Reach[Cardinality(Classes)]

(* tag_pyclass_by_method                                                   *)
MethodTags(method, tag, chase, home) ==
  {<<r, tag>> : r \in
     {c \in Classes :
        /\ Untagged(c)
        /\ \/ method \in Decl(c).methods
           \/ chase /\ \E a \in Ancestors(c, home) : method \in Decl(a).methods}}

(* _tag_via_metaclass: the metaclass has the role, as stored before.       *)
MetaclassTags(home) ==
  {<<r, "init-subclass-hook">> : r \in
     {c \in Classes :
        /\ Untagged(c)
        /\ Decl(c).metaclass # Nothing
        /\ \E m \in ResolvesTo(c, Decl(c).metaclass, home) : Role(m) = "init-subclass-hook"}}

-----------------------------------------------------------------------------
(* References from Markdown code.                                          *)

FunctionsOnly == [sv |-> {"ModuleDeclaration"}, py |-> {"PyFunction"}]

(* The kinds that are indexed by name, per source: two stand for the eight *)
(* of SystemVerilog.                                                       *)
IndexedKinds ==
  [sv |-> {"ModuleDeclaration", "TypedefDeclaration"},
   py |-> {"PyModule", "PyFunction", "PyClass", "PyImport"}]

MarkdownCode == OfKind({"MdInlineCode", "MdCodeFence"})

(* Declarations of the corpus whose name is a whole token of the code, the *)
(* only one if it is inline.                                               *)
ReferenceLinks(source) ==
  {<<l[1], l[2], Decl(l[2]).name>> : l \in
     {p \in MarkdownCode \X OfKind(IndexedKinds[source]) :
        /\ CorpusOfRow(p[1]) = CorpusOfRow(p[2])
        /\ Decl(p[2]).name \in Decl(p[1]).tokens}}

-----------------------------------------------------------------------------
(* The connectors.                                                         *)

Requires(c) ==
  CASE c = "py-md-reference" -> {"py", "md"}
    [] c = "sv-md-reference" -> {"sv", "md"}
    [] OTHER -> {"py"}

PassesOf(c) ==
  IF c = "py-init-subclass-semantics" THEN <<c, "metaclass">> ELSE <<c>>

TagsOf(pass, home, alias) ==
  CASE pass = "py-decorator-semantics" -> DecoratorTags(alias)
    [] pass = "py-property-descriptor" -> PropertyTags(alias)
    [] pass = "py-descriptor-semantics" -> MethodTags("__get__", "descriptor", TRUE, home)
    [] pass = "py-set-name-semantics" ->
         MethodTags("__set_name__", "set-name-hook", FALSE, home)
    [] pass = "py-init-subclass-semantics" ->
         MethodTags("__init_subclass__", "init-subclass-hook", TRUE, home)
    [] pass = "metaclass" -> MetaclassTags(home)
    [] pass = "py-class-getitem-semantics" ->
         MethodTags("__class_getitem__", "class-getitem-hook", TRUE, home)
    [] OTHER -> {}

LinksOf(pass) ==
  CASE pass = "py-md-reference" -> ReferenceLinks("py")
    [] pass = "sv-md-reference" -> ReferenceLinks("sv")
    [] OTHER -> {}

-----------------------------------------------------------------------------
ConnectInit ==
  /\ stored = [f \in File |-> <<>>]
  /\ role = EmptyMap /\ refs = {}
  /\ phase = "idle"
  /\ todo = <<>> /\ passes = <<>> /\ present = {}
  /\ tags = {} /\ links = {}
  /\ asked = <<>> /\ settled = <<>> /\ old = {}
  /\ extracts = 0 /\ interrupts = 0

(* The rows whose roles may have depended on the Python file f.            *)
MayDependOn(f) ==
  {r \in DOMAIN role : SourceOf[f] = "py" /\ CorpusOfRow(r) = CorpusOf[f]}

(* The roles and edges that are left when the rows of f are deleted.       *)
RolesWithout(f) == Restrict(role, DOMAIN role \ RowsOf(f))

LinksNotFrom(f) == {e \in refs : e[1] \notin RowsOf(f)}

LinksWithout(f) == {e \in refs : e[1] \notin RowsOf(f) /\ e[2] \notin RowsOf(f)}

(* extract of a file that has changed, or (<<>>) has gone and is pruned:   *)
(* its rows go with their edges, rows without a role are written.          *)
Extract(f, text) ==
  /\ phase = "idle" /\ extracts < MaxExtracts
  /\ text \in TextsOf[f] \union {<<>>}
  /\ text # stored[f]
  /\ stored' = [stored EXCEPT ![f] = text]
  /\ role' = RolesWithout(f)
  /\ refs' = LinksWithout(f)
  /\ old' = (old \union MayDependOn(f)) \ RowsOf(f)
  /\ settled' = <<>>
  /\ extracts' = extracts + 1
  /\ UNCHANGED <<run, asked, interrupts>>

(* run_connectors: _present_sources is asked once, before the first one.   *)
Begin(plan) ==
  /\ phase = "idle"
  /\ phase' = "next"
  /\ todo' = plan
  /\ present' = {SourceOf[f] : f \in {g \in File : stored[g] # <<>>}}
  /\ asked' = plan
  /\ UNCHANGED <<graph, passes, tags, links, settled, old, bounds>>

Synthesize ==
  /\ phase = "next" /\ todo # <<>>
  /\ Requires(Head(todo)) \subseteq present
  /\ phase' = "read"
  /\ passes' = PassesOf(Head(todo))
  /\ UNCHANGED <<graph, todo, present, tags, links, history, bounds>>

(* The queries of a pass, and what it will write.                          *)
Read ==
  /\ phase = "read"
  /\ \E home \in NameIndexes, alias \in AliasIndexes :
       tags' = TagsOf(Head(passes), home, alias)
  /\ links' = LinksOf(Head(passes))
  /\ phase' = "write"
  /\ UNCHANGED <<graph, todo, passes, present, history, bounds>>

(* SET n.payload, one statement per row.                                   *)
WriteRole(t) ==
  /\ phase = "write" /\ t \in tags
  /\ role' = Put(role, t[1], t[2])
  /\ tags' = tags \ {t}
  /\ UNCHANGED <<stored, refs, phase, todo, passes, present, links, history, bounds>>

(* MERGE of one edge, which may be there already.                          *)
WriteLink(e) ==
  /\ phase = "write" /\ e \in links
  /\ refs' = refs \union {e}
  /\ links' = links \ {e}
  /\ UNCHANGED <<stored, role, phase, todo, passes, present, tags, history, bounds>>

EndOfPass ==
  /\ phase = "write" /\ tags = {} /\ links = {}
  /\ passes' = Tail(passes)
  /\ IF Tail(passes) # <<>>
     THEN phase' = "read" /\ UNCHANGED todo
     ELSE phase' = "next" /\ todo' = Tail(todo)
  /\ UNCHANGED <<graph, present, tags, links, history, bounds>>

(* What is left of a run when it is over, however it ends.                 *)
EndRun ==
  /\ phase' = "idle"
  /\ todo' = <<>> /\ passes' = <<>> /\ present' = {}
  /\ tags' = {} /\ links' = {}
  /\ asked' = <<>>

Return ==
  /\ phase = "next" /\ todo = <<>>
  /\ EndRun
  /\ settled' = asked
  /\ UNCHANGED <<graph, old, bounds>>

(* ConnectorRequirementError: what the connectors before it wrote stays.   *)
Refuse ==
  /\ phase = "next" /\ todo # <<>>
  /\ ~ Requires(Head(todo)) \subseteq present
  /\ EndRun
  /\ settled' = <<>>
  /\ UNCHANGED <<graph, old, bounds>>

(* The process stops, or a statement raises, at any point of a run.        *)
Interrupt ==
  /\ phase # "idle" /\ interrupts < MaxInterrupts
  /\ EndRun
  /\ settled' = <<>>
  /\ interrupts' = interrupts + 1
  /\ UNCHANGED <<graph, old, extracts>>

ConnectNext ==
  \/ \E f \in File : \E text \in TextsOf[f] \union {<<>>} : Extract(f, text)
  \/ \E plan \in Plans : Begin(plan)
  \/ Synthesize
  \/ Read
  \/ \E t \in tags : WriteRole(t)
  \/ \E e \in links : WriteLink(e)
  \/ EndOfPass
  \/ Return
  \/ Refuse
  \/ Interrupt

ConnectSpec == ConnectInit /\ [][ConnectNext]_connectVars

-----------------------------------------------------------------------------
(* What a row's role should be, said of the rows and the language.         *)

(* Classes r names as a base, anywhere in its corpus.                      *)
NamesAsBase(r, a) ==
  /\ a \in Classes /\ CorpusOfRow(a) = CorpusOfRow(r)
  /\ \E d \in Decl(r).bases : LastSegment(d) = Decl(a).name

(* r's ancestors: in every set that has its bases and is closed under bases.*)
Inherits(r, a) ==
  \A S \in SUBSET Classes :
    (\A c \in Classes : \A b \in S \union {r} : NamesAsBase(b, c) => c \in S) => a \in S

Offers(r, method) ==
  \/ method \in Decl(r).methods
  \/ \E a \in Classes : Inherits(r, a) /\ method \in Decl(a).methods

(* What Python takes a decorator for, by the one import that binds it.     *)
Meaning(f, d) ==
  LET imports == {b \in Bindings : <<b[1], b[2]>> = <<f, Head(d)>>}
  IN  IF imports = {} THEN d ELSE The(imports)[3] \o Tail(d)

(* The role the decorators of a row make explicit: the outermost counts of *)
(* those that mean a promotion.                                            *)
Promoted(r) ==
  {q \in (DOMAIN Decl(r).decorators) \X Promotions :
     q[2][1] = Meaning(r[1], Decl(r).decorators[q[1]]) /\ q[2][2] = Decl(r).kind}

Explicit(r) ==
  IF Promoted(r) = {} THEN Nothing
  ELSE The({q \in Promoted(r) : \A x \in Promoted(r) : q[1] <= x[1]})[2][3]

OwnRole(r) ==
  CASE Explicit(r) # Nothing -> Explicit(r)
    [] Explicit(r) = Nothing /\ Decl(r).kind = "PyFunction" ->
         IF \E i \in DOMAIN Decl(r).decorators :
              Meaning(r[1], Decl(r).decorators[i]) \in PropertyNames
         THEN "property-descriptor" ELSE Nothing
    [] OTHER ->
         CASE Offers(r, "__get__") -> "descriptor"
           [] ~Offers(r, "__get__") /\ "__set_name__" \in Decl(r).methods -> "set-name-hook"
           [] OTHER -> IF Offers(r, "__init_subclass__") THEN "init-subclass-hook" ELSE Nothing

(* The metaclass of r, when it is a class of the corpus.                   *)
MetaclassOf(r) ==
  {m \in Classes : /\ r \in Classes /\ Decl(r).metaclass # Nothing
                   /\ NameKey(m) = <<CorpusOfRow(r), LastSegment(Decl(r).metaclass)>>}

DocumentedRole(r) ==
  IF OwnRole(r) # Nothing \/ Decl(r).kind = "PyFunction" THEN OwnRole(r)
  ELSE IF \E m \in MetaclassOf(r) : Offers(m, "__init_subclass__")
       THEN "init-subclass-hook"
       ELSE IF Offers(r, "__class_getitem__") THEN "class-getitem-hook" ELSE Nothing

(* No two classes of the corpus share a name and no two imports of a file a*)
(* local one: the queries' order does not matter.                          *)
Plain(corpus) ==
  /\ \A r, s \in Classes : CorpusOfRow(r) = corpus /\ NameKey(r) = NameKey(s) => r = s
  /\ \A b, d \in Bindings :
       CorpusOf[b[1]] = corpus /\ b[1] = d[1] /\ b[2] = d[2] => b = d

(* Its metaclass has a metaclass.                                          *)
Chained(r) == \E m \in MetaclassOf(r) : Decl(m).metaclass # Nothing

(* Its metaclass has the hook and a more specific role: the metaclass pass *)
(* reads the metaclass's one role, where the documentation says its hook.  *)
Masked(r) ==
  \E m \in MetaclassOf(r) :
    Offers(m, "__init_subclass__") /\ OwnRole(m) # "init-subclass-hook"

Tagged == OfKind({"PyFunction", "PyClass"})

(* The order the connectors' own documentation describes.                  *)
Documented ==
  <<"py-decorator-semantics", "py-property-descriptor", "py-descriptor-semantics",
    "py-set-name-semantics", "py-init-subclass-semantics", "py-class-getitem-semantics">>

Ran(connector) == \E i \in DOMAIN settled : settled[i] = connector

-----------------------------------------------------------------------------
(* The types of the store, the run and the history.                        *)
TypeOK ==
  /\ DOMAIN stored = File
  /\ \A f \in File : stored[f] \in TextsOf[f] \union {<<>>}
  /\ DOMAIN role \subseteq Tagged
  /\ \A r \in DOMAIN role : role[r] \in Roles
  /\ old \subseteq DOMAIN role
  /\ phase \in {"idle", "next", "read", "write"}
  /\ phase \in {"read", "write"} => todo # <<>> /\ passes # <<>>
  /\ tags # {} \/ links # {} => phase = "write"
  /\ tags \subseteq Tagged \X Roles
  /\ settled \in Plans \union {<<>>}

(* Roles are right.  After a complete run in the documented order, whatever*)
(* was interrupted, extracted or tagged before it, every function and class*)
(* that has not been tagged under another state of its corpus has the most *)
(* specific role that its decorators, methods, ancestors and metaclass give*)
(* it; not said where a more specific role of the metaclass hides its hook.*)
(* One with a promoting decorator has that role after any run with the*)
(* decorator connector, whichever ran before or after it: explicit beats   *)
(* inferred.                                                               *)
RolesCorrect ==
  phase = "idle" =>
    \A r \in Tagged :
      Plain(CorpusOfRow(r)) =>
        /\ settled = Documented =>
             r \in old \/ Chained(r) \/ Masked(r) \/ MetaclassOf(r) \intersect old # {}
               \/ Role(r) = DocumentedRole(r)
        /\ Ran("py-decorator-semantics") /\ Explicit(r) # Nothing => Role(r) = Explicit(r)

(* No role is ever lost or changed while its row stays, except to what the *)
(* row's own decorators say.                                               *)
RolesKept ==
  [][\A r \in DOMAIN role :
       \/ stored'[r[1]] # stored[r[1]]
       \/ /\ r \in DOMAIN role'
          /\ role'[r] \in {role[r], Explicit(r)} \/ ~Plain(CorpusOfRow(r))]_connectVars

(* Every reference edge is between rows of one corpus and for a name that  *)
(* the code mentions and the declaration has now, extracts included.       *)
ReferencesJustified ==
  \A e \in refs :
    /\ e[1] \in MarkdownCode /\ e[2] \in Rows
    /\ CorpusOfRow(e[1]) = CorpusOfRow(e[2])
    /\ e[3] = Decl(e[2]).name
    /\ e[3] \in Decl(e[1]).tokens

(* After a run with a reference connector and until the next extract every *)
(* mention of an indexed declaration has its edge.                         *)
ReferencesComplete ==
  phase = "idle" =>
    \A m \in MarkdownCode, t \in Rows :
      /\ \/ /\ Ran("py-md-reference")
            /\ Decl(t).kind \in {"PyModule", "PyFunction", "PyClass", "PyImport"}
         \/ /\ Ran("sv-md-reference")
            /\ Decl(t).kind \in {"ModuleDeclaration", "TypedefDeclaration"}
      /\ CorpusOfRow(m) = CorpusOfRow(t) /\ Decl(t).name \in Decl(m).tokens
      => <<m, t, Decl(t).name>> \in refs

=============================================================================
