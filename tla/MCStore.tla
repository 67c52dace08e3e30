------------------------------ MODULE MCStore ------------------------------
(***************************************************************************)
(* What works on the one store: a run explores either the SystemVerilog    *)
(* extract (SvIncrementalExtract), with one symbol, which "lib" defines and*)
(* "use" imports, instantiates and declares something of, or the connectors*)
(* (Connectors) with one of three choices of files and plans.              *)
(***************************************************************************)
EXTENDS SvIncrementalExtract, Connectors, TLC

CONSTANT sym

VARIABLE suite

ASSUME SvAssumption == LabelsAssumption /\ BoundsAssumption

MCLabels ==
  LET l(r) == [role |-> r, sym |-> sym]
      plain == [role |-> "plain", sym |-> None]
  IN  [c \in Content |->
         CASE c = "lib" -> <<l("def"), plain>>
           [] c = "use" -> <<plain, l("import"), l("instance"), l("type")>>]

(* Neither the files nor the stems are told apart by anything but the maps *)
(* from one to the other.                                                  *)
MCSymmetry == Permutations(Uri) \union Permutations(Stem)

-----------------------------------------------------------------------------
(* The connectors.  Two Python files, a Markdown and a SystemVerilog file  *)
(* of one corpus, and a Python file of another with classes of the same    *)
(* names.                                                                  *)

Class(name, decorators, methods, bases, metaclass) ==
  [kind |-> "PyClass", name |-> name, decorators |-> decorators,
   methods |-> methods, bases |-> bases, metaclass |-> metaclass]

Function(name, decorators) ==
  [kind |-> "PyFunction", name |-> name, decorators |-> decorators]

Import(name, aliases) == [kind |-> "PyImport", name |-> name, aliases |-> aliases]

Inline(token) == [kind |-> "MdInlineCode", tokens |-> {token}]

Fence(tokens) == [kind |-> "MdCodeFence", tokens |-> tokens]

Sv(kind, name) == [kind |-> kind, name |-> name]

MCCorpusOf == [f \in File |-> IF f = "other.py" THEN "c2" ELSE "c1"]

MCSourceOf ==
  [f \in File |-> CASE f = "note.md" -> "md" [] f = "top.sv" -> "sv" [] OTHER -> "py"]

(* base.py: what the classes of use.py inherit.                            *)
Getter == <<Class("Base", <<>>, {"__get__", "__init_subclass__"}, {<<"Root">>}, Nothing)>>
Hook   == <<Class("Base", <<>>, {}, {<<"Root">>}, Nothing),
            Class("Root", <<>>, {"__init_subclass__", "__set_name__"}, {<<"Base">>}, Nothing)>>
Bare   == <<Class("Base", <<>>, {}, {<<"typing", "Generic">>}, Nothing)>>

(* use.py: a subclass, a chain of metaclasses; decorators by alias; a class*)
(* of a name that base.py has too.                                         *)
Users ==
  <<Class("Sub", <<>>, {"__class_getitem__"}, {<<"pkg", "Base">>}, Nothing),
    Class("Leaf", <<>>, {"__class_getitem__"}, {}, <<"pkg", "Base">>),
    Class("Deep", <<>>, {}, {}, <<"Leaf">>)>>
Decorated ==
  <<Import("dataclasses", {<<"dc", <<"dataclasses", "dataclass">> >>,
                           <<"property", <<"lib", "property">> >>}),
    Class("Sub", << <<"final">>, <<"dc">> >>, {"__get__"}, {<<"Base">>}, Nothing),
    Function("size", << <<"property">>, <<"pytest", "fixture">>, <<"builtins", "property">> >>),
    Function("area", << <<"functools", "cached_property">> >>)>>
Twice ==
  <<Class("Base", <<>>, {"__class_getitem__"}, {}, Nothing),
    Class("Sub", <<>>, {}, {<<"Base">>}, <<"Meta">>)>>

(* other.py: the other corpus, where Root has another method.              *)
Foreign == <<Class("Root", <<>>, {"__get__"}, {}, Nothing),
             Class("Far", <<>>, {}, {<<"Base">>}, Nothing)>>

Note  == <<Fence({"Sub", "Root"})>>
Notes == <<Inline("size"), Fence({"Sub", "top"})>>

Top == <<Sv("ModuleDeclaration", "top"), Sv("NetDeclaration", "Sub")>>

MCTextsOf ==
  [f \in File |->
     CASE f = "base.py" -> {Getter, Hook, Bare}
       [] f = "use.py" -> {Users, Decorated, Twice}
       [] f = "other.py" -> {Foreign}
       [] f = "note.md" -> {Note, Notes}
       [] f = "top.sv" -> {Top}]

(* What a suite has in it: files, plans, and how many extracts.            *)
MCSuites ==
  [documented |->
     [files |-> {"base.py", "use.py", "other.py"}, extracts |-> 3, plans |-> {Documented}],
   anyorder |->
     [files |-> {"base.py", "use.py"}, extracts |-> 3,
      plans |-> { <<"py-class-getitem-semantics", "py-property-descriptor",
                    "py-init-subclass-semantics">>,
                  <<"py-descriptor-semantics", "py-decorator-semantics">> }],
   references |->
     [files |-> {"use.py", "other.py", "note.md", "top.sv"}, extracts |-> 4,
      plans |-> { <<"py-md-reference">>,
                  <<"py-decorator-semantics", "sv-md-reference", "py-md-reference">> }]]

MCFiles == UNION {MCSuites[s].files : s \in DOMAIN MCSuites}

MCPlans == UNION {MCSuites[s].plans : s \in DOMAIN MCSuites}

OfSuite ==
  /\ \A f \in File : stored'[f] # <<>> => f \in MCSuites[suite].files
  /\ asked' \in MCSuites[suite].plans \union {<<>>}
  /\ extracts' <= MCSuites[suite].extracts

-----------------------------------------------------------------------------
MCInit ==
  /\ Init /\ ConnectInit
  /\ \/ suite = "extract"
     \/ /\ suite \in DOMAIN MCSuites
        /\ \A u, v \in Uri : file[u] = "lib" /\ stem[u] = stem[v]

MCNext ==
  \/ suite = "extract" /\ Next /\ UNCHANGED <<connectVars, suite>>
  \/ suite # "extract" /\ ConnectNext /\ OfSuite /\ UNCHANGED <<vars, suite>>

MCSpec == MCInit /\ [][MCNext]_<<vars, connectVars, suite>>

=============================================================================
