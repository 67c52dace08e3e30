------------------------------ MODULE PyScopes ------------------------------
(***************************************************************************)
(* Which binding a name captured by a Python lambda or comprehension means:*)
(* connectors/py_scope_resolution.py, over what builders/py/walker.py      *)
(* records of a file's imports.                                            *)
(*                                                                         *)
(* A scope chain is the stack of frames around the lambda, outermost first *)
(* and without the module's; each frame is given by its kind, by what it   *)
(* does with the one name asked about, and by whether the rest of the chain*)
(* is in its header: the decorators, defaults and annotations of a function*)
(* or class, the defaults of a lambda, the first iterable of a             *)
(* comprehension.  The indexer has pushed the frame by then.  A dotted name*)
(* is the sequence of its segments.                                        *)
(***************************************************************************)
EXTENDS Integers, Sequences, SequencesExt, FiniteSets, FiniteSetsExt

CONSTANT Private  \* names that begin with an underscore

Frame == [kind: {"function", "class", "lambda", "comprehension"},
          form: {"absent", "bound", "walrus", "global", "nonlocal"},
          header: BOOLEAN]

-----------------------------------------------------------------------------
(* walk_for_walrus: the comprehensions directly in the body of frame i (0  *)
(* is the module), one in the other, up to one that assigns the name.      *)
WalrusInside(chain, i) ==
  \E j \in (i + 1)..Len(chain) :
    /\ chain[j].form = "walrus"
    /\ \A k \in (i + 1)..j : chain[k].kind = "comprehension"
    /\ i = 0 \/ ~chain[i].header

(* The "locals" of a frame have the name.  A lambda's are its parameters,  *)
(* a comprehension's its iteration targets.                                *)
FrameBinds(chain, i) ==
  \/ chain[i].form \in {"bound", "global"}
  \/ chain[i].kind \in {"function", "class"} /\ WalrusInside(chain, i)

ClassesToo(chain) ==
  {i \in DOMAIN chain : chain[i].form \in {"global", "nonlocal"} \/ FrameBinds(chain, i)}

(* The frames at which _classify stops.                                    *)
StopsAt(chain) ==
  {i \in DOMAIN chain : /\ chain[i].kind # "class"
                        /\ chain[i].form \in {"global", "nonlocal"} \/ FrameBinds(chain, i)}

(* _classify, the innermost frame first.                                   *)
Classify(chain, inModule, builtin) ==
  LET module == inModule \/ WalrusInside(chain, 0)
      outside == IF module THEN "module-level" ELSE IF builtin THEN "builtin" ELSE "unresolved"
  IN  IF StopsAt(chain) # {} /\ chain[Max(StopsAt(chain))].form # "global"
      THEN "local-in-enclosing" ELSE outside

-----------------------------------------------------------------------------
(* A relative name is [dots, path].                                        *)
InitIgnored(consumer, name, isInit) ==
  LET n == Len(consumer)
  IN  IF name.dots > n THEN <<>> ELSE SubSeq(consumer, 1, n - name.dots) \o name.path

(* _resolve_relative_qualname; the empty sequence is None.                 *)
ResolveRelative(consumer, name, isInit) ==
  LET n == Len(consumer)
      k == IF isInit THEN name.dots - 1 ELSE name.dots
  IN  IF k > n THEN <<>> ELSE SubSeq(consumer, 1, n - k) \o name.path

(* An import statement, "as" an import with an alias; leaf is what a "from"*)
(* takes, local the name bound.                                            *)
Statement == [form: {"import", "as", "from", "star"}, level: Nat, module: Seq(STRING), leaf: STRING,
              local: STRING, inFunction: BOOLEAN, guarded: BOOLEAN]

(* _import_alias_map and _from_import_alias_map; without a module the dots *)
(* stand before a dot.                                                     *)
Canonical(s) ==
  IF s.form \in {"import", "as"} THEN [dots |-> 0, path |-> s.module]
  ELSE [dots |-> IF s.module = <<>> THEN s.level + 1 ELSE s.level,
        path |-> Append(s.module, s.leaf)]

(* The names _expand_star_imports takes from module m: its __all__, or the *)
(* public ones of its exports.                                             *)
StarNames(corpus, m) ==
  IF m \in DOMAIN corpus.all THEN corpus.all[m]
  ELSE IF m \in DOMAIN corpus.exports THEN corpus.exports[m] \ Private ELSE {}

(* The statements whose binding of c can be in imports_here.               *)
NamedImports(file, c) ==
  {i \in DOMAIN file : file[i].form # "star" /\ file[i].local = c}

(* The walker records a star import's module without its dots.             *)
StarImports(corpus, file, c) ==
  {i \in DOMAIN file : /\ file[i].form = "star" /\ ~file[i].guarded /\ ~file[i].inFunction
                       /\ c \in StarNames(corpus, file[i].module)}

(* imports_here[c], or nothing: the last named import, the first star.     *)
ImportsHere(corpus, file, c) ==
  IF NamedImports(file, c) # {}
  THEN {Canonical(file[Max(NamedImports(file, c))])}
  ELSE IF StarImports(corpus, file, c) # {}
  THEN {[dots |-> 0, path |-> Append(file[Min(StarImports(corpus, file, c))].module, c)]}
  ELSE {}

Unresolved == [kind |-> "unresolved", origin |-> <<>>]

(* _lift_to_module_import, then _lift_to_cross_file.                       *)
Lift(corpus, consumer, isInit, name) ==
  LET path == IF name.dots > 0 THEN ResolveRelative(consumer, name, isInit) ELSE name.path
  IN  IF path \in corpus.modules THEN [kind |-> "module-import", origin |-> path]
      ELSE IF /\ Len(path) > 1 /\ Front(path) \in DOMAIN corpus.exports
              /\ Last(path) \in corpus.exports[Front(path)]
      THEN [kind |-> "cross-file-import", origin |-> Front(path)]
      ELSE Unresolved

(* What synthesize writes for a capture that _classify finds in the module.*)
Attribute(corpus, consumer, isInit, file, c) ==
  LET names == ImportsHere(corpus, file, c)
  IN  IF names = {} THEN [kind |-> "module-level", origin |-> <<>>]
      ELSE Lift(corpus, consumer, isInit, CHOOSE x \in names : TRUE)

-----------------------------------------------------------------------------
(* What Python does: the reference of the properties.                      *)

(* The comprehensions, one in the other, of the scope of frame i: what is  *)
(* in the header of a frame is in the scope around it.                     *)
AssignedInside(chain, i) ==
  \E j \in (i + 1)..Len(chain) :
    /\ chain[j].kind = "comprehension" /\ chain[j].form = "walrus"
    /\ \A k \in (i + 1)..(j - 1) : chain[k].kind = "comprehension" \/ chain[k].header

(* A scope that binds the name: a walrus binds in the scope around its     *)
(* comprehensions, which a lambda can be.                                  *)
PythonBinds(chain, i) ==
  \/ chain[i].form = "bound"
  \/ chain[i].kind = "lambda" /\ chain[i].form = "walrus"
  \/ chain[i].kind # "comprehension" /\ AssignedInside(chain, i)

(* The analysis of the symbol table, from the module inwards: where a name *)
(* free in the scope inside frame i is looked up.                          *)
LooksAfter(chain) ==
  LET looks[i \in 0..Len(chain)] ==
        IF i = 0 THEN "globals"
        ELSE IF chain[i].kind = "class" \/ chain[i].header THEN looks[i - 1]
        ELSE IF chain[i].form = "global" THEN "globals"
        ELSE IF chain[i].form # "nonlocal" /\ PythonBinds(chain, i) THEN "enclosing"
        ELSE looks[i - 1]
  IN  looks

PythonLooks(chain) == LooksAfter(chain)[Len(chain)]

Definitions == {"function", "class"}

(* Chains the compiler accepts: no definition within an expression, no     *)
(* assignment expression in a class's comprehension, in the iterable of one*)
(* or for the target of one.                                               *)
Compiles(chain) ==
  \A i \in DOMAIN chain :
    /\ chain[i].form \in (IF chain[i].kind \in Definitions
                          THEN {"absent", "bound", "global", "nonlocal"}
                          ELSE {"absent", "bound", "walrus"})
    /\ i > 1 /\ chain[i].kind \in Definitions =>
         chain[i - 1].kind \in Definitions /\ ~chain[i - 1].header
    /\ chain[i].form = "nonlocal" => LooksAfter(chain)[i - 1] = "enclosing"
    /\ chain[i].kind = "class" /\ ~chain[i].header => ~AssignedInside(chain, i)
    /\ chain[i].kind = "comprehension" /\ chain[i].form = "bound" => ~AssignedInside(chain, i)
    /\ chain[i].form = "walrus" =>
         \A k \in 1..(i - 1) : ~(chain[k].kind = "comprehension" /\ chain[k].header)

(* importlib's _resolve_name: the package that a statement of this level   *)
(* starts from, or nothing.                                                *)
PythonPackage(consumer, isInit, level) ==
  LET package == IF isInit THEN consumer ELSE Front(consumer)
  IN  IF Len(package) < level THEN {} ELSE {SubSeq(package, 1, Len(package) - level + 1)}

PythonModules(consumer, isInit, s) ==
  IF s.level = 0 THEN {s.module}
  ELSE {p \o s.module : p \in PythonPackage(consumer, isInit, s.level)}

(* What a statement of the file makes of c when it is executed: without an *)
(* alias, "import a.b" binds a to the package a.                           *)
PythonBindings(corpus, consumer, isInit, s, c) ==
  IF s.form = "import" THEN {[kind |-> "module-import", origin |-> <<Head(s.module)>>]}
  ELSE IF s.form = "as" THEN {[kind |-> "module-import", origin |-> s.module]}
  ELSE LET leaf == IF s.form = "star" THEN c ELSE s.leaf
       IN  {IF m \in DOMAIN corpus.exports /\ leaf \in corpus.exports[m]
            THEN [kind |-> "cross-file-import", origin |-> m]
            ELSE [kind |-> "module-import", origin |-> Append(m, leaf)] :
              m \in PythonModules(consumer, isInit, s)}

PythonBinders(corpus, file, c) ==
  {i \in DOMAIN file : IF file[i].form = "star" THEN c \in StarNames(corpus, file[i].module)
                       ELSE file[i].local = c}

=============================================================================
