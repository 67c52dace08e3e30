# A TLA+ verification of KGWeave

KGWeave is two systems that share a repository.

* `src/src/kgweave` keeps a knowledge graph of entities and triples that
  extractors find in documents. Its core is a graph backend in memory
  (`knowledge_graph/backends/networkx_backend.py`) with two dictionaries that
  decide which node a surface form means.
* `src/src/knowledge_graph` keeps a syntax graph of source files in a Kuzu
  database. Its core is the *incremental extract*: replace what changed, skip
  what did not, sweep what is gone.

Both are hard to test for the same reason. What matters is the state that a long
sequence of legal calls, a call that stops half-way, or two calls at once leave
behind for the next call to find.

## 1. Inventory

### kgweave

| component | state | operations | interacts with | correct when |
|---|---|---|---|---|
| NetworkX backend | `graph` (nodes, edges, their attributes), `_aliases`, `_case_index` | `add_node`, `add_edge`, the upserts, `remove_by_source`, `merge_entities`, reads that register what they are asked, `save`, `load` | called by every other component; one per process | indices agree with the graph; no edge dangles; a document's removal takes what it stated and nothing else; every node can be found |
| Neo4j backend | the database, shared by all processes | the same, in several transactions per call; import of a graph file | the same | what was reported done stays done, whatever runs in between |
| Entity resolution | none (a batch of candidates) | `resolve`: alias table, then embeddings | lists the backend, then merges into it | of two merged entities one survives; a stale candidate does no harm |
| Graph access | `_graph_backend` singleton, the graph file | `get_graph_backend`, `run_post_ingestion_steps` | constructs and loads the backend | no caller keeps an unloaded or abandoned graph |
| Term index | a process-wide cache | `get_term_index` | lists the backend once | never caches a graph that was not there |
| Service and API | the service's backend and expander | entity, expansion and term requests, on a thread pool | graph access, detection | one graph for all; caches of a loaded graph |
| Ingest and worker | the workflow engine's at-least-once queue | extract and commit, delete by source | calls the backend | a retry, and other documents meanwhile, change nothing about the outcome |
| Community detection | partition, summaries, sidecar file | `detect`, `detect_hierarchical`, summaries, sidecar save and load | reads the backend | summaries belong to the partition they are kept with; levels refine one another |
| Query expansion | the matcher, built once | terms, typed paths | reads the backend | what is offered is related, and nothing is left out that ranks higher |
| Query context | none | formatting within a token budget | reads the backend | the least important is cut first, and no more than needed |
| Descriptions, matching and ranking, extractors, exports | none | text work | feed or read the backend | - |

### knowledge_graph

| component | state | operations | interacts with | correct when |
|---|---|---|---|---|
| Store | `:Origin`, `:Node` and relation rows | `find_current_origin`, `snapshot_file`, `delete_origin_subtree`, `prune_orphaned_origins` | every statement commits by itself | no node without its origin; one origin per file and corpus |
| Markdown and Python builders | loop variables of `extract` | scan, replace, prune, write, gc | read each file three times, drive the store | every syntax node represented; spans lossless; unchanged files untouched |
| SystemVerilog builder | the same over the whole corpus, and the promote cache | rebuild all or replay, write the touched part | the same | files complete; references true and, within what is written, there; other files untouched |
| Connectors | `semantic_role` in the payload of rows, `REFERENCES` edges | six that tag Python rows, two that link Markdown code to declarations, scope resolution | query the store, then write it a statement at a time | the role is what the source calls for, whatever ran before; an edge for every mention and no other; a captured name means what Python makes it mean |
| Schema | `:Meta` row | create tables, check the version | runs on open | no incompatible build writes |
| Facade | two registries | `extract`, `run_connectors` | dispatch | idempotent registration; partial failure reported |
| Queries, lifters | none | Cypher text, parsing | read the store, read files | - |

### What is hard here

`PROJECT.json` lists each hazard at its line. In groups:

* **sequences of calls** that make two dictionaries and a graph disagree:
  an alias spelt like a name, a lookup that registers a phantom, a merge after a
  merge, a reload that lets another node win an entry;
* **cascades**: a deleted node takes edges of other documents with it; a
  redirected edge becomes a loop;
* **interruption**: no statement of the store is in a transaction with another;
* **stale reads**: a file read three times; candidates, listings and caches used
  after the graph has moved on; roles inferred from a base class that has changed;
* **shared rows**: origins are keyed without the corpus that looks for them; node
  ids of SystemVerilog without the origin; placeholders are nobody's file;
* **processes and threads**: lazily built singletons without a lock; calls of
  several transactions on one database, retried by a workflow;
* **arithmetic of names**: levels of relative imports, numbers of communities
  within communities, scopes that are skipped.

## 2. Modules

| module | what it is |
|---|---|
| `PartialMaps` | Python dictionaries as functions |
| `NetworkXBackend` | the backend: one action per operation, its properties |
| `ProvenanceLedger` | what the backend promises about documents, without names, cases or indices |
| `IncrementalExtract` | the Markdown and Python extract over the store: one action per statement |
| `SvBuild` | the graph that `build_kg` makes of a list of SystemVerilog files, walked or replayed |
| `SvIncrementalExtract` | the SystemVerilog extract over the store, composed with `SvBuild` |
| `Connectors` | `run_connectors` between extracts: the tagging and the reference connectors, one action per statement |
| `GraphService` | one process: threads, lazily built objects, ingests, communities, restarts |
| `Neo4jWorkers` | processes on one Neo4j database: one action per transaction |
| `PyScopes` | what a captured Python name means, to the connector and to Python |
| `ContextBudget` | truncation of the query context |
| `CommunityHierarchy` | numbering of the levels of communities |
| `EntityResolution` | candidates and their execution |
| `SvFsm` | the transitions found in the processes of a SystemVerilog module |
| `SvDataflow` | which signals are said to influence which |
| `SvBridges` | how statement trees and expression trees of processes are tied together |
| `QueryExpansion` | the terms and paths a query is expanded to |
| `Computations` | each of these as a step from an input to an output, with their properties |
| `MC...` | small instances and their bounds |
| `NetworkXBackendProofs`, `IncrementalExtractProofs`, `SvIncrementalExtractProofs`, `ConnectorsProofs`, `GraphServiceProofs`, `Neo4jWorkersProofs`, `ComputationsProofs`, `SvComputationsProofs` | theorems |

### NetworkXBackend

`nodes`, `edges`, `aliasOf` and `caseIndex` are `graph.nodes`, `graph.edges`,
`_aliases` and `_case_index`. A name is an element of `Name`; `Lower` is
`str.lower`. `Term` are the forms callers name things by, `AliasPool` the forms
extractors list as aliases (tags of a test plan, names of generated clocks); the
two may overlap, and most of the trouble comes from there.

* `Resolved`/`Registered` are the value and the side effect of `_resolve`. Every
  action that resolves twice does so under the indices as the first resolution
  left them, as the code does.
* `UpsertEntity` is one entity of `upsert_entities`, second resolution included.
  `AddEdge` and `DropSelfEdge` are the two outcomes of `add_edge`.
* `Lookup` is what every reader that calls `_resolve` does to the index.
* `RemoveBySource` has the three passes in one step: nothing runs in between.
* `MergeEntities` is `merge_entities` for two names; the early returns are its
  guards. Either resolver may propose any two live nodes.
* `MergeWithItself` is `merge_entities(n, n)`, which only the embedding resolver
  can ask for, and only for an entity that `get_all_entities` lists twice.
* `SaveAndLoad` is a restart with a graph file. Which node wins an entry that two
  nodes claim depends on node order, which is not modelled: either may.

An edge without sources (a triple with no document) is possible and modelled.
Types, layers, weights, counts, confidences, evidences and descriptions are left
out: no branch of these operations that changes the modelled state reads them.

### IncrementalExtract

A call is `Start`, then the loop over paths (`ScanUnchanged`, or `ScanTouched`,
`DeleteNodes`, `DeleteRow`, `Snapshot`), then `ScanDone`, the prune loop
(`DeleteNodes`, `DeleteRow`, `PruneDone`), the write loop (`Lift`, then
`WriteNode` per node or `BulkClear` and `BulkCopy`), `WriteDone`, and the gc
loop (`CollectOrphan`, `GcDone`). `pc` and the loop variables are those of the
code. `Crash` may take the place of any step: the process is gone, or a statement
has raised and the call with it; rows stay. `Edit` changes a file.

A sha256 is its content; an origin id is the pair of uri and sha; a node id the
pair of origin id and span. What the lifter makes of a content is the constant
`SpansOf`. `Bulky` are the contents large enough for the bulk writer; with
`Bulky = {}` the module is the Markdown builder.

Order is left open where nothing depends on it: the paths of a call (a set, no
duplicates), the rows a query returns, the nodes of a file. `PARENT_OF` and
`IN_ORIGIN` rows come and go with the nodes they are written with.

### SvBuild and SvIncrementalExtract

A file is a sequence of labelled syntax nodes (`Labels`): a label defines a symbol
or refers to one. Three kinds of reference stand for the many, because they are
resolved at three moments: an import as pass 1 visits it, so against the files
before it; an instance in pass 2, against all files, with no edge on a miss; a
declared type by the sweep after both passes. `Captured` and `ReplayedIndex` are
the promote cache: the names a file was first to define, and what replaying every
file's delta leaves in the index.

The extract has the statements of `IncrementalExtract` around a build of the whole
corpus: `Start`, `ScanUnchanged`, `ScanFresh`, `ScanChanged` with the deletion in
the scan, `ScanDone`, the prune loop, `Snapshot` per touched path, `Build` (build
and filter), then `WriteNode`, `WritePlaceholder`, `WriteEdge` per row, or
`BulkClear`, `BulkCopyNodes`, `BulkCopyRels` from `BulkMinRows` rows on, and the gc
loop. A node id is a prefix and a number. The prefix is the stem of the path,
numbered within the call, so that ids outlive the origin that wrote them and two
files can contend for one: `stem` is arbitrary in the initial states. Order is kept
where something depends on it: paths, nodes and edges are written in the order of
the graph's lists, and a placeholder is given the origin of the first edge that
needs it. A crash takes the process, and its cache, or only the call.

### Connectors

A row is a file and a position in it; what it declares (`Decl`) is a record of what
the connectors read in its payload. A changed file has new rows, because a row's id
has the hash of the file in it: `Extract` takes a file's rows, their roles and their
edges away and puts rows without a role in their place. It is one step here;
`IncrementalExtract` has its statements.

A run is `Begin`, then for each connector `Synthesize`, and for each of its passes
`Read` (the queries, which decide what will be written), `WriteRole` or `WriteLink`
per statement in any order, and `EndOfPass`; it ends with `Return`, `Refuse`
(`ConnectorRequirementError`) or `Interrupt`. `TagsOf` and `LinksOf` are what each
connector makes of the rows. Only `MetaclassTags` reads roles for more than the row
itself, and only the decorator connector writes to a row that has one. A dotted name
is the sequence of its segments. Where a query without an order fills a dictionary,
which of several rows wins is left open: `NameIndexes` for classes of one name,
`AliasIndexes` for imports of one local name.

`asked` and `settled` are history: what the run was asked for, and what the last
complete one with no extract since was. `old` are the rows with a role that was
given before a file of their corpus changed. The counts a run returns are left out.
`DocumentedRole` says what a row's role should be in terms of the source alone:
ancestors as the least set closed under bases, the meaning of a decorator by the
import that binds it, and the documented precedence.

### GraphService

A thread is at a program counter of one request. `Check`, `Publish`, `LoadBegin`,
`LoadEnd`, `Bind` are `get_graph_backend`: the test of the global, the assignment,
the load into whatever is published by then (which a failing load leaves as it is),
and the return, kept by the service, the ingest client or nobody. A backend object
is named after the thread that made it. `WalkTerms`, `PublishIndex` build the term
index; `NewDetector`, `Detect`, `Summarise`, `SaveSidecar`, `DetectorFails` and
`BuildExpander` are the detection for the expander of the service, and, up to
`SaveSidecar`, the steps after an ingestion. A graph is the set of its names, a
summary the set of names it lists. A partition is arbitrary, but numbered by size,
with the bucket -1 for what is too small. `Restart` ends the process anywhere; the
graph file and the sidecar remain. Nothing in `src` outside the tests calls `save`:
what was ingested is gone then, and the model says so.

`overlapped` is a history variable: did a call enter `get_graph_backend` while
another was between its test and the end of its load? There is no lock, and in that
case two threads keep two graphs, or a load replaces a graph that has been ingested
into, or an index is built from an unloaded graph for the life of the process.
`OneGraph`, `NothingLost` and `CachesFromLoadedGraph` are stated for the others.

### Neo4jWorkers

A step is a `_run_write`, and the `MERGE` of entities two. `Submit`, `Take`, `Report` are
the workflow and the worker; `Fail` and `Crash` put the activity back into the queue,
wherever it was. `Look`, `UpsertEntities`, `CreditSources`, `UpsertTriples` are an ingest; `Unlink`, `Prune`,
`DeleteNodes` a removal; `Merge` with `Outgoing`, `Incoming`, `Absorb`, `Remove` a
merge; `Start`, `Clear`, `LoadNodes`, `LoadEdges` a process start. Entities are
found by their lowercase name. No constraint makes that name unique
(`_ensure_indexes` creates indexes only): the import creates without looking, and a
`MERGE` creates what it did not find when it looked (`Look`, `missing`), though another
may have committed it since. So a node is named by its key and its creator, and there
can be two of a key. A merge of two entities of one name deletes both (`Remove`): what
an ingest reported is then not promised any more.

`expect` remembers what the last activity about a document reported. Which calls
may run into one another without losing anything is the content of `Disturbed`:
ingests with ingests and removals with removals, of the same or other documents,
retried or not. A removal and an ingest, a merge and anything, an import and
anything do void each other's results: a `clashed` activity promises nothing, and
`doubled` says that an import did overlap something, `raced` that two `MERGE`s looked at
once for a name that was not there. `OneNodePerKey` is stated for the others; the other
two properties hold after such a race as well, because what follows credits every node of
the key. Assumed: apart from that a transaction is atomic (the `MERGE` of a
relationship follows a `MATCH` of its ends, and locks them); the order of sources and duplicates among them do not matter (a batch that
spells one name in two ways can list a document twice, which would escape `Prune`).
Weights and mention counts are left out; a retry does add them twice.

### Computations

Each is a function and a reference definition that it is compared with, over all
small inputs; `Computations` gives it a step, so that a run reports an input. A
statement of SystemVerilog is the sequence of its parts in the order of the text, each
with the branches of conditionals and cases that it is under: the recursive walks of
the code are sets of parts, and nothing is recursive. The assumptions of
`Computations` say what an input is; TLC checks them of the small inputs of `service`.

* `PyScopes`: `Classify` is `_classify` over the frames the connector records;
  `PythonLooks` is the analysis of CPython's symbol table. A frame says whether what is
  inside of it is in its header (decorators, defaults, annotations, a first iterable),
  which Python has in the scope around it. "Bound" is what `_bindings_in_block` takes for
  a binding (not a capture of a `match`, say). `ImportsHere`,
  `ResolveRelative`, `Lift` and `Attribute` follow a name from the walker's import
  maps to a module of the corpus; `PythonBindings` is what the import system does.
* `ContextBudget`: `ApplyTokenBudget` in its four phases, and the community section. The
  budget is compared with the sum of the items, as the code does; headers and newlines
  are not counted, although it is to hold for the "entire output block".
* `CommunityHierarchy`: `detect_hierarchical`, level by level. Leiden, whose seed is
  fixed, is a table that gives a set of entities an arbitrary partition. The stride of
  the numbering, 1000 in the code, is a constant. Of two communities with one key the
  dictionary keeps the last, in the place of the first; `before` is the order of a
  level's keys.
* `EntityResolution`: the alias table's candidates, their execution on the graph,
  the embedding candidates of what is left, and their execution. The graph is a map
  from places in the order of `get_all_entities`: a merge takes away a place and moves
  no other, as in the backend's dictionary.
* `SvFsm`: `Transitions` is `_emit_fsm_edges`: the conditionals that its walk collects
  (`Ladders`), with their else-ifs (`Rungs`), the assignments in a branch
  (`StateAssignments`), and the choice of what is a state machine (`Observed`,
  `FsmVar`). `InArm` is the walk's flag, which a `begin` resets. `Reached` says in
  which states a process comes to a statement, by the meaning of the statements;
  variables of one machine have one value there (`Envs`).
* `SvDataflow`: `Reads` is `_emit_dataflow_edges`, `DrivesSignal` the extractor from
  the syntax tree. `Execute` runs a statement on Boolean signals, part by part; a
  signal influences another if flipping it changes what the statement leaves there.
  Event controls and calls are left out, and so is the node identity by which
  left-hand sides are kept out of the identifiers: without it more signals would
  drive, none fewer.
* `SvBridges`: the two numberings of processes, `text_to_root` as the walker fills
  it, and the lookups of `_emit_bridges`. An operator is known by its place, so that a
  bridge into another process is seen; a literal or select by the key it is named by,
  which for bounds that are no literals is a hash of the place in the tree and no
  function of the text. White space and the entities themselves are left out.
* `QueryExpansion`: `Expand` is `GraphQueryExpander.expand` up to its context, over
  the two traversals of the NetworkX backend; `Evaluate` is `PathMatcher.evaluate`.
  Which elements of a Python set a bound keeps is left open: both give the set of
  possible results. The reference definitions are walks, as the docs describe them: both
  ways for terms, along the edges for paths. Which entities a text names
  is an input, and so is which names occur in the text.

## 3. Runs

| run | checks | result |
|---|---|---|
| `nx_core` | `EdgesSound`: `EdgesWellFormed` and `EdgeProvenance` | hold, also with self-merges and aliases that clash with names |
| `nx_alias` | `IndicesSound` (`AliasesLive`, `IndexBacked`), `KeepsLedger`, `WithdrawnOrAbsorbed` | hold without the embedding resolver (the default configuration), aliases clashing |
| `nx_separate` | `AllNodesListed`, `OneNodePerKey`, `StableResolution` | hold when no alias is spelt like a name, embedding resolver on |
| `nx_shadow` | `AllNodesListed` | violated when an alias is spelt like a name |
| `nx_selfmerge` | `WithdrawnOrAbsorbed` | violated with the embedding resolver and such an alias |
| `extract_core` | `NoDanglingNodes`, `OneOriginPerFile` | hold with crashes, edits at any moment, two corpora |
| `extract_sync` | `EverySyntaxNodeRepresented`, `SpansLossless`, `OnlyStaleDeleted`, `Converges` | hold with neither crashes nor edits during a call |
| `extract_crash` | `EverySyntaxNodeRepresented` | violated after one crash |
| `extract_corpus` | `CorpusIsolation` | violated by two corpora over one file, with no edit |
| `store` | of the SystemVerilog extract `NoDangling`, `ReferencesTrue`, `WrittenWhole`, `ReplayLossless`, `UntouchedUnaffected` | hold, each under the conditions it names, with a crash and an edit |
| `store` | of the connectors `RolesCorrect`, `RolesKept`, `ReferencesJustified`, `ReferencesComplete` | hold after runs in the documented and in other orders, with extracts between runs, an interrupted run and refused runs |
| `service` | `OneGraph`, `NothingLost`, `CachesFromLoadedGraph`, `SummariesConsistent`, `EventuallyLoaded`; and of `Computations` `LooksWherePythonLooks`, `ImportAttributed`, `BudgetPriority`, `HierarchyRefines`, `ProposalsCarriedOut`, `TransitionsFaithful`, `DataflowCovered`, `BridgesFaithful`, `TermsRelated`, `PathsFollowPatterns` | hold |
| `neo4j` | `IngestedStays`, `DeletedIsGone`, `OneNodePerKey` | hold unless disturbed, the last also unless raced |

`store`, `service` and `neo4j` do not check for deadlock: their calls are bounded,
and a system that has had them all stops. The others do. `store` is one run for two
modules that share no variable here: `suite` chooses in the initial state which of
them moves, and with which files and plans (`MCStore`).

What the four violations say:

* **nx_shadow.** Upsert `A`, then `B` with alias `a`. The case entry of `A` now
  means `B`; `A` is in the graph and nothing that lists entities finds it.
* **nx_selfmerge.** In that state `B` is listed under both names. The embedding
  resolver finds the two listings identical and merges `B` into `B`, which
  deletes it with its edges, while `_aliases` and `_case_index` still point at it.
* **extract_crash.** A call stops after `snapshot_file` and before the nodes are
  written. The row has the right sha, so every later call skips the file.
* **extract_corpus.** `B` extracts `f1`, then `A` does: the nodes are `A`'s, the
  row is `B`'s. `B` then prunes, with other files: `A`'s nodes are deleted.

### Where the code does less than its comments say

The conditions in the properties are where the first attempts failed. They are as
weak as the code allows, and say what not to rely on.

* `SvIncrementalExtract`. "Untouched origins, their nodes, and rels between them are
  unaffected" (`builders/sv/writer.py:895`) needs distinct stems: a call that names
  another file of that stem takes the rows over (`DistinctStems`). Edges between a
  touched and an untouched file are lost when the touched one is replaced, in both
  directions, until both are touched. A placeholder that several files need is
  deleted with the one it is credited to. A name that is defined after a file
  referred to it stays unresolved until that file is touched. A crash between the
  snapshot and the write leaves an origin that is skipped as unchanged; `gc` repairs
  that.
* `SvBuild`. "Most dispatch sites overwrite unconditionally, so the difference is
  invisible" (`promote_cache.py:411`): the index of a replay keeps the first file's
  definition and the walk the last one's, which the sweep for declared types can
  see when two files define a name (`OneDefiner`).
* `Connectors`. A role is never taken back: when the file of a base class or of a
  metaclass is extracted again, rows in other files keep the role that the old text
  gave them (`old`). Bases and metaclasses are found by their last segment in the
  whole corpus, whatever the imports say, and two classes of one name are told apart
  by the order of a query (`Plain`; the same for two imports of a local name). A
  chain of metaclasses takes a run per link (`Chained`), because the pass tests the
  roles it read before it wrote any. A class whose metaclass
  defines `__init_subclass__` and has a more specific role as well, `__get__` say, is
  not tagged, although the rule is about the method (`py_init_subclass_semantics.py:22`):
  the pass reads the metaclass's one role. `DocumentedRole` says what the documentation
  says, and `RolesCorrect` leaves such a class out (`Masked`; the run has one).
  The decorator connector, which "only adds" (`py_decorator_semantics.py:19`),
  rewrites the role of a dataclass that was tagged as a descriptor before. Rows that
  have a role are skipped before they are counted, so a second run returns 0 where
  the docstrings promise the same count (`_py_class_tag.py:106`).
* `GraphService`. Overlapping first calls, as above.
* `PyScopes`. `_classify` "mirrors CPython's LEGB" (`py_scope_resolution.py:631`), but the
  indexer has pushed the frame of a function, class, lambda or comprehension by the time it
  comes to the decorators, defaults, annotations or first iterable (`:499-509`, `:519-534`,
  `:549-559`): of `def f(x, g=lambda: x)` it says that `x` is the parameter, where Python
  looks outside. `LooksWherePythonLooks` leaves out chains in which a frame says something
  of the name to its header (`BodiesOnly`), and assignment expressions in a header or
  directly in a lambda, which the code does not see. `import a.b` without an alias binds
  the package `a`, and is recorded as if it bound `a` to `a.b` (`walker.py:108-112`).
  `from . import x` is recorded with its dots and one more, and so
  resolved one package too high, contrary to the docstring of
  `_resolve_relative_qualname` (`ImportAttributed` excludes empty modules). Star
  imports lose their dots. Only one star and one named import of a name, in this
  order, are followed as Python does, and none inside a function or a guard.
* `CommunityHierarchy`. Two communities of one level get one number when a split
  has a thousand parts.
* `SvFsm`. "The rougher fallthrough edge is dropped if a precise one exists"
  (`sv_connectivity.py:1545`): it is not. "Conditionals nested inside a case arm are
  already covered by the case-walker" (`:1344`), and are walked again, as if any
  state could reach them, if the arm has a `begin`. What a default arm, a case in an
  arm that is over something else, or an unconditional assignment assigns is no
  transition; nor is a reset in an `always_ff`.
* `SvDataflow`. Nothing inside a case is `reads`. An index on the left counts as
  assigned, and not as read. To `drives_signal` a concatenation on the left is no
  target, and if the right-hand side is a single name, that is.
* `SvBridges`. "Process IDs match v1's naming exactly" (`sv_v2_integration.py:16`)
  ends at the first initial or final process, which only the statements number;
  stubs behind it are tied to another process or to none. A literal or select is
  tied only in the process that has it first. "A Condition or assignment LHS stub with
  that text resolves to this Index node" (`sv_v2_walker.py:709-710`) is so only of the
  text that made the node: in `assign x = d[i]; assign y = d[j];` both selects are named
  by one hash, the second text is not entered, and its stub is tied to nothing. The
  predicate of an `if` never is: the object of its triple is the branch.
* `QueryExpansion`. A `PathHop` is "one directed hop" (`query/schemas.py:39`), but
  `query_neighbors_typed` goes both ways and the hop is written the way it went
  (`path_matcher.py:130`): in a graph with one edge, `d` uses `a`, the pattern (uses) gives
  the seed `a` the path to `d`, and the context says that `a` uses `d`.
  `PathsFollowPatterns` asks for directed hops where no edge leads back
  (`LeadsBack`), and for a path to every node that a directed walk ends at. Without types the
  traversal goes back along edges one hop only (`networkx_backend.py:703`), although it is
  to go "forward + backward" to the depth (`:685`, `backend.py:191`,
  `expander.py:131-132`): `TermsRelated` asks for all that is related, both ways, only
  where types are given or the depth is at most one. A seed that is asked for in
  another case or by an alias is no node to the cycle guard, and its path can come
  back to it. The fan-out is cut before paths to one terminal are collapsed. A seed
  that is gone is offered as a term. Traversals that are typed refuse a depth of 0 (only a
  configuration can ask for it), and the untyped one answers. "All communities
  touched by traversal" (`query/expander.py:299`) are those of the attribute
  `community_id` of entities, which nothing in memory sets: that section is always
  empty.
* `EntityResolution`. An alias chain is carried out in the table's order: `b` into
  `a` first, and then `c` into `b`, leaves `c`. The report counts that merge.

### Bounds

`nx_core` and `nx_alias`: three names, two of which differ by case, so that a
duplicate, a bystander and a case variant exist together; one alias form, which is
one of them; two documents; one predicate; two edges. A merge with a parallel edge,
a merge after a merge, a removal that cascades and a reload with a contested entry
all occur within this. `nx_separate`: four names and an alias form of their own, so
that two nodes can share an alias; one edge, because its properties do not read
edges. `MaxEdges` and `MaxAliases` bound the edges and the alias entries over all
nodes as a state constraint: TLC checks the invariants of states beyond the bound
but not their successors. Documents are interchangeable (symmetry).

`extract_*`: two files, two contents that differ in one node and share the
whole-file node, one of them bulky; `MaxEdits = 2` lets a file change and change
back, so that an old origin id comes back; one crash, after which later calls run
on. `extract_core` uses two corpora and symmetry over files; `extract_sync`, which
checks a liveness property, uses no symmetry.

`store`, suite `extract`: two files, two stems (equal or not), a content that defines a symbol
and one that refers to it in the three ways; two calls with any paths in any order
and any mode, one edit, one crash. `BulkMinRows = 10` lets two users of the symbol
take the bulk writer and everything smaller the other. Two files defining the
symbol, two using it, and one of each, in both orders, all occur; three files would
add no kind of pair. Files and stems are interchangeable (symmetry).

Suite `documented`: two Python files of one corpus with three texts each (inheritance, also
cyclic and through a dotted name; a chain of metaclasses; decorators by alias, and a
local name `property` that is something else; two classes of one name) and one of
another corpus with classes of the same names; all six tagging connectors; three
extracts, so that a base can change after it has been used; one interrupted run.
Suite `anyorder`: the first two files, the structural connectors in reverse, and the
decorator connector after the descriptor's. Suite `references`: a Python, a Markdown and a
SystemVerilog file of one corpus and a Python file of another; a run of one
reference connector and one of both, which is refused, after its first connector has
written, when there is no SystemVerilog or no Markdown; four extracts, so that all
files exist and one changes or goes.

`service`: two threads, a name in the graph file and one beside it, two
communities, three requests, one restart. Three requests are two overlapping first
ones and a later one that finds what they cached. The inputs of the computations
are listed in `MCGraphService`: scope chains to depth three, each frame
around the next by its header or its body; files of up to two imports, dotted ones with an
alias and without, in a package of a module and a subpackage; blocks of at most three lines of
a kind; five entities, that Leiden parts by number in any way, three levels, stride 3; three
entities with all similarities and tables of two rows; of SystemVerilog, statements
with up to two constructs, one in the other, over two enums with two members or over
three signals, and modules of up to three processes with up to two expressions, among them
selects of two texts with one key and of one text with two; of queries, graphs of four names and seven candidate edges, a seed that is gone, two places for terms, a
fan-out of two, patterns of up to three types.

`neo4j`: two processes, one of which also resolves; two documents that share an
entity; a graph file with the first or none; three calls, one fault, three starts.
An activity retried after each of its transactions, beside another that is at any
of its own, is within this; so is a merge in between.

### Fairness

`FairSpec` of `IncrementalExtract` has one assumption: an extract that has started
takes its next step (`WF_vars(JobStep)`). It is a sequential program with no lock
and no wait. Nothing obliges anybody to start a call, to edit or to crash.
`Converges` says that once the edits are used up, a path that a call has still to
scan becomes up to date. `MCSpec` of `MCGraphService` (as `FairSpec` of
`GraphService`) assumes that each thread carries its request on
(`WF_vars(ThreadStep(t))`): the operating system schedules every thread of the pool,
and no step waits for another thread. Nothing obliges a request to come.
`EventuallyLoaded` says that however first calls overlap, what is published gets the
graph file's content, if the process lives. The other runs check safety only.

## 4. Proofs

`tlapm` checks every theorem to its last leaf, for every value of the constants.

**NetworkXBackend.** The assumptions are those of the module: `Lower` is a function
from names to keys, terms and aliases are names, the empty string is no document.

1. `CoreInv` (types, `EdgesWellFormed`, `EdgeProvenance`) is inductive by itself,
   self-merges included: `CoreInvariance`, `TypeCorrectness`,
   `EdgesStayWellFormed`, `EdgeProvenanceHolds`. The hard steps are removal and
   merge. A deleted node's edges must all have been of the deleted document: that is
   what `EdgeProvenance` is for; `EdgesStaySound` is both together. Every edge after a
   merge comes from exactly one edge before it (`MergedEdgesOrigin`).
2. `IInv` adds `AliasesLive` and `IndexBacked`. They are what makes clearing the
   entries of a deleted node enough. A self-merge breaks both, so they are proved
   under `Safe`: the embedding resolver is off, or no alias is spelt like a name.
3. `NamesOwned` says that every key of a term is owned: the case index maps it to
   the one node that bears it, as its name or as an alias. It is inductive when
   aliases are `Separate` from terms. It gives `EveryNodeListed`,
   `NodesUniqueUpToCase`, `TermsStable`, and that no entity is listed twice, so that
   no self-merge happens: this discharges the proviso of 2 in that case.
4. `LedgerRefinement`: with `held` and `claims` read off nodes and edges, every
   operation is a step of `ProvenanceLedger` or none. Its `Retract` has no cascade;
   that the backend's cascade never takes more is `EdgeProvenance` again.
   `NothingElseLost` is the action property about entities.

**IncrementalExtract.** `IInv` adds four facts about the loop variables to the
three properties: which variables are in use where the program is (`LoopInv`), that a
row whose nodes were just deleted has none (`VictimInv`), that a snapshotted row
stays until it is written (`TouchedInv`), that a row still to be deleted is outside
the call or belongs to the path being replaced (`StaleInv`). Without them
`NoDanglingNodes` is not inductive: a write could follow the deletion of its
origin. It holds for any bounds and any edits; a crash only resets the loop
variables. The theorems are `TypeCorrectness`, `NoNodeDangles`, `OriginsUnique`.

Its second part goes on under assumptions on the constants. `Quiet`, no edits
during a call: then the three reads of a file agree and the loops delete only what
has changed (`WorkInv`), which gives `SpansStayLossless` with crashes, and, without
crashes (`Unbroken`), `OnlyStaleRowsGo`: a row that goes is out of date or outside the
call, and a node that goes is of such a row (`VictimsOutdated`), or of the row that is
being written, which is full again when that is done (`EverySyntaxNodeRepresented`). For `ScannedIsRepresented`, every row is full
that is not about to be written or just deleted, and the one being written is full
but for what is left (`WrittenInv`), and every path scanned has a row
(`ScannedInv`). `WrittenInv` needs `Unbroken`, as `extract_crash` shows; `ScannedInv`
needs `OneCorpus`, because a snapshot of what another corpus has makes no row of its
own.

**SvIncrementalExtract.** For any finite set of files, any stems, contents, labels and
bounds (`BoundsAssumption`, `LabelsAssumption`). Four invariants, each resting on the
ones before it; TLC checks all four on the instance of `store` as well, row by row and
in bulk.

1. `SoundInv`: types; where the program is determines which loop variables are in use
   and what the batch may still hold (`ControlInv`); the snapshots that the batch needs
   are there (`SnapshotsThere`); and the batch left to write mentions only rows that
   are stored or in it (`BatchSound`). The last is what each statement of the two
   writers needs, and gives `NothingDangles` for any stems, crashes included.
2. `OneOrigin`: a file has one origin row, and none from its scan to its snapshot when
   it is to be written. Without it an old origin's rows could be deleted together
   with new ones of the same ids.
3. `TruthInv`, under `DistinctStems`: an id has the stem of its row's file, so that no
   two files contend for it (`RowsTrue`, `InOriginTrue`); the call's paths are owned by
   what they were scanned with (`OwnersTrue`); what is about to be deleted is out of
   date or outside the call (`StaleTrue`); and the edges in the batch already go from
   a reference to its definition (`BatchTrue`). An edge is resolved over the whole
   corpus but written with the touched files: that the id it ends at is the one
   resolved takes all of these. It gives `ReferencesAreTrue` and, with the first two,
   `UntouchedStay`.
4. `WholeInv`, under `DistinctStems` and without crashes: an origin that is neither
   being deleted nor written has all its rows (`Settled`), what is being written has
   them stored or in the batch (`Waiting`), every path that is scanned and not waiting
   for its snapshot has an origin to stay (`Accounted`), and the references of the
   files written are there or in the batch (`Connected`). It gives `FilesAreWhole`.
   After a crash `Settled` fails: the next extract takes an origin row for a file that
   is complete (`extract_crash` shows the same of the other builders).

`CacheReplays` is about `SvBuild` alone. A symbol with one definer is captured with
the file that defines it, so that the index replayed is the index walked. What a
prefix of the corpus defines is a set of numbers with a greatest and a least element:
that every such set has one (`LeastExists`) is induction over the numbers, done
without an operator parameter by the well-foundedness of strict inclusion between
finite sets.

**Connectors.** For any files, texts and plans. What is about to be written is for
rows that are there, because rows only change while no run is under way: `LinksInv`
says so of edges, with the mention they are for, and gives `ReferencesStayJustified`
through every extract and crash. `FreshInv` says that a pass writes either only roles
that decorators give, or one role to rows that have none: a role is then replaced
only by an explicit one, which is `PrecedenceIsKept` (`StructureNeverOverwrites`, the
part of `RolesKept` that needs no reference to the decorators themselves). That a run
keeps the edges its finished connectors owe, and the current pass the ones it has
still to write (`ProgressInv`), gives `ReferencesAreComplete`.

`RolesInv` says the same of roles, and more: that they are the documented ones. It
rests on three groups of lemmas.

1. What a pass reads is what the source means (`PassTags`), for files without two
   classes or imports of one name (`Plain`). For a decorator, that the outermost one
   that promotes is the least of a set of positions (`DecoratorTagsExplicit`). For an
   inherited method, that the walk over base classes, which takes as many steps as
   there are classes, ends with the least set closed under bases
   (`AncestorsInherited`): it grows with every step until it stops, and stops before
   the steps run out. This is induction over the steps, by `LeastExists` again.
2. What the source says of a row depends on the Python rows of its corpus alone
   (`SameDocumentedRole` and the lemmas before it). So an extract changes it only for
   rows of the corpus of the file, which are then `old`.
3. A pass gives each row the role it is documented to have (`PassSound`), and leaves
   out none (`PassComplete`), if the passes documented before it are done: every row
   they have a role for has one (`Done`). A run keeps that of all the connectors it is
   through with (`Positions`, `Running`), and the pass that is being written owes the
   rows it has still to write (`Awaited`).

From `RolesInv` follow `RolesAreKept` and `ExplicitBeatsInferred`, for connectors run
in any order. `RolesAreCorrect` assumes `InOrder`: in every plan each connector comes
after the one that is documented before it. The precedence is that of the first
writer, so that a connector run before its turn, in whatever run, leaves roles that a
later run in the right order does not replace. It is what suite `documented` does;
plans may be incomplete, be cut short, and have the connectors again in any order
behind that.

**GraphService.** Without overlap, at most one thread is initialising, and where it
is determines what is published: nothing before `Publish`, its own backend after it,
with the file's content from `LoadEnd` on. Whoever binds, walks or ingests therefore
has the one loaded graph. This is the invariant of `Invariance`; it gives
`OneGraphAlways`, `NothingLostAlways` and `CachesLoadedAlways`. That summaries in
flight, in the expander and in the sidecar belong to the partition beside them gives
`SummariesAlways`, overlapped or not.

**Neo4jWorkers.** For any processes, documents and bounds, and finitely many
documents: `Prune` counts a node's sources, and that one means *only this one* needs
the set to be finite. Each process is in exactly one call (`Call`), and two calls of
different kinds both have `clashed` set (`ClashInv`). So whatever happens during an
undisturbed ingest is another ingest, which only adds (`Grows`), and during an
undisturbed removal another removal, which only takes away (`Shrinks`): what a call
has achieved so far (`IngestAt`, `DeleteAt`, `MergeAt`) stays achieved until it
reports. What an open `MERGE` has not found is still not there, and no other open one is
about it, unless `raced` or `doubled` (`RaceInv`). During an import nothing counts as
done and, unless `doubled`, the database is what has been imported (`ImportInv`). With the three properties this is
inductive (`Invariance`): `IngestsStay`, `DeletionsAreComplete`, `KeysStayUnique`.

**Computations.** `Computes` is the invariant: what is put out is what the operator
computes from an input. What is left is a fact about each operator, for inputs of any
size. Where an operator is a recursive function on an interval of numbers, `Iterates`
says that it is what its equations say, and `Induction`, which is `LeastExists`
again, what it is for every number. The assumptions (`CaptureAssumption`,
`ImportAssumption`, `QueryAssumption`, `PatternAssumption`, `ModuleAssumption`,
`BudgetAssumption`, `ResolutionAssumption`, `HierarchyAssumption`,
`StatementAssumption`, `DesignAssumption`) say what an input is: a chain of frames that
the compiler accepts, statements with a module and a leaf, edges between nodes of a
finite graph, expressions whose form their text determines (it was parsed from it), lines of which the stub that
replaces them is a part, entities with names of their own (the backend's dictionary is
keyed by them), a table by which Leiden parts every set of entities, statements whose
branches are nested and opened by a test before them, and designs whose names are
declared once and whose literals and labels are members of the enum of what they are
compared with.

1. `CapturesLookRight`: `Classify` looks from the lambda outwards for a frame to stop
   at; Python analyses from the module inwards. Both are brought to the innermost
   frame that decides (`FoundWithin`, `LooksAreFound`). The connector also stops at a
   `nonlocal`, which decides nothing: that the source compiles makes sure of a binding
   further out (`CapturesLookAlike`). Python passes over a frame whose header it is in, and
   the connector does not: under `BodiesOnly` there is nothing of the name there to stop at.
2. `ImportsAreAttributed`: `RelativePath`, that the dots of an import, counted from the
   importing module or, in a package, from the package itself, name the module that
   the import system resolves; `LiftsAsPython`, that trying the whole path as a module
   before its last segment as an attribute agrees with Python, which tries them the
   other way round, where no module has an attribute and a submodule of one name;
   `AttributesAsPython`, that the last statement by name, or else the star, is the one
   that binds. For a dotted import without an alias it is not the module that Python binds,
   and the theorem is not about it.
3. `TermsAreRelated`: what a traversal by levels has seen after so many levels is what
   a walk of at most that many hops reaches (`WithinWalks`), in the directed and the
   typed traversal, and the typed one's walks are those of the reference, which goes both
   ways; what the untyped one finds is some of that, and all of it up to one hop
   (`NeighboursReached`, `RelatedBothWays`). The bound cuts only when it must (`CutBound`).
4. `PathsAreFaithful`: each frontier holds walks along a prefix of the pattern, taken either
   way (`FrontiersAreWalks`), one for each end; while all of these fit the fan-out, a walk
   survives every hop to each node that one leads to. A directed walk is one of them
   (`EitherWay`), so its end is found; and where no edge leads back, there are no others
   (`NoneLeadsBack`).
5. `BridgesAreFaithful`: no two collected processes of a kind have one number
   (`OneNumber`), so the texts a statement is looked up by are those of one process,
   and as no text has two forms, it has one root there (`OneRoot`). While only numbered
   kinds have come, both walks number alike (`AllWalked`): the process of the statement
   is the one that was walked, and the first place of an operator (`FirstPlace`) is a root,
   as is that of a literal or select whose key is new with it.
6. `BudgetIsByPriority`: each phase takes its items one by one in a strict order, an item
   at the turn that counts those before it (`Turns`); so it stops after a first part of
   them, all if the block still does not fit, and it did not fit before the last
   (`PhaseTruncates`). What is cut only shortens the block (`TotalShrinks`, `SumsCompare`):
   that a phase cuts at all means that the ones before it cut all they could
   (`FourPhases`). Since stubs remain, "all" is not "fits".
7. `ProposalsAreCarriedOut`: `CarriedOut` is the invariant of the execution, proposal by
   proposal: the graph on the way has lost no mention (`SumMoves`: a merge moves the count
   of one place to another), and as long as nobody who is to stay is proposed as a
   duplicate, all who are to stay are there, and none of the duplicates so far. It needs
   of the proposals only that the two are not one and that the one to stay was listed
   (`AreProposals`), which both resolvers see to (`AliasProposals`, `EmbeddingProposals`);
   the second lists what the first left.
8. `HierarchyIsRefined`: with the bucket's -1, the numbers of the parts of one set lie
   within a stride (`PartsOf`), so the key of a child has those of its parent and of the
   child among its siblings in it (`OneKey`): the stride keeps cousins apart. Hence a level
   keeps all splits, its communities are apart, and the children of each make it up
   (`NextRefines`), from level to level (`LevelsRefine`).
9. `DataflowIsCovered` (this and the next in `SvComputationsProofs`): two runs of a statement that agree on a set of signals go on to
   agree on it, step by step (`StaysAlike`), if what is assigned to the set, and what
   decides on these assignments, reads only the set (`Confined`, `Insulated`). A set
   closed under reads is such a one where there is no case (`ClosedIsConfined`); so is
   the complement of a signal that nothing reads, and a signal that nothing assigns to
   stays as it is (`InfluencesDrive`). The two extractors agree on what is read of an
   assignment and of the tests around it (`ReadsDrive`).
10. `TransitionsAreFaithful`: in a state that is a label of an item, the item is taken, and
   so is all around it that was taken in some state: only tests of the machine could
   differ, and outside of the item none compares with that label, inside of it none is of
   the machine (`ItemIsTaken`). That is what `TestedOnce` and `NoneDead` are for: without
   the first an edge may be from a state that an inner test excludes, without the second
   be of a statement that no state leads to. The other way round, of the
   conditionals around an assignment the outermost is one that the walk collects, and the
   last of its rungs around it has the arm that it is in (`ArmExists`): the else of a
   rung is entered only where it is no conditional (`ElseIfIsEntered`).

**Model-checked only.** `Converges` and `EventuallyLoaded`: liveness under fairness is
out of the prover's reach. Every other property of the runs that hold is the statement
of a theorem.

## 5. Not modelled

Beyond the components `PROJECT.json` lists as not modelled: paths given twice in one
call; more than one builder `source` in the store (the queries filter on it next to
the corpus); the store's facade call of `prune_orphaned_origins` without filters;
concurrent extracts (a Kuzu database is opened for writing by one process); hash
collisions; the prefix `a1` of a second `a` against a file `a1`; semantic blobs of
SystemVerilog without a file's prefix; edits during a SystemVerilog extract
(`IncrementalExtract` has them); weights, counts and confidences.

Of the connectors: the edges `py_scope_resolution` writes (one deterministic pass,
whose decisions are in `PyScopes`), connectors that run while an extract does, rows
whose payload is not JSON.

What is left are parsers and tree walks (the rest of `sv_connectivity`, the rules of the
SystemVerilog dispatch, the walkers, the extractors), string work (query
compilation, exports, prompts, ranking) and thin handlers. None of them keeps
state between calls, and a model of them would be their text again.
`src/research` holds an earlier copy of the SystemVerilog builder.
