-------------------------- MODULE NetworkXBackend --------------------------
(***************************************************************************)
(* NetworkXBackend (kgweave/knowledge_graph/backends/networkx_backend.py): *)
(* a directed multigraph and the two dictionaries that decide which node a *)
(* surface form means.                                                     *)
(*                                                                         *)
(* Kept: the node set, each node's sources and aliases, the edge set and   *)
(* each edge's sources, and both indices, with the order in which every    *)
(* operation reads and writes them.  Left out: attributes no branch of     *)
(* these operations reads (type, layer, counts, weights, evidences,        *)
(* descriptions).                                                          *)
(***************************************************************************)
EXTENDS PartialMaps, FiniteSets

CONSTANTS
  Name,       \* surface forms
  Key,        \* lowercased surface forms
  Lower,      \* str.lower
  Term,       \* the forms that callers name an entity, an endpoint or a query by
  AliasPool,  \* the forms that extractors list as aliases of an entity
  Relation,   \* edge predicates
  Source,     \* document keys
  NoSource,   \* the empty source string
  EmbeddingResolution  \* is entity resolution on, with an embedding model?

ASSUME LowerAssumption == Lower \in [Name -> Key]
ASSUME TermAssumption == Term \subseteq Name /\ AliasPool \subseteq Name
ASSUME SourceAssumption == NoSource \notin Source
ASSUME ResolutionAssumption == EmbeddingResolution \in BOOLEAN

VARIABLES
  nodes,      \* name -> [sources, aliases]   (self.graph.nodes)
  edges,      \* triple -> sources            (self.graph.edges, keyed by predicate)
  aliasOf,    \* alias -> node name           (self._aliases)
  caseIndex   \* lowercased form -> node name (self._case_index)

vars == <<nodes, edges, aliasOf, caseIndex>>

NodeRecord == [sources: SUBSET Source, aliases: SUBSET Name]

Triple == [subject: Name, predicate: Relation, object: Name]

(* `source' as a set: the empty string adds nothing to a sources list.     *)
Credit(source) == {source} \ {NoSource}

SourcesOf(n) == IF n \in DOMAIN nodes THEN nodes[n].sources ELSE {}

AliasesOf(n) == IF n \in DOMAIN nodes THEN nodes[n].aliases ELSE {}

KeysOf(names) == {Lower[a] : a \in names}

(* No alias is spelt, up to case, like something an entity is named by.    *)
Separate == KeysOf(AliasPool) \intersect KeysOf(Term) = {}

-----------------------------------------------------------------------------
(* _resolve: the alias index first, then the case index, then register.    *)

Expanded(aliases, term) == Get(aliases, term, term)

ResolvedCaseSensitively(aliases, index, term) == Expanded(aliases, term)

Resolved(aliases, index, term) ==
  LET form == Expanded(aliases, term)
  IN  Get(index, Lower[form], form)

Registered(aliases, index, term) ==
  Put(index, Lower[Expanded(aliases, term)], Resolved(aliases, index, term))

-----------------------------------------------------------------------------
(* get_entity: the case index decides; the alias index is asked only when  *)
(* the lowercased form is not registered.  At most one node.               *)
GetEntity(name) ==
  LET asAlias == IF name \in DOMAIN aliasOf THEN {aliasOf[name]} ELSE {}
      found   == IF Lower[name] \in DOMAIN caseIndex
                 THEN {caseIndex[Lower[name]]} ELSE asAlias
  IN  found \intersect DOMAIN nodes

(* get_all_entities: every node's name, looked up again by get_entity.     *)
GetAllEntities == UNION {GetEntity(n) : n \in DOMAIN nodes}

(* get_all_entities has the record of n at more than one of its positions. *)
ListedTwice(n) ==
  \E m1, m2 \in DOMAIN nodes : m1 # m2 /\ n \in GetEntity(m1) \intersect GetEntity(m2)

-----------------------------------------------------------------------------
Init ==
  /\ nodes = EmptyMap
  /\ edges = EmptyMap
  /\ aliasOf = EmptyMap
  /\ caseIndex = EmptyMap

(* upsert_entities for one Entity.  add_node resolves the name, credits    *)
(* the first source and registers the aliases; the name is then resolved   *)
(* again, under the new indices, to find the node that gets the remaining  *)
(* sources.                                                                *)
UpsertEntity(term, first, rest, aliases) ==
  LET n       == Resolved(aliasOf, caseIndex, term)
      index1  == Registered(aliasOf, caseIndex, term)
      alias2  == PutAll(aliasOf, aliases, n)
      index2  == PutAll(index1, KeysOf(aliases), n)
      nodes2  == Put(nodes, n, [sources |-> SourcesOf(n) \union Credit(first),
                                aliases |-> AliasesOf(n) \union aliases])
      again   == Resolved(alias2, index2, term)
  IN  /\ aliasOf' = alias2
      /\ caseIndex' = Registered(alias2, index2, term)
      /\ nodes' = IF again \in DOMAIN nodes2
                  THEN Put(nodes2, again,
                           [sources |-> nodes2[again].sources \union rest,
                            aliases |-> nodes2[again].aliases])
                  ELSE nodes2
      /\ UNCHANGED edges

(* The two ends of an edge, resolved one after the other.                  *)
SubjectOf(s) == Resolved(aliasOf, caseIndex, s)

ObjectOf(s, o) == Resolved(aliasOf, Registered(aliasOf, caseIndex, s), o)

IndexAfterBoth(s, o) ==
  Registered(aliasOf, Registered(aliasOf, caseIndex, s), o)

(* add_edge between two different nodes: endpoints are created or credited,*)
(* then the edge is created or credited.                                   *)
AddEdge(s, relation, o, source) ==
  LET subj == SubjectOf(s)
      obj  == ObjectOf(s, o)
      edge == [subject |-> subj, predicate |-> relation, object |-> obj]
      Credited(n) == [sources |-> SourcesOf(n) \union Credit(source),
                      aliases |-> AliasesOf(n)]
  IN  /\ subj # obj
      /\ nodes' = Put(Put(nodes, subj, Credited(subj)), obj, Credited(obj))
      /\ edges' = Put(edges, edge, Get(edges, edge, {}) \union Credit(source))
      /\ caseIndex' = IndexAfterBoth(s, o)
      /\ UNCHANGED aliasOf

(* add_edge whose two ends resolve to one node: dropped, but both ends have*)
(* been registered.                                                        *)
DropSelfEdge(s, o) ==
  /\ SubjectOf(s) = ObjectOf(s, o)
  /\ caseIndex' = IndexAfterBoth(s, o)
  /\ UNCHANGED <<nodes, edges, aliasOf>>

(* Every reader that resolves its argument (query_neighbors and its typed  *)
(* form, get_predecessors, get_outgoing_edges, get_incoming_edges), and    *)
(* upsert_descriptions: they register the form they were asked about.      *)
Lookup(term) ==
  /\ caseIndex' = Registered(aliasOf, caseIndex, term)
  /\ UNCHANGED <<nodes, edges, aliasOf>>

DoomedIfMentioned(source) == {n \in DOMAIN nodes : source \in nodes[n].sources}

(* The nodes whose only source is the one removed.                         *)
Doomed(source) == {n \in DOMAIN nodes : nodes[n].sources = {source}}

KeepEntries(index, gone) == index

ClearEntries(index, gone) == EmptyMap

(* An index after the entries that point at deleted nodes are dropped.     *)
WithoutNodes(index, gone) == DropValues(index, gone)

(* remove_by_source *)
RemoveBySource(source) ==
  LET doomed == Doomed(source)
      Survives(e) == /\ source \notin edges[e]
                     /\ e.subject \notin doomed
                     /\ e.object \notin doomed
  IN  /\ nodes' = [n \in DOMAIN nodes \ doomed |->
                     [sources |-> nodes[n].sources \ {source},
                      aliases |-> nodes[n].aliases]]
      /\ edges' = Restrict(edges, {e \in DOMAIN edges : Survives(e)})
      /\ aliasOf' = WithoutNodes(aliasOf, doomed)
      /\ caseIndex' = WithoutNodes(caseIndex, doomed)

(* An edge with one endpoint replaced by another.                          *)
Rename(e, from, to) ==
  [subject   |-> IF e.subject = from THEN to ELSE e.subject,
   predicate |-> e.predicate,
   object    |-> IF e.object = from THEN to ELSE e.object]

(* The edges of merge_entities: those of dup are redirected to can, except *)
(* that none may become a loop; where can already has the edge its own     *)
(* sources are kept and dup's are not added.                               *)
MergedEdges(can, dup) ==
  LET redirected == {Rename(e, dup, can) : e \in DOMAIN edges}
  IN  [e \in {x \in redirected : x.subject # x.object} |->
         IF e \in DOMAIN edges THEN edges[e] ELSE edges[Rename(e, can, dup)]]

InheritedAliasesOnly(dup) == nodes[dup].aliases

(* What becomes an alias of the surviving node.                            *)
Inherited(dup) == {dup} \union nodes[dup].aliases

MergedRecordOwnSources(can, dup) ==
  [sources |-> nodes[can].sources,
   aliases |-> nodes[can].aliases \union Inherited(dup)]

MergedRecordOwnAliases(can, dup) ==
  [sources |-> nodes[can].sources \union nodes[dup].sources,
   aliases |-> nodes[can].aliases]

(* The surviving node's record.                                            *)
MergedRecord(can, dup) ==
  [sources |-> nodes[can].sources \union nodes[dup].sources,
   aliases |-> nodes[can].aliases \union Inherited(dup)]

(* merge_entities of two different names, as either resolver proposes; the *)
(* early returns are the guards.                                           *)
MergeEntities(can, dup) ==
  /\ can # dup
  /\ {can, dup} \subseteq DOMAIN nodes
  /\ nodes' = [n \in DOMAIN nodes \ {dup} |->
                 IF n = can THEN MergedRecord(can, dup) ELSE nodes[n]]
  /\ edges' = MergedEdges(can, dup)
  /\ aliasOf' = PutAll(aliasOf, Inherited(dup), can)
  /\ caseIndex' = PutAll(caseIndex, KeysOf(Inherited(dup)), can)

(* merge_entities(n, n).  AliasResolver refuses to propose it.  Embedding- *)
(* Resolver pairs the positions of get_all_entities, and the name at two   *)
(* positions has similarity 1 with itself: every step of the merge is done *)
(* on one node, which is then removed with its edges.                      *)
MergeWithItself(n) ==
  /\ EmbeddingResolution
  /\ ListedTwice(n)
  /\ nodes' = Restrict(nodes, DOMAIN nodes \ {n})
  /\ edges' = Restrict(edges, {e \in DOMAIN edges : n \notin {e.subject, e.object}})
  /\ aliasOf' = PutAll(aliasOf, Inherited(n), n)
  /\ caseIndex' = PutAll(caseIndex, KeysOf(Inherited(n)), n)

(* save, then load into a fresh process: the graph survives, the indices   *)
(* are rebuilt from it.  The last node that claims an entry wins it; node  *)
(* order is not modelled, so any claimant may.                             *)
SaveAndLoad ==
  LET listed == UNION {nodes[n].aliases : n \in DOMAIN nodes}
      keys   == KeysOf(DOMAIN nodes \union listed)
  IN  /\ aliasOf' \in {f \in [listed -> DOMAIN nodes] :
                         \A a \in listed : a \in nodes[f[a]].aliases}
      /\ caseIndex' \in {f \in [keys -> DOMAIN nodes] :
                           \A k \in keys : k \in KeysOf({f[k]} \union nodes[f[k]].aliases)}
      /\ UNCHANGED <<nodes, edges>>

Next ==
  \/ \E t \in Term, first \in Source \union {NoSource}, as \in SUBSET AliasPool :
       \E rest \in SUBSET (IF first = NoSource THEN {} ELSE Source \ {first}) :
         UpsertEntity(t, first, rest, as)
  \/ \E s, o \in Term, r \in Relation, k \in Source \union {NoSource} :
       AddEdge(s, r, o, k)
  \/ \E s, o \in Term : DropSelfEdge(s, o)
  \/ \E t \in Term : Lookup(t)
  \/ \E k \in Source : RemoveBySource(k)
  \/ \E can, dup \in Name : MergeEntities(can, dup)
  \/ \E n \in Name : MergeWithItself(n)
  \/ SaveAndLoad

Spec == Init /\ [][Next]_vars

-----------------------------------------------------------------------------
TypeOK ==
  /\ DOMAIN nodes \subseteq Name
  /\ nodes \in [DOMAIN nodes -> NodeRecord]
  /\ DOMAIN edges \subseteq Triple
  /\ edges \in [DOMAIN edges -> SUBSET Source]
  /\ DOMAIN aliasOf \subseteq Name
  /\ aliasOf \in [DOMAIN aliasOf -> Name]
  /\ DOMAIN caseIndex \subseteq Key
  /\ caseIndex \in [DOMAIN caseIndex -> Name]

(* No edge is a loop and none dangles, whatever aliases, merges and        *)
(* removals did to the names its two ends were given by.                   *)
EdgesWellFormed ==
  \A e \in DOMAIN edges :
    e.subject # e.object /\ {e.subject, e.object} \subseteq DOMAIN nodes

(* A source that states an edge is a source of both its endpoints, so that *)
(* removing some other document never takes an endpoint away from it.      *)
EdgeProvenance ==
  \A e \in DOMAIN edges :
    edges[e] \subseteq SourcesOf(e.subject) \intersect SourcesOf(e.object)

(* What the operations owe the edges: both of the above.                   *)
EdgesSound == EdgesWellFormed /\ EdgeProvenance

(* The alias index never outlives its node: an alias answers only for a    *)
(* node that is in the graph and still lists it.                           *)
AliasesLive ==
  \A a \in DOMAIN aliasOf : a \in AliasesOf(aliasOf[a])

(* The case index never goes stale: an entry is either the first-seen form *)
(* of its own key or points at a live node with an alias of that key.      *)
IndexBacked ==
  \A k \in DOMAIN caseIndex :
    k \in KeysOf({caseIndex[k]} \union AliasesOf(caseIndex[k]))

(* No entry of either dictionary outlives what it stands for.              *)
IndicesSound == AliasesLive /\ IndexBacked

(* get_all_entities leaves no node out.                                    *)
AllNodesListed == DOMAIN nodes \subseteq GetAllEntities

(* Case-insensitive deduplication: no two nodes differ only by case.       *)
OneNodePerKey ==
  \A m, n \in DOMAIN nodes : Lower[m] = Lower[n] => m = n

(* The meaning of a term is stable: as long as the node a term resolves to *)
(* is in the graph, the term goes on resolving to it, through upserts of   *)
(* other forms, removals, merges and a reload.                             *)
StableResolution ==
  [][\A t \in Term :
       LET n == Resolved(aliasOf, caseIndex, t)
       IN  n \in DOMAIN nodes /\ n \in DOMAIN nodes'
             => Resolved(aliasOf', caseIndex', t) = n]_vars

(* What merge_entities promises: of two merged entities one survives and   *)
(* takes over the other's name.  So an entity leaves the graph only when   *)
(* its one source is withdrawn from the whole graph, or absorbed.          *)
WithdrawnOrAbsorbed ==
  [][\A n \in DOMAIN nodes \ DOMAIN nodes' :
       \/ \E m \in DOMAIN nodes' : n \in nodes'[m].aliases
       \/ \E k \in Source : /\ nodes[n].sources = {k}
                            /\ \A m \in DOMAIN nodes' : k \notin nodes'[m].sources]_vars

(* The sources that mention each node, and the sources of each edge that   *)
(* has any.                                                                *)
Held == [n \in DOMAIN nodes |-> nodes[n].sources]

Claims == Restrict(edges, {e \in DOMAIN edges : edges[e] # {}})

(* The backend keeps the provenance ledger: in particular, removing one    *)
(* document withdraws exactly the claims that document made, although the  *)
(* nodes it deletes take their incident edges with them.                   *)
Ledger == INSTANCE ProvenanceLedger WITH
  Entity <- Name, held <- Held, claims <- Claims

KeepsLedger == Ledger!LSpec

=============================================================================
