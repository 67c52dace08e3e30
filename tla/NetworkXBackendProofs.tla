----------------------- MODULE NetworkXBackendProofs -----------------------
(***************************************************************************)
(* Theorems about NetworkXBackend, for every set of names, every           *)
(* lowercasing, every alias supply and every set of documents.             *)
(***************************************************************************)
EXTENDS NetworkXBackend, TLAPS

(* An index: a dictionary from a subset of K to names.                     *)
IsIndex(f, K) == DOMAIN f \subseteq K /\ f \in [DOMAIN f -> Name]

-----------------------------------------------------------------------------
(* What _resolve answers and registers.                                    *)

LEMMA ExpandedType ==
  ASSUME NEW al, IsIndex(al, Name), NEW t \in Name
  PROVE  Expanded(al, t) \in Name
  BY DEF Expanded, Get, IsIndex

LEMMA ResolvedType ==
  ASSUME NEW al, IsIndex(al, Name), NEW ci, IsIndex(ci, Key), NEW t \in Name
  PROVE  Resolved(al, ci, t) \in Name
  BY ExpandedType DEF Resolved, Get, IsIndex

LEMMA RegisteredType ==
  ASSUME NEW al, IsIndex(al, Name), NEW ci, IsIndex(ci, Key), NEW t \in Name
  PROVE  IsIndex(Registered(al, ci, t), Key)
  <1>1. Lower[Expanded(al, t)] \in Key
    BY ExpandedType, LowerAssumption
  <1>2. Resolved(al, ci, t) \in Name
    BY ResolvedType
  <1> QED
    BY <1>1, <1>2 DEF Registered, Put, IsIndex

(* Registering a term leaves every entry as it was, except that a form may *)
(* be entered under its own key.                                           *)
LEMMA RegisteredEntries ==
  ASSUME NEW al, NEW ci, NEW t, NEW k \in DOMAIN Registered(al, ci, t)
  PROVE  \/ k \in DOMAIN ci /\ Registered(al, ci, t)[k] = ci[k]
         \/ k = Lower[Registered(al, ci, t)[k]]
  BY DEF Registered, Resolved, Put, Get

LEMMA PutAllIndex ==
  ASSUME NEW f, NEW K, IsIndex(f, K), NEW S \in SUBSET K, NEW v \in Name
  PROVE  IsIndex(PutAll(f, S, v), K)
  BY DEF IsIndex, PutAll

LEMMA WithoutNodesIndex ==
  ASSUME NEW f, NEW K, IsIndex(f, K), NEW gone
  PROVE  IsIndex(WithoutNodes(f, gone), K)
  BY DEF IsIndex, WithoutNodes, DropValues, Restrict

LEMMA KeysOfType ==
  ASSUME NEW S \in SUBSET Name
  PROVE  KeysOf(S) \in SUBSET Key
  BY LowerAssumption DEF KeysOf

-----------------------------------------------------------------------------
(* Type correctness.  A node table maps some names to records.             *)

IsTable(t) == DOMAIN t \subseteq Name /\ t \in [DOMAIN t -> NodeRecord]

IsEdgeSet(t) == DOMAIN t \subseteq Triple /\ t \in [DOMAIN t -> SUBSET Source]

LEMMA TypeParts ==
  TypeOK <=> /\ IsTable(nodes) /\ IsEdgeSet(edges)
             /\ IsIndex(aliasOf, Name) /\ IsIndex(caseIndex, Key)
  BY DEF TypeOK, IsTable, IsEdgeSet, IsIndex

LEMMA TypePartsNext ==
  TypeOK' <=> /\ IsTable(nodes') /\ IsEdgeSet(edges')
              /\ IsIndex(aliasOf', Name) /\ IsIndex(caseIndex', Key)
  BY DEF TypeOK, IsTable, IsEdgeSet, IsIndex

LEMMA RecordParts ==
  ASSUME TypeOK, NEW n
  PROVE  /\ SourcesOf(n) \in SUBSET Source
         /\ AliasesOf(n) \in SUBSET Name
         /\ n \in DOMAIN nodes =>
              /\ nodes[n] = [sources |-> SourcesOf(n), aliases |-> AliasesOf(n)]
              /\ nodes[n].sources = SourcesOf(n)
              /\ nodes[n].aliases = AliasesOf(n)
  BY DEF TypeOK, NodeRecord, SourcesOf, AliasesOf

LEMMA CreditType ==
  ASSUME NEW k \in Source \union {NoSource}
  PROVE  Credit(k) \in SUBSET Source
  BY SourceAssumption DEF Credit

LEMMA PutTable ==
  ASSUME NEW t, IsTable(t), NEW n \in Name,
         NEW S \in SUBSET Source, NEW A \in SUBSET Name
  PROVE  IsTable(Put(t, n, [sources |-> S, aliases |-> A]))
  BY DEF IsTable, Put, NodeRecord

LEMMA UpsertEntityType ==
  ASSUME TypeOK, NEW term \in Term, NEW first \in Source \union {NoSource},
         NEW rest \in SUBSET Source, NEW as \in SUBSET AliasPool,
         UpsertEntity(term, first, rest, as)
  PROVE  TypeOK'
  <1> DEFINE n       == Resolved(aliasOf, caseIndex, term)
             index1  == Registered(aliasOf, caseIndex, term)
             alias2  == PutAll(aliasOf, as, n)
             index2  == PutAll(index1, KeysOf(as), n)
             nodes2  == Put(nodes, n, [sources |-> SourcesOf(n) \union Credit(first),
                                       aliases |-> AliasesOf(n) \union as])
             again   == Resolved(alias2, index2, term)
  <1>1. term \in Name /\ as \in SUBSET Name
    BY TermAssumption
  <1>2. n \in Name /\ IsIndex(index1, Key)
    BY <1>1, TypeParts, ResolvedType, RegisteredType
  <1>3. IsIndex(alias2, Name) /\ IsIndex(index2, Key)
    BY <1>1, <1>2, TypeParts, PutAllIndex, KeysOfType
  <1>4. IsTable(nodes2)
    BY <1>1, <1>2, TypeParts, RecordParts, CreditType, PutTable
  <1>5. IsTable(nodes')
    <2>1. nodes' = IF again \in DOMAIN nodes2
                   THEN Put(nodes2, again,
                            [sources |-> nodes2[again].sources \union rest,
                             aliases |-> nodes2[again].aliases])
                   ELSE nodes2
      BY DEF UpsertEntity
    <2> HIDE DEF nodes2, again
    <2> QED
      BY <2>1, <1>4, PutTable DEF IsTable, NodeRecord
  <1>6. IsIndex(aliasOf', Name) /\ IsIndex(caseIndex', Key)
    BY <1>1, <1>3, RegisteredType DEF UpsertEntity
  <1> QED
    BY <1>5, <1>6, TypeParts, TypePartsNext DEF UpsertEntity

LEMMA EndsType ==
  ASSUME TypeOK, NEW s \in Term, NEW o \in Term
  PROVE  /\ SubjectOf(s) \in Name /\ ObjectOf(s, o) \in Name
         /\ IsIndex(IndexAfterBoth(s, o), Key)
  BY TypeParts, TermAssumption, ResolvedType, RegisteredType
     DEF SubjectOf, ObjectOf, IndexAfterBoth

LEMMA AddEdgeType ==
  ASSUME TypeOK, NEW s \in Term, NEW r \in Relation, NEW o \in Term,
         NEW k \in Source \union {NoSource}, AddEdge(s, r, o, k)
  PROVE  TypeOK'
  <1> DEFINE subj == SubjectOf(s)
             obj  == ObjectOf(s, o)
             edge == [subject |-> subj, predicate |-> r, object |-> obj]
             Credited(n) == [sources |-> SourcesOf(n) \union Credit(k),
                             aliases |-> AliasesOf(n)]
  <1>1. subj \in Name /\ obj \in Name /\ edge \in Triple
    BY EndsType DEF Triple
  <1>2. IsTable(nodes')
    <2>1. IsTable(Put(nodes, subj, Credited(subj)))
      BY <1>1, TypeParts, RecordParts, CreditType, PutTable
    <2>2. IsTable(Put(Put(nodes, subj, Credited(subj)), obj, Credited(obj)))
      BY <1>1, <2>1, RecordParts, CreditType, PutTable
    <2> QED
      BY <2>2 DEF AddEdge
  <1>3. IsEdgeSet(edges')
    <2>1. edges' = Put(edges, edge, Get(edges, edge, {}) \union Credit(k))
      BY DEF AddEdge
    <2> HIDE DEF edge
    <2> QED
      BY <1>1, <2>1, TypeParts, CreditType DEF IsEdgeSet, Put, Get
  <1> QED
    BY <1>2, <1>3, EndsType, TypeParts, TypePartsNext DEF AddEdge

LEMMA RemoveBySourceType ==
  ASSUME TypeOK, NEW k \in Source, RemoveBySource(k)
  PROVE  TypeOK'
  <1>1. IsTable(nodes')
    BY DEF TypeOK, RemoveBySource, IsTable, NodeRecord
  <1>2. IsEdgeSet(edges')
    BY DEF TypeOK, RemoveBySource, IsEdgeSet, Restrict
  <1>3. IsIndex(aliasOf', Name) /\ IsIndex(caseIndex', Key)
    BY TypeParts, WithoutNodesIndex DEF RemoveBySource
  <1> QED
    BY <1>1, <1>2, <1>3, TypePartsNext

LEMMA MergedRecordType ==
  ASSUME TypeOK, NEW can \in DOMAIN nodes, NEW dup \in DOMAIN nodes
  PROVE  MergedRecord(can, dup) \in NodeRecord /\ Inherited(dup) \in SUBSET Name
  BY DEF TypeOK, MergedRecord, Inherited, NodeRecord

LEMMA RenameType ==
  ASSUME NEW e \in Triple, NEW from \in Name, NEW to \in Name
  PROVE  Rename(e, from, to) \in Triple
  BY DEF Rename, Triple

(* Redirecting an edge from dup to can either leaves it as it was or can be*)
(* undone by redirecting it back, so that a new edge of a merge has exactly*)
(* one origin.                                                             *)
LEMMA RenameBack ==
  ASSUME NEW x \in Triple, x.subject # x.object, NEW can, NEW dup, can # dup,
         NEW e, e = Rename(x, dup, can), e.subject # e.object
  PROVE  e = x \/ Rename(e, can, dup) = x
  BY DEF Rename, Triple

LEMMA MergedEdgesOrigin ==
  ASSUME TypeOK, EdgesWellFormed, NEW can \in DOMAIN nodes, NEW dup \in DOMAIN nodes,
         can # dup, NEW e \in DOMAIN MergedEdges(can, dup)
  PROVE  \E x \in DOMAIN edges :
           /\ e = Rename(x, dup, can)
           /\ e.subject # e.object
           /\ MergedEdges(can, dup)[e] = edges[x]
  <1>1. PICK x \in DOMAIN edges : e = Rename(x, dup, can) /\ e.subject # e.object
    BY DEF MergedEdges
  <1>2. x \in Triple /\ x.subject # x.object
    BY DEF TypeOK, EdgesWellFormed
  <1>3. e = x \/ Rename(e, can, dup) = x
    BY <1>1, <1>2, RenameBack
  <1>4. CASE e \in DOMAIN edges
    <2>1. MergedEdges(can, dup)[e] = edges[e]
      BY <1>4 DEF MergedEdges
    <2>2. e = Rename(e, dup, can)
      BY <1>1, <1>2 DEF Rename, Triple
    <2> QED
      BY <1>1, <1>4, <2>1, <2>2
  <1>5. CASE e \notin DOMAIN edges
    <2>1. Rename(e, can, dup) = x
      BY <1>3, <1>5
    <2>2. MergedEdges(can, dup)[e] = edges[x]
      BY <1>5, <2>1 DEF MergedEdges
    <2> QED
      BY <1>1, <2>2
  <1> QED
    BY <1>4, <1>5

LEMMA MergeEntitiesType ==
  ASSUME TypeOK, EdgesWellFormed, NEW can \in Name, NEW dup \in Name,
         MergeEntities(can, dup)
  PROVE  TypeOK'
  <1>1. can # dup /\ can \in DOMAIN nodes /\ dup \in DOMAIN nodes
    BY DEF MergeEntities
  <1>2. IsTable(nodes')
    BY <1>1, MergedRecordType DEF MergeEntities, TypeOK, IsTable
  <1>3. IsEdgeSet(edges')
    <2>1. edges' = MergedEdges(can, dup)
      BY DEF MergeEntities
    <2>2. \A e \in DOMAIN MergedEdges(can, dup) :
            e \in Triple /\ MergedEdges(can, dup)[e] \in SUBSET Source
      BY <1>1, MergedEdgesOrigin, RenameType DEF TypeOK
    <2>3. MergedEdges(can, dup) = [e \in DOMAIN MergedEdges(can, dup) |->
                                     MergedEdges(can, dup)[e]]
      BY DEF MergedEdges
    <2> QED
      BY <2>1, <2>2, <2>3 DEF IsEdgeSet
  <1>4. IsIndex(aliasOf', Name) /\ IsIndex(caseIndex', Key)
    BY <1>1, TypeParts, MergedRecordType, PutAllIndex, KeysOfType DEF MergeEntities
  <1> QED
    BY <1>2, <1>3, <1>4, TypePartsNext

LEMMA SaveAndLoadType ==
  ASSUME TypeOK, SaveAndLoad
  PROVE  TypeOK'
  <1> DEFINE listed == UNION {nodes[n].aliases : n \in DOMAIN nodes}
             keys   == KeysOf(DOMAIN nodes \union listed)
  <1>1. listed \in SUBSET Name /\ DOMAIN nodes \in SUBSET Name
    BY DEF TypeOK, NodeRecord
  <1>2. keys \in SUBSET Key
    BY <1>1, KeysOfType
  <1>3. aliasOf' \in [listed -> DOMAIN nodes] /\ caseIndex' \in [keys -> DOMAIN nodes]
    BY DEF SaveAndLoad
  <1> HIDE DEF listed, keys
  <1>4. IsIndex(aliasOf', Name) /\ IsIndex(caseIndex', Key)
    BY <1>1, <1>2, <1>3 DEF IsIndex
  <1> QED
    BY <1>4, TypeParts, TypePartsNext DEF SaveAndLoad

-----------------------------------------------------------------------------
(* The inductive invariants.  CoreInv holds of every behaviour: an edge    *)
(* stays attached through a merge because edges have no loops, and its     *)
(* sources stay among its endpoints' through a removal because they were.  *)
(* The indices stay live as long as no entity is merged with itself.       *)
CoreInv ==
  /\ TypeOK
  /\ EdgesWellFormed
  /\ EdgeProvenance

IInv ==
  /\ CoreInv
  /\ AliasesLive
  /\ IndexBacked

(* The sources and aliases of a node after a step.                         *)
NextSources(n) == IF n \in DOMAIN nodes' THEN nodes'[n].sources ELSE {}

NextAliases(n) == IF n \in DOMAIN nodes' THEN nodes'[n].aliases ELSE {}

(* A step that only adds nodes, sources and aliases.                       *)
NodesGrow ==
  /\ DOMAIN nodes \subseteq DOMAIN nodes'
  /\ \A n : /\ SourcesOf(n) \subseteq NextSources(n)
            /\ AliasesOf(n) \subseteq NextAliases(n)

(* A step of the case index that keeps entries or adds backed ones.        *)
IndexGrows ==
  \A k \in DOMAIN caseIndex' :
    \/ k \in DOMAIN caseIndex /\ caseIndex'[k] = caseIndex[k]
    \/ k \in KeysOf({caseIndex'[k]} \union NextAliases(caseIndex'[k]))

(* The invariants of the next state, spelt with its nodes.                 *)
LEMMA NextInvariants ==
  /\ EdgesWellFormed' <=>
       \A e \in DOMAIN edges' :
         e.subject # e.object /\ {e.subject, e.object} \subseteq DOMAIN nodes'
  /\ EdgeProvenance' <=>
       \A e \in DOMAIN edges' :
         edges'[e] \subseteq NextSources(e.subject) \intersect NextSources(e.object)
  /\ AliasesLive' <=> \A a \in DOMAIN aliasOf' : a \in NextAliases(aliasOf'[a])
  /\ IndexBacked' <=>
       \A k \in DOMAIN caseIndex' :
         k \in KeysOf({caseIndex'[k]} \union NextAliases(caseIndex'[k]))
  BY DEF EdgesWellFormed, EdgeProvenance, AliasesLive, IndexBacked,
         NextSources, NextAliases, SourcesOf, AliasesOf

LEMMA GrowKeepsIndexBacked ==
  ASSUME IndexBacked, NodesGrow, IndexGrows
  PROVE  IndexBacked'
  BY NextInvariants DEF IndexBacked, NodesGrow, IndexGrows, KeysOf

LEMMA GrowKeepsEdges ==
  ASSUME EdgesWellFormed, EdgeProvenance, NodesGrow, UNCHANGED edges
  PROVE  EdgesWellFormed' /\ EdgeProvenance'
  BY NextInvariants DEF EdgesWellFormed, EdgeProvenance, NodesGrow

LEMMA UpsertEntityGrows ==
  ASSUME TypeOK, NEW term \in Term, NEW first \in Source \union {NoSource},
         NEW rest \in SUBSET Source, NEW as \in SUBSET AliasPool,
         UpsertEntity(term, first, rest, as)
  PROVE  NodesGrow /\ as \subseteq NextAliases(Resolved(aliasOf, caseIndex, term))
  <1> DEFINE n       == Resolved(aliasOf, caseIndex, term)
             alias2  == PutAll(aliasOf, as, n)
             index2  == PutAll(Registered(aliasOf, caseIndex, term), KeysOf(as), n)
             nodes2  == Put(nodes, n, [sources |-> SourcesOf(n) \union Credit(first),
                                       aliases |-> AliasesOf(n) \union as])
             again   == Resolved(alias2, index2, term)
  <1>1. nodes' = IF again \in DOMAIN nodes2
                 THEN Put(nodes2, again,
                          [sources |-> nodes2[again].sources \union rest,
                           aliases |-> nodes2[again].aliases])
                 ELSE nodes2
    BY DEF UpsertEntity
  <1>2. /\ DOMAIN nodes2 = DOMAIN nodes \union {n}
        /\ nodes2[n].sources = SourcesOf(n) \union Credit(first)
        /\ nodes2[n].aliases = AliasesOf(n) \union as
        /\ \A m \in DOMAIN nodes : m # n => nodes2[m] = nodes[m]
    BY DEF Put
  <1> HIDE DEF n, nodes2, again
  <1>3. /\ DOMAIN nodes' = DOMAIN nodes2
        /\ \A m \in DOMAIN nodes2 : /\ nodes2[m].sources \subseteq nodes'[m].sources
                                    /\ nodes2[m].aliases = nodes'[m].aliases
    BY <1>1 DEF Put
  <1>4. NodesGrow
    BY <1>2, <1>3 DEF NodesGrow, SourcesOf, AliasesOf, NextSources, NextAliases
  <1>5. as \subseteq NextAliases(n)
    BY <1>2, <1>3 DEF NextAliases
  <1> QED
    BY <1>4, <1>5 DEF n

LEMMA UpsertEntityCore ==
  ASSUME CoreInv, NEW term \in Term, NEW first \in Source \union {NoSource},
         NEW rest \in SUBSET Source, NEW as \in SUBSET AliasPool,
         UpsertEntity(term, first, rest, as)
  PROVE  CoreInv'
  <1>1. TypeOK'
    BY UpsertEntityType DEF CoreInv
  <1>2. EdgesWellFormed' /\ EdgeProvenance'
    BY UpsertEntityGrows, GrowKeepsEdges DEF CoreInv, UpsertEntity
  <1> QED
    BY <1>1, <1>2 DEF CoreInv

LEMMA UpsertEntityInv ==
  ASSUME IInv, NEW term \in Term, NEW first \in Source \union {NoSource},
         NEW rest \in SUBSET Source, NEW as \in SUBSET AliasPool,
         UpsertEntity(term, first, rest, as)
  PROVE  IInv'
  <1> DEFINE n       == Resolved(aliasOf, caseIndex, term)
             index1  == Registered(aliasOf, caseIndex, term)
             alias2  == PutAll(aliasOf, as, n)
             index2  == PutAll(index1, KeysOf(as), n)
  <1>1. CoreInv'
    BY UpsertEntityCore DEF IInv
  <1>2. NodesGrow /\ as \subseteq NextAliases(n)
    BY UpsertEntityGrows DEF IInv, CoreInv
  <1>4. AliasesLive'
    <2>1. aliasOf' = alias2
      BY DEF UpsertEntity
    <2>2. \A a \in DOMAIN alias2 :
            (a \in as /\ alias2[a] = n) \/ (a \in DOMAIN aliasOf /\ alias2[a] = aliasOf[a])
      BY DEF PutAll
    <2> HIDE DEF n, alias2
    <2> QED
      BY <1>2, <2>1, <2>2, NextInvariants DEF AliasesLive, IInv, NodesGrow
  <1>5. IndexGrows
    <2>1. caseIndex' = Registered(alias2, index2, term)
      BY DEF UpsertEntity
    <2>2. \A k \in DOMAIN index2 :
            \/ k \in KeysOf(as) /\ index2[k] = n
            \/ k \in DOMAIN index1 /\ index2[k] = index1[k]
      BY DEF PutAll
    <2>3. ASSUME NEW k \in DOMAIN caseIndex'
          PROVE  \/ k \in DOMAIN caseIndex /\ caseIndex'[k] = caseIndex[k]
                 \/ k = Lower[caseIndex'[k]]
                 \/ k \in KeysOf(as) /\ caseIndex'[k] = n
      <3>1. \/ k \in DOMAIN index2 /\ caseIndex'[k] = index2[k]
            \/ k = Lower[caseIndex'[k]]
        BY <2>1, <2>3, RegisteredEntries
      <3>2. k \in DOMAIN index1 => \/ k \in DOMAIN caseIndex /\ index1[k] = caseIndex[k]
                                   \/ k = Lower[index1[k]]
        BY RegisteredEntries
      <3> HIDE DEF n, index1, index2
      <3> QED
        BY <3>1, <3>2, <2>2
    <2> HIDE DEF n, index1, index2
    <2> QED
      BY <1>2, <2>3 DEF IndexGrows, KeysOf
  <1> QED
    BY <1>1, <1>2, <1>4, <1>5, GrowKeepsIndexBacked DEF IInv

(* Registering terms adds only backed entries to the case index.           *)
LEMMA RegisteredGrows ==
  ASSUME NEW al, NEW t, caseIndex' = Registered(al, caseIndex, t)
  PROVE  IndexGrows
  <1>1. \A k \in DOMAIN caseIndex' :
          \/ k \in DOMAIN caseIndex /\ caseIndex'[k] = caseIndex[k]
          \/ k = Lower[caseIndex'[k]]
    BY RegisteredEntries
  <1> QED
    BY <1>1 DEF IndexGrows, KeysOf

LEMMA BothGrow ==
  ASSUME NEW s, NEW o, caseIndex' = IndexAfterBoth(s, o)
  PROVE  IndexGrows
  <1> DEFINE index1 == Registered(aliasOf, caseIndex, s)
  <1>1. \A k \in DOMAIN caseIndex' :
          \/ k \in DOMAIN index1 /\ caseIndex'[k] = index1[k]
          \/ k = Lower[caseIndex'[k]]
    BY RegisteredEntries DEF IndexAfterBoth
  <1>2. \A k \in DOMAIN index1 :
          \/ k \in DOMAIN caseIndex /\ index1[k] = caseIndex[k]
          \/ k = Lower[index1[k]]
    BY RegisteredEntries
  <1> HIDE DEF index1
  <1> QED
    BY <1>1, <1>2 DEF IndexGrows, KeysOf

LEMMA AddEdgeCore ==
  ASSUME CoreInv, NEW s \in Term, NEW r \in Relation, NEW o \in Term,
         NEW k \in Source \union {NoSource}, AddEdge(s, r, o, k)
  PROVE  CoreInv' /\ NodesGrow
  <1> DEFINE subj == SubjectOf(s)
             obj  == ObjectOf(s, o)
             edge == [subject |-> subj, predicate |-> r, object |-> obj]
             Credited(n) == [sources |-> SourcesOf(n) \union Credit(k),
                             aliases |-> AliasesOf(n)]
  <1>1. TypeOK'
    BY AddEdgeType DEF CoreInv
  <1>2. /\ subj # obj
        /\ nodes' = Put(Put(nodes, subj, Credited(subj)), obj, Credited(obj))
        /\ edges' = Put(edges, edge, Get(edges, edge, {}) \union Credit(k))
    BY DEF AddEdge
  <1>3. /\ DOMAIN nodes' = DOMAIN nodes \union {subj, obj}
        /\ nodes'[subj] = Credited(subj)
        /\ nodes'[obj] = Credited(obj)
        /\ \A n \in DOMAIN nodes : n \notin {subj, obj} => nodes'[n] = nodes[n]
    <2> HIDE DEF subj, obj, Credited
    <2> QED
      BY <1>2 DEF Put
  <1>4. /\ edge.subject = subj /\ edge.object = obj
        /\ \A e \in DOMAIN edges' :
             \/ e = edge
             \/ e \in DOMAIN edges /\ e # edge /\ edges'[e] = edges[e]
        /\ edges'[edge] = Get(edges, edge, {}) \union Credit(k)
    <2>1. edge.subject = subj /\ edge.object = obj
      OBVIOUS
    <2> HIDE DEF edge
    <2> QED
      BY <1>2, <2>1 DEF Put
  <1>5. NodesGrow /\ \A n \in {subj, obj} : Credit(k) \subseteq NextSources(n)
    <2> HIDE DEF subj, obj
    <2> QED
      BY <1>3 DEF NodesGrow, SourcesOf, AliasesOf, NextSources, NextAliases
  <1>6. Get(edges, edge, {}) \subseteq SourcesOf(subj) \intersect SourcesOf(obj)
    <2> HIDE DEF edge, subj, obj
    <2> QED
      BY <1>4 DEF Get, CoreInv, EdgeProvenance
  <1>7. EdgesWellFormed' /\ EdgeProvenance'
    <2> HIDE DEF edge, subj, obj
    <2>1. ASSUME NEW e \in DOMAIN edges'
          PROVE  /\ e.subject # e.object
                 /\ {e.subject, e.object} \subseteq DOMAIN nodes'
                 /\ edges'[e] \subseteq NextSources(e.subject) \intersect NextSources(e.object)
      <3>1. CASE e = edge
        BY <3>1, <1>2, <1>3, <1>4, <1>5, <1>6 DEF NodesGrow
      <3>2. CASE e \in DOMAIN edges /\ edges'[e] = edges[e]
        BY <3>2, <1>5 DEF CoreInv, EdgesWellFormed, EdgeProvenance, NodesGrow
      <3> QED
        BY <3>1, <3>2, <1>4
    <2> QED
      BY <2>1, NextInvariants
  <1> QED
    BY <1>1, <1>5, <1>7 DEF CoreInv

LEMMA AddEdgeInv ==
  ASSUME IInv, NEW s \in Term, NEW r \in Relation, NEW o \in Term,
         NEW k \in Source \union {NoSource}, AddEdge(s, r, o, k)
  PROVE  IInv'
  <1>1. CoreInv' /\ NodesGrow
    BY AddEdgeCore DEF IInv
  <1>2. AliasesLive'
    BY <1>1, NextInvariants DEF IInv, AliasesLive, NodesGrow, AddEdge
  <1>3. IndexGrows
    BY BothGrow DEF AddEdge
  <1> QED
    BY <1>1, <1>2, <1>3, GrowKeepsIndexBacked DEF IInv

(* The steps that only register forms in the case index.                   *)
LEMMA RegisteringCore ==
  ASSUME CoreInv, UNCHANGED <<nodes, edges, aliasOf>>, IsIndex(caseIndex', Key)
  PROVE  CoreInv' /\ NodesGrow
  <1>1. NodesGrow
    BY DEF NodesGrow, SourcesOf, AliasesOf, NextSources, NextAliases
  <1>2. TypeOK'
    BY TypeParts, TypePartsNext DEF CoreInv
  <1> QED
    BY <1>1, <1>2, GrowKeepsEdges DEF CoreInv

LEMMA RegisteringInv ==
  ASSUME IInv, UNCHANGED <<nodes, edges, aliasOf>>, IndexGrows,
         IsIndex(caseIndex', Key)
  PROVE  IInv'
  <1>1. CoreInv' /\ NodesGrow
    BY RegisteringCore DEF IInv
  <1>2. AliasesLive'
    BY <1>1, NextInvariants DEF IInv, AliasesLive, NodesGrow
  <1> QED
    BY <1>1, <1>2, GrowKeepsIndexBacked DEF IInv

LEMMA RemovedNodes ==
  ASSUME NEW k \in Source, RemoveBySource(k)
  PROVE  /\ DOMAIN nodes' = DOMAIN nodes \ Doomed(k)
         /\ \A n : n \notin Doomed(k) => /\ NextSources(n) = SourcesOf(n) \ {k}
                                         /\ NextAliases(n) = AliasesOf(n)
  <1>1. /\ DOMAIN nodes' = DOMAIN nodes \ Doomed(k)
        /\ \A n \in DOMAIN nodes' : /\ nodes'[n].sources = nodes[n].sources \ {k}
                                    /\ nodes'[n].aliases = nodes[n].aliases
    BY DEF RemoveBySource
  <1> QED
    BY <1>1 DEF NextSources, NextAliases, SourcesOf, AliasesOf

LEMMA RemoveBySourceCore ==
  ASSUME CoreInv, NEW k \in Source, RemoveBySource(k)
  PROVE  CoreInv'
  <1>1. TypeOK'
    BY RemoveBySourceType DEF CoreInv
  <1>2. \A e \in DOMAIN edges' : /\ e \in DOMAIN edges /\ edges'[e] = edges[e]
                                 /\ k \notin edges[e]
                                 /\ e.subject \notin Doomed(k)
                                 /\ e.object \notin Doomed(k)
    BY DEF RemoveBySource, Restrict
  <1>3. ASSUME NEW e \in DOMAIN edges'
        PROVE  /\ e.subject # e.object
               /\ {e.subject, e.object} \subseteq DOMAIN nodes'
               /\ edges'[e] \subseteq NextSources(e.subject) \intersect NextSources(e.object)
    <2>1. /\ e.subject # e.object
          /\ e.subject \in DOMAIN nodes /\ e.object \in DOMAIN nodes
          /\ edges'[e] \subseteq SourcesOf(e.subject) \ {k}
          /\ edges'[e] \subseteq SourcesOf(e.object) \ {k}
      BY <1>2 DEF CoreInv, EdgesWellFormed, EdgeProvenance
    <2>2. /\ DOMAIN nodes' = DOMAIN nodes \ Doomed(k)
          /\ NextSources(e.subject) = SourcesOf(e.subject) \ {k}
          /\ NextSources(e.object) = SourcesOf(e.object) \ {k}
      BY <1>2, RemovedNodes
    <2> QED
      BY <1>2, <2>1, <2>2
  <1>4. EdgesWellFormed' /\ EdgeProvenance'
    BY <1>3, NextInvariants
  <1> QED
    BY <1>1, <1>4 DEF CoreInv

LEMMA RemoveBySourceInv ==
  ASSUME IInv, NEW k \in Source, RemoveBySource(k)
  PROVE  IInv'
  <1>1. CoreInv'
    BY RemoveBySourceCore DEF IInv
  <1>2. \A a \in DOMAIN aliasOf' : /\ a \in DOMAIN aliasOf /\ aliasOf'[a] = aliasOf[a]
                                   /\ aliasOf[a] \notin Doomed(k)
    BY DEF RemoveBySource, WithoutNodes, DropValues, Restrict
  <1>3. \A x \in DOMAIN caseIndex' : /\ x \in DOMAIN caseIndex
                                     /\ caseIndex'[x] = caseIndex[x]
                                     /\ caseIndex[x] \notin Doomed(k)
    BY DEF RemoveBySource, WithoutNodes, DropValues, Restrict
  <1>4. \A n : n \notin Doomed(k) => NextAliases(n) = AliasesOf(n)
    BY RemovedNodes
  <1>5. \A a \in DOMAIN aliasOf' : a \in NextAliases(aliasOf'[a])
    BY <1>2, <1>4 DEF IInv, AliasesLive
  <1>6. \A x \in DOMAIN caseIndex' :
          x \in KeysOf({caseIndex'[x]} \union NextAliases(caseIndex'[x]))
    BY <1>3, <1>4 DEF IInv, IndexBacked
  <1> QED
    BY <1>1, <1>5, <1>6, NextInvariants DEF IInv

LEMMA MergedNodes ==
  ASSUME NEW can \in Name, NEW dup \in Name, MergeEntities(can, dup)
  PROVE  /\ can # dup /\ can \in DOMAIN nodes /\ dup \in DOMAIN nodes
         /\ DOMAIN nodes' = DOMAIN nodes \ {dup}
         /\ \A n : n # dup => /\ SourcesOf(n) \subseteq NextSources(n)
                              /\ AliasesOf(n) \subseteq NextAliases(n)
         /\ \A n : n \notin {can, dup} => NextAliases(n) = AliasesOf(n)
         /\ SourcesOf(dup) \subseteq NextSources(can)
         /\ NextAliases(can) = AliasesOf(can) \union Inherited(dup)
         /\ Inherited(dup) = {dup} \union AliasesOf(dup)
  <1>1. /\ can # dup /\ can \in DOMAIN nodes /\ dup \in DOMAIN nodes
        /\ DOMAIN nodes' = DOMAIN nodes \ {dup}
        /\ nodes'[can] = MergedRecord(can, dup)
        /\ \A n \in DOMAIN nodes' : n # can => nodes'[n] = nodes[n]
    BY DEF MergeEntities
  <1> QED
    BY <1>1 DEF SourcesOf, AliasesOf, NextSources, NextAliases, MergedRecord, Inherited

LEMMA MergeEntitiesCore ==
  ASSUME CoreInv, NEW can \in Name, NEW dup \in Name, MergeEntities(can, dup)
  PROVE  CoreInv'
  <1>1. edges' = MergedEdges(can, dup)
    BY DEF MergeEntities
  <1>2. TypeOK'
    BY MergeEntitiesType DEF CoreInv
  <1>3. can \in DOMAIN nodes' /\ \A n \in DOMAIN nodes : n # dup => n \in DOMAIN nodes'
    BY MergedNodes
  <1>4. ASSUME NEW e \in DOMAIN edges'
        PROVE  /\ e.subject # e.object
               /\ {e.subject, e.object} \subseteq DOMAIN nodes'
               /\ edges'[e] \subseteq NextSources(e.subject) \intersect NextSources(e.object)
    <2>1. PICK x \in DOMAIN edges : /\ e = Rename(x, dup, can)
                                    /\ e.subject # e.object
                                    /\ edges'[e] = edges[x]
      <3>1. can \in DOMAIN nodes /\ dup \in DOMAIN nodes /\ can # dup
        BY MergedNodes
      <3> QED
        BY <1>1, <3>1, MergedEdgesOrigin DEF CoreInv
    <2>2. /\ x.subject \in DOMAIN nodes /\ x.object \in DOMAIN nodes
          /\ edges[x] \subseteq SourcesOf(x.subject) \intersect SourcesOf(x.object)
      BY DEF CoreInv, EdgesWellFormed, EdgeProvenance
    <2>3. /\ e.subject = IF x.subject = dup THEN can ELSE x.subject
          /\ e.object = IF x.object = dup THEN can ELSE x.object
      BY <2>1 DEF Rename
    <2>4. /\ \A n : n # dup => SourcesOf(n) \subseteq NextSources(n)
          /\ SourcesOf(dup) \subseteq NextSources(can)
      BY MergedNodes
    <2> QED
      BY <1>3, <2>1, <2>2, <2>3, <2>4
  <1>5. EdgesWellFormed' /\ EdgeProvenance'
    BY <1>4, NextInvariants
  <1> QED
    BY <1>2, <1>5 DEF CoreInv

LEMMA MergeEntitiesInv ==
  ASSUME IInv, NEW can \in Name, NEW dup \in Name, MergeEntities(can, dup)
  PROVE  IInv'
  <1>1. /\ aliasOf' = PutAll(aliasOf, Inherited(dup), can)
        /\ caseIndex' = PutAll(caseIndex, KeysOf(Inherited(dup)), can)
    BY DEF MergeEntities
  <1>2. CoreInv'
    BY MergeEntitiesCore DEF IInv
  <1>3. /\ \A n : n # dup => AliasesOf(n) \subseteq NextAliases(n)
        /\ Inherited(dup) \subseteq NextAliases(can)
        /\ Inherited(dup) = {dup} \union AliasesOf(dup)
    BY MergedNodes
  <1>6. AliasesLive'
    <2>1. ASSUME NEW a \in DOMAIN aliasOf' PROVE a \in NextAliases(aliasOf'[a])
      <3>1. CASE a \in Inherited(dup)
        BY <1>1, <1>3, <3>1 DEF PutAll
      <3>2. CASE a \notin Inherited(dup)
        <4>1. a \in DOMAIN aliasOf /\ aliasOf'[a] = aliasOf[a]
          BY <1>1, <3>2 DEF PutAll
        <4>2. a \in AliasesOf(aliasOf[a])
          BY <4>1 DEF IInv, AliasesLive
        <4> QED
          BY <1>3, <3>2, <4>1, <4>2
      <3> QED
        BY <3>1, <3>2
    <2> QED
      BY <2>1, NextInvariants
  <1>7. IndexBacked'
    <2>1. ASSUME NEW k \in DOMAIN caseIndex'
          PROVE  k \in KeysOf({caseIndex'[k]} \union NextAliases(caseIndex'[k]))
      <3>1. CASE k \in KeysOf(Inherited(dup))
        BY <1>1, <1>3, <3>1 DEF PutAll, KeysOf
      <3>2. CASE k \notin KeysOf(Inherited(dup))
        <4>1. k \in DOMAIN caseIndex /\ caseIndex'[k] = caseIndex[k]
          BY <1>1, <3>2 DEF PutAll
        <4>2. k \in KeysOf({caseIndex[k]} \union AliasesOf(caseIndex[k]))
          BY <4>1 DEF IInv, IndexBacked
        <4> QED
          BY <1>3, <3>2, <4>1, <4>2 DEF KeysOf
      <3> QED
        BY <3>1, <3>2
    <2> QED
      BY <2>1, NextInvariants
  <1> QED
    BY <1>2, <1>6, <1>7 DEF IInv

(* One entity merged with itself takes its edges along.                    *)
LEMMA MergeWithItselfCore ==
  ASSUME CoreInv, NEW n \in Name, MergeWithItself(n)
  PROVE  CoreInv'
  <1>1. n \in DOMAIN nodes
    BY DEF MergeWithItself, ListedTwice, GetEntity
  <1>2. /\ DOMAIN nodes' = DOMAIN nodes \ {n}
        /\ \A m \in DOMAIN nodes' : nodes'[m] = nodes[m]
    BY DEF MergeWithItself, Restrict
  <1>3. \A e \in DOMAIN edges' : /\ e \in DOMAIN edges /\ edges'[e] = edges[e]
                                 /\ n \notin {e.subject, e.object}
    BY DEF MergeWithItself, Restrict
  <1>4. TypeOK'
    <2>1. IsTable(nodes') /\ IsEdgeSet(edges')
      BY <1>2, <1>3, TypeParts DEF CoreInv, IsTable, IsEdgeSet, MergeWithItself, Restrict
    <2>2. Inherited(n) \in SUBSET Name
      BY <1>1 DEF CoreInv, TypeOK, Inherited, NodeRecord
    <2>3. IsIndex(aliasOf', Name) /\ IsIndex(caseIndex', Key)
      BY <2>2, TypeParts, PutAllIndex, KeysOfType DEF CoreInv, MergeWithItself
    <2> QED
      BY <2>1, <2>3, TypePartsNext
  <1>5. \A m : m # n => NextSources(m) = SourcesOf(m)
    BY <1>2 DEF NextSources, SourcesOf
  <1>6. EdgesWellFormed' /\ EdgeProvenance'
    BY <1>2, <1>3, <1>5, NextInvariants DEF CoreInv, EdgesWellFormed, EdgeProvenance
  <1> QED
    BY <1>4, <1>6 DEF CoreInv

LEMMA SaveAndLoadCore ==
  ASSUME CoreInv, SaveAndLoad
  PROVE  CoreInv'
  <1>1. TypeOK'
    BY SaveAndLoadType DEF CoreInv
  <1>2. EdgesWellFormed' /\ EdgeProvenance'
    BY DEF SaveAndLoad, CoreInv, EdgesWellFormed, EdgeProvenance, SourcesOf
  <1> QED
    BY <1>1, <1>2 DEF CoreInv

LEMMA SaveAndLoadInv ==
  ASSUME IInv, SaveAndLoad
  PROVE  IInv'
  <1> DEFINE listed == UNION {nodes[n].aliases : n \in DOMAIN nodes}
             keys   == KeysOf(DOMAIN nodes \union listed)
  <1>1. CoreInv'
    BY SaveAndLoadCore DEF IInv
  <1>2. UNCHANGED <<nodes, edges>>
    BY DEF SaveAndLoad
  <1>3. /\ aliasOf' \in [listed -> DOMAIN nodes]
        /\ \A a \in listed : a \in nodes[aliasOf'[a]].aliases
    BY DEF SaveAndLoad
  <1>4. /\ caseIndex' \in [keys -> DOMAIN nodes]
        /\ \A k \in keys : k \in KeysOf({caseIndex'[k]} \union nodes[caseIndex'[k]].aliases)
    BY DEF SaveAndLoad
  <1> HIDE DEF listed, keys
  <1>5. AliasesLive'
    BY <1>2, <1>3, NextInvariants DEF NextAliases
  <1>6. IndexBacked'
    BY <1>2, <1>4, NextInvariants DEF NextAliases
  <1> QED
    BY <1>1, <1>5, <1>6 DEF IInv

LEMMA InitInv == Init => IInv
  BY DEF Init, IInv, CoreInv, TypeOK, EdgesWellFormed, EdgeProvenance,
         AliasesLive, IndexBacked, EmptyMap

(* The index steps: what Next does besides changing nodes.                 *)
LEMMA RegisteringSteps ==
  /\ \A s, o \in Term : DropSelfEdge(s, o) /\ TypeOK =>
       /\ UNCHANGED <<nodes, edges, aliasOf>>
       /\ IndexGrows /\ IsIndex(caseIndex', Key)
  /\ \A t \in Term : Lookup(t) /\ TypeOK =>
       /\ UNCHANGED <<nodes, edges, aliasOf>>
       /\ IndexGrows /\ IsIndex(caseIndex', Key)
  <1>1. ASSUME NEW s \in Term, NEW o \in Term, DropSelfEdge(s, o), TypeOK
        PROVE  IndexGrows /\ IsIndex(caseIndex', Key)
    BY <1>1, BothGrow, EndsType DEF DropSelfEdge
  <1>2. ASSUME NEW t \in Term, Lookup(t), TypeOK
        PROVE  IndexGrows /\ IsIndex(caseIndex', Key)
    BY <1>2, RegisteredGrows, RegisteredType, TypeParts, TermAssumption DEF Lookup
  <1> QED
    BY <1>1, <1>2 DEF DropSelfEdge, Lookup

LEMMA CoreNext == CoreInv /\ [Next]_vars => CoreInv'
  <1> SUFFICES ASSUME CoreInv, [Next]_vars PROVE CoreInv'
    OBVIOUS
  <1>1. ASSUME NEW t \in Term, NEW first \in Source \union {NoSource},
               NEW as \in SUBSET AliasPool,
               NEW rest \in SUBSET (IF first = NoSource THEN {} ELSE Source \ {first}),
               UpsertEntity(t, first, rest, as)
        PROVE  CoreInv'
    <2>1. rest \in SUBSET Source
      OBVIOUS
    <2> QED
      BY <1>1, <2>1, UpsertEntityCore
  <1>2. ASSUME NEW s \in Term, NEW o \in Term, NEW r \in Relation,
               NEW k \in Source \union {NoSource}, AddEdge(s, r, o, k)
        PROVE  CoreInv'
    BY <1>2, AddEdgeCore
  <1>3. CASE \/ \E s, o \in Term : DropSelfEdge(s, o)
             \/ \E t \in Term : Lookup(t)
    BY <1>3, RegisteringSteps, RegisteringCore DEF CoreInv
  <1>4. ASSUME NEW k \in Source, RemoveBySource(k)
        PROVE  CoreInv'
    BY <1>4, RemoveBySourceCore
  <1>5. ASSUME NEW can \in Name, NEW dup \in Name, MergeEntities(can, dup)
        PROVE  CoreInv'
    BY <1>5, MergeEntitiesCore
  <1>6. ASSUME NEW n \in Name, MergeWithItself(n)
        PROVE  CoreInv'
    BY <1>6, MergeWithItselfCore
  <1>7. CASE SaveAndLoad
    BY <1>7, SaveAndLoadCore
  <1>8. CASE UNCHANGED vars
    BY <1>8 DEF vars, CoreInv, TypeOK, EdgesWellFormed, EdgeProvenance, SourcesOf
  <1> QED
    BY <1>1, <1>2, <1>3, <1>4, <1>5, <1>6, <1>7, <1>8 DEF Next

LEMMA NextInv ==
  ASSUME IInv, [Next]_vars, \A n \in Name : ~ MergeWithItself(n)
  PROVE  IInv'
  <1>1. ASSUME NEW t \in Term, NEW first \in Source \union {NoSource},
               NEW as \in SUBSET AliasPool,
               NEW rest \in SUBSET (IF first = NoSource THEN {} ELSE Source \ {first}),
               UpsertEntity(t, first, rest, as)
        PROVE  IInv'
    <2>1. rest \in SUBSET Source
      OBVIOUS
    <2> QED
      BY <1>1, <2>1, UpsertEntityInv
  <1>2. ASSUME NEW s \in Term, NEW o \in Term, NEW r \in Relation,
               NEW k \in Source \union {NoSource}, AddEdge(s, r, o, k)
        PROVE  IInv'
    BY <1>2, AddEdgeInv
  <1>3. CASE \/ \E s, o \in Term : DropSelfEdge(s, o)
             \/ \E t \in Term : Lookup(t)
    BY <1>3, RegisteringSteps, RegisteringInv DEF IInv, CoreInv
  <1>4. ASSUME NEW k \in Source, RemoveBySource(k)
        PROVE  IInv'
    BY <1>4, RemoveBySourceInv
  <1>5. ASSUME NEW can \in Name, NEW dup \in Name, MergeEntities(can, dup)
        PROVE  IInv'
    BY <1>5, MergeEntitiesInv
  <1>6. CASE SaveAndLoad
    BY <1>6, SaveAndLoadInv
  <1>7. CASE UNCHANGED vars
    <2>1. CoreInv'
      BY CoreNext DEF IInv
    <2> QED
      BY <1>7, <2>1 DEF vars, IInv, AliasesLive, IndexBacked, AliasesOf, KeysOf
  <1> QED
    BY <1>1, <1>2, <1>3, <1>4, <1>5, <1>6, <1>7 DEF Next

-----------------------------------------------------------------------------
(* When aliases are kept apart from names, every node owns its keys: the   *)
(* case index maps the key of its name, and of every alias that is also a  *)
(* key of some term (the name of an absorbed node), to that node.          *)

Bears(n, k) == k \in KeysOf({n} \union AliasesOf(n))

Owns(D, ci) ==
  \A m \in D : \A k \in KeysOf(Term) :
    Bears(m, k) => k \in DOMAIN ci /\ ci[k] = m

(* What holds of an index under which the nodes of D are known.            *)
Owned(D, ci) ==
  /\ \A m \in D : Lower[m] \in KeysOf(Term)
  /\ \A k \in DOMAIN ci : Lower[ci[k]] \in KeysOf(Term) /\ Bears(ci[k], k)
  /\ Owns(D, ci)

NamesOwned == Owned(DOMAIN nodes, caseIndex)

LEMMA ExpandedKey ==
  ASSUME AliasesLive, NamesOwned, NEW t \in Term
  PROVE  Lower[Expanded(aliasOf, t)] \in KeysOf(Term)
  BY DEF AliasesLive, AliasesOf, NamesOwned, Owned, Expanded, Get, KeysOf

(* Resolving a term makes its answer known under the index it leaves.      *)
LEMMA RegisteredOwned ==
  ASSUME AliasesLive, NamesOwned, NEW t \in Term,
         NEW D, DOMAIN nodes \subseteq D, NEW ci, Owned(D, ci)
  PROVE  Owned(D \union {Resolved(aliasOf, ci, t)}, Registered(aliasOf, ci, t))
  <1> DEFINE form == Expanded(aliasOf, t)
             n    == Resolved(aliasOf, ci, t)
             new  == Registered(aliasOf, ci, t)
  <1>1. Lower[form] \in KeysOf(Term)
    BY ExpandedKey
  <1>2. \/ Lower[form] \in DOMAIN ci /\ n = ci[Lower[form]]
        \/ Lower[form] \notin DOMAIN ci /\ n = form
    BY DEF Resolved, Get
  <1>3. /\ DOMAIN new = DOMAIN ci \union {Lower[form]}
        /\ new[Lower[form]] = n
        /\ \A k \in DOMAIN ci : new[k] = ci[k]
    <2>1. new = Put(ci, Lower[form], n)
      BY DEF Registered
    <2> HIDE DEF new, form, n
    <2> QED
      BY <1>2, <2>1 DEF Put
  <1> HIDE DEF form, n, new
  <1>4. Lower[n] \in KeysOf(Term) /\ Bears(n, Lower[form])
    BY <1>1, <1>2 DEF Owned, Bears, KeysOf
  <1>5. Owns(D, new)
    BY <1>3 DEF Owned, Owns
  <1>6. n \notin D => Owns({n}, new)
    <2>1. n \notin D => AliasesOf(n) = {}
      BY DEF AliasesOf
    <2>2. n \notin D => \A k : Bears(n, k) => k = Lower[form]
      BY <2>1, <1>4 DEF Bears, KeysOf
    <2> QED
      BY <2>2, <1>3 DEF Owns
  <1>7. Owns(D \union {n}, new)
    BY <1>5, <1>6 DEF Owns
  <1>8. \A k \in DOMAIN new : Lower[new[k]] \in KeysOf(Term) /\ Bears(new[k], k)
    BY <1>3, <1>4 DEF Owned
  <1> QED
    BY <1>4, <1>7, <1>8 DEF Owned, n, new

(* The same of the next state, spelt with its nodes.                       *)
LEMMA NextNamesOwned ==
  NamesOwned' <=>
    /\ \A m \in DOMAIN nodes' : Lower[m] \in KeysOf(Term)
    /\ \A k \in DOMAIN caseIndex' :
         /\ Lower[caseIndex'[k]] \in KeysOf(Term)
         /\ k \in KeysOf({caseIndex'[k]} \union NextAliases(caseIndex'[k]))
    /\ \A m \in DOMAIN nodes' : \A k \in KeysOf(Term) :
         k \in KeysOf({m} \union NextAliases(m)) =>
           k \in DOMAIN caseIndex' /\ caseIndex'[k] = m
  BY DEF NamesOwned, Owned, Owns, Bears, NextAliases, AliasesOf

(* A step that changes no aliases and whose nodes were known.              *)
LEMMA OwnedStep ==
  ASSUME \A n : NextAliases(n) = AliasesOf(n),
         NEW D, DOMAIN nodes' \subseteq D, Owned(D, caseIndex')
  PROVE  NamesOwned'
  BY NextNamesOwned DEF Owned, Owns, Bears

LEMMA UpsertEntityOwned ==
  ASSUME Separate, IInv, NamesOwned,
         NEW term \in Term, NEW first \in Source \union {NoSource},
         NEW rest \in SUBSET Source, NEW as \in SUBSET AliasPool,
         UpsertEntity(term, first, rest, as)
  PROVE  NamesOwned' /\ \A m : AliasesOf(m) \subseteq NextAliases(m)
  <1> DEFINE form    == Expanded(aliasOf, term)
             n       == Resolved(aliasOf, caseIndex, term)
             index1  == Registered(aliasOf, caseIndex, term)
             alias2  == PutAll(aliasOf, as, n)
             index2  == PutAll(index1, KeysOf(as), n)
             nodes2  == Put(nodes, n, [sources |-> SourcesOf(n) \union Credit(first),
                                       aliases |-> AliasesOf(n) \union as])
             again   == Resolved(alias2, index2, term)
  <1>1. Owned(DOMAIN nodes \union {n}, index1)
    BY RegisteredOwned DEF IInv, NamesOwned
  <1>2. \A k \in KeysOf(Term) : k \notin KeysOf(as)
    BY DEF Separate, KeysOf
  <1>3. Lower[form] \in KeysOf(Term)
    BY ExpandedKey DEF IInv
  <1>4. Expanded(alias2, term) = form
    BY <1>2 DEF Expanded, Get, PutAll, KeysOf
  <1>5. Lower[form] \in DOMAIN index1 /\ index1[Lower[form]] = n
    BY DEF Registered, Put
  <1>6. /\ DOMAIN index2 = DOMAIN index1 \union KeysOf(as)
        /\ \A k \in KeysOf(as) : index2[k] = n
        /\ \A k \in DOMAIN index1 : k \notin KeysOf(as) => index2[k] = index1[k]
    <2> HIDE DEF index1, n
    <2> QED
      BY DEF PutAll
  <1>7. caseIndex' = Put(index2, Lower[form], again) /\ again = n
    <2>1. Lower[form] \in DOMAIN index2 /\ index2[Lower[form]] = n
      <3> HIDE DEF index1, index2, form, n
      <3> QED
        BY <1>2, <1>3, <1>5, <1>6
    <2>2. again = n
      <3> HIDE DEF alias2, index2, form, n
      <3> QED
        BY <1>4, <2>1 DEF Resolved, Get
    <2>3. caseIndex' = Registered(alias2, index2, term)
      BY DEF UpsertEntity
    <2> HIDE DEF alias2, index2, form, n, again
    <2> QED
      BY <1>4, <2>2, <2>3 DEF Registered, again
  <1>8. /\ DOMAIN nodes' = DOMAIN nodes \union {n}
        /\ NextAliases(n) = AliasesOf(n) \union as
        /\ \A m : m # n => NextAliases(m) = AliasesOf(m)
    <2>1. nodes' = IF again \in DOMAIN nodes2
                   THEN Put(nodes2, again,
                            [sources |-> nodes2[again].sources \union rest,
                             aliases |-> nodes2[again].aliases])
                   ELSE nodes2
      BY DEF UpsertEntity
    <2>2. /\ DOMAIN nodes2 = DOMAIN nodes \union {n}
          /\ nodes2[n].aliases = AliasesOf(n) \union as
          /\ \A m \in DOMAIN nodes : m # n => nodes2[m] = nodes[m]
      BY DEF Put
    <2> HIDE DEF nodes2, again, n
    <2> QED
      BY <2>1, <2>2 DEF Put, NextAliases, AliasesOf
  <1> HIDE DEF form, n, index1, alias2, index2, nodes2, again
  <1>9. /\ DOMAIN caseIndex' = DOMAIN index1 \union KeysOf(as)
        /\ \A k \in KeysOf(as) : caseIndex'[k] = n
        /\ \A k \in DOMAIN index1 : k \notin KeysOf(as) => caseIndex'[k] = index1[k]
    BY <1>2, <1>3, <1>5, <1>6, <1>7 DEF Put
  <1>10. \A m \in DOMAIN nodes' : Lower[m] \in KeysOf(Term)
    BY <1>1, <1>8 DEF Owned
  <1>11. ASSUME NEW k \in DOMAIN caseIndex'
         PROVE  /\ Lower[caseIndex'[k]] \in KeysOf(Term)
                /\ k \in KeysOf({caseIndex'[k]} \union NextAliases(caseIndex'[k]))
    <2>1. CASE k \in KeysOf(as)
      BY <1>1, <1>8, <1>9, <2>1 DEF Owned, KeysOf
    <2>2. CASE k \notin KeysOf(as)
      <3>1. k \in DOMAIN index1 /\ caseIndex'[k] = index1[k]
        BY <1>9, <2>2
      <3>2. Lower[index1[k]] \in KeysOf(Term) /\ Bears(index1[k], k)
        BY <1>1, <3>1 DEF Owned
      <3> QED
        BY <1>8, <3>1, <3>2 DEF Bears, KeysOf
    <2> QED
      BY <2>1, <2>2
  <1>12. ASSUME NEW m \in DOMAIN nodes', NEW k \in KeysOf(Term),
                k \in KeysOf({m} \union NextAliases(m))
         PROVE  k \in DOMAIN caseIndex' /\ caseIndex'[k] = m
    <2>1. Bears(m, k)
      BY <1>2, <1>8, <1>12 DEF Bears, KeysOf
    <2> QED
      BY <1>1, <1>2, <1>8, <1>9, <2>1 DEF Owned, Owns
  <1> QED
    BY <1>8, <1>10, <1>11, <1>12, NextNamesOwned

LEMMA EdgeStepsOwned ==
  ASSUME IInv, NamesOwned, NEW s \in Term, NEW o \in Term,
         caseIndex' = IndexAfterBoth(s, o)
  PROVE  Owned(DOMAIN nodes \union {SubjectOf(s), ObjectOf(s, o)}, caseIndex')
  <1> DEFINE subj   == SubjectOf(s)
             index1 == Registered(aliasOf, caseIndex, s)
             D1     == DOMAIN nodes \union {subj}
  <1>1. Owned(D1, index1)
    BY RegisteredOwned DEF IInv, NamesOwned, SubjectOf
  <1>2. Owned(D1 \union {Resolved(aliasOf, index1, o)}, Registered(aliasOf, index1, o))
    <2> HIDE DEF index1, subj
    <2> QED
      BY <1>1, RegisteredOwned DEF IInv
  <1>3. D1 \union {ObjectOf(s, o)} = DOMAIN nodes \union {SubjectOf(s), ObjectOf(s, o)}
    OBVIOUS
  <1> QED
    BY <1>2, <1>3 DEF ObjectOf, IndexAfterBoth

LEMMA AddEdgeOwned ==
  ASSUME IInv, NamesOwned, NEW s \in Term, NEW r \in Relation, NEW o \in Term,
         NEW k \in Source \union {NoSource}, AddEdge(s, r, o, k)
  PROVE  NamesOwned' /\ \A m : AliasesOf(m) \subseteq NextAliases(m)
  <1> DEFINE subj == SubjectOf(s)
             obj  == ObjectOf(s, o)
             Credited(n) == [sources |-> SourcesOf(n) \union Credit(k),
                             aliases |-> AliasesOf(n)]
  <1>1. nodes' = Put(Put(nodes, subj, Credited(subj)), obj, Credited(obj))
    BY DEF AddEdge
  <1>2. /\ DOMAIN nodes' = DOMAIN nodes \union {subj, obj}
        /\ \A n \in {subj, obj} : nodes'[n].aliases = AliasesOf(n)
        /\ \A n \in DOMAIN nodes : n \notin {subj, obj} => nodes'[n] = nodes[n]
    <2>1. \A n : Credited(n).aliases = AliasesOf(n)
      OBVIOUS
    <2> HIDE DEF subj, obj, Credited
    <2> QED
      BY <1>1, <2>1 DEF Put
  <1>3. \A n : NextAliases(n) = AliasesOf(n)
    <2> HIDE DEF subj, obj
    <2> QED
      BY <1>2 DEF NextAliases, AliasesOf
  <1>4. Owned(DOMAIN nodes \union {subj, obj}, caseIndex')
    BY EdgeStepsOwned DEF AddEdge
  <1> HIDE DEF subj, obj
  <1> QED
    BY <1>2, <1>3, <1>4, OwnedStep

LEMMA RegisteringOwned ==
  ASSUME IInv, NamesOwned, UNCHANGED nodes,
         \/ \E s, o \in Term : caseIndex' = IndexAfterBoth(s, o)
         \/ \E t \in Term : caseIndex' = Registered(aliasOf, caseIndex, t)
  PROVE  NamesOwned' /\ \A m : AliasesOf(m) \subseteq NextAliases(m)
  <1>1. \A n : NextAliases(n) = AliasesOf(n)
    BY DEF NextAliases, AliasesOf
  <1>2. \E D : DOMAIN nodes \subseteq D /\ Owned(D, caseIndex')
    <2>1. ASSUME NEW s \in Term, NEW o \in Term, caseIndex' = IndexAfterBoth(s, o)
          PROVE  Owned(DOMAIN nodes \union {SubjectOf(s), ObjectOf(s, o)}, caseIndex')
      BY <2>1, EdgeStepsOwned
    <2>2. ASSUME NEW t \in Term, caseIndex' = Registered(aliasOf, caseIndex, t)
          PROVE  Owned(DOMAIN nodes \union {Resolved(aliasOf, caseIndex, t)}, caseIndex')
      BY <2>2, RegisteredOwned DEF IInv, NamesOwned
    <2>3. \A S : DOMAIN nodes \subseteq DOMAIN nodes \union S
      OBVIOUS
    <2> QED
      BY <2>1, <2>2, <2>3
  <1> QED
    BY <1>1, <1>2, OwnedStep

LEMMA RemoveBySourceOwned ==
  ASSUME IInv, NamesOwned, NEW k \in Source, RemoveBySource(k)
  PROVE  NamesOwned' /\ \A m \in DOMAIN nodes' : AliasesOf(m) \subseteq NextAliases(m)
  <1>1. /\ \A x \in DOMAIN caseIndex' : /\ x \in DOMAIN caseIndex
                                        /\ caseIndex'[x] = caseIndex[x]
                                        /\ caseIndex[x] \notin Doomed(k)
        /\ \A x \in DOMAIN caseIndex : caseIndex[x] \notin Doomed(k) => x \in DOMAIN caseIndex'
    BY DEF RemoveBySource, WithoutNodes, DropValues, Restrict
  <1>2. /\ DOMAIN nodes' = DOMAIN nodes \ Doomed(k)
        /\ \A n : n \notin Doomed(k) => NextAliases(n) = AliasesOf(n)
    BY RemovedNodes
  <1>3. /\ \A m \in DOMAIN nodes' : Lower[m] \in KeysOf(Term)
        /\ \A x \in DOMAIN caseIndex' :
             /\ Lower[caseIndex'[x]] \in KeysOf(Term)
             /\ x \in KeysOf({caseIndex'[x]} \union NextAliases(caseIndex'[x]))
    BY <1>1, <1>2 DEF NamesOwned, Owned, Bears
  <1>4. ASSUME NEW m \in DOMAIN nodes', NEW x \in KeysOf(Term),
               x \in KeysOf({m} \union NextAliases(m))
        PROVE  x \in DOMAIN caseIndex' /\ caseIndex'[x] = m
    <2>1. x \in DOMAIN caseIndex /\ caseIndex[x] = m
      BY <1>2, <1>4 DEF NamesOwned, Owned, Owns, Bears
    <2> QED
      BY <1>1, <1>2, <2>1
  <1> QED
    BY <1>2, <1>3, <1>4, NextNamesOwned

LEMMA MergeEntitiesOwned ==
  ASSUME IInv, NamesOwned, NEW can \in Name, NEW dup \in Name, MergeEntities(can, dup)
  PROVE  NamesOwned' /\ \A m \in DOMAIN nodes' : AliasesOf(m) \subseteq NextAliases(m)
  <1> DEFINE taken == KeysOf(Inherited(dup))
  <1>1. caseIndex' = PutAll(caseIndex, taken, can)
    BY DEF MergeEntities
  <1>2. /\ DOMAIN caseIndex' = DOMAIN caseIndex \union taken
        /\ \A k \in taken : caseIndex'[k] = can
        /\ \A k \in DOMAIN caseIndex : k \notin taken => caseIndex'[k] = caseIndex[k]
    <2> HIDE DEF taken
    <2> QED
      BY <1>1 DEF PutAll
  <1>3. \A k : k \in taken <=> Bears(dup, k)
    BY MergedNodes DEF Bears
  <1>4. \A k : k \in KeysOf({can} \union NextAliases(can)) <=> Bears(can, k) \/ k \in taken
    BY MergedNodes DEF Bears, KeysOf
  <1>5. \A m : m \notin {can, dup} => \A k : k \in KeysOf({m} \union NextAliases(m)) <=> Bears(m, k)
    BY MergedNodes DEF Bears, KeysOf
  <1> HIDE DEF taken
  <1>6. \A m \in DOMAIN nodes' : Lower[m] \in KeysOf(Term)
    BY MergedNodes DEF NamesOwned, Owned
  <1>7. ASSUME NEW k \in DOMAIN caseIndex'
        PROVE  /\ Lower[caseIndex'[k]] \in KeysOf(Term)
               /\ k \in KeysOf({caseIndex'[k]} \union NextAliases(caseIndex'[k]))
    <2>1. CASE k \in taken
      BY <1>2, <1>4, <2>1, MergedNodes DEF NamesOwned, Owned
    <2>2. CASE k \notin taken
      <3>1. k \in DOMAIN caseIndex /\ caseIndex'[k] = caseIndex[k]
        BY <1>2, <2>2
      <3>2. Lower[caseIndex[k]] \in KeysOf(Term) /\ Bears(caseIndex[k], k)
        BY <3>1 DEF NamesOwned, Owned
      <3>3. caseIndex[k] # dup
        BY <1>3, <2>2, <3>2
      <3> QED
        BY <1>4, <1>5, <3>1, <3>2, <3>3
    <2> QED
      BY <2>1, <2>2
  <1>8. ASSUME NEW m \in DOMAIN nodes', NEW k \in KeysOf(Term),
               k \in KeysOf({m} \union NextAliases(m))
        PROVE  k \in DOMAIN caseIndex' /\ caseIndex'[k] = m
    <2>1. m # dup /\ m \in DOMAIN nodes /\ dup \in DOMAIN nodes
      BY MergedNodes
    <2>2. CASE k \in taken
      <3>1. ~ Bears(m, k)
        BY <1>3, <2>1, <2>2 DEF NamesOwned, Owned, Owns
      <3>2. m = can
        BY <1>5, <1>8, <2>1, <3>1
      <3> QED
        BY <1>2, <2>2, <3>2
    <2>3. CASE k \notin taken
      <3>1. Bears(m, k)
        BY <1>4, <1>5, <1>8, <2>1, <2>3
      <3>2. k \in DOMAIN caseIndex /\ caseIndex[k] = m
        BY <2>1, <3>1 DEF NamesOwned, Owned, Owns
      <3> QED
        BY <1>2, <2>3, <3>2
    <2> QED
      BY <2>2, <2>3
  <1> QED
    BY <1>6, <1>7, <1>8, MergedNodes, NextNamesOwned

LEMMA SaveAndLoadOwned ==
  ASSUME IInv, NamesOwned, SaveAndLoad
  PROVE  NamesOwned' /\ \A m : AliasesOf(m) \subseteq NextAliases(m)
  <1> DEFINE listed == UNION {nodes[n].aliases : n \in DOMAIN nodes}
             keys   == KeysOf(DOMAIN nodes \union listed)
  <1>1. UNCHANGED nodes /\ \A n : NextAliases(n) = AliasesOf(n)
    BY DEF SaveAndLoad, NextAliases, AliasesOf
  <1>2. /\ caseIndex' \in [keys -> DOMAIN nodes]
        /\ \A k \in keys : Bears(caseIndex'[k], k)
    <2>1. /\ caseIndex' \in [keys -> DOMAIN nodes]
          /\ \A k \in keys : k \in KeysOf({caseIndex'[k]} \union nodes[caseIndex'[k]].aliases)
      BY DEF SaveAndLoad
    <2> HIDE DEF keys
    <2> QED
      BY <2>1 DEF Bears, AliasesOf
  <1>3. \A m \in DOMAIN nodes : \A k : Bears(m, k) => k \in keys
    BY DEF Bears, KeysOf, AliasesOf
  <1> HIDE DEF keys, listed
  <1>4. Owned(DOMAIN nodes, caseIndex')
    BY <1>2, <1>3 DEF NamesOwned, Owned, Owns
  <1> QED
    BY <1>1, <1>4, OwnedStep

(* A node that owns its key is the one entity get_all_entities finds under *)
(* its name, so that none is listed twice.                                 *)
LEMMA OwnedListed ==
  ASSUME NamesOwned
  PROVE  /\ \A n \in DOMAIN nodes : GetEntity(n) = {n}
         /\ \A n : ~ MergeWithItself(n)
  <1>1. ASSUME NEW n \in DOMAIN nodes PROVE GetEntity(n) = {n}
    <2>1. Bears(n, Lower[n])
      BY DEF Bears, KeysOf
    <2>2. Lower[n] \in DOMAIN caseIndex /\ caseIndex[Lower[n]] = n
      BY <2>1 DEF NamesOwned, Owned, Owns
    <2> QED
      BY <2>2 DEF GetEntity
  <1> QED
    BY <1>1 DEF MergeWithItself, ListedTwice

LEMMA OwnedNext ==
  ASSUME Separate, IInv, NamesOwned, [Next]_vars
  PROVE  /\ IInv' /\ NamesOwned'
         /\ \A m \in DOMAIN nodes' : AliasesOf(m) \subseteq NextAliases(m)
  <1> DEFINE Goal == NamesOwned' /\ \A m \in DOMAIN nodes' : AliasesOf(m) \subseteq NextAliases(m)
  <1>1. \A n \in Name : ~ MergeWithItself(n)
    BY OwnedListed
  <1>2. IInv'
    BY <1>1, NextInv
  <1> SUFFICES Goal
    BY <1>2
  <1>3. ASSUME NEW t \in Term, NEW first \in Source \union {NoSource},
               NEW as \in SUBSET AliasPool,
               NEW rest \in SUBSET (IF first = NoSource THEN {} ELSE Source \ {first}),
               UpsertEntity(t, first, rest, as)
        PROVE  Goal
    <2>1. rest \in SUBSET Source
      OBVIOUS
    <2> QED
      BY <1>3, <2>1, UpsertEntityOwned
  <1>4. ASSUME NEW s \in Term, NEW o \in Term, NEW r \in Relation,
               NEW k \in Source \union {NoSource}, AddEdge(s, r, o, k)
        PROVE  Goal
    BY <1>4, AddEdgeOwned
  <1>5. CASE \/ \E s, o \in Term : DropSelfEdge(s, o)
             \/ \E t \in Term : Lookup(t)
    <2>1. /\ UNCHANGED nodes
          /\ \/ \E s, o \in Term : caseIndex' = IndexAfterBoth(s, o)
             \/ \E t \in Term : caseIndex' = Registered(aliasOf, caseIndex, t)
      BY <1>5 DEF DropSelfEdge, Lookup
    <2> QED
      BY <2>1, RegisteringOwned
  <1>6. ASSUME NEW k \in Source, RemoveBySource(k)
        PROVE  Goal
    BY <1>6, RemoveBySourceOwned
  <1>7. ASSUME NEW can \in Name, NEW dup \in Name, MergeEntities(can, dup)
        PROVE  Goal
    BY <1>7, MergeEntitiesOwned
  <1>8. CASE SaveAndLoad
    BY <1>8, SaveAndLoadOwned
  <1>9. CASE UNCHANGED vars
    <2>1. UNCHANGED <<nodes, caseIndex>> /\ \A m : NextAliases(m) = AliasesOf(m)
      BY <1>9 DEF vars, NextAliases, AliasesOf
    <2> QED
      BY <2>1, OwnedStep DEF NamesOwned
  <1> HIDE DEF Goal
  <1> QED
    BY <1>1, <1>3, <1>4, <1>5, <1>6, <1>7, <1>8, <1>9 DEF Next

LEMMA OwnedInit == Init => IInv /\ NamesOwned
  BY InitInv DEF Init, NamesOwned, Owned, Owns, EmptyMap

-----------------------------------------------------------------------------
(* The core invariant holds whatever the callers do.                       *)
THEOREM CoreInvariance == Spec => []CoreInv
  <1>1. Init => CoreInv
    BY InitInv DEF IInv
  <1> QED
    BY <1>1, CoreNext, PTL DEF Spec

(* Every operation keeps the four dictionaries well typed.                 *)
THEOREM TypeCorrectness == Spec => []TypeOK
  <1>1. CoreInv => TypeOK
    BY DEF CoreInv
  <1> QED
    BY <1>1, CoreInvariance, PTL

(* No history of upserts, removals, merges and reloads leaves a loop or a  *)
(* dangling edge.                                                          *)
THEOREM EdgesStayWellFormed == Spec => []EdgesWellFormed
  <1>1. CoreInv => EdgesWellFormed
    BY DEF CoreInv
  <1> QED
    BY <1>1, CoreInvariance, PTL

(* An edge's sources are always among those of both its endpoints.         *)
THEOREM EdgeProvenanceHolds == Spec => []EdgeProvenance
  <1>1. CoreInv => EdgeProvenance
    BY DEF CoreInv
  <1> QED
    BY <1>1, CoreInvariance, PTL

(* Edges stay well-formed and credited to both their ends, together.       *)
THEOREM EdgesStaySound == Spec => []EdgesSound
  <1>1. EdgesWellFormed /\ EdgeProvenance => EdgesSound
    BY DEF EdgesSound
  <1> QED
    BY <1>1, EdgesStayWellFormed, EdgeProvenanceHolds, PTL

-----------------------------------------------------------------------------
(* The indices.  No entity is ever merged with itself if aliases are kept  *)
(* apart from names, or if the embedding resolver is off.                  *)

Safe == Separate \/ EmbeddingResolution = FALSE

FullInv == IInv /\ (Separate => NamesOwned)

LEMMA FullNoSelfMerge ==
  ASSUME Safe, FullInv
  PROVE  \A n \in Name : ~ MergeWithItself(n)
  BY OwnedListed DEF Safe, FullInv, MergeWithItself

LEMMA FullNext ==
  ASSUME Safe, FullInv, [Next]_vars
  PROVE  FullInv'
  <1>1. IInv'
    BY FullNoSelfMerge, NextInv DEF FullInv
  <1>2. Separate => NamesOwned'
    BY OwnedNext DEF FullInv
  <1> QED
    BY <1>1, <1>2 DEF FullInv

(* The whole inductive invariant, index invariants included.               *)
THEOREM Invariance ==
  ASSUME Safe
  PROVE  Spec => []FullInv
  <1>1. Init => FullInv
    BY OwnedInit DEF FullInv
  <1>2. FullInv /\ [Next]_vars => FullInv'
    BY FullNext
  <1> QED
    BY <1>1, <1>2, PTL DEF Spec

(* An alias or case-index entry never survives what it stands for.         *)
THEOREM IndicesNeverStale ==
  ASSUME Safe
  PROVE  Spec => []IndicesSound
  <1>1. FullInv => IndicesSound
    BY DEF FullInv, IInv, IndicesSound
  <1> QED
    BY <1>1, Invariance, PTL

(* Every entry of the case index is its key's first-seen form or a live    *)
(* node with an alias of that key, through removals, merges and reloads.   *)
THEOREM IndexStaysBacked ==
  ASSUME Safe
  PROVE  Spec => []IndexBacked
  <1>1. FullInv => IndexBacked
    BY DEF FullInv, IInv
  <1> QED
    BY <1>1, Invariance, PTL

(* With aliases kept apart from names, get_all_entities lists every node.  *)
THEOREM EveryNodeListed ==
  ASSUME Separate
  PROVE  Spec => []AllNodesListed
  <1>1. FullInv => AllNodesListed
    BY OwnedListed DEF FullInv, AllNodesListed, GetAllEntities
  <1> QED
    BY <1>1, Invariance, PTL DEF Safe

(* With aliases kept apart from names, no two nodes differ only by case.   *)
THEOREM NodesUniqueUpToCase ==
  ASSUME Separate
  PROVE  Spec => []OneNodePerKey
  <1>1. FullInv => OneNodePerKey
    BY DEF FullInv, NamesOwned, Owned, Owns, Bears, OneNodePerKey, KeysOf
  <1> QED
    BY <1>1, Invariance, PTL DEF Safe

(* A term resolves to the one node that bears its key, if there is one.    *)
ResolvesToBearer ==
  \A t \in Term : \A n \in DOMAIN nodes :
    Resolved(aliasOf, caseIndex, t) = n <=> Lower[t] \in KeysOf({n} \union AliasesOf(n))

LEMMA ResolvedBears == IInv /\ NamesOwned => ResolvesToBearer
  <1> SUFFICES ASSUME IInv, NamesOwned, NEW t \in Term
               PROVE  \A n \in DOMAIN nodes :
                        Resolved(aliasOf, caseIndex, t) = n <=> Bears(n, Lower[t])
    BY DEF ResolvesToBearer, Bears
  <1>1. Lower[t] \in KeysOf(Term)
    BY DEF KeysOf
  <1>2. CASE t \in DOMAIN aliasOf
    <2> DEFINE m == aliasOf[t]
    <2>1. m \in DOMAIN nodes /\ Bears(m, Lower[t]) /\ Bears(m, Lower[m])
      BY <1>2 DEF IInv, AliasesLive, AliasesOf, Bears, KeysOf
    <2>2. caseIndex[Lower[t]] = m /\ Lower[m] \in DOMAIN caseIndex /\ caseIndex[Lower[m]] = m
      BY <1>1, <2>1 DEF NamesOwned, Owned, Owns
    <2>3. Resolved(aliasOf, caseIndex, t) = m
      BY <1>2, <2>2 DEF Resolved, Expanded, Get
    <2> HIDE DEF m
    <2> QED
      BY <1>1, <2>1, <2>2, <2>3 DEF NamesOwned, Owned, Owns
  <1>3. CASE t \notin DOMAIN aliasOf
    <2>1. Resolved(aliasOf, caseIndex, t) =
            IF Lower[t] \in DOMAIN caseIndex THEN caseIndex[Lower[t]] ELSE t
      BY <1>3 DEF Resolved, Expanded, Get
    <2>2. Bears(t, Lower[t])
      BY DEF Bears, KeysOf
    <2> QED
      BY <1>1, <2>1, <2>2 DEF NamesOwned, Owned, Owns
  <1> QED
    BY <1>2, <1>3

LEMMA ResolvedBearsNext == IInv' /\ NamesOwned' => ResolvesToBearer'
  BY ResolvedBears, PTL

(* With aliases kept apart from names, a term goes on meaning the node it  *)
(* means for as long as that node is in the graph.                         *)
THEOREM TermsStable ==
  ASSUME Separate
  PROVE  Spec => StableResolution
  <1>1. ASSUME FullInv, FullInv', [Next]_vars, NEW t \in Term,
               Resolved(aliasOf, caseIndex, t) \in DOMAIN nodes,
               Resolved(aliasOf, caseIndex, t) \in DOMAIN nodes'
        PROVE  Resolved(aliasOf', caseIndex', t) = Resolved(aliasOf, caseIndex, t)
    <2> DEFINE n == Resolved(aliasOf, caseIndex, t)
    <2>1. Lower[t] \in KeysOf({n} \union AliasesOf(n))
      BY <1>1, ResolvedBears DEF FullInv, ResolvesToBearer
    <2>2. AliasesOf(n) \subseteq NextAliases(n)
      BY <1>1, OwnedNext DEF FullInv
    <2>3. Lower[t] \in KeysOf({n} \union NextAliases(n))
      BY <2>1, <2>2 DEF KeysOf
    <2>4. IInv' /\ NamesOwned'
      BY <1>1 DEF FullInv
    <2>5. \A m \in DOMAIN nodes' :
            Resolved(aliasOf', caseIndex', t) = m <=> Lower[t] \in KeysOf({m} \union NextAliases(m))
      BY <2>4, ResolvedBearsNext DEF ResolvesToBearer, NextAliases, AliasesOf
    <2> QED
      BY <1>1, <2>3, <2>5
  <1>2. FullInv /\ FullInv' /\ [Next]_vars =>
          [\A t \in Term :
             LET n == Resolved(aliasOf, caseIndex, t)
             IN  n \in DOMAIN nodes /\ n \in DOMAIN nodes'
                   => Resolved(aliasOf', caseIndex', t) = n]_vars
    BY <1>1
  <1> QED
    BY <1>2, Invariance, PTL DEF Spec, StableResolution, Safe

-----------------------------------------------------------------------------
(* The backend implements the provenance ledger.                           *)

LEMMA LedgerMaps ==
  /\ \A d, k, v : Ledger!Put(d, k, v) = Put(d, k, v)
  /\ \A d, k, v : Ledger!Get(d, k, v) = Get(d, k, v)
  /\ \A d, S : Ledger!Restrict(d, S) = Restrict(d, S)
  BY DEF Ledger!Put, Put, Ledger!Get, Get, Ledger!Restrict, Restrict

LEMMA HeldFacts ==
  ASSUME TypeOK
  PROVE  /\ DOMAIN Held = DOMAIN nodes
         /\ \A n : Get(Held, n, {}) = SourcesOf(n)
         /\ \A n \in DOMAIN nodes : Held[n] = nodes[n].sources
  BY DEF Held, Get, SourcesOf

LEMMA NextHeld == Held' = [n \in DOMAIN nodes' |-> nodes'[n].sources]
  BY DEF Held

LEMMA ClaimsFacts ==
  /\ DOMAIN Claims = {e \in DOMAIN edges : edges[e] # {}}
  /\ \A e \in DOMAIN Claims : Claims[e] = edges[e]
  BY DEF Claims, Restrict

LEMMA NextClaims ==
  Claims' = [e \in {x \in DOMAIN edges' : edges'[x] # {}} |-> edges'[e]]
  BY DEF Claims, Restrict

LEMMA StutterLedger ==
  ASSUME UNCHANGED <<nodes, edges>>
  PROVE  UNCHANGED <<Held, Claims>>
  BY DEF Held, Claims

LEMMA UpsertEntityLedger ==
  ASSUME TypeOK, NEW term \in Term, NEW first \in Source \union {NoSource},
         NEW rest \in SUBSET Source, NEW as \in SUBSET AliasPool,
         UpsertEntity(term, first, rest, as)
  PROVE  Ledger!LNext
  <1> DEFINE n       == Resolved(aliasOf, caseIndex, term)
             alias2  == PutAll(aliasOf, as, n)
             index2  == PutAll(Registered(aliasOf, caseIndex, term), KeysOf(as), n)
             nodes2  == Put(nodes, n, [sources |-> SourcesOf(n) \union Credit(first),
                                       aliases |-> AliasesOf(n) \union as])
             again   == Resolved(alias2, index2, term)
  <1>1. nodes' = IF again \in DOMAIN nodes2
                 THEN Put(nodes2, again,
                          [sources |-> nodes2[again].sources \union rest,
                           aliases |-> nodes2[again].aliases])
                 ELSE nodes2
    BY DEF UpsertEntity
  <1>2. n \in Name /\ again \in Name
    <2>1. term \in Name /\ as \in SUBSET Name
      BY TermAssumption
    <2>2. n \in Name
      BY <2>1, TypeParts, ResolvedType
    <2>3. IsIndex(alias2, Name) /\ IsIndex(index2, Key)
      BY <2>1, <2>2, TypeParts, PutAllIndex, KeysOfType, RegisteredType
    <2> QED
      BY <2>1, <2>2, <2>3, ResolvedType
  <1>3. UNCHANGED Claims
    BY DEF UpsertEntity, Claims
  <1>4. Credit(first) \in SUBSET Source /\ {} \in SUBSET Source
    BY CreditType
  <1>5. /\ DOMAIN nodes2 = DOMAIN nodes \union {n}
        /\ nodes2[n].sources = SourcesOf(n) \union Credit(first)
        /\ \A m \in DOMAIN nodes : m # n => nodes2[m] = nodes[m]
    BY DEF Put
  <1> DEFINE held2 == Put(Held, n, Get(Held, n, {}) \union Credit(first))
  <1> HIDE DEF n, nodes2, again
  <1>6. /\ DOMAIN held2 = DOMAIN nodes2
        /\ \A m \in DOMAIN nodes2 : held2[m] = nodes2[m].sources
    BY <1>5, HeldFacts DEF Put
  <1>7. CASE again \in DOMAIN nodes2
    <2>1. Held' = Put(held2, again, Get(held2, again, {}) \union rest)
      BY <1>1, <1>6, <1>7, NextHeld DEF Put, Get
    <2>2. Ledger!Vouch(n, Credit(first), again, rest)
      BY <1>3, <2>1, LedgerMaps DEF Ledger!Vouch
    <2> QED
      BY <1>2, <1>4, <2>2 DEF Ledger!LNext
  <1>8. CASE again \notin DOMAIN nodes2
    <2>1. Held' = Put(held2, n, Get(held2, n, {}) \union {})
      BY <1>1, <1>5, <1>6, <1>8, NextHeld DEF Put, Get
    <2>2. Ledger!Vouch(n, Credit(first), n, {})
      BY <1>3, <2>1, LedgerMaps DEF Ledger!Vouch
    <2> QED
      BY <1>2, <1>4, <2>2 DEF Ledger!LNext
  <1> QED
    BY <1>7, <1>8

LEMMA AddEdgeLedger ==
  ASSUME TypeOK, NEW s \in Term, NEW r \in Relation, NEW o \in Term,
         NEW k \in Source \union {NoSource}, AddEdge(s, r, o, k)
  PROVE  Ledger!LNext
  <1> DEFINE subj == SubjectOf(s)
             obj  == ObjectOf(s, o)
             edge == [subject |-> subj, predicate |-> r, object |-> obj]
             Credited(n) == [sources |-> SourcesOf(n) \union Credit(k),
                             aliases |-> AliasesOf(n)]
             first == Put(Held, subj, Get(Held, subj, {}) \union Credit(k))
  <1>1. subj \in Name /\ obj \in Name /\ Credit(k) \in SUBSET Source
    BY EndsType, CreditType
  <1>2. /\ subj # obj
        /\ nodes' = Put(Put(nodes, subj, Credited(subj)), obj, Credited(obj))
        /\ edges' = Put(edges, edge, Get(edges, edge, {}) \union Credit(k))
    BY DEF AddEdge
  <1>3. edge \in Ledger!Triple /\ ~ Ledger!IsLoop(edge)
        /\ edge.subject = subj /\ edge.object = obj
    BY <1>1, <1>2 DEF Ledger!Triple, Ledger!IsLoop
  <1>4. Held' = Put(first, obj, Get(first, obj, {}) \union Credit(k))
    <2> HIDE DEF subj, obj
    <2> QED
      BY <1>2, HeldFacts, NextHeld DEF Put, Get
  <1>5. Claims' = IF Credit(k) = {} THEN Claims
                  ELSE Put(Claims, edge, Get(Claims, edge, {}) \union Credit(k))
    <2> HIDE DEF edge
    <2>1. CASE Credit(k) = {}
      BY <1>2, <2>1, NextClaims DEF Claims, Restrict, Put, Get
    <2>2. CASE Credit(k) # {}
      BY <1>2, <2>2, NextClaims DEF Claims, Restrict, Put, Get
    <2> QED
      BY <2>1, <2>2
  <1> HIDE DEF subj, obj, edge
  <1>6. Ledger!State(edge, Credit(k))
    BY <1>3, <1>4, <1>5, LedgerMaps DEF Ledger!State
  <1> QED
    BY <1>1, <1>3, <1>6 DEF Ledger!LNext

LEMMA RemoveBySourceLedger ==
  ASSUME TypeOK, EdgeProvenance, EdgesWellFormed, NEW k \in Source, RemoveBySource(k)
  PROVE  Ledger!LNext
  <1>1. Held' = [e \in {x \in DOMAIN Held : Held[x] # {k}} |-> Held[e] \ {k}]
    BY HeldFacts, NextHeld DEF RemoveBySource, Doomed
  <1>2. edges' = [e \in {x \in DOMAIN edges : /\ k \notin edges[x]
                                              /\ x.subject \notin Doomed(k)
                                              /\ x.object \notin Doomed(k)} |-> edges[e]]
    BY DEF RemoveBySource, Restrict
  <1>3. ASSUME NEW e \in DOMAIN edges, edges[e] # {}, k \notin edges[e]
        PROVE  e.subject \notin Doomed(k) /\ e.object \notin Doomed(k)
    BY <1>3 DEF EdgeProvenance, Doomed, SourcesOf
  <1>4. Claims' = Restrict(Claims, {t \in DOMAIN Claims : k \notin Claims[t]})
    BY <1>2, <1>3, NextClaims DEF Claims, Restrict
  <1>5. Ledger!Retract(k)
    BY <1>1, <1>4, LedgerMaps DEF Ledger!Retract
  <1> QED
    BY <1>5 DEF Ledger!LNext

LEMMA MergeEntitiesLedger ==
  ASSUME TypeOK, EdgesWellFormed, NEW can \in Name, NEW dup \in Name,
         MergeEntities(can, dup)
  PROVE  Ledger!LNext
  <1>1. /\ can # dup /\ can \in DOMAIN nodes /\ dup \in DOMAIN nodes
        /\ edges' = MergedEdges(can, dup)
    BY DEF MergeEntities
  <1>2. Held' = [e \in DOMAIN Held \ {dup} |->
                   IF e = can THEN Held[can] \union Held[dup] ELSE Held[e]]
    BY <1>1, HeldFacts, NextHeld DEF MergeEntities, MergedRecord
  <1>3. ASSUME NEW t \in DOMAIN Claims'
        PROVE  /\ Claims'[t] # {}
               /\ ~ Ledger!IsLoop(t)
               /\ \E u \in DOMAIN Claims :
                    Ledger!Rename(u, dup, can) = t /\ Claims'[t] = Claims[u]
    <2>1. t \in DOMAIN edges' /\ edges'[t] # {} /\ Claims'[t] = edges'[t]
      BY NextClaims
    <2>2. PICK x \in DOMAIN edges : /\ t = Rename(x, dup, can)
                                    /\ t.subject # t.object
                                    /\ edges'[t] = edges[x]
      BY <1>1, <2>1, MergedEdgesOrigin
    <2>3. x \in DOMAIN Claims /\ Claims[x] = edges[x]
      BY <2>1, <2>2, ClaimsFacts
    <2> QED
      BY <2>1, <2>2, <2>3 DEF Ledger!Rename, Rename, Ledger!IsLoop
  <1>4. {can, dup} \subseteq DOMAIN Held
    BY <1>1, HeldFacts
  <1>5. Ledger!Absorb(can, dup)
    BY <1>1, <1>2, <1>3, <1>4 DEF Ledger!Absorb
  <1> QED
    BY <1>5 DEF Ledger!LNext

LEMMA LedgerInit == Init => Ledger!LInit
  BY DEF Init, Ledger!LInit, Held, Claims, Restrict, EmptyMap, Ledger!EmptyMap

LEMMA LedgerStep ==
  ASSUME Safe, FullInv, [Next]_vars
  PROVE  [Ledger!LNext]_(Ledger!lvars)
  <1> SUFFICES Ledger!LNext \/ UNCHANGED <<Held, Claims>>
    BY DEF Ledger!lvars
  <1> USE DEF FullInv, IInv, CoreInv
  <1>1. ASSUME NEW t \in Term, NEW first \in Source \union {NoSource},
               NEW as \in SUBSET AliasPool,
               NEW rest \in SUBSET (IF first = NoSource THEN {} ELSE Source \ {first}),
               UpsertEntity(t, first, rest, as)
        PROVE  Ledger!LNext
    <2>1. rest \in SUBSET Source
      OBVIOUS
    <2> QED
      BY <1>1, <2>1, UpsertEntityLedger
  <1>2. ASSUME NEW s \in Term, NEW o \in Term, NEW r \in Relation,
               NEW k \in Source \union {NoSource}, AddEdge(s, r, o, k)
        PROVE  Ledger!LNext
    BY <1>2, AddEdgeLedger
  <1>3. ASSUME NEW k \in Source, RemoveBySource(k)
        PROVE  Ledger!LNext
    BY <1>3, RemoveBySourceLedger
  <1>4. ASSUME NEW can \in Name, NEW dup \in Name, MergeEntities(can, dup)
        PROVE  Ledger!LNext
    BY <1>4, MergeEntitiesLedger
  <1>5. CASE \/ \E s, o \in Term : DropSelfEdge(s, o)
             \/ \E t \in Term : Lookup(t)
             \/ SaveAndLoad
             \/ UNCHANGED vars
    <2>1. UNCHANGED <<nodes, edges>>
      BY <1>5 DEF DropSelfEdge, Lookup, SaveAndLoad, vars
    <2> QED
      BY <2>1, StutterLedger
  <1> QED
    BY <1>1, <1>2, <1>3, <1>4, <1>5, FullNoSelfMerge DEF Next

(* For any names, aliases and documents, the backend's graph keeps the     *)
(* provenance ledger: every operation is one ledger step or none.          *)
THEOREM LedgerRefinement ==
  ASSUME Safe
  PROVE  Spec => KeepsLedger
  <1>1. FullInv /\ [Next]_vars => [Ledger!LNext]_(Ledger!lvars)
    BY LedgerStep
  <1> QED
    BY <1>1, LedgerInit, Invariance, PTL DEF Spec, KeepsLedger, Ledger!LSpec

-----------------------------------------------------------------------------
(* An entity leaves the graph only withdrawn with its one source, or       *)
(* absorbed by another that answers for its name.                          *)
THEOREM NothingElseLost ==
  ASSUME Safe
  PROVE  Spec => WithdrawnOrAbsorbed
  <1> DEFINE Accounted(n) ==
        \/ \E m \in DOMAIN nodes' : n \in nodes'[m].aliases
        \/ \E k \in Source : /\ nodes[n].sources = {k}
                             /\ \A m \in DOMAIN nodes' : k \notin nodes'[m].sources
  <1>1. ASSUME FullInv, [Next]_vars, NEW n \in DOMAIN nodes \ DOMAIN nodes'
        PROVE  Accounted(n)
    <2>1. ASSUME NEW k \in Source, RemoveBySource(k)
          PROVE  Accounted(n)
      BY <2>1 DEF RemoveBySource, Doomed
    <2>2. ASSUME NEW can \in Name, NEW dup \in Name, MergeEntities(can, dup)
          PROVE  Accounted(n)
      <3>1. n = dup /\ can \in DOMAIN nodes' /\ n \in NextAliases(can)
        BY <2>2, MergedNodes
      <3> QED
        BY <3>1 DEF NextAliases
    <2>3. CASE DOMAIN nodes \subseteq DOMAIN nodes'
      BY <2>3
    <2>4. \/ \E k \in Source : RemoveBySource(k)
          \/ \E can, dup \in Name : MergeEntities(can, dup)
          \/ DOMAIN nodes \subseteq DOMAIN nodes'
      <3>1. ASSUME NEW t \in Term, NEW first \in Source \union {NoSource},
                   NEW as \in SUBSET AliasPool,
                   NEW rest \in SUBSET (IF first = NoSource THEN {} ELSE Source \ {first}),
                   UpsertEntity(t, first, rest, as)
            PROVE  DOMAIN nodes \subseteq DOMAIN nodes'
        <4>1. rest \in SUBSET Source
          OBVIOUS
        <4> QED
          BY <1>1, <3>1, <4>1, UpsertEntityGrows DEF FullInv, IInv, CoreInv, NodesGrow
      <3>2. ASSUME NEW s \in Term, NEW o \in Term, NEW r \in Relation,
                   NEW k \in Source \union {NoSource}, AddEdge(s, r, o, k)
            PROVE  DOMAIN nodes \subseteq DOMAIN nodes'
        BY <1>1, <3>2, AddEdgeCore DEF FullInv, IInv, NodesGrow
      <3>3. CASE \/ \E s, o \in Term : DropSelfEdge(s, o)
                 \/ \E t \in Term : Lookup(t)
                 \/ SaveAndLoad
                 \/ UNCHANGED vars
        BY <3>3 DEF DropSelfEdge, Lookup, SaveAndLoad, vars
      <3> QED
        BY <1>1, <3>1, <3>2, <3>3, FullNoSelfMerge DEF Next
    <2> QED
      BY <2>1, <2>2, <2>3, <2>4
  <1>2. FullInv /\ [Next]_vars => [\A n \in DOMAIN nodes \ DOMAIN nodes' : Accounted(n)]_vars
    BY <1>1
  <1> QED
    BY <1>2, Invariance, PTL DEF Spec, WithdrawnOrAbsorbed

=============================================================================
