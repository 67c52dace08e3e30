------------------------ MODULE SvIncrementalExtract ------------------------
(***************************************************************************)
(* The incremental extract of the SystemVerilog builder                    *)
(* (knowledge_graph/builders/sv/{writer,build,lift}.py), which unlike the  *)
(* others builds the whole corpus at once, because names are resolved      *)
(* across files, and then writes the part of the files that changed.       *)
(*                                                                         *)
(* A syntax node's id is its file's prefix (the stem, numbered when the    *)
(* call names several files of that stem) and its number in the file, so   *)
(* that ids outlive the origin and the call they were written by.  There   *)
(* is one source and one corpus: their columns are not modelled.           *)
(***************************************************************************)
EXTENDS PartialMaps, SvBuild

CONSTANTS
  BulkMinRows,        \* BULK_COPY_MIN_ROWS
  MaxEdits,           \* bound: edits of files over a behaviour
  MaxCrashes,         \* bound: extracts cut short over a behaviour
  MaxCalls            \* bound: extracts started over a behaviour

BoundsAssumption ==
  /\ IsFiniteSet(Uri)
  /\ BulkMinRows \in Nat
  /\ MaxEdits \in Nat /\ MaxCrashes \in Nat /\ MaxCalls \in Nat

VARIABLES
  file,      \* uri -> content on disk
  stem,      \* uri -> stem of its path
  origins,   \* ids of the :Origin rows
  nodes,     \* :Node rows: id -> the origin_id column and the content lifted
  inOrigin,  \* IN_ORIGIN rels: <<node id, origin id>>
  rels,      \* the other rels
  pc,        \* where the running extract is
  call,      \* its arguments
  at,        \* the path being scanned
  stale,     \* origins still to be deleted by the current loop
  victim,    \* the origin whose nodes are gone and whose row is next
  touched,   \* numbers of the paths to be written
  pending,   \* those not snapshotted yet
  owner,     \* origins_by_prefix
  batch,     \* the filtered graph, less what is written already
  built,     \* corpora whose deltas the promote cache holds
  edits, crashes, calls

store == <<origins, nodes, inOrigin, rels>>
job   == <<pc, call, at, stale, victim, touched, pending, owner, batch>>
env   == <<file, stem, edits, crashes, calls>>
vars  == <<store, job, built, env>>

-----------------------------------------------------------------------------
OriginId == [uri: Uri, sha: Content]

Paths == {s \in UNION {[1..n -> Uri] : n \in 1..Cardinality(Uri)} :
            \A i, j \in DOMAIN s : s[i] = s[j] => i = j}

EmptyBatch == [bulk |-> FALSE, nodes |-> {}, placeholders |-> {}, edges |-> {}]

(* The rows find_current_origin selects from.                              *)
Current(u) == {o \in origins : o.uri = u}

NodesOf(o) == {n \in DOMAIN nodes : nodes[n].origin = o}

Without(rs, ids) == {r \in rs : r.src \notin ids /\ r.dst \notin ids}

DeleteOutgoing(ids) ==
  /\ nodes' = Restrict(nodes, DOMAIN nodes \ ids)
  /\ inOrigin' = {p \in inOrigin : p[1] \notin ids}
  /\ rels' = {r \in rels : r.src \notin ids}

(* DETACH DELETE of node rows.                                             *)
DetachDelete(ids) ==
  /\ nodes' = Restrict(nodes, DOMAIN nodes \ ids)
  /\ inOrigin' = {p \in inOrigin : p[1] \notin ids}
  /\ rels' = Without(rels, ids)

Corpus == [i \in DOMAIN call.paths |->
             [uri |-> call.paths[i], stem |-> stem[call.paths[i]],
              sha |-> file[call.paths[i]]]]

(* _prefix_for_path.                                                       *)
PrefixOfPath(i) == Prefix(Corpus, i)

TouchedOrigins == {owner[PrefixOfPath(i)] : i \in touched}

-----------------------------------------------------------------------------
Init ==
  /\ file \in [Uri -> Content]
  /\ stem \in [Uri -> Stem]
  /\ origins = {} /\ nodes = EmptyMap /\ inOrigin = {} /\ rels = {}
  /\ pc = "idle"
  /\ call = [paths |-> <<>>, mode |-> "keep"]
  /\ at = 1 /\ stale = {} /\ victim = None
  /\ touched = {} /\ pending = {} /\ owner = EmptyMap /\ batch = EmptyBatch
  /\ built = {}
  /\ edits = 0 /\ crashes = 0 /\ calls = 0

Start(paths, mode) ==
  /\ pc = "idle" /\ calls < MaxCalls
  /\ calls' = calls + 1
  /\ pc' = "scan"
  /\ call' = [paths |-> paths, mode |-> mode]
  /\ at' = 1 /\ touched' = {} /\ owner' = EmptyMap
  /\ UNCHANGED <<store, stale, victim, pending, batch, built, file, stem, edits, crashes>>

(* The current origin has the sha of the file: it is used as it is.        *)
ScanUnchanged(o) ==
  /\ pc = "scan" /\ at \in DOMAIN call.paths
  /\ o \in Current(call.paths[at]) /\ o.sha = file[o.uri]
  /\ owner' = Put(owner, PrefixOfPath(at), o)
  /\ at' = at + 1
  /\ UNCHANGED <<store, pc, call, stale, victim, touched, pending, batch, built, env>>

ScanFresh ==
  /\ pc = "scan" /\ at \in DOMAIN call.paths
  /\ Current(call.paths[at]) = {}
  /\ touched' = touched \union {at}
  /\ at' = at + 1
  /\ UNCHANGED <<store, pc, call, stale, victim, pending, owner, batch, built, env>>

(* It has another sha: its subtree is deleted at once.                     *)
ScanChanged(o) ==
  /\ pc = "scan" /\ at \in DOMAIN call.paths
  /\ o \in Current(call.paths[at]) /\ o.sha # file[o.uri]
  /\ pc' = "replace" /\ stale' = {o}
  /\ UNCHANGED <<store, call, at, victim, touched, pending, owner, batch, built, env>>

ReplaceDone ==
  /\ pc = "replace" /\ stale = {}
  /\ pc' = "scan"
  /\ touched' = touched \union {at}
  /\ at' = at + 1
  /\ UNCHANGED <<store, call, stale, victim, pending, owner, batch, built, env>>

(* delete_origin_subtree, first statement: the nodes and their rels.       *)
DeleteNodes(o) ==
  /\ pc \in {"replace", "prune"}
  /\ o \in stale /\ victim = None
  /\ DetachDelete(NodesOf(o))
  /\ victim' = o
  /\ UNCHANGED <<origins, pc, call, at, stale, touched, pending, owner, batch, built, env>>

(* delete_origin_subtree, second statement: the row and its IN_ORIGIN rels.*)
DeleteRow ==
  /\ victim # None
  /\ origins' = origins \ {victim}
  /\ inOrigin' = {p \in inOrigin : p[2] # victim}
  /\ stale' = stale \ {victim}
  /\ victim' = None
  /\ UNCHANGED <<nodes, rels, pc, call, at, touched, pending, owner, batch, built, env>>

(* Where the extract goes when it has scanned and swept.                   *)
AfterSweep ==
  IF touched # {} THEN "snapshot" ELSE IF call.mode = "gc" THEN "gc" ELSE "idle"

NotRewritten == {o \in origins : \A i \in touched : call.paths[i] # o.uri}

OutsideCall == {o \in origins : \A i \in DOMAIN call.paths : call.paths[i] # o.uri}

ScanDone ==
  /\ pc = "scan" /\ at \notin DOMAIN call.paths
  /\ IF call.mode = "keep"
     THEN pc' = AfterSweep /\ UNCHANGED stale
     ELSE pc' = "prune" /\ stale' = OutsideCall
  /\ pending' = touched
  /\ UNCHANGED <<store, call, at, victim, touched, owner, batch, built, env>>

PruneDone ==
  /\ pc = "prune" /\ stale = {}
  /\ pc' = AfterSweep
  /\ UNCHANGED <<store, call, at, stale, victim, touched, pending, owner, batch, built, env>>

(* snapshot_file, after the sweep: the second read of the file.            *)
Snapshot(i) ==
  LET o == [uri |-> call.paths[i], sha |-> file[call.paths[i]]]
  IN  /\ pc = "snapshot" /\ i \in pending
      /\ origins' = origins \union {o}
      /\ owner' = Put(owner, PrefixOfPath(i), o)
      /\ pending' = pending \ {i}
      /\ UNCHANGED <<nodes, inOrigin, rels, pc, call, at, stale, victim, touched, batch, built, env>>

-----------------------------------------------------------------------------
KeepTouchedEndpoints(es, kept) == {e \in es : e.src \in kept /\ e.dst \in kept}

(* _filter_graph_to_origins: edges between kept nodes or to a placeholder. *)
KeptEdges(es, kept) ==
  {e \in es : e.src \in kept /\ (e.dst \in kept \/ e.dst \in Placeholder)}

(* graph["nodes"] and graph["edges"] are lists: file by file, the edges     *)
(* pass by pass.                                                           *)
PathOf(id) == CHOOSE i \in DOMAIN call.paths : PrefixOfPath(i) = id.prefix

NodePlace(id) == <<PathOf(id), id.pos>>

EdgePlace(e) ==
  LET pass == CASE e.type = "child" -> 0 [] e.type = "imports" -> 1
                [] e.type = "of_module" -> 2 [] e.type = "of_type" -> 3
  IN  <<pass, PathOf(e.src), e.src.pos, IF e.type = "child" THEN e.dst.pos ELSE 0>>

NotAfter(a, b) ==
  a = b \/ \E k \in DOMAIN a : a[k] < b[k] /\ \A j \in 1..(k - 1) : a[j] = b[j]

(* A placeholder belongs to the origin of the first edge that needs it.    *)
PlaceholderRows(es, rows) ==
  {[id |-> e.dst, origin |-> (CHOOSE r \in rows : r.id = e.src).origin] :
     e \in {x \in es : x.dst \in Placeholder
                      /\ \A y \in es : y.dst = x.dst => NotAfter(EdgePlace(x), EdgePlace(y))}}

(* build_kg of the whole corpus (the third read), filtered.                *)
Build ==
  LET rows == {[id |-> n.id, origin |-> owner[n.id.prefix], sha |-> n.sha] :
                 n \in GraphNodes(Corpus)}
      kept == {r \in rows : r.origin \in TouchedOrigins}
      es   == KeptEdges(GraphEdges(Corpus, Corpus \in built), {r.id : r \in kept})
  IN  /\ pc = "snapshot" /\ pending = {}
      /\ pc' = "write"
      /\ batch' = [bulk |-> Cardinality(kept) + Cardinality(es) >= BulkMinRows,
                   nodes |-> kept,
                   placeholders |-> PlaceholderRows(es, kept),
                   edges |-> es]
      /\ built' = built \union {Corpus}
      /\ UNCHANGED <<store, call, at, stale, victim, touched, pending, owner, env>>

(* write_graph, per row: MERGE .. SET of a node; rels of an old row stay.  *)
WriteNode(r) ==
  /\ pc = "write" /\ ~batch.bulk /\ r \in batch.nodes
  /\ \A x \in batch.nodes : NotAfter(NodePlace(r.id), NodePlace(x.id))
  /\ nodes' = Put(nodes, r.id, [origin |-> r.origin, sha |-> r.sha])
  /\ inOrigin' = inOrigin \union {<<r.id, r.origin>>}
  /\ batch' = [batch EXCEPT !.nodes = @ \ {r}]
  /\ UNCHANGED <<origins, rels, pc, call, at, stale, victim, touched, pending, owner, built, env>>

WritePlaceholder(p) ==
  /\ pc = "write" /\ ~batch.bulk /\ batch.nodes = {} /\ p \in batch.placeholders
  /\ nodes' = Put(nodes, p.id, [origin |-> p.origin, sha |-> None])
  /\ inOrigin' = inOrigin \union {<<p.id, p.origin>>}
  /\ batch' = [batch EXCEPT !.placeholders = @ \ {p}]
  /\ UNCHANGED <<origins, rels, pc, call, at, stale, victim, touched, pending, owner, built, env>>

WriteEdge(e) ==
  /\ pc = "write" /\ ~batch.bulk /\ batch.nodes = {} /\ batch.placeholders = {}
  /\ e \in batch.edges
  /\ \A x \in batch.edges : NotAfter(EdgePlace(e), EdgePlace(x))
  /\ rels' = rels \union {e}
  /\ batch' = [batch EXCEPT !.edges = @ \ {e}]
  /\ UNCHANGED <<origins, nodes, inOrigin, pc, call, at, stale, victim, touched, pending, owner, built, env>>

(* _write_graph_bulk: delete every id of the batch, then COPY table by     *)
(* table; "cleared" is the batch after the delete.                         *)
BatchIds == {r.id : r \in batch.nodes \union batch.placeholders}

BulkClear ==
  /\ pc = "write" /\ batch.bulk
  /\ DetachDelete(BatchIds)
  /\ pc' = "copy"
  /\ UNCHANGED <<origins, call, at, stale, victim, touched, pending, owner, batch, built, env>>

BulkCopyNodes ==
  LET row(id) == CHOOSE r \in batch.nodes \union batch.placeholders : r.id = id
  IN  /\ pc = "copy" /\ batch.nodes # {}
      /\ nodes' = [id \in DOMAIN nodes \union BatchIds |->
                     IF id \in DOMAIN nodes THEN nodes[id]
                     ELSE [origin |-> row(id).origin,
                           sha |-> IF id \in Placeholder THEN None ELSE row(id).sha]]
      /\ inOrigin' = inOrigin \union {<<id, row(id).origin>> : id \in BatchIds}
      /\ batch' = [batch EXCEPT !.nodes = {}, !.placeholders = {}]
      /\ UNCHANGED <<origins, rels, pc, call, at, stale, victim, touched, pending, owner, built, env>>

BulkCopyRels(t) ==
  LET es == {e \in batch.edges : e.type = t}
  IN  /\ pc = "copy" /\ batch.nodes = {} /\ es # {}
      /\ rels' = rels \union es
      /\ batch' = [batch EXCEPT !.edges = @ \ es]
      /\ UNCHANGED <<origins, nodes, inOrigin, pc, call, at, stale, victim, touched, pending, owner, built, env>>

WriteDone ==
  /\ pc = "copy" \/ (pc = "write" /\ ~batch.bulk)
  /\ batch.nodes = {} /\ batch.placeholders = {} /\ batch.edges = {}
  /\ pc' = IF call.mode = "gc" THEN "gc" ELSE "idle"
  /\ batch' = EmptyBatch
  /\ UNCHANGED <<store, call, at, stale, victim, touched, pending, owner, built, env>>

(* prune_orphaned_origins.                                                 *)
Orphans == {o \in origins : NodesOf(o) = {}}

CollectOrphan(o) ==
  /\ pc = "gc" /\ o \in Orphans
  /\ origins' = origins \ {o}
  /\ inOrigin' = {p \in inOrigin : p[2] # o}
  /\ UNCHANGED <<nodes, rels, job, built, env>>

GcDone ==
  /\ pc = "gc" /\ Orphans = {}
  /\ pc' = "idle"
  /\ UNCHANGED <<store, call, at, stale, victim, touched, pending, owner, batch, built, env>>

-----------------------------------------------------------------------------
JobStep ==
  \/ \E o \in OriginId : ScanUnchanged(o)
  \/ ScanFresh
  \/ \E o \in OriginId : ScanChanged(o)
  \/ ReplaceDone
  \/ \E o \in OriginId : DeleteNodes(o)
  \/ DeleteRow
  \/ ScanDone
  \/ PruneDone
  \/ \E i \in pending : Snapshot(i)
  \/ Build
  \/ \E r \in batch.nodes : WriteNode(r)
  \/ \E p \in batch.placeholders : WritePlaceholder(p)
  \/ \E e \in batch.edges : WriteEdge(e)
  \/ BulkClear
  \/ BulkCopyNodes
  \/ \E t \in EdgeType : BulkCopyRels(t)
  \/ WriteDone
  \/ \E o \in OriginId : CollectOrphan(o)
  \/ GcDone

(* The process dies, and its cache with it, or a statement raises.         *)
Crash ==
  /\ pc # "idle" /\ crashes < MaxCrashes
  /\ crashes' = crashes + 1
  /\ pc' = "idle"
  /\ stale' = {} /\ victim' = None /\ touched' = {} /\ pending' = {}
  /\ batch' = EmptyBatch
  /\ built' \in {built, {}}
  /\ UNCHANGED <<store, call, at, owner, file, stem, edits, calls>>

(* Between extracts: that one run reads a file three times is the business *)
(* of IncrementalExtract.                                                  *)
Edit(u, c) ==
  /\ edits < MaxEdits /\ c # file[u]
  /\ pc = "idle"
  /\ file' = [file EXCEPT ![u] = c]
  /\ edits' = edits + 1
  /\ UNCHANGED <<store, job, built, stem, crashes, calls>>

Next ==
  \/ \E paths \in Paths, mode \in {"keep", "prune", "gc"} : Start(paths, mode)
  \/ JobStep
  \/ Crash
  \/ \E u \in Uri, c \in Content : Edit(u, c)

Spec == Init /\ [][Next]_vars

-----------------------------------------------------------------------------
(* No two files have one stem, in any call: what keeps the ids of two files*)
(* apart.  Without it a file takes over the rows of another.               *)
DistinctStems == \A u, v \in Uri : stem[u] = stem[v] => u = v

(* Every node's and every IN_ORIGIN rel's origin row is there, and every   *)
(* rel joins two rows, wherever an extract is cut short and whatever the   *)
(* files are called.                                                       *)
NoDangling ==
  /\ \A n \in DOMAIN nodes : nodes[n].origin \in origins
  /\ \A p \in inOrigin : p[1] \in DOMAIN nodes /\ p[2] \in origins
  /\ \A r \in rels : {r.src, r.dst} \subseteq DOMAIN nodes

Idle == pc = "idle" /\ calls > 0

LabelOf(n) == Labels[nodes[n].sha][n.pos]

(* No stored reference lies: an edge between two syntax nodes goes from one*)
(* that refers to a symbol to one that defines it.                         *)
NoFalseReference ==
  DistinctStems =>
    \A r \in rels :
      r.type # "child" /\ r.dst \notin Placeholder =>
        LabelOf(r.dst) = [role |-> "def", sym |-> LabelOf(r.src).sym]

(* A placeholder is there because a file as it was extracted refers to its *)
(* name: it goes with the file it was last written for.                    *)
PlaceholderJustified ==
  DistinctStems =>
    \A n \in DOMAIN nodes \intersect Placeholder :
      \E p \in DOMAIN Labels[nodes[n].origin.sha] :
        /\ Labels[nodes[n].origin.sha][p].sym = n.unresolved
        /\ Labels[nodes[n].origin.sha][p].role \in {"import", "type"}

(* What the rows refer to is what the text they were lifted from refers to.*)
ReferencesTrue == NoFalseReference /\ PlaceholderJustified

(* What the extract took a path's content to be.                           *)
Extracted(i) == owner[PrefixOfPath(i)]

IdOf(o, p) == [prefix |-> <<stem[o.uri], 0>>, pos |-> p]

(* An origin's rows: every syntax node of its content, and their tree.     *)
Complete(o) ==
  /\ o \in origins
  /\ \A p \in DOMAIN Labels[o.sha] :
       LET n == IdOf(o, p)
       IN  /\ n \in DOMAIN nodes /\ nodes[n] = [origin |-> o, sha |-> o.sha]
           /\ {x \in inOrigin : x[1] = n} = {<<n, o>>}
           /\ p # 1 => [type |-> "child", src |-> IdOf(o, 1), dst |-> n] \in rels

(* After an extract every file it names is there completely.               *)
FilesComplete ==
  DistinctStems /\ crashes = 0 /\ Idle =>
    \A i \in DOMAIN call.paths :
      PrefixOfPath(i) \in DOMAIN owner /\ Complete(Extracted(i))

(* The files of the call that define s.                                    *)
DefiningPaths(s) ==
  {i \in DOMAIN call.paths :
     \E p \in DOMAIN Labels[Extracted(i).sha] :
       Labels[Extracted(i).sha][p] = [role |-> "def", sym |-> s]}

(* A declared type that a written file names is linked when the extract    *)
(* ends: to its definition when one file of the call defines it and is     *)
(* written too, to a placeholder when no file of the call does.            *)
TypesLinked ==
  DistinctStems /\ crashes = 0 /\ Idle =>
    \A i \in touched :
      \A p \in DOMAIN Labels[Extracted(i).sha] :
        LET l == Labels[Extracted(i).sha][p]
            targets == {r.dst : r \in {x \in rels : x.type = "of_type"
                                                  /\ x.src = IdOf(Extracted(i), p)}}
        IN  l.role = "type" =>
              /\ DefiningPaths(l.sym) = {} => [unresolved |-> l.sym] \in targets
              /\ \A j \in touched : DefiningPaths(l.sym) = {j} =>
                   \E q \in DOMAIN Labels[Extracted(j).sha] : IdOf(Extracted(j), q) \in targets

(* What an extract has written when it returns.                            *)
WrittenWhole == FilesComplete /\ TypesLinked

(* What extract promises of the files it leaves alone: their nodes and the *)
(* rels between them are unaffected, wherever it or an extract before it is*)
(* cut short.  Placeholders are not theirs.                                *)
Untouched(n) ==
  /\ n \in DOMAIN nodes \ Placeholder
  /\ nodes[n].origin.sha = file[nodes[n].origin.uri]
  /\ \/ call.mode = "keep"
     \/ \E i \in DOMAIN call.paths : call.paths[i] = nodes[n].origin.uri

UntouchedUnaffected ==
  [][DistinctStems =>
       /\ \A n \in DOMAIN nodes :
            Untouched(n) => n \in DOMAIN nodes' /\ nodes'[n] = nodes[n]
       /\ \A r \in rels :
            Untouched(r.src) /\ Untouched(r.dst) => r \in rels']_vars

(* A graph that is replayed from the cache is the graph a fresh build      *)
(* would give, as long as no symbol is defined by two files of the corpus. *)
OneDefiner(cs) == \A s \in Sym : Cardinality(Definers(cs, Len(cs), s)) <= 1

ReplayLossless ==
  \A cs \in built : OneDefiner(cs) => GraphEdges(cs, TRUE) = GraphEdges(cs, FALSE)

=============================================================================
