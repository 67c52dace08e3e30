------------------------- MODULE IncrementalExtract -------------------------
(***************************************************************************)
(* The incremental extract of the Markdown and Python builders             *)
(* (knowledge_graph/builders/{md,py}/writer.py) over the Kuzu store        *)
(* (knowledge_graph/store/{kuzu,snapshot}.py).                             *)
(*                                                                         *)
(* One action per statement: every statement of the store commits by       *)
(* itself, so the process may stop between any two of them, and a file may *)
(* be edited between the three reads one call makes of it.  A file's sha256*)
(* is its content; an origin row is keyed by uri and sha, and carries the  *)
(* corpus that created it; a node row is keyed by its origin and its span, *)
(* and carries the corpus and the text of whoever wrote it last.           *)
(***************************************************************************)
EXTENDS PartialMaps, Naturals, FiniteSets

CONSTANTS
  Uri,         \* the files
  Content,     \* what a file can contain
  Span,        \* positions of syntax nodes
  SpansOf,     \* content -> the spans the builder lifts from it
  Bulky,       \* contents with at least BULK_COPY_MIN_ROWS nodes (py only)
  Corpus,
  MaxEdits,    \* bound: edits of files over a behaviour
  MaxCrashes,  \* bound: extracts cut short over a behaviour
  EditsWhileRunning,  \* may a file change while an extract runs?
  None         \* no origin, no file

ASSUME SpansAssumption == SpansOf \in [Content -> (SUBSET Span) \ {{}}]
ASSUME BulkyAssumption == Bulky \subseteq Content
ASSUME BoundsAssumption == MaxEdits \in Nat /\ MaxCrashes \in Nat
ASSUME EditsAssumption == EditsWhileRunning \in BOOLEAN

OriginId == [uri: Uri, sha: Content]

NodeId == [origin: OriginId, span: Span]

ASSUME NoneAssumption == None \notin OriginId \union Uri \union Content

VARIABLES
  file,     \* uri -> content on disk
  origins,  \* :Origin rows: id -> the corpus column
  nodes,    \* :Node rows: id -> the corpus and text columns
  pc,       \* where the running extract is
  call,     \* its arguments
  todo,     \* paths not scanned yet
  cur,      \* the path being replaced
  stale,    \* origins still to be deleted by the current loop
  victim,   \* the origin whose nodes are gone and whose row is next
  touched,  \* snapshotted origins still to be written
  target,   \* the origin being written
  text,     \* the content lifted for it
  left,     \* spans of it not written yet
  edits, crashes

store == <<origins, nodes>>
job   == <<pc, call, todo, cur, stale, victim, touched, target, text, left>>
env   == <<file, edits, crashes>>
vars  == <<store, job, env>>

Call == [corpus: Corpus, paths: SUBSET Uri, mode: {"keep", "prune", "gc"}]

CurrentWithSha(u, c) ==
  {o \in DOMAIN origins : o.uri = u /\ origins[o] = c /\ o.sha = file[u]}

(* The rows find_current_origin selects from: (uri, source, corpus).       *)
Current(u, c) == {o \in DOMAIN origins : o.uri = u /\ origins[o] = c}

NodesOfInCorpus(o) ==
  {n \in DOMAIN nodes : n.origin = o /\ nodes[n].corpus = call.corpus}

(* The rows with this origin_id.                                           *)
NodesOf(o) == {n \in DOMAIN nodes : n.origin = o}

(* _node_id: a hash of the origin id and the span.                         *)
Ids(o, spans) == {[origin |-> o, span |-> s] : s \in spans}

-----------------------------------------------------------------------------
Init ==
  /\ file \in [Uri -> Content]
  /\ origins = EmptyMap
  /\ nodes = EmptyMap
  /\ pc = "idle"
  /\ call \in [corpus: Corpus, paths: {{}}, mode: {"keep"}]
  /\ todo = {} /\ cur = None /\ stale = {} /\ victim = None
  /\ touched = {} /\ target = None /\ text = None /\ left = {}
  /\ edits = 0 /\ crashes = 0

(* The facade's extract refuses an empty list of paths; gc implies prune.  *)
Start(c, paths, mode) ==
  /\ pc = "idle"
  /\ paths # {}
  /\ pc' = "scan"
  /\ call' = [corpus |-> c, paths |-> paths, mode |-> mode]
  /\ todo' = paths
  /\ UNCHANGED <<store, cur, stale, victim, touched, target, text, left, env>>

UnchangedIfKnown(u) == Current(u, call.corpus) # {}

Unchanged(u) == \E o \in Current(u, call.corpus) : o.sha = file[u]

(* First read of the file.  Its sha is that of the current origin: skip.   *)
ScanUnchanged(u) ==
  /\ pc = "scan" /\ u \in todo
  /\ Unchanged(u)
  /\ todo' = todo \ {u}
  /\ UNCHANGED <<store, pc, call, cur, stale, victim, touched, target, text, left, env>>

(* It has no current origin, or one with another sha, which is deleted.    *)
ScanTouched(u) ==
  /\ pc = "scan" /\ u \in todo
  /\ \/ Current(u, call.corpus) = {} /\ stale' = {}
     \/ \E o \in Current(u, call.corpus) : o.sha # file[u] /\ stale' = {o}
  /\ pc' = "replace"
  /\ cur' = u
  /\ UNCHANGED <<store, call, todo, victim, touched, target, text, left, env>>

(* delete_origin_subtree, first statement: the nodes.                      *)
DeleteNodes(o) ==
  /\ pc \in {"replace", "prune"}
  /\ o \in stale /\ victim = None
  /\ nodes' = Restrict(nodes, DOMAIN nodes \ NodesOf(o))
  /\ victim' = o
  /\ UNCHANGED <<origins, pc, call, todo, cur, stale, touched, target, text, left, env>>

(* delete_origin_subtree, second statement: the row.                       *)
DeleteRow ==
  /\ victim # None
  /\ origins' = Restrict(origins, DOMAIN origins \ {victim})
  /\ stale' = stale \ {victim}
  /\ victim' = None
  /\ UNCHANGED <<nodes, pc, call, todo, cur, touched, target, text, left, env>>

(* snapshot_file: the second read of the file.  MERGE .. ON CREATE SET: an *)
(* existing row with this id keeps its corpus.                             *)
Snapshot ==
  LET o == [uri |-> cur, sha |-> file[cur]]
  IN  /\ pc = "replace" /\ stale = {}
      /\ origins' = IF o \in DOMAIN origins THEN origins ELSE Put(origins, o, call.corpus)
      /\ touched' = touched \union {o}
      /\ todo' = todo \ {cur}
      /\ cur' = None
      /\ pc' = "scan"
      /\ UNCHANGED <<nodes, call, stale, victim, target, text, left, env>>

AfterSweepGcFirst ==
  IF call.mode = "gc" THEN "gc" ELSE IF touched # {} THEN "write" ELSE "idle"

(* Where the extract goes when it has scanned and swept.                   *)
AfterSweep ==
  IF touched # {} THEN "write" ELSE IF call.mode = "gc" THEN "gc" ELSE "idle"

OutsideCallAndUnchanged ==
  {o \in DOMAIN origins : origins[o] = call.corpus /\ o \notin touched}

(* The origins of the corpus that the call does not name.                  *)
OutsideCall ==
  {o \in DOMAIN origins : origins[o] = call.corpus /\ o.uri \notin call.paths}

ScanDone ==
  /\ pc = "scan" /\ todo = {}
  /\ IF call.mode = "keep"
     THEN pc' = AfterSweep /\ UNCHANGED stale
     ELSE pc' = "prune" /\ stale' = OutsideCall
  /\ UNCHANGED <<store, call, todo, cur, victim, touched, target, text, left, env>>

PruneDone ==
  /\ pc = "prune" /\ stale = {}
  /\ pc' = AfterSweep
  /\ UNCHANGED <<store, call, todo, cur, stale, victim, touched, target, text, left, env>>

LiftedFromSomePath(o) == file[CHOOSE u \in call.paths : TRUE]

(* The content that is lifted for an origin.                               *)
Lifted(o) == file[o.uri]

(* Third read of the file.                                                 *)
Lift(o) ==
  /\ pc = "write" /\ left = {} /\ o \in touched
  /\ target' = o
  /\ text' = Lifted(o)
  /\ left' = SpansOf[Lifted(o)]
  /\ touched' = touched \ {o}
  /\ UNCHANGED <<store, pc, call, todo, cur, stale, victim, env>>

(* MERGE .. SET of one node: an existing row is overwritten.               *)
WriteNode(s) ==
  /\ pc = "write" /\ s \in left /\ text \notin Bulky
  /\ nodes' = Put(nodes, [origin |-> target, span |-> s],
                  [corpus |-> call.corpus, text |-> text])
  /\ left' = left \ {s}
  /\ UNCHANGED <<origins, pc, call, todo, cur, stale, victim, touched, target, text, env>>

(* _write_py_bulk: DETACH DELETE the ids, then COPY them all.              *)
BulkClear ==
  /\ pc = "write" /\ text \in Bulky
  /\ Ids(target, left) \intersect DOMAIN nodes # {}
  /\ nodes' = Restrict(nodes, DOMAIN nodes \ Ids(target, left))
  /\ UNCHANGED <<origins, job, env>>

BulkCopy ==
  /\ pc = "write" /\ text \in Bulky /\ left # {}
  /\ Ids(target, left) \intersect DOMAIN nodes = {}
  /\ nodes' = PutAll(nodes, Ids(target, left), [corpus |-> call.corpus, text |-> text])
  /\ left' = {}
  /\ UNCHANGED <<origins, pc, call, todo, cur, stale, victim, touched, target, text, env>>

WriteDone ==
  /\ pc = "write" /\ left = {} /\ touched = {}
  /\ pc' = IF call.mode = "gc" THEN "gc" ELSE "idle"
  /\ target' = None /\ text' = None
  /\ UNCHANGED <<store, call, todo, cur, stale, victim, touched, left, env>>

(* prune_orphaned_origins(source, corpus): rows of the corpus without a    *)
(* node go, one statement each.                                            *)
Orphans == {o \in DOMAIN origins : origins[o] = call.corpus /\ NodesOf(o) = {}}

CollectOrphan(o) ==
  /\ pc = "gc" /\ o \in Orphans
  /\ origins' = Restrict(origins, DOMAIN origins \ {o})
  /\ UNCHANGED <<nodes, job, env>>

GcDone ==
  /\ pc = "gc" /\ Orphans = {}
  /\ pc' = "idle"
  /\ UNCHANGED <<store, call, todo, cur, stale, victim, touched, target, text, left, env>>

JobStep ==
  \/ \E u \in Uri : ScanUnchanged(u)
  \/ \E u \in Uri : ScanTouched(u)
  \/ \E o \in OriginId : DeleteNodes(o)
  \/ DeleteRow
  \/ Snapshot
  \/ ScanDone
  \/ PruneDone
  \/ \E o \in OriginId : Lift(o)
  \/ \E s \in Span : WriteNode(s)
  \/ BulkClear
  \/ BulkCopy
  \/ WriteDone
  \/ \E o \in OriginId : CollectOrphan(o)
  \/ GcDone

(* The process dies, or a statement raises: the call is over, the store    *)
(* keeps what was committed.                                               *)
Crash ==
  /\ pc # "idle" /\ crashes < MaxCrashes
  /\ crashes' = crashes + 1
  /\ pc' = "idle"
  /\ todo' = {} /\ cur' = None /\ stale' = {} /\ victim' = None
  /\ touched' = {} /\ target' = None /\ text' = None /\ left' = {}
  /\ UNCHANGED <<store, call, file, edits>>

Edit(u, c) ==
  /\ edits < MaxEdits /\ c # file[u]
  /\ pc = "idle" \/ EditsWhileRunning
  /\ file' = [file EXCEPT ![u] = c]
  /\ edits' = edits + 1
  /\ UNCHANGED <<store, job, crashes>>

Next ==
  \/ \E c \in Corpus, paths \in SUBSET Uri, mode \in {"keep", "prune", "gc"} :
       Start(c, paths, mode)
  \/ JobStep
  \/ Crash
  \/ \E u \in Uri, c \in Content : Edit(u, c)

Spec == Init /\ [][Next]_vars

(* A running extract is a sequential program: it goes on by itself.  When  *)
(* to start one, to edit a file or to fail is up to the environment.       *)
FairSpec == Spec /\ WF_vars(JobStep)

-----------------------------------------------------------------------------
TypeOK ==
  /\ file \in [Uri -> Content]
  /\ DOMAIN origins \subseteq OriginId
  /\ origins \in [DOMAIN origins -> Corpus]
  /\ DOMAIN nodes \subseteq NodeId
  /\ nodes \in [DOMAIN nodes -> [corpus: Corpus, text: Content]]
  /\ pc \in {"idle", "scan", "replace", "prune", "write", "gc"}
  /\ call \in Call
  /\ todo \subseteq Uri
  /\ cur \in Uri \union {None}
  /\ stale \subseteq OriginId
  /\ victim \in OriginId \union {None}
  /\ touched \subseteq OriginId
  /\ target \in OriginId \union {None}
  /\ text \in Content \union {None}
  /\ left \subseteq Span
  /\ edits \in 0..MaxEdits
  /\ crashes \in 0..MaxCrashes

(* Every node's source is in the store: whatever is interrupted, a node    *)
(* row never refers to an origin row that is not there, so source_at       *)
(* always answers.                                                         *)
NoDanglingNodes == \A n \in DOMAIN nodes : n.origin \in DOMAIN origins

(* What find_current_origin says the extract path guarantees: at most one  *)
(* live origin per (uri, source, corpus).                                  *)
OneOriginPerFile ==
  \A o1, o2 \in DOMAIN origins :
    o1.uri = o2.uri /\ origins[o1] = origins[o2] => o1 = o2

(* The nodes a complete extraction of an origin's content writes.          *)
Full(o) ==
  \A s \in SpansOf[o.sha] :
    LET n == [origin |-> o, span |-> s]
    IN  n \in DOMAIN nodes /\ nodes[n].text = o.sha

(* Every syntax node of a path the call has dealt with is represented: its *)
(* current origin is complete, or is one the call is about to write.       *)
EverySyntaxNodeRepresented ==
  pc \in {"scan", "prune", "write", "gc"} =>
    \A u \in call.paths \ todo :
      \E o \in Current(u, call.corpus) : o \in touched \union {target} \/ Full(o)

(* Spans are lossless: a node's text is that of its origin at its span, and*)
(* no node is left of another content.                                     *)
SpansLossless ==
  \A n \in DOMAIN nodes :
    nodes[n].text = n.origin.sha /\ n.span \in SpansOf[n.origin.sha]

(* Nothing but the rows of paths whose sha changed, or that a sweep drops, *)
(* is deleted, and no node but theirs and those that are about to be       *)
(* written anew: a path that is scanned unchanged keeps its row and nodes. *)
Outdated(o) ==
  \/ o.uri \in call.paths /\ o.sha # file[o.uri]
  \/ o.uri \notin call.paths /\ call.mode # "keep"

OnlyStaleDeleted ==
  [][/\ \A o \in DOMAIN origins \ DOMAIN origins' : Outdated(o)
     /\ \A n \in DOMAIN nodes \ DOMAIN nodes' : Outdated(n.origin) \/ n.origin = target]_vars

(* Extracting one corpus deletes no node of another, unless the file has   *)
(* changed since that node was written.                                    *)
CorpusIsolation ==
  [][\A n \in DOMAIN nodes :
       nodes[n].corpus # call.corpus /\ n.origin.sha = file[n.origin.uri]
         => n \in DOMAIN nodes']_vars

(* A path's current origin holds its content on disk, completely.          *)
Stored(u) ==
  \E o \in Current(u, call.corpus) : o.sha = file[u] /\ Full(o)

(* Once the files stay as they are, an extract brings every path it is     *)
(* given up to date.                                                       *)
Converges ==
  \A u \in Uri :
    pc = "scan" /\ u \in todo /\ edits = MaxEdits ~> Stored(u)

=============================================================================
