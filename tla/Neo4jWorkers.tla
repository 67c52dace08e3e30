---------------------------- MODULE Neo4jWorkers ----------------------------
(***************************************************************************)
(* Processes that share one Neo4j database: the worker's activities, which *)
(* the workflow retries until they succeed, entity resolution, and the     *)
(* import of a graph file when a process starts.                           *)
(* (kgweave/knowledge_graph/backends/neo4j_backend.py, ingest_client.py,   *)
(* worker/activities.py)                                                   *)
(*                                                                         *)
(* Each call of _run_write is one transaction, and a step here; a call of  *)
(* the backend is several.  An entity is found by its lowercase name, its  *)
(* key.  No constraint makes keys unique: the import of the graph file     *)
(* creates without looking, and a MERGE creates what it has looked for and *)
(* not found, in two steps here.  So a node is named by its key and by the *)
(* process that created it.                                                *)
(***************************************************************************)
EXTENDS Integers, FiniteSets, PartialMaps

CONSTANTS
  Process,      \* worker and API processes
  Resolver,     \* the one that runs entity resolution
  Key,          \* lowercase names
  Source,       \* documents
  Mentions,     \* document -> the entities extracted from it
  Claims,       \* document -> the triples extracted from it, as pairs of keys
  FileSources,  \* the graph file: key -> sources
  FileClaims,   \* the graph file: pair of keys -> sources
  MaxCalls, MaxFaults, MaxStarts  \* bounds over a behaviour

ASSUME Neo4jAssumption ==
  /\ Resolver \in Process
  /\ Mentions \in [Source -> SUBSET Key]
  /\ \A k \in Source : Claims[k] \subseteq Mentions[k] \X Mentions[k]
  /\ DOMAIN FileSources \subseteq Key
  /\ DOMAIN FileClaims \subseteq (DOMAIN FileSources) \X (DOMAIN FileSources)
  /\ FileSources \in [DOMAIN FileSources -> SUBSET Source]
  /\ IsFiniteSet(Source)
  /\ MaxCalls \in Nat /\ MaxFaults \in Nat /\ MaxStarts \in Nat

VARIABLES
  nodes,     \* [key, by] -> sources
  edges,     \* [from, to, by] -> sources
  file,      \* is there a graph file?
  queue,     \* activities that no process is executing
  job,       \* what each process is doing
  missing,   \* the names that the open MERGE of a process has not found
  expect,    \* history: what the last activity about a source achieved
  absorbed,  \* history: key -> the keys its entity has had
  doubled,   \* history: did an import overlap with anything since the last import?
  raced,     \* history: did two MERGEs look for one missing name at once since then?
  calls, faults, starts

vars == <<nodes, edges, file, queue, job, missing, expect, absorbed, doubled, raced,
          calls, faults, starts>>

Activity == {"ingest", "delete"} \X Source

Up   == [pc |-> "idle", activity |-> {}, merge |-> {}, clashed |-> FALSE]
Down == [Up EXCEPT !.pc = "down"]

At(key) == {n \in DOMAIN nodes : n.key = key}

-----------------------------------------------------------------------------
(* MERGE of relationships between nodes that are already found, which it   *)
(* locks: want gives the sources to add between two nodes.                 *)
Link(want) ==
  LET known == {<<e.from, e.to>> : e \in DOMAIN edges}
      new   == {[from |-> p[1], to |-> p[2], by |-> "merge"] : p \in DOMAIN want \ known}
  IN  [e \in DOMAIN edges \union new |->
         Get(edges, e, {}) \union Get(want, <<e.from, e.to>>, {})]

(* DETACH DELETE *)
Detach(gone) ==
  /\ nodes' = Restrict(nodes, DOMAIN nodes \ gone)
  /\ edges' = Restrict(edges, {e \in DOMAIN edges : e.from \notin gone /\ e.to \notin gone})

Transaction(p, from, to) ==
  /\ job[p].pc = from
  /\ job' = [job EXCEPT ![p].pc = to]
  /\ missing' = [missing EXCEPT ![p] = {}]
  /\ UNCHANGED <<file, queue, doubled, raced, calls, faults, starts>>

-----------------------------------------------------------------------------
(* Which calls disturb each other: deletions and ingests, resolution and   *)
(* any, an import and any.                                                 *)
Loading(p) == job[p].pc \in {"clear", "load_nodes", "load_edges"}
Busy(p)    == job[p].pc \notin {"idle", "down"}

Kind(p) == IF Loading(p) THEN "load"
           ELSE IF job[p].merge # {} THEN "merge"
           ELSE (CHOOSE a \in job[p].activity : TRUE)[1]

Disturbed(p, kind) ==
  {q \in Process \ {p} : Busy(q) /\ ~(kind = Kind(q) /\ kind \in {"ingest", "delete"})}

(* Process p takes up a call of this kind.                                 *)
Begin(p, kind, state) ==
  LET others == Disturbed(p, kind)
  IN  /\ job' = [q \in Process |->
                   IF q = p THEN [state EXCEPT !.clashed = others # {}]
                   ELSE IF q \in others THEN [job[q] EXCEPT !.clashed = TRUE]
                   ELSE job[q]]
      /\ doubled' = (doubled \/ (others # {} /\ (kind = "load" \/ \E q \in others : Loading(q))))

-----------------------------------------------------------------------------
(* get_graph_backend of a new process: load, if there is a file.           *)
Start(p) ==
  /\ job[p].pc = "down" /\ starts < MaxStarts
  /\ starts' = starts + 1
  /\ IF file THEN Begin(p, "load", [Up EXCEPT !.pc = "clear"])
     ELSE job' = [job EXCEPT ![p] = Up] /\ UNCHANGED doubled
  /\ UNCHANGED <<nodes, edges, file, queue, missing, expect, absorbed, raced, calls, faults>>

Clear(p) ==
  /\ job[p].pc = "clear"
  /\ job' = [job EXCEPT ![p].pc = "load_nodes"]
  /\ nodes' = EmptyMap /\ edges' = EmptyMap
  /\ expect' = [k \in Source |-> "unknown"]
  /\ absorbed' = [a \in Key |-> {a}]
  /\ doubled' = job[p].clashed /\ raced' = FALSE
  /\ UNCHANGED <<file, queue, missing, calls, faults, starts>>

LoadNodes(p) ==
  /\ Transaction(p, "load_nodes", "load_edges")
  /\ LET new == {[key |-> a, by |-> p] : a \in DOMAIN FileSources}
     IN  nodes' = [n \in DOMAIN nodes \union new |->
                     IF n \in new THEN FileSources[n.key] ELSE nodes[n]]
  /\ UNCHANGED <<edges, expect, absorbed>>

LoadEdges(p) ==
  /\ Transaction(p, "load_edges", "idle")
  /\ LET new == {[from |-> s, to |-> o, by |-> p] : s, o \in DOMAIN nodes}
         listed == {e \in new : <<e.from.key, e.to.key>> \in DOMAIN FileClaims}
     IN  edges' = [e \in DOMAIN edges \union listed |->
                     IF e \in listed THEN FileClaims[<<e.from.key, e.to.key>>] ELSE edges[e]]
  /\ UNCHANGED <<nodes, expect, absorbed>>

-----------------------------------------------------------------------------
Submit(a) ==
  /\ calls < MaxCalls /\ a \notin queue
  /\ queue' = queue \union {a} /\ calls' = calls + 1
  /\ UNCHANGED <<nodes, edges, file, job, missing, expect, absorbed, doubled, raced, faults, starts>>

Take(p, a) ==
  /\ job[p].pc = "idle" /\ a \in queue
  /\ queue' = queue \ {a}
  /\ Begin(p, a[1], [Up EXCEPT !.pc = IF a[1] = "ingest" THEN "entities" ELSE "unlink",
                               !.activity = {a}])
  /\ expect' = [expect EXCEPT ![a[2]] = "unknown"]
  /\ UNCHANGED <<nodes, edges, file, missing, absorbed, raced, calls, faults, starts>>

(* The document an activity is about.                                      *)
Document(p) == (CHOOSE a \in job[p].activity : TRUE)[2]

(* extract_and_commit: upsert_entities in two transactions, upsert_triples.*)
(* MERGE finds what is committed when it looks; before it creates a node,  *)
(* another transaction may have.                                           *)
Look(p) ==
  /\ job[p].pc = "entities"
  /\ LET absent == {a \in Mentions[Document(p)] : At(a) = {}}
     IN  /\ missing' = [missing EXCEPT ![p] = absent]
         /\ raced' = (raced \/ \E q \in Process \ {p} :
                        job[q].pc = "create" /\ absent \cap Mentions[Document(q)] # {})
  /\ job' = [job EXCEPT ![p].pc = "create"]
  /\ UNCHANGED <<nodes, edges, file, queue, expect, absorbed, doubled, calls, faults, starts>>

CreatesAll(p) ==
  /\ Transaction(p, "create", "credit")
  /\ LET k == Document(p)
         new == {[key |-> a, by |-> p] : a \in Mentions[k]}
     IN  nodes' = [n \in DOMAIN nodes \union new |-> Get(nodes, n, {k})]
  /\ UNCHANGED <<edges, expect, absorbed>>

UpsertEntities(p) ==
  /\ Transaction(p, "create", "credit")
  /\ LET k == Document(p)
         absent == {a \in Mentions[k] : At(a) = {}}
     IN  \E stale \in SUBSET (missing[p] \ absent) :
           LET new == {[key |-> a, by |-> p] : a \in absent \union stale}
           IN  nodes' = [n \in DOMAIN nodes \union new |-> Get(nodes, n, {k})]
  /\ UNCHANGED <<edges, expect, absorbed>>

NotCredited(p) ==
  /\ Transaction(p, "credit", "triples")
  /\ UNCHANGED <<nodes, edges, expect, absorbed>>

CreditSources(p) ==
  /\ Transaction(p, "credit", "triples")
  /\ LET k == Document(p)
     IN  nodes' = [n \in DOMAIN nodes |->
                     IF n.key \in Mentions[k] THEN nodes[n] \union {k} ELSE nodes[n]]
  /\ UNCHANGED <<edges, expect, absorbed>>

UpsertTriples(p) ==
  /\ Transaction(p, "triples", "report")
  /\ LET k == Document(p)
     IN  edges' = Link([e \in UNION {At(c[1]) \X At(c[2]) : c \in Claims[k]} |-> {k}])
  /\ UNCHANGED <<nodes, expect, absorbed>>

(* remove_by_source, in three transactions.                                *)
Unlink(p) ==
  /\ Transaction(p, "unlink", "prune")
  /\ edges' = Restrict(edges, {e \in DOMAIN edges : Document(p) \notin edges[e]})
  /\ UNCHANGED <<nodes, expect, absorbed>>

PrunesThree(p) ==
  /\ Transaction(p, "prune", "delete")
  /\ nodes' = [n \in DOMAIN nodes |->
                 IF Cardinality(nodes[n]) > 2 THEN nodes[n] \ {Document(p)} ELSE nodes[n]]
  /\ UNCHANGED <<edges, expect, absorbed>>

Prune(p) ==
  /\ Transaction(p, "prune", "delete")
  /\ nodes' = [n \in DOMAIN nodes |->
                 IF Cardinality(nodes[n]) > 1 THEN nodes[n] \ {Document(p)} ELSE nodes[n]]
  /\ UNCHANGED <<edges, expect, absorbed>>

DeleteNodes(p) ==
  /\ Transaction(p, "delete", "report")
  /\ Detach({n \in DOMAIN nodes : nodes[n] = {Document(p)}})
  /\ UNCHANGED <<expect, absorbed>>

(* The activity's result reaches the workflow.                             *)
Report(p) ==
  /\ job[p].pc = "report"
  /\ job' = [job EXCEPT ![p] = Up]
  /\ expect' = [expect EXCEPT ![Document(p)] =
       IF job[p].clashed THEN "unknown" ELSE IF Kind(p) = "ingest" THEN "present" ELSE "gone"]
  /\ UNCHANGED <<nodes, edges, file, queue, missing, absorbed, doubled, raced, calls, faults, starts>>

-----------------------------------------------------------------------------
(* merge_entities, after its test that both are there: four transactions.  *)
(* The resolver pairs entities with different keys, or two nodes with one. *)
Merge(p, c, d) ==
  /\ job[p].pc = "idle" /\ p = Resolver /\ calls < MaxCalls
  /\ At(c) # {} /\ At(d) # {} /\ (c = d => Cardinality(At(c)) > 1)
  /\ calls' = calls + 1
  /\ Begin(p, "merge", [Up EXCEPT !.pc = "outgoing", !.merge = {<<c, d>>}])
  /\ UNCHANGED <<nodes, edges, file, queue, missing, expect, absorbed, raced, faults, starts>>

Canonical(p) == (CHOOSE m \in job[p].merge : TRUE)[1]
Duplicate(p) == (CHOOSE m \in job[p].merge : TRUE)[2]

(* Relationships of the duplicate go to the canonical entity, if it is     *)
(* still there, except those between the two.                              *)
Outgoing(p) ==
  /\ Transaction(p, "outgoing", "incoming")
  /\ LET canon == At(Canonical(p))
         moved == {e \in DOMAIN edges : e.from.key = Duplicate(p) /\ e.to.key # Canonical(p)}
         want  == [x \in canon \X {e.to : e \in moved} |->
                     UNION {edges[e] : e \in {r \in moved : r.to = x[2]}}]
     IN  edges' = IF canon = {} THEN edges ELSE Restrict(Link(want), DOMAIN Link(want) \ moved)
  /\ UNCHANGED <<nodes, expect, absorbed>>

Incoming(p) ==
  /\ Transaction(p, "incoming", "absorb")
  /\ LET canon == At(Canonical(p))
         moved == {e \in DOMAIN edges : e.to.key = Duplicate(p) /\ e.from.key # Canonical(p)}
         want  == [x \in {e.from : e \in moved} \X canon |->
                     UNION {edges[e] : e \in {r \in moved : r.from = x[1]}}]
     IN  edges' = IF canon = {} THEN edges ELSE Restrict(Link(want), DOMAIN Link(want) \ moved)
  /\ UNCHANGED <<nodes, expect, absorbed>>

Absorb(p) ==
  /\ Transaction(p, "absorb", "remove")
  /\ nodes' = [n \in DOMAIN nodes |->
                 IF n.key = Canonical(p)
                 THEN nodes[n] \union UNION {nodes[m] : m \in At(Duplicate(p))} ELSE nodes[n]]
  /\ UNCHANGED <<edges, expect, absorbed>>

(* If the two have one name, both go.                                      *)
Remove(p) ==
  /\ job[p].pc = "remove"
  /\ job' = [job EXCEPT ![p] = Up]
  /\ Detach(At(Duplicate(p)))
  /\ LET lossy == job[p].clashed \/ Canonical(p) = Duplicate(p)
     IN  expect' = [k \in Source |-> IF lossy /\ expect[k] = "present"
                                    THEN "unknown" ELSE expect[k]]
  /\ absorbed' = [a \in Key |-> IF Duplicate(p) \in absorbed[a]
                                THEN absorbed[a] \union {Canonical(p)} ELSE absorbed[a]]
  /\ UNCHANGED <<file, queue, missing, doubled, raced, calls, faults, starts>>

-----------------------------------------------------------------------------
(* A transaction fails: the workflow retries the activity; resolution and  *)
(* an import are given up.                                                 *)
Fail(p) ==
  /\ Busy(p) /\ faults < MaxFaults
  /\ faults' = faults + 1
  /\ job' = [job EXCEPT ![p] = Up] /\ missing' = [missing EXCEPT ![p] = {}]
  /\ queue' = queue \union job[p].activity
  /\ UNCHANGED <<nodes, edges, file, expect, absorbed, doubled, raced, calls, starts>>

Crash(p) ==
  /\ job[p].pc # "down" /\ faults < MaxFaults
  /\ faults' = faults + 1
  /\ job' = [job EXCEPT ![p] = Down] /\ missing' = [missing EXCEPT ![p] = {}]
  /\ queue' = queue \union job[p].activity
  /\ UNCHANGED <<nodes, edges, file, expect, absorbed, doubled, raced, calls, starts>>

-----------------------------------------------------------------------------
Init ==
  /\ nodes = EmptyMap /\ edges = EmptyMap
  /\ file \in BOOLEAN
  /\ queue = {}
  /\ job = [p \in Process |-> Down]
  /\ missing = [p \in Process |-> {}]
  /\ expect = [k \in Source |-> "unknown"]
  /\ absorbed = [a \in Key |-> {a}]
  /\ doubled = FALSE /\ raced = FALSE
  /\ calls = 0 /\ faults = 0 /\ starts = 0

Next ==
  \/ \E a \in Activity : Submit(a)
  \/ \E p \in Process :
       \/ Start(p) \/ Clear(p) \/ LoadNodes(p) \/ LoadEdges(p)
       \/ \E a \in Activity : Take(p, a)
       \/ Look(p) \/ UpsertEntities(p) \/ CreditSources(p) \/ UpsertTriples(p)
       \/ Unlink(p) \/ Prune(p) \/ DeleteNodes(p)
       \/ Report(p)
       \/ \E c, d \in Key : Merge(p, c, d)
       \/ Outgoing(p) \/ Incoming(p) \/ Absorb(p) \/ Remove(p)
       \/ Fail(p) \/ Crash(p)

Spec == Init /\ [][Next]_vars

-----------------------------------------------------------------------------
(* An ingest that reported success, however often it was retried and       *)
(* whatever other documents were ingested meanwhile, stays in the graph    *)
(* until its document is deleted: each of its entities is there and        *)
(* credits the document, under its name or one it was merged into.  (Not   *)
(* if a deletion or a merge overlapped it, or an import anything, or when  *)
(* two nodes of one name have been merged.)                                *)
IngestedStays ==
  ~doubled =>
    \A k \in Source : expect[k] = "present" =>
      \A a \in Mentions[k] :
        \E n \in DOMAIN nodes : n.key \in absorbed[a] /\ k \in nodes[n]

(* After a deletion that reported success, and that no ingest or merge     *)
(* overlapped, nothing credits the document any more.                      *)
DeletedIsGone ==
  \A k \in Source : expect[k] = "gone" =>
    /\ \A n \in DOMAIN nodes : k \notin nodes[n]
    /\ \A e \in DOMAIN edges : k \notin edges[e]

(* "Server-side entity resolution via case-insensitive MERGE": as long as  *)
(* no import has overlapped anything and no two MERGEs have looked at once *)
(* for a name that was not there, no two entities have names that differ   *)
(* only by case, and no two relationships join the same entities.          *)
OneNodePerKey ==
  ~doubled /\ ~raced =>
    /\ \A n, m \in DOMAIN nodes : n.key = m.key => n = m
    /\ \A e, f \in DOMAIN edges : e.from = f.from /\ e.to = f.to => e = f

=============================================================================
