---------------------------- MODULE GraphService ----------------------------
(***************************************************************************)
(* One process that serves queries and takes documents: the lazily built,  *)
(* process-wide objects of kgweave.knowledge_graph (__init__.py) and of the*)
(* query service, first used by several threads at once, and the community *)
(* sidecar that outlives the process.                                      *)
(*                                                                         *)
(* A graph is the set of its entities' names.  A backend object is named   *)
(* after the thread that constructed it: no thread constructs two in the   *)
(* life of a process.  Nothing in the service saves the graph: a restart   *)
(* begins from the graph file again.                                       *)
(***************************************************************************)
EXTENDS Integers, FiniteSets, PartialMaps

CONSTANTS
  Thread,       \* the threads of the request pool
  Name,         \* names of entities
  FileNames,    \* the names in the graph file
  Communities,  \* the numbers Leiden gives communities: 0, 1, ..
  MinSizes,     \* what community_min_size may be configured to
  None,         \* nothing cached
  MaxRequests,  \* bound: requests begun over a behaviour
  MaxRestarts   \* bound: restarts over a behaviour

ASSUME ServiceAssumption ==
  /\ FileNames \subseteq Name
  /\ Communities \subseteq Nat /\ MinSizes \subseteq Nat \ {0}
  /\ None \notin Thread
  /\ MaxRequests \in Nat /\ MaxRestarts \in Nat

VARIABLES
  file,        \* the graph file: absent, good or corrupt
  graph,       \* backend object -> its names
  current,     \* _graph_backend
  service,     \* what DefaultKGQueryService keeps: _backend, _expander
  client,      \* the backend of the BackendIngestClient
  index,       \* the cached term index
  sidecar,     \* <graph_path>.communities.json
  job,         \* what each thread is doing
  committed,   \* history: names ingested since the process began
  overlapped,  \* history: did a call enter get_graph_backend while the first was in it?
  requests, restarts

vars == <<file, graph, current, service, client, index, sidecar, job,
          committed, overlapped, requests, restarts>>

-----------------------------------------------------------------------------
Idle == [op |-> None, pc |-> "idle", target |-> None, names |-> {},
         partition |-> EmptyMap, summaries |-> EmptyMap]

NoExpander == [built |-> FALSE, matcher |-> {}, partition |-> EmptyMap, summaries |-> EmptyMap]

Members(p, c) == {n \in DOMAIN p : p[n] = c}

(* What _apply_min_size leaves of a partition Leiden numbered by size: what*)
(* is too small goes to the bucket, -1.                                    *)
Partitions(S) ==
  {p \in [S -> Communities \union {-1}] :
     /\ \E m \in MinSizes :
          /\ \A c \in Communities : Members(p, c) = {} \/ Cardinality(Members(p, c)) >= m
          /\ m = 1 => Members(p, -1) = {}
     /\ \A c, d \in Communities :
          d < c => Cardinality(Members(p, d)) >= Cardinality(Members(p, c))}

NoBackend == [t \in Thread |-> {}]

NothingBuilt == [backend |-> None, expander |-> NoExpander]

AllIdle == [t \in Thread |-> Idle]

Init ==
  /\ file \in {"absent", "good", "corrupt"}
  /\ graph = NoBackend /\ current = None
  /\ service = NothingBuilt /\ client = None /\ index = None
  /\ sidecar = None
  /\ job = AllIdle
  /\ committed = {} /\ overlapped = FALSE
  /\ requests = 0 /\ restarts = 0

Step(t, from, to) ==
  /\ job[t].pc = from
  /\ job' = [job EXCEPT ![t].pc = to]

Done(t, from) ==
  /\ job[t].pc = from
  /\ job' = [job EXCEPT ![t] = Idle]

-----------------------------------------------------------------------------
(* get_graph_backend: the first test, the construction and publication, the*)
(* load into whatever is published by then, and the return.                *)
Op == {"entity", "expand", "terms", "ingest", "post"}

(* What an operation finds cached and does not ask get_graph_backend for.  *)
Cached(op) ==
  \/ op \in {"entity", "expand"} /\ service.backend # None
  \/ op = "terms" /\ index # None
  \/ op = "ingest" /\ client # None

Begin(t, op) ==
  /\ job[t].pc = "idle" /\ requests < MaxRequests
  /\ requests' = requests + 1
  /\ job' = [job EXCEPT ![t].op = op, ![t].pc = IF Cached(op) THEN "use" ELSE "get"]
  /\ UNCHANGED <<file, graph, current, service, client, index, sidecar, committed, overlapped, restarts>>

Initialising == \E t \in Thread : job[t].pc \in {"publish", "load", "loading"}

NeverCached(t) ==
  /\ Step(t, "get", "publish")
  /\ overlapped' = (overlapped \/ Initialising)
  /\ UNCHANGED <<file, graph, current, service, client, index, sidecar, committed, requests, restarts>>

AlwaysReloads(t) ==
  /\ Step(t, "get", IF current = None THEN "publish" ELSE "load")
  /\ overlapped' = (overlapped \/ Initialising)
  /\ UNCHANGED <<file, graph, current, service, client, index, sidecar, committed, requests, restarts>>

Check(t) ==
  /\ Step(t, "get", IF current = None THEN "publish" ELSE "bind")
  /\ overlapped' = (overlapped \/ Initialising)
  /\ UNCHANGED <<file, graph, current, service, client, index, sidecar, committed, requests, restarts>>

LoadsOnlyTheFirst(t) ==
  /\ Step(t, "publish", IF current = None THEN "load" ELSE "bind")
  /\ current' = t
  /\ UNCHANGED <<file, graph, service, client, index, sidecar, committed, overlapped, requests, restarts>>

NeverLoads(t) ==
  /\ Step(t, "publish", "bind")
  /\ current' = t
  /\ UNCHANGED <<file, graph, service, client, index, sidecar, committed, overlapped, requests, restarts>>

Publish(t) ==
  /\ Step(t, "publish", "load")
  /\ current' = t
  /\ UNCHANGED <<file, graph, service, client, index, sidecar, committed, overlapped, requests, restarts>>

LoadBegin(t) ==
  /\ job[t].pc = "load"
  /\ job' = [job EXCEPT ![t].pc = IF file = "absent" THEN "bind" ELSE "loading",
                        ![t].target = IF file = "absent" THEN None ELSE current]
  /\ UNCHANGED <<file, graph, current, service, client, index, sidecar, committed, overlapped, requests, restarts>>

(* load replaces the graph; a failure is logged and the graph stays.       *)
LoadEnd(t) ==
  /\ job[t].pc = "loading"
  /\ job' = [job EXCEPT ![t].pc = "bind", ![t].target = None]
  /\ graph' = IF file = "good" THEN [graph EXCEPT ![job[t].target] = FileNames] ELSE graph
  /\ UNCHANGED <<file, current, service, client, index, sidecar, committed, overlapped, requests, restarts>>

(* The return of the global, and where the caller keeps it.                *)
Bind(t) ==
  LET op == job[t].op
  IN  /\ Step(t, "bind", "use")
      /\ service' = IF op \in {"entity", "expand"}
                    THEN [service EXCEPT !.backend = current] ELSE service
      /\ client' = IF op = "ingest" THEN current ELSE client
      /\ UNCHANGED <<file, graph, current, index, sidecar, committed, overlapped, requests, restarts>>

-----------------------------------------------------------------------------
Answer(t) ==
  /\ \/ job[t].op = "entity"
     \/ job[t].op = "expand" /\ service.expander.built
     \/ job[t].op = "terms" /\ index # None
  /\ Done(t, "use")
  /\ UNCHANGED <<file, graph, current, service, client, index, sidecar, committed, overlapped, requests, restarts>>

(* get_term_index: the walk over the graph, then the assignment.           *)
WalkTerms(t) ==
  /\ job[t].op = "terms" /\ job[t].pc = "use" /\ index = None
  /\ job' = [job EXCEPT ![t].pc = "index", ![t].names = graph[current]]
  /\ UNCHANGED <<file, graph, current, service, client, index, sidecar, committed, overlapped, requests, restarts>>

PublishIndex(t) ==
  /\ Done(t, "index")
  /\ index' = job[t].names
  /\ UNCHANGED <<file, graph, current, service, client, sidecar, committed, overlapped, requests, restarts>>

(* BackendIngestClient.extract_and_commit.                                 *)
Ingest(t, n) ==
  /\ job[t].op = "ingest"
  /\ Done(t, "use")
  /\ graph' = [graph EXCEPT ![client] = @ \union {n}]
  /\ committed' = committed \union {n}
  /\ UNCHANGED <<file, current, service, client, index, sidecar, overlapped, requests, restarts>>

-----------------------------------------------------------------------------
(* Communities: for a query expander that is not built yet, and after an   *)
(* ingestion.  The detector is never ready when it is constructed, and so  *)
(* is always run.                                                          *)
NewDetector(t) ==
  /\ job[t].op = "post" \/ (job[t].op = "expand" /\ ~service.expander.built)
  /\ job[t].pc = "use"
  /\ job' = [job EXCEPT ![t].pc = "detect",
               ![t].summaries = IF sidecar = None THEN EmptyMap ELSE sidecar.summaries]
  /\ UNCHANGED <<file, graph, current, service, client, index, sidecar, committed, overlapped, requests, restarts>>

DetectedIn(t) == graph[IF job[t].op = "post" THEN current ELSE service.backend]

AfterDetector(t) == IF job[t].op = "post" THEN Idle ELSE [job[t] EXCEPT !.pc = "expander"]

Detect(t) ==
  /\ job[t].pc = "detect"
  /\ IF DetectedIn(t) = {}
     THEN job' = [job EXCEPT ![t] = AfterDetector(t)]
     ELSE \E p \in Partitions(DetectedIn(t)) :
            job' = [job EXCEPT ![t].partition = p, ![t].pc = "summarise"]
  /\ UNCHANGED <<file, graph, current, service, client, index, sidecar, committed, overlapped, requests, restarts>>

UpdatesSummaries(t) ==
  /\ job[t].pc = "summarise"
  /\ LET p == job[t].partition
         old == job[t].summaries
     IN  \E done \in SUBSET {c \in Communities : Members(p, c) # {}} :
           job' = [job EXCEPT ![t].pc = "save",
                     ![t].summaries = [c \in done \union DOMAIN old |->
                                         IF c \in done THEN Members(p, c) ELSE old[c]]]
  /\ UNCHANGED <<file, graph, current, service, client, index, sidecar, committed, overlapped, requests, restarts>>

(* summarize_all: one summary per community but the bucket, less those the *)
(* model failed on; a summary is the names it lists.                       *)
Summarise(t) ==
  /\ job[t].pc = "summarise"
  /\ LET p == job[t].partition
     IN  \E done \in SUBSET {c \in Communities : Members(p, c) # {}} :
           job' = [job EXCEPT ![t].pc = "save",
                     ![t].summaries = [c \in done |-> Members(p, c)]]
  /\ UNCHANGED <<file, graph, current, service, client, index, sidecar, committed, overlapped, requests, restarts>>

(* save_sidecar replaces the file at once, or logs that it could not.      *)
SaveSidecar(t) ==
  /\ job[t].pc = "save"
  /\ job' = [job EXCEPT ![t] = AfterDetector(t)]
  /\ sidecar' \in {sidecar, [summaries |-> job[t].summaries, assigned |-> job[t].partition]}
  /\ UNCHANGED <<file, graph, current, service, client, index, committed, overlapped, requests, restarts>>

(* Any exception on the way: the expander goes without a detector.         *)
DetectorFails(t) ==
  /\ job[t].pc \in {"detect", "summarise"}
  /\ job' = [job EXCEPT ![t] = IF job[t].op = "post" THEN Idle
                               ELSE [@ EXCEPT !.pc = "expander",
                                       !.partition = EmptyMap, !.summaries = EmptyMap]]
  /\ UNCHANGED <<file, graph, current, service, client, index, sidecar, committed, overlapped, requests, restarts>>

BuildExpander(t) ==
  /\ Done(t, "expander")
  /\ service' = [service EXCEPT !.expander =
       [built |-> TRUE, matcher |-> graph[service.backend],
        partition |-> job[t].partition, summaries |-> job[t].summaries]]
  /\ UNCHANGED <<file, graph, current, client, index, sidecar, committed, overlapped, requests, restarts>>

-----------------------------------------------------------------------------
ThreadStep(t) ==
  \/ Check(t) \/ Publish(t) \/ LoadBegin(t) \/ LoadEnd(t) \/ Bind(t)
  \/ Answer(t)
  \/ WalkTerms(t) \/ PublishIndex(t)
  \/ \E n \in Name : Ingest(t, n)
  \/ NewDetector(t) \/ Detect(t) \/ Summarise(t) \/ SaveSidecar(t)
  \/ DetectorFails(t) \/ BuildExpander(t)

(* The process ends, wherever its threads are, and another begins.         *)
Restart ==
  /\ restarts < MaxRestarts
  /\ restarts' = restarts + 1
  /\ graph' = NoBackend /\ current' = None
  /\ service' = NothingBuilt /\ client' = None /\ index' = None
  /\ job' = AllIdle
  /\ committed' = {} /\ overlapped' = FALSE
  /\ UNCHANGED <<file, sidecar, requests>>

Next ==
  \/ \E t \in Thread, op \in Op : Begin(t, op)
  \/ \E t \in Thread : ThreadStep(t)
  \/ Restart

Spec == Init /\ [][Next]_vars

(* A request that has begun is carried on.                                 *)
FairSpec == Spec /\ \A t \in Thread : WF_vars(ThreadStep(t))

-----------------------------------------------------------------------------
CommunityMap == UNION {[S -> Communities \union {-1}] : S \in SUBSET Name}

SummaryMap == UNION {[C -> SUBSET Name] : C \in SUBSET Communities}

Pc == {"idle", "get", "publish", "load", "loading", "bind", "use", "index",
       "detect", "summarise", "save", "expander"}

(* A thread that uses the graph has one; an expander is of some backend.   *)
TypeOK ==
  /\ file \in {"absent", "good", "corrupt"}
  /\ graph \in [Thread -> SUBSET Name]
  /\ current \in Thread \union {None} /\ client \in Thread \union {None}
  /\ service.backend \in Thread \union {None}
  /\ service.expander.matcher \subseteq Name
  /\ service.expander.partition \in CommunityMap
  /\ service.expander.summaries \in SummaryMap
  /\ service.expander.built => service.backend # None
  /\ index = None \/ index \subseteq Name
  /\ sidecar = None \/ (sidecar.summaries \in SummaryMap /\ sidecar.assigned \in CommunityMap)
  /\ \A t \in Thread :
       /\ job[t].op \in Op \union {None} /\ job[t].pc \in Pc
       /\ job[t].partition \in CommunityMap /\ job[t].summaries \in SummaryMap
       /\ job[t].pc = "loading" => job[t].target \in Thread
       /\ job[t].pc \notin {"idle", "get", "publish"} => current # None
  /\ committed \subseteq Name /\ overlapped \in BOOLEAN

(* get_graph_backend's "process-wide graph backend singleton": whoever     *)
(* keeps a backend keeps the one that is published, unless a call entered  *)
(* the function while the first was in it.                                 *)
OneGraph ==
  ~overlapped =>
    /\ service.backend \in {None, current}
    /\ client \in {None, current}

(* "Ingest writes are immediately visible to retrieval", and stay so: no   *)
(* load replaces a graph that a document was committed to.                 *)
NothingLost ==
  ~overlapped /\ service.backend # None =>
    /\ committed \subseteq graph[service.backend]
    /\ file = "good" => FileNames \subseteq graph[service.backend]

(* What is cached for the life of the process was taken from a graph whose *)
(* file had been loaded.                                                   *)
CachesFromLoadedGraph ==
  ~overlapped /\ file = "good" =>
    /\ index # None => FileNames \subseteq index
    /\ service.expander.built => FileNames \subseteq service.expander.matcher

(* The sidecar's summaries are of the communities it assigns, although they*)
(* are keyed by numbers that mean nothing in another detection, and threads*)
(* save concurrently.                                                      *)
SidecarConsistent ==
  sidecar # None =>
    \A c \in DOMAIN sidecar.summaries : sidecar.summaries[c] = Members(sidecar.assigned, c)

(* An expander never offers the members of a summary of another detection. *)
ExpanderConsistent ==
  LET e == service.expander
  IN  \A n \in DOMAIN e.partition :
        e.partition[n] \in DOMAIN e.summaries => n \in e.summaries[e.partition[n]]

(* Summaries belong to the partition they are kept with, in the file and in*)
(* the service, although both are keyed by the numbers of one detection.   *)
SummariesConsistent == SidecarConsistent /\ ExpanderConsistent

(* However the first calls overlap, the graph that is published in the end *)
(* gets the file's content.                                                *)
EventuallyLoaded ==
  file = "good" /\ current # None ~> current = None \/ FileNames \subseteq graph[current]

=============================================================================
