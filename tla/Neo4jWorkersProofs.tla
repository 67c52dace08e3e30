------------------------- MODULE Neo4jWorkersProofs -------------------------
(***************************************************************************)
(* What the workers on one Neo4j database report stays true, for any       *)
(* number of processes, documents and calls: proofs of the properties of   *)
(* Neo4jWorkers.                                                           *)
(***************************************************************************)
EXTENDS Neo4jWorkers, FiniteSetTheorems, TLAPS

LoadPc   == {"clear", "load_nodes", "load_edges"}
IngestPc == {"entities", "create", "credit", "triples", "report"}
DeletePc == {"unlink", "prune", "delete", "report"}
MergePc  == {"outgoing", "incoming", "absorb", "remove"}

(* The calls a process can be in.                                          *)
Resting(j)     == j.pc \in {"idle", "down"} /\ j.activity = {} /\ j.merge = {}
Importing(j)   == j.pc \in LoadPc /\ j.activity = {} /\ j.merge = {}
Ingests(j, k)  == j.pc \in IngestPc /\ j.activity = {<<"ingest", k>>} /\ j.merge = {}
Deletes(j, k)  == j.pc \in DeletePc /\ j.activity = {<<"delete", k>>} /\ j.merge = {}
Merges(j, c, d) == j.pc \in MergePc /\ j.activity = {} /\ j.merge = {<<c, d>>}

Call(j) ==
  \/ Resting(j) \/ Importing(j)
  \/ \E k \in Source : Ingests(j, k) \/ Deletes(j, k)
  \/ \E c, d \in Key : Merges(j, c, d)

JobType == [pc: LoadPc \union IngestPc \union DeletePc \union MergePc \union {"idle", "down"},
            activity: SUBSET Activity, merge: SUBSET (Key \X Key), clashed: BOOLEAN]

(* Two calls that do not disturb each other.                               *)
Harmless(i, j) ==
  \/ \E k, l \in Source : Ingests(i, k) /\ Ingests(j, l)
  \/ \E k, l \in Source : Deletes(i, k) /\ Deletes(j, l)

Typed ==
  /\ DOMAIN nodes \subseteq [key: Key, by: Process]
  /\ nodes \in [DOMAIN nodes -> SUBSET Source]
  /\ edges = [e \in DOMAIN edges |-> edges[e]]
  /\ queue \subseteq Activity
  /\ job \in [Process -> JobType]
  /\ \A p \in Process : Call(job[p])
  /\ expect \in [Source -> {"unknown", "present", "gone"}]
  /\ absorbed \in [Key -> SUBSET Key]
  /\ \A a \in Key : a \in absorbed[a]
  /\ doubled \in BOOLEAN

(* Calls that run into one another know it.                                *)
ClashInv ==
  \A p, q \in Process :
    p # q /\ Busy(p) /\ Busy(q) /\ ~Harmless(job[p], job[q]) =>
      job[p].clashed /\ job[q].clashed

(* During an import nothing counts as done, and until something runs into  *)
(* it the database is what it has imported.                                *)
ImportInv ==
  \A p \in Process : job[p].pc \in {"load_nodes", "load_edges"} =>
    /\ \A k \in Source : expect[k] = "unknown"
    /\ doubled \/ \A q \in Process \ {p} : ~Busy(q)
    /\ doubled \/ DOMAIN edges = {}
    /\ doubled \/ job[p].pc = "load_edges" \/ DOMAIN nodes = {}

ExpectInv ==
  \A p \in Process, k \in Source :
    /\ Ingests(job[p], k) => expect[k] # "gone"
    /\ Deletes(job[p], k) => expect[k] # "present"

(* How far an undisturbed call has come.                                   *)
IngestAt(p, k) ==
  Ingests(job[p], k) =>
    /\ job[p].pc = "credit" =>
         \A a \in Mentions[k] : \E n \in DOMAIN nodes : n.key = a
    /\ job[p].pc \in {"triples", "report"} =>
         \A a \in Mentions[k] : \E n \in DOMAIN nodes : n.key = a /\ k \in nodes[n]

DeleteAt(p, k) ==
  Deletes(job[p], k) =>
    /\ job[p].pc \in {"prune", "delete", "report"} => \A e \in DOMAIN edges : k \notin edges[e]
    /\ job[p].pc = "delete" => \A n \in DOMAIN nodes : k \in nodes[n] => nodes[n] = {k}
    /\ job[p].pc = "report" => \A n \in DOMAIN nodes : k \notin nodes[n]

MergeAt(p, c, d) ==
  Merges(job[p], c, d) =>
    /\ job[p].pc # "remove" => \E n \in DOMAIN nodes : n.key = c
    /\ job[p].pc = "remove" =>
         \A n \in DOMAIN nodes : n.key = d =>
           \E m \in DOMAIN nodes : m.key = c /\ nodes[n] \subseteq nodes[m]

ProgressAt(p) ==
  ~job[p].clashed =>
    /\ \A k \in Source : IngestAt(p, k) /\ DeleteAt(p, k)
    /\ \A c, d \in Key : MergeAt(p, c, d)

ProgressInv == \A p \in Process : ProgressAt(p)

(* What an open MERGE has not found is still not there, and nobody else    *)
(* looks for it, unless the history says otherwise.                        *)
RaceInv ==
  /\ missing \in [Process -> SUBSET Key]
  /\ raced \in BOOLEAN
  /\ \A p \in Process : job[p].pc = "create" =>
       /\ missing[p] \subseteq Mentions[Document(p)]
       /\ \A a \in missing[p] :
            \/ doubled \/ raced
            \/ /\ \A n \in DOMAIN nodes : n.key # a
               /\ \A q \in Process \ {p} :
                    job[q].pc = "create" => a \notin Mentions[Document(q)]

CoreInv ==
  /\ Typed /\ ClashInv /\ ImportInv /\ ExpectInv /\ ProgressInv
  /\ IngestedStays /\ DeletedIsGone /\ OneNodePerKey

IInv == CoreInv /\ RaceInv

-----------------------------------------------------------------------------
(* A process in one of the five calls.                                     *)
LEMMA CallFacts ==
  ASSUME Typed, NEW p \in Process
  PROVE  /\ Call(job[p]) /\ job[p] \in JobType
         /\ Busy(p) <=> ~Resting(job[p])
         /\ Loading(p) <=> Importing(job[p])
  BY DEF Typed, Call, Busy, Loading, Resting, Importing, Ingests, Deletes, Merges,
         LoadPc, IngestPc, DeletePc, MergePc

LEMMA Chosen == \A x : (CHOOSE a \in {x} : TRUE) = x
  OBVIOUS

LEMMA Documents ==
  ASSUME NEW p \in Process, NEW k \in Source, Ingests(job[p], k) \/ Deletes(job[p], k)
  PROVE  /\ Document(p) = k
         /\ Ingests(job[p], k) => Kind(p) = "ingest"
         /\ Deletes(job[p], k) => Kind(p) = "delete"
  <1>1. ~Loading(p) /\ job[p].merge = {}
    BY DEF Ingests, Deletes, Loading, IngestPc, DeletePc
  <1>2. CASE Ingests(job[p], k)
    <2>1. (CHOOSE a \in job[p].activity : TRUE) = <<"ingest", k>>
      BY <1>2, Chosen DEF Ingests
    <2> QED
      BY <1>1, <1>2, <2>1 DEF Kind, Document, Ingests, Deletes
  <1>3. CASE Deletes(job[p], k)
    <2>1. (CHOOSE a \in job[p].activity : TRUE) = <<"delete", k>>
      BY <1>3, Chosen DEF Deletes
    <2> QED
      BY <1>1, <1>3, <2>1 DEF Kind, Document, Ingests, Deletes
  <1> QED
    BY <1>2, <1>3

LEMMA Merged ==
  ASSUME NEW p \in Process, NEW c \in Key, NEW d \in Key, Merges(job[p], c, d)
  PROVE  Canonical(p) = c /\ Duplicate(p) = d /\ Kind(p) = "merge"
  <1>1. ~Loading(p) /\ job[p].merge # {}
    BY DEF Merges, Loading, MergePc
  <1>2. (CHOOSE m \in job[p].merge : TRUE) = <<c, d>>
    BY Chosen DEF Merges
  <1>3. Canonical(p) = <<c, d>>[1] /\ Duplicate(p) = <<c, d>>[2]
    BY <1>2 DEF Canonical, Duplicate
  <1>4. Kind(p) = "merge"
    BY <1>1 DEF Kind
  <1> QED
    BY <1>3, <1>4

(* What Disturbed leaves out is harmless.                                  *)
LEMMA NotDisturbed ==
  ASSUME Typed, NEW p \in Process, NEW q \in Process, p # q, Busy(q),
         NEW kind, q \notin Disturbed(p, kind)
  PROVE  \/ kind = "ingest" /\ \E k \in Source : Ingests(job[q], k)
         \/ kind = "delete" /\ \E k \in Source : Deletes(job[q], k)
  <1>1. kind = Kind(q) /\ kind \in {"ingest", "delete"}
    BY DEF Disturbed
  <1>2. ~Importing(job[q])
    BY <1>1, CallFacts DEF Kind
  <1>3. \A c, d \in Key : ~Merges(job[q], c, d)
    BY <1>1, Merged
  <1>4. PICK k \in Source : Ingests(job[q], k) \/ Deletes(job[q], k)
    BY <1>2, <1>3, CallFacts DEF Call
  <1>5. CASE Ingests(job[q], k)
    BY <1>1, <1>5, Documents
  <1>6. CASE Deletes(job[q], k)
    BY <1>1, <1>6, Documents
  <1> QED
    BY <1>4, <1>5, <1>6

-----------------------------------------------------------------------------
(* A step of p within its call.                                            *)
Moves(p, to) ==
  /\ job' = [job EXCEPT ![p].pc = to]
  /\ Call(job'[p]) /\ ~Resting(job'[p])

LEMMA Moved ==
  ASSUME Typed, NEW p \in Process, Busy(p), NEW to, Moves(p, to)
  PROVE  /\ job' \in [Process -> JobType]
         /\ \A q \in Process : Call(job'[q]) /\ (Busy(q)' <=> Busy(q))
         /\ \A q \in Process : q # p => job'[q] = job[q]
         /\ \A q \in Process : job'[q].clashed = job[q].clashed
         /\ job'[p].pc = to
         /\ \A k \in Source : /\ Ingests(job'[p], k) <=> Ingests(job[p], k)
                              /\ Deletes(job'[p], k) <=> Deletes(job[p], k)
         /\ \A c, d \in Key : Merges(job'[p], c, d) <=> Merges(job[p], c, d)
         /\ Importing(job'[p]) <=> Importing(job[p])
  <1>1. /\ job[p] \in JobType /\ Call(job[p]) /\ ~Resting(job[p])
        /\ job'[p] = [job[p] EXCEPT !.pc = to] /\ job'[p].pc = to
        /\ job'[p].activity = job[p].activity /\ job'[p].merge = job[p].merge
        /\ job'[p].clashed = job[p].clashed
        /\ \A q \in Process : q # p => job'[q] = job[q]
    BY CallFacts DEF Moves, Typed, JobType
  <1>2. /\ \A k, l : {<<"ingest", k>>} # {<<"delete", l>>}
        /\ \A x : {x} # {}
    <2>1. \A k, l : <<"ingest", k>> # <<"delete", l>>
      OBVIOUS
    <2> QED
      BY <2>1
  <1>3. /\ \A k \in Source : /\ Ingests(job'[p], k) <=> Ingests(job[p], k)
                             /\ Deletes(job'[p], k) <=> Deletes(job[p], k)
        /\ \A c, d \in Key : Merges(job'[p], c, d) <=> Merges(job[p], c, d)
        /\ Importing(job'[p]) <=> Importing(job[p])
    <2>1. CASE Importing(job[p])
      BY <1>1, <1>2, <2>1 DEF Moves, Call, Resting, Importing, Ingests, Deletes, Merges
    <2>2. CASE \E k \in Source : Ingests(job[p], k)
      <3>1. PICK k \in Source : job'[p].activity = {<<"ingest", k>>}
        BY <1>1, <2>2 DEF Ingests
      <3>2. \E l \in Source : Ingests(job'[p], l)
        BY <1>1, <1>2, <3>1 DEF Moves, Call, Resting, Importing, Ingests, Deletes, Merges
      <3>3. job'[p].pc \in IngestPc
        BY <3>2 DEF Ingests
      <3> QED
        BY <1>1, <1>2, <2>2, <3>3 DEF Importing, Ingests, Deletes, Merges
    <2>3. CASE \E k \in Source : Deletes(job[p], k)
      <3>1. job'[p].pc \in DeletePc
        BY <1>1, <1>2, <2>3 DEF Moves, Call, Resting, Importing, Ingests, Deletes, Merges
      <3> QED
        BY <1>1, <1>2, <2>3, <3>1 DEF Importing, Ingests, Deletes, Merges
    <2>4. CASE \E c, d \in Key : Merges(job[p], c, d)
      BY <1>1, <1>2, <2>4 DEF Moves, Call, Resting, Importing, Ingests, Deletes, Merges
    <2> QED
      BY <1>1, <2>1, <2>2, <2>3, <2>4 DEF Call
  <1>4. job'[p] \in JobType
    BY <1>1 DEF Moves, Call, JobType, Resting, Importing, Ingests, Deletes, Merges
  <1>5. Busy(p)'
    BY <1>1 DEF Moves, Busy, Resting, Call, Importing, Ingests, Deletes, Merges,
                LoadPc, IngestPc, DeletePc, MergePc
  <1> QED
    BY <1>1, <1>3, <1>4, <1>5 DEF Moves, Typed, Busy

Successor ==
  {<<"clear", "load_nodes">>, <<"load_nodes", "load_edges">>,
   <<"entities", "create">>, <<"create", "credit">>, <<"credit", "triples">>, <<"triples", "report">>,
   <<"unlink", "prune">>, <<"prune", "delete">>, <<"delete", "report">>,
   <<"outgoing", "incoming">>, <<"incoming", "absorb">>, <<"absorb", "remove">>}

LEMMA TransactionMoves ==
  ASSUME Typed, NEW p \in Process, NEW from, NEW to, <<from, to>> \in Successor,
         job[p].pc = from, job' = [job EXCEPT ![p].pc = to]
  PROVE  Busy(p) /\ Moves(p, to)
  <1>1. /\ job'[p].pc = to
        /\ job'[p].activity = job[p].activity /\ job'[p].merge = job[p].merge
    BY CallFacts DEF Typed, JobType
  <1>2. Call(job[p])
    BY CallFacts
  <1>3. Call(job'[p])
    BY <1>1, <1>2 DEF Successor, Call, Resting, Importing, Ingests, Deletes, Merges,
                      LoadPc, IngestPc, DeletePc, MergePc
  <1> QED
    BY <1>1, <1>3 DEF Successor, Moves, Busy, Resting

-----------------------------------------------------------------------------
(* What others may do to the graph while a call is undisturbed.            *)
Grows ==
  \A n \in DOMAIN nodes : n \in DOMAIN nodes' /\ nodes[n] \subseteq nodes'[n]

Shrinks ==
  /\ \A n \in DOMAIN nodes' : n \in DOMAIN nodes /\ nodes'[n] \subseteq nodes[n]
  /\ \A e \in DOMAIN edges' : e \in DOMAIN edges /\ edges'[e] \subseteq edges[e]

LEMMA GrowthKeeps ==
  ASSUME Grows, NEW q \in Process, NEW k \in Source, IngestAt(q, k), job'[q] = job[q]
  PROVE  IngestAt(q, k)'
  BY Neo4jAssumption DEF Grows, IngestAt

LEMMA ShrinkingKeeps ==
  ASSUME Shrinks, NEW q \in Process, NEW k \in Source, DeleteAt(q, k), job'[q] = job[q]
  PROVE  DeleteAt(q, k)'
  <1>1. ASSUME Deletes(job[q], k), job[q].pc = "delete", NEW n \in DOMAIN nodes', k \in nodes'[n]
        PROVE  nodes'[n] = {k}
    BY <1>1 DEF Shrinks, DeleteAt
  <1> QED
    BY <1>1 DEF Shrinks, DeleteAt

(* No process is in two calls.                                             *)
LEMMA OneCall ==
  ASSUME NEW j, NEW k, NEW l, NEW c, NEW d
  PROVE  /\ ~(Ingests(j, k) /\ Deletes(j, l))
         /\ ~(Ingests(j, k) /\ Merges(j, c, d))
         /\ ~(Deletes(j, k) /\ Merges(j, c, d))
         /\ ~(Resting(j) /\ (Ingests(j, k) \/ Deletes(j, k) \/ Merges(j, c, d)))
         /\ ~(Importing(j) /\ (Ingests(j, k) \/ Deletes(j, k) \/ Merges(j, c, d)))
         /\ ~(Importing(j) /\ Resting(j))
         /\ Ingests(j, k) /\ Ingests(j, l) => k = l
         /\ Deletes(j, k) /\ Deletes(j, l) => k = l
  <1>1. <<"ingest", k>> # <<"delete", l>>
    OBVIOUS
  <1>2. /\ <<"ingest", k>> = <<"ingest", l>> => k = l
        /\ <<"delete", k>> = <<"delete", l>> => k = l
    OBVIOUS
  <1>3. \A x, y : {x} # {} /\ ({x} = {y} => x = y)
    OBVIOUS
  <1>4. ~(Ingests(j, k) /\ Deletes(j, l))
    BY <1>1, <1>3 DEF Ingests, Deletes
  <1>5. Ingests(j, k) /\ Ingests(j, l) => k = l
    BY <1>2, <1>3 DEF Ingests
  <1>6. Deletes(j, k) /\ Deletes(j, l) => k = l
    BY <1>2, <1>3 DEF Deletes
  <1> QED
    BY <1>3, <1>4, <1>5, <1>6
       DEF Resting, Importing, Ingests, Deletes, Merges, LoadPc, IngestPc, DeletePc, MergePc

LEMMA OthersProgress ==
  ASSUME IInv, NEW p \in Process, NEW q \in Process, p # q, Busy(p), job'[q] = job[q],
         (\E k \in Source : Ingests(job[p], k)) => Grows,
         (\E k \in Source : Deletes(job[p], k)) => Shrinks
  PROVE  ProgressAt(q)'
  <1>1. CASE job[q].clashed
    BY <1>1 DEF ProgressAt
  <1>2. CASE ~Busy(q)
    <2>1. Resting(job[q])
      BY <1>2, CallFacts DEF IInv, CoreInv
    <2> QED
      BY <2>1, OneCall DEF ProgressAt, IngestAt, DeleteAt, MergeAt
  <1>3. CASE ~job[q].clashed /\ Busy(q)
    <2>1. Harmless(job[p], job[q]) /\ ProgressAt(q)
      BY <1>3 DEF IInv, CoreInv, ClashInv, ProgressInv
    <2>2. CASE \E k, l \in Source : Ingests(job[p], k) /\ Ingests(job[q], l)
      BY <1>3, <2>1, <2>2, GrowthKeeps, OneCall DEF ProgressAt, DeleteAt, MergeAt
    <2>3. CASE \E k, l \in Source : Deletes(job[p], k) /\ Deletes(job[q], l)
      BY <1>3, <2>1, <2>3, ShrinkingKeeps, OneCall DEF ProgressAt, IngestAt, MergeAt
    <2> QED
      BY <2>1, <2>2, <2>3 DEF Harmless
  <1> QED
    BY <1>1, <1>2, <1>3

LEMMA ClashMoves ==
  ASSUME IInv, NEW p \in Process, Busy(p), NEW to, Moves(p, to)
  PROVE  ClashInv'
  <1>1. ASSUME NEW q \in Process, NEW r \in Process
        PROVE  Harmless(job[q], job[r]) => Harmless(job'[q], job'[r])
    BY Moved DEF Harmless, IInv, CoreInv
  <1> QED
    BY <1>1, Moved DEF ClashInv, IInv, CoreInv

(* A call that runs into an import does not count as done.                 *)
LEMMA ImportFrame ==
  ASSUME IInv, NEW p \in Process, Busy(p), doubled' = doubled,
         job'[p].pc \notin {"load_nodes", "load_edges"},
         \A q \in Process : q # p => job'[q] = job[q],
         \A k \in Source : expect'[k] \in {expect[k], "unknown"} \/ ~job[p].clashed
  PROVE  ImportInv'
  <1> SUFFICES ASSUME NEW q \in Process, job'[q].pc \in {"load_nodes", "load_edges"}
               PROVE  doubled' /\ \A k \in Source : expect'[k] = "unknown"
    BY DEF ImportInv
  <1>1. q # p /\ job[q].pc \in {"load_nodes", "load_edges"}
    OBVIOUS
  <1>2. doubled /\ \A k \in Source : expect[k] = "unknown"
    BY <1>1 DEF IInv, CoreInv, ImportInv
  <1>3. Importing(job[q]) /\ Busy(q)
    BY <1>1, CallFacts DEF IInv, CoreInv, Busy, Loading
  <1>4. ~Harmless(job[p], job[q])
    BY <1>3, OneCall DEF Harmless
  <1>5. job[p].clashed
    BY <1>1, <1>3, <1>4 DEF IInv, CoreInv, ClashInv
  <1> QED
    BY <1>2, <1>5

LEMMA StepFrame ==
  ASSUME IInv, NEW p \in Process, NEW from, NEW to, <<from, to>> \in Successor,
         job[p].pc = from, job' = [job EXCEPT ![p].pc = to], UNCHANGED doubled,
         ~Importing(job[p]), UNCHANGED expect,
         (\E k \in Source : Ingests(job[p], k)) => Grows,
         (\E k \in Source : Deletes(job[p], k)) => Shrinks
  PROVE  /\ ClashInv' /\ ImportInv' /\ ExpectInv'
         /\ \A q \in Process : q # p => ProgressAt(q)'
  <1>1. Busy(p) /\ Moves(p, to) /\ doubled' = doubled
    BY TransactionMoves DEF IInv, CoreInv
  <1>2. ClashInv'
    BY <1>1, ClashMoves
  <1>3. \A q \in Process : q # p => ProgressAt(q)'
    BY <1>1, Moved, OthersProgress DEF IInv, CoreInv
  <1>4. job'[p].pc \notin {"load_nodes", "load_edges"}
    <2>1. Call(job'[p]) /\ ~Importing(job'[p])
      BY <1>1, Moved DEF IInv, CoreInv
    <2> QED
      BY <2>1 DEF Call, Importing, Resting, Ingests, Deletes, Merges,
                  LoadPc, IngestPc, DeletePc, MergePc
  <1>5. ImportInv'
    BY <1>1, <1>4, Moved, ImportFrame DEF IInv, CoreInv
  <1>6. ExpectInv'
    BY <1>1, Moved DEF IInv, CoreInv, ExpectInv
  <1> QED
    BY <1>2, <1>3, <1>5, <1>6

-----------------------------------------------------------------------------
LEMMA InCall ==
  ASSUME Typed, NEW p \in Process
  PROVE  /\ job[p].pc \in {"entities", "create", "credit", "triples"} =>
              \E k \in Source : Ingests(job[p], k) /\ Document(p) = k
         /\ job[p].pc \in {"unlink", "prune", "delete"} =>
              \E k \in Source : Deletes(job[p], k) /\ Document(p) = k
         /\ job[p].pc = "report" =>
              \E k \in Source : Document(p) = k /\ (Ingests(job[p], k) \/ Deletes(job[p], k))
         /\ job[p].pc \in MergePc =>
              \E c, d \in Key : Merges(job[p], c, d) /\ Canonical(p) = c /\ Duplicate(p) = d
  <1>1. \A k \in Source : Ingests(job[p], k) \/ Deletes(job[p], k) => Document(p) = k
    BY Documents
  <1>2. \A c, d \in Key : Merges(job[p], c, d) => Canonical(p) = c /\ Duplicate(p) = d
    BY Merged
  <1>3. Call(job[p])
    BY CallFacts
  <1>4. CASE job[p].pc \in {"entities", "create", "credit", "triples"}
    BY <1>1, <1>3, <1>4 DEF Call, Resting, Importing, Ingests, Deletes, Merges,
                            LoadPc, IngestPc, DeletePc, MergePc
  <1>5. CASE job[p].pc \in {"unlink", "prune", "delete"}
    BY <1>1, <1>3, <1>5 DEF Call, Resting, Importing, Ingests, Deletes, Merges,
                            LoadPc, IngestPc, DeletePc, MergePc
  <1>6. CASE job[p].pc = "report"
    BY <1>1, <1>3, <1>6 DEF Call, Resting, Importing, Ingests, Deletes, Merges,
                            LoadPc, IngestPc, DeletePc, MergePc
  <1>7. CASE job[p].pc \in MergePc
    BY <1>2, <1>3, <1>7 DEF Call, Resting, Importing, Ingests, Deletes, Merges,
                            LoadPc, IngestPc, DeletePc, MergePc
  <1> QED
    BY <1>4, <1>5, <1>6, <1>7 DEF MergePc

(* Growth keeps what was ingested; a step that credits nothing but k keeps *)
(* what was deleted, if k was not.                                         *)
LEMMA IngestedGrows ==
  ASSUME IngestedStays, Grows, UNCHANGED <<expect, absorbed, doubled>>
  PROVE  IngestedStays'
  BY Neo4jAssumption DEF IngestedStays, Grows

LEMMA DeletedStays ==
  ASSUME DeletedIsGone, UNCHANGED expect,
         \A k \in Source : expect[k] = "gone" =>
           /\ \A n \in DOMAIN nodes' : k \in nodes'[n] => \E m \in DOMAIN nodes : k \in nodes[m]
           /\ \A e \in DOMAIN edges' : k \in edges'[e] => \E f \in DOMAIN edges : k \in edges[f]
  PROVE  DeletedIsGone'
  BY DEF DeletedIsGone

LEMMA TypedFrame ==
  ASSUME Typed, NEW p \in Process, Busy(p), NEW to, Moves(p, to),
         DOMAIN nodes' \subseteq [key: Key, by: Process],
         nodes' = [n \in DOMAIN nodes' |-> nodes'[n]],
         \A n \in DOMAIN nodes' : nodes'[n] \subseteq Source,
         edges' = [e \in DOMAIN edges' |-> edges'[e]] \/ edges' = edges,
         UNCHANGED <<queue, expect, absorbed, doubled>>
  PROVE  Typed'
  BY Moved DEF Typed

(* What a MERGE creates: what is not there when it does, and what was not  *)
(* there when it looked.                                                   *)
Creates(p, k, new) ==
  /\ nodes' = [n \in DOMAIN nodes \union new |-> Get(nodes, n, {k})]
  /\ \A n \in new : /\ n.key \in Mentions[k] /\ n = [key |-> n.key, by |-> p]
                   /\ \/ doubled \/ raced
                      \/ \A m \in DOMAIN nodes : m.key # n.key
  /\ \A a \in Mentions[k] : \E n \in DOMAIN nodes \union new : n.key = a

LEMMA Created ==
  ASSUME IInv, NEW p \in Process, UpsertEntities(p), NEW k \in Source, Document(p) = k
  PROVE  \E new : Creates(p, k, new)
  <1> DEFINE absent == {a \in Mentions[k] : At(a) = {}}
  <1>1. PICK stale \in SUBSET (missing[p] \ absent) :
          nodes' = [n \in DOMAIN nodes \union {[key |-> a, by |-> p] : a \in absent \union stale} |->
                      Get(nodes, n, {k})]
    BY DEF UpsertEntities
  <1>2. job[p].pc = "create"
    BY DEF UpsertEntities, Transaction
  <1> DEFINE new == {[key |-> a, by |-> p] : a \in absent \union stale}
  <1>3. ASSUME NEW a \in absent \union stale
        PROVE  /\ a \in Mentions[k]
               /\ \/ doubled \/ raced
                  \/ \A m \in DOMAIN nodes : m.key # a
    <2>1. CASE a \in absent
      BY <2>1 DEF At
    <2>2. CASE a \in stale
      BY <1>2, <2>2 DEF IInv, RaceInv
    <2> QED
      BY <2>1, <2>2
  <1>4. ASSUME NEW n \in new
        PROVE  /\ n.key \in Mentions[k] /\ n = [key |-> n.key, by |-> p]
               /\ \/ doubled \/ raced
                  \/ \A m \in DOMAIN nodes : m.key # n.key
    <2>1. PICK a \in absent \union stale : n = [key |-> a, by |-> p]
      OBVIOUS
    <2>2. n.key = a
      BY <2>1
    <2> QED
      BY <1>3, <2>1, <2>2
  <1>5. ASSUME NEW a \in Mentions[k]
        PROVE  \E n \in DOMAIN nodes \union new : n.key = a
    <2>1. CASE At(a) = {}
      <3>1. [key |-> a, by |-> p] \in new
        BY <2>1
      <3>2. [key |-> a, by |-> p].key = a
        OBVIOUS
      <3> HIDE DEF new
      <3> QED
        BY <3>1, <3>2
    <2>2. CASE At(a) # {}
      BY <2>2 DEF At
    <2> QED
      BY <2>1, <2>2
  <1>6. Creates(p, k, new)
    BY <1>1, <1>4, <1>5 DEF Creates
  <1> QED
    BY <1>6

LEMMA UpsertEntitiesStep ==
  ASSUME IInv, NEW p \in Process, UpsertEntities(p)
  PROVE  CoreInv'
  <1>1. PICK k \in Source : Ingests(job[p], k) /\ Document(p) = k
    BY InCall DEF IInv, CoreInv, UpsertEntities, Transaction
  <1>2. /\ Transaction(p, "create", "credit")
        /\ UNCHANGED <<edges, expect, absorbed, doubled, raced, queue>>
    BY <1>1 DEF UpsertEntities, Transaction
  <1>3. PICK new : Creates(p, k, new)
    BY <1>1, Created
  <1>5. /\ nodes' = [n \in DOMAIN nodes \union new |-> Get(nodes, n, {k})]
        /\ \A n \in new : /\ n.key \in Mentions[k] /\ n = [key |-> n.key, by |-> p]
                         /\ \/ doubled \/ raced
                            \/ \A m \in DOMAIN nodes : m.key # n.key
        /\ \A a \in Mentions[k] : \E n \in DOMAIN nodes \union new : n.key = a
    BY <1>3 DEF Creates
  <1>4. Mentions[k] \subseteq Key
    BY Neo4jAssumption
  <1>6. /\ Grows
        /\ \A n \in DOMAIN nodes' : nodes'[n] = IF n \in DOMAIN nodes THEN nodes[n] ELSE {k}
    BY <1>5 DEF Grows, Get
  <1>7. Busy(p) /\ Moves(p, "credit") /\ ~Importing(job[p])
    <2>1. <<"create", "credit">> \in Successor
      BY DEF Successor
    <2> QED
      BY <1>1, <1>2, <2>1, TransactionMoves, OneCall DEF IInv, CoreInv, Transaction
  <1>8. ClashInv' /\ ImportInv' /\ ExpectInv' /\ \A q \in Process : q # p => ProgressAt(q)'
    <2>1. <<"create", "credit">> \in Successor
      BY DEF Successor
    <2>2. UNCHANGED <<doubled, expect>>
      BY <1>2
    <2>3. job[p].pc = "create" /\ job' = [job EXCEPT ![p].pc = "credit"]
      BY <1>2 DEF Transaction
    <2>4. \A l \in Source : ~Deletes(job[p], l)
      BY <1>1, OneCall
    <2> QED
      BY <1>6, <1>7, <2>1, <2>2, <2>3, <2>4, StepFrame
  <1>9. ProgressAt(p)'
    <2>1. \A a \in Mentions[k] : \E n \in DOMAIN nodes' : n.key = a
      <3>1. DOMAIN nodes' = DOMAIN nodes \union new
        BY <1>5
      <3>2. \A a \in Mentions[k] : \E n \in DOMAIN nodes \union new : n.key = a
        BY <1>5
      <3> QED
        BY <3>1, <3>2
    <2>2. /\ job'[p].pc = "credit"
          /\ \A l \in Source : ~Deletes(job'[p], l) /\ (Ingests(job'[p], l) => l = k)
          /\ \A c, d \in Key : ~Merges(job'[p], c, d)
      BY <1>1, <1>7, Moved, OneCall DEF IInv, CoreInv
    <2> QED
      BY <2>1, <2>2 DEF ProgressAt, IngestAt, DeleteAt, MergeAt
  <1>10. Typed'
    <2>1. \A n \in new : n \in [key: Key, by: Process]
      BY <1>4, <1>5
    <2>2. DOMAIN nodes' \subseteq [key: Key, by: Process]
      BY <1>5, <2>1 DEF IInv, CoreInv, Typed
    <2>3. \A n \in DOMAIN nodes' : nodes'[n] \subseteq Source
      <3>1. \A n \in DOMAIN nodes : nodes[n] \subseteq Source
        BY DEF IInv, CoreInv, Typed
      <3> QED
        BY <1>6, <3>1
    <2>4. nodes' = [n \in DOMAIN nodes' |-> nodes'[n]]
      BY <1>5
    <2> QED
      BY <1>2, <1>7, <2>2, <2>3, <2>4, TypedFrame DEF IInv, CoreInv
  <1>11. IngestedStays'
    BY <1>2, <1>6, IngestedGrows DEF IInv, CoreInv
  <1>12. DeletedIsGone'
    BY <1>1, <1>2, <1>6, DeletedStays DEF IInv, CoreInv, ExpectInv
  <1>13. OneNodePerKey'
    <2>1. \A n, m \in new : n.key = m.key => n = m
      BY <1>5
    <2> QED
      BY <1>2, <1>5, <2>1 DEF IInv, CoreInv, OneNodePerKey
  <1> QED
    BY <1>8, <1>9, <1>10, <1>11, <1>12, <1>13 DEF CoreInv, ProgressInv

LEMMA LookStep ==
  ASSUME IInv, NEW p \in Process, Look(p)
  PROVE  CoreInv'
  <1>1. PICK k \in Source : Ingests(job[p], k) /\ Document(p) = k
    BY InCall DEF IInv, CoreInv, Look
  <1>2. /\ job[p].pc = "entities" /\ job' = [job EXCEPT ![p].pc = "create"]
        /\ <<"entities", "create">> \in Successor
        /\ raced => raced'
        /\ UNCHANGED <<nodes, edges, expect, absorbed, doubled, queue>>
    BY DEF Look, Successor
  <1>3. Grows
    BY <1>2 DEF Grows
  <1>4. Busy(p) /\ Moves(p, "create") /\ ~Importing(job[p])
    BY <1>1, <1>2, TransactionMoves, OneCall DEF IInv, CoreInv
  <1>5. ClashInv' /\ ImportInv' /\ ExpectInv' /\ \A q \in Process : q # p => ProgressAt(q)'
    BY <1>1, <1>2, <1>3, <1>4, StepFrame, OneCall
  <1>6. ProgressAt(p)'
    BY <1>1, <1>4, Moved, OneCall DEF IInv, CoreInv, ProgressAt, IngestAt, DeleteAt, MergeAt
  <1>7. Typed'
    <2>1. \A n \in DOMAIN nodes : nodes[n] \subseteq Source
      BY DEF IInv, CoreInv, Typed
    <2> QED
      BY <1>2, <1>4, <2>1, TypedFrame DEF IInv, CoreInv, Typed
  <1>8. IngestedStays' /\ DeletedIsGone' /\ OneNodePerKey'
    BY <1>2 DEF IInv, CoreInv, IngestedStays, DeletedIsGone, OneNodePerKey
  <1> QED
    BY <1>5, <1>6, <1>7, <1>8 DEF CoreInv, ProgressInv

LEMMA CreditSourcesStep ==
  ASSUME IInv, NEW p \in Process, CreditSources(p)
  PROVE  CoreInv'
  <1>1. PICK k \in Source : Ingests(job[p], k) /\ Document(p) = k
    BY InCall DEF IInv, CoreInv, CreditSources, Transaction
  <1>2. /\ Transaction(p, "credit", "triples")
        /\ nodes' = [n \in DOMAIN nodes |->
                       IF n.key \in Mentions[k] THEN nodes[n] \union {k} ELSE nodes[n]]
        /\ UNCHANGED <<edges, expect, absorbed, doubled, raced, queue>>
    BY <1>1 DEF CreditSources, Transaction
  <1>3. /\ Grows /\ DOMAIN nodes' = DOMAIN nodes
        /\ \A n \in DOMAIN nodes : n.key \in Mentions[k] => k \in nodes'[n]
        /\ \A n \in DOMAIN nodes : nodes'[n] \subseteq nodes[n] \union {k}
    BY <1>2 DEF Grows
  <1>4. Busy(p) /\ Moves(p, "triples") /\ ~Importing(job[p])
    <2>1. <<"credit", "triples">> \in Successor
      BY DEF Successor
    <2> QED
      BY <1>1, <1>2, <2>1, TransactionMoves, OneCall DEF IInv, CoreInv, Transaction
  <1>5. ClashInv' /\ ImportInv' /\ ExpectInv' /\ \A q \in Process : q # p => ProgressAt(q)'
    <2>1. <<"credit", "triples">> \in Successor
      BY DEF Successor
    <2>2. UNCHANGED <<doubled, expect>>
      BY <1>2
    <2>3. job[p].pc = "credit" /\ job' = [job EXCEPT ![p].pc = "triples"]
      BY <1>2 DEF Transaction
    <2>4. \A l \in Source : ~Deletes(job[p], l)
      BY <1>1, OneCall
    <2> QED
      BY <1>3, <1>4, <2>1, <2>2, <2>3, <2>4, StepFrame
  <1>6. ProgressAt(p)'
    <2>1. ~job[p].clashed => \A a \in Mentions[k] : \E n \in DOMAIN nodes : n.key = a
      BY <1>1, <1>2 DEF IInv, CoreInv, ProgressInv, ProgressAt, IngestAt, Transaction
    <2> QED
      BY <1>1, <1>3, <1>4, <2>1, Moved, OneCall
         DEF IInv, CoreInv, ProgressAt, IngestAt, DeleteAt, MergeAt
  <1>7. Typed'
    <2>1. \A n \in DOMAIN nodes : nodes[n] \subseteq Source
      BY DEF IInv, CoreInv, Typed
    <2>2. \A n \in DOMAIN nodes' : nodes'[n] \subseteq Source
      BY <1>3, <2>1
    <2>3. DOMAIN nodes' \subseteq [key: Key, by: Process]
      BY <1>3 DEF IInv, CoreInv, Typed
    <2>4. nodes' = [n \in DOMAIN nodes' |-> nodes'[n]]
      BY <1>2
    <2> QED
      BY <1>2, <1>4, <2>2, <2>3, <2>4, TypedFrame DEF IInv, CoreInv
  <1>8. IngestedStays'
    BY <1>2, <1>3, IngestedGrows DEF IInv, CoreInv
  <1>9. DeletedIsGone'
    BY <1>1, <1>2, <1>3, DeletedStays DEF IInv, CoreInv, ExpectInv
  <1>10. OneNodePerKey'
    BY <1>2, <1>3 DEF IInv, CoreInv, OneNodePerKey
  <1> QED
    BY <1>5, <1>6, <1>7, <1>8, <1>9, <1>10 DEF IInv, CoreInv, ProgressInv

(* MERGE of relationships between pairs of nodes.                          *)
LEMMA Linked ==
  ASSUME NEW want, \A x \in DOMAIN want : x = <<x[1], x[2]>>,
         NEW linked, linked = Link(want)
  PROVE  /\ linked = [e \in DOMAIN linked |-> linked[e]]
         /\ DOMAIN edges \subseteq DOMAIN linked
         /\ \A e \in DOMAIN linked :
              linked[e] = Get(edges, e, {}) \union Get(want, <<e.from, e.to>>, {})
         /\ (\A e, f \in DOMAIN edges : e.from = f.from /\ e.to = f.to => e = f) =>
              \A e, f \in DOMAIN linked : e.from = f.from /\ e.to = f.to => e = f
  <1> DEFINE known == {<<e.from, e.to>> : e \in DOMAIN edges}
             new   == {[from |-> x[1], to |-> x[2], by |-> "merge"] : x \in DOMAIN want \ known}
  <1>1. linked = [e \in DOMAIN edges \union new |->
                        Get(edges, e, {}) \union Get(want, <<e.from, e.to>>, {})]
    BY DEF Link
  <1>2. ASSUME NEW e \in new
        PROVE  /\ \A f \in new : e.from = f.from /\ e.to = f.to => e = f
               /\ \A f \in DOMAIN edges : ~(e.from = f.from /\ e.to = f.to)
    <2>1. PICK x \in DOMAIN want \ known : e = [from |-> x[1], to |-> x[2], by |-> "merge"]
      OBVIOUS
    <2>2. x = <<e.from, e.to>>
      BY <2>1
    <2>3. ASSUME NEW f \in new, e.from = f.from, e.to = f.to
          PROVE  e = f
      <3>1. PICK y \in DOMAIN want \ known : f = [from |-> y[1], to |-> y[2], by |-> "merge"]
        OBVIOUS
      <3> QED
        BY <2>1, <2>3, <3>1
    <2>4. ASSUME NEW f \in DOMAIN edges, e.from = f.from, e.to = f.to
          PROVE  FALSE
      <3>1. <<f.from, f.to>> \in known
        OBVIOUS
      <3> QED
        BY <2>2, <2>4, <3>1
    <2> QED
      BY <2>3, <2>4
  <1> HIDE DEF new
  <1> QED
    BY <1>1, <1>2

LEMMA UpsertTriplesStep ==
  ASSUME IInv, NEW p \in Process, UpsertTriples(p)
  PROVE  CoreInv'
  <1>1. PICK k \in Source : Ingests(job[p], k) /\ Document(p) = k
    BY InCall DEF IInv, CoreInv, UpsertTriples, Transaction
  <1> DEFINE want == [e \in UNION {At(c[1]) \X At(c[2]) : c \in Claims[k]} |-> {k}]
  <1>2. /\ Transaction(p, "triples", "report")
        /\ edges' = Link(want)
        /\ UNCHANGED <<nodes, expect, absorbed, doubled, raced, queue>>
    BY <1>1 DEF UpsertTriples, Transaction
  <1>3. \A x \in DOMAIN want : x = <<x[1], x[2]>>
    BY DEF At
  <1>4. \A x : Get(want, x, {}) \subseteq {k}
    BY DEF Get
  <1> HIDE DEF want
  <1>5. /\ edges' = [e \in DOMAIN edges' |-> edges'[e]]
        /\ \A e \in DOMAIN edges' : edges'[e] \subseteq Get(edges, e, {}) \union {k}
        /\ (\A e, f \in DOMAIN edges : e.from = f.from /\ e.to = f.to => e = f) =>
             \A e, f \in DOMAIN edges' : e.from = f.from /\ e.to = f.to => e = f
    <2>1. /\ edges' = [e \in DOMAIN edges' |-> edges'[e]]
          /\ \A e \in DOMAIN edges' :
               edges'[e] = Get(edges, e, {}) \union Get(want, <<e.from, e.to>>, {})
          /\ (\A e, f \in DOMAIN edges : e.from = f.from /\ e.to = f.to => e = f) =>
               \A e, f \in DOMAIN edges' : e.from = f.from /\ e.to = f.to => e = f
      BY <1>2, <1>3, Linked
    <2>2. \A e \in DOMAIN edges' : edges'[e] \subseteq Get(edges, e, {}) \union {k}
      BY <1>4, <2>1
    <2> QED
      BY <2>1, <2>2
  <1>6. Busy(p) /\ Moves(p, "report") /\ ~Importing(job[p]) /\ Grows
    <2>1. <<"triples", "report">> \in Successor
      BY DEF Successor
    <2> QED
      BY <1>1, <1>2, <2>1, TransactionMoves, OneCall DEF IInv, CoreInv, Transaction, Grows
  <1>7. ClashInv' /\ ImportInv' /\ ExpectInv' /\ \A q \in Process : q # p => ProgressAt(q)'
    <2>1. <<"triples", "report">> \in Successor
      BY DEF Successor
    <2>2. UNCHANGED <<doubled, expect>>
      BY <1>2
    <2>3. job[p].pc = "triples" /\ job' = [job EXCEPT ![p].pc = "report"]
      BY <1>2 DEF Transaction
    <2>4. \A l \in Source : ~Deletes(job[p], l)
      BY <1>1, OneCall
    <2> QED
      BY <1>6, <2>1, <2>2, <2>3, <2>4, StepFrame
  <1>8. ProgressAt(p)'
    <2>1. ~job[p].clashed =>
            \A a \in Mentions[k] : \E n \in DOMAIN nodes : n.key = a /\ k \in nodes[n]
      BY <1>1, <1>2 DEF IInv, CoreInv, ProgressInv, ProgressAt, IngestAt, Transaction
    <2> QED
      BY <1>1, <1>2, <1>6, <2>1, Moved, OneCall
         DEF IInv, CoreInv, ProgressAt, IngestAt, DeleteAt, MergeAt
  <1>9. Typed'
    BY <1>2, <1>5, <1>6, TypedFrame DEF IInv, CoreInv, Typed
  <1>10. IngestedStays'
    BY <1>2, <1>6, IngestedGrows DEF IInv, CoreInv
  <1>11. DeletedIsGone'
    <2>1. \A l \in Source : expect[l] = "gone" => l # k
      BY <1>1 DEF IInv, CoreInv, ExpectInv
    <2>2. \A e \in DOMAIN edges' : edges'[e] \subseteq {k} \/
             (e \in DOMAIN edges /\ edges'[e] \subseteq edges[e] \union {k})
      BY <1>5 DEF Get
    <2> QED
      BY <1>2, <2>1, <2>2, DeletedStays DEF IInv, CoreInv
  <1>12. OneNodePerKey'
    BY <1>2, <1>5 DEF IInv, CoreInv, OneNodePerKey
  <1> QED
    BY <1>7, <1>8, <1>9, <1>10, <1>11, <1>12 DEF IInv, CoreInv, ProgressInv

-----------------------------------------------------------------------------
(* A deletion only takes away, and only what credits its document.         *)
LEMMA ShrinkingStep ==
  ASSUME IInv, NEW p \in Process, NEW k \in Source, Deletes(job[p], k),
         NEW from, NEW to, <<from, to>> \in Successor, Transaction(p, from, to),
         Shrinks, UNCHANGED <<expect, absorbed>>,
         nodes' = [n \in DOMAIN nodes' |-> nodes'[n]],
         edges' = [e \in DOMAIN edges' |-> edges'[e]] \/ edges' = edges,
         \A n \in DOMAIN nodes : \A l \in nodes[n] \ {k} : n \in DOMAIN nodes' /\ l \in nodes'[n]
  PROVE  /\ Typed' /\ ClashInv' /\ ImportInv' /\ ExpectInv'
         /\ \A q \in Process : q # p => ProgressAt(q)'
         /\ job[p].clashed \/ DeleteAt(p, k)' => ProgressAt(p)'
         /\ IngestedStays' /\ DeletedIsGone' /\ OneNodePerKey'
  <1>1. Busy(p) /\ Moves(p, to) /\ ~Importing(job[p]) /\ UNCHANGED <<doubled, raced, queue>>
    BY TransactionMoves, OneCall DEF IInv, CoreInv, Transaction
  <1>2. ClashInv' /\ ImportInv' /\ ExpectInv' /\ \A q \in Process : q # p => ProgressAt(q)'
    BY <1>1, StepFrame, OneCall DEF Transaction
  <1>3. job[p].clashed \/ DeleteAt(p, k)' => ProgressAt(p)'
    BY <1>1, Moved, OneCall DEF IInv, CoreInv, ProgressAt, IngestAt, DeleteAt, MergeAt
  <1>4. Typed'
    <2>1. \A n \in DOMAIN nodes : nodes[n] \subseteq Source
      BY DEF IInv, CoreInv, Typed
    <2>2. \A n \in DOMAIN nodes' : nodes'[n] \subseteq Source
      BY <2>1 DEF Shrinks
    <2>3. DOMAIN nodes' \subseteq [key: Key, by: Process]
      BY DEF IInv, CoreInv, Typed, Shrinks
    <2> QED
      BY <1>1, <2>2, <2>3, TypedFrame DEF IInv, CoreInv
  <1>5. IngestedStays'
    <2> SUFFICES ASSUME ~doubled, NEW l \in Source, expect[l] = "present", NEW a \in Mentions[l]
                 PROVE  \E n \in DOMAIN nodes' : n.key \in absorbed[a] /\ l \in nodes'[n]
      BY <1>1 DEF IngestedStays
    <2>1. l # k
      BY DEF IInv, CoreInv, ExpectInv
    <2>2. PICK n \in DOMAIN nodes : n.key \in absorbed[a] /\ l \in nodes[n]
      BY DEF IInv, CoreInv, IngestedStays
    <2> QED
      BY <2>1, <2>2
  <1>6. DeletedIsGone'
    <2>1. \A l : /\ \A n \in DOMAIN nodes' : l \in nodes'[n] => \E m \in DOMAIN nodes : l \in nodes[m]
                 /\ \A e \in DOMAIN edges' : l \in edges'[e] => \E f \in DOMAIN edges : l \in edges[f]
      BY DEF Shrinks
    <2> QED
      BY <2>1, DeletedStays DEF IInv, CoreInv
  <1>7. OneNodePerKey'
    BY <1>1 DEF IInv, CoreInv, OneNodePerKey, Shrinks
  <1> QED
    BY <1>2, <1>3, <1>4, <1>5, <1>6, <1>7

LEMMA UnlinkStep ==
  ASSUME IInv, NEW p \in Process, Unlink(p)
  PROVE  CoreInv'
  <1>1. PICK k \in Source : Deletes(job[p], k) /\ Document(p) = k
    BY InCall DEF IInv, CoreInv, Unlink, Transaction
  <1>2. /\ Transaction(p, "unlink", "prune")
        /\ edges' = Restrict(edges, {e \in DOMAIN edges : k \notin edges[e]})
        /\ UNCHANGED <<nodes, expect, absorbed>>
    BY <1>1 DEF Unlink, Transaction
  <1>3. /\ Shrinks
        /\ edges' = [e \in DOMAIN edges' |-> edges'[e]]
        /\ \A e \in DOMAIN edges' : k \notin edges'[e]
    BY <1>2 DEF Shrinks, Restrict
  <1>4. nodes' = [n \in DOMAIN nodes' |-> nodes'[n]]
    BY <1>2 DEF IInv, CoreInv, Typed
  <1>5. Busy(p) /\ Moves(p, "prune") /\ <<"unlink", "prune">> \in Successor
    <2>1. <<"unlink", "prune">> \in Successor
      BY DEF Successor
    <2> QED
      BY <1>2, <2>1, TransactionMoves DEF IInv, CoreInv, Transaction
  <1>6. DeleteAt(p, k)'
    BY <1>3, <1>5, Moved DEF IInv, CoreInv, DeleteAt
  <1>7. \A n \in DOMAIN nodes : \A l \in nodes[n] \ {k} : n \in DOMAIN nodes' /\ l \in nodes'[n]
    BY <1>2
  <1> QED
    BY <1>1, <1>2, <1>3, <1>4, <1>5, <1>6, <1>7, ShrinkingStep DEF IInv, CoreInv, ProgressInv

LEMMA PruneStep ==
  ASSUME IInv, NEW p \in Process, Prune(p)
  PROVE  CoreInv'
  <1>1. PICK k \in Source : Deletes(job[p], k) /\ Document(p) = k
    BY InCall DEF IInv, CoreInv, Prune, Transaction
  <1>2. /\ Transaction(p, "prune", "delete")
        /\ nodes' = [n \in DOMAIN nodes |->
                       IF Cardinality(nodes[n]) > 1 THEN nodes[n] \ {k} ELSE nodes[n]]
        /\ UNCHANGED <<edges, expect, absorbed>>
    BY <1>1 DEF Prune, Transaction
  <1>3. /\ Shrinks
        /\ \A n \in DOMAIN nodes : \A l \in nodes[n] \ {k} : n \in DOMAIN nodes' /\ l \in nodes'[n]
    BY <1>2 DEF Shrinks
  <1>4. Busy(p) /\ Moves(p, "delete") /\ <<"prune", "delete">> \in Successor
    <2>1. <<"prune", "delete">> \in Successor
      BY DEF Successor
    <2> QED
      BY <1>2, <2>1, TransactionMoves DEF IInv, CoreInv, Transaction
  <1>5. ASSUME NEW n \in DOMAIN nodes', k \in nodes'[n]
        PROVE  nodes'[n] = {k}
    <2>1. n \in DOMAIN nodes /\ nodes[n] \subseteq Source /\ nodes'[n] = nodes[n] /\ k \in nodes[n]
      BY <1>2, <1>5 DEF IInv, CoreInv, Typed
    <2>2. ~(Cardinality(nodes[n]) > 1)
      BY <1>2, <1>5
    <2>3. IsFiniteSet(nodes[n]) /\ IsFiniteSet({k}) /\ Cardinality({k}) = 1
      BY <2>1, Neo4jAssumption, FS_Subset, FS_Singleton
    <2>4. Cardinality(nodes[n]) \in Nat
      BY <2>3, FS_CardinalityType
    <2>5. Cardinality({k}) <= Cardinality(nodes[n]) /\
          (Cardinality({k}) = Cardinality(nodes[n]) => {k} = nodes[n])
      BY <2>1, <2>3, FS_Subset
    <2> QED
      BY <2>1, <2>2, <2>3, <2>4, <2>5
  <1>6. job[p].clashed \/ DeleteAt(p, k)'
    <2>1. job[p].clashed \/ \A e \in DOMAIN edges : k \notin edges[e]
      <3>1. job[p].pc = "prune"
        BY <1>2 DEF Transaction
      <3> QED
        BY <1>1, <3>1 DEF IInv, CoreInv, ProgressInv, ProgressAt, DeleteAt
    <2>2. job'[p].pc = "delete"
      BY <1>4, Moved DEF IInv, CoreInv
    <2> QED
      BY <1>2, <1>5, <2>1, <2>2 DEF DeleteAt
  <1> QED
    BY <1>1, <1>2, <1>3, <1>4, <1>6, ShrinkingStep DEF IInv, CoreInv, ProgressInv

LEMMA DeleteNodesStep ==
  ASSUME IInv, NEW p \in Process, DeleteNodes(p)
  PROVE  CoreInv'
  <1>1. PICK k \in Source : Deletes(job[p], k) /\ Document(p) = k
    BY InCall DEF IInv, CoreInv, DeleteNodes, Transaction
  <1>2. /\ Transaction(p, "delete", "report")
        /\ Detach({n \in DOMAIN nodes : nodes[n] = {k}})
        /\ UNCHANGED <<expect, absorbed>>
    BY <1>1 DEF DeleteNodes, Transaction
  <1>3. /\ nodes' = [n \in DOMAIN nodes' |-> nodes'[n]]
        /\ edges' = [e \in DOMAIN edges' |-> edges'[e]]
        /\ DOMAIN nodes' = {n \in DOMAIN nodes : nodes[n] # {k}}
        /\ \A n \in DOMAIN nodes' : nodes'[n] = nodes[n]
        /\ \A e \in DOMAIN edges' : e \in DOMAIN edges /\ edges'[e] = edges[e]
    BY <1>2 DEF Detach, Restrict
  <1>4. /\ Shrinks
        /\ \A n \in DOMAIN nodes : \A l \in nodes[n] \ {k} : n \in DOMAIN nodes' /\ l \in nodes'[n]
    BY <1>3 DEF Shrinks
  <1>5. Busy(p) /\ Moves(p, "report") /\ <<"delete", "report">> \in Successor
    <2>1. <<"delete", "report">> \in Successor
      BY DEF Successor
    <2> QED
      BY <1>2, <2>1, TransactionMoves DEF IInv, CoreInv, Transaction
  <1>6. job[p].clashed \/ DeleteAt(p, k)'
    <2>1. \/ job[p].clashed
          \/ /\ \A e \in DOMAIN edges : k \notin edges[e]
             /\ \A n \in DOMAIN nodes : k \in nodes[n] => nodes[n] = {k}
      <3>1. job[p].pc = "delete"
        BY <1>2 DEF Transaction
      <3> QED
        BY <1>1, <3>1 DEF IInv, CoreInv, ProgressInv, ProgressAt, DeleteAt
    <2>2. job'[p].pc = "report"
      BY <1>5, Moved DEF IInv, CoreInv
    <2> QED
      BY <1>3, <2>1, <2>2 DEF DeleteAt
  <1> QED
    BY <1>1, <1>2, <1>3, <1>4, <1>5, <1>6, ShrinkingStep DEF IInv, CoreInv, ProgressInv

-----------------------------------------------------------------------------
(* A merge first moves relationships: no document is credited that was not,*)
(* and no two of them come to join the same entities.                      *)
LEMMA RelinkingStep ==
  ASSUME IInv, NEW p \in Process, NEW c \in Key, NEW d \in Key, Merges(job[p], c, d),
         NEW from, NEW to, <<from, to>> \in Successor, to # "remove", Transaction(p, from, to),
         UNCHANGED <<nodes, expect, absorbed>>,
         edges' = [e \in DOMAIN edges' |-> edges'[e]],
         \A e \in DOMAIN edges' : \A k \in edges'[e] : \E f \in DOMAIN edges : k \in edges[f],
         (\A e, f \in DOMAIN edges : e.from = f.from /\ e.to = f.to => e = f) =>
           \A e, f \in DOMAIN edges' : e.from = f.from /\ e.to = f.to => e = f
  PROVE  CoreInv'
  <1>1. Busy(p) /\ Moves(p, to) /\ ~Importing(job[p]) /\ UNCHANGED <<doubled, raced, queue>> /\ Grows
    BY TransactionMoves, OneCall DEF IInv, CoreInv, Transaction, Grows
  <1>2. ClashInv' /\ ImportInv' /\ ExpectInv' /\ \A q \in Process : q # p => ProgressAt(q)'
    BY <1>1, StepFrame, OneCall DEF Transaction
  <1>3. ProgressAt(p)'
    <2>1. job'[p].pc = to /\ job[p].pc = from
      BY <1>1, Moved DEF IInv, CoreInv, Transaction
    <2>2. from # "remove"
      BY DEF Successor
    <2>3. ASSUME ~job[p].clashed, NEW x \in Key, NEW y \in Key
          PROVE  MergeAt(p, x, y)'
      <3>1. MergeAt(p, x, y)
        BY <2>3 DEF IInv, CoreInv, ProgressInv, ProgressAt
      <3> QED
        BY <1>1, <2>1, <2>2, <3>1, Moved DEF IInv, CoreInv, MergeAt
    <2> QED
      BY <1>1, <2>3, Moved, OneCall DEF IInv, CoreInv, ProgressAt, IngestAt, DeleteAt
  <1>4. Typed'
    BY <1>1, TypedFrame DEF IInv, CoreInv, Typed
  <1>5. IngestedStays'
    BY <1>1, IngestedGrows DEF IInv, CoreInv
  <1>6. DeletedIsGone'
    BY DeletedStays DEF IInv, CoreInv
  <1>7. OneNodePerKey'
    BY <1>1 DEF IInv, CoreInv, OneNodePerKey
  <1> QED
    BY <1>2, <1>3, <1>4, <1>5, <1>6, <1>7 DEF IInv, CoreInv, ProgressInv

(* What Outgoing and Incoming have in common: each new pair is given what  *)
(* some of the moved relationships credit.                                 *)
LEMMA Relinked ==
  ASSUME NEW want, NEW linked, linked = Link(want), NEW kept \in SUBSET DOMAIN linked,
         NEW new, new = Restrict(linked, kept),
         \A x \in DOMAIN want : x = <<x[1], x[2]>>,
         \A x \in DOMAIN want : \A k \in want[x] : \E f \in DOMAIN edges : k \in edges[f]
  PROVE  /\ new = [e \in DOMAIN new |-> new[e]]
         /\ \A e \in DOMAIN new : \A k \in new[e] : \E f \in DOMAIN edges : k \in edges[f]
         /\ (\A e, f \in DOMAIN edges : e.from = f.from /\ e.to = f.to => e = f) =>
              \A e, f \in DOMAIN new : e.from = f.from /\ e.to = f.to => e = f
  <1>1. /\ new = [e \in DOMAIN new |-> new[e]]
        /\ \A e \in DOMAIN new : e \in DOMAIN linked /\ new[e] = linked[e]
    BY DEF Restrict
  <1>2. /\ \A e \in DOMAIN linked :
             linked[e] = Get(edges, e, {}) \union Get(want, <<e.from, e.to>>, {})
        /\ (\A e, f \in DOMAIN edges : e.from = f.from /\ e.to = f.to => e = f) =>
             \A e, f \in DOMAIN linked : e.from = f.from /\ e.to = f.to => e = f
    BY Linked
  <1>3. ASSUME NEW e \in DOMAIN new, NEW k \in new[e]
        PROVE  \E f \in DOMAIN edges : k \in edges[f]
    <2>1. k \in Get(edges, e, {}) \/ k \in Get(want, <<e.from, e.to>>, {})
      BY <1>1, <1>2
    <2> QED
      BY <2>1 DEF Get
  <1> QED
    BY <1>1, <1>2, <1>3

LEMMA OutgoingStep ==
  ASSUME IInv, NEW p \in Process, Outgoing(p)
  PROVE  CoreInv'
  <1>1. PICK c \in Key, d \in Key : Merges(job[p], c, d)
    BY InCall DEF IInv, CoreInv, Outgoing, Transaction, MergePc
  <1> DEFINE canon == At(Canonical(p))
             moved == {e \in DOMAIN edges : e.from.key = Duplicate(p) /\ e.to.key # Canonical(p)}
             want  == [x \in canon \X {e.to : e \in moved} |->
                         UNION {edges[e] : e \in {r \in moved : r.to = x[2]}}]
  <1>2. /\ Transaction(p, "outgoing", "incoming")
        /\ edges' = edges \/ edges' = Restrict(Link(want), DOMAIN Link(want) \ moved)
        /\ UNCHANGED <<nodes, expect, absorbed>>
    BY DEF Outgoing, Transaction
  <1>3. /\ \A x \in DOMAIN want : x = <<x[1], x[2]>>
        /\ \A x \in DOMAIN want : \A k \in want[x] : \E f \in DOMAIN edges : k \in edges[f]
    OBVIOUS
  <1> HIDE DEF want, moved
  <1>4. /\ edges' = [e \in DOMAIN edges' |-> edges'[e]]
        /\ \A e \in DOMAIN edges' : \A k \in edges'[e] : \E f \in DOMAIN edges : k \in edges[f]
        /\ (\A e, f \in DOMAIN edges : e.from = f.from /\ e.to = f.to => e = f) =>
             \A e, f \in DOMAIN edges' : e.from = f.from /\ e.to = f.to => e = f
    <2>1. edges = [e \in DOMAIN edges |-> edges[e]]
      BY DEF IInv, CoreInv, Typed
    <2>2. CASE edges' = edges
      BY <2>1, <2>2
    <2>3. CASE edges' = Restrict(Link(want), DOMAIN Link(want) \ moved)
      <3> DEFINE linked == Link(want)
                 kept   == DOMAIN linked \ moved
      <3>1. linked = Link(want) /\ kept \in SUBSET DOMAIN linked /\ edges' = Restrict(linked, kept)
        BY <2>3
      <3> HIDE DEF linked, kept
      <3> QED
        BY <1>3, <2>1, <3>1, Relinked
    <2> QED
      BY <1>2, <2>2, <2>3
  <1>5. <<"outgoing", "incoming">> \in Successor
    BY DEF Successor
  <1> QED
    BY <1>1, <1>2, <1>4, <1>5, RelinkingStep

LEMMA IncomingStep ==
  ASSUME IInv, NEW p \in Process, Incoming(p)
  PROVE  CoreInv'
  <1>1. PICK c \in Key, d \in Key : Merges(job[p], c, d)
    BY InCall DEF IInv, CoreInv, Incoming, Transaction, MergePc
  <1> DEFINE canon == At(Canonical(p))
             moved == {e \in DOMAIN edges : e.to.key = Duplicate(p) /\ e.from.key # Canonical(p)}
             want  == [x \in {e.from : e \in moved} \X canon |->
                         UNION {edges[e] : e \in {r \in moved : r.from = x[1]}}]
  <1>2. /\ Transaction(p, "incoming", "absorb")
        /\ edges' = edges \/ edges' = Restrict(Link(want), DOMAIN Link(want) \ moved)
        /\ UNCHANGED <<nodes, expect, absorbed>>
    BY DEF Incoming, Transaction
  <1>3. /\ \A x \in DOMAIN want : x = <<x[1], x[2]>>
        /\ \A x \in DOMAIN want : \A k \in want[x] : \E f \in DOMAIN edges : k \in edges[f]
    OBVIOUS
  <1> HIDE DEF want, moved
  <1>4. /\ edges' = [e \in DOMAIN edges' |-> edges'[e]]
        /\ \A e \in DOMAIN edges' : \A k \in edges'[e] : \E f \in DOMAIN edges : k \in edges[f]
        /\ (\A e, f \in DOMAIN edges : e.from = f.from /\ e.to = f.to => e = f) =>
             \A e, f \in DOMAIN edges' : e.from = f.from /\ e.to = f.to => e = f
    <2>1. edges = [e \in DOMAIN edges |-> edges[e]]
      BY DEF IInv, CoreInv, Typed
    <2>2. CASE edges' = edges
      BY <2>1, <2>2
    <2>3. CASE edges' = Restrict(Link(want), DOMAIN Link(want) \ moved)
      <3> DEFINE linked == Link(want)
                 kept   == DOMAIN linked \ moved
      <3>1. linked = Link(want) /\ kept \in SUBSET DOMAIN linked /\ edges' = Restrict(linked, kept)
        BY <2>3
      <3> HIDE DEF linked, kept
      <3> QED
        BY <1>3, <2>1, <3>1, Relinked
    <2> QED
      BY <1>2, <2>2, <2>3
  <1>5. <<"incoming", "absorb">> \in Successor
    BY DEF Successor
  <1> QED
    BY <1>1, <1>2, <1>4, <1>5, RelinkingStep

LEMMA AbsorbStep ==
  ASSUME IInv, NEW p \in Process, Absorb(p)
  PROVE  CoreInv'
  <1>1. PICK c \in Key, d \in Key :
          Merges(job[p], c, d) /\ Canonical(p) = c /\ Duplicate(p) = d
    BY InCall DEF IInv, CoreInv, Absorb, Transaction, MergePc
  <1> DEFINE taken == UNION {nodes[m] : m \in At(d)}
  <1>2. /\ Transaction(p, "absorb", "remove")
        /\ nodes' = [n \in DOMAIN nodes |-> IF n.key = c THEN nodes[n] \union taken ELSE nodes[n]]
        /\ UNCHANGED <<edges, expect, absorbed>>
    BY <1>1 DEF Absorb, Transaction
  <1>3. /\ \A n \in DOMAIN nodes : n.key = d => nodes[n] \subseteq taken
        /\ \A k \in taken : \E n \in DOMAIN nodes : k \in nodes[n]
    BY DEF At
  <1> HIDE DEF taken
  <1>4. /\ Grows /\ DOMAIN nodes' = DOMAIN nodes
        /\ \A n \in DOMAIN nodes : nodes'[n] \subseteq nodes[n] \union taken
    BY <1>2 DEF Grows
  <1>5. Busy(p) /\ Moves(p, "remove") /\ ~Importing(job[p]) /\ UNCHANGED <<doubled, raced, queue>>
    <2>1. <<"absorb", "remove">> \in Successor
      BY DEF Successor
    <2> QED
      BY <1>1, <1>2, <2>1, TransactionMoves, OneCall DEF IInv, CoreInv, Transaction
  <1>6. ClashInv' /\ ImportInv' /\ ExpectInv' /\ \A q \in Process : q # p => ProgressAt(q)'
    <2>1. <<"absorb", "remove">> \in Successor
      BY DEF Successor
    <2> QED
      BY <1>1, <1>2, <1>4, <1>5, <2>1, StepFrame, OneCall DEF Transaction
  <1>7. ProgressAt(p)'
    <2>1. ASSUME ~job[p].clashed
          PROVE  MergeAt(p, c, d)'
      <3>1. \E n \in DOMAIN nodes : n.key = c
        <4>1. job[p].pc # "remove"
          BY <1>2 DEF Transaction
        <4> QED
          BY <1>1, <2>1, <4>1 DEF IInv, CoreInv, ProgressInv, ProgressAt, MergeAt
      <3>2. ASSUME NEW n \in DOMAIN nodes, n.key = d
            PROVE  \E m \in DOMAIN nodes : m.key = c /\ nodes'[n] \subseteq nodes'[m]
        <4>1. CASE c = d
          BY <3>2, <4>1
        <4>2. CASE c # d
          BY <1>2, <1>3, <3>1, <3>2, <4>2
        <4> QED
          BY <4>1, <4>2
      <3> QED
        BY <1>4, <1>5, <3>1, <3>2, Moved DEF IInv, CoreInv, MergeAt
    <2>2. \A x, y \in Key : Merges(job[p], x, y) => x = c /\ y = d
      BY <1>1, Merged
    <2> QED
      BY <1>1, <1>5, <2>1, <2>2, Moved, OneCall DEF IInv, CoreInv, ProgressAt, IngestAt, DeleteAt, MergeAt
  <1>8. Typed'
    <2>1. \A n \in DOMAIN nodes : nodes[n] \subseteq Source
      BY DEF IInv, CoreInv, Typed
    <2>2. \A n \in DOMAIN nodes' : nodes'[n] \subseteq Source
      BY <1>3, <1>4, <2>1
    <2>3. DOMAIN nodes' \subseteq [key: Key, by: Process]
      BY <1>4 DEF IInv, CoreInv, Typed
    <2>4. nodes' = [n \in DOMAIN nodes' |-> nodes'[n]]
      BY <1>2
    <2> QED
      BY <1>2, <1>5, <2>2, <2>3, <2>4, TypedFrame DEF IInv, CoreInv
  <1>9. IngestedStays'
    BY <1>2, <1>4, <1>5, IngestedGrows DEF IInv, CoreInv
  <1>10. DeletedIsGone'
    <2>1. \A k : \A n \in DOMAIN nodes' : k \in nodes'[n] => \E m \in DOMAIN nodes : k \in nodes[m]
      BY <1>3, <1>4
    <2> QED
      BY <1>2, <2>1, DeletedStays DEF IInv, CoreInv
  <1>11. OneNodePerKey'
    BY <1>2, <1>4, <1>5 DEF IInv, CoreInv, OneNodePerKey
  <1> QED
    BY <1>6, <1>7, <1>8, <1>9, <1>10, <1>11 DEF IInv, CoreInv, ProgressInv


-----------------------------------------------------------------------------
(* A call ends: whether or not it succeeded, p is in no call any more.     *)
LEMMA UpAndDown ==
  /\ Resting(Up) /\ Up \in JobType
  /\ Resting(Down) /\ Down \in JobType
  <1>1. Up.pc = "idle" /\ Up.activity = {} /\ Up.merge = {} /\ Up.clashed = FALSE
    BY DEF Up
  <1>2. Up \in JobType
    BY DEF Up, JobType
  <1>3. Down \in JobType /\ Down.pc = "down" /\ Down.activity = {} /\ Down.merge = {}
    BY <1>1, <1>2 DEF Down, JobType
  <1> QED
    BY <1>1, <1>2, <1>3 DEF Resting

LEMMA EndFrame ==
  ASSUME IInv, NEW p \in Process, NEW rest \in JobType, Resting(rest),
         job' = [job EXCEPT ![p] = rest]
  PROVE  /\ job' \in [Process -> JobType]
         /\ \A q \in Process : Call(job'[q])
         /\ Resting(job'[p]) /\ ~Busy(p)'
         /\ \A q \in Process : q # p => job'[q] = job[q] /\ (Busy(q)' <=> Busy(q))
         /\ ClashInv' /\ ProgressAt(p)'
  <1>1. Resting(rest)
    OBVIOUS
  <1>2. job' \in [Process -> JobType] /\ job'[p] = rest /\ ~Busy(p)'
    BY DEF IInv, CoreInv, Typed, Resting, Busy
  <1>3. \A q \in Process : q # p => job'[q] = job[q] /\ (Busy(q)' <=> Busy(q))
    BY DEF IInv, CoreInv, Typed, Busy
  <1>4. \A q \in Process : Call(job'[q])
    BY <1>1, <1>2, <1>3 DEF IInv, CoreInv, Typed, Call
  <1>5. ClashInv'
    BY <1>2, <1>3 DEF IInv, CoreInv, ClashInv
  <1>6. ProgressAt(p)'
    BY <1>1, <1>2, OneCall DEF ProgressAt, IngestAt, DeleteAt, MergeAt
  <1> QED
    BY <1>1, <1>2, <1>3, <1>4, <1>5, <1>6

LEMMA GivenUp ==
  ASSUME IInv, NEW p \in Process, NEW rest \in {Up, Down}, job' = [job EXCEPT ![p] = rest],
         queue' = queue \union job[p].activity,
         UNCHANGED <<nodes, edges, expect, absorbed, doubled, raced>>
  PROVE  CoreInv'
  <1>1. /\ ClashInv' /\ ProgressAt(p)' /\ Resting(job'[p]) /\ ~Busy(p)'
        /\ \A q \in Process : q # p => job'[q] = job[q] /\ (Busy(q)' <=> Busy(q))
        /\ job' \in [Process -> JobType]
        /\ \A q \in Process : Call(job'[q])
    BY EndFrame, UpAndDown
  <1>2. Typed'
    <2>1. queue' \subseteq Activity
      BY DEF IInv, CoreInv, Typed, JobType
    <2> QED
      BY <1>1, <2>1 DEF IInv, CoreInv, Typed
  <1>3. ImportInv'
    BY <1>1 DEF IInv, CoreInv, ImportInv, Resting
  <1>4. ExpectInv'
    BY <1>1, OneCall DEF IInv, CoreInv, ExpectInv
  <1>5. ASSUME NEW q \in Process, q # p
        PROVE  ProgressAt(q)'
    BY <1>1, <1>5 DEF IInv, CoreInv, ProgressInv, ProgressAt, IngestAt, DeleteAt, MergeAt
  <1>6. IngestedStays' /\ DeletedIsGone' /\ OneNodePerKey'
    BY DEF IInv, CoreInv, IngestedStays, DeletedIsGone, OneNodePerKey
  <1> QED
    BY <1>1, <1>2, <1>3, <1>4, <1>5, <1>6 DEF IInv, CoreInv, ProgressInv

LEMMA ReportStep ==
  ASSUME IInv, NEW p \in Process, Report(p)
  PROVE  CoreInv'
  <1>1. PICK k \in Source : Document(p) = k /\ (Ingests(job[p], k) \/ Deletes(job[p], k))
    BY InCall DEF IInv, CoreInv, Report
  <1>2. /\ Ingests(job[p], k) => Kind(p) = "ingest"
        /\ Deletes(job[p], k) => Kind(p) = "delete"
        /\ Busy(p)
    BY <1>1, Documents DEF Report, Busy
  <1>3. /\ job[p].pc = "report"
        /\ job' = [job EXCEPT ![p] = Up]
        /\ expect' \in [Source -> {"unknown", "present", "gone"}]
        /\ \A l \in Source : l # k => expect'[l] = expect[l]
        /\ job[p].clashed => expect'[k] = "unknown"
        /\ ~job[p].clashed /\ Ingests(job[p], k) => expect'[k] = "present"
        /\ ~job[p].clashed /\ Deletes(job[p], k) => expect'[k] = "gone"
        /\ UNCHANGED <<nodes, edges, queue, absorbed, doubled, raced>>
    <2>1. "ingest" # "delete"
      OBVIOUS
    <2> QED
      BY <1>1, <1>2, <2>1 DEF Report, IInv, CoreInv, Typed
  <1>4. /\ ClashInv' /\ ProgressAt(p)' /\ Resting(job'[p]) /\ ~Busy(p)'
        /\ \A q \in Process : q # p => job'[q] = job[q] /\ (Busy(q)' <=> Busy(q))
        /\ job' \in [Process -> JobType]
        /\ \A q \in Process : Call(job'[q])
    BY <1>3, EndFrame, UpAndDown
  <1>5. Typed'
    BY <1>3, <1>4 DEF IInv, CoreInv, Typed
  <1>6. ImportInv'
    BY <1>2, <1>3, <1>4, ImportFrame DEF Resting
  <1>7. ExpectInv'
    <2>1. ASSUME NEW q \in Process, q # p, Ingests(job[q], k), Deletes(job[p], k)
          PROVE  job[p].clashed
      <3>1. Busy(q) /\ ~Harmless(job[p], job[q])
        BY <2>1, OneCall, CallFacts DEF Harmless, IInv, CoreInv
      <3> QED
        BY <1>2, <2>1, <3>1 DEF IInv, CoreInv, ClashInv
    <2>2. ASSUME NEW q \in Process, q # p, Deletes(job[q], k), Ingests(job[p], k)
          PROVE  job[p].clashed
      <3>1. Busy(q) /\ ~Harmless(job[p], job[q])
        BY <2>2, OneCall, CallFacts DEF Harmless, IInv, CoreInv
      <3> QED
        BY <1>2, <2>2, <3>1 DEF IInv, CoreInv, ClashInv
    <2>3. ASSUME NEW q \in Process, NEW l \in Source
          PROVE  /\ Ingests(job'[q], l) => expect'[l] # "gone"
                 /\ Deletes(job'[q], l) => expect'[l] # "present"
      <3>1. CASE q = p
        BY <1>4, <3>1, OneCall
      <3>2. CASE q # p /\ l # k
        BY <1>3, <1>4, <3>2 DEF IInv, CoreInv, ExpectInv
      <3>3. CASE q # p /\ l = k
        BY <1>1, <1>3, <1>4, <2>1, <2>2, <3>3
      <3> QED
        BY <3>1, <3>2, <3>3
    <2> QED
      BY <2>3 DEF ExpectInv
  <1>8. ASSUME NEW q \in Process, q # p
        PROVE  ProgressAt(q)'
    <2>1. Grows /\ Shrinks
      BY <1>3 DEF Grows, Shrinks
    <2> QED
      BY <1>2, <1>4, <1>8, <2>1, OthersProgress
  <1>9. IngestedStays'
    <2>1. ~job[p].clashed /\ Ingests(job[p], k) =>
            \A a \in Mentions[k] : \E n \in DOMAIN nodes : n.key = a /\ k \in nodes[n]
      BY <1>3 DEF IInv, CoreInv, ProgressInv, ProgressAt, IngestAt
    <2>2. \A a \in Mentions[k] : a \in absorbed[a]
      BY Neo4jAssumption DEF IInv, CoreInv, Typed
    <2>3. ~job[p].clashed /\ Ingests(job[p], k) =>
            \A a \in Mentions[k] : \E n \in DOMAIN nodes : n.key \in absorbed[a] /\ k \in nodes[n]
      BY <2>1, <2>2
    <2> QED
      BY <1>1, <1>3, <2>3 DEF IInv, CoreInv, IngestedStays
  <1>10. DeletedIsGone'
    <2>1. ~job[p].clashed /\ Deletes(job[p], k) =>
            /\ \A n \in DOMAIN nodes : k \notin nodes[n]
            /\ \A e \in DOMAIN edges : k \notin edges[e]
      BY <1>3 DEF IInv, CoreInv, ProgressInv, ProgressAt, DeleteAt
    <2> QED
      BY <1>1, <1>3, <2>1 DEF IInv, CoreInv, DeletedIsGone
  <1>11. OneNodePerKey'
    BY <1>3 DEF IInv, CoreInv, OneNodePerKey
  <1> QED
    BY <1>4, <1>5, <1>6, <1>7, <1>8, <1>9, <1>10, <1>11 DEF IInv, CoreInv, ProgressInv

LEMMA RemoveStep ==
  ASSUME IInv, NEW p \in Process, Remove(p)
  PROVE  CoreInv'
  <1>1. PICK c \in Key, d \in Key :
          Merges(job[p], c, d) /\ Canonical(p) = c /\ Duplicate(p) = d
    BY InCall DEF IInv, CoreInv, Remove, MergePc
  <1>2. /\ job[p].pc = "remove" /\ Busy(p)
        /\ job' = [job EXCEPT ![p] = Up]
        /\ expect' \in [Source -> {"unknown", "present", "gone"}]
        /\ \A k \in Source : expect'[k] \in {expect[k], "unknown"}
        /\ \A k \in Source : expect'[k] = "present" =>
             expect[k] = "present" /\ ~job[p].clashed /\ c # d
        /\ absorbed' = [a \in Key |-> IF d \in absorbed[a] THEN absorbed[a] \union {c} ELSE absorbed[a]]
        /\ UNCHANGED <<queue, doubled, raced>>
    BY <1>1 DEF Remove, Busy, IInv, CoreInv, Typed
  <1>3. /\ nodes' = [n \in DOMAIN nodes' |-> nodes'[n]]
        /\ edges' = [e \in DOMAIN edges' |-> edges'[e]]
        /\ DOMAIN nodes' = {n \in DOMAIN nodes : n.key # d}
        /\ \A n \in DOMAIN nodes' : nodes'[n] = nodes[n]
        /\ \A e \in DOMAIN edges' : e \in DOMAIN edges /\ edges'[e] = edges[e]
    BY <1>1 DEF Remove, Detach, Restrict, At
  <1>4. /\ ClashInv' /\ ProgressAt(p)' /\ Resting(job'[p]) /\ ~Busy(p)'
        /\ \A q \in Process : q # p => job'[q] = job[q] /\ (Busy(q)' <=> Busy(q))
        /\ job' \in [Process -> JobType]
        /\ \A q \in Process : Call(job'[q])
    BY <1>2, EndFrame, UpAndDown
  <1>5. Typed'
    <2>1. DOMAIN nodes' \subseteq [key: Key, by: Process]
      BY <1>3 DEF IInv, CoreInv, Typed
    <2>2. \A n \in DOMAIN nodes : nodes[n] \in SUBSET Source
      BY DEF IInv, CoreInv, Typed
    <2>3. nodes' \in [DOMAIN nodes' -> SUBSET Source]
      BY <1>3, <2>2
    <2>4. absorbed' \in [Key -> SUBSET Key] /\ \A a \in Key : a \in absorbed'[a]
      BY <1>2 DEF IInv, CoreInv, Typed
    <2> QED
      BY <1>2, <1>3, <1>4, <2>1, <2>3, <2>4 DEF IInv, CoreInv, Typed
  <1>6. ImportInv'
    BY <1>2, <1>4, ImportFrame DEF Resting
  <1>7. ExpectInv'
    BY <1>2, <1>4, OneCall DEF IInv, CoreInv, ExpectInv
  <1>8. ASSUME NEW q \in Process, q # p
        PROVE  ProgressAt(q)'
    BY <1>1, <1>2, <1>4, <1>8, OthersProgress, OneCall
  <1>9. IngestedStays'
    <2> SUFFICES ASSUME ~doubled, NEW k \in Source, expect'[k] = "present", NEW a \in Mentions[k]
                 PROVE  \E n \in DOMAIN nodes' : n.key \in absorbed'[a] /\ k \in nodes'[n]
      BY <1>2 DEF IngestedStays
    <2>1. expect[k] = "present" /\ ~job[p].clashed /\ a \in Key
      BY <1>2, Neo4jAssumption
    <2>2. PICK n \in DOMAIN nodes : n.key \in absorbed[a] /\ k \in nodes[n]
      BY <2>1 DEF IInv, CoreInv, IngestedStays
    <2>3. c # d /\ \A x \in DOMAIN nodes : x.key = d =>
                     \E m \in DOMAIN nodes : m.key = c /\ nodes[x] \subseteq nodes[m]
      BY <1>1, <1>2, <2>1 DEF IInv, CoreInv, ProgressInv, ProgressAt, MergeAt
    <2>4. CASE n.key # d
      BY <1>2, <1>3, <2>1, <2>2, <2>4
    <2>5. CASE n.key = d
      <3>1. PICK m \in DOMAIN nodes : m.key = c /\ nodes[n] \subseteq nodes[m]
        BY <2>3, <2>5
      <3>2. m \in DOMAIN nodes' /\ k \in nodes'[m]
        BY <1>3, <2>2, <2>3, <3>1
      <3>3. m.key \in absorbed'[a]
        BY <1>2, <2>1, <2>2, <2>5, <3>1
      <3> QED
        BY <3>2, <3>3
    <2> QED
      BY <2>4, <2>5
  <1>10. DeletedIsGone'
    BY <1>2, <1>3 DEF IInv, CoreInv, DeletedIsGone
  <1>11. OneNodePerKey'
    BY <1>2, <1>3 DEF IInv, CoreInv, OneNodePerKey
  <1> QED
    BY <1>4, <1>5, <1>6, <1>7, <1>8, <1>9, <1>10, <1>11 DEF IInv, CoreInv, ProgressInv

-----------------------------------------------------------------------------
(* The import of a graph file.                                             *)
LEMMA ClearStep ==
  ASSUME IInv, NEW p \in Process, Clear(p)
  PROVE  CoreInv'
  <1>1. /\ job[p].pc = "clear"
        /\ job' = [job EXCEPT ![p].pc = "load_nodes"]
        /\ DOMAIN nodes' = {} /\ DOMAIN edges' = {}
        /\ nodes' = [n \in {} |-> n] /\ edges' = [e \in {} |-> e]
        /\ expect' = [k \in Source |-> "unknown"]
        /\ absorbed' = [a \in Key |-> {a}]
        /\ doubled' = job[p].clashed
        /\ UNCHANGED queue
    BY DEF Clear, EmptyMap
  <1>2. Busy(p) /\ Moves(p, "load_nodes")
    <2>1. <<"clear", "load_nodes">> \in Successor
      BY DEF Successor
    <2> QED
      BY <1>1, <2>1, TransactionMoves DEF IInv, CoreInv
  <1>3. Importing(job[p])
    BY <1>1, CallFacts DEF IInv, CoreInv, Loading
  <1>4. \A q \in Process : q # p /\ Busy(q) => job[p].clashed
    BY <1>2, <1>3, OneCall DEF IInv, CoreInv, ClashInv, Harmless
  <1>5. Typed'
    <2>1. doubled' \in BOOLEAN
      BY <1>1 DEF IInv, CoreInv, Typed, JobType
    <2>2. nodes' \in [DOMAIN nodes' -> SUBSET Source] /\ edges' = [e \in DOMAIN edges' |-> edges'[e]]
      BY <1>1
    <2> QED
      BY <1>1, <1>2, <2>1, <2>2, Moved DEF IInv, CoreInv, Typed
  <1>6. ClashInv'
    BY <1>2, ClashMoves
  <1>7. ImportInv'
    <2>1. ASSUME NEW q \in Process, job'[q].pc \in {"load_nodes", "load_edges"}, q # p
          PROVE  doubled'
      <3>1. Busy(q)
        BY <1>2, <2>1, Moved DEF IInv, CoreInv, Busy
      <3> QED
        BY <1>1, <1>4, <2>1, <3>1
    <2>2. doubled' \/ \A q \in Process \ {p} : ~Busy(q)'
      BY <1>1, <1>2, <1>4, Moved DEF IInv, CoreInv
    <2> QED
      BY <1>1, <2>1, <2>2 DEF ImportInv
  <1>8. ExpectInv'
    BY <1>1 DEF ExpectInv
  <1>9. ASSUME NEW q \in Process
        PROVE  ProgressAt(q)'
    <2>1. CASE q = p
      BY <1>2, <1>3, <2>1, Moved, OneCall DEF IInv, CoreInv, ProgressAt, IngestAt, DeleteAt, MergeAt
    <2>2. CASE q # p
      BY <1>2, <1>3, <2>2, Moved, OthersProgress, OneCall DEF IInv, CoreInv
    <2> QED
      BY <2>1, <2>2
  <1>10. IngestedStays' /\ DeletedIsGone' /\ OneNodePerKey'
    BY <1>1 DEF IngestedStays, DeletedIsGone, OneNodePerKey
  <1> QED
    BY <1>5, <1>6, <1>7, <1>8, <1>9, <1>10 DEF IInv, CoreInv, ProgressInv

LEMMA LoadNodesStep ==
  ASSUME IInv, NEW p \in Process, LoadNodes(p)
  PROVE  CoreInv'
  <1> DEFINE new == {[key |-> a, by |-> p] : a \in DOMAIN FileSources}
  <1>1. /\ job[p].pc = "load_nodes"
        /\ job' = [job EXCEPT ![p].pc = "load_edges"]
        /\ nodes' = [n \in DOMAIN nodes \union new |->
                       IF n \in new THEN FileSources[n.key] ELSE nodes[n]]
        /\ UNCHANGED <<edges, expect, absorbed, doubled, raced, queue>>
    BY DEF LoadNodes, Transaction
  <1>2. \A n \in new : n = [key |-> n.key, by |-> p] /\ n.key \in DOMAIN FileSources
    OBVIOUS
  <1> HIDE DEF new
  <1>3. Busy(p) /\ Moves(p, "load_edges") /\ Importing(job[p])
    <2>1. <<"load_nodes", "load_edges">> \in Successor
      BY DEF Successor
    <2> QED
      BY <1>1, <2>1, TransactionMoves, CallFacts DEF IInv, CoreInv, Loading
  <1>4. /\ \A k \in Source : expect[k] = "unknown"
        /\ doubled \/ \A q \in Process \ {p} : ~Busy(q)
        /\ doubled \/ (DOMAIN edges = {} /\ DOMAIN nodes = {})
    <2>1. job[p].pc \in {"load_nodes", "load_edges"} /\ job[p].pc # "load_edges"
      BY <1>1
    <2> QED
      BY <2>1 DEF IInv, CoreInv, ImportInv
  <1>5. Typed'
    <2>1. DOMAIN nodes' \subseteq [key: Key, by: Process]
      BY <1>1, <1>2, Neo4jAssumption DEF IInv, CoreInv, Typed
    <2>2. \A n \in DOMAIN nodes : nodes[n] \subseteq Source
      BY DEF IInv, CoreInv, Typed
    <2>3. \A a \in DOMAIN FileSources : FileSources[a] \subseteq Source
      BY Neo4jAssumption
    <2>4. \A n \in DOMAIN nodes' : nodes'[n] \subseteq Source
      BY <1>1, <1>2, <2>2, <2>3
    <2>5. nodes' = [n \in DOMAIN nodes' |-> nodes'[n]]
      BY <1>1
    <2> QED
      BY <1>1, <1>3, <2>1, <2>4, <2>5, TypedFrame DEF IInv, CoreInv
  <1>6. ClashInv'
    BY <1>3, ClashMoves
  <1>7. ImportInv'
    <2>1. ASSUME NEW q \in Process, job'[q].pc \in {"load_nodes", "load_edges"}, q # p
          PROVE  doubled
      BY <1>3, <1>4, <2>1, Moved DEF IInv, CoreInv, Busy
    <2>2. job'[p].pc = "load_edges" /\ (doubled \/ \A q \in Process \ {p} : ~Busy(q)')
      BY <1>3, <1>4, Moved DEF IInv, CoreInv
    <2> QED
      BY <1>1, <1>4, <2>1, <2>2 DEF ImportInv
  <1>8. ExpectInv'
    BY <1>1, <1>4 DEF ExpectInv
  <1>9. ASSUME NEW q \in Process
        PROVE  ProgressAt(q)'
    <2>1. CASE q = p
      BY <1>3, <2>1, Moved, OneCall DEF IInv, CoreInv, ProgressAt, IngestAt, DeleteAt, MergeAt
    <2>2. CASE q # p
      BY <1>3, <2>2, Moved, OthersProgress, OneCall DEF IInv, CoreInv
    <2> QED
      BY <2>1, <2>2
  <1>10. IngestedStays' /\ DeletedIsGone'
    BY <1>1, <1>4 DEF IngestedStays, DeletedIsGone
  <1>11. OneNodePerKey'
    BY <1>1, <1>2, <1>4 DEF OneNodePerKey
  <1> QED
    BY <1>5, <1>6, <1>7, <1>8, <1>9, <1>10, <1>11 DEF IInv, CoreInv, ProgressInv

LEMMA LoadEdgesStep ==
  ASSUME IInv, NEW p \in Process, LoadEdges(p)
  PROVE  CoreInv'
  <1> DEFINE new    == {[from |-> s, to |-> o, by |-> p] : s, o \in DOMAIN nodes}
             listed == {e \in new : <<e.from.key, e.to.key>> \in DOMAIN FileClaims}
             rest   == [job[p] EXCEPT !.pc = "idle"]
  <1>1. /\ job[p].pc = "load_edges"
        /\ job' = [job EXCEPT ![p] = rest]
        /\ edges' = [e \in DOMAIN edges \union listed |->
                       IF e \in listed THEN FileClaims[<<e.from.key, e.to.key>>] ELSE edges[e]]
        /\ UNCHANGED <<nodes, expect, absorbed, doubled, raced, queue>>
    BY DEF LoadEdges, Transaction
  <1>2. \A e \in listed : e = [from |-> e.from, to |-> e.to, by |-> p]
    OBVIOUS
  <1> HIDE DEF new, listed
  <1>3. Busy(p) /\ Importing(job[p])
    BY <1>1, CallFacts DEF IInv, CoreInv, Loading, Busy
  <1>4. rest \in JobType /\ Resting(rest)
    BY <1>3 DEF IInv, CoreInv, Typed, JobType, Importing, Resting
  <1> HIDE DEF rest
  <1>5. /\ ClashInv' /\ ProgressAt(p)' /\ Resting(job'[p]) /\ ~Busy(p)'
        /\ \A q \in Process : q # p => job'[q] = job[q] /\ (Busy(q)' <=> Busy(q))
        /\ job' \in [Process -> JobType]
        /\ \A q \in Process : Call(job'[q])
    BY <1>1, <1>4, EndFrame
  <1>6. /\ \A k \in Source : expect[k] = "unknown"
        /\ doubled \/ DOMAIN edges = {}
    <2>1. job[p].pc \in {"load_nodes", "load_edges"}
      BY <1>1
    <2> QED
      BY <2>1 DEF IInv, CoreInv, ImportInv
  <1>7. Typed'
    BY <1>1, <1>5 DEF IInv, CoreInv, Typed
  <1>8. ImportInv'
    <2>1. ASSUME NEW q \in Process, job'[q].pc \in {"load_nodes", "load_edges"}
          PROVE  doubled
      <3>1. q # p /\ job[q].pc \in {"load_nodes", "load_edges"}
        BY <1>5, <2>1 DEF Resting
      <3> QED
        BY <1>3, <3>1 DEF IInv, CoreInv, ImportInv
    <2> QED
      BY <1>1, <1>6, <2>1 DEF ImportInv
  <1>9. ExpectInv'
    BY <1>1, <1>6 DEF ExpectInv
  <1>10. ASSUME NEW q \in Process, q # p
         PROVE  ProgressAt(q)'
    BY <1>3, <1>5, <1>10, OthersProgress, OneCall
  <1>11. IngestedStays' /\ DeletedIsGone'
    BY <1>1, <1>6 DEF IngestedStays, DeletedIsGone
  <1>12. OneNodePerKey'
    BY <1>1, <1>2, <1>6 DEF IInv, CoreInv, OneNodePerKey
  <1> QED
    BY <1>5, <1>7, <1>8, <1>9, <1>10, <1>11, <1>12 DEF IInv, CoreInv, ProgressInv

-----------------------------------------------------------------------------
(* A call begins, and whatever it runs into is told.                       *)
LEMMA BeginStep ==
  ASSUME IInv, NEW p \in Process, ~Busy(p), NEW kind, NEW state \in JobType,
         Call(state), state.pc \in {"clear", "entities", "unlink", "outgoing"},
         kind = "ingest" => \E k \in Source : Ingests(state, k),
         kind = "delete" => \E k \in Source : Deletes(state, k),
         Importing(state) => kind = "load",
         \A c, d \in Key : Merges(state, c, d) => \E n \in DOMAIN nodes : n.key = c,
         Begin(p, kind, state),
         UNCHANGED <<nodes, edges, absorbed, raced>>, queue' \subseteq Activity,
         expect' \in [Source -> {"unknown", "present", "gone"}],
         \A k \in Source : expect'[k] \in {expect[k], "unknown"},
         \A k \in Source : Ingests(state, k) \/ Deletes(state, k) => expect'[k] = "unknown"
  PROVE  CoreInv'
  <1> DEFINE others == Disturbed(p, kind)
             now == [state EXCEPT !.clashed = others # {}]
  <1>1. /\ job' = [q \in Process |->
                     IF q = p THEN now
                     ELSE IF q \in others THEN [job[q] EXCEPT !.clashed = TRUE]
                     ELSE job[q]]
        /\ doubled' = (doubled \/ (others # {} /\ (kind = "load" \/ \E q \in others : Loading(q))))
    BY DEF Begin
  <1>2. /\ now \in JobType /\ now.pc = state.pc /\ now.activity = state.activity
        /\ now.merge = state.merge /\ (now.clashed <=> others # {})
    BY DEF JobType
  <1>3. others \subseteq Process \ {p}
    BY DEF Disturbed
  <1>4. ASSUME NEW q \in Process, q # p
        PROVE  \/ ~Busy(q)
               \/ q \in others
               \/ kind = "ingest" /\ \E k \in Source : Ingests(job[q], k)
               \/ kind = "delete" /\ \E k \in Source : Deletes(job[q], k)
    BY <1>4, NotDisturbed DEF IInv, CoreInv
  <1> HIDE DEF others, now
  <1>5. ASSUME NEW q \in Process, q # p
        PROVE  /\ job'[q] \in JobType
               /\ job'[q].pc = job[q].pc /\ job'[q].activity = job[q].activity
               /\ job'[q].merge = job[q].merge
               /\ job[q].clashed => job'[q].clashed
               /\ q \in others => job'[q].clashed
    <2>1. job[q] \in JobType
      BY DEF IInv, CoreInv, Typed
    <2>2. CASE q \in others
      <3>1. job'[q] = [job[q] EXCEPT !.clashed = TRUE]
        BY <1>1, <1>5, <2>2
      <3> QED
        BY <2>1, <3>1 DEF JobType
    <2>3. CASE q \notin others
      <3>1. job'[q] = job[q]
        BY <1>1, <1>5, <2>3
      <3> QED
        BY <2>1, <2>3, <3>1
    <2> QED
      BY <2>2, <2>3
  <1>6. ASSUME NEW q \in Process, q # p
        PROVE  /\ Call(job'[q]) /\ (Busy(q)' <=> Busy(q))
               /\ \A k \in Source : /\ Ingests(job'[q], k) <=> Ingests(job[q], k)
                                    /\ Deletes(job'[q], k) <=> Deletes(job[q], k)
               /\ \A c, d \in Key : Merges(job'[q], c, d) <=> Merges(job[q], c, d)
               /\ Importing(job'[q]) <=> Importing(job[q])
    <2>1. Call(job[q])
      BY CallFacts DEF IInv, CoreInv
    <2>2. /\ Busy(q)' <=> Busy(q)
          /\ Resting(job'[q]) <=> Resting(job[q])
          /\ Importing(job'[q]) <=> Importing(job[q])
          /\ \A k \in Source : /\ Ingests(job'[q], k) <=> Ingests(job[q], k)
                               /\ Deletes(job'[q], k) <=> Deletes(job[q], k)
          /\ \A c, d \in Key : Merges(job'[q], c, d) <=> Merges(job[q], c, d)
      BY <1>5, <1>6 DEF Busy, Resting, Importing, Ingests, Deletes, Merges
    <2> QED
      BY <2>1, <2>2 DEF Call
  <1>7. /\ job'[p] = now /\ Call(now)
        /\ \A k \in Source : /\ Ingests(now, k) <=> Ingests(state, k)
                             /\ Deletes(now, k) <=> Deletes(state, k)
        /\ \A c, d \in Key : Merges(now, c, d) <=> Merges(state, c, d)
        /\ Importing(now) <=> Importing(state)
    <2>1. /\ Resting(now) <=> Resting(state)
          /\ Importing(now) <=> Importing(state)
          /\ \A k \in Source : /\ Ingests(now, k) <=> Ingests(state, k)
                               /\ Deletes(now, k) <=> Deletes(state, k)
          /\ \A c, d \in Key : Merges(now, c, d) <=> Merges(state, c, d)
      BY <1>2 DEF Resting, Importing, Ingests, Deletes, Merges
    <2>2. Call(now)
      BY <2>1 DEF Call
    <2> QED
      BY <1>1, <2>1, <2>2
  <1>8. doubled => doubled'
    BY <1>1
  <1>9. Typed'
    <2>1. job' \in [Process -> JobType]
      BY <1>1, <1>2, <1>5, <1>7
    <2>2. doubled' \in BOOLEAN
      BY <1>1 DEF IInv, CoreInv, Typed
    <2> QED
      BY <1>6, <1>7, <2>1, <2>2 DEF IInv, CoreInv, Typed
  <1>10. ASSUME NEW q \in Process, q # p, Busy(q), ~Harmless(now, job[q]) \/ ~Harmless(job[q], now)
         PROVE  q \in others
    BY <1>4, <1>7, <1>10 DEF Harmless
  <1>11. ClashInv'
    <2> SUFFICES ASSUME NEW q \in Process, NEW r \in Process, q # r, Busy(q)', Busy(r)',
                        ~Harmless(job'[q], job'[r])
                 PROVE  job'[q].clashed /\ job'[r].clashed
      BY DEF ClashInv
    <2>1. CASE q = p
      <3>1. ~Harmless(now, job[r]) /\ Busy(r) /\ r # p
        BY <1>6, <1>7, <2>1 DEF Harmless
      <3> QED
        BY <1>2, <1>5, <1>7, <1>10, <2>1, <3>1
    <2>2. CASE r = p
      <3>1. ~Harmless(job[q], now) /\ Busy(q) /\ q # p
        BY <1>6, <1>7, <2>2 DEF Harmless
      <3> QED
        BY <1>2, <1>5, <1>7, <1>10, <2>2, <3>1
    <2>3. CASE q # p /\ r # p
      <3>1. ~Harmless(job[q], job[r]) /\ Busy(q) /\ Busy(r)
        BY <1>6, <2>3 DEF Harmless
      <3> QED
        BY <1>5, <2>3, <3>1 DEF IInv, CoreInv, ClashInv
    <2> QED
      BY <2>1, <2>2, <2>3
  <1>12. ImportInv'
    <2> SUFFICES ASSUME NEW q \in Process, job'[q].pc \in {"load_nodes", "load_edges"}
                 PROVE  /\ \A k \in Source : expect'[k] = "unknown"
                        /\ doubled'
      BY DEF ImportInv
    <2>1. q # p /\ job[q].pc \in {"load_nodes", "load_edges"}
      BY <1>2, <1>5, <1>7
    <2>2. Loading(q) /\ Importing(job[q]) /\ Busy(q)
      BY <2>1, CallFacts DEF IInv, CoreInv, Loading, Busy
    <2>3. q \in others
      BY <1>4, <2>1, <2>2, OneCall
    <2> QED
      BY <1>1, <2>1, <2>2, <2>3 DEF IInv, CoreInv, ImportInv
  <1>13. ExpectInv'
    BY <1>6, <1>7 DEF IInv, CoreInv, ExpectInv
  <1>14. ASSUME NEW q \in Process
         PROVE  ProgressAt(q)'
    <2>1. CASE q = p
      BY <1>2, <1>7, <1>8, <2>1 DEF ProgressAt, IngestAt, DeleteAt, MergeAt
    <2>2. CASE q # p
      BY <1>5, <1>6, <1>8, <2>2 DEF IInv, CoreInv, ProgressInv, ProgressAt, IngestAt, DeleteAt, MergeAt
    <2> QED
      BY <2>1, <2>2
  <1>15. IngestedStays' /\ DeletedIsGone' /\ OneNodePerKey'
    BY <1>8 DEF IInv, CoreInv, IngestedStays, DeletedIsGone, OneNodePerKey
  <1> QED
    BY <1>9, <1>11, <1>12, <1>13, <1>14, <1>15 DEF IInv, CoreInv, ProgressInv

LEMMA StartStep ==
  ASSUME IInv, NEW p \in Process, Start(p)
  PROVE  CoreInv'
  <1>1. ~Busy(p) /\ UNCHANGED <<nodes, edges, queue, expect, absorbed, raced>>
    BY DEF Start, Busy
  <1>2. CASE file
    <2> DEFINE state == [Up EXCEPT !.pc = "clear"]
    <2>1. /\ state \in JobType /\ state.pc = "clear"
          /\ state.activity = {} /\ state.merge = {}
      BY UpAndDown DEF JobType, Resting, LoadPc
    <2>2. Begin(p, "load", state)
      BY <1>2 DEF Start
    <2> HIDE DEF state
    <2>3. Importing(state) /\ Call(state)
      BY <2>1 DEF Importing, Call, LoadPc
    <2>4. /\ \A k \in Source : ~Ingests(state, k) /\ ~Deletes(state, k)
          /\ \A c, d \in Key : ~Merges(state, c, d)
      BY <2>3, OneCall
    <2>5. /\ expect' \in [Source -> {"unknown", "present", "gone"}] /\ queue' \subseteq Activity
          /\ \A k \in Source : expect'[k] \in {expect[k], "unknown"}
      BY <1>1 DEF IInv, CoreInv, Typed
    <2> QED
      BY <1>1, <2>1, <2>2, <2>3, <2>4, <2>5, BeginStep
  <1>3. CASE ~file
    <2>1. job' = [job EXCEPT ![p] = Up] /\ UNCHANGED doubled
      BY <1>3 DEF Start
    <2>2. job[p].activity = {}
      BY <1>1, CallFacts DEF IInv, CoreInv, Resting
    <2>3. queue' = queue \union job[p].activity
      BY <1>1, <2>2
    <2> QED
      BY <1>1, <2>1, <2>3, GivenUp
  <1> QED
    BY <1>2, <1>3

LEMMA TakeStep ==
  ASSUME IInv, NEW p \in Process, NEW a \in Activity, Take(p, a)
  PROVE  CoreInv'
  <1>1. PICK k \in Source : a = <<"ingest", k>> \/ a = <<"delete", k>>
    BY DEF Activity
  <1>2. a[1] \in {"ingest", "delete"} /\ a[2] = k
    BY <1>1
  <1> DEFINE state == [Up EXCEPT !.pc = IF a[1] = "ingest" THEN "entities" ELSE "unlink",
                                 !.activity = {a}]
  <1>3. /\ ~Busy(p) /\ Begin(p, a[1], state) /\ queue' = queue \ {a}
        /\ expect' = [expect EXCEPT ![a[2]] = "unknown"]
        /\ UNCHANGED <<nodes, edges, absorbed, raced>>
    BY DEF Take, Busy
  <1>4. /\ state \in JobType /\ state.activity = {a} /\ state.merge = {}
        /\ state.pc = IF a[1] = "ingest" THEN "entities" ELSE "unlink"
    <2>1. Up.merge = {} /\ Up \in JobType
      BY UpAndDown DEF Resting
    <2>2. {a} \in SUBSET Activity
      OBVIOUS
    <2> QED
      BY <2>1, <2>2 DEF JobType, IngestPc, DeletePc
  <1> HIDE DEF state
  <1>5. CASE a = <<"ingest", k>>
    <2>1. Ingests(state, k) /\ state.pc = "entities" /\ a[1] = "ingest"
      BY <1>4, <1>5 DEF Ingests, IngestPc
    <2>2. Call(state)
      BY <2>1 DEF Call
    <2>3. /\ \A l \in Source : ~Deletes(state, l) /\ (Ingests(state, l) => l = k)
          /\ \A c, d \in Key : ~Merges(state, c, d)
          /\ ~Importing(state)
      BY <2>1, OneCall
    <2>4. /\ expect' \in [Source -> {"unknown", "present", "gone"}] /\ queue' \subseteq Activity
          /\ \A l \in Source : expect'[l] \in {expect[l], "unknown"}
          /\ expect'[k] = "unknown"
      BY <1>2, <1>3 DEF IInv, CoreInv, Typed
    <2> QED
      BY <1>3, <1>4, <2>1, <2>2, <2>3, <2>4, BeginStep
  <1>6. CASE a = <<"delete", k>>
    <2>1. Deletes(state, k) /\ state.pc = "unlink" /\ a[1] = "delete"
      BY <1>4, <1>6 DEF Deletes, DeletePc
    <2>2. Call(state)
      BY <2>1 DEF Call
    <2>3. /\ \A l \in Source : ~Ingests(state, l) /\ (Deletes(state, l) => l = k)
          /\ \A c, d \in Key : ~Merges(state, c, d)
          /\ ~Importing(state)
      BY <2>1, OneCall
    <2>4. /\ expect' \in [Source -> {"unknown", "present", "gone"}] /\ queue' \subseteq Activity
          /\ \A l \in Source : expect'[l] \in {expect[l], "unknown"}
          /\ expect'[k] = "unknown"
      BY <1>2, <1>3 DEF IInv, CoreInv, Typed
    <2> QED
      BY <1>3, <1>4, <2>1, <2>2, <2>3, <2>4, BeginStep
  <1> QED
    BY <1>1, <1>5, <1>6

LEMMA MergeStep ==
  ASSUME IInv, NEW p \in Process, NEW c \in Key, NEW d \in Key, Merge(p, c, d)
  PROVE  CoreInv'
  <1> DEFINE state == [Up EXCEPT !.pc = "outgoing", !.merge = {<<c, d>>}]
  <1>1. /\ ~Busy(p) /\ Begin(p, "merge", state)
        /\ At(c) # {}
        /\ UNCHANGED <<nodes, edges, queue, expect, absorbed, raced>>
    BY DEF Merge, Busy
  <1>2. /\ state \in JobType /\ state.activity = {} /\ state.merge = {<<c, d>>}
        /\ state.pc = "outgoing"
    <2>1. Up.activity = {} /\ Up \in JobType
      BY UpAndDown DEF Resting
    <2>2. {<<c, d>>} \in SUBSET (Key \X Key)
      OBVIOUS
    <2> QED
      BY <2>1, <2>2 DEF JobType, MergePc
  <1> HIDE DEF state
  <1>3. Merges(state, c, d)
    BY <1>2 DEF Merges, MergePc
  <1>4. Call(state)
    BY <1>3 DEF Call
  <1>5. /\ \A l \in Source : ~Ingests(state, l) /\ ~Deletes(state, l)
        /\ ~Importing(state)
    BY <1>3, OneCall
  <1>6. \A x, y \in Key : Merges(state, x, y) => x = c /\ y = d
    <2>1. \A x, y : {<<x, y>>} = {<<c, d>>} => x = c /\ y = d
      <3>1. \A x, y : <<x, y>> = <<c, d>> => x = c /\ y = d
        OBVIOUS
      <3> QED
        BY <3>1
    <2> QED
      BY <1>2, <2>1 DEF Merges
  <1>7. \E n \in DOMAIN nodes : n.key = c
    BY <1>1 DEF At
  <1>9. /\ expect' \in [Source -> {"unknown", "present", "gone"}] /\ queue' \subseteq Activity
        /\ \A l \in Source : expect'[l] \in {expect[l], "unknown"}
    BY <1>1 DEF IInv, CoreInv, Typed
  <1> QED
    BY <1>1, <1>2, <1>4, <1>5, <1>6, <1>7, <1>9, BeginStep

-----------------------------------------------------------------------------
(* The MERGEs that are open.                                               *)
LEMMA RaceFrame ==
  ASSUME IInv, missing' \in [Process -> SUBSET Key], raced' \in BOOLEAN,
         \A q \in Process : job'[q].pc = "create" =>
           /\ job[q].pc = "create" /\ job'[q].activity = job[q].activity
           /\ missing'[q] = missing[q],
         \/ \A q \in Process : job'[q].pc = "create" => doubled' \/ raced'
         \/ /\ doubled \/ raced => doubled' \/ raced'
            /\ \A n \in DOMAIN nodes' : \E m \in DOMAIN nodes : m.key = n.key
  PROVE  RaceInv'
  <1>1. \A q \in Process : job'[q].pc = "create" => Document(q)' = Document(q)
    BY DEF Document
  <1> SUFFICES ASSUME NEW p \in Process, job'[p].pc = "create"
               PROVE  /\ missing'[p] \subseteq Mentions[Document(p)']
                      /\ \A a \in missing'[p] :
                           \/ doubled' \/ raced'
                           \/ /\ \A n \in DOMAIN nodes' : n.key # a
                              /\ \A q \in Process \ {p} :
                                   job'[q].pc = "create" => a \notin Mentions[Document(q)']
    BY DEF RaceInv
  <1>2. missing'[p] = missing[p] /\ job[p].pc = "create" /\ missing[p] \subseteq Mentions[Document(p)]
    BY DEF IInv, RaceInv
  <1>3. ASSUME NEW a \in missing[p], ~(doubled' \/ raced')
        PROVE  /\ \A n \in DOMAIN nodes' : n.key # a
               /\ \A q \in Process \ {p} :
                    job'[q].pc = "create" => a \notin Mentions[Document(q)']
    <2>1. /\ \A n \in DOMAIN nodes : n.key # a
          /\ \A q \in Process \ {p} : job[q].pc = "create" => a \notin Mentions[Document(q)]
      BY <1>2, <1>3 DEF IInv, RaceInv
    <2>2. \A n \in DOMAIN nodes' : \E m \in DOMAIN nodes : m.key = n.key
      BY <1>3
    <2> QED
      BY <1>1, <2>1, <2>2
  <1> QED
    BY <1>1, <1>2, <1>3

(* A step of p that is not about an open MERGE, or ends one that creates   *)
(* nothing.                                                                *)
LEMMA RaceMoves ==
  ASSUME IInv, NEW p \in Process,
         \/ \E to : to # "create" /\ job' = [job EXCEPT ![p].pc = to]
         \/ \E rest \in {Up, Down} : job' = [job EXCEPT ![p] = rest],
         missing' \in {missing, [missing EXCEPT ![p] = {}]}, raced' = raced, doubled' = doubled,
         \A n \in DOMAIN nodes' : \E m \in DOMAIN nodes : m.key = n.key
  PROVE  RaceInv'
  <1>1. missing' \in [Process -> SUBSET Key] /\ raced' \in BOOLEAN
        /\ \A q \in Process : q # p => missing'[q] = missing[q]
    BY DEF IInv, RaceInv
  <1>2. job \in [Process -> JobType]
    BY DEF IInv, CoreInv, Typed
  <1>3. \A q \in Process : q # p => job'[q] = job[q]
    BY <1>2
  <1>4. job'[p].pc # "create"
    <2>1. CASE \E to : to # "create" /\ job' = [job EXCEPT ![p].pc = to]
      BY <1>2, <2>1 DEF JobType
    <2>2. CASE \E rest \in {Up, Down} : job' = [job EXCEPT ![p] = rest]
      BY <1>2, <2>2, UpAndDown DEF Resting
    <2> QED
      BY <2>1, <2>2
  <1> QED
    BY <1>1, <1>3, <1>4, RaceFrame

LEMMA RaceLook ==
  ASSUME IInv, NEW p \in Process, Look(p)
  PROVE  RaceInv'
  <1> DEFINE absent == {a \in Mentions[Document(p)] : At(a) = {}}
  <1>1. /\ job[p].pc = "entities" /\ job' = [job EXCEPT ![p].pc = "create"]
        /\ missing' = [missing EXCEPT ![p] = absent]
        /\ raced' = (raced \/ \E q \in Process \ {p} :
                       job[q].pc = "create" /\ absent \cap Mentions[Document(q)] # {})
        /\ UNCHANGED <<nodes, doubled>>
    BY DEF Look
  <1>2. Document(p) \in Source
    BY <1>1, InCall DEF IInv, CoreInv
  <1>3. /\ absent \subseteq Mentions[Document(p)] /\ absent \in SUBSET Key
        /\ \A a \in absent : \A n \in DOMAIN nodes : n.key # a
        /\ \A a \in Mentions[Document(p)] : (\A n \in DOMAIN nodes : n.key # a) => a \in absent
    BY <1>2, Neo4jAssumption DEF At
  <1> HIDE DEF absent
  <1>4. /\ job \in [Process -> JobType] /\ missing \in [Process -> SUBSET Key] /\ raced \in BOOLEAN
    BY DEF IInv, CoreInv, Typed, RaceInv
  <1>5. /\ missing' \in [Process -> SUBSET Key] /\ raced' \in BOOLEAN
        /\ missing'[p] = absent
        /\ \A q \in Process : q # p => missing'[q] = missing[q] /\ job'[q] = job[q]
        /\ \A q \in Process : job'[q].activity = job[q].activity
    BY <1>1, <1>3, <1>4 DEF JobType
  <1>6. \A q \in Process : Document(q)' = Document(q)
    BY <1>5 DEF Document
  <1>7. ASSUME NEW q \in Process, job'[q].pc = "create"
        PROVE  /\ missing'[q] \subseteq Mentions[Document(q)']
               /\ \A a \in missing'[q] :
                    \/ doubled' \/ raced'
                    \/ /\ \A n \in DOMAIN nodes' : n.key # a
                       /\ \A r \in Process \ {q} :
                            job'[r].pc = "create" => a \notin Mentions[Document(r)']
    <2>1. CASE q = p
      <3>1. missing'[q] \subseteq Mentions[Document(q)']
        BY <1>3, <1>5, <1>6, <2>1
      <3>2. ASSUME NEW a \in absent, ~raced', NEW r \in Process \ {q}, job'[r].pc = "create"
            PROVE  a \notin Mentions[Document(r)']
        BY <1>1, <1>5, <1>6, <2>1, <3>2
      <3>3. \A a \in absent : \A n \in DOMAIN nodes' : n.key # a
        BY <1>1, <1>3
      <3> QED
        BY <1>5, <2>1, <3>1, <3>2, <3>3
    <2>2. CASE q # p
      <3>1. job[q].pc = "create" /\ missing'[q] = missing[q] /\ missing[q] \subseteq Mentions[Document(q)]
        BY <1>5, <1>7, <2>2 DEF IInv, RaceInv
      <3>2. ASSUME NEW a \in missing[q], ~(doubled' \/ raced')
            PROVE  /\ \A n \in DOMAIN nodes' : n.key # a
                   /\ \A r \in Process \ {q} :
                        job'[r].pc = "create" => a \notin Mentions[Document(r)']
        <4>1. ~doubled /\ ~raced
          BY <1>1, <3>2
        <4>2. /\ \A n \in DOMAIN nodes : n.key # a
              /\ \A r \in Process \ {q} : job[r].pc = "create" => a \notin Mentions[Document(r)]
          BY <3>1, <4>1 DEF IInv, RaceInv
        <4>3. a \notin Mentions[Document(p)]
          <5>1. a \in absent => raced'
            <6>1. a \in Mentions[Document(q)] /\ q \in Process \ {p}
              BY <2>2, <3>1
            <6> QED
              BY <1>1, <3>1, <6>1
          <5>2. a \in Mentions[Document(p)] => a \in absent
            BY <1>3, <4>2
          <5> QED
            BY <3>2, <5>1, <5>2
        <4>4. \A n \in DOMAIN nodes' : n.key # a
          BY <1>1, <4>2
        <4> QED
          BY <1>5, <1>6, <4>2, <4>3, <4>4
      <3> QED
        BY <1>6, <3>1, <3>2
    <2> QED
      BY <2>1, <2>2
  <1> QED
    BY <1>5, <1>7 DEF RaceInv

LEMMA RaceCreate ==
  ASSUME IInv, NEW p \in Process, UpsertEntities(p)
  PROVE  RaceInv'
  <1>1. PICK k \in Source : Ingests(job[p], k) /\ Document(p) = k
    BY InCall DEF IInv, CoreInv, UpsertEntities, Transaction
  <1>2. PICK new : Creates(p, k, new)
    BY <1>1, Created
  <1>3. /\ nodes' = [n \in DOMAIN nodes \union new |-> Get(nodes, n, {k})]
        /\ \A n \in new : n.key \in Mentions[k]
    BY <1>2 DEF Creates
  <1>4. /\ job[p].pc = "create" /\ job' = [job EXCEPT ![p].pc = "credit"]
        /\ missing' = [missing EXCEPT ![p] = {}] /\ UNCHANGED <<doubled, raced>>
    BY DEF UpsertEntities, Transaction
  <1>5. /\ job \in [Process -> JobType] /\ missing \in [Process -> SUBSET Key] /\ raced \in BOOLEAN
    BY DEF IInv, CoreInv, Typed, RaceInv
  <1>6. /\ missing' \in [Process -> SUBSET Key] /\ raced' \in BOOLEAN
        /\ \A q \in Process : q # p => missing'[q] = missing[q] /\ job'[q] = job[q]
        /\ job'[p].pc # "create"
    BY <1>4, <1>5 DEF JobType
  <1>7. \A q \in Process : q # p => Document(q)' = Document(q)
    BY <1>6 DEF Document
  <1>8. ASSUME NEW q \in Process, job'[q].pc = "create"
        PROVE  /\ missing'[q] \subseteq Mentions[Document(q)']
               /\ \A a \in missing'[q] :
                    \/ doubled' \/ raced'
                    \/ /\ \A n \in DOMAIN nodes' : n.key # a
                       /\ \A r \in Process \ {q} :
                            job'[r].pc = "create" => a \notin Mentions[Document(r)']
    <2>1. q # p /\ job[q].pc = "create" /\ missing'[q] = missing[q]
          /\ missing[q] \subseteq Mentions[Document(q)]
      BY <1>6, <1>8 DEF IInv, RaceInv
    <2>2. ASSUME NEW a \in missing[q], ~(doubled' \/ raced')
          PROVE  /\ \A n \in DOMAIN nodes' : n.key # a
                 /\ \A r \in Process \ {q} :
                      job'[r].pc = "create" => a \notin Mentions[Document(r)']
      <3>1. /\ \A n \in DOMAIN nodes : n.key # a
            /\ \A r \in Process \ {q} : job[r].pc = "create" => a \notin Mentions[Document(r)]
        BY <1>4, <2>1, <2>2 DEF IInv, RaceInv
      <3>2. a \notin Mentions[k]
        BY <1>1, <1>4, <2>1, <3>1
      <3>3. \A n \in DOMAIN nodes' : n.key # a
        BY <1>3, <3>1, <3>2
      <3>4. ASSUME NEW r \in Process \ {q}, job'[r].pc = "create"
            PROVE  a \notin Mentions[Document(r)']
        BY <1>6, <1>7, <3>1, <3>4
      <3> QED
        BY <3>3, <3>4
    <2> QED
      BY <1>7, <2>1, <2>2
  <1> QED
    BY <1>6, <1>8 DEF RaceInv

(* A process that takes up a call.                                         *)
LEMMA RaceBegins ==
  ASSUME IInv, NEW p \in Process, NEW kind, NEW state, state.pc # "create",
         state \in JobType, Begin(p, kind, state), UNCHANGED <<nodes, missing, raced>>
  PROVE  RaceInv'
  <1>1. job \in [Process -> JobType] /\ missing \in [Process -> SUBSET Key] /\ raced \in BOOLEAN
    BY DEF IInv, CoreInv, Typed, RaceInv
  <1>2. doubled => doubled'
    BY DEF Begin
  <1>3. job'[p].pc # "create"
    <2> DEFINE now == [state EXCEPT !.clashed = Disturbed(p, kind) # {}]
    <2>1. job'[p] = now
      BY DEF Begin
    <2>2. now.pc = state.pc
      BY DEF JobType
    <2> QED
      BY <2>1, <2>2
  <1>4. ASSUME NEW q \in Process, q # p
        PROVE  job'[q].pc = job[q].pc /\ job'[q].activity = job[q].activity
    <2>1. job'[q] \in {job[q], [job[q] EXCEPT !.clashed = TRUE]}
      BY <1>4 DEF Begin
    <2> QED
      BY <1>1, <2>1 DEF JobType
  <1> QED
    BY <1>1, <1>2, <1>3, <1>4, RaceFrame

(* During an import every open MERGE has run into it.                      *)
LEMMA RaceImport ==
  ASSUME IInv, NEW p \in Process, Clear(p) \/ LoadNodes(p)
  PROVE  RaceInv'
  <1>1. /\ Loading(p) /\ raced' \in BOOLEAN
        /\ missing' \in {missing, [missing EXCEPT ![p] = {}]}
        /\ \E to \in {"load_nodes", "load_edges"} : job' = [job EXCEPT ![p].pc = to]
    BY DEF Clear, LoadNodes, Transaction, Loading, IInv, RaceInv
  <1>2. job \in [Process -> JobType] /\ missing \in [Process -> SUBSET Key]
    BY DEF IInv, CoreInv, Typed, RaceInv
  <1>3. /\ missing' \in [Process -> SUBSET Key]
        /\ \A q \in Process : q # p => missing'[q] = missing[q] /\ job'[q] = job[q]
        /\ job'[p].pc # "create"
    BY <1>1, <1>2 DEF JobType
  <1>4. ASSUME NEW q \in Process, job'[q].pc = "create"
        PROVE  doubled'
    <2>1. q # p /\ Busy(q) /\ job[q].pc = "create"
      BY <1>3, <1>4 DEF Busy
    <2>2. Busy(p) /\ Importing(job[p])
      BY <1>1, CallFacts DEF IInv, CoreInv, Loading, Busy
    <2>3. job[p].clashed
      BY <2>1, <2>2, OneCall DEF IInv, CoreInv, ClashInv, Harmless
    <2>4. CASE Clear(p)
      BY <2>3, <2>4 DEF Clear
    <2>5. CASE LoadNodes(p)
      BY <2>1, <2>5 DEF LoadNodes, Transaction, IInv, CoreInv, ImportInv
    <2> QED
      BY <2>4, <2>5
  <1> QED
    BY <1>1, <1>3, <1>4, RaceFrame

(* The transactions that create no node.                                   *)
LEMMA RaceTransaction ==
  ASSUME IInv, NEW p \in Process, NEW from, NEW to, to # "create", Transaction(p, from, to),
         DOMAIN nodes' \subseteq DOMAIN nodes
  PROVE  RaceInv'
  BY RaceMoves DEF Transaction

LEMMA RaceNext ==
  ASSUME IInv, [Next]_vars
  PROVE  RaceInv'
  <1>1. CASE \E a \in Activity : Submit(a)
    <2>1. UNCHANGED <<nodes, job, missing, doubled, raced>>
      BY <1>1 DEF Submit
    <2>2. \A q : Document(q)' = Document(q)
      BY <2>1 DEF Document
    <2> QED
      BY <2>1, <2>2 DEF IInv, RaceInv
  <1>2. CASE UNCHANGED vars
    <2>1. UNCHANGED <<nodes, job, missing, doubled, raced>>
      BY <1>2 DEF vars
    <2>2. \A q : Document(q)' = Document(q)
      BY <2>1 DEF Document
    <2> QED
      BY <2>1, <2>2 DEF IInv, RaceInv
  <1>3. ASSUME NEW p \in Process, Fail(p) \/ Crash(p) \/ Report(p) \/ Remove(p)
        PROVE  RaceInv'
    <2>1. \A n \in DOMAIN nodes' : n \in DOMAIN nodes
      BY <1>3 DEF Fail, Crash, Report, Remove, Detach, Restrict
    <2>2. \E rest \in {Up, Down} : job' = [job EXCEPT ![p] = rest]
      BY <1>3 DEF Fail, Crash, Report, Remove
    <2>3. missing' \in {missing, [missing EXCEPT ![p] = {}]} /\ UNCHANGED <<doubled, raced>>
      BY <1>3 DEF Fail, Crash, Report, Remove
    <2> QED
      BY <2>1, <2>2, <2>3, RaceMoves
  <1>4. ASSUME NEW p \in Process, Start(p)
        PROVE  RaceInv'
    <2>1. CASE file
      <3> DEFINE state == [Up EXCEPT !.pc = "clear"]
      <3>0. Up \in JobType
        BY UpAndDown
      <3>1. state \in JobType /\ state.pc = "clear"
        BY <3>0 DEF JobType, LoadPc
      <3>2. Begin(p, "load", state) /\ UNCHANGED <<nodes, missing, raced>>
        BY <1>4, <2>1 DEF Start
      <3> HIDE DEF state
      <3> QED
        BY <3>1, <3>2, RaceBegins
    <2>2. CASE ~file
      <3>1. job' = [job EXCEPT ![p] = Up] /\ UNCHANGED <<nodes, missing, raced, doubled>>
        BY <1>4, <2>2 DEF Start
      <3> QED
        BY <3>1, RaceMoves
    <2> QED
      BY <2>1, <2>2
  <1>5. ASSUME NEW p \in Process, NEW a \in Activity, Take(p, a)
        PROVE  RaceInv'
    <2> DEFINE state == [Up EXCEPT !.pc = IF a[1] = "ingest" THEN "entities" ELSE "unlink",
                                   !.activity = {a}]
    <2>1. state \in JobType /\ state.pc # "create"
      <3>1. Up \in JobType /\ {a} \in SUBSET Activity
        BY UpAndDown
      <3> QED
        BY <3>1 DEF JobType, IngestPc, DeletePc
    <2>2. Begin(p, a[1], state) /\ UNCHANGED <<nodes, missing, raced>>
      BY <1>5 DEF Take
    <2> HIDE DEF state
    <2> QED
      BY <2>1, <2>2, RaceBegins
  <1>6. ASSUME NEW p \in Process, NEW c \in Key, NEW d \in Key, Merge(p, c, d)
        PROVE  RaceInv'
    <2> DEFINE state == [Up EXCEPT !.pc = "outgoing", !.merge = {<<c, d>>}]
    <2>1. state \in JobType /\ state.pc # "create"
      <3>1. Up \in JobType /\ {<<c, d>>} \in SUBSET (Key \X Key)
        BY UpAndDown
      <3> QED
        BY <3>1 DEF JobType, MergePc
    <2>2. Begin(p, "merge", state) /\ UNCHANGED <<nodes, missing, raced>>
      BY <1>6 DEF Merge
    <2> HIDE DEF state
    <2> QED
      BY <2>1, <2>2, RaceBegins
  <1>7. ASSUME NEW p \in Process,
               \/ LoadEdges(p) \/ CreditSources(p) \/ UpsertTriples(p)
               \/ Unlink(p) \/ Prune(p) \/ DeleteNodes(p)
               \/ Outgoing(p) \/ Incoming(p) \/ Absorb(p)
        PROVE  RaceInv'
    <2>1. DOMAIN nodes' \subseteq DOMAIN nodes
      BY <1>7 DEF LoadEdges, CreditSources, UpsertTriples, Unlink, Prune, DeleteNodes,
                  Outgoing, Incoming, Absorb, Detach, Restrict
    <2>2. \E from : \E to \in {"idle", "triples", "report", "prune", "delete", "incoming",
                             "absorb", "remove"} : Transaction(p, from, to)
      BY <1>7 DEF LoadEdges, CreditSources, UpsertTriples, Unlink, Prune, DeleteNodes,
                  Outgoing, Incoming, Absorb
    <2> QED
      BY <2>1, <2>2, RaceTransaction
  <1> QED
    BY <1>1, <1>2, <1>3, <1>4, <1>5, <1>6, <1>7, RaceLook, RaceCreate, RaceImport DEF Next

-----------------------------------------------------------------------------
LEMMA NextInv ==
  ASSUME IInv, [Next]_vars
  PROVE  IInv'
  <1>1. ASSUME NEW a \in Activity, Submit(a)
        PROVE  CoreInv'
    <2>1. UNCHANGED <<nodes, edges, job, expect, absorbed, doubled, raced>> /\ queue' \subseteq Activity
      BY <1>1 DEF Submit, IInv, CoreInv, Typed
    <2> QED
      BY <2>1 DEF IInv, CoreInv, Typed, ClashInv, Busy, ImportInv, ExpectInv, ProgressInv, ProgressAt,
                  IngestAt, DeleteAt, MergeAt, IngestedStays, DeletedIsGone, OneNodePerKey
  <1>2. ASSUME UNCHANGED vars
        PROVE  CoreInv'
    <2>1. UNCHANGED <<nodes, edges, queue, job, expect, absorbed, doubled, raced>>
      BY <1>2 DEF vars
    <2>2. Typed' /\ ClashInv' /\ ImportInv' /\ ExpectInv'
      BY <2>1 DEF IInv, CoreInv, Typed, ClashInv, Busy, ImportInv, ExpectInv
    <2>3. ProgressInv'
      BY <2>1 DEF IInv, CoreInv, ProgressInv, ProgressAt, IngestAt, DeleteAt, MergeAt
    <2>4. IngestedStays' /\ DeletedIsGone' /\ OneNodePerKey'
      BY <2>1 DEF IInv, CoreInv, IngestedStays, DeletedIsGone, OneNodePerKey
    <2> QED
      BY <2>2, <2>3, <2>4 DEF CoreInv
  <1>3. ASSUME NEW p \in Process, Fail(p)
        PROVE  CoreInv'
    BY <1>3, GivenUp, UpAndDown DEF Fail
  <1>4. ASSUME NEW p \in Process, Crash(p)
        PROVE  CoreInv'
    BY <1>4, GivenUp, UpAndDown DEF Crash
  <1>5. CoreInv'
    BY <1>1, <1>2, <1>3, <1>4, StartStep, ClearStep, LoadNodesStep, LoadEdgesStep, TakeStep,
       LookStep, UpsertEntitiesStep, CreditSourcesStep, UpsertTriplesStep, UnlinkStep, PruneStep,
       DeleteNodesStep, ReportStep, MergeStep, OutgoingStep, IncomingStep, AbsorbStep, RemoveStep
       DEF Next
  <1> QED
    BY <1>5, RaceNext DEF IInv

LEMMA InitInv ==
  ASSUME Init
  PROVE  IInv
  <1>1. /\ DOMAIN nodes = {} /\ DOMAIN edges = {}
        /\ nodes = [n \in {} |-> n] /\ edges = [e \in {} |-> e]
        /\ queue = {} /\ job = [p \in Process |-> Down]
        /\ expect = [k \in Source |-> "unknown"]
        /\ absorbed = [a \in Key |-> {a}] /\ doubled = FALSE
        /\ missing = [p \in Process |-> {}] /\ raced = FALSE
    BY DEF Init, EmptyMap
  <1>2. \A p \in Process : Resting(job[p]) /\ job[p] \in JobType
    BY <1>1, UpAndDown
  <1>3. \A p \in Process : ~Busy(p) /\ job[p].pc \notin {"load_nodes", "load_edges"}
    BY <1>2 DEF Resting, Busy
  <1>4. Typed
    <2>1. job \in [Process -> JobType]
      BY <1>1, UpAndDown
    <2>2. nodes \in [DOMAIN nodes -> SUBSET Source] /\ edges = [e \in DOMAIN edges |-> edges[e]]
      BY <1>1
    <2> QED
      BY <1>1, <1>2, <2>1, <2>2 DEF Typed, Call
  <1>5. ClashInv /\ ImportInv
    BY <1>3 DEF ClashInv, ImportInv
  <1>6. ExpectInv /\ ProgressInv
    BY <1>2, OneCall DEF ExpectInv, ProgressInv, ProgressAt, IngestAt, DeleteAt, MergeAt
  <1>7. IngestedStays /\ DeletedIsGone /\ OneNodePerKey
    BY <1>1 DEF IngestedStays, DeletedIsGone, OneNodePerKey
  <1>8. RaceInv
    BY <1>1, <1>2 DEF RaceInv, Resting
  <1> QED
    BY <1>4, <1>5, <1>6, <1>7, <1>8 DEF IInv, CoreInv

(* Every process is in one call at a time, calls that run into each other  *)
(* know it, and an undisturbed call has done what its progress says: of    *)
(* any number of processes that execute _run_write's transactions in any   *)
(* order, fail and are retried.                                            *)
THEOREM Invariance == Spec => []IInv
  <1>1. Init => IInv
    BY InitInv
  <1>2. IInv /\ [Next]_vars => IInv'
    BY NextInv
  <1> QED
    BY <1>1, <1>2, PTL DEF Spec

(* A reported ingest stays until its document is deleted: what             *)
(* extract_and_commit wrote before it reported success is still there,     *)
(* under the names that merge_entities has given it since.                 *)
THEOREM IngestsStay == Spec => []IngestedStays
  <1>1. IInv => IngestedStays
    BY DEF IInv, CoreInv
  <1> QED
    BY <1>1, Invariance, PTL

(* A reported deletion is complete: after the three transactions of        *)
(* remove_by_source nothing credits the document.                          *)
THEOREM DeletionsAreComplete == Spec => []DeletedIsGone
  <1>1. IInv => DeletedIsGone
    BY DEF IInv, CoreInv
  <1> QED
    BY <1>1, Invariance, PTL

(* MERGE on the lowercase name keeps one node per key and one relationship *)
(* per pair, as long as no import of a graph file overlaps another call    *)
(* and no two MERGEs look at once for one name that is not there.          *)
THEOREM KeysStayUnique == Spec => []OneNodePerKey
  <1>1. IInv => OneNodePerKey
    BY DEF IInv, CoreInv
  <1> QED
    BY <1>1, Invariance, PTL

=============================================================================
