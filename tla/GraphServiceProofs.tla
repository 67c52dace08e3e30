-------------------------- MODULE GraphServiceProofs --------------------------
(***************************************************************************)
(* What holds of the service's shared objects for any number of threads,   *)
(* requests and restarts, and for any communities Leiden may find.         *)
(***************************************************************************)
EXTENDS GraphService, TLAPS

JobSet == [op: Op \union {None}, pc: Pc, target: Thread \union {None}, names: SUBSET Name,
           partition: CommunityMap, summaries: SummaryMap]

ServiceSet ==
  [backend: Thread \union {None},
   expander: [built: BOOLEAN, matcher: SUBSET Name,
              partition: CommunityMap, summaries: SummaryMap]]

SidecarSet == [summaries: SummaryMap, assigned: CommunityMap]

Typed ==
  /\ file \in {"absent", "good", "corrupt"}
  /\ graph \in [Thread -> SUBSET Name]
  /\ current \in Thread \union {None} /\ client \in Thread \union {None}
  /\ service \in ServiceSet
  /\ index = None \/ index \in SUBSET Name
  /\ sidecar = None \/ sidecar \in SidecarSet
  /\ job \in [Thread -> JobSet]
  /\ committed \in SUBSET Name /\ overlapped \in BOOLEAN

(* Where each operation is, it has the objects it goes on with.            *)
Needs ==
  /\ (service.backend # None \/ client # None \/ index # None) => current # None
  /\ service.expander.built => service.backend # None
  /\ \A t \in Thread :
       LET j == job[t]
       IN  /\ j.pc \notin {"idle", "get", "publish"} => current # None
           /\ j.pc = "loading" => j.target \in Thread
           /\ /\ j.pc \in {"use", "detect", "summarise", "save", "expander"}
              /\ j.op \in {"entity", "expand"}
              => service.backend # None
           /\ j.pc = "use" /\ j.op = "ingest" => client # None
           /\ j.pc \in {"detect", "summarise", "save"} => j.op \in {"post", "expand"}
           /\ j.pc = "expander" => j.op = "expand"

(* A summary is of the community with its number in the same detection.    *)
Consistent(p, s) == \A c \in DOMAIN s : s[c] = Members(p, c)

(* The members a partition offers a summary for are in it.                 *)
Offered(p, s) == \A n \in DOMAIN p : p[n] \in DOMAIN s => n \in s[p[n]]

(* A thread holds a partition only from its detection on.                  *)
JobDetected(j) ==
  /\ j.pc \notin {"summarise", "save", "expander"} => j.partition = EmptyMap
  /\ j.pc = "save" => Consistent(j.partition, j.summaries)
  /\ j.pc = "expander" => Offered(j.partition, j.summaries)

Detected ==
  /\ SidecarConsistent
  /\ ExpanderConsistent
  /\ \A t \in Thread : JobDetected(job[t])

(* As long as no call enters get_graph_backend while the first is in it:   *)
(* the first is alone, and nobody has anything yet;                        *)
InLoad(t) == job[t].pc \in {"publish", "load", "loading"}

Alone ==
  \A t \in Thread :
    InLoad(t) =>
      /\ \A u \in Thread \ {t} : job[u].pc \in {"idle", "get"}
      /\ service.backend = None /\ client = None /\ index = None
      /\ ~service.expander.built
      /\ committed = {}
      /\ job[t].pc = "publish" => current = None
      /\ job[t].pc = "loading" => job[t].target = current

(* and once it has returned, everything is taken from the one graph.       *)
Loaded ==
  /\ service.backend \in {None, current} /\ client \in {None, current}
  /\ current = None => committed = {}
  /\ current # None => committed \subseteq graph[current]
  /\ current # None /\ file = "good" /\ (\A t \in Thread : ~InLoad(t)) =>
       FileNames \subseteq graph[current]
  /\ file = "good" =>
       /\ index # None => FileNames \subseteq index
       /\ service.expander.built => FileNames \subseteq service.expander.matcher
       /\ \A t \in Thread : job[t].pc = "index" => FileNames \subseteq job[t].names

Serial == ~overlapped => Alone /\ Loaded

-----------------------------------------------------------------------------
LEMMA EmptyMaps == EmptyMap \in CommunityMap /\ EmptyMap \in SummaryMap
  <1>1. EmptyMap \in [{} -> Communities \union {-1}] /\ EmptyMap \in [{} -> SUBSET Name]
    BY DEF EmptyMap
  <1>2. {} \in SUBSET Name /\ {} \in SUBSET Communities
    OBVIOUS
  <1> QED
    BY <1>1, <1>2 DEF CommunityMap, SummaryMap

LEMMA PartitionsTyped ==
  ASSUME NEW S \in SUBSET Name, NEW p \in Partitions(S)
  PROVE  p \in CommunityMap
  BY DEF Partitions, CommunityMap

LEMMA SummariesTyped ==
  ASSUME NEW p \in CommunityMap, NEW done \in SUBSET Communities
  PROVE  [c \in done |-> Members(p, c)] \in SummaryMap
  <1>1. DOMAIN p \subseteq Name
    BY DEF CommunityMap
  <1>2. [c \in done |-> Members(p, c)] \in [done -> SUBSET Name]
    BY <1>1 DEF Members
  <1> QED
    BY <1>2 DEF SummaryMap

LEMMA IdleTyped == Idle \in JobSet
  BY EmptyMaps DEF Idle, JobSet, Pc

LEMMA JobFields ==
  ASSUME NEW f \in [Thread -> JobSet], NEW t \in Thread, NEW x \in Pc, NEW y
  PROVE  /\ y \in Thread \union {None} =>
              [f EXCEPT ![t].pc = x, ![t].target = y] \in [Thread -> JobSet]
         /\ y \in SUBSET Name =>
              [f EXCEPT ![t].pc = x, ![t].names = y] \in [Thread -> JobSet]
         /\ y \in CommunityMap =>
              [f EXCEPT ![t].partition = y, ![t].pc = x] \in [Thread -> JobSet]
         /\ y \in SummaryMap =>
              [f EXCEPT ![t].pc = x, ![t].summaries = y] \in [Thread -> JobSet]
  <1>1. f[t] \in JobSet
    OBVIOUS
  <1>2. ASSUME y \in Thread \union {None}
        PROVE  [f EXCEPT ![t].pc = x, ![t].target = y] \in [Thread -> JobSet]
    <2>1. [f[t] EXCEPT !.pc = x, !.target = y] \in JobSet
      BY <1>1, <1>2 DEF JobSet
    <2> QED
      BY <2>1
  <1> QED
    BY <1>1, <1>2 DEF JobSet

LEMMA JobReset ==
  ASSUME NEW j \in JobSet
  PROVE  [j EXCEPT !.pc = "expander", !.partition = EmptyMap, !.summaries = EmptyMap] \in JobSet
  BY EmptyMaps DEF JobSet, Pc

LEMMA TypedStep ==
  ASSUME Typed, Needs, Next
  PROVE  Typed'
  <1> USE ServiceAssumption DEF Typed, JobSet, ServiceSet, Op, Pc
  <1>1. ASSUME NEW t \in Thread, NEW op \in Op, Begin(t, op)
        PROVE  Typed'
    BY <1>1 DEF Begin
  <1>2. ASSUME NEW t \in Thread, Check(t)
        PROVE  Typed'
    BY <1>2 DEF Check, Step, Done
  <1>3. ASSUME NEW t \in Thread, Publish(t)
        PROVE  Typed'
    BY <1>3 DEF Publish, Step, Done
  <1>4. ASSUME NEW t \in Thread, LoadBegin(t)
        PROVE  Typed'
    <2>1. current \in Thread
      BY <1>4 DEF LoadBegin, Needs
    <2> DEFINE x == IF file = "absent" THEN "bind" ELSE "loading"
               y == IF file = "absent" THEN None ELSE current
    <2>2. job' = [job EXCEPT ![t].pc = x, ![t].target = y] /\ x \in Pc
      BY <1>4 DEF LoadBegin
    <2>3. y \in Thread \union {None}
      BY <2>1
    <2>4. job' \in [Thread -> JobSet]
      <3>1. job \in [Thread -> JobSet]
        OBVIOUS
      <3> HIDE DEF x, y, JobSet, Typed, ServiceSet, Pc
      <3>2. [job EXCEPT ![t].pc = x, ![t].target = y] \in [Thread -> JobSet]
        BY <2>2, <2>3, <3>1, JobFields
      <3> QED
        BY <2>2, <3>2
    <2> QED
      BY <1>4, <2>4 DEF LoadBegin
  <1>5. ASSUME NEW t \in Thread, LoadEnd(t)
        PROVE  Typed'
    BY <1>5 DEF LoadEnd, Needs
  <1>6. ASSUME NEW t \in Thread, Bind(t)
        PROVE  Typed'
    BY <1>6 DEF Bind, Step, Done
  <1>7. ASSUME NEW t \in Thread, Answer(t)
        PROVE  Typed'
    BY <1>7, IdleTyped DEF Answer, Done
  <1>8. ASSUME NEW t \in Thread, WalkTerms(t)
        PROVE  Typed'
    <2>1. current \in Thread /\ job[t].pc = "use"
      BY <1>8 DEF WalkTerms, Needs
    <2> DEFINE y == graph[current]
    <2>2. y \in SUBSET Name
      BY <2>1
    <2>3. job' \in [Thread -> JobSet]
      <3>1. job' = [job EXCEPT ![t].pc = "index", ![t].names = y] /\ "index" \in Pc
        BY <1>8 DEF WalkTerms
      <3>2. job \in [Thread -> JobSet]
        OBVIOUS
      <3> HIDE DEF y, JobSet, Typed, ServiceSet, Pc
      <3>3. [job EXCEPT ![t].pc = "index", ![t].names = y] \in [Thread -> JobSet]
        BY <2>2, <3>1, <3>2, JobFields
      <3> QED
        BY <3>1, <3>3
    <2> QED
      BY <1>8, <2>3 DEF WalkTerms
  <1>9. ASSUME NEW t \in Thread, PublishIndex(t)
        PROVE  Typed'
    BY <1>9, IdleTyped DEF PublishIndex, Done
  <1>10. ASSUME NEW t \in Thread, NEW n \in Name, Ingest(t, n)
        PROVE  Typed'
    BY <1>10, IdleTyped DEF Ingest, Done, Needs
  <1>11. ASSUME NEW t \in Thread, NewDetector(t)
        PROVE  Typed'
    <2> DEFINE y == IF sidecar = None THEN EmptyMap ELSE sidecar.summaries
    <2>1. y \in SummaryMap
      BY EmptyMaps DEF SidecarSet
    <2>2. job' \in [Thread -> JobSet]
      <3>1. job' = [job EXCEPT ![t].pc = "detect", ![t].summaries = y] /\ "detect" \in Pc
        BY <1>11 DEF NewDetector
      <3>2. job \in [Thread -> JobSet]
        OBVIOUS
      <3> HIDE DEF y, JobSet, Typed, ServiceSet, Pc
      <3>3. [job EXCEPT ![t].pc = "detect", ![t].summaries = y] \in [Thread -> JobSet]
        BY <2>1, <3>1, <3>2, JobFields
      <3> QED
        BY <3>1, <3>3
    <2> QED
      BY <1>11, <2>2 DEF NewDetector
  <1>12. ASSUME NEW t \in Thread, Detect(t)
        PROVE  Typed'
    <2>1. DetectedIn(t) \in SUBSET Name
      BY <1>12 DEF Detect, DetectedIn, Needs
    <2>2. AfterDetector(t) \in JobSet
      BY <1>12, IdleTyped DEF AfterDetector
    <2>3. \A p \in Partitions(DetectedIn(t)) : p \in CommunityMap
      BY <2>1, PartitionsTyped
    <2> HIDE DEF JobSet
    <2>4. job' \in [Thread -> JobSet]
      <3>1. CASE DetectedIn(t) = {}
        BY <1>12, <2>2, <3>1 DEF Detect
      <3>2. CASE DetectedIn(t) # {}
        <4>1. PICK p \in Partitions(DetectedIn(t)) :
                job' = [job EXCEPT ![t].partition = p, ![t].pc = "summarise"]
          BY <1>12, <3>2 DEF Detect
        <4> QED
          BY <2>3, <4>1, JobFields
      <3> QED
        BY <3>1, <3>2
    <2> QED
      BY <1>12, <2>4 DEF Detect
  <1>13. ASSUME NEW t \in Thread, Summarise(t)
        PROVE  Typed'
    <2> DEFINE p == job[t].partition
    <2>1. PICK done \in SUBSET {c \in Communities : Members(p, c) # {}} :
            job' = [job EXCEPT ![t].pc = "save", ![t].summaries = [c \in done |-> Members(p, c)]]
      BY <1>13 DEF Summarise
    <2>2. p \in CommunityMap /\ done \in SUBSET Communities
      OBVIOUS
    <2>3. [c \in done |-> Members(p, c)] \in SummaryMap
      BY <2>2, SummariesTyped
    <2> HIDE DEF JobSet
    <2>4. job' \in [Thread -> JobSet]
      BY <2>1, <2>3, JobFields
    <2> QED
      BY <1>13, <2>4 DEF Summarise
  <1>14. ASSUME NEW t \in Thread, SaveSidecar(t)
        PROVE  Typed'
    <2>1. AfterDetector(t) \in JobSet
      BY <1>14, IdleTyped DEF AfterDetector
    <2>2. sidecar' = None \/ sidecar' \in SidecarSet
      BY <1>14 DEF SaveSidecar, SidecarSet
    <2> QED
      BY <1>14, <2>1, <2>2 DEF SaveSidecar
  <1>15. ASSUME NEW t \in Thread, DetectorFails(t)
        PROVE  Typed'
    <2>1. [job[t] EXCEPT !.pc = "expander", !.partition = EmptyMap, !.summaries = EmptyMap] \in JobSet
      BY EmptyMaps, JobReset
    <2>2. job' \in [Thread -> JobSet]
      BY <1>15, <2>1, IdleTyped DEF DetectorFails
    <2> QED
      BY <1>15, <2>2 DEF DetectorFails
  <1>16. ASSUME NEW t \in Thread, BuildExpander(t)
        PROVE  Typed'
    <2>1. service.backend \in Thread
      BY <1>16 DEF BuildExpander, Done, Needs
    <2>2. service' \in ServiceSet
      BY <1>16, <2>1 DEF BuildExpander
    <2> QED
      BY <1>16, <2>2, IdleTyped DEF BuildExpander, Done
  <1>17. ASSUME Restart
        PROVE  Typed'
    <2>1. NothingBuilt \in ServiceSet
      BY EmptyMaps DEF NothingBuilt, NoExpander
    <2>2. NoBackend \in [Thread -> SUBSET Name] /\ AllIdle \in [Thread -> JobSet]
      BY IdleTyped DEF NoBackend, AllIdle
    <2> QED
      BY <1>17, <2>1, <2>2 DEF Restart
  <1> QED
    BY <1>1, <1>2, <1>3, <1>4, <1>5, <1>6, <1>7, <1>8, <1>9, <1>10, <1>11, <1>12, <1>13, <1>14, <1>15, <1>16, <1>17 DEF Next, ThreadStep

LEMMA NeedsStep ==
  ASSUME Typed, Needs, Next
  PROVE  Needs'
  <1> USE ServiceAssumption DEF Typed, JobSet, ServiceSet, Op, Pc, Needs
  <1>1. ASSUME NEW t \in Thread, NEW op \in Op, Begin(t, op)
        PROVE  Needs'
    BY <1>1 DEF Begin, Cached
  <1>2. ASSUME NEW t \in Thread, Check(t)
        PROVE  Needs'
    BY <1>2 DEF Check, Step, Done
  <1>3. ASSUME NEW t \in Thread, Publish(t)
        PROVE  Needs'
    BY <1>3 DEF Publish, Step, Done
  <1>4. ASSUME NEW t \in Thread, LoadBegin(t)
        PROVE  Needs'
    BY <1>4 DEF LoadBegin, Step, Done
  <1>5. ASSUME NEW t \in Thread, LoadEnd(t)
        PROVE  Needs'
    BY <1>5 DEF LoadEnd, Step, Done
  <1>6. ASSUME NEW t \in Thread, Bind(t)
        PROVE  Needs'
    BY <1>6 DEF Bind, Step, Done
  <1>7. ASSUME NEW t \in Thread, Answer(t)
        PROVE  Needs'
    BY <1>7 DEF Answer, Step, Done, Idle
  <1>8. ASSUME NEW t \in Thread, WalkTerms(t)
        PROVE  Needs'
    BY <1>8 DEF WalkTerms, Step, Done
  <1>9. ASSUME NEW t \in Thread, PublishIndex(t)
        PROVE  Needs'
    BY <1>9 DEF PublishIndex, Step, Done, Idle
  <1>10. ASSUME NEW t \in Thread, NEW n \in Name, Ingest(t, n)
        PROVE  Needs'
    BY <1>10 DEF Ingest, Step, Done, Idle
  <1>11. ASSUME NEW t \in Thread, NewDetector(t)
        PROVE  Needs'
    BY <1>11 DEF NewDetector, Step, Done
  <1>12. ASSUME NEW t \in Thread, Detect(t)
        PROVE  Needs'
    <2>1. CASE DetectedIn(t) = {}
      BY <1>12, <2>1 DEF Detect, AfterDetector, Idle
    <2>2. CASE DetectedIn(t) # {}
      <3>1. PICK p \in Partitions(DetectedIn(t)) :
              job' = [job EXCEPT ![t].partition = p, ![t].pc = "summarise"]
        BY <1>12, <2>2 DEF Detect
      <3>2. \A u \in Thread : /\ job'[u].op = job[u].op
                              /\ job'[u].target = job[u].target
                              /\ job'[u].pc = IF u = t THEN "summarise" ELSE job[u].pc
        BY <3>1
      <3> QED
        BY <1>12, <3>2 DEF Detect
    <2> QED
      BY <2>1, <2>2
  <1>13. ASSUME NEW t \in Thread, Summarise(t)
        PROVE  Needs'
    BY <1>13 DEF Summarise, Step, Done
  <1>14. ASSUME NEW t \in Thread, SaveSidecar(t)
        PROVE  Needs'
    BY <1>14 DEF SaveSidecar, AfterDetector, Idle
  <1>15. ASSUME NEW t \in Thread, DetectorFails(t)
        PROVE  Needs'
    BY <1>15 DEF DetectorFails, Idle
  <1>16. ASSUME NEW t \in Thread, BuildExpander(t)
        PROVE  Needs'
    <2>1. /\ job' = [job EXCEPT ![t] = Idle] /\ job[t].pc = "expander"
          /\ service'.backend = service.backend
      BY <1>16 DEF BuildExpander, Done
    <2> QED
      BY <1>16, <2>1 DEF BuildExpander, Idle
  <1>17. ASSUME Restart
        PROVE  Needs'
    BY <1>17 DEF Restart, NothingBuilt, NoExpander, NoBackend, AllIdle, Idle
  <1> QED
    BY <1>1, <1>2, <1>3, <1>4, <1>5, <1>6, <1>7, <1>8, <1>9, <1>10, <1>11, <1>12, <1>13, <1>14, <1>15, <1>16, <1>17 DEF Next, ThreadStep

LEMMA IdleDetected == JobDetected(Idle)
  BY DEF JobDetected, Idle

LEMMA DetectedStep ==
  ASSUME Typed, Detected, Next
  PROVE  Detected'
  <1> USE ServiceAssumption DEF Typed, JobSet, ServiceSet, Op, Pc, Detected, JobDetected, SidecarConsistent, ExpanderConsistent
  <1>1. ASSUME NEW t \in Thread, NEW op \in Op, Begin(t, op)
        PROVE  Detected'
    BY <1>1 DEF Begin, Step, Done
  <1>2. ASSUME NEW t \in Thread, Check(t)
        PROVE  Detected'
    BY <1>2 DEF Check, Step, Done
  <1>3. ASSUME NEW t \in Thread, Publish(t)
        PROVE  Detected'
    BY <1>3 DEF Publish, Step, Done
  <1>4. ASSUME NEW t \in Thread, LoadBegin(t)
        PROVE  Detected'
    BY <1>4 DEF LoadBegin, Step, Done
  <1>5. ASSUME NEW t \in Thread, LoadEnd(t)
        PROVE  Detected'
    BY <1>5 DEF LoadEnd, Step, Done
  <1>6. ASSUME NEW t \in Thread, Bind(t)
        PROVE  Detected'
    BY <1>6 DEF Bind, Step, Done
  <1>7. ASSUME NEW t \in Thread, Answer(t)
        PROVE  Detected'
    BY <1>7, IdleDetected DEF Answer, Done
  <1>8. ASSUME NEW t \in Thread, WalkTerms(t)
        PROVE  Detected'
    BY <1>8 DEF WalkTerms, Step, Done
  <1>9. ASSUME NEW t \in Thread, PublishIndex(t)
        PROVE  Detected'
    BY <1>9, IdleDetected DEF PublishIndex, Done
  <1>10. ASSUME NEW t \in Thread, NEW n \in Name, Ingest(t, n)
        PROVE  Detected'
    BY <1>10, IdleDetected DEF Ingest, Done
  <1>11. ASSUME NEW t \in Thread, NewDetector(t)
        PROVE  Detected'
    BY <1>11 DEF NewDetector, Step, Done
  <1>12. ASSUME NEW t \in Thread, Detect(t)
        PROVE  Detected'
    <2>1. CASE DetectedIn(t) = {}
      <3>1. JobDetected(AfterDetector(t))
        <4>1. job[t].partition = EmptyMap
          BY <1>12 DEF Detect
        <4>2. JobDetected([job[t] EXCEPT !.pc = "expander"])
          BY <4>1 DEF EmptyMap, Offered
        <4> QED
          BY <4>2, IdleDetected DEF AfterDetector
      <3> QED
        BY <1>12, <2>1, <3>1 DEF Detect
    <2>2. CASE DetectedIn(t) # {}
      <3>1. PICK p \in Partitions(DetectedIn(t)) :
              job' = [job EXCEPT ![t].partition = p, ![t].pc = "summarise"]
        BY <1>12, <2>2 DEF Detect
      <3>2. JobDetected([job[t] EXCEPT !.partition = p, !.pc = "summarise"])
        OBVIOUS
      <3> QED
        BY <1>12, <3>1, <3>2 DEF Detect
    <2> QED
      BY <2>1, <2>2
  <1>13. ASSUME NEW t \in Thread, Summarise(t)
        PROVE  Detected'
    <2> DEFINE p == job[t].partition
    <2>1. PICK done \in SUBSET {c \in Communities : Members(p, c) # {}} :
            job' = [job EXCEPT ![t].pc = "save", ![t].summaries = [c \in done |-> Members(p, c)]]
      BY <1>13 DEF Summarise
    <2>2. JobDetected([job[t] EXCEPT !.pc = "save", !.summaries = [c \in done |-> Members(p, c)]])
      BY DEF Consistent
    <2> QED
      BY <1>13, <2>1, <2>2 DEF Summarise
  <1>14. ASSUME NEW t \in Thread, SaveSidecar(t)
        PROVE  Detected'
    <2>1. Consistent(job[t].partition, job[t].summaries)
      BY <1>14 DEF SaveSidecar
    <2>2. JobDetected(AfterDetector(t))
      <3>1. Offered(job[t].partition, job[t].summaries)
        BY <2>1 DEF Consistent, Offered, Members
      <3> QED
        BY <3>1, IdleDetected DEF AfterDetector
    <2>3. SidecarConsistent'
      BY <1>14, <2>1 DEF SaveSidecar, Consistent
    <2> QED
      BY <1>14, <2>2, <2>3 DEF SaveSidecar
  <1>15. ASSUME NEW t \in Thread, DetectorFails(t)
        PROVE  Detected'
    <2>1. JobDetected([job[t] EXCEPT !.pc = "expander", !.partition = EmptyMap, !.summaries = EmptyMap])
      BY DEF EmptyMap, Offered
    <2> QED
      BY <1>15, <2>1, IdleDetected DEF DetectorFails
  <1>16. ASSUME NEW t \in Thread, BuildExpander(t)
        PROVE  Detected'
    <2>1. Offered(job[t].partition, job[t].summaries)
      BY <1>16 DEF BuildExpander, Done
    <2>2. ExpanderConsistent'
      BY <1>16, <2>1 DEF BuildExpander, Offered
    <2> QED
      BY <1>16, <2>2, IdleDetected DEF BuildExpander, Done
  <1>17. ASSUME Restart
        PROVE  Detected'
    <2>1. ExpanderConsistent'
      BY <1>17 DEF Restart, NothingBuilt, NoExpander, EmptyMap
    <2> QED
      BY <1>17, <2>1, IdleDetected DEF Restart, AllIdle
  <1> QED
    BY <1>1, <1>2, <1>3, <1>4, <1>5, <1>6, <1>7, <1>8, <1>9, <1>10, <1>11, <1>12, <1>13, <1>14, <1>15, <1>16, <1>17 DEF Next, ThreadStep

LEMMA AloneStep ==
  ASSUME Typed, Needs, Serial, Next
  PROVE  (~overlapped => Alone)'
  <1> USE ServiceAssumption DEF Typed, JobSet, ServiceSet, Op, Pc, Needs, Serial, InLoad, Alone
  <1>1. ASSUME NEW t \in Thread, NEW op \in Op, Begin(t, op)
        PROVE  (~overlapped => Alone)'
    BY <1>1 DEF Begin, Cached
  <1>2. ASSUME NEW t \in Thread, Check(t)
        PROVE  (~overlapped => Alone)'
    <2>1. SUFFICES ASSUME ~overlapped'
                   PROVE  Alone'
      OBVIOUS
    <2>2. ~overlapped /\ \A u \in Thread : ~InLoad(u)
      BY <1>2, <2>1 DEF Check, Initialising
    <2>3. \A u \in Thread : job'[u].target = job[u].target
      BY <1>2 DEF Check, Step
    <2>4. \A u \in Thread : job'[u].pc =
            IF u = t THEN IF current = None THEN "publish" ELSE "bind" ELSE job[u].pc
      BY <1>2 DEF Check, Step
    <2>5. CASE current # None
      BY <1>2, <2>2, <2>4, <2>5 DEF Check
    <2>6. CASE current = None
      <3>1. \A u \in Thread : job[u].pc \in {"idle", "get"}
        BY <2>2, <2>6
      <3>2. service.backend = None /\ client = None /\ index = None /\ ~service.expander.built
        BY <2>6
      <3>3. committed = {}
        BY <2>2, <2>6 DEF Loaded
      <3> QED
        BY <1>2, <2>4, <2>6, <3>1, <3>2, <3>3 DEF Check
    <2> QED
      BY <2>5, <2>6
  <1>3. ASSUME NEW t \in Thread, Publish(t)
        PROVE  (~overlapped => Alone)'
    BY <1>3 DEF Publish, Step, Done, Idle, AfterDetector
  <1>4. ASSUME NEW t \in Thread, LoadBegin(t)
        PROVE  (~overlapped => Alone)'
    BY <1>4 DEF LoadBegin, Step, Done, Idle, AfterDetector
  <1>5. ASSUME NEW t \in Thread, LoadEnd(t)
        PROVE  (~overlapped => Alone)'
    BY <1>5 DEF LoadEnd, Step, Done, Idle, AfterDetector
  <1>6. ASSUME NEW t \in Thread, Bind(t)
        PROVE  (~overlapped => Alone)'
    BY <1>6 DEF Bind, Step, Done, Idle, AfterDetector
  <1>7. ASSUME NEW t \in Thread, Answer(t)
        PROVE  (~overlapped => Alone)'
    BY <1>7 DEF Answer, Step, Done, Idle, AfterDetector
  <1>8. ASSUME NEW t \in Thread, WalkTerms(t)
        PROVE  (~overlapped => Alone)'
    BY <1>8 DEF WalkTerms, Step, Done, Idle, AfterDetector
  <1>9. ASSUME NEW t \in Thread, PublishIndex(t)
        PROVE  (~overlapped => Alone)'
    BY <1>9 DEF PublishIndex, Step, Done, Idle, AfterDetector
  <1>10. ASSUME NEW t \in Thread, NEW n \in Name, Ingest(t, n)
        PROVE  (~overlapped => Alone)'
    BY <1>10 DEF Ingest, Step, Done, Idle, AfterDetector
  <1>11. ASSUME NEW t \in Thread, NewDetector(t)
        PROVE  (~overlapped => Alone)'
    BY <1>11 DEF NewDetector, Step, Done, Idle, AfterDetector
  <1>12. ASSUME NEW t \in Thread, Detect(t)
        PROVE  (~overlapped => Alone)'
    <2>1. CASE DetectedIn(t) = {}
      BY <1>12, <2>1 DEF Detect, AfterDetector, Idle
    <2>2. CASE DetectedIn(t) # {}
      <3>1. PICK p \in Partitions(DetectedIn(t)) :
              job' = [job EXCEPT ![t].partition = p, ![t].pc = "summarise"]
        BY <1>12, <2>2 DEF Detect
      <3>2. \A u \in Thread : /\ job'[u].names = job[u].names
                              /\ job'[u].target = job[u].target
                              /\ job'[u].pc = IF u = t THEN "summarise" ELSE job[u].pc
        BY <3>1
      <3> QED
        BY <1>12, <3>2 DEF Detect
    <2> QED
      BY <2>1, <2>2
  <1>13. ASSUME NEW t \in Thread, Summarise(t)
        PROVE  (~overlapped => Alone)'
    BY <1>13 DEF Summarise, Step, Done, Idle, AfterDetector
  <1>14. ASSUME NEW t \in Thread, SaveSidecar(t)
        PROVE  (~overlapped => Alone)'
    BY <1>14 DEF SaveSidecar, Step, Done, Idle, AfterDetector
  <1>15. ASSUME NEW t \in Thread, DetectorFails(t)
        PROVE  (~overlapped => Alone)'
    BY <1>15 DEF DetectorFails, Step, Done, Idle, AfterDetector
  <1>16. ASSUME NEW t \in Thread, BuildExpander(t)
        PROVE  (~overlapped => Alone)'
    BY <1>16 DEF BuildExpander, Step, Done, Idle, AfterDetector
  <1>17. ASSUME Restart
        PROVE  (~overlapped => Alone)'
    BY <1>17 DEF Restart, NothingBuilt, NoExpander, NoBackend, AllIdle, Idle, Alone, Loaded
  <1> QED
    BY <1>1, <1>2, <1>3, <1>4, <1>5, <1>6, <1>7, <1>8, <1>9, <1>10, <1>11, <1>12, <1>13, <1>14, <1>15, <1>16, <1>17 DEF Next, ThreadStep

LEMMA LoadedStep ==
  ASSUME Typed, Needs, Serial, Next
  PROVE  (~overlapped => Loaded)'
  <1> USE ServiceAssumption DEF Typed, JobSet, ServiceSet, Op, Pc, Needs, Serial, InLoad, Alone, Loaded
  <1>1. ASSUME NEW t \in Thread, NEW op \in Op, Begin(t, op)
        PROVE  (~overlapped => Loaded)'
    BY <1>1 DEF Begin, Cached
  <1>2. ASSUME NEW t \in Thread, Check(t)
        PROVE  (~overlapped => Loaded)'
    BY <1>2 DEF Check, Step, Initialising
  <1>3. ASSUME NEW t \in Thread, Publish(t)
        PROVE  (~overlapped => Loaded)'
    BY <1>3 DEF Publish, Step, Done, Idle, AfterDetector
  <1>4. ASSUME NEW t \in Thread, LoadBegin(t)
        PROVE  (~overlapped => Loaded)'
    BY <1>4 DEF LoadBegin, Step, Done, Idle, AfterDetector
  <1>5. ASSUME NEW t \in Thread, LoadEnd(t)
        PROVE  (~overlapped => Loaded)'
    BY <1>5 DEF LoadEnd, Step, Done, Idle, AfterDetector
  <1>6. ASSUME NEW t \in Thread, Bind(t)
        PROVE  (~overlapped => Loaded)'
    BY <1>6 DEF Bind, Step, Done, Idle, AfterDetector
  <1>7. ASSUME NEW t \in Thread, Answer(t)
        PROVE  (~overlapped => Loaded)'
    BY <1>7 DEF Answer, Step, Done, Idle, AfterDetector
  <1>8. ASSUME NEW t \in Thread, WalkTerms(t)
        PROVE  (~overlapped => Loaded)'
    BY <1>8 DEF WalkTerms, Step, Done, Idle, AfterDetector
  <1>9. ASSUME NEW t \in Thread, PublishIndex(t)
        PROVE  (~overlapped => Loaded)'
    BY <1>9 DEF PublishIndex, Step, Done, Idle, AfterDetector
  <1>10. ASSUME NEW t \in Thread, NEW n \in Name, Ingest(t, n)
        PROVE  (~overlapped => Loaded)'
    BY <1>10 DEF Ingest, Step, Done, Idle, AfterDetector
  <1>11. ASSUME NEW t \in Thread, NewDetector(t)
        PROVE  (~overlapped => Loaded)'
    BY <1>11 DEF NewDetector, Step, Done, Idle, AfterDetector
  <1>12. ASSUME NEW t \in Thread, Detect(t)
        PROVE  (~overlapped => Loaded)'
    <2>1. CASE DetectedIn(t) = {}
      <3>1. job' = [job EXCEPT ![t] = AfterDetector(t)]
        BY <1>12, <2>1 DEF Detect
      <3>2. \A u \in Thread : IF u = t THEN job'[u].pc \in {"idle", "expander"}
                                       ELSE job'[u] = job[u]
        BY <3>1 DEF AfterDetector, Idle
      <3> QED
        BY <1>12, <3>2 DEF Detect
    <2>2. CASE DetectedIn(t) # {}
      <3>1. PICK p \in Partitions(DetectedIn(t)) :
              job' = [job EXCEPT ![t].partition = p, ![t].pc = "summarise"]
        BY <1>12, <2>2 DEF Detect
      <3>2. \A u \in Thread : /\ job'[u].names = job[u].names
                              /\ job'[u].target = job[u].target
                              /\ job'[u].pc = IF u = t THEN "summarise" ELSE job[u].pc
        BY <3>1
      <3> QED
        BY <1>12, <3>2 DEF Detect
    <2> QED
      BY <2>1, <2>2
  <1>13. ASSUME NEW t \in Thread, Summarise(t)
        PROVE  (~overlapped => Loaded)'
    BY <1>13 DEF Summarise, Step, Done, Idle, AfterDetector
  <1>14. ASSUME NEW t \in Thread, SaveSidecar(t)
        PROVE  (~overlapped => Loaded)'
    BY <1>14 DEF SaveSidecar, Step, Done, Idle, AfterDetector
  <1>15. ASSUME NEW t \in Thread, DetectorFails(t)
        PROVE  (~overlapped => Loaded)'
    BY <1>15 DEF DetectorFails, Step, Done, Idle, AfterDetector
  <1>16. ASSUME NEW t \in Thread, BuildExpander(t)
        PROVE  (~overlapped => Loaded)'
    BY <1>16 DEF BuildExpander, Step, Done, Idle, AfterDetector
  <1>17. ASSUME Restart
        PROVE  (~overlapped => Loaded)'
    BY <1>17 DEF Restart, NothingBuilt, NoExpander, NoBackend, AllIdle, Idle, Alone, Loaded
  <1> HIDE DEF Typed, JobSet, ServiceSet, Needs, Serial, InLoad, Alone, Loaded
  <1> QED
    BY <1>1, <1>2, <1>3, <1>4, <1>5, <1>6, <1>7, <1>8, <1>9, <1>10, <1>11, <1>12, <1>13, <1>14, <1>15, <1>16, <1>17 DEF Next, ThreadStep

-----------------------------------------------------------------------------
IInv == Typed /\ Needs /\ Detected /\ Serial

LEMMA InitInv == Init => IInv
  <1> SUFFICES ASSUME Init
               PROVE  IInv
    OBVIOUS
  <1> USE ServiceAssumption DEF Init, NothingBuilt, NoExpander, NoBackend, AllIdle
  <1>1. Typed
    BY EmptyMaps, IdleTyped DEF Typed, ServiceSet
  <1>2. Needs
    BY DEF Needs, Idle
  <1>3. Detected
    BY IdleDetected DEF Detected, SidecarConsistent, ExpanderConsistent, EmptyMap
  <1>4. Serial
    BY DEF Serial, Alone, Loaded, InLoad, Idle
  <1> QED
    BY <1>1, <1>2, <1>3, <1>4 DEF IInv

LEMMA NextInv == IInv /\ [Next]_vars => IInv'
  <1> SUFFICES ASSUME IInv, [Next]_vars
               PROVE  IInv'
    OBVIOUS
  <1>1. CASE Next
    BY <1>1, TypedStep, NeedsStep, DetectedStep, AloneStep, LoadedStep DEF IInv, Serial
  <1>2. CASE UNCHANGED vars
    <2> USE <1>2 DEF vars
    <2>1. Typed' /\ Needs'
      BY DEF IInv, Typed, Needs
    <2>2. Detected'
      BY DEF IInv, Detected, JobDetected, SidecarConsistent, ExpanderConsistent
    <2>3. Serial'
      BY DEF IInv, Serial, Alone, Loaded, InLoad
    <2> QED
      BY <2>1, <2>2, <2>3 DEF IInv
  <1> QED
    BY <1>1, <1>2

(* The inductive invariant: objects and jobs are well formed, detections   *)
(* are kept whole, and the first load is alone unless a call overlaps it.  *)
THEOREM Invariance == Spec => []IInv
  BY InitInv, NextInv, PTL DEF Spec

-----------------------------------------------------------------------------
(* However many threads first use the service at once, every operation     *)
(* finds what it goes on with: a backend to query, an expander of a backend*)
(* it has, and well-formed communities.                                    *)
THEOREM TypeCorrect == Spec => []TypeOK
  <1>1. IInv => TypeOK
    BY DEF IInv, Typed, Needs, TypeOK, JobSet, ServiceSet, SidecarSet
  <1> QED
    BY <1>1, Invariance, PTL

(* One graph per process, as long as no call overlaps the first load.      *)
THEOREM OneGraphAlways == Spec => []OneGraph
  <1>1. IInv => OneGraph
    BY DEF IInv, Serial, Loaded, OneGraph
  <1> QED
    BY <1>1, Invariance, PTL

(* Under the same condition no load replaces what was ingested, and the    *)
(* graph that is queried has all of its file.                              *)
THEOREM NothingLostAlways == Spec => []NothingLost
  <1>1. IInv => NothingLost
    <2> SUFFICES ASSUME IInv, ~overlapped, service.backend # None
                 PROVE  /\ committed \subseteq graph[service.backend]
                        /\ file = "good" => FileNames \subseteq graph[service.backend]
      BY DEF NothingLost
    <2>1. service.backend = current /\ \A t \in Thread : ~InLoad(t)
      BY DEF IInv, Serial, Alone, Loaded
    <2> QED
      BY <2>1 DEF IInv, Serial, Loaded
  <1> QED
    BY <1>1, Invariance, PTL

(* Under the same condition neither the term index nor the entity matcher  *)
(* is taken from a graph whose file was not loaded yet.                    *)
THEOREM CachesLoadedAlways == Spec => []CachesFromLoadedGraph
  <1>1. IInv => CachesFromLoadedGraph
    BY DEF IInv, Serial, Loaded, CachesFromLoadedGraph
  <1> QED
    BY <1>1, Invariance, PTL

(* However detections, saves and restarts interleave, the sidecar's        *)
(* summaries are of the communities it assigns, and a restored summary     *)
(* never reaches an expander under a number of another detection.          *)
THEOREM SummariesAlways == Spec => []SummariesConsistent
  <1>1. IInv => SummariesConsistent
    BY DEF IInv, Detected, SummariesConsistent
  <1> QED
    BY <1>1, Invariance, PTL

=============================================================================
