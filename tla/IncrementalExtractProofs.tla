---------------------- MODULE IncrementalExtractProofs ----------------------
(***************************************************************************)
(* What survives any number of crashes, and edits at any moment, for any   *)
(* set of files, contents and corpora.                                     *)
(***************************************************************************)
EXTENDS IncrementalExtract, TLAPS

(* Where each loop variable of the running extract may be nonempty.        *)
LoopInv ==
  /\ pc \notin {"replace", "prune"} => stale = {} /\ victim = None
  /\ pc # "write" => left = {} /\ target = None
  /\ pc \in {"idle", "gc"} => touched = {}
  /\ left # {} => target # None /\ text # None

(* A deletion in progress: its row is only dropped once its nodes are gone.*)
VictimInv == victim # None => NodesOf(victim) = {}

(* What is to be written has a row, and belongs to a path already scanned. *)
TouchedInv ==
  /\ todo \subseteq call.paths
  /\ touched \subseteq DOMAIN origins
  /\ target # None => target \in DOMAIN origins
  /\ \A o \in touched : o.uri \in call.paths \ todo

(* What is to be deleted is not to be written, and covers every row of the *)
(* path being replaced.                                                    *)
StaleInv ==
  /\ victim # None => victim \in stale
  /\ pc = "replace" => /\ cur \in todo
                       /\ Current(cur, call.corpus) \subseteq stale
                       /\ \A o \in stale : o.uri = cur
  /\ pc = "prune" => \A o \in stale : o.uri \notin call.paths

IInv ==
  /\ TypeOK
  /\ NoDanglingNodes
  /\ OneOriginPerFile
  /\ LoopInv
  /\ VictimInv
  /\ TouchedInv
  /\ StaleInv

-----------------------------------------------------------------------------
(* Steps that leave the store alone need only the loop variables looked at.*)

LEMMA StoreUnchanged ==
  ASSUME UNCHANGED <<origins, nodes>>
  PROVE  /\ NoDanglingNodes => NoDanglingNodes'
         /\ OneOriginPerFile => OneOriginPerFile'
  BY DEF NoDanglingNodes, OneOriginPerFile

LEMMA InitInv == Init => IInv
  <1> SUFFICES ASSUME Init PROVE IInv
    OBVIOUS
  <1>1. TypeOK
    BY BoundsAssumption DEF Init, TypeOK, Call, EmptyMap
  <1>2. NoDanglingNodes /\ OneOriginPerFile
    BY DEF Init, NoDanglingNodes, OneOriginPerFile, EmptyMap
  <1>3. LoopInv /\ VictimInv /\ TouchedInv /\ StaleInv
    BY DEF Init, LoopInv, VictimInv, TouchedInv, StaleInv
  <1> QED
    BY <1>1, <1>2, <1>3 DEF IInv

LEMMA StartInv ==
  ASSUME IInv, NEW c \in Corpus, NEW paths \in SUBSET Uri,
         NEW mode \in {"keep", "prune", "gc"}, Start(c, paths, mode)
  PROVE  IInv'
  <1>1. TypeOK'
    BY DEF IInv, TypeOK, Start, Call, store, env
  <1>2. NoDanglingNodes' /\ OneOriginPerFile'
    BY StoreUnchanged DEF IInv, Start, store
  <1>3. LoopInv' /\ VictimInv' /\ TouchedInv' /\ StaleInv'
    BY DEF IInv, LoopInv, VictimInv, TouchedInv, StaleInv, Start, store, NodesOf
  <1> QED
    BY <1>1, <1>2, <1>3 DEF IInv

LEMMA ScanUnchangedInv ==
  ASSUME IInv, NEW u \in Uri, ScanUnchanged(u)
  PROVE  IInv'
  <1>1. TypeOK'
    BY DEF IInv, TypeOK, ScanUnchanged, store, env
  <1>2. NoDanglingNodes' /\ OneOriginPerFile'
    BY StoreUnchanged DEF IInv, ScanUnchanged, store
  <1>3. LoopInv' /\ VictimInv' /\ TouchedInv' /\ StaleInv'
    BY DEF IInv, LoopInv, VictimInv, TouchedInv, StaleInv, ScanUnchanged, store, NodesOf
  <1> QED
    BY <1>1, <1>2, <1>3 DEF IInv

LEMMA ScanTouchedInv ==
  ASSUME IInv, NEW u \in Uri, ScanTouched(u)
  PROVE  IInv'
  <1>1. stale' \subseteq Current(u, call.corpus)
    BY DEF ScanTouched
  <1>2. Current(u, call.corpus) \subseteq stale'
    BY DEF ScanTouched, IInv, OneOriginPerFile, Current
  <1>3. TypeOK'
    BY <1>1 DEF IInv, TypeOK, ScanTouched, store, env, Current
  <1>4. NoDanglingNodes' /\ OneOriginPerFile'
    BY StoreUnchanged DEF IInv, ScanTouched, store
  <1>5. LoopInv' /\ VictimInv' /\ TouchedInv'
    BY DEF IInv, LoopInv, VictimInv, TouchedInv, ScanTouched, store, NodesOf
  <1>6. StaleInv'
    <2>1. /\ pc' = "replace" /\ cur' = u /\ u \in todo /\ victim = None
          /\ UNCHANGED <<origins, call, todo, victim>>
      BY DEF ScanTouched, store, IInv, LoopInv
    <2> QED
      BY <1>1, <1>2, <2>1 DEF StaleInv, Current
  <1> QED
    BY <1>3, <1>4, <1>5, <1>6 DEF IInv

LEMMA DeleteNodesInv ==
  ASSUME IInv, NEW o \in OriginId, DeleteNodes(o)
  PROVE  IInv'
  <1>1. /\ nodes' = [n \in DOMAIN nodes \ NodesOf(o) |-> nodes[n]]
        /\ UNCHANGED origins /\ victim' = o
    BY DEF DeleteNodes, Restrict
  <1>2. TypeOK'
    BY <1>1 DEF IInv, TypeOK, DeleteNodes, env
  <1>3. NoDanglingNodes' /\ OneOriginPerFile'
    BY <1>1 DEF IInv, NoDanglingNodes, OneOriginPerFile
  <1>4. LoopInv' /\ TouchedInv' /\ StaleInv'
    BY <1>1 DEF IInv, LoopInv, TouchedInv, StaleInv, DeleteNodes, Current
  <1>5. VictimInv'
    BY <1>1 DEF VictimInv, NodesOf
  <1> QED
    BY <1>2, <1>3, <1>4, <1>5 DEF IInv

LEMMA DeleteRowInv ==
  ASSUME IInv, DeleteRow
  PROVE  IInv'
  <1>1. /\ origins' = [o \in DOMAIN origins \ {victim} |-> origins[o]]
        /\ UNCHANGED nodes
        /\ victim # None /\ victim' = None /\ stale' = stale \ {victim}
        /\ UNCHANGED <<pc, call, todo, cur, touched, target, left>>
    BY DEF DeleteRow, Restrict
  <1>2. /\ NodesOf(victim) = {} /\ victim \in stale /\ pc \in {"replace", "prune"}
        /\ target = None
    BY <1>1 DEF IInv, VictimInv, StaleInv, LoopInv, TypeOK
  <1>3. victim \notin touched
    BY <1>2 DEF IInv, StaleInv, TouchedInv
  <1>4. TypeOK'
    BY <1>1 DEF IInv, TypeOK, DeleteRow, env
  <1>5. NoDanglingNodes' /\ OneOriginPerFile'
    BY <1>1, <1>2 DEF IInv, NoDanglingNodes, OneOriginPerFile, NodesOf
  <1>6. LoopInv' /\ VictimInv' /\ TouchedInv'
    BY <1>1, <1>2, <1>3 DEF IInv, LoopInv, VictimInv, TouchedInv
  <1>7. StaleInv'
    BY <1>1 DEF IInv, StaleInv, Current
  <1> QED
    BY <1>4, <1>5, <1>6, <1>7 DEF IInv

LEMMA SnapshotInv ==
  ASSUME IInv, Snapshot
  PROVE  IInv'
  <1> DEFINE o == [uri |-> cur, sha |-> file[cur]]
  <1>1. /\ pc = "replace" /\ stale = {} /\ victim = None /\ cur \in todo /\ cur \in Uri
        /\ target = None /\ left = {}
    BY DEF Snapshot, IInv, StaleInv, LoopInv, TouchedInv, TypeOK, Call
  <1>2. o \in OriginId /\ o.uri = cur
    BY <1>1 DEF OriginId, IInv, TypeOK
  <1>3. /\ origins' = IF o \in DOMAIN origins THEN origins ELSE Put(origins, o, call.corpus)
        /\ UNCHANGED <<nodes, call, stale, victim, target, left>>
        /\ touched' = touched \union {o} /\ todo' = todo \ {cur} /\ pc' = "scan"
    BY DEF Snapshot
  <1>4. Current(cur, call.corpus) = {}
    BY <1>1 DEF IInv, StaleInv
  <1> HIDE DEF o
  <1>5. /\ DOMAIN origins' = DOMAIN origins \union {o}
        /\ \A x \in DOMAIN origins : origins'[x] = origins[x]
        /\ o \notin DOMAIN origins => origins'[o] = call.corpus
        /\ origins' = [x \in DOMAIN origins' |-> origins'[x]]
    BY <1>3 DEF Put, IInv, TypeOK
  <1>6. TypeOK'
    BY <1>2, <1>3, <1>5 DEF IInv, TypeOK, Snapshot, env, Call
  <1>7. NoDanglingNodes' /\ OneOriginPerFile'
    BY <1>2, <1>3, <1>4, <1>5 DEF IInv, NoDanglingNodes, OneOriginPerFile, Current
  <1>8. LoopInv' /\ VictimInv' /\ StaleInv'
    BY <1>1, <1>3 DEF LoopInv, VictimInv, StaleInv
  <1>9. TouchedInv'
    BY <1>1, <1>2, <1>3, <1>5 DEF IInv, TouchedInv
  <1> QED
    BY <1>6, <1>7, <1>8, <1>9 DEF IInv

LEMMA ScanDoneInv ==
  ASSUME IInv, ScanDone
  PROVE  IInv'
  <1>1. TypeOK'
    BY DEF IInv, TypeOK, ScanDone, store, env, AfterSweep, OutsideCall
  <1>2. NoDanglingNodes' /\ OneOriginPerFile'
    BY StoreUnchanged DEF IInv, ScanDone, store
  <1>3. LoopInv' /\ VictimInv' /\ TouchedInv' /\ StaleInv'
    BY DEF IInv, LoopInv, VictimInv, TouchedInv, StaleInv, ScanDone, store, NodesOf,
           Current, AfterSweep, OutsideCall
  <1> QED
    BY <1>1, <1>2, <1>3 DEF IInv

LEMMA PruneDoneInv ==
  ASSUME IInv, PruneDone
  PROVE  IInv'
  <1>1. TypeOK'
    BY DEF IInv, TypeOK, PruneDone, store, env, AfterSweep
  <1>2. NoDanglingNodes' /\ OneOriginPerFile'
    BY StoreUnchanged DEF IInv, PruneDone, store
  <1>3. LoopInv' /\ VictimInv' /\ TouchedInv' /\ StaleInv'
    BY DEF IInv, LoopInv, VictimInv, TouchedInv, StaleInv, PruneDone, store, NodesOf,
           Current, AfterSweep
  <1> QED
    BY <1>1, <1>2, <1>3 DEF IInv

LEMMA LiftInv ==
  ASSUME IInv, NEW o \in OriginId, Lift(o)
  PROVE  IInv'
  <1>1. /\ pc = "write" /\ o \in touched /\ o \in DOMAIN origins /\ victim = None
        /\ target' = o /\ touched' = touched \ {o}
        /\ UNCHANGED <<origins, nodes, pc, call, todo, cur, stale, victim>>
    BY DEF Lift, store, IInv, TouchedInv, LoopInv
  <1>2. o.uri \in Uri /\ Lifted(o) \in Content /\ Lifted(o) # None /\ o # None
    BY NoneAssumption DEF OriginId, Lifted, IInv, TypeOK
  <1>3. text' = Lifted(o) /\ left' \subseteq Span
    BY <1>2, SpansAssumption DEF Lift
  <1>4. TypeOK'
    BY <1>1, <1>2, <1>3 DEF IInv, TypeOK, Lift, store, env
  <1>5. NoDanglingNodes' /\ OneOriginPerFile'
    BY <1>1, StoreUnchanged DEF IInv
  <1>6. LoopInv' /\ VictimInv' /\ TouchedInv' /\ StaleInv'
    BY <1>1, <1>2, <1>3 DEF IInv, LoopInv, VictimInv, TouchedInv, StaleInv
  <1> QED
    BY <1>4, <1>5, <1>6 DEF IInv

LEMMA WriteDoneInv ==
  ASSUME IInv, WriteDone
  PROVE  IInv'
  <1>1. TypeOK'
    BY DEF IInv, TypeOK, WriteDone, store, env
  <1>2. NoDanglingNodes' /\ OneOriginPerFile'
    BY StoreUnchanged DEF IInv, WriteDone, store
  <1>3. LoopInv' /\ VictimInv' /\ TouchedInv' /\ StaleInv'
    BY DEF IInv, LoopInv, VictimInv, TouchedInv, StaleInv, WriteDone, store, NodesOf,
           Current
  <1> QED
    BY <1>1, <1>2, <1>3 DEF IInv

LEMMA GcDoneInv ==
  ASSUME IInv, GcDone
  PROVE  IInv'
  <1>1. TypeOK'
    BY DEF IInv, TypeOK, GcDone, store, env
  <1>2. NoDanglingNodes' /\ OneOriginPerFile'
    BY StoreUnchanged DEF IInv, GcDone, store
  <1>3. LoopInv' /\ VictimInv' /\ TouchedInv' /\ StaleInv'
    BY DEF IInv, LoopInv, VictimInv, TouchedInv, StaleInv, GcDone, store, NodesOf,
           Current
  <1> QED
    BY <1>1, <1>2, <1>3 DEF IInv

LEMMA WriteNodeInv ==
  ASSUME IInv, NEW s \in Span, WriteNode(s)
  PROVE  IInv'
  <1> DEFINE n == [origin |-> target, span |-> s]
             row == [corpus |-> call.corpus, text |-> text]
  <1>1. /\ nodes' = Put(nodes, n, row) /\ left' = left \ {s} /\ left # {}
        /\ pc = "write"
        /\ UNCHANGED <<origins, pc, call, todo, cur, stale, victim, touched, target, text>>
    BY DEF WriteNode
  <1>2. target \in DOMAIN origins /\ target \in OriginId /\ victim = None
    BY <1>1 DEF IInv, LoopInv, TouchedInv, TypeOK
  <1>3. n \in NodeId /\ n.origin = target
    BY <1>2 DEF NodeId
  <1>4. TypeOK'
    <2>1. text \in Content
      BY <1>1 DEF IInv, TypeOK, LoopInv
    <2> QED
      BY <1>1, <1>3, <2>1 DEF IInv, TypeOK, WriteNode, env, Put, Call
  <1>5. NoDanglingNodes' /\ OneOriginPerFile'
    <2> HIDE DEF n
    <2> QED
      BY <1>1, <1>2, <1>3 DEF IInv, NoDanglingNodes, OneOriginPerFile, Put
  <1>6. LoopInv' /\ VictimInv' /\ TouchedInv' /\ StaleInv'
    BY <1>1, <1>2 DEF IInv, LoopInv, VictimInv, TouchedInv, StaleInv, Current
  <1> QED
    BY <1>4, <1>5, <1>6 DEF IInv

LEMMA BulkClearInv ==
  ASSUME IInv, BulkClear
  PROVE  IInv'
  <1>1. /\ nodes' = [n \in DOMAIN nodes \ Ids(target, left) |-> nodes[n]]
        /\ UNCHANGED <<origins, job>>
    BY DEF BulkClear, Restrict
  <1>2. TypeOK'
    BY <1>1 DEF IInv, TypeOK, BulkClear, job, env
  <1>3. NoDanglingNodes' /\ OneOriginPerFile'
    BY <1>1 DEF IInv, NoDanglingNodes, OneOriginPerFile
  <1>4. LoopInv' /\ VictimInv' /\ TouchedInv' /\ StaleInv'
    BY <1>1 DEF IInv, LoopInv, VictimInv, TouchedInv, StaleInv, job, NodesOf, Current
  <1> QED
    BY <1>2, <1>3, <1>4 DEF IInv

LEMMA BulkCopyInv ==
  ASSUME IInv, BulkCopy
  PROVE  IInv'
  <1> DEFINE ids == Ids(target, left)
             row == [corpus |-> call.corpus, text |-> text]
  <1>1. /\ nodes' = PutAll(nodes, ids, row) /\ left' = {} /\ left # {} /\ pc = "write"
        /\ UNCHANGED <<origins, pc, call, todo, cur, stale, victim, touched, target, text>>
    BY DEF BulkCopy
  <1>2. target \in DOMAIN origins /\ target \in OriginId /\ victim = None
    BY <1>1 DEF IInv, LoopInv, TouchedInv, TypeOK
  <1>3. ids \subseteq NodeId /\ \A n \in ids : n.origin = target
    BY <1>2 DEF NodeId, Ids, IInv, TypeOK
  <1>4. row \in [corpus: Corpus, text: Content]
    BY <1>1 DEF IInv, TypeOK, LoopInv, Call
  <1> HIDE DEF ids, row
  <1>5. TypeOK'
    BY <1>1, <1>3, <1>4 DEF IInv, TypeOK, BulkCopy, env, PutAll
  <1>6. NoDanglingNodes' /\ OneOriginPerFile'
    BY <1>1, <1>2, <1>3 DEF IInv, NoDanglingNodes, OneOriginPerFile, PutAll
  <1>7. LoopInv' /\ VictimInv' /\ TouchedInv' /\ StaleInv'
    BY <1>1, <1>2 DEF IInv, LoopInv, VictimInv, TouchedInv, StaleInv, Current
  <1> QED
    BY <1>5, <1>6, <1>7 DEF IInv

LEMMA CollectOrphanInv ==
  ASSUME IInv, NEW o \in OriginId, CollectOrphan(o)
  PROVE  IInv'
  <1>1. /\ origins' = [x \in DOMAIN origins \ {o} |-> origins[x]]
        /\ UNCHANGED <<nodes, job>> /\ pc = "gc" /\ NodesOf(o) = {}
    BY DEF CollectOrphan, Restrict, Orphans
  <1>2. touched = {} /\ target = None /\ stale = {}
    BY <1>1 DEF IInv, LoopInv
  <1>3. TypeOK'
    BY <1>1 DEF IInv, TypeOK, CollectOrphan, job, env
  <1>4. NoDanglingNodes' /\ OneOriginPerFile'
    BY <1>1 DEF IInv, NoDanglingNodes, OneOriginPerFile, NodesOf
  <1>5. LoopInv' /\ VictimInv' /\ TouchedInv' /\ StaleInv'
    BY <1>1, <1>2 DEF IInv, LoopInv, VictimInv, TouchedInv, StaleInv, job, NodesOf
  <1> QED
    BY <1>3, <1>4, <1>5 DEF IInv

LEMMA JobStepInv ==
  ASSUME IInv, JobStep
  PROVE  IInv'
  BY ScanUnchangedInv, ScanTouchedInv, DeleteNodesInv, DeleteRowInv, SnapshotInv,
     ScanDoneInv, PruneDoneInv, LiftInv, WriteNodeInv, BulkClearInv, BulkCopyInv,
     WriteDoneInv, CollectOrphanInv, GcDoneInv DEF JobStep

LEMMA CrashInv ==
  ASSUME IInv, Crash
  PROVE  IInv'
  <1>1. TypeOK'
    BY BoundsAssumption DEF IInv, TypeOK, Crash, store
  <1>2. NoDanglingNodes' /\ OneOriginPerFile'
    BY StoreUnchanged DEF IInv, Crash, store
  <1>3. LoopInv' /\ VictimInv' /\ TouchedInv' /\ StaleInv'
    BY DEF IInv, LoopInv, VictimInv, TouchedInv, StaleInv, Crash, store
  <1> QED
    BY <1>1, <1>2, <1>3 DEF IInv

LEMMA EditInv ==
  ASSUME IInv, NEW u \in Uri, NEW c \in Content, Edit(u, c)
  PROVE  IInv'
  <1>1. TypeOK'
    BY BoundsAssumption DEF IInv, TypeOK, Edit, store, job
  <1>2. NoDanglingNodes' /\ OneOriginPerFile'
    BY StoreUnchanged DEF IInv, Edit, store
  <1>3. LoopInv' /\ VictimInv' /\ TouchedInv' /\ StaleInv'
    BY DEF IInv, LoopInv, VictimInv, TouchedInv, StaleInv, Edit, store, job, NodesOf,
           Current
  <1> QED
    BY <1>1, <1>2, <1>3 DEF IInv

LEMMA NextInv == IInv /\ [Next]_vars => IInv'
  <1> SUFFICES ASSUME IInv, [Next]_vars PROVE IInv'
    OBVIOUS
  <1>1. CASE UNCHANGED vars
    BY <1>1 DEF vars, store, job, env, IInv, TypeOK, NoDanglingNodes, OneOriginPerFile,
                LoopInv, VictimInv, TouchedInv, StaleInv, NodesOf, Current
  <1> QED
    BY <1>1, StartInv, JobStepInv, CrashInv, EditInv DEF Next

-----------------------------------------------------------------------------
(* What is true at every statement of the program: the rows are well typed,*)
(* no node dangles, no file has two origins in a corpus, and the loop      *)
(* variables describe work that is really still to be done.                *)
THEOREM Invariance == Spec => []IInv
  BY InitInv, NextInv, PTL DEF Spec

(* The rows and the loop variables stay well typed.                        *)
THEOREM TypeCorrectness == Spec => []TypeOK
  <1>1. IInv => TypeOK
    BY DEF IInv
  <1> QED
    BY <1>1, Invariance, PTL

(* Wherever an extract is cut short, and whatever is edited under it, no   *)
(* node is left without the origin row its source is read from.            *)
THEOREM NoNodeDangles == Spec => []NoDanglingNodes
  <1>1. IInv => NoDanglingNodes
    BY DEF IInv
  <1> QED
    BY <1>1, Invariance, PTL

(* find_current_origin never has two rows to choose from.                  *)
THEOREM OriginsUnique == Spec => []OneOriginPerFile
  <1>1. IInv => OneOriginPerFile
    BY DEF IInv
  <1> QED
    BY <1>1, Invariance, PTL

-----------------------------------------------------------------------------
(* What an extract leaves behind while files change only between calls:    *)
(* lossless spans, whatever is interrupted; and, when nothing is, every    *)
(* syntax node of what it has scanned.                                     *)

(* Files change between calls only; no call is interrupted; one corpus.    *)
Quiet      == EditsWhileRunning = FALSE
Unbroken   == MaxCrashes = 0
OneCorpus  == \A c, d \in Corpus : c = d

(* The three reads of a file agree, and the two deleting loops delete what *)
(* has changed and what is swept.                                          *)
WorkInv ==
  /\ \A o \in touched : o.sha = file[o.uri]
  /\ target # None => text = target.sha /\ left \subseteq SpansOf[text]
  /\ pc = "replace" => \A o \in stale : o.sha # file[o.uri]
  /\ pc = "prune" => call.mode # "keep"

(* A row whose nodes are neither about to be written nor just deleted has  *)
(* them all, and the one being written has those that are not left.        *)
WrittenInv ==
  /\ \A o \in DOMAIN origins : o \in touched \union {target, victim} \/ Full(o)
  /\ target # None =>
       \A s \in SpansOf[target.sha] \ left :
         LET n == [origin |-> target, span |-> s]
         IN  n \in DOMAIN nodes /\ nodes[n].text = target.sha

(* A path that has been scanned has a row.                                 *)
ScannedInv ==
  pc # "idle" => \A u \in call.paths \ todo : Current(u, call.corpus) # {}

-----------------------------------------------------------------------------
LEMMA IdleInv ==
  ASSUME IInv, pc = "idle"
  PROVE  touched = {} /\ target = None /\ left = {} /\ stale = {} /\ victim = None
  BY DEF IInv, LoopInv

LEMMA WorkInit == Init => WorkInv /\ SpansLossless
  BY DEF Init, WorkInv, SpansLossless, EmptyMap

LEMMA WorkNext ==
  ASSUME Quiet, IInv, IInv', WorkInv, [Next]_vars
  PROVE  WorkInv'
  <1>1. ASSUME NEW c \in Corpus, NEW paths \in SUBSET Uri,
               NEW mode \in {"keep", "prune", "gc"}, Start(c, paths, mode)
        PROVE  WorkInv'
    BY <1>1, IdleInv DEF Start, WorkInv, store, env
  <1>2. ASSUME NEW u \in Uri, ScanUnchanged(u)
        PROVE  WorkInv'
    BY <1>2 DEF ScanUnchanged, WorkInv, store, env
  <1>3. ASSUME NEW u \in Uri, ScanTouched(u)
        PROVE  WorkInv'
    BY <1>3 DEF ScanTouched, WorkInv, store, env, Current
  <1>4. ASSUME NEW o \in OriginId, DeleteNodes(o)
        PROVE  WorkInv'
    BY <1>4 DEF DeleteNodes, WorkInv, env
  <1>5. CASE DeleteRow
    BY <1>5 DEF DeleteRow, WorkInv, env
  <1>6. CASE Snapshot
    BY <1>6 DEF Snapshot, WorkInv, env
  <1>7. CASE ScanDone
    BY <1>7 DEF ScanDone, WorkInv, store, env, AfterSweep
  <1>8. CASE PruneDone
    BY <1>8 DEF PruneDone, WorkInv, store, env, AfterSweep
  <1>9. ASSUME NEW o \in OriginId, Lift(o)
        PROVE  WorkInv'
    BY <1>9 DEF Lift, WorkInv, Lifted, store, env
  <1>10. ASSUME NEW s \in Span, WriteNode(s)
         PROVE  WorkInv'
    BY <1>10 DEF WriteNode, WorkInv, env
  <1>11. CASE BulkClear
    BY <1>11 DEF BulkClear, WorkInv, job, env
  <1>12. CASE BulkCopy
    BY <1>12 DEF BulkCopy, WorkInv, env
  <1>13. CASE WriteDone
    BY <1>13 DEF WriteDone, WorkInv, store, env
  <1>14. ASSUME NEW o \in OriginId, CollectOrphan(o)
         PROVE  WorkInv'
    BY <1>14 DEF CollectOrphan, WorkInv, job, env
  <1>15. CASE GcDone
    BY <1>15 DEF GcDone, WorkInv, store, env
  <1>16. CASE Crash
    BY <1>16 DEF Crash, WorkInv, store
  <1>17. ASSUME NEW u \in Uri, NEW c \in Content, Edit(u, c)
         PROVE  WorkInv'
    BY <1>17, IdleInv DEF Quiet, Edit, WorkInv, store, job
  <1>18. CASE UNCHANGED vars
    BY <1>18 DEF vars, store, job, env, WorkInv
  <1> QED
    BY <1>1, <1>2, <1>3, <1>4, <1>5, <1>6, <1>7, <1>8, <1>9, <1>10, <1>11, <1>12,
       <1>13, <1>14, <1>15, <1>16, <1>17, <1>18 DEF Next, JobStep

(* Only writing adds nodes, and it writes what was lifted.                 *)
LEMMA SpansNext ==
  ASSUME IInv, WorkInv, SpansLossless, [Next]_vars
  PROVE  SpansLossless'
  <1>1. ASSUME DOMAIN nodes' \subseteq DOMAIN nodes,
               \A n \in DOMAIN nodes' : nodes'[n] = nodes[n]
        PROVE  SpansLossless'
    BY <1>1 DEF SpansLossless
  <1>2. ASSUME UNCHANGED nodes
        PROVE  SpansLossless'
    BY <1>2 DEF SpansLossless
  <1>3. ASSUME NEW o \in OriginId, DeleteNodes(o)
        PROVE  SpansLossless'
    BY <1>1, <1>3 DEF DeleteNodes, Restrict
  <1>4. CASE BulkClear
    BY <1>1, <1>4 DEF BulkClear, Restrict
  <1>5. ASSUME NEW s \in Span, WriteNode(s)
        PROVE  SpansLossless'
    <2> DEFINE n == [origin |-> target, span |-> s]
               row == [corpus |-> call.corpus, text |-> text]
    <2>1. target # None /\ text = target.sha /\ s \in SpansOf[text]
      BY <1>5 DEF WriteNode, IInv, LoopInv, WorkInv
    <2>2. n.origin = target /\ n.span = s /\ row.text = text
      OBVIOUS
    <2>3. nodes' = Put(nodes, n, row)
      BY <1>5 DEF WriteNode
    <2> HIDE DEF n, row
    <2> QED
      BY <2>1, <2>2, <2>3 DEF Put, SpansLossless
  <1>6. CASE BulkCopy
    <2> DEFINE ids == Ids(target, left)
               row == [corpus |-> call.corpus, text |-> text]
    <2>1. target # None /\ text = target.sha /\ left \subseteq SpansOf[text]
      BY <1>6 DEF BulkCopy, IInv, LoopInv, WorkInv
    <2>2. row.text = text /\ \A n \in ids : n.origin = target /\ n.span \in left
      BY DEF Ids
    <2>3. nodes' = PutAll(nodes, ids, row)
      BY <1>6 DEF BulkCopy
    <2> HIDE DEF ids, row
    <2> QED
      BY <2>1, <2>2, <2>3 DEF PutAll, SpansLossless
  <1>7. CASE Next /\ UNCHANGED nodes
    BY <1>2, <1>7
  <1>8. CASE Next /\ nodes' # nodes
    BY <1>3, <1>4, <1>5, <1>6, <1>8
       DEF Next, JobStep, Start, ScanUnchanged, ScanTouched, DeleteRow, Snapshot, ScanDone,
           PruneDone, Lift, WriteDone, CollectOrphan, GcDone, Crash, Edit, store
  <1>9. CASE UNCHANGED vars
    BY <1>2, <1>9 DEF vars, store
  <1> QED
    BY <1>7, <1>8, <1>9

(* While files change only between calls, a node's text is that of its     *)
(* origin and its span is one of its origin's content, for the per-node    *)
(* writer and the bulk writer, and whatever call was interrupted before.   *)
THEOREM SpansStayLossless ==
  ASSUME Quiet
  PROVE  Spec => []SpansLossless
  <1>1. Init => IInv /\ WorkInv /\ SpansLossless
    BY InitInv, WorkInit
  <1>2. IInv /\ WorkInv /\ SpansLossless /\ [Next]_vars
          => (IInv /\ WorkInv /\ SpansLossless)'
    BY NextInv, WorkNext, SpansNext
  <1> QED
    BY <1>1, <1>2, PTL DEF Spec

-----------------------------------------------------------------------------
(* Full and the rows with nothing written to do not depend on the loop.    *)
LEMMA WrittenSame ==
  ASSUME WrittenInv, UNCHANGED <<origins, nodes, touched, target, victim, left>>
  PROVE  WrittenInv'
  BY DEF WrittenInv, Full

LEMMA WrittenInit == Init => WrittenInv /\ ScannedInv
  BY DEF Init, WrittenInv, ScannedInv, EmptyMap

(* Without crashes, every row has its nodes when a collection looks for    *)
(* rows that have none.                                                    *)
LEMMA NothingToCollect ==
  ASSUME IInv, WrittenInv, NEW o \in DOMAIN origins, pc \in {"idle", "gc"}
  PROVE  NodesOf(o) # {}
  <1>1. touched = {} /\ target = None /\ victim = None
    BY DEF IInv, LoopInv
  <1>2. o \in OriginId /\ o # None
    BY NoneAssumption DEF IInv, TypeOK
  <1>3. Full(o)
    BY <1>1, <1>2 DEF WrittenInv
  <1>4. PICK s \in SpansOf[o.sha] : TRUE
    <2>1. o.sha \in Content
      BY <1>2 DEF OriginId
    <2>2. SpansOf[o.sha] \in (SUBSET Span) \ {{}}
      BY <2>1, SpansAssumption
    <2> QED
      BY <2>2
  <1>5. [origin |-> o, span |-> s] \in DOMAIN nodes
    BY <1>3 DEF Full
  <1> QED
    BY <1>5 DEF NodesOf

LEMMA WrittenDeletes ==
  ASSUME IInv, WrittenInv, NEW o \in OriginId, DeleteNodes(o)
  PROVE  WrittenInv'
  <1>1. /\ nodes' = [n \in DOMAIN nodes \ NodesOf(o) |-> nodes[n]]
        /\ UNCHANGED <<origins, touched, target, left>> /\ victim = None /\ victim' = o
        /\ target = None
    BY DEF DeleteNodes, Restrict, IInv, LoopInv
  <1>2. ASSUME NEW x, x # o, Full(x) PROVE Full(x)'
    BY <1>1, <1>2 DEF Full, NodesOf
  <1>3. ASSUME NEW x \in DOMAIN origins PROVE x # None
    BY <1>3, NoneAssumption DEF IInv, TypeOK
  <1> QED
    BY <1>1, <1>2, <1>3 DEF WrittenInv

(* Writing rows of the target does not take anything from another's.       *)
LEMMA WrittenWrites ==
  ASSUME IInv, WorkInv, WrittenInv, NEW written \in SUBSET Span, written \subseteq left,
         left # {}, pc = "write",
         left' = left \ written,
         nodes' = PutAll(nodes, Ids(target, written), [corpus |-> call.corpus, text |-> text]),
         UNCHANGED <<origins, touched, target, victim>>
  PROVE  WrittenInv'
  <1> DEFINE ids == Ids(target, written)
             row == [corpus |-> call.corpus, text |-> text]
  <1>1. target # None /\ text = target.sha /\ row.text = target.sha
    BY DEF IInv, LoopInv, WorkInv
  <1>2. /\ \A n \in ids : n.origin = target
        /\ \A s \in written : [origin |-> target, span |-> s] \in ids
    BY DEF Ids
  <1>3. nodes' = [n \in DOMAIN nodes \union ids |-> IF n \in ids THEN row ELSE nodes[n]]
    BY DEF PutAll
  <1>4. ASSUME NEW x, x # target, Full(x) PROVE Full(x)'
    <2>1. \A s : [origin |-> x, span |-> s] \notin ids
      BY <1>2, <1>4
    <2> HIDE DEF ids
    <2> QED
      BY <1>3, <1>4, <2>1 DEF Full
  <1>5. ASSUME NEW s \in SpansOf[target.sha] \ left'
        PROVE  LET n == [origin |-> target, span |-> s]
               IN  n \in DOMAIN nodes' /\ nodes'[n].text = target.sha
    <2> DEFINE n == [origin |-> target, span |-> s]
    <2>1. s \in written => n \in ids
      BY <1>2
    <2>2. s \notin written => n \in DOMAIN nodes /\ nodes[n].text = target.sha
      BY <1>1, <1>5 DEF WrittenInv
    <2> HIDE DEF ids, row
    <2>3. n \in DOMAIN nodes' /\ nodes'[n].text = target.sha
      <3> HIDE DEF n
      <3> QED
        BY <1>1, <1>3, <2>1, <2>2
    <2> QED
      BY <2>3
  <1> QED
    BY <1>4, <1>5 DEF WrittenInv

LEMMA WrittenClears ==
  ASSUME IInv, WorkInv, WrittenInv, BulkClear
  PROVE  WrittenInv'
  <1>1. /\ nodes' = [n \in DOMAIN nodes \ Ids(target, left) |-> nodes[n]]
        /\ UNCHANGED <<origins, touched, target, victim, left>>
    BY DEF BulkClear, Restrict, job
  <1>2. /\ \A n \in Ids(target, left) : n.origin = target
        /\ \A s : s \notin left => [origin |-> target, span |-> s] \notin Ids(target, left)
    <2>1. \A n \in Ids(target, left) : n.origin = target /\ n.span \in left
      BY DEF Ids
    <2>2. ASSUME NEW s, s \notin left
          PROVE  [origin |-> target, span |-> s] \notin Ids(target, left)
      <3>1. [origin |-> target, span |-> s].span = s
        OBVIOUS
      <3> QED
        BY <2>1, <2>2, <3>1
    <2> QED
      BY <2>1, <2>2
  <1>3. ASSUME NEW x, x # target, Full(x) PROVE Full(x)'
    BY <1>1, <1>2, <1>3 DEF Full
  <1>4. target # None =>
          \A s \in SpansOf[target.sha] \ left :
            LET n == [origin |-> target, span |-> s]
            IN  n \in DOMAIN nodes' /\ nodes'[n].text = target.sha
    BY <1>1, <1>2 DEF WrittenInv
  <1> QED
    BY <1>1, <1>3, <1>4 DEF WrittenInv

LEMMA TargetFull ==
  ASSUME WrittenInv, target # None, left = {}
  PROVE  Full(target)
  BY DEF WrittenInv, Full

LEMMA WrittenNext ==
  ASSUME Unbroken, IInv, WorkInv, WrittenInv, [Next]_vars
  PROVE  WrittenInv'
  <1>1. ASSUME NEW c \in Corpus, NEW paths \in SUBSET Uri,
               NEW mode \in {"keep", "prune", "gc"}, Start(c, paths, mode)
        PROVE  WrittenInv'
    BY <1>1, WrittenSame DEF Start, store
  <1>2. ASSUME NEW u \in Uri, ScanUnchanged(u)
        PROVE  WrittenInv'
    BY <1>2, WrittenSame DEF ScanUnchanged, store
  <1>3. ASSUME NEW u \in Uri, ScanTouched(u)
        PROVE  WrittenInv'
    BY <1>3, WrittenSame DEF ScanTouched, store
  <1>4. ASSUME NEW o \in OriginId, DeleteNodes(o)
        PROVE  WrittenInv'
    BY <1>4, WrittenDeletes
  <1>5. CASE DeleteRow
    <2>1. /\ DOMAIN origins' = DOMAIN origins \ {victim} /\ victim' = None
          /\ UNCHANGED <<nodes, touched, target, left>>
      BY <1>5 DEF DeleteRow, Restrict
    <2> QED
      BY <2>1 DEF WrittenInv, Full
  <1>6. CASE Snapshot
    <2> DEFINE o == [uri |-> cur, sha |-> file[cur]]
    <2>1. /\ DOMAIN origins' \subseteq DOMAIN origins \union {o}
          /\ touched' = touched \union {o}
          /\ UNCHANGED <<nodes, target, victim, left>>
      BY <1>6 DEF Snapshot, Put
    <2> HIDE DEF o
    <2> QED
      BY <2>1 DEF WrittenInv, Full
  <1>7. CASE ScanDone
    BY <1>7, WrittenSame DEF ScanDone, store
  <1>8. CASE PruneDone
    BY <1>8, WrittenSame DEF PruneDone, store
  <1>9. ASSUME NEW o \in OriginId, Lift(o)
        PROVE  WrittenInv'
    <2>1. /\ left = {} /\ target' = o /\ touched' = touched \ {o}
          /\ left' = SpansOf[Lifted(o)] /\ o \in touched
          /\ UNCHANGED <<origins, nodes, victim>>
      BY <1>9 DEF Lift, store
    <2>2. left' = SpansOf[o.sha]
      BY <2>1 DEF WorkInv, Lifted
    <2>3. target # None => Full(target)
      BY <2>1, TargetFull
    <2>4. \A x \in DOMAIN origins : x # None
      BY NoneAssumption DEF IInv, TypeOK
    <2> QED
      BY <2>1, <2>2, <2>3, <2>4 DEF WrittenInv, Full
  <1>10. ASSUME NEW s \in Span, WriteNode(s)
         PROVE  WrittenInv'
    <2>1. nodes' = PutAll(nodes, Ids(target, {s}), [corpus |-> call.corpus, text |-> text])
      BY <1>10 DEF WriteNode, Put, PutAll, Ids
    <2>2. {s} \in SUBSET Span /\ {s} \subseteq left /\ left # {} /\ pc = "write"
          /\ left' = left \ {s} /\ UNCHANGED <<origins, touched, target, victim>>
      BY <1>10 DEF WriteNode
    <2> QED
      BY <2>1, <2>2, WrittenWrites
  <1>11. CASE BulkClear
    BY <1>11, WrittenClears
  <1>12. CASE BulkCopy
    <2>1. left \in SUBSET Span /\ left' = left \ left /\ pc = "write" /\ left # {}
          /\ nodes' = PutAll(nodes, Ids(target, left), [corpus |-> call.corpus, text |-> text])
          /\ UNCHANGED <<origins, touched, target, victim>>
      BY <1>12 DEF BulkCopy, IInv, TypeOK
    <2> QED
      BY <2>1, WrittenWrites
  <1>13. CASE WriteDone
    <2>1. /\ target' = None /\ left = {} /\ UNCHANGED <<origins, nodes, touched, victim, left>>
      BY <1>13 DEF WriteDone, store
    <2>2. target # None => Full(target)
      BY <2>1, TargetFull
    <2>3. \A x \in DOMAIN origins : x # None
      BY NoneAssumption DEF IInv, TypeOK
    <2> QED
      BY <2>1, <2>2, <2>3 DEF WrittenInv, Full
  <1>14. ASSUME NEW o \in OriginId, CollectOrphan(o)
         PROVE  WrittenInv'
    BY <1>14, NothingToCollect DEF CollectOrphan, Orphans
  <1>15. CASE GcDone
    BY <1>15, WrittenSame DEF GcDone, store
  <1>16. CASE Crash
    BY <1>16 DEF Crash, Unbroken, IInv, TypeOK
  <1>17. ASSUME NEW u \in Uri, NEW c \in Content, Edit(u, c)
         PROVE  WrittenInv'
    BY <1>17, WrittenSame DEF Edit, store, job
  <1>18. CASE UNCHANGED vars
    BY <1>18, WrittenSame DEF vars, store, job
  <1> QED
    BY <1>1, <1>2, <1>3, <1>4, <1>5, <1>6, <1>7, <1>8, <1>9, <1>10, <1>11, <1>12,
       <1>13, <1>14, <1>15, <1>16, <1>17, <1>18 DEF Next, JobStep

-----------------------------------------------------------------------------
(* An unbroken call, while files do not change, deletes only rows, and the *)
(* nodes, of paths whose content is another by now, or which it does not   *)
(* name and was asked to prune; and nodes of the row that it writes.       *)
LEMMA VictimsOutdated ==
  ASSUME IInv, WorkInv, NEW o \in stale, pc \in {"replace", "prune"}
  PROVE  Outdated(o)
  <1>1. CASE pc = "replace"
    BY <1>1 DEF Outdated, IInv, StaleInv, TouchedInv, WorkInv
  <1>2. CASE pc = "prune"
    BY <1>2 DEF Outdated, IInv, StaleInv, WorkInv
  <1> QED
    BY <1>1, <1>2

THEOREM OnlyStaleRowsGo ==
  ASSUME Quiet, Unbroken
  PROVE  Spec => OnlyStaleDeleted
  <1> DEFINE All == IInv /\ WorkInv /\ WrittenInv
  <1>1. Init => All
    BY InitInv, WorkInit, WrittenInit
  <1>2. All /\ [Next]_vars => All'
    BY NextInv, WorkNext, WrittenNext
  <1>3. ASSUME All, [Next]_vars, NEW o \in DOMAIN origins, o \notin DOMAIN origins'
        PROVE  Outdated(o)
    <2>1. CASE DeleteRow
      <3>1. o = victim /\ victim # None
        BY <1>3, <2>1 DEF DeleteRow, Restrict
      <3>2. o \in stale /\ pc \in {"replace", "prune"}
        BY <1>3, <3>1 DEF IInv, StaleInv, LoopInv
      <3> QED
        BY <1>3, <3>2, VictimsOutdated
    <2>2. CASE Snapshot
      BY <1>3, <2>2 DEF Snapshot, Put
    <2>3. ASSUME NEW x \in OriginId, CollectOrphan(x)
          PROVE  Outdated(o)
      BY <1>3, <2>3, NothingToCollect DEF CollectOrphan, Orphans
    <2>4. CASE UNCHANGED origins
      BY <1>3, <2>4
    <2>5. CASE Next /\ origins' # origins
      BY <2>1, <2>2, <2>3, <2>5
         DEF Next, JobStep, Start, ScanUnchanged, ScanTouched, DeleteNodes, ScanDone,
             PruneDone, Lift, WriteNode, BulkClear, BulkCopy, WriteDone, GcDone, Crash,
             Edit, store
    <2>6. CASE UNCHANGED vars
      BY <2>4, <2>6 DEF vars, store
    <2> QED
      BY <1>3, <2>4, <2>5, <2>6
  <1>4. ASSUME All, [Next]_vars, NEW n \in DOMAIN nodes, n \notin DOMAIN nodes'
        PROVE  Outdated(n.origin) \/ n.origin = target
    <2>1. ASSUME NEW o \in OriginId, DeleteNodes(o)
          PROVE  Outdated(n.origin)
      <3>1. n.origin = o
        BY <1>4, <2>1 DEF DeleteNodes, Restrict, NodesOf
      <3>2. o \in stale /\ pc \in {"replace", "prune"}
        BY <2>1 DEF DeleteNodes
      <3> QED
        BY <1>4, <3>1, <3>2, VictimsOutdated
    <2>2. ASSUME NEW s \in Span, WriteNode(s)
          PROVE  FALSE
      BY <1>4, <2>2 DEF WriteNode, Put
    <2>3. CASE BulkClear
      <3>1. n \in Ids(target, left)
        BY <1>4, <2>3 DEF BulkClear, Restrict
      <3> QED
        BY <3>1 DEF Ids
    <2>4. CASE BulkCopy
      BY <1>4, <2>4 DEF BulkCopy, PutAll
    <2>5. CASE UNCHANGED nodes
      BY <1>4, <2>5
    <2>6. CASE Next /\ nodes' # nodes
      BY <2>1, <2>2, <2>3, <2>4, <2>6
         DEF Next, JobStep, Start, ScanUnchanged, ScanTouched, DeleteRow, Snapshot, ScanDone,
             PruneDone, Lift, WriteDone, CollectOrphan, GcDone, Crash, Edit, store
    <2>7. CASE UNCHANGED vars
      BY <2>5, <2>7 DEF vars, store
    <2> QED
      BY <1>4, <2>5, <2>6, <2>7
  <1>5. All /\ [Next]_vars =>
          [/\ \A o \in DOMAIN origins \ DOMAIN origins' : Outdated(o)
           /\ \A n \in DOMAIN nodes \ DOMAIN nodes' : Outdated(n.origin) \/ n.origin = target]_vars
    BY <1>3, <1>4
  <1> QED
    BY <1>1, <1>2, <1>5, PTL DEF Spec, OnlyStaleDeleted

-----------------------------------------------------------------------------
LEMMA ScannedNext ==
  ASSUME Quiet, OneCorpus, IInv, IInv', WrittenInv, ScannedInv, [Next]_vars
  PROVE  ScannedInv'
  <1>1. ASSUME UNCHANGED <<origins, call, todo>>, pc # "idle"
        PROVE  ScannedInv'
    BY <1>1 DEF ScannedInv, Current
  <1>2. ASSUME NEW c \in Corpus, NEW paths \in SUBSET Uri,
               NEW mode \in {"keep", "prune", "gc"}, Start(c, paths, mode)
        PROVE  ScannedInv'
    BY <1>2 DEF Start, ScannedInv
  <1>3. ASSUME NEW u \in Uri, ScanUnchanged(u)
        PROVE  ScannedInv'
    BY <1>3 DEF ScanUnchanged, Unchanged, ScannedInv, Current, store
  <1>4. CASE DeleteRow
    <2>1. /\ origins' = [x \in DOMAIN origins \ {victim} |-> origins[x]]
          /\ victim # None /\ UNCHANGED <<pc, call, todo>>
      BY <1>4 DEF DeleteRow, Restrict
    <2>2. victim \in stale /\ pc \in {"replace", "prune"}
      BY <2>1 DEF IInv, StaleInv, LoopInv
    <2>3. victim.uri \notin call.paths \ todo
      BY <2>2 DEF IInv, StaleInv
    <2>4. ASSUME NEW u \in call.paths \ todo
          PROVE  Current(u, call.corpus)' = Current(u, call.corpus)
      BY <2>1, <2>3 DEF Current
    <2> QED
      BY <2>1, <2>2, <2>4 DEF ScannedInv
  <1>5. CASE Snapshot
    <2> DEFINE o == [uri |-> cur, sha |-> file[cur]]
    <2>1. /\ origins' = IF o \in DOMAIN origins THEN origins ELSE Put(origins, o, call.corpus)
          /\ todo' = todo \ {cur} /\ UNCHANGED call /\ pc = "replace"
          /\ o.uri = cur
      BY <1>5 DEF Snapshot
    <2>2. call.corpus \in Corpus
      BY DEF IInv, TypeOK, Call
    <2> HIDE DEF o
    <2>3. /\ o \in DOMAIN origins' /\ origins'[o] = call.corpus
          /\ \A x \in DOMAIN origins : x \in DOMAIN origins' /\ origins'[x] = origins[x]
      <3>1. o \in DOMAIN origins => origins[o] = call.corpus
        BY <2>2 DEF OneCorpus, IInv, TypeOK
      <3> QED
        BY <2>1, <3>1 DEF Put
    <2>4. ASSUME NEW u \in call.paths \ todo'
          PROVE  Current(u, call.corpus)' # {}
      <3>1. CASE u = cur
        BY <2>1, <2>3, <3>1 DEF Current
      <3>2. CASE u # cur
        <4>1. u \in call.paths \ todo
          BY <2>1, <3>2
        <4> QED
          BY <2>1, <2>3, <4>1 DEF ScannedInv, Current
      <3> QED
        BY <3>1, <3>2
    <2> QED
      BY <2>1, <2>4 DEF ScannedInv
  <1>6. ASSUME NEW x \in OriginId, CollectOrphan(x)
        PROVE  ScannedInv'
    BY <1>6, NothingToCollect DEF CollectOrphan, Orphans
  <1>7. CASE Crash
    BY <1>7 DEF Crash, ScannedInv
  <1>8. ASSUME NEW u \in Uri, NEW c \in Content, Edit(u, c)
        PROVE  ScannedInv'
    BY <1>8 DEF Quiet, Edit, ScannedInv, job
  <1>9. CASE UNCHANGED vars
    BY <1>9 DEF vars, store, job, ScannedInv, Current
  <1>10. ASSUME NEW u \in Uri, ScanTouched(u)
         PROVE  ScannedInv'
    BY <1>1, <1>10 DEF ScanTouched, store
  <1>11. ASSUME NEW o \in OriginId, DeleteNodes(o) \/ Lift(o)
         PROVE  ScannedInv'
    BY <1>1, <1>11 DEF DeleteNodes, Lift, store
  <1>12. CASE ScanDone \/ PruneDone \/ BulkClear \/ BulkCopy \/ WriteDone \/ GcDone
    BY <1>1, <1>12 DEF ScanDone, PruneDone, BulkClear, BulkCopy, WriteDone, GcDone, store, job
  <1>13. ASSUME NEW s \in Span, WriteNode(s)
         PROVE  ScannedInv'
    BY <1>1, <1>13 DEF WriteNode
  <1> QED
    BY <1>2, <1>3, <1>4, <1>5, <1>6, <1>7, <1>8, <1>9, <1>10, <1>11, <1>12, <1>13
       DEF Next, JobStep

(* While files change only between calls, and no call is interrupted, what *)
(* an extract of the one corpus has scanned is represented: its row has all*)
(* the nodes of its content, or the call is about to write them.           *)
THEOREM ScannedIsRepresented ==
  ASSUME Quiet, Unbroken, OneCorpus
  PROVE  Spec => []EverySyntaxNodeRepresented
  <1> DEFINE All == IInv /\ WorkInv /\ WrittenInv /\ ScannedInv
  <1>1. Init => All
    BY InitInv, WorkInit, WrittenInit
  <1>2. All /\ [Next]_vars => All'
    BY NextInv, WorkNext, WrittenNext, ScannedNext
  <1>3. All => EverySyntaxNodeRepresented
    <2> SUFFICES ASSUME All, pc \in {"scan", "prune", "write", "gc"},
                        NEW u \in call.paths \ todo
                 PROVE  \E o \in Current(u, call.corpus) : o \in touched \union {target} \/ Full(o)
      BY DEF EverySyntaxNodeRepresented
    <2>1. PICK o \in Current(u, call.corpus) : TRUE
      BY DEF ScannedInv
    <2>2. o \in DOMAIN origins /\ o.uri = u /\ o # None
      BY <2>1, NoneAssumption DEF Current, IInv, TypeOK
    <2>3. o # victim
      BY <2>2 DEF IInv, LoopInv, StaleInv
    <2> QED
      BY <2>1, <2>2, <2>3 DEF WrittenInv
  <1> QED
    BY <1>1, <1>2, <1>3, PTL DEF Spec

=============================================================================
