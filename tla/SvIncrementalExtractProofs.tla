--------------------- MODULE SvIncrementalExtractProofs ---------------------
(***************************************************************************)
(* What is proved of the incremental extract of the SystemVerilog builder  *)
(* (SvIncrementalExtract), for every set of files, stems, contents and     *)
(* labels: that it leaves no dangling row, that its references are true,   *)
(* that what it leaves alone is unaffected, that what it returns from is   *)
(* written whole, and that the promote cache replays a build.              *)
(***************************************************************************)
EXTENDS SvIncrementalExtract, FiniteSetTheorems, TLAPS

SyntaxId == [prefix : Stem \X Nat, pos : Nat \ {0}]

Id == SyntaxId \union Placeholder

Row == [origin : OriginId, sha : Content \union {None}]

Rel == [type : EdgeType, src : SyntaxId, dst : Id]

File == [uri : Uri, stem : Stem, sha : Content]

Batch ==
  [bulk : BOOLEAN,
   nodes : SUBSET [id : SyntaxId, origin : OriginId, sha : Content],
   placeholders : SUBSET [id : Placeholder, origin : OriginId],
   edges : SUBSET Rel]

Writing == pc \in {"write", "copy"}

Owned(i) == PrefixOfPath(i) \in DOMAIN owner

-----------------------------------------------------------------------------
(* The invariant, in four parts.  The first needs nothing of the files: the*)
(* types, what each place of the extract has at hand, and that origins,    *)
(* nodes and rels fit together with what is about to be deleted or written.*)
TypeOK ==
  /\ file \in [Uri -> Content] /\ stem \in [Uri -> Stem]
  /\ origins \subseteq OriginId
  /\ DOMAIN nodes \subseteq Id /\ nodes \in [DOMAIN nodes -> Row]
  /\ inOrigin \subseteq Id \X OriginId
  /\ rels \subseteq Rel
  /\ pc \in {"idle", "scan", "replace", "prune", "snapshot", "write", "copy", "gc"}
  /\ call \in [paths : Paths \union {<<>>}, mode : {"keep", "prune", "gc"}]
  /\ at \in Nat \ {0}
  /\ stale \subseteq OriginId
  /\ touched \subseteq DOMAIN call.paths /\ pending \subseteq touched
  /\ DOMAIN owner \subseteq Stem \X Nat /\ owner \in [DOMAIN owner -> OriginId]
  /\ batch \in Batch
  /\ built \subseteq Seq(File)
  /\ edits \in Nat /\ crashes \in Nat /\ calls \in Nat

Control ==
  /\ pc = "replace" => at \in DOMAIN call.paths
  /\ pc \notin {"replace", "prune"} => stale = {}
  /\ victim # None => victim \in stale
  /\ ~Writing => batch = EmptyBatch
  /\ pc \notin {"prune", "snapshot"} => pending = {}
  /\ pc = "prune" => pending = touched
  /\ pc = "copy" => batch.bulk
  /\ batch.bulk /\ batch.nodes = {} => batch.placeholders = {}

(* A path that has been snapshotted has an origin row until all is written.*)
SnapshotsThere ==
  pc \in {"snapshot", "write", "copy"} =>
    \A i \in touched \ pending : Owned(i) /\ Extracted(i) \in origins

(* The rows of the batch have origins, its edges have ends.                *)
BatchSound ==
  /\ victim # None => NodesOf(victim) = {}
  /\ \A r \in batch.nodes \union batch.placeholders : r.origin \in origins
  /\ \A e \in batch.edges : {e.src, e.dst} \subseteq DOMAIN nodes \union BatchIds

SoundInv == TypeOK /\ Control /\ SnapshotsThere /\ BatchSound /\ NoDangling

(* Second, a file has one origin row, and none from its scan to its        *)
(* snapshot when it is to be written.                                      *)
OneOrigin ==
  /\ \A o1, o2 \in origins : o1.uri = o2.uri => o1 = o2
  /\ pc = "replace" => Current(call.paths[at]) \subseteq stale
  /\ \A i \in touched :
       pc \in {"scan", "replace", "prune"} \/ (pc = "snapshot" /\ i \in pending)
         => Current(call.paths[i]) = {}

(* Third, when no two files have one stem: an id, its owner and its origin *)
(* are one file's.                                                         *)
UriOf(o, id) == id.prefix = <<stem[o.uri], 0>>

Justified(o, id) ==
  \E p \in DOMAIN Labels[o.sha] :
    /\ Labels[o.sha][p].sym = id.unresolved
    /\ Labels[o.sha][p].role \in {"import", "type"}

Scanned(i) == pc \in {"scan", "replace"} => i < at

OwnersTrue ==
  \A i \in DOMAIN call.paths :
    /\ Owned(i) => Extracted(i).uri = call.paths[i]
    /\ Owned(i) /\ pc # "idle" => Extracted(i).sha = file[call.paths[i]]
    /\ pc # "idle" /\ Scanned(i) => i \in touched \/ Owned(i)

RowsTrue ==
  \A n \in DOMAIN nodes \ Placeholder :
    nodes[n].sha = nodes[n].origin.sha /\ UriOf(nodes[n].origin, n)

InOriginTrue == \A x \in inOrigin : x[1] \notin Placeholder => x[2] = nodes[x[1]].origin

BatchTrue ==
  /\ \A r \in batch.nodes :
       /\ UriOf(r.origin, r.id) /\ r.sha = r.origin.sha
       /\ batch.bulk /\ pc = "write" => NodesOf(r.origin) = {}
  /\ \A r \in batch.placeholders : Justified(r.origin, r.id)
  /\ \A e \in batch.edges :
       e.type # "child" /\ e.dst \notin Placeholder =>
         \E o1, o2 \in origins :
           /\ UriOf(o1, e.src) /\ UriOf(o2, e.dst)
           /\ Labels[o2.sha][e.dst.pos] =
                [role |-> "def", sym |-> Labels[o1.sha][e.src.pos].sym]

StaleTrue ==
  /\ pc = "replace" => \A o \in stale : o.sha # file[o.uri]
  /\ pc = "prune" => call.mode # "keep"
  /\ pc = "prune" => \A o \in stale, i \in DOMAIN call.paths : call.paths[i] # o.uri
  /\ pc = "snapshot" => \A i \in touched \ pending : NodesOf(Extracted(i)) = {}

TruthInv ==
  DistinctStems =>
    /\ OwnersTrue /\ RowsTrue /\ InOriginTrue /\ BatchTrue /\ StaleTrue
    /\ NoFalseReference /\ PlaceholderJustified

(* Fourth, when moreover no extract has been cut short: what is not being  *)
(* deleted or written is complete, and what is being written is complete   *)
(* with what the batch still has.                                          *)
Unwritten ==
  IF pc \in {"snapshot", "write", "copy"} THEN {Extracted(i) : i \in touched \ pending} ELSE {}

RowWritten(o, p) ==
  LET n == IdOf(o, p)
  IN  n \in DOMAIN nodes /\ nodes[n] = [origin |-> o, sha |-> o.sha] /\ <<n, o>> \in inOrigin

RowWaiting(o, p) == [id |-> IdOf(o, p), origin |-> o, sha |-> o.sha] \in batch.nodes

Child(o, p) == [type |-> "child", src |-> IdOf(o, 1), dst |-> IdOf(o, p)]

Whole(o) ==
  /\ o \in origins
  /\ \A p \in DOMAIN Labels[o.sha] : RowWritten(o, p) /\ (p # 1 => Child(o, p) \in rels)

(* The edges that the end of the call will have: those of the store, unless*)
(* the bulk write has still to clear them.                                 *)
Edges == batch.edges \union (IF pc = "write" /\ batch.bulk THEN {} ELSE rels)

Linked(es) ==
  \A i \in touched :
    \A p \in DOMAIN Labels[Extracted(i).sha] :
      LET l == Labels[Extracted(i).sha][p]
          targets == {r.dst : r \in {x \in es : x.type = "of_type"
                                              /\ x.src = IdOf(Extracted(i), p)}}
      IN  l.role = "type" =>
            /\ DefiningPaths(l.sym) = {} => [unresolved |-> l.sym] \in targets
            /\ \A j \in touched : DefiningPaths(l.sym) = {j} =>
                 \E q \in DOMAIN Labels[Extracted(j).sha] : IdOf(Extracted(j), q) \in targets

(* A path of which the scan, or the snapshot, is still to come.            *)
Awaited(i) ==
  i \in touched /\ (pc \in {"scan", "replace", "prune"} \/ (pc = "snapshot" /\ i \in pending))

Settled == \A o \in origins \ (stale \union Unwritten) : Whole(o)

Waiting ==
  Writing =>
    \A i \in touched : \A p \in DOMAIN Labels[Extracted(i).sha] :
      /\ RowWaiting(Extracted(i), p)
           \/ (~(pc = "write" /\ batch.bulk) /\ RowWritten(Extracted(i), p))
      /\ p # 1 => Child(Extracted(i), p) \in Edges

Accounted ==
  calls > 0 =>
    \A i \in DOMAIN call.paths :
      Scanned(i) /\ ~Awaited(i) => Owned(i) /\ Extracted(i) \in origins \ stale

Connected == Writing \/ pc = "gc" \/ Idle => Linked(Edges)

WholeInv == DistinctStems /\ crashes = 0 => Settled /\ Waiting /\ Accounted /\ Connected

-----------------------------------------------------------------------------
(* Sets of numbers.                                                        *)

(* A set of naturals that is not empty has a least element.  (The library's*)
(* induction theorems take an operator, which the provers cannot instantiate:*)
(* the well-foundedness of strict inclusion between finite sets serves.)   *)
LEMMA LeastExists ==
  ASSUME NEW S, S \subseteq Nat, S # {}
  PROVE  \E x \in S : \A y \in S : x <= y
<1> DEFINE T == {0..k : k \in S}
           R == StrictSubsetOrdering(Nat)
<1>1. IsWellFoundedOn(R, FiniteSubsetsOf(Nat))
  BY FS_StrictSubsetOrderingWellFounded
<1>2. T \subseteq FiniteSubsetsOf(Nat)
  <2> SUFFICES ASSUME NEW k \in S PROVE 0..k \in FiniteSubsetsOf(Nat)
    OBVIOUS
  <2> QED BY FS_Interval DEF FiniteSubsetsOf
<1>3. T # {}
  OBVIOUS
<1>4. \E x \in T : \A y \in T : ~(<<y, x>> \in R)
  <2> HIDE DEF T, R
  <2> QED BY <1>1, <1>2, <1>3, WFMin
<1>5. PICK x \in S : \A y \in S : ~(<<0..y, 0..x>> \in R)
  BY <1>4
<1>6. ASSUME NEW y \in S, y < x PROVE FALSE
  <2>1. <<0..y, 0..x>> \in (SUBSET Nat) \X (SUBSET Nat)
    OBVIOUS
  <2>2. 0..y \subseteq 0..x /\ x \in 0..x /\ x \notin 0..y
    BY <1>6
  <2> QED BY <2>1, <2>2, <1>5 DEF StrictSubsetOrdering
<1> QED BY <1>5, <1>6

(* And a greatest one when it is bounded.                                  *)
LEMMA GreatestExists ==
  ASSUME NEW S, S \subseteq Nat, S # {}, NEW b \in Nat, \A x \in S : x <= b
  PROVE  Greatest(S) \in S
<1>1. {b - x : x \in S} \subseteq Nat
  OBVIOUS
<1>2. PICK z \in {b - x : x \in S} : \A y \in {b - x : x \in S} : z <= y
  BY <1>1, LeastExists
<1>3. \E x \in S : \A y \in S : x >= y
  BY <1>2
<1> QED BY <1>3 DEF Greatest

(* So has a set of places of four numbers, in the order of the lists.      *)
LEMMA FirstPlaceExists ==
  ASSUME NEW S, S \subseteq Nat \X Nat \X Nat \X Nat, S # {}
  PROVE  \E a \in S : \A b \in S : NotAfter(a, b)
<1>1. PICK w \in {a[1] : a \in S} : \A y \in {a[1] : a \in S} : w <= y
  <2>1. {a[1] : a \in S} \subseteq Nat /\ {a[1] : a \in S} # {}
    OBVIOUS
  <2> QED BY <2>1, LeastExists
<1> DEFINE S1 == {a \in S : a[1] = w}
<1>2. PICK x \in {a[2] : a \in S1} : \A y \in {a[2] : a \in S1} : x <= y
  <2>1. {a[2] : a \in S1} \subseteq Nat /\ {a[2] : a \in S1} # {}
    BY <1>1
  <2> QED BY <2>1, LeastExists
<1> DEFINE S2 == {a \in S1 : a[2] = x}
<1>3. PICK v \in {a[3] : a \in S2} : \A y \in {a[3] : a \in S2} : v <= y
  <2>1. {a[3] : a \in S2} \subseteq Nat /\ {a[3] : a \in S2} # {}
    BY <1>2
  <2> QED BY <2>1, LeastExists
<1> DEFINE S3 == {a \in S2 : a[3] = v}
<1>4. PICK u \in {a[4] : a \in S3} : \A y \in {a[4] : a \in S3} : u <= y
  <2>1. {a[4] : a \in S3} \subseteq Nat /\ {a[4] : a \in S3} # {}
    BY <1>3
  <2> QED BY <2>1, LeastExists
<1>5. PICK a \in S3 : a[4] = u
  BY <1>4
<1>6. a \in S /\ a[1] = w /\ a[2] = x /\ a[3] = v /\ a[4] = u /\ DOMAIN a = 1..4
  BY <1>5
<1>7. ASSUME NEW b \in S PROVE NotAfter(a, b)
  <2>0. /\ b[1] \in Nat /\ b[2] \in Nat /\ b[3] \in Nat /\ b[4] \in Nat
        /\ a[1] \in Nat /\ a[2] \in Nat /\ a[3] \in Nat /\ a[4] \in Nat
    BY <1>6
  <2>1. w <= b[1]
    BY <1>1
  <2>2. CASE w # b[1]
    <3>1. a[1] < b[1] /\ \A j \in 1..(1 - 1) : a[j] = b[j]
      BY <2>0, <2>1, <2>2, <1>6
    <3> QED BY <3>1, <1>6 DEF NotAfter
  <2>3. CASE w = b[1] /\ x # b[2]
    <3>1. b \in S1 /\ x <= b[2]
      BY <2>3, <1>2
    <3>2. a[2] < b[2] /\ \A j \in 1..(2 - 1) : a[j] = b[j]
      BY <2>0, <3>1, <2>3, <1>6
    <3> QED BY <3>2, <1>6 DEF NotAfter
  <2>4. CASE w = b[1] /\ x = b[2] /\ v # b[3]
    <3>1. b \in S2 /\ v <= b[3]
      BY <2>4, <1>3
    <3>2. a[3] < b[3] /\ \A j \in 1..(3 - 1) : a[j] = b[j]
      BY <2>0, <3>1, <2>4, <1>6
    <3> QED BY <3>2, <1>6 DEF NotAfter
  <2>5. CASE w = b[1] /\ x = b[2] /\ v = b[3]
    <3>1. b \in S3 /\ u <= b[4]
      BY <2>5, <1>4
    <3>2. CASE u # b[4]
      <4>1. a[4] < b[4] /\ \A j \in 1..(4 - 1) : a[j] = b[j]
        BY <2>0, <3>1, <3>2, <2>5, <1>6
      <4> QED BY <4>1, <1>6 DEF NotAfter
    <3>3. CASE u = b[4]
      <4>1. a = b
        BY <3>3, <2>5, <1>6
      <4> QED BY <4>1 DEF NotAfter
    <3> QED BY <3>2, <3>3
  <2> QED BY <2>2, <2>3, <2>4, <2>5
<1> QED BY <1>6, <1>7

-----------------------------------------------------------------------------
(* The graph of a corpus.                                                  *)

DefIds(cs, s) == UNION {{NodeId(cs, j, q) : q \in DefsIn(cs, j, s)} : j \in DOMAIN cs}

(* A content has a root, and a label at every position.                    *)
LEMMA LabelsTyped ==
  ASSUME LabelsAssumption, NEW c \in Content
  PROVE  /\ Labels[c] \in Seq(Label) /\ Len(Labels[c]) \in Nat /\ 1 \in DOMAIN Labels[c]
         /\ DOMAIN Labels[c] = 1..Len(Labels[c])
         /\ \A p \in DOMAIN Labels[c] : p \in Nat \ {0} /\ Labels[c][p] \in Label
BY DEF LabelsAssumption

(* A file of a corpus has a prefix, and its positions have ids.            *)
LEMMA IdsTyped ==
  ASSUME LabelsAssumption, NEW cs \in Seq(File), NEW i \in DOMAIN cs
  PROVE  /\ cs[i] \in File /\ i \in Nat \ {0} /\ DOMAIN cs = 1..Len(cs) /\ Len(cs) \in Nat
         /\ Prefix(cs, i) \in Stem \X Nat
         /\ \A p \in PositionsIn(cs, i) :
              p \in Nat \ {0} /\ NodeId(cs, i, p) \in SyntaxId /\ LabelAt(cs, i, p) \in Label
<1>1. cs[i] \in File /\ i \in Nat \ {0} /\ DOMAIN cs = 1..Len(cs) /\ Len(cs) \in Nat
  OBVIOUS
<1>2. Prefix(cs, i) \in Stem \X Nat
  <2> DEFINE E == {j \in DOMAIN cs : j < i /\ cs[j].stem = cs[i].stem}
  <2>1. IsFiniteSet(DOMAIN cs)
    BY <1>1, FS_Interval
  <2>2. Cardinality(E) \in Nat
    <3>1. IsFiniteSet(E)
      BY <2>1, FS_Subset
    <3> QED BY <3>1, FS_CardinalityType
  <2>3. cs[i].stem \in Stem
    BY <1>1 DEF File
  <2> QED BY <2>2, <2>3 DEF Prefix
<1>3. cs[i].sha \in Content
  BY <1>1 DEF File
<1> QED BY <1>1, <1>2, <1>3, LabelsTyped DEF PositionsIn, LabelAt, NodeId, SyntaxId

(* The greatest definition of s before a position is one.                  *)
LEMMA GreatestDefinition ==
  ASSUME LabelsAssumption, NEW cs \in Seq(File), NEW i \in DOMAIN cs, NEW s,
         NEW p \in Nat, DefsBefore(cs, i, p, s) # {}
  PROVE  /\ Greatest(DefsBefore(cs, i, p, s)) \in DefsBefore(cs, i, p, s)
         /\ DefsBefore(cs, i, p, s) \subseteq DefsIn(cs, i, s)
         /\ DefsIn(cs, i, s) \subseteq PositionsIn(cs, i)
<1>1. cs[i].sha \in Content
  BY IdsTyped DEF File
<1>2. /\ Len(Labels[cs[i].sha]) \in Nat
      /\ PositionsIn(cs, i) = 1..Len(Labels[cs[i].sha])
  BY <1>1, LabelsTyped DEF PositionsIn
<1>3. DefsBefore(cs, i, p, s) \subseteq Nat /\ \A q \in DefsBefore(cs, i, p, s) : q <= p
  BY <1>2 DEF DefsBefore, Where
<1>4. Greatest(DefsBefore(cs, i, p, s)) \in DefsBefore(cs, i, p, s)
  BY <1>3, GreatestExists
<1>5. DefsBefore(cs, i, p, s) \subseteq DefsIn(cs, i, s)
  BY <1>2 DEF DefsBefore, DefsIn, Where
<1>6. DefsIn(cs, i, s) \subseteq PositionsIn(cs, i)
  BY DEF DefsIn, DefsBefore, Where
<1> QED BY <1>4, <1>5, <1>6

LEMMA GreatestDefinitionIn ==
  ASSUME LabelsAssumption, NEW cs \in Seq(File), NEW i \in DOMAIN cs, NEW s,
         DefsIn(cs, i, s) # {}
  PROVE  NodeId(cs, i, Greatest(DefsIn(cs, i, s))) \in DefIds(cs, s)
<1>1. cs[i].sha \in Content
  BY IdsTyped DEF File
<1>2. Len(Labels[cs[i].sha]) + 1 \in Nat /\ PositionsIn(cs, i) \subseteq Nat
  BY <1>1, LabelsTyped DEF PositionsIn
<1>3. Greatest(DefsIn(cs, i, s)) \in DefsIn(cs, i, s) /\ DefsIn(cs, i, s) \subseteq PositionsIn(cs, i)
  BY <1>2, GreatestDefinition DEF DefsIn
<1> QED BY <1>3 DEF DefIds

(* A name's entry in the index is a definition of it.                      *)
LEMMA IndexTrue ==
  ASSUME LabelsAssumption, NEW cs \in Seq(File), NEW i \in 0..Len(cs),
         NEW s \in DOMAIN IndexAfter(cs, i)
  PROVE  s \in Sym /\ IndexAfter(cs, i)[s] \in DefIds(cs, s)
<1>1. s \in Sym /\ Definers(cs, i, s) # {}
  BY DEF IndexAfter
<1> DEFINE j == Greatest(Definers(cs, i, s))
<1>2. j \in Definers(cs, i, s)
  <2>1. Definers(cs, i, s) \subseteq Nat /\ \A k \in Definers(cs, i, s) : k <= i
    BY DEF Definers
  <2> QED BY <1>1, <2>1, GreatestExists
<1>3. j \in DOMAIN cs /\ DefsIn(cs, j, s) # {}
  <2> HIDE DEF j
  <2>1. DOMAIN cs = 1..Len(cs) /\ Len(cs) \in Nat
    OBVIOUS
  <2> QED BY <1>2, <2>1 DEF Definers
<1>4. IndexAfter(cs, i)[s] = NodeId(cs, j, Greatest(DefsIn(cs, j, s)))
  BY <1>1 DEF IndexAfter
<1> QED
  <2> HIDE DEF j
  <2> QED BY <1>1, <1>3, <1>4, GreatestDefinitionIn

LEMMA ReplayTrue ==
  ASSUME LabelsAssumption, NEW cs \in Seq(File), NEW s \in DOMAIN ReplayedIndex(cs)
  PROVE  s \in Sym /\ ReplayedIndex(cs)[s] \in DefIds(cs, s)
<1> DEFINE D == {i \in DOMAIN cs : s \in DOMAIN Captured(cs, i)}
           j == Least(D)
<1>1. s \in UNION {DOMAIN Captured(cs, i) : i \in DOMAIN cs}
  BY DEF ReplayedIndex
<1>2. D # {} /\ D \subseteq Nat
  BY <1>1
<1>3. j \in D
  <2> HIDE DEF D
  <2> QED BY <1>2, LeastExists DEF Least
<1>4. j \in DOMAIN cs /\ s \in DOMAIN Captured(cs, j)
  BY <1>3
<1>5. ReplayedIndex(cs)[s] = Captured(cs, j)[s]
  BY <1>1 DEF ReplayedIndex
<1> HIDE DEF j
<1>6. /\ s \in Sym /\ DefsIn(cs, j, s) # {}
      /\ Captured(cs, j)[s] = NodeId(cs, j, Greatest(DefsIn(cs, j, s)))
  BY <1>4 DEF Captured
<1> QED BY <1>4, <1>5, <1>6, GreatestDefinitionIn

(* Where an edge of the graph of a corpus can come from.                   *)
EdgeFrom(cs, e) ==
  \E i \in DOMAIN cs : \E p \in PositionsIn(cs, i) :
    /\ e = [type |-> e.type, src |-> NodeId(cs, i, p), dst |-> e.dst]
    /\ \/ e.type = "child" /\ \E q \in PositionsIn(cs, i) : e.dst = NodeId(cs, i, q)
       \/ /\ e.type \in EdgeType \ {"child"} /\ LabelAt(cs, i, p).role # "plain"
          /\ e.dst \in DefIds(cs, LabelAt(cs, i, p).sym)
       \/ /\ e.type \in EdgeType \ {"child"} /\ LabelAt(cs, i, p).role \in {"import", "type"}
          /\ e.dst = [unresolved |-> LabelAt(cs, i, p).sym]

LEMMA ImportTrue ==
  ASSUME LabelsAssumption, NEW cs \in Seq(File), NEW i \in DOMAIN cs,
         NEW p \in PositionsIn(cs, i), NEW s
  PROVE  ImportTarget(cs, i, p, s) \in DefIds(cs, s) \union {[unresolved |-> s]}
<1>1. CASE DefsBefore(cs, i, p, s) # {}
  <2>1. p \in Nat
    BY IdsTyped
  <2>2. Greatest(DefsBefore(cs, i, p, s)) \in DefsIn(cs, i, s)
    BY <1>1, <2>1, GreatestDefinition
  <2>3. ImportTarget(cs, i, p, s) = NodeId(cs, i, Greatest(DefsBefore(cs, i, p, s)))
    BY <1>1 DEF ImportTarget
  <2> QED BY <2>2, <2>3 DEF DefIds
<1>2. CASE DefsBefore(cs, i, p, s) = {}
  <2>1. ImportTarget(cs, i, p, s) = Resolved(IndexAfter(cs, i - 1), s)
    BY <1>2 DEF ImportTarget
  <2>2. i - 1 \in 0..Len(cs)
    BY IdsTyped
  <2> QED BY <2>1, <2>2, IndexTrue DEF Resolved
<1> QED BY <1>1, <1>2

LEMMA EdgesTrue ==
  ASSUME LabelsAssumption, NEW cs \in Seq(File), NEW cached,
         NEW e \in GraphEdges(cs, cached)
  PROVE  EdgeFrom(cs, e)
<1> DEFINE types == IF cached THEN ReplayedIndex(cs) ELSE IndexAfter(cs, Len(cs))
<1>1. PICK i \in DOMAIN cs :
        e \in ChildEdges(cs, i) \union UNION {EdgesAt(cs, i, p, types) : p \in PositionsIn(cs, i)}
  BY DEF GraphEdges
<1>2. Len(cs) \in 0..Len(cs) /\ 1 \in PositionsIn(cs, i)
  <2>1. cs[i].sha \in Content
    BY IdsTyped DEF File
  <2> QED BY <2>1, LabelsTyped, IdsTyped DEF PositionsIn
<1>3. CASE e \in ChildEdges(cs, i)
  BY <1>2, <1>3 DEF ChildEdges, EdgeFrom
<1>4. CASE e \notin ChildEdges(cs, i)
  <2>1. PICK p \in PositionsIn(cs, i) : e \in EdgesAt(cs, i, p, types)
    BY <1>1, <1>4
  <2> DEFINE l == LabelAt(cs, i, p)
             edge(t, dst) == [type |-> t, src |-> NodeId(cs, i, p), dst |-> dst]
  <2>2. ASSUME NEW t \in EdgeType \ {"child"}, l.role # "plain",
               NEW dst \in DefIds(cs, l.sym), e = edge(t, dst)
        PROVE  EdgeFrom(cs, e)
    BY <2>2 DEF EdgeFrom
  <2>3. ASSUME NEW t \in EdgeType \ {"child"}, l.role \in {"import", "type"},
               e = edge(t, [unresolved |-> l.sym])
        PROVE  EdgeFrom(cs, e)
    BY <2>3 DEF EdgeFrom
  <2>4. CASE l.role = "import"
    <3>1. e = edge("imports", ImportTarget(cs, i, p, l.sym))
      BY <2>1, <2>4 DEF EdgesAt
    <3>2. "imports" \in EdgeType \ {"child"}
      BY DEF EdgeType
    <3> QED BY <3>1, <3>2, <2>2, <2>3, <2>4, ImportTrue
  <2>5. CASE l.role = "instance"
    <3> DEFINE full == IndexAfter(cs, Len(cs))
    <3>1. l.sym \in DOMAIN full /\ e = edge("of_module", full[l.sym])
      BY <2>1, <2>5 DEF EdgesAt
    <3>2. "of_module" \in EdgeType \ {"child"}
      BY DEF EdgeType
    <3>3. full[l.sym] \in DefIds(cs, l.sym)
      BY <1>2, <3>1, IndexTrue
    <3> QED BY <3>1, <3>2, <3>3, <2>2, <2>5
  <2>6. CASE l.role = "type"
    <3>1. e = edge("of_type", Resolved(types, l.sym))
      BY <2>1, <2>6 DEF EdgesAt
    <3>2. "of_type" \in EdgeType \ {"child"}
      BY DEF EdgeType
    <3>3. Resolved(types, l.sym) \in DefIds(cs, l.sym) \union {[unresolved |-> l.sym]}
      BY <1>2, IndexTrue, ReplayTrue DEF Resolved
    <3> QED BY <3>1, <3>2, <3>3, <2>2, <2>3, <2>6
  <2>7. CASE l.role \notin {"import", "instance", "type"}
    BY <2>1, <2>7 DEF EdgesAt
  <2> QED BY <2>4, <2>5, <2>6, <2>7
<1> QED BY <1>3, <1>4

(* So a graph's edges have a node for their source, and a node or a        *)
(* placeholder for their target.                                           *)
LEMMA EdgesTyped ==
  ASSUME LabelsAssumption, NEW cs \in Seq(File), NEW e, EdgeFrom(cs, e),
         e.dst \in SyntaxId \/ e.dst \in Placeholder
  PROVE  e \in Rel
<1>1. PICK i \in DOMAIN cs : \E p \in PositionsIn(cs, i) :
        /\ e = [type |-> e.type, src |-> NodeId(cs, i, p), dst |-> e.dst]
        /\ e.type \in EdgeType
  BY DEF EdgeFrom, EdgeType
<1> QED BY <1>1, IdsTyped DEF Rel, Id

-----------------------------------------------------------------------------
(* The corpus of the call, and the batch that is built of it.              *)

LEMMA PathTyped ==
  ASSUME BoundsAssumption, NEW s \in Paths
  PROVE  /\ s \in Seq(Uri) /\ Len(s) \in Nat /\ DOMAIN s = 1..Len(s)
         /\ \A i, j \in DOMAIN s : s[i] = s[j] => i = j
<1>1. Cardinality(Uri) \in Nat
  BY FS_CardinalityType DEF BoundsAssumption
<1>2. PICK n \in 1..Cardinality(Uri) : s \in [1..n -> Uri]
  BY DEF Paths
<1>3. n \in Nat
  BY <1>1
<1>4. s \in Seq(Uri)
  BY <1>2, <1>3
<1> QED BY <1>4 DEF Paths

LEMMA PathsTyped ==
  ASSUME BoundsAssumption, TypeOK
  PROVE  /\ call.paths \in Seq(Uri) /\ Len(call.paths) \in Nat
         /\ DOMAIN call.paths = 1..Len(call.paths)
         /\ \A i, j \in DOMAIN call.paths : call.paths[i] = call.paths[j] => i = j
<1>1. call.paths \in Paths \/ call.paths = <<>>
  BY DEF TypeOK
<1>2. CASE call.paths = <<>>
  BY <1>2
<1> QED BY <1>1, <1>2, PathTyped

LEMMA CorpusTyped ==
  ASSUME BoundsAssumption, TypeOK
  PROVE  /\ Corpus \in Seq(File) /\ DOMAIN Corpus = DOMAIN call.paths
         /\ \A i \in DOMAIN call.paths :
              /\ Corpus[i] = [uri |-> call.paths[i], stem |-> stem[call.paths[i]],
                              sha |-> file[call.paths[i]]]
              /\ Corpus[i].sha = file[call.paths[i]] /\ Corpus[i].stem = stem[call.paths[i]]
              /\ call.paths[i] \in Uri /\ file[call.paths[i]] \in Content
<1>1. \A i \in DOMAIN call.paths : call.paths[i] \in Uri
  BY PathsTyped
<1>2. \A i \in DOMAIN call.paths : stem[call.paths[i]] \in Stem /\ file[call.paths[i]] \in Content
  BY <1>1 DEF TypeOK
<1>3. Corpus \in [1..Len(call.paths) -> File]
  BY <1>1, <1>2, PathsTyped DEF Corpus, File
<1>4. Corpus \in Seq(File)
  BY <1>3, PathsTyped
<1> QED BY <1>1, <1>2, <1>4 DEF Corpus

LEMMA PrefixTyped ==
  ASSUME LabelsAssumption, BoundsAssumption, TypeOK, NEW i \in DOMAIN call.paths
  PROVE  PrefixOfPath(i) \in Stem \X Nat
BY CorpusTyped, IdsTyped DEF PrefixOfPath

(* A path's prefix is a matter of the stems and the call.                  *)
LEMMA PrefixStays ==
  ASSUME stem' = stem, call' = call, NEW i \in DOMAIN call.paths
  PROVE  PrefixOfPath(i)' = PrefixOfPath(i)
<1>1. DOMAIN Corpus' = DOMAIN call.paths /\ DOMAIN Corpus = DOMAIN call.paths
  BY DEF Corpus
<1>2. \A j \in DOMAIN call.paths :
        Corpus'[j].stem = stem[call.paths[j]] /\ Corpus[j].stem = stem[call.paths[j]]
  BY DEF Corpus
<1>3. {j \in DOMAIN Corpus' : j < i /\ Corpus'[j].stem = Corpus'[i].stem}
        = {j \in DOMAIN Corpus : j < i /\ Corpus[j].stem = Corpus[i].stem}
  BY <1>1, <1>2
<1>4. Prefix(Corpus', i) = Prefix(Corpus, i)
  BY <1>2, <1>3 DEF Prefix
<1> QED BY <1>4 DEF PrefixOfPath

Rows ==
  {[id |-> n.id, origin |-> owner[n.id.prefix], sha |-> n.sha] : n \in GraphNodes(Corpus)}

Kept == {r \in Rows : r.origin \in TouchedOrigins}

KeptGraph == KeptEdges(GraphEdges(Corpus, Corpus \in built), {r.id : r \in Kept})

LEMMA BuildMakes ==
  ASSUME Build
  PROVE  batch' = [bulk |-> Cardinality(Kept) + Cardinality(KeptGraph) >= BulkMinRows,
                   nodes |-> Kept, placeholders |-> PlaceholderRows(KeptGraph, Kept),
                   edges |-> KeptGraph]
BY DEF Build, Rows, Kept, KeptGraph

(* A row that is kept is a position of a file of the call.                 *)
LEMMA KeptRows ==
  ASSUME LabelsAssumption, BoundsAssumption, SoundInv, pc = "snapshot", pending = {},
         NEW r \in Kept
  PROVE  /\ r \in [id : SyntaxId, origin : OriginId, sha : Content]
         /\ r.origin \in origins /\ r.origin \in TouchedOrigins
         /\ \E i \in DOMAIN call.paths : \E p \in PositionsIn(Corpus, i) :
              r = [id |-> NodeId(Corpus, i, p), origin |-> owner[PrefixOfPath(i)],
                   sha |-> file[call.paths[i]]]
<1>1. PICK i \in DOMAIN call.paths : \E p \in PositionsIn(Corpus, i) :
        r = [id |-> NodeId(Corpus, i, p), origin |-> owner[PrefixOfPath(i)],
             sha |-> file[call.paths[i]]]
  <2>1. PICK n \in GraphNodes(Corpus) :
          r = [id |-> n.id, origin |-> owner[n.id.prefix], sha |-> n.sha]
    BY DEF Kept, Rows
  <2>2. PICK i \in DOMAIN Corpus : \E p \in PositionsIn(Corpus, i) :
          n = [id |-> NodeId(Corpus, i, p), sha |-> Corpus[i].sha]
    BY <2>1 DEF GraphNodes
  <2>3. i \in DOMAIN call.paths /\ Corpus[i].sha = file[call.paths[i]]
    BY <2>2, CorpusTyped DEF SoundInv
  <2> QED BY <2>1, <2>2, <2>3 DEF NodeId, PrefixOfPath
<1>2. r.origin \in TouchedOrigins
  BY DEF Kept
<1>3. r.origin \in origins
  BY <1>2 DEF TouchedOrigins, SoundInv, SnapshotsThere, Extracted
<1>4. r.origin \in OriginId
  BY <1>3 DEF SoundInv, TypeOK
<1>5. Corpus \in Seq(File) /\ DOMAIN Corpus = DOMAIN call.paths /\ file[call.paths[i]] \in Content
  BY CorpusTyped DEF SoundInv
<1>6. r.id \in SyntaxId /\ r.sha \in Content
  BY <1>1, <1>5, IdsTyped
<1> QED BY <1>1, <1>2, <1>3, <1>4, <1>6

LEMMA KeptGraphEdges ==
  ASSUME LabelsAssumption, BoundsAssumption, SoundInv, pc = "snapshot", pending = {},
         NEW e \in KeptGraph
  PROVE  /\ e \in Rel /\ EdgeFrom(Corpus, e)
         /\ e.src \in {r.id : r \in Kept}
         /\ e.dst \in {r.id : r \in Kept} \/ e.dst \in Placeholder
<1>1. e \in GraphEdges(Corpus, Corpus \in built)
  BY DEF KeptGraph, KeptEdges
<1>2. e.src \in {r.id : r \in Kept} /\ (e.dst \in {r.id : r \in Kept} \/ e.dst \in Placeholder)
  BY DEF KeptGraph, KeptEdges
<1>3. Corpus \in Seq(File)
  BY CorpusTyped DEF SoundInv
<1>4. EdgeFrom(Corpus, e)
  BY <1>1, <1>3, EdgesTrue
<1>5. e.dst \in SyntaxId \/ e.dst \in Placeholder
  BY <1>2, KeptRows
<1> QED BY <1>2, <1>3, <1>4, <1>5, EdgesTyped

LEMMA EdgePlaceTyped ==
  ASSUME LabelsAssumption, BoundsAssumption, SoundInv, pc = "snapshot", pending = {},
         NEW e \in KeptGraph
  PROVE  EdgePlace(e) \in Nat \X Nat \X Nat \X Nat
<1>1. Corpus \in Seq(File) /\ DOMAIN Corpus = DOMAIN call.paths
  BY CorpusTyped DEF SoundInv
<1>2. PICK i \in DOMAIN call.paths : \E p \in PositionsIn(Corpus, i) :
        /\ e.src = NodeId(Corpus, i, p)
        /\ e.type = "child" => \E q \in PositionsIn(Corpus, i) : e.dst = NodeId(Corpus, i, q)
  <2>1. EdgeFrom(Corpus, e)
    BY KeptGraphEdges
  <2> QED BY <2>1, <1>1 DEF EdgeFrom
<1>3. PathOf(e.src) \in DOMAIN call.paths
  BY <1>2 DEF PathOf, NodeId, PrefixOfPath
<1>4. PathOf(e.src) \in Nat
  BY <1>3, PathsTyped DEF SoundInv
<1>5. e.src.pos \in Nat /\ (e.type = "child" => e.dst.pos \in Nat)
  <2>1. \A q \in PositionsIn(Corpus, i) : NodeId(Corpus, i, q) \in SyntaxId
    BY <1>1, IdsTyped
  <2> QED BY <1>2, <2>1 DEF SyntaxId
<1>6. e.type \in EdgeType
  BY KeptGraphEdges DEF Rel
<1> QED BY <1>4, <1>5, <1>6 DEF EdgePlace, EdgeType

(* A placeholder row is made by the first edge that needs it, for the      *)
(* origin of its source.                                                   *)
LEMMA PlaceholderRowsOf ==
  ASSUME LabelsAssumption, BoundsAssumption, SoundInv, pc = "snapshot", pending = {}
  PROVE  /\ \A x \in PlaceholderRows(KeptGraph, Kept) :
              \E e \in KeptGraph : \E r \in Kept :
                /\ x = [id |-> e.dst, origin |-> r.origin]
                /\ r.id = e.src /\ e.dst \in Placeholder
         /\ \A e \in KeptGraph : e.dst \in Placeholder =>
              \E x \in PlaceholderRows(KeptGraph, Kept) : x.id = e.dst
<1>1. ASSUME NEW x \in PlaceholderRows(KeptGraph, Kept)
      PROVE  \E e \in KeptGraph : \E r \in Kept :
               /\ x = [id |-> e.dst, origin |-> r.origin]
               /\ r.id = e.src /\ e.dst \in Placeholder
  <2>1. PICK e \in KeptGraph :
          /\ x = [id |-> e.dst, origin |-> (CHOOSE r \in Kept : r.id = e.src).origin]
          /\ e.dst \in Placeholder
    BY DEF PlaceholderRows
  <2>2. \E r \in Kept : r.id = e.src
    BY KeptGraphEdges
  <2>3. (CHOOSE r \in Kept : r.id = e.src) \in Kept /\ (CHOOSE r \in Kept : r.id = e.src).id = e.src
    BY <2>2
  <2> QED BY <2>1, <2>3
<1>2. ASSUME NEW e \in KeptGraph, e.dst \in Placeholder
      PROVE  \E x \in PlaceholderRows(KeptGraph, Kept) : x.id = e.dst
  <2> DEFINE Es == {y \in KeptGraph : y.dst = e.dst}
             Ps == {EdgePlace(y) : y \in Es}
  <2>1. Ps \subseteq Nat \X Nat \X Nat \X Nat /\ Ps # {}
    BY EdgePlaceTyped
  <2>2. PICK a \in Ps : \A b \in Ps : NotAfter(a, b)
    <3> HIDE DEF Ps
    <3> QED BY <2>1, FirstPlaceExists
  <2>3. PICK y \in Es : a = EdgePlace(y)
    BY <2>2
  <2>4. \A z \in KeptGraph : z.dst = y.dst => NotAfter(EdgePlace(y), EdgePlace(z))
    BY <2>2, <2>3
  <2>5. [id |-> y.dst, origin |-> (CHOOSE r \in Kept : r.id = y.src).origin]
          \in PlaceholderRows(KeptGraph, Kept)
    BY <2>3, <2>4, <1>2 DEF PlaceholderRows
  <2> QED BY <2>3, <2>5
<1> QED BY <1>1, <1>2

-----------------------------------------------------------------------------
(* Types.                                                                  *)

LEMMA TypeStep ==
  ASSUME LabelsAssumption, BoundsAssumption, SoundInv, [Next]_vars
  PROVE  TypeOK'
<1> USE DEF SoundInv, TypeOK
<1>1. ASSUME NEW o \in OriginId, ScanUnchanged(o)
      PROVE  TypeOK'
  <2>1. PrefixOfPath(at) \in Stem \X Nat
    BY <1>1, PrefixTyped DEF ScanUnchanged
  <2>2. DOMAIN owner' \subseteq Stem \X Nat /\ owner' \in [DOMAIN owner' -> OriginId]
    BY <1>1, <2>1 DEF ScanUnchanged, Put
  <2> QED BY <1>1, <2>2 DEF ScanUnchanged, env, store
<1>2. ASSUME ScanFresh
      PROVE  TypeOK'
  BY <1>2 DEF ScanFresh, env, store
<1>3. ASSUME NEW o \in OriginId, ScanChanged(o)
      PROVE  TypeOK'
  BY <1>3 DEF ScanChanged, env, store
<1>4. ASSUME ReplaceDone
      PROVE  TypeOK'
  BY <1>4 DEF ReplaceDone, Control, env, store
<1>5. ASSUME NEW o \in OriginId, DeleteNodes(o)
      PROVE  TypeOK'
  BY <1>5 DEF DeleteNodes, DetachDelete, Restrict, Without, env
<1>6. ASSUME DeleteRow
      PROVE  TypeOK'
  BY <1>6 DEF DeleteRow, env
<1>7. ASSUME ScanDone
      PROVE  TypeOK'
  BY <1>7 DEF ScanDone, AfterSweep, OutsideCall, env, store
<1>8. ASSUME PruneDone
      PROVE  TypeOK'
  BY <1>8 DEF PruneDone, AfterSweep, env, store
<1>9. ASSUME NEW i \in pending, Snapshot(i)
      PROVE  TypeOK'
  <2> DEFINE o == [uri |-> call.paths[i], sha |-> file[call.paths[i]]]
  <2>1. i \in DOMAIN call.paths /\ o \in OriginId
    BY <1>9, CorpusTyped DEF OriginId
  <2>2. PrefixOfPath(i) \in Stem \X Nat
    BY <2>1, PrefixTyped
  <2>3. DOMAIN owner' \subseteq Stem \X Nat /\ owner' \in [DOMAIN owner' -> OriginId]
    BY <1>9, <2>1, <2>2 DEF Snapshot, Put
  <2>4. origins' \subseteq OriginId
    BY <1>9, <2>1 DEF Snapshot
  <2> QED BY <1>9, <2>3, <2>4 DEF Snapshot, env
<1>10. ASSUME Build
      PROVE  TypeOK'
  <2>1. pc = "snapshot" /\ pending = {} /\ Corpus \in Seq(File)
    BY <1>10, CorpusTyped DEF Build
  <2>2. \A r \in Kept : r \in [id : SyntaxId, origin : OriginId, sha : Content]
    BY <2>1, KeptRows
  <2>3. \A e \in KeptGraph : e \in Rel
    BY <2>1, KeptGraphEdges
  <2>4. \A x \in PlaceholderRows(KeptGraph, Kept) : x \in [id : Placeholder, origin : OriginId]
    BY <2>1, <2>2, PlaceholderRowsOf
  <2>5. batch' \in Batch
    <3> DEFINE b == Cardinality(Kept) + Cardinality(KeptGraph) >= BulkMinRows
    <3>1. b \in BOOLEAN
      OBVIOUS
    <3>2. /\ Kept \in SUBSET [id : SyntaxId, origin : OriginId, sha : Content]
          /\ KeptGraph \in SUBSET Rel
          /\ PlaceholderRows(KeptGraph, Kept) \in SUBSET [id : Placeholder, origin : OriginId]
      BY <2>2, <2>3, <2>4
    <3>3. batch' = [bulk |-> b, nodes |-> Kept, placeholders |-> PlaceholderRows(KeptGraph, Kept),
                    edges |-> KeptGraph]
      BY <1>10, BuildMakes
    <3> HIDE DEF b
    <3> QED BY <3>1, <3>2, <3>3 DEF Batch
  <2>6. built' \subseteq Seq(File)
    BY <1>10, <2>1 DEF Build
  <2> QED BY <1>10, <2>5, <2>6 DEF Build, env, store
<1>11. ASSUME NEW r \in batch.nodes, WriteNode(r)
      PROVE  TypeOK'
  <2>1. r \in [id : SyntaxId, origin : OriginId, sha : Content]
    BY DEF Batch
  <2>2. DOMAIN nodes' \subseteq Id /\ nodes' \in [DOMAIN nodes' -> Row]
    BY <1>11, <2>1 DEF WriteNode, Put, Id, Row
  <2>3. inOrigin' \subseteq Id \X OriginId
    BY <1>11, <2>1 DEF WriteNode, Id
  <2>4. batch' \in Batch
    BY <1>11 DEF WriteNode, Batch
  <2> QED BY <1>11, <2>2, <2>3, <2>4 DEF WriteNode, env
<1>12. ASSUME NEW p \in batch.placeholders, WritePlaceholder(p)
      PROVE  TypeOK'
  <2>1. p \in [id : Placeholder, origin : OriginId]
    BY DEF Batch
  <2>2. DOMAIN nodes' \subseteq Id /\ nodes' \in [DOMAIN nodes' -> Row]
    BY <1>12, <2>1 DEF WritePlaceholder, Put, Id, Row
  <2>3. inOrigin' \subseteq Id \X OriginId
    BY <1>12, <2>1 DEF WritePlaceholder, Id
  <2>4. batch' \in Batch
    BY <1>12 DEF WritePlaceholder, Batch
  <2> QED BY <1>12, <2>2, <2>3, <2>4 DEF WritePlaceholder, env
<1>13. ASSUME NEW e \in batch.edges, WriteEdge(e)
      PROVE  TypeOK'
  <2>1. e \in Rel
    BY DEF Batch
  <2>2. batch' \in Batch
    BY <1>13 DEF WriteEdge, Batch
  <2> QED BY <1>13, <2>1, <2>2 DEF WriteEdge, env
<1>14. ASSUME BulkClear
      PROVE  TypeOK'
  BY <1>14 DEF BulkClear, DetachDelete, Restrict, Without, env
<1>15. ASSUME BulkCopyNodes
      PROVE  TypeOK'
  <2> DEFINE row(id) == CHOOSE x \in batch.nodes \union batch.placeholders : x.id = id
  <2>1. \A x \in batch.nodes : x \in [id : SyntaxId, origin : OriginId, sha : Content]
    BY DEF Batch
  <2>2. \A x \in batch.placeholders : x \in [id : Placeholder, origin : OriginId]
    BY DEF Batch
  <2>3. \A id \in BatchIds : row(id) \in batch.nodes \union batch.placeholders /\ row(id).id = id
    BY DEF BatchIds
  <2>4. ASSUME NEW id \in BatchIds
        PROVE  /\ id \in Id /\ row(id).origin \in OriginId
               /\ id \notin Placeholder => row(id).sha \in Content
    <3> HIDE DEF row
    <3> QED BY <2>1, <2>2, <2>3 DEF Id
  <2>5. DOMAIN nodes' = DOMAIN nodes \union BatchIds
    BY <1>15 DEF BulkCopyNodes
  <2>6. ASSUME NEW id \in DOMAIN nodes'
        PROVE  nodes'[id] \in Row
    <3>1. CASE id \in DOMAIN nodes
      <4>1. nodes'[id] = nodes[id]
        BY <1>15, <2>5, <3>1 DEF BulkCopyNodes
      <4> QED BY <3>1, <4>1
    <3>2. CASE id \notin DOMAIN nodes
      <4>1. nodes'[id] = [origin |-> row(id).origin,
                          sha |-> IF id \in Placeholder THEN None ELSE row(id).sha]
        BY <1>15, <2>5, <3>2 DEF BulkCopyNodes
      <4> QED BY <2>4, <2>5, <3>2, <4>1 DEF Row
    <3> QED BY <3>1, <3>2
  <2>7. DOMAIN nodes' \subseteq Id /\ nodes' \in [DOMAIN nodes' -> Row]
    <3>1. nodes' = [id \in DOMAIN nodes' |-> nodes'[id]]
      BY <1>15 DEF BulkCopyNodes
    <3> QED BY <2>4, <2>5, <2>6, <3>1
  <2>8. inOrigin' \subseteq Id \X OriginId
    <3>1. inOrigin' = inOrigin \union {<<id, row(id).origin>> : id \in BatchIds}
      BY <1>15 DEF BulkCopyNodes
    <3>2. \A id \in BatchIds : <<id, row(id).origin>> \in Id \X OriginId
      BY <2>4
    <3> HIDE DEF row
    <3> QED BY <3>1, <3>2
  <2>9. batch' \in Batch
    BY <1>15 DEF BulkCopyNodes, Batch
  <2> QED BY <1>15, <2>7, <2>8, <2>9 DEF BulkCopyNodes, env
<1>16. ASSUME NEW t \in EdgeType, BulkCopyRels(t)
      PROVE  TypeOK'
  <2>1. batch.edges \subseteq Rel
    BY DEF Batch
  <2>2. batch' \in Batch
    BY <1>16 DEF BulkCopyRels, Batch
  <2> QED BY <1>16, <2>1, <2>2 DEF BulkCopyRels, env
<1>17. ASSUME WriteDone
      PROVE  TypeOK'
  <2>1. EmptyBatch \in Batch
    BY DEF EmptyBatch, Batch
  <2> QED BY <1>17, <2>1 DEF WriteDone, env, store
<1>18. ASSUME NEW o \in OriginId, CollectOrphan(o)
      PROVE  TypeOK'
  BY <1>18 DEF CollectOrphan, Orphans, env, job
<1>19. ASSUME GcDone
      PROVE  TypeOK'
  BY <1>19 DEF GcDone, env, store
<1>20. ASSUME Crash
      PROVE  TypeOK'
  <2>1. EmptyBatch \in Batch
    BY DEF EmptyBatch, Batch
  <2> QED BY <1>20, <2>1 DEF Crash, store
<1>21. ASSUME NEW paths \in Paths, NEW mode \in {"keep", "prune", "gc"}, Start(paths, mode)
      PROVE  TypeOK'
  <2>1. EmptyMap \in [DOMAIN EmptyMap -> OriginId] /\ DOMAIN EmptyMap = {}
    BY DEF EmptyMap
  <2>2. pending = {}
    BY <1>21 DEF Start, Control
  <2> QED BY <1>21, <2>1, <2>2 DEF Start, store
<1>22. ASSUME NEW u \in Uri, NEW c \in Content, Edit(u, c)
      PROVE  TypeOK'
  BY <1>22 DEF Edit, store, job
<1>23. ASSUME UNCHANGED vars
      PROVE  TypeOK'
  BY <1>23 DEF vars, store, job, env
<1> QED BY <1>1, <1>2, <1>3, <1>4, <1>5, <1>6, <1>7, <1>8, <1>9, <1>10, <1>11, <1>12, <1>13, <1>14, <1>15, <1>16, <1>17, <1>18, <1>19, <1>20, <1>21, <1>22, <1>23 DEF Next, JobStep

(* What each place of the extract has at hand.                             *)
LEMMA ControlStep ==
  ASSUME LabelsAssumption, BoundsAssumption, SoundInv, [Next]_vars
  PROVE  Control'
<1> USE DEF SoundInv, TypeOK, Control, Writing
<1>1. ASSUME NEW o \in OriginId, ScanUnchanged(o)
      PROVE  Control'
  BY <1>1 DEF ScanUnchanged, Current, env, store, Put
<1>2. ASSUME ScanFresh
      PROVE  Control'
  BY <1>2 DEF ScanFresh, env, store
<1>3. ASSUME NEW o \in OriginId, ScanChanged(o)
      PROVE  Control'
  BY <1>3 DEF ScanChanged, env, store
<1>4. ASSUME ReplaceDone
      PROVE  Control'
  BY <1>4 DEF ReplaceDone, env, store
<1>5. ASSUME NEW o \in OriginId, DeleteNodes(o)
      PROVE  Control'
  BY <1>5 DEF DeleteNodes, DetachDelete, Restrict, Without, env
<1>6. ASSUME DeleteRow
      PROVE  Control'
  BY <1>6 DEF DeleteRow, env
<1>7. ASSUME ScanDone
      PROVE  Control'
  BY <1>7 DEF ScanDone, AfterSweep, OutsideCall, env, store
<1>8. ASSUME PruneDone
      PROVE  Control'
  BY <1>8 DEF PruneDone, AfterSweep, env, store
<1>9. ASSUME NEW i \in pending, Snapshot(i)
      PROVE  Control'
  BY <1>9 DEF Snapshot, Put, env
<1>10. ASSUME Build
      PROVE  Control'
  <2>1. Kept = {} => PlaceholderRows(KeptGraph, Kept) = {}
    BY <1>10, PlaceholderRowsOf DEF Build
  <2>2. batch'.nodes = Kept /\ batch'.placeholders = PlaceholderRows(KeptGraph, Kept)
    BY <1>10, BuildMakes
  <2> QED BY <1>10, <2>1, <2>2 DEF Build, env, store
<1>11. ASSUME NEW r \in batch.nodes, WriteNode(r)
      PROVE  Control'
  BY <1>11 DEF WriteNode, Put, env
<1>12. ASSUME NEW p \in batch.placeholders, WritePlaceholder(p)
      PROVE  Control'
  BY <1>12 DEF WritePlaceholder, Put, env
<1>13. ASSUME NEW e \in batch.edges, WriteEdge(e)
      PROVE  Control'
  BY <1>13 DEF WriteEdge, env
<1>14. ASSUME BulkClear
      PROVE  Control'
  BY <1>14 DEF BulkClear, DetachDelete, Restrict, Without, env
<1>15. ASSUME BulkCopyNodes
      PROVE  Control'
  BY <1>15 DEF BulkCopyNodes, env
<1>16. ASSUME NEW t \in EdgeType, BulkCopyRels(t)
      PROVE  Control'
  BY <1>16 DEF BulkCopyRels, env
<1>17. ASSUME WriteDone
      PROVE  Control'
  BY <1>17 DEF WriteDone, EmptyBatch, env, store
<1>18. ASSUME NEW o \in OriginId, CollectOrphan(o)
      PROVE  Control'
  BY <1>18 DEF CollectOrphan, Orphans, env, job
<1>19. ASSUME GcDone
      PROVE  Control'
  BY <1>19 DEF GcDone, env, store
<1>20. ASSUME Crash
      PROVE  Control'
  BY <1>20 DEF Crash, EmptyBatch, store
<1>21. ASSUME NEW paths \in Paths, NEW mode \in {"keep", "prune", "gc"}, Start(paths, mode)
      PROVE  Control'
  BY <1>21 DEF Start, EmptyMap, store
<1>22. ASSUME NEW u \in Uri, NEW c \in Content, Edit(u, c)
      PROVE  Control'
  BY <1>22 DEF Edit, store, job
<1>23. ASSUME UNCHANGED vars
      PROVE  Control'
  BY <1>23 DEF vars, store, job, env
<1> QED BY [Next]_vars, <1>1, <1>2, <1>3, <1>4, <1>5, <1>6, <1>7, <1>8, <1>9, <1>10, <1>11, <1>12, <1>13, <1>14, <1>15, <1>16, <1>17, <1>18, <1>19, <1>20, <1>21, <1>22, <1>23 DEF Next, JobStep

(* Snapshots stay until the batch is written.                              *)
LEMMA SnapshotsStep ==
  ASSUME LabelsAssumption, BoundsAssumption, SoundInv, [Next]_vars
  PROVE  SnapshotsThere'
<1> USE DEF SoundInv, TypeOK, Control, Writing
<1>1. ASSUME NEW o \in OriginId, ScanUnchanged(o)
      PROVE  SnapshotsThere'
  BY <1>1 DEF SnapshotsThere, ScanUnchanged, Current, env, store, Put
<1>2. ASSUME ScanFresh
      PROVE  SnapshotsThere'
  BY <1>2 DEF SnapshotsThere, ScanFresh, env, store
<1>3. ASSUME NEW o \in OriginId, ScanChanged(o)
      PROVE  SnapshotsThere'
  BY <1>3 DEF SnapshotsThere, ScanChanged, env, store
<1>4. ASSUME ReplaceDone
      PROVE  SnapshotsThere'
  BY <1>4 DEF SnapshotsThere, ReplaceDone, env, store
<1>5. ASSUME NEW o \in OriginId, DeleteNodes(o)
      PROVE  SnapshotsThere'
  BY <1>5 DEF SnapshotsThere, DeleteNodes, DetachDelete, Restrict, Without, env
<1>6. ASSUME DeleteRow
      PROVE  SnapshotsThere'
  BY <1>6 DEF SnapshotsThere, DeleteRow, env
<1>7. ASSUME ScanDone
      PROVE  SnapshotsThere'
  BY <1>7 DEF ScanDone, AfterSweep, SnapshotsThere
<1>8. ASSUME PruneDone
      PROVE  SnapshotsThere'
  BY <1>8 DEF PruneDone, AfterSweep, SnapshotsThere
<1>9. ASSUME NEW i \in pending, Snapshot(i)
      PROVE  SnapshotsThere'
  <2> DEFINE o == [uri |-> call.paths[i], sha |-> file[call.paths[i]]]
  <2>1. \A j \in DOMAIN call.paths : PrefixOfPath(j)' = PrefixOfPath(j)
    BY <1>9, PrefixStays DEF Snapshot, env
  <2>2. \A j \in touched : j \in DOMAIN call.paths
    OBVIOUS
  <2>3. o \in origins' /\ owner' = Put(owner, PrefixOfPath(i), o) /\ origins \subseteq origins'
    BY <1>9 DEF Snapshot
  <2>4. ASSUME NEW j \in touched' \ pending'
        PROVE  PrefixOfPath(j) \in DOMAIN owner' /\ owner'[PrefixOfPath(j)] \in origins'
    <3>1. j = i \/ j \in touched \ pending
      BY <1>9 DEF Snapshot
    <3>2. j = i \/ (PrefixOfPath(j) \in DOMAIN owner /\ owner[PrefixOfPath(j)] \in origins)
      BY <1>9, <3>1 DEF SnapshotsThere, Owned, Extracted, Snapshot
    <3> QED BY <2>3, <3>2 DEF Put
  <2> QED BY <1>9, <2>1, <2>2, <2>4 DEF SnapshotsThere, Owned, Extracted, Snapshot
<1>10. ASSUME Build
      PROVE  SnapshotsThere'
  <2>1. \A j \in DOMAIN call.paths : PrefixOfPath(j)' = PrefixOfPath(j)
    BY <1>10, PrefixStays DEF Build, env
  <2> QED BY <1>10, <2>1 DEF SnapshotsThere, Owned, Extracted, Build, env, store
<1>11. ASSUME NEW r \in batch.nodes, WriteNode(r)
      PROVE  SnapshotsThere'
  <2>1. \A j \in DOMAIN call.paths : PrefixOfPath(j)' = PrefixOfPath(j)
    BY <1>11, PrefixStays DEF WriteNode, env
  <2> QED BY <1>11, <2>1 DEF SnapshotsThere, Owned, Extracted, WriteNode, env, store
<1>12. ASSUME NEW p \in batch.placeholders, WritePlaceholder(p)
      PROVE  SnapshotsThere'
  <2>1. \A j \in DOMAIN call.paths : PrefixOfPath(j)' = PrefixOfPath(j)
    BY <1>12, PrefixStays DEF WritePlaceholder, env
  <2> QED BY <1>12, <2>1 DEF SnapshotsThere, Owned, Extracted, WritePlaceholder, env, store
<1>13. ASSUME NEW e \in batch.edges, WriteEdge(e)
      PROVE  SnapshotsThere'
  <2>1. \A j \in DOMAIN call.paths : PrefixOfPath(j)' = PrefixOfPath(j)
    BY <1>13, PrefixStays DEF WriteEdge, env
  <2> QED BY <1>13, <2>1 DEF SnapshotsThere, Owned, Extracted, WriteEdge, env, store
<1>14. ASSUME BulkClear
      PROVE  SnapshotsThere'
  <2>1. \A j \in DOMAIN call.paths : PrefixOfPath(j)' = PrefixOfPath(j)
    BY <1>14, PrefixStays DEF BulkClear, env
  <2> QED BY <1>14, <2>1 DEF SnapshotsThere, Owned, Extracted, BulkClear, env, store
<1>15. ASSUME BulkCopyNodes
      PROVE  SnapshotsThere'
  <2>1. \A j \in DOMAIN call.paths : PrefixOfPath(j)' = PrefixOfPath(j)
    BY <1>15, PrefixStays DEF BulkCopyNodes, env
  <2> QED BY <1>15, <2>1 DEF SnapshotsThere, Owned, Extracted, BulkCopyNodes, env, store
<1>16. ASSUME NEW t \in EdgeType, BulkCopyRels(t)
      PROVE  SnapshotsThere'
  <2>1. \A j \in DOMAIN call.paths : PrefixOfPath(j)' = PrefixOfPath(j)
    BY <1>16, PrefixStays DEF BulkCopyRels, env
  <2> QED BY <1>16, <2>1 DEF SnapshotsThere, Owned, Extracted, BulkCopyRels, env, store
<1>17. ASSUME WriteDone
      PROVE  SnapshotsThere'
  BY <1>17 DEF SnapshotsThere, WriteDone, EmptyBatch, env, store
<1>18. ASSUME NEW o \in OriginId, CollectOrphan(o)
      PROVE  SnapshotsThere'
  BY <1>18 DEF SnapshotsThere, CollectOrphan, Orphans, env, job
<1>19. ASSUME GcDone
      PROVE  SnapshotsThere'
  BY <1>19 DEF SnapshotsThere, GcDone, env, store
<1>20. ASSUME Crash
      PROVE  SnapshotsThere'
  BY <1>20 DEF SnapshotsThere, Crash, EmptyBatch, store
<1>21. ASSUME NEW paths \in Paths, NEW mode \in {"keep", "prune", "gc"}, Start(paths, mode)
      PROVE  SnapshotsThere'
  BY <1>21 DEF SnapshotsThere, Start, EmptyMap, store
<1>22. ASSUME NEW u \in Uri, NEW c \in Content, Edit(u, c)
      PROVE  SnapshotsThere'
  BY <1>22 DEF SnapshotsThere, Edit, store, job
<1>23. ASSUME UNCHANGED vars
      PROVE  SnapshotsThere'
  <2>1. \A j \in DOMAIN call.paths : PrefixOfPath(j)' = PrefixOfPath(j)
    BY <1>23, PrefixStays DEF vars, env, job
  <2> QED BY <1>23, <2>1 DEF SnapshotsThere, Owned, Extracted, vars, env, job, store
<1> QED BY [Next]_vars, <1>1, <1>2, <1>3, <1>4, <1>5, <1>6, <1>7, <1>8, <1>9, <1>10, <1>11, <1>12, <1>13, <1>14, <1>15, <1>16, <1>17, <1>18, <1>19, <1>20, <1>21, <1>22, <1>23 DEF Next, JobStep

(* No row is left dangling, and none will be by what the batch still has.  *)
LEMMA SoundStep ==
  ASSUME LabelsAssumption, BoundsAssumption, SoundInv, [Next]_vars
  PROVE  (BatchSound /\ NoDangling)'
<1> USE DEF SoundInv, TypeOK, Control, Writing, BatchSound, NoDangling, NodesOf, BatchIds, EmptyBatch
<1>1. ASSUME NEW o \in OriginId, ScanUnchanged(o)
      PROVE  (BatchSound /\ NoDangling)'
  BY <1>1 DEF ScanUnchanged, Current, env, store, Put
<1>2. ASSUME ScanFresh
      PROVE  (BatchSound /\ NoDangling)'
  BY <1>2 DEF ScanFresh, env, store
<1>3. ASSUME NEW o \in OriginId, ScanChanged(o)
      PROVE  (BatchSound /\ NoDangling)'
  BY <1>3 DEF ScanChanged, env, store
<1>4. ASSUME ReplaceDone
      PROVE  (BatchSound /\ NoDangling)'
  BY <1>4 DEF ReplaceDone, env, store
<1>5. ASSUME NEW o \in OriginId, DeleteNodes(o)
      PROVE  (BatchSound /\ NoDangling)'
  BY <1>5 DEF DeleteNodes, DetachDelete, Restrict, Without, env
<1>6. ASSUME DeleteRow
      PROVE  (BatchSound /\ NoDangling)'
  BY <1>6 DEF DeleteRow, env
<1>7. ASSUME ScanDone
      PROVE  (BatchSound /\ NoDangling)'
  BY <1>7 DEF ScanDone, AfterSweep, OutsideCall, env, store
<1>8. ASSUME PruneDone
      PROVE  (BatchSound /\ NoDangling)'
  BY <1>8 DEF PruneDone, AfterSweep, env, store
<1>9. ASSUME NEW i \in pending, Snapshot(i)
      PROVE  (BatchSound /\ NoDangling)'
  BY <1>9 DEF Snapshot, Put, env
<1>10. ASSUME Build
      PROVE  (BatchSound /\ NoDangling)'
  <2>1. pc = "snapshot" /\ pending = {}
    BY <1>10 DEF Build
  <2>2. /\ batch'.nodes = Kept /\ batch'.edges = KeptGraph
        /\ batch'.placeholders = PlaceholderRows(KeptGraph, Kept)
    BY <1>10, BuildMakes
  <2>3. \A r \in Kept : r.origin \in origins
    BY <2>1, KeptRows
  <2>4. \A r \in PlaceholderRows(KeptGraph, Kept) : r.origin \in origins
    BY <2>1, <2>3, PlaceholderRowsOf
  <2>5. ASSUME NEW e \in KeptGraph
        PROVE  e.src \in BatchIds' /\ e.dst \in BatchIds'
    <3>1. e.src \in {r.id : r \in Kept} /\ (e.dst \in {r.id : r \in Kept} \/ e.dst \in Placeholder)
      BY <2>1, KeptGraphEdges
    <3>2. e.dst \in Placeholder => \E x \in PlaceholderRows(KeptGraph, Kept) : x.id = e.dst
      BY <2>1, PlaceholderRowsOf
    <3> QED BY <2>2, <3>1, <3>2 DEF BatchIds
  <2>6. \A r \in batch'.nodes \union batch'.placeholders : r.origin \in origins
    BY <2>2, <2>3, <2>4
  <2>7. \A e \in batch'.edges : {e.src, e.dst} \subseteq BatchIds'
    <3> HIDE DEF BatchIds
    <3> QED BY <2>2, <2>5
  <2>8. UNCHANGED <<origins, nodes, inOrigin, rels, victim>> /\ victim = None
    BY <1>10 DEF Build, store
  <2>9. NoDangling'
    BY <2>8
  <2> HIDE DEF BatchIds, NoDangling
  <2> QED BY <2>6, <2>7, <2>8, <2>9
<1>11. ASSUME NEW r \in batch.nodes, WriteNode(r)
      PROVE  (BatchSound /\ NoDangling)'
  BY <1>11 DEF WriteNode, Put, env
<1>12. ASSUME NEW p \in batch.placeholders, WritePlaceholder(p)
      PROVE  (BatchSound /\ NoDangling)'
  BY <1>12 DEF WritePlaceholder, Put, env
<1>13. ASSUME NEW e \in batch.edges, WriteEdge(e)
      PROVE  (BatchSound /\ NoDangling)'
  BY <1>13 DEF WriteEdge, env
<1>14. ASSUME BulkClear
      PROVE  (BatchSound /\ NoDangling)'
  BY <1>14 DEF BulkClear, DetachDelete, Restrict, Without, env
<1>15. ASSUME BulkCopyNodes
      PROVE  (BatchSound /\ NoDangling)'
  BY <1>15 DEF BulkCopyNodes, env
<1>16. ASSUME NEW t \in EdgeType, BulkCopyRels(t)
      PROVE  (BatchSound /\ NoDangling)'
  BY <1>16 DEF BulkCopyRels, env
<1>17. ASSUME WriteDone
      PROVE  (BatchSound /\ NoDangling)'
  BY <1>17 DEF WriteDone, EmptyBatch, env, store
<1>18. ASSUME NEW o \in OriginId, CollectOrphan(o)
      PROVE  (BatchSound /\ NoDangling)'
  BY <1>18 DEF CollectOrphan, Orphans, env, job
<1>19. ASSUME GcDone
      PROVE  (BatchSound /\ NoDangling)'
  BY <1>19 DEF GcDone, env, store
<1>20. ASSUME Crash
      PROVE  (BatchSound /\ NoDangling)'
  BY <1>20 DEF Crash, EmptyBatch, store
<1>21. ASSUME NEW paths \in Paths, NEW mode \in {"keep", "prune", "gc"}, Start(paths, mode)
      PROVE  (BatchSound /\ NoDangling)'
  BY <1>21 DEF Start, EmptyMap, store
<1>22. ASSUME NEW u \in Uri, NEW c \in Content, Edit(u, c)
      PROVE  (BatchSound /\ NoDangling)'
  BY <1>22 DEF Edit, store, job
<1>23. ASSUME UNCHANGED vars
      PROVE  (BatchSound /\ NoDangling)'
  BY <1>23 DEF vars, store, job, env
<1> QED BY [Next]_vars, <1>1, <1>2, <1>3, <1>4, <1>5, <1>6, <1>7, <1>8, <1>9, <1>10, <1>11, <1>12, <1>13, <1>14, <1>15, <1>16, <1>17, <1>18, <1>19, <1>20, <1>21, <1>22, <1>23 DEF Next, JobStep

LEMMA SoundInit ==
  ASSUME Init
  PROVE  SoundInv
<1>1. EmptyMap = [x \in {} |-> x] /\ DOMAIN EmptyMap = {}
  BY DEF EmptyMap
<1>2. EmptyBatch \in Batch
  BY DEF EmptyBatch, Batch
<1>3. TypeOK
  BY <1>1, <1>2 DEF Init, TypeOK
<1>4. Control
  BY DEF Init, Control, Writing, EmptyBatch
<1> QED BY <1>1, <1>3, <1>4 DEF Init, SoundInv, SnapshotsThere, BatchSound, NoDangling, EmptyBatch

LEMMA Soundness ==
  ASSUME LabelsAssumption, BoundsAssumption
  PROVE  Spec => []SoundInv
<1>1. SoundInv /\ [Next]_vars => SoundInv'
  BY TypeStep, ControlStep, SnapshotsStep, SoundStep DEF SoundInv
<1> QED BY <1>1, SoundInit, PTL DEF Spec

(* Whatever the files are called and whatever they contain, and wherever an*)
(* extract is cut short, every row's origin is there and every rel has its *)
(* two ends: each statement of the sweep, of the row by row write and of   *)
(* the bulk write finds what it points at.                                 *)
THEOREM NothingDangles ==
  ASSUME LabelsAssumption, BoundsAssumption
  PROVE  Spec => []NoDangling
<1>1. SoundInv => NoDangling
  BY DEF SoundInv
<1> QED BY <1>1, Soundness, PTL

-----------------------------------------------------------------------------
(* The promote cache.                                                      *)

(* The one definer of a name.                                              *)
LEMMA TheDefiner ==
  ASSUME NEW cs \in Seq(File), OneDefiner(cs), NEW s \in Sym,
         NEW j \in DOMAIN cs, DefsIn(cs, j, s) # {}
  PROVE  Definers(cs, Len(cs), s) = {j}
<1> DEFINE D == Definers(cs, Len(cs), s)
<1>1. D \subseteq 1..Len(cs) /\ j \in D /\ Len(cs) \in Nat
  BY DEF Definers
<1>2. IsFiniteSet(D) /\ Cardinality(D) <= 1
  <2>1. IsFiniteSet(1..Len(cs))
    BY <1>1, FS_Interval
  <2>2. IsFiniteSet(D)
    BY <1>1, <2>1, FS_Subset
  <2> QED BY <2>2 DEF OneDefiner
<1>3. Cardinality(D) \in Nat /\ Cardinality(D) # 0
  BY <1>1, <1>2, FS_CardinalityType, FS_EmptySet
<1>4. Cardinality(D) = 1
  BY <1>2, <1>3
<1>5. \E x : D = {x}
  BY <1>2, <1>4, FS_Singleton
<1> QED BY <1>1, <1>5

LEMMA ReplayedIndexSame ==
  ASSUME NEW cs \in Seq(File), OneDefiner(cs)
  PROVE  ReplayedIndex(cs) = IndexAfter(cs, Len(cs))
<1> DEFINE Full == IndexAfter(cs, Len(cs))
           Names == UNION {DOMAIN Captured(cs, i) : i \in DOMAIN cs}
<1>0. DOMAIN cs = 1..Len(cs) /\ Len(cs) \in Nat
  OBVIOUS
(* A name is captured at its definer and nowhere else.                     *)
<1>1. ASSUME NEW s \in Sym, NEW j \in DOMAIN cs, DefsIn(cs, j, s) # {}
      PROVE  {i \in DOMAIN cs : s \in DOMAIN Captured(cs, i)} = {j}
  <2>1. Definers(cs, Len(cs), s) = {j}
    BY <1>1, TheDefiner
  <2>2. \A i \in DOMAIN cs : DefsIn(cs, i, s) # {} <=> i = j
    BY <1>0, <2>1 DEF Definers
  <2>3. Definers(cs, j - 1, s) = {}
    <3>1. \A i \in 1..(j - 1) : i \in DOMAIN cs /\ i # j
      BY <1>0
    <3> QED BY <2>2, <3>1 DEF Definers
  <2>4. s \notin DOMAIN IndexAfter(cs, j - 1)
    BY <2>3 DEF IndexAfter
  <2>5. \A i \in DOMAIN cs :
          s \in DOMAIN Captured(cs, i) <=> DefsIn(cs, i, s) # {} /\ s \notin DOMAIN IndexAfter(cs, i - 1)
    BY DEF Captured
  <2> QED BY <2>2, <2>4, <2>5
<1>2. ASSUME NEW s
      PROVE  s \in Names <=> s \in DOMAIN Full
  <2>1. s \in DOMAIN Full <=> s \in Sym /\ \E j \in DOMAIN cs : DefsIn(cs, j, s) # {}
    BY <1>0 DEF IndexAfter, Definers
  <2>2. s \in Names => s \in Sym /\ \E j \in DOMAIN cs : DefsIn(cs, j, s) # {}
    BY DEF Captured
  <2>3. (s \in Sym /\ \E j \in DOMAIN cs : DefsIn(cs, j, s) # {}) => s \in Names
    BY <1>1
  <2> QED BY <2>1, <2>2, <2>3
<1>3. ASSUME NEW s \in DOMAIN Full
      PROVE  ReplayedIndex(cs)[s] = Full[s]
  <2>1. PICK j \in DOMAIN cs : s \in Sym /\ DefsIn(cs, j, s) # {}
    BY <1>0 DEF IndexAfter, Definers
  <2>2. Least({j}) = j /\ Greatest({j}) = j
    BY <1>0 DEF Least, Greatest
  <2>3. {i \in DOMAIN cs : s \in DOMAIN Captured(cs, i)} = {j}
    BY <1>1, <2>1
  <2>4. ReplayedIndex(cs)[s] = Captured(cs, j)[s]
    BY <1>2, <2>2, <2>3 DEF ReplayedIndex
  <2>5. Captured(cs, j)[s] = NodeId(cs, j, Greatest(DefsIn(cs, j, s)))
    BY <2>3 DEF Captured
  <2>6. Full[s] = NodeId(cs, j, Greatest(DefsIn(cs, j, s)))
    BY <2>1, <2>2, TheDefiner DEF IndexAfter
  <2> QED BY <2>4, <2>5, <2>6
<1>4. ReplayedIndex(cs) = [s \in Names |-> ReplayedIndex(cs)[s]]
  BY DEF ReplayedIndex
<1>5. Full = [s \in DOMAIN Full |-> Full[s]]
  BY DEF IndexAfter
<1>6. Names = DOMAIN Full
  <2> HIDE DEF Names, Full
  <2> QED BY <1>2
<1> HIDE DEF Names, Full
<1>7. [s \in Names |-> ReplayedIndex(cs)[s]] = [s \in DOMAIN Full |-> Full[s]]
  BY <1>3, <1>6
<1>8. ReplayedIndex(cs) = Full
  BY <1>4, <1>5, <1>7
<1> QED BY <1>8 DEF Full

(* For every corpus the cache can hold: where no symbol has two definers,  *)
(* the replay of the captured deltas gives the index, and so the graph,    *)
(* that the two passes gave.                                               *)
THEOREM CacheReplays ==
  ASSUME LabelsAssumption, BoundsAssumption
  PROVE  Spec => []ReplayLossless
<1>1. SoundInv => ReplayLossless
  <2> SUFFICES ASSUME SoundInv, NEW cs \in built, OneDefiner(cs)
               PROVE  GraphEdges(cs, TRUE) = GraphEdges(cs, FALSE)
    BY DEF ReplayLossless
  <2>1. cs \in Seq(File)
    BY DEF SoundInv, TypeOK
  <2> QED BY <2>1, ReplayedIndexSame DEF GraphEdges
<1> QED BY <1>1, Soundness, PTL

-----------------------------------------------------------------------------
(* A file has one origin row.                                              *)

LEMMA OriginStep ==
  ASSUME BoundsAssumption, SoundInv, OneOrigin, [Next]_vars
  PROVE  OneOrigin'
<1> USE DEF SoundInv, TypeOK, Control, Writing, OneOrigin, Current
<1>1. ASSUME NEW o \in OriginId, ScanUnchanged(o)
      PROVE  OneOrigin'
  BY <1>1 DEF ScanUnchanged, Current, env, store, Put
<1>2. ASSUME ScanFresh
      PROVE  OneOrigin'
  BY <1>2 DEF ScanFresh, env, store
<1>3. ASSUME NEW o \in OriginId, ScanChanged(o)
      PROVE  OneOrigin'
  BY <1>3 DEF ScanChanged, env, store
<1>4. ASSUME ReplaceDone
      PROVE  OneOrigin'
  BY <1>4 DEF ReplaceDone, env, store
<1>5. ASSUME NEW o \in OriginId, DeleteNodes(o)
      PROVE  OneOrigin'
  BY <1>5 DEF DeleteNodes, DetachDelete, Restrict, Without, env
<1>6. ASSUME DeleteRow
      PROVE  OneOrigin'
  BY <1>6 DEF DeleteRow, env
<1>7. ASSUME ScanDone
      PROVE  OneOrigin'
  BY <1>7 DEF ScanDone, AfterSweep, OutsideCall, env, store
<1>8. ASSUME PruneDone
      PROVE  OneOrigin'
  BY <1>8 DEF PruneDone, AfterSweep, env, store
<1>9. ASSUME NEW i \in pending, Snapshot(i)
      PROVE  OneOrigin'
  <2> DEFINE o == [uri |-> call.paths[i], sha |-> file[call.paths[i]]]
  <2>1. Current(call.paths[i]) = {} /\ i \in touched
    BY <1>9 DEF Snapshot
  <2>2. \A x \in origins : x.uri # o.uri
    BY <2>1
  <2>3. \A j \in touched : j # i => call.paths[j] # o.uri
    BY <2>1, PathsTyped
  <2>4. origins' = origins \union {o} /\ pending' = pending \ {i}
    BY <1>9 DEF Snapshot
  <2>5. \A o1, o2 \in origins' : o1.uri = o2.uri => o1 = o2
    BY <2>2, <2>4
  <2>6. \A j \in pending' : Current(call.paths[j])' = {}
    BY <1>9, <2>3, <2>4 DEF Snapshot
  <2> QED BY <1>9, <2>5, <2>6 DEF Snapshot
<1>10. ASSUME Build
      PROVE  OneOrigin'
  BY <1>10 DEF Build, env, store
<1>11. ASSUME NEW r \in batch.nodes, WriteNode(r)
      PROVE  OneOrigin'
  BY <1>11 DEF WriteNode, Put, env
<1>12. ASSUME NEW p \in batch.placeholders, WritePlaceholder(p)
      PROVE  OneOrigin'
  BY <1>12 DEF WritePlaceholder, Put, env
<1>13. ASSUME NEW e \in batch.edges, WriteEdge(e)
      PROVE  OneOrigin'
  BY <1>13 DEF WriteEdge, env
<1>14. ASSUME BulkClear
      PROVE  OneOrigin'
  BY <1>14 DEF BulkClear, DetachDelete, Restrict, Without, env
<1>15. ASSUME BulkCopyNodes
      PROVE  OneOrigin'
  BY <1>15 DEF BulkCopyNodes, env
<1>16. ASSUME NEW t \in EdgeType, BulkCopyRels(t)
      PROVE  OneOrigin'
  BY <1>16 DEF BulkCopyRels, env
<1>17. ASSUME WriteDone
      PROVE  OneOrigin'
  BY <1>17 DEF WriteDone, EmptyBatch, env, store
<1>18. ASSUME NEW o \in OriginId, CollectOrphan(o)
      PROVE  OneOrigin'
  BY <1>18 DEF CollectOrphan, Orphans, env, job
<1>19. ASSUME GcDone
      PROVE  OneOrigin'
  BY <1>19 DEF GcDone, env, store
<1>20. ASSUME Crash
      PROVE  OneOrigin'
  BY <1>20 DEF Crash, EmptyBatch, store
<1>21. ASSUME NEW paths \in Paths, NEW mode \in {"keep", "prune", "gc"}, Start(paths, mode)
      PROVE  OneOrigin'
  BY <1>21 DEF Start, EmptyMap, store
<1>22. ASSUME NEW u \in Uri, NEW c \in Content, Edit(u, c)
      PROVE  OneOrigin'
  BY <1>22 DEF Edit, store, job
<1>23. ASSUME UNCHANGED vars
      PROVE  OneOrigin'
  BY <1>23 DEF vars, store, job, env
<1> QED BY [Next]_vars, <1>1, <1>2, <1>3, <1>4, <1>5, <1>6, <1>7, <1>8, <1>9, <1>10, <1>11, <1>12, <1>13, <1>14, <1>15, <1>16, <1>17, <1>18, <1>19, <1>20, <1>21, <1>22, <1>23 DEF Next, JobStep

-----------------------------------------------------------------------------
(* Distinct stems.                                                         *)

LEMMA StemStays ==
  ASSUME [Next]_vars
  PROVE  stem' = stem
BY DEF Next, JobStep, vars, env, Start, ScanUnchanged, ScanFresh, ScanChanged, ReplaceDone,
       DeleteNodes, DeleteRow, ScanDone, PruneDone, Snapshot, Build, WriteNode,
       WritePlaceholder, WriteEdge, BulkClear, BulkCopyNodes, BulkCopyRels, WriteDone,
       CollectOrphan, GcDone, Crash, Edit

(* A path's prefix is its stem, and no other path has it.                  *)
LEMMA DistinctPrefix ==
  ASSUME BoundsAssumption, TypeOK, DistinctStems
  PROVE  /\ \A i \in DOMAIN call.paths : PrefixOfPath(i) = <<stem[call.paths[i]], 0>>
         /\ \A i, j \in DOMAIN call.paths : PrefixOfPath(i) = PrefixOfPath(j) => i = j
<1>1. ASSUME NEW i \in DOMAIN call.paths
      PROVE  PrefixOfPath(i) = <<stem[call.paths[i]], 0>>
  <2> DEFINE E == {j \in DOMAIN Corpus : j < i /\ Corpus[j].stem = Corpus[i].stem}
  <2>1. E = {}
    <3> SUFFICES ASSUME NEW j \in DOMAIN call.paths, j < i,
                        stem[call.paths[j]] = stem[call.paths[i]]
                 PROVE  FALSE
      BY CorpusTyped
    <3>1. call.paths[j] = call.paths[i]
      BY PathsTyped DEF DistinctStems
    <3> QED BY <3>1, PathsTyped
  <2>2. Cardinality(E) = 0
    BY <2>1, FS_EmptySet
  <2> QED BY <2>2, CorpusTyped DEF PrefixOfPath, Prefix
<1>2. \A i, j \in DOMAIN call.paths : PrefixOfPath(i) = PrefixOfPath(j) => i = j
  BY <1>1, PathsTyped DEF DistinctStems
<1> QED BY <1>1, <1>2

(* An id of a stored row belongs to one origin.                            *)
LEMMA OriginOfId ==
  ASSUME SoundInv, OneOrigin, DistinctStems, RowsTrue,
         NEW n \in DOMAIN nodes \ Placeholder, NEW o \in origins, UriOf(o, n)
  PROVE  nodes[n] = [origin |-> o, sha |-> o.sha]
<1>1. nodes[n] \in Row /\ nodes[n].origin \in origins
  BY DEF SoundInv, TypeOK, NoDangling
<1>2. stem[nodes[n].origin.uri] = stem[o.uri]
  BY DEF RowsTrue, UriOf
<1>3. nodes[n].origin.uri \in Uri /\ o.uri \in Uri
  BY <1>1 DEF SoundInv, TypeOK, OriginId
<1>4. nodes[n].origin = o
  BY <1>1, <1>2, <1>3 DEF DistinctStems, OneOrigin
<1> QED BY <1>1, <1>4 DEF RowsTrue, Row

(* The owners of the call's paths are the origins read for them.           *)
LEMMA OwnersStep ==
  ASSUME LabelsAssumption, BoundsAssumption, SoundInv, OneOrigin, DistinctStems, TruthInv,
         [Next]_vars
  PROVE  OwnersTrue'
<1> USE DEF SoundInv, TypeOK, Control, Writing, TruthInv, OwnersTrue, Owned, Extracted, Scanned
<1>1. ASSUME NEW o \in OriginId, ScanUnchanged(o)
      PROVE  OwnersTrue'
  <2>1. \A j \in DOMAIN call.paths : PrefixOfPath(j)' = PrefixOfPath(j)
    BY <1>1, StemStays, PrefixStays DEF ScanUnchanged, env
  <2>2. \A j \in DOMAIN call.paths : PrefixOfPath(j) = PrefixOfPath(at) => j = at
    BY <1>1, DistinctPrefix DEF ScanUnchanged
  <2> QED BY <1>1, <2>1, <2>2, PathsTyped DEF ScanUnchanged, Current, env, Put
<1>2. ASSUME ScanFresh
      PROVE  OwnersTrue'
  <2>1. \A j \in DOMAIN call.paths : PrefixOfPath(j)' = PrefixOfPath(j)
    BY <1>2, StemStays, PrefixStays DEF ScanFresh, env
  <2> QED BY <1>2, <2>1, PathsTyped DEF ScanFresh, env
<1>3. ASSUME NEW o \in OriginId, ScanChanged(o)
      PROVE  OwnersTrue'
  <2>1. \A j \in DOMAIN call.paths : PrefixOfPath(j)' = PrefixOfPath(j)
    BY <1>3, StemStays, PrefixStays DEF ScanChanged, env, store
  <2> QED BY <1>3, <2>1 DEF ScanChanged, env, store
<1>4. ASSUME ReplaceDone
      PROVE  OwnersTrue'
  <2>1. \A j \in DOMAIN call.paths : PrefixOfPath(j)' = PrefixOfPath(j)
    BY <1>4, StemStays, PrefixStays DEF ReplaceDone, env
  <2> QED BY <1>4, <2>1, PathsTyped DEF ReplaceDone, env
<1>5. ASSUME NEW o \in OriginId, DeleteNodes(o)
      PROVE  OwnersTrue'
  <2>1. \A j \in DOMAIN call.paths : PrefixOfPath(j)' = PrefixOfPath(j)
    BY <1>5, StemStays, PrefixStays DEF DeleteNodes, DetachDelete, Restrict, Without, env
  <2> QED BY <1>5, <2>1 DEF DeleteNodes, DetachDelete, Restrict, Without, env
<1>6. ASSUME DeleteRow
      PROVE  OwnersTrue'
  <2>1. \A j \in DOMAIN call.paths : PrefixOfPath(j)' = PrefixOfPath(j)
    BY <1>6, StemStays, PrefixStays DEF DeleteRow, env
  <2> QED BY <1>6, <2>1 DEF DeleteRow, env
<1>7. ASSUME ScanDone
      PROVE  OwnersTrue'
  <2>1. \A j \in DOMAIN call.paths : PrefixOfPath(j)' = PrefixOfPath(j)
    BY <1>7, StemStays, PrefixStays DEF ScanDone, env
  <2>2. \A j \in DOMAIN call.paths : j < at
    BY <1>7, PathsTyped DEF ScanDone
  <2>3. \A j \in DOMAIN call.paths : j \in touched \/ Owned(j)
    BY <1>7, <2>2 DEF ScanDone
  <2> QED BY <1>7, <2>1, <2>3 DEF ScanDone, AfterSweep, env, store
<1>8. ASSUME PruneDone
      PROVE  OwnersTrue'
  <2>1. \A j \in DOMAIN call.paths : PrefixOfPath(j)' = PrefixOfPath(j)
    BY <1>8, StemStays, PrefixStays DEF PruneDone, AfterSweep, env, store
  <2> QED BY <1>8, <2>1 DEF PruneDone, AfterSweep, env, store
<1>9. ASSUME NEW i \in pending, Snapshot(i)
      PROVE  OwnersTrue'
  <2>1. \A j \in DOMAIN call.paths : PrefixOfPath(j)' = PrefixOfPath(j)
    BY <1>9, StemStays, PrefixStays DEF Snapshot, env
  <2>2. \A j \in DOMAIN call.paths : PrefixOfPath(j) = PrefixOfPath(i) => j = i
    BY <1>9, DistinctPrefix DEF Snapshot
  <2> QED BY <1>9, <2>1, <2>2, PathsTyped DEF Snapshot, env, Put
<1>10. ASSUME Build
      PROVE  OwnersTrue'
  <2>1. \A j \in DOMAIN call.paths : PrefixOfPath(j)' = PrefixOfPath(j)
    BY <1>10, StemStays, PrefixStays DEF Build, env, store
  <2> QED BY <1>10, <2>1 DEF Build, env, store
<1>11. ASSUME NEW r \in batch.nodes, WriteNode(r)
      PROVE  OwnersTrue'
  <2>1. \A j \in DOMAIN call.paths : PrefixOfPath(j)' = PrefixOfPath(j)
    BY <1>11, StemStays, PrefixStays DEF WriteNode, Put, env
  <2> QED BY <1>11, <2>1 DEF WriteNode, Put, env
<1>12. ASSUME NEW p \in batch.placeholders, WritePlaceholder(p)
      PROVE  OwnersTrue'
  <2>1. \A j \in DOMAIN call.paths : PrefixOfPath(j)' = PrefixOfPath(j)
    BY <1>12, StemStays, PrefixStays DEF WritePlaceholder, Put, env
  <2> QED BY <1>12, <2>1 DEF WritePlaceholder, Put, env
<1>13. ASSUME NEW e \in batch.edges, WriteEdge(e)
      PROVE  OwnersTrue'
  <2>1. \A j \in DOMAIN call.paths : PrefixOfPath(j)' = PrefixOfPath(j)
    BY <1>13, StemStays, PrefixStays DEF WriteEdge, env
  <2> QED BY <1>13, <2>1 DEF WriteEdge, env
<1>14. ASSUME BulkClear
      PROVE  OwnersTrue'
  <2>1. \A j \in DOMAIN call.paths : PrefixOfPath(j)' = PrefixOfPath(j)
    BY <1>14, StemStays, PrefixStays DEF BulkClear, DetachDelete, Restrict, Without, env
  <2> QED BY <1>14, <2>1 DEF BulkClear, DetachDelete, Restrict, Without, env
<1>15. ASSUME BulkCopyNodes
      PROVE  OwnersTrue'
  <2>1. \A j \in DOMAIN call.paths : PrefixOfPath(j)' = PrefixOfPath(j)
    BY <1>15, StemStays, PrefixStays DEF BulkCopyNodes, env
  <2> QED BY <1>15, <2>1 DEF BulkCopyNodes, env
<1>16. ASSUME NEW t \in EdgeType, BulkCopyRels(t)
      PROVE  OwnersTrue'
  <2>1. \A j \in DOMAIN call.paths : PrefixOfPath(j)' = PrefixOfPath(j)
    BY <1>16, StemStays, PrefixStays DEF BulkCopyRels, env
  <2> QED BY <1>16, <2>1 DEF BulkCopyRels, env
<1>17. ASSUME WriteDone
      PROVE  OwnersTrue'
  <2>1. \A j \in DOMAIN call.paths : PrefixOfPath(j)' = PrefixOfPath(j)
    BY <1>17, StemStays, PrefixStays DEF WriteDone, EmptyBatch, env, store
  <2> QED BY <1>17, <2>1 DEF WriteDone, EmptyBatch, env, store
<1>18. ASSUME NEW o \in OriginId, CollectOrphan(o)
      PROVE  OwnersTrue'
  <2>1. \A j \in DOMAIN call.paths : PrefixOfPath(j)' = PrefixOfPath(j)
    BY <1>18, StemStays, PrefixStays DEF CollectOrphan, Orphans, env, job
  <2> QED BY <1>18, <2>1 DEF CollectOrphan, Orphans, env, job
<1>19. ASSUME GcDone
      PROVE  OwnersTrue'
  <2>1. \A j \in DOMAIN call.paths : PrefixOfPath(j)' = PrefixOfPath(j)
    BY <1>19, StemStays, PrefixStays DEF GcDone, env, store
  <2> QED BY <1>19, <2>1 DEF GcDone, env, store
<1>20. ASSUME Crash
      PROVE  OwnersTrue'
  <2>1. \A j \in DOMAIN call.paths : PrefixOfPath(j)' = PrefixOfPath(j)
    BY <1>20, StemStays, PrefixStays DEF Crash, EmptyBatch, store
  <2> QED BY <1>20, <2>1 DEF Crash, EmptyBatch, store
<1>21. ASSUME NEW paths \in Paths, NEW mode \in {"keep", "prune", "gc"}, Start(paths, mode)
      PROVE  OwnersTrue'
  <2>1. DOMAIN owner' = {} /\ at' = 1 /\ pc' = "scan"
    BY <1>21 DEF Start, EmptyMap
  <2>2. \A i \in DOMAIN call'.paths : i \in Nat \ {0}
    BY <1>21, PathTyped DEF Start
  <2> QED BY <2>1, <2>2
<1>22. ASSUME NEW u \in Uri, NEW c \in Content, Edit(u, c)
      PROVE  OwnersTrue'
  <2>1. \A j \in DOMAIN call.paths : PrefixOfPath(j)' = PrefixOfPath(j)
    BY <1>22, StemStays, PrefixStays DEF Edit, store, job
  <2> QED BY <1>22, <2>1 DEF Edit, store, job
<1>23. ASSUME UNCHANGED vars
      PROVE  OwnersTrue'
  <2>1. \A j \in DOMAIN call.paths : PrefixOfPath(j)' = PrefixOfPath(j)
    BY <1>23, StemStays, PrefixStays DEF vars, store, job, env
  <2> QED BY <1>23, <2>1 DEF vars, store, job, env
<1> QED BY [Next]_vars, <1>1, <1>2, <1>3, <1>4, <1>5, <1>6, <1>7, <1>8, <1>9, <1>10, <1>11, <1>12, <1>13, <1>14, <1>15, <1>16, <1>17, <1>18, <1>19, <1>20, <1>21, <1>22, <1>23 DEF Next, JobStep

(* Labels name symbols, so a reference that is not to a definition is to a *)
(* placeholder.                                                            *)
LEMMA DefIdsTyped ==
  ASSUME LabelsAssumption, NEW cs \in Seq(File), NEW s, NEW id \in DefIds(cs, s)
  PROVE  /\ id \in SyntaxId /\ id \notin Placeholder
         /\ \E j \in DOMAIN cs : \E q \in PositionsIn(cs, j) :
              id = NodeId(cs, j, q) /\ LabelAt(cs, j, q) = [role |-> "def", sym |-> s]
<1>1. PICK j \in DOMAIN cs : \E q \in DefsIn(cs, j, s) : id = NodeId(cs, j, q)
  BY DEF DefIds
<1>2. \A q \in DefsIn(cs, j, s) :
        q \in PositionsIn(cs, j) /\ LabelAt(cs, j, q) = [role |-> "def", sym |-> s]
  BY DEF DefsIn, DefsBefore, Where
<1>3. id \in SyntaxId
  BY <1>1, <1>2, IdsTyped
<1>4. id \notin Placeholder
  BY <1>3 DEF SyntaxId, Placeholder
<1> QED BY <1>1, <1>2, <1>3, <1>4

(* A row that is kept is of a file to be written, as it was snapshotted.   *)
LEMMA KeptTrue ==
  ASSUME LabelsAssumption, BoundsAssumption, SoundInv, DistinctStems, OwnersTrue,
         pc = "snapshot", pending = {}, NEW r \in Kept
  PROVE  \E i \in touched : \E p \in PositionsIn(Corpus, i) :
           /\ r.id = NodeId(Corpus, i, p) /\ r.id.prefix = <<stem[call.paths[i]], 0>>
           /\ r.sha = file[call.paths[i]]
           /\ r.origin = [uri |-> call.paths[i], sha |-> file[call.paths[i]]]
           /\ r.origin = Extracted(i) /\ r.origin \in origins
<1>1. PICK i \in DOMAIN call.paths : \E p \in PositionsIn(Corpus, i) :
        r = [id |-> NodeId(Corpus, i, p), origin |-> owner[PrefixOfPath(i)],
             sha |-> file[call.paths[i]]]
  BY KeptRows
<1>2. r.origin \in TouchedOrigins /\ r.origin \in origins /\ r.origin \in OriginId
  BY KeptRows DEF OriginId
<1>3. PICK j \in touched : r.origin = Extracted(j)
  BY <1>2 DEF TouchedOrigins, Extracted
<1>4. Owned(i) /\ Owned(j) /\ j \in DOMAIN call.paths
  BY DEF OwnersTrue, Scanned, SoundInv, SnapshotsThere, TypeOK
<1>5. Extracted(i) = r.origin
  BY <1>1 DEF Extracted
<1>6. call.paths[i] = call.paths[j]
  BY <1>3, <1>4, <1>5 DEF OwnersTrue
<1>7. i = j
  BY <1>4, <1>6, PathsTyped DEF SoundInv
<1>8. r.origin.uri = call.paths[i] /\ r.origin.sha = file[call.paths[i]]
  BY <1>4, <1>5 DEF OwnersTrue
<1>9. r.origin = [uri |-> call.paths[i], sha |-> file[call.paths[i]]]
  BY <1>2, <1>8 DEF OriginId
<1>10. PrefixOfPath(i) = <<stem[call.paths[i]], 0>>
  BY DistinctPrefix DEF SoundInv
<1> QED BY <1>1, <1>2, <1>5, <1>7, <1>9, <1>10, <1>3 DEF NodeId, PrefixOfPath

(* An edge of the batch has its source's file to be written too, and what  *)
(* is at its target.                                                       *)
LEMMA KeptEdgeTrue ==
  ASSUME LabelsAssumption, BoundsAssumption, SoundInv, DistinctStems, OwnersTrue,
         pc = "snapshot", pending = {}, NEW e \in KeptGraph, e.type # "child"
  PROVE  \E i \in touched : \E p \in PositionsIn(Corpus, i) :
           /\ e.src = NodeId(Corpus, i, p)
           /\ e.dst \in Placeholder =>
                /\ LabelAt(Corpus, i, p).role \in {"import", "type"}
                /\ e.dst.unresolved = LabelAt(Corpus, i, p).sym
           /\ e.dst \notin Placeholder =>
                \E j \in touched : \E q \in PositionsIn(Corpus, j) :
                  /\ e.dst = NodeId(Corpus, j, q)
                  /\ LabelAt(Corpus, j, q) = [role |-> "def", sym |-> LabelAt(Corpus, i, p).sym]
<1>0. Corpus \in Seq(File) /\ DOMAIN Corpus = DOMAIN call.paths
  BY CorpusTyped DEF SoundInv
<1>1. PICK i \in DOMAIN call.paths : \E p \in PositionsIn(Corpus, i) :
        /\ e.src = NodeId(Corpus, i, p)
        /\ \/ /\ LabelAt(Corpus, i, p).role # "plain"
              /\ e.dst \in DefIds(Corpus, LabelAt(Corpus, i, p).sym)
           \/ /\ LabelAt(Corpus, i, p).role \in {"import", "type"}
              /\ e.dst = [unresolved |-> LabelAt(Corpus, i, p).sym]
  <2>1. EdgeFrom(Corpus, e)
    BY KeptGraphEdges
  <2> QED BY <1>0, <2>1 DEF EdgeFrom
<1>2. PICK p \in PositionsIn(Corpus, i) :
        /\ e.src = NodeId(Corpus, i, p)
        /\ \/ /\ LabelAt(Corpus, i, p).role # "plain"
              /\ e.dst \in DefIds(Corpus, LabelAt(Corpus, i, p).sym)
           \/ /\ LabelAt(Corpus, i, p).role \in {"import", "type"}
              /\ e.dst = [unresolved |-> LabelAt(Corpus, i, p).sym]
  BY <1>1
(* A kept id is of a file to be written.                                   *)
<1>3. ASSUME NEW j \in DOMAIN call.paths, NEW q, NodeId(Corpus, j, q) \in {r.id : r \in Kept}
      PROVE  j \in touched
  <2>1. PICK r \in Kept : r.id = NodeId(Corpus, j, q)
    BY <1>3
  <2>2. PICK k \in touched : r.id.prefix = PrefixOfPath(k)
    <3>1. PICK k \in touched : \E b \in PositionsIn(Corpus, k) : r.id = NodeId(Corpus, k, b)
      BY KeptTrue
    <3> QED BY <3>1 DEF NodeId, PrefixOfPath
  <2>3. PrefixOfPath(k) = PrefixOfPath(j) /\ k \in DOMAIN call.paths
    BY <2>1, <2>2 DEF NodeId, PrefixOfPath, SoundInv, TypeOK
  <2> QED BY <2>2, <2>3, DistinctPrefix DEF SoundInv
<1>4. i \in touched
  BY <1>2, <1>3, KeptGraphEdges
<1>5. LabelAt(Corpus, i, p) \in Label
  BY <1>0, IdsTyped
<1>6. CASE e.dst \in Placeholder
  <2>1. e.dst \notin DefIds(Corpus, LabelAt(Corpus, i, p).sym)
    BY <1>0, <1>6, DefIdsTyped
  <2> QED BY <1>2, <1>4, <1>6, <2>1
<1>7. CASE e.dst \notin Placeholder
  <2>1. e.dst # [unresolved |-> LabelAt(Corpus, i, p).sym] \/ LabelAt(Corpus, i, p).role \notin {"import", "type"}
    BY <1>5, <1>7 DEF Label, Placeholder
  <2>2. e.dst \in DefIds(Corpus, LabelAt(Corpus, i, p).sym)
    BY <1>2, <2>1
  <2>3. PICK j \in DOMAIN call.paths : \E q \in PositionsIn(Corpus, j) :
          /\ e.dst = NodeId(Corpus, j, q)
          /\ LabelAt(Corpus, j, q) = [role |-> "def", sym |-> LabelAt(Corpus, i, p).sym]
    BY <1>0, <2>2, DefIdsTyped
  <2>4. j \in touched
    BY <1>3, <1>7, <2>3, KeptGraphEdges
  <2> QED BY <1>2, <1>4, <1>7, <2>3, <2>4
<1> QED BY <1>6, <1>7

(* A stored row is its origin's, by its id and by its content.             *)
LEMMA RowsStep ==
  ASSUME LabelsAssumption, BoundsAssumption, SoundInv, OneOrigin, DistinctStems, TruthInv,
         [Next]_vars
  PROVE  RowsTrue'
<1> USE DEF SoundInv, TypeOK, TruthInv, RowsTrue, UriOf
<1>0. stem' = stem
  BY StemStays
<1> USE <1>0
<1>1. ASSUME NEW o \in OriginId, ScanUnchanged(o)
      PROVE  RowsTrue'
  BY <1>1 DEF ScanUnchanged, Current, env, store, Put
<1>2. ASSUME ScanFresh
      PROVE  RowsTrue'
  BY <1>2 DEF ScanFresh, env, store
<1>3. ASSUME NEW o \in OriginId, ScanChanged(o)
      PROVE  RowsTrue'
  BY <1>3 DEF ScanChanged, env, store
<1>4. ASSUME ReplaceDone
      PROVE  RowsTrue'
  BY <1>4 DEF ReplaceDone, env, store
<1>5. ASSUME NEW o \in OriginId, DeleteNodes(o)
      PROVE  RowsTrue'
  BY <1>5 DEF DeleteNodes, DetachDelete, Restrict, Without, env
<1>6. ASSUME DeleteRow
      PROVE  RowsTrue'
  BY <1>6 DEF DeleteRow, env
<1>7. ASSUME ScanDone
      PROVE  RowsTrue'
  BY <1>7 DEF ScanDone, AfterSweep, OutsideCall, env, store
<1>8. ASSUME PruneDone
      PROVE  RowsTrue'
  BY <1>8 DEF PruneDone, AfterSweep, env, store
<1>9. ASSUME NEW i \in pending, Snapshot(i)
      PROVE  RowsTrue'
  BY <1>9 DEF Snapshot, Put, env
<1>10. ASSUME Build
      PROVE  RowsTrue'
  BY <1>10 DEF Build, env, store
<1>11. ASSUME NEW r \in batch.nodes, WriteNode(r)
      PROVE  RowsTrue'
  <2>1. r.id \in SyntaxId /\ r.id \in DOMAIN nodes'
    BY <1>11 DEF WriteNode, Put, Batch
  <2>2. nodes'[r.id].sha = nodes'[r.id].origin.sha /\ UriOf(nodes'[r.id].origin, r.id)
    BY <1>11 DEF WriteNode, Put, BatchTrue
  <2>3. \A n \in DOMAIN nodes' : n # r.id => n \in DOMAIN nodes /\ nodes'[n] = nodes[n]
    BY <1>11 DEF WriteNode, Put
  <2> QED BY <2>2, <2>3
<1>12. ASSUME NEW p \in batch.placeholders, WritePlaceholder(p)
      PROVE  RowsTrue'
  <2>1. p.id \in Placeholder
    BY DEF Batch
  <2>2. \A n \in DOMAIN nodes' : n # p.id => n \in DOMAIN nodes /\ nodes'[n] = nodes[n]
    BY <1>12 DEF WritePlaceholder, Put
  <2> QED BY <2>1, <2>2
<1>13. ASSUME NEW e \in batch.edges, WriteEdge(e)
      PROVE  RowsTrue'
  BY <1>13 DEF WriteEdge, env
<1>14. ASSUME BulkClear
      PROVE  RowsTrue'
  BY <1>14 DEF BulkClear, DetachDelete, Restrict, Without, env
<1>15. ASSUME BulkCopyNodes
      PROVE  RowsTrue'
  <2> DEFINE row(id) == CHOOSE x \in batch.nodes \union batch.placeholders : x.id = id
  <2>1. ASSUME NEW n \in DOMAIN nodes' \ Placeholder
        PROVE  nodes'[n].sha = nodes'[n].origin.sha /\ UriOf(nodes'[n].origin, n)
    <3>1. CASE n \in DOMAIN nodes
      <4>1. nodes'[n] = nodes[n]
        BY <1>15, <3>1 DEF BulkCopyNodes
      <4> QED BY <3>1, <4>1
    <3>2. CASE n \notin DOMAIN nodes
      <4>1. n \in BatchIds
        BY <1>15, <3>2 DEF BulkCopyNodes
      <4>2. row(n) \in batch.nodes \union batch.placeholders /\ row(n).id = n
        BY <4>1 DEF BatchIds
      <4>3. nodes'[n] = [origin |-> row(n).origin,
                         sha |-> IF n \in Placeholder THEN None ELSE row(n).sha]
        BY <1>15, <3>2, <4>1 DEF BulkCopyNodes
      <4> HIDE DEF row
      <4>4. row(n) \in batch.nodes
        BY <4>2 DEF Batch
      <4> QED BY <4>2, <4>3, <4>4 DEF BatchTrue
    <3> QED BY <3>1, <3>2
  <2> QED BY <2>1
<1>16. ASSUME NEW t \in EdgeType, BulkCopyRels(t)
      PROVE  RowsTrue'
  BY <1>16 DEF BulkCopyRels, env
<1>17. ASSUME WriteDone
      PROVE  RowsTrue'
  BY <1>17 DEF WriteDone, EmptyBatch, env, store
<1>18. ASSUME NEW o \in OriginId, CollectOrphan(o)
      PROVE  RowsTrue'
  BY <1>18 DEF CollectOrphan, Orphans, env, job
<1>19. ASSUME GcDone
      PROVE  RowsTrue'
  BY <1>19 DEF GcDone, env, store
<1>20. ASSUME Crash
      PROVE  RowsTrue'
  BY <1>20 DEF Crash, EmptyBatch, store
<1>21. ASSUME NEW paths \in Paths, NEW mode \in {"keep", "prune", "gc"}, Start(paths, mode)
      PROVE  RowsTrue'
  BY <1>21 DEF Start, EmptyMap, store
<1>22. ASSUME NEW u \in Uri, NEW c \in Content, Edit(u, c)
      PROVE  RowsTrue'
  BY <1>22 DEF Edit, store, job
<1>23. ASSUME UNCHANGED vars
      PROVE  RowsTrue'
  BY <1>23 DEF vars, store, job, env
<1> QED BY [Next]_vars, <1>1, <1>2, <1>3, <1>4, <1>5, <1>6, <1>7, <1>8, <1>9, <1>10, <1>11, <1>12, <1>13, <1>14, <1>15, <1>16, <1>17, <1>18, <1>19, <1>20, <1>21, <1>22, <1>23 DEF Next, JobStep

(* What the batch still has is true of the files.                          *)
LEMMA BatchStep ==
  ASSUME LabelsAssumption, BoundsAssumption, SoundInv, OneOrigin, DistinctStems, TruthInv,
         [Next]_vars
  PROVE  BatchTrue'
<1> USE DEF SoundInv, TypeOK, Control, Writing, TruthInv, BatchTrue, UriOf
<1>0. stem' = stem
  BY StemStays
<1> USE <1>0
<1>e. ASSUME batch' = EmptyBatch
      PROVE  BatchTrue'
  <2>1. batch'.nodes = {} /\ batch'.placeholders = {} /\ batch'.edges = {}
    BY <1>e DEF EmptyBatch
  <2> QED BY <2>1
<1>s. ASSUME batch'.nodes \subseteq batch.nodes, batch'.placeholders \subseteq batch.placeholders,
             batch'.edges \subseteq batch.edges, origins' = origins,
             batch'.bulk /\ pc' = "write" => batch.bulk /\ pc = "write" /\ nodes' = nodes
      PROVE  BatchTrue'
  <2>1. \A o, id : Justified(o, id)' <=> Justified(o, id)
    BY DEF Justified
  <2>2. \A o : nodes' = nodes => NodesOf(o)' = NodesOf(o)
    BY DEF NodesOf
  <2>3. ASSUME NEW r \in batch'.nodes
        PROVE  /\ UriOf(r.origin, r.id)' /\ r.sha = r.origin.sha
               /\ batch'.bulk /\ pc' = "write" => NodesOf(r.origin)' = {}
    <3>1. r \in batch.nodes
      BY <1>s
    <3> QED BY <1>s, <2>2, <3>1
  <2>4. ASSUME NEW r \in batch'.placeholders
        PROVE  Justified(r.origin, r.id)'
    BY <1>s, <2>1
  <2>5. ASSUME NEW e \in batch'.edges, e.type # "child", e.dst \notin Placeholder
        PROVE  \E o1, o2 \in origins' :
                 /\ UriOf(o1, e.src)' /\ UriOf(o2, e.dst)'
                 /\ Labels[o2.sha][e.dst.pos] =
                      [role |-> "def", sym |-> Labels[o1.sha][e.src.pos].sym]
    BY <1>s, <2>5
  <2> QED BY <2>3, <2>4, <2>5

<1>1. ASSUME NEW o \in OriginId, ScanUnchanged(o)
      PROVE  BatchTrue'
  <2>1. batch' = EmptyBatch
    BY <1>1 DEF ScanUnchanged
  <2> QED BY <2>1, <1>e
<1>2. ASSUME ScanFresh
      PROVE  BatchTrue'
  <2>1. batch' = EmptyBatch
    BY <1>2 DEF ScanFresh
  <2> QED BY <2>1, <1>e
<1>3. ASSUME NEW o \in OriginId, ScanChanged(o)
      PROVE  BatchTrue'
  <2>1. batch' = EmptyBatch
    BY <1>3 DEF ScanChanged
  <2> QED BY <2>1, <1>e
<1>4. ASSUME ReplaceDone
      PROVE  BatchTrue'
  <2>1. batch' = EmptyBatch
    BY <1>4 DEF ReplaceDone
  <2> QED BY <2>1, <1>e
<1>5. ASSUME NEW o \in OriginId, DeleteNodes(o)
      PROVE  BatchTrue'
  <2>1. batch' = EmptyBatch
    BY <1>5 DEF DeleteNodes
  <2> QED BY <2>1, <1>e
<1>6. ASSUME DeleteRow
      PROVE  BatchTrue'
  <2>1. batch' = EmptyBatch
    BY <1>6 DEF DeleteRow
  <2> QED BY <2>1, <1>e
<1>7. ASSUME ScanDone
      PROVE  BatchTrue'
  <2>1. batch' = EmptyBatch
    BY <1>7 DEF ScanDone
  <2> QED BY <2>1, <1>e
<1>8. ASSUME PruneDone
      PROVE  BatchTrue'
  <2>1. batch' = EmptyBatch
    BY <1>8 DEF PruneDone
  <2> QED BY <2>1, <1>e
<1>9. ASSUME NEW i \in pending, Snapshot(i)
      PROVE  BatchTrue'
  <2>1. batch' = EmptyBatch
    BY <1>9 DEF Snapshot
  <2> QED BY <2>1, <1>e
<1>10. ASSUME Build
      PROVE  BatchTrue'
  <2>1. pc = "snapshot" /\ pending = {} /\ pc' = "write" /\ UNCHANGED <<origins, nodes, file>>
    BY <1>10 DEF Build, store, env
  <2>2. /\ batch'.nodes = Kept /\ batch'.edges = KeptGraph
        /\ batch'.placeholders = PlaceholderRows(KeptGraph, Kept)
    BY <1>10, BuildMakes
  <2>3. \A i \in DOMAIN call.paths : Corpus[i].sha = file[call.paths[i]]
    BY CorpusTyped
  <2>4. ASSUME NEW r \in Kept
        PROVE  UriOf(r.origin, r.id) /\ r.sha = r.origin.sha /\ NodesOf(r.origin) = {}
    <3>1. PICK i \in touched :
            /\ r.id.prefix = <<stem[call.paths[i]], 0>> /\ r.sha = file[call.paths[i]]
            /\ r.origin = [uri |-> call.paths[i], sha |-> file[call.paths[i]]]
            /\ r.origin = Extracted(i)
      BY <2>1, KeptTrue
    <3>2. NodesOf(Extracted(i)) = {}
      BY <2>1 DEF StaleTrue
    <3> QED BY <3>1, <3>2
  <2>5. ASSUME NEW x \in PlaceholderRows(KeptGraph, Kept)
        PROVE  Justified(x.origin, x.id)
    <3>1. PICK e \in KeptGraph : \E r \in Kept :
            x = [id |-> e.dst, origin |-> r.origin] /\ r.id = e.src /\ e.dst \in Placeholder
      BY <2>1, PlaceholderRowsOf
    <3>2. PICK r \in Kept :
            x = [id |-> e.dst, origin |-> r.origin] /\ r.id = e.src /\ e.dst \in Placeholder
      BY <3>1
    <3>3. e.type # "child"
      <4>1. ASSUME NEW i, NEW q, i \in DOMAIN Corpus, q \in PositionsIn(Corpus, i),
                   e.dst = NodeId(Corpus, i, q)
            PROVE  FALSE
        <5>1. NodeId(Corpus, i, q) \in SyntaxId
          BY <4>1, IdsTyped, CorpusTyped
        <5> QED BY <3>2, <4>1, <5>1 DEF SyntaxId, Placeholder
      <4>2. EdgeFrom(Corpus, e)
        BY <2>1, KeptGraphEdges
      <4> QED BY <4>1, <4>2 DEF EdgeFrom
    <3>4. PICK i \in touched : \E p \in PositionsIn(Corpus, i) :
            /\ e.src = NodeId(Corpus, i, p)
            /\ LabelAt(Corpus, i, p).role \in {"import", "type"}
            /\ e.dst.unresolved = LabelAt(Corpus, i, p).sym
      BY <2>1, <3>2, <3>3, KeptEdgeTrue
    <3>5. PICK j \in touched : \E p \in PositionsIn(Corpus, j) :
            r.id = NodeId(Corpus, j, p) /\ r.origin.sha = file[call.paths[j]]
      <4>1. PICK j \in touched : \E p \in PositionsIn(Corpus, j) :
              /\ r.id = NodeId(Corpus, j, p)
              /\ r.origin = [uri |-> call.paths[j], sha |-> file[call.paths[j]]]
        BY <2>1, KeptTrue
      <4> QED BY <4>1
    <3>6. i = j
      <4>1. PrefixOfPath(i) = PrefixOfPath(j) /\ i \in DOMAIN call.paths /\ j \in DOMAIN call.paths
        BY <3>2, <3>4, <3>5 DEF NodeId, PrefixOfPath
      <4> QED BY <4>1, DistinctPrefix
    <3>7. r.origin.sha = Corpus[i].sha
      BY <2>3, <3>5, <3>6
    <3> QED BY <3>2, <3>4, <3>7 DEF Justified, LabelAt, PositionsIn
  <2>6. ASSUME NEW e \in KeptGraph, e.type # "child", e.dst \notin Placeholder
        PROVE  \E o1, o2 \in origins :
                 /\ UriOf(o1, e.src) /\ UriOf(o2, e.dst)
                 /\ Labels[o2.sha][e.dst.pos] =
                      [role |-> "def", sym |-> Labels[o1.sha][e.src.pos].sym]
    <3>1. PICK i \in touched, j \in touched : \E p, q :
            /\ e.src = NodeId(Corpus, i, p) /\ e.dst = NodeId(Corpus, j, q)
            /\ LabelAt(Corpus, j, q) = [role |-> "def", sym |-> LabelAt(Corpus, i, p).sym]
      BY <2>1, <2>6, KeptEdgeTrue
    <3>2. Extracted(i) \in origins /\ Extracted(j) \in origins
      BY <2>1 DEF SnapshotsThere
    <3>3. /\ Extracted(i).uri = call.paths[i] /\ Extracted(i).sha = Corpus[i].sha
          /\ Extracted(j).uri = call.paths[j] /\ Extracted(j).sha = Corpus[j].sha
      BY <2>1, <2>3 DEF SnapshotsThere, OwnersTrue
    <3>4. UriOf(Extracted(i), e.src) /\ UriOf(Extracted(j), e.dst)
      <4>1. PrefixOfPath(i) = <<stem[call.paths[i]], 0>> /\ PrefixOfPath(j) = <<stem[call.paths[j]], 0>>
        BY DistinctPrefix
      <4> QED BY <3>1, <3>3, <4>1 DEF NodeId, PrefixOfPath
    <3>5. Labels[Extracted(j).sha][e.dst.pos] =
            [role |-> "def", sym |-> Labels[Extracted(i).sha][e.src.pos].sym]
      BY <3>1, <3>3 DEF NodeId, LabelAt
    <3> QED BY <3>2, <3>4, <3>5
  <2>7. \A r \in batch'.nodes :
          UriOf(r.origin, r.id)' /\ r.sha = r.origin.sha /\ NodesOf(r.origin)' = {}
    BY <2>1, <2>2, <2>4 DEF NodesOf
  <2>8. \A r \in batch'.placeholders : Justified(r.origin, r.id)'
    BY <2>2, <2>5 DEF Justified
  <2>9. \A e \in batch'.edges :
          e.type # "child" /\ e.dst \notin Placeholder =>
            \E o1, o2 \in origins' :
              /\ UriOf(o1, e.src)' /\ UriOf(o2, e.dst)'
              /\ Labels[o2.sha][e.dst.pos] =
                   [role |-> "def", sym |-> Labels[o1.sha][e.src.pos].sym]
    BY <2>1, <2>2, <2>6
  <2> QED BY <2>7, <2>8, <2>9
<1>11. ASSUME NEW r \in batch.nodes, WriteNode(r)
      PROVE  BatchTrue'
  <2>1. /\ batch'.bulk = batch.bulk /\ batch'.nodes \subseteq batch.nodes
        /\ batch'.placeholders \subseteq batch.placeholders /\ batch'.edges \subseteq batch.edges
    BY <1>11 DEF WriteNode, Batch
  <2>2. pc = "write" /\ ~batch.bulk /\ pc' = pc /\ origins' = origins
    BY <1>11 DEF WriteNode
  <2> QED BY <2>1, <2>2, <1>s
<1>12. ASSUME NEW p \in batch.placeholders, WritePlaceholder(p)
      PROVE  BatchTrue'
  <2>1. /\ batch'.bulk = batch.bulk /\ batch'.nodes \subseteq batch.nodes
        /\ batch'.placeholders \subseteq batch.placeholders /\ batch'.edges \subseteq batch.edges
    BY <1>12 DEF WritePlaceholder, Batch
  <2>2. pc = "write" /\ ~batch.bulk /\ pc' = pc /\ origins' = origins
    BY <1>12 DEF WritePlaceholder
  <2> QED BY <2>1, <2>2, <1>s
<1>13. ASSUME NEW e \in batch.edges, WriteEdge(e)
      PROVE  BatchTrue'
  <2>1. /\ batch'.bulk = batch.bulk /\ batch'.nodes \subseteq batch.nodes
        /\ batch'.placeholders \subseteq batch.placeholders /\ batch'.edges \subseteq batch.edges
    BY <1>13 DEF WriteEdge, Batch
  <2>2. pc = "write" /\ ~batch.bulk /\ pc' = pc /\ origins' = origins
    BY <1>13 DEF WriteEdge
  <2> QED BY <2>1, <2>2, <1>s
<1>14. ASSUME BulkClear
      PROVE  BatchTrue'
  BY <1>14, <1>s DEF BulkClear, DetachDelete, Restrict, Without, env
<1>15. ASSUME BulkCopyNodes
      PROVE  BatchTrue'
  <2>1. /\ batch'.bulk = batch.bulk /\ batch'.nodes \subseteq batch.nodes
        /\ batch'.placeholders \subseteq batch.placeholders /\ batch'.edges \subseteq batch.edges
    BY <1>15 DEF BulkCopyNodes, Batch
  <2>2. pc = "copy" /\ pc' = pc /\ origins' = origins
    BY <1>15 DEF BulkCopyNodes
  <2> QED BY <2>1, <2>2, <1>s
<1>16. ASSUME NEW t \in EdgeType, BulkCopyRels(t)
      PROVE  BatchTrue'
  <2>1. /\ batch'.bulk = batch.bulk /\ batch'.nodes \subseteq batch.nodes
        /\ batch'.placeholders \subseteq batch.placeholders /\ batch'.edges \subseteq batch.edges
    BY <1>16 DEF BulkCopyRels, Batch
  <2>2. pc = "copy" /\ pc' = pc /\ origins' = origins
    BY <1>16 DEF BulkCopyRels
  <2> QED BY <2>1, <2>2, <1>s
<1>17. ASSUME WriteDone
      PROVE  BatchTrue'
  <2>1. batch' = EmptyBatch
    BY <1>17 DEF WriteDone
  <2> QED BY <2>1, <1>e
<1>18. ASSUME NEW o \in OriginId, CollectOrphan(o)
      PROVE  BatchTrue'
  <2>1. batch' = EmptyBatch
    BY <1>18 DEF CollectOrphan, job
  <2> QED BY <2>1, <1>e
<1>19. ASSUME GcDone
      PROVE  BatchTrue'
  <2>1. batch' = EmptyBatch
    BY <1>19 DEF GcDone
  <2> QED BY <2>1, <1>e
<1>20. ASSUME Crash
      PROVE  BatchTrue'
  <2>1. batch' = EmptyBatch
    BY <1>20 DEF Crash
  <2> QED BY <2>1, <1>e
<1>21. ASSUME NEW paths \in Paths, NEW mode \in {"keep", "prune", "gc"}, Start(paths, mode)
      PROVE  BatchTrue'
  <2>1. batch' = EmptyBatch
    BY <1>21 DEF Start
  <2> QED BY <2>1, <1>e
<1>22. ASSUME NEW u \in Uri, NEW c \in Content, Edit(u, c)
      PROVE  BatchTrue'
  <2>1. batch' = EmptyBatch
    BY <1>22 DEF Edit, job
  <2> QED BY <2>1, <1>e
<1>23. ASSUME UNCHANGED vars
      PROVE  BatchTrue'
  BY <1>23, <1>s DEF vars, store, job
<1> QED BY [Next]_vars, <1>1, <1>2, <1>3, <1>4, <1>5, <1>6, <1>7, <1>8, <1>9, <1>10, <1>11, <1>12, <1>13, <1>14, <1>15, <1>16, <1>17, <1>18, <1>19, <1>20, <1>21, <1>22, <1>23 DEF Next, JobStep

(* What is being swept is to be replaced, or is outside the call.           *)
LEMMA StaleStep ==
  ASSUME LabelsAssumption, BoundsAssumption, SoundInv, OneOrigin, DistinctStems, TruthInv,
         [Next]_vars
  PROVE  StaleTrue'
<1> USE DEF SoundInv, TypeOK, Control, Writing, TruthInv, StaleTrue
<1>1. ASSUME NEW o \in OriginId, ScanUnchanged(o)
      PROVE  StaleTrue'
  BY <1>1 DEF ScanUnchanged, Current, env, store, Put
<1>2. ASSUME ScanFresh
      PROVE  StaleTrue'
  BY <1>2 DEF ScanFresh, env, store
<1>3. ASSUME NEW o \in OriginId, ScanChanged(o)
      PROVE  StaleTrue'
  BY <1>3 DEF ScanChanged, env, store
<1>4. ASSUME ReplaceDone
      PROVE  StaleTrue'
  BY <1>4 DEF ReplaceDone, env, store
<1>5. ASSUME NEW o \in OriginId, DeleteNodes(o)
      PROVE  StaleTrue'
  BY <1>5 DEF DeleteNodes, DetachDelete, Restrict, Without, env
<1>6. ASSUME DeleteRow
      PROVE  StaleTrue'
  BY <1>6 DEF DeleteRow, env
<1>7. ASSUME ScanDone
      PROVE  StaleTrue'
  BY <1>7 DEF ScanDone, AfterSweep, OutsideCall, env, store
<1>8. ASSUME PruneDone
      PROVE  StaleTrue'
  BY <1>8 DEF PruneDone, AfterSweep, env, store
<1>9. ASSUME NEW i \in pending, Snapshot(i)
      PROVE  StaleTrue'
  <2> DEFINE o == [uri |-> call.paths[i], sha |-> file[call.paths[i]]]
  <2>1. \A j \in DOMAIN call.paths : PrefixOfPath(j)' = PrefixOfPath(j)
    BY <1>9, StemStays, PrefixStays DEF Snapshot, env
  <2>2. \A j \in DOMAIN call.paths : PrefixOfPath(j) = PrefixOfPath(i) => j = i
    BY DistinctPrefix
  <2>3. pc = "snapshot" /\ pc' = "snapshot" /\ owner' = Put(owner, PrefixOfPath(i), o)
    BY <1>9 DEF Snapshot
  <2>4. \A n \in DOMAIN nodes' : nodes'[n].origin # o
    <3>1. Current(call.paths[i]) = {}
      BY <2>3 DEF OneOrigin
    <3>2. o \notin origins
      BY <3>1 DEF Current
    <3>3. nodes' = nodes
      BY <1>9 DEF Snapshot
    <3>4. \A n \in DOMAIN nodes : nodes[n].origin # o
      BY <3>2 DEF NoDangling
    <3> HIDE DEF o
    <3> QED BY <3>3, <3>4
  <2>5. ASSUME NEW j \in touched' \ pending'
        PROVE  NodesOf(Extracted(j))' = {}
    <3>1. CASE j = i
      <4>1. Extracted(j)' = o
        <5>1. PrefixOfPath(j)' = PrefixOfPath(i)
          BY <2>1, <3>1
        <5> QED BY <2>3, <5>1 DEF Extracted, Put
      <4> HIDE DEF o
      <4> QED BY <2>4, <4>1 DEF NodesOf
    <3>2. CASE j # i
      <4>1. j \in touched \ pending
        BY <1>9, <3>2 DEF Snapshot
      <4>2. Extracted(j)' = Extracted(j)
        BY <2>1, <2>2, <2>3, <3>2, <4>1 DEF Extracted, Put, SnapshotsThere, Owned
      <4>3. NodesOf(Extracted(j)) = {} /\ nodes' = nodes
        BY <1>9, <2>3, <4>1 DEF Snapshot
      <4> QED BY <4>2, <4>3 DEF NodesOf
    <3> QED BY <3>1, <3>2
  <2> QED BY <2>3, <2>5
<1>10. ASSUME Build
      PROVE  StaleTrue'
  BY <1>10 DEF Build, env, store
<1>11. ASSUME NEW r \in batch.nodes, WriteNode(r)
      PROVE  StaleTrue'
  BY <1>11 DEF WriteNode, Put, env
<1>12. ASSUME NEW p \in batch.placeholders, WritePlaceholder(p)
      PROVE  StaleTrue'
  BY <1>12 DEF WritePlaceholder, Put, env
<1>13. ASSUME NEW e \in batch.edges, WriteEdge(e)
      PROVE  StaleTrue'
  BY <1>13 DEF WriteEdge, env
<1>14. ASSUME BulkClear
      PROVE  StaleTrue'
  BY <1>14 DEF BulkClear, DetachDelete, Restrict, Without, env
<1>15. ASSUME BulkCopyNodes
      PROVE  StaleTrue'
  BY <1>15 DEF BulkCopyNodes, env
<1>16. ASSUME NEW t \in EdgeType, BulkCopyRels(t)
      PROVE  StaleTrue'
  BY <1>16 DEF BulkCopyRels, env
<1>17. ASSUME WriteDone
      PROVE  StaleTrue'
  BY <1>17 DEF WriteDone, EmptyBatch, env, store
<1>18. ASSUME NEW o \in OriginId, CollectOrphan(o)
      PROVE  StaleTrue'
  BY <1>18 DEF CollectOrphan, Orphans, env, job
<1>19. ASSUME GcDone
      PROVE  StaleTrue'
  BY <1>19 DEF GcDone, env, store
<1>20. ASSUME Crash
      PROVE  StaleTrue'
  BY <1>20 DEF Crash, EmptyBatch, store
<1>21. ASSUME NEW paths \in Paths, NEW mode \in {"keep", "prune", "gc"}, Start(paths, mode)
      PROVE  StaleTrue'
  BY <1>21 DEF Start, EmptyMap, store
<1>22. ASSUME NEW u \in Uri, NEW c \in Content, Edit(u, c)
      PROVE  StaleTrue'
  BY <1>22 DEF Edit, store, job
<1>23. ASSUME UNCHANGED vars
      PROVE  StaleTrue'
  <2>1. \A j \in DOMAIN call.paths : PrefixOfPath(j)' = PrefixOfPath(j)
    BY <1>23, StemStays, PrefixStays DEF vars, job
  <2> QED BY <1>23, <2>1 DEF vars, store, job, env, NodesOf, Extracted
<1> QED BY [Next]_vars, <1>1, <1>2, <1>3, <1>4, <1>5, <1>6, <1>7, <1>8, <1>9, <1>10, <1>11, <1>12, <1>13, <1>14, <1>15, <1>16, <1>17, <1>18, <1>19, <1>20, <1>21, <1>22, <1>23 DEF Next, JobStep

(* No stored reference comes to lie.                                       *)
LEMMA ReferenceStep ==
  ASSUME LabelsAssumption, BoundsAssumption, SoundInv, OneOrigin, DistinctStems, TruthInv,
         [Next]_vars
  PROVE  NoFalseReference'
<1> USE DEF SoundInv, TypeOK, Control, Writing, TruthInv
<1> DEFINE True(r) == r.type # "child" /\ r.dst \notin Placeholder =>
                      LabelOf(r.dst) = [role |-> "def", sym |-> LabelOf(r.src).sym]
           Stay == \A r \in rels' :
                     /\ nodes'[r.src].sha = nodes[r.src].sha
                     /\ r.dst \notin Placeholder => nodes'[r.dst].sha = nodes[r.dst].sha
<1>r. \A r \in rels : True(r) /\ r.src \in DOMAIN nodes \ Placeholder /\ r.dst \in DOMAIN nodes
  <2>1. \A r \in rels : r.src \in SyntaxId
    BY DEF Rel
  <2>2. \A id \in SyntaxId : id \notin Placeholder
    BY DEF SyntaxId, Placeholder
  <2> QED BY <2>1, <2>2 DEF NoFalseReference, NoDangling
(* A rel between syntax nodes stays true as long as their contents stay,   *)
<1>k. ASSUME \A r \in rels' : r \in rels \/ True(r),
             Stay \/ nodes' = nodes
      PROVE  NoFalseReference'
  <2>0. Stay
    BY <1>k
  <2> SUFFICES ASSUME NEW r \in rels', r.type # "child", r.dst \notin Placeholder
               PROVE  LabelOf(r.dst)' = [role |-> "def", sym |-> LabelOf(r.src)'.sym]
    BY DEF NoFalseReference
  <2>1. True(r)
    <3> HIDE DEF True
    <3> QED BY <1>r, <1>k
  <2>2. LabelOf(r.dst)' = LabelOf(r.dst) /\ LabelOf(r.src)' = LabelOf(r.src)
    BY <2>0 DEF LabelOf
  <2> QED BY <2>1, <2>2
(* and a rel of the batch is true when its ends are there.                 *)
<1>n. ASSUME NEW e \in batch.edges, batch.nodes = {}, batch.placeholders = {}
      PROVE  True(e)
  <2> SUFFICES ASSUME e.type # "child", e.dst \notin Placeholder
               PROVE  LabelOf(e.dst) = [role |-> "def", sym |-> LabelOf(e.src).sym]
    OBVIOUS
  <2>1. e.src \in DOMAIN nodes /\ e.dst \in DOMAIN nodes
    BY <1>n DEF BatchSound, BatchIds
  <2>2. e.src \notin Placeholder
    BY DEF Batch, Rel, SyntaxId, Placeholder
  <2>3. PICK o1 \in origins, o2 \in origins :
          /\ UriOf(o1, e.src) /\ UriOf(o2, e.dst)
          /\ Labels[o2.sha][e.dst.pos] =
               [role |-> "def", sym |-> Labels[o1.sha][e.src.pos].sym]
    BY DEF BatchTrue
  <2>4. nodes[e.src].sha = o1.sha /\ nodes[e.dst].sha = o2.sha
    BY <2>1, <2>2, <2>3, OriginOfId
  <2> QED BY <2>3, <2>4 DEF LabelOf

<1>1. ASSUME NEW o \in OriginId, ScanUnchanged(o)
      PROVE  NoFalseReference'
  <2>1. rels' \subseteq rels /\ nodes' = nodes
    BY <1>1 DEF ScanUnchanged, store
  <2> QED BY <2>1, <1>k
<1>2. ASSUME ScanFresh
      PROVE  NoFalseReference'
  <2>1. rels' \subseteq rels /\ nodes' = nodes
    BY <1>2 DEF ScanFresh, store
  <2> QED BY <2>1, <1>k
<1>3. ASSUME NEW o \in OriginId, ScanChanged(o)
      PROVE  NoFalseReference'
  <2>1. rels' \subseteq rels /\ nodes' = nodes
    BY <1>3 DEF ScanChanged, store
  <2> QED BY <2>1, <1>k
<1>4. ASSUME ReplaceDone
      PROVE  NoFalseReference'
  <2>1. rels' \subseteq rels /\ nodes' = nodes
    BY <1>4 DEF ReplaceDone, store
  <2> QED BY <2>1, <1>k
<1>5. ASSUME NEW o \in OriginId, DeleteNodes(o)
      PROVE  NoFalseReference'
  <2>1. rels' \subseteq rels /\ Stay
    BY <1>5 DEF DeleteNodes, DetachDelete, Restrict, Without, NoDangling
  <2> QED BY <2>1, <1>k
<1>6. ASSUME DeleteRow
      PROVE  NoFalseReference'
  <2>1. rels' \subseteq rels /\ nodes' = nodes
    BY <1>6 DEF DeleteRow, store
  <2> QED BY <2>1, <1>k
<1>7. ASSUME ScanDone
      PROVE  NoFalseReference'
  <2>1. rels' \subseteq rels /\ nodes' = nodes
    BY <1>7 DEF ScanDone, store
  <2> QED BY <2>1, <1>k
<1>8. ASSUME PruneDone
      PROVE  NoFalseReference'
  <2>1. rels' \subseteq rels /\ nodes' = nodes
    BY <1>8 DEF PruneDone, store
  <2> QED BY <2>1, <1>k
<1>9. ASSUME NEW i \in pending, Snapshot(i)
      PROVE  NoFalseReference'
  <2>1. rels' \subseteq rels /\ nodes' = nodes
    BY <1>9 DEF Snapshot, store
  <2> QED BY <2>1, <1>k
<1>10. ASSUME Build
      PROVE  NoFalseReference'
  <2>1. rels' \subseteq rels /\ nodes' = nodes
    BY <1>10 DEF Build, store
  <2> QED BY <2>1, <1>k
<1>11. ASSUME NEW r \in batch.nodes, WriteNode(r)
      PROVE  NoFalseReference'
  <2>1. r.id \in DOMAIN nodes => nodes'[r.id].sha = nodes[r.id].sha
    <3>1. r.id \in SyntaxId /\ r.id \notin Placeholder /\ r.origin \in origins
      BY DEF Batch, SyntaxId, Placeholder, BatchSound
    <3>2. UriOf(r.origin, r.id) /\ r.sha = r.origin.sha
      BY DEF BatchTrue
    <3>3. r.id \in DOMAIN nodes => nodes[r.id].sha = r.sha
      BY <3>1, <3>2, OriginOfId
    <3>4. nodes'[r.id].sha = r.sha
      BY <1>11 DEF WriteNode, Put
    <3> QED BY <3>3, <3>4
  <2>2. rels' = rels /\ \A n \in DOMAIN nodes : n # r.id => nodes'[n] = nodes[n]
    BY <1>11 DEF WriteNode, Put
  <2>3. \A n \in DOMAIN nodes : nodes'[n].sha = nodes[n].sha
    BY <2>1, <2>2
  <2>4. rels' \subseteq rels /\ Stay
    BY <2>2, <2>3, <1>r
  <2> QED BY <2>4, <1>k
<1>12. ASSUME NEW p \in batch.placeholders, WritePlaceholder(p)
      PROVE  NoFalseReference'
  <2>1. p.id \in Placeholder
    BY DEF Batch
  <2>2. rels' = rels /\ \A n \in DOMAIN nodes : n # p.id => nodes'[n] = nodes[n]
    BY <1>12 DEF WritePlaceholder, Put
  <2>3. rels' \subseteq rels /\ Stay
    BY <2>1, <2>2, <1>r
  <2> QED BY <2>3, <1>k
<1>13. ASSUME NEW e \in batch.edges, WriteEdge(e)
      PROVE  NoFalseReference'
  <2>1. /\ rels' = rels \union {e} /\ nodes' = nodes /\ e \in batch.edges
        /\ batch.nodes = {} /\ batch.placeholders = {}
    BY <1>13 DEF WriteEdge
  <2>2. \A r \in rels' : r \in rels \/ True(r)
    BY <2>1, <1>n
  <2> QED BY <2>1, <2>2, <1>k
<1>14. ASSUME BulkClear
      PROVE  NoFalseReference'
  <2>1. rels' \subseteq rels /\ Stay
    BY <1>14 DEF BulkClear, DetachDelete, Restrict, Without, NoDangling
  <2> QED BY <2>1, <1>k
<1>15. ASSUME BulkCopyNodes
      PROVE  NoFalseReference'
  <2>1. rels' = rels /\ \A n \in DOMAIN nodes : nodes'[n] = nodes[n]
    BY <1>15 DEF BulkCopyNodes
  <2>2. rels' \subseteq rels /\ Stay
    BY <2>1, <1>r
  <2> QED BY <2>2, <1>k
<1>16. ASSUME NEW t \in EdgeType, BulkCopyRels(t)
      PROVE  NoFalseReference'
  <2>1. /\ rels' = rels \union {e \in batch.edges : e.type = t} /\ nodes' = nodes
        /\ batch.nodes = {} /\ batch.placeholders = {}
    BY <1>16 DEF BulkCopyRels
  <2>2. \A r \in rels' : r \in rels \/ True(r)
    BY <2>1, <1>n
  <2> QED BY <2>1, <2>2, <1>k
<1>17. ASSUME WriteDone
      PROVE  NoFalseReference'
  <2>1. rels' \subseteq rels /\ nodes' = nodes
    BY <1>17 DEF WriteDone, store
  <2> QED BY <2>1, <1>k
<1>18. ASSUME NEW o \in OriginId, CollectOrphan(o)
      PROVE  NoFalseReference'
  <2>1. rels' \subseteq rels /\ nodes' = nodes
    BY <1>18 DEF CollectOrphan, store
  <2> QED BY <2>1, <1>k
<1>19. ASSUME GcDone
      PROVE  NoFalseReference'
  <2>1. rels' \subseteq rels /\ nodes' = nodes
    BY <1>19 DEF GcDone, store
  <2> QED BY <2>1, <1>k
<1>20. ASSUME Crash
      PROVE  NoFalseReference'
  <2>1. rels' \subseteq rels /\ nodes' = nodes
    BY <1>20 DEF Crash, store
  <2> QED BY <2>1, <1>k
<1>21. ASSUME NEW paths \in Paths, NEW mode \in {"keep", "prune", "gc"}, Start(paths, mode)
      PROVE  NoFalseReference'
  <2>1. rels' \subseteq rels /\ nodes' = nodes
    BY <1>21 DEF Start, store
  <2> QED BY <2>1, <1>k
<1>22. ASSUME NEW u \in Uri, NEW c \in Content, Edit(u, c)
      PROVE  NoFalseReference'
  <2>1. rels' \subseteq rels /\ nodes' = nodes
    BY <1>22 DEF Edit, store
  <2> QED BY <2>1, <1>k
<1>23. ASSUME UNCHANGED vars
      PROVE  NoFalseReference'
  <2>1. rels' \subseteq rels /\ nodes' = nodes
    BY <1>23 DEF vars, store
  <2> QED BY <2>1, <1>k
<1> QED BY [Next]_vars, <1>1, <1>2, <1>3, <1>4, <1>5, <1>6, <1>7, <1>8, <1>9, <1>10, <1>11, <1>12, <1>13, <1>14, <1>15, <1>16, <1>17, <1>18, <1>19, <1>20, <1>21, <1>22, <1>23 DEF Next, JobStep

(* No placeholder comes to name what its file does not refer to.           *)
LEMMA PlaceholderStep ==
  ASSUME LabelsAssumption, BoundsAssumption, SoundInv, OneOrigin, DistinctStems, TruthInv,
         [Next]_vars
  PROVE  PlaceholderJustified'
<1> USE DEF SoundInv, TypeOK, TruthInv
<1>k. ASSUME \A n \in DOMAIN nodes' \intersect Placeholder :
               \/ n \in DOMAIN nodes /\ nodes'[n].origin = nodes[n].origin
               \/ Justified(nodes'[n].origin, n)
      PROVE  PlaceholderJustified'
  <2>1. \A n \in DOMAIN nodes \intersect Placeholder : Justified(nodes[n].origin, n)
    BY DEF PlaceholderJustified, Justified
  <2>2. \A n \in DOMAIN nodes' \intersect Placeholder : Justified(nodes'[n].origin, n)
    BY <2>1, <1>k
  <2> QED BY <2>2 DEF PlaceholderJustified, Justified

<1>1. ASSUME NEW o \in OriginId, ScanUnchanged(o)
      PROVE  PlaceholderJustified'
  <2>1. nodes' = nodes
    BY <1>1 DEF ScanUnchanged, store
  <2> QED BY <2>1, <1>k
<1>2. ASSUME ScanFresh
      PROVE  PlaceholderJustified'
  <2>1. nodes' = nodes
    BY <1>2 DEF ScanFresh, store
  <2> QED BY <2>1, <1>k
<1>3. ASSUME NEW o \in OriginId, ScanChanged(o)
      PROVE  PlaceholderJustified'
  <2>1. nodes' = nodes
    BY <1>3 DEF ScanChanged, store
  <2> QED BY <2>1, <1>k
<1>4. ASSUME ReplaceDone
      PROVE  PlaceholderJustified'
  <2>1. nodes' = nodes
    BY <1>4 DEF ReplaceDone, store
  <2> QED BY <2>1, <1>k
<1>5. ASSUME NEW o \in OriginId, DeleteNodes(o)
      PROVE  PlaceholderJustified'
  <2>1. \A n \in DOMAIN nodes' : n \in DOMAIN nodes /\ nodes'[n] = nodes[n]
    BY <1>5 DEF DeleteNodes, DetachDelete, Restrict
  <2> QED BY <2>1, <1>k
<1>6. ASSUME DeleteRow
      PROVE  PlaceholderJustified'
  <2>1. nodes' = nodes
    BY <1>6 DEF DeleteRow, store
  <2> QED BY <2>1, <1>k
<1>7. ASSUME ScanDone
      PROVE  PlaceholderJustified'
  <2>1. nodes' = nodes
    BY <1>7 DEF ScanDone, store
  <2> QED BY <2>1, <1>k
<1>8. ASSUME PruneDone
      PROVE  PlaceholderJustified'
  <2>1. nodes' = nodes
    BY <1>8 DEF PruneDone, store
  <2> QED BY <2>1, <1>k
<1>9. ASSUME NEW i \in pending, Snapshot(i)
      PROVE  PlaceholderJustified'
  <2>1. nodes' = nodes
    BY <1>9 DEF Snapshot, store
  <2> QED BY <2>1, <1>k
<1>10. ASSUME Build
      PROVE  PlaceholderJustified'
  <2>1. nodes' = nodes
    BY <1>10 DEF Build, store
  <2> QED BY <2>1, <1>k
<1>11. ASSUME NEW r \in batch.nodes, WriteNode(r)
      PROVE  PlaceholderJustified'
  <2>1. r.id \notin Placeholder
    BY DEF Batch, SyntaxId, Placeholder
  <2>2. \A n \in DOMAIN nodes' : n # r.id => n \in DOMAIN nodes /\ nodes'[n] = nodes[n]
    BY <1>11 DEF WriteNode, Put
  <2> QED BY <2>1, <2>2, <1>k
<1>12. ASSUME NEW p \in batch.placeholders, WritePlaceholder(p)
      PROVE  PlaceholderJustified'
  <2>1. nodes'[p.id].origin = p.origin /\ Justified(p.origin, p.id)
    BY <1>12 DEF WritePlaceholder, Put, BatchTrue
  <2>2. \A n \in DOMAIN nodes' : n # p.id => n \in DOMAIN nodes /\ nodes'[n] = nodes[n]
    BY <1>12 DEF WritePlaceholder, Put
  <2> QED BY <2>1, <2>2, <1>k
<1>13. ASSUME NEW e \in batch.edges, WriteEdge(e)
      PROVE  PlaceholderJustified'
  <2>1. nodes' = nodes
    BY <1>13 DEF WriteEdge, store
  <2> QED BY <2>1, <1>k
<1>14. ASSUME BulkClear
      PROVE  PlaceholderJustified'
  <2>1. \A n \in DOMAIN nodes' : n \in DOMAIN nodes /\ nodes'[n] = nodes[n]
    BY <1>14 DEF BulkClear, DetachDelete, Restrict
  <2> QED BY <2>1, <1>k
<1>15. ASSUME BulkCopyNodes
      PROVE  PlaceholderJustified'
  <2> DEFINE row(id) == CHOOSE x \in batch.nodes \union batch.placeholders : x.id = id
  <2>1. ASSUME NEW n \in DOMAIN nodes' \intersect Placeholder
        PROVE  \/ n \in DOMAIN nodes /\ nodes'[n].origin = nodes[n].origin
               \/ Justified(nodes'[n].origin, n)
    <3>1. CASE n \in DOMAIN nodes
      <4>1. nodes'[n] = nodes[n]
        BY <1>15, <3>1 DEF BulkCopyNodes
      <4> QED BY <3>1, <4>1
    <3>2. CASE n \notin DOMAIN nodes
      <4>1. n \in BatchIds
        BY <1>15, <3>2 DEF BulkCopyNodes
      <4>2. row(n) \in batch.nodes \union batch.placeholders /\ row(n).id = n
        BY <4>1 DEF BatchIds
      <4>3. nodes'[n] = [origin |-> row(n).origin,
                         sha |-> IF n \in Placeholder THEN None ELSE row(n).sha]
        BY <1>15, <3>2, <4>1 DEF BulkCopyNodes
      <4> HIDE DEF row
      <4>4. row(n) \in batch.placeholders
        <5>1. n \notin SyntaxId
          BY DEF SyntaxId, Placeholder
        <5> QED BY <4>2, <5>1 DEF Batch
      <4> QED BY <4>2, <4>3, <4>4 DEF BatchTrue
    <3> QED BY <3>1, <3>2
  <2> QED BY <2>1, <1>k
<1>16. ASSUME NEW t \in EdgeType, BulkCopyRels(t)
      PROVE  PlaceholderJustified'
  <2>1. nodes' = nodes
    BY <1>16 DEF BulkCopyRels, store
  <2> QED BY <2>1, <1>k
<1>17. ASSUME WriteDone
      PROVE  PlaceholderJustified'
  <2>1. nodes' = nodes
    BY <1>17 DEF WriteDone, store
  <2> QED BY <2>1, <1>k
<1>18. ASSUME NEW o \in OriginId, CollectOrphan(o)
      PROVE  PlaceholderJustified'
  <2>1. nodes' = nodes
    BY <1>18 DEF CollectOrphan, store
  <2> QED BY <2>1, <1>k
<1>19. ASSUME GcDone
      PROVE  PlaceholderJustified'
  <2>1. nodes' = nodes
    BY <1>19 DEF GcDone, store
  <2> QED BY <2>1, <1>k
<1>20. ASSUME Crash
      PROVE  PlaceholderJustified'
  <2>1. nodes' = nodes
    BY <1>20 DEF Crash, store
  <2> QED BY <2>1, <1>k
<1>21. ASSUME NEW paths \in Paths, NEW mode \in {"keep", "prune", "gc"}, Start(paths, mode)
      PROVE  PlaceholderJustified'
  <2>1. nodes' = nodes
    BY <1>21 DEF Start, store
  <2> QED BY <2>1, <1>k
<1>22. ASSUME NEW u \in Uri, NEW c \in Content, Edit(u, c)
      PROVE  PlaceholderJustified'
  <2>1. nodes' = nodes
    BY <1>22 DEF Edit, store
  <2> QED BY <2>1, <1>k
<1>23. ASSUME UNCHANGED vars
      PROVE  PlaceholderJustified'
  <2>1. nodes' = nodes
    BY <1>23 DEF vars, store
  <2> QED BY <2>1, <1>k
<1> QED BY [Next]_vars, <1>1, <1>2, <1>3, <1>4, <1>5, <1>6, <1>7, <1>8, <1>9, <1>10, <1>11, <1>12, <1>13, <1>14, <1>15, <1>16, <1>17, <1>18, <1>19, <1>20, <1>21, <1>22, <1>23 DEF Next, JobStep

(* The IN_ORIGIN rel of a syntax node says what its origin column says.     *)
LEMMA InOriginStep ==
  ASSUME LabelsAssumption, BoundsAssumption, SoundInv, OneOrigin, DistinctStems, TruthInv,
         [Next]_vars
  PROVE  InOriginTrue'
<1> USE DEF SoundInv, TypeOK, TruthInv
<1>r. \A x \in inOrigin : x[1] \in DOMAIN nodes
  BY DEF NoDangling
<1>k. ASSUME \A x \in inOrigin' :
               \/ x[1] \notin Placeholder => x[2] = nodes'[x[1]].origin
               \/ /\ x \in inOrigin
                  /\ x[1] \notin Placeholder => nodes'[x[1]].origin = nodes[x[1]].origin
      PROVE  InOriginTrue'
  BY <1>k DEF InOriginTrue

<1>1. ASSUME NEW o \in OriginId, ScanUnchanged(o)
      PROVE  InOriginTrue'
  <2>1. nodes' = nodes /\ inOrigin' \subseteq inOrigin
    BY <1>1 DEF ScanUnchanged, store
  <2> QED BY <2>1, <1>k
<1>2. ASSUME ScanFresh
      PROVE  InOriginTrue'
  <2>1. nodes' = nodes /\ inOrigin' \subseteq inOrigin
    BY <1>2 DEF ScanFresh, store
  <2> QED BY <2>1, <1>k
<1>3. ASSUME NEW o \in OriginId, ScanChanged(o)
      PROVE  InOriginTrue'
  <2>1. nodes' = nodes /\ inOrigin' \subseteq inOrigin
    BY <1>3 DEF ScanChanged, store
  <2> QED BY <2>1, <1>k
<1>4. ASSUME ReplaceDone
      PROVE  InOriginTrue'
  <2>1. nodes' = nodes /\ inOrigin' \subseteq inOrigin
    BY <1>4 DEF ReplaceDone, store
  <2> QED BY <2>1, <1>k
<1>5. ASSUME NEW o \in OriginId, DeleteNodes(o)
      PROVE  InOriginTrue'
  <2>1. /\ inOrigin' \subseteq inOrigin
        /\ \A x \in inOrigin' : x[1] \in DOMAIN nodes /\ nodes'[x[1]] = nodes[x[1]]
    BY <1>5, <1>r DEF DeleteNodes, DetachDelete, Restrict
  <2> QED BY <2>1, <1>k
<1>6. ASSUME DeleteRow
      PROVE  InOriginTrue'
  <2>1. nodes' = nodes /\ inOrigin' \subseteq inOrigin
    BY <1>6 DEF DeleteRow, store
  <2> QED BY <2>1, <1>k
<1>7. ASSUME ScanDone
      PROVE  InOriginTrue'
  <2>1. nodes' = nodes /\ inOrigin' \subseteq inOrigin
    BY <1>7 DEF ScanDone, store
  <2> QED BY <2>1, <1>k
<1>8. ASSUME PruneDone
      PROVE  InOriginTrue'
  <2>1. nodes' = nodes /\ inOrigin' \subseteq inOrigin
    BY <1>8 DEF PruneDone, store
  <2> QED BY <2>1, <1>k
<1>9. ASSUME NEW i \in pending, Snapshot(i)
      PROVE  InOriginTrue'
  <2>1. nodes' = nodes /\ inOrigin' \subseteq inOrigin
    BY <1>9 DEF Snapshot, store
  <2> QED BY <2>1, <1>k
<1>10. ASSUME Build
      PROVE  InOriginTrue'
  <2>1. nodes' = nodes /\ inOrigin' \subseteq inOrigin
    BY <1>10 DEF Build, store
  <2> QED BY <2>1, <1>k
<1>11. ASSUME NEW r \in batch.nodes, WriteNode(r)
      PROVE  InOriginTrue'
  <2>1. r.id \in DOMAIN nodes /\ r.id \notin Placeholder => nodes[r.id].origin = r.origin
    <3>1. r.origin \in origins /\ UriOf(r.origin, r.id)
      BY DEF BatchSound, BatchTrue
    <3> QED BY <3>1, OriginOfId
  <2>2. /\ inOrigin' = inOrigin \union {<<r.id, r.origin>>} /\ nodes'[r.id].origin = r.origin
        /\ \A n \in DOMAIN nodes : n # r.id => nodes'[n] = nodes[n]
    BY <1>11 DEF WriteNode, Put
  <2>3. \A x \in inOrigin : x[1] \notin Placeholder => nodes'[x[1]].origin = nodes[x[1]].origin
    BY <1>r, <2>1, <2>2
  <2>4. \A x \in inOrigin' : x \in inOrigin \/ x[2] = nodes'[x[1]].origin
    BY <2>2
  <2> QED BY <2>3, <2>4, <1>k
<1>12. ASSUME NEW p \in batch.placeholders, WritePlaceholder(p)
      PROVE  InOriginTrue'
  <2>1. p.id \in Placeholder
    BY DEF Batch
  <2>2. /\ inOrigin' = inOrigin \union {<<p.id, p.origin>>}
        /\ \A n \in DOMAIN nodes : n # p.id => nodes'[n] = nodes[n]
    BY <1>12 DEF WritePlaceholder, Put
  <2>3. \A x \in inOrigin' :
          x[1] \notin Placeholder => x \in inOrigin /\ nodes'[x[1]].origin = nodes[x[1]].origin
    BY <1>r, <2>1, <2>2
  <2> QED BY <2>3, <1>k
<1>13. ASSUME NEW e \in batch.edges, WriteEdge(e)
      PROVE  InOriginTrue'
  <2>1. nodes' = nodes /\ inOrigin' \subseteq inOrigin
    BY <1>13 DEF WriteEdge, store
  <2> QED BY <2>1, <1>k
<1>14. ASSUME BulkClear
      PROVE  InOriginTrue'
  <2>1. /\ inOrigin' \subseteq inOrigin
        /\ \A x \in inOrigin' : x[1] \in DOMAIN nodes /\ nodes'[x[1]] = nodes[x[1]]
    BY <1>14, <1>r DEF BulkClear, DetachDelete, Restrict
  <2> QED BY <2>1, <1>k
<1>15. ASSUME BulkCopyNodes
      PROVE  InOriginTrue'
  <2> DEFINE row(id) == CHOOSE x \in batch.nodes \union batch.placeholders : x.id = id
  <2>1. ASSUME NEW n \in BatchIds \ Placeholder
        PROVE  row(n).origin = nodes'[n].origin
    <3>1. row(n) \in batch.nodes \union batch.placeholders /\ row(n).id = n
      BY DEF BatchIds
    <3>2. nodes'[n] = IF n \in DOMAIN nodes THEN nodes[n]
                      ELSE [origin |-> row(n).origin, sha |-> row(n).sha]
      BY <1>15, <2>1 DEF BulkCopyNodes
    <3> HIDE DEF row
    <3>3. row(n) \in batch.nodes
      BY <3>1 DEF Batch
    <3>4. row(n).origin \in origins /\ UriOf(row(n).origin, n)
      BY <3>1, <3>3 DEF BatchSound, BatchTrue
    <3>5. n \in DOMAIN nodes => nodes[n].origin = row(n).origin
      BY <3>4, OriginOfId
    <3> QED BY <3>2, <3>5
  <2>2. /\ inOrigin' = inOrigin \union {<<id, row(id).origin>> : id \in BatchIds}
        /\ \A n \in DOMAIN nodes : nodes'[n] = nodes[n]
    BY <1>15 DEF BulkCopyNodes
  <2> HIDE DEF row
  <2>3. \A x \in inOrigin' : x \in inOrigin \/ (x[1] \notin Placeholder => x[2] = nodes'[x[1]].origin)
    BY <2>1, <2>2
  <2>4. \A x \in inOrigin : nodes'[x[1]] = nodes[x[1]]
    BY <1>r, <2>2
  <2> QED BY <2>3, <2>4, <1>k
<1>16. ASSUME NEW t \in EdgeType, BulkCopyRels(t)
      PROVE  InOriginTrue'
  <2>1. nodes' = nodes /\ inOrigin' \subseteq inOrigin
    BY <1>16 DEF BulkCopyRels, store
  <2> QED BY <2>1, <1>k
<1>17. ASSUME WriteDone
      PROVE  InOriginTrue'
  <2>1. nodes' = nodes /\ inOrigin' \subseteq inOrigin
    BY <1>17 DEF WriteDone, store
  <2> QED BY <2>1, <1>k
<1>18. ASSUME NEW o \in OriginId, CollectOrphan(o)
      PROVE  InOriginTrue'
  <2>1. nodes' = nodes /\ inOrigin' \subseteq inOrigin
    BY <1>18 DEF CollectOrphan, store
  <2> QED BY <2>1, <1>k
<1>19. ASSUME GcDone
      PROVE  InOriginTrue'
  <2>1. nodes' = nodes /\ inOrigin' \subseteq inOrigin
    BY <1>19 DEF GcDone, store
  <2> QED BY <2>1, <1>k
<1>20. ASSUME Crash
      PROVE  InOriginTrue'
  <2>1. nodes' = nodes /\ inOrigin' \subseteq inOrigin
    BY <1>20 DEF Crash, store
  <2> QED BY <2>1, <1>k
<1>21. ASSUME NEW paths \in Paths, NEW mode \in {"keep", "prune", "gc"}, Start(paths, mode)
      PROVE  InOriginTrue'
  <2>1. nodes' = nodes /\ inOrigin' \subseteq inOrigin
    BY <1>21 DEF Start, store
  <2> QED BY <2>1, <1>k
<1>22. ASSUME NEW u \in Uri, NEW c \in Content, Edit(u, c)
      PROVE  InOriginTrue'
  <2>1. nodes' = nodes /\ inOrigin' \subseteq inOrigin
    BY <1>22 DEF Edit, store
  <2> QED BY <2>1, <1>k
<1>23. ASSUME UNCHANGED vars
      PROVE  InOriginTrue'
  <2>1. nodes' = nodes /\ inOrigin' \subseteq inOrigin
    BY <1>23 DEF vars, store
  <2> QED BY <2>1, <1>k
<1> QED BY [Next]_vars, <1>1, <1>2, <1>3, <1>4, <1>5, <1>6, <1>7, <1>8, <1>9, <1>10, <1>11, <1>12, <1>13, <1>14, <1>15, <1>16, <1>17, <1>18, <1>19, <1>20, <1>21, <1>22, <1>23 DEF Next, JobStep

LEMMA TruthStep ==
  ASSUME LabelsAssumption, BoundsAssumption, SoundInv, OneOrigin, TruthInv, [Next]_vars
  PROVE  TruthInv'
<1>1. DistinctStems' <=> DistinctStems
  BY StemStays DEF DistinctStems
<1>2. CASE DistinctStems
  BY <1>2, OwnersStep, RowsStep, InOriginStep, BatchStep, StaleStep, ReferenceStep,
     PlaceholderStep DEF TruthInv
<1>3. CASE ~DistinctStems
  BY <1>1, <1>3 DEF TruthInv
<1> QED BY <1>2, <1>3

LEMMA TruthInit ==
  ASSUME Init
  PROVE  OneOrigin /\ TruthInv
<1>1. /\ DOMAIN nodes = {} /\ inOrigin = {} /\ rels = {} /\ origins = {}
      /\ touched = {} /\ pc = "idle" /\ DOMAIN call.paths = {}
  BY DEF Init, EmptyMap
<1>2. batch.nodes = {} /\ batch.placeholders = {} /\ batch.edges = {}
  BY DEF Init, EmptyBatch
<1>3. OneOrigin
  BY <1>1 DEF OneOrigin
<1>4. OwnersTrue /\ RowsTrue /\ InOriginTrue /\ StaleTrue
  BY <1>1 DEF OwnersTrue, RowsTrue, InOriginTrue, StaleTrue
<1>5. BatchTrue
  BY <1>2 DEF BatchTrue
<1>6. NoFalseReference /\ PlaceholderJustified
  BY <1>1 DEF NoFalseReference, PlaceholderJustified
<1> QED BY <1>3, <1>4, <1>5, <1>6 DEF TruthInv

LEMMA Truth ==
  ASSUME LabelsAssumption, BoundsAssumption
  PROVE  Spec => [](SoundInv /\ OneOrigin /\ TruthInv)
<1> DEFINE Inv == SoundInv /\ OneOrigin /\ TruthInv
<1>1. Init => Inv
  BY SoundInit, TruthInit
<1>2. Inv /\ [Next]_vars => Inv'
  BY TypeStep, ControlStep, SnapshotsStep, SoundStep, OriginStep, TruthStep DEF SoundInv
<1> HIDE DEF Inv
<1>3. Spec => []Inv
  BY <1>1, <1>2, PTL DEF Spec
<1> QED BY <1>3 DEF Inv

(* When no two files have one stem: at every step, cut short or not, an    *)
(* edge between two stored syntax nodes goes from one that refers to a     *)
(* symbol to one that defines it, as their rows were lifted, and every     *)
(* placeholder is for a reference of the file its row belongs to.  An edge *)
(* is resolved over the whole corpus and written with the batch, so this   *)
(* needs that an id's row is always its file's: that no file's rows are    *)
(* written while another origin of it has some.                            *)
THEOREM ReferencesAreTrue ==
  ASSUME LabelsAssumption, BoundsAssumption
  PROVE  Spec => []ReferencesTrue
<1>1. TruthInv => ReferencesTrue
  BY DEF TruthInv, ReferencesTrue, NoFalseReference, PlaceholderJustified
<1> QED BY <1>1, Truth, PTL

-----------------------------------------------------------------------------
(* What an extract leaves alone.                                           *)

Unaffected ==
  /\ \A n \in DOMAIN nodes : Untouched(n) => n \in DOMAIN nodes' /\ nodes'[n] = nodes[n]
  /\ \A r \in rels : Untouched(r.src) /\ Untouched(r.dst) => r \in rels'

LEMMA UntouchedStep ==
  ASSUME LabelsAssumption, BoundsAssumption, SoundInv, OneOrigin, DistinctStems, TruthInv,
         [Next]_vars
  PROVE  Unaffected
<1> USE DEF SoundInv, TypeOK, TruthInv
(* A statement that only writes leaves the other rows as they are;         *)
<1>k. ASSUME rels \subseteq rels', DOMAIN nodes \subseteq DOMAIN nodes',
             \A n \in DOMAIN nodes \ Placeholder : nodes'[n] = nodes[n]
      PROVE  Unaffected
  BY <1>k DEF Unaffected, Untouched
(* one that deletes does not delete what is to be left alone.              *)
<1>d. ASSUME NEW ids, DetachDelete(ids), \A n \in ids : ~Untouched(n)
      PROVE  Unaffected
  BY <1>d DEF Unaffected, DetachDelete, Restrict, Without, Untouched

<1>1. ASSUME NEW o \in OriginId, ScanUnchanged(o)
      PROVE  Unaffected
  <2>1. nodes' = nodes /\ rels \subseteq rels'
    BY <1>1 DEF ScanUnchanged, store
  <2> QED BY <2>1, <1>k
<1>2. ASSUME ScanFresh
      PROVE  Unaffected
  <2>1. nodes' = nodes /\ rels \subseteq rels'
    BY <1>2 DEF ScanFresh, store
  <2> QED BY <2>1, <1>k
<1>3. ASSUME NEW o \in OriginId, ScanChanged(o)
      PROVE  Unaffected
  <2>1. nodes' = nodes /\ rels \subseteq rels'
    BY <1>3 DEF ScanChanged, store
  <2> QED BY <2>1, <1>k
<1>4. ASSUME ReplaceDone
      PROVE  Unaffected
  <2>1. nodes' = nodes /\ rels \subseteq rels'
    BY <1>4 DEF ReplaceDone, store
  <2> QED BY <2>1, <1>k
<1>5. ASSUME NEW o \in OriginId, DeleteNodes(o)
      PROVE  Unaffected
  <2>1. ASSUME NEW n \in NodesOf(o), Untouched(n)
        PROVE  FALSE
    <3>1. nodes[n].origin = o /\ o \in stale /\ pc \in {"replace", "prune"}
      BY <1>5 DEF DeleteNodes, NodesOf
    <3>2. CASE pc = "replace"
      BY <2>1, <3>1, <3>2 DEF StaleTrue, Untouched
    <3>3. CASE pc = "prune"
      BY <2>1, <3>1, <3>3 DEF StaleTrue, Untouched
    <3> QED BY <3>1, <3>2, <3>3
  <2>2. DetachDelete(NodesOf(o))
    BY <1>5 DEF DeleteNodes
  <2> QED BY <2>1, <2>2, <1>d
<1>6. ASSUME DeleteRow
      PROVE  Unaffected
  <2>1. nodes' = nodes /\ rels \subseteq rels'
    BY <1>6 DEF DeleteRow, store
  <2> QED BY <2>1, <1>k
<1>7. ASSUME ScanDone
      PROVE  Unaffected
  <2>1. nodes' = nodes /\ rels \subseteq rels'
    BY <1>7 DEF ScanDone, store
  <2> QED BY <2>1, <1>k
<1>8. ASSUME PruneDone
      PROVE  Unaffected
  <2>1. nodes' = nodes /\ rels \subseteq rels'
    BY <1>8 DEF PruneDone, store
  <2> QED BY <2>1, <1>k
<1>9. ASSUME NEW i \in pending, Snapshot(i)
      PROVE  Unaffected
  <2>1. nodes' = nodes /\ rels \subseteq rels'
    BY <1>9 DEF Snapshot, store
  <2> QED BY <2>1, <1>k
<1>10. ASSUME Build
      PROVE  Unaffected
  <2>1. nodes' = nodes /\ rels \subseteq rels'
    BY <1>10 DEF Build, store
  <2> QED BY <2>1, <1>k
<1>11. ASSUME NEW r \in batch.nodes, WriteNode(r)
      PROVE  Unaffected
  <2>1. r.id \in DOMAIN nodes => nodes'[r.id] = nodes[r.id]
    <3>1. r.id \in SyntaxId /\ r.id \notin Placeholder /\ r.origin \in origins
      BY DEF Batch, SyntaxId, Placeholder, BatchSound
    <3>2. UriOf(r.origin, r.id) /\ r.sha = r.origin.sha
      BY DEF BatchTrue
    <3>3. r.id \in DOMAIN nodes => nodes[r.id] = [origin |-> r.origin, sha |-> r.sha]
      BY <3>1, <3>2, OriginOfId
    <3>4. nodes'[r.id] = [origin |-> r.origin, sha |-> r.sha]
      BY <1>11 DEF WriteNode, Put
    <3> QED BY <3>3, <3>4
  <2>2. /\ rels' = rels /\ DOMAIN nodes \subseteq DOMAIN nodes'
        /\ \A n \in DOMAIN nodes : n # r.id => nodes'[n] = nodes[n]
    BY <1>11 DEF WriteNode, Put
  <2> QED BY <2>1, <2>2, <1>k
<1>12. ASSUME NEW p \in batch.placeholders, WritePlaceholder(p)
      PROVE  Unaffected
  <2>1. p.id \in Placeholder
    BY DEF Batch
  <2>2. /\ rels' = rels /\ DOMAIN nodes \subseteq DOMAIN nodes'
        /\ \A n \in DOMAIN nodes : n # p.id => nodes'[n] = nodes[n]
    BY <1>12 DEF WritePlaceholder, Put
  <2> QED BY <2>1, <2>2, <1>k
<1>13. ASSUME NEW e \in batch.edges, WriteEdge(e)
      PROVE  Unaffected
  <2>1. nodes' = nodes /\ rels \subseteq rels'
    BY <1>13 DEF WriteEdge, store
  <2> QED BY <2>1, <1>k
<1>14. ASSUME BulkClear
      PROVE  Unaffected
  <2>1. ASSUME NEW n \in BatchIds, Untouched(n)
        PROVE  FALSE
    <3>1. n \in DOMAIN nodes \ Placeholder
      BY <2>1 DEF Untouched
    <3>2. PICK r \in batch.nodes : r.id = n
      BY <3>1 DEF BatchIds, Batch
    <3>3. r.origin \in origins /\ UriOf(r.origin, n) /\ NodesOf(r.origin) = {}
      BY <1>14, <3>2 DEF BulkClear, BatchSound, BatchTrue
    <3>4. nodes[n].origin = r.origin
      BY <3>1, <3>3, OriginOfId
    <3> QED BY <3>1, <3>3, <3>4 DEF NodesOf
  <2>2. DetachDelete(BatchIds)
    BY <1>14 DEF BulkClear
  <2> QED BY <2>1, <2>2, <1>d
<1>15. ASSUME BulkCopyNodes
      PROVE  Unaffected
  <2>1. /\ rels' = rels /\ DOMAIN nodes \subseteq DOMAIN nodes'
        /\ \A n \in DOMAIN nodes : nodes'[n] = nodes[n]
    BY <1>15 DEF BulkCopyNodes
  <2> QED BY <2>1, <1>k
<1>16. ASSUME NEW t \in EdgeType, BulkCopyRels(t)
      PROVE  Unaffected
  <2>1. nodes' = nodes /\ rels \subseteq rels'
    BY <1>16 DEF BulkCopyRels, store
  <2> QED BY <2>1, <1>k
<1>17. ASSUME WriteDone
      PROVE  Unaffected
  <2>1. nodes' = nodes /\ rels \subseteq rels'
    BY <1>17 DEF WriteDone, store
  <2> QED BY <2>1, <1>k
<1>18. ASSUME NEW o \in OriginId, CollectOrphan(o)
      PROVE  Unaffected
  <2>1. nodes' = nodes /\ rels \subseteq rels'
    BY <1>18 DEF CollectOrphan, store
  <2> QED BY <2>1, <1>k
<1>19. ASSUME GcDone
      PROVE  Unaffected
  <2>1. nodes' = nodes /\ rels \subseteq rels'
    BY <1>19 DEF GcDone, store
  <2> QED BY <2>1, <1>k
<1>20. ASSUME Crash
      PROVE  Unaffected
  <2>1. nodes' = nodes /\ rels \subseteq rels'
    BY <1>20 DEF Crash, store
  <2> QED BY <2>1, <1>k
<1>21. ASSUME NEW paths \in Paths, NEW mode \in {"keep", "prune", "gc"}, Start(paths, mode)
      PROVE  Unaffected
  <2>1. nodes' = nodes /\ rels \subseteq rels'
    BY <1>21 DEF Start, store
  <2> QED BY <2>1, <1>k
<1>22. ASSUME NEW u \in Uri, NEW c \in Content, Edit(u, c)
      PROVE  Unaffected
  <2>1. nodes' = nodes /\ rels \subseteq rels'
    BY <1>22 DEF Edit, store
  <2> QED BY <2>1, <1>k
<1>23. ASSUME UNCHANGED vars
      PROVE  Unaffected
  <2>1. nodes' = nodes /\ rels \subseteq rels'
    BY <1>23 DEF vars, store
  <2> QED BY <2>1, <1>k
<1> QED BY [Next]_vars, <1>1, <1>2, <1>3, <1>4, <1>5, <1>6, <1>7, <1>8, <1>9, <1>10, <1>11, <1>12, <1>13, <1>14, <1>15, <1>16, <1>17, <1>18, <1>19, <1>20, <1>21, <1>22, <1>23 DEF Next, JobStep

(* No statement of any extract, its cleanup after a crash included, changes*)
(* or deletes a row of an up to date file that the call does not sweep, nor*)
(* a rel between two such rows: the sweep is of origins that are out of    *)
(* date or outside the call, and an id that the batch clears or overwrites *)
(* is of a file whose rows are gone.                                       *)
THEOREM UntouchedStay ==
  ASSUME LabelsAssumption, BoundsAssumption
  PROVE  Spec => UntouchedUnaffected
<1>1. SoundInv /\ OneOrigin /\ TruthInv /\ [Next]_vars =>
        [DistinctStems =>
           /\ \A n \in DOMAIN nodes : Untouched(n) => n \in DOMAIN nodes' /\ nodes'[n] = nodes[n]
           /\ \A r \in rels : Untouched(r.src) /\ Untouched(r.dst) => r \in rels']_vars
  BY UntouchedStep DEF Unaffected
<1> QED BY <1>1, Truth, PTL DEF Spec, UntouchedUnaffected

-----------------------------------------------------------------------------
(* What is written whole.                                                  *)

(* The syntax nodes of an origin, and what a step leaves as it was: them,  *)
(* their IN_ORIGIN rels and the rels between them.                         *)
Own(o) == NodesOf(o) \ Placeholder

Stays(o) ==
  /\ \A n \in Own(o) : n \in DOMAIN nodes' /\ nodes'[n] = nodes[n]
  /\ \A n \in Own(o) : <<n, o>> \in inOrigin => <<n, o>> \in inOrigin'
  /\ \A r \in rels : r.src \in Own(o) /\ r.dst \in Own(o) => r \in rels'

LEMMA IdStays ==
  ASSUME stem' = stem, NEW o, NEW p
  PROVE  IdOf(o, p)' = IdOf(o, p) /\ Child(o, p)' = Child(o, p)
BY DEF IdOf, Child

LEMMA ExtractedStays ==
  ASSUME stem' = stem, call' = call, owner' = owner, NEW i \in DOMAIN call.paths
  PROVE  Extracted(i)' = Extracted(i) /\ (Owned(i)' <=> Owned(i))
BY PrefixStays DEF Extracted, Owned

(* An origin's row stays, unless it is being swept or nothing is its own.  *)
LEMMA OriginsStay ==
  ASSUME SoundInv, [Next]_vars, NEW o \in origins \ stale, NodesOf(o) # {}
  PROVE  o \in origins'
BY DEF Next, JobStep, vars, store, Start, ScanUnchanged, ScanFresh, ScanChanged, ReplaceDone,
       DeleteNodes, DeleteRow, ScanDone, PruneDone, Snapshot, Build, WriteNode,
       WritePlaceholder, WriteEdge, BulkClear, BulkCopyNodes, BulkCopyRels, WriteDone,
       CollectOrphan, Orphans, GcDone, Crash, Edit, SoundInv, Control

(* No statement takes anything of the rows of an origin that it does not   *)
(* sweep.                                                                  *)
LEMMA RowsStay ==
  ASSUME LabelsAssumption, BoundsAssumption, SoundInv, OneOrigin, DistinctStems, TruthInv,
         [Next]_vars, NEW o \in origins \ stale
  PROVE  Stays(o)
<1> USE DEF SoundInv, TypeOK, Control, TruthInv
(* A statement that only writes leaves the other rows as they are;         *)
<1>k. ASSUME rels \subseteq rels', inOrigin \subseteq inOrigin', DOMAIN nodes \subseteq DOMAIN nodes',
             \A n \in DOMAIN nodes \ Placeholder : nodes'[n] = nodes[n]
      PROVE  Stays(o)
  BY <1>k DEF Stays, Own, NodesOf
(* one that deletes deletes the rows of another origin.                    *)
<1>d. ASSUME NEW ids, DetachDelete(ids), \A n \in ids : n \notin Own(o)
      PROVE  Stays(o)
  <2>1. \A n \in Own(o) : n \in DOMAIN nodes' /\ nodes'[n] = nodes[n]
    BY <1>d DEF DetachDelete, Restrict, Own, NodesOf
  <2>2. \A n \in Own(o) : <<n, o>> \in inOrigin => <<n, o>> \in inOrigin'
    BY <1>d DEF DetachDelete
  <2>3. \A r \in rels : r.src \in Own(o) /\ r.dst \in Own(o) => r \in rels'
    BY <1>d DEF DetachDelete, Without
  <2> QED BY <2>1, <2>2, <2>3 DEF Stays

<1>1. ASSUME NEW x \in OriginId, ScanUnchanged(x)
      PROVE  Stays(o)
  <2>1. nodes' = nodes /\ inOrigin' = inOrigin /\ rels \subseteq rels'
    BY <1>1 DEF ScanUnchanged, store
  <2> QED BY <2>1, <1>k
<1>2. ASSUME ScanFresh
      PROVE  Stays(o)
  <2>1. nodes' = nodes /\ inOrigin' = inOrigin /\ rels \subseteq rels'
    BY <1>2 DEF ScanFresh, store
  <2> QED BY <2>1, <1>k
<1>3. ASSUME NEW x \in OriginId, ScanChanged(x)
      PROVE  Stays(o)
  <2>1. nodes' = nodes /\ inOrigin' = inOrigin /\ rels \subseteq rels'
    BY <1>3 DEF ScanChanged, store
  <2> QED BY <2>1, <1>k
<1>4. ASSUME ReplaceDone
      PROVE  Stays(o)
  <2>1. nodes' = nodes /\ inOrigin' = inOrigin /\ rels \subseteq rels'
    BY <1>4 DEF ReplaceDone, store
  <2> QED BY <2>1, <1>k
<1>5. ASSUME NEW x \in OriginId, DeleteNodes(x)
      PROVE  Stays(o)
  <2>1. x \in stale /\ DetachDelete(NodesOf(x))
    BY <1>5 DEF DeleteNodes
  <2>2. \A n \in NodesOf(x) : n \notin Own(o)
    BY <2>1 DEF Own, NodesOf
  <2> QED BY <2>1, <2>2, <1>d
<1>6. ASSUME DeleteRow
      PROVE  Stays(o)
  <2>1. victim # o /\ nodes' = nodes /\ rels' = rels /\ inOrigin' = {p \in inOrigin : p[2] # victim}
    BY <1>6 DEF DeleteRow
  <2> QED BY <2>1 DEF Stays, Own, NodesOf
<1>7. ASSUME ScanDone
      PROVE  Stays(o)
  <2>1. nodes' = nodes /\ inOrigin' = inOrigin /\ rels \subseteq rels'
    BY <1>7 DEF ScanDone, store
  <2> QED BY <2>1, <1>k
<1>8. ASSUME PruneDone
      PROVE  Stays(o)
  <2>1. nodes' = nodes /\ inOrigin' = inOrigin /\ rels \subseteq rels'
    BY <1>8 DEF PruneDone, store
  <2> QED BY <2>1, <1>k
<1>9. ASSUME NEW i \in pending, Snapshot(i)
      PROVE  Stays(o)
  <2>1. nodes' = nodes /\ inOrigin' = inOrigin /\ rels \subseteq rels'
    BY <1>9 DEF Snapshot, store
  <2> QED BY <2>1, <1>k
<1>10. ASSUME Build
      PROVE  Stays(o)
  <2>1. nodes' = nodes /\ inOrigin' = inOrigin /\ rels \subseteq rels'
    BY <1>10 DEF Build, store
  <2> QED BY <2>1, <1>k
<1>11. ASSUME NEW r \in batch.nodes, WriteNode(r)
      PROVE  Stays(o)
  <2>1. r.id \in DOMAIN nodes => nodes'[r.id] = nodes[r.id]
    <3>1. r.id \in SyntaxId /\ r.id \notin Placeholder /\ r.origin \in origins
      BY DEF Batch, SyntaxId, Placeholder, BatchSound
    <3>2. UriOf(r.origin, r.id) /\ r.sha = r.origin.sha
      BY DEF BatchTrue
    <3>3. r.id \in DOMAIN nodes => nodes[r.id] = [origin |-> r.origin, sha |-> r.sha]
      BY <3>1, <3>2, OriginOfId
    <3>4. nodes'[r.id] = [origin |-> r.origin, sha |-> r.sha]
      BY <1>11 DEF WriteNode, Put
    <3> QED BY <3>3, <3>4
  <2>2. /\ rels' = rels /\ inOrigin \subseteq inOrigin' /\ DOMAIN nodes \subseteq DOMAIN nodes'
        /\ \A n \in DOMAIN nodes : n # r.id => nodes'[n] = nodes[n]
    BY <1>11 DEF WriteNode, Put
  <2> QED BY <2>1, <2>2, <1>k
<1>12. ASSUME NEW p \in batch.placeholders, WritePlaceholder(p)
      PROVE  Stays(o)
  <2>1. p.id \in Placeholder
    BY DEF Batch
  <2>2. /\ rels' = rels /\ inOrigin \subseteq inOrigin' /\ DOMAIN nodes \subseteq DOMAIN nodes'
        /\ \A n \in DOMAIN nodes : n # p.id => nodes'[n] = nodes[n]
    BY <1>12 DEF WritePlaceholder, Put
  <2> QED BY <2>1, <2>2, <1>k
<1>13. ASSUME NEW e \in batch.edges, WriteEdge(e)
      PROVE  Stays(o)
  <2>1. nodes' = nodes /\ inOrigin' = inOrigin /\ rels \subseteq rels'
    BY <1>13 DEF WriteEdge, store
  <2> QED BY <2>1, <1>k
<1>14. ASSUME BulkClear
      PROVE  Stays(o)
  <2>1. ASSUME NEW n \in BatchIds, n \in Own(o)
        PROVE  FALSE
    <3>1. n \in DOMAIN nodes \ Placeholder /\ nodes[n].origin = o
      BY <2>1 DEF Own, NodesOf
    <3>2. PICK r \in batch.nodes : r.id = n
      BY <3>1 DEF BatchIds, Batch
    <3>3. r.origin \in origins /\ UriOf(r.origin, n) /\ NodesOf(r.origin) = {}
      BY <1>14, <3>2 DEF BulkClear, BatchSound, BatchTrue
    <3>4. nodes[n].origin = r.origin
      BY <3>1, <3>3, OriginOfId
    <3> QED BY <3>1, <3>3, <3>4 DEF NodesOf
  <2>2. DetachDelete(BatchIds)
    BY <1>14 DEF BulkClear
  <2> QED BY <2>1, <2>2, <1>d
<1>15. ASSUME BulkCopyNodes
      PROVE  Stays(o)
  <2>1. /\ rels' = rels /\ inOrigin \subseteq inOrigin' /\ DOMAIN nodes \subseteq DOMAIN nodes'
        /\ \A n \in DOMAIN nodes : nodes'[n] = nodes[n]
    BY <1>15 DEF BulkCopyNodes
  <2> QED BY <2>1, <1>k
<1>16. ASSUME NEW t \in EdgeType, BulkCopyRels(t)
      PROVE  Stays(o)
  <2>1. nodes' = nodes /\ inOrigin' = inOrigin /\ rels \subseteq rels'
    BY <1>16 DEF BulkCopyRels, store
  <2> QED BY <2>1, <1>k
<1>17. ASSUME WriteDone
      PROVE  Stays(o)
  <2>1. nodes' = nodes /\ inOrigin' = inOrigin /\ rels \subseteq rels'
    BY <1>17 DEF WriteDone, store
  <2> QED BY <2>1, <1>k
<1>18. ASSUME NEW x \in OriginId, CollectOrphan(x)
      PROVE  Stays(o)
  <2>1. nodes' = nodes /\ rels' = rels /\ inOrigin' = {p \in inOrigin : p[2] # x} /\ NodesOf(x) = {}
    BY <1>18 DEF CollectOrphan, Orphans
  <2>2. x = o => Own(o) = {}
    BY <2>1 DEF Own
  <2> QED BY <2>1, <2>2 DEF Stays, Own, NodesOf
<1>19. ASSUME GcDone
      PROVE  Stays(o)
  <2>1. nodes' = nodes /\ inOrigin' = inOrigin /\ rels \subseteq rels'
    BY <1>19 DEF GcDone, store
  <2> QED BY <2>1, <1>k
<1>20. ASSUME Crash
      PROVE  Stays(o)
  <2>1. nodes' = nodes /\ inOrigin' = inOrigin /\ rels \subseteq rels'
    BY <1>20 DEF Crash, store
  <2> QED BY <2>1, <1>k
<1>21. ASSUME NEW paths \in Paths, NEW mode \in {"keep", "prune", "gc"}, Start(paths, mode)
      PROVE  Stays(o)
  <2>1. nodes' = nodes /\ inOrigin' = inOrigin /\ rels \subseteq rels'
    BY <1>21 DEF Start, store
  <2> QED BY <2>1, <1>k
<1>22. ASSUME NEW u \in Uri, NEW c \in Content, Edit(u, c)
      PROVE  Stays(o)
  <2>1. nodes' = nodes /\ inOrigin' = inOrigin /\ rels \subseteq rels'
    BY <1>22 DEF Edit, store
  <2> QED BY <2>1, <1>k
<1>23. ASSUME UNCHANGED vars
      PROVE  Stays(o)
  <2>1. nodes' = nodes /\ inOrigin' = inOrigin /\ rels \subseteq rels'
    BY <1>23 DEF vars, store
  <2> QED BY <2>1, <1>k
<1> QED BY [Next]_vars, <1>1, <1>2, <1>3, <1>4, <1>5, <1>6, <1>7, <1>8, <1>9, <1>10, <1>11, <1>12, <1>13, <1>14, <1>15, <1>16, <1>17, <1>18, <1>19, <1>20, <1>21, <1>22, <1>23 DEF Next, JobStep

(* So what is written stays written, and what is whole stays whole.        *)
LEMMA WrittenStays ==
  ASSUME SoundInv, stem' = stem, NEW o, Stays(o)
  PROVE  /\ \A p : RowWritten(o, p) => RowWritten(o, p)' /\ IdOf(o, p) \in Own(o)
         /\ \A p : RowWritten(o, 1) /\ RowWritten(o, p) /\ Child(o, p) \in rels => Child(o, p)' \in rels'
<1>1. ASSUME NEW p, RowWritten(o, p)
      PROVE  RowWritten(o, p)' /\ IdOf(o, p) \in Own(o)
  <2> DEFINE n == IdOf(o, p)
  <2>1. n \in DOMAIN nodes /\ nodes[n] = [origin |-> o, sha |-> o.sha] /\ <<n, o>> \in inOrigin
    BY <1>1 DEF RowWritten
  <2>2. n \notin Placeholder
    BY DEF IdOf, Placeholder
  <2>3. n \in Own(o)
    BY <2>1, <2>2 DEF Own, NodesOf
  <2>4. n \in DOMAIN nodes' /\ nodes'[n] = [origin |-> o, sha |-> o.sha] /\ <<n, o>> \in inOrigin'
    BY <2>1, <2>3 DEF Stays
  <2> QED BY <2>3, <2>4, IdStays DEF RowWritten
<1>2. ASSUME NEW p, RowWritten(o, 1), RowWritten(o, p), Child(o, p) \in rels
      PROVE  Child(o, p)' \in rels'
  <2>1. Child(o, p).src \in Own(o) /\ Child(o, p).dst \in Own(o)
    BY <1>1, <1>2 DEF Child
  <2> QED BY <1>2, <2>1, IdStays DEF Stays
<1> QED BY <1>1, <1>2

LEMMA WholeStays ==
  ASSUME LabelsAssumption, BoundsAssumption, SoundInv, OneOrigin, DistinctStems, TruthInv,
         [Next]_vars, NEW o \in origins \ stale, Whole(o)
  PROVE  Whole(o)' /\ NodesOf(o) # {}
<1>1. o.sha \in Content
  BY DEF SoundInv, TypeOK, OriginId
<1>2. 1 \in DOMAIN Labels[o.sha]
  BY <1>1, LabelsTyped
<1>3. \A p \in DOMAIN Labels[o.sha] : RowWritten(o, p) /\ (p # 1 => Child(o, p) \in rels)
  BY DEF Whole
<1>4. Stays(o) /\ stem' = stem
  BY RowsStay, StemStays
<1>5. NodesOf(o) # {}
  BY <1>2, <1>3, <1>4, WrittenStays DEF Own
<1>6. o \in origins'
  BY <1>5, OriginsStay
<1>7. \A p \in DOMAIN Labels[o.sha] : RowWritten(o, p)' /\ (p # 1 => Child(o, p)' \in rels')
  BY <1>2, <1>3, <1>4, WrittenStays
<1> QED BY <1>5, <1>6, <1>7 DEF Whole

(* What is neither swept nor being written is whole.                        *)
LEMMA SettledStep ==
  ASSUME LabelsAssumption, BoundsAssumption, SoundInv, OneOrigin, DistinctStems, TruthInv,
         Settled, Waiting, [Next]_vars, crashes = 0, crashes' = 0
  PROVE  Settled'
<1> USE DEF SoundInv, TypeOK, Control, Writing
<1>0. stem' = stem
  BY StemStays
<1>u. ASSUME call' = call, owner' = owner, touched' = touched, pending' = pending,
             pc \in {"snapshot", "write", "copy"} <=> pc' \in {"snapshot", "write", "copy"}
      PROVE  Unwritten' = Unwritten
  <2>1. \A i \in touched \ pending : Extracted(i)' = Extracted(i)
    BY <1>0, <1>u, ExtractedStays
  <2>2. \A o : o \in {Extracted(i)' : i \in touched' \ pending'}
                <=> o \in {Extracted(i) : i \in touched \ pending}
    BY <1>u, <2>1
  <2>3. {Extracted(i)' : i \in touched' \ pending'} = {Extracted(i) : i \in touched \ pending}
    BY <2>2
  <2>4. CASE pc \in {"snapshot", "write", "copy"}
    BY <1>u, <2>3, <2>4 DEF Unwritten
  <2>5. CASE pc \notin {"snapshot", "write", "copy"}
    BY <1>u, <2>5 DEF Unwritten
  <2> QED BY <2>4, <2>5
<1>k. ASSUME \A o \in origins' : o \in origins \/ o \in Unwritten',
             \A o \in origins' : o \in stale => o \in stale',
             \A o \in Unwritten : o \in Unwritten' \/ Whole(o)
      PROVE  Settled'
  <2> SUFFICES ASSUME NEW o \in origins', o \notin stale', o \notin Unwritten'
               PROVE  Whole(o)'
    BY DEF Settled
  <2>1. o \in origins \ stale
    BY <1>k
  <2>2. Whole(o)
    BY <1>k, <2>1 DEF Settled
  <2> QED BY <2>1, <2>2, WholeStays

<1>1. ASSUME NEW x \in OriginId, ScanUnchanged(x)
      PROVE  Settled'
  <2>1. /\ origins' \subseteq origins /\ Unwritten = {}
        /\ \A o \in origins' : o \in stale => o \in stale'
    BY <1>1 DEF Unwritten, ScanUnchanged, store
  <2> QED BY <2>1, <1>k
<1>2. ASSUME ScanFresh
      PROVE  Settled'
  <2>1. /\ origins' \subseteq origins /\ Unwritten = {}
        /\ \A o \in origins' : o \in stale => o \in stale'
    BY <1>2 DEF Unwritten, ScanFresh, store
  <2> QED BY <2>1, <1>k
<1>3. ASSUME NEW x \in OriginId, ScanChanged(x)
      PROVE  Settled'
  <2>1. /\ origins' \subseteq origins /\ Unwritten = {}
        /\ \A o \in origins' : o \in stale => o \in stale'
    BY <1>3 DEF Unwritten, ScanChanged, store
  <2> QED BY <2>1, <1>k
<1>4. ASSUME ReplaceDone
      PROVE  Settled'
  <2>1. /\ origins' \subseteq origins /\ Unwritten = {}
        /\ \A o \in origins' : o \in stale => o \in stale'
    BY <1>4 DEF Unwritten, ReplaceDone, store
  <2> QED BY <2>1, <1>k
<1>5. ASSUME NEW x \in OriginId, DeleteNodes(x)
      PROVE  Settled'
  <2>1. /\ origins' \subseteq origins /\ Unwritten = {}
        /\ \A o \in origins' : o \in stale => o \in stale'
    BY <1>5 DEF Unwritten, DeleteNodes
  <2> QED BY <2>1, <1>k
<1>6. ASSUME DeleteRow
      PROVE  Settled'
  <2>1. /\ origins' \subseteq origins /\ Unwritten = {}
        /\ \A o \in origins' : o \in stale => o \in stale'
    BY <1>6 DEF Unwritten, DeleteRow
  <2> QED BY <2>1, <1>k
<1>7. ASSUME ScanDone
      PROVE  Settled'
  <2>1. /\ origins' \subseteq origins /\ Unwritten = {}
        /\ \A o \in origins' : o \in stale => o \in stale'
    BY <1>7 DEF Unwritten, ScanDone, store
  <2> QED BY <2>1, <1>k
<1>8. ASSUME PruneDone
      PROVE  Settled'
  <2>1. /\ origins' \subseteq origins /\ Unwritten = {}
        /\ \A o \in origins' : o \in stale => o \in stale'
    BY <1>8 DEF Unwritten, PruneDone, store
  <2> QED BY <2>1, <1>k
<1>9. ASSUME NEW i \in pending, Snapshot(i)
      PROVE  Settled'
  <2> DEFINE o == [uri |-> call.paths[i], sha |-> file[call.paths[i]]]
  <2>1. /\ pc = "snapshot" /\ pc' = "snapshot" /\ call' = call /\ touched' = touched
        /\ pending' = pending \ {i} /\ owner' = Put(owner, PrefixOfPath(i), o)
        /\ origins' = origins \union {o} /\ stale' = stale /\ i \in DOMAIN call.paths
    BY <1>9 DEF Snapshot
  <2>2. \A j \in DOMAIN call.paths : PrefixOfPath(j)' = PrefixOfPath(j)
    BY <2>1, StemStays, PrefixStays
  <2>3. Extracted(i)' = o
    BY <2>1, <2>2 DEF Extracted, Put
  <2>4. ASSUME NEW j \in touched \ pending
        PROVE  Extracted(j)' = Extracted(j) /\ j \in touched' \ pending'
    <3>1. j # i /\ j \in DOMAIN call.paths /\ Owned(j)
      BY <2>1 DEF SnapshotsThere
    <3>2. PrefixOfPath(j) # PrefixOfPath(i)
      BY <2>1, <3>1, DistinctPrefix
    <3> QED BY <2>1, <2>2, <3>1, <3>2 DEF Extracted, Put, Owned
  <2>5. Unwritten \subseteq Unwritten'
    BY <2>1, <2>4 DEF Unwritten
  <2>6. o \in Unwritten'
    BY <2>1, <2>3 DEF Unwritten
  <2> HIDE DEF o
  <2> QED BY <2>1, <2>5, <2>6, <1>k
<1>10. ASSUME Build
      PROVE  Settled'
  <2>1. origins' = origins /\ stale' = stale
    BY <1>10 DEF Build, store
  <2>2. Unwritten' = Unwritten
    BY <1>10, <1>u DEF Build, store
  <2> QED BY <2>1, <2>2, <1>k
<1>11. ASSUME NEW r \in batch.nodes, WriteNode(r)
      PROVE  Settled'
  <2>1. origins' = origins /\ stale' = stale
    BY <1>11 DEF WriteNode
  <2>2. Unwritten' = Unwritten
    BY <1>11, <1>u DEF WriteNode
  <2> QED BY <2>1, <2>2, <1>k
<1>12. ASSUME NEW p \in batch.placeholders, WritePlaceholder(p)
      PROVE  Settled'
  <2>1. origins' = origins /\ stale' = stale
    BY <1>12 DEF WritePlaceholder
  <2>2. Unwritten' = Unwritten
    BY <1>12, <1>u DEF WritePlaceholder
  <2> QED BY <2>1, <2>2, <1>k
<1>13. ASSUME NEW e \in batch.edges, WriteEdge(e)
      PROVE  Settled'
  <2>1. origins' = origins /\ stale' = stale
    BY <1>13 DEF WriteEdge
  <2>2. Unwritten' = Unwritten
    BY <1>13, <1>u DEF WriteEdge
  <2> QED BY <2>1, <2>2, <1>k
<1>14. ASSUME BulkClear
      PROVE  Settled'
  <2>1. origins' = origins /\ stale' = stale
    BY <1>14 DEF BulkClear
  <2>2. Unwritten' = Unwritten
    BY <1>14, <1>u DEF BulkClear
  <2> QED BY <2>1, <2>2, <1>k
<1>15. ASSUME BulkCopyNodes
      PROVE  Settled'
  <2>1. origins' = origins /\ stale' = stale
    BY <1>15 DEF BulkCopyNodes
  <2>2. Unwritten' = Unwritten
    BY <1>15, <1>u DEF BulkCopyNodes
  <2> QED BY <2>1, <2>2, <1>k
<1>16. ASSUME NEW t \in EdgeType, BulkCopyRels(t)
      PROVE  Settled'
  <2>1. origins' = origins /\ stale' = stale
    BY <1>16 DEF BulkCopyRels
  <2>2. Unwritten' = Unwritten
    BY <1>16, <1>u DEF BulkCopyRels
  <2> QED BY <2>1, <2>2, <1>k
<1>17. ASSUME WriteDone
      PROVE  Settled'
  <2>1. /\ origins' = origins /\ stale' = stale /\ Writing /\ stale = {}
        /\ batch.nodes = {} /\ batch.edges = {} /\ ~(pc = "write" /\ batch.bulk)
    BY <1>17 DEF WriteDone, store
  <2>2. ASSUME NEW o \in Unwritten
        PROVE  Whole(o)
    <3>1. PICK i \in touched : o = Extracted(i) /\ i \notin pending
      BY <2>2 DEF Unwritten
    <3>2. o \in origins
      BY <2>1, <3>1 DEF SnapshotsThere
    <3>3. \A p \in DOMAIN Labels[o.sha] : RowWritten(o, p) /\ (p # 1 => Child(o, p) \in rels)
      BY <2>1, <3>1 DEF Waiting, RowWaiting, Edges
    <3> QED BY <3>2, <3>3 DEF Whole
  <2> QED BY <2>1, <2>2, <1>k
<1>18. ASSUME NEW x \in OriginId, CollectOrphan(x)
      PROVE  Settled'
  <2>1. /\ origins' \subseteq origins /\ Unwritten = {}
        /\ \A o \in origins' : o \in stale => o \in stale'
    BY <1>18 DEF Unwritten, CollectOrphan, job
  <2> QED BY <2>1, <1>k
<1>19. ASSUME GcDone
      PROVE  Settled'
  <2>1. /\ origins' \subseteq origins /\ Unwritten = {}
        /\ \A o \in origins' : o \in stale => o \in stale'
    BY <1>19 DEF Unwritten, GcDone, store
  <2> QED BY <2>1, <1>k
<1>20. ASSUME Crash
      PROVE  Settled'
  BY <1>20 DEF Crash
<1>21. ASSUME NEW paths \in Paths, NEW mode \in {"keep", "prune", "gc"}, Start(paths, mode)
      PROVE  Settled'
  <2>1. /\ origins' \subseteq origins /\ Unwritten = {}
        /\ \A o \in origins' : o \in stale => o \in stale'
    BY <1>21 DEF Unwritten, Start, store
  <2> QED BY <2>1, <1>k
<1>22. ASSUME NEW u \in Uri, NEW c \in Content, Edit(u, c)
      PROVE  Settled'
  <2>1. /\ origins' \subseteq origins /\ Unwritten = {}
        /\ \A o \in origins' : o \in stale => o \in stale'
    BY <1>22 DEF Unwritten, Edit, job, store
  <2> QED BY <2>1, <1>k
<1>23. ASSUME UNCHANGED vars
      PROVE  Settled'
  <2>1. origins' = origins /\ stale' = stale /\ Unwritten' = Unwritten
    BY <1>23, <1>u DEF vars, store, job
  <2> QED BY <2>1, <1>k
<1> QED BY [Next]_vars, <1>1, <1>2, <1>3, <1>4, <1>5, <1>6, <1>7, <1>8, <1>9, <1>10, <1>11, <1>12, <1>13, <1>14, <1>15, <1>16, <1>17, <1>18, <1>19, <1>20, <1>21, <1>22, <1>23 DEF Next, JobStep

(* A path that has been scanned and needs no snapshot any more has an owner*)
(* that stays.                                                             *)
LEMMA AccountedStep ==
  ASSUME LabelsAssumption, BoundsAssumption, SoundInv, OneOrigin, DistinctStems, TruthInv,
         Settled, Accounted, [Next]_vars, crashes = 0, crashes' = 0
  PROVE  Accounted'
<1> USE DEF SoundInv, TypeOK, Control, Writing, TruthInv
<1>0. stem' = stem
  BY StemStays
<1>p. /\ DOMAIN call.paths = 1..Len(call.paths) /\ Len(call.paths) \in Nat /\ at \in Nat \ {0}
      /\ \A i, j \in DOMAIN call.paths : call.paths[i] = call.paths[j] => i = j
  BY PathsTyped
<1>k. ASSUME call' = call, calls' = calls, owner' = owner,
             \A i \in DOMAIN call.paths :
               Scanned(i)' /\ ~Awaited(i)' =>
                 /\ Scanned(i) /\ ~Awaited(i)
                 /\ Owned(i) /\ Extracted(i) \in origins \ stale => Extracted(i) \in origins' \ stale'
      PROVE  Accounted'
  BY <1>0, <1>k, ExtractedStays DEF Accounted

<1>1. ASSUME NEW x \in OriginId, ScanUnchanged(x)
      PROVE  Accounted'
  <2>1. /\ call' = call /\ calls' = calls /\ owner' = Put(owner, PrefixOfPath(at), x)
        /\ at' = at + 1 /\ touched' = touched /\ at \in DOMAIN call.paths
        /\ pc = "scan" /\ pc' = "scan" /\ origins' = origins /\ stale' = {} /\ stale = {}
        /\ x \in origins
    BY <1>1 DEF ScanUnchanged, Current, store, env
  <2> SUFFICES ASSUME calls > 0, NEW i \in DOMAIN call.paths, Scanned(i)', ~Awaited(i)'
               PROVE  Owned(i)' /\ Extracted(i)' \in origins
    BY <2>1 DEF Accounted
  <2>2. PrefixOfPath(i)' = PrefixOfPath(i)
    BY <2>1, <1>0, PrefixStays
  <2>3. CASE i = at
    BY <2>1, <2>2, <2>3 DEF Owned, Extracted, Put
  <2>4. CASE i # at
    <3>1. Scanned(i) /\ ~Awaited(i)
      BY <2>1, <2>4, <1>p DEF Scanned, Awaited
    <3>2. Owned(i) /\ Extracted(i) \in origins
      BY <3>1 DEF Accounted
    <3>3. PrefixOfPath(i) # PrefixOfPath(at)
      BY <2>1, <2>4, DistinctPrefix
    <3> QED BY <2>1, <2>2, <3>2, <3>3 DEF Owned, Extracted, Put
  <2> QED BY <2>3, <2>4
<1>2. ASSUME ScanFresh
      PROVE  Accounted'
  <2>1. call' = call /\ calls' = calls /\ owner' = owner
    BY <1>2 DEF ScanFresh, store, env
  <2>2. \A o \in origins \ stale : o \in origins' \ stale'
    BY <1>2 DEF ScanFresh, store, env
  <2>3. \A i \in DOMAIN call.paths : Scanned(i)' /\ ~Awaited(i)' => Scanned(i) /\ ~Awaited(i)
    BY <1>2, <1>p DEF ScanFresh, store, env, Scanned, Awaited
  <2> QED BY <2>1, <2>2, <2>3, <1>k
<1>3. ASSUME NEW x \in OriginId, ScanChanged(x)
      PROVE  Accounted'
  <2>1. /\ call' = call /\ calls' = calls /\ owner' = owner /\ at' = at /\ touched' = touched
        /\ pc = "scan" /\ pc' = "replace" /\ origins' = origins /\ stale' = {x}
        /\ at \in DOMAIN call.paths /\ x.uri = call.paths[at]
    BY <1>3 DEF ScanChanged, Current, store, env
  <2>2. \A i \in DOMAIN call.paths : Scanned(i)' /\ ~Awaited(i)' => Scanned(i) /\ ~Awaited(i) /\ i < at
    BY <2>1 DEF Scanned, Awaited
  <2>3. \A i \in DOMAIN call.paths : i < at => call.paths[i] # x.uri
    BY <2>1, <1>p
  <2>4. \A i \in DOMAIN call.paths : Owned(i) => Extracted(i).uri = call.paths[i]
    BY DEF OwnersTrue
  <2> QED BY <2>1, <2>2, <2>3, <2>4, <1>k
<1>4. ASSUME ReplaceDone
      PROVE  Accounted'
  <2>1. call' = call /\ calls' = calls /\ owner' = owner
    BY <1>4 DEF ReplaceDone, store, env
  <2>2. \A o \in origins \ stale : o \in origins' \ stale'
    BY <1>4 DEF ReplaceDone, store, env
  <2>3. \A i \in DOMAIN call.paths : Scanned(i)' /\ ~Awaited(i)' => Scanned(i) /\ ~Awaited(i)
    BY <1>4, <1>p DEF ReplaceDone, store, env, Scanned, Awaited
  <2> QED BY <2>1, <2>2, <2>3, <1>k
<1>5. ASSUME NEW x \in OriginId, DeleteNodes(x)
      PROVE  Accounted'
  <2>1. call' = call /\ calls' = calls /\ owner' = owner
    BY <1>5 DEF DeleteNodes, env
  <2>2. \A o \in origins \ stale : o \in origins' \ stale'
    BY <1>5 DEF DeleteNodes, env
  <2>3. \A i \in DOMAIN call.paths : Scanned(i)' /\ ~Awaited(i)' => Scanned(i) /\ ~Awaited(i)
    BY <1>5, <1>p DEF DeleteNodes, env, Scanned, Awaited
  <2> QED BY <2>1, <2>2, <2>3, <1>k
<1>6. ASSUME DeleteRow
      PROVE  Accounted'
  <2>1. call' = call /\ calls' = calls /\ owner' = owner
    BY <1>6 DEF DeleteRow, env
  <2>2. \A o \in origins \ stale : o \in origins' \ stale'
    BY <1>6 DEF DeleteRow, env
  <2>3. \A i \in DOMAIN call.paths : Scanned(i)' /\ ~Awaited(i)' => Scanned(i) /\ ~Awaited(i)
    BY <1>6, <1>p DEF DeleteRow, env, Scanned, Awaited
  <2> QED BY <2>1, <2>2, <2>3, <1>k
<1>7. ASSUME ScanDone
      PROVE  Accounted'
  <2>1. /\ call' = call /\ calls' = calls /\ owner' = owner /\ touched' = touched
        /\ pending' = touched /\ pc = "scan" /\ at \notin DOMAIN call.paths /\ origins' = origins
        /\ pc' \in {"prune", "snapshot"} \/ (pc' \in {"gc", "idle"} /\ touched = {})
        /\ stale' = {} \/ stale' = OutsideCall
    BY <1>7 DEF ScanDone, AfterSweep, store, env
  <2>2. \A i \in DOMAIN call.paths : i < at
    BY <2>1, <1>p
  <2>3. \A i \in DOMAIN call.paths : ~Awaited(i)' => i \notin touched
    BY <2>1 DEF Awaited
  <2>4. \A i \in DOMAIN call.paths : ~Awaited(i)' => Scanned(i) /\ ~Awaited(i)
    BY <2>2, <2>3 DEF Scanned, Awaited
  <2>5. \A i \in DOMAIN call.paths : Owned(i) => Extracted(i) \notin stale'
    BY <2>1 DEF OwnersTrue, OutsideCall
  <2> QED BY <2>1, <2>4, <2>5, <1>k
<1>8. ASSUME PruneDone
      PROVE  Accounted'
  <2>1. call' = call /\ calls' = calls /\ owner' = owner
    BY <1>8 DEF PruneDone, AfterSweep, store, env
  <2>2. \A o \in origins \ stale : o \in origins' \ stale'
    BY <1>8 DEF PruneDone, AfterSweep, store, env
  <2>3. \A i \in DOMAIN call.paths : Scanned(i)' /\ ~Awaited(i)' => Scanned(i) /\ ~Awaited(i)
    BY <1>8, <1>p DEF PruneDone, AfterSweep, store, env, Scanned, Awaited
  <2> QED BY <2>1, <2>2, <2>3, <1>k
<1>9. ASSUME NEW i \in pending, Snapshot(i)
      PROVE  Accounted'
  <2> DEFINE o == [uri |-> call.paths[i], sha |-> file[call.paths[i]]]
  <2>1. /\ call' = call /\ calls' = calls /\ owner' = Put(owner, PrefixOfPath(i), o)
        /\ touched' = touched /\ pending' = pending \ {i} /\ i \in DOMAIN call.paths
        /\ pc = "snapshot" /\ pc' = "snapshot" /\ origins' = origins \union {o}
        /\ stale' = stale /\ stale = {}
    BY <1>9 DEF Snapshot, env
  <2> HIDE DEF o
  <2> SUFFICES ASSUME calls > 0, NEW j \in DOMAIN call.paths, ~Awaited(j)'
               PROVE  Owned(j)' /\ Extracted(j)' \in origins'
    BY <2>1 DEF Accounted
  <2>2. PrefixOfPath(j)' = PrefixOfPath(j)
    BY <2>1, <1>0, PrefixStays
  <2>3. CASE j = i
    BY <2>1, <2>2, <2>3 DEF Owned, Extracted, Put
  <2>4. CASE j # i
    <3>1. Scanned(j) /\ ~Awaited(j)
      BY <2>1, <2>4 DEF Scanned, Awaited
    <3>2. Owned(j) /\ Extracted(j) \in origins
      BY <3>1 DEF Accounted
    <3>3. PrefixOfPath(j) # PrefixOfPath(i)
      BY <2>1, <2>4, DistinctPrefix
    <3> QED BY <2>1, <2>2, <3>2, <3>3 DEF Owned, Extracted, Put
  <2> QED BY <2>3, <2>4
<1>10. ASSUME Build
      PROVE  Accounted'
  <2>1. call' = call /\ calls' = calls /\ owner' = owner
    BY <1>10 DEF Build, store, env
  <2>2. \A o \in origins \ stale : o \in origins' \ stale'
    BY <1>10 DEF Build, store, env
  <2>3. \A i \in DOMAIN call.paths : Scanned(i)' /\ ~Awaited(i)' => Scanned(i) /\ ~Awaited(i)
    BY <1>10, <1>p DEF Build, store, env, Scanned, Awaited
  <2> QED BY <2>1, <2>2, <2>3, <1>k
<1>11. ASSUME NEW r \in batch.nodes, WriteNode(r)
      PROVE  Accounted'
  <2>1. call' = call /\ calls' = calls /\ owner' = owner
    BY <1>11 DEF WriteNode, store, env
  <2>2. \A o \in origins \ stale : o \in origins' \ stale'
    BY <1>11 DEF WriteNode, store, env
  <2>3. \A i \in DOMAIN call.paths : Scanned(i)' /\ ~Awaited(i)' => Scanned(i) /\ ~Awaited(i)
    BY <1>11, <1>p DEF WriteNode, store, env, Scanned, Awaited
  <2> QED BY <2>1, <2>2, <2>3, <1>k
<1>12. ASSUME NEW p \in batch.placeholders, WritePlaceholder(p)
      PROVE  Accounted'
  <2>1. call' = call /\ calls' = calls /\ owner' = owner
    BY <1>12 DEF WritePlaceholder, store, env
  <2>2. \A o \in origins \ stale : o \in origins' \ stale'
    BY <1>12 DEF WritePlaceholder, store, env
  <2>3. \A i \in DOMAIN call.paths : Scanned(i)' /\ ~Awaited(i)' => Scanned(i) /\ ~Awaited(i)
    BY <1>12, <1>p DEF WritePlaceholder, store, env, Scanned, Awaited
  <2> QED BY <2>1, <2>2, <2>3, <1>k
<1>13. ASSUME NEW e \in batch.edges, WriteEdge(e)
      PROVE  Accounted'
  <2>1. call' = call /\ calls' = calls /\ owner' = owner
    BY <1>13 DEF WriteEdge, store, env
  <2>2. \A o \in origins \ stale : o \in origins' \ stale'
    BY <1>13 DEF WriteEdge, store, env
  <2>3. \A i \in DOMAIN call.paths : Scanned(i)' /\ ~Awaited(i)' => Scanned(i) /\ ~Awaited(i)
    BY <1>13, <1>p DEF WriteEdge, store, env, Scanned, Awaited
  <2> QED BY <2>1, <2>2, <2>3, <1>k
<1>14. ASSUME BulkClear
      PROVE  Accounted'
  <2>1. call' = call /\ calls' = calls /\ owner' = owner
    BY <1>14 DEF BulkClear, store, env
  <2>2. \A o \in origins \ stale : o \in origins' \ stale'
    BY <1>14 DEF BulkClear, store, env
  <2>3. \A i \in DOMAIN call.paths : Scanned(i)' /\ ~Awaited(i)' => Scanned(i) /\ ~Awaited(i)
    BY <1>14, <1>p DEF BulkClear, store, env, Scanned, Awaited
  <2> QED BY <2>1, <2>2, <2>3, <1>k
<1>15. ASSUME BulkCopyNodes
      PROVE  Accounted'
  <2>1. call' = call /\ calls' = calls /\ owner' = owner
    BY <1>15 DEF BulkCopyNodes, store, env
  <2>2. \A o \in origins \ stale : o \in origins' \ stale'
    BY <1>15 DEF BulkCopyNodes, store, env
  <2>3. \A i \in DOMAIN call.paths : Scanned(i)' /\ ~Awaited(i)' => Scanned(i) /\ ~Awaited(i)
    BY <1>15, <1>p DEF BulkCopyNodes, store, env, Scanned, Awaited
  <2> QED BY <2>1, <2>2, <2>3, <1>k
<1>16. ASSUME NEW t \in EdgeType, BulkCopyRels(t)
      PROVE  Accounted'
  <2>1. call' = call /\ calls' = calls /\ owner' = owner
    BY <1>16 DEF BulkCopyRels, store, env
  <2>2. \A o \in origins \ stale : o \in origins' \ stale'
    BY <1>16 DEF BulkCopyRels, store, env
  <2>3. \A i \in DOMAIN call.paths : Scanned(i)' /\ ~Awaited(i)' => Scanned(i) /\ ~Awaited(i)
    BY <1>16, <1>p DEF BulkCopyRels, store, env, Scanned, Awaited
  <2> QED BY <2>1, <2>2, <2>3, <1>k
<1>17. ASSUME WriteDone
      PROVE  Accounted'
  <2>1. call' = call /\ calls' = calls /\ owner' = owner
    BY <1>17 DEF WriteDone, store, env
  <2>2. \A o \in origins \ stale : o \in origins' \ stale'
    BY <1>17 DEF WriteDone, store, env
  <2>3. \A i \in DOMAIN call.paths : Scanned(i)' /\ ~Awaited(i)' => Scanned(i) /\ ~Awaited(i)
    BY <1>17, <1>p DEF WriteDone, store, env, Scanned, Awaited
  <2> QED BY <2>1, <2>2, <2>3, <1>k
<1>18. ASSUME NEW x \in OriginId, CollectOrphan(x)
      PROVE  Accounted'
  <2>1. /\ call' = call /\ calls' = calls /\ owner' = owner /\ stale' = stale
        /\ pc = "gc" /\ pc' = "gc" /\ origins' = origins \ {x} /\ NodesOf(x) = {}
    BY <1>18 DEF CollectOrphan, Orphans, job, env
  <2>2. \A o \in origins \ stale : Whole(o)
    BY <2>1 DEF Settled, Unwritten
  <2>3. \A o \in origins \ stale : o # x
    BY <2>1, <2>2, WholeStays
  <2>4. \A i \in DOMAIN call.paths : Scanned(i) /\ ~Awaited(i)
    BY <2>1 DEF Scanned, Awaited
  <2> QED BY <2>1, <2>3, <2>4, <1>k
<1>19. ASSUME GcDone
      PROVE  Accounted'
  <2>1. call' = call /\ calls' = calls /\ owner' = owner
    BY <1>19 DEF GcDone, store, env
  <2>2. \A o \in origins \ stale : o \in origins' \ stale'
    BY <1>19 DEF GcDone, store, env
  <2>3. \A i \in DOMAIN call.paths : Scanned(i)' /\ ~Awaited(i)' => Scanned(i) /\ ~Awaited(i)
    BY <1>19, <1>p DEF GcDone, store, env, Scanned, Awaited
  <2> QED BY <2>1, <2>2, <2>3, <1>k
<1>20. ASSUME Crash
      PROVE  Accounted'
  BY <1>20 DEF Crash
<1>21. ASSUME NEW paths \in Paths, NEW mode \in {"keep", "prune", "gc"}, Start(paths, mode)
      PROVE  Accounted'
  <2>1. pc' = "scan" /\ at' = 1 /\ call'.paths = paths
    BY <1>21 DEF Start
  <2>2. \A i \in DOMAIN paths : ~(i < 1)
    BY PathTyped
  <2> QED BY <2>1, <2>2 DEF Accounted, Scanned
<1>22. ASSUME NEW u \in Uri, NEW c \in Content, Edit(u, c)
      PROVE  Accounted'
  <2>1. call' = call /\ calls' = calls /\ owner' = owner
    BY <1>22 DEF Edit, job, store
  <2>2. \A o \in origins \ stale : o \in origins' \ stale'
    BY <1>22 DEF Edit, job, store
  <2>3. \A i \in DOMAIN call.paths : Scanned(i)' /\ ~Awaited(i)' => Scanned(i) /\ ~Awaited(i)
    BY <1>22, <1>p DEF Edit, job, store, Scanned, Awaited
  <2> QED BY <2>1, <2>2, <2>3, <1>k
<1>23. ASSUME UNCHANGED vars
      PROVE  Accounted'
  <2>1. call' = call /\ calls' = calls /\ owner' = owner
    BY <1>23 DEF vars, store, job, env
  <2>2. \A o \in origins \ stale : o \in origins' \ stale'
    BY <1>23 DEF vars, store, job, env
  <2>3. \A i \in DOMAIN call.paths : Scanned(i)' /\ ~Awaited(i)' => Scanned(i) /\ ~Awaited(i)
    BY <1>23, <1>p DEF vars, store, job, env, Scanned, Awaited
  <2> QED BY <2>1, <2>2, <2>3, <1>k
<1> QED BY [Next]_vars, <1>1, <1>2, <1>3, <1>4, <1>5, <1>6, <1>7, <1>8, <1>9, <1>10, <1>11, <1>12, <1>13, <1>14, <1>15, <1>16, <1>17, <1>18, <1>19, <1>20, <1>21, <1>22, <1>23 DEF Next, JobStep

(* What the build has of a path is what was extracted of it.               *)
LEMMA CorpusExtracted ==
  ASSUME LabelsAssumption, BoundsAssumption, SoundInv, DistinctStems, OwnersTrue, pc = "snapshot",
         NEW i \in DOMAIN call.paths, Owned(i)
  PROVE  /\ Corpus[i].sha = Extracted(i).sha /\ Extracted(i).sha \in Content
         /\ PositionsIn(Corpus, i) = DOMAIN Labels[Extracted(i).sha]
         /\ \A p : /\ NodeId(Corpus, i, p) = IdOf(Extracted(i), p)
                   /\ LabelAt(Corpus, i, p) = Labels[Extracted(i).sha][p]
<1>1. Extracted(i).uri = call.paths[i] /\ Extracted(i).sha = file[call.paths[i]]
  BY DEF OwnersTrue
<1>2. Corpus[i].sha = file[call.paths[i]] /\ file[call.paths[i]] \in Content
  BY CorpusTyped DEF SoundInv
<1>3. Prefix(Corpus, i) = <<stem[Extracted(i).uri], 0>>
  BY <1>1, DistinctPrefix DEF SoundInv, PrefixOfPath
<1> QED BY <1>1, <1>2, <1>3 DEF PositionsIn, NodeId, IdOf, LabelAt

(* Every position of a file to be written has its row in the batch,        *)
LEMMA RowsKept ==
  ASSUME LabelsAssumption, BoundsAssumption, SoundInv, DistinctStems, OwnersTrue,
         pc = "snapshot", pending = {}, NEW i \in touched,
         NEW p \in DOMAIN Labels[Extracted(i).sha]
  PROVE  /\ [id |-> IdOf(Extracted(i), p), origin |-> Extracted(i), sha |-> Extracted(i).sha] \in Kept
         /\ IdOf(Extracted(i), p) \in {r.id : r \in Kept}
<1>1. Owned(i) /\ i \in DOMAIN call.paths /\ DOMAIN Corpus = DOMAIN call.paths
  BY CorpusTyped DEF SoundInv, TypeOK, SnapshotsThere
<1> DEFINE n == [id |-> NodeId(Corpus, i, p), sha |-> Corpus[i].sha]
           r == [id |-> IdOf(Extracted(i), p), origin |-> Extracted(i), sha |-> Extracted(i).sha]
<1>2. /\ Corpus[i].sha = Extracted(i).sha /\ p \in PositionsIn(Corpus, i)
      /\ NodeId(Corpus, i, p) = IdOf(Extracted(i), p)
  BY <1>1, CorpusExtracted
<1>3. n \in GraphNodes(Corpus)
  BY <1>1, <1>2 DEF GraphNodes
<1>4. owner[n.id.prefix] = Extracted(i)
  BY DEF NodeId, Extracted, PrefixOfPath
<1>5. [id |-> n.id, origin |-> owner[n.id.prefix], sha |-> n.sha] \in Rows
  BY <1>3 DEF Rows
<1>6. r \in Rows
  BY <1>2, <1>4, <1>5
<1>7. Extracted(i) \in TouchedOrigins
  BY DEF TouchedOrigins, Extracted
<1> QED BY <1>6, <1>7 DEF Kept

(* and its edge from the root,                                             *)
LEMMA ChildrenKept ==
  ASSUME LabelsAssumption, BoundsAssumption, SoundInv, DistinctStems, OwnersTrue,
         pc = "snapshot", pending = {}, NEW i \in touched,
         NEW p \in DOMAIN Labels[Extracted(i).sha], p # 1
  PROVE  Child(Extracted(i), p) \in KeptGraph
<1>1. Owned(i) /\ i \in DOMAIN call.paths /\ DOMAIN Corpus = DOMAIN call.paths
  BY CorpusTyped DEF SoundInv, TypeOK, SnapshotsThere
<1>2. /\ p \in PositionsIn(Corpus, i) /\ Extracted(i).sha \in Content
      /\ NodeId(Corpus, i, p) = IdOf(Extracted(i), p) /\ NodeId(Corpus, i, 1) = IdOf(Extracted(i), 1)
  BY <1>1, CorpusExtracted
<1>3. Child(Extracted(i), p) \in ChildEdges(Corpus, i)
  BY <1>2 DEF Child, ChildEdges
<1>4. Child(Extracted(i), p) \in GraphEdges(Corpus, Corpus \in built)
  BY <1>1, <1>3 DEF GraphEdges
<1>5. IdOf(Extracted(i), p) \in {r.id : r \in Kept} /\ IdOf(Extracted(i), 1) \in {r.id : r \in Kept}
  BY <1>2, LabelsTyped, RowsKept
<1> QED BY <1>4, <1>5 DEF Child, KeptGraph, KeptEdges

(* The index has a name when a file defines it, and only then; the one that*)
(* the replay leaves too, when it is one file.                             *)
LEMMA IndexHas ==
  ASSUME NEW cs \in Seq(File), NEW s \in Sym, NEW types,
         types \in {IndexAfter(cs, Len(cs)), ReplayedIndex(cs)}
  PROVE  /\ (\A j \in DOMAIN cs : DefsIn(cs, j, s) = {}) => s \notin DOMAIN types
         /\ \A j \in DOMAIN cs :
              Definers(cs, Len(cs), s) = {j} => s \in DOMAIN types
<1>0. DOMAIN cs = 1..Len(cs) /\ Len(cs) \in Nat
  OBVIOUS
<1>1. CASE types = IndexAfter(cs, Len(cs))
  BY <1>0, <1>1 DEF IndexAfter, Definers
<1>2. CASE types = ReplayedIndex(cs)
  <2>1. DOMAIN types = UNION {DOMAIN Captured(cs, i) : i \in DOMAIN cs}
    BY <1>2 DEF ReplayedIndex
  <2>2. ASSUME \A j \in DOMAIN cs : DefsIn(cs, j, s) = {}
        PROVE  s \notin DOMAIN types
    BY <2>1, <2>2 DEF Captured
  <2>3. ASSUME NEW j \in DOMAIN cs, Definers(cs, Len(cs), s) = {j}
        PROVE  s \in DOMAIN types
    <3>1. DefsIn(cs, j, s) # {} /\ \A i \in DOMAIN cs : i # j => DefsIn(cs, i, s) = {}
      BY <1>0, <2>3 DEF Definers
    <3>2. \A i \in 1..(j - 1) : i \in DOMAIN cs /\ i # j
      BY <1>0
    <3>3. Definers(cs, j - 1, s) = {}
      BY <3>1, <3>2 DEF Definers
    <3>4. s \in DOMAIN Captured(cs, j)
      BY <3>1, <3>3 DEF Captured, IndexAfter
    <3> QED BY <2>1, <3>4
  <2> QED BY <2>2, <2>3
<1> QED BY <1>1, <1>2

(* and the edge of every declared type, to its one definer or, when no file*)
(* of the call defines it, to its placeholder.                             *)
LEMMA TypesKept ==
  ASSUME LabelsAssumption, BoundsAssumption, SoundInv, DistinctStems, OwnersTrue,
         pc = "snapshot", pending = {}
  PROVE  Linked(KeptGraph)
<1> DEFINE cs == Corpus
           types == IF Corpus \in built THEN ReplayedIndex(Corpus) ELSE IndexAfter(Corpus, Len(Corpus))
<1>0. cs \in Seq(File) /\ DOMAIN cs = DOMAIN call.paths /\ DOMAIN cs = 1..Len(cs)
  BY CorpusTyped DEF SoundInv
<1>1. touched \subseteq DOMAIN call.paths /\ \A i \in DOMAIN call.paths : Owned(i)
  BY DEF SoundInv, TypeOK, SnapshotsThere, OwnersTrue, Scanned
<1>2. \A i \in DOMAIN call.paths :
        /\ Corpus[i].sha = Extracted(i).sha /\ PositionsIn(Corpus, i) = DOMAIN Labels[Extracted(i).sha]
        /\ \A p : /\ NodeId(Corpus, i, p) = IdOf(Extracted(i), p)
                  /\ LabelAt(Corpus, i, p) = Labels[Extracted(i).sha][p]
  BY <1>1, CorpusExtracted
<1>3. \A s : DefiningPaths(s) = Definers(cs, Len(cs), s)
  <2>1. ASSUME NEW s, NEW i \in DOMAIN call.paths
        PROVE  i \in DefiningPaths(s) <=> DefsIn(cs, i, s) # {}
    <3>1. cs[i].sha \in Content
      BY CorpusTyped DEF SoundInv
    <3>2. \A q \in PositionsIn(cs, i) : q < Len(Labels[cs[i].sha]) + 1
      BY <3>1, LabelsTyped DEF PositionsIn
    <3>3. DefsIn(cs, i, s) = {q \in PositionsIn(cs, i) : LabelAt(cs, i, q) = [role |-> "def", sym |-> s]}
      BY <3>2 DEF DefsIn, DefsBefore, Where
    <3> QED BY <1>2, <3>3 DEF DefiningPaths
  <2>2. \A s : DefiningPaths(s) \subseteq DOMAIN call.paths
    BY DEF DefiningPaths
  <2> QED BY <1>0, <2>1, <2>2 DEF Definers
<1>4. ASSUME NEW i \in touched, NEW p \in DOMAIN Labels[Extracted(i).sha],
             Labels[Extracted(i).sha][p].role = "type"
      PROVE  LET s == Labels[Extracted(i).sha][p].sym
                 targets == {r.dst : r \in {x \in KeptGraph : x.type = "of_type"
                                                  /\ x.src = IdOf(Extracted(i), p)}}
             IN  /\ DefiningPaths(s) = {} => [unresolved |-> s] \in targets
                 /\ \A j \in touched : DefiningPaths(s) = {j} =>
                      \E q \in DOMAIN Labels[Extracted(j).sha] : IdOf(Extracted(j), q) \in targets
  <2> DEFINE s == Labels[Extracted(i).sha][p].sym
             e == [type |-> "of_type", src |-> IdOf(Extracted(i), p), dst |-> Resolved(types, s)]
             targets == {r.dst : r \in {x \in KeptGraph : x.type = "of_type"
                                                  /\ x.src = IdOf(Extracted(i), p)}}
  <2>1. i \in DOMAIN cs /\ p \in PositionsIn(cs, i) /\ LabelAt(cs, i, p) = Labels[Extracted(i).sha][p]
    BY <1>0, <1>1, <1>2
  <2>2. s \in Sym
    <3>1. LabelAt(cs, i, p) \in Label
      BY <1>0, <2>1, IdsTyped
    <3> QED BY <1>4, <2>1, <3>1 DEF Label
  <2>3. e \in EdgesAt(cs, i, p, types)
    BY <1>1, <1>2, <1>4, <2>1 DEF EdgesAt
  <2>4. e \in GraphEdges(cs, Corpus \in built)
    <3> HIDE DEF e
    <3> QED BY <2>1, <2>3 DEF GraphEdges
  <2>5. ASSUME e.dst \in {r.id : r \in Kept} \union Placeholder
        PROVE  Resolved(types, s) \in targets
    <3>1. e.src \in {r.id : r \in Kept}
      BY RowsKept
    <3>2. e \in KeptGraph
      <4> HIDE DEF e
      <4> QED BY <2>4, <2>5, <3>1 DEF KeptGraph, KeptEdges
    <3> QED BY <3>2
  <2>6. types \in {IndexAfter(cs, Len(cs)), ReplayedIndex(cs)}
    OBVIOUS
  <2>7. ASSUME DefiningPaths(s) = {}
        PROVE  [unresolved |-> s] \in targets
    <3>1. \A j \in DOMAIN cs : DefsIn(cs, j, s) = {}
      BY <1>0, <1>3, <2>7 DEF Definers
    <3>2. s \notin DOMAIN types
      <4> HIDE DEF types, cs, s
      <4> QED BY <1>0, <2>2, <2>6, <3>1, IndexHas
    <3>3. Resolved(types, s) = [unresolved |-> s] /\ [unresolved |-> s] \in Placeholder
      BY <2>2, <3>2 DEF Resolved, Placeholder
    <3> QED BY <2>5, <3>3
  <2>8. ASSUME NEW j \in touched, DefiningPaths(s) = {j}
        PROVE  \E q \in DOMAIN Labels[Extracted(j).sha] : IdOf(Extracted(j), q) \in targets
    <3>1. j \in DOMAIN cs /\ Definers(cs, Len(cs), s) = {j}
      BY <1>0, <1>1, <1>3, <2>8
    <3>2. s \in DOMAIN types
      <4> HIDE DEF types, cs, s
      <4> QED BY <1>0, <2>2, <2>6, <3>1, IndexHas
    <3>3. types[s] \in DefIds(cs, s)
      <4> HIDE DEF cs, s
      <4>1. Len(cs) \in 0..Len(cs)
        BY <1>0
      <4> QED BY <1>0, <3>2, <4>1, IndexTrue, ReplayTrue DEF cs
    <3>4. PICK k \in DOMAIN cs : \E q \in DefsIn(cs, k, s) : types[s] = NodeId(cs, k, q)
      BY <3>3 DEF DefIds
    <3>5. k = j
      BY <1>0, <3>1, <3>4 DEF Definers
    <3>6. PICK q \in PositionsIn(cs, j) : types[s] = NodeId(cs, j, q)
      BY <3>4, <3>5 DEF DefsIn, DefsBefore, Where
    <3>7. types[s] = IdOf(Extracted(j), q) /\ q \in DOMAIN Labels[Extracted(j).sha]
      BY <1>1, <1>2, <3>6
    <3>8. IdOf(Extracted(j), q) \in {r.id : r \in Kept}
      BY <3>7, RowsKept
    <3>9. Resolved(types, s) = IdOf(Extracted(j), q)
      BY <3>2, <3>7 DEF Resolved
    <3> QED BY <2>5, <3>7, <3>8, <3>9
  <2> QED BY <2>7, <2>8
<1> QED BY <1>4 DEF Linked
(* No edge is lost once the batch is made.                                  *)
LEMMA EdgesGrow ==
  ASSUME SoundInv, [Next]_vars, crashes' = crashes, pc \in {"write", "copy", "gc", "idle"}
  PROVE  Edges \subseteq Edges'
<1> USE DEF SoundInv, TypeOK, Control, Writing
<1>1. ASSUME NEW x \in OriginId, ScanUnchanged(x)
      PROVE  Edges \subseteq Edges'
  BY <1>1 DEF ScanUnchanged
<1>2. ASSUME ScanFresh
      PROVE  Edges \subseteq Edges'
  BY <1>2 DEF ScanFresh
<1>3. ASSUME NEW x \in OriginId, ScanChanged(x)
      PROVE  Edges \subseteq Edges'
  BY <1>3 DEF ScanChanged
<1>4. ASSUME ReplaceDone
      PROVE  Edges \subseteq Edges'
  BY <1>4 DEF ReplaceDone
<1>5. ASSUME NEW x \in OriginId, DeleteNodes(x)
      PROVE  Edges \subseteq Edges'
  BY <1>5 DEF DeleteNodes
<1>6. ASSUME DeleteRow
      PROVE  Edges \subseteq Edges'
  BY <1>6 DEF DeleteRow
<1>7. ASSUME ScanDone
      PROVE  Edges \subseteq Edges'
  BY <1>7 DEF ScanDone
<1>8. ASSUME PruneDone
      PROVE  Edges \subseteq Edges'
  BY <1>8 DEF PruneDone
<1>9. ASSUME NEW i \in pending, Snapshot(i)
      PROVE  Edges \subseteq Edges'
  BY <1>9 DEF Snapshot
<1>10. ASSUME Build
      PROVE  Edges \subseteq Edges'
  BY <1>10 DEF Build
<1>11. ASSUME NEW r \in batch.nodes, WriteNode(r)
      PROVE  Edges \subseteq Edges'
  <2>1. rels' = rels /\ pc' = pc /\ batch'.bulk = batch.bulk /\ batch'.edges = batch.edges
    BY <1>11 DEF WriteNode, Batch
  <2> QED BY <2>1 DEF Edges
<1>12. ASSUME NEW p \in batch.placeholders, WritePlaceholder(p)
      PROVE  Edges \subseteq Edges'
  <2>1. rels' = rels /\ pc' = pc /\ batch'.bulk = batch.bulk /\ batch'.edges = batch.edges
    BY <1>12 DEF WritePlaceholder, Batch
  <2> QED BY <2>1 DEF Edges
<1>13. ASSUME NEW e \in batch.edges, WriteEdge(e)
      PROVE  Edges \subseteq Edges'
  <2>1. /\ rels' = rels \union {e} /\ pc' = pc /\ batch'.bulk = batch.bulk /\ ~batch.bulk
        /\ batch'.edges = batch.edges \ {e}
    BY <1>13 DEF WriteEdge, Batch
  <2> QED BY <2>1 DEF Edges
<1>14. ASSUME BulkClear
      PROVE  Edges \subseteq Edges'
  <2>1. pc = "write" /\ batch.bulk /\ pc' = "copy" /\ batch' = batch
    BY <1>14 DEF BulkClear
  <2> QED BY <2>1 DEF Edges
<1>15. ASSUME BulkCopyNodes
      PROVE  Edges \subseteq Edges'
  <2>1. rels' = rels /\ pc' = pc /\ batch'.bulk = batch.bulk /\ batch'.edges = batch.edges
    BY <1>15 DEF BulkCopyNodes, Batch
  <2> QED BY <2>1 DEF Edges
<1>16. ASSUME NEW t \in EdgeType, BulkCopyRels(t)
      PROVE  Edges \subseteq Edges'
  <2> DEFINE es == {e \in batch.edges : e.type = t}
  <2>1. rels' = rels \union es /\ pc' = "copy" /\ pc = "copy" /\ batch'.edges = batch.edges \ es
    BY <1>16 DEF BulkCopyRels, Batch
  <2> HIDE DEF es
  <2> QED BY <2>1 DEF Edges
<1>17. ASSUME WriteDone
      PROVE  Edges \subseteq Edges'
  <2>1. rels' = rels /\ batch.edges = {} /\ pc' \notin {"write", "copy"}
    BY <1>17 DEF WriteDone, store
  <2> QED BY <2>1 DEF Edges
<1>18. ASSUME NEW x \in OriginId, CollectOrphan(x)
      PROVE  Edges \subseteq Edges'
  <2>1. rels' = rels /\ batch' = batch /\ pc' # "write"
    BY <1>18 DEF CollectOrphan, store, job, env
  <2> QED BY <2>1 DEF Edges
<1>19. ASSUME GcDone
      PROVE  Edges \subseteq Edges'
  <2>1. rels' = rels /\ batch' = batch /\ pc' # "write"
    BY <1>19 DEF GcDone, store, job, env
  <2> QED BY <2>1 DEF Edges
<1>20. ASSUME Crash
      PROVE  Edges \subseteq Edges'
  BY <1>20 DEF Crash
<1>21. ASSUME NEW paths \in Paths, NEW mode \in {"keep", "prune", "gc"}, Start(paths, mode)
      PROVE  Edges \subseteq Edges'
  <2>1. rels' = rels /\ batch' = batch /\ pc' # "write"
    BY <1>21 DEF Start, store, job, env
  <2> QED BY <2>1 DEF Edges
<1>22. ASSUME NEW u \in Uri, NEW c \in Content, Edit(u, c)
      PROVE  Edges \subseteq Edges'
  <2>1. rels' = rels /\ batch' = batch /\ pc' # "write"
    BY <1>22 DEF Edit, store, job, env
  <2> QED BY <2>1 DEF Edges
<1>23. ASSUME UNCHANGED vars
      PROVE  Edges \subseteq Edges'
  BY <1>23 DEF vars, store, job, Edges
<1> QED BY [Next]_vars, <1>1, <1>2, <1>3, <1>4, <1>5, <1>6, <1>7, <1>8, <1>9, <1>10, <1>11, <1>12, <1>13, <1>14, <1>15, <1>16, <1>17, <1>18, <1>19, <1>20, <1>21, <1>22, <1>23 DEF Next, JobStep

(* What is to be written is written or in the batch.                        *)
LEMMA WaitingStep ==
  ASSUME LabelsAssumption, BoundsAssumption, SoundInv, OneOrigin, DistinctStems, TruthInv,
         Waiting, [Next]_vars, crashes = 0, crashes' = 0
  PROVE  Waiting'
<1> USE DEF SoundInv, TypeOK, Control, Writing, TruthInv
<1>0. stem' = stem
  BY StemStays
<1> DEFINE Wait(o, p) == [id |-> IdOf(o, p), origin |-> o, sha |-> o.sha]
           Done(o, p) == /\ IdOf(o, p) \in DOMAIN nodes'
                         /\ nodes'[IdOf(o, p)] = [origin |-> o, sha |-> o.sha]
                         /\ <<IdOf(o, p), o>> \in inOrigin'
<1>k. ASSUME Writing, call' = call, owner' = owner, touched' = touched,
             pc' = "write" /\ batch'.bulk => pc = "write" /\ batch.bulk,
             \A o, p : Wait(o, p) \in batch.nodes =>
               Wait(o, p) \in batch'.nodes \/ (Done(o, p) /\ ~(pc' = "write" /\ batch'.bulk))
      PROVE  Waiting'
  <2> SUFFICES ASSUME NEW i \in touched, NEW p \in DOMAIN Labels[Extracted(i)'.sha]
               PROVE  /\ \/ RowWaiting(Extracted(i), p)'
                         \/ ~(pc' = "write" /\ batch'.bulk) /\ RowWritten(Extracted(i), p)'
                      /\ p # 1 => Child(Extracted(i), p)' \in Edges'
    BY <1>k DEF Waiting
  <2> DEFINE o == Extracted(i)
  <2>1. Extracted(i)' = Extracted(i)
    BY <1>0, <1>k, ExtractedStays
  <2>2. o \in origins \ stale
    BY <1>k DEF SnapshotsThere
  <2>3. \A q : IdOf(o, q)' = IdOf(o, q) /\ Child(o, q)' = Child(o, q)
    BY <1>0, <2>1 DEF IdOf, Child
  <2>4. RowWritten(o, p) => RowWritten(o, p)'
    <3>1. Stays(Extracted(i))
      BY <2>2, RowsStay
    <3>2. ASSUME NEW x, x = Extracted(i), RowWritten(x, p)
          PROVE  RowWritten(x, p)'
      BY <1>0, <3>1, <3>2, WrittenStays
    <3> QED BY <2>1, <3>2 DEF RowWritten, IdOf
  <2>5. RowWaiting(o, p) => RowWaiting(o, p)' \/ (RowWritten(o, p)' /\ ~(pc' = "write" /\ batch'.bulk))
    BY <1>k, <2>1, <2>3 DEF RowWaiting, RowWritten
  <2>6. /\ RowWaiting(o, p) \/ (~(pc = "write" /\ batch.bulk) /\ RowWritten(o, p))
        /\ p # 1 => Child(o, p) \in Edges
    BY <1>k, <2>1 DEF Waiting
  <2>7. Edges \subseteq Edges'
    BY <1>k, EdgesGrow
  <2>8. RowWaiting(o, p)' \/ (~(pc' = "write" /\ batch'.bulk) /\ RowWritten(o, p)')
    BY <1>k, <2>4, <2>5, <2>6
  <2> QED BY <2>3, <2>6, <2>7, <2>8

<1>1. ASSUME NEW x \in OriginId, ScanUnchanged(x)
      PROVE  Waiting'
  <2>1. pc' \notin {"write", "copy"}
    BY <1>1 DEF ScanUnchanged
  <2> QED BY <2>1 DEF Waiting
<1>2. ASSUME ScanFresh
      PROVE  Waiting'
  <2>1. pc' \notin {"write", "copy"}
    BY <1>2 DEF ScanFresh
  <2> QED BY <2>1 DEF Waiting
<1>3. ASSUME NEW x \in OriginId, ScanChanged(x)
      PROVE  Waiting'
  <2>1. pc' \notin {"write", "copy"}
    BY <1>3 DEF ScanChanged
  <2> QED BY <2>1 DEF Waiting
<1>4. ASSUME ReplaceDone
      PROVE  Waiting'
  <2>1. pc' \notin {"write", "copy"}
    BY <1>4 DEF ReplaceDone
  <2> QED BY <2>1 DEF Waiting
<1>5. ASSUME NEW x \in OriginId, DeleteNodes(x)
      PROVE  Waiting'
  <2>1. pc' \notin {"write", "copy"}
    BY <1>5 DEF DeleteNodes
  <2> QED BY <2>1 DEF Waiting
<1>6. ASSUME DeleteRow
      PROVE  Waiting'
  <2>1. pc' \notin {"write", "copy"}
    BY <1>6 DEF DeleteRow
  <2> QED BY <2>1 DEF Waiting
<1>7. ASSUME ScanDone
      PROVE  Waiting'
  <2>1. pc' \notin {"write", "copy"}
    BY <1>7 DEF ScanDone, AfterSweep
  <2> QED BY <2>1 DEF Waiting
<1>8. ASSUME PruneDone
      PROVE  Waiting'
  <2>1. pc' \notin {"write", "copy"}
    BY <1>8 DEF PruneDone, AfterSweep
  <2> QED BY <2>1 DEF Waiting
<1>9. ASSUME NEW i \in pending, Snapshot(i)
      PROVE  Waiting'
  <2>1. pc' \notin {"write", "copy"}
    BY <1>9 DEF Snapshot
  <2> QED BY <2>1 DEF Waiting
<1>10. ASSUME Build
      PROVE  Waiting'
  <2>1. /\ pc = "snapshot" /\ pending = {} /\ UNCHANGED <<call, owner, touched>>
        /\ batch'.nodes = Kept /\ batch'.edges = KeptGraph
    BY <1>10, BuildMakes DEF Build
  <2>2. ASSUME NEW i \in touched
        PROVE  /\ Extracted(i)' = Extracted(i)
               /\ \A p \in DOMAIN Labels[Extracted(i).sha] :
                    /\ RowWaiting(Extracted(i), p)'
                    /\ p # 1 => Child(Extracted(i), p)' \in Edges'
    <3>1. Extracted(i)' = Extracted(i)
      BY <1>0, <2>1, ExtractedStays
    <3>2. ASSUME NEW p \in DOMAIN Labels[Extracted(i).sha]
          PROVE  /\ RowWaiting(Extracted(i), p)'
                 /\ p # 1 => Child(Extracted(i), p)' \in Edges'
      <4>1. [id |-> IdOf(Extracted(i), p), origin |-> Extracted(i), sha |-> Extracted(i).sha] \in Kept
        BY <2>1, RowsKept
      <4>2. p # 1 => Child(Extracted(i), p) \in KeptGraph
        BY <2>1, ChildrenKept
      <4>3. IdOf(Extracted(i), p)' = IdOf(Extracted(i), p) /\ Child(Extracted(i), p)' = Child(Extracted(i), p)
        BY <1>0, <3>1 DEF IdOf, Child
      <4> QED BY <2>1, <3>1, <4>1, <4>2, <4>3 DEF RowWaiting, Edges
    <3> QED BY <3>1, <3>2
  <2> QED BY <2>1, <2>2 DEF Waiting
<1>11. ASSUME NEW r \in batch.nodes, WriteNode(r)
      PROVE  Waiting'
  <2>1. /\ pc = "write" /\ pc' = "write" /\ ~batch.bulk /\ ~batch'.bulk
        /\ UNCHANGED <<call, owner, touched>> /\ batch'.nodes = batch.nodes \ {r}
        /\ r.id \in DOMAIN nodes' /\ nodes'[r.id] = [origin |-> r.origin, sha |-> r.sha]
        /\ <<r.id, r.origin>> \in inOrigin'
    BY <1>11 DEF WriteNode, Put, Batch
  <2>2. ASSUME NEW o, NEW p, Wait(o, p) \in batch.nodes, Wait(o, p) \notin batch'.nodes
        PROVE  Done(o, p)
    <3>1. r = Wait(o, p)
      BY <2>1, <2>2
    <3> QED BY <2>1, <3>1
  <2> QED BY <2>1, <2>2, <1>k
<1>12. ASSUME NEW p \in batch.placeholders, WritePlaceholder(p)
      PROVE  Waiting'
  <2>1. /\ Writing /\ UNCHANGED <<call, owner, touched>> /\ batch'.nodes = batch.nodes
        /\ pc' = "write" /\ batch'.bulk => pc = "write" /\ batch.bulk
    BY <1>12 DEF WritePlaceholder, Batch
  <2> QED BY <2>1, <1>k
<1>13. ASSUME NEW e \in batch.edges, WriteEdge(e)
      PROVE  Waiting'
  <2>1. /\ Writing /\ UNCHANGED <<call, owner, touched>> /\ batch'.nodes = batch.nodes
        /\ pc' = "write" /\ batch'.bulk => pc = "write" /\ batch.bulk
    BY <1>13 DEF WriteEdge, Batch
  <2> QED BY <2>1, <1>k
<1>14. ASSUME BulkClear
      PROVE  Waiting'
  <2>1. /\ Writing /\ UNCHANGED <<call, owner, touched>> /\ batch'.nodes = batch.nodes
        /\ pc' = "write" /\ batch'.bulk => pc = "write" /\ batch.bulk
    BY <1>14 DEF BulkClear, Batch
  <2> QED BY <2>1, <1>k
<1>15. ASSUME BulkCopyNodes
      PROVE  Waiting'
  <2> DEFINE row(id) == CHOOSE x \in batch.nodes \union batch.placeholders : x.id = id
  <2>1. /\ pc = "copy" /\ pc' = "copy" /\ UNCHANGED <<call, owner, touched>>
        /\ DOMAIN nodes' = DOMAIN nodes \union BatchIds
    BY <1>15 DEF BulkCopyNodes
  <2>2. ASSUME NEW o, NEW p, Wait(o, p) \in batch.nodes
        PROVE  Done(o, p)
    <3> DEFINE n == IdOf(o, p)
    <3>0. n \notin Placeholder
      BY DEF IdOf, Placeholder
    <3>1. n \in BatchIds /\ n \notin Placeholder /\ o \in origins /\ UriOf(o, n)
      <4>1. Wait(o, p) \in batch.nodes /\ Wait(o, p).id = n /\ Wait(o, p).origin = o
        BY <2>2
      <4> HIDE DEF Wait, n
      <4> QED BY <3>0, <4>1 DEF BatchIds, BatchSound, BatchTrue
    <3>2. row(n) \in batch.nodes \union batch.placeholders /\ row(n).id = n
      BY <3>1 DEF BatchIds
    <3> HIDE DEF n
    <3>3. /\ nodes'[n] = IF n \in DOMAIN nodes THEN nodes[n]
                         ELSE [origin |-> row(n).origin, sha |-> row(n).sha]
          /\ <<n, row(n).origin>> \in inOrigin'
      <4>1. /\ nodes' = [id \in DOMAIN nodes \union BatchIds |->
                           IF id \in DOMAIN nodes THEN nodes[id]
                           ELSE [origin |-> row(id).origin,
                                 sha |-> IF id \in Placeholder THEN None ELSE row(id).sha]]
            /\ inOrigin' = inOrigin \union {<<id, row(id).origin>> : id \in BatchIds}
        BY <1>15 DEF BulkCopyNodes
      <4> HIDE DEF row
      <4> QED BY <3>1, <4>1
    <3> HIDE DEF row
    <3>4. row(n) \in batch.nodes
      BY <3>1, <3>2 DEF Batch
    <3>5. /\ row(n).origin \in origins /\ UriOf(row(n).origin, n) /\ row(n).sha = row(n).origin.sha
      BY <3>2, <3>4 DEF BatchSound, BatchTrue
    <3>6. row(n).origin = o
      <4>1. stem[row(n).origin.uri] = stem[o.uri] /\ row(n).origin.uri \in Uri /\ o.uri \in Uri
        BY <3>1, <3>5 DEF UriOf, OriginId
      <4> QED BY <3>1, <3>5, <4>1 DEF DistinctStems, OneOrigin
    <3>7. n \in DOMAIN nodes => nodes[n] = [origin |-> o, sha |-> o.sha]
      BY <3>1, OriginOfId
    <3>8. nodes'[n] = [origin |-> o, sha |-> o.sha] /\ n \in DOMAIN nodes' /\ <<n, o>> \in inOrigin'
      BY <2>1, <3>1, <3>3, <3>5, <3>6, <3>7
    <3> QED BY <3>8 DEF n
  <2> QED BY <2>1, <2>2, <1>k
<1>16. ASSUME NEW t \in EdgeType, BulkCopyRels(t)
      PROVE  Waiting'
  <2>1. /\ Writing /\ UNCHANGED <<call, owner, touched>> /\ batch'.nodes = batch.nodes
        /\ pc' = "write" /\ batch'.bulk => pc = "write" /\ batch.bulk
    BY <1>16 DEF BulkCopyRels, Batch
  <2> QED BY <2>1, <1>k
<1>17. ASSUME WriteDone
      PROVE  Waiting'
  <2>1. pc' \notin {"write", "copy"}
    BY <1>17 DEF WriteDone
  <2> QED BY <2>1 DEF Waiting
<1>18. ASSUME NEW x \in OriginId, CollectOrphan(x)
      PROVE  Waiting'
  <2>1. pc' \notin {"write", "copy"}
    BY <1>18 DEF CollectOrphan, job
  <2> QED BY <2>1 DEF Waiting
<1>19. ASSUME GcDone
      PROVE  Waiting'
  <2>1. pc' \notin {"write", "copy"}
    BY <1>19 DEF GcDone
  <2> QED BY <2>1 DEF Waiting
<1>20. ASSUME Crash
      PROVE  Waiting'
  BY <1>20 DEF Crash
<1>21. ASSUME NEW paths \in Paths, NEW mode \in {"keep", "prune", "gc"}, Start(paths, mode)
      PROVE  Waiting'
  <2>1. pc' \notin {"write", "copy"}
    BY <1>21 DEF Start
  <2> QED BY <2>1 DEF Waiting
<1>22. ASSUME NEW u \in Uri, NEW c \in Content, Edit(u, c)
      PROVE  Waiting'
  <2>1. pc' \notin {"write", "copy"}
    BY <1>22 DEF Edit, job
  <2> QED BY <2>1 DEF Waiting
<1>23. ASSUME UNCHANGED vars
      PROVE  Waiting'
  <2>1. Writing' => /\ Writing /\ UNCHANGED <<call, owner, touched>> /\ batch'.nodes = batch.nodes
                    /\ pc' = "write" /\ batch'.bulk => pc = "write" /\ batch.bulk
    BY <1>23 DEF vars, job
  <2> QED BY <2>1, <1>k DEF Waiting
<1> QED BY [Next]_vars, <1>1, <1>2, <1>3, <1>4, <1>5, <1>6, <1>7, <1>8, <1>9, <1>10, <1>11, <1>12, <1>13, <1>14, <1>15, <1>16, <1>17, <1>18, <1>19, <1>20, <1>21, <1>22, <1>23 DEF Next, JobStep

LEMMA LinkedStays ==
  ASSUME TypeOK, stem' = stem, call' = call, owner' = owner, touched' = touched,
         NEW es, Linked(es), es \subseteq Edges'
  PROVE  Linked(Edges)'
<1>1. \A i \in DOMAIN call.paths : Extracted(i)' = Extracted(i)
  BY ExtractedStays
<1>2. \A s : DefiningPaths(s)' = DefiningPaths(s)
  BY <1>1 DEF DefiningPaths
<1>3. \A i \in DOMAIN call.paths : \A p : IdOf(Extracted(i), p)' = IdOf(Extracted(i), p)
  BY <1>1 DEF IdOf
<1>4. ASSUME NEW i \in touched, NEW p \in DOMAIN Labels[Extracted(i).sha],
             Labels[Extracted(i).sha][p].role = "type"
      PROVE  LET s == Labels[Extracted(i).sha][p].sym
                 targets == {r.dst : r \in {x \in Edges' : x.type = "of_type"
                                                  /\ x.src = IdOf(Extracted(i), p)}}
             IN  /\ DefiningPaths(s) = {} => [unresolved |-> s] \in targets
                 /\ \A j \in touched : DefiningPaths(s) = {j} =>
                      \E q \in DOMAIN Labels[Extracted(j).sha] : IdOf(Extracted(j), q) \in targets
  BY <1>4 DEF Linked
<1>5. touched \subseteq DOMAIN call.paths
  BY DEF TypeOK
<1> QED BY <1>1, <1>2, <1>3, <1>4, <1>5 DEF Linked

(* Every declared type of a written file is linked when the batch is       *)
(* written.                                                                *)
LEMMA ConnectedStep ==
  ASSUME LabelsAssumption, BoundsAssumption, SoundInv, OneOrigin, DistinctStems, TruthInv,
         Connected, [Next]_vars, crashes = 0, crashes' = 0
  PROVE  Connected'
<1> USE DEF SoundInv, TypeOK, Control, Writing
<1>0. stem' = stem
  BY StemStays
<1>k. ASSUME Writing \/ pc = "gc" \/ pc = "idle", call' = call, owner' = owner,
             touched' = touched, calls' = calls
      PROVE  Connected'
  <2>1. CASE Writing \/ pc = "gc" \/ Idle
    <3>1. Linked(Edges)
      BY <2>1 DEF Connected
    <3>2. Edges \subseteq Edges'
      BY <1>k, EdgesGrow
    <3> QED BY <1>0, <1>k, <3>1, <3>2, LinkedStays DEF Connected
  <2>2. CASE pc = "idle" /\ ~(calls > 0)
    <3>1. pc' \in {"idle", "scan"} /\ calls' = calls
      BY <1>k, <2>2 DEF Next, JobStep, vars, job, Start, ScanUnchanged, ScanFresh, ScanChanged,
         ReplaceDone, DeleteNodes, DeleteRow, ScanDone, PruneDone, Snapshot, Build, WriteNode,
         WritePlaceholder, WriteEdge, BulkClear, BulkCopyNodes, BulkCopyRels, WriteDone,
         CollectOrphan, GcDone, Crash, Edit
    <3> QED BY <2>2, <3>1 DEF Connected, Idle
  <2> QED BY <1>k, <2>1, <2>2 DEF Idle

<1>1. ASSUME NEW x \in OriginId, ScanUnchanged(x)
      PROVE  Connected'
  <2>1. pc' \notin {"write", "copy", "gc", "idle"}
    BY <1>1 DEF ScanUnchanged
  <2> QED BY <2>1 DEF Connected, Idle
<1>2. ASSUME ScanFresh
      PROVE  Connected'
  <2>1. pc' \notin {"write", "copy", "gc", "idle"}
    BY <1>2 DEF ScanFresh
  <2> QED BY <2>1 DEF Connected, Idle
<1>3. ASSUME NEW x \in OriginId, ScanChanged(x)
      PROVE  Connected'
  <2>1. pc' \notin {"write", "copy", "gc", "idle"}
    BY <1>3 DEF ScanChanged
  <2> QED BY <2>1 DEF Connected, Idle
<1>4. ASSUME ReplaceDone
      PROVE  Connected'
  <2>1. pc' \notin {"write", "copy", "gc", "idle"}
    BY <1>4 DEF ReplaceDone
  <2> QED BY <2>1 DEF Connected, Idle
<1>5. ASSUME NEW x \in OriginId, DeleteNodes(x)
      PROVE  Connected'
  <2>1. pc' \notin {"write", "copy", "gc", "idle"}
    BY <1>5 DEF DeleteNodes
  <2> QED BY <2>1 DEF Connected, Idle
<1>6. ASSUME DeleteRow
      PROVE  Connected'
  <2>1. pc' \notin {"write", "copy", "gc", "idle"}
    BY <1>6 DEF DeleteRow
  <2> QED BY <2>1 DEF Connected, Idle
<1>7. ASSUME ScanDone
      PROVE  Connected'
  <2>1. pc' \in {"prune", "snapshot"} \/ touched' = {}
    BY <1>7 DEF ScanDone, AfterSweep
  <2> QED BY <2>1 DEF Connected, Idle, Linked
<1>8. ASSUME PruneDone
      PROVE  Connected'
  <2>1. pc' \in {"prune", "snapshot"} \/ touched' = {}
    BY <1>8 DEF PruneDone, AfterSweep
  <2> QED BY <2>1 DEF Connected, Idle, Linked
<1>9. ASSUME NEW i \in pending, Snapshot(i)
      PROVE  Connected'
  <2>1. pc' \notin {"write", "copy", "gc", "idle"}
    BY <1>9 DEF Snapshot
  <2> QED BY <2>1 DEF Connected, Idle
<1>10. ASSUME Build
      PROVE  Connected'
  <2>1. /\ pc = "snapshot" /\ pending = {} /\ UNCHANGED <<call, owner, touched>>
        /\ batch'.edges = KeptGraph
    BY <1>10, BuildMakes DEF Build
  <2>2. KeptGraph \subseteq Edges'
    BY <2>1 DEF Edges
  <2>3. Linked(KeptGraph)
    BY <2>1, TypesKept DEF TruthInv
  <2> QED BY <1>0, <2>1, <2>2, <2>3, LinkedStays DEF Connected
<1>11. ASSUME NEW r \in batch.nodes, WriteNode(r)
      PROVE  Connected'
  <2>1. /\ Writing \/ pc = "gc" \/ pc = "idle"
        /\ UNCHANGED <<call, owner, touched, calls>> /\ (pc = "idle" <=> pc' = "idle")
    BY <1>11 DEF WriteNode, env
  <2> QED BY <2>1, <1>k
<1>12. ASSUME NEW p \in batch.placeholders, WritePlaceholder(p)
      PROVE  Connected'
  <2>1. /\ Writing \/ pc = "gc" \/ pc = "idle"
        /\ UNCHANGED <<call, owner, touched, calls>> /\ (pc = "idle" <=> pc' = "idle")
    BY <1>12 DEF WritePlaceholder, env
  <2> QED BY <2>1, <1>k
<1>13. ASSUME NEW e \in batch.edges, WriteEdge(e)
      PROVE  Connected'
  <2>1. /\ Writing \/ pc = "gc" \/ pc = "idle"
        /\ UNCHANGED <<call, owner, touched, calls>> /\ (pc = "idle" <=> pc' = "idle")
    BY <1>13 DEF WriteEdge, env
  <2> QED BY <2>1, <1>k
<1>14. ASSUME BulkClear
      PROVE  Connected'
  <2>1. /\ Writing \/ pc = "gc" \/ pc = "idle"
        /\ UNCHANGED <<call, owner, touched, calls>> /\ (pc = "idle" <=> pc' = "idle")
    BY <1>14 DEF BulkClear, env
  <2> QED BY <2>1, <1>k
<1>15. ASSUME BulkCopyNodes
      PROVE  Connected'
  <2>1. /\ Writing \/ pc = "gc" \/ pc = "idle"
        /\ UNCHANGED <<call, owner, touched, calls>> /\ (pc = "idle" <=> pc' = "idle")
    BY <1>15 DEF BulkCopyNodes, env
  <2> QED BY <2>1, <1>k
<1>16. ASSUME NEW t \in EdgeType, BulkCopyRels(t)
      PROVE  Connected'
  <2>1. /\ Writing \/ pc = "gc" \/ pc = "idle"
        /\ UNCHANGED <<call, owner, touched, calls>> /\ (pc = "idle" <=> pc' = "idle")
    BY <1>16 DEF BulkCopyRels, env
  <2> QED BY <2>1, <1>k
<1>17. ASSUME WriteDone
      PROVE  Connected'
  <2>1. /\ Writing \/ pc = "gc"
        /\ UNCHANGED <<call, owner, touched, calls>>
    BY <1>17 DEF WriteDone, env
  <2> QED BY <2>1, <1>k
<1>18. ASSUME NEW x \in OriginId, CollectOrphan(x)
      PROVE  Connected'
  <2>1. /\ Writing \/ pc = "gc" \/ pc = "idle"
        /\ UNCHANGED <<call, owner, touched, calls>> /\ (pc = "idle" <=> pc' = "idle")
    BY <1>18 DEF CollectOrphan, job, env
  <2> QED BY <2>1, <1>k
<1>19. ASSUME GcDone
      PROVE  Connected'
  <2>1. /\ Writing \/ pc = "gc"
        /\ UNCHANGED <<call, owner, touched, calls>>
    BY <1>19 DEF GcDone, env
  <2> QED BY <2>1, <1>k
<1>20. ASSUME Crash
      PROVE  Connected'
  BY <1>20 DEF Crash
<1>21. ASSUME NEW paths \in Paths, NEW mode \in {"keep", "prune", "gc"}, Start(paths, mode)
      PROVE  Connected'
  <2>1. pc' \notin {"write", "copy", "gc", "idle"}
    BY <1>21 DEF Start
  <2> QED BY <2>1 DEF Connected, Idle
<1>22. ASSUME NEW u \in Uri, NEW c \in Content, Edit(u, c)
      PROVE  Connected'
  <2>1. /\ pc = "idle"
        /\ UNCHANGED <<call, owner, touched, calls>>
    BY <1>22 DEF Edit, job
  <2> QED BY <2>1, <1>k
<1>23. ASSUME UNCHANGED vars
      PROVE  Connected'
  <2>1. UNCHANGED <<pc, calls, call, owner, touched>>
    BY <1>23 DEF vars, job, env
  <2>2. CASE pc \in {"write", "copy", "gc", "idle"}
    BY <2>1, <2>2, <1>k
  <2>3. CASE pc \notin {"write", "copy", "gc", "idle"}
    BY <2>1, <2>3 DEF Connected, Idle
  <2> QED BY <2>2, <2>3
<1> QED BY [Next]_vars, <1>1, <1>2, <1>3, <1>4, <1>5, <1>6, <1>7, <1>8, <1>9, <1>10, <1>11, <1>12, <1>13, <1>14, <1>15, <1>16, <1>17, <1>18, <1>19, <1>20, <1>21, <1>22, <1>23 DEF Next, JobStep

LEMMA WholeStep ==
  ASSUME LabelsAssumption, BoundsAssumption, SoundInv, OneOrigin, TruthInv, WholeInv, [Next]_vars
  PROVE  WholeInv'
<1>1. DistinctStems' <=> DistinctStems
  BY StemStays DEF DistinctStems
<1>2. crashes' = 0 => crashes = 0
  <2>1. crashes' = crashes \/ Crash
    BY DEF Next, JobStep, vars, env, Start, ScanUnchanged, ScanFresh, ScanChanged, ReplaceDone,
           DeleteNodes, DeleteRow, ScanDone, PruneDone, Snapshot, Build, WriteNode,
           WritePlaceholder, WriteEdge, BulkClear, BulkCopyNodes, BulkCopyRels, WriteDone,
           CollectOrphan, GcDone, Edit
  <2>2. Crash => crashes' = crashes + 1 /\ crashes \in Nat
    BY DEF Crash, SoundInv, TypeOK
  <2> QED BY <2>1, <2>2
<1>3. CASE DistinctStems /\ crashes' = 0
  BY <1>2, <1>3, SettledStep, WaitingStep, AccountedStep, ConnectedStep DEF WholeInv
<1> QED BY <1>1, <1>3 DEF WholeInv

LEMMA WholeInit ==
  ASSUME Init
  PROVE  WholeInv
<1>1. Settled /\ Waiting
  BY DEF Init, Settled, Waiting, Writing
<1>2. Accounted /\ Connected
  BY DEF Init, Accounted, Connected, Writing, Idle
<1> QED BY <1>1, <1>2 DEF WholeInv

(* What the invariant says of a store that no extract is working on.       *)
LEMMA WholeAtRest ==
  ASSUME LabelsAssumption, BoundsAssumption, SoundInv, TruthInv, WholeInv
  PROVE  WrittenWhole
<1>1. ASSUME DistinctStems, NEW o, Whole(o)
      PROVE  Complete(o)
  <2> SUFFICES ASSUME NEW p \in DOMAIN Labels[o.sha]
               PROVE  LET n == IdOf(o, p)
                      IN  /\ n \in DOMAIN nodes /\ nodes[n] = [origin |-> o, sha |-> o.sha]
                          /\ {x \in inOrigin : x[1] = n} = {<<n, o>>}
                          /\ p # 1 => [type |-> "child", src |-> IdOf(o, 1), dst |-> n] \in rels
    BY <1>1 DEF Complete, Whole
  <2> DEFINE n == IdOf(o, p)
  <2>1. n \in DOMAIN nodes /\ nodes[n] = [origin |-> o, sha |-> o.sha] /\ <<n, o>> \in inOrigin
    BY <1>1 DEF Whole, RowWritten
  <2>2. p # 1 => [type |-> "child", src |-> IdOf(o, 1), dst |-> n] \in rels
    BY <1>1 DEF Whole, Child
  <2>3. n \notin Placeholder
    BY DEF IdOf, Placeholder
  <2>4. \A x \in inOrigin : x[1] = n => x = <<n, o>>
    <3>1. \A x \in inOrigin : x = <<x[1], x[2]>>
      BY DEF SoundInv, TypeOK
    <3>2. \A x \in inOrigin : x[1] = n => x[2] = o
      BY <1>1, <2>1, <2>3 DEF TruthInv, InOriginTrue
    <3> HIDE DEF n
    <3> QED BY <3>1, <3>2
  <2>5. {x \in inOrigin : x[1] = n} = {<<n, o>>}
    <3> HIDE DEF n
    <3> QED BY <2>1, <2>4
  <2> QED BY <2>1, <2>2, <2>5
<1>2. FilesComplete
  <2> SUFFICES ASSUME DistinctStems, crashes = 0, Idle, NEW i \in DOMAIN call.paths
               PROVE  PrefixOfPath(i) \in DOMAIN owner /\ Complete(Extracted(i))
    BY DEF FilesComplete
  <2>1. Owned(i) /\ Extracted(i) \in origins \ stale
    BY DEF WholeInv, Accounted, Idle, Scanned, Awaited
  <2>2. Unwritten = {}
    BY DEF Unwritten, Idle
  <2>3. Whole(Extracted(i))
    BY <2>1, <2>2 DEF WholeInv, Settled
  <2> QED BY <1>1, <2>1, <2>3 DEF Owned
<1>3. TypesLinked
  <2> SUFFICES ASSUME DistinctStems, crashes = 0, Idle
               PROVE  Linked(rels)
    BY DEF TypesLinked, Linked
  <2>1. Linked(Edges)
    BY DEF WholeInv, Connected
  <2>2. Edges = rels
    BY DEF Edges, Idle, SoundInv, Control, Writing, EmptyBatch
  <2> QED BY <2>1, <2>2
<1> QED BY <1>2, <1>3 DEF WrittenWhole

(* When no two files have one stem and no extract has been cut short: after*)
(* an extract, whatever was stored before it, every file it names has every*)
(* one of its rows, with one IN_ORIGIN rel each and its tree, whether it   *)
(* was rewritten or left as it was, row by row or in bulk; and a declared  *)
(* type of a rewritten file is linked, to the one file of the call that    *)
(* defines it or to a placeholder, from the cache or not.                  *)
THEOREM FilesAreWhole ==
  ASSUME LabelsAssumption, BoundsAssumption
  PROVE  Spec => []WrittenWhole
<1>1. WholeInv /\ SoundInv /\ OneOrigin /\ TruthInv /\ [Next]_vars => WholeInv'
  BY WholeStep
<1>2. Init => WholeInv
  BY WholeInit
<1>3. WholeInv /\ SoundInv /\ TruthInv => WrittenWhole
  BY WholeAtRest
<1> QED BY <1>1, <1>2, <1>3, Truth, PTL DEF Spec

=============================================================================
